\* Two transfers: pastes from the clipboard, the primary selection or OSC-52,
\* or a drag.
SPECIFICATION MCSpec
CONSTANTS
    Events = {e1, e2}
    Pastes = {p1, p2}
    Drops = {d1}
    EventLen = 2
    MaxChunks = 1
    MaxTransfers = 2
INVARIANTS
    QueuesServed
    WireInOrder
PROPERTIES
    Drained
CHECK_DEADLOCK FALSE
