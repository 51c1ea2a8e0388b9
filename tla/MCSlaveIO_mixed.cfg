\* A paste that begins while an ordinary event is partly written.
SPECIFICATION MCSpec
CONSTANTS
    Events = {e1}
    Pastes = {p1}
    Drops = {}
    EventLen = 2
    MaxChunks = 1
    MaxTransfers = 1
INVARIANT EventUnmixed
CHECK_DEADLOCK FALSE
