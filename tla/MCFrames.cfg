\* A loop with three handlers at a time, of four files, and two calls per
\* callback; and every interleaving of changes, output, timers and frame
\* callbacks.
SPECIFICATION MCSpec
CONSTANTS
    Handlers = {h1, h2, h3}
    Fds = {3, 4, 5}
    Signals = {2, 17}
    MaxFiles = 4
    MaxCalls = 2
    DelayedRender = TRUE
    MaxSyncs = 2
INVARIANTS
    HandlersKept
    FramesScheduled
PROPERTIES
    RightFile
    Served
    AtomicUpdate
    
CHECK_DEADLOCK FALSE
