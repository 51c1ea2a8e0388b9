\* Five frames in up to three buffers, released in any order, two window sizes;
\* and three workers, two rows, two frames and the jobs between them.
SPECIFICATION MCSpec
CONSTANTS
    Bufs = {b1, b2, b3}
    Sizes = {s1, s2}
    PreapplyAfter = 1
    MaxFrames = 5
    None = None
    NumWorkers = 3
    Rows = {0, 1}
    GlyphRows = {0}
    BlinkRows = {0, 1}
    MaxRendered = 2
INVARIANTS
    NoTornFrame
    BuffersKept
    ThreadsShare
PROPERTIES
    MemoryFreed
    ImplementsFrameRows
    Joined
CHECK_DEADLOCK FALSE
