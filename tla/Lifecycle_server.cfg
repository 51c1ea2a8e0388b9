\* Two terminals, two footclients, every incident at any time.
SPECIFICATION FairSpec
CONSTANTS
    Terms = {t1, t2}
    Clients = {c1, c2}
    Allowed = {"hangup", "sigusr", "global", "exit"}
    None = None
INVARIANTS
    NothingDangles
PROPERTIES
    DestroyedWhenDone
    AnsweredBeforeClosed
    
CHECK_DEADLOCK FALSE
