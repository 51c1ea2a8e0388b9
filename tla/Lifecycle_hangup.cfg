\* A footclient hangs up after its terminal's window was closed.
SPECIFICATION Spec
CONSTANTS
    Terms = {t1}
    Clients = {c1}
    Allowed = {"hangup"}
    None = None
PROPERTY DestroyedOnlyWhenDone
CHECK_DEADLOCK FALSE
