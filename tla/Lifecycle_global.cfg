\* The server switches themes while a client is still connecting.
SPECIFICATION Spec
CONSTANTS
    Terms = {t1}
    Clients = {c1}
    Allowed = {"global"}
    None = None
INVARIANT GlobalSwitchWorks
CHECK_DEADLOCK FALSE
