\* A footclient forwards a signal while its terminal is shutting down.
SPECIFICATION Spec
CONSTANTS
    Terms = {t1}
    Clients = {c1}
    Allowed = {"sigusr"}
    None = None
INVARIANT ClientSwitchWorks
CHECK_DEADLOCK FALSE
