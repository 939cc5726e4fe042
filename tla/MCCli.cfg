\* The peer may stop: it is closed, or nobody does anything more.
CONSTANTS
    Connection = {c1, c2}
    First = c1
    MAX_RECONNECT_ATTEMPTS = 3
    MaxTimers = 1
    None = None
SPECIFICATION FairSpec
INVARIANTS NeverIdle NoSendWhileConnecting TypedOnce
PROPERTIES CloseStopsShell UnreachableGivesUp ShellIsResumed InputIsResumed
CHECK_DEADLOCK FALSE
