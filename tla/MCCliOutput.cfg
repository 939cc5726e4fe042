\* The peer may stop: it is closed, or nobody does anything more.
CONSTANTS
    Connection = {c1, c2, c3}
    First = c1
    MAX_RECONNECT_ATTEMPTS = 3
    MaxTimers = 1
    None = None
SPECIFICATION Spec
INVARIANT OutputResumes
CHECK_DEADLOCK FALSE
