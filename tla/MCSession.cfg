\* The system stops when both peers have ended.
CONSTANTS
    MaxConnections = 2
    MaxCuts = 1
    MaxFailures = 0
    MaxTyped = 2
    MaxOutput = 1
    MAX_RECONNECT_ATTEMPTS = 3
    None = None
SPECIFICATION Spec
INVARIANTS StreamsInOrder 
CHECK_DEADLOCK FALSE
