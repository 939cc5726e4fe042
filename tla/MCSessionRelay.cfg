\* The system stops when both peers have ended.
CONSTANTS
    MaxConnections = 2
    MaxCuts = 1
    MaxFailures = 1
    MaxTyped = 0
    MaxOutput = 0
    MAX_RECONNECT_ATTEMPTS = 3
    None = None
SPECIFICATION FairSpec
PROPERTIES ImplementsRelay EndTogether
CHECK_DEADLOCK FALSE
