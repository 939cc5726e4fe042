\* The system stops when both peers have ended.
CONSTANTS
    MaxConnections = 3
    MaxCuts = 1
    MaxFailures = 0
    MaxTyped = 0
    MaxOutput = 0
    MAX_RECONNECT_ATTEMPTS = 3
    None = None
SPECIFICATION FairSpec
PROPERTY NobodyLeftAlone
CHECK_DEADLOCK FALSE
