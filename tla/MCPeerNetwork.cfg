\* Once no sockets are left a peer may stop.
CONSTANTS
    Peer = {p1, p2}
    MaxSocket = 3
    Asking = {p2}
    MaxPairs = 1
    MaxSends = 1
    MaxLost = 1
    None = None
SPECIFICATION FairSpec
INVARIANTS RegistryAgrees NothingRefused 
PROPERTIES Reachable PairingMounts
CHECK_DEADLOCK FALSE
