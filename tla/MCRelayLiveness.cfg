CONSTANTS
    s1 = s1
    s2 = s2
    s3 = s3
    s4 = s4
    c1 = c1
    c2 = c2
    dHost = dHost
    dGuest = dGuest
    Socket <- ThreeSockets
    Code = {c1, c2}
    HostDevice = {dHost}
    GuestDevice = {dGuest}
    ReuseCodes = FALSE
    None = None
SPECIFICATION FairSpec
INVARIANT CodeLeadsToRoom
PROPERTIES
    LifeCycleSpec
    UnapprovedEnds
    LossEndsSession
CHECK_DEADLOCK FALSE
