CONSTANTS
    s1 = s1
    s2 = s2
    s3 = s3
    s4 = s4
    c1 = c1
    c2 = c2
    dHost = dHost
    dGuest = dGuest
    Socket <- FourSockets
    Code = {c1, c2}
    HostDevice = {dHost}
    GuestDevice = {dGuest}
    ReuseCodes = TRUE
    None = None
SYMMETRY FourSymmetry
SPECIFICATION Spec
INVARIANTS
    RegistryConsistent
    AbandonedIsTimed
    NoTrafficBeforeReady
    EndIsTold
PROPERTIES
    ExpiredCodeAdmitsNobody
    EndsOnlyWhenPeerGone
CHECK_DEADLOCK FALSE
