\* The machine stops when all processes have ended.
CONSTANTS
    Process = {p1, p2, p3}
    User = {u1, u2}
    DefaultUser = DefaultUser
    OtherUser = OtherUser
    None = None
SYMMETRY Symmetry
SPECIFICATION Spec
INVARIANTS PolicyIsSum RecordedKeyKept OneDevice
CHECK_DEADLOCK FALSE
