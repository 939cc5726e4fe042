CONSTANTS
    Key <- MCKey
    Limit <- MCLimit
    WindowMs <- MCWindowMs
    MaxTime = 8
    MaxEvents = 4
SPECIFICATION Spec
INVARIANTS
    SlidingWindowBound
    RetryAfterExact
PROPERTY FullSpec
