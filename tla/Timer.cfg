CONSTANTS
    k1 = k1  k2 = k2
    None = None
    Key = {k1, k2}
    Delays = {0, 1, 2}
    MaxTime = 4
    MaxEvents = 4
    MaxRequests = 3
    TimerCalls = {"timer_after", "timer_cancel"}
SPECIFICATION Spec
SYMMETRY EitherTimer
CHECK_DEADLOCK FALSE
INVARIANTS
    NoRequestLost
    OnceUnlessLate
PROPERTY
    NotEarly
