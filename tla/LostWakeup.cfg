CONSTANTS
    k1 = k1  k2 = k2
    None = None
    Key = {k1, k2}
    Delays = {0, 2}
    MaxTime = 3
    MaxEvents = 3
    TimerCalls = {"schedule_event"}
SPECIFICATION FairTimerSpec
CHECK_DEADLOCK FALSE
PROPERTY
    EveryEventFires
