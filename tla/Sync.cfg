CONSTANTS
    t1 = t1  t2 = t2  t3 = t3  p1 = p1  s1 = s1
    Nil = Nil
    Thread = {t1, t2, t3}
    Level <- LevelsInUse
    TimeSlice = 1
    UserSema = {s1}
    InitCount = 0
    Process <- OneProcess
    Owner <- OwnerOne
    Primary <- PrimaryOne
    Boot = p1
    SetClass = {"normal", "more"}
    ProcessClass = {"foreground"}
    GuestCalls <- SyncCalls
    SignalCounts = {1, 2}
    MaxCount = 1
    MaxLogons = 1
    MaxExtraKills = 0
    CountWidth = 16
SPECIFICATION Spec
SYMMETRY CreatedAlike
CHECK_DEADLOCK FALSE
INVARIANTS
    ReadyRingsSound
    NoThreadLost
    CpuRunsRunningThread
    CountMatchesWaiters
    SemaphoreQueuesSound
PROPERTIES
    DispatchesHighest
    ImplementsSemaphore
    ImplementsFifo
