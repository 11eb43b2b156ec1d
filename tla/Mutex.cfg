CONSTANTS
    t1 = t1  t2 = t2  t3 = t3  t4 = t4
    Nil = Nil
    Thread = {t1, t2, t3}
    Level <- LevelsInUse
    TimeSlice = 1
    Main = t1
    Impatient = {t2}
    Restless = {t3}
    Mortal = {t3}
    Resumed = {t2}
    SetClass = {"normal", "more"}
    GuestCalls <- AllCalls
    MaxClaims = 2
    MaxDrift = 1
SPECIFICATION Spec
CHECK_DEADLOCK FALSE
INVARIANTS
    MutexRingsSound
    NoWaiterForgotten
    HeldWhileWanted
    MutualExclusion
PROPERTY
    ImplementsLock
