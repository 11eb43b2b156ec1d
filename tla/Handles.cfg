CONSTANTS
    t1 = t1  t2 = t2  p1 = p1
    Kernel = Kernel
    None = None
    Thread = {t1, t2}
    Process = {p1}
    Owner <- OneOwner
    Capacity = 2
    FirstInstance <- NearTheLimit
    MaxObjects = 2
    MaxOpens <- FewOpens
SPECIFICATION HandleSpec
CHECK_DEADLOCK FALSE
INVARIANTS
    CountsMatchSlots
    NoDanglingSlot
    HeldHandleResolves
PROPERTY
    ImplementsObjectStore
