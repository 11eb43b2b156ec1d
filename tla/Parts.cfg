SPECIFICATION PartsSpec
CHECK_DEADLOCK FALSE
CONSTANTS
    Parts = {"property", "msgqueue", "driver", "order", "focus", "redraw", "memory"}
    g1 = g1
    g2 = g2
    Ref = {r1, r2}
    Value = {0, 1}
    MaxSubscriptions = 4
    QueueThread = {t1, t2}
    MaxLength = 2
    MaxMessages = 3
    MaxNotifies = 4
    Sender = {s1, s2, s3}
    Driver = Driver
    Nobody = Nobody
    MaxPending = 1
    MaxCommands = 3
    Group = {g1, g2, g3, g4}
    Client = {c1}
    NoGroup = NoGroup
    ClientOf <- MCClientOf
    Priority = {0, 1, 2}
    Position <- MCPosition
    MaximumElement = 4
    MaxQueue = 5
    Win = {w1, w2}
    Size <- MCSize
    Full <- MCFull
    ClientRect <- MCClientRect
    RedrawPriority = {0, 1}
    MaxPaints = 3
    WordBits = 2
    Words = 2
    PagesPerTable = 2
    CommittedWidth = 5
SYMMETRY MCWindows
INVARIANTS
    SubscribedOnce
    NobodyWaitsBesideData
    FocusEventsPaired
    OrderCheckExact
    RedrawsCover
    EveryCommandDispatched
    ChunkSound
PROPERTIES
    ChangeTellsAll
