SPECIFICATION IpcFairSpec
CONSTANTS
    c1 = c1
    c2 = c2
    pool = pool
    loose = loose
    Client = {c1, c2}
    Session = {pool, loose}
    Uses <- MCUses
    SyncSlot <- MCSyncSlot
    ProcessSlot = 2
    AsyncSlots <- MCAsyncSlots
    SlotLimit = 6
    MaxRequests = 3
    MaxCloses = 1
INVARIANTS ServerMessagesApart QueueIntact AnsweredOnce
PROPERTIES ImplementsRequestReply EveryRequestServed
CHECK_DEADLOCK FALSE
