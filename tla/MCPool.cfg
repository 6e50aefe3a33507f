SPECIFICATION FairSpec
CONSTANTS
    Clients = {c1, c2, c3}
    Closers = {k1}
    NoTask = NoTask
    MaxSize = 2
    Rounds = 2
INVARIANTS TypeOK NothingLost NoStrandedWaiter
PROPERTIES ImplementsAllocator WaiterServed CloseGetsThrough
