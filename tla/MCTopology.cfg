CONSTANTS
    x1 = x1
    x2 = x2
    q = q
    Exchanges = {x1, x2}
    Queues = {q}
    Bindings <- MCBindings
    Consumers <- MCConsumers
    Prefetches = {1}
    Durable = {x1}
    Passive = {x1}
    NotRobust = {x1}
    Deletes <- MCDeletes
    MaxLosses = 1
    MaxSetbacks = 1
SPECIFICATION FairSpec
INVARIANTS TypeOK WantedIsThere RemovedStaysAway
PROPERTY RestoreEnds
