CONSTANTS
    x1 = x1
    x2 = x2
    q = q
    Exchanges = {x1}
    Queues = {q}
    Bindings <- MCDirect
    Consumers <- MCNone
    Prefetches = {}
    Durable = {}
    Passive = {}
    NotRobust = {}
    Deletes <- MCDeleteExchange
    MaxLosses = 1
    MaxSetbacks = 0
SPECIFICATION FairSpec
PROPERTY AlwaysRestored
