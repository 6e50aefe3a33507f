CONSTANTS
    Msgs = {m1, m2}
    MaxDeliveries = 2
    PublisherConfirms = TRUE
    Own = {}
    Shared = {}
    Modes <- MCModes
    MaxConsumers = 2
SPECIFICATION FairSpec
INVARIANTS TypeOK BufferReturned ConsumerHasOwner
PROPERTY WaiterFed
