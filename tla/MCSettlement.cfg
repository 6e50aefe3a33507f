CONSTANTS
    Msgs = {m1}
    MaxDeliveries = 2
    PublisherConfirms = FALSE
    Own = {"ack", "drop", "requeue"}
    Shared = {"ack"}
    Modes <- MCModes
SPECIFICATION SettleFairSpec
INVARIANTS SettleTypeOK SettledOnce ProcessedIsSettled
PROPERTY HandledIsSettled
