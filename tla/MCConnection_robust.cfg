SPECIFICATION FairSpec
CONSTANTS
    Users = {u1, u2}
    Channels = {c1}
    FailFast = TRUE
    MaxConns = 3
    SlowCallbacks = FALSE
    OtherErrors = TRUE
INVARIANTS TypeOK ConnectedIsLive NothingOpenAfterClose NoneWaitsForNothing
PROPERTIES ImplementsLink OnlyLostIsReplaced Reconnects CloseReturns ConnectReturns
