SPECIFICATION FairSpec
CONSTANTS
    Users = {u1}
    Channels = {}
    FailFast = TRUE
    MaxConns = 3
    SlowCallbacks = FALSE
    OtherErrors = FALSE
PROPERTIES AlwaysReconnects
