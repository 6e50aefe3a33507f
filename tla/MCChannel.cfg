SPECIFICATION FairSpec
CONSTANTS
    Users = {u1}
    Factory = Factory
    NoTask = NoTask
    MaxChans = 2
INVARIANTS TypeOK RestoredIsUsable NoChannelLeaks LockHeldInside
PROPERTIES ImplementsLink RestoreEnds CloseEnds Recovers
CHECK_DEADLOCK FALSE
