SPECIFICATION Spec
CONSTANTS
    Users = {u1}
    Factory = Factory
    NoTask = NoTask
    MaxChans = 2
PROPERTY ClosedByUser
CHECK_DEADLOCK FALSE
