SPECIFICATION Spec
CONSTANTS
    Users = {u1}
    Factory = Factory
    NoTask = NoTask
    MaxChans = 2
PROPERTY ReconnectRestores
CHECK_DEADLOCK FALSE
