CONSTANTS
    Calls = {c1}
    Expirations = {TRUE, FALSE}
    Funcs = {f, g}
    AutoDeletes <- MCAutoDeletes
    MaxLosses = 1
SPECIFICATION FairSpec
INVARIANTS TypeOK PendingIsReachable AnswerUnderWay AnsweredBeforeForgotten
PROPERTY WaitingEnds
