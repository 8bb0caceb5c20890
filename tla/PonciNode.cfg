SPECIFICATION Spec
CONSTANTS
    MaxLaunch = 2
    CmdLines <- MCCmdLines
    Groups = {g1}
    Requests <- MCRequests
    MaxTasks = 2
INVARIANT TypeOK
INVARIANT SingleInstance
INVARIANT SuccessIsTrue
PROPERTY LoneTaskEnds
CHECK_DEADLOCK FALSE
