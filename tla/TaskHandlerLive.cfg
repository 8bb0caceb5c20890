SPECIFICATION Spec
CONSTANTS
    MaxMsgs = 3
    MaxTasks = 2
    Shapes <- MCThreadShapes
    SendFails = FALSE
PROPERTY QuitTerminates
PROPERTY EveryRequestAnswered
CHECK_DEADLOCK FALSE
