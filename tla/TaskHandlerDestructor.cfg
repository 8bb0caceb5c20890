SPECIFICATION Spec
CONSTANTS
    MaxMsgs = 2
    MaxTasks = 1
    Shapes <- MCThreadShapes
    SendFails = FALSE
INVARIANT DestructorWaitsForAll
CHECK_DEADLOCK FALSE
