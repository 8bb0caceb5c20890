SPECIFICATION Spec
CONSTANTS
    MaxMsgs = 3
    MaxTasks = 2
    Shapes <- MCShapes
    SendFails = TRUE
INVARIANT CountAgrees
INVARIANT AtMostOneReply
INVARIANT ReplyFaithful
INVARIANT FifoBarrier
PROPERTY DrainWaits
PROPERTY ImplementsService
CHECK_DEADLOCK FALSE
