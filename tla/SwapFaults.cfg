SPECIFICATION Spec
CONSTANTS
    Sizes = {1, 2}
    Frees = {0, 1, 2048}
    FaultSets <- AnyFault
INVARIANT TypeOK
INVARIANT OneHome
INVARIANT SuccessMeansIntact
INVARIANT RestoredOnEarlyError
PROPERTY SwapEnds
CHECK_DEADLOCK FALSE
