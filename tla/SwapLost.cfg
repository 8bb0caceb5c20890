SPECIFICATION Spec
CONSTANTS
    Sizes = {1}
    Frees = {1024}
    FaultSets = {{"migrate"}}
INVARIANT SuccessMeansSwapped
CHECK_DEADLOCK FALSE
