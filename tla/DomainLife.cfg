SPECIFICATION Spec
CONSTANTS
    n1 = n1
    n2 = n2
    n3 = n3
    d1 = d1
    d2 = d2
    Doms <- TwoDoms
    Nodes <- ThreeNodes
    nodes <- TwoListed
    Requests <- MCRequests
    MaxTasks = 3
    MaxBusy = 2
INVARIANT TypeOK
INVARIANT OneInstance
PROPERTY SuccessMeansDone
PROPERTY TasksEnd
CHECK_DEADLOCK FALSE
