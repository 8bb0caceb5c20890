CONSTANTS
    p1 = p1
    p2 = p2
    Procs <- MCProcs
    PciDevices = {0, 2}
    HostPci = 3
    IvDevices = {0, 1, 2}
    HookProcs = {0, 2}
    MaxAttempts = 2
    FaultSets <- AnyFault

SPECIFICATION Spec

INVARIANTS
    TypeOK
    SuspendedInTime
    SuccessMeansComplete
    ResumedLast
    RestoredOnError

PROPERTIES
    TaskEnds
    ProcsResume

CHECK_DEADLOCK FALSE
