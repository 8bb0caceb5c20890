SPECIFICATION Spec
CONSTANTS
    Threads = {t1, t2, t3}
    Devices = {d1, d2}
    Faults = {"list", "describe", "refuse", "detach"}
    MaxCalls = 3
SYMMETRY ThreadAndDeviceSymmetry
INVARIANT TypeOK
INVARIANT FailsOnlyWhenTaken
INVARIANT DetachedMeansBare
CHECK_DEADLOCK FALSE
