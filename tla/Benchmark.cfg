SPECIFICATION Spec
CONSTANTS
    n = 3
    MaxRetries = 3
INVARIANT TypeOK
INVARIANT NeverFurtherBehind
INVARIANT TimesAreMeasured
PROPERTY ClientEnds
CHECK_DEADLOCK FALSE
