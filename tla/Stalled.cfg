SPECIFICATION Spec
CONSTANTS
    Space = 10
    Window = 2
    FirstSeq = 7
    MaxArrivals = 2
    MaxWaited = 2
    MaxReports = 2
    Stream <- KeyframeStream
INVARIANT FailureIsExplained
CHECK_DEADLOCK FALSE
