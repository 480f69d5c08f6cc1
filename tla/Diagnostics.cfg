SPECIFICATION Spec
CONSTANTS
    Space = 10
    Window = 2
    FirstSeq = 7
    MaxArrivals = 4
    MaxWaited = 2
    MaxReports = 1
    Stream <- KeyframeStream
INVARIANT SequenceAccounting
INVARIANT RunsMeasureFrames
 
CHECK_DEADLOCK FALSE
