SPECIFICATION FairSpec
CONSTANTS
    w1 = w1
    w2 = w2
    Worker <- MCWorker
    NumBuckets = 2
    Pid = {p1}
    NoPid = NoPid
    MaxMsgs = 2
    MaxSends = 2
    Busy = {1}
    MaxLong = 1
    MaxQueue = 2
    Span <- MCSpan
INVARIANTS
    NothingStranded
    PrintedInOrder
    Complete
    PanicHasCause
PROPERTIES
    OneBlockPerBucket
    Terminates
    PanicSurfaces
