SPECIFICATION FairSpec
CONSTANTS
    MaxReq = 2
    MaxCmds = 2
    MaxOut = 3
    InCap = 1
    OutCap = 2
INVARIANTS
    AnswersPaired
    QuietBetweenRequests
    PanicExplained
PROPERTIES
    RequestEnds
    DropEnds
\* A dropped process has no next step; DropEnds says it gets there.
CHECK_DEADLOCK FALSE
