SPECIFICATION LiveSpec
CONSTANTS
    Config <- MCConfig
    MaxCmds = 2
    MaxExpanded = 2
INVARIANTS
    AxiomsAfterObligations
    NothingLost
    NoErrorLost
PROPERTY ComponentEnds
\* A finished component has no next step; ComponentEnds says it does finish.
CHECK_DEADLOCK FALSE
