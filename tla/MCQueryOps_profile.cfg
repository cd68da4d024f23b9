SPECIFICATION Spec
CONSTANTS
    Config <- MCProfile
    MaxCmds = 2
    MaxExpanded = 2
INVARIANT ProfileRerunRuns
CHECK_DEADLOCK FALSE
