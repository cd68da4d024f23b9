SPECIFICATION ExpandSpec
CONSTANTS
    MaxFailures = 3
    MaxDepth = 4
    MaxLeaves = 2
INVARIANTS
    OutputIsTree
    AllAsked
\* A finished driver has no next step.
CHECK_DEADLOCK FALSE
