SPECIFICATION Spec
CONSTANTS
    NumLabels = 3
    MaxDepth = 1
    MultipleErrors = {0, 1, 2}
    MaxQueries = 2
INVARIANT FailureListed
CHECK_DEADLOCK FALSE
