SPECIFICATION LiveSpec
CONSTANTS
    NumLabels = 3
    MaxDepth = 1
    MultipleErrors = {0, 1, 2}
    MaxQueries = 2
INVARIANTS
    VerdictSound
    EveryFailureBlamed
    EarliestBlamed
    BlameJustified
    ScopesRestored
PROPERTY QueryEnds
\* The loop stops after MaxQueries queries; QueryEnds says that each one ends.
CHECK_DEADLOCK FALSE
