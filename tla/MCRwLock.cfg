SPECIFICATION FairSpec
CONSTANTS
    Reader = {c1, c2, c3}
    Writer = {c1, c2, c3}
    V = {v1, v2}
    None = None
    MaxRc = 2
    Forgets = "yes"
INVARIANTS
    Exclusion
    CellInitialised
    CountExact
PROPERTIES
    InnerReturns
    ImplementsToks
\* Clients wait for ever for a handle that was dropped without a release.
CHECK_DEADLOCK FALSE
