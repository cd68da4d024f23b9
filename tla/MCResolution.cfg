CONSTANT
    MaxInstrs = 2
    Deref = "*"
    Projections <- MCProjections
    Cfgs <- MCCfgs
    Tracked <- MCTracked
SPECIFICATION Spec
INVARIANT AnalysesExact
INVARIANT ResolutionSound
INVARIANT ResolutionComplete
PROPERTY InferenceEnds
