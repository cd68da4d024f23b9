SPECIFICATION Spec
CONSTANTS
    Funs <- MCFuns
    Groups <- MCGroups
    Types <- MCTypes
    Traits <- MCTraits
    Impls <- MCImpls
    Decls <- MCDecls
    AssocImpls <- MCAssocImpls
    Opaques <- MCOpaques
    Krates <- MCKrates
    None = None
    NoImpl = NoImpl
    MaxMentions = 3
    MaxImplFacts = 2
    MaxConverted = 2
    MaxCalls = 4
INVARIANTS
    KeptExactly
    BroadcastOnlyNeverCalled
    BucketLosesNothing
    ComponentsExact
    CalleesFirst
    AnswersExact
