SPECIFICATION Spec
CONSTANTS
    Funs <- MCFuns
    Groups <- MCGroups
    Types <- MCTypes
    Traits <- MCTraits
    Impls <- MCImpls
    Decls <- MCDecls
    AssocImpls <- MCAssocImpls
    Opaques <- MCOpaques
    Krates <- MCKrates
    None = None
    NoImpl = NoImpl
    MaxMentions = 0
    MaxImplFacts = 2
    MaxConverted = 0
    MaxCalls = 0
INVARIANTS
    AddedEdgesCloseNoCycle
