SPECIFICATION Spec
CONSTANTS
    Key = {k1, k2}
    Val = {v1, v2}
    None = None
    Absent = Absent
    MaxDepth = 3
    MaxBinds = 2
PROPERTY ImplementsScopeStack
SYMMETRY Symmetric
CHECK_DEADLOCK FALSE
