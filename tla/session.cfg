SPECIFICATION Spec
CONSTANTS
    MaxTabs = 3
    Nodes = {n1, n2}
    MaxCalls = 3
    Keys = {x}
    Indices = {0, 1}
    Nothing = Nothing
    MaxEvents = 1
    Mixes <- AllMixes
CHECK_DEADLOCK FALSE
SYMMETRY Symmetry
INVARIANTS
    TypeOK
    RefsOfLastSnapshot
    GuardedIndex
