SPECIFICATION Spec
CONSTANTS
    MaxTabs = 1
    Nodes = {n1}
    MaxCalls = 3
    Keys = {x}
    Indices = {0}
    Nothing = Nothing
    MaxEvents = 0
    Mixes <- AllMixes
CHECK_DEADLOCK FALSE
PROPERTIES
    PartitionedRefused
