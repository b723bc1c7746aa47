CONSTANTS
    n1 = n1
    n2 = n2
    n3 = n3
    NoRun = NoRun
    NoSource = NoSource
    TriggerKey = TriggerKey
    Node <- MC_Node
    Output <- MC_Output
    Input <- MC_Input
    MaxDepth <- MC_MaxDepth
    MaxConnections <- MC_MaxConnections

SPECIFICATION Spec
SYMMETRY MC_Symmetry
INVARIANT
    StartNodesLeadToDestination
CHECK_DEADLOCK FALSE
