CONSTANTS
    t1 = t1
    t2 = t2
    t3 = t3
    n1 = n1
    n2 = n2
    v1 = v1
    v2 = v2
    Threads = {t1, t2, t3}
    Nodes = {n1, n2}
    node <- MCnode
    KeyLen = 3
    Keys <- MCKeys
    Radix = 4
    Values = {v1, v2}
    Null = Null
    Base = 3
    MaxType = 2
    PartialMax = 1
    Setups <- MCSetups
SPECIFICATION FairSpec
INVARIANTS
    NodesAreSound
    
PROPERTIES
    OnlyInsertsChangeTheMap
    EveryOperationReturns
