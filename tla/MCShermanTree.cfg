CONSTANTS
    t1 = t1
    t2 = t2
    t3 = t3
    n1 = n1
    n2 = n2
    v1 = v1
    v2 = v2
    Threads = {t1, t2, t3}
    Nodes = {n1, n2}
    node <- MCnode
    MaxKey = 8
    Values = {v1, v2}
    Null = Null
    LeafCard = 2
    IntCard = 3
    CacheLevel = 2
    CachePages = 1
    Setups <- MCSetups
SPECIFICATION FairSpec
INVARIANTS
    TreeIsSound
PROPERTIES
    
    EveryOperationReturns
