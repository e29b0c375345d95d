CONSTANTS
    t1 = t1
    t2 = t2
    v1 = v1
    v2 = v2
    Null = Null
    Values = {v1, v2}
    Threads = {t1, t2}
    MaxKey = 4
    LeafCard = 2
    MaxEvict = 2
    Root = 1
    Setups <- MCSetups
SPECIFICATION FairSpec
INVARIANTS
    TreeIsSound
PROPERTIES
    IsAtomicMap
    EveryOperationReturns
