CONSTANTS
    a = a
    b = b
    Nodes = {a, b}
    None = None
    Absent = Absent
    MaxKey = 14
    Capacity = 4
    MaxLevel = 2
    Loader = a
    Setups <- MCSetups
SPECIFICATION FairSpec
INVARIANTS
    SharingIsSound
    NothingIsLost
PROPERTY
    EveryInsertCompletes
