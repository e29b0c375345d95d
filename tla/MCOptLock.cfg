SPECIFICATION Spec
CONSTANTS
    Threads = {t1, t2, t3}
    Fields = {f1, f2}
    Values = {0, 1}
    InitValue = 0
    MaxWord = 17
SYMMETRY Symmetric
INVARIANTS
    MutualExclusion
    ValidatedReadIsCurrent
    UpgradedReadIsCurrent
PROPERTIES
    VersionNeverGoesBack
CHECK_DEADLOCK FALSE
