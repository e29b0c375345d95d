CONSTANTS
  Shapes <- MCShapes
  Keys <- MCKeys
  MaxSplits = 1
SPECIFICATION Spec
INVARIANTS
  
  NoAssertFails
  NoFalseMiss
CHECK_DEADLOCK FALSE
