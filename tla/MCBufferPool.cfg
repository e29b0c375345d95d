CONSTANTS
  t1 = t1
  t2 = t2
  f1 = f1
  f2 = f2
  f3 = f3
  n1 = n1
  n2 = n2
  b1 = b1
  b2 = b2
  l1 = l1
  l2 = l2
  Threads = {t1, t2}
  Frames = {f1, f2, f3}
  Inners = {n1, n2}
  Leaves = {l1, l2}
  Values = {0, 1}
  InitValue = 0
  Updated = {l1}
  above <- MCWide
  Buckets = {b1, b2}
  hash <- MCHash
  CoolSize = 1
  NumSample = 1
  Rpc = TRUE
  Admission = TRUE
  Root = Root
  Null = Null
  IO_FLAG = IO_FLAG
  Torn = Torn
SPECIFICATION Spec
SYMMETRY MCSymmetry
INVARIANTS
  PoolIsWhole
  Coherent
PROPERTIES
  LookupReturnsCurrent
