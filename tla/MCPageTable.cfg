CONSTANTS
  t1 = t1  t2 = t2  p1 = p1  p2 = p2  p3 = p3
  n1 = n1  s1 = s1  l1 = l1  l2 = l2
  Threads = {t1, t2}
  Pages = {p1, p2, p3}
  Inners = {n1}
  Shared = {s1}
  Leaves = {l1, l2}
  above <- MCAbove
  Width = 3
  Builds <- MCBuilds
  Null = Null  IO_FLAG = IO_FLAG  NoKey = NoKey
SYMMETRY MCSymmetry
SPECIFICATION Spec
INVARIANTS TableIsSound
 
