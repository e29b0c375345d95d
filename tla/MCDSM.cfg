CONSTANTS
  Threads = {1, 2, 3}
  Nodes = {0, 1}
  Readers = {r1}
  home <- MCHome
  Wrap = 4
  Setups <- MCSetups
  MaxHandOver = 2
  Nobody = Nobody
  Machines = {11, 12, 13}
  CNodeCount = 2
  memThreadCount = 2
  kChunkSize = 5
  PageSize = 2
  Slack = 1
  bitmap_len = 3
  None = None
  r1 = r1
SPECIFICATION FairClusterSpec
INVARIANTS
  LockExclusion
  NoStoreIsMissed
  HandOverIsFair
  PagesAreDisjoint
  BarriersHold
PROPERTY EveryMachineEnds
