CONSTANTS
  Threads = {1, 2, 3}
  Keys = {"k", "l"}
  Values = {"v1", "v2", "v3"}
  Works <- MCWorks
  Wrap = 4
  None = None
SPECIFICATION FairSpec
INVARIANTS
  QueuesAreSound
  HandoverIsForTheSameKey
PROPERTIES
  EveryOperationReturns
