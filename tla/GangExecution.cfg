SPECIFICATION GangSpec
CONSTANTS
  p1 = p1
  Process = {p1}
  w1 = w1
  w2 = w2
  Worker = {w1, w2}
  Executors = {w1, w2}
  Revocable = {w2}
  Gpu = {1, 2}
  Host <- MCHost
  Size = {2}
  LeaseSeconds = {1}
  MaxTime = 2
  MaxAllocation = 2
  MaxEpoch = 2
  Deployments <- JustOne
  NowBound = TRUE
  None = None
INVARIANTS
  GpusOneUser
PROPERTIES
  StartsFenced
  ImplementsCommit
