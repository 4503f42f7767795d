SPECIFICATION AllocatorSpec
CONSTANTS
  p1 = p1
  p2 = p2
  Process = {p1, p2}
  w1 = w1
  w2 = w2
  Worker = {w1, w2}
  Gpu = {1, 2, 3}
  Host <- MCHost
  Size = {2}
  LeaseSeconds = {1, 2}
  MaxTime = 2
  MaxAllocation = 2
  MaxEpoch = 3
  Deployments <- JustOne
  NowBound = FALSE
  None = None
INVARIANTS
  RoomIsFound
