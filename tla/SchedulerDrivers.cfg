SPECIFICATION DriversSpec
CONSTANTS
  Job = {1, 2, 3}
  w1 = w1
  w2 = w2
  g1 = g1
  g2 = g2
  Worker = {w1, w2}
  Gpu = {g1, g2}
  Resource <- MCResource
  Demand <- MCDemand
  Power <- MCPower
  Supports <- MCSupports
  Offer <- MCOffer
  PoolPower = {1}
  Wanted = {1, 2, 3}
  Priority <- MCPriority
  AgingInterval = 2
  LeaseSeconds = {1, 2}
  MaxTime = 3
  None = None
  PoolOffer <- MCPoolOffer
  Needs <- MCNeeds
  Admissible <- MCAdmissible
INVARIANTS
  GpuExclusive
  LeasesFit
  WrapperAgrees
PROPERTIES
  AnyJobInOrder
  ImplementsFairLifecycle
