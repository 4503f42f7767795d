SPECIFICATION CoordinatorSpec
CONSTANTS
  Job = {1, 2}
  Worker = {w1}
  Gpu = {}
  Resource <- MCResource
  Demand <- MCDemand
  Power <- MCPower
  Supports <- MCSupports
  Offer <- MCOffer
  PoolPower = {2}
  Wanted <- AnyJob
  Priority <- MCPriority
  AgingInterval = 1
  LeaseSeconds = {1}
  MaxTime = 2
  None = None
  Hash = {h1}
  Output = {o1, o2}
INVARIANTS
  CompletedHasOutput
PROPERTIES
  HandoffKept
