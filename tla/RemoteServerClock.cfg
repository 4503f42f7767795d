SPECIFICATION RemoteSpec
CONSTANTS
  Job = {1}
  d1 = d1
  d2 = d2
  Worker = {w1, w2}
  Gpu = {}
  Resource <- MCResource
  Demand <- MCDemand
  Power <- MCPower
  Supports <- MCSupports
  Offer <- MCOffer
  PoolPower = {0}
  Wanted = {1}
  Priority <- MCPriority
  AgingInterval = 1
  LeaseSeconds = {1}
  MaxTime = 2
  None = None
  Dispatcher = {d1}
  Remote = {w1}
  Executors = {w1, w2}
  CompletionClock = "start"
  MaxToken = 2
  MaxLease = 2
PROPERTIES
  AcceptedInTime
