SPECIFICATION FairStoreSpec
CONSTANTS
  r1 = r1
  r2 = r2
  p1 = p1
  dest = dest
  out1 = out1
  out2 = out2
  a = a
  b = b
  x = x
  Receiver = {r1, r2}
  Producer = {p1}
  Outputs <- MCOutputs
  Dest = dest
  Path = {dest, out1, out2}
  Reference <- MCReference
  Junk = x
  FileSystems <- MCFileSystems
  Teams <- MCTeams
  MaxFaults = 3
  None = None
INVARIANTS
  PlannedDigest
PROPERTIES
  ImplementsStore
  TransferEnds
CHECK_DEADLOCK FALSE
