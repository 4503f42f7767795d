SPECIFICATION StateSpec
CONSTANTS
  None = None
  Node = {0, 1, 2, 3}
  Series = 0
  MaxRevision = 2
  Identities <- MCIdentities
INVARIANTS
  RegenerationPromised
CHECK_DEADLOCK FALSE
