SPECIFICATION ControlSpec
CONSTANTS
  w1 = w1
  w2 = w2
  None = None
  Worker = {w1, w2}
  WorkerOrder <- MCOrder
  Condition <- MCCondition
  Requirements <- MCRequirements
  Stores <- MCStores
  Fabrics <- MCFabrics
  MaxToken <- MCMaxToken
  MaxMail = 2
INVARIANTS
  EvidenceEnrolled
  PlacementsServe
  GangsServe
PROPERTIES
  ServiceFollowsReport
