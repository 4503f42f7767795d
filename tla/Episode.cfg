SPECIFICATION MCSpec
CONSTANTS
  s1 = s1
  s2 = s2
  e1 = e1
  e2 = e2
  e3 = e3
  d1 = d1
  d2 = d2
  hero = hero
  guest = guest
  cave = cave
  Texts = {"first", "second"}
  BibleData <- MCBibles
  Readings <- MCReadings
  Decisions <- MCDecisions
  SeriesId = series
  EpisodeId = episode
  None = None
  Absent = Absent
  MaxPackages = 2
  Node = {0, 1, 2, 3}
  Series = 0
  MaxRevision = 2
  Identities <- MCIdentities
  Stages = 3
  Value = {v1, v2}
INVARIANTS
  ChronologyKept
  AcceptedInOrder
  ChangedIsNotStale
  SearchesExact
  HandledOnItsInputs
PROPERTIES
  SurgicalChange
  StaleIsReported
  IsJournal
  JournalGrows
CHECK_DEADLOCK FALSE
