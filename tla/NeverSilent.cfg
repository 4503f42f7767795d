SPECIFICATION PlanningSpec
CONSTANTS
  s1 = s1
  s2 = s2
  e1 = e1
  e2 = e2
  e3 = e3
  d1 = d1
  d2 = d2
  hero = hero
  guest = guest
  cave = cave
  Texts = {"first", "second"}
  BibleData <- MCBibles
  Readings <- MCCutReadings
  Decisions <- MCDecisions
  SeriesId = series
  EpisodeId = episode
  None = None
  Absent = Absent
  MaxPackages = 2
INVARIANTS
  NeverSilent
