SPECIFICATION ServiceSpec
CONSTANTS
  Absent = Absent
  l1 = l1
  l2 = l2
  l3 = l3
  g1 = g1
  g2 = g2
  r1 = r1
  r2 = r2
  r3 = r3
  Links <- ThreeLinks
  Groups <- TwoGroups
  MaxConcurrency = 2
  MaxMirrors = 2
  MaxArtifacts = 1
  Ids <- ThreeReleases
  Intents <- SmallIntents
  PageLimit = 2
  MaxPage = 2
INVARIANTS
  FailureIsLocal
  NoStragglers
  ReplyFaithful
  AskedEnough
  PlanSound
PROPERTIES
  TasksEnd
CHECK_DEADLOCK FALSE
