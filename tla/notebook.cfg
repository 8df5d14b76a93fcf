SPECIFICATION Spec
CONSTANTS
  n1 = n1
  n2 = n2
  s1 = s1
  s2 = s2
  s3 = s3
  r1 = r1
  r2 = r2
  None = None
  Notebooks = {n1, n2}
  Sources = {s1, s2, s3}
  Requests = {r1, r2}
  First = n1
  Home <- Homes
  Picks <- Forms
  MaxRequests = 3
  MaxFaults = 1
  TopicMax = 2
  SummaryMax = 3
CHECK_DEADLOCK FALSE
SYMMETRY Alike
INVARIANTS
  TranscriptHolds
  ScopeNeverWidens
  BriefingSerial
PROPERTIES
  KeptOnceForGood
  UsageOfItsOwn
