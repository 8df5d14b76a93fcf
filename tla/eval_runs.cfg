SPECIFICATION Spec
CONSTANTS
  r1 = r1
  r2 = r2
  p1 = p1
  p2 = p2
  base = base
  other = other
  upper = upper
  lower = lower
  acronym = acronym
  m1 = m1
  m2 = m2
  None = None
  Requests = {r1, r2}
  Procs = {p1, p2}
  Profiles = {1, 2}
  Runs = {1, 2}
  Items = {1, 2}
  Params = {base, other}
  Base = base
  Forms <- Saves
  Candidate = other
  Modes <- Boxes
  AtFirst = {0, 2}
  Models = {m1, m2}
  FirstModel = m1
  Terms = {upper, lower, acronym}
  FirstTerm = acronym
  Casefold <- Folded
  NoCase <- Kept
  Hints = {1, 2, 3}
  MaxHints = 2
  Room = 1
  MaxRequests = 3
  MaxEdits = 2
  MaxEvents = 3
  MaxFaults = 1
CHECK_DEADLOCK FALSE
SYMMETRY Alike
INVARIANTS
  OneExperiment
  StatusIsTrue
  ConfigurationHolds
