SPECIFICATION Spec
CONSTANTS
  None = None
  r1 = r1
  Requests = {r1}
  Deployments <- Toml
  Values <- Typed
  Precise = 2
  Coarse = 3
  Grace = 1
  MaxEdits = 2
  MaxFaults = 1
  MaxAge = 5
CHECK_DEADLOCK FALSE
INVARIANTS
  ParsedOnce
  FormsHold
PROPERTIES
  LeavesNoFalseTrace
  EverythingEnds
