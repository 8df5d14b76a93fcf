SPECIFICATION Spec
CONSTANTS
  a1 = a1
  a2 = a2
  plain = plain
  reasoning = reasoning
  None = None
  Deployed = "wide"
  Models = {plain, reasoning}
  Embedders = {"narrow", "wide"}
  Endpoint <- Endpoints
  Window <- Windows
  ProbeText = 12
  Budget = 8
  Keys = {"k"}
  TextPrefixes = {"", "p"}
  Efforts = {"low", "high"}
  Semantic = {"low"}
  Admins = {a1, a2}
  MaxEdits = 3
  MaxFaults = 1
  MaxAttempts = 3
  Marker <- Abstain
  Reserved = 3
  Deltas <- Pieces
  Gates = {0, 1, 3}
  MaxBuffer = 5
CHECK_DEADLOCK FALSE
SYMMETRY Alike
INVARIANTS
  MeasuredIsItsOwn
  GateHolds
  RetriesAreSafe
