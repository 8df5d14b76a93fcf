SPECIFICATION Spec
CONSTANTS
  None = None
  Workers = {w1, w2, w3}
  Requests = {r1}
  Sources = {s1}
  Notebooks = {n1}
  NotebookOf <- OneNotebook
  Batches = {1, 2, 3, 4, 5, 6, 7, 8}
  MaxAttempts = 2
  FaultKinds = {"overrun"}
  MaxFaults = 2
  MaxReindexes = 2
  MaxMigrations = 0
CHECK_DEADLOCK FALSE
SYMMETRY ProcessSymmetry
INVARIANTS
  EndsWell
