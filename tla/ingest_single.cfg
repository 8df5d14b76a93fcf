SPECIFICATION Spec
CONSTANTS
  None = None
  Workers = {w1}
  Requests = {r1, r2}
  Sources = {s1, s2}
  Notebooks = {n1}
  NotebookOf <- OneNotebook
  Batches = {1, 2, 3, 4, 5, 6, 7, 8}
  MaxAttempts = 2
  FaultKinds = {"worker_crash", "chroma", "sqlite"}
  MaxFaults = 2
  MaxReindexes = 1
  MaxMigrations = 0
CHECK_DEADLOCK FALSE
SYMMETRY ProcessSymmetry
INVARIANTS
  ChunksOfOneRun
  NotStranded
  IndexedIsSearchable
PROPERTIES
  DoneByFreshRun
