SPECIFICATION Spec
CONSTANTS
  None = None
  Workers = {w1, w2}
  Requests = {r1}
  Sources = {s1, s2}
  Notebooks = {n1}
  NotebookOf <- OneNotebook
  Batches = {1, 2, 3, 4, 5, 6, 7, 8}
  MaxAttempts = 2
  FaultKinds = {"worker_crash", "web_crash", "chroma", "sqlite", "migration_crash"}
  MaxFaults = 2
  MaxReindexes = 0
  MaxMigrations = 2
CHECK_DEADLOCK FALSE
SYMMETRY ProcessSymmetry
INVARIANTS
  TypeOK
  RowlessIsEmpty
  Exclusive
PROPERTIES
  OnlyDeletedUnderLock
