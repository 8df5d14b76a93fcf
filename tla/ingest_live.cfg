SPECIFICATION FairSpec
CONSTANTS
  None = None
  Workers = {w1}
  Requests = {r1}
  Sources = {s1, s2}
  Notebooks = {n1}
  NotebookOf <- OneNotebook
  Batches = {1, 2, 3, 4, 5, 6, 7, 8}
  MaxAttempts = 2
  FaultKinds = {"worker_crash", "chroma", "sqlite", "migration_crash"}
  MaxFaults = 1
  MaxReindexes = 1
  MaxMigrations = 1
CHECK_DEADLOCK FALSE
PROPERTIES
  EverySourceSettles
  KeepsPromise
