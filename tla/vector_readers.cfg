SPECIFICATION Spec
CONSTANTS
  web = web
  worker = worker
  t1 = t1
  t2 = t2
  t3 = t3
  r1 = r1
  r2 = r2
  Procs = {web, worker}
  Threads = {t1, t2, t3}
  ProcOf <- OneReader
  TasksOf <- ReaderAndWriter
  Records = {r1, r2}
  MaxTasks = 3
  MaxCrashes = 1
SYMMETRY Alike
INVARIANTS
  ReadersFresh
  GenerationNamesCollection
