SPECIFICATION Spec
CONSTANTS
  s1 = s1
  s2 = s2
  small = small
  large = large
  a1 = a1
  a2 = a2
  NoDim = NoDim
  Sources = {s1, s2}
  Dims = {small, large}
  Threads = {a1, a2}
  Kinds = {"migrate", "rebuild", "clear"}
  Overlaps = FALSE
  MaxTasks = 2
  MaxReindexes = 1
  MaxSaves = 1
  MaxCrashes = 1
SYMMETRY Alike
INVARIANTS
  MigrationLeavesTarget
  StaleIsUnsearchable
PROPERTIES
  MigrationRestores
