SPECIFICATION Spec
SYMMETRY Symmetry
CONSTANTS
  None = None
  Procs = {p1}
  Targets = {t1}
  Tags = {1}
  LunIndexes = {0, 1}
  Portals = {np1}
  Nodes = {n1, n2}
  MappedIndexes = {0, 1}
  StorageObjects = {s1, s2}
  MaxCrashes = 1
INVARIANTS TypeOK NoBrokenLink
PROPERTIES DeleteDeletesUnlessCrashed Recovers OnlyDependents DisabledFirst
