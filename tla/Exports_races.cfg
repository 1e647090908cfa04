SPECIFICATION FairSpec

CONSTANTS
  None = None
  Procs = {p1, p2}
  Targets = {t1}
  Tags = {1}
  LunIndexes = {0}
  Portals = {}
  Nodes = {n1}
  MappedIndexes = {0}
  StorageObjects = {s1}
  MaxCrashes = 0
PROPERTIES CallsEnd
