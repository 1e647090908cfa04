SPECIFICATION Spec
SYMMETRY Symmetry
CONSTANTS
  None = None
  p1 = p1
  p2 = p2
  w1 = w1
  w2 = w2
  Procs = {p1, p2}
  Serials = {w1, w2}
  Objects <- MCObjects
  Requests <- MCRequests
  Kind <- MCKind
  ScsiPaths <- MCScsiPaths
  Path <- MCPath
  DiskSize = 9
  PageSize = 4
  Slashed <- MCSlashed
  Coloned <- MCColoned
  DefaultHw = 2
  DefaultControl <- MCDefaultControl
  MaxObjects = 1
  MaxCalls = 4
  MaxBoots = 1
INVARIANTS TypeOK NoDrift RestoredAlike Restorable
CHECK_DEADLOCK FALSE
