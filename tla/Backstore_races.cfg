SPECIFICATION Spec
SYMMETRY Symmetry
CONSTANTS
  Procs = {p1, p2}
  Plugins = {fileio}
  Names = {a, b}
  NumIndexes = 1
  CallerIndexes = FALSE
  Coordinated = FALSE
  MaxCrashes = 0
INVARIANTS NoEmptyBackstore
