SPECIFICATION Spec
SYMMETRY Symmetry
CONSTANTS
  Procs = {p1, p2}
  Plugins = {fileio, block}
  Names = {a, b}
  NumIndexes = 2
  CallerIndexes = FALSE
  Coordinated = TRUE
  MaxCrashes = 1
INVARIANTS TypeOK NameUnique CacheCoherent NothingHalfBuilt
PROPERTIES LookupReadOnly
