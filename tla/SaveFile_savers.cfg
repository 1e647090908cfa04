SPECIFICATION Spec
SYMMETRY Symmetry
CONSTANTS
  Procs = {p1, p2}
  MaxVersion = 1
  MaxSaves = 2
INVARIANTS TypeOK NeverReadable
PROPERTIES LeftoversHarmless AtomicFile
