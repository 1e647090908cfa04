SPECIFICATION Spec
CONSTANTS
  Procs = {p1}
  MaxVersion = 1
  MaxSaves = 1
PROPERTIES RestoreRestores
