SPECIFICATION Spec
CONSTANTS
  p1 = p1
  p2 = p2
  w1 = w1
  Procs = {p1, p2}
  Objects = {w1}
  Default = var_target
  Preferred = etc_target
  MaxReg = 1
  None = None
SYMMETRY Symmetry
INVARIANTS TypeOK PreferredRoot ReadsWhereKernelWrites RegistrationsSurvive
