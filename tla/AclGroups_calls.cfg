SPECIFICATION Spec
CONSTANTS
  None = None
  Wwns = {w1, w2, w3}
  Tags = {t1, t2}
  Indexes = {0, 1}
  Luns = {l1}
  Values = {v0, v1}
  Default = v0
  MCLun = l1
  MCValue = v1
  OwnACLs <- MCOwnACLs
  MaxCalls = 6
SYMMETRY Symmetry
INVARIANT TypeOK
 
PROPERTY OthersUntouched
CHECK_DEADLOCK FALSE
