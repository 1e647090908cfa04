SPECIFICATION FairSpec
CONSTANTS
  p1 = p1
  p2 = p2
  Procs = {p1, p2}
  Groups = {g1}
  Default = default_tg_pt_gp
  LUNs = {l1, l2}
  MaxTag = 1
  Values = {0, 1}
  None = None
INVARIANTS TypeOK EveryGroupHasId
PROPERTIES NoTrace ObjectDeleted CallsEnd
