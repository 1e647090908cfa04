---------------------------- MODULE MCAclGroups ----------------------------
(***************************************************************************)
(* Three initiators, two groups.  The initiators are interchangeable.      *)
(***************************************************************************)
EXTENDS AclGroups, TLC

CONSTANTS MCLun, MCValue

MCOwnACLs ==
  {[NewACL EXCEPT !.maps[0] = [lun |-> MCLun, protect |-> TRUE],
                  !.attr = MCValue, !.tcq = MCValue, !.chap = MCValue]}

Symmetry == Permutations(Wwns)

=============================================================================
