----------------------------- MODULE MCRestore -----------------------------
(***************************************************************************)
(* Two configurations: Whole has one part of each kind; Small has the same *)
(* target with other LUNs, one of an old dictionary and one that is in the *)
(* default ALUA group, and a storage object of another plugin that has the *)
(* name of the one in Whole.                                               *)
(***************************************************************************)
EXTENDS Restore, TLC

MCKind ==
  "s1" :> "so" @@ "s1a" :> "soattr" @@ "g1" :> "alua" @@ "g1v" :> "aluavalues" @@
  "fm1" :> "fm" @@ "t1" :> "target" @@ "p1" :> "tpg" @@ "p1a" :> "tpgattr" @@
  "l1" :> "lun" @@ "m1" :> "member" @@ "po" :> "portal" @@ "a1" :> "acl" @@
  "a1a" :> "aclattr" @@ "ml1" :> "mlun" @@ "a1g" :> "acltag" @@ "a1v" :> "aclvalues" @@
  "en" :> "enable" @@ "tv" :> "tpgvalues" @@
  "s2" :> "so" @@ "gd" :> "alua" @@ "l2" :> "lun" @@ "m2" :> "member" @@ "l3" :> "lun"

MCParts == DOMAIN MCKind

MCParent ==
  [n \in MCParts |->
     CASE n \in {"s1a", "g1"} -> "s1"
       [] n = "gd" -> "s2"
       [] n = "g1v" -> "g1"
       [] n = "p1" -> "t1"
       [] n \in {"p1a", "l1", "l2", "l3", "po", "a1", "en", "tv"} -> "p1"
       [] n = "m1" -> "l1"
       [] n = "m2" -> "l2"
       [] n \in {"a1a", "ml1", "a1g", "a1v"} -> "a1"
       [] OTHER -> None]

MCUses ==
  [n \in MCParts |-> CASE n = "l1" -> "s1" [] n = "m1" -> "g1" [] n = "ml1" -> "l1"
                       [] n \in {"l2", "l3"} -> "s2" [] n = "m2" -> "gd" [] OTHER -> None]

MCName == "s1" :> "disk" @@ "s2" :> "disk"
MCPassedOver == {"gd"}
MCOldLuns == {"l3"}

Small == {"s2", "gd", "t1", "p1", "l2", "m2", "l3", "en"}
Whole == MCParts \ {"s2", "gd", "l2", "m2", "l3"}
MCConfigs == {Whole, Small}

(* A storage object with an ALUA group, and a target without LUNs. *)
GroupAndTarget == {"s1", "g1", "t1"}
StopsConfigs == {GroupAndTarget}

=============================================================================
