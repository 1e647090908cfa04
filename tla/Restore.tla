------------------------------- MODULE Restore -------------------------------
(***************************************************************************)
(* RTSRoot.restore with clear_existing (rtslib/root.py) and the setup()    *)
(* class methods that it calls (rtslib/target.py, alua.py, fabric.py).     *)
(*                                                                         *)
(* A configuration is a dictionary that dump() has made: a forest of       *)
(* parts.  A part is something that a setup() makes or a group of values   *)
(* that it writes: a storage object, its attributes, an ALUA group and its *)
(* values, the discovery settings of a fabric, a target, a TPG, its        *)
(* attributes, a LUN, its ALUA membership, a portal, an ACL, its           *)
(* attributes, a mapped LUN, the CHAP values of an ACL or TPG, the tag of  *)
(* an ACL, and the enable flag of a TPG.  tree is the set of parts that    *)
(* are in force in configfs.                                               *)
(*                                                                         *)
(* One process works on the tree; every system call may be refused.  One   *)
(* step sets up one part.  The lists of a dictionary are visited in any    *)
(* order.  WWNs of targets are taken to be unique across fabrics, and the  *)
(* dictionary to be a new one for each call (setup() removes keys from it).*)
(***************************************************************************)
EXTENDS Naturals, Sequences, FiniteSets

CONSTANTS
  Parts,        \* all parts of all configurations
  Kind,         \* what each part is
  Parent,       \* the part in whose dictionary it is, or None
  Uses,         \* the part that it refers to: LUN, membership, mapped LUN; or None
  Name,         \* the name of a storage object
  PassedOver,   \* ALUA groups that are default_tg_pt_gp or lack kernel support
  OldLuns,      \* LUNs whose dictionary has no key alua_tg_pt_gp_name
  Configs,      \* the configurations, each a set of parts
  MaxFailures,  \* bound on the failures of one call
  MaxCalls,     \* bound on the calls
  None

Kinds == {"so", "soattr", "alua", "aluavalues", "fm", "target", "tpg", "tpgattr", "lun",
          "member", "portal", "acl", "aclattr", "mlun", "acltag", "aclvalues", "enable",
          "tpgvalues"}

ASSUME PartsAssumption ==
  /\ Kind \in [Parts -> Kinds]
  /\ Parent \in [Parts -> Parts \cup {None}]
  /\ Uses \in [Parts -> Parts \cup {None}]
  /\ None \notin Parts /\ PassedOver \subseteq Parts
  /\ \A c \in Configs : c \subseteq Parts /\ \A n \in c : Parent[n] \in c \cup {None}

(* Which dictionary holds the parts of each kind. *)
Holder == [soattr |-> "so", alua |-> "so", aluavalues |-> "alua", tpg |-> "target",
           tpgattr |-> "tpg", lun |-> "tpg", portal |-> "tpg", acl |-> "tpg", enable |-> "tpg",
           tpgvalues |-> "tpg", member |-> "lun", aclattr |-> "acl", mlun |-> "acl",
           acltag |-> "acl", aclvalues |-> "acl"]

(* A LUN refers to a storage object, a membership to an ALUA group, and a  *)
(* mapped LUN to a LUN of its own TPG (MappedLUN.setup looks in            *)
(* tpg_obj.luns).                                                          *)
ASSUME ShapeAssumption ==
  \A n \in Parts :
    /\ Parent[n] = None <=> Kind[n] \in {"so", "fm", "target"}
    /\ Parent[n] # None => Kind[Parent[n]] = Holder[Kind[n]]
    /\ Uses[n] # None =>
         \/ Kind[n] = "lun" /\ Kind[Uses[n]] = "so"
         \/ Kind[n] = "member" /\ Kind[Uses[n]] = "alua"
         \/ Kind[n] = "mlun" /\ Kind[Uses[n]] = "lun" /\ Parent[Uses[n]] = Parent[Parent[n]]
ASSUME BoundsAssumption == MaxFailures \in Nat /\ MaxCalls \in Nat

Of(kind) == {n \in Parts : Kind[n] = kind}
Names == {Name[n] : n \in Of("so")}

(* The parts of whose dictionaries n is in, with n. *)
Up[n \in Parts] == {n} \cup (IF Parent[n] = None THEN {} ELSE Up[Parent[n]])
Below(n) == {m \in Parts : n \in Up[m]}

(* What n cannot be there without, with n. *)
Needs[n \in Parts] ==
  {n} \cup (IF Parent[n] = None THEN {} ELSE Needs[Parent[n]])
      \cup (IF Uses[n] = None THEN {} ELSE Needs[Uses[n]])
Dependents(n) == {m \in Parts : n \in Needs[m]}

VARIABLES
  tree,      \* the parts that are in force
  phase,     \* where the call is, or how the last one ended
  args,      \* its arguments
  stack,     \* the lists that it still has to work through
  errors,    \* the parts reported through err_func
  failed,    \* the parts that could not be set up, reported or not
  before,    \* the tree when the call started
  calls      \* the number of calls so far

vars == <<tree, phase, args, stack, errors, failed, before, calls>>

Args == [config : Configs, target : Of("target") \cup {None}, so : Names \cup {None},
         clear : BOOLEAN, abort : BOOLEAN]
Phases == {"idle", "clear", "setup", "returned", "raised", "refused"}

(* One type per variable.  What a call reports, or fails to set up, is of  *)
(* its configuration.                                                      *)
TypeOK ==
  /\ tree \in SUBSET Parts
  /\ phase \in Phases
  /\ args \in Args \cup {None}
  /\ stack \in Seq((SUBSET Parts) \ {{}})
  /\ errors \in SUBSET failed
  /\ failed \in SUBSET (IF phase = "idle" THEN {} ELSE args.config)
  /\ before \in SUBSET Parts
  /\ calls \in 0..MaxCalls

Init ==
  /\ tree = {} /\ before = {}
  /\ phase = "idle" /\ args = None
  /\ stack = <<>> /\ errors = {} /\ failed = {}
  /\ calls = 0

Ended == phase \in {"returned", "raised", "refused"}

(* A list to work through; one without entries is passed over. *)
Entries(list) == IF list = {} THEN <<>> ELSE <<list>>

(* Mutant: "or" where the code has "and". *)
SelectedEither(S, a) ==
  {f \in SUBSET S :
     IF a.so = None \/ a.target = None THEN f = S
     ELSE LET m == {n \in S : IF Kind[n] = "so" THEN Name[n] = a.so ELSE n = a.target}
          IN  IF m = {} THEN f = {} ELSE \E n \in m : f = {n}}

(* if (not storage_object and not target) or (target and wwn == target),   *)
(* and the same for storage objects, where the first one of the name is    *)
(* taken, of whatever plugin; then break.                                  *)
Selected(S, a) ==
  {f \in SUBSET S :
     IF a.so = None /\ a.target = None THEN f = S
     ELSE LET m == {n \in S : IF Kind[n] = "so" THEN Name[n] = a.so ELSE n = a.target}
          IN  IF m = {} THEN f = {} ELSE \E n \in m : f = {n}}

-----------------------------------------------------------------------------
(* RTSRoot.clear_existing.  The removal of backstores without a storage    *)
(* object, at its end, is in Backstore.                                    *)

(* Mutant: the discovery settings are left. *)
ClearListsNoDiscovery(a) ==
  \E ts \in Selected(Of("target") \cap tree, a), ss \in Selected(Of("so") \cap tree, a) :
    stack' = Entries(ts) \o Entries(ss)

ClearLists(a) ==
  \E ts \in Selected(Of("target") \cap tree, a), ss \in Selected(Of("so") \cap tree, a) :
    stack' = Entries(ts) \o Entries(Of("fm") \cap tree) \o Entries(ss)

(* Mutant: the ones that are loaded are set up too. *)
SetupListsLoaded(a) ==
  \E ts \in Selected(Of("target") \cap (a.config \cup tree), a),
     ss \in Selected(Of("so") \cap (a.config \cup tree), a) :
    stack' = Entries(ss) \o Entries(Of("fm") \cap a.config) \o Entries(ts)

(* for so ...: for fm ...: for t ...                                       *)
SetupLists(a) ==
  \E ts \in Selected(Of("target") \cap a.config, a), ss \in Selected(Of("so") \cap a.config, a) :
    stack' = Entries(ss) \o Entries(Of("fm") \cap a.config) \o Entries(ts)

(* Mutant: only the storage objects are compared. *)
ExistsStorageOnly(a) == \E n \in a.config \cap tree : Kind[n] = "so"

(* A storage object or target of the configuration, wanted or not, is      *)
(* there.                                                                  *)
Exists(a) == \E n \in a.config \cap tree : Kind[n] \in {"so", "target"}

Call(a) ==
  /\ phase = "idle" /\ calls < MaxCalls
  /\ calls' = calls + 1
  /\ args' = a /\ before' = tree /\ errors' = {} /\ failed' = {}
  /\ UNCHANGED tree
  /\ \/ a.clear /\ phase' = "clear" /\ ClearLists(a)
     \/ ~a.clear /\ Exists(a) /\ phase' = "refused" /\ stack' = <<>>
     \/ ~a.clear /\ ~Exists(a) /\ phase' = "setup" /\ SetupLists(a)

Rest(n) == Entries(Head(stack) \ {n}) \o Tail(stack)

(* Mutant: StorageObject.delete leaves its LUNs alone. *)
DeletesOnlyBelow(n) == Below(n)

(* delete() of a target takes what is below it, delete() of a storage      *)
(* object also its LUNs, and theirs.                                       *)
Deletes(n) == Dependents(n)

(* The kinds below those that have a delete() of their own. *)
InnerNodes == {"alua", "tpg", "lun", "portal", "acl", "mlun"}

ClearReaches(n) ==
  /\ phase = "clear" /\ stack # <<>> /\ n \in Head(stack)
  /\ UNCHANGED <<args, errors, failed, before, calls>>

(* t.delete(), so.delete(): the nodes that depend on n go first, one after *)
(* the other, and some may be gone when the call raises.                   *)
Clear(n) ==
  /\ ClearReaches(n) /\ Kind[n] \in {"target", "so"}
  /\ \/ /\ \E m \in (Deletes(n) \ {n}) \cap tree :
             Kind[m] \in InnerNodes /\ tree' = tree \ Deletes(m)
        /\ stack' = <<{n}>> \o Rest(n) /\ UNCHANGED phase
     \/ tree' = tree \ Deletes(n) /\ stack' = Rest(n) /\ UNCHANGED phase
     \/ /\ MaxFailures > 0
        /\ phase' = "refused" /\ stack' = <<>> /\ UNCHANGED tree

(* Five writes, of which the last turns the authentication off.  After the *)
(* first one the settings are no longer those of the configuration.        *)
ClearDiscovery(n) ==
  /\ ClearReaches(n) /\ Kind[n] = "fm"
  /\ \/ tree' = tree \ {n} /\ stack' = Rest(n) /\ UNCHANGED phase
     \/ /\ MaxFailures > 0
        /\ phase' = "refused" /\ stack' = <<>>
        /\ tree' \in {tree, tree \ {n}}

Cleared ==
  /\ phase = "clear" /\ stack = <<>>
  /\ phase' = "setup" /\ SetupLists(args)
  /\ UNCHANGED <<tree, args, errors, failed, before, calls>>

-----------------------------------------------------------------------------
(* The setup() methods.                                                    *)

List(n, kinds) == Entries({m \in args.config : Parent[m] = n /\ Kind[m] \in kinds})

(* The lists of a dictionary, in the order in which setup() visits them.   *)
Inner(n) ==
  CASE Kind[n] = "so"     -> List(n, {"soattr"}) \o List(n, {"alua"})
    [] Kind[n] = "alua"   -> List(n, {"aluavalues"})
    [] Kind[n] = "target" -> List(n, {"tpg"})
    [] Kind[n] = "tpg"    -> List(n, {"tpgattr"}) \o List(n, {"lun"}) \o List(n, {"portal"})
                               \o List(n, {"acl"}) \o List(n, {"enable"}) \o List(n, {"tpgvalues"})
    [] Kind[n] = "lun"    -> List(n, {"member"})
    [] Kind[n] = "acl"    -> List(n, {"aclattr"}) \o List(n, {"mlun"}) \o List(n, {"acltag", "aclvalues"})
    [] OTHER              -> <<>>

Reaches(n) == phase = "setup" /\ stack # <<>> /\ n \in Head(stack)
MayFail == Cardinality(failed) < MaxFailures

Raise(n) ==
  /\ phase' = "raised" /\ stack' = <<>>
  /\ failed' = failed \cup {n}
  /\ UNCHANGED <<tree, args, before, calls>>

(* Mutant: abort_on_error collects the errors like the other form. *)
ReportCollects(n) ==
  /\ errors' = errors \cup {n} /\ failed' = failed \cup {n}
  /\ stack' = Rest(n)
  /\ UNCHANGED <<phase, args, before, calls>>

(* err_func, and on to the next part.                                      *)
Report(n) ==
  /\ errors' = errors \cup {n} /\ failed' = failed \cup {n}
  /\ IF args.abort THEN phase' = "raised" /\ stack' = <<>>
                   ELSE stack' = Rest(n) /\ UNCHANGED phase
  /\ UNCHANGED <<args, before, calls>>

Skip(n) == Report(n) /\ UNCHANGED tree

(* The part is there; its own lists come next.                             *)
Done(n) ==
  /\ tree' = tree \cup {n}
  /\ stack' = Inner(n) \o Rest(n)
  /\ UNCHANGED <<phase, args, errors, failed, before, calls>>

(* Nothing is to be done.                                                  *)
PassOver(n) ==
  /\ stack' = Rest(n)
  /\ UNCHANGED <<tree, phase, args, errors, failed, before, calls>>

(* A write is refused and nobody is told.                                  *)
Lose(n) ==
  /\ failed' = failed \cup {n}
  /\ stack' = Rest(n)
  /\ UNCHANGED <<tree, phase, args, errors, before, calls>>

(* The constructor is guarded by except Exception. *)
SetupStorageObject(n) ==
  /\ Kind[n] = "so"
  /\ \/ n \notin tree /\ Done(n)
     \/ (n \in tree \/ MayFail) /\ Skip(n)

(* set_attributes, set_parameters: what cannot be set is reported. *)
SetAttributes(n) ==
  /\ Kind[n] \in {"soattr", "tpgattr", "aclattr"}
  /\ \/ Done(n)
     \/ MayFail /\ Skip(n)

(* FabricModule.setup does the same with setattr. *)
SetupFabricModule(n) ==
  /\ Kind[n] = "fm"
  /\ \/ Done(n)
     \/ MayFail /\ Skip(n)

(* So does the loop at the end of TPG.setup, but the setters of the CHAP   *)
(* values ignore a write that is refused; only a value that they reject    *)
(* themselves is reported.                                                 *)
SetTPGValues(n) ==
  /\ Kind[n] = "tpgvalues"
  /\ \/ Done(n)
     \/ MayFail /\ Skip(n)
     \/ MayFail /\ Lose(n)

(* ALUATargetPortGroup(so, name, id): RTSLibError when the group or its id *)
(* is refused.                                                             *)
NewALUA(n) ==
  \/ Done(n)
  \/ MayFail /\ Raise(n) /\ UNCHANGED errors

(* ALUATargetPortGroup.setup does not use err_func, and restore() only     *)
(* suppresses that ALUA is not supported.                                  *)
SetupALUA(n) ==
  /\ Kind[n] = "alua"
  /\ \/ n \in PassedOver /\ PassOver(n)
     \/ n \notin PassedOver /\ NewALUA(n)

(* Its setattr loop: every setter writes one file, and a refusal becomes   *)
(* RTSLibError.                                                            *)
SetALUAValues(n) ==
  /\ Kind[n] = "aluavalues"
  /\ \/ Done(n)
     \/ MayFail /\ Raise(n) /\ UNCHANGED errors

SetupTarget(n) ==
  /\ Kind[n] = "target"
  /\ \/ Done(n)
     \/ MayFail /\ Skip(n)

(* The constructor, and the assignment to enable at the end, are not       *)
(* guarded.                                                                *)
SetupTPG(n) ==
  /\ Kind[n] \in {"tpg", "enable"}
  /\ \/ Done(n)
     \/ MayFail /\ Raise(n) /\ UNCHANGED errors

(* Mutant: a LUN whose storage object is missing is passed over. *)
SetupLUNSilent(n) ==
  /\ Kind[n] = "lun"
  /\ \/ Uses[n] \notin tree /\ PassOver(n)
     \/ Uses[n] \in tree /\ Done(n)

(* A missing storage object is reported.  A constructor that raises        *)
(* RTSLibError is reported too, and then lun_obj has no value: that raises *)
(* unless evaluating the key alua_tg_pt_gp_name, which comes first, has    *)
(* raised KeyError.  A constructor that raises OSError is not guarded.     *)
SetupLUN(n) ==
  /\ Kind[n] = "lun"
  /\ \/ Uses[n] \notin tree /\ Skip(n)
     \/ Uses[n] \in tree /\ Done(n)
     \/ /\ Uses[n] \in tree /\ MayFail
        /\ \/ (n \in OldLuns \/ args.abort) /\ Skip(n)
           \/ n \notin OldLuns /\ Raise(n) /\ errors' = errors \cup {n}
           \/ Raise(n) /\ UNCHANGED errors

(* The setter of alua_tg_pt_gp_name returns -1, which an assignment drops. *)
(* A LUN is in default_tg_pt_gp from the start.                            *)
SetMember(n) ==
  /\ Kind[n] = "member"
  /\ \/ Uses[n] \in tree /\ Done(n)
     \/ Uses[n] \in PassedOver /\ PassOver(n)
     \/ (Uses[n] \notin tree \cup PassedOver \/ MayFail) /\ Lose(n)

(* A portal whose iser or offload cannot be set is reported and stays. *)
SetupPortal(n) ==
  /\ Kind[n] = "portal"
  /\ \/ Done(n)
     \/ MayFail /\ Skip(n)
     \/ MayFail /\ Report(n) /\ tree' = tree \cup {n}

SetupACL(n) ==
  /\ Kind[n] = "acl"
  /\ \/ Done(n)
     \/ MayFail /\ Skip(n)

(* OSError of the symlink or of write_protect is not guarded. *)
SetupMappedLUN(n) ==
  /\ Kind[n] = "mlun"
  /\ \/ Uses[n] \notin tree /\ Skip(n)
     \/ Uses[n] \in tree /\ Done(n)
     \/ Uses[n] \in tree /\ MayFail /\ Skip(n)
     \/ Uses[n] \in tree /\ MayFail /\ Raise(n) /\ UNCHANGED errors

(* The setter of tag ignores a write that is refused. *)
SetACLTag(n) ==
  /\ Kind[n] = "acltag"
  /\ \/ Done(n)
     \/ MayFail /\ Lose(n)

(* Those of the CHAP values do not.  The handler of a failing setattr      *)
(* reads acl['node_wwn'], which dict_remove has just removed.              *)
SetACLValues(n) ==
  /\ Kind[n] = "aclvalues"
  /\ \/ Done(n)
     \/ MayFail /\ Raise(n) /\ UNCHANGED errors

Setup(n) ==
  /\ Reaches(n)
  /\ \/ SetupStorageObject(n) \/ SetAttributes(n) \/ SetupALUA(n) \/ SetALUAValues(n)
     \/ SetupFabricModule(n) \/ SetupTarget(n) \/ SetupTPG(n) \/ SetTPGValues(n)
     \/ SetupLUN(n) \/ SetMember(n) \/ SetupPortal(n)
     \/ SetupACL(n) \/ SetupMappedLUN(n) \/ SetACLTag(n) \/ SetACLValues(n)

Return ==
  /\ phase = "setup" /\ stack = <<>>
  /\ phase' = "returned"
  /\ UNCHANGED <<tree, args, stack, errors, failed, before, calls>>

(* The caller has the result. *)
Idle ==
  /\ Ended
  /\ phase' = "idle" /\ args' = None /\ before' = {} /\ errors' = {} /\ failed' = {}
  /\ UNCHANGED <<tree, stack, calls>>

Next ==
  \/ \E a \in Args : Call(a)
  \/ \E n \in Parts : Clear(n) \/ ClearDiscovery(n) \/ Setup(n)
  \/ Cleared \/ Return \/ Idle

Spec == Init /\ [][Next]_vars

-----------------------------------------------------------------------------
(* Properties                                                              *)

Unscoped == args.target = None /\ args.so = None

(* The top-level entries that the call is asked for.  Of two storage       *)
(* objects of one name it takes one: neither counts here.                  *)
WantedTop(r) ==
  \/ Unscoped
  \/ Kind[r] = "fm"
  \/ r = args.target
  \/ /\ Kind[r] = "so" /\ Name[r] = args.so
     /\ \A q \in Of("so") \cap args.config : Name[q] = Name[r] => q = r

Wanted == {n \in args.config : \E r \in Up[n] : Parent[r] = None /\ WantedTop(r)}

(* What needs an ALUA group that setup() passes over. *)
Dropped(n) == Needs[n] \cap PassedOver # {}

(* What needs a part whose setter ignores that the write was refused. *)
Lost(n) == \E m \in Needs[n] \cap failed : Kind[m] \in {"member", "acltag", "tpgvalues"}

(* restore() "returns list of non-fatal errors": when it returns, a part   *)
(* of the configuration that was asked for and is not in force is in the   *)
(* list, or something that it needs is: a LUN without its storage object,  *)
(* a mapped LUN without its LUN.  Nothing gets lost silently but ALUA      *)
(* memberships, the tag of an ACL and the CHAP values of a TPG, and they   *)
(* only when the kernel refused them.                                      *)
AbsenceReported ==
  phase = "returned" =>
    \A n \in Wanted \ tree : Dropped(n) \/ Lost(n) \/ Needs[n] \cap errors # {}

(* abort_on_error: a call that returns has put everything in force that    *)
(* was asked for, except for those three that were refused.                *)
AllOrRaise ==
  phase = "returned" /\ args.abort => \A n \in Wanted \ tree : Dropped(n) \/ Lost(n)

(* Whatever fails and wherever a call stops, nothing is in force without   *)
(* what it needs: the deletions of clear_existing go from the LUNs to the  *)
(* storage objects, and setup() goes the other way.                        *)
TreeClosed == \A n \in tree : Needs[n] \subseteq tree

(* "Will refuse to restore over an existing configuration unless           *)
(* clear_existing is True": without it, a storage object or a target that  *)
(* was there before has afterwards exactly what it had.                    *)
ExistingUntouched ==
  args # None /\ ~args.clear =>
    \A n \in before : Kind[n] \in {"so", "target"} =>
      Below(n) \cap tree = Below(n) \cap before

(* A call for one target or one storage object, with clear_existing or     *)
(* without, leaves alone what is not of that target and does not depend on *)
(* a storage object of that name; the discovery settings excepted, which   *)
(* every call rewrites.                                                    *)
ScopeRespected ==
  args # None /\ ~Unscoped =>
    \A n \in (tree \ before) \cup (before \ tree) :
      \/ Kind[n] = "fm"
      \/ args.target \in Up[n]
      \/ \E s \in Of("so") : Name[s] = args.so /\ s \in Needs[n]

(* restore() "reconfigures the target to match": with clear_existing and   *)
(* no failure, what is in force at the end is what the configuration says  *)
(* and nothing of what was there before.                                   *)
MatchesConfig ==
  phase = "returned" /\ args.clear /\ Unscoped /\ failed = {} =>
    /\ tree \subseteq args.config
    /\ \A n \in args.config \ tree : Dropped(n)

(* What targetctl.8 says of a restore in which parts fail: the rest of the *)
(* configuration is applied.  The rest is what needs none of the parts     *)
(* that failed.                                                            *)
RestStillApplied ==
  phase \in {"returned", "raised"} /\ ~args.abort =>
    \A n \in Wanted \ tree : Dropped(n) \/ Needs[n] \cap failed # {}

=============================================================================
