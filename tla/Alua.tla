-------------------------------- MODULE Alua --------------------------------
(***************************************************************************)
(* The ALUA target port groups of a storage object (rtslib/alua.py), the   *)
(* membership of its LUNs in them (target.py), and what dump() and         *)
(* delete() of the object (tcm.py) do with them.                           *)
(*                                                                         *)
(* A group is a directory below <object>/alua.  It has no id until its     *)
(* constructor has written one.  A step is one access to configfs: a       *)
(* lookup tests twice for the directory, and makes it when the second test *)
(* fails (node.py).                                                        *)
(***************************************************************************)
EXTENDS Integers

CONSTANTS
  Procs,
  Groups,   \* names of groups that callers make
  Default,  \* default_tg_pt_gp, the kernel's own
  LUNs,
  MaxTag,   \* 65535 in the code
  Values,   \* of the parameters of a group, taken together; 0 is a new group's
  None

ASSUME MaxTagAssumption == MaxTag \in Nat /\ MaxTag > 0
ASSUME DefaultAssumption == Default \notin Groups
ASSUME NoneAssumption == None \notin Groups \cup {Default}
ASSUME ValuesAssumption == 0 \in Values

Names == Groups \cup {Default}
Tags == 0 .. MaxTag + 1   \* what callers pass
NoId == 0
DefaultId == MaxTag + 2   \* any that callers do not pass

VARIABLES
  supported,  \* alua_supported of the object
  object,     \* whether the object is there
  groups,     \* the groups that are there
  id,         \* tg_pt_gp_id of each
  value,      \* the parameters of each
  member,     \* the group of each LUN of the object, or None
  pc, call,   \* the next step of each process, and its call
  todo,       \* the groups, or LUNs, that a listing has still to visit
  outcome,    \* how the last step ended a call, if it did
  before,     \* history: the groups and members at the start of a call that
              \* no other one has overlapped, or None
  torn        \* history: whether a call was overlapped or its process died

tree == <<object, groups, id, value, member>>
local == <<pc, call, todo, outcome>>
vars == <<supported, tree, local, before, torn>>

NoCall == [what |-> "none", name |-> Default, tag |-> 0]

Calls == [what : {"none", "create", "delete", "dump", "destroy"}, name : Names, tag : Tags]

Steps == {"idle", "check", "make", "set id", "undo", "look", "look again", "visit", "next",
          "luns", "rmdir"}

(* One type per variable. *)
TypeOK ==
  /\ supported \in BOOLEAN /\ object \in BOOLEAN /\ torn \in BOOLEAN
  /\ groups \subseteq Names
  /\ Default \in groups <=> object
  /\ id \in [Names -> 1 .. MaxTag \cup {NoId, DefaultId}]
  /\ value \in [Names -> Values]
  /\ member \in [LUNs -> Names \cup {None}]
  /\ pc \in [Procs -> Steps]
  /\ call \in [Procs -> Calls]
  /\ todo \in [Procs -> SUBSET (Names \cup LUNs)]
  /\ outcome \in {"none", "done", "raised", "-1"}

(* A new object, with the group that the kernel makes. *)
Init ==
  /\ supported \in BOOLEAN
  /\ object = TRUE
  /\ groups = {Default}
  /\ id = [g \in Names |-> IF g = Default THEN DefaultId ELSE NoId]
  /\ value = [g \in Names |-> 0]
  /\ member = [l \in LUNs |-> None]
  /\ pc = [p \in Procs |-> "idle"]
  /\ call = [p \in Procs |-> NoCall]
  /\ todo = [p \in Procs |-> {}]
  /\ outcome = "none"
  /\ before = [p \in Procs |-> None]
  /\ torn = FALSE

-----------------------------------------------------------------------------
(* The kernel (external). *)

(* A group takes an id once, and no two have the same. *)
AcceptsId(g, t) == g \in groups /\ id[g] = NoId /\ \A h \in groups : id[h] # t

Mkdir(g) ==
  /\ object
  /\ groups' = groups \cup {g}
  /\ UNCHANGED <<object, id, value, member>>

(* The members of a group that is removed go to the default group. *)
Rmdir(g) ==
  /\ groups' = groups \ {g}
  /\ id' = [id EXCEPT ![g] = NoId]
  /\ value' = [value EXCEPT ![g] = 0]
  /\ member' = [l \in LUNs |-> IF member[l] = g THEN Default ELSE member[l]]
  /\ UNCHANGED object

(* What has a child that is not the kernel's, or a symlink to it, stays. *)
CanRmdirObject == groups = {Default} /\ \A l \in LUNs : member[l] = None

-----------------------------------------------------------------------------
Idle(p) == pc[p] = "idle"

(* A call that starts overlaps those that are under way. *)
Overlaps(p) == \E q \in Procs \ {p} : pc[q] # "idle"

Start(p, c, step) ==
  /\ Idle(p)
  /\ pc' = [pc EXCEPT ![p] = step]
  /\ call' = [call EXCEPT ![p] = c]
  /\ before' = [q \in Procs |-> IF q = p /\ ~Overlaps(p) THEN <<object, groups, id, value, member>> ELSE None]
  /\ torn' = (torn \/ Overlaps(p))
  /\ outcome' = "none"

Goto(p, step) ==
  /\ pc' = [pc EXCEPT ![p] = step]
  /\ outcome' = "none"
  /\ UNCHANGED <<call, before, torn>>

End(p, how) ==
  /\ pc' = [pc EXCEPT ![p] = "idle"]
  /\ call' = [call EXCEPT ![p] = NoCall]
  /\ todo' = [todo EXCEPT ![p] = {}]
  /\ outcome' = how
  /\ before' = [before EXCEPT ![p] = None]
  /\ UNCHANGED torn

(* A call of one step. *)
Quick(p, how) ==
  /\ Idle(p)
  /\ outcome' = how
  /\ before' = [q \in Procs |-> None]
  /\ torn' = (torn \/ Overlaps(p))
  /\ UNCHANGED <<pc, call, todo>>

-----------------------------------------------------------------------------
(* ALUATargetPortGroup(storage_object, name, tag) *)

(* Mutant: the tag is not checked. *)
CreateAnyTag(p, g, t) ==
  IF supported
    THEN Start(p, [what |-> "create", name |-> g, tag |-> t], "check") /\ UNCHANGED <<supported, tree, todo>>
    ELSE Quick(p, "raised") /\ UNCHANGED <<supported, tree>>

Create(p, g, t) ==
  IF supported /\ t \in 1 .. MaxTag
    THEN Start(p, [what |-> "create", name |-> g, tag |-> t], "check") /\ UNCHANGED <<supported, tree, todo>>
    ELSE Quick(p, "raised") /\ UNCHANGED <<supported, tree>>

(* Mutant: a group that is there is taken for a new one. *)
CheckNothing(p) ==
  /\ pc[p] = "check" /\ Goto(p, "make")
  /\ UNCHANGED <<supported, tree, todo>>

(* _create_in_cfs_ine('create'): the group must not be there, *)
CheckNew(p) ==
  /\ pc[p] = "check"
  /\ \/ call[p].name \in groups /\ End(p, "raised")
     \/ call[p].name \notin groups /\ Goto(p, "make") /\ UNCHANGED todo
  /\ UNCHANGED <<supported, tree>>

(* and is made unless it is there by now; the kernel may refuse. *)
Make(p) ==
  /\ pc[p] = "make"
  /\ \/ call[p].name \in groups /\ Goto(p, "set id") /\ UNCHANGED <<tree, todo>>
     \/ call[p].name \notin groups /\ Mkdir(call[p].name) /\ Goto(p, "set id") /\ UNCHANGED todo
     \/ call[p].name \notin groups /\ End(p, "raised") /\ UNCHANGED tree
  /\ UNCHANGED supported

(* Mutant: a group that cannot have its id stays. *)
SetIdNoUndo(p) ==
  /\ pc[p] = "set id"
  /\ \/ /\ AcceptsId(call[p].name, call[p].tag)
        /\ id' = [id EXCEPT ![call[p].name] = call[p].tag]
        /\ End(p, "done")
     \/ End(p, "raised") /\ UNCHANGED id
  /\ UNCHANGED <<supported, object, groups, value, member>>

(* The id is written; a refusal removes the group again. *)
SetId(p) ==
  /\ pc[p] = "set id"
  /\ \/ /\ AcceptsId(call[p].name, call[p].tag)
        /\ id' = [id EXCEPT ![call[p].name] = call[p].tag]
        /\ End(p, "done")
     \/ Goto(p, "undo") /\ UNCHANGED <<id, todo>>
  /\ UNCHANGED <<supported, object, groups, value, member>>

(* delete() of the error path; the default group is never removed. *)
Undo(p) ==
  /\ pc[p] = "undo"
  /\ IF call[p].name \in groups \ {Default} THEN Rmdir(call[p].name) ELSE UNCHANGED tree
  /\ End(p, "raised")
  /\ UNCHANGED supported

-----------------------------------------------------------------------------
(* Lookups: ALUATargetPortGroup(storage_object, name) *)

(* ALUATargetPortGroup(storage_object, name).delete() *)
Delete(p, g) ==
  IF supported
    THEN Start(p, [what |-> "delete", name |-> g, tag |-> 0], "look") /\ UNCHANGED <<supported, tree, todo>>
    ELSE Quick(p, "raised") /\ UNCHANGED <<supported, tree>>

(* The group must be there, *)
Look(p) ==
  /\ pc[p] = "look"
  /\ \/ call[p].name \in groups /\ Goto(p, "look again") /\ UNCHANGED todo
     \/ call[p].name \notin groups /\ End(p, "raised")
  /\ UNCHANGED <<supported, tree>>

(* and is made when it is gone by now. *)
LookAgain(p) ==
  /\ pc[p] = "look again"
  /\ \/ call[p].name \in groups /\ Goto(p, "visit") /\ UNCHANGED <<tree, todo>>
     \/ call[p].name \notin groups /\ Mkdir(call[p].name) /\ Goto(p, "visit") /\ UNCHANGED todo
     \/ call[p].name \notin groups /\ End(p, "raised") /\ UNCHANGED tree
  /\ UNCHANGED supported

(* dump() reads the id, which is empty text when there is none, and that   *)
(* is no int().                                                            *)
Dumped(p) ==
  /\ pc[p] = "visit" /\ call[p].what = "dump"
  /\ \/ call[p].name \in groups /\ id[call[p].name] # NoId /\ Goto(p, "next") /\ UNCHANGED todo
     \/ (call[p].name \notin groups \/ id[call[p].name] = NoId) /\ End(p, "raised")
  /\ UNCHANGED <<supported, tree>>

(* Mutant: delete() of the object treats the default group as any other. *)
RemovedAny(p) ==
  /\ pc[p] = "visit" /\ call[p].what \in {"delete", "destroy"}
  /\ \/ /\ call[p].name \in groups \ {Default} /\ Rmdir(call[p].name)
        /\ IF call[p].what = "delete" THEN End(p, "done") ELSE Goto(p, "next") /\ UNCHANGED todo
     \/ call[p].name \notin groups \ {Default} /\ End(p, "raised") /\ UNCHANGED tree
  /\ UNCHANGED supported

(* delete() of a group refuses the default one, which delete() of the      *)
(* object leaves out.                                                      *)
Removed(p) ==
  /\ pc[p] = "visit" /\ call[p].what \in {"delete", "destroy"}
  /\ \/ call[p].name = Default /\ call[p].what = "destroy" /\ Goto(p, "next") /\ UNCHANGED <<tree, todo>>
     \/ call[p].name = Default /\ call[p].what = "delete" /\ End(p, "raised") /\ UNCHANGED tree
     \/ /\ call[p].name \in groups \ {Default} /\ Rmdir(call[p].name)
        /\ IF call[p].what = "delete" THEN End(p, "done") ELSE Goto(p, "next") /\ UNCHANGED todo
     \/ call[p].name \notin groups \cup {Default} /\ End(p, "raised") /\ UNCHANGED tree
  /\ UNCHANGED supported

-----------------------------------------------------------------------------
(* dump() and delete() of the object go through its groups. *)
ListAll(p, what) ==
  /\ IF object
       THEN /\ Start(p, [what |-> what, name |-> Default, tag |-> 0], "next")
            /\ todo' = [todo EXCEPT ![p] = groups]
       ELSE Quick(p, "raised")
  /\ UNCHANGED <<supported, tree>>

(* Mutant: the names are read again for every one that is visited. *)
NextOfAll(p) ==
  /\ pc[p] = "next" /\ object /\ supported
  /\ \E g \in groups :
       /\ todo' = [todo EXCEPT ![p] = groups \ {g}]
       /\ call' = [call EXCEPT ![p].name = g]
  /\ pc' = [pc EXCEPT ![p] = "look"]
  /\ outcome' = "none"
  /\ UNCHANGED <<supported, tree, before, torn>>

(* The next name of the listing is looked up, if ALUA is supported, for    *)
(* which the object has to be there; then it is the turn of the LUNs.      *)
NextName(p) ==
  /\ pc[p] = "next"
  /\ \/ todo[p] # {} /\ ~object /\ End(p, "raised")
     \/ /\ object /\ supported
        /\ \E g \in todo[p] :
             /\ todo' = [todo EXCEPT ![p] = @ \ {g}]
             /\ call' = [call EXCEPT ![p].name = g]
        /\ pc' = [pc EXCEPT ![p] = "look"]
        /\ outcome' = "none"
        /\ UNCHANGED <<before, torn>>
     \/ todo[p] # {} /\ object /\ ~supported /\ todo' = [todo EXCEPT ![p] = {}] /\ Goto(p, "next")
     \/ todo[p] = {} /\ call[p].what = "dump" /\ End(p, "done")
     \/ todo[p] = {} /\ call[p].what = "destroy" /\ ~object /\ End(p, "raised")
     \/ /\ todo[p] = {} /\ call[p].what = "destroy" /\ object
        /\ todo' = [todo EXCEPT ![p] = {l \in LUNs : member[l] # None}]
        /\ Goto(p, "luns")
  /\ UNCHANGED <<supported, tree>>

(* The LUNs of the object are deleted; one that is gone may be passed over *)
(* or raise, depending on where the walk is.  Mapped LUNs are in Exports,  *)
(* where one without a symlink makes LUN.delete raise; here every mapped   *)
(* LUN has its symlink.                                                    *)
DeleteLuns(p) ==
  /\ pc[p] = "luns"
  /\ \/ \E l \in todo[p] :
          \/ /\ todo' = [todo EXCEPT ![p] = @ \ {l}]
             /\ member' = [member EXCEPT ![l] = None]
             /\ Goto(p, "luns")
          \/ member[l] = None /\ End(p, "raised") /\ UNCHANGED member
     \/ todo[p] = {} /\ Goto(p, "rmdir") /\ UNCHANGED <<member, todo>>
  /\ UNCHANGED <<supported, object, groups, id, value>>

(* CFSNode.delete() of the object. *)
RmdirObject(p) ==
  /\ pc[p] = "rmdir"
  /\ \/ ~object /\ End(p, "done") /\ UNCHANGED tree
     \/ /\ object /\ CanRmdirObject
        /\ object' = FALSE /\ groups' = {}
        /\ id' = [g \in Names |-> NoId] /\ value' = [g \in Names |-> 0]
        /\ End(p, "done")
        /\ UNCHANGED member
     \/ object /\ ~CanRmdirObject /\ End(p, "raised") /\ UNCHANGED tree
  /\ UNCHANGED supported

-----------------------------------------------------------------------------
(* Calls of one step. *)

(* alua_tg_pt_gp_name of a LUN: the kernel takes the name of a group that  *)
(* has an id.                                                              *)
SetMember(p, l, g) ==
  /\ \/ member[l] = None /\ Quick(p, "raised") /\ UNCHANGED member
     \/ /\ member[l] # None /\ supported /\ g \in groups /\ id[g] # NoId
        /\ member' = [member EXCEPT ![l] = g]
        /\ Quick(p, "done")
     \/ member[l] # None /\ Quick(p, "-1") /\ UNCHANGED member
  /\ UNCHANGED <<supported, object, groups, id, value>>

(* Any parameter of a group that is written; the kernel may refuse. *)
SetValue(p, g, v) ==
  /\ \/ g \in groups /\ value' = [value EXCEPT ![g] = v] /\ Quick(p, "done")
     \/ Quick(p, "raised") /\ UNCHANGED value
  /\ UNCHANGED <<supported, object, groups, id, member>>

(* A LUN on the object is made, which puts it into the default group, or   *)
(* deleted.                                                                *)
AddLun(p, l) ==
  /\ object /\ member[l] = None
  /\ member' = [member EXCEPT ![l] = Default]
  /\ Quick(p, "done")
  /\ UNCHANGED <<supported, object, groups, id, value>>

DeleteLun(p, l) ==
  /\ member[l] # None
  /\ member' = [member EXCEPT ![l] = None]
  /\ Quick(p, "done")
  /\ UNCHANGED <<supported, object, groups, id, value>>

NewObject(p) ==
  /\ ~object
  /\ object' = TRUE /\ groups' = {Default} /\ id' = [id EXCEPT ![Default] = DefaultId]
  /\ Quick(p, "done")
  /\ UNCHANGED <<supported, value, member>>

(* The process dies. *)
Crash(p) ==
  /\ pc[p] # "idle"
  /\ pc' = [pc EXCEPT ![p] = "idle"]
  /\ call' = [call EXCEPT ![p] = NoCall]
  /\ todo' = [todo EXCEPT ![p] = {}]
  /\ before' = [before EXCEPT ![p] = None]
  /\ outcome' = "none" /\ torn' = TRUE
  /\ UNCHANGED <<supported, tree>>

Step(p) ==
  \/ CheckNew(p) \/ Make(p) \/ SetId(p) \/ Undo(p)
  \/ Look(p) \/ LookAgain(p) \/ Dumped(p) \/ Removed(p)
  \/ NextName(p) \/ DeleteLuns(p) \/ RmdirObject(p)

Next ==
  \E p \in Procs :
    \/ Step(p)
    \/ Crash(p)
    \/ NewObject(p)
    \/ \E g \in Names, t \in Tags : Create(p, g, t)
    \/ \E g \in Names : Delete(p, g)
    \/ \E what \in {"dump", "destroy"} : ListAll(p, what)
    \/ \E l \in LUNs, g \in Names : SetMember(p, l, g)
    \/ \E g \in Names, v \in Values : SetValue(p, g, v)
    \/ \E l \in LUNs : AddLun(p, l) \/ DeleteLun(p, l)

Spec == Init /\ [][Next]_vars

(* The operating system runs a process that has a step to do. *)
FairSpec == Spec /\ \A p \in Procs : WF_vars(Step(p))

-----------------------------------------------------------------------------
(* Properties. *)

Ends(p) == pc[p] # "idle" /\ pc'[p] = "idle" /\ outcome' # "none"

(* A constructor that raises, whatever the kernel refuses, and a dump      *)
(* leave groups, ids and members as they were, if no other call overlaps.  *)
NoTrace ==
  [][\A p \in Procs :
       (/\ before[p] # None /\ Ends(p)
        /\ call[p].what = "dump" \/ (call[p].what = "create" /\ outcome' = "raised")) =>
         <<object', groups', id', value', member'>> = before[p]]_vars

(* delete() of a storage object that no other call overlaps deletes it,    *)
(* whatever dead processes and overlapping calls have left in it: groups   *)
(* without an id, and groups with members.                                 *)
ObjectDeleted ==
  [][\A p \in Procs :
       before[p] # None /\ call[p].what = "destroy" /\ Ends(p) =>
         outcome' = "done" /\ ~object' /\ groups' = {} /\ \A l \in LUNs : member'[l] = None]_vars

(* As long as no process has died in a call and no calls have overlapped,  *)
(* every group has an id between calls, without which dump(), and so       *)
(* save_to_file, would raise.                                              *)
EveryGroupHasId ==
  ~torn /\ (\A p \in Procs : Idle(p)) => \A g \in groups : id[g] # NoId

(* Every call ends: listings visit what there was at their start, however  *)
(* many groups and LUNs others keep making.                                *)
CallsEnd == \A p \in Procs : ~Idle(p) ~> Idle(p)
=============================================================================
