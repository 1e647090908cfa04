------------------------------ MODULE AclGroups ------------------------------
(***************************************************************************)
(* NodeACLGroup and MappedLUNGroup (rtslib/target.py): the node ACLs of a  *)
(* TPG that have the same tag are handled as one.  A group is nothing but  *)
(* the tag: every call looks for the members again and goes through them   *)
(* one by one.                                                             *)
(*                                                                         *)
(* One process makes the calls.  configfs may refuse any write, and the    *)
(* call then ends half-way with an exception; a tag that is refused stays  *)
(* as it was, and no exception tells (NodeACL._set_tag).                   *)
(***************************************************************************)
EXTENDS Naturals

CONSTANTS
  Wwns,      \* initiator WWNs
  Tags,      \* group names
  Indexes,   \* indexes of mapped LUNs
  Luns,      \* the LUNs of the TPG
  Values,    \* values of the attributes and parameters, the TCQ depth, CHAP settings
  Default,   \* the value in an ACL that has just been made
  OwnACLs,   \* what calls on single ACLs, in no group, make of them
  MaxCalls,  \* bound on the calls
  None

Maps == [lun : Luns, protect : BOOLEAN]

(* attr stands for all attributes and parameters. *)
NodeACL == [tag : Tags \cup {None}, maps : [Indexes -> Maps \cup {None}],
            attr : Values, tcq : Values, chap : Values]

(* Mutant: nothing gives a new ACL its attributes. *)
NewACLUnset == [tag |-> None, maps |-> [i \in Indexes |-> None],
                attr |-> None, tcq |-> Default, chap |-> Default]

NewACL == [tag |-> None, maps |-> [i \in Indexes |-> None],
           attr |-> Default, tcq |-> Default, chap |-> Default]

ASSUME ConstantsAssumption ==
  /\ Default \in Values
  /\ \A a \in OwnACLs : a \in NodeACL /\ a.tag = None
  /\ MaxCalls \in Nat
  /\ None \notin Wwns \cup Tags \cup Values

(* The calls.  "map", "unmap" and "protect" are the constructor, delete()  *)
(* and write_protect of MappedLUNGroup.  In "set" wwn is None, or the one  *)
(* member whose CHAP setting is to change.  "own" is a call on an ACL that *)
(* is in no group.                                                         *)
Calls ==
  [kind : {"add", "remove"}, tag : Tags, wwn : Wwns]
    \cup [kind : {"rename"}, tag : Tags, wwn : {None}, to : Tags]
    \cup [kind : {"set"}, tag : Tags, wwn : {None}, field : {"attr", "tcq"}, value : Values]
    \cup [kind : {"set"}, tag : Tags, wwn : Wwns \cup {None}, field : {"chap"}, value : Values]
    \cup [kind : {"map"}, tag : Tags, wwn : {None}, index : Indexes, map : Maps]
    \cup [kind : {"unmap"}, tag : Tags, wwn : {None}, index : Indexes]
    \cup [kind : {"protect"}, tag : Tags, wwn : {None}, index : Indexes, on : BOOLEAN]
    \cup [kind : {"delete"}, tag : Tags, wwn : {None}]
    \cup [kind : {"own"}, tag : {None}, wwn : Wwns, acl : OwnACLs]

ASSUME NoneAssumption == None \notin Maps \cup NodeACL \cup Calls

VARIABLES
  acl,     \* the ACLs in configfs
  call,    \* the call that runs, or None
  stage,   \* where it is
  todo,    \* the members that it still has to visit
  model,   \* add_acl: the member to copy
  torn,    \* history: for each field the groups that have a reason to differ in it
  calls    \* the number of calls so far

(* What the members of a group have in common. *)
Fields == {"maps", "attr", "tcq"}

vars == <<acl, call, stage, todo, model, torn, calls>>

Stages == {"idle", "each", "one", "clear", "copy", "values", "tag", "tagtorn"}

(* One type per variable. *)
TypeOK ==
  /\ acl \in [Wwns -> NodeACL \cup {None}]
  /\ call \in Calls \cup {None} /\ (call = None <=> stage = "idle")
  /\ stage \in Stages
  /\ todo \in SUBSET Wwns
  /\ model \in Wwns \cup {None}
  /\ torn \in [Fields -> SUBSET Tags]
  /\ calls \in 0..MaxCalls

Init ==
  /\ acl = [w \in Wwns |-> None]
  /\ call = None /\ stage = "idle" /\ todo = {} /\ model = None
  /\ torn = [f \in Fields |-> {}] /\ calls = 0

There(w) == acl[w] # None

(* NodeACLGroup._node_acls: the ACLs of the TPG with na.tag == self.name. *)
Members(tag) == {w \in Wwns : There(w) /\ acl[w].tag = tag}

(* The groups of tags have a reason to differ in the fields. *)
Tear(tags, fields) == [f \in Fields |-> IF f \in fields THEN tags ELSE {}]

(* The groups of torn and more that can still differ after the step. *)
Torn(more) ==
  torn' = [f \in Fields |->
             {t \in torn[f] \cup more[f] : \E v, w \in Wwns :
                v # w /\ \A u \in {v, w} : acl'[u] # None /\ acl'[u].tag = t}]

End == call' = None /\ stage' = "idle" /\ todo' = {} /\ model' = None

-----------------------------------------------------------------------------
(* Calls that go through the members: for mem in self._mem_func(self).     *)

(* Mutant: an attribute is set in the first member only. *)
ToVisitFirst(c) ==
  IF c.kind # "set" THEN {}
  ELSE IF c.field = "attr" /\ Members(c.tag) # {} THEN {CHOOSE w \in Members(c.tag) : TRUE} ELSE {}

(* Those that the loop does something to: a MappedLUNGroup finds only the  *)
(* members with a mapped LUN of its index.                                 *)
ToVisit(c) ==
  LET has(w) == acl[w].maps[c.index] # None IN
  IF c.kind \in {"unmap", "protect"} THEN {w \in Members(c.tag) : has(w)}
  ELSE IF c.wwn = None THEN Members(c.tag)
  ELSE Members(c.tag) \cap {c.wwn}

(* A rename that joins two groups, or renames one whose members differ. *)
Merges(c) ==
  [f \in Fields |->
     IF c.kind = "rename" /\ c.to # c.tag /\ (c.tag \in torn[f] \/ Members(c.to) # {})
     THEN {c.to} ELSE {}]

Start(c) ==
  /\ stage = "idle" /\ calls < MaxCalls
  /\ calls' = calls + 1
  /\ torn' = [f \in Fields |-> torn[f] \cup Merges(c)[f]]
  /\ UNCHANGED <<acl, model>>
  /\ IF c.kind \in {"add", "remove", "own"}
     THEN call' = c /\ stage' = "one" /\ UNCHANGED todo
     ELSE IF ToVisit(c) = {}
     THEN UNCHANGED <<call, stage, todo>>
     ELSE call' = c /\ stage' = "each" /\ todo' = ToVisit(c)

(* What the call c makes of the ACL a. *)
After(c, a) ==
  CASE c.kind = "rename"  -> [a EXCEPT !.tag = c.to]
    [] c.kind = "set"     -> [a EXCEPT ![c.field] = c.value]
    [] c.kind = "map"     -> [a EXCEPT !.maps[c.index] = c.map]
    [] c.kind = "unmap"   -> [a EXCEPT !.maps[c.index] = None]
    [] c.kind = "protect" -> [a EXCEPT !.maps[c.index].protect = c.on]
    [] c.kind = "delete"  -> None

GoOn(w) ==
  IF todo = {w} THEN End /\ Torn(Tear({}, {}))
  ELSE todo' = todo \ {w} /\ UNCHANGED <<call, stage, model, torn>>

(* MappedLUN in creation mode: "create" must not find the directory. *)
MayVisit(w) == call.kind = "map" => acl[w].maps[call.index] = None

Visit(w) ==
  /\ stage = "each" /\ w \in todo /\ MayVisit(w)
  /\ acl' = [acl EXCEPT ![w] = After(call, acl[w])]
  /\ GoOn(w)
  /\ UNCHANGED calls

(* The directory is there: RTSLibError, and the loop ends. *)
VisitExists(w) ==
  /\ stage = "each" /\ w \in todo /\ ~MayVisit(w)
  /\ End
  /\ UNCHANGED <<acl, torn, calls>>

(* A NodeACL.delete that raises may have deleted mapped LUNs. *)
LosesMaps(w) ==
  \E S \in SUBSET Indexes :
    acl' = [acl EXCEPT ![w].maps = [i \in Indexes |-> IF i \in S THEN None ELSE @[i]]]

Sets(c) == IF c.kind = "set" THEN {c.field} ELSE {"maps"}

(* The group differs when members have been visited. *)
HalfWay ==
  Tear(IF call.kind = "delete" \/ todo # Members(call.tag) THEN {call.tag} ELSE {}, Sets(call))

(* A refused tag is passed over; anything else that is refused raises.     *)
VisitRefused(w) ==
  /\ stage = "each" /\ w \in todo /\ MayVisit(w)
  /\ IF call.kind = "rename" THEN UNCHANGED acl /\ GoOn(w)
     ELSE /\ IF call.kind = "delete" THEN LosesMaps(w) ELSE UNCHANGED acl
          /\ End /\ Torn(HalfWay)
  /\ UNCHANGED calls

-----------------------------------------------------------------------------
(* Calls about one ACL.                                                    *)

TagOf(w) == IF There(w) THEN {acl[w].tag} \ {None} ELSE {}

(* remove_acl deletes the ACL, whatever its tag. *)
RemoveACL ==
  /\ stage = "one" /\ call.kind = "remove"
  /\ \/ ~There(call.wwn) /\ UNCHANGED <<acl, torn>>
     \/ /\ There(call.wwn)
        /\ acl' = [acl EXCEPT ![call.wwn] = None]
        /\ Torn(Tear({}, {}))
     \/ /\ There(call.wwn)
        /\ LosesMaps(call.wwn)
        /\ Torn(Tear(TagOf(call.wwn), {"maps"}))
  /\ End
  /\ UNCHANGED calls

(* NodeACL() and calls on it, while it is in no group. *)
OwnACL ==
  /\ stage = "one" /\ call.kind = "own"
  /\ IF There(call.wwn) /\ acl[call.wwn].tag # None THEN UNCHANGED acl
     ELSE acl' = [acl EXCEPT ![call.wwn] = call.acl]
  /\ End
  /\ UNCHANGED <<torn, calls>>

(* add_acl up to the try: NodeACL() finds the ACL or makes it. *)
AddACL ==
  /\ stage = "one" /\ call.kind = "add"
  /\ \/ /\ call.wwn \in Members(call.tag)
        /\ End /\ UNCHANGED acl
     \/ /\ call.wwn \notin Members(call.tag)
        /\ acl' = [acl EXCEPT ![call.wwn] = IF There(call.wwn) THEN @ ELSE NewACL]
        /\ \/ /\ Members(call.tag) = {}
              /\ stage' = "tag" /\ UNCHANGED model
           \/ \E m \in Members(call.tag) : stage' = "clear" /\ model' = m
        /\ UNCHANGED <<call, todo>>
     \/ ~There(call.wwn) /\ End /\ UNCHANGED acl
  /\ UNCHANGED <<torn, calls>>

Joining == acl[call.wwn]

(* for mlun in nacl.mapped_luns: mlun.delete()                             *)
ClearMaps ==
  /\ stage = "clear"
  /\ \/ \E i \in Indexes :
          /\ Joining.maps[i] # None
          /\ acl' = [acl EXCEPT ![call.wwn].maps[i] = None]
          /\ UNCHANGED stage
     \/ /\ \A i \in Indexes : Joining.maps[i] = None
        /\ stage' = "copy" /\ UNCHANGED acl
  /\ UNCHANGED <<call, todo, model, torn, calls>>

(* for mlun in model.mapped_luns: MappedLUN(nacl, ...)                     *)
CopyMaps ==
  /\ stage = "copy"
  /\ \/ \E i \in Indexes :
          /\ acl[model].maps[i] # None /\ Joining.maps[i] = None
          /\ acl' = [acl EXCEPT ![call.wwn].maps[i] = acl[model].maps[i]]
          /\ UNCHANGED stage
     \/ /\ \A i \in Indexes : acl[model].maps[i] # None => Joining.maps[i] # None
        /\ stage' = "values" /\ UNCHANGED acl
  /\ UNCHANGED <<call, todo, model, torn, calls>>

(* Mutant: the CHAP settings are copied too. *)
CopyValuesAuth ==
  /\ stage = "values"
  /\ acl' = [acl EXCEPT ![call.wwn].attr = acl[model].attr, ![call.wwn].chap = acl[model].chap]
  /\ stage' = "tag"
  /\ UNCHANGED <<call, todo, model, torn, calls>>

(* set_attribute and set_parameter of what can be written; the TCQ depth   *)
(* is neither.                                                             *)
CopyValues ==
  /\ stage = "values"
  /\ acl' = [acl EXCEPT ![call.wwn].attr = acl[model].attr]
  /\ stage' = "tag"
  /\ UNCHANGED <<call, todo, model, torn, calls>>

(* Any of this raises: the finally clause comes next all the same. *)
JoinRefused ==
  /\ stage \in {"clear", "copy", "values"}
  /\ stage' = "tagtorn"
  /\ UNCHANGED <<acl, call, todo, model, torn, calls>>

(* What add_acl has not made the same as in the model. *)
Uncopied ==
  (IF stage = "tagtorn" THEN {"maps", "attr"} ELSE {})
    \cup (IF model # None /\ Joining.tcq # acl[model].tcq THEN {"tcq"} ELSE {})

(* finally: nacl.tag = self.name, which may silently not happen.  The ACL  *)
(* then has the configuration of one group and the tag of another.         *)
SetTag ==
  /\ stage \in {"tag", "tagtorn"}
  /\ \/ /\ acl' = [acl EXCEPT ![call.wwn].tag = call.tag]
        /\ Torn(Tear({call.tag}, Uncopied))
     \/ /\ UNCHANGED acl
        /\ Torn(Tear(IF model = None THEN {} ELSE TagOf(call.wwn), {"maps", "attr"}))
  /\ End
  /\ UNCHANGED calls

Next ==
  \/ \E c \in Calls : Start(c)
  \/ \E w \in Wwns : Visit(w) \/ VisitExists(w) \/ VisitRefused(w)
  \/ RemoveACL \/ OwnACL \/ AddACL
  \/ ClearMaps \/ CopyMaps \/ CopyValues \/ JoinRefused \/ SetTag

Spec == Init /\ [][Next]_vars

-----------------------------------------------------------------------------
(* Properties                                                              *)

(* Between calls the members of a group have the same mapped LUNs, the     *)
(* same attributes and parameters, and the same TCQ depth, unless they     *)
(* have a reason to differ in that one: a refusal cut short a call that    *)
(* was setting it, a rename joined two groups, or, for the TCQ depth, an   *)
(* ACL joined that had another one.  add_acl does not copy the TCQ depth,  *)
(* so the last reason needs no refusal, although the docstring says that   *)
(* the ACL will match the group in all but its auth parameters.            *)
(* A MappedLUNGroup that finds its index taken gives no reason: it stops   *)
(* before it has changed anything.  So get_attribute, get_parameter,       *)
(* tcq_depth and mapped_lun_groups, which ask one member, speak for all    *)
(* members of a group that has no such reason.                             *)
MembersAlike ==
  stage = "idle" =>
    \A f \in Fields : \A t \in Tags \ torn[f] : \A v, w \in Members(t) : acl[v][f] = acl[w][f]

(* A call changes no ACL but the one it names and the members of its       *)
(* group.  add_acl leaves the "auth parameters, which can vary among group *)
(* members" of an ACL that was there, and a CHAP setting for one WWN is    *)
(* set for that one only.                                                  *)
OthersUntouched ==
  [][\A w \in Wwns : acl'[w] # acl[w] =>
       /\ w = call.wwn \/ (There(w) /\ acl[w].tag = call.tag)
       /\ There(w) /\ acl'[w] # None /\ acl'[w].chap # acl[w].chap =>
            \/ call.kind = "own"
            \/ call.kind = "set" /\ call.field = "chap" /\ call.wwn \in {w, None}]_vars

=============================================================================
