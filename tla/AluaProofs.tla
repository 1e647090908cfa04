----------------------------- MODULE AluaProofs -----------------------------
(* Theorems about Alua, for any number of processes, groups and LUNs. *)
EXTENDS Alua, TLAPS

Creating == {"check", "make", "set id", "undo"}
Looking == {"look", "look again", "visit"}

(* A group that is not there has nothing; the default one has its id;      *)
(* there is no other where ALUA is not supported, nor any without object.  *)
TreeInv ==
  /\ \A g \in Names \ groups : id[g] = NoId /\ value[g] = 0 /\ \A l \in LUNs : member[l] # g
  /\ Default \in groups => id[Default] = DefaultId
  /\ ~supported => groups \subseteq {Default}
  /\ ~object => groups = {}

(* Which steps belong to which calls, and which listing is of groups. *)
CallInv ==
  \A p \in Procs :
    /\ pc[p] \in Creating => call[p].what = "create" /\ call[p].tag \in 1 .. MaxTag /\ supported
    /\ pc[p] \in Looking => call[p].what \in {"delete", "dump", "destroy"} /\ supported
    /\ pc[p] = "next" => call[p].what \in {"dump", "destroy"}
    /\ pc[p] \in {"luns", "rmdir"} => call[p].what = "destroy"
    /\ pc[p] # "luns" => todo[p] \subseteq Names

Alone(p) == \A q \in Procs \ {p} : pc[q] = "idle"

Tree == <<object, groups, id, value, member>>

(* What a constructor knows that no other call overlaps, *)
CreateFacts(p) ==
  /\ pc[p] = "make" => call[p].name \notin groups
  /\ pc[p] \in {"set id", "undo"} =>
       /\ call[p].name \in groups \ {Default}
       /\ id[call[p].name] = NoId /\ value[call[p].name] = 0
       /\ \A l \in LUNs : member[l] # call[p].name

(* and what a lookup and a listing do. *)
ListFacts(p) ==
  /\ pc[p] \in {"look again", "visit"} => call[p].name \in groups
  /\ call[p].what \in {"dump", "destroy"} =>
       /\ object
       /\ pc[p] \in Looking \cup {"next"} => todo[p] \subseteq groups
       /\ pc[p] \in Looking => call[p].name \in groups \ todo[p]
  /\ call[p].what = "destroy" =>
       /\ pc[p] \in Looking => groups \subseteq todo[p] \cup {call[p].name, Default}
       /\ pc[p] = "next" => groups \subseteq todo[p] \cup {Default}
  /\ pc[p] = "luns" => groups = {Default} /\ todo[p] = {l \in LUNs : member[l] # None}
  /\ pc[p] = "rmdir" => CanRmdirObject

(* What it knows of the tree at its start. *)
TraceFacts(p) ==
  /\ pc[p] \in {"check", "make"} \/ call[p].what = "dump" => before[p] = Tree
  /\ pc[p] \in {"set id", "undo"} =>
       before[p] = <<object, groups \ {call[p].name}, id, value, member>>

Solo(p) ==
  /\ pc[p] # "idle" /\ (~torn \/ before[p] # None) => Alone(p) /\ CreateFacts(p) /\ ListFacts(p)
  /\ pc[p] # "idle" /\ before[p] # None => TraceFacts(p)

SoloInv ==
  /\ before = [p \in Procs |-> before[p]]
  /\ \A p \in Procs : Solo(p)

(* Without overlaps and deaths a group has no id only while it is made. *)
IdInv ==
  ~torn => \A g \in groups : id[g] = NoId =>
             \E p \in Procs : pc[p] \in {"set id", "undo"} /\ call[p].name = g

AluaInv == TypeOK /\ TreeInv /\ CallInv /\ SoloInv /\ IdInv

-----------------------------------------------------------------------------
LEMMA Ids ==
  /\ NoId \notin 1 .. MaxTag /\ NoId # DefaultId
  /\ NoId \in 1 .. MaxTag \cup {NoId, DefaultId}
  /\ DefaultId \in 1 .. MaxTag \cup {NoId, DefaultId}
BY MaxTagAssumption DEF NoId, DefaultId

LEMMA CallsType ==
  /\ NoCall \in Calls
  /\ \A what \in {"none", "create", "delete", "dump", "destroy"}, g \in Names, t \in Tags :
       [what |-> what, name |-> g, tag |-> t] \in Calls
  /\ \A g \in Names, t \in Tags, c \in Calls : [c EXCEPT !.name = g] \in Calls
  /\ 0 \in Tags
BY MaxTagAssumption DEF NoCall, Calls, Names, Tags

LEMMA AluaInvInit == Init => AluaInv
<1> SUFFICES ASSUME Init
             PROVE  AluaInv
  OBVIOUS
<1> USE DEF Init, Names
<1>1. TypeOK
  BY Ids, CallsType, ValuesAssumption, Zenon DEF TypeOK, Steps
<1>2. TreeInv
  BY NoneAssumption DEF TreeInv
<1>3. CallInv /\ SoloInv
  BY DEF CallInv, SoloInv, Solo, Creating, Looking
<1>4. IdInv
  BY Ids DEF IdInv
<1> QED
  BY <1>1, <1>2, <1>3, <1>4 DEF AluaInv

(* The kernel's part of a step keeps the types and TreeInv. *)
LEMMA MkdirTree ==
  ASSUME TypeOK, TreeInv, NEW g \in Names \ groups, Mkdir(g), supported
  PROVE  /\ g # Default /\ groups' \subseteq Names /\ (Default \in groups' <=> object')
         /\ UNCHANGED <<object, id, value, member>>
         /\ \A h \in Names \ groups' : id'[h] = NoId /\ value'[h] = 0 /\ \A l \in LUNs : member'[l] # h
         /\ Default \in groups' => id'[Default] = DefaultId
         /\ id[g] = NoId /\ value[g] = 0 /\ \A l \in LUNs : member[l] # g
         /\ object
BY DEF TypeOK, TreeInv, Mkdir

LEMMA RmdirTree ==
  ASSUME TypeOK, TreeInv, NEW g \in groups \ {Default}, Rmdir(g)
  PROVE  /\ groups' \subseteq Names /\ (Default \in groups' <=> object') /\ UNCHANGED object
         /\ id' \in [Names -> 1 .. MaxTag \cup {NoId, DefaultId}]
         /\ value' \in [Names -> Values]
         /\ member' \in [LUNs -> Names \cup {None}]
         /\ \A h \in Names \ groups' : id'[h] = NoId /\ value'[h] = 0 /\ \A l \in LUNs : member'[l] # h
         /\ Default \in groups' => id'[Default] = DefaultId
         /\ ~supported => groups' \subseteq {Default}
<1>1. g \in Names /\ Default \in Names /\ g # None /\ Default # None
  BY NoneAssumption DEF TypeOK, Names
<1>2. /\ groups' \subseteq Names /\ (Default \in groups' <=> object') /\ UNCHANGED object
      /\ ~supported => groups' \subseteq {Default}
  BY <1>1 DEF TypeOK, TreeInv, Rmdir
<1>3. id' \in [Names -> 1 .. MaxTag \cup {NoId, DefaultId}]
  BY <1>1, Ids DEF TypeOK, Rmdir
<1>4. value' \in [Names -> Values]
  BY <1>1, ValuesAssumption DEF TypeOK, Rmdir
<1>5. member' \in [LUNs -> Names \cup {None}]
  BY <1>1 DEF TypeOK, Rmdir
<1>6. \A h \in Names \ groups' : id'[h] = NoId /\ value'[h] = 0 /\ \A l \in LUNs : member'[l] # h
  <2>1. Default \in groups
    BY DEF TypeOK, TreeInv
  <2> QED
    BY <1>1, <2>1 DEF TypeOK, TreeInv, Rmdir
<1>7. Default \in groups' => id'[Default] = DefaultId
  BY <1>1 DEF TypeOK, TreeInv, Rmdir
<1> QED
  BY <1>2, <1>3, <1>4, <1>5, <1>6, <1>7

-----------------------------------------------------------------------------
(* Types, the tree and the shape of calls, whatever overlaps. *)
BaseInv == TypeOK /\ TreeInv /\ CallInv

TreeType ==
  /\ supported \in BOOLEAN /\ object \in BOOLEAN
  /\ groups \subseteq Names
  /\ Default \in groups <=> object
  /\ id \in [Names -> 1 .. MaxTag \cup {NoId, DefaultId}]
  /\ value \in [Names -> Values]
  /\ member \in [LUNs -> Names \cup {None}]

LocalType ==
  /\ torn \in BOOLEAN
  /\ pc \in [Procs -> Steps]
  /\ call \in [Procs -> Calls]
  /\ todo \in [Procs -> SUBSET (Names \cup LUNs)]
  /\ outcome \in {"none", "done", "raised", "-1"}

LEMMA TypeSplit == (TypeOK <=> TreeType /\ LocalType) /\ (TypeOK' <=> TreeType' /\ LocalType')
BY DEF TypeOK, TreeType, LocalType

(* A tree that does not change is as good as it was. *)
LEMMA TreeSame ==
  ASSUME TreeType, TreeInv, UNCHANGED <<supported, tree>>
  PROVE  TreeType' /\ TreeInv'
BY DEF TreeType, TreeInv, tree

LEMMA GotoBase ==
  ASSUME LocalType, CallInv, NEW p \in Procs, NEW s \in Steps, Goto(p, s), supported' = supported,
         NEW T \in SUBSET (Names \cup LUNs), todo' = [todo EXCEPT ![p] = T],
         s # "luns" => T \subseteq Names,
         s \in Creating => pc[p] \in Creating,
         s \in Looking => pc[p] \in Looking,
         s = "next" => call[p].what \in {"dump", "destroy"},
         s \in {"luns", "rmdir"} => call[p].what = "destroy"
  PROVE  LocalType' /\ CallInv'
<1>1. LocalType'
  BY DEF LocalType, Goto
<1>2. ASSUME NEW q \in Procs
      PROVE  CallInv!(q)'
  <2>1. CASE q = p
    BY <2>1 DEF LocalType, CallInv, Goto
  <2>2. CASE q # p
    BY <2>2 DEF LocalType, CallInv, Goto
  <2> QED
    BY <2>1, <2>2
<1> QED
  BY <1>1, <1>2 DEF CallInv

LEMMA EndBase ==
  ASSUME LocalType, CallInv, NEW p \in Procs, NEW how \in {"done", "raised"}, End(p, how), supported' = supported
  PROVE  LocalType' /\ CallInv'
<1>1. LocalType'
  BY CallsType, Zenon DEF LocalType, End, Steps
<1>2. ASSUME NEW q \in Procs
      PROVE  CallInv!(q)'
  <2>1. CASE q = p
    BY <2>1, Zenon DEF LocalType, CallInv, End, Creating, Looking
  <2>2. CASE q # p
    BY <2>2 DEF LocalType, CallInv, End
  <2> QED
    BY <2>1, <2>2
<1> QED
  BY <1>1, <1>2 DEF CallInv

LEMMA StartBase ==
  ASSUME LocalType, CallInv, NEW p \in Procs, NEW c \in Calls, NEW s \in Steps, Start(p, c, s),
         supported' = supported, NEW T \in SUBSET Names, todo' = [todo EXCEPT ![p] = T],
         \/ s = "check" /\ c.what = "create" /\ c.tag \in 1 .. MaxTag /\ supported
         \/ s = "look" /\ c.what = "delete" /\ supported
         \/ s = "next" /\ c.what \in {"dump", "destroy"}
  PROVE  LocalType' /\ CallInv'
<1>1. LocalType'
  BY DEF LocalType, Start, Overlaps
<1>2. ASSUME NEW q \in Procs
      PROVE  CallInv!(q)'
  <2>1. CASE q = p
    BY <2>1, Zenon DEF LocalType, CallInv, Start, Creating, Looking
  <2>2. CASE q # p
    BY <2>2 DEF LocalType, CallInv, Start
  <2> QED
    BY <2>1, <2>2
<1> QED
  BY <1>1, <1>2 DEF CallInv

LEMMA QuickBase ==
  ASSUME LocalType, CallInv, NEW p \in Procs, NEW how \in {"done", "raised", "-1"}, Quick(p, how), supported' = supported
  PROVE  LocalType' /\ CallInv'
BY DEF LocalType, CallInv, Quick, Overlaps

LEMMA BaseCreate ==
  ASSUME BaseInv, NEW p \in Procs, CheckNew(p) \/ Make(p) \/ SetId(p) \/ Undo(p)
  PROVE  BaseInv'
<1> USE TypeSplit DEF BaseInv
<1>1. /\ TreeType /\ TreeInv /\ LocalType /\ CallInv /\ supported' = supported
      /\ pc[p] \in Creating /\ call[p].name \in Names /\ call[p].tag \in 1 .. MaxTag /\ supported
  BY Zenon DEF CheckNew, Make, SetId, Undo, Creating, LocalType, Calls, CallInv
<1>2. LocalType' /\ CallInv'
  <2>1. CASE End(p, "raised") \/ End(p, "done")
    BY <1>1, <2>1, EndBase
  <2>2. ASSUME NEW s \in {"make", "set id", "undo"}, Goto(p, s), todo' = todo
        PROVE  LocalType' /\ CallInv'
    <3>1. /\ todo' = [todo EXCEPT ![p] = todo[p]] /\ todo[p] \in SUBSET (Names \cup LUNs)
          /\ todo[p] \subseteq Names
      BY <1>1, <2>2, Zenon DEF LocalType, CallInv, Creating, Looking
    <3>2. /\ s \in Steps /\ s \in Creating /\ s \notin Looking /\ s # "next" /\ s \notin {"luns", "rmdir"}
      BY <2>2, Zenon DEF Steps, Creating, Looking
    <3> QED
      BY <1>1, <2>2, <3>1, <3>2, GotoBase, Zenon
  <2> QED
    BY <2>1, <2>2, Zenon DEF CheckNew, Make, SetId, Undo
<1>3. CASE UNCHANGED tree
  BY <1>1, <1>2, <1>3, TreeSame, Zenon
<1>4. CASE Make(p) /\ Mkdir(call[p].name) /\ call[p].name \notin groups
  BY <1>1, <1>2, <1>4, MkdirTree, ZenonT(30) DEF TreeType, TreeInv
<1>5. CASE SetId(p) /\ id' # id
  <2>1. /\ id' = [id EXCEPT ![call[p].name] = call[p].tag] /\ call[p].name \in groups
        /\ id[call[p].name] = NoId /\ UNCHANGED <<object, groups, value, member>>
    BY <1>5, Zenon DEF SetId, AcceptsId
  <2>2. call[p].name # Default
    BY <2>1, Ids, Zenon DEF TreeInv
  <2> QED
    BY <1>1, <1>2, <2>1, <2>2 DEF TreeType, TreeInv
<1>6. CASE Undo(p) /\ call[p].name \in groups \ {Default} /\ Rmdir(call[p].name)
  BY <1>1, <1>2, <1>6, RmdirTree DEF TreeType, TreeInv
<1> QED
  BY <1>3, <1>4, <1>5, <1>6, Zenon DEF CheckNew, Make, SetId, Undo, tree

LEMMA BaseLook ==
  ASSUME BaseInv, NEW p \in Procs, Look(p) \/ LookAgain(p) \/ Dumped(p) \/ Removed(p)
  PROVE  BaseInv'
<1> USE TypeSplit DEF BaseInv
<1>1. /\ TreeType /\ TreeInv /\ LocalType /\ CallInv /\ supported' = supported
      /\ pc[p] \in Looking /\ call[p].name \in Names /\ supported
  BY Zenon DEF Look, LookAgain, Dumped, Removed, Looking, LocalType, Calls, CallInv
<1>2. LocalType' /\ CallInv'
  <2>1. CASE End(p, "raised") \/ End(p, "done")
    BY <1>1, <2>1, EndBase
  <2>2. ASSUME NEW s \in {"look again", "visit"}, Goto(p, s), todo' = todo
        PROVE  LocalType' /\ CallInv'
    <3>1. /\ todo' = [todo EXCEPT ![p] = todo[p]] /\ todo[p] \in SUBSET (Names \cup LUNs)
          /\ todo[p] \subseteq Names
      BY <1>1, <2>2, Zenon DEF LocalType, CallInv, Creating, Looking
    <3>2. /\ s \in Steps /\ s \notin Creating /\ s \in Looking /\ s # "next" /\ s \notin {"luns", "rmdir"}
      BY <2>2, Zenon DEF Steps, Creating, Looking
    <3> QED
      BY <1>1, <2>2, <3>1, <3>2, GotoBase, Zenon
  <2>3. CASE Goto(p, "next") /\ todo' = todo /\ call[p].what \in {"dump", "destroy"}
    <3>1. /\ todo' = [todo EXCEPT ![p] = todo[p]] /\ todo[p] \in SUBSET (Names \cup LUNs)
          /\ todo[p] \subseteq Names
      BY <1>1, <2>3, Zenon DEF LocalType, CallInv, Looking
    <3> QED
      BY <1>1, <2>3, <3>1, GotoBase, Zenon DEF Steps, Creating, Looking
  <2> QED
    BY <2>1, <2>2, <2>3, Zenon DEF Look, LookAgain, Dumped, Removed
<1>3. CASE UNCHANGED tree
  BY <1>1, <1>2, <1>3, TreeSame, Zenon
<1>4. CASE LookAgain(p) /\ Mkdir(call[p].name) /\ call[p].name \notin groups
  BY <1>1, <1>2, <1>4, MkdirTree, Zenon DEF TreeType, TreeInv
<1>5. CASE Removed(p) /\ call[p].name \in groups \ {Default} /\ Rmdir(call[p].name)
  BY <1>1, <1>2, <1>5, RmdirTree DEF TreeType, TreeInv
<1> QED
  BY <1>3, <1>4, <1>5, Zenon DEF Look, LookAgain, Dumped, Removed

LEMMA BaseList ==
  ASSUME BaseInv, NEW p \in Procs, NextName(p) \/ DeleteLuns(p) \/ RmdirObject(p)
  PROVE  BaseInv'
<1> USE TypeSplit DEF BaseInv
<1>1. TreeType /\ TreeInv /\ LocalType /\ CallInv /\ supported' = supported
  BY DEF NextName, DeleteLuns, RmdirObject
<1>2. CASE NextName(p)
  <2>1. UNCHANGED <<supported, tree>> /\ call[p].what \in {"dump", "destroy"} /\ pc[p] = "next"
    BY <1>1, <1>2 DEF NextName, CallInv
  <2>2. LocalType' /\ CallInv'
    <3>1. CASE End(p, "raised") \/ End(p, "done")
      BY <1>1, <3>1, EndBase
    <3>2. CASE todo' = [todo EXCEPT ![p] = {}] /\ Goto(p, "next")
      BY <1>1, <2>1, <3>2, GotoBase, Zenon DEF Steps, Creating, Looking
    <3>3. CASE /\ call[p].what = "destroy"
               /\ todo' = [todo EXCEPT ![p] = {l \in LUNs : member[l] # None}]
               /\ Goto(p, "luns")
      <4> DEFINE L == {l \in LUNs : member[l] # None}
      <4>1. L \in SUBSET (Names \cup LUNs) /\ todo' = [todo EXCEPT ![p] = L]
        BY <3>3, Zenon
      <4> HIDE DEF L
      <4> QED
        BY <1>1, <2>1, <3>3, <4>1, GotoBase, Zenon DEF Steps, Creating, Looking
    <3>4. CASE /\ object /\ supported
               /\ \E g \in todo[p] :
                    /\ todo' = [todo EXCEPT ![p] = @ \ {g}]
                    /\ call' = [call EXCEPT ![p].name = g]
               /\ pc' = [pc EXCEPT ![p] = "look"]
               /\ outcome' = "none"
               /\ UNCHANGED <<before, torn>>
      <4>1. PICK g \in todo[p] : /\ todo' = [todo EXCEPT ![p] = @ \ {g}]
                                 /\ call' = [call EXCEPT ![p].name = g]
        BY <3>4, Zenon
      <4>2. g \in Names /\ todo[p] \subseteq Names
        BY <1>1, <2>1 DEF CallInv
      <4>3. call[p] \in Calls /\ call' = [call EXCEPT ![p] = [call[p] EXCEPT !.name = g]]
        BY <1>1, <4>1 DEF LocalType
      <4>4. [call[p] EXCEPT !.name = g] \in Calls /\ [call[p] EXCEPT !.name = g].what = call[p].what
        BY <4>2, <4>3 DEF Calls
      <4>5. LocalType'
        BY <1>1, <3>4, <4>1, <4>2, <4>3, <4>4, ZenonT(60) DEF LocalType, Steps
      <4>6. ASSUME NEW q \in Procs
            PROVE  CallInv!(q)'
        <5>1. CASE q = p
          <6>1. /\ pc'[p] = "look" /\ call'[p].what \in {"dump", "destroy"} /\ todo'[p] \subseteq Names
                /\ supported'
            BY <1>1, <2>1, <3>4, <4>1, <4>2, <4>3, <4>4 DEF LocalType
          <6> QED
            BY <5>1, <6>1 DEF Creating, Looking
        <5>2. CASE q # p
          BY <1>1, <3>4, <4>1, <4>3, <5>2 DEF LocalType, CallInv
        <5> QED
          BY <5>1, <5>2
      <4> QED
        BY <4>5, <4>6 DEF CallInv
    <3> QED
      BY <1>2, <3>1, <3>2, <3>3, <3>4 DEF NextName
  <2> QED
    BY <1>1, <2>1, <2>2, TreeSame, Zenon
<1>3. CASE DeleteLuns(p)
  <2>1. pc[p] = "luns" /\ call[p].what = "destroy" /\ UNCHANGED <<object, groups, id, value>>
    BY <1>1, <1>3 DEF DeleteLuns, CallInv
  <2>2. member' = member \/ \E l \in LUNs \cap todo[p] : member' = [member EXCEPT ![l] = None]
    BY <1>1, <1>3 DEF DeleteLuns, TreeType, LocalType
  <2>3. TreeType' /\ TreeInv'
    BY <1>1, <2>1, <2>2, NoneAssumption, ZenonT(120) DEF TreeType, TreeInv, Names
  <2>4. LocalType' /\ CallInv'
    <3>1. CASE End(p, "raised")
      BY <1>1, <3>1, EndBase
    <3>2. ASSUME NEW l, todo' = [todo EXCEPT ![p] = @ \ {l}], Goto(p, "luns")
          PROVE  LocalType' /\ CallInv'
      <4>1. todo[p] \ {l} \in SUBSET (Names \cup LUNs) /\ todo' = [todo EXCEPT ![p] = todo[p] \ {l}]
        BY <1>1, <3>2 DEF LocalType
      <4> QED
        BY <1>1, <2>1, <3>2, <4>1, GotoBase, Zenon DEF Steps, Creating, Looking
    <3>3. CASE todo[p] = {} /\ todo' = todo /\ Goto(p, "rmdir")
      <4>1. todo' = [todo EXCEPT ![p] = {}]
        BY <1>1, <3>3 DEF LocalType
      <4> QED
        BY <1>1, <2>1, <3>3, <4>1, GotoBase, Zenon DEF Steps, Creating, Looking
    <3> QED
      BY <1>3, <3>1, <3>2, <3>3 DEF DeleteLuns
  <2> QED
    BY <2>3, <2>4
<1>4. CASE RmdirObject(p)
  <2>1. LocalType' /\ CallInv'
    BY <1>1, <1>4, EndBase DEF RmdirObject
  <2>2. CASE UNCHANGED tree
    BY <1>1, <2>1, <2>2, TreeSame
  <2>3. CASE /\ CanRmdirObject /\ object' = FALSE /\ groups' = {} /\ member' = member
             /\ id' = [g \in Names |-> NoId] /\ value' = [g \in Names |-> 0]
    <3>1. TreeType'
      BY <1>1, <2>3, Ids, ValuesAssumption, Zenon DEF TreeType
    <3>2. TreeInv'
      BY <1>1, <2>3, NoneAssumption, Zenon DEF TreeInv, TreeType, CanRmdirObject, Names
    <3> QED
      BY <2>1, <3>1, <3>2
  <2> QED
    BY <1>4, <2>2, <2>3, Zenon DEF RmdirObject
<1> QED
  BY <1>2, <1>3, <1>4

(* Calls of one step, and the first step of the others. *)
Short(p) ==
  \/ \E g \in Names, t \in Tags : Create(p, g, t)
  \/ \E g \in Names : Delete(p, g)
  \/ \E what \in {"dump", "destroy"} : ListAll(p, what)
  \/ \E l \in LUNs, g \in Names : SetMember(p, l, g)
  \/ \E g \in Names, v \in Values : SetValue(p, g, v)
  \/ \E l \in LUNs : AddLun(p, l) \/ DeleteLun(p, l)
  \/ NewObject(p)

(* All they do to the calls. *)
Begins(p) ==
  \/ /\ \E g \in Names, t \in 1 .. MaxTag : Start(p, [what |-> "create", name |-> g, tag |-> t], "check")
     /\ supported /\ UNCHANGED <<tree, todo>>
  \/ /\ \E g \in Names : Start(p, [what |-> "delete", name |-> g, tag |-> 0], "look")
     /\ supported /\ UNCHANGED <<tree, todo>>
  \/ /\ \E what \in {"dump", "destroy"} : Start(p, [what |-> what, name |-> Default, tag |-> 0], "next")
     /\ object /\ todo' = [todo EXCEPT ![p] = groups] /\ UNCHANGED tree

LEMMA ShortCalls ==
  ASSUME NEW p \in Procs, Short(p)
  PROVE  /\ supported' = supported
         /\ Begins(p) \/ \E how \in {"done", "raised", "-1"} : Quick(p, how)
         /\ UNCHANGED <<object, groups, id>> \/ NewObject(p)
<1>1. CASE \E g \in Names, t \in Tags : Create(p, g, t)
  BY <1>1, Zenon DEF Create, Begins, tree
<1>2. CASE \E g \in Names : Delete(p, g)
  BY <1>2, Zenon DEF Delete, Begins, tree
<1>3. CASE \E what \in {"dump", "destroy"} : ListAll(p, what)
  BY <1>3 DEF ListAll, Begins, tree
<1>4. CASE \E l \in LUNs, g \in Names : SetMember(p, l, g)
  BY <1>4 DEF SetMember
<1>5. CASE \E g \in Names, v \in Values : SetValue(p, g, v)
  BY <1>5 DEF SetValue
<1>6. CASE \E l \in LUNs : AddLun(p, l) \/ DeleteLun(p, l)
  BY <1>6 DEF AddLun, DeleteLun
<1>7. CASE NewObject(p)
  BY <1>7, Zenon DEF NewObject
<1> QED
  BY <1>1, <1>2, <1>3, <1>4, <1>5, <1>6, <1>7, Zenon DEF Short

LEMMA BaseShort ==
  ASSUME BaseInv, NEW p \in Procs, Short(p)
  PROVE  BaseInv'
<1> USE TypeSplit DEF BaseInv
<1>1. TreeType /\ TreeInv /\ LocalType /\ CallInv /\ supported' = supported
  BY ShortCalls
<1>2. LocalType' /\ CallInv'
  <2>1. CASE \E how \in {"done", "raised", "-1"} : Quick(p, how)
    BY <1>1, <2>1, QuickBase
  <2>2. CASE Begins(p)
    <3>0. Idle(p) /\ todo[p] \subseteq Names /\ Default \in Names
      BY <1>1, <2>2 DEF Begins, Start, Idle, CallInv, Names
    <3>1. ASSUME NEW g \in Names, NEW t \in 1 .. MaxTag, supported, todo' = todo,
                 Start(p, [what |-> "create", name |-> g, tag |-> t], "check")
          PROVE  LocalType' /\ CallInv'
      <4> DEFINE c == [what |-> "create", name |-> g, tag |-> t]
      <4>1. t \in Tags
        BY MaxTagAssumption DEF Tags
      <4>2. c \in Calls /\ c.what = "create" /\ c.tag = t
        BY <4>1, CallsType
      <4>3. todo[p] \in SUBSET Names /\ todo' = [todo EXCEPT ![p] = todo[p]]
        BY <1>1, <3>0, <3>1 DEF LocalType
      <4> HIDE DEF c
      <4> QED
        BY <1>1, <3>1, <4>2, <4>3, StartBase, ZenonT(120) DEF Steps, c
    <3>2. ASSUME NEW g \in Names, supported, todo' = todo,
                 Start(p, [what |-> "delete", name |-> g, tag |-> 0], "look")
          PROVE  LocalType' /\ CallInv'
      <4> DEFINE c == [what |-> "delete", name |-> g, tag |-> 0]
      <4>2. c \in Calls /\ c.what = "delete"
        BY CallsType
      <4>3. todo[p] \in SUBSET Names /\ todo' = [todo EXCEPT ![p] = todo[p]]
        BY <1>1, <3>0, <3>2 DEF LocalType
      <4> HIDE DEF c
      <4> QED
        BY <1>1, <3>2, <4>2, <4>3, StartBase, ZenonT(60) DEF Steps, c
    <3>3. ASSUME NEW what \in {"dump", "destroy"}, todo' = [todo EXCEPT ![p] = groups],
                 Start(p, [what |-> what, name |-> Default, tag |-> 0], "next")
          PROVE  LocalType' /\ CallInv'
      <4> DEFINE c == [what |-> what, name |-> Default, tag |-> 0]
      <4>2. c \in Calls /\ c.what \in {"dump", "destroy"}
        BY <3>0, CallsType
      <4>3. groups \in SUBSET Names
        BY <1>1 DEF TreeType
      <4> HIDE DEF c
      <4> QED
        BY <1>1, <3>3, <4>2, <4>3, StartBase, Zenon DEF Steps, c
    <3> QED
      BY <2>2, <3>1, <3>2, <3>3, Zenon DEF Begins
  <2> QED
    BY <2>1, <2>2, ShortCalls
<1>3. CASE UNCHANGED tree
  BY <1>1, <1>2, <1>3, TreeSame
<1>4. CASE \E l \in LUNs, g \in Names : SetMember(p, l, g)
  BY <1>1, <1>2, <1>4 DEF SetMember, TreeType, TreeInv
<1>5. CASE \E g \in Names, v \in Values : SetValue(p, g, v)
  BY <1>1, <1>2, <1>5 DEF SetValue, TreeType, TreeInv
<1>6. CASE \E l \in LUNs : AddLun(p, l) \/ DeleteLun(p, l)
  <2>1. None \notin Names /\ Default \in Names
    BY NoneAssumption, Zenon DEF Names
  <2> QED
    BY <1>1, <1>2, <1>6, <2>1 DEF AddLun, DeleteLun, TreeType, TreeInv
<1>7. CASE NewObject(p)
  BY <1>1, <1>2, <1>7, Ids, Zenon DEF NewObject, TreeType, TreeInv, Names
<1> QED
  BY <1>3, <1>4, <1>5, <1>6, <1>7, Zenon DEF Short, Create, Delete, ListAll

LEMMA BaseCrash ==
  ASSUME BaseInv, NEW p \in Procs, Crash(p)
  PROVE  BaseInv'
<1> USE TypeSplit DEF BaseInv
<1>1. TreeType' /\ TreeInv'
  BY TreeSame DEF Crash
<1>2. LocalType'
  BY CallsType, Zenon DEF LocalType, Crash, Steps
<1>3. ASSUME NEW q \in Procs
      PROVE  CallInv!(q)'
  <2>1. CASE q = p
    BY <2>1, Zenon DEF LocalType, CallInv, Crash, Creating, Looking
  <2>2. CASE q # p
    BY <2>2 DEF LocalType, CallInv, Crash
  <2> QED
    BY <2>1, <2>2
<1> QED
  BY <1>1, <1>2, <1>3 DEF CallInv

-----------------------------------------------------------------------------
(* What a call knows that no other overlaps. *)

(* The end of a call, and its death, take nothing from the others. *)
LEMMA EndSolo ==
  ASSUME LocalType, SoloInv, NEW p \in Procs, pc[p] # "idle",
         \/ \E how \in {"done", "raised"} : End(p, how)
         \/ Crash(p)
  PROVE  SoloInv'
<1>1. /\ pc' = [pc EXCEPT ![p] = "idle"] /\ before' = [before EXCEPT ![p] = None] /\ (~torn' => ~torn)
  BY DEF End, Crash
<1>2. before' = [q \in Procs |-> before'[q]]
  BY <1>1 DEF SoloInv
<1>3. ASSUME NEW q \in Procs
      PROVE  Solo(q)'
  <2>1. CASE q = p
    BY <1>1, <2>1 DEF LocalType, Solo
  <2>2. CASE q # p
    <3>1. pc'[q] = pc[q] /\ before'[q] = before[q]
      BY <1>1, <2>2 DEF LocalType, SoloInv
    <3>2. pc[q] # "idle" => ~Alone(q)
      BY <2>2 DEF Alone
    <3>3. ~(pc'[q] # "idle" /\ (~torn' \/ before'[q] # None))
      BY <1>1, <3>1, <3>2 DEF SoloInv, Solo
    <3> QED
      BY <3>3 DEF Solo
  <2> QED
    BY <2>1, <2>2
<1> QED
  BY <1>2, <1>3 DEF SoloInv

(* A step within a call keeps what its own actions keep. *)
LEMMA GotoSolo ==
  ASSUME LocalType, SoloInv, NEW p \in Procs, pc[p] # "idle", NEW s \in Steps,
         pc' = [pc EXCEPT ![p] = s], UNCHANGED <<before, torn>>,
         ~torn \/ before[p] # None => CreateFacts(p)' /\ ListFacts(p)',
         before[p] # None => TraceFacts(p)'
  PROVE  SoloInv'
<1>1. ASSUME NEW q \in Procs
      PROVE  Solo(q)'
  <2>1. CASE q = p
    <3>1. ~torn \/ before[p] # None => Alone(p)'
      BY Zenon DEF LocalType, SoloInv, Solo, Alone
    <3> QED
      BY <2>1, <3>1 DEF Solo
  <2>2. CASE q # p
    <3>1. pc'[q] = pc[q]
      BY <2>2, Zenon DEF LocalType
    <3>2. pc[q] # "idle" => ~Alone(q)
      BY <2>2 DEF Alone
    <3>3. ~(pc'[q] # "idle" /\ (~torn' \/ before'[q] # None))
      BY <3>1, <3>2 DEF SoloInv, Solo
    <3> QED
      BY <3>3 DEF Solo
  <2> QED
    BY <2>1, <2>2
<1> QED
  BY <1>1, Zenon DEF SoloInv

LEMMA QuickSolo ==
  ASSUME LocalType, NEW p \in Procs, NEW how \in {"done", "raised", "-1"}, Quick(p, how)
  PROVE  SoloInv'
<1>1. ASSUME NEW q \in Procs
      PROVE  Solo(q)'
  <2>1. ~(pc'[q] # "idle" /\ (~torn' \/ before'[q] # None))
    BY Zenon DEF Quick, Idle, Overlaps
  <2> QED
    BY <2>1 DEF Solo
<1> QED
  BY <1>1 DEF SoloInv, Quick

LEMMA BeginSolo ==
  ASSUME TreeType, LocalType, NEW p \in Procs, Begins(p)
  PROVE  SoloInv'
<1>1. PICK c \in Calls, s \in {"check", "look", "next"} :
        /\ Start(p, c, s) /\ UNCHANGED tree
        /\ \/ s = "check" /\ c.what = "create"
           \/ s = "look" /\ c.what = "delete"
           \/ s = "next" /\ c.what \in {"dump", "destroy"} /\ object /\ todo' = [todo EXCEPT ![p] = groups]
  <2>1. CASE /\ \E g \in Names, t \in 1 .. MaxTag : Start(p, [what |-> "create", name |-> g, tag |-> t], "check")
             /\ UNCHANGED <<tree, todo>>
    <3>1. PICK g \in Names, t \in 1 .. MaxTag : Start(p, [what |-> "create", name |-> g, tag |-> t], "check")
      BY <2>1
    <3>2. t \in Tags
      BY MaxTagAssumption DEF Tags
    <3> QED
      BY <2>1, <3>1, <3>2, CallsType
  <2>2. CASE /\ \E g \in Names : Start(p, [what |-> "delete", name |-> g, tag |-> 0], "look")
             /\ UNCHANGED <<tree, todo>>
    BY <2>2, CallsType
  <2>3. CASE /\ \E what \in {"dump", "destroy"} : Start(p, [what |-> what, name |-> Default, tag |-> 0], "next")
             /\ object /\ todo' = [todo EXCEPT ![p] = groups] /\ UNCHANGED tree
    <3>1. Default \in Names
      BY DEF Names
    <3> QED
      BY <2>3, <3>1, CallsType
  <2> QED
    BY <2>1, <2>2, <2>3, Zenon DEF Begins
<1>2. /\ before' = [q \in Procs |-> before'[q]]
      /\ \A q \in Procs \ {p} : before'[q] = None
      /\ before'[p] # None => ~Overlaps(p) /\ before'[p] = Tree
      /\ pc' = [pc EXCEPT ![p] = s] /\ call'[p] = c /\ (~torn' => ~Overlaps(p))
  BY <1>1, Zenon DEF Start, Tree, LocalType
<1>3. /\ ~Overlaps(p) => Alone(p)'
      /\ ~torn' => \A q \in Procs \ {p} : pc'[q] = "idle"
      /\ pc'[p] = s
  BY <1>2 DEF Overlaps, Alone, LocalType
<1>4. CreateFacts(p)' /\ ListFacts(p)'
  <2>1. CreateFacts(p)'
    BY <1>1, <1>2, <1>3, Zenon DEF CreateFacts
  <2>2. s = "next" => todo'[p] = groups /\ groups' = groups /\ object'
    BY <1>1 DEF LocalType, tree
  <2>3. ListFacts(p)'
    BY <1>1, <1>2, <1>3, <2>2, Zenon DEF ListFacts, Looking
  <2> QED
    BY <2>1, <2>3
<1>5. before'[p] # None => TraceFacts(p)'
  BY <1>1, <1>2, <1>3, Zenon DEF TraceFacts, Tree, tree
<1>6. ASSUME NEW q \in Procs
      PROVE  Solo(q)'
  <2>1. CASE q = p
    BY <1>2, <1>3, <1>4, <1>5, <2>1, Zenon DEF Solo
  <2>2. CASE q # p
    BY <1>2, <1>3, <2>2 DEF Solo
  <2> QED
    BY <2>1, <2>2
<1> QED
  BY <1>2, <1>6, Zenon DEF SoloInv

LEMMA SoloCreate ==
  ASSUME BaseInv, SoloInv, NEW p \in Procs, CheckNew(p) \/ Make(p) \/ SetId(p) \/ Undo(p)
  PROVE  SoloInv'
<1> USE TypeSplit DEF BaseInv
<1>1. /\ TypeOK /\ TreeType /\ TreeInv /\ LocalType /\ CallInv
      /\ pc[p] \in Creating /\ pc[p] # "idle" /\ call[p].what = "create" /\ call[p].name \in Names /\ supported
  BY ZenonT(60) DEF CheckNew, Make, SetId, Undo, Creating, LocalType, Calls, CallInv
<1>2. ASSUME NEW s \in {"make", "set id", "undo"}, Goto(p, s)
      PROVE  pc'[p] = s /\ call' = call /\ ListFacts(p)'
  <2>1. pc'[p] = s /\ call' = call
    BY <1>1, <1>2, ZenonT(60) DEF Goto, LocalType
  <2> QED
    BY <1>1, <2>1, Zenon DEF ListFacts, Looking
<1>3. CASE (\E how \in {"done", "raised"} : End(p, how))
  BY <1>1, <1>3, EndSolo
<1>4. CASE CheckNew(p) /\ call[p].name \notin groups /\ Goto(p, "make") /\ UNCHANGED tree
  <2>1. CreateFacts(p)'
    BY <1>2, <1>4, Zenon DEF CreateFacts, tree
  <2>2. before[p] # None => TraceFacts(p)'
    BY <1>1, <1>2, <1>4, ZenonT(60) DEF SoloInv, Solo, TraceFacts, Tree, tree, Goto, CheckNew
  <2> QED
    BY <1>1, <1>2, <1>4, <2>1, <2>2, GotoSolo, ZenonT(60) DEF Goto, Steps
<1>5. CASE Make(p) /\ call[p].name \in groups /\ Goto(p, "set id")
  <2>1. ~(~torn \/ before[p] # None)
    BY <1>1, <1>5, ZenonT(60) DEF SoloInv, Solo, CreateFacts, Make
  <2> QED
    BY <1>1, <1>5, <2>1, GotoSolo, Zenon DEF Goto, Steps
<1>6. CASE Make(p) /\ call[p].name \notin groups /\ Mkdir(call[p].name) /\ Goto(p, "set id")
  <2> DEFINE g == call[p].name
  <2>1. /\ g # Default /\ UNCHANGED <<object, id, value, member>> /\ groups' = groups \cup {g}
        /\ id[g] = NoId /\ value[g] = 0 /\ \A l \in LUNs : member[l] # g
    BY <1>1, <1>6, MkdirTree, ZenonT(60) DEF Mkdir
  <2>2. CreateFacts(p)'
    BY <1>2, <1>6, <2>1, ZenonT(60) DEF CreateFacts
  <2>3. groups' \ {g} = groups
    BY <1>6, <2>1, Zenon
  <2>4. before[p] # None => TraceFacts(p)'
    <3>1. before[p] # None => before'[p] = Tree
      BY <1>1, <1>6, ZenonT(60) DEF SoloInv, Solo, TraceFacts, Goto, Make
    <3> QED
      BY <1>1, <1>2, <1>6, <2>1, <2>3, <3>1, Zenon DEF TraceFacts, Tree
  <2> QED
    BY <1>1, <1>2, <1>6, <2>2, <2>4, GotoSolo, ZenonT(60) DEF Goto, Steps
<1>7. CASE SetId(p) /\ Goto(p, "undo") /\ UNCHANGED tree
  <2>1. ~torn \/ before[p] # None => CreateFacts(p)'
    BY <1>1, <1>2, <1>7, Zenon DEF SoloInv, Solo, CreateFacts, SetId, tree
  <2>2. before[p] # None => TraceFacts(p)'
    BY <1>1, <1>2, <1>7, ZenonT(60) DEF SoloInv, Solo, TraceFacts, Tree, tree, Goto, SetId
  <2> QED
    BY <1>1, <1>2, <1>7, <2>1, <2>2, GotoSolo, Zenon DEF Goto, Steps
<1> QED
  BY <1>3, <1>4, <1>5, <1>6, <1>7, ZenonT(60) DEF CheckNew, Make, SetId, Undo, tree

LEMMA SoloLook ==
  ASSUME BaseInv, SoloInv, NEW p \in Procs, Look(p) \/ LookAgain(p) \/ Dumped(p) \/ Removed(p)
  PROVE  SoloInv'
<1> USE TypeSplit DEF BaseInv
<1>1. /\ TypeOK /\ TreeType /\ TreeInv /\ LocalType /\ CallInv
      /\ pc[p] \in Looking /\ pc[p] # "idle" /\ call[p].what \in {"delete", "dump", "destroy"}
      /\ call[p].name \in Names /\ todo[p] \subseteq Names
  BY Zenon DEF Look, LookAgain, Dumped, Removed, Looking, LocalType, Calls, CallInv
<1>2. ASSUME NEW s \in {"look again", "visit", "next"}, Goto(p, s)
      PROVE  pc'[p] = s /\ call' = call /\ UNCHANGED <<before, torn>> /\ CreateFacts(p)' /\ s \in Steps
  <2>1. pc'[p] = s /\ call' = call /\ UNCHANGED <<before, torn>> /\ s \in Steps
    BY <1>1, <1>2, ZenonT(30) DEF Goto, LocalType, Steps
  <2> QED
    BY <1>1, <2>1, Zenon DEF CreateFacts
<1>3. CASE (\E how \in {"done", "raised"} : End(p, how))
  BY <1>1, <1>3, EndSolo
<1>4. ASSUME NEW s \in {"look again", "visit", "next"}, Goto(p, s), UNCHANGED <<tree, todo>>,
             s # "next" => call[p].name \in groups,
             s = "next" => call[p].what = "dump" \/ (call[p].what = "destroy" /\ call[p].name = Default)
      PROVE  SoloInv'
  <2>1. ASSUME ~torn \/ before[p] # None
        PROVE  ListFacts(p)'
    <3>1. ListFacts(p)
      BY <1>1, <2>1, Zenon DEF SoloInv, Solo
    <3>2. /\ UNCHANGED <<object, groups, member, todo>> /\ CanRmdirObject' = CanRmdirObject
      BY <1>4, Zenon DEF tree, CanRmdirObject
    <3> QED
      BY <1>1, <1>2, <1>4, <3>1, <3>2, Zenon DEF ListFacts, Looking
  <2>2. before[p] # None => TraceFacts(p)'
    BY <1>1, <1>2, <1>4, ZenonT(60) DEF SoloInv, Solo, TraceFacts, Tree, tree
  <2> QED
    BY <1>1, <1>2, <1>4, <2>1, <2>2, GotoSolo, ZenonT(60) DEF Goto
<1>5. CASE LookAgain(p) /\ call[p].name \notin groups /\ Goto(p, "visit")
  <2>1. ~(~torn \/ before[p] # None)
    BY <1>1, <1>5, ZenonT(60) DEF SoloInv, Solo, ListFacts, LookAgain
  <2> QED
    BY <1>1, <1>2, <1>5, <2>1, GotoSolo, Zenon DEF Goto
<1>6. CASE /\ pc[p] = "visit" /\ call[p].what = "destroy" /\ call[p].name \in groups \ {Default}
           /\ Rmdir(call[p].name) /\ Goto(p, "next") /\ UNCHANGED todo
  <2>1. ASSUME ~torn \/ before[p] # None
        PROVE  ListFacts(p)'
    <3>1. ListFacts(p)
      BY <1>1, <2>1, Zenon DEF SoloInv, Solo
    <3>2. groups' = groups \ {call[p].name} /\ UNCHANGED <<object, todo>>
      BY <1>6 DEF Rmdir
    <3> QED
      BY <1>1, <1>2, <1>6, <3>1, <3>2, Zenon DEF ListFacts, Looking
  <2>2. TraceFacts(p)'
    BY <1>2, <1>6, Zenon DEF TraceFacts
  <2> QED
    BY <1>1, <1>2, <1>6, <2>1, <2>2, GotoSolo, ZenonT(60) DEF Goto
<1> QED
  BY <1>3, <1>4, <1>5, <1>6, ZenonT(60) DEF Look, LookAgain, Dumped, Removed

LEMMA SoloList ==
  ASSUME BaseInv, SoloInv, NEW p \in Procs, NextName(p) \/ DeleteLuns(p) \/ RmdirObject(p)
  PROVE  SoloInv'
<1> USE TypeSplit DEF BaseInv
<1>1. /\ TypeOK /\ TreeType /\ TreeInv /\ LocalType /\ CallInv
      /\ pc[p] \in {"next", "luns", "rmdir"} /\ pc[p] # "idle" /\ call[p].what \in {"dump", "destroy"}
      /\ call[p] \in Calls
  BY Zenon DEF NextName, DeleteLuns, RmdirObject, LocalType, CallInv
<1>2. CASE (\E how \in {"done", "raised"} : End(p, how))
  BY <1>1, <1>2, EndSolo
<1>3. ASSUME NEW s \in {"next", "luns", "rmdir"}, Goto(p, s)
      PROVE  /\ pc'[p] = s /\ call' = call /\ UNCHANGED <<before, torn>> /\ CreateFacts(p)' /\ s \in Steps
             /\ pc' = [pc EXCEPT ![p] = s]
  <2>1. pc'[p] = s /\ call' = call /\ UNCHANGED <<before, torn>> /\ s \in Steps /\ pc' = [pc EXCEPT ![p] = s]
    BY <1>1, <1>3, Zenon DEF Goto, LocalType, Steps
  <2> QED
    BY <1>1, <2>1, Zenon DEF CreateFacts
<1>4. ~torn \/ before[p] # None => ListFacts(p)
  BY <1>1 DEF SoloInv, Solo
<1>5. before[p] # None => TraceFacts(p)
  BY <1>1, Zenon DEF SoloInv, Solo
<1>6. CASE NextName(p)
  <2>1. pc[p] = "next" /\ UNCHANGED <<object, groups, member, id, value>>
    BY <1>6 DEF NextName, tree
  <2>2. ASSUME NEW g \in todo[p], object, todo' = [todo EXCEPT ![p] = @ \ {g}],
               call' = [call EXCEPT ![p].name = g], pc' = [pc EXCEPT ![p] = "look"], UNCHANGED <<before, torn>>
        PROVE  SoloInv'
    <3>1. pc'[p] = "look" /\ todo'[p] = todo[p] \ {g} /\ call'[p].name = g /\ call'[p].what = call[p].what
      BY <1>1, <2>2, Zenon DEF LocalType, Calls
    <3>2. CreateFacts(p)' /\ "look" \in Steps
      BY <3>1 DEF CreateFacts, Steps
    <3>3. ListFacts(p) => ListFacts(p)'
      <4> SUFFICES ASSUME ListFacts(p)
                   PROVE  ListFacts(p)'
        OBVIOUS
      <4>1. todo[p] \subseteq groups /\ (call[p].what = "destroy" => groups \subseteq todo[p] \cup {Default})
        BY <1>1, <2>1, Zenon DEF ListFacts
      <4>2. /\ object' /\ todo'[p] \subseteq groups' /\ call'[p].name \in groups' \ todo'[p]
            /\ call'[p].what = "destroy" => groups' \subseteq todo'[p] \cup {call'[p].name, Default}
        BY <2>1, <2>2, <3>1, <4>1
      <4> QED
        BY <3>1, <4>2, Zenon DEF ListFacts, Looking
    <3>4. TraceFacts(p) => TraceFacts(p)'
      BY <1>1, <2>1, <2>2, <3>1, ZenonT(60) DEF TraceFacts, Tree
    <3> QED
      BY <1>1, <1>4, <1>5, <2>2, <3>2, <3>3, <3>4, GotoSolo, Zenon
  <2>3. CASE ~supported /\ todo' = [todo EXCEPT ![p] = {}] /\ Goto(p, "next")
    <3>1. todo'[p] = {} /\ groups \subseteq {Default}
      BY <1>1, <2>3, ZenonT(60) DEF LocalType, TreeInv
    <3>2. ListFacts(p) => ListFacts(p)'
      BY <1>1, <1>3, <2>1, <2>3, <3>1, ZenonT(60) DEF ListFacts, Looking
    <3>3. TraceFacts(p) => TraceFacts(p)'
      BY <1>1, <1>3, <2>1, <2>3, ZenonT(60) DEF TraceFacts, Tree
    <3> QED
      BY <1>1, <1>3, <1>4, <1>5, <2>3, <3>2, <3>3, GotoSolo, ZenonT(60)
  <2>4. CASE /\ todo[p] = {} /\ call[p].what = "destroy" /\ object
             /\ todo' = [todo EXCEPT ![p] = {l \in LUNs : member[l] # None}]
             /\ Goto(p, "luns")
    <3>1. todo'[p] = {l \in LUNs : member[l] # None} /\ Default \in groups
      BY <1>1, <2>4 DEF LocalType, TreeType
    <3>2. ListFacts(p) => ListFacts(p)'
      BY <1>1, <1>3, <2>1, <2>4, <3>1, ZenonT(60) DEF ListFacts, Looking
    <3>3. TraceFacts(p)'
      BY <1>1, <1>3, <2>4, Zenon DEF TraceFacts
    <3> QED
      BY <1>1, <1>3, <1>4, <2>4, <3>2, <3>3, GotoSolo, Zenon
  <2> QED
    BY <1>2, <1>6, <2>2, <2>3, <2>4, Zenon DEF NextName
<1>7. CASE DeleteLuns(p)
  <2>1. pc[p] = "luns" /\ call[p].what = "destroy" /\ UNCHANGED <<object, groups, id, value>>
    BY <1>1, <1>7 DEF DeleteLuns, CallInv
  <2>2. ASSUME NEW l \in todo[p], todo' = [todo EXCEPT ![p] = @ \ {l}], member' = [member EXCEPT ![l] = None],
               Goto(p, "luns")
        PROVE  SoloInv'
    <3>1. todo'[p] = todo[p] \ {l} /\ \A k \in LUNs : member'[k] # None <=> k # l /\ member[k] # None
      BY <1>1, <2>2, Zenon DEF LocalType, TreeType
    <3>2. ListFacts(p) => groups' = {Default} /\ object' /\ todo'[p] = {k \in LUNs : member'[k] # None}
      BY <1>1, <2>1, <3>1 DEF ListFacts
    <3>3. ListFacts(p) => ListFacts(p)'
      BY <1>3, <2>1, <2>2, <3>2, ZenonT(60) DEF ListFacts, Looking
    <3>4. TraceFacts(p)'
      BY <1>1, <1>3, <2>1, <2>2, ZenonT(60) DEF TraceFacts
    <3> QED
      BY <1>1, <1>3, <1>4, <2>2, <3>3, <3>4, GotoSolo, Zenon
  <2>3. CASE todo[p] = {} /\ Goto(p, "rmdir") /\ UNCHANGED <<member, todo>>
    <3>1. ListFacts(p) => ListFacts(p)'
      BY <1>1, <1>3, <2>1, <2>3, ZenonT(60) DEF ListFacts, Looking, CanRmdirObject
    <3>2. TraceFacts(p)'
      BY <1>1, <1>3, <2>1, <2>3, Zenon DEF TraceFacts
    <3> QED
      BY <1>1, <1>3, <1>4, <2>3, <3>1, <3>2, GotoSolo
  <2> QED
    BY <1>2, <1>7, <2>2, <2>3, Zenon DEF DeleteLuns
<1>8. CASE RmdirObject(p)
  BY <1>2, <1>8 DEF RmdirObject
<1> QED
  BY <1>6, <1>7, <1>8, Zenon

-----------------------------------------------------------------------------
(* Groups without an id. *)

(* A step that makes no such group, of a process that makes none. *)
LEMMA IdSame ==
  ASSUME LocalType, IdInv, NEW p \in Procs, pc[p] \notin {"set id", "undo"}, torn => torn',
         \A q \in Procs \ {p} : pc'[q] = pc[q] /\ call'[q] = call[q],
         \A g \in groups' : id'[g] = NoId => g \in groups /\ id[g] = NoId
  PROVE  IdInv'
BY ZenonT(60) DEF IdInv

LEMMA IdCreate ==
  ASSUME BaseInv, SoloInv, IdInv, NEW p \in Procs, CheckNew(p) \/ Make(p) \/ SetId(p) \/ Undo(p)
  PROVE  IdInv'
<1> USE TypeSplit DEF BaseInv
<1>1. /\ TypeOK /\ TreeType /\ TreeInv /\ LocalType /\ CallInv
      /\ pc[p] \in Creating /\ call[p].tag \in 1 .. MaxTag /\ call[p].name \in Names
      /\ torn' = torn /\ \A q \in Procs \ {p} : pc'[q] = pc[q] /\ call'[q] = call[q]
  BY ZenonT(60) DEF CheckNew, Make, SetId, Undo, Creating, LocalType, CallInv, Calls, Goto, End
<1>2. CASE pc[p] \in {"check", "make"} /\ UNCHANGED <<groups, id>>
  BY <1>1, <1>2, IdSame, Zenon
<1>3. CASE Make(p) /\ Mkdir(call[p].name) /\ Goto(p, "set id")
  <2>1. /\ groups' = groups \cup {call[p].name} /\ UNCHANGED id /\ pc[p] = "make"
        /\ pc'[p] = "set id" /\ call'[p] = call[p]
    BY <1>1, <1>3, ZenonT(60) DEF Mkdir, Make, Goto, LocalType
  <2>2. ASSUME ~torn', NEW g \in groups', id'[g] = NoId
        PROVE  \E q \in Procs : pc'[q] \in {"set id", "undo"} /\ call'[q].name = g
    <3>1. CASE g = call[p].name
      BY <2>1, <3>1, ZenonT(60)
    <3>2. CASE g # call[p].name
      <4>1. PICK q \in Procs : pc[q] \in {"set id", "undo"} /\ call[q].name = g
        BY <1>1, <2>1, <2>2, <3>2, Zenon DEF IdInv
      <4>2. q # p
        BY <2>1, <4>1, ZenonT(60)
      <4> QED
        BY <1>1, <4>1, <4>2, Zenon
    <3> QED
      BY <3>1, <3>2, ZenonT(60)
  <2> QED
    BY <2>2, ZenonT(60) DEF IdInv
<1>4. CASE SetId(p) /\ id' = [id EXCEPT ![call[p].name] = call[p].tag] /\ UNCHANGED groups
  <2>1. id'[call[p].name] # NoId /\ \A g \in groups : g # call[p].name => id'[g] = id[g]
    BY <1>1, <1>4, Ids, ZenonT(60) DEF TreeType
  <2>2. ASSUME ~torn', NEW g \in groups', id'[g] = NoId
        PROVE  \E q \in Procs : pc'[q] \in {"set id", "undo"} /\ call'[q].name = g
    <3>1. PICK q \in Procs : pc[q] \in {"set id", "undo"} /\ call[q].name = g
      BY <1>1, <1>4, <2>1, <2>2, ZenonT(60) DEF IdInv
    <3>2. q # p
      BY <2>1, <2>2, <3>1, Zenon
    <3> QED
      BY <1>1, <3>1, <3>2, Zenon
  <2> QED
    BY <2>2, Zenon DEF IdInv
<1>5. CASE SetId(p) /\ Goto(p, "undo") /\ UNCHANGED <<groups, id>>
  <2>1. pc'[p] = "undo" /\ call'[p] = call[p]
    BY <1>1, <1>5 DEF Goto, LocalType
  <2> QED
    BY <1>1, <1>5, <2>1, ZenonT(120) DEF IdInv
<1>6. CASE Undo(p)
  <2>1. CASE call[p].name \in groups \ {Default} /\ Rmdir(call[p].name)
    <3>1. groups' = groups \ {call[p].name} /\ \A g \in groups' : id'[g] = id[g]
      BY <1>1, <2>1, Zenon DEF Rmdir, TreeType
    <3> QED
      BY <1>1, <3>1, ZenonT(60) DEF IdInv
  <2>2. CASE call[p].name \notin groups \ {Default}
    <3>1. torn
      BY <1>6, <2>2, Zenon DEF Undo, SoloInv, Solo, CreateFacts
    <3> QED
      BY <1>1, <3>1, Zenon DEF IdInv
  <2> QED
    BY <1>6, <2>1, <2>2, Zenon DEF Undo
<1> QED
  BY <1>2, <1>3, <1>4, <1>5, <1>6, ZenonT(60) DEF CheckNew, Make, SetId, tree

LEMMA IdOther ==
  ASSUME BaseInv, SoloInv, IdInv, NEW p \in Procs,
         \/ Look(p) \/ LookAgain(p) \/ Dumped(p) \/ Removed(p)
         \/ NextName(p) \/ DeleteLuns(p) \/ RmdirObject(p)
  PROVE  IdInv'
<1> USE TypeSplit DEF BaseInv
<1>1. /\ TypeOK /\ TreeType /\ TreeInv /\ LocalType /\ CallInv
      /\ pc[p] \notin {"set id", "undo", "idle"} /\ torn' = torn
      /\ \A q \in Procs \ {p} : pc'[q] = pc[q] /\ call'[q] = call[q]
  BY Zenon DEF Look, LookAgain, Dumped, Removed, NextName, DeleteLuns, RmdirObject, LocalType, Goto, End
<1>2. CASE UNCHANGED <<groups, id>>
  BY <1>1, <1>2, IdSame, ZenonT(60)
<1>3. CASE LookAgain(p) /\ call[p].name \notin groups
  <2>1. torn
    BY <1>1, <1>3, Zenon DEF LookAgain, SoloInv, Solo, ListFacts
  <2> QED
    BY <1>1, <2>1, Zenon DEF IdInv
<1>4. CASE Removed(p) /\ call[p].name \in groups \ {Default} /\ Rmdir(call[p].name)
  <2>1. groups' = groups \ {call[p].name} /\ \A g \in groups' : id'[g] = id[g]
    BY <1>1, <1>4, Zenon DEF Rmdir, TreeType
  <2> QED
    BY <1>1, <2>1, IdSame, ZenonT(60)
<1>5. CASE groups' = {}
  BY <1>1, <1>5, IdSame, Zenon
<1> QED
  BY <1>2, <1>3, <1>4, <1>5, ZenonT(60) DEF Look, LookAgain, Dumped, Removed, NextName, DeleteLuns, RmdirObject, tree

LEMMA IdShort ==
  ASSUME BaseInv, IdInv, NEW p \in Procs, Short(p)
  PROVE  IdInv'
<1> USE TypeSplit DEF BaseInv
<1>1. /\ pc[p] = "idle" /\ (torn => torn')
      /\ \A q \in Procs \ {p} : pc'[q] = pc[q] /\ call'[q] = call[q]
  <2>1. CASE Begins(p)
    BY <2>1, ZenonT(60) DEF Begins, Start, Idle, LocalType
  <2>2. CASE \E how \in {"done", "raised", "-1"} : Quick(p, how)
    BY <2>2, Zenon DEF Quick, Idle
  <2> QED
    BY <2>1, <2>2, ShortCalls, Zenon
<1>2. CASE UNCHANGED <<object, groups, id>>
  BY <1>1, <1>2, IdSame, Zenon
<1>3. CASE NewObject(p)
  <2>1. groups' = {Default} /\ id'[Default] # NoId
    BY <1>3, Ids DEF NewObject, TreeType, Names
  <2> QED
    BY <1>1, <2>1, IdSame, Zenon
<1> QED
  BY <1>2, <1>3, ShortCalls, ZenonT(60)

-----------------------------------------------------------------------------
LEMMA AluaInvStep == AluaInv /\ [Next]_vars => AluaInv'
<1> SUFFICES ASSUME AluaInv, [Next]_vars
             PROVE  AluaInv'
  OBVIOUS
<1>1. BaseInv /\ SoloInv /\ IdInv /\ TreeType /\ LocalType
  BY TypeSplit DEF AluaInv, BaseInv
<1>2. ASSUME NEW p \in Procs, CheckNew(p) \/ Make(p) \/ SetId(p) \/ Undo(p)
      PROVE  BaseInv' /\ SoloInv' /\ IdInv'
  BY <1>1, <1>2, BaseCreate, SoloCreate, IdCreate
<1>3. ASSUME NEW p \in Procs, Look(p) \/ LookAgain(p) \/ Dumped(p) \/ Removed(p)
      PROVE  BaseInv' /\ SoloInv' /\ IdInv'
  BY <1>1, <1>3, BaseLook, SoloLook, IdOther
<1>4. ASSUME NEW p \in Procs, NextName(p) \/ DeleteLuns(p) \/ RmdirObject(p)
      PROVE  BaseInv' /\ SoloInv' /\ IdInv'
  BY <1>1, <1>4, BaseList, SoloList, IdOther
<1>5. ASSUME NEW p \in Procs, Short(p)
      PROVE  BaseInv' /\ SoloInv' /\ IdInv'
  <2>1. SoloInv'
    BY <1>1, <1>5, ShortCalls, QuickSolo, BeginSolo
  <2> QED
    BY <1>1, <1>5, <2>1, BaseShort, IdShort
<1>6. ASSUME NEW p \in Procs, Crash(p)
      PROVE  BaseInv' /\ SoloInv' /\ IdInv'
  BY <1>1, <1>6, BaseCrash, EndSolo, Zenon DEF Crash, IdInv
<1>7. ASSUME UNCHANGED vars
      PROVE  BaseInv' /\ SoloInv' /\ IdInv'
  <2>1. TreeType' /\ TreeInv' /\ LocalType' /\ CallInv'
    BY <1>1, <1>7 DEF vars, tree, local, BaseInv, TreeType, TreeInv, LocalType, CallInv
  <2>2. SoloInv'
    BY <1>1, <1>7, ZenonT(120) DEF vars, tree, local, SoloInv, Solo, Alone, CreateFacts, ListFacts, TraceFacts, CanRmdirObject, Tree
  <2>3. IdInv'
    BY <1>1, <1>7, Zenon DEF vars, tree, local, IdInv
  <2> QED
    BY <2>1, <2>2, <2>3, TypeSplit, Zenon DEF BaseInv
<1>8. BaseInv' /\ SoloInv' /\ IdInv'
  <2>1. CASE Next
    <3>1. PICK p \in Procs : Step(p) \/ Crash(p) \/ Short(p)
      BY <2>1 DEF Next, Short
    <3> QED
      BY <1>2, <1>3, <1>4, <1>5, <1>6, <3>1 DEF Step
  <2> QED
    BY <1>7, <2>1
<1> QED
  BY <1>8 DEF AluaInv, BaseInv

LEMMA AluaInvariant == Spec => []AluaInv
BY AluaInvInit, AluaInvStep, PTL DEF Spec

(* TypeOK holds, which includes that callers' ids are in 1 .. MaxTag and   *)
(* that the default group is there as long as the object is.               *)
THEOREM TypeCorrect == Spec => []TypeOK
BY AluaInvariant, PTL DEF AluaInv

(* No call that is left to itself, and no failure of one, leaves a group   *)
(* without an id.                                                          *)
THEOREM GroupsHaveIds == Spec => []EveryGroupHasId
<1>1. AluaInv => EveryGroupHasId
  BY ZenonT(60) DEF AluaInv, IdInv, EveryGroupHasId, Idle
<1> QED
  BY <1>1, AluaInvariant, PTL

(* It is the call's own step that ends it, unless another one overlaps. *)
LEMMA EndsInStep ==
  ASSUME LocalType, Next, NEW p \in Procs, Alone(p),
         pc[p] # "idle", pc'[p] = "idle", outcome' # "none"
  PROVE  Step(p)
<1>1. PICK q \in Procs : Step(q) \/ Crash(q) \/ Short(q)
  BY Zenon DEF Next, Short
<1>2. CASE Step(q)
  <2>1. pc[q] # "idle"
    BY <1>2, Zenon DEF Step, CheckNew, Make, SetId, Undo, Look, LookAgain, Dumped, Removed, NextName, DeleteLuns, RmdirObject
  <2> QED
    BY <1>2, <2>1 DEF Alone
<1>3. CASE Crash(q)
  BY <1>3 DEF Crash
<1>4. CASE Short(q)
  <2>1. pc[q] = "idle" /\ (q # p => pc'[p] = pc[p])
    BY <1>4, ShortCalls, Zenon DEF Begins, Start, Quick, Idle, LocalType
  <2> QED
    BY <2>1
<1> QED
  BY <1>1, <1>2, <1>3, <1>4, ZenonT(60)

(* A constructor that raises, and a dump, leave no trace of themselves.    *)
THEOREM FailedCallsLeaveNoTrace == Spec => NoTrace
<1>1. AluaInv /\ [Next]_vars =>
        [\A p \in Procs :
           (/\ before[p] # None /\ Ends(p)
            /\ call[p].what = "dump" \/ (call[p].what = "create" /\ outcome' = "raised")) =>
             <<object', groups', id', value', member'>> = before[p]]_vars
  <2> SUFFICES ASSUME AluaInv, Next, NEW p \in Procs, before[p] # None, Ends(p),
                      call[p].what = "dump" \/ (call[p].what = "create" /\ outcome' = "raised")
               PROVE  <<object', groups', id', value', member'>> = before[p]
    BY Zenon
  <2>1. TypeOK /\ TreeInv /\ CallInv /\ SoloInv /\ TreeType /\ LocalType
    BY TypeSplit DEF AluaInv
  <2>2. pc[p] # "idle" /\ pc'[p] = "idle" /\ outcome' # "none"
    BY DEF Ends
  <2>3. Alone(p) /\ CreateFacts(p) /\ ListFacts(p) /\ TraceFacts(p)
    BY <2>1, <2>2, Zenon DEF SoloInv, Solo
  <2>4. Step(p)
    BY <2>1, <2>2, <2>3, EndsInStep
  <2>5. CASE call[p].what = "dump"
    <3>1. UNCHANGED tree
      <4>1. ~(CheckNew(p) \/ Make(p) \/ SetId(p) \/ Undo(p) \/ Removed(p) \/ DeleteLuns(p) \/ RmdirObject(p))
        BY <2>1, <2>5, ZenonT(60) DEF CheckNew, Make, SetId, Undo, Removed, DeleteLuns, RmdirObject, CallInv, Creating
      <4> QED
        BY <2>1, <2>2, <2>4, <4>1, ZenonT(60) DEF Step, Look, LookAgain, Dumped, NextName, Goto, LocalType
    <3> QED
      BY <2>3, <2>5, <3>1, Zenon DEF TraceFacts, Tree, tree
  <2>6. CASE call[p].what = "create" /\ outcome' = "raised"
    <3>1. CheckNew(p) \/ Make(p) \/ SetId(p) \/ Undo(p)
      BY <2>1, <2>4, <2>6, ZenonT(60) DEF Step, Look, LookAgain, Dumped, Removed, NextName, DeleteLuns, RmdirObject, CallInv, Looking
    <3>2. CASE pc[p] \in {"check", "make"}
      <4>1. UNCHANGED tree
        BY <2>1, <2>2, <3>1, <3>2, ZenonT(60) DEF CheckNew, Make, SetId, Undo, Goto, LocalType
      <4> QED
        BY <2>3, <3>2, <4>1, Zenon DEF TraceFacts, Tree, tree
    <3>3. CASE SetId(p)
      BY <2>1, <2>2, <2>6, <3>3, ZenonT(60) DEF SetId, Goto, End, LocalType
    <3>4. CASE Undo(p)
      <4> DEFINE g == call[p].name
      <4>1. /\ g \in groups \ {Default} /\ Rmdir(g) /\ id[g] = NoId /\ value[g] = 0
            /\ \A l \in LUNs : member[l] # g
        BY <2>3, <3>4, Zenon DEF Undo, CreateFacts
      <4>2. object' = object /\ groups' = groups \ {g}
        BY <4>1, Zenon DEF Rmdir
      <4>3. id' = id
        BY <2>1, <4>1, Zenon DEF Rmdir, TreeType
      <4>4. value' = value
        BY <2>1, <4>1, Zenon DEF Rmdir, TreeType
      <4>5. member' = member
        BY <2>1, <4>1 DEF Rmdir, TreeType
      <4> QED
        BY <2>3, <3>4, <4>2, <4>3, <4>4, <4>5, ZenonT(60) DEF TraceFacts, Undo
    <3> QED
      BY <3>1, <3>2, <3>3, <3>4, Zenon DEF CheckNew, Make
  <2> QED
    BY <2>5, <2>6, Zenon
<1> QED
  BY <1>1, AluaInvariant, PTL DEF Spec, NoTrace

(* delete() of an object succeeds whatever it finds below it.              *)
THEOREM DeleteDeletesObject == Spec => ObjectDeleted
<1>1. AluaInv /\ [Next]_vars =>
        [\A p \in Procs :
           before[p] # None /\ call[p].what = "destroy" /\ Ends(p) =>
             outcome' = "done" /\ ~object' /\ groups' = {} /\ \A l \in LUNs : member'[l] = None]_vars
  <2> SUFFICES ASSUME AluaInv, Next, NEW p \in Procs, before[p] # None, call[p].what = "destroy", Ends(p)
               PROVE  outcome' = "done" /\ ~object' /\ groups' = {} /\ \A l \in LUNs : member'[l] = None
    BY Zenon
  <2>1. TypeOK /\ TreeInv /\ CallInv /\ SoloInv /\ TreeType /\ LocalType
    BY TypeSplit, Zenon DEF AluaInv
  <2>2. pc[p] # "idle" /\ pc'[p] = "idle" /\ outcome' # "none"
    BY DEF Ends
  <2>3. Alone(p) /\ ListFacts(p) /\ object
    BY <2>1, <2>2, ZenonT(60) DEF SoloInv, Solo, ListFacts
  <2>4. Step(p)
    BY <2>1, <2>2, <2>3, EndsInStep, ZenonT(60)
  <2>5. RmdirObject(p)
    <3>1. ~(CheckNew(p) \/ Make(p) \/ SetId(p) \/ Undo(p) \/ Dumped(p))
      BY <2>1, ZenonT(60) DEF CheckNew, Make, SetId, Undo, Dumped, CallInv, Creating
    <3>2. ~(Look(p) \/ LookAgain(p))
      BY <2>1, <2>2, <2>3, ZenonT(60) DEF Look, LookAgain, Goto, LocalType, ListFacts, Looking
    <3>3. ~Removed(p)
      BY <2>1, <2>2, <2>3, Zenon DEF Removed, Goto, LocalType, ListFacts, Looking
    <3>4. ~NextName(p)
      BY <2>1, <2>2, <2>3 DEF NextName, Goto, LocalType
    <3>5. ~DeleteLuns(p)
      BY <2>1, <2>2, <2>3, ZenonT(60) DEF DeleteLuns, Goto, LocalType, ListFacts
    <3> QED
      BY <2>4, <3>1, <3>2, <3>3, <3>4, <3>5 DEF Step
  <2>6. CanRmdirObject
    BY <2>3, <2>5, Zenon DEF RmdirObject, ListFacts
  <2> QED
    BY <2>3, <2>5, <2>6, Zenon DEF RmdirObject, CanRmdirObject, End
<1> QED
  BY <1>1, AluaInvariant, PTL DEF Spec, ObjectDeleted

=============================================================================
