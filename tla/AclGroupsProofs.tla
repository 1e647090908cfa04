-------------------------- MODULE AclGroupsProofs --------------------------
(***************************************************************************)
(* Proofs about AclGroups, for any number of initiators, groups, indexes   *)
(* and calls.                                                              *)
(***************************************************************************)
EXTENDS AclGroups, TLAPS

(* The ACLs a and b are the same in the field f. *)
Same(f, a, b) ==
  /\ f = "maps" => a.maps = b.maps
  /\ f = "attr" => a.attr = b.attr
  /\ f = "tcq" => a.tcq = b.tcq
Alike(f, S) == \A v, w \in S : Same(f, acl[v], acl[w])

(* Every group that has no reason to differ in f is alike in f. *)
Even(f) == \A u \in Tags \ torn[f] : Alike(f, Members(u))

Single == {"add", "remove", "own"}
Joins == {"clear", "copy", "values", "tagtorn"}

(* What the ACL of w is when the call has visited all that it is to visit. *)
Final(w) == IF w \in todo THEN After(call, acl[w]) ELSE acl[w]

(* A call that goes through the members of group t: those that it has yet  *)
(* to visit are alike, and all will be.  A group that is renamed and its   *)
(* new name are one group.  MappedLUN() can only find its index taken at   *)
(* the first member.                                                       *)
EachInv ==
  LET t == call.tag IN
  /\ call.kind \notin Single /\ t \in Tags /\ todo # {} /\ todo \subseteq Members(t)
  /\ call.kind # "rename" =>
       \A f \in Fields : \A u \in Tags \ (torn[f] \cup {t}) : Alike(f, Members(u))
  /\ call.kind = "rename" => \A f \in Fields :
       /\ \A u \in Tags \ (torn[f] \cup {call.to}) : Alike(f, Members(u))
       /\ call.to \notin torn[f] => Alike(f, Members(t) \cup Members(call.to))
  /\ call.kind = "delete" => todo = Members(t) /\ \A f \in Fields : t \notin torn[f] => Alike(f, todo)
  /\ call.kind \notin {"rename", "delete"} => \A f \in Fields : t \notin torn[f] =>
       /\ Alike(f, todo)
       /\ \A v, w \in Members(t) : Same(f, Final(v), Final(w))
  /\ call.kind = "map" /\ t \notin torn["maps"] /\ todo # Members(t) =>
       \A w \in todo : acl[w].maps[call.index] = None
  /\ call.kind = "set" /\ call.wwn # None => call.field = "chap" /\ todo = {call.wwn}
  /\ call.kind = "protect" => \A w \in todo : acl[w].maps[call.index] # None

(* add_acl: the ACL that joins is not a member yet, and leaves a group, if *)
(* it is in one, from which it now differs.                                *)
JoinInv ==
  LET w == call.wwn IN
  /\ call.kind = "add" /\ w \in Wwns /\ There(w) /\ w \notin Members(call.tag)
  /\ model = None => stage = "tag" /\ Members(call.tag) = {} /\ \A f \in Fields : Even(f)
  /\ model # None =>
       /\ model \in Members(call.tag)
       /\ \A f \in Fields : \A u \in Tags \ torn[f] : Alike(f, Members(u) \ {w})
       /\ Even("tcq")
       /\ stage = "copy" => \A i \in Indexes : acl[w].maps[i] \in {None, acl[model].maps[i]}
       /\ stage \in {"values", "tag"} => acl[w].maps = acl[model].maps
       /\ stage = "tag" => acl[w].attr = acl[model].attr

GroupInv ==
  /\ stage \in {"idle", "one"} => \A f \in Fields : Even(f)
  /\ stage = "one" => call.kind \in Single
  /\ stage = "each" => EachInv
  /\ stage \in Joins \cup {"tag"} => JoinInv
  /\ stage \notin Joins \cup {"tag"} => model = None

-----------------------------------------------------------------------------
(* Calls, and what they make of an ACL.                                    *)

Kinds == Single \cup {"rename", "set", "map", "unmap", "protect", "delete"}

LEMMA CallKinds ==
  ASSUME NEW c \in Calls
  PROVE  c # None /\ c.kind \in Kinds
BY NoneAssumption DEF Calls, Kinds, Single

LEMMA CallTags ==
  ASSUME NEW c \in Calls
  PROVE  /\ c.kind # "own" => c.tag \in Tags
         /\ c.kind = "own" => c.tag = None /\ c.acl \in OwnACLs
         /\ c.kind \in Single => c.wwn \in Wwns
         /\ c.kind \notin Single \cup {"set"} => c.wwn = None
BY DEF Calls, Single

LEMMA RenameCall ==
  ASSUME NEW c \in Calls, c.kind = "rename"
  PROVE  c.to \in Tags
BY DEF Calls

LEMMA SetCall ==
  ASSUME NEW c \in Calls, c.kind = "set"
  PROVE  /\ c.field \in {"attr", "tcq", "chap"} /\ c.value \in Values
         /\ c.wwn \in Wwns \cup {None} /\ (c.field # "chap" => c.wwn = None)
BY DEF Calls

LEMMA IndexCall ==
  ASSUME NEW c \in Calls, c.kind \in {"map", "unmap", "protect"}
  PROVE  /\ c.index \in Indexes
         /\ c.kind = "map" => c.map \in Maps
         /\ c.kind = "protect" => c.on \in BOOLEAN
BY DEF Calls

LEMMA ACLFields ==
  /\ \A a \in NodeACL : /\ a.tag \in Tags \cup {None} /\ a.maps \in [Indexes -> Maps \cup {None}]
                        /\ a.attr \in Values /\ a.tcq \in Values /\ a.chap \in Values
  /\ NewACL \in NodeACL /\ NewACL.tag = None
  /\ \A a \in OwnACLs : a \in NodeACL /\ a.tag = None
BY ConstantsAssumption DEF NodeACL, NewACL

(* What After leaves alone. *)
LEMMA AfterFields ==
  ASSUME NEW c \in Calls, c.kind \notin Single \cup {"delete"}, NEW a \in NodeACL,
         c.kind = "protect" => a.maps[c.index] # None
  PROVE  /\ After(c, a) \in NodeACL
         /\ After(c, a).tag = IF c.kind = "rename" THEN c.to ELSE a.tag
         /\ After(c, a).attr = IF c.kind = "set" /\ c.field = "attr" THEN c.value ELSE a.attr
         /\ After(c, a).tcq = IF c.kind = "set" /\ c.field = "tcq" THEN c.value ELSE a.tcq
         /\ c.kind \in {"rename", "set"} => After(c, a).maps = a.maps
         /\ c.kind = "map" => After(c, a).maps = [a.maps EXCEPT ![c.index] = c.map]
         /\ c.kind = "unmap" => After(c, a).maps = [a.maps EXCEPT ![c.index] = None]
         /\ c.kind = "protect" => After(c, a).maps = [a.maps EXCEPT ![c.index].protect = c.on]
         /\ ~(c.kind = "set" /\ c.field = "chap") => After(c, a).chap = a.chap
<1>0. c.kind \in Kinds
  BY CallKinds, Zenon
<1>1. CASE c.kind = "rename"
  BY <1>1, RenameCall, ACLFields DEF After, NodeACL
<1>2. CASE c.kind = "set"
  <2>0. c.value \in Values /\ c.field \in {"attr", "tcq", "chap"}
    BY <1>2, SetCall, Zenon
  <2>1. CASE c.field = "attr"
    <3>1. After(c, a) = [a EXCEPT !.attr = c.value]
      BY <1>2, <2>1 DEF After
    <3>2. /\ After(c, a) \in NodeACL /\ After(c, a).tag = a.tag /\ After(c, a).maps = a.maps
          /\ After(c, a).attr = c.value /\ After(c, a).tcq = a.tcq /\ After(c, a).chap = a.chap
      BY <2>0, <3>1 DEF NodeACL
    <3> QED BY <1>2, <2>1, <3>2, Zenon
  <2>2. CASE c.field = "tcq"
    <3>1. After(c, a) = [a EXCEPT !.tcq = c.value]
      BY <1>2, <2>2 DEF After
    <3>2. /\ After(c, a) \in NodeACL /\ After(c, a).tag = a.tag /\ After(c, a).maps = a.maps
          /\ After(c, a).attr = a.attr /\ After(c, a).tcq = c.value /\ After(c, a).chap = a.chap
      BY <2>0, <3>1 DEF NodeACL
    <3> QED BY <1>2, <2>2, <3>2, Zenon
  <2>3. CASE c.field = "chap"
    <3>1. After(c, a) = [a EXCEPT !.chap = c.value]
      BY <1>2, <2>3 DEF After
    <3>2. /\ After(c, a) \in NodeACL /\ After(c, a).tag = a.tag /\ After(c, a).maps = a.maps
          /\ After(c, a).attr = a.attr /\ After(c, a).tcq = a.tcq
      BY <2>0, <3>1 DEF NodeACL
    <3> QED BY <1>2, <2>3, <3>2, Zenon
  <2> QED BY <2>0, <2>1, <2>2, <2>3, Zenon
<1>3. CASE c.kind = "map"
  BY <1>3, IndexCall, ACLFields DEF After, NodeACL
<1>4. CASE c.kind = "unmap"
  BY <1>4, IndexCall, ACLFields DEF After, NodeACL
<1>5. CASE c.kind = "protect"
  BY <1>5, IndexCall, ACLFields DEF After, NodeACL, Maps
<1> QED BY <1>0, <1>1, <1>2, <1>3, <1>4, <1>5 DEF Kinds, Single

LEMMA FieldCases ==
  ASSUME NEW f \in Fields
  PROVE  f = "maps" \/ f = "attr" \/ f = "tcq"
BY DEF Fields

LEMMA SameSelf == \A f, a : Same(f, a, a)
BY Zenon DEF Same

LEMMA AfterSame ==
  ASSUME NEW c \in Calls, c.kind \notin Single \cup {"delete"}, NEW f \in Fields,
         NEW a \in NodeACL, NEW b \in NodeACL, Same(f, a, b),
         c.kind = "protect" => a.maps[c.index] # None /\ b.maps[c.index] # None
  PROVE  Same(f, After(c, a), After(c, b))
<1>1. c.kind \in Kinds
  BY CallKinds, Zenon
<1>2. CASE f = "attr"
  <2>1. After(c, a).attr = IF c.kind = "set" /\ c.field = "attr" THEN c.value ELSE a.attr
    BY AfterFields, Zenon
  <2>2. After(c, b).attr = IF c.kind = "set" /\ c.field = "attr" THEN c.value ELSE b.attr
    BY AfterFields, Zenon
  <2> QED BY <1>2, <2>1, <2>2 DEF Same
<1>3. CASE f = "tcq"
  <2>1. After(c, a).tcq = IF c.kind = "set" /\ c.field = "tcq" THEN c.value ELSE a.tcq
    BY AfterFields, Zenon
  <2>2. After(c, b).tcq = IF c.kind = "set" /\ c.field = "tcq" THEN c.value ELSE b.tcq
    BY AfterFields, Zenon
  <2> QED BY <1>3, <2>1, <2>2 DEF Same
<1>4. CASE f = "maps"
  <2>0. a.maps = b.maps
    BY <1>4 DEF Same
  <2>1. CASE c.kind \in {"rename", "set"}
    <3>1. After(c, a).maps = a.maps /\ After(c, b).maps = b.maps
      BY <2>1, AfterFields, Zenon
    <3> QED BY <1>4, <2>0, <3>1 DEF Same
  <2>2. CASE c.kind = "map"
    <3>1. After(c, a).maps = [a.maps EXCEPT ![c.index] = c.map]
      BY <2>2, AfterFields, Zenon
    <3>2. After(c, b).maps = [b.maps EXCEPT ![c.index] = c.map]
      BY <2>2, AfterFields, Zenon
    <3> QED BY <1>4, <2>0, <3>1, <3>2 DEF Same
  <2>3. CASE c.kind = "unmap"
    <3>1. After(c, a).maps = [a.maps EXCEPT ![c.index] = None]
      BY <2>3, AfterFields, Zenon
    <3>2. After(c, b).maps = [b.maps EXCEPT ![c.index] = None]
      BY <2>3, AfterFields, Zenon
    <3> QED BY <1>4, <2>0, <3>1, <3>2 DEF Same
  <2>4. CASE c.kind = "protect"
    <3>1. After(c, a).maps = [a.maps EXCEPT ![c.index].protect = c.on]
      BY <2>4, AfterFields, Zenon
    <3>2. After(c, b).maps = [b.maps EXCEPT ![c.index].protect = c.on]
      BY <2>4, AfterFields, Zenon
    <3> QED BY <1>4, <2>0, <3>1, <3>2 DEF Same
  <2> QED BY <1>1, <2>1, <2>2, <2>3, <2>4 DEF Kinds, Single
<1> QED BY <1>2, <1>3, <1>4, FieldCases

(* A call that goes through the members leaves the fields alone that it    *)
(* does not set.                                                           *)
LEMMA AfterOther ==
  ASSUME NEW c \in Calls, c.kind \notin Single \cup {"delete"}, NEW f \in Fields, NEW a \in NodeACL,
         c.kind = "protect" => a.maps[c.index] # None,
         c.kind = "rename" \/ f \notin Sets(c)
  PROVE  Same(f, After(c, a), a)
<1>0. c.kind \in Kinds
  BY CallKinds, Zenon
<1>1. CASE f = "attr"
  <2>1. After(c, a).attr = IF c.kind = "set" /\ c.field = "attr" THEN c.value ELSE a.attr
    BY AfterFields, Zenon
  <2> QED BY <1>1, <2>1 DEF Same, Sets
<1>2. CASE f = "tcq"
  <2>1. After(c, a).tcq = IF c.kind = "set" /\ c.field = "tcq" THEN c.value ELSE a.tcq
    BY AfterFields, Zenon
  <2> QED BY <1>2, <2>1 DEF Same, Sets
<1>3. CASE f = "maps"
  <2>1. c.kind \in {"rename", "set"}
    BY <1>3 DEF Sets
  <2>2. After(c, a).maps = a.maps
    BY <2>1, AfterFields, Zenon
  <2> QED BY <1>3, <2>2 DEF Same
<1> QED BY <1>1, <1>2, <1>3, FieldCases

-----------------------------------------------------------------------------
(* How a step changes the groups.                                          *)

(* The groups when only the ACL of w changes, to b. *)
LEMMA UpdateIn ==
  ASSUME TypeOK, NEW w \in Wwns, NEW b, acl' = [acl EXCEPT ![w] = b], NEW u, b # None, b.tag = u
  PROVE  Members(u)' = Members(u) \cup {w}
BY DEF TypeOK, Members, There

LEMMA UpdateOut ==
  ASSUME TypeOK, NEW w \in Wwns, NEW b, acl' = [acl EXCEPT ![w] = b], NEW u, b = None \/ b.tag # u
  PROVE  Members(u)' = Members(u) \ {w}
BY DEF TypeOK, Members, There

LEMMA UpdateKeepsTag ==
  ASSUME TypeOK, NEW w \in Wwns, There(w), NEW b \in NodeACL, b.tag = acl[w].tag, acl' = [acl EXCEPT ![w] = b]
  PROVE  \A u : Members(u)' = Members(u)
<1>1. b # None
  BY NoneAssumption
<1>2. \A v \in Wwns : (acl'[v] # None <=> acl[v] # None) /\ (acl[v] # None => acl'[v].tag = acl[v].tag)
  BY <1>1 DEF TypeOK, There
<1> QED BY <1>2 DEF Members, There

LEMMA UpdateOthers ==
  ASSUME TypeOK, NEW w \in Wwns, NEW b, acl' = [acl EXCEPT ![w] = b]
  PROVE  acl'[w] = b /\ \A v \in Wwns : v # w => acl'[v] = acl[v]
BY DEF TypeOK

LEMMA UpdateType ==
  ASSUME TypeOK, NEW w \in Wwns, NEW b \in NodeACL \cup {None}, acl' = [acl EXCEPT ![w] = b]
  PROVE  acl' \in [Wwns -> NodeACL \cup {None}]
BY DEF TypeOK

LEMMA MemberACL ==
  ASSUME TypeOK, NEW u, NEW w \in Members(u)
  PROVE  w \in Wwns /\ acl[w] \in NodeACL /\ acl[w].tag = u
BY DEF TypeOK, Members, There

LEMMA SameMembers ==
  ASSUME UNCHANGED acl
  PROVE  \A u : Members(u)' = Members(u) /\ \A f : Alike(f, Members(u)) <=> Alike(f, Members(u))'
BY Zenon DEF Members, There, Alike

(* ACLs that stay the same in a field stay alike in it. *)
LEMMA AlikeKept ==
  ASSUME NEW f, NEW S, NEW R, Alike(f, S), \A v \in R : v \in S /\ Same(f, acl'[v], acl[v])
  PROVE  \A v, w \in R : Same(f, acl'[v], acl'[w])
BY DEF Alike, Same

(* The members of a group that the step only leaves, if at all. *)
LEMMA AlikeStays ==
  ASSUME NEW f, NEW u, Alike(f, Members(u)),
         \A v \in Members(u)' : v \in Members(u) /\ Same(f, acl'[v], acl[v])
  PROVE  Alike(f, Members(u))'
<1>1. \A v, w \in Members(u)' : Same(f, acl'[v], acl'[w])
  BY AlikeKept
<1> QED BY <1>1, Zenon DEF Alike

(* A group that torn loses has at most one member. *)
LEMMA TornAlike ==
  ASSUME NEW more, Torn(more), NEW f \in Fields, NEW u \in torn[f] \cup more[f], u \notin torn'[f]
  PROVE  Alike(f, Members(u))'
<1>0. torn'[f] = {t \in torn[f] \cup more[f] : \E v, w \in Wwns :
                    v # w /\ \A x \in {v, w} : acl'[x] # None /\ acl'[x].tag = t}
  BY DEF Torn
<1>1. ~ \E v, w \in Wwns : v # w /\ \A x \in {v, w} : acl'[x] # None /\ acl'[x].tag = u
  BY <1>0, Zenon
<1>2. \A v, w \in Members(u)' : v = w
  BY <1>1 DEF Members, There
<1> QED BY <1>2, Zenon DEF Alike, Same

LEMMA TornType ==
  ASSUME TypeOK, NEW more \in [Fields -> SUBSET Tags], Torn(more)
  PROVE  torn' \in [Fields -> SUBSET Tags]
BY DEF TypeOK, Torn

LEMMA TearFields ==
  ASSUME NEW T \in SUBSET Tags, NEW F
  PROVE  /\ Tear(T, F) \in [Fields -> SUBSET Tags]
         /\ \A f \in Fields : Tear(T, F)[f] = IF f \in F THEN T ELSE {}
BY DEF Tear

(* What is left to show of a step that ends the call. *)
LEMMA EndStep ==
  ASSUME TypeOK, End, acl' \in [Wwns -> NodeACL \cup {None}], torn' \in [Fields -> SUBSET Tags],
         UNCHANGED calls, \A f \in Fields : Even(f)'
  PROVE  TypeOK' /\ GroupInv'
<1>1. TypeOK'
  BY DEF TypeOK, End, Stages
<1>2. stage' = "idle" /\ model' = None
  BY Zenon DEF End
<1> QED BY <1>1, <1>2 DEF GroupInv, Joins

LEMMA LosesFields ==
  ASSUME TypeOK, NEW w \in Wwns, There(w), LosesMaps(w)
  PROVE  \E b \in NodeACL : /\ acl' = [acl EXCEPT ![w] = b]
                            /\ b.tag = acl[w].tag /\ b.chap = acl[w].chap
                            /\ b.attr = acl[w].attr /\ b.tcq = acl[w].tcq
<1>1. acl[w] \in NodeACL
  BY DEF TypeOK, There
<1>2. PICK S \in SUBSET Indexes :
        acl' = [acl EXCEPT ![w].maps = [i \in Indexes |-> IF i \in S THEN None ELSE acl[w].maps[i]]]
  BY Zenon DEF LosesMaps
<1> DEFINE m == [i \in Indexes |-> IF i \in S THEN None ELSE acl[w].maps[i]]
           b == [acl[w] EXCEPT !.maps = m]
<1>3. acl' = [acl EXCEPT ![w] = b]
  BY <1>2 DEF TypeOK
<1>4. m \in [Indexes -> Maps \cup {None}]
  BY <1>1 DEF NodeACL
<1>5. /\ b \in NodeACL /\ b.tag = acl[w].tag /\ b.chap = acl[w].chap
      /\ b.attr = acl[w].attr /\ b.tcq = acl[w].tcq
  <2> HIDE DEF m
  <2> QED BY <1>1, <1>4 DEF NodeACL
<1> QED BY <1>3, <1>5, Zenon

-----------------------------------------------------------------------------
(* The start of a call.                                                    *)

LEMMA StartEach ==
  ASSUME TypeOK, GroupInv, NEW c \in Calls, Start(c), c.kind \notin Single, ToVisit(c) # {}
  PROVE  EachInv'
<1> DEFINE t == c.tag
<1>1. /\ stage = "idle" /\ call' = c /\ todo' = ToVisit(c) /\ UNCHANGED acl
      /\ \A f \in Fields : torn'[f] = torn[f] \cup Merges(c)[f]
  BY DEF Start, Single
<1>2. \A u : Members(u)' = Members(u)
  BY <1>1, SameMembers
<1>3. \A f \in Fields : \A u \in Tags \ torn[f] : Alike(f, Members(u)) /\ Alike(f, Members(u))'
  BY <1>1, SameMembers DEF GroupInv, Even
<1>4. t \in Tags /\ c.kind \in Kinds /\ c # None
  BY CallTags, CallKinds DEF Single
<1>5. ToVisit(c) \subseteq Members(t)
  BY DEF ToVisit
<1>6. c.kind # "rename" => \A f \in Fields : torn'[f] = torn[f]
  BY <1>1 DEF Merges
<1>7. ASSUME c.kind = "rename", NEW f \in Fields, c.to \notin torn'[f]
      PROVE  Alike(f, Members(t) \cup Members(c.to))'
  <2>1. c.to = t \/ (t \notin torn[f] /\ Members(c.to) = {})
    BY <1>1, <1>7 DEF Merges
  <2>2. c.to \in Tags /\ c.to \notin torn[f]
    BY <1>1, <1>7, RenameCall
  <2>3. CASE c.to = t
    BY <1>2, <1>3, <2>2, <2>3 DEF Alike
  <2>4. CASE t \notin torn[f] /\ Members(c.to) = {}
    BY <1>2, <1>3, <1>4, <2>4 DEF Alike
  <2> QED BY <2>1, <2>3, <2>4
<1>8. c.kind = "delete" => ToVisit(c) = Members(t)
  BY CallTags DEF ToVisit, Single
<1>9. ASSUME c.kind = "protect", NEW w \in ToVisit(c)
      PROVE  acl[w].maps[c.index] # None
  BY <1>9 DEF ToVisit
<1>10. ASSUME c.kind = "set", c.wwn # None
       PROVE  c.field = "chap" /\ ToVisit(c) = {c.wwn}
  BY <1>10, SetCall DEF ToVisit
<1>11. c.kind = "map" => ToVisit(c) = Members(t)
  BY CallTags DEF ToVisit, Single
<1>12. ASSUME c.kind \notin {"rename", "delete"}, NEW f \in Fields, t \notin torn[f],
              NEW v \in Members(t), NEW w \in Members(t)
       PROVE  Same(f, Final(v)', Final(w)')
  <2>0. /\ acl[v] \in NodeACL /\ acl[w] \in NodeACL /\ Same(f, acl[v], acl[w])
        /\ c.kind \notin Single \cup {"delete"}
    <3>1. acl[v] \in NodeACL /\ acl[w] \in NodeACL
      BY MemberACL
    <3>2. Same(f, acl[v], acl[w])
      BY <1>3, <1>4, <1>12 DEF Alike
    <3> QED BY <1>12, <3>1, <3>2
  <2>1. /\ Final(v)' = IF v \in ToVisit(c) THEN After(c, acl[v]) ELSE acl[v]
        /\ Final(w)' = IF w \in ToVisit(c) THEN After(c, acl[w]) ELSE acl[w]
    BY <1>1, Zenon DEF Final
  <2>2. CASE f \notin Sets(c)
    <3>1. Same(f, Final(v)', acl[v])
      <4>1. v \in ToVisit(c) => Same(f, After(c, acl[v]), acl[v])
        BY <1>9, <2>0, <2>2, AfterOther
      <4> QED BY <2>1, <4>1, SameSelf
    <3>2. Same(f, Final(w)', acl[w])
      <4>1. w \in ToVisit(c) => Same(f, After(c, acl[w]), acl[w])
        BY <1>9, <2>0, <2>2, AfterOther
      <4> QED BY <2>1, <4>1, SameSelf
    <3> QED BY <2>0, <3>1, <3>2 DEF Same
  <2>3. CASE ToVisit(c) = Members(t)
    <3>1. Final(v)' = After(c, acl[v]) /\ Final(w)' = After(c, acl[w])
      BY <2>1, <2>3, Zenon
    <3>2. c.kind = "protect" => acl[v].maps[c.index] # None /\ acl[w].maps[c.index] # None
      BY <1>9, <2>3
    <3>3. Same(f, After(c, acl[v]), After(c, acl[w]))
      BY <2>0, <3>2, AfterSame, Zenon
    <3> QED BY <3>1, <3>3, Zenon
  <2>4. CASE c.kind \in {"unmap", "protect"} /\ f = "maps"
    <3>1. PICK x \in ToVisit(c) : x \in Members(t) /\ acl[x].maps[c.index] # None
      BY <2>4 DEF ToVisit
    <3>2. \A y \in Members(t) : acl[y].maps[c.index] # None
      BY <1>3, <1>4, <1>12, <2>4, <3>1 DEF Alike, Same
    <3>3. ToVisit(c) = Members(t)
      BY <2>4, <3>2 DEF ToVisit
    <3> QED BY <2>3, <3>3
  <2>5. CASE c.kind = "map" \/ (c.kind = "set" /\ c.wwn = None)
    <3>1. ToVisit(c) = Members(t)
      BY <1>11, <2>5 DEF ToVisit
    <3> QED BY <2>3, <3>1
  <2>6. CASE c.kind = "set" /\ c.wwn # None
    <3>1. Sets(c) = {"chap"}
      BY <1>10, <2>6 DEF Sets
    <3>2. f # "chap"
      BY DEF Fields
    <3> QED BY <2>2, <3>1, <3>2
  <2>7. c.kind \in {"unmap", "protect"} => Sets(c) = {"maps"}
    BY DEF Sets
  <2>8. c.kind \in {"set", "map", "unmap", "protect"}
    BY <1>4, <1>12 DEF Kinds
  <2> QED BY <2>2, <2>4, <2>5, <2>6, <2>7, <2>8
<1>13. call'.tag = t /\ call'.kind = c.kind
  BY <1>1
<1>14. \A f \in Fields : \A u \in Tags \ torn'[f] : Alike(f, Members(u))'
  BY <1>1, <1>3
<1>15. c.kind \notin {"rename", "delete"} => \A f \in Fields : t \notin torn'[f] =>
         /\ Alike(f, todo)'
         /\ \A v, w \in Members(t)' : Same(f, Final(v)', Final(w)')
  <2> SUFFICES ASSUME c.kind \notin {"rename", "delete"}, NEW f \in Fields, t \notin torn'[f]
               PROVE  Alike(f, todo)' /\ \A v, w \in Members(t)' : Same(f, Final(v)', Final(w)')
    OBVIOUS
  <2>1. t \notin torn[f]
    BY <1>6
  <2>2. Alike(f, todo)'
    BY <1>1, <1>2, <1>4, <1>5, <1>14 DEF Alike
  <2>3. \A v, w \in Members(t)' : Same(f, Final(v)', Final(w)')
    BY <1>2, <1>12, <2>1
  <2> QED BY <2>2, <2>3
<1>16. c.kind = "delete" => todo' = Members(t)' /\ \A f \in Fields : t \notin torn'[f] => Alike(f, todo)'
  BY <1>1, <1>2, <1>4, <1>8, <1>14 DEF Alike
<1>17. c.kind = "map" => todo' = Members(t)'
  BY <1>1, <1>2, <1>11
<1>18. c.kind = "set" /\ c.wwn # None => c.field = "chap" /\ todo' = {c.wwn}
  BY <1>1, <1>10
<1>19. c.kind = "protect" => \A w \in todo' : acl'[w].maps[c.index] # None
  BY <1>1, <1>9
<1>20. todo' # {} /\ todo' \subseteq Members(t)'
  BY <1>1, <1>2, <1>5
<1>21. c.kind = "rename" => \A f \in Fields :
         /\ \A u \in Tags \ (torn'[f] \cup {c.to}) : Alike(f, Members(u))'
         /\ c.to \notin torn'[f] => Alike(f, Members(t) \cup Members(c.to))'
  BY <1>7, <1>14
<1> QED
  BY <1>1, <1>4, <1>13, <1>14, <1>15, <1>16, <1>17, <1>18, <1>19, <1>20, <1>21, ZenonT(60) DEF EachInv

LEMMA StartStep ==
  ASSUME TypeOK, GroupInv, NEW c \in Calls, Start(c)
  PROVE  TypeOK' /\ GroupInv'
<1>1. c # None /\ c.kind \in Kinds /\ (c.kind = "rename" => c.to \in Tags)
  BY CallKinds, RenameCall
<1>2. /\ stage = "idle" /\ torn' = [f \in Fields |-> torn[f] \cup Merges(c)[f]]
      /\ calls' \in 0..MaxCalls /\ UNCHANGED <<acl, model>>
  BY ConstantsAssumption DEF Start, TypeOK
<1>3. torn' \in [Fields -> SUBSET Tags]
  BY <1>1, <1>2 DEF Merges, TypeOK
<1>4. \A f \in Fields : Even(f)'
  <2> SUFFICES ASSUME NEW f \in Fields, NEW u \in Tags \ torn'[f] PROVE Alike(f, Members(u))'
    BY DEF Even
  <2>1. u \notin torn[f]
    BY <1>2
  <2> QED BY <1>2, <2>1, SameMembers DEF GroupInv, Even
<1>5. model' = None
  BY <1>2 DEF GroupInv, Joins
<1>6. CASE c.kind \in Single
  <2>1. call' = c /\ stage' = "one" /\ UNCHANGED todo
    BY <1>6 DEF Start, Single
  <2>2. TypeOK'
    BY <1>1, <1>2, <1>3, <2>1 DEF TypeOK, Stages
  <2> QED BY <1>4, <1>5, <1>6, <2>1, <2>2 DEF GroupInv, Joins
<1>7. CASE c.kind \notin Single /\ ToVisit(c) = {}
  <2>1. UNCHANGED <<call, stage, todo>>
    BY <1>7 DEF Start, Single
  <2>2. TypeOK'
    BY <1>2, <1>3, <2>1 DEF TypeOK
  <2> QED BY <1>2, <1>4, <1>5, <2>1, <2>2 DEF GroupInv, Joins
<1>8. CASE c.kind \notin Single /\ ToVisit(c) # {}
  <2>1. call' = c /\ stage' = "each" /\ todo' = ToVisit(c)
    BY <1>8 DEF Start, Single
  <2>2. ToVisit(c) \subseteq Wwns
    BY DEF ToVisit, Members
  <2>3. TypeOK'
    BY <1>1, <1>2, <1>3, <2>1, <2>2 DEF TypeOK, Stages
  <2>4. EachInv'
    BY <1>8, StartEach
  <2> QED BY <1>5, <2>1, <2>3, <2>4 DEF GroupInv, Joins
<1> QED BY <1>6, <1>7, <1>8

-----------------------------------------------------------------------------
(* A visit to one member.                                                  *)

(* The members as they will be do not change when one of them is visited. *)
LEMMA VisitValue ==
  ASSUME TypeOK, GroupInv, NEW w \in Wwns, stage = "each", w \in todo, call.kind # "delete"
  PROVE  /\ call \in Calls /\ call.kind \in Kinds /\ call.kind \notin Single
         /\ acl[w] \in NodeACL /\ acl[w].tag = call.tag
         /\ After(call, acl[w]) \in NodeACL
         /\ After(call, acl[w]).tag = IF call.kind = "rename" THEN call.to ELSE call.tag
         /\ \A f \in Fields : call.kind = "rename" \/ f \notin Sets(call) => Same(f, After(call, acl[w]), acl[w])
<1>0. EachInv
  BY Zenon DEF GroupInv
<1>1. call \in Calls /\ call.kind \notin Single
  BY <1>0 DEF TypeOK, EachInv
<1>2. call.kind \in Kinds
  BY <1>1, CallKinds
<1>3. acl[w] \in NodeACL /\ acl[w].tag = call.tag
  BY <1>0, MemberACL DEF EachInv
<1>4. call.kind = "protect" => acl[w].maps[call.index] # None
  BY <1>0 DEF EachInv
<1>5. /\ After(call, acl[w]) \in NodeACL
      /\ After(call, acl[w]).tag = IF call.kind = "rename" THEN call.to ELSE acl[w].tag
  BY <1>1, <1>3, <1>4, AfterFields, Zenon
<1>6. \A f \in Fields : call.kind = "rename" \/ f \notin Sets(call) => Same(f, After(call, acl[w]), acl[w])
  BY <1>1, <1>3, <1>4, AfterOther, Zenon
<1> QED BY <1>1, <1>2, <1>3, <1>5, <1>6

LEMMA GoOnStep ==
  ASSUME TypeOK, GroupInv, NEW w \in Wwns, stage = "each", w \in todo, GoOn(w), UNCHANGED calls,
         acl' \in [Wwns -> NodeACL \cup {None}],
         todo = {w} => \A f \in Fields : \A u \in Tags \ torn[f] : Alike(f, Members(u))',
         todo' = todo \ {w} /\ todo' # {} /\ UNCHANGED <<call, torn>> => EachInv'
  PROVE  TypeOK' /\ GroupInv'
<1>1. CASE todo = {w}
  <2>1. End /\ Torn(Tear({}, {}))
    BY <1>1, Zenon DEF GoOn
  <2>2. Tear({}, {}) \in [Fields -> SUBSET Tags]
    BY TearFields
  <2>3. torn' \in [Fields -> SUBSET Tags]
    BY <2>1, <2>2, TornType
  <2>4. \A f \in Fields : Even(f)'
    <3> SUFFICES ASSUME NEW f \in Fields, NEW u \in Tags \ torn'[f] PROVE Alike(f, Members(u))'
      BY DEF Even
    <3>1. CASE u \in torn[f]
      BY <2>1, <3>1, TornAlike
    <3>2. CASE u \notin torn[f]
      BY <1>1, <3>2
    <3> QED BY <3>1, <3>2
  <2> QED BY <2>1, <2>3, <2>4, EndStep
<1>2. CASE todo # {w}
  <2>1. todo' = todo \ {w} /\ todo' # {} /\ UNCHANGED <<call, stage, model, torn>>
    BY <1>2 DEF GoOn
  <2>2. EachInv'
    BY <2>1, Zenon
  <2>3. TypeOK'
    BY <2>1 DEF TypeOK
  <2> QED BY <2>1, <2>2, <2>3 DEF GroupInv, Joins
<1> QED BY <1>1, <1>2

(* Everything but a rename or a delete. *)
LEMMA VisitSet ==
  ASSUME TypeOK, GroupInv, NEW w \in Wwns, Visit(w), call.kind \notin {"rename", "delete"}
  PROVE  TypeOK' /\ GroupInv'
<1> DEFINE t == call.tag
           b == After(call, acl[w])
<1>1. /\ stage = "each" /\ w \in todo /\ acl' = [acl EXCEPT ![w] = b] /\ GoOn(w) /\ UNCHANGED calls
      /\ call.kind = "map" => acl[w].maps[call.index] = None
  BY DEF Visit, MayVisit
<1>2. EachInv
  BY <1>1, Zenon DEF GroupInv
<1>3. b \in NodeACL /\ b.tag = t /\ b # None /\ call \in Calls
  BY <1>1, VisitValue, NoneAssumption
<1>4. acl' \in [Wwns -> NodeACL \cup {None}]
  BY <1>1, <1>3, UpdateType, Zenon
<1>5. w \in Members(t) /\ t \in Tags /\ todo \subseteq Members(t)
  BY <1>1, <1>2 DEF EachInv
<1>6. \A u : Members(u)' = Members(u)
  <2>1. acl[w] \in NodeACL /\ acl[w].tag = t /\ There(w)
    BY <1>5, MemberACL, NoneAssumption DEF There
  <2> HIDE DEF b
  <2> QED BY <1>1, <1>3, <2>1, UpdateKeepsTag, Zenon
<1>7. acl'[w] = b /\ \A v \in Wwns : v # w => acl'[v] = acl[v]
  BY <1>1, UpdateOthers, Zenon
<1>8. \A f \in Fields : \A u \in Tags \ (torn[f] \cup {t}) : Alike(f, Members(u))'
  <2> SUFFICES ASSUME NEW f \in Fields, NEW u \in Tags \ (torn[f] \cup {t}) PROVE Alike(f, Members(u))'
    OBVIOUS
  <2>1. Alike(f, Members(u))
    BY <1>2 DEF EachInv
  <2>2. \A v \in Members(u) : v \in Wwns /\ v # w
    BY <1>5, MemberACL
  <2> QED BY <1>6, <1>7, <2>1, <2>2 DEF Alike
<1>9. ASSUME NEW f \in Fields, t \notin torn[f]
      PROVE  Alike(f, todo) /\ \A v, x \in Members(t) : Same(f, Final(v), Final(x))
  BY <1>2, <1>9 DEF EachInv
<1>10. ASSUME todo = {w}, NEW f \in Fields, NEW u \in Tags \ torn[f]
       PROVE  Alike(f, Members(u))'
  <2>1. CASE u = t
    <3>1. \A v \in Members(t) : acl'[v] = Final(v)
      BY <1>7, <1>10, MemberACL DEF Final
    <3> QED BY <1>6, <1>9, <1>10, <2>1, <3>1 DEF Alike
  <2> QED BY <1>8, <1>10, <2>1
<1>11. ASSUME todo' = todo \ {w}, todo' # {}, UNCHANGED <<call, torn>>
       PROVE  EachInv'
  <2>1. \A v \in todo' : v \in todo /\ acl'[v] = acl[v]
    BY <1>5, <1>7, <1>11, MemberACL
  <2>2. \A v \in Members(t) : Final(v)' = Final(v)
    BY <1>1, <1>7, <1>11, MemberACL DEF Final
  <2>3. \A f \in Fields : t \notin torn[f] =>
          Alike(f, todo)' /\ \A v, x \in Members(t) : Same(f, Final(v)', Final(x)')
    BY <1>9, <2>1, <2>2 DEF Alike
  <2>4. call.kind = "map" /\ t \notin torn["maps"] => \A v \in todo' : acl'[v].maps[call.index] = None
    <3>1. "maps" \in Fields
      BY DEF Fields
    <3> QED BY <1>1, <1>9, <2>1, <3>1 DEF Alike, Same
  <2>5. ~(call.kind = "set" /\ call.wwn # None)
    BY <1>1, <1>2, <1>11 DEF EachInv
  <2>6. call.kind = "protect" => \A v \in todo' : acl'[v].maps[call.index] # None
    BY <1>2, <2>1 DEF EachInv
  <2>7. call.kind \notin Single /\ todo' \subseteq Members(t)'
    BY <1>2, <1>5, <1>6, <1>11, <2>1 DEF EachInv
  <2>8. \A f \in Fields : t \notin torn[f] =>
          Alike(f, todo)' /\ \A v, x \in Members(t)' : Same(f, Final(v)', Final(x)')
    BY <1>6, <1>11, <2>3
  <2> HIDE DEF b
  <2> QED BY <1>5, <1>8, <1>11, <2>4, <2>5, <2>6, <2>7, <2>8, ZenonT(60) DEF EachInv
<1> QED BY <1>1, <1>4, <1>10, <1>11, GoOnStep

(* A rename, of a member whose tag is then call.to or, refused, call.tag. *)
LEMMA RenameStep ==
  ASSUME TypeOK, GroupInv, NEW w \in Wwns, stage = "each", w \in todo, call.kind = "rename",
         GoOn(w), UNCHANGED calls, NEW b \in NodeACL, acl' = [acl EXCEPT ![w] = b],
         \A f \in Fields : Same(f, b, acl[w]), b.tag \in {call.to, call.tag}
  PROVE  TypeOK' /\ GroupInv'
<1> PICK t, r : t = call.tag /\ r = call.to
  OBVIOUS
<1>1. EachInv
  BY Zenon DEF GroupInv
<1>2. acl' \in [Wwns -> NodeACL \cup {None}] /\ b # None
  BY UpdateType, NoneAssumption, Zenon
<1>3. w \in Members(t) /\ t \in Tags /\ todo \subseteq Members(t) /\ call.kind \notin Single
  BY <1>1 DEF EachInv
<1>4. acl'[w] = b /\ \A v \in Wwns : v # w => acl'[v] = acl[v]
  BY UpdateOthers, Zenon
<1>5. \A f \in Fields : \A v \in Wwns : Same(f, acl'[v], acl[v])
  BY <1>4, SameSelf
<1>6. /\ Members(t)' \subseteq Members(t) \cup Members(r)
      /\ Members(r)' \subseteq Members(t) \cup Members(r)
      /\ Members(t) \ {w} \subseteq Members(t)'
      /\ t # r => Members(t)' \subseteq Members(t)
  <2>1. CASE b.tag = t
    <3>1. Members(t)' = Members(t) \cup {w}
      BY <1>2, <2>1, UpdateIn, Zenon
    <3>2. r # t => Members(r)' = Members(r) \ {w}
      BY <1>2, <2>1, UpdateOut, Zenon
    <3> QED BY <1>3, <3>1, <3>2
  <2>2. CASE b.tag = r /\ t # r
    <3>1. Members(t)' = Members(t) \ {w}
      BY <1>2, <2>2, UpdateOut, Zenon
    <3>2. Members(r)' = Members(r) \cup {w}
      BY <1>2, <2>2, UpdateIn, Zenon
    <3> QED BY <1>3, <3>1, <3>2
  <2> QED BY <2>1, <2>2
<1>7. ASSUME NEW u \in Tags, u # r
      PROVE  Members(u)' \subseteq Members(u)
  <2>1. CASE b.tag = u
    <3>1. u = t
      BY <1>7, <2>1
    <3>2. Members(u)' = Members(u) \cup {w}
      BY <1>2, <2>1, UpdateIn, Zenon
    <3> QED BY <1>3, <3>1, <3>2
  <2>2. CASE b.tag # u
    <3>1. Members(u)' = Members(u) \ {w}
      BY <1>2, <2>2, UpdateOut, Zenon
    <3> QED BY <3>1
  <2> QED BY <2>1, <2>2
<1>8. \A f \in Fields : \A u \in Tags \ (torn[f] \cup {r}) : Alike(f, Members(u))'
  <2> SUFFICES ASSUME NEW f \in Fields, NEW u \in Tags \ (torn[f] \cup {r}) PROVE Alike(f, Members(u))'
    OBVIOUS
  <2>1. Alike(f, Members(u))
    BY <1>1 DEF EachInv
  <2>2. \A v \in Members(u)' : v \in Members(u) /\ Same(f, acl'[v], acl[v])
    BY <1>5, <1>7 DEF Members
  <2> QED BY <2>1, <2>2, AlikeStays
<1>9. ASSUME NEW f \in Fields, r \notin torn[f]
      PROVE  Alike(f, Members(t) \cup Members(r))'
  <2>1. Alike(f, Members(t) \cup Members(r))
    BY <1>1, <1>9 DEF EachInv
  <2>2. \A v \in Members(t)' \cup Members(r)' : v \in Members(t) \cup Members(r) /\ Same(f, acl'[v], acl[v])
    BY <1>5, <1>6 DEF Members
  <2>3. \A v, x \in Members(t)' \cup Members(r)' : Same(f, acl'[v], acl'[x])
    BY <2>1, <2>2, AlikeKept, ZenonT(30)
  <2> QED BY <2>3, Zenon DEF Alike
<1>10. ASSUME todo = {w}, NEW f \in Fields, NEW u \in Tags \ torn[f]
       PROVE  Alike(f, Members(u))'
  <2>1. CASE u = r
    <3>1. Alike(f, Members(t) \cup Members(r))'
      BY <1>9, <1>10, <2>1
    <3> QED BY <2>1, <3>1, Zenon DEF Alike
  <2> QED BY <1>8, <1>10, <2>1
<1>11. ASSUME todo' = todo \ {w}, todo' # {}, UNCHANGED <<call, torn>>
       PROVE  EachInv'
  <2>1. todo' \subseteq Members(t)'
    BY <1>3, <1>6, <1>11
  <2> QED BY <1>3, <1>8, <1>9, <1>11, <2>1 DEF EachInv
<1> QED BY <1>2, <1>10, <1>11, GoOnStep

LEMMA VisitDelete ==
  ASSUME TypeOK, GroupInv, NEW w \in Wwns, Visit(w), call.kind = "delete"
  PROVE  TypeOK' /\ GroupInv'
<1> PICK t : t = call.tag
  OBVIOUS
<1>1. stage = "each" /\ w \in todo /\ acl' = [acl EXCEPT ![w] = None] /\ GoOn(w) /\ UNCHANGED calls
  BY DEF Visit, After
<1>2. EachInv
  BY <1>1, Zenon DEF GroupInv
<1>3. acl' \in [Wwns -> NodeACL \cup {None}]
  BY <1>1, UpdateType, Zenon
<1>4. /\ \A u : Members(u)' = Members(u) \ {w}
      /\ \A v \in Wwns : v # w => acl'[v] = acl[v]
  BY <1>1, UpdateOut, UpdateOthers, Zenon
<1>5. t \in Tags /\ todo = Members(t) /\ call.kind \notin Single
  BY <1>2 DEF EachInv
<1>6. \A f \in Fields : \A u \in Tags \ torn[f] : Alike(f, Members(u))
  BY <1>2, <1>5 DEF EachInv
<1>7. \A f \in Fields : \A u \in Tags \ torn[f] : Alike(f, Members(u))'
  <2> SUFFICES ASSUME NEW f \in Fields, NEW u \in Tags \ torn[f] PROVE Alike(f, Members(u))'
    OBVIOUS
  <2>1. \A v \in Members(u)' : v \in Members(u) /\ acl'[v] = acl[v]
    BY <1>4 DEF Members
  <2> QED BY <1>6, <2>1, SameSelf, AlikeStays
<1>8. ASSUME todo' = todo \ {w}, todo' # {}, UNCHANGED <<call, torn>>
      PROVE  EachInv'
  <2>1. todo' = Members(t)'
    BY <1>4, <1>5, <1>8
  <2> QED BY <1>5, <1>7, <1>8, <2>1 DEF EachInv
<1> QED BY <1>1, <1>3, <1>7, <1>8, GoOnStep

LEMMA VisitStep ==
  ASSUME TypeOK, GroupInv, NEW w \in Wwns, Visit(w)
  PROVE  TypeOK' /\ GroupInv'
<1>1. CASE call.kind = "rename"
  <2>1. PICK b : b = After(call, acl[w])
    OBVIOUS
  <2>2. stage = "each" /\ w \in todo /\ GoOn(w) /\ UNCHANGED calls /\ acl' = [acl EXCEPT ![w] = b]
    BY <2>1 DEF Visit
  <2>3. b \in NodeACL /\ b.tag = call.to /\ \A f \in Fields : Same(f, b, acl[w])
    BY <1>1, <2>1, <2>2, VisitValue
  <2> QED BY <1>1, <2>2, <2>3, RenameStep, Zenon
<1> QED BY <1>1, VisitSet, VisitDelete

LEMMA VisitExistsStep ==
  ASSUME TypeOK, GroupInv, NEW w \in Wwns, VisitExists(w)
  PROVE  TypeOK' /\ GroupInv'
<1>1. /\ stage = "each" /\ w \in todo /\ End /\ UNCHANGED <<acl, torn, calls>>
      /\ call.kind = "map" /\ acl[w].maps[call.index] # None
  BY DEF VisitExists, MayVisit
<1>2. EachInv
  BY <1>1, Zenon DEF GroupInv
<1>3. ASSUME NEW f \in Fields, NEW u \in Tags \ torn[f]
      PROVE  Alike(f, Members(u))
  <2>1. CASE u = call.tag /\ (f = "maps" \/ todo = Members(u))
    <3>1. todo = Members(u) /\ Alike(f, todo)
      BY <1>1, <1>2, <1>3, <2>1 DEF EachInv
    <3> QED BY <3>1
  <2>2. CASE u = call.tag /\ f # "maps"
    <3>1. \A v \in Members(u) : Same(f, Final(v), acl[v])
      <4> SUFFICES ASSUME NEW v \in Members(u) PROVE Same(f, Final(v), acl[v])
        OBVIOUS
      <4>1. f \notin Sets(call) /\ v \in Wwns
        BY <1>1, <2>2, MemberACL DEF Sets
      <4>2. v \in todo => Same(f, After(call, acl[v]), acl[v])
        BY <1>1, <4>1, VisitValue
      <4> QED BY <4>2, SameSelf DEF Final
    <3>2. \A v, x \in Members(u) : Same(f, Final(v), Final(x))
      BY <1>1, <1>2, <1>3, <2>2 DEF EachInv
    <3> QED BY <3>1, <3>2 DEF Alike, Same
  <2>3. CASE u # call.tag
    BY <1>1, <1>2, <1>3, <2>3 DEF EachInv
  <2> QED BY <2>1, <2>2, <2>3
<1>4. \A f \in Fields : Even(f)'
  BY <1>1, <1>3, SameMembers DEF Even
<1>5. acl' \in [Wwns -> NodeACL \cup {None}] /\ torn' \in [Fields -> SUBSET Tags]
  BY <1>1 DEF TypeOK
<1> QED BY <1>1, <1>4, <1>5, EndStep

(* A call that ends with an exception: a group that differs is in torn. *)
LEMMA VisitRaises ==
  ASSUME TypeOK, GroupInv, NEW w \in Wwns, VisitRefused(w), call.kind # "rename"
  PROVE  TypeOK' /\ GroupInv'
<1> PICK t : t = call.tag
  OBVIOUS
<1>1. stage = "each" /\ w \in todo /\ End /\ Torn(HalfWay) /\ UNCHANGED calls
  BY DEF VisitRefused
<1>2. EachInv
  BY <1>1, Zenon DEF GroupInv
<1>3. t \in Tags /\ w \in Members(t) /\ call.kind \notin Single
  BY <1>1, <1>2 DEF EachInv
<1>4. PICK T : T = IF call.kind = "delete" \/ todo # Members(t) THEN {t} ELSE {}
  BY Zenon
<1>5. /\ HalfWay = Tear(T, Sets(call)) /\ HalfWay \in [Fields -> SUBSET Tags]
      /\ \A f \in Fields : HalfWay[f] = IF f \in Sets(call) THEN T ELSE {}
  <2>1. T \in SUBSET Tags
    BY <1>3, <1>4
  <2>2. HalfWay = Tear(T, Sets(call))
    BY <1>4 DEF HalfWay
  <2> QED BY <2>1, <2>2, TearFields
<1>6. torn' \in [Fields -> SUBSET Tags]
  BY <1>1, <1>5, TornType
<1>7. \A f \in Fields : \A u \in Tags \ (torn[f] \cup {t}) : Alike(f, Members(u))
  BY <1>2 DEF EachInv
<1>8. ASSUME NEW f \in Fields, NEW u \in Tags \ torn'[f],
             u \notin torn[f] \cup HalfWay[f] => Alike(f, Members(u))'
      PROVE  Alike(f, Members(u))'
  BY <1>1, <1>8, TornAlike
<1>9. CASE call.kind = "delete"
  <2>1. acl[w] \in NodeACL /\ There(w) /\ acl[w].tag = t
    BY <1>3, MemberACL, NoneAssumption DEF There
  <2>2. LosesMaps(w)
    BY <1>9 DEF VisitRefused
  <2>3. PICK b \in NodeACL : /\ acl' = [acl EXCEPT ![w] = b] /\ b.tag = acl[w].tag
                             /\ b.attr = acl[w].attr /\ b.tcq = acl[w].tcq
    BY <2>1, <2>2, LosesFields
  <2>4. \A u : Members(u)' = Members(u)
    BY <2>1, <2>3, UpdateKeepsTag, Zenon
  <2>5. acl'[w] = b /\ \A v \in Wwns : v # w => acl'[v] = acl[v]
    BY <2>3, UpdateOthers, Zenon
  <2>6. \A f \in Fields : Even(f)'
    <3> SUFFICES ASSUME NEW f \in Fields, NEW u \in Tags \ torn'[f], u \notin torn[f] \cup HalfWay[f]
                 PROVE  Alike(f, Members(u))'
      BY <1>8 DEF Even
    <3>1. Alike(f, Members(u)) /\ (u = t => f # "maps")
      <4>1. f = "maps" => t \in HalfWay[f]
        BY <1>4, <1>5, <1>9 DEF Sets
      <4>2. u = t => Alike(f, Members(u))
        BY <1>2, <1>9 DEF EachInv
      <4> QED BY <1>7, <4>1, <4>2
    <3>2. f # "maps" => Same(f, b, acl[w])
      BY <2>3 DEF Same
    <3>3. \A v \in Members(u)' : v \in Members(u) /\ Same(f, acl'[v], acl[v])
      <4> SUFFICES ASSUME NEW v \in Members(u) PROVE Same(f, acl'[v], acl[v])
        BY <2>4
      <4>1. v \in Wwns /\ acl[v].tag = u
        BY MemberACL
      <4>2. CASE v = w
        BY <2>1, <2>5, <3>1, <3>2, <4>1, <4>2
      <4>3. CASE v # w
        BY <2>5, <4>1, <4>3, SameSelf
      <4> QED BY <4>2, <4>3
    <3> QED BY <3>1, <3>3, AlikeStays
  <2>7. acl' \in [Wwns -> NodeACL \cup {None}]
    BY <2>3, UpdateType, Zenon
  <2> QED BY <1>1, <1>6, <2>6, <2>7, EndStep
<1>10. CASE call.kind # "delete"
  <2>1. UNCHANGED acl
    BY <1>10 DEF VisitRefused
  <2>2. ASSUME NEW f \in Fields, t \notin torn[f], t \notin HalfWay[f]
        PROVE  Alike(f, Members(t))
    <3>1. CASE todo = Members(t)
      BY <1>2, <1>10, <2>2, <3>1 DEF EachInv
    <3>2. CASE f \notin Sets(call)
      <4>1. \A v \in Members(t) : Same(f, Final(v), acl[v])
        <5> SUFFICES ASSUME NEW v \in Members(t) PROVE Same(f, Final(v), acl[v])
          OBVIOUS
        <5>1. v \in todo => Same(f, After(call, acl[v]), acl[v])
          BY <1>1, <1>10, <3>2, VisitValue, MemberACL
        <5> QED BY <5>1, SameSelf DEF Final
      <4>2. \A v, x \in Members(t) : Same(f, Final(v), Final(x))
        BY <1>2, <1>10, <2>2 DEF EachInv
      <4> QED BY <4>1, <4>2 DEF Alike, Same
    <3> QED BY <1>4, <1>5, <2>2, <3>1, <3>2
  <2>3. \A f \in Fields : Even(f)'
    <3> SUFFICES ASSUME NEW f \in Fields, NEW u \in Tags \ torn'[f], u \notin torn[f] \cup HalfWay[f]
                 PROVE  Alike(f, Members(u))'
      BY <1>8 DEF Even
    <3> QED BY <1>7, <2>1, <2>2, SameMembers
  <2>4. acl' \in [Wwns -> NodeACL \cup {None}]
    BY <2>1 DEF TypeOK
  <2> QED BY <1>1, <1>6, <2>3, <2>4, EndStep
<1> QED BY <1>9, <1>10

LEMMA VisitRefusedStep ==
  ASSUME TypeOK, GroupInv, NEW w \in Wwns, VisitRefused(w)
  PROVE  TypeOK' /\ GroupInv'
<1>1. CASE call.kind = "rename"
  <2>1. stage = "each" /\ w \in todo /\ GoOn(w) /\ UNCHANGED <<acl, calls>>
    BY <1>1 DEF VisitRefused
  <2>2. acl[w] \in NodeACL /\ acl[w].tag = call.tag
    BY <1>1, <2>1, VisitValue
  <2>3. acl' = [acl EXCEPT ![w] = acl[w]]
    BY <2>1 DEF TypeOK
  <2>4. \A f \in Fields : Same(f, acl[w], acl[w])
    BY SameSelf
  <2> QED BY <1>1, <2>1, <2>2, <2>3, <2>4, RenameStep, Zenon
<1> QED BY <1>1, VisitRaises

-----------------------------------------------------------------------------
(* Calls about one ACL.                                                    *)

LEMMA OneCall ==
  ASSUME TypeOK, GroupInv, stage = "one"
  PROVE  /\ call \in Calls /\ call.wwn \in Wwns /\ model = None
         /\ \A f \in Fields : Even(f)
<1>1. call \in Calls /\ call.kind \in Single
  BY DEF TypeOK, GroupInv
<1> QED BY <1>1, CallTags DEF GroupInv, Joins

LEMMA RemoveStep ==
  ASSUME TypeOK, GroupInv, RemoveACL
  PROVE  TypeOK' /\ GroupInv'
<1>0. PICK w : w = call.wwn
  OBVIOUS
<1>1. stage = "one" /\ End /\ UNCHANGED calls
  BY DEF RemoveACL
<1>2. w \in Wwns /\ \A f \in Fields : Even(f)
  BY <1>0, <1>1, OneCall
<1>3. CASE UNCHANGED <<acl, torn>>
  <2>1. \A f \in Fields : Even(f)'
    BY <1>2, <1>3, SameMembers DEF Even
  <2> QED BY <1>1, <1>3, <2>1, EndStep DEF TypeOK
<1>4. CASE acl' = [acl EXCEPT ![w] = None] /\ Torn(Tear({}, {}))
  <2>1. \A u : Members(u)' = Members(u) \ {w}
    BY <1>2, <1>4, UpdateOut, Zenon
  <2>2. \A v \in Wwns : v # w => acl'[v] = acl[v]
    BY <1>2, <1>4, UpdateOthers
  <2>3. \A f \in Fields : Even(f)'
    <3> SUFFICES ASSUME NEW f \in Fields, NEW u \in Tags \ torn'[f] PROVE Alike(f, Members(u))'
      BY DEF Even
    <3>1. CASE u \in torn[f]
      BY <1>4, <3>1, TornAlike
    <3>2. CASE u \notin torn[f]
      <4>1. \A v \in Members(u)' : v \in Members(u) /\ acl'[v] = acl[v]
        BY <2>1, <2>2 DEF Members
      <4>2. Alike(f, Members(u))
        BY <1>2, <3>2 DEF Even
      <4> QED BY <4>1, <4>2, SameSelf, AlikeStays
    <3> QED BY <3>1, <3>2
  <2>4. Tear({}, {}) \in [Fields -> SUBSET Tags]
    BY TearFields
  <2>5. acl' \in [Wwns -> NodeACL \cup {None}] /\ torn' \in [Fields -> SUBSET Tags]
    BY <1>2, <1>4, <2>4, UpdateType, TornType, Zenon
  <2> QED BY <1>1, <2>3, <2>5, EndStep
<1>5. CASE There(w) /\ LosesMaps(w) /\ Torn(Tear(TagOf(w), {"maps"}))
  <2>1. PICK b \in NodeACL : /\ acl' = [acl EXCEPT ![w] = b] /\ b.tag = acl[w].tag
                             /\ b.attr = acl[w].attr /\ b.tcq = acl[w].tcq
    BY <1>2, <1>5, LosesFields
  <2>2. \A u : Members(u)' = Members(u)
    BY <1>2, <1>5, <2>1, UpdateKeepsTag, Zenon
  <2>3. acl'[w] = b /\ \A v \in Wwns : v # w => acl'[v] = acl[v]
    BY <1>2, <2>1, UpdateOthers, Zenon
  <2>4. acl[w].tag \in Tags \cup {None}
    BY <1>2, <1>5, ACLFields DEF TypeOK, There
  <2>5. TagOf(w) \in SUBSET Tags
    BY <1>5, <2>4 DEF TagOf
  <2>6. PICK more : more = Tear(TagOf(w), {"maps"})
    OBVIOUS
  <2>7. /\ more \in [Fields -> SUBSET Tags] /\ Torn(more)
        /\ \A f \in Fields : more[f] = IF f = "maps" THEN TagOf(w) ELSE {}
    BY <1>5, <2>5, <2>6 DEF Tear
  <2>8. \A f \in Fields : Even(f)'
    <3> SUFFICES ASSUME NEW f \in Fields, NEW u \in Tags \ torn'[f] PROVE Alike(f, Members(u))'
      BY DEF Even
    <3>1. CASE u \in torn[f] \cup more[f]
      BY <2>7, <3>1, TornAlike
    <3>2. CASE u \notin torn[f] \cup more[f]
      <4>1. u # None
        BY ConstantsAssumption
      <4>2. f = "maps" => w \notin Members(u)
        BY <1>5, <2>7, <3>2, <4>1, MemberACL DEF TagOf
      <4>3. f # "maps" => Same(f, b, acl[w])
        BY <2>1 DEF Same
      <4>4. \A v \in Members(u)' : v \in Members(u) /\ Same(f, acl'[v], acl[v])
        BY <2>2, <2>3, <4>2, <4>3, MemberACL, SameSelf
      <4>5. Alike(f, Members(u))
        BY <1>2, <3>2 DEF Even
      <4> QED BY <4>4, <4>5, AlikeStays
    <3> QED BY <3>1, <3>2
  <2>9. acl' \in [Wwns -> NodeACL \cup {None}] /\ torn' \in [Fields -> SUBSET Tags]
    BY <1>2, <2>1, <2>7, UpdateType, TornType, Zenon
  <2> QED BY <1>1, <2>8, <2>9, EndStep
<1> QED BY <1>0, <1>3, <1>4, <1>5 DEF RemoveACL

(* An ACL that is in no group before and after the step. *)
LEMMA UpdateLoose ==
  ASSUME TypeOK, NEW w \in Wwns, There(w) => acl[w].tag = None,
         NEW b \in NodeACL, b.tag = None, acl' = [acl EXCEPT ![w] = b]
  PROVE  \A u \in Tags : /\ Members(u)' = Members(u) /\ w \notin Members(u)
                         /\ \A f : Alike(f, Members(u)) => Alike(f, Members(u))'
<1> SUFFICES ASSUME NEW u \in Tags
             PROVE  /\ Members(u)' = Members(u) /\ w \notin Members(u)
                    /\ \A f : Alike(f, Members(u)) => Alike(f, Members(u))'
  OBVIOUS
<1>1. u # None /\ b # None
  BY ConstantsAssumption, NoneAssumption
<1>2. w \notin Members(u)
  BY <1>1 DEF Members
<1>3. Members(u)' = Members(u)
  <2>1. Members(u)' = Members(u) \ {w}
    BY <1>1, UpdateOut, Zenon
  <2> QED BY <1>2, <2>1
<1>4. \A v \in Members(u) : acl'[v] = acl[v]
  BY <1>2, UpdateOthers, MemberACL
<1> QED BY <1>2, <1>3, <1>4 DEF Alike

LEMMA OwnStep ==
  ASSUME TypeOK, GroupInv, OwnACL
  PROVE  TypeOK' /\ GroupInv'
<1>0. PICK w, b : w = call.wwn /\ b = call.acl
  OBVIOUS
<1>1. stage = "one" /\ call.kind = "own" /\ End /\ UNCHANGED <<torn, calls>>
  BY DEF OwnACL
<1>2. w \in Wwns /\ call \in Calls /\ \A f \in Fields : Even(f)
  BY <1>0, <1>1, OneCall
<1>3. b \in NodeACL /\ b.tag = None
  BY <1>0, <1>1, <1>2, CallTags, ACLFields
<1>4. CASE UNCHANGED acl
  <2>1. \A f \in Fields : Even(f)'
    BY <1>1, <1>2, <1>4, SameMembers DEF Even
  <2> QED BY <1>1, <1>4, <2>1, EndStep DEF TypeOK
<1>5. CASE acl' = [acl EXCEPT ![w] = b] /\ (There(w) => acl[w].tag = None)
  <2>1. \A u \in Tags : \A f : Alike(f, Members(u)) => Alike(f, Members(u))'
    BY <1>2, <1>3, <1>5, UpdateLoose, Zenon
  <2>2. \A f \in Fields : Even(f)'
    BY <1>1, <1>2, <2>1 DEF Even
  <2>3. acl' \in [Wwns -> NodeACL \cup {None}] /\ torn' \in [Fields -> SUBSET Tags]
    BY <1>1, <1>2, <1>3, <1>5, UpdateType DEF TypeOK
  <2> QED BY <1>1, <2>2, <2>3, EndStep
<1> QED BY <1>0, <1>4, <1>5 DEF OwnACL

LEMMA AddStep ==
  ASSUME TypeOK, GroupInv, AddACL
  PROVE  TypeOK' /\ GroupInv'
<1>0. PICK w, t : w = call.wwn /\ t = call.tag
  OBVIOUS
<1>1. stage = "one" /\ call.kind = "add" /\ UNCHANGED <<torn, calls>>
  BY DEF AddACL
<1>2. w \in Wwns /\ call \in Calls /\ model = None /\ \A f \in Fields : Even(f)
  BY <1>0, <1>1, OneCall
<1>3. t \in Tags
  BY <1>0, <1>1, <1>2, CallTags
<1>4. CASE End /\ UNCHANGED acl
  <2>1. \A f \in Fields : Even(f)'
    BY <1>1, <1>2, <1>4, SameMembers DEF Even
  <2> QED BY <1>1, <1>4, <2>1, EndStep DEF TypeOK
<1>5. ASSUME w \notin Members(t), acl' = [acl EXCEPT ![w] = IF There(w) THEN @ ELSE NewACL],
             \/ Members(t) = {} /\ stage' = "tag" /\ UNCHANGED model
             \/ \E m \in Members(t) : stage' = "clear" /\ model' = m,
             UNCHANGED <<call, todo>>
      PROVE  TypeOK' /\ GroupInv'
  <2>1. /\ \A u \in Tags : Members(u)' = Members(u) /\ \A f : Alike(f, Members(u)) => Alike(f, Members(u))'
        /\ acl' \in [Wwns -> NodeACL \cup {None}] /\ acl'[w] # None
    <3>1. CASE There(w)
      <4>1. UNCHANGED acl
        BY <1>2, <1>5, <3>1 DEF TypeOK
      <4> QED BY <1>2, <3>1, <4>1, SameMembers DEF TypeOK, There
    <3>2. CASE ~There(w)
      <4>1. PICK b : b = NewACL
        OBVIOUS
      <4>2. acl' = [acl EXCEPT ![w] = b] /\ b \in NodeACL /\ b.tag = None
        BY <1>2, <1>5, <3>2, <4>1, ACLFields DEF TypeOK
      <4>3. acl'[w] = b /\ b # None
        BY <1>2, <4>2, NoneAssumption, UpdateOthers, Zenon
      <4>4. acl' \in [Wwns -> NodeACL \cup {None}]
        BY <1>2, <4>2, UpdateType, Zenon
      <4> QED BY <1>2, <3>2, <4>2, <4>3, <4>4, UpdateLoose, Zenon
    <3> QED BY <3>1, <3>2
  <2>2. model' \in Members(t) \cup {None} /\ stage' \in {"tag", "clear"}
    BY <1>2, <1>5
  <2>3. Members(t) \subseteq Wwns
    BY DEF Members
  <2>4. TypeOK'
    BY <1>1, <1>2, <1>5, <2>1, <2>2, <2>3 DEF TypeOK, Stages
  <2>5. call'.kind = "add" /\ call'.wwn = w /\ call'.tag = t /\ There(w)' /\ w \notin Members(t)'
    BY <1>0, <1>1, <1>3, <1>5, <2>1 DEF There
  <2>6. \A f \in Fields : Even(f)' /\ \A u \in Tags \ torn'[f] : Alike(f, Members(u) \ {w})'
    <3>1. \A f \in Fields : Even(f)'
      BY <1>1, <1>2, <2>1 DEF Even
    <3> QED BY <3>1 DEF Even, Alike
  <2>7. None \notin Members(t)
    BY <2>3, ConstantsAssumption
  <2>8. "tcq" \in Fields
    BY DEF Fields
  <2>9. JoinInv'
    <3>1. CASE Members(t) = {} /\ stage' = "tag" /\ UNCHANGED model
      BY <1>2, <1>3, <2>1, <2>5, <2>6, <3>1, ZenonT(30) DEF JoinInv
    <3>2. CASE \E m \in Members(t) : stage' = "clear" /\ model' = m
      BY <1>2, <1>3, <2>1, <2>5, <2>6, <2>7, <2>8, <3>2 DEF JoinInv
    <3> QED BY <1>5, <3>1, <3>2
  <2> QED BY <2>2, <2>4, <2>9 DEF GroupInv, Joins
<1> QED BY <1>0, <1>4, <1>5 DEF AddACL

-----------------------------------------------------------------------------
(* add_acl, from the try on.                                               *)

LEMMA JoinFacts ==
  ASSUME TypeOK, GroupInv, stage \in Joins \cup {"tag"}
  PROVE  /\ JoinInv /\ call \in Calls /\ call.tag \in Tags /\ call.wwn \in Wwns
         /\ acl[call.wwn] \in NodeACL /\ There(call.wwn)
         /\ model # None => model \in Wwns /\ model # call.wwn /\ acl[model] \in NodeACL
<1>1. JoinInv
  BY Zenon DEF GroupInv
<1>2. call \in Calls
  BY SMTT(30) DEF TypeOK, Joins
<1>3. call.wwn \in Wwns /\ There(call.wwn) /\ call.kind = "add"
  BY <1>1 DEF JoinInv
<1>4. acl[call.wwn] \in NodeACL
  BY <1>3 DEF TypeOK, There
<1>5. call.tag \in Tags
  BY <1>2, <1>3, CallTags
<1>6. model # None => model \in Wwns /\ model # call.wwn /\ acl[model] \in NodeACL
  BY <1>1, MemberACL DEF JoinInv
<1> QED BY <1>1, <1>2, <1>3, <1>4, <1>5, <1>6

(* A change of the ACL that joins, other than of its tag. *)
LEMMA JoinUpdate ==
  ASSUME TypeOK, GroupInv, stage \in Joins \cup {"tag"}, model # None,
         NEW b \in NodeACL, b.tag = acl[call.wwn].tag, b.tcq = acl[call.wwn].tcq,
         acl' = [acl EXCEPT ![call.wwn] = b],
         UNCHANGED <<call, todo, model, torn, calls>>, stage' \in Joins \cup {"tag"},
         stage' = "copy" => \A i \in Indexes : b.maps[i] \in {None, acl[model].maps[i]},
         stage' \in {"values", "tag"} => b.maps = acl[model].maps,
         stage' = "tag" => b.attr = acl[model].attr
  PROVE  TypeOK' /\ GroupInv'
<1>0. PICK w, t : w = call.wwn /\ t = call.tag
  OBVIOUS
<1>1. /\ JoinInv /\ call \in Calls /\ t \in Tags /\ w \in Wwns /\ There(w)
      /\ model \in Wwns /\ model # w
  BY <1>0, JoinFacts
<1>2. \A u : Members(u)' = Members(u)
  BY <1>0, <1>1, UpdateKeepsTag, Zenon
<1>3. acl'[w] = b /\ \A v \in Wwns : v # w => acl'[v] = acl[v]
  BY <1>0, <1>1, UpdateOthers, Zenon
<1>4. acl' \in [Wwns -> NodeACL \cup {None}] /\ b # None
  BY <1>0, <1>1, UpdateType, NoneAssumption, Zenon
<1>5. TypeOK'
  BY <1>4, SMTT(30) DEF TypeOK, Joins, Stages
<1>6. \A f \in Fields : \A u \in Tags \ torn'[f] : Alike(f, Members(u) \ {w})'
  <2> SUFFICES ASSUME NEW f \in Fields, NEW u \in Tags \ torn'[f] PROVE Alike(f, Members(u) \ {w})'
    BY SMTT(30)
  <2>1. Alike(f, Members(u) \ {w})
    BY <1>0, <1>1 DEF JoinInv
  <2>2. \A v \in Members(u) \ {w} : acl'[v] = acl[v]
    BY <1>3, MemberACL
  <2> QED BY <1>2, <2>1, <2>2, SMTT(30) DEF Alike
<1>7. /\ call'.kind = "add" /\ call'.wwn = w /\ call'.tag = t /\ There(w)' /\ w \notin Members(t)'
      /\ model' \in Members(t)' /\ acl'[model'] = acl[model]
  <2>1. call.kind = "add" /\ w \notin Members(t) /\ model \in Members(t)
    BY <1>0, <1>1, NoneAssumption DEF JoinInv
  <2>2. There(w)'
    BY <1>3, <1>4, Zenon DEF There
  <2> QED BY <1>0, <1>1, <1>2, <1>3, <2>1, <2>2, SMTT(90)
<1>8. Even("tcq")'
  <2> SUFFICES ASSUME NEW u \in Tags \ torn'["tcq"] PROVE Alike("tcq", Members(u))'
    BY Zenon DEF Even
  <2>1. Alike("tcq", Members(u))
    BY <1>1, ZenonT(30) DEF JoinInv, Even
  <2>2. Same("tcq", b, acl[w])
    BY <1>0 DEF Same
  <2>3. \A v \in Members(u)' : v \in Members(u) /\ Same("tcq", acl'[v], acl[v])
    BY <1>2, <1>3, <2>2, MemberACL, SameSelf
  <2> QED BY <2>1, <2>3, AlikeStays
<1>9. JoinInv'
  BY <1>1, <1>3, <1>6, <1>7, <1>8, ZenonT(30) DEF JoinInv
<1> QED BY <1>5, <1>9 DEF GroupInv, Joins

(* The ACL that joins is not changed. *)
LEMMA JoinGoesOn ==
  ASSUME TypeOK, GroupInv, stage \in Joins, stage' \in Joins \cup {"tag"},
         UNCHANGED <<acl, call, todo, model, torn, calls>>,
         stage' = "copy" => \A i \in Indexes : acl[call.wwn].maps[i] \in {None, acl[model].maps[i]},
         stage' \in {"values", "tag"} => acl[call.wwn].maps = acl[model].maps,
         stage' = "tag" => acl[call.wwn].attr = acl[model].attr
  PROVE  TypeOK' /\ GroupInv'
<1>0. PICK b : b = acl[call.wwn]
  OBVIOUS
<1>1. b \in NodeACL /\ call.wwn \in Wwns /\ model # None
  BY <1>0, JoinFacts DEF JoinInv, Joins
<1>2. acl' = [acl EXCEPT ![call.wwn] = b]
  BY <1>0, <1>1 DEF TypeOK
<1> QED BY <1>0, <1>1, <1>2, JoinUpdate, Zenon

LEMMA ClearStep ==
  ASSUME TypeOK, GroupInv, ClearMaps
  PROVE  TypeOK' /\ GroupInv'
<1>1. stage = "clear" /\ stage \in Joins /\ UNCHANGED <<call, todo, model, torn, calls>>
  BY DEF ClearMaps, Joins
<1>2. acl[call.wwn] \in NodeACL /\ call.wwn \in Wwns /\ model # None
  BY <1>1, JoinFacts DEF JoinInv
<1>3. ASSUME NEW i \in Indexes, acl' = [acl EXCEPT ![call.wwn].maps[i] = None], UNCHANGED stage
      PROVE  TypeOK' /\ GroupInv'
  <2>1. PICK b : b = [acl[call.wwn] EXCEPT !.maps[i] = None]
    BY Zenon
  <2>2. b \in NodeACL /\ b.tag = acl[call.wwn].tag /\ b.tcq = acl[call.wwn].tcq
    BY <1>2, <2>1 DEF NodeACL
  <2>3. acl' = [acl EXCEPT ![call.wwn] = b]
    BY <1>2, <1>3, <2>1 DEF TypeOK
  <2>4. stage' = "clear"
    BY <1>1, <1>3
  <2> QED BY <1>1, <1>2, <2>2, <2>3, <2>4, JoinUpdate, Zenon
<1>4. CASE (\A i \in Indexes : acl[call.wwn].maps[i] = None) /\ stage' = "copy" /\ UNCHANGED acl
  BY <1>1, <1>4, JoinGoesOn DEF Joins
<1> QED BY <1>3, <1>4, Zenon DEF ClearMaps, Joining

LEMMA CopyStep ==
  ASSUME TypeOK, GroupInv, CopyMaps
  PROVE  TypeOK' /\ GroupInv'
<1>1. stage = "copy" /\ stage \in Joins /\ UNCHANGED <<call, todo, model, torn, calls>>
  BY SMTT(30) DEF CopyMaps, Joins
<1>2. /\ acl[call.wwn] \in NodeACL /\ call.wwn \in Wwns /\ model # None /\ acl[model] \in NodeACL
      /\ \A i \in Indexes : acl[call.wwn].maps[i] \in {None, acl[model].maps[i]}
  BY <1>1, JoinFacts DEF JoinInv
<1>3. ASSUME NEW i \in Indexes, acl' = [acl EXCEPT ![call.wwn].maps[i] = acl[model].maps[i]], UNCHANGED stage
      PROVE  TypeOK' /\ GroupInv'
  <2>1. PICK b : b = [acl[call.wwn] EXCEPT !.maps[i] = acl[model].maps[i]]
    BY Zenon
  <2>2. acl[model].maps[i] \in Maps \cup {None}
    BY <1>2, ACLFields
  <2>3. /\ b \in NodeACL /\ b.tag = acl[call.wwn].tag /\ b.tcq = acl[call.wwn].tcq
        /\ b.maps = [acl[call.wwn].maps EXCEPT ![i] = acl[model].maps[i]]
    BY <1>2, <2>1, <2>2 DEF NodeACL
  <2>4. acl' = [acl EXCEPT ![call.wwn] = b]
    BY <1>2, <1>3, <2>1 DEF TypeOK
  <2>5. \A j \in Indexes : b.maps[j] \in {None, acl[model].maps[j]}
    BY <1>2, <2>3, ACLFields
  <2>6. stage' = "copy"
    BY <1>1, <1>3
  <2> QED BY <1>1, <1>2, <2>3, <2>4, <2>5, <2>6, JoinUpdate, Zenon
<1>4. CASE /\ \A i \in Indexes : acl[model].maps[i] # None => acl[call.wwn].maps[i] # None
           /\ stage' = "values" /\ UNCHANGED acl
  <2>1. \A i \in Indexes : acl[call.wwn].maps[i] = acl[model].maps[i]
    BY <1>2, <1>4
  <2>2. acl[call.wwn].maps = acl[model].maps
    BY <1>2, <2>1, ACLFields
  <2> QED BY <1>1, <1>4, <2>2, JoinGoesOn DEF Joins
<1> QED BY <1>3, <1>4, Zenon DEF CopyMaps, Joining

LEMMA ValuesStep ==
  ASSUME TypeOK, GroupInv, CopyValues
  PROVE  TypeOK' /\ GroupInv'
<1>1. /\ stage = "values" /\ stage \in Joins /\ stage' = "tag" /\ UNCHANGED <<call, todo, model, torn, calls>>
      /\ acl' = [acl EXCEPT ![call.wwn].attr = acl[model].attr]
  BY DEF CopyValues, Joins
<1>2. /\ acl[call.wwn] \in NodeACL /\ call.wwn \in Wwns /\ model # None /\ acl[model] \in NodeACL
      /\ acl[call.wwn].maps = acl[model].maps
  BY <1>1, JoinFacts DEF JoinInv
<1>3. PICK b : b = [acl[call.wwn] EXCEPT !.attr = acl[model].attr]
  BY Zenon
<1>4. /\ b \in NodeACL /\ b.tag = acl[call.wwn].tag /\ b.tcq = acl[call.wwn].tcq
      /\ b.maps = acl[model].maps /\ b.attr = acl[model].attr
  BY <1>2, <1>3 DEF NodeACL
<1>5. acl' = [acl EXCEPT ![call.wwn] = b]
  BY <1>1, <1>2, <1>3 DEF TypeOK
<1> QED BY <1>1, <1>2, <1>4, <1>5, JoinUpdate, Zenon

LEMMA RefusedStep ==
  ASSUME TypeOK, GroupInv, JoinRefused
  PROVE  TypeOK' /\ GroupInv'
<1>1. stage \in Joins /\ stage' = "tagtorn" /\ UNCHANGED <<acl, call, todo, model, torn, calls>>
  BY DEF JoinRefused, Joins
<1> QED BY <1>1, JoinGoesOn DEF Joins

LEMMA TagStep ==
  ASSUME TypeOK, GroupInv, SetTag
  PROVE  TypeOK' /\ GroupInv'
<1>0. PICK w, t : w = call.wwn /\ t = call.tag
  OBVIOUS
<1>1. stage \in {"tag", "tagtorn"} /\ End /\ UNCHANGED calls
  BY DEF SetTag
<1>2. JoinInv /\ t \in Tags /\ w \in Wwns /\ acl[w] \in NodeACL /\ There(w)
  BY <1>0, <1>1, JoinFacts, SMTT(30) DEF Joins
<1>3. \A f \in Fields : \A u \in Tags \ torn[f] : Alike(f, Members(u) \ {w})
  BY <1>0, <1>2 DEF JoinInv, Even, Alike
<1>4. ASSUME acl' = [acl EXCEPT ![w].tag = t], Torn(Tear({t}, Uncopied))
      PROVE  TypeOK' /\ GroupInv'
  <2>1. PICK b : b = [acl[w] EXCEPT !.tag = t]
    BY Zenon
  <2>2. /\ b \in NodeACL /\ b # None /\ b.tag = t
        /\ b.maps = acl[w].maps /\ b.attr = acl[w].attr /\ b.tcq = acl[w].tcq
    BY <1>2, <2>1, NoneAssumption DEF NodeACL
  <2>3. acl' = [acl EXCEPT ![w] = b]
    BY <1>2, <1>4, <2>1 DEF TypeOK
  <2>4. PICK more : more = Tear({t}, Uncopied)
    BY Zenon
  <2>5. /\ Torn(more) /\ more \in [Fields -> SUBSET Tags]
        /\ \A f \in Fields : f \in Uncopied => t \in more[f]
    BY <1>2, <1>4, <2>4 DEF Tear
  <2>6. acl' \in [Wwns -> NodeACL \cup {None}] /\ torn' \in [Fields -> SUBSET Tags]
    BY <1>2, <2>2, <2>3, <2>5, UpdateType, TornType, Zenon
  <2>7. acl'[w] = b /\ \A v \in Wwns : v # w => acl'[v] = acl[v]
    BY <1>2, <2>3, UpdateOthers, Zenon
  <2>8. Members(t)' = Members(t) \cup {w}
    BY <1>2, <2>2, <2>3, UpdateIn, Zenon
  <2>9. ASSUME NEW f \in Fields, model # None, f \notin Uncopied
        PROVE  Same(f, b, acl[model])
    <3>1. f = "maps" => acl[w].maps = acl[model].maps
      BY <1>0, <1>1, <1>2, <2>9 DEF JoinInv, Uncopied
    <3>2. f = "attr" => acl[w].attr = acl[model].attr
      BY <1>0, <1>1, <1>2, <2>9 DEF JoinInv, Uncopied
    <3>3. f = "tcq" => acl[w].tcq = acl[model].tcq
      BY <1>0, <2>9 DEF Uncopied, Joining
    <3> QED BY <2>2, <3>1, <3>2, <3>3, Zenon DEF Same
  <2>10. \A f \in Fields : Even(f)'
    <3> SUFFICES ASSUME NEW f \in Fields, NEW u \in Tags \ torn'[f] PROVE Alike(f, Members(u))'
      BY DEF Even
    <3>1. CASE u \in torn[f] \cup more[f]
      BY <2>5, <3>1, TornAlike
    <3>2. CASE u \notin torn[f] \cup more[f] /\ u # t
      <4>1. Members(u)' = Members(u) \ {w}
        BY <1>2, <2>2, <2>3, <3>2, UpdateOut, Zenon
      <4>2. \A v \in Members(u) \ {w} : acl'[v] = acl[v]
        BY <2>7, MemberACL
      <4> QED BY <1>3, <3>2, <4>1, <4>2 DEF Alike
    <3>3. CASE u \notin torn[f] \cup more[f] /\ u = t
      <4>1. f \notin Uncopied /\ w \notin Members(t)
        BY <1>0, <1>2, <2>5, <3>3 DEF JoinInv
      <4>2. \A v \in Members(t) : acl'[v] = acl[v]
        BY <2>7, <4>1, MemberACL
      <4>3. \A v, x \in Members(t) : Same(f, acl[v], acl[x])
        BY <1>3, <3>3, <4>1 DEF Alike
      <4>4. CASE model = None
        <5>1. Members(t) = {}
          BY <1>0, <1>2, <4>4 DEF JoinInv
        <5> QED BY <2>8, <3>3, <5>1 DEF Alike, Same
      <4>5. CASE model # None
        <5>1. model \in Members(t)
          BY <1>0, <1>2, <4>5, ZenonT(30) DEF JoinInv
        <5>2. Same(f, b, acl[model])
          BY <2>9, <4>1, <4>5
        <5>3. \A v \in Members(t) \cup {w} : Same(f, acl'[v], acl[model])
          BY <2>7, <4>2, <4>3, <5>1, <5>2
        <5>4. \A v, x \in Members(t) \cup {w} : Same(f, acl'[v], acl'[x])
          BY <5>3, Zenon DEF Same
        <5> QED BY <2>8, <3>3, <5>4 DEF Alike
      <4> QED BY <4>4, <4>5, SMTT(30)
    <3> QED BY <3>1, <3>2, <3>3
  <2> QED BY <1>1, <2>6, <2>10, EndStep
<1>5. ASSUME UNCHANGED acl, Torn(Tear(IF model = None THEN {} ELSE TagOf(w), {"maps", "attr"}))
      PROVE  TypeOK' /\ GroupInv'
  <2>1. PICK T : T = IF model = None THEN {} ELSE TagOf(w)
    BY Zenon
  <2>2. acl[w].tag \in Tags \cup {None}
    BY <1>2, ACLFields
  <2>3. PICK more : more = Tear(T, {"maps", "attr"})
    BY Zenon
  <2>4. /\ Torn(more) /\ more \in [Fields -> SUBSET Tags]
        /\ \A f \in Fields : f # "tcq" => more[f] = T
    <3>1. T \in SUBSET Tags
      BY <2>1, <2>2 DEF TagOf
    <3>2. \A f \in Fields : f # "tcq" => f \in {"maps", "attr"}
      BY DEF Fields
    <3>3. Torn(more)
      BY <1>5, <2>1, <2>3, Zenon
    <3> QED BY <2>3, <3>1, <3>2, <3>3 DEF Tear
  <2>5. \A f \in Fields : Even(f)'
    <3> SUFFICES ASSUME NEW f \in Fields, NEW u \in Tags \ torn'[f] PROVE Alike(f, Members(u))'
      BY DEF Even
    <3>1. CASE u \in torn[f] \cup more[f]
      BY <2>4, <3>1, TornAlike
    <3>2. CASE u \notin torn[f] \cup more[f] /\ (model = None \/ f = "tcq")
      <4>1. Even(f)
        BY <1>2, <3>2, ZenonT(30) DEF JoinInv
      <4>2. Alike(f, Members(u))
        BY <3>2, <4>1 DEF Even
      <4> QED BY <1>5, <4>2, SameMembers
    <3>3. CASE u \notin torn[f] \cup more[f] /\ model # None /\ f # "tcq"
      <4>1. u # None
        BY ConstantsAssumption
      <4>2. w \notin Members(u)
        BY <1>2, <2>1, <2>4, <3>3, <4>1, MemberACL DEF TagOf
      <4>3. Alike(f, Members(u))
        BY <1>3, <3>3, <4>2 DEF Alike
      <4> QED BY <1>5, <4>3, SameMembers
    <3> QED BY <3>1, <3>2, <3>3
  <2>6. acl' \in [Wwns -> NodeACL \cup {None}] /\ torn' \in [Fields -> SUBSET Tags]
    BY <1>5, <2>4, TornType DEF TypeOK
  <2> QED BY <1>1, <2>5, <2>6, EndStep
<1> QED BY <1>0, <1>4, <1>5 DEF SetTag

-----------------------------------------------------------------------------

(* Every step keeps the types and what is known of the groups. *)
LEMMA NextStep ==
  ASSUME TypeOK, GroupInv, [Next]_vars
  PROVE  TypeOK' /\ GroupInv'
<1>1. CASE UNCHANGED vars
  <2>1. UNCHANGED <<acl, call, stage, todo, model, torn, calls>>
    BY <1>1 DEF vars
  <2>2. \A t : Members(t)' = Members(t)
    BY <2>1, Zenon DEF Members, There
  <2>3. /\ \A f, S : Alike(f, S)' <=> Alike(f, S)
        /\ \A f : Even(f)' <=> Even(f)
    BY <2>1, <2>2, Zenon DEF Alike, Even
  <2>4. TypeOK'
    BY <2>1, Zenon DEF TypeOK
  <2>5. EachInv => EachInv'
    BY <2>1, <2>2, <2>3, ZenonT(30) DEF EachInv, Final
  <2>6. JoinInv => JoinInv'
    BY <2>1, <2>2, <2>3, Zenon DEF JoinInv, There
  <2>7. GroupInv'
    BY <2>1, <2>2, <2>3, <2>5, <2>6 DEF GroupInv
  <2> QED BY <2>4, <2>7
<1>2. CASE Next
  BY <1>2, StartStep, VisitStep, VisitExistsStep, VisitRefusedStep, RemoveStep, OwnStep, AddStep,
     ClearStep, CopyStep, ValuesStep, RefusedStep, TagStep, Zenon DEF Next
<1> QED BY <1>1, <1>2

LEMMA InitInv ==
  ASSUME Init
  PROVE  TypeOK /\ GroupInv
<1>1. TypeOK
  BY ConstantsAssumption DEF Init, TypeOK, Stages
<1>2. \A u : Members(u) = {}
  BY DEF Init, Members, There
<1> QED BY <1>1, <1>2 DEF Init, GroupInv, Joins, Even, Alike

(* What is true of the groups at every step of every call. *)
THEOREM GroupsInvariant == Spec => [](TypeOK /\ GroupInv)
BY InitInv, NextStep, PTL DEF Spec

(* NodeACLGroup and MappedLUNGroup leave every ACL with fields of their    *)
(* types, whatever is refused, for any number of initiators and groups.    *)
THEOREM TypeCorrect == Spec => []TypeOK
BY GroupsInvariant, PTL

(* For any number of members, groups, indexes and calls: between calls the *)
(* members of a group have the same mapped LUNs, attributes and TCQ depth, *)
(* each unless a refusal cut short a call that set it, a rename joined two *)
(* groups, or add_acl let an ACL with another TCQ depth in (NodeACLGroup). *)
THEOREM MembersStayAlike == Spec => []MembersAlike
<1>1. ASSUME TypeOK, GroupInv
      PROVE  MembersAlike
  <2> SUFFICES ASSUME stage = "idle", NEW f \in Fields, NEW t \in Tags \ torn[f],
                      NEW v \in Members(t), NEW w \in Members(t)
               PROVE  acl[v][f] = acl[w][f]
    BY DEF MembersAlike
  <2>1. Same(f, acl[v], acl[w])
    BY <1>1, Zenon DEF GroupInv, Even, Alike
  <2> QED BY <2>1, FieldCases DEF Same
<1> QED BY <1>1, GroupsInvariant, PTL

-----------------------------------------------------------------------------
(* What a step may change.                                                 *)

MayTouch(w) ==
  /\ w = call.wwn \/ (There(w) /\ acl[w].tag = call.tag)
  /\ There(w) /\ acl'[w] # None /\ acl'[w].chap # acl[w].chap =>
       \/ call.kind = "own"
       \/ call.kind = "set" /\ call.field = "chap" /\ call.wwn \in {w, None}

LEMMA TouchOne ==
  ASSUME TypeOK, NEW x \in Wwns, NEW b, acl' = [acl EXCEPT ![x] = b],
         x = call.wwn \/ (There(x) /\ acl[x].tag = call.tag),
         \/ There(x) /\ b # None => b.chap = acl[x].chap
         \/ call.kind = "own"
         \/ call.kind = "set" /\ call.field = "chap" /\ call.wwn \in {x, None}
  PROVE  \A w \in Wwns : acl'[w] # acl[w] => MayTouch(w)
<1>1. acl'[x] = b /\ \A v \in Wwns : v # x => acl'[v] = acl[v]
  BY UpdateOthers, Zenon
<1> QED BY <1>1 DEF MayTouch

LEMMA VisitTouch ==
  ASSUME TypeOK, GroupInv, NEW x \in Wwns, Visit(x)
  PROVE  \A w \in Wwns : acl'[w] # acl[w] => MayTouch(w)
<1>0. PICK b : b = After(call, acl[x])
  OBVIOUS
<1>1. stage = "each" /\ x \in todo /\ acl' = [acl EXCEPT ![x] = b]
  BY <1>0 DEF Visit
<1>2. EachInv
  BY <1>1, Zenon DEF GroupInv
<1>3. acl[x] \in NodeACL /\ There(x) /\ acl[x].tag = call.tag
  BY <1>1, <1>2, MemberACL, NoneAssumption DEF EachInv, There
<1>4. CASE call.kind = "delete"
  <2>1. b = None
    BY <1>0, <1>4 DEF After
  <2> QED BY <1>1, <1>3, <2>1, TouchOne, Zenon
<1>5. CASE call.kind = "set" /\ call.field = "chap"
  <2>1. call.wwn \in {x, None}
    BY <1>1, <1>2, <1>5 DEF EachInv
  <2> QED BY <1>1, <1>3, <1>5, <2>1, TouchOne, ZenonT(30)
<1>6. CASE call.kind # "delete" /\ ~(call.kind = "set" /\ call.field = "chap")
  <2>0. call \in Calls
    BY <1>1, Zenon DEF TypeOK
  <2>a. call.kind \notin Single
    BY <1>2, Zenon DEF EachInv
  <2>1. call \in Calls /\ call.kind \notin Single \cup {"delete"}
    BY <1>6, <2>0, <2>a, Zenon
  <2>2. call.kind = "protect" => acl[x].maps[call.index] # None
    BY <1>1, <1>2 DEF EachInv
  <2>3. b.chap = acl[x].chap
    BY <1>0, <1>3, <1>6, <2>1, <2>2, AfterFields, Zenon
  <2> QED BY <1>1, <1>3, <2>3, TouchOne, ZenonT(30)
<1> QED BY <1>4, <1>5, <1>6

LEMMA LosesTouch ==
  ASSUME TypeOK, NEW x \in Wwns, There(x), LosesMaps(x),
         x = call.wwn \/ acl[x].tag = call.tag
  PROVE  \A w \in Wwns : acl'[w] # acl[w] => MayTouch(w)
<1>1. PICK b \in NodeACL : acl' = [acl EXCEPT ![x] = b] /\ b.chap = acl[x].chap
  BY LosesFields
<1> QED BY <1>1, TouchOne, ZenonT(30)

LEMMA OneTouch ==
  ASSUME TypeOK, GroupInv, RemoveACL \/ OwnACL \/ AddACL
  PROVE  \A w \in Wwns : acl'[w] # acl[w] => MayTouch(w)
<1>0. PICK x : x = call.wwn
  OBVIOUS
<1>1. stage = "one" /\ x \in Wwns
  BY <1>0, OneCall DEF RemoveACL, OwnACL, AddACL
<1>2. CASE UNCHANGED acl
  BY <1>2
<1>3. CASE acl' = [acl EXCEPT ![x] = None]
  BY <1>0, <1>1, <1>3, TouchOne, Zenon
<1>4. CASE There(x) /\ LosesMaps(x)
  BY <1>0, <1>1, <1>4, LosesTouch
<1>5. CASE call.kind = "own" /\ acl' = [acl EXCEPT ![x] = call.acl]
  BY <1>0, <1>1, <1>5, TouchOne, Zenon
<1>6. CASE acl' = [acl EXCEPT ![x] = IF There(x) THEN @ ELSE NewACL]
  <2>1. PICK b : b = IF There(x) THEN acl[x] ELSE NewACL
    OBVIOUS
  <2>2. acl' = [acl EXCEPT ![x] = b]
    BY <1>6, <2>1 DEF TypeOK
  <2> QED BY <1>0, <1>1, <2>1, <2>2, TouchOne, Zenon
<1> QED BY <1>0, <1>2, <1>3, <1>4, <1>5, <1>6 DEF RemoveACL, OwnACL, AddACL

LEMMA JoinTouch ==
  ASSUME TypeOK, GroupInv, ClearMaps \/ CopyMaps \/ CopyValues \/ SetTag
  PROVE  \A w \in Wwns : acl'[w] # acl[w] => MayTouch(w)
<1>0. PICK x : x = call.wwn
  OBVIOUS
<1>1. stage \in Joins \cup {"tag"}
  BY DEF ClearMaps, CopyMaps, CopyValues, SetTag, Joins
<1>2. x \in Wwns /\ acl[x] \in NodeACL
  BY <1>0, <1>1, JoinFacts
<1>3. CASE UNCHANGED acl
  BY <1>3
<1>4. ASSUME NEW i \in Indexes, NEW m, acl' = [acl EXCEPT ![x].maps[i] = m]
      PROVE  \A w \in Wwns : acl'[w] # acl[w] => MayTouch(w)
  <2>1. PICK b : b = [acl[x] EXCEPT !.maps[i] = m]
    BY Zenon
  <2>2. acl' = [acl EXCEPT ![x] = b] /\ b.chap = acl[x].chap
    BY <1>2, <1>4, <2>1 DEF TypeOK, NodeACL
  <2> QED BY <1>0, <1>2, <2>2, TouchOne, Zenon
<1>5. ASSUME NEW a, acl' = [acl EXCEPT ![x].attr = a]
      PROVE  \A w \in Wwns : acl'[w] # acl[w] => MayTouch(w)
  <2>1. PICK b : b = [acl[x] EXCEPT !.attr = a]
    BY Zenon
  <2>2. acl' = [acl EXCEPT ![x] = b] /\ b.chap = acl[x].chap
    BY <1>2, <1>5, <2>1 DEF TypeOK, NodeACL
  <2> QED BY <1>0, <1>2, <2>2, TouchOne, Zenon
<1>6. ASSUME NEW t, acl' = [acl EXCEPT ![x].tag = t]
      PROVE  \A w \in Wwns : acl'[w] # acl[w] => MayTouch(w)
  <2>1. PICK b : b = [acl[x] EXCEPT !.tag = t]
    BY Zenon
  <2>2. acl' = [acl EXCEPT ![x] = b] /\ b.chap = acl[x].chap
    BY <1>2, <1>6, <2>1 DEF TypeOK, NodeACL
  <2> QED BY <1>0, <1>2, <2>2, TouchOne, Zenon
<1>7. CASE ClearMaps
  BY <1>0, <1>3, <1>4, <1>7, Zenon DEF ClearMaps
<1>8. CASE CopyMaps
  BY <1>0, <1>3, <1>4, <1>8, Zenon DEF CopyMaps
<1>9. CASE CopyValues
  BY <1>0, <1>5, <1>9, Zenon DEF CopyValues
<1>10. CASE SetTag
  BY <1>0, <1>3, <1>6, <1>10 DEF SetTag
<1> QED BY <1>7, <1>8, <1>9, <1>10

(* A call on a group or on one ACL changes the ACL it names and members of *)
(* its group and no other; CHAP settings change only when they are set     *)
(* (NodeACLGroup.add_acl copies everything but them).                      *)
THEOREM OthersStayUntouched == Spec => OthersUntouched
<1>1. ASSUME TypeOK, GroupInv, [Next]_vars
      PROVE  [\A w \in Wwns : acl'[w] # acl[w] => MayTouch(w)]_vars
  <2>1. CASE UNCHANGED acl
    BY <2>1
  <2>2. ASSUME NEW x \in Wwns, VisitRefused(x), acl' # acl
        PROVE  \A w \in Wwns : acl'[w] # acl[w] => MayTouch(w)
    <3>1. stage = "each" /\ x \in todo /\ LosesMaps(x)
      BY <2>2 DEF VisitRefused
    <3>2. EachInv
      BY <1>1, <3>1, Zenon DEF GroupInv
    <3>3. x \in Members(call.tag)
      BY <3>1, <3>2, Zenon DEF EachInv
    <3>4. There(x) /\ acl[x].tag = call.tag
      BY <3>3 DEF Members
    <3> QED BY <1>1, <3>1, <3>4, LosesTouch
  <2>3. CASE Next
    <3>1. CASE \E c \in Calls : Start(c)
      BY <2>1, <3>1 DEF Start
    <3>2. CASE \E x \in Wwns : Visit(x)
      BY <1>1, <3>2, VisitTouch
    <3>3. CASE \E x \in Wwns : VisitExists(x)
      BY <2>1, <3>3 DEF VisitExists
    <3>4. CASE \E x \in Wwns : VisitRefused(x)
      BY <2>1, <2>2, <3>4
    <3>5. CASE RemoveACL \/ OwnACL \/ AddACL
      BY <1>1, <3>5, OneTouch
    <3>6. CASE ClearMaps \/ CopyMaps \/ CopyValues \/ SetTag
      BY <1>1, <3>6, JoinTouch
    <3>7. CASE JoinRefused
      BY <2>1, <3>7 DEF JoinRefused
    <3> QED BY <2>3, <3>1, <3>2, <3>3, <3>4, <3>5, <3>6, <3>7, Zenon DEF Next
  <2>4. CASE UNCHANGED vars
    BY <2>4
  <2> QED BY <1>1, <2>3, <2>4
<1> QED BY <1>1, GroupsInvariant, PTL DEF Spec, OthersUntouched, MayTouch

=============================================================================
