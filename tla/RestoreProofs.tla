--------------------------- MODULE RestoreProofs ---------------------------
(***************************************************************************)
(* Proofs about Restore, for any configurations of the shape that dump()   *)
(* gives them, any failures and any number of calls.                       *)
(***************************************************************************)
EXTENDS Restore, TLAPS

(* The prover of the leaves that do not name SMT or PTL. *)
USE ZenonT(60)

-----------------------------------------------------------------------------
(* The shape of a configuration.  Dictionaries are nested four deep, which *)
(* gives the recursive functions their values and replaces induction.      *)

Tops == {"so", "fm", "target"}
Level1 == Tops \cup {"soattr", "alua", "tpg"}
Level2 == Level1 \cup {"aluavalues", "tpgattr", "lun", "portal", "acl", "enable", "tpgvalues"}

LEMMA Shape ==
  ASSUME NEW n \in Parts
  PROVE  /\ Kind[n] \in Kinds
         /\ Parent[n] \in Parts \cup {None} /\ Uses[n] \in Parts \cup {None} /\ n # None
         /\ Parent[n] = None <=> Kind[n] \in Tops
         /\ Parent[n] # None => Kind[Parent[n]] = Holder[Kind[n]]
BY PartsAssumption, ShapeAssumption DEF Tops

LEMMA Levels ==
  ASSUME NEW n \in Parts
  PROVE  /\ Kind[n] \in Tops => Parent[n] = None /\ Uses[n] = None
         /\ Kind[n] \in Level1 => (Parent[n] = None \/ Kind[Parent[n]] \in Tops) /\ Uses[n] = None
         /\ Kind[n] \in Level2 => (Parent[n] = None \/ Kind[Parent[n]] \in Level1)
                                  /\ (Uses[n] = None \/ Kind[Uses[n]] \in Level1)
         /\ Parent[n] = None \/ Kind[Parent[n]] \in Level2
         /\ Uses[n] = None \/ Kind[Uses[n]] \in Level2
<1>1. /\ Kind[n] \in Kinds
      /\ Parent[n] = None <=> Kind[n] \in Tops
      /\ Parent[n] # None => Kind[Parent[n]] = Holder[Kind[n]]
  BY Shape
<1>2. Uses[n] # None =>
         \/ Kind[n] = "lun" /\ Kind[Uses[n]] = "so"
         \/ Kind[n] = "member" /\ Kind[Uses[n]] = "alua"
         \/ Kind[n] = "mlun" /\ Kind[Uses[n]] = "lun"
  BY ShapeAssumption
<1>3. Kind[n] \in Tops => Parent[n] = None
  BY <1>1
<1>4. Kind[n] \in Level1 => (Parent[n] = None \/ Kind[Parent[n]] \in Tops)
  BY <1>1, SMT DEF Tops, Level1, Holder
<1>5. Kind[n] \in Level2 => (Parent[n] = None \/ Kind[Parent[n]] \in Level1)
  BY <1>1, SMT DEF Tops, Level1, Level2, Holder
<1>6. Parent[n] = None \/ Kind[Parent[n]] \in Level2
  BY <1>1, SMT DEF Tops, Level1, Level2, Holder, Kinds
<1>7. Kind[n] \in Level1 => Uses[n] = None
  BY <1>2 DEF Tops, Level1
<1>8. Uses[n] = None \/ Kind[Uses[n]] \in Level2
  BY <1>2 DEF Tops, Level1, Level2
<1>9. Kind[n] \in Level2 => (Uses[n] = None \/ Kind[Uses[n]] \in Level1)
  BY <1>2 DEF Tops, Level1, Level2
<1>10. Kind[n] \in Tops => Kind[n] \in Level1
  BY DEF Level1
<1> QED BY <1>3, <1>4, <1>5, <1>6, <1>7, <1>8, <1>9, <1>10

(* What is true of a part once it is true of the part that holds it and of *)
(* the part that it refers to, is true of all.                             *)
LEMMA ByLevels ==
  ASSUME NEW S, \A n \in Parts : Parent[n] \in S \cup {None} /\ Uses[n] \in S \cup {None} => n \in S
  PROVE  \A n \in Parts : n \in S
<1>0. \A n \in Parts : Parent[n] \in Parts \cup {None} /\ Uses[n] \in Parts \cup {None}
  BY Shape
<1>1. \A n \in Parts : Kind[n] \in Tops => n \in S
  BY Levels
<1>2. \A n \in Parts : Kind[n] \in Level1 => n \in S
  BY <1>0, <1>1, Levels
<1>3. \A n \in Parts : Kind[n] \in Level2 => n \in S
  BY <1>0, <1>2, Levels
<1> QED BY <1>0, <1>3, Levels

UpStep(f) == [n \in Parts |-> {n} \cup (IF Parent[n] = None THEN {} ELSE f[Parent[n]])]
NeedsStep(f) ==
  [n \in Parts |-> {n} \cup (IF Parent[n] = None THEN {} ELSE f[Parent[n]])
                       \cup (IF Uses[n] = None THEN {} ELSE f[Uses[n]])]

LEMMA UpDef == Up = UpStep(Up)
<1> DEFINE f0 == [n \in Parts |-> {n}]
           f1 == UpStep(f0)
           f2 == UpStep(f1)
           f3 == UpStep(f2)
<1>0. \A n \in Parts : Parent[n] \in Parts \cup {None} /\ Uses[n] \in Parts \cup {None}
  BY Shape
<1>1. ASSUME NEW f, NEW g, NEW n \in Parts, Parent[n] = None \/ f[Parent[n]] = g[Parent[n]]
      PROVE  UpStep(f)[n] = UpStep(g)[n]
  BY <1>1 DEF UpStep
<1>2. \A n \in Parts : Kind[n] \in Tops => f0[n] = f1[n]
  BY Levels DEF UpStep
<1> HIDE DEF f0
<1>3. \A n \in Parts : Kind[n] \in Level1 => f1[n] = f2[n]
  BY <1>0, <1>1, <1>2, Levels, SMT
<1>4. \A n \in Parts : Kind[n] \in Level2 => f2[n] = f3[n]
  BY <1>0, <1>1, <1>3, Levels, SMT
<1>5. \A n \in Parts : f3[n] = UpStep(f3)[n]
  BY <1>0, <1>1, <1>4, Levels, SMT
<1>6. f3 = UpStep(f3)
  BY <1>5 DEF UpStep
<1> HIDE DEF f3
<1>7. \E f : f = UpStep(f)
  BY <1>6
<1> QED BY <1>7 DEF Up, UpStep

LEMMA NeedsDef == Needs = NeedsStep(Needs)
<1> DEFINE f0 == [n \in Parts |-> {n}]
           f1 == NeedsStep(f0)
           f2 == NeedsStep(f1)
           f3 == NeedsStep(f2)
<1>0. \A n \in Parts : Parent[n] \in Parts \cup {None} /\ Uses[n] \in Parts \cup {None}
  BY Shape
<1>1. ASSUME NEW f, NEW g, NEW n \in Parts, Parent[n] = None \/ f[Parent[n]] = g[Parent[n]],
             Uses[n] = None \/ f[Uses[n]] = g[Uses[n]]
      PROVE  NeedsStep(f)[n] = NeedsStep(g)[n]
  BY <1>1 DEF NeedsStep
<1>2. \A n \in Parts : Kind[n] \in Tops => f0[n] = f1[n]
  BY Levels DEF NeedsStep
<1> HIDE DEF f0
<1>3. ASSUME NEW n \in Parts, Kind[n] \in Level1 PROVE f1[n] = f2[n]
  <2>1. Parent[n] = None \/ f0[Parent[n]] = f1[Parent[n]]
    BY <1>0, <1>2, <1>3, Levels
  <2>2. Uses[n] = None
    BY <1>3, Levels
  <2> QED BY <1>1, <2>1, <2>2
<1>4. ASSUME NEW n \in Parts, Kind[n] \in Level2 PROVE f2[n] = f3[n]
  <2> HIDE DEF f1
  <2>1. Parent[n] = None \/ f1[Parent[n]] = f2[Parent[n]]
    BY <1>0, <1>3, <1>4, Levels
  <2>2. Uses[n] = None \/ f1[Uses[n]] = f2[Uses[n]]
    BY <1>0, <1>3, <1>4, Levels
  <2> QED BY <1>1, <2>1, <2>2
<1>5. ASSUME NEW n \in Parts PROVE f3[n] = NeedsStep(f3)[n]
  <2> HIDE DEF f2
  <2>1. Parent[n] = None \/ f2[Parent[n]] = f3[Parent[n]]
    BY <1>0, <1>4, Levels
  <2>2. Uses[n] = None \/ f2[Uses[n]] = f3[Uses[n]]
    BY <1>0, <1>4, Levels
  <2> QED BY <1>1, <2>1, <2>2
<1>6. f3 = NeedsStep(f3)
  <2>1. \A f : NeedsStep(f) = [n \in Parts |-> NeedsStep(f)[n]]
    BY DEF NeedsStep
  <2> HIDE DEF f2
  <2>2. f3 = [n \in Parts |-> f3[n]] /\ NeedsStep(f3) = [n \in Parts |-> NeedsStep(f3)[n]]
    BY <2>1
  <2> HIDE DEF f3
  <2> QED BY <1>5, <2>2
<1> HIDE DEF f3
<1>7. \E f : f = NeedsStep(f)
  BY <1>6
<1> QED BY <1>7 DEF Needs, NeedsStep

LEMMA UpOf ==
  ASSUME NEW n \in Parts
  PROVE  /\ n \in Up[n]
         /\ Parent[n] = None => Up[n] = {n}
         /\ Parent[n] # None => Up[n] = {n} \cup Up[Parent[n]]
BY UpDef DEF UpStep

LEMMA NeedsOf ==
  ASSUME NEW n \in Parts
  PROVE  /\ n \in Needs[n]
         /\ Parent[n] # None => Needs[Parent[n]] \subseteq Needs[n]
         /\ Uses[n] # None => Needs[Uses[n]] \subseteq Needs[n]
         /\ \A m \in Needs[n] : \/ m = n
                                \/ Parent[n] # None /\ m \in Needs[Parent[n]]
                                \/ Uses[n] # None /\ m \in Needs[Uses[n]]
<1>1. Needs[n] = NeedsStep(Needs)[n]
  BY NeedsDef
<1>2. Needs[n] = {n} \cup (IF Parent[n] = None THEN {} ELSE Needs[Parent[n]])
                      \cup (IF Uses[n] = None THEN {} ELSE Needs[Uses[n]])
  BY <1>1 DEF NeedsStep
<1> HIDE DEF Needs
<1> QED BY <1>2

(* What the part a needs needs, a needs. *)
LEMMA NeedsTransitive ==
  \A n \in Parts : Needs[n] \subseteq Parts /\ \A m \in Needs[n] : Needs[m] \subseteq Needs[n]
<1> DEFINE S == {n \in Parts : Needs[n] \subseteq Parts /\ \A m \in Needs[n] : Needs[m] \subseteq Needs[n]}
<1>1. ASSUME NEW n \in Parts, Parent[n] \in S \cup {None}, Uses[n] \in S \cup {None}
      PROVE  n \in S
  <2>1. Needs[n] \subseteq Parts
    BY <1>1, NeedsOf
  <2>2. ASSUME NEW m \in Needs[n] PROVE Needs[m] \subseteq Needs[n]
    BY <1>1, <2>2, NeedsOf
  <2> QED BY <2>1, <2>2
<1> HIDE DEF S
<1>2. \A n \in Parts : n \in S
  BY <1>1, ByLevels
<1> QED BY <1>2 DEF S

LEMMA UpTransitive ==
  \A n \in Parts : /\ Up[n] \subseteq Parts /\ Up[n] \subseteq Needs[n]
                   /\ \A m \in Up[n] : Up[m] \subseteq Up[n]
<1> DEFINE S == {n \in Parts : /\ Up[n] \subseteq Parts /\ Up[n] \subseteq Needs[n]
                               /\ \A m \in Up[n] : Up[m] \subseteq Up[n]}
<1>1. ASSUME NEW n \in Parts, Parent[n] \in S \cup {None}, Uses[n] \in S \cup {None}
      PROVE  n \in S
  <2>1. CASE Parent[n] = None
    BY <2>1, UpOf, NeedsOf, SMT
  <2>2. CASE Parent[n] # None
    BY <1>1, <2>2, UpOf, NeedsOf, SMT
  <2> QED BY <2>1, <2>2
<1> HIDE DEF S
<1>2. \A n \in Parts : n \in S
  BY <1>1, ByLevels
<1> QED BY <1>2 DEF S

(* From a part up: to the entry of the configuration that it is in, and    *)
(* through a part that the next one up holds.                              *)
LEMMA UpPath ==
  \A n \in Parts : /\ \E r \in Up[n] : Parent[r] = None
                   /\ \A m \in Up[n] : m # n => \E k \in Up[n] : Parent[k] = m
<1> DEFINE S == {n \in Parts : /\ \E r \in Up[n] : Parent[r] = None
                               /\ \A m \in Up[n] : m # n => \E k \in Up[n] : Parent[k] = m}
<1>1. ASSUME NEW n \in Parts, Parent[n] \in S \cup {None}, Uses[n] \in S \cup {None}
      PROVE  n \in S
  <2>1. CASE Parent[n] = None
    BY <2>1, UpOf
  <2>2. CASE Parent[n] # None
    <3>1. Parent[n] \in S /\ Up[n] = {n} \cup Up[Parent[n]]
      BY <1>1, <2>2, UpOf
    <3> QED BY <3>1
  <2> QED BY <2>1, <2>2
<1> HIDE DEF S
<1>2. \A n \in Parts : n \in S
  BY <1>1, ByLevels
<1> QED BY <1>2 DEF S

(* A configuration has with a part every part that holds it. *)
LEMMA UpInConfig ==
  ASSUME NEW c \in Configs
  PROVE  \A n \in c : Up[n] \subseteq c
<1> DEFINE S == {n \in Parts : n \in c => Up[n] \subseteq c}
<1>0. c \subseteq Parts /\ \A n \in c : Parent[n] \in c \cup {None}
  BY PartsAssumption
<1>1. ASSUME NEW n \in Parts, Parent[n] \in S \cup {None}, Uses[n] \in S \cup {None}
      PROVE  n \in S
  <2>1. CASE Parent[n] = None
    BY <2>1, UpOf, SMT
  <2>2. CASE Parent[n] # None
    BY <1>0, <1>1, <2>2, UpOf
  <2> QED BY <2>1, <2>2
<1> HIDE DEF S
<1>2. \A n \in Parts : n \in S
  BY <1>1, ByLevels
<1> QED BY <1>0, <1>2 DEF S

(* No part needs the discovery settings. *)
LEMMA NobodyNeedsDiscovery ==
  \A n \in Parts : \A m \in Needs[n] : Kind[m] = "fm" => m = n
<1> DEFINE S == {n \in Parts : \A m \in Needs[n] : Kind[m] = "fm" => m = n}
<1>1. ASSUME NEW n \in Parts, Parent[n] \in S \cup {None}, Uses[n] \in S \cup {None}
      PROVE  n \in S
  <2>1. Parent[n] # None => Kind[Parent[n]] # "fm"
    BY Shape, SMT DEF Holder, Kinds, Tops
  <2>2. Uses[n] # None => Kind[Uses[n]] # "fm"
    BY ShapeAssumption
  <2> QED BY <1>1, <2>1, <2>2, NeedsOf
<1> HIDE DEF S
<1>2. \A n \in Parts : n \in S
  BY <1>1, ByLevels
<1> QED BY <1>2 DEF S

(* A storage object and its ALUA groups are in no target. *)
LEMMA NoTargetAbove ==
  ASSUME NEW n \in Parts, Kind[n] \in {"so", "alua"}, NEW m \in Up[n]
  PROVE  Kind[m] # "target"
<1>1. CASE Kind[n] = "so"
  BY <1>1, Shape, UpOf, SMT DEF Tops
<1>2. CASE Kind[n] = "alua"
  <2>1. Parent[n] \in Parts /\ Kind[Parent[n]] = "so" /\ Parent[n] # None
    BY <1>2, Shape, SMT DEF Tops, Holder
  <2>2. Up[n] = {n} \cup Up[Parent[n]] /\ Up[Parent[n]] = {Parent[n]}
    BY <2>1, Shape, UpOf DEF Tops
  <2> QED BY <1>2, <2>1, <2>2
<1> QED BY <1>1, <1>2

(* A part needs no target but the one that it is in. *)
LEMMA OwnTarget ==
  \A n \in Parts : \A m \in Needs[n] : Kind[m] = "target" => m \in Up[n]
<1> DEFINE S == {n \in Parts : \A m \in Needs[n] : Kind[m] = "target" => m \in Up[n]}
<1>1. ASSUME NEW n \in Parts, Parent[n] \in S \cup {None}, Uses[n] \in S \cup {None}
      PROVE  n \in S
  <2> SUFFICES ASSUME NEW m \in Needs[n], Kind[m] = "target" PROVE m \in Up[n]
    OBVIOUS
  <2>1. CASE m = n
    BY <2>1, UpOf
  <2>2. CASE Parent[n] # None /\ m \in Needs[Parent[n]]
    BY <1>1, <2>2, UpOf
  <2>3. CASE Uses[n] # None /\ m \in Needs[Uses[n]]
    <3>1. Uses[n] \in Parts /\ m \in Up[Uses[n]]
      BY <1>1, <2>3
    <3>2. Kind[Uses[n]] \notin {"so", "alua"}
      BY <3>1, NoTargetAbove
    <3>3. Kind[n] = "mlun" /\ Kind[Uses[n]] = "lun" /\ Parent[Uses[n]] = Parent[Parent[n]]
      BY <2>3, <3>2, ShapeAssumption
    <3>4. Parent[n] \in Parts /\ Parent[n] # None /\ Parent[Uses[n]] # None /\ m # Uses[n]
      BY <3>1, <3>3, Shape DEF Tops
    <3>5. m \in Up[Parent[Uses[n]]]
      BY <3>1, <3>4, UpOf
    <3>6. Up[Parent[n]] \subseteq Up[n] /\ Up[Parent[Parent[n]]] \subseteq Up[Parent[n]]
      BY <3>3, <3>4, UpOf
    <3> QED BY <3>3, <3>5, <3>6
  <2> QED BY <2>1, <2>2, <2>3, NeedsOf
<1> HIDE DEF S
<1>2. \A n \in Parts : n \in S
  BY <1>1, ByLevels
<1> QED BY <1>2 DEF S

-----------------------------------------------------------------------------
(* The lists that are still to be worked through.                          *)

Lists == Seq((SUBSET Parts) \ {{}})

(* What is in the lists of s. *)
In(s) == {n \in Parts : \E i \in 1..Len(s) : n \in s[i]}

LEMMA EntriesOf ==
  ASSUME NEW f \in SUBSET Parts
  PROVE  Entries(f) \in Lists /\ In(Entries(f)) = f
<1>1. CASE f = {}
  BY <1>1, SMT DEF Entries, Lists, In
<1>2. CASE f # {}
  <2>1. PICK s : s = <<f>>
    OBVIOUS
  <2>2. Entries(f) = s /\ Len(s) = 1 /\ s[1] = f
    BY <1>2, <2>1 DEF Entries
  <2>3. s \in Lists
    <3>1. \A g \in (SUBSET Parts) \ {{}} : <<g>> \in Seq((SUBSET Parts) \ {{}})
      BY SMT
    <3>2. f \in (SUBSET Parts) \ {{}}
      BY <1>2
    <3> QED BY <2>1, <3>1, <3>2 DEF Lists
  <2>4. In(s) = f
    <3>1. \A n \in Parts : (\E i \in 1..1 : n \in s[i]) <=> n \in f
      BY <2>2, SMT
    <3> QED BY <2>2, <3>1 DEF In
  <2> QED BY <2>2, <2>3, <2>4
<1> QED BY <1>1, <1>2

LEMMA InConcat ==
  ASSUME NEW s \in Lists, NEW t \in Lists
  PROVE  s \o t \in Lists /\ In(s \o t) = In(s) \cup In(t)
<1>1. s \o t \in Lists
  BY SMT DEF Lists
<1>2. /\ Len(s \o t) = Len(s) + Len(t) /\ Len(s) \in Nat /\ Len(t) \in Nat
      /\ \A i \in 1..Len(s) + Len(t) : (s \o t)[i] = IF i <= Len(s) THEN s[i] ELSE t[i - Len(s)]
  BY SMT DEF Lists
<1>3. ASSUME NEW n \in In(s \o t) PROVE n \in In(s) \cup In(t)
  BY <1>2, SMT DEF In
<1>4. ASSUME NEW n \in In(s) PROVE n \in In(s \o t)
  BY <1>2, SMT DEF In
<1>5. ASSUME NEW n \in In(t) PROVE n \in In(s \o t)
  <2>1. PICK i \in 1..Len(t) : n \in t[i]
    BY DEF In
  <2>2. i + Len(s) \in 1..Len(s) + Len(t) /\ ~(i + Len(s) <= Len(s)) /\ (i + Len(s)) - Len(s) = i
    BY <1>2, <2>1, SMT
  <2>3. (s \o t)[i + Len(s)] = t[i]
    BY <1>2, <2>2
  <2> QED BY <1>2, <2>1, <2>2, <2>3 DEF In
<1> QED BY <1>1, <1>3, <1>4, <1>5

LEMMA InHeadTail ==
  ASSUME NEW s \in Lists, s # <<>>
  PROVE  /\ Head(s) \in SUBSET Parts /\ Head(s) # {} /\ Tail(s) \in Lists
         /\ In(s) = Head(s) \cup In(Tail(s))
<1>1. /\ Head(s) = s[1] /\ Tail(s) \in Lists /\ Len(s) \in Nat /\ Len(s) > 0
      /\ s[1] \in (SUBSET Parts) \ {{}}
      /\ Len(Tail(s)) = Len(s) - 1 /\ \A i \in 1..Len(s) - 1 : Tail(s)[i] = s[i + 1]
  BY SMT DEF Lists
<1>2. ASSUME NEW n \in In(s) PROVE n \in Head(s) \cup In(Tail(s))
  <2>1. PICK i \in 1..Len(s) : n \in s[i]
    BY DEF In
  <2>2. CASE i = 1
    BY <1>1, <2>1, <2>2
  <2>3. CASE i # 1
    <3>1. i - 1 \in 1..Len(s) - 1 /\ (i - 1) + 1 = i
      BY <1>1, <2>1, <2>3, SMT
    <3>2. n \in Tail(s)[i - 1] /\ i - 1 \in 1..Len(Tail(s)) /\ n \in Parts
      BY <1>1, <2>1, <3>1 DEF In
    <3> QED BY <3>2 DEF In
  <2> QED BY <2>2, <2>3
<1>3. ASSUME NEW n \in Head(s) \cup In(Tail(s)) PROVE n \in In(s)
  BY <1>1, <1>3, SMT DEF In
<1>4. In(s) = Head(s) \cup In(Tail(s))
  BY <1>2, <1>3
<1> QED BY <1>1, <1>4

LEMMA InNothing == In(<<>>) = {} /\ <<>> \in Lists
BY SMT DEF In, Lists

-----------------------------------------------------------------------------
(* What is true at every step.                                             *)

(* A storage object, target or discovery settings that a call for one      *)
(* target or one storage object is about, and what depends on it.          *)
ScopeTop(n) ==
  \/ Kind[n] = "fm"
  \/ Kind[n] = "target" /\ n = args.target
  \/ Kind[n] = "so" /\ Name[n] = args.so
InScope(n) ==
  \/ Kind[n] = "fm"
  \/ args.target \in Up[n]
  \/ \E s \in Of("so") : Name[s] = args.so /\ s \in Needs[n]

CallInv ==
  /\ TypeOK
  /\ phase = "idle" => args = None
  /\ phase # "idle" => args \in Args
  /\ phase \notin {"clear", "setup"} => stack = <<>>

(* clear_existing has yet to reach an entry of every part that is there. *)
ClearInv ==
  phase = "clear" =>
    /\ args.clear /\ errors = {} /\ failed = {}
    /\ \A n \in In(stack) : Kind[n] \in Tops /\ (~Unscoped => ScopeTop(n))
    /\ Unscoped => \A n \in tree : \E r \in In(stack) : r \in Up[n]

(* What setup() has yet to visit is of the configuration, and its          *)
(* dictionary's part is there.  A part that is wanted and not there will   *)
(* be visited, or an entry that it is in will be, or it is accounted for.  *)
Pending(n) == \E m \in Up[n] : m \in In(stack)
Accounted(n) == Dropped(n) \/ Lost(n) \/ Needs[n] \cap errors # {}
SetupInv ==
  phase \in {"setup", "returned"} =>
    /\ \A n \in In(stack) : /\ n \in args.config /\ Parent[n] \in tree \cup {None}
                            /\ ~Unscoped => InScope(n)
    /\ \A n \in Wanted \ tree : Pending(n) \/ Accounted(n)
    /\ args.abort => errors = {}
    /\ args.clear /\ Unscoped => tree \subseteq args.config

UntouchedInv ==
  phase # "idle" /\ ~args.clear =>
    /\ phase # "clear" /\ before \subseteq tree /\ tree \ before \subseteq args.config
    /\ tree # before => \A n \in args.config \cap before : Kind[n] \notin {"so", "target"}
    /\ phase = "setup" => \A n \in args.config \cap before : Kind[n] \notin {"so", "target"}

ScopeInv ==
  phase # "idle" /\ ~Unscoped =>
    \A n \in (tree \ before) \cup (before \ tree) : InScope(n)

RestoreInv == CallInv /\ TreeClosed /\ ClearInv /\ SetupInv /\ UntouchedInv /\ ScopeInv

-----------------------------------------------------------------------------
(* Lemmas about the operators of the steps.                                *)

LEMMA ArgsFields ==
  ASSUME NEW a \in Args
  PROVE  /\ a.config \in Configs /\ a.config \subseteq Parts
         /\ a.target \in Of("target") \cup {None} /\ a.clear \in BOOLEAN /\ a.abort \in BOOLEAN
BY PartsAssumption DEF Args

LEMMA SelectedOf ==
  ASSUME NEW S, NEW a, NEW f \in Selected(S, a)
  PROVE  /\ f \subseteq S
         /\ a.so = None /\ a.target = None => f = S
         /\ ~(a.so = None /\ a.target = None) =>
              \A n \in f : IF Kind[n] = "so" THEN Name[n] = a.so ELSE n = a.target
<1>1. CASE a.so = None /\ a.target = None
  BY <1>1 DEF Selected
<1>2. CASE ~(a.so = None /\ a.target = None)
  <2> DEFINE m == {n \in S : IF Kind[n] = "so" THEN Name[n] = a.so ELSE n = a.target}
  <2>1. f \subseteq S /\ (IF m = {} THEN f = {} ELSE \E n \in m : f = {n})
    BY <1>2 DEF Selected
  <2>2. f \subseteq m
    BY <2>1
  <2> QED BY <1>2, <2>1, <2>2
<1> QED BY <1>1, <1>2

(* The only one that is asked for is taken. *)
LEMMA SelectedOnly ==
  ASSUME NEW S, NEW a, NEW f \in Selected(S, a), ~(a.so = None /\ a.target = None), NEW n \in S,
         \A q \in S : (IF Kind[q] = "so" THEN Name[q] = a.so ELSE q = a.target) <=> q = n
  PROVE  n \in f
<1> DEFINE m == {q \in S : IF Kind[q] = "so" THEN Name[q] = a.so ELSE q = a.target}
<1>1. m = {n}
  OBVIOUS
<1>2. IF m = {} THEN f = {} ELSE \E q \in m : f = {q}
  BY DEF Selected
<1> HIDE DEF m
<1> QED BY <1>1, <1>2

LEMMA ThreeLists ==
  ASSUME NEW f \in SUBSET Parts, NEW g \in SUBSET Parts, NEW h \in SUBSET Parts
  PROVE  /\ Entries(f) \o Entries(g) \o Entries(h) \in Lists
         /\ In(Entries(f) \o Entries(g) \o Entries(h)) = f \cup g \cup h
<1>1. /\ Entries(f) \in Lists /\ Entries(g) \in Lists /\ Entries(h) \in Lists
      /\ In(Entries(f)) = f /\ In(Entries(g)) = g /\ In(Entries(h)) = h
  BY EntriesOf
<1>2. Entries(f) \o Entries(g) \in Lists /\ In(Entries(f) \o Entries(g)) = f \cup g
  BY <1>1, InConcat, SMT
<1> QED BY <1>1, <1>2, InConcat

LEMMA RestOf ==
  ASSUME CallInv, stack # <<>>, NEW n \in Head(stack)
  PROVE  /\ n \in In(stack) /\ Rest(n) \in Lists
         /\ In(Rest(n)) \subseteq In(stack) /\ In(stack) \subseteq In(Rest(n)) \cup {n}
<1>1. stack \in Lists
  BY DEF CallInv, TypeOK, Lists
<1>2. /\ Head(stack) \in SUBSET Parts /\ Tail(stack) \in Lists
      /\ In(stack) = Head(stack) \cup In(Tail(stack))
  BY <1>1, InHeadTail
<1>3. Head(stack) \ {n} \in SUBSET Parts
  BY <1>2
<1>4. Entries(Head(stack) \ {n}) \in Lists /\ In(Entries(Head(stack) \ {n})) = Head(stack) \ {n}
  BY <1>3, EntriesOf
<1>5. Rest(n) \in Lists /\ In(Rest(n)) = (Head(stack) \ {n}) \cup In(Tail(stack))
  BY <1>2, <1>4, InConcat DEF Rest
<1> QED BY <1>2, <1>5

LEMMA ListOf ==
  ASSUME CallInv, phase # "idle", NEW n, NEW kinds
  PROVE  /\ List(n, kinds) \in Lists
         /\ In(List(n, kinds)) = {m \in args.config : Parent[m] = n /\ Kind[m] \in kinds}
<1>1. {m \in args.config : Parent[m] = n /\ Kind[m] \in kinds} \in SUBSET Parts
  BY ArgsFields DEF CallInv
<1> QED BY <1>1, EntriesOf DEF List

(* The lists of a part's dictionary have all that it holds. *)
LEMMA InnerOf ==
  ASSUME CallInv, phase # "idle", NEW n \in Parts
  PROVE  Inner(n) \in Lists /\ In(Inner(n)) = {m \in args.config : Parent[m] = n}
<1> DEFINE L(k) == {m \in args.config : Parent[m] = n /\ Kind[m] \in k}
           All == {m \in args.config : Parent[m] = n}
<1>0. args.config \subseteq Parts
  BY ArgsFields DEF CallInv
<1>1. \A k : List(n, k) \in Lists /\ In(List(n, k)) = L(k)
  BY ListOf
<1>2. \A m \in All : m \in args.config /\ Parent[m] = n /\ Kind[m] \in Kinds
                    /\ Kind[m] \notin Tops /\ Kind[n] = Holder[Kind[m]]
  BY <1>0, Shape, PartsAssumption
<1> HIDE DEF L
<1>3. CASE Kind[n] = "so"
  <2>1. Inner(n) = List(n, {"soattr"}) \o List(n, {"alua"})
    BY <1>3 DEF Inner
  <2>2. Inner(n) \in Lists /\ In(Inner(n)) = L({"soattr"}) \cup L({"alua"})
    BY <1>1, <2>1, InConcat, SMT
  <2>3. \A m \in All : Kind[m] \in {"soattr", "alua"}
    BY <1>2, <1>3, SMT DEF Holder, Kinds, Tops
  <2> QED BY <2>2, <2>3 DEF L
<1>4. CASE Kind[n] = "alua"
  <2>1. Inner(n) = List(n, {"aluavalues"})
    BY <1>4 DEF Inner
  <2>2. \A m \in All : Kind[m] = "aluavalues"
    BY <1>2, <1>4, SMT DEF Holder, Kinds, Tops
  <2> QED BY <1>1, <2>1, <2>2 DEF L
<1>5. CASE Kind[n] = "target"
  <2>1. Inner(n) = List(n, {"tpg"})
    BY <1>5 DEF Inner
  <2>2. \A m \in All : Kind[m] = "tpg"
    BY <1>2, <1>5, SMT DEF Holder, Kinds, Tops
  <2> QED BY <1>1, <2>1, <2>2 DEF L
<1>6. CASE Kind[n] = "tpg"
  <2> DEFINE s3 == List(n, {"tpgattr"}) \o List(n, {"lun"}) \o List(n, {"portal"})
             s5 == s3 \o List(n, {"acl"}) \o List(n, {"enable"})
  <2>1. Inner(n) = s5 \o List(n, {"tpgvalues"})
    BY <1>6 DEF Inner
  <2>2. List(n, {"tpgattr"}) \o List(n, {"lun"}) \in Lists /\ In(List(n, {"tpgattr"}) \o List(n, {"lun"})) = L({"tpgattr"}) \cup L({"lun"})
    BY <1>1, InConcat, SMT
  <2>3. s3 \in Lists /\ In(s3) = L({"tpgattr"}) \cup L({"lun"}) \cup L({"portal"})
    BY <1>1, <2>2, InConcat
  <2> HIDE DEF s3
  <2>4. s3 \o List(n, {"acl"}) \in Lists
        /\ In(s3 \o List(n, {"acl"})) = L({"tpgattr"}) \cup L({"lun"}) \cup L({"portal"}) \cup L({"acl"})
    BY <1>1, <2>3, InConcat
  <2>5. s5 \in Lists
        /\ In(s5) = L({"tpgattr"}) \cup L({"lun"}) \cup L({"portal"}) \cup L({"acl"}) \cup L({"enable"})
    BY <1>1, <2>4, InConcat
  <2> HIDE DEF s5
  <2>6. Inner(n) \in Lists
        /\ In(Inner(n)) = L({"tpgattr"}) \cup L({"lun"}) \cup L({"portal"}) \cup L({"acl"}) \cup L({"enable"}) \cup L({"tpgvalues"})
    BY <1>1, <2>1, <2>5, InConcat
  <2>7. \A m \in All : Kind[m] \in {"tpgattr", "lun", "portal", "acl", "enable", "tpgvalues"}
    BY <1>2, <1>6, SMT DEF Holder, Kinds, Tops
  <2> QED BY <2>6, <2>7 DEF L
<1>7. CASE Kind[n] = "lun"
  <2>1. Inner(n) = List(n, {"member"})
    BY <1>7 DEF Inner
  <2>2. \A m \in All : Kind[m] = "member"
    BY <1>2, <1>7, SMT DEF Holder, Kinds, Tops
  <2> QED BY <1>1, <2>1, <2>2 DEF L
<1>8. CASE Kind[n] = "acl"
  <2>1. Inner(n) = List(n, {"aclattr"}) \o List(n, {"mlun"}) \o List(n, {"acltag", "aclvalues"})
    BY <1>8 DEF Inner
  <2>2. List(n, {"aclattr"}) \o List(n, {"mlun"}) \in Lists /\ In(List(n, {"aclattr"}) \o List(n, {"mlun"})) = L({"aclattr"}) \cup L({"mlun"})
    BY <1>1, InConcat, SMT
  <2>3. Inner(n) \in Lists /\ In(Inner(n)) = L({"aclattr"}) \cup L({"mlun"}) \cup L({"acltag", "aclvalues"})
    BY <1>1, <2>1, <2>2, InConcat
  <2>4. \A m \in All : Kind[m] \in {"aclattr", "mlun", "acltag", "aclvalues"}
    BY <1>2, <1>8, SMT DEF Holder, Kinds, Tops
  <2> QED BY <2>3, <2>4 DEF L
<1>9. CASE Kind[n] \notin {"so", "alua", "target", "tpg", "lun", "acl"}
  <2>1. Inner(n) = <<>>
    BY <1>9 DEF Inner
  <2>2. All = {}
    BY <1>2, <1>9, SMT DEF Holder, Kinds, Tops
  <2> QED BY <2>1, <2>2, InNothing
<1> QED BY <1>3, <1>4, <1>5, <1>6, <1>7, <1>8, <1>9

(* The ways in which the visit of a part can end. *)
LEMMA SetupEnds ==
  ASSUME NEW n \in Parts, Setup(n)
  PROVE  /\ phase = "setup" /\ stack # <<>> /\ n \in Head(stack)
         /\ \/ Done(n) /\ (Uses[n] # None => Uses[n] \in tree)
            \/ Report(n) /\ tree' = tree
            \/ Report(n) /\ tree' = tree \cup {n} /\ Uses[n] = None
            \/ PassOver(n) /\ Needs[n] \cap PassedOver # {}
            \/ Lose(n) /\ Kind[n] \in {"member", "acltag", "tpgvalues"}
            \/ Raise(n) /\ errors' \in {errors, errors \cup {n}}
<1>1. Reaches(n)
  BY DEF Setup
<1>2. Kind[n] \notin {"lun", "member", "mlun"} => Uses[n] = None
  BY ShapeAssumption
<1>3. CASE SetupStorageObject(n)
  BY <1>1, <1>2, <1>3 DEF Reaches, SetupStorageObject, Skip
<1>4. CASE SetAttributes(n) \/ SetupFabricModule(n) \/ SetTPGValues(n) \/ SetupTarget(n) \/ SetupACL(n)
  BY <1>1, <1>2, <1>4 DEF Reaches, SetAttributes, SetupFabricModule, SetTPGValues, SetupTarget, SetupACL, Skip
<1>5. CASE SetupALUA(n) \/ SetALUAValues(n) \/ SetupTPG(n) \/ SetACLValues(n) \/ SetACLTag(n)
  <2>1. n \in PassedOver => Needs[n] \cap PassedOver # {}
    BY NeedsOf
  <2> QED
    BY <1>1, <1>2, <1>5, <2>1
       DEF Reaches, SetupALUA, NewALUA, SetALUAValues, SetupTPG, SetACLValues, SetACLTag
<1>6. CASE SetupLUN(n)
  BY <1>1, <1>6 DEF Reaches, SetupLUN, Skip
<1>7. CASE SetMember(n)
  <2>1. Uses[n] \in PassedOver => Uses[n] # None /\ Uses[n] \in Needs[n]
    BY NeedsOf, Shape, PartsAssumption
  <2>2. Uses[n] \in PassedOver => Needs[n] \cap PassedOver # {}
    BY <2>1
  <2> QED BY <1>1, <1>7, <2>2 DEF Reaches, SetMember
<1>8. CASE SetupPortal(n)
  BY <1>1, <1>2, <1>8 DEF Reaches, SetupPortal, Skip
<1>9. CASE SetupMappedLUN(n)
  BY <1>1, <1>9 DEF Reaches, SetupMappedLUN, Skip
<1> QED BY <1>3, <1>4, <1>5, <1>6, <1>7, <1>8, <1>9 DEF Setup

-----------------------------------------------------------------------------
(* The start of a call.                                                    *)

Whole(a) == a.target = None /\ a.so = None
Top(a, n) ==
  \/ Kind[n] = "fm"
  \/ Kind[n] = "target" /\ n = a.target
  \/ Kind[n] = "so" /\ Name[n] = a.so

(* The targets and storage objects that are selected. *)
LEMMA SelectedTops ==
  ASSUME NEW S \in SUBSET Parts, NEW a \in Args,
         NEW ts \in Selected(Of("target") \cap S, a), NEW ss \in Selected(Of("so") \cap S, a)
  PROVE  /\ ts \in SUBSET Parts /\ ss \in SUBSET Parts /\ Of("fm") \cap S \in SUBSET Parts
         /\ \A n \in ts \cup (Of("fm") \cap S) \cup ss :
              n \in S /\ Kind[n] \in Tops /\ (~Whole(a) => Top(a, n))
         /\ Whole(a) => \A n \in S : Kind[n] \in Tops => n \in ts \cup (Of("fm") \cap S) \cup ss
<1>1. ts \subseteq Of("target") \cap S /\ ss \subseteq Of("so") \cap S
  BY SelectedOf
<1>2. Whole(a) => ts = Of("target") \cap S /\ ss = Of("so") \cap S
  BY SelectedOf DEF Whole
<1>3. ASSUME ~Whole(a), NEW n \in ts PROVE Kind[n] = "target" /\ n = a.target
  BY <1>1, <1>3, SelectedOf, SMT DEF Whole, Of
<1>4. ASSUME ~Whole(a), NEW n \in ss PROVE Kind[n] = "so" /\ Name[n] = a.so
  BY <1>1, <1>4, SelectedOf, SMT DEF Whole, Of
<1>5. \A n \in ts \cup (Of("fm") \cap S) \cup ss : n \in S /\ Kind[n] \in Tops
  BY <1>1 DEF Of, Tops
<1>6. ASSUME ~Whole(a), NEW n \in ts \cup (Of("fm") \cap S) \cup ss PROVE Top(a, n)
  BY <1>3, <1>4, <1>6 DEF Top, Of
<1>7. Whole(a) => \A n \in S : Kind[n] \in Tops => n \in ts \cup (Of("fm") \cap S) \cup ss
  BY <1>2 DEF Of, Tops
<1>8. ts \in SUBSET Parts /\ ss \in SUBSET Parts /\ Of("fm") \cap S \in SUBSET Parts
  BY <1>1
<1> QED BY <1>5, <1>6, <1>7, <1>8

LEMMA ClearListsOf ==
  ASSUME tree \in SUBSET Parts, NEW a \in Args, NEW s, ClearLists(a), s = stack'
  PROVE  /\ s \in Lists
         /\ \A n \in In(s) : Kind[n] \in Tops /\ (~Whole(a) => Top(a, n))
         /\ Whole(a) => \A n \in tree : Kind[n] \in Tops => n \in In(s)
<1>1. PICK ts \in Selected(Of("target") \cap tree, a), ss \in Selected(Of("so") \cap tree, a) :
        s = Entries(ts) \o Entries(Of("fm") \cap tree) \o Entries(ss)
  BY DEF ClearLists
<1>2. /\ ts \in SUBSET Parts /\ ss \in SUBSET Parts /\ Of("fm") \cap tree \in SUBSET Parts
      /\ \A n \in ts \cup (Of("fm") \cap tree) \cup ss :
           n \in tree /\ Kind[n] \in Tops /\ (~Whole(a) => Top(a, n))
      /\ Whole(a) => \A n \in tree : Kind[n] \in Tops => n \in ts \cup (Of("fm") \cap tree) \cup ss
  BY <1>1, SelectedTops
<1>3. s \in Lists /\ In(s) = ts \cup (Of("fm") \cap tree) \cup ss
  BY <1>1, <1>2, ThreeLists, SMT
<1> QED BY <1>2, <1>3

(* The entries that are asked for are in the lists. *)
WantedTopOf(a, r) ==
  \/ Whole(a)
  \/ Kind[r] = "fm"
  \/ r = a.target
  \/ /\ Kind[r] = "so" /\ Name[r] = a.so
     /\ \A q \in Of("so") \cap a.config : Name[q] = Name[r] => q = r

LEMMA SetupListsOf ==
  ASSUME NEW a \in Args, NEW s, SetupLists(a), s = stack'
  PROVE  /\ s \in Lists
         /\ \A n \in In(s) : n \in a.config /\ Kind[n] \in Tops /\ (~Whole(a) => Top(a, n))
         /\ \A r \in a.config : Kind[r] \in Tops /\ WantedTopOf(a, r) => r \in In(s)
<1>0. a.config \in SUBSET Parts /\ a.target \in Of("target") \cup {None}
  BY ArgsFields
<1>1. PICK ts \in Selected(Of("target") \cap a.config, a), ss \in Selected(Of("so") \cap a.config, a) :
        s = Entries(ss) \o Entries(Of("fm") \cap a.config) \o Entries(ts)
  BY DEF SetupLists
<1>2. /\ ts \in SUBSET Parts /\ ss \in SUBSET Parts /\ Of("fm") \cap a.config \in SUBSET Parts
      /\ \A n \in ts \cup (Of("fm") \cap a.config) \cup ss :
           n \in a.config /\ Kind[n] \in Tops /\ (~Whole(a) => Top(a, n))
      /\ Whole(a) => \A n \in a.config : Kind[n] \in Tops => n \in ts \cup (Of("fm") \cap a.config) \cup ss
  BY <1>0, <1>1, SelectedTops
<1>3. s \in Lists /\ In(s) = ss \cup (Of("fm") \cap a.config) \cup ts
  BY <1>1, <1>2, ThreeLists, SMT
<1>4. ASSUME NEW r \in a.config, Kind[r] \in Tops, WantedTopOf(a, r), ~Whole(a)
      PROVE  r \in In(s)
  <2>1. CASE Kind[r] = "fm"
    BY <1>0, <1>3, <2>1 DEF Of
  <2>2. CASE r = a.target
    <3>1. r \in Of("target") \cap a.config
      BY <1>0, <2>2, Shape DEF Of
    <3>2. \A q \in Of("target") \cap a.config :
            (IF Kind[q] = "so" THEN Name[q] = a.so ELSE q = a.target) <=> q = r
      BY <2>2 DEF Of
    <3>3. r \in ts
      BY <1>1, <1>4, <3>1, <3>2, SelectedOnly, SMT DEF Whole
    <3> QED BY <1>3, <3>3
  <2>3. CASE /\ Kind[r] = "so" /\ Name[r] = a.so
             /\ \A q \in Of("so") \cap a.config : Name[q] = Name[r] => q = r
    <3>1. r \in Of("so") \cap a.config
      BY <1>0, <2>3 DEF Of
    <3>2. \A q \in Of("so") \cap a.config :
            (IF Kind[q] = "so" THEN Name[q] = a.so ELSE q = a.target) <=> q = r
      BY <2>3 DEF Of
    <3>3. r \in ss
      BY <1>1, <1>4, <3>1, <3>2, SelectedOnly, SMT DEF Whole
    <3> QED BY <1>3, <3>3
  <2> QED BY <1>4, <2>1, <2>2, <2>3 DEF WantedTopOf
<1>5. \A n \in In(s) : n \in a.config /\ Kind[n] \in Tops /\ (~Whole(a) => Top(a, n))
  BY <1>2, <1>3
<1>6. Whole(a) => \A n \in a.config : Kind[n] \in Tops => n \in In(s)
  BY <1>2, <1>3
<1> QED BY <1>3, <1>4, <1>5, <1>6


(* The arguments of the call decide what is asked for. *)
LEMMA ScopeOfArgs ==
  ASSUME NEW a \in Args, args' = a
  PROVE  /\ Unscoped' <=> Whole(a)
         /\ \A n : ScopeTop(n)' <=> Top(a, n)
         /\ \A r : WantedTop(r)' <=> WantedTopOf(a, r)
<1>1. Unscoped' <=> Whole(a)
  BY DEF Unscoped, Whole
<1> QED BY <1>1 DEF ScopeTop, Top, WantedTop, WantedTopOf

LEMMA ScopeSame ==
  ASSUME UNCHANGED args
  PROVE  /\ Unscoped' <=> Unscoped
         /\ Wanted' = Wanted
         /\ \A n : (ScopeTop(n)' <=> ScopeTop(n)) /\ (InScope(n)' <=> InScope(n))
BY DEF Unscoped, Wanted, WantedTop, ScopeTop, InScope

(* What depends on what a call is about is in its scope. *)
LEMMA ScopeDependents ==
  ASSUME NEW n \in Parts, ScopeTop(n), NEW m \in Parts, n \in Needs[m]
  PROVE  InScope(m)
<1>1. CASE Kind[n] = "fm"
  BY <1>1, NobodyNeedsDiscovery DEF InScope
<1>2. CASE Kind[n] = "target" /\ n = args.target
  BY <1>2, OwnTarget DEF InScope
<1>3. CASE Kind[n] = "so" /\ Name[n] = args.so
  BY <1>3 DEF InScope, Of
<1> QED BY <1>1, <1>2, <1>3 DEF ScopeTop

(* What a part holds is in the scope when the part is. *)
LEMMA ScopeInner ==
  ASSUME NEW n \in Parts, InScope(n), NEW m \in Parts, Parent[m] = n
  PROVE  InScope(m)
<1>1. n # None /\ Kind[n] = Holder[Kind[m]] /\ Kind[m] \in Kinds \ Tops
  BY Shape
<1>2. Kind[n] # "fm"
  BY <1>1, SMT DEF Holder, Kinds, Tops
<1>3. Up[n] \subseteq Up[m] /\ Needs[n] \subseteq Needs[m]
  BY <1>1, UpOf, NeedsOf
<1> QED BY <1>2, <1>3 DEF InScope

(* A part that is there is in an entry that is there. *)
LEMMA EntryInTree ==
  ASSUME tree \in SUBSET Parts, TreeClosed, NEW n \in tree
  PROVE  \E r \in tree : r \in Up[n] /\ Kind[r] \in Tops
<1>1. PICK r \in Up[n] : Parent[r] = None
  BY UpPath
<1>2. r \in Parts /\ r \in Needs[n]
  BY UpTransitive
<1> QED BY <1>1, <1>2, Shape DEF TreeClosed

-----------------------------------------------------------------------------
(* Every step preserves the invariant.                                     *)

(* The lists that setup() starts with have an entry for everything that is *)
(* asked for.                                                              *)
LEMMA SetupStarts ==
  ASSUME NEW a \in Args, args' = a, SetupLists(a)
  PROVE  /\ stack' \in Lists
         /\ \A n \in In(stack') : n \in a.config /\ Parent[n] = None /\ (~Unscoped' => InScope(n)')
         /\ \A n \in Wanted' : Pending(n)'
<1>0. PICK s : s = stack'
  OBVIOUS
<1>1. /\ s \in Lists
      /\ \A n \in In(s) : n \in a.config /\ Kind[n] \in Tops /\ (~Whole(a) => Top(a, n))
      /\ \A r \in a.config : Kind[r] \in Tops /\ WantedTopOf(a, r) => r \in In(s)
  BY <1>0, SetupListsOf
<1>2. a.config \in Configs /\ a.config \subseteq Parts
  BY ArgsFields
<1>3. /\ Unscoped' <=> Whole(a)
      /\ \A n : ScopeTop(n)' <=> Top(a, n)
      /\ \A r : WantedTop(r)' <=> WantedTopOf(a, r)
  BY ScopeOfArgs
<1>4. ASSUME NEW n \in In(s) PROVE n \in a.config /\ Parent[n] = None /\ (~Unscoped' => InScope(n)')
  <2>1. n \in Parts /\ n \in Up[n] /\ n \in Needs[n] /\ Parent[n] = None
    BY <1>1, <1>2, <1>4, Shape, UpOf, NeedsOf
  <2>2. ~Unscoped' => Top(a, n)
    BY <1>1, <1>3, <1>4
  <2>3. Top(a, n) => InScope(n)'
    BY <2>1 DEF Top, InScope, Of
  <2> QED BY <1>1, <1>4, <2>1, <2>2, <2>3
<1>5. ASSUME NEW n \in Wanted' PROVE Pending(n)'
  <2>1. n \in a.config /\ \E r \in Up[n] : Parent[r] = None /\ WantedTop(r)'
    BY <1>5 DEF Wanted
  <2>2. PICK r \in Up[n] : Parent[r] = None /\ WantedTop(r)'
    BY <2>1
  <2>3. r \in a.config /\ r \in Parts /\ Kind[r] \in Tops
    BY <1>2, <2>1, <2>2, UpInConfig, Shape
  <2>4. r \in In(s)
    BY <1>1, <1>3, <2>2, <2>3
  <2> QED BY <1>0, <2>4 DEF Pending
<1> QED BY <1>0, <1>1, <1>4, <1>5

LEMMA CallStep ==
  ASSUME RestoreInv, NEW a \in Args, Call(a)
  PROVE  RestoreInv'
<1>1. /\ tree \in SUBSET Parts /\ TreeClosed /\ calls \in 0..MaxCalls
  BY DEF RestoreInv, CallInv, TypeOK
<1>2. /\ tree' = tree /\ args' = a /\ before' = tree /\ errors' = {} /\ failed' = {}
      /\ calls < MaxCalls /\ calls' = calls + 1
  BY DEF Call
<1>3. \/ a.clear /\ phase' = "clear" /\ ClearLists(a)
      \/ ~a.clear /\ Exists(a) /\ phase' = "refused" /\ stack' = <<>>
      \/ ~a.clear /\ ~Exists(a) /\ phase' = "setup" /\ SetupLists(a)
  BY DEF Call
<1>4. calls' \in 0..MaxCalls
  BY <1>1, <1>2, BoundsAssumption, SMT
<1>5. stack' \in Lists
  BY <1>1, <1>3, <1>2, ClearListsOf, SetupStarts, InNothing
<1>6. TypeOK'
  <2>1. phase' \in Phases
    BY <1>3 DEF Phases
  <2> QED BY <1>1, <1>2, <1>4, <1>5, <2>1 DEF TypeOK, Lists
<1>7. CallInv'
  <2>1. phase' # "idle" /\ (phase' \notin {"clear", "setup"} => stack' = <<>>)
    BY <1>3
  <2> QED BY <1>2, <1>6, <2>1 DEF CallInv
<1>8. TreeClosed'
  BY <1>1, <1>2 DEF TreeClosed
<1>9. ClearInv'
  <2> SUFFICES ASSUME phase' = "clear"
               PROVE  /\ args'.clear /\ errors' = {} /\ failed' = {}
                      /\ \A n \in In(stack') : Kind[n] \in Tops /\ (~Unscoped' => ScopeTop(n)')
                      /\ Unscoped' => \A n \in tree' : \E r \in In(stack') : r \in Up[n]
    BY DEF ClearInv
  <2>1. a.clear /\ ClearLists(a)
    BY <1>3
  <2>2. PICK s : s = stack'
    OBVIOUS
  <2>3. /\ \A n \in In(s) : Kind[n] \in Tops /\ (~Whole(a) => Top(a, n))
        /\ Whole(a) => \A n \in tree : Kind[n] \in Tops => n \in In(s)
    BY <1>1, <2>1, <2>2, ClearListsOf
  <2>4. (Unscoped' <=> Whole(a)) /\ \A n : ScopeTop(n)' <=> Top(a, n)
    BY <1>2, ScopeOfArgs
  <2>5. Whole(a) => \A n \in tree : \E r \in In(s) : r \in Up[n]
    BY <1>1, <2>3, EntryInTree
  <2> QED BY <1>2, <2>1, <2>2, <2>3, <2>4, <2>5
<1>10. SetupInv'
  <2> SUFFICES ASSUME phase' = "setup"
               PROVE  SetupInv'
    BY <1>3 DEF SetupInv
  <2>1. ~a.clear /\ SetupLists(a)
    BY <1>3
  <2>2. /\ \A n \in In(stack') : n \in a.config /\ Parent[n] = None /\ (~Unscoped' => InScope(n)')
        /\ \A n \in Wanted' : Pending(n)'
    BY <1>2, <2>1, SetupStarts
  <2> QED BY <1>2, <2>1, <2>2 DEF SetupInv
<1>11. UntouchedInv'
  <2>1. phase' = "setup" => \A n \in a.config \cap tree : Kind[n] \notin {"so", "target"}
    BY <1>3 DEF Exists
  <2>2. ~a.clear => phase' # "clear"
    BY <1>3
  <2> QED BY <1>2, <2>1, <2>2 DEF UntouchedInv
<1>12. ScopeInv'
  BY <1>2 DEF ScopeInv
<1> QED BY <1>7, <1>8, <1>9, <1>10, <1>11, <1>12 DEF RestoreInv

(* Deleting a part with what depends on it leaves nothing without what it  *)
(* needs.                                                                  *)
LEMMA DeletesClosed ==
  ASSUME tree \in SUBSET Parts, TreeClosed, NEW n \in Parts, tree' = tree \ Deletes(n)
  PROVE  TreeClosed'
<1>1. \A m \in Parts : m \in Deletes(n) <=> n \in Needs[m]
  BY DEF Deletes, Dependents
<1>2. ASSUME NEW m \in tree', NEW k \in Needs[m] PROVE k \in tree'
  <2>1. m \in Parts /\ n \notin Needs[m] /\ k \in tree /\ k \in Parts
    BY <1>1, <1>2 DEF TreeClosed
  <2>2. n \notin Needs[k]
    BY <1>2, <2>1, NeedsTransitive
  <2> QED BY <1>1, <2>1, <2>2
<1> QED BY <1>2 DEF TreeClosed

(* What delete() of an entry, or clearing the discovery settings, does.    *)
LEMMA ClearEnds ==
  ASSUME RestoreInv, NEW n \in Parts, Clear(n) \/ ClearDiscovery(n)
  PROVE  /\ phase = "clear" /\ stack # <<>> /\ n \in Head(stack)
         /\ UNCHANGED <<args, errors, failed, before, calls>>
         /\ tree' \subseteq tree /\ \A m \in tree \ tree' : n \in Needs[m]
         /\ TreeClosed'
         /\ \/ /\ UNCHANGED phase /\ stack' = Rest(n)
               /\ \A m \in tree' : n \notin Needs[m]
            \/ UNCHANGED phase /\ stack' = <<{n}>> \o Rest(n)
            \/ phase' = "refused" /\ stack' = <<>>
<1>1. tree \in SUBSET Parts /\ TreeClosed
  BY DEF RestoreInv, CallInv, TypeOK
<1>2. ClearReaches(n)
  BY DEF Clear, ClearDiscovery
<1>3. /\ phase = "clear" /\ stack # <<>> /\ n \in Head(stack)
      /\ UNCHANGED <<args, errors, failed, before, calls>>
  BY <1>2 DEF ClearReaches
<1>4. \A m \in Parts : \A k \in Parts : k \in Deletes(m) <=> m \in Needs[k]
  BY DEF Deletes, Dependents
<1>5. CASE Clear(n)
  <2>1. CASE tree' = tree \ Deletes(n) /\ stack' = Rest(n) /\ UNCHANGED phase
    <3>1. TreeClosed'
      BY <1>1, <2>1, DeletesClosed
    <3>2. \A m \in tree : m \in Deletes(n) <=> n \in Needs[m]
      BY <1>1, <1>4
    <3> QED BY <1>3, <2>1, <3>1, <3>2
  <2>2. CASE phase' = "refused" /\ stack' = <<>> /\ UNCHANGED tree
    <3>1. TreeClosed'
      BY <1>1, <2>2 DEF TreeClosed
    <3> QED BY <1>3, <2>2, <3>1
  <2>3. CASE /\ UNCHANGED phase /\ stack' = <<{n}>> \o Rest(n)
             /\ \E m \in Deletes(n) : tree' = tree \ Deletes(m)
    <3>1. PICK m \in Deletes(n) : tree' = tree \ Deletes(m)
      BY <2>3
    <3>2. m \in Parts /\ n \in Needs[m]
      BY <3>1 DEF Deletes, Dependents
    <3>3. TreeClosed'
      BY <1>1, <3>1, <3>2, DeletesClosed
    <3>4. \A k \in tree \ tree' : k \in Parts /\ m \in Needs[k]
      BY <1>1, <1>4, <3>1, <3>2
    <3>5. \A k \in tree \ tree' : n \in Needs[k]
      BY <3>2, <3>4, NeedsTransitive
    <3> QED BY <1>3, <2>3, <3>1, <3>3, <3>5
  <2> QED BY <1>5, <2>1, <2>2, <2>3 DEF Clear
<1>6. CASE ClearDiscovery(n)
  <2>1. Kind[n] = "fm" /\ tree' \in {tree, tree \ {n}}
    BY <1>6 DEF ClearDiscovery
  <2>2. \A m \in Parts : n \in Needs[m] <=> m = n
    BY <2>1, NobodyNeedsDiscovery, NeedsOf
  <2>3. ASSUME NEW m \in tree', NEW k \in Needs[m] PROVE k \in tree'
    BY <1>1, <2>1, <2>2, <2>3 DEF TreeClosed
  <2>4. TreeClosed'
    BY <2>3 DEF TreeClosed
  <2>5. tree' \subseteq tree /\ \A m \in tree \ tree' : n \in Needs[m]
    BY <1>1, <2>1, <2>2
  <2>6. \/ tree' = tree \ {n} /\ stack' = Rest(n) /\ UNCHANGED phase
        \/ phase' = "refused" /\ stack' = <<>>
    BY <1>6 DEF ClearDiscovery
  <2>7. tree' = tree \ {n} => \A m \in tree' : n \notin Needs[m]
    BY <1>1, <2>2
  <2> QED BY <1>3, <2>4, <2>5, <2>6, <2>7
<1> QED BY <1>5, <1>6

LEMMA ClearStep ==
  ASSUME RestoreInv, NEW n \in Parts, Clear(n) \/ ClearDiscovery(n)
  PROVE  RestoreInv'
<1>1. CallInv /\ TypeOK /\ ClearInv /\ ScopeInv
  BY DEF RestoreInv, CallInv
<1>2. /\ phase = "clear" /\ stack # <<>> /\ n \in Head(stack)
      /\ UNCHANGED <<args, errors, failed, before, calls>>
      /\ tree' \subseteq tree /\ \A m \in tree \ tree' : n \in Needs[m]
      /\ TreeClosed'
      /\ \/ /\ UNCHANGED phase /\ stack' = Rest(n)
            /\ \A m \in tree' : n \notin Needs[m]
         \/ UNCHANGED phase /\ stack' = <<{n}>> \o Rest(n)
         \/ phase' = "refused" /\ stack' = <<>>
  BY ClearEnds
<1>3. /\ args \in Args /\ args.clear /\ errors = {} /\ failed = {}
      /\ \A m \in In(stack) : Kind[m] \in Tops /\ (~Unscoped => ScopeTop(m))
      /\ Unscoped => \A m \in tree : \E r \in In(stack) : r \in Up[m]
  BY <1>1, <1>2 DEF ClearInv, CallInv
<1>4. /\ n \in In(stack) /\ Rest(n) \in Lists
      /\ In(Rest(n)) \subseteq In(stack) /\ In(stack) \subseteq In(Rest(n)) \cup {n}
  BY <1>1, <1>2, RestOf
<1>first. <<{n}>> \o Rest(n) \in Lists /\ In(<<{n}>> \o Rest(n)) = {n} \cup In(Rest(n))
  <2>1. {n} \in SUBSET Parts /\ Entries({n}) = <<{n}>>
    BY DEF Entries
  <2>2. <<{n}>> \in Lists /\ In(<<{n}>>) = {n}
    BY <2>1, EntriesOf
  <2> QED BY <1>4, <2>2, InConcat
<1>5. /\ Unscoped' <=> Unscoped
      /\ \A m : (ScopeTop(m)' <=> ScopeTop(m)) /\ (InScope(m)' <=> InScope(m))
  BY <1>2, ScopeSame
<1>6. TypeOK'
  <2>1. phase' \in Phases /\ stack' \in Lists
    BY <1>2, <1>4, <1>first, InNothing DEF Phases
  <2>2. errors' = {} /\ failed' = {}
    BY <1>2, <1>3
  <2> QED BY <1>1, <1>2, <2>1, <2>2 DEF TypeOK, Lists
<1>7. CallInv'
  <2>1. phase' # "idle" /\ (phase' \notin {"clear", "setup"} => stack' = <<>>)
    BY <1>2
  <2> QED BY <1>2, <1>3, <1>6, <2>1 DEF CallInv
<1>8. ClearInv'
  <2> SUFFICES ASSUME phase' = "clear"
               PROVE  /\ \A m \in In(stack') : Kind[m] \in Tops /\ (~Unscoped' => ScopeTop(m)')
                      /\ Unscoped' => \A m \in tree' : \E r \in In(stack') : r \in Up[m]
    BY <1>2, <1>3 DEF ClearInv
  <2>1. CASE stack' = Rest(n) /\ \A m \in tree' : n \notin Needs[m]
    <3>1. ASSUME Unscoped, NEW m \in tree' PROVE \E r \in In(Rest(n)) : r \in Up[m]
      <4>1. m \in Parts /\ m \in tree
        BY <1>1, <1>2, <3>1 DEF TypeOK
      <4>2. PICK r \in In(stack) : r \in Up[m]
        BY <1>3, <3>1, <4>1
      <4>3. r # n
        BY <2>1, <3>1, <4>1, <4>2, UpTransitive
      <4> QED BY <1>4, <4>2, <4>3
    <3> QED BY <1>3, <1>4, <1>5, <2>1, <3>1
  <2>2. CASE stack' = <<{n}>> \o Rest(n)
    <3>1. In(stack') = In(stack)
      BY <1>4, <1>first, <2>2
    <3> QED BY <1>2, <1>3, <1>5, <3>1
  <2> QED BY <1>2, <2>1, <2>2
<1>9. SetupInv'
  BY <1>2 DEF SetupInv
<1>10. UntouchedInv'
  BY <1>2, <1>3 DEF UntouchedInv
<1>11. ScopeInv'
  <2> SUFFICES ASSUME ~Unscoped, NEW m \in (tree' \ before') \cup (before' \ tree')
               PROVE  InScope(m)
    BY <1>5 DEF ScopeInv
  <2>1. CASE m \in (tree \ before) \cup (before \ tree)
    BY <1>1, <1>2, <2>1 DEF ScopeInv
  <2>2. CASE m \in tree \ tree'
    <3>1. m \in Parts /\ n \in Needs[m] /\ ScopeTop(n)
      BY <1>1, <1>2, <1>3, <1>4, <2>2 DEF TypeOK
    <3> QED BY <3>1, ScopeDependents
  <2> QED BY <1>2, <2>1, <2>2
<1> QED BY <1>2, <1>7, <1>8, <1>9, <1>10, <1>11 DEF RestoreInv

LEMMA ClearedStep ==
  ASSUME RestoreInv, Cleared
  PROVE  RestoreInv'
<1>1. CallInv /\ TypeOK /\ ClearInv /\ ScopeInv /\ TreeClosed
  BY DEF RestoreInv, CallInv
<1>2. /\ phase = "clear" /\ stack = <<>> /\ phase' = "setup" /\ SetupLists(args)
      /\ UNCHANGED <<tree, args, errors, failed, before, calls>>
  BY DEF Cleared
<1>3. /\ args \in Args /\ args.clear /\ errors = {} /\ failed = {}
      /\ Unscoped => \A m \in tree : \E r \in In(stack) : r \in Up[m]
  BY <1>1, <1>2 DEF ClearInv, CallInv
<1>4. Unscoped => tree = {}
  BY <1>2, <1>3, InNothing
<1>5. PICK a : a = args
  OBVIOUS
<1>6. /\ stack' \in Lists
      /\ \A n \in In(stack') : n \in a.config /\ Parent[n] = None /\ (~Unscoped' => InScope(n)')
      /\ \A n \in Wanted' : Pending(n)'
  BY <1>2, <1>3, <1>5, SetupStarts
<1>7. /\ Unscoped' <=> Unscoped
      /\ \A m : InScope(m)' <=> InScope(m)
  BY <1>2, ScopeSame
<1>8. TypeOK'
  BY <1>1, <1>2, <1>6 DEF TypeOK, Lists, Phases
<1>9. CallInv'
  BY <1>2, <1>3, <1>8 DEF CallInv
<1>10. TreeClosed'
  BY <1>1, <1>2 DEF TreeClosed
<1>11. ClearInv' /\ UntouchedInv'
  BY <1>2, <1>3 DEF ClearInv, UntouchedInv
<1>12. SetupInv'
  BY <1>2, <1>3, <1>4, <1>5, <1>6, <1>7 DEF SetupInv
<1>13. ScopeInv'
  BY <1>1, <1>2, <1>7 DEF ScopeInv
<1> QED BY <1>9, <1>10, <1>11, <1>12, <1>13 DEF RestoreInv

LEMMA ReturnStep ==
  ASSUME RestoreInv, Return
  PROVE  RestoreInv'
<1>1. CallInv /\ TypeOK /\ SetupInv /\ UntouchedInv /\ ScopeInv /\ TreeClosed
  BY DEF RestoreInv, CallInv
<1>2. /\ phase = "setup" /\ stack = <<>> /\ phase' = "returned"
      /\ UNCHANGED <<tree, args, stack, errors, failed, before, calls>>
  BY DEF Return
<1>3. /\ Unscoped' <=> Unscoped
      /\ Wanted' = Wanted
      /\ \A m : InScope(m)' <=> InScope(m)
  BY <1>2, ScopeSame
<1>4. CallInv'
  BY <1>1, <1>2 DEF CallInv, TypeOK, Phases
<1>5. TreeClosed'
  BY <1>1, <1>2 DEF TreeClosed
<1>6. ClearInv'
  BY <1>2 DEF ClearInv
<1>7. UntouchedInv'
  BY <1>1, <1>2 DEF UntouchedInv
<1>8. SetupInv'
  <2>1. \A n : (Pending(n)' <=> Pending(n)) /\ (Accounted(n)' <=> Accounted(n))
    BY <1>2 DEF Pending, Accounted, Lost
  <2> QED BY <1>1, <1>2, <1>3, <2>1 DEF SetupInv
<1>9. ScopeInv'
  BY <1>1, <1>2, <1>3 DEF ScopeInv
<1> QED BY <1>4, <1>5, <1>6, <1>7, <1>8, <1>9 DEF RestoreInv

LEMMA IdleStep ==
  ASSUME RestoreInv, Idle
  PROVE  RestoreInv'
<1>1. CallInv /\ TypeOK /\ TreeClosed
  BY DEF RestoreInv, CallInv
<1>2. /\ phase \notin {"clear", "setup"}
      /\ phase' = "idle" /\ args' = None /\ before' = {} /\ errors' = {} /\ failed' = {}
      /\ UNCHANGED <<tree, stack, calls>>
  BY DEF Idle, Ended
<1>3. CallInv'
  BY <1>1, <1>2 DEF CallInv, TypeOK, Phases
<1>4. TreeClosed'
  BY <1>1, <1>2 DEF TreeClosed
<1>5. ClearInv' /\ SetupInv' /\ UntouchedInv' /\ ScopeInv'
  BY <1>2 DEF ClearInv, SetupInv, UntouchedInv, ScopeInv
<1> QED BY <1>3, <1>4, <1>5 DEF RestoreInv

LEMMA NothingStep ==
  ASSUME RestoreInv, UNCHANGED vars
  PROVE  RestoreInv'
<1>1. /\ CallInv /\ TypeOK /\ TreeClosed /\ ClearInv /\ SetupInv /\ UntouchedInv /\ ScopeInv
  BY DEF RestoreInv, CallInv
<1>2. UNCHANGED <<tree, phase, args, stack, errors, failed, before, calls>>
  BY DEF vars
<1>3. CallInv' /\ TreeClosed'
  BY <1>1, <1>2 DEF CallInv, TypeOK, TreeClosed
<1>4. ClearInv' /\ UntouchedInv' /\ ScopeInv'
  BY <1>1, <1>2 DEF ClearInv, UntouchedInv, ScopeInv, Unscoped, ScopeTop, InScope
<1>5. SetupInv'
  BY <1>1, <1>2 DEF SetupInv, Wanted, WantedTop, Unscoped, InScope, Pending, Accounted, Lost
<1> QED BY <1>3, <1>4, <1>5 DEF RestoreInv

(* What is known of the part that setup() visits. *)
LEMMA Visited ==
  ASSUME RestoreInv, phase = "setup", stack # <<>>, NEW n \in Head(stack)
  PROVE  /\ args \in Args /\ args.config \in Configs
         /\ n \in In(stack) /\ n \in args.config /\ n \in Parts
         /\ Parent[n] \in tree \cup {None}
         /\ ~Unscoped => InScope(n)
<1>1. CallInv /\ SetupInv
  BY DEF RestoreInv
<1>2. n \in In(stack)
  BY <1>1, RestOf
<1>3. n \in args.config /\ Parent[n] \in tree \cup {None} /\ (~Unscoped => InScope(n))
  BY <1>1, <1>2 DEF SetupInv
<1>4. args \in Args
  BY <1>1 DEF CallInv
<1> QED BY <1>2, <1>3, <1>4, ArgsFields

(* What setup() adds to the tree. *)
LEMMA TreeGrows ==
  ASSUME RestoreInv, phase = "setup", stack # <<>>, NEW n \in Head(stack),
         UNCHANGED <<args, before>>, phase' \in {"setup", "raised"},
         tree' = tree \/ (tree' = tree \cup {n} /\ Uses[n] \in tree \cup {None})
  PROVE  /\ tree' \in SUBSET Parts /\ TreeClosed' /\ ClearInv' /\ UntouchedInv' /\ ScopeInv'
         /\ args.clear /\ Unscoped => tree' \subseteq args.config
<1>1. TypeOK /\ TreeClosed /\ SetupInv /\ UntouchedInv /\ ScopeInv
  BY DEF RestoreInv, CallInv
<1>2. /\ n \in args.config /\ n \in Parts /\ Parent[n] \in tree \cup {None}
      /\ ~Unscoped => InScope(n)
  BY Visited
<1>3. tree \in SUBSET Parts /\ tree' \in SUBSET Parts
  BY <1>1, <1>2 DEF TypeOK
<1>4. TreeClosed'
  <2> SUFFICES ASSUME NEW m \in tree', NEW k \in Needs[m] PROVE k \in tree'
    BY DEF TreeClosed
  <2>1. CASE m \in tree
    BY <1>1, <2>1 DEF TreeClosed
  <2>2. CASE m = n /\ Uses[n] \in tree \cup {None}
    <3>1. \/ k = n
          \/ Parent[n] # None /\ k \in Needs[Parent[n]]
          \/ Uses[n] # None /\ k \in Needs[Uses[n]]
      BY <1>2, <2>2, NeedsOf
    <3> QED BY <1>1, <1>2, <2>2, <3>1 DEF TreeClosed
  <2> QED BY <2>1, <2>2
<1>5. ClearInv'
  BY DEF ClearInv
<1>6. UntouchedInv'
  BY <1>1, <1>2 DEF UntouchedInv
<1>7. ScopeInv'
  <2>1. (Unscoped' <=> Unscoped) /\ \A m : InScope(m)' <=> InScope(m)
    BY ScopeSame
  <2>2. ASSUME ~Unscoped, NEW m \in (tree' \ before) \cup (before \ tree') PROVE InScope(m)
    <3>1. m = n \/ m \in (tree \ before) \cup (before \ tree)
      BY <2>2
    <3> QED BY <1>1, <1>2, <2>2, <3>1 DEF ScopeInv
  <2> QED BY <2>1, <2>2 DEF ScopeInv
<1>8. args.clear /\ Unscoped => tree' \subseteq args.config
  BY <1>1, <1>2 DEF SetupInv
<1> QED BY <1>3, <1>4, <1>5, <1>6, <1>7, <1>8

(* A part that is wanted and not there, and that is to be visited: it will *)
(* be after n, or n is above it.                                           *)
LEMMA PendingAfter ==
  ASSUME CallInv, stack # <<>>, NEW n \in Head(stack), NEW m \in Parts, Pending(m)
  PROVE  (\E k \in Up[m] : k \in In(Rest(n))) \/ n \in Up[m]
<1>1. In(stack) \subseteq In(Rest(n)) \cup {n}
  BY RestOf
<1> QED BY <1>1 DEF Pending

LEMMA DoneStep ==
  ASSUME RestoreInv, phase = "setup", stack # <<>>, NEW n \in Head(stack),
         Done(n), Uses[n] # None => Uses[n] \in tree
  PROVE  RestoreInv'
<1>1. CallInv /\ TypeOK /\ SetupInv
  BY DEF RestoreInv, CallInv
<1>2. /\ tree' = tree \cup {n} /\ stack' = Inner(n) \o Rest(n)
      /\ UNCHANGED <<phase, args, errors, failed, before, calls>>
  BY DEF Done
<1>3. /\ args \in Args /\ args.config \in Configs /\ n \in args.config /\ n \in Parts
      /\ ~Unscoped => InScope(n)
  BY Visited
<1>4. /\ tree' \in SUBSET Parts /\ TreeClosed' /\ ClearInv' /\ UntouchedInv' /\ ScopeInv'
      /\ args.clear /\ Unscoped => tree' \subseteq args.config
  BY <1>2, TreeGrows
<1>5. Rest(n) \in Lists /\ In(Rest(n)) \subseteq In(stack)
  BY <1>1, RestOf
<1>6. Inner(n) \in Lists /\ In(Inner(n)) = {m \in args.config : Parent[m] = n}
  BY <1>1, <1>3, InnerOf
<1>7. stack' \in Lists /\ In(stack') = In(Inner(n)) \cup In(Rest(n))
  BY <1>2, <1>5, <1>6, InConcat
<1>8. CallInv'
  <2>1. TypeOK'
    BY <1>1, <1>2, <1>4, <1>7 DEF TypeOK, Lists
  <2> QED BY <1>2, <1>3, <2>1 DEF CallInv
<1>9. (Unscoped' <=> Unscoped) /\ Wanted' = Wanted /\ \A m : InScope(m)' <=> InScope(m)
  BY <1>2, ScopeSame
<1>10. ASSUME NEW m \in In(stack')
       PROVE  m \in args.config /\ Parent[m] \in tree' \cup {None} /\ (~Unscoped => InScope(m))
  <2>1. CASE m \in In(Inner(n))
    <3>1. m \in args.config /\ m \in Parts /\ Parent[m] = n
      BY <1>3, <1>6, <2>1, ArgsFields
    <3> QED BY <1>2, <1>3, <3>1, ScopeInner
  <2>2. CASE m \in In(Rest(n))
    BY <1>1, <1>2, <1>5, <2>2 DEF SetupInv
  <2> QED BY <1>7, <1>10, <2>1, <2>2
<1>11. ASSUME NEW m \in Wanted \ tree' PROVE Pending(m)' \/ Accounted(m)'
  <2>1. m \in Wanted \ tree /\ m # n
    BY <1>2
  <2>2. m \in args.config /\ m \in Parts
    BY <1>3, <2>1, ArgsFields DEF Wanted
  <2>3. Pending(m) \/ Accounted(m)
    BY <1>1, <2>1 DEF SetupInv
  <2>4. ASSUME Pending(m) PROVE \E k \in Up[m] : k \in In(stack')
    <3>1. CASE \E k \in Up[m] : k \in In(Rest(n))
      BY <1>7, <3>1
    <3>2. CASE n \in Up[m]
      <4>1. PICK k \in Up[m] : Parent[k] = n
        BY <2>1, <2>2, <3>2, UpPath
      <4>2. k \in args.config
        BY <1>3, <2>2, UpInConfig
      <4> QED BY <1>6, <1>7, <4>1, <4>2
    <3> QED BY <1>1, <2>2, <2>4, <3>1, <3>2, PendingAfter
  <2>5. Accounted(m) => Accounted(m)'
    BY <1>2 DEF Accounted, Lost
  <2> QED BY <2>3, <2>4, <2>5 DEF Pending
<1>12. SetupInv'
  BY <1>1, <1>2, <1>4, <1>9, <1>10, <1>11 DEF SetupInv
<1> QED BY <1>4, <1>8, <1>12 DEF RestoreInv

(* The lists without n: a part that was to be visited below n must be      *)
(* accounted for in another way.                                           *)
LEMMA RestStep ==
  ASSUME RestoreInv, phase = "setup", stack # <<>>, NEW n \in Head(stack),
         UNCHANGED <<phase, args, before, calls>>, stack' = Rest(n),
         tree' = tree \/ (tree' = tree \cup {n} /\ Uses[n] \in tree \cup {None}),
         errors \subseteq errors', failed \subseteq failed',
         errors' \subseteq failed', failed' \subseteq args.config, args.abort => errors' = {},
         \A m \in Parts : n \in Needs[m] => Accounted(m)'
  PROVE  RestoreInv'
<1>1. CallInv /\ TypeOK /\ SetupInv
  BY DEF RestoreInv, CallInv
<1>2. args \in Args /\ args.config \subseteq Parts
  BY Visited, ArgsFields
<1>3. /\ tree' \in SUBSET Parts /\ TreeClosed' /\ ClearInv' /\ UntouchedInv' /\ ScopeInv'
      /\ args.clear /\ Unscoped => tree' \subseteq args.config
  BY TreeGrows
<1>4. Rest(n) \in Lists /\ In(Rest(n)) \subseteq In(stack)
  BY <1>1, RestOf
<1>5. CallInv'
  <2>1. TypeOK'
    BY <1>1, <1>3, <1>4 DEF TypeOK, Lists
  <2> QED BY <1>2, <2>1 DEF CallInv
<1>6. (Unscoped' <=> Unscoped) /\ Wanted' = Wanted /\ \A m : InScope(m)' <=> InScope(m)
  BY ScopeSame
<1>7. ASSUME NEW m \in In(stack')
      PROVE  m \in args.config /\ Parent[m] \in tree' \cup {None} /\ (~Unscoped => InScope(m))
  BY <1>1, <1>4, <1>7 DEF SetupInv
<1>8. ASSUME NEW m \in Wanted \ tree' PROVE Pending(m)' \/ Accounted(m)'
  <2>1. m \in Wanted \ tree
    BY <1>8
  <2>2. m \in Parts
    BY <1>2, <2>1 DEF Wanted
  <2>3. Pending(m) \/ Accounted(m)
    BY <1>1, <2>1 DEF SetupInv
  <2>4. CASE Pending(m)
    <3>1. CASE \E k \in Up[m] : k \in In(Rest(n))
      BY <3>1 DEF Pending
    <3>2. CASE n \in Up[m]
      BY <2>2, <3>2, UpTransitive
    <3> QED BY <1>1, <2>2, <2>4, <3>1, <3>2, PendingAfter
  <2>5. Accounted(m) => Accounted(m)'
    BY DEF Accounted, Lost
  <2> QED BY <2>3, <2>4, <2>5
<1>9. SetupInv'
  BY <1>3, <1>6, <1>7, <1>8 DEF SetupInv
<1> QED BY <1>3, <1>5, <1>9 DEF RestoreInv

(* The call stops. *)
LEMMA StopStep ==
  ASSUME RestoreInv, phase = "setup", stack # <<>>, NEW n \in Head(stack),
         UNCHANGED <<args, before, calls>>, phase' = "raised", stack' = <<>>,
         tree' = tree \/ (tree' = tree \cup {n} /\ Uses[n] \in tree \cup {None}),
         errors' \subseteq failed', failed' \subseteq args.config
  PROVE  RestoreInv'
<1>1. CallInv /\ TypeOK
  BY DEF RestoreInv, CallInv
<1>2. args \in Args
  BY Visited
<1>3. tree' \in SUBSET Parts /\ TreeClosed' /\ ClearInv' /\ UntouchedInv' /\ ScopeInv'
  BY TreeGrows
<1>4. CallInv'
  <2>1. TypeOK'
    BY <1>1, <1>3, InNothing DEF TypeOK, Lists, Phases
  <2> QED BY <1>2, <2>1 DEF CallInv
<1>5. SetupInv'
  BY DEF SetupInv
<1> QED BY <1>3, <1>4, <1>5 DEF RestoreInv

(* What has failed so far is of the configuration. *)
LEMMA FailedParts ==
  ASSUME RestoreInv, phase = "setup"
  PROVE  errors \subseteq failed /\ failed \subseteq args.config
BY DEF RestoreInv, CallInv, TypeOK

LEMMA ReportStep ==
  ASSUME RestoreInv, phase = "setup", stack # <<>>, NEW n \in Head(stack), Report(n),
         tree' = tree \/ (tree' = tree \cup {n} /\ Uses[n] \in tree \cup {None})
  PROVE  RestoreInv'
<1>2. n \in args.config
  BY Visited
<1>3. /\ errors' = errors \cup {n} /\ failed' = failed \cup {n}
      /\ UNCHANGED <<args, before, calls>>
      /\ \/ args.abort /\ phase' = "raised" /\ stack' = <<>>
         \/ ~args.abort /\ stack' = Rest(n) /\ UNCHANGED phase
  BY DEF Report
<1>4. errors' \subseteq failed' /\ failed' \subseteq args.config
  BY <1>2, <1>3, FailedParts
<1>5. CASE args.abort /\ phase' = "raised" /\ stack' = <<>>
  BY <1>3, <1>4, <1>5, StopStep
<1>6. CASE ~args.abort /\ stack' = Rest(n) /\ UNCHANGED phase
  <2>1. errors \subseteq errors' /\ failed \subseteq failed'
    BY <1>3
  <2>2. \A m \in Parts : n \in Needs[m] => Accounted(m)'
    BY <1>3 DEF Accounted
  <2> QED BY <1>3, <1>4, <1>6, <2>1, <2>2, RestStep
<1> QED BY <1>3, <1>5, <1>6

LEMMA PassOverStep ==
  ASSUME RestoreInv, phase = "setup", stack # <<>>, NEW n \in Head(stack), PassOver(n),
         Needs[n] \cap PassedOver # {}
  PROVE  RestoreInv'
<1>1. SetupInv /\ n \in Parts
  BY Visited DEF RestoreInv
<1>2. stack' = Rest(n) /\ UNCHANGED <<tree, phase, args, errors, failed, before, calls>>
  BY DEF PassOver
<1>3. ASSUME NEW m \in Parts, n \in Needs[m] PROVE Accounted(m)'
  <2>1. PICK k \in Needs[n] : k \in PassedOver
    OBVIOUS
  <2>2. k \in Needs[m]
    BY <1>1, <1>3, <2>1, NeedsTransitive
  <2> QED BY <2>1, <2>2 DEF Accounted, Dropped
<1>4. errors' \subseteq failed' /\ failed' \subseteq args.config /\ (args.abort => errors' = {})
  BY <1>1, <1>2, FailedParts DEF SetupInv
<1> QED BY <1>2, <1>3, <1>4, RestStep

LEMMA LoseStep ==
  ASSUME RestoreInv, phase = "setup", stack # <<>>, NEW n \in Head(stack), Lose(n),
         Kind[n] \in {"member", "acltag", "tpgvalues"}
  PROVE  RestoreInv'
<1>1. SetupInv /\ n \in args.config
  BY Visited DEF RestoreInv
<1>2. /\ stack' = Rest(n) /\ failed' = failed \cup {n}
      /\ UNCHANGED <<tree, phase, args, errors, before, calls>>
  BY DEF Lose
<1>3. \A m \in Parts : n \in Needs[m] => Accounted(m)'
  BY <1>2 DEF Accounted, Lost
<1>4. /\ errors' \subseteq failed' /\ failed' \subseteq args.config /\ failed \subseteq failed'
      /\ args.abort => errors' = {}
  BY <1>1, <1>2, FailedParts DEF SetupInv
<1> QED BY <1>2, <1>3, <1>4, RestStep

LEMMA RaiseStep ==
  ASSUME RestoreInv, phase = "setup", stack # <<>>, NEW n \in Head(stack), Raise(n),
         errors' \in {errors, errors \cup {n}}
  PROVE  RestoreInv'
<1>1. n \in args.config
  BY Visited
<1>2. /\ phase' = "raised" /\ stack' = <<>> /\ failed' = failed \cup {n}
      /\ UNCHANGED <<tree, args, before, calls>>
  BY DEF Raise
<1>3. errors' \subseteq failed' /\ failed' \subseteq args.config
  BY <1>1, <1>2, FailedParts
<1> QED BY <1>2, <1>3, StopStep

LEMMA SetupStep ==
  ASSUME RestoreInv, NEW n \in Parts, Setup(n)
  PROVE  RestoreInv'
<1>1. /\ phase = "setup" /\ stack # <<>> /\ n \in Head(stack)
      /\ \/ Done(n) /\ (Uses[n] # None => Uses[n] \in tree)
         \/ Report(n) /\ tree' = tree
         \/ Report(n) /\ tree' = tree \cup {n} /\ Uses[n] = None
         \/ PassOver(n) /\ Needs[n] \cap PassedOver # {}
         \/ Lose(n) /\ Kind[n] \in {"member", "acltag", "tpgvalues"}
         \/ Raise(n) /\ errors' \in {errors, errors \cup {n}}
  BY SetupEnds
<1>2. CASE Done(n) /\ (Uses[n] # None => Uses[n] \in tree)
  BY <1>1, <1>2, DoneStep
<1>3. CASE Report(n) /\ tree' = tree
  BY <1>1, <1>3, ReportStep
<1>4. CASE Report(n) /\ tree' = tree \cup {n} /\ Uses[n] = None
  BY <1>1, <1>4, ReportStep
<1>5. CASE PassOver(n) /\ Needs[n] \cap PassedOver # {}
  BY <1>1, <1>5, PassOverStep
<1>6. CASE Raise(n) /\ errors' \in {errors, errors \cup {n}}
  BY <1>1, <1>6, RaiseStep
<1>7. CASE Lose(n) /\ Kind[n] \in {"member", "acltag", "tpgvalues"}
  BY <1>1, <1>7, LoseStep
<1> QED BY <1>1, <1>2, <1>3, <1>4, <1>5, <1>6, <1>7

LEMMA InitHolds ==
  ASSUME Init PROVE RestoreInv
<1>1. /\ tree = {} /\ before = {} /\ phase = "idle" /\ args = None
      /\ stack = <<>> /\ errors = {} /\ failed = {} /\ calls = 0
  BY DEF Init
<1>2. CallInv
  BY <1>1, InNothing, BoundsAssumption, SMT DEF CallInv, TypeOK, Lists, Phases
<1>3. TreeClosed
  BY <1>1 DEF TreeClosed
<1>4. ClearInv /\ SetupInv /\ UntouchedInv /\ ScopeInv
  BY <1>1 DEF ClearInv, SetupInv, UntouchedInv, ScopeInv
<1> QED BY <1>2, <1>3, <1>4 DEF RestoreInv

LEMMA NextStep ==
  ASSUME RestoreInv, [Next]_vars PROVE RestoreInv'
BY CallStep, ClearStep, SetupStep, ClearedStep, ReturnStep, IdleStep, NothingStep DEF Next

-----------------------------------------------------------------------------
(* Theorems.                                                               *)

(* At every step of restore(), for all configurations, whatever is refused *)
(* and wherever it stops: the lists that are left are of the configuration *)
(* and within the scope of the call, and each part that was asked for is   *)
(* there, or still to be visited, or accounted for.                        *)
THEOREM RestoreInvariant == Spec => []RestoreInv
BY InitHolds, NextStep, PTL DEF Spec

(* Every variable has its type; no list that restore() has yet to work     *)
(* through is empty, and what it reports is of its configuration.          *)
THEOREM TypeCorrect == Spec => []TypeOK
<1>1. RestoreInv => TypeOK
  BY DEF RestoreInv, CallInv
<1> QED BY <1>1, RestoreInvariant, PTL

(* Nothing is ever in force without what it needs, however far             *)
(* clear_existing or setup() got.                                          *)
THEOREM AlwaysClosed == Spec => []TreeClosed
<1>1. RestoreInv => TreeClosed
  BY DEF RestoreInv
<1> QED BY <1>1, RestoreInvariant, PTL

(* When restore() returns, a part that was asked for and is not in force   *)
(* is in the list of errors or needs a part that is; except for the ALUA   *)
(* groups that setup() passes over, and for the ALUA memberships, tags of  *)
(* ACLs and CHAP values of TPGs that the kernel refused.                   *)
THEOREM AbsenceAlwaysReported == Spec => []AbsenceReported
<1>1. ASSUME RestoreInv PROVE AbsenceReported
  <2> SUFFICES ASSUME phase = "returned", NEW n \in Wanted \ tree
               PROVE  Accounted(n)
    BY DEF AbsenceReported, Accounted
  <2>1. CallInv /\ SetupInv
    BY <1>1 DEF RestoreInv
  <2>2. In(stack) = {}
    BY <2>1, InNothing DEF CallInv
  <2>3. ~Pending(n)
    BY <2>2 DEF Pending
  <2> QED BY <2>1, <2>3 DEF SetupInv
<1> QED BY <1>1, RestoreInvariant, PTL

(* With abort_on_error, a call that returns has put in force all that was  *)
(* asked for, with the same exceptions.                                    *)
THEOREM AlwaysAllOrRaise == Spec => []AllOrRaise
<1>1. ASSUME RestoreInv PROVE AllOrRaise
  <2> SUFFICES ASSUME phase = "returned", args.abort, NEW n \in Wanted \ tree
               PROVE  Dropped(n) \/ Lost(n)
    BY DEF AllOrRaise
  <2>1. CallInv /\ SetupInv
    BY <1>1 DEF RestoreInv
  <2>2. In(stack) = {} /\ errors = {}
    BY <2>1, InNothing DEF CallInv, SetupInv
  <2>3. ~Pending(n)
    BY <2>2 DEF Pending
  <2> QED BY <2>1, <2>2, <2>3 DEF SetupInv, Accounted
<1> QED BY <1>1, RestoreInvariant, PTL

(* Without clear_existing, a storage object or target that was there has   *)
(* afterwards exactly what it had: restore() refuses before it touches     *)
(* anything when the configuration has one of them.                        *)
THEOREM ExistingStaysUntouched == Spec => []ExistingUntouched
<1>1. ASSUME RestoreInv PROVE ExistingUntouched
  <2> SUFFICES ASSUME args # None, ~args.clear, NEW n \in before, Kind[n] \in {"so", "target"}
               PROVE  Below(n) \cap tree = Below(n) \cap before
    BY DEF ExistingUntouched
  <2>1. CallInv /\ TypeOK /\ UntouchedInv
    BY <1>1 DEF RestoreInv, CallInv
  <2>2. phase # "idle" /\ args \in Args
    BY <2>1 DEF CallInv
  <2>3. /\ before \subseteq tree /\ tree \ before \subseteq args.config
        /\ tree # before => \A m \in args.config \cap before : Kind[m] \notin {"so", "target"}
    BY <2>1, <2>2 DEF UntouchedInv
  <2>4. ASSUME NEW m \in Below(n) \cap (tree \ before) PROVE FALSE
    <3>1. m \in args.config /\ n \in Up[m]
      BY <2>3, <2>4 DEF Below
    <3>2. n \in args.config
      BY <2>2, <3>1, UpInConfig, ArgsFields
    <3> QED BY <2>3, <2>4, <3>2
  <2> QED BY <2>3, <2>4
<1> QED BY <1>1, RestoreInvariant, PTL

(* A call for one target or one storage object touches nothing that is not *)
(* of it and does not depend on it, but the discovery settings.            *)
THEOREM ScopeAlwaysRespected == Spec => []ScopeRespected
<1>1. ASSUME RestoreInv PROVE ScopeRespected
  <2>1. CallInv /\ ScopeInv
    BY <1>1 DEF RestoreInv
  <2>2. args # None => phase # "idle"
    BY <2>1 DEF CallInv
  <2> QED BY <2>1, <2>2 DEF ScopeInv, ScopeRespected, InScope
<1> QED BY <1>1, RestoreInvariant, PTL

(* With clear_existing, for the whole configuration and without a failure, *)
(* what is in force at the end is what the configuration says.             *)
THEOREM AlwaysMatchesConfig == Spec => []MatchesConfig
<1>1. ASSUME RestoreInv PROVE MatchesConfig
  <2> SUFFICES ASSUME phase = "returned", args.clear, Unscoped, failed = {}
               PROVE  tree \subseteq args.config /\ \A n \in args.config \ tree : Dropped(n)
    BY DEF MatchesConfig
  <2>1. CallInv /\ SetupInv
    BY <1>1 DEF RestoreInv
  <2>2. In(stack) = {} /\ errors = {} /\ tree \subseteq args.config /\ args.config \subseteq Parts
    BY <2>1, InNothing, ArgsFields DEF CallInv, TypeOK, SetupInv
  <2>3. ASSUME NEW n \in args.config \ tree PROVE Dropped(n)
    <3>1. n \in Parts /\ \E r \in Up[n] : Parent[r] = None
      BY <2>2, <2>3, UpPath
    <3>2. n \in Wanted \ tree
      BY <2>3, <3>1 DEF Wanted, WantedTop
    <3>3. ~Pending(n)
      BY <2>2 DEF Pending
    <3>4. Accounted(n) => Dropped(n)
      BY <2>2 DEF Accounted, Lost
    <3> QED BY <2>1, <3>2, <3>3, <3>4 DEF SetupInv
  <2> QED BY <2>2, <2>3
<1> QED BY <1>1, RestoreInvariant, PTL

=============================================================================
