-------------------------- MODULE BackstoreProofs ---------------------------
(***************************************************************************)
(* Proofs about Backstore, for every set of processes, plugins and names   *)
(* and every size of the index pool.                                       *)
(***************************************************************************)
EXTENDS Backstore, TLAPS

TypeInv == TypeOK /\ ObjectTyped

(* The steps of Next other than the start of a constructor call. *)
LaterStep(p) ==
  \/ CreateHba(p) \/ LookupHba(p) \/ HbaExistsAgain(p) \/ MkdirHba(p)
  \/ CreateObject(p) \/ LookupObject(p)
  \/ ObjectExistsAgain(p) \/ MkdirObject(p)
  \/ Configure(p)
  \/ Delete(p) \/ DeleteCheckSelf(p)
  \/ ObjectExists(p) \/ RmdirObject(p)
  \/ BackstoreExists(p) \/ RmdirBackstore(p)
  \/ StartClear(p) \/ ClearNextObject(p) \/ ClearNextHba(p)
  \/ InvalidateCaches(p) \/ Crash(p)

-----------------------------------------------------------------------------
(* Facts about objects, their backstores and their keys. *)
LEMMA ObjectParts ==
  ASSUME NEW s \in Objects
  PROVE  /\ HbaOf(s) \in Hbas
         /\ KeyOf(s) \in Keys
         /\ s[1] \in Plugins /\ s[2] \in Indexes /\ s[3] \in Names
         /\ s = <<s[1], s[2], s[3]>>
BY DEF Objects, Hbas, Keys, HbaOf, KeyOf

LEMMA IndexFacts == NoIndex \notin Indexes /\ Indexes \subseteq Nat
BY NumIndexesAssumption DEF NoIndex, Indexes

-----------------------------------------------------------------------------
(* The type invariant is inductive together with ObjectTyped. *)
LEMMA TypeOpenByName ==
  ASSUME TypeInv, NEW p \in Procs, NEW k \in Keys, NEW m \in {"create", "lookup"},
         OpenByName(p, k, m)
  PROVE  TypeInv'
<1>1. PICK c \in CacheContents(p) :
         \/ /\ c[k] # NoIndex /\ m = "lookup"
            /\ cache' = [cache EXCEPT ![p] = c]
            /\ Begin(p, <<k[1], c[k], k[2]>>, m)
         \/ /\ c[k] = NoIndex /\ m = "create"
            /\ \E i \in FreeIndexes(c) :
                 /\ \A j \in FreeIndexes(c) : i <= j
                 /\ cache' = [cache EXCEPT ![p] = [c EXCEPT ![k] = i]]
                 /\ Begin(p, <<k[1], i, k[2]>>, m)
         \/ /\ cache' = [cache EXCEPT ![p] = c]
            /\ End(p)
  BY Zenon DEF OpenByName
<1>2. c \in [Keys -> Indexes \cup {NoIndex}]
  BY DEF CacheContents, Scans, TypeInv, TypeOK
<1>3. UNCHANGED <<hbas, sos, enabled, crashes>>
  BY DEF OpenByName, tree
<1>4. k[1] \in Plugins /\ k[2] \in Names
  BY DEF Keys
<1>5. CASE c[k] # NoIndex /\ cache' = [cache EXCEPT ![p] = c] /\ Begin(p, <<k[1], c[k], k[2]>>, m)
  <2>1. <<k[1], c[k], k[2]>> \in Objects
    BY <1>2, <1>4, <1>5 DEF Objects
  <2> QED
    BY <1>2, <1>3, <1>5, <2>1, Zenon
    DEF Begin, Goto, TypeInv, TypeOK, ObjectTyped, Modes, Steps
<1>6. CASE \E i \in FreeIndexes(c) :
             /\ cache' = [cache EXCEPT ![p] = [c EXCEPT ![k] = i]]
             /\ Begin(p, <<k[1], i, k[2]>>, m)
  <2>1. PICK i \in FreeIndexes(c) :
             /\ cache' = [cache EXCEPT ![p] = [c EXCEPT ![k] = i]]
             /\ Begin(p, <<k[1], i, k[2]>>, m)
    BY <1>6, Zenon
  <2>2. i \in Indexes /\ <<k[1], i, k[2]>> \in Objects
    BY <1>4 DEF Objects, FreeIndexes
  <2> QED
    BY <1>2, <1>3, <2>1, <2>2, Zenon
    DEF Begin, Goto, TypeInv, TypeOK, ObjectTyped, Modes, Steps
<1>7. CASE cache' = [cache EXCEPT ![p] = c] /\ End(p)
  BY <1>2, <1>3, <1>7
  DEF End, Goto, TypeInv, TypeOK, ObjectTyped, Modes, Steps
<1> QED
  BY <1>1, <1>5, <1>6, <1>7, Zenon

LEMMA DropKeyType ==
  ASSUME TypeInv, NEW p \in Procs, NEW s \in Objects, DropKey(p, s)
  PROVE  /\ cache' \in [Procs -> [Keys -> Indexes \cup {NoIndex}]]
         /\ \A q \in Procs \ {p} : cache'[q] = cache[q]
         /\ \A k \in Keys :
              cache'[p][k] = IF k = KeyOf(s) THEN NoIndex ELSE cache[p][k]
<1> DEFINE c == [cache[p] EXCEPT ![KeyOf(s)] = NoIndex]
<1>1. c \in [Keys -> Indexes \cup {NoIndex}]
  BY Zenon DEF TypeInv, TypeOK
<1>2. cache' = [cache EXCEPT ![p] = c]
  BY DEF DropKey
<1>3. \A k \in Keys : c[k] = IF k = KeyOf(s) THEN NoIndex ELSE cache[p][k]
  BY DEF TypeInv, TypeOK
<1> HIDE DEF c
<1> QED
  BY <1>1, <1>2, <1>3 DEF TypeInv, TypeOK

LEMMA TypeLaterStep ==
  ASSUME TypeInv, NEW p \in Procs, LaterStep(p)
  PROVE  TypeInv'
<1> USE DEF TypeInv, TypeOK, ObjectTyped, Modes, Steps, Goto, Step, End,
            Begin, Bound, InConfigFS, tree, BackstoreGone, FailToBackstoreDelete
<1>0. pc[p] \notin {"idle", "clear", "clearhba"} => HbaOf(obj[p]) \in Hbas /\ KeyOf(obj[p]) \in Keys
  BY ObjectParts
<1>c. pc[p] \notin {"idle", "clear", "clearhba"} /\ DropKey(p, obj[p]) =>
        cache' \in [Procs -> [Keys -> Indexes \cup {NoIndex}]]
  BY DropKeyType
<1>1. CASE CreateHba(p)
  BY <1>0, <1>c, <1>1, ZenonT(60) DEF CreateHba
<1>2. CASE LookupHba(p)
  BY <1>0, <1>c, <1>2, ZenonT(60) DEF LookupHba
<1>3. CASE HbaExistsAgain(p)
  BY <1>0, <1>3 DEF HbaExistsAgain
<1>3a. CASE MkdirHba(p)
  BY <1>0, <1>c, <1>3a, ZenonT(60) DEF MkdirHba
<1>4. CASE CreateObject(p)
  BY <1>0, <1>4, ZenonT(60) DEF CreateObject
<1>5. CASE LookupObject(p)
  BY <1>0, <1>5, ZenonT(60) DEF LookupObject
<1>6. CASE ObjectExistsAgain(p)
  BY <1>0, <1>6, ZenonT(60) DEF ObjectExistsAgain
<1>6a. CASE MkdirObject(p)
  BY <1>0, <1>6a, ZenonT(60) DEF MkdirObject
<1>7. CASE Configure(p)
  BY <1>0, <1>7, ZenonT(60) DEF Configure
<1>8. CASE Delete(p)
  BY <1>0, <1>8 DEF Delete
<1>9. CASE DeleteCheckSelf(p)
  BY <1>0, <1>9, ZenonT(60) DEF DeleteCheckSelf
<1>10. CASE ObjectExists(p)
  BY <1>0, <1>10 DEF ObjectExists
<1>11. CASE RmdirObject(p)
  BY <1>0, <1>11, ZenonT(60) DEF RmdirObject
<1>12. CASE BackstoreExists(p)
  <2>1. CASE Step(p, "bs2") /\ UNCHANGED cache
    BY <1>0, <1>12, <2>1 DEF BackstoreExists
  <2>2. CASE BackstoreDeleted(p)
    <3>1. cache' \in [Procs -> [Keys -> Indexes \cup {NoIndex}]]
      BY <1>c, <1>12, <2>2 DEF BackstoreExists, BackstoreDeleted
    <3>2. UNCHANGED <<hbas, sos, enabled, crashes>> /\ (Step(p, "clear") \/ End(p))
      BY <1>12, <2>2 DEF BackstoreExists, BackstoreDeleted
    <3> QED
      BY <3>1, <3>2, ZenonT(120)
  <2> QED
    BY <1>12, <2>1, <2>2 DEF BackstoreExists
<1>13. CASE RmdirBackstore(p)
  BY <1>0, <1>c, <1>13, ZenonT(60) DEF RmdirBackstore, BackstoreDeleted
<1>14. CASE StartClear(p)
  BY <1>0, <1>14 DEF StartClear
<1>15. CASE ClearNextObject(p)
  <2>1. ASSUME NEW h \in todo[p], NEW s \in ObjectsIn(h), Begin(p, s, "clear")
        PROVE  TypeInv'
    BY <1>15, <2>1 DEF ClearNextObject, ObjectsIn
  <2> QED
    BY <1>15, <2>1, ZenonT(60) DEF ClearNextObject
<1>16. CASE ClearNextHba(p)
  BY <1>0, <1>16, ZenonT(60) DEF ClearNextHba
<1>17. CASE InvalidateCaches(p)
  BY <1>0, <1>17 DEF InvalidateCaches
<1>18. CASE Crash(p)
  BY <1>0, <1>18 DEF Crash
<1> QED
  BY <1>1, <1>2, <1>3, <1>3a, <1>4, <1>5, <1>6, <1>6a, <1>7, <1>8, <1>9, <1>10,
     <1>11, <1>12, <1>13, <1>14, <1>15, <1>16, <1>17, <1>18, Zenon DEF LaterStep

LEMMA TypeInvariant == Spec => []TypeInv
<1>1. Init => TypeInv
  BY DEF Init, TypeInv, TypeOK, ObjectTyped, Modes, Steps
<1>2. TypeInv /\ [Next]_vars => TypeInv'
  <2> SUFFICES ASSUME TypeInv, [Next]_vars PROVE TypeInv'
    OBVIOUS
  <2>1. ASSUME NEW p \in Procs, NEW k \in Keys, NEW m \in {"create", "lookup"},
               OpenByName(p, k, m)
        PROVE  TypeInv'
    BY <2>1, TypeOpenByName
  <2>2. ASSUME NEW p \in Procs, NEW s \in Objects, NEW m \in {"create", "lookup"},
               OpenByIndex(p, s, m)
        PROVE  TypeInv'
    BY <2>2 DEF OpenByIndex, Begin, Goto, tree, TypeInv, TypeOK, ObjectTyped, Modes, Steps
  <2>3. ASSUME NEW p \in Procs, LaterStep(p)
        PROVE  TypeInv'
    BY <2>3, TypeLaterStep
  <2>4. CASE UNCHANGED vars
    BY <2>4 DEF vars, TypeInv, TypeOK, ObjectTyped
  <2> QED
    BY <2>1, <2>2, <2>3, <2>4 DEF Next, LaterStep
<1> QED
  BY <1>1, <1>2, PTL DEF Spec

(* Whatever the processes do, bs_cache only ever holds indexes of the pool *)
(* and configfs only directories named after it.                           *)
THEOREM TypeCorrect == Spec => []TypeOK
<1>1. TypeInv => TypeOK
  BY DEF TypeInv
<1> QED
  BY <1>1, TypeInvariant, PTL

-----------------------------------------------------------------------------
(* Empty backstores.  Only the steps that add a backstore, remove an       *)
(* object or let go of a backstore matter.                                 *)
Owns(p, h) ==
  pc[p] \in {"so", "so2", "mkso", "bs", "bs2"} /\ HbaOf(obj[p]) = h

(* A step of p keeps EmptyBackstoreOwned when each backstore it leaves is  *)
(* one it owns, or holds an object, or was there and is not disturbed.     *)
Guarded(p) ==
  /\ crashes' = crashes
  /\ \A q \in Procs \ {p} : pc'[q] = pc[q] /\ obj'[q] = obj[q]
  /\ \A h \in hbas' :
       \/ Owns(p, h)'
       \/ \E s \in sos' : HbaOf(s) = h
       \/ h \in hbas /\ ~Owns(p, h) /\ ObjectsIn(h) \subseteq sos'

LEMMA GuardedStep ==
  ASSUME EmptyBackstoreOwned, NEW p \in Procs, Guarded(p)
  PROVE  EmptyBackstoreOwned'
<1> SUFFICES ASSUME crashes = 0, NEW h \in hbas', ~ \E s \in sos' : HbaOf(s) = h, ~Owns(p, h)'
             PROVE  \E q \in Procs : Owns(q, h)'
  BY DEF EmptyBackstoreOwned, ObjectsIn, Owns, Guarded
<1>1. h \in hbas /\ ~Owns(p, h) /\ ObjectsIn(h) \subseteq sos'
  BY DEF Guarded
<1>2. ObjectsIn(h) = {}
  BY <1>1 DEF ObjectsIn
<1>3. PICK q \in Procs : Owns(q, h)
  BY <1>1, <1>2 DEF EmptyBackstoreOwned, Owns
<1>4. q # p /\ Owns(q, h)'
  BY <1>1, <1>3 DEF Guarded, Owns
<1> QED
  BY <1>4

LEMMA GuardedLaterStep ==
  ASSUME TypeInv, NEW p \in Procs, LaterStep(p), ~Crash(p)
  PROVE  Guarded(p)
<1> USE DEF Guarded, Owns, TypeInv, TypeOK, Goto, Step, End, Begin, Bound, tree,
            InConfigFS, ObjectsIn, BackstoreGone, FailToBackstoreDelete
<1>1. CASE CreateHba(p)
  BY <1>1 DEF CreateHba
<1>2. CASE LookupHba(p)
  BY <1>2 DEF LookupHba
<1>3. CASE HbaExistsAgain(p)
  BY <1>3 DEF HbaExistsAgain
<1>3a. CASE MkdirHba(p)
  BY <1>3a DEF MkdirHba
<1>4. CASE CreateObject(p)
  BY <1>4 DEF CreateObject
<1>5. CASE LookupObject(p)
  BY <1>5 DEF LookupObject
<1>6. CASE ObjectExistsAgain(p)
  BY <1>6 DEF ObjectExistsAgain
<1>6a. CASE MkdirObject(p)
  BY <1>6a DEF MkdirObject
<1>7. CASE Configure(p)
  BY <1>7 DEF Configure
<1>8. CASE Delete(p)
  BY <1>8 DEF Delete, Ready, MayStart
<1>9. CASE DeleteCheckSelf(p)
  BY <1>9 DEF DeleteCheckSelf
<1>10. CASE ObjectExists(p)
  BY <1>10 DEF ObjectExists
<1>11. CASE RmdirObject(p)
  BY <1>11 DEF RmdirObject
<1>12. CASE BackstoreExists(p)
  BY <1>12 DEF BackstoreExists, BackstoreDeleted
<1>13. CASE RmdirBackstore(p)
  BY <1>13 DEF RmdirBackstore, BackstoreDeleted
<1>14. CASE StartClear(p)
  BY <1>14 DEF StartClear, Ready, MayStart
<1>15. CASE ClearNextObject(p)
  BY <1>15 DEF ClearNextObject
<1>16. CASE ClearNextHba(p)
  BY <1>16 DEF ClearNextHba
<1>17. CASE InvalidateCaches(p)
  BY <1>17 DEF InvalidateCaches, Ready
<1> QED
  BY <1>1, <1>2, <1>3, <1>3a, <1>4, <1>5, <1>6, <1>6a, <1>7, <1>8, <1>9, <1>10,
     <1>11, <1>12, <1>13, <1>14, <1>15, <1>16, <1>17, Zenon DEF LaterStep

LEMMA GuardedOpen ==
  ASSUME TypeInv, NEW p \in Procs, NEW k, NEW s, NEW m,
         OpenByName(p, k, m) \/ OpenByIndex(p, s, m)
  PROVE  Guarded(p)
<1>1. Ready(p) /\ UNCHANGED <<hbas, sos, enabled, crashes>>
  BY DEF OpenByName, OpenByIndex, MayStart, tree
<1>2. End(p) \/ \E t : Begin(p, t, m)
  BY Zenon DEF OpenByName, OpenByIndex
<1> QED
  BY <1>1, <1>2 DEF End, Begin, Goto, Ready, Guarded, Owns, ObjectsIn, TypeInv, TypeOK

LEMMA EmptyBackstoreInvariant == Spec => []EmptyBackstoreOwned
<1>1. Init => EmptyBackstoreOwned
  BY DEF Init, EmptyBackstoreOwned
<1>2. TypeInv /\ EmptyBackstoreOwned /\ [Next]_vars => EmptyBackstoreOwned'
  <2> SUFFICES ASSUME TypeInv, EmptyBackstoreOwned, [Next]_vars
               PROVE  EmptyBackstoreOwned'
    OBVIOUS
  <2>1. ASSUME NEW p \in Procs, Guarded(p)
        PROVE  EmptyBackstoreOwned'
    BY <2>1, GuardedStep
  <2>2. ASSUME NEW p \in Procs, Crash(p)
        PROVE  EmptyBackstoreOwned'
    BY <2>2 DEF Crash, EmptyBackstoreOwned, TypeInv, TypeOK
  <2>3. CASE UNCHANGED vars
    BY <2>3 DEF vars, EmptyBackstoreOwned, ObjectsIn
  <2> QED
    BY <2>1, <2>2, <2>3, GuardedOpen, GuardedLaterStep DEF Next, LaterStep
<1> QED
  BY <1>1, <1>2, TypeInvariant, PTL DEF Spec

(* Any number of processes may create, look up, delete and clear storage   *)
(* objects at the same time, in any interleaving: when their calls are     *)
(* over and none has died, no backstore directory is left without an       *)
(* object.                                                                 *)
THEOREM NoEmptyBackstoreLeft == Spec => []NoEmptyBackstore
<1>1. EmptyBackstoreOwned => NoEmptyBackstore
  BY DEF EmptyBackstoreOwned, NoEmptyBackstore, Ready
<1> QED
  BY <1>1, EmptyBackstoreInvariant, PTL

-----------------------------------------------------------------------------
(* When the processes coordinate: each waits for the others' calls to end  *)
(* and the others call invalidate_caches() before it starts (a lone        *)
(* process is the special case), and no caller chooses the index of a new  *)
(* backstore.  Crashes may happen at any step.                             *)

(* The conjuncts of TurnInv that are about configfs alone. *)
TreeInv ==
  /\ \A s \in sos : HbaOf(s) \in hbas
  /\ NameUnique
  /\ \A s, t \in sos : s[2] = t[2] => s = t
  /\ enabled \subseteq sos

(* Only p can have an object in the making. *)
HalfBuilt(p) ==
  crashes = 0 =>
    \A s \in sos \ enabled : obj[p] = s /\ pc[p] \in {"conf", "del", "rmso", "rmso2"}

(* It is p's turn. *)
Alone(p) == \A q \in Procs \ {p} : Ready(q) /\ CacheEmpty(q)

Turn(p) == Alone(p) /\ TreeInv /\ CallInv(p) /\ HalfBuilt(p)

OnlyStep(p) == \A q \in Procs \ {p} : pc'[q] = pc[q] /\ cache'[q] = cache[q]

LEMMA TurnOf ==
  ASSUME TurnInv, NEW p \in Procs, Alone(p)
  PROVE  Turn(p)
<1>1. TreeInv /\ CallInv(p)
  BY DEF TurnInv, TreeInv
<1>2. HalfBuilt(p)
  BY DEF TurnInv, HalfBuilt, Alone, Ready
<1> QED
  BY <1>1, <1>2 DEF Turn

LEMMA BusyAlone ==
  ASSUME TurnInv, NEW p \in Procs, ~Ready(p)
  PROVE  Alone(p)
BY DEF TurnInv, TakeTurns, Busy, Alone

LEMMA TurnStep ==
  ASSUME NEW p \in Procs, Alone(p), OnlyStep(p), TreeInv', CallInv(p)', HalfBuilt(p)'
  PROVE  TurnInv'
<1>1. \A q \in Procs \ {p} : Ready(q)' /\ CacheEmpty(q)'
  BY DEF Alone, OnlyStep, Ready, CacheEmpty
<1>2. \A q \in Procs \ {p} : CallInv(q)'
  BY <1>1 DEF Ready, CallInv, Constructing
<1>3. TakeTurns'
  BY <1>1 DEF TakeTurns, Busy
<1> QED
  BY <1>2, <1>3 DEF TurnInv, TreeInv, HalfBuilt

-----------------------------------------------------------------------------
(* The steps of a call.  Each keeps Turn(p) up to Alone. *)
Kept(p) == OnlyStep(p) /\ TreeInv' /\ CallInv(p)' /\ HalfBuilt(p)'

(* What bs_cache tells depends on itself and on the storage objects alone. *)
LEMMA SameTold ==
  ASSUME NEW p \in Procs, UNCHANGED <<sos, cache[p]>>
  PROVE  /\ CacheEmpty(p)' <=> CacheEmpty(p)
         /\ \A K : Tells(cache[p], K)' <=> Tells(cache[p], K)
BY DEF CacheEmpty, Tells

(* Dropping the key of the object that is gone makes the cache tell all. *)
LEMMA DropTells ==
  ASSUME TypeInv, NEW p \in Procs, obj[p] \in Objects, DropKey(p, obj[p]), UNCHANGED sos,
         \A s \in sos : KeyOf(s) # KeyOf(obj[p]),
         CacheEmpty(p) \/ Tells(cache[p], {KeyOf(obj[p])})
  PROVE  /\ CacheEmpty(p)' \/ Tells(cache[p], {})'
         /\ \A q \in Procs \ {p} : cache'[q] = cache[q]
<1>1. /\ \A q \in Procs \ {p} : cache'[q] = cache[q]
      /\ \A k \in Keys : cache'[p][k] = IF k = KeyOf(obj[p]) THEN NoIndex ELSE cache[p][k]
  BY DropKeyType
<1>2. CASE CacheEmpty(p)
  BY <1>1, <1>2 DEF CacheEmpty
<1>3. CASE Tells(cache[p], {KeyOf(obj[p])})
  <2> SUFFICES ASSUME NEW k \in Keys, NEW i \in Indexes
               PROVE  cache'[p][k] = i <=> <<k[1], i, k[2]>> \in sos'
    BY <1>1 DEF Tells
  <2>1. CASE k = KeyOf(obj[p])
    <3>1. KeyOf(<<k[1], i, k[2]>>) = k
      BY DEF KeyOf, Keys
    <3> QED
      BY <1>1, <2>1, <3>1, IndexFacts
  <2>2. CASE k # KeyOf(obj[p])
    BY <1>1, <1>3, <2>2 DEF Tells
  <2> QED
    BY <2>1, <2>2
<1> QED
  BY <1>1, <1>2, <1>3

(* The steps of a constructor that leave all but the backstore alone. *)
LEMMA KeptConstructing ==
  ASSUME NEW p \in Procs, Turn(p), OnlyStep(p),
         UNCHANGED <<sos, enabled, cache, crashes, obj, mode>>, hbas \subseteq hbas',
         pc[p] \in Constructing, pc'[p] \in Constructing,
         mode[p] = "create" \/ pc'[p] \notin {"mkhba", "mkso"},
         pc'[p] \in {"so", "so2", "mkso"} => HbaOf(obj[p]) \in hbas'
  PROVE  Kept(p)
<1>0. TreeInv /\ CallInv(p) /\ HalfBuilt(p)
  BY Zenon DEF Turn
<1>1. TreeInv'
  BY <1>0, Zenon DEF TreeInv, NameUnique
<1>2. CallInv(p)'
  <2>1. pc'[p] \notin {"conf", "del", "rmso", "rmso2", "bs", "bs2"}
        /\ pc[p] \notin {"conf", "del", "rmso", "rmso2", "bs", "bs2"}
    BY DEF Constructing
  <2>2. CASE mode[p] = "create"
    BY <1>0, <2>1, <2>2, SameTold, ZenonT(60) DEF CallInv
  <2>3. CASE mode[p] # "create"
    BY <1>0, <2>1, <2>3, SameTold, ZenonT(60) DEF CallInv
  <2> QED
    BY <2>2, <2>3
<1>3. HalfBuilt(p)'
  <2>1. pc[p] \notin {"conf", "del", "rmso", "rmso2"}
    BY DEF Constructing
  <2> QED
    BY <1>0, <2>1, Zenon DEF HalfBuilt
<1> QED
  BY <1>1, <1>2, <1>3 DEF Kept

(* The backstore's constructor raises. *)
LEMMA KeptGiveUp ==
  ASSUME TypeInv, NEW p \in Procs, Turn(p), obj[p] \in Objects,
         pc[p] \in Constructing, mode[p] = "create",
         DropKey(p, obj[p]), End(p), UNCHANGED <<hbas, sos, enabled, crashes>>
  PROVE  Kept(p)
<1>1. /\ CacheEmpty(p)' \/ Tells(cache[p], {})'
      /\ \A q \in Procs \ {p} : cache'[q] = cache[q]
  BY DropTells, Zenon DEF Turn, CallInv
<1>2. pc'[p] = "idle" /\ OnlyStep(p)
  BY <1>1 DEF OnlyStep, End, Goto, TypeInv, TypeOK
<1>3. TreeInv'
  BY Zenon DEF Turn, TreeInv, NameUnique
<1>4. CallInv(p)'
  BY <1>1, <1>2, Zenon DEF CallInv, Constructing
<1>5. HalfBuilt(p)'
  <2>1. pc[p] \notin {"conf", "del", "rmso", "rmso2"}
    BY DEF Constructing
  <2> QED
    BY <2>1, Zenon DEF Turn, HalfBuilt
<1> QED
  BY <1>2, <1>3, <1>4, <1>5 DEF Kept

LEMMA KeptHba ==
  ASSUME TypeInv, NEW p \in Procs, Turn(p),
         CreateHba(p) \/ LookupHba(p) \/ HbaExistsAgain(p) \/ MkdirHba(p)
  PROVE  Kept(p)
<1>0. /\ obj[p] \in Objects /\ pc[p] \in Constructing
      /\ UNCHANGED <<sos, enabled, crashes>>
      /\ mode[p] # "create" => HbaOf(obj[p]) \in hbas
  <2>1. pc[p] \in {"hba", "hba2", "mkhba"} /\ UNCHANGED <<sos, enabled, crashes>>
    BY Zenon DEF CreateHba, LookupHba, HbaExistsAgain, MkdirHba, tree
  <2> QED
    BY <2>1 DEF TypeInv, ObjectTyped, Turn, CallInv, TreeInv, Constructing
<1>1. ASSUME NEW step \in Constructing, Step(p, step), UNCHANGED cache, hbas \subseteq hbas',
             mode[p] = "create" \/ step \notin {"mkhba", "mkso"},
             step = "so" => HbaOf(obj[p]) \in hbas', step \notin {"so2", "mkso"}
      PROVE  Kept(p)
  <2>1. pc'[p] = step /\ OnlyStep(p) /\ UNCHANGED <<obj, mode>>
    BY <1>1 DEF Step, Goto, OnlyStep, TypeInv, TypeOK
  <2> QED
    BY <1>0, <1>1, <2>1, KeptConstructing
<1>2. CASE CreateHba(p)
  <2>1. CASE DropKey(p, obj[p]) /\ End(p) /\ UNCHANGED hbas
    BY <1>0, <1>2, <2>1, KeptGiveUp DEF CreateHba
  <2>2. CASE HbaOf(obj[p]) \notin hbas /\ hbas' = hbas \ {HbaOf(obj[p])} /\ Step(p, "hba2")
             /\ UNCHANGED cache
    BY <1>1, <2>2 DEF Constructing
  <2> QED
    BY <1>2, <2>1, <2>2 DEF CreateHba, HbaEntries
<1>3. CASE LookupHba(p)
  BY <1>0, <1>1, <1>3 DEF LookupHba, Constructing, tree
<1>4. CASE HbaExistsAgain(p)
  BY <1>0, <1>1, <1>4 DEF HbaExistsAgain, Constructing, tree
<1>5. CASE MkdirHba(p)
  <2>1. mode[p] = "create"
    BY <1>0, <1>5 DEF MkdirHba, Turn, CallInv
  <2>2. CASE DropKey(p, obj[p]) /\ End(p) /\ UNCHANGED hbas
    BY <1>0, <2>1, <2>2, KeptGiveUp
  <2>3. CASE hbas' = hbas \cup {HbaOf(obj[p])} /\ Step(p, "so") /\ UNCHANGED cache
    BY <1>1, <2>1, <2>3 DEF Constructing
  <2> QED
    BY <1>5, <2>2, <2>3 DEF MkdirHba
<1> QED
  BY <1>2, <1>3, <1>4, <1>5

LEMMA ObjectKey ==
  ASSUME NEW s \in Objects, NEW k \in Keys, NEW i \in Indexes
  PROVE  <<k[1], i, k[2]>> = s <=> k = KeyOf(s) /\ i = s[2]
BY ObjectParts DEF Keys, KeyOf

(* What p knows after a step that changes neither configfs nor bs_cache.   *)
LEMMA KeptIdle ==
  ASSUME NEW p \in Procs, Turn(p), OnlyStep(p), UNCHANGED <<hbas, sos, enabled, cache, crashes>>,
         pc'[p] \in {"idle", "held", "clear", "clearhba"},
         pc[p] \notin {"hba", "hba2", "mkhba", "so", "so2", "mkso", "bs", "bs2"},
         pc[p] \in {"conf", "del", "rmso", "rmso2"} => obj[p] \notin sos \/ obj[p] \in enabled
  PROVE  Kept(p)
<1>1. TreeInv'
  BY SMTT(60) DEF Turn, TreeInv, NameUnique
<1>2. CallInv(p)'
  BY SameTold DEF Turn, CallInv, Constructing
<1>3. HalfBuilt(p)'
  BY DEF Turn, HalfBuilt
<1> QED
  BY <1>1, <1>2, <1>3 DEF Kept

LEMMA KeptQuietStep ==
  ASSUME TypeInv, NEW p \in Procs, Turn(p),
         \/ Delete(p) \/ DeleteCheckSelf(p) \/ ObjectExists(p) \/ StartClear(p)
         \/ ClearNextObject(p)
  PROVE  Kept(p)
<1>a. CallInv(p) /\ HalfBuilt(p) /\ \A s \in sos : HbaOf(s) \in hbas
  BY Zenon DEF Turn, TreeInv
<1>b. UNCHANGED <<hbas, sos, enabled, cache, crashes>>
  BY Zenon DEF Delete, DeleteCheckSelf, ObjectExists, StartClear, ClearNextObject, tree
<1>c. TreeInv'
  BY <1>b, Zenon DEF Turn, TreeInv, NameUnique
<1>4. CASE Delete(p)
  <2>1. pc[p] = "held" /\ pc'[p] = "del" /\ mode'[p] = "delete" /\ UNCHANGED obj /\ OnlyStep(p)
    BY <1>4, ZenonT(60) DEF Delete, OnlyStep, Goto, Step, TypeInv, TypeOK
  <2> QED
    BY <1>a, <1>b, <1>c, <2>1, SameTold, Zenon DEF CallInv, Constructing, HalfBuilt, Kept
<1>5. CASE DeleteCheckSelf(p) /\ obj[p] \in sos
  <2>1. pc[p] = "del" /\ pc'[p] = "rmso" /\ UNCHANGED <<obj, mode>> /\ OnlyStep(p)
    BY <1>5 DEF DeleteCheckSelf, OnlyStep, Goto, Step, TypeInv, TypeOK
  <2> QED
    BY <1>a, <1>b, <1>c, <1>5, <2>1, SameTold, Zenon DEF CallInv, Constructing, HalfBuilt, Kept
<1>6. CASE DeleteCheckSelf(p) /\ obj[p] \notin sos
  <2>1. pc[p] = "del" /\ pc'[p] = "idle" /\ OnlyStep(p)
    BY <1>6, Zenon DEF DeleteCheckSelf, End, OnlyStep, Goto, Step, TypeInv, TypeOK
  <2> QED
    BY <1>b, <1>6, <2>1, KeptIdle
<1>7. CASE ObjectExists(p)
  <2>1. pc[p] = "rmso" /\ pc'[p] = "rmso2" /\ UNCHANGED <<obj, mode>> /\ OnlyStep(p)
    BY <1>a, <1>b, <1>c, <1>7, Zenon DEF ObjectExists, CallInv, OnlyStep, Goto, Step, TypeInv, TypeOK
  <2> QED
    BY <1>a, <1>b, <1>c, <2>1, SameTold, Zenon DEF CallInv, Constructing, HalfBuilt, Kept
<1>8. CASE StartClear(p)
  <2>1. pc[p] \in {"idle", "held"} /\ pc'[p] = "clear" /\ OnlyStep(p)
    BY <1>8 DEF StartClear, MayStart, Ready, OnlyStep, Goto, Step, TypeInv, TypeOK
  <2> QED
    BY <1>b, <2>1, KeptIdle
<1>9. CASE ClearNextObject(p)
  <2>1. pc[p] = "clear"
    BY <1>9, ZenonT(60) DEF ClearNextObject
  <2>2. CASE \E s \in sos : Begin(p, s, "clear")
    <3>1. PICK s \in sos : Begin(p, s, "clear")
      BY <2>2
    <3>2. pc'[p] = "hba" /\ obj'[p] = s /\ mode'[p] = "clear" /\ OnlyStep(p)
      BY <1>b, <3>1, ZenonT(60) DEF Begin, OnlyStep, Goto, Step, TypeInv, TypeOK
    <3> QED
      BY <1>a, <1>b, <1>c, <2>1, <3>2, SameTold DEF CallInv, Constructing, HalfBuilt, Kept
  <2>3. CASE pc' = pc \/ Goto(p, "clearhba")
    <3>1. pc'[p] \in {"clear", "clearhba"} /\ OnlyStep(p)
      BY <1>b, <2>1, <2>3 DEF OnlyStep, Goto, Step, TypeInv, TypeOK
    <3> QED
      BY <1>b, <2>1, <3>1, KeptIdle, Zenon
  <2> QED
    BY <1>9, <2>2, <2>3 DEF ClearNextObject, ObjectsIn
<1> QED
  BY <1>4, <1>5, <1>6, <1>7, <1>8, <1>9

(* The storage object's own _create_in_cfs_ine. *)
LEMMA KeptObject ==
  ASSUME TypeInv, NEW p \in Procs, Turn(p),
         CreateObject(p) \/ LookupObject(p) \/ ObjectExistsAgain(p) \/ MkdirObject(p)
  PROVE  Kept(p)
<1>0. /\ obj[p] \in Objects /\ pc[p] \in {"so", "so2", "mkso"} /\ pc[p] \in Constructing
      /\ UNCHANGED <<hbas, enabled, cache, crashes>>
      /\ HbaOf(obj[p]) \in hbas
      /\ mode[p] # "create" => obj[p] \in sos
      /\ mode[p] = "create" => \A s \in sos : KeyOf(s) # KeyOf(obj[p]) /\ s[2] # obj[p][2]
  <2>1. pc[p] \in {"so", "so2", "mkso"} /\ UNCHANGED <<hbas, enabled, cache, crashes>>
    BY Zenon DEF CreateObject, LookupObject, ObjectExistsAgain, MkdirObject, tree
  <2> QED
    BY <2>1 DEF TypeInv, ObjectTyped, Turn, CallInv, Constructing
<1>1. ASSUME NEW step \in {"so2", "mkso"}, Step(p, step), UNCHANGED sos,
             mode[p] = "create" \/ step # "mkso"
      PROVE  Kept(p)
  <2>1. pc'[p] = step /\ OnlyStep(p) /\ UNCHANGED <<obj, mode>>
    BY <1>0, <1>1 DEF Step, Goto, OnlyStep, TypeInv, TypeOK
  <2> QED
    BY <1>0, <1>1, <2>1, KeptConstructing DEF Constructing
<1>2. CASE CreateObject(p)
  BY <1>0, <1>1, <1>2 DEF CreateObject, BackstoreGone, tree
<1>3. CASE LookupObject(p)
  BY <1>0, <1>1, <1>3 DEF LookupObject, BackstoreGone, tree
<1>4. CASE ObjectExistsAgain(p) /\ mode[p] = "create"
  BY <1>0, <1>1, <1>4 DEF ObjectExistsAgain, tree
<1>5. CASE ObjectExistsAgain(p) /\ mode[p] # "create"
  <2>1. /\ pc'[p] = (IF mode[p] = "clear" THEN "del" ELSE "held")
        /\ UNCHANGED <<sos, obj, mode>> /\ OnlyStep(p)
    BY <1>0, <1>5, Zenon
    DEF ObjectExistsAgain, InConfigFS, Bound, OnlyStep, Goto, Step, tree, TypeInv, TypeOK
  <2>2. mode[p] = "clear" => pc'[p] = "del" /\ mode[p] # "lookup"
    BY <2>1
  <2>3. TreeInv'
    BY <1>0, <2>1, Zenon DEF Turn, TreeInv, NameUnique
  <2>4. CallInv(p)'
    BY <1>0, <1>5, <2>1, <2>2, SameTold, ZenonT(60) DEF Turn, CallInv, Constructing
  <2>5. HalfBuilt(p)'
    BY <1>0, <2>1, Zenon DEF Turn, HalfBuilt
  <2> QED
    BY <2>1, <2>3, <2>4, <2>5, Zenon DEF Kept
<1>6. CASE MkdirObject(p)
  <2>1. mode[p] = "create"
    BY <1>6 DEF MkdirObject, Turn, CallInv, Constructing
  <2>2. /\ cache[p][KeyOf(obj[p])] = obj[p][2]
        /\ Tells(cache[p], {KeyOf(obj[p])})
    BY <1>0, <2>1, Zenon DEF Turn, CallInv
  <2>3. CASE sos' = sos \cup {obj[p]} /\ Step(p, "conf")
    <3>1. Tells(cache[p], {})'
      <4> SUFFICES ASSUME NEW k \in Keys, NEW i \in Indexes
                   PROVE  cache[p][k] = i <=> <<k[1], i, k[2]>> \in sos'
        BY <1>0, ZenonT(60) DEF Tells
      <4>1. CASE k = KeyOf(obj[p])
        <5>1. KeyOf(<<k[1], i, k[2]>>) = k
          BY DEF KeyOf, Keys
        <5> QED
          BY <1>0, <2>1, <2>2, <2>3, <4>1, <5>1, ObjectKey
      <4>2. CASE k # KeyOf(obj[p])
        BY <1>0, <2>2, <2>3, <4>2, ObjectKey DEF Tells
      <4> QED
        BY <4>1, <4>2
    <3>2. TreeInv'
      BY <1>0, <2>1, <2>3, SMTT(90) DEF Turn, TreeInv, NameUnique
    <3>3. pc'[p] = "conf" /\ OnlyStep(p) /\ UNCHANGED <<obj, mode>>
      BY <1>0, <2>3 DEF Step, Goto, OnlyStep, TypeInv, TypeOK
    <3>4. CallInv(p)'
      BY <1>0, <2>1, <2>3, <3>1, <3>3, Zenon DEF CallInv, Constructing
    <3>5. HalfBuilt(p)'
      BY <1>0, <2>3, <3>3 DEF Turn, HalfBuilt
    <3> QED
      BY <3>2, <3>3, <3>4, <3>5, Zenon DEF Kept
  <2>4. CASE FailToBackstoreDelete(p) /\ UNCHANGED sos
    <3>1. pc'[p] = "bs" /\ OnlyStep(p) /\ UNCHANGED <<obj, mode>>
      BY <1>0, <2>4 DEF FailToBackstoreDelete, Goto, OnlyStep, TypeInv, TypeOK
    <3>2. TreeInv'
      BY <1>0, <2>4, Zenon DEF Turn, TreeInv, NameUnique
    <3>3. CallInv(p)'
      BY <1>0, <2>1, <2>2, <2>4, <3>1, SameTold, ZenonT(60) DEF CallInv, Constructing
    <3>4. HalfBuilt(p)'
      BY <1>0, <2>4, <3>1, Zenon DEF Turn, HalfBuilt
    <3> QED
      BY <3>1, <3>2, <3>3, <3>4, Zenon DEF Kept
  <2> QED
    BY <1>6, <2>1, <2>3, <2>4, Zenon DEF MkdirObject, InConfigFS
<1> QED
  BY <1>2, <1>3, <1>4, <1>5, <1>6

(* The other steps that leave bs_cache alone. *)
LEMMA KeptUncachedStep ==
  ASSUME TypeInv, NEW p \in Procs, Turn(p),
         Configure(p) \/ RmdirObject(p) \/ ClearNextHba(p)
  PROVE  Kept(p)
<1> USE DEF Turn, Kept, OnlyStep, TreeInv, NameUnique, CallInv, HalfBuilt, Step, Goto,
            End, FailToBackstoreDelete, BackstoreGone, Tells, CacheEmpty, TypeInv, TypeOK
<1>3. CASE Configure(p)
  <2> HIDE DEF Turn, Kept, TreeInv, CallInv, HalfBuilt, Tells, CacheEmpty
  <2>0. /\ pc[p] = "conf" /\ obj[p] \in sos /\ mode[p] # "lookup"
        /\ UNCHANGED <<hbas, sos, cache, crashes, obj, mode>>
        /\ enabled \subseteq sos /\ enabled' \in {enabled, enabled \cup {obj[p]}}
        /\ pc'[p] \in {"del", "held"} /\ OnlyStep(p)
        /\ pc'[p] = "held" => obj[p] \in enabled'
    BY <1>3 DEF Configure, Bound, Turn, TreeInv, CallInv
  <2>1. TreeInv'
    BY <2>0, Zenon DEF Turn, TreeInv
  <2>2. CallInv(p)'
    BY <2>0, SameTold DEF Turn, CallInv, Constructing
  <2>3. HalfBuilt(p)'
    BY <2>0 DEF Turn, HalfBuilt
  <2> QED
    BY <2>0, <2>1, <2>2, <2>3, Zenon DEF Kept
<1>4. CASE RmdirObject(p)
  <2>0. /\ obj[p] \in Objects /\ obj[p] \in sos /\ pc[p] = "rmso2" /\ mode[p] # "lookup"
        /\ UNCHANGED <<hbas, cache, crashes>>
    BY <1>4, ZenonT(60) DEF RmdirObject, ObjectTyped
  <2>1. CASE sos' = sos \ {obj[p]} /\ enabled' = enabled \ {obj[p]} /\ Step(p, "bs")
    <3>1. CacheEmpty(p)' \/ Tells(cache[p], {KeyOf(obj[p])})'
      <4>1. CASE CacheEmpty(p)
        BY <2>0, <4>1, ZenonT(60)
      <4>2. CASE Tells(cache[p], {})
        BY <2>0, <2>1, <4>2, ObjectKey
      <4> QED
        BY <2>0, <4>1, <4>2, ZenonT(60)
    <3>2. TreeInv' /\ \A s \in sos' : KeyOf(s) # KeyOf(obj[p]) /\ s[2] # obj[p][2]
      BY <2>0, <2>1, ZenonT(120)
    <3>3. pc'[p] = "bs" /\ obj'[p] = obj[p] /\ mode'[p] = mode[p] /\ OnlyStep(p)
      BY <2>0, <2>1
    <3>4. HalfBuilt(p)'
      BY <2>0, <2>1, <3>3, Zenon
    <3> HIDE DEF Turn, TreeInv, HalfBuilt, OnlyStep, Tells, CacheEmpty
    <3> QED
      BY <2>0, <3>1, <3>2, <3>3, <3>4, Zenon DEF Constructing
  <2>2. CASE End(p) /\ UNCHANGED <<sos, enabled>> /\ obj[p] \in enabled
    <3>1. pc'[p] = "idle" /\ OnlyStep(p)
      BY <2>0, <2>2
    <3> HIDE DEF Turn, Kept, OnlyStep
    <3> QED
      BY <2>0, <2>2, <3>1, KeptIdle, Zenon
  <2> QED
    BY <1>4, <2>0, <2>1, <2>2, ZenonT(60) DEF RmdirObject
<1>5. CASE ClearNextHba(p)
  <2> HIDE DEF Turn, Kept, TreeInv, CallInv, HalfBuilt, Tells, CacheEmpty
  <2>0. pc[p] = "clearhba" /\ UNCHANGED <<sos, enabled, cache, crashes>>
    BY <1>5 DEF ClearNextHba
  <2>1. CASE End(p) /\ UNCHANGED hbas
    <3>1. pc'[p] = "idle" /\ OnlyStep(p)
      BY <2>0, <2>1
    <3> HIDE DEF OnlyStep
    <3> QED
      BY <2>0, <2>1, <3>1, KeptIdle, Zenon
  <2>2. ASSUME NEW h, ObjectsIn(h) = {}, hbas' = hbas \ {h}, UNCHANGED <<pc, obj, mode>>
        PROVE  Kept(p)
    <3>1. TreeInv'
      BY <2>0, <2>2, Zenon DEF Turn, TreeInv, ObjectsIn
    <3>2. CallInv(p)' /\ HalfBuilt(p)'
      BY <2>0, <2>2, SameTold DEF Turn, CallInv, HalfBuilt
    <3> QED
      BY <2>0, <2>2, <3>1, <3>2 DEF Kept
  <2> QED
    BY <1>5, <2>1, <2>2, ZenonT(60) DEF ClearNextHba
<1> QED
  BY <1>3, <1>4, <1>5, ZenonT(60)

LEMMA KeptBackstoreDelete ==
  ASSUME TypeInv, NEW p \in Procs, Turn(p), BackstoreExists(p) \/ RmdirBackstore(p)
  PROVE  Kept(p)
<1>0. /\ obj[p] \in Objects /\ pc[p] \in {"bs", "bs2"} /\ UNCHANGED <<sos, enabled, crashes>>
      /\ \A s \in sos : KeyOf(s) # KeyOf(obj[p]) /\ s[2] # obj[p][2]
      /\ CacheEmpty(p) \/ Tells(cache[p], {KeyOf(obj[p])})
  BY Zenon DEF BackstoreExists, RmdirBackstore, TypeInv, ObjectTyped, Turn, CallInv, tree
<1>1. ASSUME BackstoreDeleted(p), hbas' = hbas \ {HbaOf(obj[p])}
      PROVE  Kept(p)
  <2>1. /\ CacheEmpty(p)' \/ Tells(cache[p], {})'
        /\ \A q \in Procs \ {p} : cache'[q] = cache[q]
    BY <1>0, <1>1, DropTells, ZenonT(60) DEF BackstoreDeleted
  <2>2. Step(p, "clear") \/ End(p)
    BY <1>1, Zenon DEF BackstoreDeleted
  <2>3. \A q \in Procs \ {p} : pc'[q] = pc[q]
    BY <2>2 DEF Step, End, Goto, TypeInv, TypeOK
  <2>4. pc'[p] \in {"clear", "idle"}
    BY <2>2, Zenon DEF Step, End, Goto, TypeInv, TypeOK
  <2>5. TreeInv'
    <3>1. \A s \in sos : HbaOf(s) # HbaOf(obj[p])
      BY <1>0, Zenon DEF HbaOf
    <3> QED
      BY <1>0, <1>1, <3>1, Zenon DEF Turn, TreeInv, NameUnique
  <2>6. CallInv(p)'
    BY <2>1, <2>4, Zenon DEF CallInv, Constructing
  <2>7. HalfBuilt(p)'
    BY <1>0, Zenon DEF Turn, HalfBuilt
  <2> QED
    BY <2>1, <2>3, <2>5, <2>6, <2>7, Zenon DEF Kept, OnlyStep
<1>2. CASE BackstoreExists(p) /\ HbaOf(obj[p]) \in hbas
  <2>1. /\ pc[p] = "bs" /\ pc'[p] = "bs2" /\ OnlyStep(p)
        /\ UNCHANGED <<hbas, sos, enabled, cache, crashes, obj, mode>>
    BY <1>2, Zenon DEF BackstoreExists, OnlyStep, Step, Goto, tree, TypeInv, TypeOK
  <2>2. TreeInv' /\ HalfBuilt(p)'
    BY <2>1 DEF Turn, TreeInv, NameUnique, HalfBuilt
  <2>3. CallInv(p)'
    BY <1>2, <2>1, SameTold, ZenonT(60) DEF Turn, CallInv, Constructing
  <2> QED
    BY <2>1, <2>2, <2>3 DEF Kept
<1>3. CASE BackstoreExists(p) /\ HbaOf(obj[p]) \notin hbas
  BY <1>1, <1>3 DEF BackstoreExists, tree
<1>4. CASE RmdirBackstore(p)
  <2>1. HbaOf(obj[p]) \in hbas /\ ObjectsIn(HbaOf(obj[p])) = {}
    BY <1>0, <1>4, Zenon DEF RmdirBackstore, Turn, CallInv, ObjectsIn, HbaOf
  <2> QED
    BY <1>1, <1>4, <2>1, ZenonT(60) DEF RmdirBackstore
<1> QED
  BY <1>2, <1>3, <1>4, Zenon

-----------------------------------------------------------------------------
(* The start of a constructor call. *)

(* A scan of a tree with unique names, or the cache of a process whose     *)
(* turn it is, tells all.                                                  *)
LEMMA ContentsTell ==
  ASSUME TypeInv, NEW p \in Procs, Turn(p), Ready(p), NEW c \in CacheContents(p)
  PROVE  Tells(c, {})
<1>1. CASE CacheEmpty(p)
  <2> SUFFICES ASSUME NEW k \in Keys, NEW i \in Indexes
               PROVE  c[k] = i <=> <<k[1], i, k[2]>> \in sos
    BY Zenon DEF Tells
  <2>1. c \in Scans
    BY <1>1 DEF CacheContents
  <2>2. \A j : KeyOf(<<k[1], j, k[2]>>) = k
    BY DEF KeyOf, Keys
  <2>3. CASE \E s \in sos : KeyOf(s) = k
    <3>1. <<k[1], c[k], k[2]>> \in sos
      BY <2>1, <2>3, Zenon DEF Scans
    <3>2. <<k[1], i, k[2]>> \in sos => <<k[1], i, k[2]>> = <<k[1], c[k], k[2]>>
      BY <2>2, <3>1 DEF Turn, TreeInv, NameUnique
    <3> QED
      BY <3>1, <3>2
  <2>4. CASE ~ \E s \in sos : KeyOf(s) = k
    BY <2>1, <2>2, <2>4, IndexFacts, ZenonT(60) DEF Scans
  <2> QED
    BY <2>3, <2>4
<1>2. CASE ~CacheEmpty(p)
  BY <1>2 DEF CacheContents, Turn, CallInv, Constructing, Ready
<1> QED
  BY <1>1, <1>2

LEMMA KeptOpenByName ==
  ASSUME TypeInv, NEW p \in Procs, Turn(p), NEW k \in Keys, NEW m \in {"create", "lookup"},
         OpenByName(p, k, m)
  PROVE  Kept(p)
<1>1. PICK c \in CacheContents(p) :
         \/ /\ c[k] # NoIndex /\ m = "lookup"
            /\ cache' = [cache EXCEPT ![p] = c]
            /\ Begin(p, <<k[1], c[k], k[2]>>, m)
         \/ /\ c[k] = NoIndex /\ m = "create"
            /\ \E i \in FreeIndexes(c) :
                 /\ \A j \in FreeIndexes(c) : i <= j
                 /\ cache' = [cache EXCEPT ![p] = [c EXCEPT ![k] = i]]
                 /\ Begin(p, <<k[1], i, k[2]>>, m)
         \/ /\ cache' = [cache EXCEPT ![p] = c]
            /\ End(p)
  BY Zenon DEF OpenByName
<1>2. Ready(p) /\ UNCHANGED <<hbas, sos, enabled, crashes>>
  BY Zenon DEF OpenByName, MayStart, tree
<1>3. Tells(c, {}) /\ c \in [Keys -> Indexes \cup {NoIndex}]
  BY <1>2, ContentsTell, ZenonT(60) DEF CacheContents, Scans, TypeInv, TypeOK
<1>4. TreeInv' /\ HalfBuilt(p)'
  BY <1>2, Zenon DEF Turn, TreeInv, NameUnique, HalfBuilt, Ready
<1>5. CASE c[k] # NoIndex /\ cache' = [cache EXCEPT ![p] = c] /\ Begin(p, <<k[1], c[k], k[2]>>, "lookup")
  <2>1. <<k[1], c[k], k[2]>> \in sos
    BY <1>3, <1>5, ZenonT(60) DEF Tells
  <2>2. OnlyStep(p) /\ pc'[p] = "hba" /\ mode'[p] = "lookup" /\ obj'[p] = <<k[1], c[k], k[2]>> /\ cache'[p] = c
    BY <1>5 DEF OnlyStep, Begin, Goto, TypeInv, TypeOK
  <2>3. Tells(cache[p], {})'
    BY <1>2, <1>3, <2>2, ZenonT(60) DEF Tells
  <2>4. CallInv(p)'
    BY <1>2, <2>1, <2>2, <2>3, ZenonT(60) DEF CallInv
  <2> QED
    BY <1>4, <2>2, <2>4 DEF Kept
<1>6. ASSUME NEW i \in FreeIndexes(c), c[k] = NoIndex,
             cache' = [cache EXCEPT ![p] = [c EXCEPT ![k] = i]],
             Begin(p, <<k[1], i, k[2]>>, "create")
      PROVE  Kept(p)
  <2> DEFINE o == <<k[1], i, k[2]>>
  <2>1. i \in Indexes /\ o \in Objects /\ KeyOf(o) = k /\ o[2] = i
    BY DEF FreeIndexes, Objects, Keys, KeyOf
  <2>2. OnlyStep(p) /\ pc'[p] = "hba" /\ mode'[p] = "create" /\ obj'[p] = o
        /\ cache'[p] = [c EXCEPT ![k] = i]
    BY <1>6 DEF OnlyStep, Begin, Goto, TypeInv, TypeOK
  <2>3. \A s \in sos : KeyOf(s) # k /\ s[2] # i
    <3> SUFFICES ASSUME NEW s \in sos PROVE KeyOf(s) # k /\ s[2] # i
      BY Zenon
    <3>1. s \in Objects /\ KeyOf(s) \in Keys /\ s[2] \in Indexes
      BY ObjectParts DEF TypeInv, TypeOK
    <3>2. c[KeyOf(s)] = s[2]
      BY <1>3, <3>1, ObjectKey DEF Tells
    <3> QED
      BY <1>6, <3>1, <3>2, IndexFacts DEF FreeIndexes
  <2>4. Tells(cache[p], {k})' /\ cache'[p][k] = i
    <3>1. \A x \in Keys : cache'[p][x] = IF x = k THEN i ELSE c[x]
      BY <1>3, <2>2
    <3> QED
      BY <1>2, <1>3, <3>1, ZenonT(30) DEF Tells
  <2> HIDE DEF o
  <2>5. CallInv(p)'
    BY <1>2, <2>1, <2>2, <2>3, <2>4, ZenonT(60) DEF CallInv, Constructing
  <2> QED
    BY <1>4, <2>2, <2>5, Zenon DEF Kept
<1>7. CASE cache' = [cache EXCEPT ![p] = c] /\ End(p)
  <2>1. OnlyStep(p) /\ pc'[p] = "idle" /\ cache'[p] = c
    BY <1>7 DEF OnlyStep, End, Goto, TypeInv, TypeOK
  <2>2. Tells(cache[p], {})'
    BY <1>2, <1>3, <2>1, ZenonT(60) DEF Tells
  <2>3. CallInv(p)'
    BY <2>1, <2>2, Zenon DEF CallInv, Constructing
  <2> QED
    BY <1>4, <2>1, <2>3, Zenon DEF Kept
<1> QED
  BY <1>1, <1>5, <1>6, <1>7, Zenon

LEMMA KeptOpenByIndex ==
  ASSUME ~CallerIndexes, TypeInv, NEW p \in Procs, Turn(p), NEW s \in Objects, NEW m,
         OpenByIndex(p, s, m)
  PROVE  Kept(p)
<1>1. m = "lookup" /\ s \in sos /\ Ready(p) /\ Begin(p, s, m)
      /\ UNCHANGED <<hbas, sos, enabled, cache, crashes>>
  BY Zenon DEF OpenByIndex, MayStart, tree
<1>2. TreeInv' /\ HalfBuilt(p)'
  BY <1>1 DEF Turn, TreeInv, NameUnique, HalfBuilt, Ready
<1>3. OnlyStep(p) /\ CallInv(p)'
  <2>1. pc'[p] = "hba" /\ obj'[p] = s /\ mode'[p] = "lookup" /\ OnlyStep(p)
    BY <1>1 DEF OnlyStep, Begin, Goto, TypeInv, TypeOK
  <2>2. CacheEmpty(p) \/ Tells(cache[p], {})
    BY <1>1, Zenon DEF Turn, CallInv, Constructing, Ready
  <2> QED
    BY <1>1, <2>1, <2>2, SameTold, Zenon DEF CallInv
<1> QED
  BY <1>2, <1>3 DEF Kept

-----------------------------------------------------------------------------
(* InvalidateCaches and Crash need no turn. *)
LEMMA TurnForget ==
  ASSUME TypeInv, TurnInv, NEW p \in Procs, InvalidateCaches(p) \/ Crash(p)
  PROVE  TurnInv'
<1>1. /\ UNCHANGED <<hbas, sos, enabled>>
      /\ \A q \in Procs \ {p} : pc'[q] = pc[q] /\ cache'[q] = cache[q]
                               /\ obj'[q] = obj[q] /\ mode'[q] = mode[q]
      /\ Ready(p)' /\ CacheEmpty(p)'
  BY DEF InvalidateCaches, Crash, tree, Ready, CacheEmpty, End, Goto, TypeInv, TypeOK
<1>2. TakeTurns'
  <2>1. ~Busy(p)'
    BY <1>1, Zenon DEF Busy
  <2>2. \A q \in Procs \ {p} : Busy(q)' => Busy(q)
    BY <1>1, ZenonT(30) DEF Busy, Ready, CacheEmpty
  <2>3. TakeTurns
    BY Zenon DEF TurnInv
  <2> QED
    BY <2>1, <2>2, <2>3, Zenon DEF TakeTurns
<1>3. CallInv(p)'
  BY <1>1 DEF Ready, CallInv, Constructing
<1>4. ASSUME NEW q \in Procs \ {p}
      PROVE  CallInv(q)'
  <2>1. CallInv(q)
    BY DEF TurnInv
  <2>2. UNCHANGED <<hbas, sos, pc[q], cache[q], obj[q], mode[q]>>
    BY <1>1, Zenon
  <2> QED
    BY <2>1, <2>2, SameTold, ZenonT(60) DEF CallInv
<1>5. CASE InvalidateCaches(p)
  BY <1>1, <1>2, <1>3, <1>4, <1>5, ZenonT(60) DEF InvalidateCaches, TurnInv, NameUnique
<1>6. CASE Crash(p)
  <2>1. crashes' # 0
    BY <1>6 DEF Crash, TypeInv, TypeOK
  <2>2. NameUnique'
    BY <1>1, Zenon DEF TurnInv, NameUnique
  <2> QED
    BY <1>1, <1>2, <1>3, <1>4, <2>1, <2>2, Zenon DEF TurnInv
<1> QED
  BY <1>5, <1>6, Zenon

LEMMA TurnNext ==
  ASSUME Coordinated, ~CallerIndexes, TypeInv, TurnInv, [Next]_vars
  PROVE  TurnInv'
<1>1. ASSUME NEW p \in Procs, Turn(p), Kept(p)
      PROVE  TurnInv'
  BY <1>1, TurnStep DEF Turn, Kept
<1>2. ASSUME NEW p \in Procs, MayStart(p) \/ ~Ready(p)
      PROVE  Turn(p)
  BY <1>2, BusyAlone, TurnOf DEF MayStart, Alone
<1>3. ASSUME NEW p \in Procs, NEW k \in Keys, NEW m \in {"create", "lookup"}, OpenByName(p, k, m)
      PROVE  TurnInv'
  BY <1>1, <1>2, <1>3, KeptOpenByName, Zenon DEF OpenByName
<1>4. ASSUME NEW p \in Procs, NEW s \in Objects, NEW m \in {"create", "lookup"}, OpenByIndex(p, s, m)
      PROVE  TurnInv'
  BY <1>1, <1>2, <1>4, KeptOpenByIndex, Zenon DEF OpenByIndex
<1>5. ASSUME NEW p \in Procs, LaterStep(p), ~InvalidateCaches(p), ~Crash(p)
      PROVE  TurnInv'
  <2>1. MayStart(p) \/ ~Ready(p)
    BY <1>5, Zenon DEF LaterStep, Ready, CreateHba, LookupHba, HbaExistsAgain, MkdirHba,
                CreateObject, LookupObject, ObjectExistsAgain, MkdirObject, Configure, Delete, DeleteCheckSelf,
                ObjectExists, RmdirObject, BackstoreExists, RmdirBackstore,
                StartClear, ClearNextObject, ClearNextHba
  <2>2. Turn(p)
    BY <1>2, <2>1, ZenonT(60)
  <2> QED
    BY <1>1, <1>5, <2>2, KeptHba, KeptObject, KeptQuietStep, KeptUncachedStep,
       KeptBackstoreDelete DEF LaterStep
<1>6. CASE UNCHANGED vars
  <2>1. UNCHANGED <<hbas, sos, enabled, cache, pc, obj, mode, crashes>>
    BY <1>6, ZenonT(30) DEF vars
  <2>2. TakeTurns'
    <3>1. TakeTurns
      BY DEF TurnInv
    <3> QED
      BY <2>1, <3>1, SMTT(60) DEF TakeTurns, Busy, Ready, CacheEmpty
  <2>3. ASSUME NEW p \in Procs, CallInv(p)
        PROVE  CallInv(p)'
    BY <2>1, <2>3, ZenonT(60) DEF CallInv, Tells, CacheEmpty
  <2>4. NameUnique'
    BY <2>1, Zenon DEF TurnInv, NameUnique
  <2> QED
    BY <2>1, <2>2, <2>3, <2>4 DEF TurnInv
<1> QED
  BY <1>3, <1>4, <1>5, <1>6, TurnForget DEF Next, LaterStep

LEMMA TurnInvariant ==
  ASSUME Coordinated, ~CallerIndexes
  PROVE  Spec => []TurnInv
<1>1. Init => TurnInv
  BY SMTT(60) DEF Init, TurnInv, TakeTurns, Busy, Ready, CacheEmpty, NameUnique, CallInv, Constructing
<1>2. TypeInv /\ TurnInv /\ [Next]_vars => TurnInv'
  BY TurnNext
<1> QED
  BY <1>1, <1>2, TypeInvariant, PTL DEF Spec

(* Processes that take turns never make two storage objects of one plugin  *)
(* and name, whatever crashes and failed calls come between.               *)
THEOREM TurnsKeepNamesUnique ==
  ASSUME Coordinated, ~CallerIndexes
  PROVE  Spec => []NameUnique
<1>1. TurnInv => NameUnique
  BY DEF TurnInv
<1> QED
  BY <1>1, TurnInvariant, PTL

(* Nor do they put two storage objects in one backstore ("1:1              *)
(* so:backstore" in _Backstore).                                           *)
THEOREM TurnsKeepOneObjectPerBackstore ==
  ASSUME Coordinated, ~CallerIndexes
  PROVE  Spec => []OneObjectPerBackstore
<1>1. TurnInv => OneObjectPerBackstore
  BY DEF TurnInv, OneObjectPerBackstore, HbaOf
<1> QED
  BY <1>1, TurnInvariant, PTL

(* The bs_cache of a process that has one says exactly what is in configfs *)
(* between its calls, the ones that failed included.                       *)
THEOREM TurnsKeepCachesCoherent ==
  ASSUME Coordinated, ~CallerIndexes
  PROVE  Spec => []CacheCoherent
<1>1. TurnInv => CacheCoherent
  BY Zenon DEF TurnInv, CallInv, Constructing, Tells, CacheCoherent, Ready
<1> QED
  BY <1>1, TurnInvariant, PTL

(* Without a crash, constructors and delete() that have returned or raised *)
(* leave no storage object that is not configured.                         *)
THEOREM TurnsLeaveNothingHalfBuilt ==
  ASSUME Coordinated, ~CallerIndexes
  PROVE  Spec => []NothingHalfBuilt
<1>1. TurnInv => NothingHalfBuilt
  BY DEF TurnInv, NothingHalfBuilt, Ready
<1> QED
  BY <1>1, TurnInvariant, PTL

(* A step of a lookup, or of the clean-up of one that fails, changes       *)
(* nothing in configfs: it finds its object at both exists tests of        *)
(* _create_in_cfs_ine and never gets to _backstore.delete().               *)
THEOREM TurnsLookupReadOnly ==
  ASSUME Coordinated, ~CallerIndexes
  PROVE  Spec => LookupReadOnly
<1>1. ASSUME TypeInv, TurnInv, Next, NEW p \in Procs, mode[p] = "lookup", pc'[p] # pc[p]
      PROVE  UNCHANGED tree
  <2>1. ASSUME NEW q \in Procs, LaterStep(q)
        PROVE  UNCHANGED tree
    <3>0. CallInv(p) /\ \A s \in sos : HbaOf(s) \in hbas
      BY <1>1 DEF TurnInv
    <3>1. q = p
      BY <1>1, <2>1, ZenonT(60)
      DEF LaterStep, CreateHba, LookupHba, HbaExistsAgain, MkdirHba, CreateObject,
          LookupObject, ObjectExistsAgain, MkdirObject, InConfigFS, Configure, Delete, DeleteCheckSelf, ObjectExists,
          RmdirObject, BackstoreExists, RmdirBackstore, StartClear, ClearNextObject,
          ClearNextHba, InvalidateCaches, Crash, BackstoreDeleted, Step, End, Bound,
          Begin, FailToBackstoreDelete, BackstoreGone, Goto, TypeInv, TypeOK
    <3>2. CASE CreateHba(p) \/ CreateObject(p) \/ Configure(p) \/ RmdirObject(p) \/ RmdirBackstore(p)
      BY <1>1, <3>0, <3>2, ZenonT(60)
      DEF CreateHba, CreateObject, Configure, RmdirObject, RmdirBackstore, CallInv
    <3>3. CASE MkdirHba(p) \/ MkdirObject(p)
      BY <1>1, <3>0, <3>3, ZenonT(60) DEF MkdirHba, MkdirObject, CallInv, Constructing
    <3>4. CASE ClearNextHba(p)
      BY <1>1, <3>4, Zenon DEF ClearNextHba, tree
    <3> QED
      BY <2>1, <3>1, <3>2, <3>3, <3>4, ZenonT(60)
      DEF LaterStep, LookupHba, HbaExistsAgain, LookupObject, ObjectExistsAgain, Delete, DeleteCheckSelf, ObjectExists,
          BackstoreExists, StartClear, ClearNextObject, InvalidateCaches, Crash
  <2> QED
    BY <1>1, <2>1 DEF Next, LaterStep, OpenByName, OpenByIndex
<1>2. TypeInv /\ TurnInv /\ [Next]_vars =>
        [\A p \in Procs : mode[p] = "lookup" /\ pc'[p] # pc[p] => UNCHANGED tree]_vars
  BY <1>1
<1> QED
  BY <1>2, TypeInvariant, TurnInvariant, PTL DEF Spec, LookupReadOnly
====
