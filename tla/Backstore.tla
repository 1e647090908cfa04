----------------------------- MODULE Backstore -----------------------------
(***************************************************************************)
(* Storage objects and their backstores (rtslib/tcm.py, rtslib/node.py).   *)
(*                                                                         *)
(* A storage object is a configfs directory core/<plugin>_<index>/<name>.  *)
(* Its parent directory, the backstore or HBA, is made by the constructor  *)
(* of the storage object and removed by its delete().  Every process that  *)
(* uses the library keeps its own bs_cache, a dict from plugin/name to     *)
(* index; the configfs tree is the only state the processes share.         *)
(*                                                                         *)
(* An action is one access to the shared tree together with the local      *)
(* work up to the next one, so any two system calls of two processes can   *)
(* be interleaved and a process can die between any two of its own.  The   *)
(* flock of _Backstore.__init__ brackets code that only touches bs_cache,  *)
(* so it never separates two accesses to the tree and needs no variable.   *)
(***************************************************************************)
EXTENDS Integers

CONSTANTS
  Procs,          \* processes that import rtslib
  Plugins,        \* directory prefixes: pscsi, rd_mcp, fileio, iblock, user
  Names,          \* names of storage objects
  NumIndexes,     \* 1048576 in the code: the size of the index pool
  CallerIndexes,  \* whether callers pass index= to the constructors
  Coordinated,    \* whether processes take turns and drop stale caches
  MaxCrashes      \* bound on the number of crashes

ASSUME NumIndexesAssumption == NumIndexes \in Nat
ASSUME CallerIndexesAssumption == CallerIndexes \in BOOLEAN
ASSUME CoordinatedAssumption == Coordinated \in BOOLEAN
ASSUME MaxCrashesAssumption == MaxCrashes \in Nat

Indexes == 0 .. NumIndexes - 1
NoIndex == -1                       \* bs_cache.get(key, None) is None
Keys == Plugins \X Names            \* the keys "plugin/name" of bs_cache
Hbas == Plugins \X Indexes          \* core/<plugin>_<index>
Objects == Plugins \X Indexes \X Names

HbaOf(s) == <<s[1], s[2]>>
KeyOf(s) == <<s[1], s[3]>>

Modes == {"create", "lookup", "delete", "clear"}
Steps == {"idle", "held", "hba", "hba2", "mkhba", "so", "so2", "mkso", "conf",
          "del", "rmso", "rmso2", "bs", "bs2", "clear", "clearhba"}

VARIABLES
  hbas,     \* the backstore directories in configfs
  sos,      \* the storage object directories in configfs
  enabled,  \* the storage objects whose enable attribute reads 1
  cache,    \* bs_cache of each process
  pc,       \* the next step of each process
  obj,      \* the object that the current call of a process is about
  mode,     \* what the current call does with it
  exc,      \* whether an exception is being re-raised after clean-up
  todo,     \* the directories clear_existing still has to visit
  crashes   \* number of crashes so far

tree == <<hbas, sos, enabled>>
vars == <<hbas, sos, enabled, cache, pc, obj, mode, exc, todo, crashes>>

(* One type per variable; cached indexes come from the pool. *)
TypeOK ==
  /\ hbas \in SUBSET Hbas
  /\ sos \in SUBSET Objects
  /\ enabled \in SUBSET Objects
  /\ cache \in [Procs -> [Keys -> Indexes \cup {NoIndex}]]
  /\ pc \in [Procs -> Steps]
  /\ obj \in [Procs -> Objects \cup {<<>>}]
  /\ mode \in [Procs -> Modes]
  /\ exc \in [Procs -> BOOLEAN]
  /\ todo \in [Procs -> SUBSET Hbas]
  /\ crashes \in Nat

Init ==
  /\ hbas = {} /\ sos = {} /\ enabled = {}
  /\ cache = [p \in Procs |-> [k \in Keys |-> NoIndex]]
  /\ pc = [p \in Procs |-> "idle"]
  /\ obj = [p \in Procs |-> <<>>]
  /\ mode = [p \in Procs |-> "lookup"]
  /\ exc = [p \in Procs |-> FALSE]
  /\ todo = [p \in Procs |-> {}]
  /\ crashes = 0

-----------------------------------------------------------------------------
(* Control: the process goes on to a step, or its call ends, by returning  *)
(* nothing or by raising.                                                  *)

Ready(p) == pc[p] \in {"idle", "held"}

CacheEmpty(p) == \A k \in Keys : cache[p][k] = NoIndex

(* Processes that coordinate outside the library start a call only when no *)
(* other one is in a call, and every other one has called                  *)
(* invalidate_caches() since its last.  A lone process always may start.   *)
MayStart(p) ==
  /\ Ready(p)
  /\ Coordinated => \A q \in Procs \ {p} : Ready(q) /\ CacheEmpty(q)

Goto(p, step) == pc' = [pc EXCEPT ![p] = step]

End(p) ==
  /\ Goto(p, "idle")
  /\ obj' = [obj EXCEPT ![p] = <<>>]
  /\ mode' = [mode EXCEPT ![p] = "lookup"]
  /\ exc' = [exc EXCEPT ![p] = FALSE]
  /\ todo' = [todo EXCEPT ![p] = {}]

Step(p, step) == Goto(p, step) /\ UNCHANGED <<obj, mode, exc, todo>>

(* Children of a backstore directory: the kernel's attribute files, of     *)
(* which the code reads hba_info, and the storage objects in it.           *)
ObjectsIn(h) == {s \in sos : HbaOf(s) = h}
HbaEntries(h) == {"hba_info"} \cup {s[3] : s \in ObjectsIn(h)}

DropKey(p, s) == cache' = [cache EXCEPT ![p][KeyOf(s)] = NoIndex]

-----------------------------------------------------------------------------
(* The constructor of a storage object.                                    *)

(* What a scan of core/*_*/*/ can leave in an empty cache: one index for   *)
(* every plugin/name that has a directory.                                 *)
Scans == {c \in [Keys -> Indexes \cup {NoIndex}] :
            \A k \in Keys :
              IF \E s \in sos : KeyOf(s) = k
              THEN <<k[1], c[k], k[2]>> \in sos
              ELSE c[k] = NoIndex}

(* Mutant: an empty cache is not filled. *)
CacheNotFilled(p) == {cache[p]}

CacheContents(p) == IF CacheEmpty(p) THEN Scans ELSE {cache[p]}

(* Mutant: the pool is one index too large. *)
FreeIndexesOneTooMany(c) == {i \in 0 .. NumIndexes : \A k \in Keys : c[k] # i}

FreeIndexes(c) == {i \in Indexes : \A k \in Keys : c[k] # i}

Begin(p, s, m) ==
  /\ Goto(p, "hba")
  /\ obj' = [obj EXCEPT ![p] = s]
  /\ mode' = [mode EXCEPT ![p] = m]
  /\ exc' = [exc EXCEPT ![p] = FALSE]
  /\ UNCHANGED todo

(* _Backstore.__init__ without an index, up to the point where the path of *)
(* the backstore is known.                                                 *)
OpenByName(p, k, m) ==
  /\ MayStart(p)
  /\ \E c \in CacheContents(p) :
       \/ /\ c[k] # NoIndex /\ m = "lookup"
          /\ cache' = [cache EXCEPT ![p] = c]
          /\ Begin(p, <<k[1], c[k], k[2]>>, m)
       \/ /\ c[k] = NoIndex /\ m = "create"
          /\ \E i \in FreeIndexes(c) :
               /\ \A j \in FreeIndexes(c) : i <= j
               /\ cache' = [cache EXCEPT ![p] = [c EXCEPT ![k] = i]]
               /\ Begin(p, <<k[1], i, k[2]>>, m)
       \/ /\ \/ c[k] # NoIndex /\ m = "create"
             \/ c[k] = NoIndex /\ m = "lookup"
             \/ c[k] = NoIndex /\ FreeIndexes(c) = {}
          /\ cache' = [cache EXCEPT ![p] = c]
          /\ End(p)
  /\ UNCHANGED <<tree, crashes>>

(* A constructor that is given the index skips the cache.  so_from_path    *)
(* passes the index of a directory that a listing has just seen; callers   *)
(* of the public constructors may pass any index.                          *)
OpenByIndex(p, s, m) ==
  /\ MayStart(p)
  /\ CallerIndexes \/ (m = "lookup" /\ s \in sos)
  /\ Begin(p, s, m)
  /\ UNCHANGED <<tree, cache, crashes>>

(* The backstore's _create_in_cfs_ine, and the clean-up of the cache when  *)
(* it raises.  In create mode it begins with a test that the directory is  *)
(* not there; a stale one without entries is removed.                      *)
CreateHba(p) ==
  LET h == HbaOf(obj[p]) IN
  /\ pc[p] = "hba" /\ mode[p] = "create"
  /\ \/ /\ h \in hbas /\ HbaEntries(h) # {}
        /\ DropKey(p, obj[p]) /\ End(p)
        /\ UNCHANGED hbas
     \/ /\ h \notin hbas \/ HbaEntries(h) = {}
        /\ hbas' = hbas \ {h}
        /\ Step(p, "hba2")
        /\ UNCHANGED cache
  /\ UNCHANGED <<sos, enabled, crashes>>

(* In lookup mode it begins with a test that the directory is there.       *)
LookupHba(p) ==
  LET h == HbaOf(obj[p]) IN
  /\ pc[p] = "hba" /\ mode[p] # "create"
  /\ \/ h \in hbas /\ Step(p, "hba2") /\ UNCHANGED cache
     \/ h \notin hbas /\ DropKey(p, obj[p]) /\ End(p)
  /\ UNCHANGED <<tree, crashes>>

(* Both modes then test again.  A directory that is there is taken as it   *)
(* is, in create mode too: another process made it since the first test.   *)
HbaExistsAgain(p) ==
  /\ pc[p] = "hba2"
  /\ Step(p, IF HbaOf(obj[p]) \in hbas THEN "so" ELSE "mkhba")
  /\ UNCHANGED <<tree, cache, crashes>>

(* mkdir, which fails when the directory has appeared since the last test, *)
(* and whenever the kernel refuses it.                                     *)
MkdirHba(p) ==
  LET h == HbaOf(obj[p]) IN
  /\ pc[p] = "mkhba"
  /\ \/ /\ h \notin hbas
        /\ hbas' = hbas \cup {h}
        /\ Step(p, "so")
        /\ UNCHANGED cache
     \/ DropKey(p, obj[p]) /\ End(p) /\ UNCHANGED hbas
  /\ UNCHANGED <<sos, enabled, crashes>>

(* The same for the storage object.  When the backstore has vanished, the  *)
(* constructor raises either from the plugin property, before its try, or  *)
(* inside it; only the second way reaches _backstore.delete().             *)
BackstoreGone(p) ==
  /\ HbaOf(obj[p]) \notin hbas
  /\ End(p)

FailToBackstoreDelete(p) ==
  /\ Goto(p, "bs")
  /\ exc' = [exc EXCEPT ![p] = TRUE]
  /\ UNCHANGED <<obj, mode, todo>>

CreateObject(p) ==
  /\ pc[p] = "so" /\ mode[p] = "create"
  /\ \/ obj[p] \notin sos /\ Step(p, "so2")
     \/ obj[p] \in sos /\ FailToBackstoreDelete(p)
     \/ BackstoreGone(p)
  /\ UNCHANGED <<tree, cache, crashes>>

LookupObject(p) ==
  /\ pc[p] = "so" /\ mode[p] # "create"
  /\ \/ obj[p] \in sos /\ Step(p, "so2")
     \/ obj[p] \notin sos /\ FailToBackstoreDelete(p)
     \/ BackstoreGone(p)
  /\ UNCHANGED <<tree, cache, crashes>>

(* The caller has its object: after a lookup it is done with the           *)
(* constructor, after a create _configure follows.                         *)
Bound(p) == Step(p, IF mode[p] = "clear" THEN "del" ELSE "held")

InConfigFS(p) == IF mode[p] = "create" THEN Step(p, "conf") ELSE Bound(p)

ObjectExistsAgain(p) ==
  /\ pc[p] = "so2"
  /\ IF obj[p] \in sos THEN InConfigFS(p) ELSE Step(p, "mkso")
  /\ UNCHANGED <<tree, cache, crashes>>

MkdirObject(p) ==
  /\ pc[p] = "mkso"
  /\ \/ /\ obj[p] \notin sos /\ HbaOf(obj[p]) \in hbas
        /\ sos' = sos \cup {obj[p]}
        /\ InConfigFS(p)
     \/ FailToBackstoreDelete(p) /\ UNCHANGED sos
  /\ UNCHANGED <<hbas, enabled, cache, crashes>>

(* Mutant: a failing _configure does not call delete(). *)
ConfigureWithoutCleanup(p) ==
  /\ pc[p] = "conf"
  /\ \/ obj[p] \in sos /\ enabled' = enabled \cup {obj[p]} /\ Bound(p)
     \/ End(p) /\ UNCHANGED enabled
  /\ UNCHANGED <<hbas, sos, cache, crashes>>

(* _configure of the five subclasses: the checks and the writes before     *)
(* enable can raise, and so can the ones after it (the wwn).  Every        *)
(* subclass then calls delete() and re-raises.                             *)
Configure(p) ==
  /\ pc[p] = "conf"
  /\ \/ /\ obj[p] \in sos
        /\ enabled' = enabled \cup {obj[p]}
        /\ Bound(p)
     \/ /\ obj[p] \in sos
        /\ enabled' \in {enabled, enabled \cup {obj[p]}}
        /\ Goto(p, "del")
        /\ exc' = [exc EXCEPT ![p] = TRUE]
        /\ UNCHANGED <<obj, mode, todo>>
     \/ /\ obj[p] \notin sos       \* _check_self raises here and in delete()
        /\ End(p) /\ UNCHANGED enabled
  /\ UNCHANGED <<hbas, sos, cache, crashes>>

-----------------------------------------------------------------------------
(* StorageObject.delete() and _Backstore.delete().                         *)

Delete(p) ==
  /\ pc[p] = "held" /\ MayStart(p)
  /\ Goto(p, "del")
  /\ mode' = [mode EXCEPT ![p] = "delete"]
  /\ UNCHANGED <<tree, cache, obj, exc, todo, crashes>>

DeleteCheckSelf(p) ==
  /\ pc[p] = "del"
  /\ \/ obj[p] \in sos /\ Step(p, "rmso")
     \/ obj[p] \notin sos /\ End(p)
  /\ UNCHANGED <<tree, cache, crashes>>

(* CFSNode.delete: if self.exists ... *)
ObjectExists(p) ==
  /\ pc[p] = "rmso"
  /\ Step(p, IF obj[p] \in sos THEN "rmso2" ELSE "bs")
  /\ UNCHANGED <<tree, cache, crashes>>

(* Mutant: delete() forgets self._backstore.delete(). *)
RmdirObjectOnly(p) ==
  /\ pc[p] = "rmso2"
  /\ sos' = sos \ {obj[p]}
  /\ enabled' = enabled \ {obj[p]}
  /\ End(p)
  /\ UNCHANGED <<hbas, cache, crashes>>

(* ... rmdir.  delete() removes the LUNs of a configured object before; it *)
(* can raise there, and a LUN that is linked after that makes the kernel   *)
(* refuse the rmdir.  Either way the object stays.                         *)
RmdirObject(p) ==
  /\ pc[p] = "rmso2"
  /\ \/ /\ obj[p] \in sos
        /\ sos' = sos \ {obj[p]}
        /\ enabled' = enabled \ {obj[p]}
        /\ Step(p, "bs")
     \/ /\ obj[p] \in enabled \/ obj[p] \notin sos
        /\ End(p) /\ UNCHANGED <<sos, enabled>>
  /\ UNCHANGED <<hbas, cache, crashes>>

(* Mutant: _Backstore.delete() leaves the key in bs_cache. *)
BackstoreDeletedKeyKept(p) ==
  /\ UNCHANGED cache
  /\ IF mode[p] = "clear" /\ ~exc[p] THEN Step(p, "clear") ELSE End(p)

(* The end of _Backstore.delete(): back to clear_existing, to the caller   *)
(* of delete(), or to the except clause that re-raises.                    *)
BackstoreDeleted(p) ==
  /\ DropKey(p, obj[p])
  /\ IF mode[p] = "clear" /\ ~exc[p] THEN Step(p, "clear") ELSE End(p)

BackstoreExists(p) ==
  /\ pc[p] = "bs"
  /\ \/ HbaOf(obj[p]) \in hbas /\ Step(p, "bs2") /\ UNCHANGED cache
     \/ HbaOf(obj[p]) \notin hbas /\ BackstoreDeleted(p)
  /\ UNCHANGED <<tree, crashes>>

RmdirBackstore(p) ==
  LET h == HbaOf(obj[p]) IN
  /\ pc[p] = "bs2"
  /\ \/ /\ h \in hbas /\ ObjectsIn(h) = {}
        /\ hbas' = hbas \ {h}
        /\ BackstoreDeleted(p)
     \/ /\ h \notin hbas \/ ObjectsIn(h) # {}
        /\ End(p) /\ UNCHANGED <<hbas, cache>>
  /\ UNCHANGED <<sos, enabled, crashes>>

-----------------------------------------------------------------------------
(* RTSRoot.clear_existing, the part about storage objects, and the rest.   *)

StartClear(p) ==
  /\ MayStart(p)
  /\ Goto(p, "clear")
  /\ mode' = [mode EXCEPT ![p] = "clear"]
  /\ todo' = [todo EXCEPT ![p] = hbas]
  /\ UNCHANGED <<tree, cache, obj, exc, crashes>>

ClearNextObject(p) ==
  /\ pc[p] = "clear"
  /\ \/ \E h \in todo[p] : \E s \in ObjectsIn(h) : Begin(p, s, "clear")
     \/ /\ \E h \in todo[p] :
             /\ ObjectsIn(h) = {}
             /\ todo' = [todo EXCEPT ![p] = @ \ {h}]
        /\ UNCHANGED <<pc, obj, mode, exc>>
     \/ /\ todo[p] = {}
        /\ Goto(p, "clearhba")
        /\ todo' = [todo EXCEPT ![p] = hbas]
        /\ UNCHANGED <<obj, mode, exc>>
  /\ UNCHANGED <<tree, cache, crashes>>

ClearNextHba(p) ==
  /\ pc[p] = "clearhba"
  /\ \/ \E h \in todo[p] :
          \/ /\ h \in hbas /\ ObjectsIn(h) = {}
             /\ hbas' = hbas \ {h}
             /\ todo' = [todo EXCEPT ![p] = @ \ {h}]
             /\ UNCHANGED <<pc, obj, mode, exc>>
          \/ /\ h \notin hbas \/ ObjectsIn(h) # {}
             /\ End(p) /\ UNCHANGED hbas
     \/ todo[p] = {} /\ End(p) /\ UNCHANGED hbas
  /\ UNCHANGED <<sos, enabled, cache, crashes>>

(* RTSRoot.invalidate_caches *)
InvalidateCaches(p) ==
  /\ Ready(p)
  /\ cache' = [cache EXCEPT ![p] = [k \in Keys |-> NoIndex]]
  /\ UNCHANGED <<tree, pc, obj, mode, exc, todo, crashes>>

(* The process dies and is started again; configfs keeps the directories.  *)
Crash(p) ==
  /\ crashes < MaxCrashes
  /\ crashes' = crashes + 1
  /\ cache' = [cache EXCEPT ![p] = [k \in Keys |-> NoIndex]]
  /\ End(p)
  /\ UNCHANGED tree

Next ==
  \E p \in Procs :
    \/ \E k \in Keys, m \in {"create", "lookup"} : OpenByName(p, k, m)
    \/ \E s \in Objects, m \in {"create", "lookup"} : OpenByIndex(p, s, m)
    \/ CreateHba(p) \/ LookupHba(p) \/ HbaExistsAgain(p) \/ MkdirHba(p)
    \/ CreateObject(p) \/ LookupObject(p)
    \/ ObjectExistsAgain(p) \/ MkdirObject(p)
    \/ Configure(p)
    \/ Delete(p) \/ DeleteCheckSelf(p)
    \/ ObjectExists(p) \/ RmdirObject(p)
    \/ BackstoreExists(p) \/ RmdirBackstore(p)
    \/ StartClear(p) \/ ClearNextObject(p) \/ ClearNextHba(p)
    \/ InvalidateCaches(p) \/ Crash(p)

Spec == Init /\ [][Next]_vars

-----------------------------------------------------------------------------
(* "No StorageObject with the same name can pre-exist in that mode, or     *)
(* instantiation will fail": a plugin never has two storage objects of one *)
(* name.                                                                   *)
NameUnique == \A s, t \in sos : KeyOf(s) = KeyOf(t) => s = t

(* "1:1 so:backstore": no backstore holds two storage objects.             *)
OneObjectPerBackstore == \A s, t \in sos : HbaOf(s) = HbaOf(t) => s = t

(* Between calls, a bs_cache that has been filled says exactly what is in  *)
(* configfs, so that the constructors decide from it rightly.              *)
CacheCoherent ==
  \A p \in Procs :
    Ready(p) /\ ~CacheEmpty(p) =>
      \A k \in Keys, i \in Indexes :
        cache[p][k] = i <=> <<k[1], i, k[2]>> \in sos

(* Between calls, and as long as no process has died, every backstore has *)
(* a storage object in it: whoever removes the object, or fails to make    *)
(* it, also removes the backstore, whatever the others do meanwhile.       *)
NoEmptyBackstore ==
  crashes = 0 /\ (\A p \in Procs : Ready(p)) =>
    \A h \in hbas : ObjectsIn(h) # {}

(* Every path out of a constructor or of delete() undoes what it did: as   *)
(* long as no process has died, finished calls leave no storage object     *)
(* that is not configured.                                                 *)
NothingHalfBuilt ==
  crashes = 0 /\ (\A p \in Procs : Ready(p)) => sos = enabled

(* "Lookup mode: ... will be bound to the existing configFS object": no    *)
(* step of a lookup, the clean-up of a failed one included, changes        *)
(* configfs.                                                               *)
LookupReadOnly ==
  [][\A p \in Procs : mode[p] = "lookup" /\ pc'[p] # pc[p] => UNCHANGED tree]_vars

(* "ensure that self.path is not stale hba-only dir": a create is refused  *)
(* as already existing only when the backstore holds a storage object.     *)
StaleHbaReclaimed ==
  [][\A p \in Procs :
       /\ pc[p] = "hba" /\ pc'[p] = "idle" /\ mode[p] = "create"
       /\ HbaOf(obj[p]) \in hbas /\ crashes' = crashes
       => ObjectsIn(HbaOf(obj[p])) # {}]_vars

-----------------------------------------------------------------------------
(* What the proofs in BackstoreProofs need beyond the properties above.    *)

(* A process whose step is not "idle" works on an object. *)
ObjectTyped ==
  \A p \in Procs : pc[p] \notin {"idle", "clear", "clearhba"} => obj[p] \in Objects

(* An empty backstore is in the hands of a process that will fill it or    *)
(* remove it.                                                              *)
EmptyBackstoreOwned ==
  crashes = 0 =>
    \A h \in hbas :
      \/ ObjectsIn(h) # {}
      \/ \E p \in Procs : /\ pc[p] \in {"so", "so2", "mkso", "bs", "bs2"}
                          /\ HbaOf(obj[p]) = h

(* Coordinated processes: at most one of them is in a call or has anything *)
(* in its cache.                                                           *)
Busy(p) == ~Ready(p) \/ ~CacheEmpty(p)

TakeTurns == \A p, q \in Procs : Busy(p) /\ Busy(q) => p = q

(* The cache c says what is in configfs, for every key but the ones in X.  *)
Tells(c, X) ==
  \A k \in Keys \ X, i \in Indexes : c[k] = i <=> <<k[1], i, k[2]>> \in sos

(* What a process knows at each step of a call. *)
Constructing == {"hba", "hba2", "mkhba", "so", "so2", "mkso"}

CallInv(p) ==
  /\ pc[p] \in Constructing /\ mode[p] = "create" =>
       /\ \A s \in sos : KeyOf(s) # KeyOf(obj[p]) /\ s[2] # obj[p][2]
       /\ cache[p][KeyOf(obj[p])] = obj[p][2]
       /\ Tells(cache[p], {KeyOf(obj[p])})
  /\ pc[p] \in Constructing /\ mode[p] # "create" =>
       obj[p] \in sos /\ pc[p] \notin {"mkhba", "mkso"}
  /\ pc[p] \in {"so", "so2", "mkso", "bs2"} => HbaOf(obj[p]) \in hbas
  /\ pc[p] \in {"conf", "rmso", "rmso2"} => obj[p] \in sos
  /\ pc[p] \in {"bs", "bs2"} =>
       /\ \A s \in sos : KeyOf(s) # KeyOf(obj[p]) /\ s[2] # obj[p][2]
       /\ CacheEmpty(p) \/ Tells(cache[p], {KeyOf(obj[p])})
  /\ pc[p] \in {"conf", "del", "rmso", "rmso2", "bs", "bs2"} => mode[p] # "lookup"
  /\ pc[p] \notin {"bs", "bs2"} /\ ~(pc[p] \in Constructing /\ mode[p] = "create") =>
       CacheEmpty(p) \/ Tells(cache[p], {})

TurnInv ==
  /\ TakeTurns
  /\ \A s \in sos : HbaOf(s) \in hbas
  /\ NameUnique
  /\ \A s, t \in sos : s[2] = t[2] => s = t
  /\ \A p \in Procs : CallInv(p)
  /\ enabled \subseteq sos
  /\ crashes = 0 =>
       \A s \in sos \ enabled : \E p \in Procs :
         obj[p] = s /\ pc[p] \in {"conf", "del", "rmso", "rmso2"}
=============================================================================
