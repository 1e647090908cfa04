------------------------------ MODULE Exports ------------------------------
(***************************************************************************)
(* The export tree of a fabric (rtslib/target.py, rtslib/node.py): targets,*)
(* target portal groups, LUNs, network portals, node ACLs and mapped LUNs, *)
(* with the storage objects that LUNs link to.                             *)
(*                                                                         *)
(* A node is named by its path.  configfs holds a set of directories; a    *)
(* LUN directory contains a symlink to its storage object, and a mapped    *)
(* LUN directory one to its LUN.  A constructor makes the directory first  *)
(* and the symlink next; delete() works its way down the tree and removes  *)
(* symlinks before directories.  Several processes do so at once, each     *)
(* with a stack of what its call still has to do.                          *)
(*                                                                         *)
(* One step looks at or changes one directory; an exists test and the      *)
(* mkdir, rmdir or listing that follows it form one step.  The listings    *)
(* are taken at once, as os.listdir and pathlib do, and visited later.     *)
(* The kernel is taken to accept what delete() writes before the rmdir of  *)
(* a node that is there: 0 to the enable of a TPG, and to the iser and the *)
(* cxgbit of a portal; a portal that is gone has neither file, and the     *)
(* write is passed over.                                                   *)
(***************************************************************************)
EXTENDS Naturals, Sequences

CONSTANTS
  Procs,           \* processes that import rtslib
  Targets, Tags, LunIndexes, Portals, Nodes, MappedIndexes, StorageObjects,
  MaxCrashes,      \* bound on the number of crashes
  None             \* no symlink, no call

ASSUME MaxCrashesAssumption == MaxCrashes \in Nat

TargetDirs == {<<t>> : t \in Targets}
TPGs == Targets \X Tags
LUNs == Targets \X Tags \X {"lun"} \X LunIndexes
NetworkPortals == Targets \X Tags \X {"np"} \X Portals
NodeACLs == Targets \X Tags \X {"acls"} \X Nodes
MappedLUNs == Targets \X Tags \X {"acls"} \X Nodes \X MappedIndexes
SOs == {"core"} \X StorageObjects

Dirs == TargetDirs \cup TPGs \cup LUNs \cup NetworkPortals \cup NodeACLs \cup MappedLUNs \cup SOs
Linking == LUNs \cup MappedLUNs

(* A target is not called core, the directory of the storage objects, and  *)
(* None is no path.                                                        *)
ASSUME NamesAssumption == "core" \notin Targets /\ None \notin Dirs \cup {<<>>}

Ops == {"delete", "each", "tpgs", "acls", "luns", "nps", "mluns", "targets", "sos",
        "disable", "unmap", "detach", "attached", "unlink", "rmdir", "link", "except"}

VARIABLES
  dirs,      \* the directories in configfs
  link,      \* where the symlink in a LUN or mapped LUN directory points
  enabled,   \* the TPGs whose enable attribute reads 1
  stack,     \* what the call of each process still has to do
  call,      \* the call each process is in: delete() of a node, or None
  crashes

vars == <<dirs, link, enabled, stack, call, crashes>>

(* One type per variable. *)
TypeOK ==
  /\ dirs \in SUBSET Dirs
  /\ link \in [Linking -> LUNs \cup SOs \cup {None}]
  /\ enabled \in SUBSET TPGs
  /\ stack \in [Procs -> Seq([op : Ops, node : Dirs \cup {<<>>}, rest : SUBSET Dirs])]
  /\ call \in [Procs -> {<<>>, None} \cup Dirs]
  /\ crashes \in 0 .. MaxCrashes

Init ==
  /\ dirs = {} /\ enabled = {}
  /\ link = [x \in Linking |-> None]
  /\ stack = [p \in Procs |-> <<>>]
  /\ call = [p \in Procs |-> None]
  /\ crashes = 0

-----------------------------------------------------------------------------
(* The tree, and what the kernel accepts. *)

Parent(x) ==
  CASE x \in TPGs -> <<x[1]>>
    [] x \in LUNs \cup NetworkPortals \cup NodeACLs -> <<x[1], x[2]>>
    [] x \in MappedLUNs -> <<x[1], x[2], x[3], x[4]>>
    [] x \in TargetDirs \cup SOs -> <<>>

Below(x, S) == {y \in dirs \cap S : Parent(y) = x}

TPGOf(x) == <<x[1], x[2]>>

LinkedTo(x) == {y \in Linking : link[y] = x}

CanMkdir(x) == Parent(x) \in dirs \cup {<<>>}

(* rmdir fails on a directory that has children, holds a symlink, or is    *)
(* what a symlink points to.                                               *)
CanRmdir(x) ==
  /\ Below(x, Dirs) = {}
  /\ x \in Linking => link[x] = None
  /\ LinkedTo(x) = {}

-----------------------------------------------------------------------------
(* Calls and their stacks. *)

Idle(p) == stack[p] = <<>>

Frame(op, x, S) == [op |-> op, node |-> x, rest |-> S]
Do(op, x) == Frame(op, x, {})

Begin(p, c, frames) ==
  /\ Idle(p)
  /\ stack' = [stack EXCEPT ![p] = frames]
  /\ call' = [call EXCEPT ![p] = c]
  /\ UNCHANGED crashes

Become(p, frames) ==
  /\ stack' = [stack EXCEPT ![p] = frames]
  /\ call' = IF frames = <<>> THEN [call EXCEPT ![p] = None] ELSE call
  /\ UNCHANGED crashes

At(p, op) == ~Idle(p) /\ Head(stack[p]).op = op

Node(p) == Head(stack[p]).node

(* The step on top of the stack is done and leaves frames to do. *)
Then(p, frames) == Become(p, frames \o Tail(stack[p]))

(* Mutant: the constructors do not clean up. *)
RaiseWithoutCleanup(p) == Become(p, <<>>)

(* An exception: the constructors of LUN and MappedLUN call self.delete()  *)
(* when _configure raises; otherwise the call is over.                     *)
Raise(p) ==
  LET last == stack[p][Len(stack[p])] IN
  Become(p, IF last.op = "except" THEN <<Do("delete", last.node)>> ELSE <<>>)

Configfs == <<dirs, link, enabled>>

-----------------------------------------------------------------------------
(* Constructors.  Targets, TPGs, portals and ACLs in mode 'any' make their *)
(* directory if it is missing; a storage object appears in one step here   *)
(* (Backstore has its steps).                                              *)
NewNode(p, x) ==
  /\ Idle(p) /\ x \notin dirs /\ CanMkdir(x)
  /\ dirs' = dirs \cup {x}
  /\ UNCHANGED <<link, enabled, stack, call, crashes>>

(* LUN(tpg, index, storage_object) and MappedLUN(acl, index, tpg_lun).  The*)
(* index is the caller's, or the lowest one that a listing showed free.    *)
(* _create_in_cfs_ine('create') comes before the try: when it raises, the  *)
(* directory is another's and stays.                                       *)
NewLink(p, x, target) ==
  /\ \/ x \in LUNs /\ target \in SOs
     \/ x \in MappedLUNs /\ target \in LUNs /\ TPGOf(x) = TPGOf(target)
  /\ x \notin dirs /\ CanMkdir(x)
  /\ dirs' = dirs \cup {x}
  /\ Begin(p, None, <<Frame("link", x, {target}), Do("except", x)>>)
  /\ UNCHANGED <<link, enabled>>

(* Mutant: the arguments of os.symlink the wrong way round. *)
LinkSwapped(p) ==
  /\ At(p, "link")
  /\ link' = [link EXCEPT ![Node(p)] = Node(p)]
  /\ Become(p, <<>>)
  /\ UNCHANGED <<dirs, enabled>>

(* _configure: the storage object or the TPG LUN must exist, and the       *)
(* kernel may refuse the symlink, or the write_protect of a mapped LUN.    *)
Link(p) ==
  LET x == Node(p) IN
  /\ At(p, "link")
  /\ \/ \E y \in Head(stack[p]).rest :
          /\ x \in dirs /\ y \in dirs /\ link[x] = None
          /\ link' = [link EXCEPT ![x] = y]
          /\ Become(p, <<>>) \/ (x \in MappedLUNs /\ Raise(p))
     \/ Raise(p) /\ UNCHANGED link
  /\ UNCHANGED <<dirs, enabled>>

SetEnable(p, x) ==
  /\ Idle(p) /\ x \in dirs
  /\ enabled' \in {enabled \cup {x}, enabled \ {x}}
  /\ UNCHANGED <<dirs, link, stack, call, crashes>>

-----------------------------------------------------------------------------
(* delete() *)

(* What delete() of each class does after _check_self. *)
TargetDelete(x) == <<Do("tpgs", x), Do("rmdir", x)>>

(* Mutant: LUNs before ACLs. *)
TPGDeleteLUNsFirst(x) ==
  <<Do("disable", x), Do("luns", x), Do("acls", x), Do("nps", x), Do("rmdir", x)>>

(* Mutant: the TPG stays enabled. *)
TPGDeleteEnabled(x) == <<Do("acls", x), Do("luns", x), Do("nps", x), Do("rmdir", x)>>

TPGDelete(x) ==
  <<Do("disable", x), Do("acls", x), Do("luns", x), Do("nps", x), Do("rmdir", x)>>

(* Mutant: the symlink stays. *)
LUNDeleteLinked(x) ==
  <<Frame("unmap", x, Below(TPGOf(x), NodeACLs)), Do("rmdir", x)>>

LUNDelete(x) ==
  <<Frame("unmap", x, Below(TPGOf(x), NodeACLs)), Do("unlink", x), Do("rmdir", x)>>

NodeACLDelete(x) == <<Do("mluns", x), Do("rmdir", x)>>

MappedLUNDelete(x) == <<Do("unlink", x), Do("rmdir", x)>>

StorageObjectDelete(x) == <<Frame("detach", x, dirs \cap TargetDirs), Do("rmdir", x)>>

DeleteFrames(x) ==
  CASE x \in TargetDirs -> TargetDelete(x)
    [] x \in TPGs -> TPGDelete(x)
    [] x \in NodeACLs -> NodeACLDelete(x)
    [] x \in MappedLUNs -> MappedLUNDelete(x)
    [] x \in LUNs -> LUNDelete(x)
    [] x \in NetworkPortals -> <<Do("rmdir", x)>>
    [] x \in SOs -> StorageObjectDelete(x)

BeginDelete(p, x) ==
  /\ x \in dirs
  /\ Begin(p, x, DeleteFrames(x))
  /\ UNCHANGED Configfs

(* self.delete() in the except clause of a constructor. *)
Delete(p) ==
  /\ At(p, "delete")
  /\ IF Node(p) \in dirs THEN Then(p, DeleteFrames(Node(p))) ELSE Raise(p)
  /\ UNCHANGED Configfs

Disable(p) ==
  /\ At(p, "disable")
  /\ IF Node(p) \in dirs
     THEN enabled' = enabled \ {Node(p)} /\ Then(p, <<>>)
     ELSE Raise(p) /\ UNCHANGED enabled
  /\ UNCHANGED <<dirs, link>>

Each(x, S) == IF S = {} THEN <<>> ELSE <<Frame("each", x, S)>>

(* What each listing property of a target, a TPG or a node ACL lists. *)
Lists == {"tpgs", "acls", "luns", "nps", "mluns"}

Listed(op) ==
  CASE op = "tpgs" -> TPGs [] op = "acls" -> NodeACLs [] op = "luns" -> LUNs
    [] op = "nps" -> NetworkPortals [] op = "mluns" -> MappedLUNs

(* tpgs, node_acls, luns, network_portals and mapped_luns of a node. *)
List(p) ==
  LET x == Node(p)
      op == Head(stack[p]).op IN
  /\ ~Idle(p) /\ op \in Lists
  /\ IF x \in dirs THEN Then(p, Each(x, Below(x, Listed(op)))) ELSE Raise(p)
  /\ UNCHANGED Configfs

(* The next one of them is looked up and deleted. *)
DeleteNext(p) ==
  /\ At(p, "each")
  /\ \E y \in Head(stack[p]).rest :
       \/ /\ y \in dirs
          /\ Then(p, DeleteFrames(y) \o Each(Node(p), Head(stack[p]).rest \ {y}))
       \/ y \notin dirs /\ Raise(p)
  /\ UNCHANGED Configfs

(* The node ACLs and mapped LUNs that the generator has not come to yet. *)
More(x, S) == IF S = {} THEN <<>> ELSE <<Frame("unmap", x, S)>>

(* Mutant: all mapped LUNs are taken to reference the LUN. *)
UnmapAll(p) ==
  LET x == Node(p)
      rest == Head(stack[p]).rest IN
  /\ At(p, "unmap")
  /\ \/ rest = {} /\ Then(p, <<>>)
     \/ \E y \in rest \cap dirs :
          Then(p, IF y \in NodeACLs
                  THEN More(x, (rest \ {y}) \cup Below(y, MappedLUNs))
                  ELSE DeleteFrames(y) \o More(x, rest \ {y}))
     \/ rest \ dirs # {} /\ Raise(p)
  /\ UNCHANGED Configfs

(* LUN._list_mapped_luns goes through all mapped LUNs of the TPG and reads *)
(* the symlink of each one; a mapped LUN without one raises.               *)
Unmap(p) ==
  LET x == Node(p)
      rest == Head(stack[p]).rest IN
  /\ At(p, "unmap")
  /\ \/ rest = {} /\ Then(p, <<>>)
     \/ \E y \in rest :
          \/ /\ y \in NodeACLs \cap dirs
             /\ Then(p, More(x, (rest \ {y}) \cup Below(y, MappedLUNs)))
          \/ /\ y \in MappedLUNs \cap dirs /\ link[y] = x
             /\ Then(p, DeleteFrames(y) \o More(x, rest \ {y}))
          \/ /\ y \in MappedLUNs \cap dirs /\ link[y] \notin {x, None}
             /\ Then(p, More(x, rest \ {y}))
          \/ /\ y \notin dirs \/ (y \in MappedLUNs /\ link[y] = None)
             /\ Raise(p)
  /\ UNCHANGED Configfs

(* StorageObject._gen_attached_luns goes down from the targets to the LUNs *)
(* and reads the symlink of each one.  A target or a LUN that has vanished *)
(* makes its listing raise; a TPG is tested first.                         *)
Detach(p) ==
  LET x == Node(p)
      rest == Head(stack[p]).rest IN
  /\ At(p, "detach")
  /\ \/ rest = {} /\ Then(p, <<>>)
     \/ \E y \in rest :
          \/ /\ y \in TPGs \/ y \in TargetDirs \cap dirs
             /\ Then(p, <<Frame("detach", x, (rest \ {y}) \cup Below(y, TPGs \cup LUNs))>>)
          \/ /\ y \in LUNs \cap dirs
             /\ Then(p, (IF link[y] = x THEN <<Do("attached", y)>> ELSE <<>>)
                        \o <<Frame("detach", x, rest \ {y})>>)
          \/ y \notin TPGs /\ y \notin dirs /\ Raise(p)
  /\ UNCHANGED Configfs

(* For a LUN that it finds, Target and TPG are constructed in mode 'any',  *)
(* then the LUN is looked up and deleted.  The loop of StorageObject.delete*)
(* ends early when no LUN uses the object any more.                        *)
Attached(p) ==
  LET y == Node(p)
      x == stack[p][2].node IN
  /\ At(p, "attached")
  /\ dirs' = dirs \cup {<<y[1]>>, TPGOf(y)}
  /\ IF y \notin dirs THEN Raise(p)
     ELSE IF LinkedTo(x) = {} THEN Become(p, SubSeq(stack[p], 3, Len(stack[p])))
     ELSE Then(p, DeleteFrames(y))
  /\ UNCHANGED <<link, enabled>>

(* The symlink that alias finds, if there is one. *)
Unlink(p) ==
  LET x == Node(p) IN
  /\ At(p, "unlink")
  /\ IF x \in dirs
     THEN link' = [link EXCEPT ![x] = None] /\ Then(p, <<>>)
     ELSE Raise(p) /\ UNCHANGED link
  /\ UNCHANGED <<dirs, enabled>>

(* Mutant: delete() tries again until the kernel accepts. *)
RmdirRetries(p) ==
  LET x == Node(p) IN
  /\ At(p, "rmdir")
  /\ x \in dirs => CanRmdir(x)
  /\ dirs' = dirs \ {x} /\ enabled' = enabled \ {x}
  /\ Then(p, <<>>)
  /\ UNCHANGED link

(* CFSNode.delete *)
Rmdir(p) ==
  LET x == Node(p) IN
  /\ At(p, "rmdir")
  /\ \/ /\ x \in dirs /\ CanRmdir(x)
        /\ dirs' = dirs \ {x} /\ enabled' = enabled \ {x}
        /\ Then(p, <<>>)
     \/ x \in dirs /\ ~CanRmdir(x) /\ Raise(p) /\ UNCHANGED <<dirs, enabled>>
     \/ x \notin dirs /\ Then(p, <<>>) /\ UNCHANGED <<dirs, enabled>>
  /\ UNCHANGED link

-----------------------------------------------------------------------------
(* RTSRoot.clear_existing: all targets, then all storage objects. *)
BeginClear(p) ==
  /\ Begin(p, <<>>, <<Do("targets", <<>>), Do("sos", <<>>)>>)
  /\ UNCHANGED Configfs

ListAll(p) ==
  /\ \/ At(p, "targets") /\ Then(p, Each(<<>>, dirs \cap TargetDirs))
     \/ At(p, "sos") /\ Then(p, Each(<<>>, dirs \cap SOs))
  /\ UNCHANGED Configfs

(* The process dies and is started again. *)
Crash(p) ==
  /\ ~Idle(p) /\ crashes < MaxCrashes
  /\ crashes' = crashes + 1
  /\ stack' = [stack EXCEPT ![p] = <<>>]
  /\ call' = [call EXCEPT ![p] = None]
  /\ UNCHANGED Configfs

(* A process goes on with its call. *)
Step(p) ==
  \/ Link(p) \/ Delete(p) \/ Disable(p) \/ List(p) \/ DeleteNext(p)
  \/ Unmap(p) \/ Detach(p) \/ Attached(p) \/ Unlink(p) \/ Rmdir(p) \/ ListAll(p)

Next ==
  \E p \in Procs :
    \/ \E x \in Dirs \ Linking : NewNode(p, x)
    \/ \E x \in Linking, target \in LUNs \cup SOs : NewLink(p, x, target)
    \/ \E x \in TPGs : SetEnable(p, x)
    \/ \E x \in Dirs : BeginDelete(p, x)
    \/ BeginClear(p)
    \/ Step(p)
    \/ Crash(p)

Spec == Init /\ [][Next]_vars

(* The operating system lets every process that is in a call go on. *)
FairSpec == Spec /\ \A p \in Procs : WF_vars(Step(p))

-----------------------------------------------------------------------------
(* Properties. *)

Under(y, x) == Len(x) <= Len(y) /\ SubSeq(y, 1, Len(x)) = x

Ends(p) == stack[p] # <<>> /\ stack'[p] = <<>> /\ crashes' = crashes

(* Between calls, and as long as no process has died, every LUN and mapped *)
(* LUN has its symlink, so that dump() and LUN.delete() can read it: a     *)
(* constructor that raises after its mkdir takes the directory away again. *)
NoBrokenLink ==
  crashes = 0 /\ (\A p \in Procs : Idle(p)) =>
    \A x \in dirs \cap Linking : link[x] # None

(* "This will delete all attached LUNs ... and then the StorageObject      *)
(* itself", and the same for the other classes: when delete() is over, the *)
(* node is gone.                                                           *)
DeleteDeletes ==
  [][\A p \in Procs : Ends(p) /\ call[p] \in Dirs => call[p] \notin dirs']_vars

DeleteDeletesUnlessCrashed ==
  [][\A p \in Procs : Ends(p) /\ call[p] \in Dirs /\ crashes = 0 => call[p] \notin dirs']_vars

(* Whatever a process that died has left, deleting a target, a TPG, an ACL *)
(* or a mapped LUN succeeds, and clear_existing() leaves nothing.          *)
Recovers ==
  [][\A p \in Procs : Ends(p) =>
       /\ call[p] \in Dirs \ (LUNs \cup SOs) => call[p] \notin dirs'
       /\ call[p] = <<>> => dirs' = {}]_vars

(* delete() of a node only takes away the symlinks of LUNs and mapped LUNs *)
(* that are below the node or that lead to it.                             *)
OnlyDependents ==
  [][\A p \in Procs, y \in Linking :
       call[p] \in Dirs /\ link[y] # None /\ link'[y] = None =>
         \/ Under(y, call[p])
         \/ Under(link[y], call[p])
         \/ link[y] \in LUNs /\ link[link[y]] = call[p]]_vars

(* "Before starting the actual deletion process, all sessions will be      *)
(* disconnected": the delete() of a TPG takes nothing away below it while  *)
(* it is enabled.                                                          *)
DisabledFirst ==
  [][\A p \in Procs, x \in enabled :
       call[p] \in TPGs \cup TargetDirs \cup {<<>>} /\ Under(x, call[p]) =>
         \A y \in dirs \ dirs' : ~Under(y, x)]_vars

(* The scan of StorageObject.delete for LUNs, and delete() as a whole,     *)
(* create nothing.                                                         *)
DeleteCreatesNothing ==
  [][\A p \in Procs : call[p] # None /\ stack'[p] # stack[p] => dirs' \subseteq dirs]_vars

(* Every call returns or raises, whatever the other processes do: a        *)
(* listing is taken once, so others cannot keep a delete() busy for ever.  *)
CallsEnd == \A p \in Procs : ~Idle(p) ~> Idle(p)
=============================================================================
