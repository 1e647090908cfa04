------------------------------- MODULE DbRoot -------------------------------
(***************************************************************************)
(* What RTSRoot() sets up (rtslib/root.py), above all the directory in     *)
(* which the kernel keeps the persistent reservations of storage objects,  *)
(* and how the constructor of a storage object brings them back            *)
(* (_config_pr_aptpl of tcm.py, which makes an RTSRoot() of its own).      *)
(*                                                                         *)
(* The kernel starts with one directory, Default; RTSRoot() moves it to    *)
(* Preferred, which the kernel refuses once a device is registered.  The   *)
(* reservations of an object are one number, 0 when there are none.        *)
(***************************************************************************)
EXTENDS Integers

CONSTANTS
  Procs,
  Objects,
  Default,    \* _default_dbroot
  Preferred,  \* _preferred_dbroot
  MaxReg,     \* bound on reservations
  None

ASSUME RootAssumption == Default # Preferred /\ None \notin {Default, Preferred}
ASSUME NoneAssumption == None \notin Objects
ASSUME MaxRegAssumption == MaxReg \in Nat

VARIABLES
  attr,      \* whether the kernel has the attribute "dbroot"
  dir,       \* whether Preferred is a directory
  mounted,   \* whether configfs is mounted
  loaded,    \* whether target_core_mod is loaded
  dbroot,    \* where the kernel keeps reservations
  device,    \* the storage objects that are registered
  regs,      \* the kernel's reservations for each
  disk,      \* the file aptpl_<wwn> of each below each directory
  writing,   \* the object whose file the kernel is writing, or None
  pc,        \* the next step of each process
  obj,       \* the object it constructs, or None
  seen,      \* _dbroot of the RTSRoot() under construction
  read,      \* the reservations it has read
  root,      \* _dbroot of the RTSRoot that the process has, or None
  saved,     \* history: what the file of each was last completed with
  early,     \* history: whether a process without RTSRoot made an object
  cut,       \* history: the objects whose file a power loss has cut
  orphan,    \* history: the objects whose constructor has died
  stolen     \* history: the constructors whose object another has deleted

system == <<attr, dir>>
kernel == <<mounted, loaded, dbroot, device, regs>>
files == <<disk, writing, saved, cut>>
local == <<pc, obj, seen, read, root>>
history == <<early, orphan, stolen>>
vars == <<system, kernel, files, local, history>>

Roots == {Default, Preferred}
Regs == 0 .. MaxReg

(* No file; an empty one; one that ends before its first PR_REG_END. *)
Missing == 0 - 1
Empty == 0 - 2
Cut == 0 - 3
Files == Regs \cup {Missing, Empty, Cut}

Steps == {"idle", "mount", "module", "read", "write", "reread", "aptpl", "inject", "undo"}

(* One type per variable. *)
TypeOK ==
  /\ attr \in BOOLEAN /\ dir \in BOOLEAN
  /\ mounted \in BOOLEAN /\ loaded \in BOOLEAN /\ early \in BOOLEAN
  /\ dbroot \in Roots
  /\ device \subseteq Objects /\ cut \subseteq Objects /\ orphan \subseteq Objects
  /\ stolen \subseteq Procs
  /\ regs \in [Objects -> Regs] /\ saved \in [Objects -> Regs]
  /\ disk \in [Roots -> [Objects -> Files]]
  /\ writing \in Objects \cup {None}
  /\ pc \in [Procs -> Steps]
  /\ obj \in [Procs -> Objects \cup {None}]
  /\ seen \in [Procs -> Roots]
  /\ read \in [Procs -> Regs]
  /\ root \in [Procs -> Roots \cup {None}]

(* The first boot. *)
Init ==
  /\ attr \in BOOLEAN /\ dir \in BOOLEAN
  /\ mounted = FALSE /\ loaded = FALSE /\ dbroot = Default /\ device = {}
  /\ regs = [w \in Objects |-> 0]
  /\ disk = [r \in Roots |-> [w \in Objects |-> Missing]]
  /\ writing = None
  /\ saved = [w \in Objects |-> 0]
  /\ pc = [p \in Procs |-> "idle"]
  /\ obj = [p \in Procs |-> None]
  /\ seen = [p \in Procs |-> Default]
  /\ read = [p \in Procs |-> 0]
  /\ root = [p \in Procs |-> None]
  /\ early = FALSE /\ cut = {} /\ orphan = {} /\ stolen = {}

-----------------------------------------------------------------------------
Goto(p, step) == pc' = [pc EXCEPT ![p] = step]

(* The constructor, or an RTSRoot() that is not part of one, ends. *)
End(p) ==
  /\ Goto(p, "idle")
  /\ obj' = [obj EXCEPT ![p] = None]
  /\ seen' = [seen EXCEPT ![p] = Default]
  /\ read' = [read EXCEPT ![p] = 0]
  /\ stolen' = stolen \ {p}

(* RTSRoot() returns with this _dbroot, *)
Returns(p, r) ==
  \/ /\ obj[p] = None /\ End(p)
     /\ root' = [root EXCEPT ![p] = r]
  \/ /\ obj[p] # None /\ Goto(p, "aptpl")
     /\ seen' = [seen EXCEPT ![p] = r]
     /\ UNCHANGED <<obj, read, root, stolen>>

(* or raises. *)
Raises(p) ==
  /\ \/ obj[p] = None /\ End(p)
     \/ obj[p] # None /\ Goto(p, "undo") /\ UNCHANGED <<obj, seen, read, stolen>>
  /\ UNCHANGED root

-----------------------------------------------------------------------------
(* RTSRoot() *)
NewRoot(p) ==
  /\ pc[p] = "idle" /\ Goto(p, "mount")
  /\ UNCHANGED <<system, kernel, files, obj, seen, read, root, history>>

(* mount_configfs(), which the system may have done once the module is     *)
(* there.                                                                  *)
Mount(p) ==
  /\ pc[p] = "mount"
  /\ \/ Goto(p, "module") /\ mounted' = TRUE /\ UNCHANGED <<obj, seen, read, root, stolen>>
     \/ ~mounted /\ Raises(p) /\ UNCHANGED mounted
  /\ UNCHANGED <<system, loaded, dbroot, device, regs, files, early, orphan>>

(* The directory of target_core_mod. *)
Module(p) ==
  /\ pc[p] = "module"
  /\ \/ mounted /\ Goto(p, "read") /\ loaded' = TRUE /\ UNCHANGED <<obj, seen, read, root, stolen>>
     \/ ~loaded /\ Raises(p) /\ UNCHANGED loaded
  /\ UNCHANGED <<system, mounted, dbroot, device, regs, files, early, orphan>>

(* Mutant: without the attribute there is no _dbroot. *)
ReadNoDefault(p) ==
  /\ pc[p] = "read"
  /\ \/ ~attr /\ Returns(p, None)
     \/ attr /\ dbroot = Preferred /\ Returns(p, dbroot)
     \/ /\ attr /\ dbroot # Preferred
        /\ seen' = [seen EXCEPT ![p] = dbroot]
        /\ Goto(p, "write")
        /\ UNCHANGED <<obj, read, root, stolen>>
  /\ UNCHANGED <<system, kernel, files, early, orphan>>

(* Mutant: dbroot is taken as it is. *)
ReadOnly(p) ==
  /\ pc[p] = "read"
  /\ Returns(p, IF attr THEN dbroot ELSE Default)
  /\ UNCHANGED <<system, kernel, files, early, orphan>>

(* _set_dbroot() *)
Read(p) ==
  /\ pc[p] = "read"
  /\ \/ ~attr /\ Returns(p, Default)
     \/ attr /\ dbroot = Preferred /\ Returns(p, dbroot)
     \/ /\ attr /\ dbroot # Preferred
        /\ seen' = [seen EXCEPT ![p] = dbroot]
        /\ Goto(p, "write")
        /\ UNCHANGED <<obj, read, root, stolen>>
  /\ UNCHANGED <<system, kernel, files, early, orphan>>

(* Mutant: after a refusal, _dbroot is what it should be. *)
WriteAssumed(p) ==
  /\ pc[p] = "write"
  /\ \/ /\ device = {} /\ dir /\ dbroot' = Preferred
        /\ Goto(p, "reread")
        /\ UNCHANGED <<obj, seen, read, root, stolen>>
     \/ ~dir /\ Raises(p) /\ UNCHANGED dbroot
     \/ device # {} /\ dir /\ Returns(p, Preferred) /\ UNCHANGED dbroot
  /\ UNCHANGED <<system, mounted, loaded, device, regs, files, early, orphan>>

Write(p) ==
  /\ pc[p] = "write"
  /\ \/ /\ device = {} /\ dir /\ dbroot' = Preferred
        /\ Goto(p, "reread")
        /\ UNCHANGED <<obj, seen, read, root, stolen>>
     \/ ~dir /\ Raises(p) /\ UNCHANGED dbroot
     \/ device # {} /\ dir /\ Returns(p, seen[p]) /\ UNCHANGED dbroot
  /\ UNCHANGED <<system, mounted, loaded, device, regs, files, early, orphan>>

Reread(p) ==
  /\ pc[p] = "reread" /\ Returns(p, dbroot)
  /\ UNCHANGED <<system, kernel, files, early, orphan>>

-----------------------------------------------------------------------------
(* The constructor of a storage object: the device is made, enabled and    *)
(* given its wwn, then there is an RTSRoot().                              *)
NewObject(p, w) ==
  /\ pc[p] = "idle" /\ loaded /\ w \notin device
  /\ device' = device \cup {w}
  /\ obj' = [obj EXCEPT ![p] = w]
  /\ Goto(p, "mount")
  /\ early' = (early \/ root[p] = None)
  /\ orphan' = orphan \ {w}
  /\ UNCHANGED <<system, mounted, loaded, dbroot, regs, files, seen, read, root, stolen>>

(* Mutant: an empty file is as good as none. *)
AptplIgnoreEmpty(p) ==
  LET f == disk[seen[p]][obj[p]] IN
  /\ pc[p] = "aptpl"
  /\ \/ f \in {Missing, Cut, Empty, 0} /\ End(p)
     \/ /\ f \in Regs \ {0} /\ read' = [read EXCEPT ![p] = f] /\ Goto(p, "inject")
        /\ UNCHANGED <<obj, seen, stolen>>
  /\ UNCHANGED <<system, kernel, files, root, early, orphan>>

(* _config_pr_aptpl() reads the file, which is nothing to it if it is not  *)
(* there, has no reservations or does not complete one; of an empty one it *)
(* takes lines[0].                                                         *)
Aptpl(p) ==
  LET f == disk[seen[p]][obj[p]] IN
  /\ pc[p] = "aptpl"
  /\ \/ f \in {Missing, Cut, 0} /\ End(p)
     \/ f = Empty /\ Goto(p, "undo") /\ UNCHANGED <<obj, seen, read, stolen>>
     \/ /\ f \in Regs \ {0} /\ read' = [read EXCEPT ![p] = f] /\ Goto(p, "inject")
        /\ UNCHANGED <<obj, seen, stolen>>
  /\ UNCHANGED <<system, kernel, files, root, early, orphan>>

(* They are written to pr/res_aptpl_metadata, which may fail. *)
Inject(p) ==
  /\ pc[p] = "inject"
  /\ \/ obj[p] \in device /\ regs' = [regs EXCEPT ![obj[p]] = read[p]] /\ End(p)
     \/ Goto(p, "undo") /\ UNCHANGED <<regs, obj, seen, read, stolen>>
  /\ UNCHANGED <<system, mounted, loaded, dbroot, device, files, root, early, orphan>>

(* delete(), also of the constructor that raises. *)
Removed(w) ==
  /\ device' = device \ {w}
  /\ regs' = [regs EXCEPT ![w] = 0]
  /\ orphan' = orphan \ {w}

Undo(p) ==
  /\ pc[p] = "undo"
  /\ Removed(obj[p])
  /\ Goto(p, "idle")
  /\ obj' = [obj EXCEPT ![p] = None]
  /\ seen' = [seen EXCEPT ![p] = Default]
  /\ read' = [read EXCEPT ![p] = 0]
  /\ stolen' = (stolen \ {p}) \cup {q \in Procs \ {p} : obj[q] = obj[p]}
  /\ UNCHANGED <<system, mounted, loaded, dbroot, files, root, early>>

Delete(p, w) ==
  /\ pc[p] = "idle" /\ w \in device /\ w # writing
  /\ Removed(w)
  /\ stolen' = stolen \cup {q \in Procs : obj[q] = w}
  /\ UNCHANGED <<system, mounted, loaded, dbroot, files, local, early>>

-----------------------------------------------------------------------------
(* The kernel (external). *)

(* An initiator changes its reservations of an object, which is exported   *)
(* only once it is made.  The file is written anew, in place.              *)
Register(w, n) ==
  /\ w \in device /\ writing = None /\ \A p \in Procs : obj[p] # w
  /\ regs' = [regs EXCEPT ![w] = n]
  /\ disk' = [disk EXCEPT ![dbroot][w] = Empty]
  /\ writing' = w
  /\ UNCHANGED <<system, mounted, loaded, dbroot, device, saved, cut, local, history>>

Persist ==
  /\ writing # None
  /\ disk' = [disk EXCEPT ![dbroot][writing] = regs[writing]]
  /\ saved' = [saved EXCEPT ![writing] = regs[writing]]
  /\ cut' = cut \ {writing}
  /\ writing' = None
  /\ UNCHANGED <<system, kernel, local, history>>

(* The file that was being written when the power went. *)
FileAtBoot ==
  \/ UNCHANGED <<disk, saved, cut>>
  \/ /\ writing # None
     /\ \/ /\ disk' = [disk EXCEPT ![dbroot][writing] = regs[writing]]
           /\ saved' = [saved EXCEPT ![writing] = regs[writing]]
           /\ cut' = cut \ {writing}
        \/ /\ disk' = [disk EXCEPT ![dbroot][writing] = Cut]
           /\ cut' = cut \cup {writing}
           /\ UNCHANGED saved

Boot ==
  /\ FileAtBoot
  /\ writing' = None
  /\ mounted' = FALSE /\ loaded' = FALSE /\ dbroot' = Default /\ device' = {}
  /\ regs' = [w \in Objects |-> 0]
  /\ pc' = [p \in Procs |-> "idle"]
  /\ obj' = [p \in Procs |-> None]
  /\ seen' = [p \in Procs |-> Default]
  /\ read' = [p \in Procs |-> 0]
  /\ root' = [p \in Procs |-> None]
  /\ orphan' = {} /\ stolen' = {}
  /\ UNCHANGED <<system, early>>

(* A process dies, and another one starts in its place. *)
Crash(p) ==
  /\ End(p)
  /\ root' = [root EXCEPT ![p] = None]
  /\ orphan' = orphan \cup ({obj[p]} \ {None})
  /\ UNCHANGED <<system, kernel, files, early>>

Next ==
  \/ \E p \in Procs :
       \/ NewRoot(p) \/ Mount(p) \/ Module(p) \/ Read(p) \/ Write(p) \/ Reread(p)
       \/ Aptpl(p) \/ Inject(p) \/ Undo(p) \/ Crash(p)
       \/ \E w \in Objects : NewObject(p, w) \/ Delete(p, w)
  \/ \E w \in Objects, n \in Regs : Register(w, n)
  \/ Persist \/ Boot

Spec == Init /\ [][Next]_vars

-----------------------------------------------------------------------------
(* Properties. *)

(* As long as every process makes an RTSRoot before its first object, the  *)
(* directory in use is the one "where the target DB is to be located", of  *)
(* all orders in which processes start, die and make objects.              *)
PreferredRoot == ~early /\ attr /\ device # {} => dbroot = Preferred

(* A constructor looks for reservations where the kernel keeps them, even  *)
(* if another RTSRoot() is about to move it: unless another process has    *)
(* deleted its device, which holds the directory in place.                 *)
ReadsWhereKernelWrites ==
  \A p \in Procs : pc[p] = "aptpl" /\ p \notin stolen => seen[p] = dbroot

(* An object that is there has the reservations that were last saved,      *)
(* across restarts and power losses, with these exceptions: its            *)
(* constructor has died, its file was cut within a reservation, or some    *)
(* object was made before any RTSRoot.                                     *)
RegistrationsSurvive ==
  ~early =>
    \A w \in device \ (orphan \cup cut \cup {writing}) :
      (\A p \in Procs : obj[p] # w) => regs[w] = saved[w]
=============================================================================
