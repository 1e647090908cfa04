---------------------------- MODULE DbRootProofs ----------------------------
(***************************************************************************)
(* Proofs about DbRoot, for any number of processes and objects.           *)
(***************************************************************************)
EXTENDS DbRoot, TLAPS

(* Where the kernel keeps reservations once there has been an RTSRoot(). *)
Home == IF attr THEN Preferred ELSE Default

(* What a process knows at its step. *)
StepInv(p) ==
  /\ pc[p] \in {"aptpl", "inject", "undo"} => obj[p] # None
  /\ pc[p] = "idle" => obj[p] = None
  /\ pc[p] = "write" => attr
  /\ pc[p] = "reread" => attr /\ dbroot = Preferred
  /\ obj[p] # None /\ p \notin stolen =>
       /\ obj[p] \in device
       /\ pc[p] \in {"write", "aptpl"} => seen[p] = dbroot

(* A device holds the directory, and a file that is written, in place. *)
KernelInv ==
  /\ ~attr => dbroot = Default
  /\ \A w \in Objects \ device : regs[w] = 0
  /\ writing # None => writing \in device /\ \A p \in Procs : obj[p] # writing

(* If every process has made an RTSRoot() before its first object. *)
HomeInv ==
  /\ device # {} => dbroot = Home
  /\ \A p \in Procs :
       /\ root[p] # None => dbroot = Home
       /\ obj[p] # None => root[p] # None /\ pc[p] # "write"
       /\ pc[p] = "aptpl" => seen[p] = Home

(* Then the files in Home hold what was saved, *)
FileInv ==
  /\ \A w \in Objects \ (cut \cup {writing}) :
       \/ disk[Home][w] \in {saved[w], Empty}
       \/ disk[Home][w] = Missing /\ saved[w] = 0
  /\ writing # None => disk[Home][writing] = Empty

(* and devices have it, or are about to. *)
RegsInv ==
  /\ \A p \in Procs : pc[p] = "inject" /\ obj[p] \notin cut => read[p] = saved[obj[p]]
  /\ \A w \in device \ (cut \cup {writing}) :
       /\ regs[w] \in {0, saved[w]}
       /\ w \notin orphan /\ (\A p \in Procs : obj[p] # w) => regs[w] = saved[w]

Base == TypeOK /\ KernelInv /\ \A p \in Procs : StepInv(p)

RootInv == Base /\ (~early => HomeInv /\ FileInv /\ RegsInv)

-----------------------------------------------------------------------------
LEMMA FileKinds ==
  /\ 0 \in Regs /\ Regs \subseteq Files /\ {Missing, Empty, Cut} \subseteq Files
  /\ Missing \notin Regs /\ Empty \notin Regs /\ Cut \notin Regs
  /\ Missing # Empty /\ Missing # Cut /\ Empty # Cut
BY MaxRegAssumption DEF Regs, Files, Missing, Empty, Cut

LEMMA Places == Default \in Roots /\ Preferred \in Roots /\ Default # Preferred /\ None \notin Roots
BY RootAssumption DEF Roots

LEMMA RootInvInit == Init => RootInv
<1> SUFFICES ASSUME Init
             PROVE  RootInv
  OBVIOUS
<1> USE DEF Init
<1>1. TypeOK
  BY FileKinds, Places, Zenon DEF TypeOK, Steps
<1>2. KernelInv /\ \A p \in Procs : StepInv(p)
  BY DEF KernelInv, StepInv
<1>3. HomeInv /\ RegsInv
  BY DEF HomeInv, RegsInv
<1>4. FileInv
  BY Places DEF FileInv, Home
<1> QED
  BY <1>1, <1>2, <1>3, <1>4 DEF RootInv, Base

(* Steps of processes that construct nothing new. *)
RootStep(p) == NewRoot(p) \/ Mount(p) \/ Module(p) \/ Read(p) \/ Write(p) \/ Reread(p)
ObjectStep(p) == Aptpl(p) \/ Inject(p) \/ Undo(p) \/ Crash(p) \/ \E w \in Objects : NewObject(p, w) \/ Delete(p, w)
KernelStep == (\E w \in Objects, n \in Regs : Register(w, n)) \/ Persist \/ Boot

LEMMA Cases == Next <=> (\E p \in Procs : RootStep(p) \/ ObjectStep(p)) \/ KernelStep
BY DEF Next, RootStep, ObjectStep, KernelStep

(* The types of TypeOK, of the kernel and of the processes. *)
SharedType ==
  /\ attr \in BOOLEAN /\ dir \in BOOLEAN
  /\ mounted \in BOOLEAN /\ loaded \in BOOLEAN /\ early \in BOOLEAN
  /\ dbroot \in Roots
  /\ device \subseteq Objects /\ cut \subseteq Objects /\ orphan \subseteq Objects
  /\ regs \in [Objects -> Regs] /\ saved \in [Objects -> Regs]
  /\ disk \in [Roots -> [Objects -> Files]]
  /\ writing \in Objects \cup {None}

LocalType ==
  /\ stolen \subseteq Procs
  /\ pc \in [Procs -> Steps]
  /\ obj \in [Procs -> Objects \cup {None}]
  /\ seen \in [Procs -> Roots]
  /\ read \in [Procs -> Regs]

HeldType == root \in [Procs -> Roots \cup {None}]

LEMMA TypeSplit ==
  /\ TypeOK <=> SharedType /\ LocalType /\ HeldType
  /\ TypeOK' <=> SharedType' /\ LocalType' /\ HeldType'
BY DEF TypeOK, SharedType, LocalType, HeldType

LEMMA EndType ==
  ASSUME LocalType, NEW p \in Procs, End(p)
  PROVE  LocalType'
BY FileKinds, Places DEF LocalType, End, Goto, Steps

LEMMA ReturnsType ==
  ASSUME LocalType, HeldType, NEW p \in Procs, NEW r \in Roots, Returns(p, r)
  PROVE  LocalType' /\ HeldType'
<1>1. CASE obj[p] = None
  BY <1>1, EndType DEF Returns, HeldType
<1>2. CASE obj[p] # None
  BY <1>2 DEF Returns, Goto, LocalType, HeldType, Steps
<1> QED
  BY <1>1, <1>2

LEMMA RaisesType ==
  ASSUME LocalType, HeldType, NEW p \in Procs, Raises(p)
  PROVE  LocalType' /\ HeldType'
<1>1. CASE obj[p] = None
  BY <1>1, EndType DEF Raises, HeldType
<1>2. CASE obj[p] # None
  BY <1>2, Zenon DEF Raises, Goto, LocalType, HeldType, Steps
<1> QED
  BY <1>1, <1>2

LEMMA TypeRoot ==
  ASSUME TypeOK, NEW p \in Procs, RootStep(p)
  PROVE  TypeOK'
<1> USE TypeSplit
<1>1. SharedType'
  <2>1. UNCHANGED <<system, files, early, orphan, device, regs>>
    BY Zenon DEF RootStep, NewRoot, Mount, Module, Read, Write, Reread, kernel, history
  <2>2. dbroot' \in Roots
    BY Places DEF RootStep, NewRoot, Mount, Module, Read, Write, Reread, kernel, SharedType
  <2>3. mounted' \in BOOLEAN /\ loaded' \in BOOLEAN
    BY Zenon DEF RootStep, NewRoot, Mount, Module, Read, Write, Reread, kernel, SharedType
  <2> QED
    BY <2>1, <2>2, <2>3 DEF SharedType, system, files
<1>2. CASE Raises(p)
  BY <1>1, <1>2, RaisesType
<1>3. CASE \E r \in Roots : Returns(p, r)
  BY <1>1, <1>3, ReturnsType
<1>4. CASE /\ \E step \in Steps : Goto(p, step)
           /\ UNCHANGED <<obj, read, root, stolen>>
           /\ UNCHANGED seen \/ seen' = [seen EXCEPT ![p] = dbroot]
  <2>1. LocalType' /\ HeldType'
    BY <1>4 DEF Goto, LocalType, HeldType, SharedType
  <2> QED
    BY <1>1, <2>1
<1>5. seen[p] \in Roots /\ dbroot \in Roots
  BY DEF LocalType, SharedType
<1> QED
  BY <1>2, <1>3, <1>4, <1>5, Places
     DEF RootStep, NewRoot, Mount, Module, Read, Write, Reread, history, Steps

LEMMA TypeObject ==
  ASSUME TypeOK, NEW p \in Procs, ObjectStep(p)
  PROVE  TypeOK'
<1> USE TypeSplit
<1>1. CASE Aptpl(p)
  <2>1. SharedType' /\ HeldType'
    BY <1>1, Zenon DEF Aptpl, system, kernel, files, SharedType, HeldType
  <2>2. LocalType'
    <3>1. CASE End(p)
      BY <3>1, EndType
    <3>2. CASE Goto(p, "undo") /\ UNCHANGED <<obj, seen, read, stolen>>
      BY <3>2 DEF Goto, LocalType, Steps
    <3>3. CASE /\ \E f \in Regs : read' = [read EXCEPT ![p] = f]
               /\ Goto(p, "inject") /\ UNCHANGED <<obj, seen, stolen>>
      BY <3>3 DEF Goto, LocalType, Steps
    <3> QED
      BY <1>1, <3>1, <3>2, <3>3 DEF Aptpl
  <2> QED
    BY <2>1, <2>2, Zenon
<1>2. CASE Inject(p)
  <2>1. read[p] \in Regs
    BY Zenon DEF LocalType
  <2>2. SharedType' /\ HeldType'
    BY <1>2, <2>1 DEF Inject, system, files, SharedType, HeldType
  <2>3. LocalType'
    BY <1>2, EndType DEF Inject, Goto, LocalType, Steps
  <2> QED
    BY <2>2, <2>3
<1>3. CASE Undo(p)
  <2>1. SharedType' /\ HeldType'
    BY <1>3, FileKinds, Zenon DEF Undo, Removed, system, files, SharedType, HeldType
  <2>2. LocalType'
    BY <1>3, FileKinds, Places DEF Undo, Goto, LocalType, Steps
  <2> QED
    BY <2>1, <2>2
<1>4. CASE Crash(p)
  <2>1. obj[p] \in Objects \cup {None}
    BY Zenon DEF LocalType
  <2>2. SharedType' /\ HeldType'
    BY <1>4, <2>1 DEF Crash, system, kernel, files, SharedType, HeldType
  <2> QED
    BY <1>4, <2>2, EndType DEF Crash
<1>5. ASSUME NEW w \in Objects, NewObject(p, w)
      PROVE  TypeOK'
  <2>1. early' \in BOOLEAN
    BY <1>5 DEF NewObject, SharedType
  <2>2. SharedType' /\ HeldType'
    BY <1>5, <2>1, Zenon DEF NewObject, system, files, SharedType, HeldType
  <2>3. LocalType'
    BY <1>5 DEF NewObject, Goto, LocalType, Steps
  <2> QED
    BY <2>2, <2>3, Zenon
<1>6. ASSUME NEW w \in Objects, Delete(p, w)
      PROVE  TypeOK'
  <2>1. SharedType'
    BY <1>6, FileKinds DEF Delete, Removed, system, files, SharedType
  <2>2. LocalType' /\ HeldType'
    BY <1>6 DEF Delete, local, LocalType, HeldType
  <2> QED
    BY <2>1, <2>2, Zenon
<1> QED
  BY <1>1, <1>2, <1>3, <1>4, <1>5, <1>6 DEF ObjectStep

(* What the kernel writes to a file, and leaves in one. *)
LEMMA DiskType ==
  ASSUME SharedType, NEW w \in Objects, NEW f \in Files, disk' = [disk EXCEPT ![dbroot][w] = f]
  PROVE  /\ disk' \in [Roots -> [Objects -> Files]]
         /\ disk'[dbroot][w] = f
         /\ \A r \in Roots, v \in Objects : r # dbroot \/ v # w => disk'[r][v] = disk[r][v]
BY DEF SharedType

LEMMA TypeKernel ==
  ASSUME TypeOK, KernelStep
  PROVE  TypeOK'
<1> USE TypeSplit
<1>1. ASSUME NEW w \in Objects, NEW n \in Regs, Register(w, n)
      PROVE  TypeOK'
  <2>1. disk' \in [Roots -> [Objects -> Files]]
    BY <1>1, FileKinds, DiskType, Zenon DEF Register
  <2>2. SharedType'
    BY <1>1, <2>1 DEF Register, system, SharedType, history
  <2>3. LocalType' /\ HeldType'
    BY <1>1 DEF Register, local, history, LocalType, HeldType
  <2> QED
    BY <2>2, <2>3
<1>2. CASE Persist
  <2>1. writing \in Objects /\ regs[writing] \in Regs /\ regs[writing] \in Files
    BY <1>2, FileKinds DEF Persist, SharedType
  <2>2. disk' \in [Roots -> [Objects -> Files]]
    BY <1>2, <2>1, DiskType, Zenon DEF Persist
  <2>3. SharedType'
    BY <1>2, <2>1, <2>2 DEF Persist, system, kernel, history, SharedType
  <2>4. LocalType' /\ HeldType'
    BY <1>2 DEF Persist, local, history, LocalType, HeldType
  <2> QED
    BY <2>3, <2>4
<1>3. CASE Boot
  <2>1. disk' \in [Roots -> [Objects -> Files]] /\ saved' \in [Objects -> Regs] /\ cut' \subseteq Objects
    <3>1. CASE UNCHANGED <<disk, saved, cut>>
      BY <3>1 DEF SharedType
    <3>2. CASE writing # None
      <4>1. writing \in Objects /\ regs[writing] \in Regs /\ regs[writing] \in Files /\ Cut \in Files
        BY <3>2, FileKinds DEF SharedType
      <4>2. saved' \in [Objects -> Regs] /\ cut' \subseteq Objects
        BY <1>3, <4>1 DEF Boot, FileAtBoot, SharedType
      <4>3. CASE disk' = [disk EXCEPT ![dbroot][writing] = regs[writing]]
        BY <4>1, <4>2, <4>3, DiskType, Zenon
      <4>4. CASE disk' = [disk EXCEPT ![dbroot][writing] = Cut]
        BY <4>1, <4>2, <4>4, DiskType, Zenon
      <4> QED
        BY <1>3, <3>1, <4>3, <4>4 DEF Boot, FileAtBoot
    <3> QED
      BY <1>3, <3>1, <3>2 DEF Boot, FileAtBoot
  <2>2. SharedType'
    BY <1>3, <2>1, FileKinds, Places, Zenon DEF Boot, system, SharedType
  <2>3. LocalType' /\ HeldType'
    BY <1>3, FileKinds, Places DEF Boot, Steps, LocalType, HeldType
  <2> QED
    BY <2>2, <2>3
<1> QED
  BY <1>1, <1>2, <1>3 DEF KernelStep

-----------------------------------------------------------------------------
(* Steps, devices and files, whatever the order of calls. *)

(* A step of p, seen from another process. *)
Apart(p, q) ==
  /\ pc'[q] = pc[q] /\ obj'[q] = obj[q] /\ seen'[q] = seen[q] /\ read'[q] = read[q] /\ root'[q] = root[q]
  /\ q \in stolen => q \in stolen'

LEMMA RootFrame ==
  ASSUME TypeOK, NEW p \in Procs, RootStep(p)
  PROVE  /\ UNCHANGED <<attr, device, regs, disk, writing, saved, cut, early, orphan>>
         /\ dbroot' = dbroot \/ (device = {} /\ dbroot' = Preferred /\ pc[p] = "write")
         /\ \A q \in Procs \ {p} : Apart(p, q)
<1> USE DEF TypeOK, Returns, Raises, End, Goto, Apart, system, kernel, files, history
<1>1. CASE NewRoot(p)
  BY <1>1, Zenon DEF NewRoot
<1>2. CASE Mount(p)
  BY <1>2, Zenon DEF Mount
<1>3. CASE Module(p)
  BY <1>3, Zenon DEF Module
<1>4. CASE Read(p)
  BY <1>4, ZenonT(60) DEF Read
<1>5. CASE Write(p)
  BY <1>5, ZenonT(60) DEF Write
<1>6. CASE Reread(p)
  BY <1>6, ZenonT(60) DEF Reread
<1> QED
  BY <1>1, <1>2, <1>3, <1>4, <1>5, <1>6, Zenon DEF RootStep

LEMMA ObjectFrame ==
  ASSUME TypeOK, NEW p \in Procs, ObjectStep(p)
  PROVE  /\ UNCHANGED <<attr, dbroot, disk, writing, saved, cut>>
         /\ early => early'
         /\ \A q \in Procs \ {p} : Apart(p, q)
<1> USE DEF TypeOK, End, Goto, Apart, system, kernel, files, local
<1>1. CASE Aptpl(p)
  BY <1>1, Zenon DEF Aptpl
<1>2. CASE Inject(p)
  BY <1>2, ZenonT(60) DEF Inject
<1>3. CASE Undo(p)
  BY <1>3, Zenon DEF Undo
<1>4. CASE Crash(p)
  BY <1>4, Zenon DEF Crash
<1>5. CASE \E w \in Objects : NewObject(p, w)
  BY <1>5, Zenon DEF NewObject
<1>6. CASE \E w \in Objects : Delete(p, w)
  BY <1>6 DEF Delete
<1> QED
  BY <1>1, <1>2, <1>3, <1>4, <1>5, <1>6, Zenon DEF ObjectStep

LEMMA StepOthers ==
  ASSUME TypeOK, NEW p \in Procs, NEW q \in Procs \ {p}, StepInv(q), Apart(p, q), UNCHANGED attr,
         dbroot' = dbroot \/ (dbroot' = Preferred /\ device = {}),
         obj[q] # None /\ q \notin stolen' /\ obj[q] \in device => obj[q] \in device'
  PROVE  StepInv(q)'
BY DEF StepInv, Apart

LEMMA BaseRoot ==
  ASSUME Base, NEW p \in Procs, RootStep(p)
  PROVE  Base'
<1> USE DEF Base
<1>1. TypeOK'
  BY TypeRoot
<1>2. /\ UNCHANGED <<attr, device, regs, writing>>
      /\ dbroot' = dbroot \/ (device = {} /\ dbroot' = Preferred /\ pc[p] = "write")
      /\ \A q \in Procs \ {p} : Apart(p, q)
  BY RootFrame, Zenon
<1>3. ASSUME NEW q \in Procs \ {p}
      PROVE  StepInv(q)'
  BY <1>2, StepOthers, Zenon
<1>4. /\ obj'[p] = obj[p] /\ pc[p] \notin {"aptpl", "inject", "undo"} /\ StepInv(p)
      /\ obj[p] # None /\ p \in stolen => p \in stolen'
  BY Zenon DEF RootStep, NewRoot, Mount, Module, Read, Write, Reread, Returns, Raises, End, Goto, TypeOK, history, StepInv
<1>5. StepInv(p)'
  <2>1. CASE obj[p] = None /\ pc'[p] = "idle"
    BY <1>4, <2>1, ZenonT(60) DEF StepInv
  <2>2. CASE obj[p] # None /\ pc'[p] = "undo"
    BY <1>2, <1>4, <2>2, Zenon DEF StepInv
  <2>3. CASE NewRoot(p)
    BY <1>2, <1>4, <2>3, Zenon DEF NewRoot, Goto, TypeOK, StepInv
  <2>4. CASE pc'[p] \in {"module", "read"}
    BY <1>2, <1>4, <2>4, ZenonT(60) DEF StepInv
  <2>5. CASE Read(p)
    BY <1>2, <1>4, <2>1, <2>5, Places, SMTT(60) DEF Read, Returns, End, Goto, TypeOK, StepInv, KernelInv, kernel, system
  <2>6. CASE Write(p)
    BY <1>2, <1>4, <2>1, <2>2, <2>6, Zenon DEF Write, Returns, Raises, End, Goto, TypeOK, StepInv
  <2>7. CASE Reread(p)
    BY <1>2, <1>4, <2>1, <2>7, Zenon DEF Reread, Returns, Goto, End, TypeOK, StepInv, kernel
  <2>8. CASE Raises(p)
    BY <2>1, <2>2, <2>8, Zenon DEF Raises, End, Goto, TypeOK
  <2> QED
    BY <2>3, <2>4, <2>5, <2>6, <2>7, <2>8 DEF RootStep, Mount, Module, Goto, TypeOK
<1>6. KernelInv'
  <2>1. ~attr' => dbroot' = Default
    BY <1>2, ZenonT(60) DEF KernelInv, StepInv
  <2>2. \A q \in Procs : obj'[q] = obj[q]
    BY <1>2, <1>4, Zenon DEF Apart
  <2> QED
    BY <1>2, <2>1, <2>2, Zenon DEF KernelInv
<1> QED
  BY <1>1, <1>3, <1>5, <1>6

LEMMA BaseObject ==
  ASSUME Base, NEW p \in Procs, ObjectStep(p)
  PROVE  Base'
<1> USE DEF Base
<1>1. TypeOK'
  BY TypeObject
<1>2. UNCHANGED <<attr, dbroot, writing>> /\ \A q \in Procs \ {p} : Apart(p, q)
  BY ObjectFrame
<1>3. ASSUME NEW q \in Procs \ {p}
      PROVE  StepInv(q)'
  <2>1. obj[q] # None /\ q \notin stolen' /\ obj[q] \in device => obj[q] \in device'
    BY Zenon DEF ObjectStep, Aptpl, Inject, Undo, Crash, NewObject, Delete, Removed, kernel
  <2> QED
    BY <1>2, <2>1, StepOthers
<1>4. StepInv(p)'
  <2>1. CASE obj'[p] = None /\ pc'[p] = "idle"
    BY <2>1, Zenon DEF StepInv
  <2>2. CASE Aptpl(p)
    BY <2>1, <2>2, Zenon DEF Aptpl, End, Goto, TypeOK, StepInv, kernel
  <2>3. CASE Inject(p)
    BY <2>1, <2>3 DEF Inject, End, Goto, TypeOK, StepInv
  <2>4. CASE Undo(p) \/ Crash(p)
    BY <2>1, <2>4, Zenon DEF Undo, Crash, End, Goto, TypeOK
  <2>5. CASE \E w \in Objects : NewObject(p, w)
    BY <2>5, NoneAssumption, ZenonT(60) DEF NewObject, Goto, TypeOK, StepInv
  <2>6. CASE \E w \in Objects : Delete(p, w)
    BY <2>1, <2>6 DEF Delete, local, StepInv
  <2> QED
    BY <2>2, <2>3, <2>4, <2>5, <2>6, Zenon DEF ObjectStep
<1>5. KernelInv'
  <2>1. CASE Aptpl(p) \/ Crash(p)
    BY <1>2, <2>1, Zenon DEF Aptpl, Crash, End, Goto, KernelInv, kernel, TypeOK, Apart
  <2>2. CASE Inject(p)
    BY <1>2, <2>2, ZenonT(60) DEF Inject, End, KernelInv, TypeOK, Apart
  <2>3. CASE Undo(p)
    BY <1>2, <2>3, Zenon DEF Undo, Removed, KernelInv, TypeOK, StepInv
  <2>4. ASSUME NEW w \in Objects, NewObject(p, w)
        PROVE  KernelInv'
    BY <1>2, <2>4, Zenon DEF NewObject, KernelInv, TypeOK
  <2>5. ASSUME NEW w \in Objects, Delete(p, w)
        PROVE  KernelInv'
    BY <1>2, <2>5 DEF Delete, Removed, local, KernelInv, TypeOK
  <2> QED
    BY <2>1, <2>2, <2>3, <2>4, <2>5, Zenon DEF ObjectStep
<1> QED
  BY <1>1, <1>3, <1>4, <1>5

LEMMA BaseKernel ==
  ASSUME Base, KernelStep
  PROVE  Base'
<1> USE DEF Base
<1>1. TypeOK'
  BY TypeKernel, Zenon
<1>2. ASSUME NEW w \in Objects, NEW n \in Regs, Register(w, n)
      PROVE  KernelInv' /\ \A p \in Procs : StepInv(p)'
  <2>1. KernelInv'
    BY <1>2, Zenon DEF Register, KernelInv, system, local, TypeOK
  <2> QED
    BY <1>2, <2>1, Zenon DEF Register, StepInv, system, local, history
<1>3. CASE Persist
  BY <1>1, <1>3, Zenon DEF Persist, KernelInv, StepInv, system, kernel, local, history
<1>4. CASE Boot
  BY <1>1, <1>4 DEF Boot, KernelInv, StepInv, system
<1> QED
  BY <1>1, <1>2, <1>3, <1>4 DEF KernelStep




-----------------------------------------------------------------------------
(* If every process has made an RTSRoot() before its first object. *)

LEMMA HomeRoot ==
  ASSUME Base, HomeInv, NEW p \in Procs, RootStep(p)
  PROVE  HomeInv'
<1> USE DEF Base
<1>1. /\ UNCHANGED <<attr, device>> /\ StepInv(p) /\ Home' = Home /\ (~attr => dbroot = Default)
      /\ dbroot' = dbroot \/ (device = {} /\ dbroot' = Preferred /\ pc[p] = "write")
      /\ \A q \in Procs \ {p} : Apart(p, q)
  BY RootFrame DEF Home, KernelInv
<1>2. dbroot = Home => dbroot' = Home
  BY <1>1 DEF StepInv, Home
<1>3. ASSUME NEW q \in Procs \ {p}
      PROVE  HomeInv!2!(q)'
  BY <1>1, <1>2, ZenonT(60) DEF HomeInv, Apart
<1>4. HomeInv!2!(p)'
  <2>1. obj'[p] = obj[p] /\ (obj[p] # None => root'[p] = root[p] /\ dbroot = Home)
    BY DEF RootStep, NewRoot, Mount, Module, Read, Write, Reread, Returns, Raises, End, Goto, TypeOK, HomeInv
  <2>2. CASE root'[p] = root[p] /\ pc'[p] \notin {"write", "aptpl"}
    BY <1>1, <1>2, <2>1, <2>2 DEF HomeInv
  <2>3. CASE Read(p)
    <3>1. CASE Returns(p, Home) /\ dbroot' = Home
      BY <2>1, <1>1, <3>1 DEF Returns, End, Goto, TypeOK, HomeInv
    <3>2. CASE attr /\ dbroot # Preferred
      <4>1. obj[p] = None /\ root[p] = None /\ pc'[p] = "write" /\ root'[p] = root[p]
        BY <1>1, <2>1, <2>3, <3>2 DEF Read, Goto, TypeOK, HomeInv, Home
      <4> QED
        BY <2>1, <4>1
    <3> QED
      BY <1>1, <1>2, <2>3, <3>1, <3>2, Places, Zenon DEF Read, Home, kernel
  <2>4. CASE Write(p)
    <3>1. obj[p] = None
      BY <2>4, Zenon DEF Write, HomeInv
    <3>2. root'[p] # None => dbroot' = Home
      BY <1>1, <1>2, <2>4, Zenon DEF Write, Returns, Raises, HomeInv
    <3>3. pc'[p] \notin {"aptpl"}
      BY <2>4, <3>1, Zenon DEF Write, Returns, Raises, End, Goto, TypeOK
    <3> QED
      BY <1>1, <2>1, <3>1, <3>2, <3>3, ZenonT(60)
  <2>5. CASE Reread(p)
    <3>1. dbroot = Home /\ dbroot' = Home
      BY <1>1, <1>2, <2>5 DEF Reread, StepInv, Home
    <3>2. Returns(p, Home)
      BY <2>5, <3>1 DEF Reread
    <3> QED
      BY <1>1, <2>1, <3>1, <3>2 DEF Returns, End, Goto, TypeOK, HomeInv
  <2> QED
    BY <2>2, <2>3, <2>4, <2>5, Zenon DEF RootStep, NewRoot, Mount, Module, Raises, End, Goto, TypeOK
<1>5. device' # {} => dbroot' = Home'
  BY <1>1, <1>2 DEF HomeInv
<1> QED
  BY <1>3, <1>4, <1>5 DEF HomeInv

LEMMA HomeObject ==
  ASSUME Base, ~early => HomeInv, NEW p \in Procs, ObjectStep(p), ~early'
  PROVE  HomeInv'
<1> USE DEF Base
<1>1. /\ UNCHANGED <<attr, dbroot>> /\ Home' = Home /\ HomeInv
      /\ \A q \in Procs \ {p} : Apart(p, q)
  BY ObjectFrame DEF Home
<1>2. ASSUME NEW q \in Procs \ {p}
      PROVE  HomeInv!2!(q)'
  BY <1>1 DEF HomeInv, Apart
<1>3. HomeInv!2!(p)' /\ (device' # {} => dbroot = Home)
  <2>1. CASE Aptpl(p)
    BY <1>1, <2>1, Zenon DEF Aptpl, End, Goto, TypeOK, HomeInv, kernel
  <2>2. CASE Inject(p)
    BY <1>1, <2>2, ZenonT(60) DEF Inject, End, Goto, TypeOK, HomeInv
  <2>3. CASE Undo(p)
    BY <1>1, <2>3, Zenon DEF Undo, Removed, Goto, TypeOK, HomeInv
  <2>4. CASE Crash(p)
    BY <1>1, <2>4 DEF Crash, End, Goto, TypeOK, HomeInv, kernel
  <2>5. CASE \E w \in Objects : NewObject(p, w)
    BY <1>1, <2>5, Zenon DEF NewObject, Goto, TypeOK, HomeInv
  <2>6. CASE \E w \in Objects : Delete(p, w)
    BY <1>1, <2>6, Zenon DEF Delete, Removed, local, HomeInv
  <2> QED
    BY <2>1, <2>2, <2>3, <2>4, <2>5, <2>6, ZenonT(60) DEF ObjectStep
<1> QED
  BY <1>1, <1>2, <1>3 DEF HomeInv

LEMMA HomeKernel ==
  ASSUME Base, HomeInv, KernelStep
  PROVE  HomeInv'
<1>1. ASSUME NEW w \in Objects, NEW n \in Regs, Register(w, n)
      PROVE  HomeInv'
  BY <1>1 DEF Register, HomeInv, Home, system, local
<1>2. CASE Persist
  BY <1>2 DEF Persist, HomeInv, Home, system, kernel, local
<1>3. CASE Boot
  BY <1>3, Zenon DEF Boot, HomeInv
<1> QED
  BY <1>1, <1>2, <1>3 DEF KernelStep

(* The files change with the kernel only. *)
LEMMA FileKernel ==
  ASSUME Base, HomeInv, FileInv, RegsInv, KernelStep
  PROVE  FileInv'
<1>0. TypeOK /\ KernelInv /\ SharedType /\ Home \in Roots /\ Home' = Home
  BY TypeSplit, Places DEF Base, Home, KernelStep, Register, Persist, Boot, system
<1>1. ASSUME NEW w \in Objects, NEW n \in Regs, Register(w, n)
      PROVE  FileInv'
  <2>1. dbroot = Home /\ disk' = [disk EXCEPT ![dbroot][w] = Empty] /\ UNCHANGED <<saved, cut>>
        /\ writing' = w /\ writing = None
    BY <1>1 DEF Register, HomeInv
  <2>2. disk'[Home][w] = Empty /\ \A v \in Objects \ {w} : disk'[Home][v] = disk[Home][v]
    BY <1>0, <2>1, FileKinds, DiskType, ZenonT(120)
  <2>3. \A v \in Objects : v # writing
    BY <2>1, NoneAssumption
  <2> QED
    BY <1>0, <2>1, <2>2, <2>3 DEF FileInv
<1>2. ASSUME writing # None, NEW f \in Files, disk' = [disk EXCEPT ![dbroot][writing] = f],
             \/ f = regs[writing] /\ saved' = [saved EXCEPT ![writing] = f] /\ cut' = cut \ {writing}
             \/ cut' = cut \cup {writing} /\ saved' = saved,
             writing' = None
      PROVE  FileInv'
  <2>1. writing \in Objects /\ dbroot = Home
    BY <1>0, <1>2 DEF SharedType, KernelInv, HomeInv
  <2>2. disk'[Home][writing] = f /\ \A v \in Objects \ {writing} : disk'[Home][v] = disk[Home][v]
    BY <1>0, <1>2, <2>1, DiskType, ZenonT(60)
  <2>3. \A v \in Objects \ {writing} : saved'[v] = saved[v]
    BY <1>0, <1>2, <2>1 DEF SharedType
  <2>4. writing \notin cut' => saved'[writing] = f
    BY <1>0, <1>2, <2>1 DEF SharedType
  <2> QED
    BY <1>0, <1>2, <2>1, <2>2, <2>3, <2>4 DEF FileInv
<1>3. CASE Persist
  <2>1. regs[writing] \in Files
    BY <1>0, <1>3, FileKinds DEF Persist, SharedType
  <2> QED
    BY <1>2, <1>3, <2>1, Zenon DEF Persist
<1>4. CASE Boot
  <2>1. CASE UNCHANGED <<disk, saved, cut>>
    BY <1>0, <1>4, <2>1 DEF Boot, FileInv
  <2>2. CASE writing # None
    <3>1. regs[writing] \in Files /\ Cut \in Files
      BY <1>0, <2>2, FileKinds DEF SharedType
    <3> QED
      BY <1>2, <1>4, <2>1, <2>2, <3>1 DEF Boot, FileAtBoot
  <2> QED
    BY <1>4, <2>1, <2>2, Zenon DEF Boot, FileAtBoot
<1> QED
  BY <1>1, <1>3, <1>4, Zenon DEF KernelStep

LEMMA RegsRoot ==
  ASSUME Base, RegsInv, NEW p \in Procs, RootStep(p)
  PROVE  RegsInv'
<1>1. /\ UNCHANGED <<device, regs, saved, cut, writing, orphan>>
      /\ \A q \in Procs \ {p} : pc'[q] = pc[q] /\ obj'[q] = obj[q] /\ read'[q] = read[q]
  BY RootFrame DEF Base, Apart
<1>2. obj'[p] = obj[p] /\ pc'[p] # "inject"
  BY ZenonT(60) DEF Base, RootStep, NewRoot, Mount, Module, Read, Write, Reread, Returns, Raises, End, Goto, TypeOK, StepInv
<1>3. \A q \in Procs : obj'[q] = obj[q]
  BY <1>1, <1>2
<1> QED
  BY <1>1, <1>2, <1>3 DEF RegsInv

LEMMA RegsObject ==
  ASSUME Base, HomeInv, FileInv, RegsInv, NEW p \in Procs, ObjectStep(p)
  PROVE  RegsInv'
<1> USE DEF Base
<1>0. TypeOK /\ KernelInv /\ SharedType /\ LocalType /\ StepInv(p)
  BY TypeSplit
<1>1. UNCHANGED <<saved, cut, writing>>
  BY ObjectFrame
<1>2. \A q \in Procs \ {p} : pc'[q] = pc[q] /\ obj'[q] = obj[q] /\ read'[q] = read[q]
  BY ObjectFrame DEF Apart
<1>3. CASE Aptpl(p)
  <2> DEFINE w == obj[p]
             f == disk[seen[p]][w]
  <2>1. w \in Objects /\ w # writing /\ UNCHANGED <<device, regs, orphan>> /\ seen[p] = Home
    BY <1>0, <1>3, ZenonT(60) DEF Aptpl, StepInv, KernelInv, LocalType, kernel, HomeInv
  <2>2. w \notin cut => f \in {saved[w], Empty} \/ (f = Missing /\ saved[w] = 0)
    BY <2>1, Zenon DEF FileInv
  <2>3. saved[w] \in Regs
    BY <1>0, <2>1, Zenon DEF SharedType
  <2>4. CASE End(p)
    <3>1. obj'[p] = None /\ pc'[p] = "idle"
      BY <1>0, <2>4, Zenon DEF End, Goto, LocalType
    <3>2. f \in {Missing, Cut, 0}
      <4>1. ~(pc'[p] \in {"undo", "inject"})
        BY <3>1, ZenonT(30)
      <4> QED
        BY <1>0, <1>3, <4>1 DEF Aptpl, Goto, LocalType
    <3>3. w \notin cut => saved[w] = 0
      BY <2>2, <2>3, <3>2, FileKinds
    <3> HIDE DEF f
    <3>4. \A v \in Objects : (\A q \in Procs : obj'[q] # v) => v = w \/ \A q \in Procs : obj[q] # v
      BY <1>2, Zenon
    <3>5. \A v \in device \ (cut \cup {writing}) : v \in Objects
      BY <1>0, SMTT(60) DEF SharedType
    <3>6. \A q \in Procs : pc'[q] = "inject" /\ obj'[q] \notin cut' => read'[q] = saved'[obj'[q]]
      BY <1>1, <1>2, <3>1 DEF RegsInv
    <3>7. ASSUME NEW v \in device' \ (cut' \cup {writing'})
          PROVE  /\ regs'[v] \in {0, saved'[v]}
                 /\ v \notin orphan' /\ (\A q \in Procs : obj'[q] # v) => regs'[v] = saved'[v]
      BY <1>1, <2>1, <3>3, <3>4, <3>5, <3>7 DEF RegsInv
    <3> QED
      BY <3>6, <3>7 DEF RegsInv
  <2>5. CASE Goto(p, "undo") /\ UNCHANGED obj
    <3>1. pc'[p] = "undo"
      BY <1>0, <2>5 DEF Goto, LocalType
    <3> QED
      BY <1>1, <1>2, <2>1, <2>5, <3>1, ZenonT(120) DEF RegsInv
  <2>6. CASE f \in Regs \ {0} /\ read' = [read EXCEPT ![p] = f] /\ UNCHANGED obj
    <3>1. w \notin cut => f = saved[w]
      BY <2>2, <2>6, FileKinds, ZenonT(60)
    <3>2. read'[p] = f
      BY <1>0, <2>6 DEF LocalType
    <3> HIDE DEF f
    <3> QED
      BY <1>1, <1>2, <2>1, <2>6, <3>1, <3>2 DEF RegsInv
  <2> QED
    BY <1>3, <2>4, <2>5, <2>6, ZenonT(60) DEF Aptpl
<1>4. CASE Inject(p)
  <2> DEFINE w == obj[p]
  <2>1. w \in Objects /\ w # writing /\ UNCHANGED <<device, orphan>> /\ (w \notin cut => read[p] = saved[w])
    BY <1>0, <1>4 DEF Inject, StepInv, KernelInv, LocalType, RegsInv
  <2>2. CASE w \in device /\ regs' = [regs EXCEPT ![w] = read[p]] /\ End(p)
    <3>1. obj'[p] = None /\ pc'[p] = "idle"
      BY <1>0, <2>2, Zenon DEF End, Goto, LocalType
    <3>2. regs'[w] = read[p] /\ \A v \in Objects \ {w} : regs'[v] = regs[v]
      BY <1>0, <2>1, <2>2 DEF SharedType
    <3>3. \A v \in Objects \ {w} : (\A q \in Procs : obj'[q] # v) => \A q \in Procs : obj[q] # v
      BY <1>2, Zenon
    <3>4. \A v \in device : v \in Objects
      BY <1>0, SMTT(60) DEF SharedType
    <3>5. \A q \in Procs : pc'[q] = "inject" /\ obj'[q] \notin cut' => read'[q] = saved'[obj'[q]]
      BY <1>1, <1>2, <3>1 DEF RegsInv
    <3>6. ASSUME NEW v \in device' \ (cut' \cup {writing'})
          PROVE  /\ regs'[v] \in {0, saved'[v]}
                 /\ v \notin orphan' /\ (\A q \in Procs : obj'[q] # v) => regs'[v] = saved'[v]
      BY <1>1, <2>1, <3>2, <3>3, <3>4, <3>6, Zenon DEF RegsInv
    <3> QED
      BY <3>5, <3>6 DEF RegsInv
  <2>3. CASE Goto(p, "undo") /\ UNCHANGED <<regs, obj>>
    <3>1. pc'[p] = "undo"
      BY <1>0, <2>3 DEF Goto, LocalType
    <3> QED
      BY <1>1, <1>2, <2>1, <2>3, <3>1, ZenonT(120) DEF RegsInv
  <2> QED
    BY <1>4, <2>2, <2>3 DEF Inject
<1>5. ASSUME NEW w \in Objects, Removed(w), pc'[p] # "inject", obj'[p] \in {obj[p], None},
             obj'[p] # obj[p] => obj[p] = w
      PROVE  RegsInv'
  <2>1. /\ \A v \in Objects \ {w} : regs'[v] = regs[v]
        /\ device' = device \ {w} /\ device \subseteq Objects /\ orphan' = orphan \ {w}
    BY <1>0, <1>5 DEF Removed, SharedType
  <2>2. \A v \in Objects \ {w} : (\A q \in Procs : obj'[q] # v) => \A q \in Procs : obj[q] # v
    BY <1>2, <1>5
  <2>3. \A q \in Procs : pc'[q] = "inject" /\ obj'[q] \notin cut' => read'[q] = saved'[obj'[q]]
    BY <1>1, <1>2, <1>5 DEF RegsInv
  <2>4. ASSUME NEW v \in device' \ (cut' \cup {writing'})
        PROVE  /\ regs'[v] \in {0, saved'[v]}
               /\ v \notin orphan' /\ (\A q \in Procs : obj'[q] # v) => regs'[v] = saved'[v]
    BY <1>1, <2>1, <2>2, <2>4 DEF RegsInv
  <2> QED
    BY <2>3, <2>4, Zenon DEF RegsInv
<1>6. CASE Undo(p)
  BY <1>0, <1>5, <1>6 DEF Undo, Goto, LocalType, StepInv
<1>7. CASE \E w \in Objects : Delete(p, w)
  BY <1>0, <1>5, <1>7, Zenon DEF Delete, local, LocalType
<1>8. CASE Crash(p)
  <2>1. UNCHANGED <<device, regs>> /\ obj'[p] = None /\ pc'[p] = "idle" /\ orphan' = orphan \cup ({obj[p]} \ {None})
    BY <1>0, <1>8 DEF Crash, End, Goto, kernel, LocalType
  <2>2. \A v \in Objects : (\A q \in Procs : obj'[q] # v) => v = obj[p] \/ \A q \in Procs : obj[q] # v
    BY <1>2
  <2>3. \A v \in device : v \in Objects /\ v # None
    BY <1>0, NoneAssumption, Zenon DEF SharedType
  <2>4. \A q \in Procs : pc'[q] = "inject" /\ obj'[q] \notin cut' => read'[q] = saved'[obj'[q]]
    BY <1>1, <1>2, <2>1, SMTT(30) DEF RegsInv
  <2>5. ASSUME NEW v \in device' \ (cut' \cup {writing'})
        PROVE  /\ regs'[v] \in {0, saved'[v]}
               /\ v \notin orphan' /\ (\A q \in Procs : obj'[q] # v) => regs'[v] = saved'[v]
    BY <1>1, <2>1, <2>2, <2>3, <2>5 DEF RegsInv
  <2> QED
    BY <2>4, <2>5 DEF RegsInv
<1>9. ASSUME NEW w \in Objects, NewObject(p, w)
      PROVE  RegsInv'
  <2>1. /\ device' = device \cup {w} /\ regs' = regs /\ orphan' = orphan \ {w} /\ regs[w] = 0
        /\ obj'[p] = w /\ pc'[p] = "mount" /\ obj[p] = None
    BY <1>0, <1>9, Zenon DEF NewObject, Goto, LocalType, KernelInv, StepInv
  <2>2. \A v \in device : v \in Objects /\ v # None
    BY <1>0, NoneAssumption, ZenonT(60) DEF SharedType
  <2>3. \A v \in Objects : (\A q \in Procs : obj'[q] # v) => v # w /\ \A q \in Procs : obj[q] # v
    BY <1>2, <2>1, NoneAssumption, SMTT(60)
  <2>4. \A q \in Procs : pc'[q] = "inject" /\ obj'[q] \notin cut' => read'[q] = saved'[obj'[q]]
    BY <1>1, <1>2, <2>1, ZenonT(60) DEF RegsInv
  <2>5. ASSUME NEW v \in device' \ (cut' \cup {writing'})
        PROVE  /\ regs'[v] \in {0, saved'[v]}
               /\ v \notin orphan' /\ (\A q \in Procs : obj'[q] # v) => regs'[v] = saved'[v]
    BY <1>1, <2>1, <2>2, <2>3, <2>5 DEF RegsInv
  <2> QED
    BY <2>4, <2>5 DEF RegsInv
<1> QED
  BY <1>3, <1>4, <1>6, <1>7, <1>8, <1>9 DEF ObjectStep

LEMMA RegsKernel ==
  ASSUME Base, RegsInv, KernelStep
  PROVE  RegsInv'
<1>0. TypeOK /\ KernelInv /\ SharedType
  BY TypeSplit DEF Base
<1>1. ASSUME NEW w \in Objects, NEW n \in Regs, Register(w, n)
      PROVE  RegsInv'
  <2>1. /\ UNCHANGED <<pc, obj, read, device, saved, cut, orphan>> /\ writing' = w
        /\ \A v \in Objects \ {w} : regs'[v] = regs[v] /\ v # writing
    BY <1>0, <1>1, NoneAssumption DEF Register, local, history, SharedType
  <2> QED
    BY <1>0, <2>1, ZenonT(60) DEF RegsInv, SharedType
<1>2. CASE Persist
  <2>1. /\ UNCHANGED <<pc, obj, read, device, regs, orphan>> /\ writing \in Objects /\ cut' = cut \ {writing}
        /\ saved'[writing] = regs[writing] /\ \A v \in Objects \ {writing} : saved'[v] = saved[v]
        /\ \A p \in Procs : obj[p] # writing
    BY <1>0, <1>2, Zenon DEF Persist, local, kernel, history, SharedType, KernelInv
  <2>2. \A p \in Procs : pc[p] = "inject" => obj[p] \in Objects
    BY <1>0 DEF Base, StepInv, TypeOK
  <2> QED
    BY <1>0, <2>1, <2>2, ZenonT(60) DEF RegsInv, SharedType
<1>3. CASE Boot
  BY <1>3, Zenon DEF Boot, RegsInv
<1> QED
  BY <1>1, <1>2, <1>3 DEF KernelStep

-----------------------------------------------------------------------------
LEMMA RootInvStep == RootInv /\ [Next]_vars => RootInv'
<1> SUFFICES ASSUME RootInv, [Next]_vars
             PROVE  RootInv'
  OBVIOUS
<1>1. Base /\ (~early => HomeInv /\ FileInv /\ RegsInv)
  BY DEF RootInv
<1>2. ASSUME NEW p \in Procs, RootStep(p)
      PROVE  RootInv'
  <2>1. UNCHANGED <<attr, disk, writing, saved, cut, early>>
    BY <1>1, <1>2, RootFrame, Zenon DEF Base
  <2>2. FileInv => FileInv'
    BY <2>1 DEF FileInv, Home
  <2> QED
    BY <1>1, <1>2, <2>1, <2>2, BaseRoot, HomeRoot, RegsRoot DEF RootInv
<1>3. ASSUME NEW p \in Procs, ObjectStep(p)
      PROVE  RootInv'
  <2>1. UNCHANGED <<attr, disk, writing, saved, cut>> /\ (early => early')
    BY <1>1, <1>3, ObjectFrame, Zenon DEF Base
  <2>2. FileInv => FileInv'
    BY <2>1 DEF FileInv, Home
  <2> QED
    BY <1>1, <1>3, <2>1, <2>2, BaseObject, HomeObject, RegsObject DEF RootInv
<1>4. CASE KernelStep
  <2>1. early' = early
    BY <1>4, Zenon DEF KernelStep, Register, Persist, Boot, history
  <2> QED
    BY <1>1, <1>4, <2>1, BaseKernel, HomeKernel, FileKernel, RegsKernel, Zenon DEF RootInv
<1>5. CASE UNCHANGED vars
  <2> USE <1>5 DEF vars, system, kernel, files, local, history
  <2>1. Base'
    BY <1>1, Zenon DEF Base, TypeOK, KernelInv, StepInv
  <2>2. HomeInv => HomeInv'
    BY Zenon DEF HomeInv, Home
  <2>3. FileInv => FileInv'
    BY Zenon DEF FileInv, Home
  <2>4. RegsInv => RegsInv'
    BY DEF RegsInv
  <2> QED
    BY <1>1, <2>1, <2>2, <2>3, <2>4, Zenon DEF RootInv
<1> QED
  BY <1>2, <1>3, <1>4, <1>5, Cases

LEMMA RootInvariant == Spec => []RootInv
BY RootInvInit, RootInvStep, PTL DEF Spec

(* TypeOK holds: above all, an RTSRoot always has a dbroot.                *)
THEOREM TypeCorrect == Spec => []TypeOK
BY RootInvariant, PTL DEF RootInv, Base

(* Whatever processes do at the same time, and whenever they die, objects  *)
(* that come after an RTSRoot() have their database in Preferred.          *)
THEOREM DatabaseIsPreferred == Spec => []PreferredRoot
<1>1. RootInv => PreferredRoot
  BY DEF RootInv, HomeInv, Home, PreferredRoot
<1> QED
  BY <1>1, RootInvariant, PTL

(* A constructor reads from the directory in use.                          *)
THEOREM ConstructorReadsTheRoot == Spec => []ReadsWhereKernelWrites
<1>1. RootInv => ReadsWhereKernelWrites
  BY Zenon DEF RootInv, Base, StepInv, ReadsWhereKernelWrites
<1> QED
  BY <1>1, RootInvariant, PTL

(* Reservations survive restarts.                                          *)
THEOREM ReservationsSurvive == Spec => []RegistrationsSurvive
<1>1. RootInv => RegistrationsSurvive
  BY DEF RootInv, RegsInv, RegistrationsSurvive
<1> QED
  BY <1>1, RootInvariant, PTL

====
