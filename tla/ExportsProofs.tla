--------------------------- MODULE ExportsProofs ----------------------------
(***************************************************************************)
(* Proofs about Exports.  The first part holds for any number of processes:*)
(* types, and the shape of the export tree.  The second part is about a    *)
(* process that works alone, and rests on an invariant of its stack:       *)
(* whatever would make a step fail is taken away by a step above it.       *)
(***************************************************************************)
EXTENDS Exports, TLAPS

(* The prover of the leaves that do not name SMT or PTL. *)
USE ZenonT(60)

-----------------------------------------------------------------------------
(* Sequences. *)

(* Sequences with the same elements are the same. *)
LEMMA SequencesEqual ==
  ASSUME NEW S, NEW s \in Seq(S), NEW t \in Seq(S),
         Len(s) = Len(t), \A i \in 1 .. Len(s) : s[i] = t[i]
  PROVE  s = t
BY SMT

(* Pushing frames twice is pushing them at once. *)
LEMMA JoinAssociative ==
  ASSUME NEW S, NEW s \in Seq(S), NEW t \in Seq(S), NEW u \in Seq(S)
  PROVE  (s \o t) \o u = s \o (t \o u)
BY SMTT(30)

(* Pushing nothing changes nothing. *)
LEMMA JoinEmpty ==
  ASSUME NEW S, NEW s \in Seq(S)
  PROVE  s \o <<>> = s /\ <<>> \o s = s
BY SMT

(* The empty sequence, and its indexes. *)
LEMMA EmptySeq == \A S : <<>> \in Seq(S) /\ 1 .. Len(<<>>) = {}
BY SMT

(* A stack of one frame. *)
LEMMA OneSeq ==
  ASSUME NEW S, NEW f \in S
  PROVE  <<f>> \in Seq(S) /\ Len(<<f>>) = 1 /\ <<f>>[1] = f
BY SMT

(* Joined stacks are stacks of the same frames. *)
LEMMA JoinTyped ==
  ASSUME NEW S, NEW s \in Seq(S), NEW t \in Seq(S)
  PROVE  s \o t \in Seq(S)
BY SMT

(* So is what is left after a pop. *)
LEMMA TailTyped ==
  ASSUME NEW S, NEW s \in Seq(S), s # <<>>
  PROVE  Tail(s) \in Seq(S) /\ 1 \in 1 .. Len(s) /\ Len(s) \in 1 .. Len(s)
BY SMT

(* Each place of a stack holds a frame. *)
LEMMA ElementTyped ==
  ASSUME NEW S, NEW s \in Seq(S), NEW i \in 1 .. Len(s)
  PROVE  s[i] \in S
BY SMT

(* A frame that is pushed is on top of what was there. *)
LEMMA PushOne ==
  ASSUME NEW S, NEW f \in S, NEW w \in Seq(S)
  PROVE  <<f>> \o w # <<>> /\ (<<f>> \o w)[1] = f /\ Tail(<<f>> \o w) = w
<1>1. <<f>> \in Seq(S) /\ Len(<<f>>) = 1 /\ <<f>>[1] = f
  BY OneSeq
<1>2. <<f>> \o w \in Seq(S) /\ Len(<<f>> \o w) = 1 + Len(w)
  BY <1>1, SMT
<1>3. (<<f>> \o w)[1] = f
  BY <1>1, SMT
<1>4. Tail(<<f>> \o w) \in Seq(S) /\ Len(Tail(<<f>> \o w)) = Len(w)
  BY <1>2, SMT
<1>5. \A i \in 1 .. Len(w) : Tail(<<f>> \o w)[i] = w[i]
  BY <1>1, <1>2, SMT
<1>6. Tail(<<f>> \o w) = w
  BY <1>4, <1>5, SequencesEqual
<1>7. QED
  BY <1>2, <1>3, <1>6, SMT

(* The places of a stack of two. *)
LEMMA OneOrTwo == \A i \in 1 .. 2 : i = 1 \/ i = 2
BY SMT

(* The counter of crashes is a natural number. *)
LEMMA CrashesNat == \A n \in 0 .. MaxCrashes : n \in Nat /\ n + 1 # 0
BY MaxCrashesAssumption, SMT

-----------------------------------------------------------------------------
(* Paths. *)

(* The kinds of path differ from one another and from None. *)
LEMMA Disjoint ==
  /\ <<>> \notin Dirs
  /\ None \notin Dirs
  /\ None # <<>>
  /\ TargetDirs \cap (TPGs \cup LUNs \cup NetworkPortals \cup NodeACLs \cup MappedLUNs \cup SOs) = {}
  /\ TPGs \cap (LUNs \cup NetworkPortals \cup NodeACLs \cup MappedLUNs \cup SOs) = {}
  /\ LUNs \cap (NetworkPortals \cup NodeACLs \cup MappedLUNs \cup SOs) = {}
  /\ NetworkPortals \cap (NodeACLs \cup MappedLUNs \cup SOs) = {}
  /\ NodeACLs \cap (MappedLUNs \cup SOs) = {}
  /\ MappedLUNs \cap SOs = {}
<1>1. <<>> \notin Dirs
  BY SMT DEF Dirs, TargetDirs, TPGs, LUNs, NetworkPortals, NodeACLs, MappedLUNs, SOs
<1>2. None \notin Dirs /\ None # <<>>
  BY NamesAssumption
<1>3. TargetDirs \cap (TPGs \cup LUNs \cup NetworkPortals \cup NodeACLs \cup MappedLUNs \cup SOs) = {}
  BY SMT DEF TargetDirs, TPGs, LUNs, NetworkPortals, NodeACLs, MappedLUNs, SOs
<1>4. TPGs \cap (LUNs \cup NetworkPortals \cup NodeACLs \cup MappedLUNs \cup SOs) = {}
  <2>1. TPGs \cap (LUNs \cup NetworkPortals \cup NodeACLs \cup MappedLUNs) = {}
    BY SMT DEF TPGs, LUNs, NetworkPortals, NodeACLs, MappedLUNs
  <2>2. TPGs \cap SOs = {}
    BY NamesAssumption DEF TPGs, SOs
  <2>3. QED
    BY <2>1, <2>2
<1>5. LUNs \cap (NetworkPortals \cup NodeACLs \cup MappedLUNs \cup SOs) = {}
  BY SMT DEF LUNs, NetworkPortals, NodeACLs, MappedLUNs, SOs
<1>6. NetworkPortals \cap (NodeACLs \cup MappedLUNs \cup SOs) = {}
  BY SMT DEF NetworkPortals, NodeACLs, MappedLUNs, SOs
<1>7. NodeACLs \cap (MappedLUNs \cup SOs) = {}
  BY SMT DEF NodeACLs, MappedLUNs, SOs
<1>8. MappedLUNs \cap SOs = {}
  BY SMT DEF MappedLUNs, SOs
<1>9. QED
  BY <1>1, <1>2, <1>3, <1>4, <1>5, <1>6, <1>7, <1>8

(* The directory of the target that a path is in. *)
TargetOf(x) == <<x[1]>>

(* A path inside a TPG names that TPG and its target. *)
LEMMA Paths ==
  /\ \A x \in TPGs : TargetOf(x) \in TargetDirs /\ TPGOf(x) = x
  /\ \A x \in LUNs \cup NetworkPortals \cup NodeACLs \cup MappedLUNs :
       TPGOf(x) \in TPGs /\ TargetOf(x) \in TargetDirs /\ TargetOf(TPGOf(x)) = TargetOf(x)
  /\ \A x \in TargetDirs : TargetOf(x) = x
  /\ \A x \in MappedLUNs :
       /\ <<x[1], x[2], x[3], x[4]>> \in NodeACLs
       /\ TPGOf(<<x[1], x[2], x[3], x[4]>>) = TPGOf(x)
BY SMT DEF TargetOf, TPGOf, TargetDirs, TPGs, LUNs, NetworkPortals, NodeACLs, MappedLUNs

(* The parent directory of each kind of path. *)
LEMMA Parents ==
  /\ \A x \in TPGs : Parent(x) = TargetOf(x)
  /\ \A x \in LUNs \cup NetworkPortals \cup NodeACLs : Parent(x) = TPGOf(x)
  /\ \A x \in MappedLUNs : Parent(x) \in NodeACLs /\ TPGOf(Parent(x)) = TPGOf(x)
  /\ \A x \in TargetDirs \cup SOs : Parent(x) = <<>>
<1>1. \A x \in TPGs : Parent(x) = TargetOf(x)
  BY Disjoint DEF Parent, TargetOf
<1>2. \A x \in LUNs \cup NetworkPortals \cup NodeACLs : Parent(x) = TPGOf(x)
  BY Disjoint DEF Parent, TPGOf
<1>3. \A x \in MappedLUNs : Parent(x) = <<x[1], x[2], x[3], x[4]>>
  BY Disjoint DEF Parent
<1>4. \A x \in TargetDirs \cup SOs : Parent(x) = <<>>
  BY Disjoint DEF Parent
<1>5. QED
  BY <1>1, <1>2, <1>3, <1>4, Paths

(* The kind of the parent. *)
LEMMA ParentKinds ==
  /\ \A x \in TPGs : Parent(x) \in TargetDirs
  /\ \A x \in LUNs \cup NetworkPortals \cup NodeACLs : Parent(x) \in TPGs
  /\ \A x \in MappedLUNs : Parent(x) \in NodeACLs
<1>1. \A x \in TPGs : Parent(x) \in TargetDirs
  BY Parents, Paths
<1>2. ASSUME NEW x \in LUNs \cup NetworkPortals \cup NodeACLs PROVE Parent(x) \in TPGs
  <2>1. Parent(x) = TPGOf(x) /\ TPGOf(x) \in TPGs
    BY Parents, Paths
  <2>2. QED
    BY <2>1
<1>3. QED
  BY <1>1, <1>2, Parents

(* Whatever delete() of b may have to delete first: what is below b, the   *)
(* mapped LUNs of the TPG of a LUN, the LUNs of a storage object.          *)
Inside(a, b) ==
  \/ b = <<>> /\ a \in Dirs
  \/ b \in SOs /\ a \in Linking
  \/ b \in TargetDirs /\ a \in Dirs \ (SOs \cup TargetDirs) /\ TargetOf(a) = b
  \/ b \in TPGs /\ a \in Dirs \ (SOs \cup TargetDirs \cup TPGs) /\ TPGOf(a) = b
  \/ b \in LUNs /\ a \in MappedLUNs /\ TPGOf(a) = TPGOf(b)
  \/ b \in NodeACLs /\ a \in MappedLUNs /\ Parent(a) = b

(* What is inside a TPG. *)
LEMMA InTPG ==
  \A x \in TPGs : \A y : Inside(y, x) =>
    y \in LUNs \cup NetworkPortals \cup NodeACLs \cup MappedLUNs /\ TPGOf(y) = x
BY Disjoint, SMTT(30) DEF Inside, Dirs

(* The parent directory of what is inside a TPG is the TPG or inside it. *)
LEMMA InTPGParent ==
  ASSUME NEW x \in TPGs, NEW y, Inside(y, x)
  PROVE  Parent(y) = x \/ Inside(Parent(y), x)
<1>1. CASE y \in MappedLUNs
  <2>1. Parent(y) \in NodeACLs /\ TPGOf(Parent(y)) = x
    BY <1>1, InTPG, Parents
  <2>2. Parent(y) \in Dirs \ (SOs \cup TargetDirs \cup TPGs)
    BY <2>1, Disjoint DEF Dirs
  <2>3. QED
    BY <2>1, <2>2 DEF Inside
<1>2. CASE y \notin MappedLUNs
  BY <1>2, InTPG, Parents
<1>3. QED
  BY <1>1, <1>2

(* Inside relates paths. *)
LEMMA InsideTypes ==
  ASSUME NEW a, NEW b, Inside(a, b)
  PROVE  a \in Dirs /\ b \in Dirs \cup {<<>>} /\ a # b
BY Disjoint DEF Inside, Dirs, Linking

(* Inside is transitive. *)
LEMMA InsideTransitive ==
  ASSUME NEW a, NEW b, NEW c, Inside(a, b), Inside(b, c)
  PROVE  Inside(a, c)
<1> USE Disjoint, Paths, Parents, InsideTypes
<1>1. CASE c = <<>>
  BY <1>1 DEF Inside
<1>2. CASE c \in SOs
  BY <1>2, SMT DEF Inside, Linking, Dirs
<1>3. CASE c \in TargetDirs
  BY <1>3, SMT DEF Inside, Linking, Dirs
<1>4. CASE c \in TPGs
  BY <1>4 DEF Inside, Linking, Dirs
<1>5. CASE c \in LUNs \cup NodeACLs
  BY <1>5, SMT DEF Inside, Linking, Dirs
<1>6. QED
  BY <1>1, <1>2, <1>3, <1>4, <1>5 DEF Inside

-----------------------------------------------------------------------------
(* Types, and the tree. *)

(* What a symlink in x may point to. *)
Suits(x, y) ==
  \/ x \in LUNs /\ y \in SOs
  \/ x \in MappedLUNs /\ y \in LUNs /\ TPGOf(x) = TPGOf(y)

(* What each operation works on, and what it has left to visit. *)
Framed(f) ==
  \/ f.op = "link" /\ \E y \in LUNs \cup SOs : f.rest = {y} /\ Suits(f.node, y)
  \/ f.op \in {"except", "unlink"} /\ f.node \in Linking /\ f.rest = {}
  \/ f.op = "tpgs" /\ f.node \in TargetDirs /\ f.rest = {}
  \/ f.op \in {"acls", "luns", "nps", "disable"} /\ f.node \in TPGs /\ f.rest = {}
  \/ f.op = "mluns" /\ f.node \in NodeACLs /\ f.rest = {}
  \/ f.op \in {"targets", "sos"} /\ f.node = <<>> /\ f.rest = {}
  \/ f.op = "each" /\ f.rest # {} /\ \A y \in f.rest : Parent(y) = f.node
  \/ /\ f.op = "unmap" /\ f.node \in LUNs
     /\ \A y \in f.rest : y \in NodeACLs \cup MappedLUNs /\ TPGOf(y) = TPGOf(f.node)
  \/ f.op = "detach" /\ f.node \in SOs /\ f.rest \subseteq TargetDirs \cup TPGs \cup LUNs
  \/ f.op = "attached" /\ f.node \in LUNs /\ f.rest = {}
  \/ f.op \in {"delete", "rmdir"} /\ f.node \in Dirs /\ f.rest = {}

Frames == {f \in [op : Ops, node : Dirs \cup {<<>>}, rest : SUBSET Dirs] : Framed(f)}

(* Pushing stacks of frames one after the other. *)
LEMMA FramesAssociative ==
  \A s, t, u \in Seq(Frames) : (s \o t) \o u = s \o (t \o u)
BY SMTT(30)

(* The parent of a directory is a directory, and a symlink leads from a    *)
(* directory to a directory of the right kind.                             *)
Tree(D, L) ==
  /\ \A x \in D : Parent(x) \in D \cup {<<>>}
  /\ \A x \in Linking : L[x] # None => x \in D /\ L[x] \in D /\ Suits(x, L[x])

TypeInv ==
  /\ TypeOK
  /\ stack \in [Procs -> Seq(Frames)]

TreeInv == Tree(dirs, link)

(* The frames without a worklist that the calls push. *)
LEMMA DoTyped ==
  /\ \A x \in TargetDirs : Do("tpgs", x) \in Frames
  /\ \A x \in TPGs : \A op \in {"acls", "luns", "nps", "disable"} : Do(op, x) \in Frames
  /\ \A x \in NodeACLs : Do("mluns", x) \in Frames
  /\ \A x \in Linking : \A op \in {"except", "unlink"} : Do(op, x) \in Frames
  /\ \A x \in LUNs : Do("attached", x) \in Frames
  /\ \A x \in Dirs : \A op \in {"delete", "rmdir"} : Do(op, x) \in Frames
  /\ \A op \in {"targets", "sos"} : Do(op, <<>>) \in Frames
<1>1. \A x \in TargetDirs : Do("tpgs", x) \in Frames
  BY DEF Frames, Framed, Do, Frame, Ops, Dirs, Linking
<1>2. \A x \in TPGs : \A op \in {"acls", "luns", "nps", "disable"} : Do(op, x) \in Frames
  BY SMT DEF Frames, Framed, Do, Frame, Ops, Dirs, Linking
<1>3. \A x \in NodeACLs : Do("mluns", x) \in Frames
  BY DEF Frames, Framed, Do, Frame, Ops, Dirs, Linking
<1>4. \A x \in Linking : \A op \in {"except", "unlink"} : Do(op, x) \in Frames
  BY SMT DEF Frames, Framed, Do, Frame, Ops, Dirs, Linking
<1>5. \A x \in LUNs : Do("attached", x) \in Frames
  BY DEF Frames, Framed, Do, Frame, Ops, Dirs, Linking
<1>6. \A x \in Dirs : \A op \in {"delete", "rmdir"} : Do(op, x) \in Frames
  BY SMT DEF Frames, Framed, Do, Frame, Ops, Dirs, Linking
<1>7. \A op \in {"targets", "sos"} : Do(op, <<>>) \in Frames
  BY DEF Frames, Framed, Do, Frame, Ops, Dirs, Linking
<1>8. QED
  BY <1>1, <1>2, <1>3, <1>4, <1>5, <1>6, <1>7

(* The frames with a worklist that the calls push. *)
LEMMA FrameTyped ==
  /\ \A x \in Linking, y \in LUNs \cup SOs : Suits(x, y) => Frame("link", x, {y}) \in Frames
  /\ \A x \in Dirs \cup {<<>>}, S \in SUBSET Dirs :
       S # {} /\ (\A y \in S : Parent(y) = x) => Frame("each", x, S) \in Frames
  /\ \A x \in LUNs, S \in SUBSET Dirs :
       (\A y \in S : y \in NodeACLs \cup MappedLUNs /\ TPGOf(y) = TPGOf(x))
         => Frame("unmap", x, S) \in Frames
  /\ \A x \in SOs, S \in SUBSET (TargetDirs \cup TPGs \cup LUNs) :
       Frame("detach", x, S) \in Frames
<1>1. \A x \in Linking, y \in LUNs \cup SOs : Suits(x, y) => Frame("link", x, {y}) \in Frames
  BY SMT DEF Frames, Framed, Frame, Ops, Dirs, Linking
<1>2. \A x \in Dirs \cup {<<>>}, S \in SUBSET Dirs :
         S # {} /\ (\A y \in S : Parent(y) = x) => Frame("each", x, S) \in Frames
  BY DEF Frames, Framed, Frame, Ops, Dirs, Linking
<1>3. \A x \in LUNs, S \in SUBSET Dirs :
         (\A y \in S : y \in NodeACLs \cup MappedLUNs /\ TPGOf(y) = TPGOf(x))
           => Frame("unmap", x, S) \in Frames
  BY DEF Frames, Framed, Frame, Ops, Dirs, Linking
<1>4. \A x \in SOs, S \in SUBSET (TargetDirs \cup TPGs \cup LUNs) :
         Frame("detach", x, S) \in Frames
  BY DEF Frames, Framed, Frame, Ops, Dirs, Linking
<1>5. QED
  BY <1>1, <1>2, <1>3, <1>4

(* delete() of a path pushes frames. *)
LEMMA DeleteFramesTyped ==
  ASSUME dirs \in SUBSET Dirs, NEW x \in Dirs
  PROVE  DeleteFrames(x) \in Seq(Frames)
<1> USE Disjoint
<1>1. CASE x \in TargetDirs
  BY <1>1, DoTyped, SMT DEF DeleteFrames, TargetDelete
<1>2. CASE x \in TPGs
  BY <1>2, DoTyped, SMT DEF DeleteFrames, TPGDelete
<1>3. CASE x \in NodeACLs
  BY <1>3, DoTyped, SMT DEF DeleteFrames, NodeACLDelete
<1>4. CASE x \in MappedLUNs
  <2>1. DeleteFrames(x) = <<Do("unlink", x), Do("rmdir", x)>>
    BY <1>4 DEF DeleteFrames, MappedLUNDelete
  <2>2. Do("unlink", x) \in Frames /\ Do("rmdir", x) \in Frames
    BY <1>4, DoTyped DEF Linking
  <2>3. QED
    BY <2>1, <2>2, SMT
<1>5. CASE x \in LUNs
  <2>1. DeleteFrames(x) = <<Frame("unmap", x, Below(TPGOf(x), NodeACLs)), Do("unlink", x), Do("rmdir", x)>>
    BY <1>5 DEF DeleteFrames, LUNDelete
  <2>2. Do("unlink", x) \in Frames /\ Do("rmdir", x) \in Frames
    BY <1>5, DoTyped DEF Linking
  <2>3. Frame("unmap", x, Below(TPGOf(x), NodeACLs)) \in Frames
    BY <1>5, FrameTyped, Parents DEF Below
  <2>4. QED
    BY <2>1, <2>2, <2>3, SMT
<1>6. CASE x \in NetworkPortals
  BY <1>6, DoTyped, SMT DEF DeleteFrames
<1>7. CASE x \in SOs
  <2>1. DeleteFrames(x) = <<Frame("detach", x, dirs \cap TargetDirs), Do("rmdir", x)>>
    BY <1>7 DEF DeleteFrames, StorageObjectDelete
  <2>2. Frame("detach", x, dirs \cap TargetDirs) \in Frames
    BY <1>7, FrameTyped
  <2>3. QED
    BY <2>1, <2>2, DoTyped, SMT
<1>8. QED
  BY <1>1, <1>2, <1>3, <1>4, <1>5, <1>6, <1>7 DEF Dirs

(* A listing pushes frames. *)
LEMMA EachTyped ==
  ASSUME NEW x \in Dirs \cup {<<>>}, NEW S \in SUBSET Dirs, \A y \in S : Parent(y) = x
  PROVE  Each(x, S) \in Seq(Frames)
<1>1. CASE S = {}
  BY <1>1, SMT DEF Each
<1>2. CASE S # {}
  <2>1. Frame("each", x, S) \in Frames
    BY <1>2, FrameTyped
  <2>2. QED
    BY <1>2, <2>1, SMT DEF Each
<1>3. QED
  BY <1>1, <1>2

(* What is known of the frame on top of a stack. *)
LEMMA HeadTyped ==
  ASSUME TypeInv, NEW p \in Procs, ~Idle(p)
  PROVE  /\ stack[p] \in Seq(Frames) /\ Len(stack[p]) \in Nat \ {0}
         /\ Head(stack[p]) = stack[p][1] /\ Head(stack[p]) \in Frames
         /\ Head(stack[p]).op \in Ops
         /\ Node(p) \in Dirs \cup {<<>>}
         /\ Head(stack[p]).rest \in SUBSET Dirs
         /\ Framed(Head(stack[p]))
<1>1. stack[p] \in Seq(Frames) /\ stack[p] # <<>>
  BY DEF TypeInv, Idle
<1>2. Len(stack[p]) \in Nat \ {0} /\ Head(stack[p]) = stack[p][1] /\ Head(stack[p]) \in Frames
  BY <1>1, SMT
<1>3. QED
  BY <1>1, <1>2 DEF Frames, Node

(* The part of TypeInv that is about calls. *)
CallsTyped ==
  /\ stack \in [Procs -> Seq(Frames)]
  /\ call \in [Procs -> {<<>>, None} \cup Dirs]
  /\ crashes \in 0 .. MaxCrashes

(* The rest of the scan of LUN._list_mapped_luns is a stack. *)
LEMMA MoreTyped ==
  ASSUME NEW x \in LUNs, NEW S \in SUBSET Dirs,
         \A y \in S : y \in NodeACLs \cup MappedLUNs /\ TPGOf(y) = TPGOf(x)
  PROVE  More(x, S) \in Seq(Frames)
<1>1. Frame("unmap", x, S) \in Frames
  BY FrameTyped
<1>2. QED
  BY <1>1, SMT DEF More

(* What the steps of a call do to configfs. *)
LEMMA StepEffect ==
  ASSUME TypeInv, NEW p \in Procs, Step(p)
  PROVE  \/ UNCHANGED Configfs
         \/ /\ At(p, "link") /\ UNCHANGED <<dirs, enabled>>
            /\ \E y \in Head(stack[p]).rest :
                 /\ Node(p) \in dirs /\ y \in dirs /\ Suits(Node(p), y)
                 /\ link' = [link EXCEPT ![Node(p)] = y]
         \/ UNCHANGED <<dirs, link>> /\ enabled' = enabled \ {Node(p)}
         \/ /\ At(p, "attached") /\ UNCHANGED <<link, enabled>>
            /\ Node(p) \in LUNs
            /\ dirs' = dirs \cup {TargetOf(Node(p)), TPGOf(Node(p))}
         \/ /\ At(p, "unlink") /\ UNCHANGED <<dirs, enabled>>
            /\ link' = [link EXCEPT ![Node(p)] = None]
         \/ /\ At(p, "rmdir") /\ UNCHANGED link
            /\ CanRmdir(Node(p))
            /\ dirs' = dirs \ {Node(p)} /\ enabled' = enabled \ {Node(p)}
<1>1. CASE Link(p)
  <2>1. ~Idle(p) /\ Head(stack[p]).op = "link"
    BY <1>1 DEF Link, At
  <2>2. \A y \in Head(stack[p]).rest : Suits(Node(p), y)
    BY <2>1, HeadTyped, SMT DEF Framed, Node
  <2>3. QED
    BY <1>1, <2>2 DEF Link, Configfs
<1>2. CASE Delete(p) \/ DeleteNext(p) \/ Detach(p)
  BY <1>2 DEF Delete, DeleteNext, Detach
<1>3. CASE List(p) \/ ListAll(p) \/ Unmap(p)
  BY <1>3 DEF List, ListAll, Unmap
<1>4. CASE Disable(p)
  BY <1>4 DEF Disable, Configfs
<1>5. CASE Attached(p)
  <2>1. ~Idle(p) /\ Head(stack[p]).op = "attached"
    BY <1>5 DEF Attached, At
  <2>2. Node(p) \in LUNs
    BY <2>1, HeadTyped DEF Framed, Node
  <2>3. QED
    BY <1>5, <2>2 DEF Attached, TargetOf
<1>6. CASE Unlink(p)
  BY <1>6 DEF Unlink, Configfs
<1>7. CASE Rmdir(p)
  BY <1>7 DEF Rmdir, Configfs
<1>8. QED
  BY <1>1, <1>2, <1>3, <1>4, <1>5, <1>6, <1>7 DEF Step

(* Every step keeps the types. *)
LEMMA TypeNext ==
  ASSUME TypeInv, [Next]_vars
  PROVE  TypeInv'
(* TypeInv from its two halves. *)
<1>CallsKeepTypes. ASSUME CallsTyped', dirs' \in SUBSET Dirs, enabled' \in SUBSET TPGs,
                          link' \in [Linking -> LUNs \cup SOs \cup {None}]
                   PROVE  TypeInv'
  <2> USE <1>CallsKeepTypes
  (* A sequence over a set is a sequence over a larger one. *)
  <2>SeqWider. ASSUME NEW S, NEW T, S \subseteq T, NEW s \in Seq(S)
               PROVE  s \in Seq(T)
    BY <2>SeqWider, SMT
  <2>1. stack' \in [Procs -> Seq([op : Ops, node : Dirs \cup {<<>>}, rest : SUBSET Dirs])]
    <3>1. Frames \subseteq [op : Ops, node : Dirs \cup {<<>>}, rest : SUBSET Dirs]
      BY DEF Frames
    <3>2. \A s \in Seq(Frames) : s \in Seq([op : Ops, node : Dirs \cup {<<>>}, rest : SUBSET Dirs])
      BY <3>1, <2>SeqWider
    <3>3. QED
      BY <3>2 DEF CallsTyped
  <2>2. QED
    BY <2>1 DEF CallsTyped, TypeInv, TypeOK
(* A step of a call leaves typed stacks. *)
<1>StepTyped. ASSUME NEW p \in Procs, Step(p)
              PROVE  CallsTyped'
  <2> USE <1>StepTyped
  (* However a step leaves its stack, the stack has its type. *)
  <2>StepCallsTyped. ASSUME ~Idle(p),
                            \/ Raise(p) \/ Then(p, <<>>) \/ Become(p, <<>>)
                            \/ \E fs \in Seq(Frames) : Then(p, fs) \/ Become(p, fs)
                     PROVE  CallsTyped'
    <3> USE <2>StepCallsTyped
    (* Become keeps the types of stack, call and crashes. *)
    <3>BecomeTyped. ASSUME NEW fs \in Seq(Frames), Become(p, fs)
                    PROVE  /\ stack' \in [Procs -> Seq(Frames)]
                           /\ call' \in [Procs -> {<<>>, None} \cup Dirs]
                           /\ crashes' = crashes
      <4> USE <3>BecomeTyped
      <4>1. stack' \in [Procs -> Seq(Frames)]
        BY DEF Become, TypeInv
      <4>2. call' \in [Procs -> {<<>>, None} \cup Dirs]
        BY DEF Become, TypeInv, TypeOK
      <4>3. QED
        BY <4>1, <4>2 DEF Become
    (* An exception keeps the types of stack, call and crashes. *)
    <3>RaiseTyped. ASSUME Raise(p)
                   PROVE  /\ stack' \in [Procs -> Seq(Frames)]
                          /\ call' \in [Procs -> {<<>>, None} \cup Dirs]
                          /\ crashes' = crashes
      <4> USE <3>RaiseTyped
      <4> DEFINE last == stack[p][Len(stack[p])]
                 fs == IF last.op = "except" THEN <<Do("delete", last.node)>> ELSE <<>>
      <4>1. last \in Frames
        BY HeadTyped, SMT
      <4>2. fs \in Seq(Frames)
        <5>1. CASE last.op = "except"
          <6>1. last.node \in Dirs
            BY <5>1, <4>1 DEF Frames, Framed, Linking, Dirs
          <6>2. Do("delete", last.node) \in Frames
            BY <6>1, DoTyped
          <6>3. QED
            BY <5>1, <6>2, SMT
        <5>2. CASE last.op # "except"
          BY <5>2, SMT
        <5>3. QED
          BY <5>1, <5>2
      <4>3. Become(p, fs)
        BY DEF Raise
      <4>4. QED
        BY <4>2, <4>3, <3>BecomeTyped
    (* Going on with more frames keeps the types of stack, call and crashes. *)
    <3>ThenTyped. ASSUME NEW fs \in Seq(Frames), Then(p, fs)
                  PROVE  /\ stack' \in [Procs -> Seq(Frames)]
                         /\ call' \in [Procs -> {<<>>, None} \cup Dirs]
                         /\ crashes' = crashes
      <4> USE <3>ThenTyped
      <4>1. fs \o Tail(stack[p]) \in Seq(Frames)
        BY HeadTyped, SMT
      <4>2. QED
        BY <4>1, <3>BecomeTyped DEF Then
    <3>1. crashes \in 0 .. MaxCrashes
      BY DEF TypeInv, TypeOK
    <3>2. CASE Raise(p)
      BY <3>1, <3>2, <3>RaiseTyped DEF CallsTyped
    <3>3. ASSUME NEW fs \in Seq(Frames), Then(p, fs) PROVE CallsTyped'
      BY <3>1, <3>3, <3>ThenTyped DEF CallsTyped
    <3>4. ASSUME NEW fs \in Seq(Frames), Become(p, fs) PROVE CallsTyped'
      BY <3>1, <3>4, <3>BecomeTyped DEF CallsTyped
    <3>5. <<>> \in Seq(Frames)
      BY SMT
    <3>6. QED
      BY <3>2, <3>3, <3>4, <3>5
  <2>1. dirs \in SUBSET Dirs
    BY DEF TypeInv, TypeOK
  <2>2. CASE Link(p)
    <3>1. ~Idle(p)
      BY <2>2 DEF Link, At
    <3>2. Raise(p) \/ Become(p, <<>>)
      BY <2>2 DEF Link
    <3>3. QED
      BY <3>1, <3>2, <2>StepCallsTyped
  <2>3. CASE Delete(p)
    <3>1. ~Idle(p) /\ Head(stack[p]).op = "delete"
      BY <2>3 DEF Delete, At
    <3>2. Raise(p) \/ (Node(p) \in dirs /\ Then(p, DeleteFrames(Node(p))))
      BY <2>3 DEF Delete
    <3>3. Node(p) \in dirs => DeleteFrames(Node(p)) \in Seq(Frames)
      BY <2>1, DeleteFramesTyped
    <3>4. QED
      BY <3>1, <3>2, <3>3, <2>StepCallsTyped
  <2>4. CASE Disable(p) \/ Unlink(p) \/ Rmdir(p)
    <3>1. ~Idle(p)
      BY <2>4 DEF Disable, Unlink, Rmdir, At
    <3>2. Raise(p) \/ Then(p, <<>>)
      BY <2>4 DEF Disable, Unlink, Rmdir
    <3>3. QED
      BY <3>1, <3>2, <2>StepCallsTyped
  <2>5. CASE List(p)
    <3> DEFINE S == Below(Node(p), Listed(Head(stack[p]).op))
    <3>1. ~Idle(p) /\ (Raise(p) \/ Then(p, Each(Node(p), S)))
      BY <2>5 DEF List
    <3>2. S \in SUBSET Dirs /\ \A y \in S : Parent(y) = Node(p)
      BY <2>1 DEF Below
    <3>3. Each(Node(p), S) \in Seq(Frames)
      BY <3>1, <3>2, HeadTyped, EachTyped
    <3>4. QED
      BY <3>1, <3>3, <2>StepCallsTyped
  <2>6. CASE DeleteNext(p)
    <3>1. ~Idle(p) /\ Head(stack[p]).op = "each"
      BY <2>6 DEF DeleteNext, At
    <3>2. PICK y \in Head(stack[p]).rest :
            \/ Then(p, DeleteFrames(y) \o Each(Node(p), Head(stack[p]).rest \ {y}))
            \/ Raise(p)
      BY <2>6 DEF DeleteNext
    <3>3. /\ Head(stack[p]).rest \in SUBSET Dirs
          /\ \A z \in Head(stack[p]).rest : Parent(z) = Node(p)
      BY <3>1, HeadTyped DEF Framed, Node
    <3>4. DeleteFrames(y) \in Seq(Frames)
      BY <2>1, <3>3, DeleteFramesTyped
    <3>5. Each(Node(p), Head(stack[p]).rest \ {y}) \in Seq(Frames)
      BY <3>1, <3>3, HeadTyped, EachTyped
    <3>6. DeleteFrames(y) \o Each(Node(p), Head(stack[p]).rest \ {y}) \in Seq(Frames)
      BY <3>4, <3>5, SMT
    <3>7. QED
      BY <3>1, <3>2, <3>6, <2>StepCallsTyped
  <2>7. CASE Unmap(p)
    <3> DEFINE x == Node(p)
               rest == Head(stack[p]).rest
    <3>1. ~Idle(p) /\ Head(stack[p]).op = "unmap"
      BY <2>7 DEF Unmap, At
    <3>2. /\ x \in LUNs /\ rest \in SUBSET Dirs
          /\ \A y \in rest : y \in NodeACLs \cup MappedLUNs /\ TPGOf(y) = TPGOf(x)
      BY <3>1, HeadTyped DEF Framed, Node
    <3>3. CASE Raise(p) \/ Then(p, <<>>)
      BY <3>1, <3>3, <2>StepCallsTyped
    <3>4. ASSUME NEW y \in rest, y \in NodeACLs
          PROVE  More(x, (rest \ {y}) \cup Below(y, MappedLUNs)) \in Seq(Frames)
      <4>1. \A z \in Below(y, MappedLUNs) : z \in Dirs /\ z \in MappedLUNs /\ TPGOf(z) = TPGOf(x)
        BY <2>1, <3>2, <3>4, Parents DEF Below
      <4>2. QED
        BY <3>2, <4>1, MoreTyped
    <3>5. ASSUME NEW y \in rest
          PROVE  /\ DeleteFrames(y) \o More(x, rest \ {y}) \in Seq(Frames)
                 /\ More(x, rest \ {y}) \in Seq(Frames)
      <4>1. DeleteFrames(y) \in Seq(Frames)
        BY <2>1, <3>2, DeleteFramesTyped
      <4>2. More(x, rest \ {y}) \in Seq(Frames)
        BY <3>2, MoreTyped
      <4>3. QED
        BY <4>1, <4>2, SMT
    <3>6. Raise(p) \/ Then(p, <<>>) \/ \E fs \in Seq(Frames) : Then(p, fs)
      BY <2>7, <3>4, <3>5 DEF Unmap
    <3>7. QED
      BY <3>1, <3>3, <3>6, <2>StepCallsTyped
  <2>8. CASE Detach(p)
    <3> DEFINE x == Node(p)
               rest == Head(stack[p]).rest
    <3>1. ~Idle(p) /\ Head(stack[p]).op = "detach"
      BY <2>8 DEF Detach, At
    <3>2. x \in SOs /\ rest \in SUBSET (TargetDirs \cup TPGs \cup LUNs)
      BY <3>1, HeadTyped DEF Framed, Node
    <3>3. CASE Raise(p) \/ Then(p, <<>>)
      BY <3>1, <3>3, <2>StepCallsTyped
    <3>4. ASSUME NEW y \in rest
          PROVE  <<Frame("detach", x, (rest \ {y}) \cup Below(y, TPGs \cup LUNs))>> \in Seq(Frames)
      <4>1. (rest \ {y}) \cup Below(y, TPGs \cup LUNs) \in SUBSET (TargetDirs \cup TPGs \cup LUNs)
        BY <3>2 DEF Below
      <4>2. Frame("detach", x, (rest \ {y}) \cup Below(y, TPGs \cup LUNs)) \in Frames
        BY <3>2, <4>1, FrameTyped
      <4>3. QED
        BY <4>2, SMT
    <3>5. ASSUME NEW y \in rest, y \in LUNs
          PROVE  (IF link[y] = x THEN <<Do("attached", y)>> ELSE <<>>)
                    \o <<Frame("detach", x, rest \ {y})>> \in Seq(Frames)
      <4>1. rest \ {y} \in SUBSET (TargetDirs \cup TPGs \cup LUNs)
        BY <3>2
      <4>2. Frame("detach", x, rest \ {y}) \in Frames
        BY <3>2, <4>1, FrameTyped
      <4>3. Do("attached", y) \in Frames
        BY <3>5, DoTyped
      <4>4. QED
        BY <4>2, <4>3, SMT
    <3>6. Raise(p) \/ Then(p, <<>>) \/ \E fs \in Seq(Frames) : Then(p, fs)
      BY <2>8, <3>4, <3>5 DEF Detach
    <3>7. QED
      BY <3>1, <3>3, <3>6, <2>StepCallsTyped
  <2>9. CASE Attached(p)
    <3>1. ~Idle(p) /\ Head(stack[p]).op = "attached"
      BY <2>9 DEF Attached, At
    <3>2. Node(p) \in LUNs
      BY <3>1, HeadTyped DEF Framed, Node
    <3>3. DeleteFrames(Node(p)) \in Seq(Frames)
      BY <2>1, <3>2, DeleteFramesTyped DEF Dirs
    <3>4. SubSeq(stack[p], 3, Len(stack[p])) \in Seq(Frames)
      BY <3>1, HeadTyped, SMT
    <3>5. Raise(p) \/ Become(p, SubSeq(stack[p], 3, Len(stack[p]))) \/ Then(p, DeleteFrames(Node(p)))
      BY <2>9 DEF Attached
    <3>6. QED
      BY <3>1, <3>3, <3>4, <3>5, <2>StepCallsTyped
  <2>10. CASE ListAll(p)
    <3>1. ~Idle(p) /\ (Then(p, Each(<<>>, dirs \cap TargetDirs)) \/ Then(p, Each(<<>>, dirs \cap SOs)))
      BY <2>10 DEF ListAll, At
    <3>2. Each(<<>>, dirs \cap TargetDirs) \in Seq(Frames) /\ Each(<<>>, dirs \cap SOs) \in Seq(Frames)
      BY <2>1, Parents, EachTyped
    <3>3. QED
      BY <3>1, <3>2, <2>StepCallsTyped
  <2>11. QED
    BY <2>2, <2>3, <2>4, <2>5, <2>6, <2>7, <2>8, <2>9, <2>10 DEF Step
<1>1. /\ dirs \in SUBSET Dirs /\ enabled \in SUBSET TPGs /\ crashes \in 0 .. MaxCrashes
      /\ link \in [Linking -> LUNs \cup SOs \cup {None}]
      /\ stack \in [Procs -> Seq(Frames)] /\ call \in [Procs -> {<<>>, None} \cup Dirs]
  BY DEF TypeInv, TypeOK
<1>2. CASE UNCHANGED vars
  BY <1>1, <1>2, <1>CallsKeepTypes DEF vars, CallsTyped
<1>3. ASSUME NEW p \in Procs, NEW x \in Dirs, NewNode(p, x) PROVE TypeInv'
  BY <1>1, <1>3, <1>CallsKeepTypes DEF NewNode, CallsTyped
<1>4. ASSUME NEW p \in Procs, NEW x \in Linking, NEW y \in LUNs \cup SOs, NewLink(p, x, y)
      PROVE  TypeInv'
  <2>1. Frame("link", x, {y}) \in Frames
    BY <1>4, FrameTyped DEF NewLink, Suits
  <2>2. Do("except", x) \in Frames
    BY DoTyped
  <2>3. <<Frame("link", x, {y}), Do("except", x)>> \in Seq(Frames)
    BY <2>1, <2>2, SMT
  <2>4. CallsTyped'
    BY <1>1, <1>4, <2>3 DEF NewLink, Begin, CallsTyped
  <2>5. QED
    BY <1>1, <1>4, <2>4, <1>CallsKeepTypes DEF NewLink, Dirs, Linking
<1>5. ASSUME NEW p \in Procs, NEW x \in TPGs, SetEnable(p, x) PROVE TypeInv'
  BY <1>1, <1>5, <1>CallsKeepTypes DEF SetEnable, CallsTyped
<1>6. ASSUME NEW p \in Procs, NEW x \in Dirs, BeginDelete(p, x) PROVE TypeInv'
  <2>1. DeleteFrames(x) \in Seq(Frames)
    BY <1>1, DeleteFramesTyped
  <2>2. CallsTyped'
    BY <1>1, <1>6, <2>1 DEF BeginDelete, Begin, CallsTyped
  <2>3. QED
    BY <1>1, <1>6, <2>2, <1>CallsKeepTypes DEF BeginDelete, Configfs
<1>7. ASSUME NEW p \in Procs, BeginClear(p) PROVE TypeInv'
  <2>1. <<Do("targets", <<>>), Do("sos", <<>>)>> \in Seq(Frames)
    BY DoTyped, SMT
  <2>2. CallsTyped'
    BY <1>1, <1>7, <2>1 DEF BeginClear, Begin, CallsTyped
  <2>3. QED
    BY <1>1, <1>7, <2>2, <1>CallsKeepTypes DEF BeginClear, Configfs
<1>8. ASSUME NEW p \in Procs, Step(p) PROVE TypeInv'
  <2>1. CallsTyped'
    BY <1>8, <1>StepTyped
  <2>2. dirs' \in SUBSET Dirs /\ enabled' \in SUBSET TPGs
    <3>1. \A x \in LUNs : TargetOf(x) \in Dirs /\ TPGOf(x) \in Dirs
      BY Paths DEF Dirs
    <3>2. UNCHANGED Configfs => UNCHANGED <<dirs, enabled>>
      BY DEF Configfs
    <3>3. \/ dirs' = dirs
          \/ dirs' = dirs \ {Node(p)}
          \/ Node(p) \in LUNs /\ dirs' = dirs \cup {TargetOf(Node(p)), TPGOf(Node(p))}
      BY <1>8, <3>2, StepEffect
    <3>4. enabled' = enabled \/ enabled' = enabled \ {Node(p)}
      BY <1>8, <3>2, StepEffect
    <3>5. QED
      BY <1>1, <3>1, <3>3, <3>4
  <2>3. link' \in [Linking -> LUNs \cup SOs \cup {None}]
    <3>1. \A x, y : Suits(x, y) => y \in LUNs \cup SOs
      BY DEF Suits
    <3>2. UNCHANGED Configfs => UNCHANGED link
      BY DEF Configfs
    <3>3. UNCHANGED link \/ \E y \in LUNs \cup SOs \cup {None} : link' = [link EXCEPT ![Node(p)] = y]
      BY <1>8, <3>1, <3>2, StepEffect
    <3>4. QED
      BY <1>1, <3>3
  <2>4. QED
    BY <2>1, <2>2, <2>3, <1>CallsKeepTypes
<1>9. ASSUME NEW p \in Procs, Crash(p) PROVE TypeInv'
  <2>1. crashes' \in 0 .. MaxCrashes
    BY <1>1, <1>9, MaxCrashesAssumption, SMT DEF Crash
  <2>2. CallsTyped'
    BY <1>1, <1>9, <2>1, SMT DEF Crash, CallsTyped
  <2>3. QED
    BY <1>1, <1>9, <2>2, <1>CallsKeepTypes DEF Crash, Configfs
<1>10. QED
  BY <1>2, <1>3, <1>4, <1>5, <1>6, <1>7, <1>8, <1>9 DEF Next

(* The types hold at the start. *)
LEMMA TypeInit ==
  ASSUME Init
  PROVE  TypeInv
<1>1. <<>> \in Seq(Frames) /\ <<>> \in Seq([op : Ops, node : Dirs \cup {<<>>}, rest : SUBSET Dirs])
  BY SMT
<1>2. crashes \in 0 .. MaxCrashes
  BY MaxCrashesAssumption, SMT DEF Init
<1>3. QED
  BY <1>1, <1>2 DEF Init, TypeInv, TypeOK

(* Whatever the processes do, every step of a call works on a node of the  *)
(* kind that the code expects there, and the variables keep their types.   *)
THEOREM TypeCorrect == Spec => []TypeOK
<1>1. Init => TypeInv
  BY TypeInit
<1>2. TypeInv /\ [Next]_vars => TypeInv'
  BY TypeNext
<1>3. TypeInv => TypeOK
  BY DEF TypeInv
<1>4. QED
  BY <1>1, <1>2, <1>3, PTL DEF Spec

(* Every step keeps the tree. *)
LEMMA TreeNext ==
  ASSUME TypeInv, TreeInv, [Next]_vars
  PROVE  TreeInv'
(* mkdir in a directory keeps the tree. *)
<1>TreeGrows. ASSUME NEW x, CanMkdir(x), dirs' = dirs \cup {x}, UNCHANGED link
              PROVE  TreeInv'
  BY <1>TreeGrows DEF TreeInv, Tree, CanMkdir
(* A step of a call keeps the tree. *)
<1>TreeStep. ASSUME NEW p \in Procs, Step(p)
             PROVE  TreeInv'
  <2> USE <1>TreeStep
  <2>1. \A x \in dirs : x \in Dirs /\ Parent(x) \in dirs \cup {<<>>}
    BY DEF TypeInv, TypeOK, TreeInv, Tree
  <2>2. \A x \in Linking : link[x] # None => x \in dirs /\ link[x] \in dirs /\ Suits(x, link[x])
    BY DEF TreeInv, Tree
  <2>3. link \in [Linking -> LUNs \cup SOs \cup {None}]
    BY DEF TypeInv, TypeOK
  <2>4. CASE UNCHANGED <<dirs, link>>
    BY <2>4 DEF TreeInv, Tree
  <2>5. ASSUME NEW y, Node(p) \in dirs, y \in dirs, Suits(Node(p), y), UNCHANGED dirs,
               link' = [link EXCEPT ![Node(p)] = y]
        PROVE  TreeInv'
    BY <2>1, <2>2, <2>3, <2>5 DEF TreeInv, Tree
  <2>6. CASE Node(p) \in LUNs /\ UNCHANGED link /\ dirs' = dirs \cup {TargetOf(Node(p)), TPGOf(Node(p))}
    <3>1. Parent(TargetOf(Node(p))) = <<>> /\ Parent(TPGOf(Node(p))) = TargetOf(Node(p))
      BY <2>6, Paths, Parents
    <3>2. QED
      BY <2>1, <2>2, <2>6, <3>1 DEF TreeInv, Tree
  <2>7. CASE UNCHANGED dirs /\ link' = [link EXCEPT ![Node(p)] = None]
    BY <2>1, <2>2, <2>3, <2>7 DEF TreeInv, Tree
  <2>8. CASE UNCHANGED link /\ CanRmdir(Node(p)) /\ dirs' = dirs \ {Node(p)}
    <3>1. \A x \in dirs : Parent(x) # Node(p)
      BY <2>1, <2>8 DEF CanRmdir, Below
    <3>2. \A x \in Linking : link[x] # None => x # Node(p) /\ link[x] # Node(p)
      BY <2>8 DEF CanRmdir, LinkedTo
    <3>3. QED
      BY <2>1, <2>2, <2>8, <3>1, <3>2 DEF TreeInv, Tree
  <2>9. UNCHANGED Configfs => UNCHANGED <<dirs, link>>
    BY DEF Configfs
  <2>10. QED
    BY <2>4, <2>5, <2>6, <2>7, <2>8, <2>9, StepEffect
<1>1. CASE UNCHANGED <<dirs, link>>
  BY <1>1 DEF TreeInv, Tree
<1>2. CASE \E p \in Procs : \E x \in Dirs \ Linking : NewNode(p, x)
  BY <1>2, <1>TreeGrows DEF NewNode
<1>3. CASE \E p \in Procs : \E x \in Linking, y \in LUNs \cup SOs : NewLink(p, x, y)
  BY <1>3, <1>TreeGrows DEF NewLink
<1>4. CASE \E p \in Procs : Step(p)
  BY <1>4, <1>TreeStep
<1>5. CASE \E p \in Procs : \E x \in TPGs : SetEnable(p, x)
  BY <1>1, <1>5 DEF SetEnable
<1>6. CASE \E p \in Procs : \/ \E x \in Dirs : BeginDelete(p, x)
                            \/ BeginClear(p) \/ Crash(p)
  BY <1>1, <1>6 DEF BeginDelete, BeginClear, Crash, Configfs
<1>7. QED
  BY <1>1, <1>2, <1>3, <1>4, <1>5, <1>6 DEF Next, vars

(* The empty configfs is a tree. *)
LEMMA TreeInit ==
  ASSUME Init
  PROVE  TreeInv
BY DEF Init, TreeInv, Tree, Linking

(* Whatever the processes do, however their steps interleave and wherever  *)
(* they die: the parent of every directory exists, and every symlink leads *)
(* from an existing LUN to an existing storage object, or from an existing *)
(* mapped LUN to an existing LUN of its own TPG.                           *)
THEOREM TreeKept == Spec => []TreeInv
<1>1. Init => TypeInv /\ TreeInv
  BY TypeInit, TreeInit
<1>2. TypeInv /\ TreeInv /\ [Next]_vars => TypeInv' /\ TreeInv'
  BY TypeNext, TreeNext
<1>3. QED
  BY <1>1, <1>2, PTL DEF Spec

-----------------------------------------------------------------------------
(* The stack of a process that works alone.  s is the stack, c the call, D *)
(* the directories, L the symlinks, E the enabled TPGs and n the number of *)
(* crashes.                                                                *)

(* Frame f may be above frame g: it works on something inside the node of  *)
(* g that g does not visit later, or on the same node, in this order.      *)
Over(f, g) ==
  /\ f.node \notin g.rest
  /\ \/ Inside(f.node, g.node)
     \/ /\ f.node = g.node
        /\ f.op \notin {"rmdir", "delete", "except", "attached"}
        /\ g.op \notin {"each", "unmap", "detach", "attached", "link", "delete", "disable"}
        /\ f.op = "unlink" => g.op = "rmdir"

(* What is deleted because of a LUN or a storage object leads there. *)
Leads(f, g, L) ==
  f.op # "rmdir" =>
    /\ f.node \in LUNs /\ g.node \in SOs => L[f.node] = g.node
    /\ f.node \in MappedLUNs /\ g.node \in LUNs => L[f.node] = g.node
    /\ f.node \in MappedLUNs /\ g.node \in SOs => L[f.node] \in LUNs /\ L[L[f.node]] = g.node

InOrder(s, L) ==
  \A i, j \in 1 .. Len(s) : i < j => Over(s[i], s[j]) /\ Leads(s[i], s[j], L)

(* delete() of a TPG, of a target, or clear_existing(). *)
Wide(c) == c \in TPGs \cup TargetDirs \cup {<<>>}

(* What f needs is there, and f has nothing to do that raises. *)
Ready(f, c, D, L, n) ==
  /\ f.op \in Lists \cup {"disable", "unlink", "attached", "delete", "link"} => f.node \in D
  /\ f.op \in {"each", "unmap", "detach"} => f.rest \subseteq D
  /\ f.op = "link" => L[f.node] = None
  /\ f.op = "unmap" /\ n = 0 => \A y \in f.rest \cap MappedLUNs : L[y] # None
  /\ f.op = "unmap" /\ Wide(c) => f.rest = {}
  /\ f.op = "detach" /\ c = <<>> => f.rest = {}

AllReady(s, c, D, L, n) == \A i \in 1 .. Len(s) : Ready(s[i], c, D, L, n)

(* Every frame of B in s has a frame of C above it. *)
Covers(s, B, C) == \A i \in 1 .. Len(s) : s[i] \in B => \E j \in 1 .. i - 1 : s[j] \in C

Has(s, C) == \E i \in 1 .. Len(s) : s[i] \in C

(* The frames that take away directory y, ... *)
ClearsDir(y) ==
  {f \in Frames :
     \/ f.op \in {"delete", "rmdir"} /\ f.node = y
     \/ f.op = "each" /\ y \in f.rest
     \/ f.op \in Lists /\ y \in Listed(f.op) /\ Parent(y) = f.node
     \/ f.op = "targets" /\ y \in TargetDirs
     \/ f.op = "sos" /\ y \in SOs}

(* ... and the ones that cannot do their work while it is there: rmdir of  *)
(* its parent, and, as long as mapped LUNs or LUNs may have been left      *)
(* without a symlink, the LUNs of a TPG that has an ACL and the storage    *)
(* objects when there is a target.                                         *)
BlockedByDir(c, y) ==
  {f \in Frames :
     \/ f.op = "rmdir" /\ Parent(y) = f.node
     \/ /\ Wide(c) /\ y \in NodeACLs
        /\ \/ f.op = "luns" /\ f.node = Parent(y)
           \/ f.op = "each" /\ f.rest \cap LUNs # {} /\ f.node = Parent(y)
           \/ f.node \in LUNs /\ TPGOf(f.node) = Parent(y)
     \/ /\ c = <<>> /\ y \in TargetDirs
        /\ f.op = "sos" \/ f.node \in SOs \/ (f.op = "each" /\ f.rest \cap SOs # {})}

(* The same for the symlink in y that leads to t, ... *)
ClearsLink(y, t) ==
  {f \in Frames :
     \/ f.op \in {"delete", "unlink", "attached"} /\ f.node = y
     \/ f.op = "unmap" /\ f.node = t /\ (y \in f.rest \/ Parent(y) \in f.rest)
     \/ f.op = "detach" /\ f.node = t /\ (y \in f.rest \/ TPGOf(y) \in f.rest \/ TargetOf(y) \in f.rest)}

BlockedByLink(y, t) == {f \in Frames : f.op = "rmdir" /\ (y = f.node \/ t = f.node)}

(* ... and for the TPG x that is enabled. *)
Disables(x) == {f \in Frames : f.op = "disable" /\ f.node = x}

BlockedByEnable(c, x) ==
  {f \in Frames :
     Wide(c) /\ (Inside(f.node, x) \/ (f.node = x /\ f.op \notin {"delete", "disable"}))}

(* The frames that bring LUN or mapped LUN x its symlink, or its end. *)
Mends(x) == {f \in Frames : f.node = x /\ f.op \in {"link", "delete", "rmdir"}}

DirsCleared(s, c, D) == \A y \in D : Covers(s, BlockedByDir(c, y), ClearsDir(y))

LinksCleared(s, L) ==
  \A y \in Linking : L[y] # None => Covers(s, BlockedByLink(y, L[y]), ClearsLink(y, L[y]))

TPGsDisabled(s, c, E) == \A x \in E : Covers(s, BlockedByEnable(c, x), Disables(x))

(* delete() will get to its node, and clear_existing() to every target and *)
(* every storage object.                                                   *)
Meant(c, y) == c = y \/ (c = <<>> /\ Parent(y) = <<>>)

Sweeps(s, c, D) == \A y \in D : Meant(c, y) => Has(s, ClearsDir(y))

(* A LUN without its symlink is on its way. *)
BreaksMended(s, D, L, n) ==
  n = 0 => \A x \in D \cap Linking : L[x] = None => Has(s, Mends(x))

(* A directory whose symlink goes will go. *)
Unlinks(s) ==
  \A i \in 1 .. Len(s) : s[i].op = "unlink" =>
    \E j \in i + 1 .. Len(s) : s[j].op = "rmdir" /\ s[j].node = s[i].node

Detaches(s) ==
  \A i \in 1 .. Len(s) : s[i].op = "attached" => i + 1 \in 1 .. Len(s) /\ s[i + 1].op = "detach"

(* Where frames stand. *)
Placed(s, c) ==
  /\ Unlinks(s)
  /\ Detaches(s)
  /\ \A i \in 1 .. Len(s) : s[i].op \in {"link", "except"} =>
       Len(s) = 2 /\ s[1].op = "link" /\ s[2] = Do("except", s[1].node) /\ c = None
  /\ s # <<>> /\ c \in Dirs => s[Len(s)] = Do("rmdir", c)
  /\ s # <<>> /\ c = None => s[Len(s)].op \in {"except", "delete", "rmdir"} /\ s[Len(s)].node \in Linking

StackInv(s, c, D, L, E, n) ==
  /\ InOrder(s, L)
  /\ AllReady(s, c, D, L, n)
  /\ DirsCleared(s, c, D)
  /\ LinksCleared(s, L)
  /\ TPGsDisabled(s, c, E)
  /\ Sweeps(s, c, D)
  /\ BreaksMended(s, D, L, n)
  /\ Placed(s, c)

(* t is s with fs in the place of the frame on top. *)
Spliced(t, fs, s) ==
  /\ Len(t) \in Nat /\ Len(fs) \in Nat /\ Len(s) \in Nat \ {0}
  /\ Len(t) = Len(fs) + Len(s) - 1
  /\ \A k \in 1 .. Len(fs) : k \in 1 .. Len(t) /\ t[k] = fs[k]
  /\ \A j \in 2 .. Len(s) : Len(fs) + j - 1 \in 1 .. Len(t) /\ t[Len(fs) + j - 1] = s[j]
  /\ \A i \in 1 .. Len(t) : i \in 1 .. Len(fs) \/ \E j \in 2 .. Len(s) : i = Len(fs) + j - 1

(* A stack with the frame on top replaced by fs. *)
LEMMA PushSeq ==
  ASSUME NEW s \in Seq(Frames), s # <<>>, NEW fs \in Seq(Frames)
  PROVE  /\ fs \o Tail(s) \in Seq(Frames)
         /\ Spliced(fs \o Tail(s), fs, s)
<1> DEFINE t == fs \o Tail(s)
<1>1. /\ Len(fs) \in Nat /\ Len(s) \in Nat \ {0} /\ Tail(s) \in Seq(Frames)
      /\ Len(Tail(s)) = Len(s) - 1 /\ \A j \in 1 .. Len(s) - 1 : Tail(s)[j] = s[j + 1]
  BY SMT
<1>2. t \in Seq(Frames) /\ Len(t) = Len(fs) + Len(s) - 1
  BY <1>1, SMT
<1>3. \A k \in 1 .. Len(fs) : k \in 1 .. Len(t) /\ t[k] = fs[k]
  BY <1>1, <1>2, SMT
<1>4. ASSUME NEW j \in 2 .. Len(s)
      PROVE  Len(fs) + j - 1 \in 1 .. Len(t) /\ t[Len(fs) + j - 1] = s[j]
  <2>1. t[Len(fs) + (j - 1)] = Tail(s)[j - 1]
    BY <1>1, SMT
  <2>2. QED
    BY <1>1, <1>2, <2>1, SMT
<1>5. ASSUME NEW i \in 1 .. Len(t)
      PROVE  i \in 1 .. Len(fs) \/ \E j \in 2 .. Len(s) : i = Len(fs) + j - 1
  <2>1. CASE i > Len(fs)
    <3>1. i - Len(fs) + 1 \in 2 .. Len(s) /\ i = Len(fs) + (i - Len(fs) + 1) - 1
      BY <1>1, <1>2, <2>1, SMT
    <3>2. QED
      BY <3>1
  <2>2. QED
    BY <1>1, <2>1, SMT
<1>6. QED
  BY <1>1, <1>2, <1>3, <1>4, <1>5, SMT DEF Spliced

(* Covers stays when fs takes over what the frame on top did. *)
LEMMA PushCovers ==
  ASSUME NEW s \in Seq(Frames), s # <<>>, NEW fs \in Seq(Frames), NEW t, Spliced(t, fs, s),
         NEW B, NEW C, Covers(s, B, C), Covers(fs, B, C), s[1] \in C => Has(fs, C)
  PROVE  Covers(t, B, C)
<1>1. SUFFICES ASSUME NEW i \in 1 .. Len(t), t[i] \in B
               PROVE  \E j \in 1 .. i - 1 : t[j] \in C
  BY DEF Covers
<1> USE DEF Spliced
<1>2. CASE i \in 1 .. Len(fs)
  <2>1. fs[i] \in B
    BY <1>1, <1>2
  <2>2. PICK j \in 1 .. i - 1 : fs[j] \in C
    BY <1>2, <2>1 DEF Covers
  <2>3. j \in 1 .. Len(fs)
    BY <1>2, SMT
  <2>4. t[j] \in C
    BY <2>2, <2>3
  <2>5. QED
    BY <2>4
<1>3. ASSUME NEW k \in 2 .. Len(s), i = Len(fs) + k - 1
      PROVE  \E j \in 1 .. i - 1 : t[j] \in C
  <2>1. s[k] \in B /\ k \in 1 .. Len(s)
    BY <1>1, <1>3, SMT
  <2>2. PICK m \in 1 .. k - 1 : s[m] \in C
    BY <2>1 DEF Covers
  <2>3. CASE m = 1
    <3>1. PICK j \in 1 .. Len(fs) : fs[j] \in C
      BY <2>2, <2>3 DEF Has
    <3>2. j \in 1 .. i - 1 /\ t[j] \in C
      BY <1>3, <3>1, SMTT(30)
    <3>3. QED
      BY <3>2
  <2>4. CASE m # 1
    <3>1. m \in 2 .. Len(s) /\ Len(fs) + m - 1 \in 1 .. i - 1
      BY <1>3, <2>1, <2>4, SMTT(30)
    <3>2. t[Len(fs) + m - 1] \in C
      BY <2>2, <3>1
    <3>3. QED
      BY <3>1, <3>2
  <2>5. QED
    BY <2>3, <2>4
<1>4. QED
  BY <1>2, <1>3

(* Has stays when fs takes over what the frame on top did. *)
LEMMA PushHas ==
  ASSUME NEW s \in Seq(Frames), s # <<>>, NEW fs \in Seq(Frames), NEW t, Spliced(t, fs, s),
         NEW C, Has(s, C), s[1] \in C => Has(fs, C)
  PROVE  Has(t, C)
<1> USE DEF Spliced
<1>1. PICK m \in 1 .. Len(s) : s[m] \in C
  BY DEF Has
<1>2. CASE m = 1
  <2>1. PICK j \in 1 .. Len(fs) : fs[j] \in C
    BY <1>1, <1>2 DEF Has
  <2>2. j \in 1 .. Len(t) /\ t[j] \in C
    BY <2>1
  <2>3. QED
    BY <2>2 DEF Has
<1>3. CASE m # 1
  <2>1. m \in 2 .. Len(s)
    BY <1>3, SMT
  <2>2. Len(fs) + m - 1 \in 1 .. Len(t) /\ t[Len(fs) + m - 1] \in C
    BY <1>1, <2>1
  <2>3. QED
    BY <2>2 DEF Has
<1>4. QED
  BY <1>2, <1>3

(* fs may take the place of frame h on top of a stack. *)
Fits(fs, h, c, D, L, E, n) ==
  /\ InOrder(fs, L)
  /\ \A k \in 1 .. Len(fs), g \in Frames :
       Over(h, g) /\ Leads(h, g, L) => Over(fs[k], g) /\ Leads(fs[k], g, L)
  /\ AllReady(fs, c, D, L, n)
  /\ DirsCleared(fs, c, D)
  /\ \A y \in D : h \in ClearsDir(y) => Has(fs, ClearsDir(y))
  /\ LinksCleared(fs, L)
  /\ \A y \in Linking : L[y] # None /\ h \in ClearsLink(y, L[y]) => Has(fs, ClearsLink(y, L[y]))
  /\ TPGsDisabled(fs, c, E)
  /\ Unlinks(fs)
  /\ Detaches(fs)
  /\ \A k \in 1 .. Len(fs) : fs[k].op \notin {"link", "except"}
  /\ h.op \notin {"link", "except", "rmdir", "disable"}
  /\ h.op = "delete" => fs # <<>> /\ fs[Len(fs)] = Do("rmdir", h.node)

(* Frames stay ready. *)
LEMMA PushReady ==
  ASSUME NEW s \in Seq(Frames), s # <<>>, NEW fs \in Seq(Frames), NEW t, Spliced(t, fs, s),
         NEW c, NEW D, NEW L, NEW n, AllReady(fs, c, D, L, n),
         \A j \in 2 .. Len(s) : Ready(s[j], c, D, L, n)
  PROVE  AllReady(t, c, D, L, n)
<1>1. SUFFICES ASSUME NEW i \in 1 .. Len(t)
               PROVE  Ready(t[i], c, D, L, n)
  BY DEF AllReady
<1> USE DEF Spliced
<1>2. CASE i \in 1 .. Len(fs)
  BY <1>2 DEF AllReady
<1>3. ASSUME NEW m \in 2 .. Len(s), i = Len(fs) + m - 1
      PROVE  Ready(t[i], c, D, L, n)
  BY <1>3
<1>4. QED
  BY <1>2, <1>3

(* Every unlink still has its rmdir below it. *)
LEMMA PushUnlinks ==
  ASSUME NEW s, NEW fs, NEW t, Spliced(t, fs, s),
         Unlinks(s), Unlinks(fs)
  PROVE  Unlinks(t)
<1> USE DEF Spliced, Unlinks
<1>1. SUFFICES ASSUME NEW i \in 1 .. Len(t), t[i].op = "unlink"
               PROVE  \E j \in i + 1 .. Len(t) : t[j].op = "rmdir" /\ t[j].node = t[i].node
  OBVIOUS
<1>2. CASE i \in 1 .. Len(fs)
  <2>1. PICK l \in i + 1 .. Len(fs) : fs[l].op = "rmdir" /\ fs[l].node = fs[i].node
    BY <1>1, <1>2
  <2>2. l \in 1 .. Len(fs) /\ l \in i + 1 .. Len(t)
    BY <1>2, SMT
  <2>3. t[l] = fs[l] /\ t[i] = fs[i]
    BY <1>2, <2>2
  <2>4. QED
    BY <2>1, <2>2, <2>3
<1>3. ASSUME NEW m \in 2 .. Len(s), i = Len(fs) + m - 1
      PROVE  \E j \in i + 1 .. Len(t) : t[j].op = "rmdir" /\ t[j].node = t[i].node
  <2>1. m \in 1 .. Len(s) /\ t[i] = s[m]
    BY <1>3, SMTT(30)
  <2>2. PICK l \in m + 1 .. Len(s) : s[l].op = "rmdir" /\ s[l].node = s[m].node
    BY <1>1, <2>1
  <2>3. l \in 2 .. Len(s) /\ Len(fs) + l - 1 \in i + 1 .. Len(t)
    BY <1>3, SMT
  <2>4. PICK j : j = Len(fs) + l - 1
    OBVIOUS
  <2>5. j \in i + 1 .. Len(t) /\ t[j].op = "rmdir" /\ t[j].node = t[i].node
    BY <2>1, <2>2, <2>3, <2>4
  <2>6. QED
    BY <2>5
<1>4. QED
  BY <1>2, <1>3

(* Frames still stand where they should. *)
LEMMA PushPlaced ==
  ASSUME NEW s \in Seq(Frames), s # <<>>, NEW fs \in Seq(Frames), NEW t \in Seq(Frames), Spliced(t, fs, s),
         NEW c, Placed(s, c),
         Unlinks(fs), Detaches(fs),
         \A k \in 1 .. Len(fs) : fs[k].op \notin {"link", "except"},
         s[1].op \notin {"link", "except"},
         s[1].op = "rmdir" => fs = <<>>,
         s[1].op = "delete" => fs # <<>> /\ fs[Len(fs)] = Do("rmdir", s[1].node)
  PROVE  Placed(t, c)
(* Every attached still has its detach below it. *)
<1>PushAttached. ASSUME Detaches(s)
                 PROVE  Detaches(t)
  <2> USE <1>PushAttached
  <2> USE DEF Spliced, Detaches
  <2>1. SUFFICES ASSUME NEW i \in 1 .. Len(t), t[i].op = "attached"
                 PROVE  i + 1 \in 1 .. Len(t) /\ t[i + 1].op = "detach"
    OBVIOUS
  <2>2. CASE i \in 1 .. Len(fs)
    <3>1. i + 1 \in 1 .. Len(fs) /\ fs[i + 1].op = "detach"
      BY <2>1, <2>2
    <3>2. QED
      BY <3>1
  <2>3. ASSUME NEW m \in 2 .. Len(s), i = Len(fs) + m - 1
        PROVE  i + 1 \in 1 .. Len(t) /\ t[i + 1].op = "detach"
    <3>1. m \in 1 .. Len(s) /\ t[i] = s[m]
      BY <2>3, SMT
    <3>2. m + 1 \in 1 .. Len(s) /\ s[m + 1].op = "detach"
      BY <2>1, <3>1
    <3>3. m + 1 \in 2 .. Len(s) /\ i + 1 = Len(fs) + (m + 1) - 1
      BY <2>3, <3>2, SMT
    <3>4. QED
      BY <3>2, <3>3
  <2>4. QED
    BY <2>2, <2>3
(* Operations that neither part has, the new stack does not have. *)
<1>PushUnlike. ASSUME NEW O,
                      \A i \in 1 .. Len(s) : s[i].op \notin O, \A k \in 1 .. Len(fs) : fs[k].op \notin O
               PROVE  \A i \in 1 .. Len(t) : t[i].op \notin O
  <2> USE <1>PushUnlike
  <2> USE DEF Spliced
  <2>1. SUFFICES ASSUME NEW i \in 1 .. Len(t)
                 PROVE  t[i].op \notin O
    OBVIOUS
  <2>2. CASE i \in 1 .. Len(fs)
    BY <2>2
  <2>3. ASSUME NEW m \in 2 .. Len(s), i = Len(fs) + m - 1
        PROVE  t[i].op \notin O
    <3>1. m \in 1 .. Len(s) /\ t[i] = s[m]
      BY <2>3, SMT
    <3>2. QED
      BY <3>1
  <2>4. QED
    BY <2>2, <2>3
(* The frame at the bottom of the new stack. *)
<1>PushLast. ASSUME t # <<>>
             PROVE  \/ Len(s) = 1 /\ fs # <<>> /\ t[Len(t)] = fs[Len(fs)]
                    \/ t[Len(t)] = s[Len(s)]
  <2> USE <1>PushLast
  <2>1. CASE Len(s) = 1
    <3>1. Len(t) = Len(fs) /\ Len(fs) # 0
      BY <2>1, SMT DEF Spliced
    <3>2. QED
      BY <2>1, <3>1, SMT DEF Spliced
  <2>2. CASE Len(s) # 1
    <3>1. Len(s) \in Nat \ {0} /\ Len(t) = Len(fs) + Len(s) - 1
      BY DEF Spliced
    <3>2. Len(s) \in 2 .. Len(s)
      <4>1. \A k \in Nat \ {0} : k # 1 => k \in 2 .. k
        BY SMT
      <4>2. QED
        BY <2>2, <3>1, <4>1
    <3>3. QED
      BY <3>1, <3>2 DEF Spliced
  <2>3. QED
    BY <2>1, <2>2
<1>1. \A i \in 1 .. Len(s) : s[i].op \notin {"link", "except"}
  BY DEF Placed
<1>2. \A i \in 1 .. Len(t) : t[i].op \notin {"link", "except"}
  BY <1>1, <1>PushUnlike
<1>3. Unlinks(t)
  BY PushUnlinks DEF Placed
<1>4. Detaches(t)
  BY <1>PushAttached DEF Placed
<1>5. ASSUME t # <<>>
      PROVE  /\ c \in Dirs => t[Len(t)] = Do("rmdir", c)
             /\ c = None => t[Len(t)].op \in {"except", "delete", "rmdir"} /\ t[Len(t)].node \in Linking
  <2>1. CASE Len(s) = 1 /\ fs # <<>> /\ t[Len(t)] = fs[Len(fs)]
    <3>1. s[1].op # "rmdir"
      BY <2>1
    <3>2. c \notin Dirs
      BY <2>1, <3>1, SMT DEF Placed, Do, Frame
    <3>3. ASSUME c = None
          PROVE  t[Len(t)].op \in {"except", "delete", "rmdir"} /\ t[Len(t)].node \in Linking
      <4>1. s[1].op = "delete" /\ s[1].node \in Linking
        BY <2>1, <3>1, <3>3 DEF Placed
      <4>2. t[Len(t)] = Do("rmdir", s[1].node)
        BY <2>1, <4>1
      <4>3. QED
        BY <4>1, <4>2, SMT DEF Do, Frame
    <3>4. QED
      BY <3>2, <3>3
  <2>2. CASE t[Len(t)] = s[Len(s)]
    BY <2>2 DEF Placed
  <2>3. QED
    BY <1>5, <2>1, <2>2, <1>PushLast
<1>6. QED
  BY <1>2, <1>3, <1>4, <1>5 DEF Placed

(* The stack stays good when the frame on top is replaced by frames that   *)
(* fit.                                                                    *)
LEMMA PushInv ==
  ASSUME NEW s \in Seq(Frames), s # <<>>, NEW fs \in Seq(Frames),
         NEW c, NEW D, NEW L, NEW E, NEW n, StackInv(s, c, D, L, E, n), Fits(fs, s[1], c, D, L, E, n)
  PROVE  StackInv(fs \o Tail(s), c, D, L, E, n)
(* The order stays when fs may be above what the frame on top was above. *)
<1>PushInOrder. ASSUME NEW t, Spliced(t, fs, s), InOrder(s, L), InOrder(fs, L),
                       \A k \in 1 .. Len(fs), g \in Frames :
                         Over(s[1], g) /\ Leads(s[1], g, L) => Over(fs[k], g) /\ Leads(fs[k], g, L)
                PROVE  InOrder(t, L)
  <2> USE <1>PushInOrder
  <2>1. SUFFICES ASSUME NEW i \in 1 .. Len(t), NEW j \in 1 .. Len(t), i < j
                 PROVE  Over(t[i], t[j]) /\ Leads(t[i], t[j], L)
    BY DEF InOrder
  <2> USE DEF Spliced
  <2>2. CASE j \in 1 .. Len(fs)
    <3>1. i \in 1 .. Len(fs)
      BY <2>1, <2>2, SMT
    <3>2. t[i] = fs[i] /\ t[j] = fs[j]
      BY <2>2, <3>1
    <3>3. QED
      BY <2>1, <2>2, <3>1, <3>2 DEF InOrder
  <2>3. ASSUME NEW m \in 2 .. Len(s), j = Len(fs) + m - 1
        PROVE  Over(t[i], t[j]) /\ Leads(t[i], t[j], L)
    <3>1. t[j] = s[m] /\ m \in 1 .. Len(s) /\ 1 \in 1 .. Len(s) /\ 1 < m /\ s[m] \in Frames
      BY <2>3, SMT
    <3>2. CASE i \in 1 .. Len(fs)
      <4>1. Over(s[1], s[m]) /\ Leads(s[1], s[m], L)
        BY <3>1 DEF InOrder
      <4>2. Over(fs[i], s[m]) /\ Leads(fs[i], s[m], L)
        BY <3>1, <3>2, <4>1
      <4>3. QED
        BY <3>1, <3>2, <4>2
    <3>3. ASSUME NEW l \in 2 .. Len(s), i = Len(fs) + l - 1
          PROVE  Over(t[i], t[j]) /\ Leads(t[i], t[j], L)
      <4>1. t[i] = s[l] /\ l \in 1 .. Len(s) /\ l < m
        BY <2>1, <2>3, <3>3, SMT
      <4>2. QED
        BY <3>1, <4>1 DEF InOrder
    <3>4. QED
      BY <3>2, <3>3
  <2>4. QED
    BY <2>2, <2>3
<1> DEFINE t == fs \o Tail(s)
<1>1. t \in Seq(Frames) /\ Spliced(t, fs, s)
  BY PushSeq
<1> HIDE DEF t
<1>2. InOrder(t, L)
  <2>1. InOrder(s, L) /\ InOrder(fs, L)
    BY DEF StackInv, Fits
  <2>2. \A k \in 1 .. Len(fs), g \in Frames :
          Over(s[1], g) /\ Leads(s[1], g, L) => Over(fs[k], g) /\ Leads(fs[k], g, L)
    BY DEF Fits
  <2>3. QED
    BY <1>1, <2>1, <2>2, <1>PushInOrder
<1>3. AllReady(t, c, D, L, n)
  <2>1. \A j \in 2 .. Len(s) : Ready(s[j], c, D, L, n)
    BY SMT DEF StackInv, AllReady
  <2>2. AllReady(fs, c, D, L, n)
    BY DEF Fits
  <2>3. QED
    BY <1>1, <2>1, <2>2, PushReady
<1>4. DirsCleared(t, c, D)
  <2>1. SUFFICES ASSUME NEW y \in D
                 PROVE  Covers(t, BlockedByDir(c, y), ClearsDir(y))
    BY DEF DirsCleared
  <2>2. Covers(s, BlockedByDir(c, y), ClearsDir(y)) /\ Covers(fs, BlockedByDir(c, y), ClearsDir(y))
    BY DEF StackInv, Fits, DirsCleared
  <2>3. s[1] \in ClearsDir(y) => Has(fs, ClearsDir(y))
    BY DEF Fits
  <2>4. QED
    BY <1>1, <2>2, <2>3, PushCovers
<1>5. LinksCleared(t, L)
  <2>1. SUFFICES ASSUME NEW y \in Linking, L[y] # None
                 PROVE  Covers(t, BlockedByLink(y, L[y]), ClearsLink(y, L[y]))
    BY DEF LinksCleared
  <2>2. /\ Covers(s, BlockedByLink(y, L[y]), ClearsLink(y, L[y]))
        /\ Covers(fs, BlockedByLink(y, L[y]), ClearsLink(y, L[y]))
    BY <2>1 DEF StackInv, Fits, LinksCleared
  <2>3. s[1] \in ClearsLink(y, L[y]) => Has(fs, ClearsLink(y, L[y]))
    BY <2>1 DEF Fits
  <2>4. QED
    BY <1>1, <2>2, <2>3, PushCovers
<1>6. TPGsDisabled(t, c, E)
  <2>1. SUFFICES ASSUME NEW x \in E
                 PROVE  Covers(t, BlockedByEnable(c, x), Disables(x))
    BY DEF TPGsDisabled
  <2>2. Covers(s, BlockedByEnable(c, x), Disables(x)) /\ Covers(fs, BlockedByEnable(c, x), Disables(x))
    BY DEF StackInv, Fits, TPGsDisabled
  <2>3. s[1] \notin Disables(x)
    BY DEF Fits, Disables
  <2>4. QED
    BY <1>1, <2>2, <2>3, PushCovers
<1>7. Sweeps(t, c, D)
  <2>1. SUFFICES ASSUME NEW y \in D, Meant(c, y)
                 PROVE  Has(t, ClearsDir(y))
    BY DEF Sweeps
  <2>2. Has(s, ClearsDir(y))
    BY <2>1 DEF StackInv, Sweeps
  <2>3. s[1] \in ClearsDir(y) => Has(fs, ClearsDir(y))
    BY DEF Fits
  <2>4. QED
    BY <1>1, <2>2, <2>3, PushHas
<1>8. BreaksMended(t, D, L, n)
  <2>1. SUFFICES ASSUME n = 0, NEW x \in D \cap Linking, L[x] = None
                 PROVE  Has(t, Mends(x))
    BY DEF BreaksMended
  <2>2. Has(s, Mends(x))
    BY <2>1 DEF StackInv, BreaksMended
  <2>3. s[1] \in Mends(x) => Has(fs, Mends(x))
    <3>1. SUFFICES ASSUME s[1] \in Mends(x)
                   PROVE  Has(fs, Mends(x))
      OBVIOUS
    <3>2. s[1].op = "delete" /\ s[1].node = x
      BY <3>1 DEF Mends, Fits
    <3>3. fs # <<>> /\ fs[Len(fs)] = Do("rmdir", x)
      BY <3>2 DEF Fits
    <3>4. Len(fs) \in 1 .. Len(fs) /\ fs[Len(fs)] \in Frames
      BY <3>3, SMT
    <3>5. fs[Len(fs)] \in Mends(x)
      BY <3>3, <3>4, SMT DEF Mends, Do, Frame
    <3>6. QED
      BY <3>4, <3>5 DEF Has
  <2>4. QED
    BY <1>1, <2>2, <2>3, PushHas
<1>9. Placed(t, c)
  <2>1. /\ Placed(s, c) /\ Unlinks(fs) /\ Detaches(fs)
        /\ \A k \in 1 .. Len(fs) : fs[k].op \notin {"link", "except"}
        /\ s[1].op \notin {"link", "except"} /\ s[1].op # "rmdir"
        /\ s[1].op = "delete" => fs # <<>> /\ fs[Len(fs)] = Do("rmdir", s[1].node)
    BY DEF StackInv, Fits
  <2>2. QED
    BY <1>1, <2>1, PushPlaced
<1>10. QED
  BY <1>2, <1>3, <1>4, <1>5, <1>6, <1>7, <1>8, <1>9 DEF StackInv, t

(* The frame on top of the stack is done: with its effect on configfs, what*)
(* the rest of the stack relied on it for is no longer there.              *)
LEMMA PopInv ==
  ASSUME NEW s \in Seq(Frames), s # <<>>,
         NEW c, NEW D, NEW L, NEW E, NEW n, StackInv(s, c, D, L, E, n),
         NEW D2, NEW L2, NEW E2, D2 \subseteq D, E2 \subseteq E,
         \A i, j \in 2 .. Len(s) : i < j => Leads(s[i], s[j], L2),
         \A j \in 2 .. Len(s) : Ready(s[j], c, D2, L2, n),
         \A y \in D2 : s[1] \notin ClearsDir(y),
         \A y \in Linking : L2[y] = None \/ (L2[y] = L[y] /\ s[1] \notin ClearsLink(y, L[y])),
         \A x \in E2 : s[1] \notin Disables(x),
         \A x \in D2 \cap Linking : n = 0 /\ L2[x] = None =>
           (L[x] = None /\ s[1] \notin Mends(x)) \/ \E j \in 2 .. Len(s) : s[j] \in Mends(x),
         s[1].op \notin {"link", "except", "delete"}
  PROVE  StackInv(Tail(s), c, D2, L2, E2, n)
<1> DEFINE t == Tail(s)
<1>1. <<>> \in Seq(Frames) /\ t \in Seq(Frames) /\ Len(<<>>) = 0
  BY SMT
<1>2. Spliced(t, <<>>, s)
  <2>1. <<>> \o Tail(s) = t
    BY SMT
  <2>2. QED
    BY <1>1, <2>1, PushSeq
<1>3. \A B, C : Covers(<<>>, B, C)
  BY SMT DEF Covers
<1> HIDE DEF t
<1>4. InOrder(t, L2)
  <2>1. SUFFICES ASSUME NEW i \in 1 .. Len(t), NEW j \in 1 .. Len(t), i < j
                 PROVE  Over(t[i], t[j]) /\ Leads(t[i], t[j], L2)
    BY DEF InOrder
  <2>2. /\ i + 1 \in 2 .. Len(s) /\ j + 1 \in 2 .. Len(s) /\ i + 1 < j + 1
        /\ t[i] = s[i + 1] /\ t[j] = s[j + 1]
    BY <2>1, SMT DEF t
  <2>3. Over(s[i + 1], s[j + 1])
    BY <2>2, SMT DEF StackInv, InOrder
  <2>4. QED
    BY <2>2, <2>3
<1>5. AllReady(t, c, D2, L2, n)
  <2>1. AllReady(<<>>, c, D2, L2, n)
    BY SMT DEF AllReady
  <2>2. QED
    BY <1>1, <1>2, <2>1, PushReady
<1>6. DirsCleared(t, c, D2)
  <2>1. SUFFICES ASSUME NEW y \in D2
                 PROVE  Covers(t, BlockedByDir(c, y), ClearsDir(y))
    BY DEF DirsCleared
  <2>2. Covers(s, BlockedByDir(c, y), ClearsDir(y))
    BY DEF StackInv, DirsCleared
  <2>3. QED
    BY <1>1, <1>2, <1>3, <2>2, PushCovers
<1>7. LinksCleared(t, L2)
  <2>1. SUFFICES ASSUME NEW y \in Linking, L2[y] # None
                 PROVE  Covers(t, BlockedByLink(y, L2[y]), ClearsLink(y, L2[y]))
    BY DEF LinksCleared
  <2>2. L2[y] = L[y] /\ s[1] \notin ClearsLink(y, L2[y])
    BY <2>1
  <2>3. Covers(s, BlockedByLink(y, L2[y]), ClearsLink(y, L2[y]))
    BY <2>1, <2>2 DEF StackInv, LinksCleared
  <2>4. QED
    BY <1>1, <1>2, <1>3, <2>2, <2>3, PushCovers
<1>8. TPGsDisabled(t, c, E2)
  <2>1. SUFFICES ASSUME NEW x \in E2
                 PROVE  Covers(t, BlockedByEnable(c, x), Disables(x))
    BY DEF TPGsDisabled
  <2>2. Covers(s, BlockedByEnable(c, x), Disables(x))
    BY DEF StackInv, TPGsDisabled
  <2>3. QED
    BY <1>1, <1>2, <1>3, <2>2, PushCovers
<1>9. Sweeps(t, c, D2)
  <2>1. SUFFICES ASSUME NEW y \in D2, Meant(c, y)
                 PROVE  Has(t, ClearsDir(y))
    BY DEF Sweeps
  <2>2. Has(s, ClearsDir(y))
    BY <2>1 DEF StackInv, Sweeps
  <2>3. QED
    BY <1>1, <1>2, <2>2, PushHas
<1>10. BreaksMended(t, D2, L2, n)
  <2>1. SUFFICES ASSUME n = 0, NEW x \in D2 \cap Linking, L2[x] = None
                 PROVE  Has(t, Mends(x))
    BY DEF BreaksMended
  <2>2. CASE L[x] = None /\ s[1] \notin Mends(x)
    <3>1. Has(s, Mends(x))
      BY <2>1, <2>2 DEF StackInv, BreaksMended
    <3>2. QED
      BY <1>1, <1>2, <2>2, <3>1, PushHas
  <2>3. ASSUME NEW j \in 2 .. Len(s), s[j] \in Mends(x)
        PROVE  Has(t, Mends(x))
    <3>1. j - 1 \in 1 .. Len(t) /\ t[j - 1] = s[j]
      BY SMT DEF t
    <3>2. QED
      BY <2>3, <3>1 DEF Has
  <2>4. QED
    BY <2>1, <2>2, <2>3
<1>11. Placed(t, c)
  <2>1. Placed(s, c) /\ Unlinks(<<>>) /\ Detaches(<<>>)
    BY SMT DEF StackInv, Unlinks, Detaches
  <2>2. \A k \in 1 .. Len(<<>>) : <<>>[k].op \notin {"link", "except"}
    BY SMT
  <2>3. s[1].op \notin {"link", "except"} /\ s[1].op # "delete"
    OBVIOUS
  <2>4. QED
    BY <1>1, <1>2, <2>1, <2>2, <2>3, PushPlaced
<1>12. QED
  BY <1>4, <1>5, <1>6, <1>7, <1>8, <1>9, <1>10, <1>11 DEF StackInv, t

-----------------------------------------------------------------------------
(* The frames of delete(): their shape. *)

(* The frames of delete() of y. *)
Shaped(fs, y) ==
  /\ Len(fs) \in Nat \ {0}
  /\ fs[Len(fs)] = Do("rmdir", y)
  /\ \A k \in 1 .. Len(fs) :
       /\ fs[k].node = y
       /\ fs[k].op \notin {"link", "except", "delete", "attached", "each", "targets", "sos"}
       /\ fs[k].op = "rmdir" => k = Len(fs)
       /\ fs[k].op = "unlink" => k + 1 = Len(fs)
       /\ k # 1 => fs[k].rest = {} /\ fs[k].op \notin {"unmap", "detach", "disable"}

(* delete() of every class has the shape of Shaped. *)
LEMMA DeleteShaped ==
  ASSUME NEW y \in Dirs
  PROVE  Shaped(DeleteFrames(y), y)
<1> USE Disjoint
<1>1. CASE y \in TargetDirs
  <2>1. DeleteFrames(y) = <<Do("tpgs", y), Do("rmdir", y)>>
    BY <1>1 DEF DeleteFrames, TargetDelete
  <2>2. QED
    BY <2>1, SMT DEF Shaped, Do, Frame
<1>2. CASE y \in TPGs
  <2>1. DeleteFrames(y) =
          <<Do("disable", y), Do("acls", y), Do("luns", y), Do("nps", y), Do("rmdir", y)>>
    BY <1>2 DEF DeleteFrames, TPGDelete
  <2>2. QED
    BY <2>1, SMT DEF Shaped, Do, Frame
<1>3. CASE y \in NodeACLs
  <2>1. DeleteFrames(y) = <<Do("mluns", y), Do("rmdir", y)>>
    BY <1>3 DEF DeleteFrames, NodeACLDelete
  <2>2. QED
    BY <2>1, SMT DEF Shaped, Do, Frame
<1>4. CASE y \in MappedLUNs
  <2>1. DeleteFrames(y) = <<Do("unlink", y), Do("rmdir", y)>>
    BY <1>4 DEF DeleteFrames, MappedLUNDelete
  <2>2. QED
    BY <2>1, SMT DEF Shaped, Do, Frame
<1>5. CASE y \in LUNs
  <2>1. DeleteFrames(y) =
          <<Frame("unmap", y, Below(TPGOf(y), NodeACLs)), Do("unlink", y), Do("rmdir", y)>>
    BY <1>5 DEF DeleteFrames, LUNDelete
  <2>2. QED
    BY <2>1, SMT DEF Shaped, Do, Frame
<1>6. CASE y \in NetworkPortals
  <2>1. DeleteFrames(y) = <<Do("rmdir", y)>>
    BY <1>6 DEF DeleteFrames
  <2>2. QED
    BY <2>1, SMT DEF Shaped, Do, Frame
<1>7. CASE y \in SOs
  <2>1. DeleteFrames(y) = <<Frame("detach", y, dirs \cap TargetDirs), Do("rmdir", y)>>
    BY <1>7 DEF DeleteFrames, StorageObjectDelete
  <2>2. QED
    BY <2>1, SMT DEF Shaped, Do, Frame
<1>8. QED
  BY <1>1, <1>2, <1>3, <1>4, <1>5, <1>6, <1>7 DEF Dirs

(* The frames of a delete() are in order. *)
LEMMA ShapedOrder ==
  ASSUME NEW y, NEW fs, Shaped(fs, y), NEW L
  PROVE  InOrder(fs, L) /\ Unlinks(fs) /\ Detaches(fs)
<1>1. InOrder(fs, L)
  <2>1. SUFFICES ASSUME NEW i \in 1 .. Len(fs), NEW j \in 1 .. Len(fs), i < j
                 PROVE  Over(fs[i], fs[j]) /\ Leads(fs[i], fs[j], L)
    BY DEF InOrder
  <2>2. /\ fs[i].node = y /\ fs[j].node = y /\ fs[j].rest = {}
        /\ fs[i].op \notin {"rmdir", "delete", "except", "attached"}
        /\ fs[j].op \notin {"each", "unmap", "detach", "attached", "link", "delete", "disable"}
    BY <2>1, SMT DEF Shaped
  <2>3. fs[i].op = "unlink" => fs[j].op = "rmdir"
    <3>1. SUFFICES ASSUME fs[i].op = "unlink"
                   PROVE  fs[j].op = "rmdir"
      OBVIOUS
    <3>2. j = Len(fs)
      BY <2>1, <3>1, SMT DEF Shaped
    <3>3. QED
      BY <3>2, SMT DEF Shaped, Do, Frame
  <2>4. QED
    BY <2>2, <2>3, Disjoint DEF Over, Leads
<1>2. Unlinks(fs)
  BY SMTT(30) DEF Unlinks, Shaped, Do, Frame
<1>3. Detaches(fs)
  BY DEF Detaches, Shaped
<1>4. QED
  BY <1>1, <1>2, <1>3

-----------------------------------------------------------------------------
(* The frames of delete(): directories. *)

(* The frames of delete() of y can all do their work when nothing that     *)
(* might lack its symlink is near.                                         *)
Safe(y, c) ==
  /\ Wide(c) /\ y \in LUNs => Below(TPGOf(y), NodeACLs) = {}
  /\ c = <<>> /\ y \in SOs => dirs \cap TargetDirs = {}
  /\ Wide(c) => \A x \in enabled : ~Inside(y, x)

(* The frames of the delete() of a directory are ready. *)
LEMMA DeleteReady ==
  ASSUME TypeInv, NEW y \in dirs, NEW c, Safe(y, c), NEW n
  PROVE  AllReady(DeleteFrames(y), c, dirs, link, n)
<1> DEFINE fs == DeleteFrames(y)
<1>1. y \in Dirs
  BY DEF TypeInv, TypeOK
<1>2. SUFFICES ASSUME NEW k \in 1 .. Len(fs)
               PROVE  Ready(fs[k], c, dirs, link, n)
  BY DEF AllReady
<1>3. /\ fs[k].node = y
      /\ fs[k].op \notin {"link", "except", "delete", "attached", "each", "targets", "sos"}
      /\ k # 1 => fs[k].op \notin {"unmap", "detach"}
  BY <1>1, DeleteShaped, SMT DEF Shaped
<1>4. ASSUME fs[k].op = "unmap"
      PROVE  fs[k].rest = Below(TPGOf(y), NodeACLs) /\ y \in LUNs
  <2>1. fs[k] \in Frames
    BY <1>1, DeleteFramesTyped, SMT DEF TypeInv, TypeOK
  <2>2. y \in LUNs
    BY <1>3, <1>4, <2>1 DEF Frames, Framed
  <2>3. fs = <<Frame("unmap", y, Below(TPGOf(y), NodeACLs)), Do("unlink", y), Do("rmdir", y)>>
    BY <2>2, Disjoint DEF DeleteFrames, LUNDelete
  <2>4. k = 1
    BY <1>3, <1>4
  <2>5. QED
    BY <2>2, <2>3, <2>4, SMT DEF Frame
<1>5. ASSUME fs[k].op = "detach"
      PROVE  fs[k].rest = dirs \cap TargetDirs /\ y \in SOs
  <2>1. fs[k] \in Frames
    BY <1>1, DeleteFramesTyped, SMT DEF TypeInv, TypeOK
  <2>2. y \in SOs
    BY <1>3, <1>5, <2>1 DEF Frames, Framed
  <2>3. fs = <<Frame("detach", y, dirs \cap TargetDirs), Do("rmdir", y)>>
    BY <2>2, Disjoint DEF DeleteFrames, StorageObjectDelete
  <2>4. k = 1
    BY <1>3, <1>5
  <2>5. QED
    BY <2>2, <2>3, <2>4, SMT DEF Frame
<1> HIDE DEF fs
<1>6. CASE fs[k].op = "unmap"
  BY <1>3, <1>4, <1>6, Disjoint DEF Ready, Safe, Below, Lists
<1>7. CASE fs[k].op = "detach"
  BY <1>3, <1>5, <1>7 DEF Ready, Safe, Lists
<1>8. CASE fs[k].op \notin {"unmap", "detach"}
  BY <1>3, <1>8 DEF Ready
<1>9. QED
  BY <1>6, <1>7, <1>8

(* A listing takes away what it lists. *)
LEMMA ListClears ==
  ASSUME NEW op \in Lists, NEW z \in Listed(op), Do(op, Parent(z)) \in Frames
  PROVE  Do(op, Parent(z)) \in ClearsDir(z)
<1>1. Do(op, Parent(z)).op = op /\ Do(op, Parent(z)).node = Parent(z)
  BY DEF Do, Frame
<1>2. QED
  BY <1>1 DEF ClearsDir

(* What each listing lists. *)
LEMMA ListedKinds ==
  /\ Lists = {"tpgs", "acls", "luns", "nps", "mluns"}
  /\ Listed("tpgs") = TPGs /\ Listed("acls") = NodeACLs /\ Listed("luns") = LUNs
  /\ Listed("nps") = NetworkPortals /\ Listed("mluns") = MappedLUNs
BY DEF Lists, Listed

(* delete() takes away directories before what they would block. *)
LEMMA DeleteDirsCleared ==
  ASSUME TypeInv, NEW y \in dirs, NEW c, Safe(y, c)
  PROVE  DirsCleared(DeleteFrames(y), c, dirs)
(* delete() lists every child before its rmdir. *)
<1>DeleteLists. ASSUME NEW x \in Dirs, NEW z \in Dirs, Parent(z) = x
                PROVE  \E k \in 1 .. Len(DeleteFrames(x)) - 1 : DeleteFrames(x)[k] \in ClearsDir(z)
  <2> USE <1>DeleteLists
  <2> DEFINE fs == DeleteFrames(x)
  <2> USE Disjoint
  <2>1. fs \in Seq(Frames)
    BY DeleteFramesTyped DEF TypeInv, TypeOK
  <2>2. CASE z \in TPGs
    <3>1. x \in TargetDirs
      BY <2>2, Parents, Paths, SMT
    <3>2. fs = <<Do("tpgs", x), Do("rmdir", x)>>
      BY <3>1 DEF DeleteFrames, TargetDelete
    <3>3. Len(fs) = 2 /\ fs[1] = Do("tpgs", x) /\ fs[1] \in Frames
      BY <2>1, <3>2, SMT
    <3>4. fs[1] \in ClearsDir(z)
      BY <2>1, <2>2, <3>3, ListClears, ListedKinds, SMT
    <3>5. QED
      BY <3>3, <3>4, SMT
  <2>3. CASE z \in LUNs \cup NetworkPortals \cup NodeACLs
    <3>1. x \in TPGs
      BY <2>3, Parents, Paths, SMT
    <3>2. fs = <<Do("disable", x), Do("acls", x), Do("luns", x), Do("nps", x), Do("rmdir", x)>>
      BY <3>1 DEF DeleteFrames, TPGDelete
    <3>3. Len(fs) = 5 /\ fs[2] = Do("acls", x) /\ fs[3] = Do("luns", x) /\ fs[4] = Do("nps", x)
      BY <3>2, SMTT(30)
    <3>9. fs[2] \in Frames /\ fs[3] \in Frames /\ fs[4] \in Frames
      BY <2>1, <3>3, SMTT(30)
    <3>4. CASE z \in NodeACLs
      <4>1. fs[2] \in ClearsDir(z)
        BY <3>3, <3>9, <3>4, ListClears, ListedKinds, SMT
      <4>2. QED
        BY <3>3, <4>1, SMT
    <3>5. CASE z \in LUNs
      <4>1. fs[3] \in ClearsDir(z)
        BY <3>3, <3>9, <3>5, ListClears, ListedKinds, SMT
      <4>2. QED
        BY <3>3, <4>1, SMT
    <3>6. CASE z \in NetworkPortals
      <4>1. fs[4] \in ClearsDir(z)
        BY <3>3, <3>9, <3>6, ListClears, ListedKinds, SMT
      <4>2. QED
        BY <3>3, <4>1, SMT
    <3>7. QED
      BY <2>3, <3>4, <3>5, <3>6
  <2>4. CASE z \in MappedLUNs
    <3>1. x \in NodeACLs
      BY <2>4, Parents
    <3>2. fs = <<Do("mluns", x), Do("rmdir", x)>>
      BY <3>1 DEF DeleteFrames, NodeACLDelete
    <3>3. Len(fs) = 2 /\ fs[1] = Do("mluns", x) /\ fs[1] \in Frames
      BY <2>1, <3>2, SMT
    <3>4. fs[1] \in ClearsDir(z)
      BY <2>1, <2>4, <3>3, ListClears, ListedKinds, SMT
    <3>5. QED
      BY <3>3, <3>4, SMT
  <2>5. CASE z \in TargetDirs \cup SOs
    BY <2>5, Parents
  <2>6. QED
    BY <2>2, <2>3, <2>4, <2>5 DEF Dirs
<1> DEFINE fs == DeleteFrames(y)
<1>1. y \in Dirs /\ dirs \in SUBSET Dirs
  BY DEF TypeInv, TypeOK
<1>2. SUFFICES ASSUME NEW z \in dirs, NEW i \in 1 .. Len(fs), fs[i] \in BlockedByDir(c, z)
               PROVE  \E j \in 1 .. i - 1 : fs[j] \in ClearsDir(z)
  BY DEF DirsCleared, Covers
<1>3. Shaped(fs, y) /\ fs \in Seq(Frames)
  BY <1>1, DeleteShaped, DeleteFramesTyped
<1> HIDE DEF fs
<1>4. fs[i].node = y /\ (fs[i].op = "rmdir" => i = Len(fs)) /\ fs[i].op \notin {"each", "sos"}
  BY <1>3 DEF Shaped
<1>5. CASE fs[i].op = "rmdir" /\ Parent(z) = fs[i].node
  BY <1>1, <1>4, <1>5, <1>DeleteLists DEF fs
<1>6. CASE Wide(c) /\ z \in NodeACLs /\ fs[i].op = "luns" /\ fs[i].node = Parent(z)
  <2>1. y \in TPGs
    BY <1>4, <1>6, Parents, Paths, SMT
  <2>2. fs = <<Do("disable", y), Do("acls", y), Do("luns", y), Do("nps", y), Do("rmdir", y)>>
    BY <2>1, Disjoint DEF DeleteFrames, TPGDelete, fs
  <2>3. i = 3 /\ fs[2] = Do("acls", y) /\ fs[2] \in Frames
    BY <1>3, <1>6, <2>2, SMT DEF Do, Frame
  <2>4. fs[2] \in ClearsDir(z)
    BY <1>4, <1>6, <2>3, ListClears, ListedKinds
  <2>5. QED
    BY <2>3, <2>4, SMT
<1>7. CASE Wide(c) /\ z \in NodeACLs /\ fs[i].node \in LUNs /\ TPGOf(fs[i].node) = Parent(z)
  BY <1>4, <1>7 DEF Safe, Below
<1>8. CASE c = <<>> /\ z \in TargetDirs /\ fs[i].node \in SOs
  BY <1>4, <1>8 DEF Safe
<1>9. QED
  BY <1>2, <1>4, <1>5, <1>6, <1>7, <1>8 DEF BlockedByDir

-----------------------------------------------------------------------------
(* The frames of delete(): symlinks and TPGs. *)

(* Where the symlinks of a tree are. *)
LEMMA LinkPlaces ==
  ASSUME TypeInv, TreeInv, NEW z \in Linking, link[z] # None
  PROVE  /\ z \in dirs /\ Parent(z) \in dirs /\ TPGOf(z) \in dirs /\ TargetOf(z) \in dirs
         /\ \/ z \in LUNs /\ link[z] \in SOs
            \/ /\ z \in MappedLUNs /\ link[z] \in LUNs /\ TPGOf(link[z]) = TPGOf(z)
               /\ Parent(z) \in Below(TPGOf(z), NodeACLs)
<1>1. \A x \in dirs : Parent(x) \in dirs \cup {<<>>}
  BY DEF TreeInv, Tree
<1>2. z \in dirs /\ Suits(z, link[z])
  BY DEF TreeInv, Tree
<1>3. <<>> \notin TargetDirs \cup TPGs \cup NodeACLs
  BY Disjoint DEF Dirs
<1>4. CASE z \in LUNs
  <2>1. /\ TPGOf(z) \in TPGs /\ TargetOf(z) \in TargetDirs
        /\ Parent(z) = TPGOf(z) /\ Parent(TPGOf(z)) = TargetOf(z)
    BY <1>4, Paths, Parents
  <2>2. TPGOf(z) \in dirs
    BY <1>1, <1>2, <1>3, <2>1
  <2>3. TargetOf(z) \in dirs
    BY <1>1, <1>3, <2>1, <2>2
  <2>4. link[z] \in SOs
    BY <1>2, <1>4, Disjoint DEF Suits
  <2>5. QED
    BY <1>2, <1>4, <2>1, <2>2, <2>3, <2>4
<1>5. CASE z \in MappedLUNs
  <2>1. /\ TPGOf(z) \in TPGs /\ TargetOf(z) \in TargetDirs /\ Parent(z) \in NodeACLs
        /\ TPGOf(Parent(z)) = TPGOf(z) /\ Parent(TPGOf(z)) = TargetOf(z)
    BY <1>5, Paths, Parents
  <2>2. Parent(Parent(z)) = TPGOf(z)
    BY <2>1, Parents
  <2>3. Parent(z) \in dirs
    BY <1>1, <1>2, <1>3, <2>1
  <2>4. TPGOf(z) \in dirs
    BY <1>1, <1>3, <2>1, <2>2, <2>3
  <2>5. TargetOf(z) \in dirs
    BY <1>1, <1>3, <2>1, <2>4
  <2>6. link[z] \in LUNs /\ TPGOf(link[z]) = TPGOf(z)
    BY <1>2, <1>5, Disjoint DEF Suits
  <2>7. QED
    BY <1>2, <1>5, <2>1, <2>2, <2>3, <2>4, <2>5, <2>6 DEF Below
<1>6. QED
  BY <1>4, <1>5 DEF Linking

(* delete() takes away symlinks before the rmdir that they would block. *)
LEMMA DeleteLinksCleared ==
  ASSUME TypeInv, TreeInv, NEW y \in dirs
  PROVE  LinksCleared(DeleteFrames(y), link)
<1> DEFINE fs == DeleteFrames(y)
<1>1. y \in Dirs
  BY DEF TypeInv, TypeOK
<1>2. Shaped(fs, y) /\ fs \in Seq(Frames)
  BY <1>1, DeleteShaped, DeleteFramesTyped DEF TypeInv, TypeOK
<1>3. SUFFICES ASSUME NEW z \in Linking, link[z] # None,
                      NEW i \in 1 .. Len(fs), fs[i] \in BlockedByLink(z, link[z])
               PROVE  \E j \in 1 .. i - 1 : fs[j] \in ClearsLink(z, link[z])
  BY DEF LinksCleared, Covers
<1>4. fs[i].op = "rmdir" /\ (z = fs[i].node \/ link[z] = fs[i].node)
  BY <1>3 DEF BlockedByLink
<1>5. i = Len(fs) /\ (z = y \/ link[z] = y)
  BY <1>2, <1>4 DEF Shaped
<1>6. CASE y \in LUNs
  <2>1. fs = <<Frame("unmap", y, Below(TPGOf(y), NodeACLs)), Do("unlink", y), Do("rmdir", y)>>
    BY <1>6, Disjoint DEF DeleteFrames, LUNDelete
  <2>2. /\ Len(fs) = 3 /\ fs[1] = Frame("unmap", y, Below(TPGOf(y), NodeACLs)) /\ fs[2] = Do("unlink", y)
        /\ fs[1] \in Frames /\ fs[2] \in Frames
    BY <1>2, <2>1, SMT
  <2>3. CASE z = y
    <3>1. fs[2] \in ClearsLink(z, link[z])
      BY <2>2, <2>3, SMT DEF ClearsLink, Do, Frame
    <3>2. QED
      BY <1>5, <2>2, <3>1, SMT
  <2>4. CASE link[z] = y
    <3>1. Parent(z) \in Below(TPGOf(y), NodeACLs)
      BY <1>3, <1>6, <2>4, LinkPlaces, Disjoint
    <3>2. fs[1] \in ClearsLink(z, link[z])
      BY <2>2, <2>4, <3>1, SMT DEF ClearsLink, Frame
    <3>3. QED
      BY <1>5, <2>2, <3>2, SMT
  <2>5. QED
    BY <1>5, <2>3, <2>4
<1>7. CASE y \in SOs
  <2>1. fs = <<Frame("detach", y, dirs \cap TargetDirs), Do("rmdir", y)>>
    BY <1>7, Disjoint DEF DeleteFrames, StorageObjectDelete
  <2>2. Len(fs) = 2 /\ fs[1] = Frame("detach", y, dirs \cap TargetDirs) /\ fs[1] \in Frames
    BY <1>2, <2>1, SMT
  <2>3. z # y /\ link[z] = y
    BY <1>5, <1>7, Disjoint DEF Linking
  <2>4. TargetOf(z) \in dirs \cap TargetDirs
    BY <1>3, LinkPlaces, Paths DEF Linking
  <2>5. fs[1] \in ClearsLink(z, link[z])
    BY <2>2, <2>3, <2>4, SMT DEF ClearsLink, Frame
  <2>6. QED
    BY <1>5, <2>2, <2>5, SMT
<1>8. CASE y \in MappedLUNs
  <2>1. fs = <<Do("unlink", y), Do("rmdir", y)>>
    BY <1>8, Disjoint DEF DeleteFrames, MappedLUNDelete
  <2>2. Len(fs) = 2 /\ fs[1] = Do("unlink", y) /\ fs[1] \in Frames
    BY <1>2, <2>1, SMT
  <2>3. z = y
    BY <1>3, <1>5, <1>8, LinkPlaces, Disjoint
  <2>4. fs[1] \in ClearsLink(z, link[z])
    BY <2>2, <2>3, SMT DEF ClearsLink, Do, Frame
  <2>5. QED
    BY <1>5, <2>2, <2>4, SMT
<1>9. CASE y \notin LUNs \cup SOs \cup MappedLUNs
  BY <1>3, <1>5, <1>9, LinkPlaces DEF Linking
<1>10. QED
  BY <1>6, <1>7, <1>8, <1>9

(* delete() disables a TPG before it takes away what is inside. *)
LEMMA DeleteTPGsDisabled ==
  ASSUME TypeInv, NEW y \in dirs, NEW c, Safe(y, c)
  PROVE  TPGsDisabled(DeleteFrames(y), c, enabled)
<1> DEFINE fs == DeleteFrames(y)
<1>1. y \in Dirs /\ enabled \in SUBSET TPGs
  BY DEF TypeInv, TypeOK
<1>2. Shaped(fs, y) /\ fs \in Seq(Frames)
  BY <1>1, DeleteShaped, DeleteFramesTyped DEF TypeInv, TypeOK
<1>3. SUFFICES ASSUME NEW x \in enabled, NEW i \in 1 .. Len(fs), fs[i] \in BlockedByEnable(c, x)
               PROVE  \E j \in 1 .. i - 1 : fs[j] \in Disables(x)
  BY DEF TPGsDisabled, Covers
<1>4. fs[i].node = y
  BY <1>2 DEF Shaped
<1>5. y = x /\ fs[i].op # "disable"
  BY <1>3, <1>4 DEF BlockedByEnable, Safe
<1>6. fs = <<Do("disable", y), Do("acls", y), Do("luns", y), Do("nps", y), Do("rmdir", y)>>
  BY <1>1, <1>5, Disjoint DEF DeleteFrames, TPGDelete
<1>7. fs[1] = Do("disable", y) /\ fs[1] \in Frames
  BY <1>2, <1>6, SMT
<1>8. fs[1] \in Disables(x) /\ fs[1].op = "disable"
  BY <1>5, <1>7, SMT DEF Disables, Do, Frame
<1>9. i # 1
  BY <1>5, <1>8
<1>10. QED
  BY <1>8, <1>9, SMT

-----------------------------------------------------------------------------
(* Frames that fit. *)

(* Nothing keeps f from doing its work. *)
Free(f, c, D, L, E) ==
  /\ \A y \in D : f \notin BlockedByDir(c, y)
  /\ \A y \in Linking : L[y] # None => f \notin BlockedByLink(y, L[y])
  /\ \A x \in E : f \notin BlockedByEnable(c, x)

(* Nothing blocks the frame on top: there is no frame above it that could  *)
(* help.                                                                   *)
LEMMA HeadFree ==
  ASSUME NEW s \in Seq(Frames), s # <<>>,
         NEW c, NEW D, NEW L, NEW E, NEW n, StackInv(s, c, D, L, E, n)
  PROVE  Free(s[1], c, D, L, E) /\ Ready(s[1], c, D, L, n)
<1>1. 1 \in 1 .. Len(s) /\ 1 .. (1 - 1) = {}
  BY SMT
<1>2. \A B, C : Covers(s, B, C) => s[1] \notin B
  BY <1>1 DEF Covers
<1>3. \A y \in D : s[1] \notin BlockedByDir(c, y)
  BY <1>2 DEF StackInv, DirsCleared
<1>4. \A y \in Linking : L[y] # None => s[1] \notin BlockedByLink(y, L[y])
  BY <1>2 DEF StackInv, LinksCleared
<1>5. \A x \in E : s[1] \notin BlockedByEnable(c, x)
  BY <1>2 DEF StackInv, TPGsDisabled
<1>6. Ready(s[1], c, D, L, n)
  BY <1>1 DEF StackInv, AllReady
<1>7. QED
  BY <1>3, <1>4, <1>5, <1>6 DEF Free

(* f may stand wherever h does. *)
Follows(f, h, L) ==
  \A g \in Frames : Over(h, g) /\ Leads(h, g, L) => Over(f, g) /\ Leads(f, g, L)

(* Frames that nothing blocks fit when they take over the work of h. *)
LEMMA FitsFree ==
  ASSUME NEW fs \in Seq(Frames), NEW h, NEW c, NEW D, NEW L, NEW E, NEW n,
         InOrder(fs, L), Detaches(fs),
         \A k \in 1 .. Len(fs) :
           /\ Follows(fs[k], h, L) /\ Ready(fs[k], c, D, L, n) /\ Free(fs[k], c, D, L, E)
           /\ fs[k].op \notin {"unlink", "link", "except"},
         \A y \in D : h \in ClearsDir(y) => Has(fs, ClearsDir(y)),
         \A y \in Linking : L[y] # None /\ h \in ClearsLink(y, L[y]) => Has(fs, ClearsLink(y, L[y])),
         h.op \notin {"link", "except", "rmdir", "disable", "delete"}
  PROVE  Fits(fs, h, c, D, L, E, n)
<1>1. \A k \in 1 .. Len(fs), g \in Frames :
        Over(h, g) /\ Leads(h, g, L) => Over(fs[k], g) /\ Leads(fs[k], g, L)
  BY DEF Follows
<1>2. AllReady(fs, c, D, L, n)
  BY DEF AllReady
<1>3. DirsCleared(fs, c, D)
  BY DEF DirsCleared, Covers, Free
<1>4. LinksCleared(fs, L)
  BY DEF LinksCleared, Covers, Free
<1>5. TPGsDisabled(fs, c, E)
  BY DEF TPGsDisabled, Covers, Free
<1>6. Unlinks(fs)
  BY DEF Unlinks
<1>7. QED
  BY <1>1, <1>2, <1>3, <1>4, <1>5, <1>6 DEF Fits

(* A frame that has nothing left to do may go. *)
LEMMA FitsNone ==
  ASSUME NEW h, NEW c, NEW D, NEW L, NEW E, NEW n,
         \A y \in D : h \notin ClearsDir(y),
         \A y \in Linking : L[y] # None => h \notin ClearsLink(y, L[y]),
         h.op \notin {"link", "except", "rmdir", "disable", "delete"}
  PROVE  Fits(<<>>, h, c, D, L, E, n)
<1>1. <<>> \in Seq(Frames) /\ 1 .. Len(<<>>) = {}
  BY SMT
<1>2. InOrder(<<>>, L) /\ Detaches(<<>>)
  BY <1>1 DEF InOrder, Detaches
<1>3. QED
  BY <1>1, <1>2, FitsFree

(* FitsFree for one frame. *)
LEMMA FitsOne ==
  ASSUME NEW h, NEW c, NEW D, NEW L, NEW E, NEW n, NEW f \in Frames,
         Follows(f, h, L), Ready(f, c, D, L, n), Free(f, c, D, L, E),
         f.op \notin {"unlink", "link", "except", "attached"},
         \A y \in D : h \in ClearsDir(y) => f \in ClearsDir(y),
         \A y \in Linking : L[y] # None /\ h \in ClearsLink(y, L[y]) => f \in ClearsLink(y, L[y]),
         h.op \notin {"link", "except", "rmdir", "disable", "delete"}
  PROVE  Fits(<<f>>, h, c, D, L, E, n)
<1> DEFINE fs == <<f>>
<1>1. fs \in Seq(Frames) /\ Len(fs) = 1 /\ fs[1] = f
  BY SMT
<1> HIDE DEF fs
<1>2. \A k \in 1 .. Len(fs) : fs[k] = f
  BY <1>1, SMT
<1>3. \A C : f \in C => Has(fs, C)
  BY <1>1, SMT DEF Has
<1>4. InOrder(fs, L) /\ Detaches(fs)
  BY <1>1, <1>2, SMT DEF InOrder, Detaches
<1>5. Fits(fs, h, c, D, L, E, n)
  BY <1>1, <1>2, <1>3, <1>4, FitsFree
<1>6. QED
  BY <1>5 DEF fs

(* FitsFree for two frames. *)
LEMMA FitsTwo ==
  ASSUME NEW h, NEW c, NEW D, NEW L, NEW E, NEW n, NEW f \in Frames, NEW g \in Frames,
         Over(f, g), Leads(f, g, L),
         Follows(f, h, L), Ready(f, c, D, L, n), Free(f, c, D, L, E),
         Follows(g, h, L), Ready(g, c, D, L, n), Free(g, c, D, L, E),
         f.op \notin {"unlink", "link", "except"}, f.op = "attached" => g.op = "detach",
         g.op \notin {"unlink", "link", "except", "attached"},
         \A y \in D : h \in ClearsDir(y) => f \in ClearsDir(y) \/ g \in ClearsDir(y),
         \A y \in Linking : L[y] # None /\ h \in ClearsLink(y, L[y]) =>
           f \in ClearsLink(y, L[y]) \/ g \in ClearsLink(y, L[y]),
         h.op \notin {"link", "except", "rmdir", "disable", "delete"}
  PROVE  Fits(<<f, g>>, h, c, D, L, E, n)
<1> DEFINE fs == <<f, g>>
<1>1. fs \in Seq(Frames) /\ Len(fs) = 2 /\ fs[1] = f /\ fs[2] = g
  BY SMTT(30)
<1> HIDE DEF fs
<1>2. \A k \in 1 .. Len(fs) : fs[k] = f \/ fs[k] = g
  BY <1>1, SMTT(30)
<1>3. \A C : f \in C \/ g \in C => Has(fs, C)
  BY <1>1, SMTT(30) DEF Has
<1>4. InOrder(fs, L)
  BY <1>1, SMTT(30) DEF InOrder
<1>5. Detaches(fs)
  BY <1>1, SMT DEF Detaches
<1>6. \A k \in 1 .. Len(fs) :
        /\ Follows(fs[k], h, L) /\ Ready(fs[k], c, D, L, n) /\ Free(fs[k], c, D, L, E)
        /\ fs[k].op \notin {"unlink", "link", "except"}
  BY <1>2
<1>7. Fits(fs, h, c, D, L, E, n)
  BY <1>1, <1>3, <1>4, <1>5, <1>6, FitsFree
<1>8. QED
  BY <1>7 DEF fs

(* delete() of y takes the place of a frame that stands for it. *)
LEMMA DeletePush ==
  ASSUME TypeInv, TreeInv, NEW s \in Seq(Frames), s # <<>>, NEW y, s[1] = Do("delete", y),
         NEW c, NEW n, StackInv(s, c, dirs, link, enabled, n)
  PROVE  DeleteFrames(y) \o Tail(s) \in Seq(Frames)
         /\ StackInv(DeleteFrames(y) \o Tail(s), c, dirs, link, enabled, n)
<1> DEFINE fs == DeleteFrames(y)
           h == s[1]
<1>1. Free(h, c, dirs, link, enabled) /\ Ready(h, c, dirs, link, n) /\ h \in Frames
  BY HeadFree, SMTT(30)
<1>2. h.op = "delete" /\ h.node = y /\ h.rest = {}
  BY SMT DEF Do, Frame
<1>3. y \in dirs /\ dirs \in SUBSET Dirs /\ enabled \in SUBSET TPGs
  BY <1>1, <1>2 DEF Ready, TypeInv, TypeOK
<1>4. Safe(y, c)
  <2>1. ASSUME Wide(c), y \in LUNs, NEW z \in Below(TPGOf(y), NodeACLs) PROVE FALSE
    <3>1. z \in dirs /\ h \in BlockedByDir(c, z)
      BY <1>1, <1>2, <2>1 DEF Below, BlockedByDir
    <3>2. QED
      BY <1>1, <3>1 DEF Free
  <2>2. ASSUME c = <<>>, y \in SOs, NEW z \in dirs \cap TargetDirs PROVE FALSE
    <3>1. z \in dirs /\ h \in BlockedByDir(c, z)
      BY <1>1, <1>2, <2>2 DEF BlockedByDir
    <3>2. QED
      BY <1>1, <3>1 DEF Free
  <2>3. ASSUME Wide(c), NEW x \in enabled, Inside(y, x) PROVE FALSE
    <3>1. h \in BlockedByEnable(c, x)
      BY <1>1, <1>2, <2>3 DEF BlockedByEnable
    <3>2. QED
      BY <1>1, <3>1 DEF Free
  <2>4. QED
    BY <2>1, <2>2, <2>3 DEF Safe
<1>5. fs \in Seq(Frames) /\ Shaped(fs, y)
  BY <1>3, DeleteFramesTyped, DeleteShaped
<1> HIDE DEF fs, h
<1>6. Fits(fs, h, c, dirs, link, enabled, n)
  <2>1. InOrder(fs, link) /\ Unlinks(fs) /\ Detaches(fs)
    BY <1>5, ShapedOrder
  <2>2. ASSUME NEW k \in 1 .. Len(fs), NEW g \in Frames, Over(h, g), Leads(h, g, link)
        PROVE  Over(fs[k], g) /\ Leads(fs[k], g, link)
    <3>1. fs[k].node = y
      BY <1>5 DEF Shaped
    <3>2. QED
      BY <1>2, <2>2, <3>1 DEF Over, Leads
  <2>3. AllReady(fs, c, dirs, link, n) /\ DirsCleared(fs, c, dirs) /\ TPGsDisabled(fs, c, enabled)
    BY <1>3, <1>4, DeleteReady, DeleteDirsCleared, DeleteTPGsDisabled DEF fs
  <2>4. LinksCleared(fs, link)
    BY <1>3, DeleteLinksCleared DEF fs
  <2>5. fs # <<>> /\ fs[Len(fs)] = Do("rmdir", y) /\ Len(fs) \in 1 .. Len(fs) /\ fs[Len(fs)] \in Frames
    BY <1>5, SMT DEF Shaped
  <2>6. ASSUME NEW z \in dirs, h \in ClearsDir(z) PROVE Has(fs, ClearsDir(z))
    <3>1. z = y
      BY <1>2, <2>6 DEF ClearsDir, Lists
    <3>2. fs[Len(fs)] \in ClearsDir(z)
      BY <2>5, <3>1, SMT DEF ClearsDir, Do, Frame
    <3>3. QED
      BY <2>5, <3>2 DEF Has
  <2>7. ASSUME NEW z \in Linking, link[z] # None, h \in ClearsLink(z, link[z])
        PROVE  Has(fs, ClearsLink(z, link[z]))
    <3>1. z = y
      BY <1>2, <2>7 DEF ClearsLink
    <3>2. fs[Len(fs)] \in BlockedByLink(z, link[z])
      BY <2>5, <3>1, SMT DEF BlockedByLink, Do, Frame
    <3>3. Covers(fs, BlockedByLink(z, link[z]), ClearsLink(z, link[z]))
      BY <2>4, <2>7 DEF LinksCleared
    <3>4. PICK j \in 1 .. Len(fs) - 1 : fs[j] \in ClearsLink(z, link[z])
      BY <2>5, <3>2, <3>3 DEF Covers
    <3>5. j \in 1 .. Len(fs)
      BY <2>5, SMT
    <3>6. QED
      BY <3>4, <3>5 DEF Has
  <2>8. \A k \in 1 .. Len(fs) : fs[k].op \notin {"link", "except"}
    BY <1>5 DEF Shaped
  <2>9. QED
    BY <1>2, <2>1, <2>2, <2>3, <2>4, <2>5, <2>6, <2>7, <2>8 DEF Fits
<1>7. QED
  BY <1>5, <1>6, PushSeq, PushInv DEF fs, h

-----------------------------------------------------------------------------
(* Listings. *)

(* What the frames of a kind look like. *)
LEMMA FrameKinds ==
  ASSUME NEW f \in Frames
  PROVE  /\ f.op \in Ops /\ f.node \in Dirs \cup {<<>>} /\ f.rest \in SUBSET Dirs
         /\ f.op \in Lists => f.node \in TargetDirs \cup TPGs \cup NodeACLs
         /\ f.op \in {"targets", "sos"} => f.node = <<>>
         /\ f.op = "each" => f.rest # {} /\ \A y \in f.rest : Parent(y) = f.node
         /\ f.op = "unmap" => /\ f.node \in LUNs
                              /\ \A y \in f.rest : y \in NodeACLs \cup MappedLUNs /\ TPGOf(y) = TPGOf(f.node)
         /\ f.op = "detach" => f.node \in SOs /\ f.rest \subseteq TargetDirs \cup TPGs \cup LUNs
         /\ f.op = "link" => \E y \in LUNs \cup SOs : f.rest = {y} /\ Suits(f.node, y)
         /\ f.op \notin {"link", "each", "unmap", "detach"} => f.rest = {}
         /\ f.op = "attached" => f.node \in LUNs
         /\ f.op = "disable" => f.node \in TPGs
         /\ f.op = "unlink" => f.node \in Linking
BY DEF Frames, Framed, Lists

(* Two frames, one after the other. *)
LEMMA Pair ==
  ASSUME NEW f \in Frames, NEW g \in Frames
  PROVE  <<f>> \o <<g>> = <<f, g>> /\ <<f, g>> \in Seq(Frames)
<1>1. <<f>> \in Seq(Frames) /\ <<g>> \in Seq(Frames) /\ <<f, g>> \in Seq(Frames)
  BY SMT
<1>2. Len(<<f>> \o <<g>>) = 2 /\ (<<f>> \o <<g>>)[1] = f /\ (<<f>> \o <<g>>)[2] = g
  BY <1>1, SMT
<1>3. <<f>> \o <<g>> \in Seq(Frames)
  BY <1>1, SMT
<1>4. Len(<<f, g>>) = 2 /\ <<f, g>>[1] = f /\ <<f, g>>[2] = g
  OBVIOUS
<1>5. \A i \in 1 .. Len(<<f>> \o <<g>>) : (<<f>> \o <<g>>)[i] = <<f, g>>[i]
  BY <1>2, <1>4, SMT
<1>6. QED
  BY <1>1, <1>2, <1>3, <1>4, <1>5, SequencesEqual

(* A frame for something inside the node of h may stand where h does, when *)
(* nothing below it on the stack will visit it.                            *)
LEMMA ChildOver ==
  ASSUME NEW h, NEW g, NEW f, Over(h, g), Inside(f.node, h.node), f.node \notin g.rest
  PROVE  Over(f, g)
BY InsideTransitive, SMT DEF Over

-----------------------------------------------------------------------------
(* LUN._list_mapped_luns. *)

(* A frame with less or more left to visit. *)
LEMMA Same ==
  ASSUME NEW f \in Frames, NEW h \in Frames, f.op = h.op, f.node = h.node, h.op # "each",
         NEW c, NEW D, NEW L, NEW E, Free(h, c, D, L, E)
  PROVE  Follows(f, h, L) /\ Free(f, c, D, L, E)
<1>1. Follows(f, h, L)
  BY DEF Follows, Over, Leads
<1>2. \A y : f \in BlockedByDir(c, y) => h \in BlockedByDir(c, y)
  BY DEF BlockedByDir
<1>3. \A y, t : f \in BlockedByLink(y, t) => h \in BlockedByLink(y, t)
  BY DEF BlockedByLink
<1>4. \A x : f \in BlockedByEnable(c, x) => h \in BlockedByEnable(c, x)
  BY DEF BlockedByEnable
<1>5. QED
  BY <1>1, <1>2, <1>3, <1>4 DEF Free

(* What is below the top of the stack does not visit LUN or mapped LUN y,  *)
(* which the frame on top has found.                                       *)
LEMMA FoundOver ==
  ASSUME NEW h \in Frames, NEW y, NEW k \in Frames, Over(h, k), Leads(h, k, link),
         \/ h.op = "unmap" /\ y \in MappedLUNs /\ link[y] = h.node /\ TPGOf(y) = TPGOf(h.node)
         \/ h.op = "detach" /\ y \in LUNs /\ link[y] = h.node,
         NEW f, f.node = y
  PROVE  Over(f, k) /\ Leads(f, k, link)
<1>1. /\ h.op = "unmap" => h.node \in LUNs
      /\ h.op = "detach" => h.node \in SOs
  BY FrameKinds
<1>2. Inside(y, h.node)
  BY <1>1 DEF Inside, Linking
<1>3. \/ h.node = k.node /\ k.op \notin {"each", "unmap", "detach", "link"}
      \/ Inside(h.node, k.node)
  BY DEF Over
<1>4. /\ h.op = "unmap" /\ Inside(h.node, k.node) => k.node \in {<<>>} \cup TargetDirs \cup TPGs \cup SOs
      /\ h.op = "detach" /\ Inside(h.node, k.node) => k.node = <<>>
  BY <1>1, Disjoint DEF Inside, Linking, Dirs
<1>5. y \notin k.rest
  <2>1. SUFFICES ASSUME y \in k.rest PROVE FALSE
    OBVIOUS
  <2>2. k.op \in {"link", "each", "unmap", "detach"}
    BY <2>1, FrameKinds
  <2>3. Inside(h.node, k.node)
    BY <1>3, <2>2
  <2>4. CASE h.op = "unmap"
    <3>1. k.node \notin LUNs /\ k.node \notin MappedLUNs /\ k.node \notin NodeACLs
      BY <1>4, <2>3, <2>4, Disjoint DEF Dirs
    <3>2. y \in MappedLUNs /\ y \notin TargetDirs \cup TPGs \cup LUNs /\ Parent(y) \in NodeACLs
      BY <2>4, Disjoint, Parents
    <3>3. k.op # "link"
      BY <3>1, FrameKinds DEF Suits
    <3>4. k.op \notin {"unmap", "detach", "each"}
      BY <2>1, <3>1, <3>2, FrameKinds
    <3>5. QED
      BY <2>2, <3>3, <3>4
  <2>5. CASE h.op = "detach"
    <3>1. k.node = <<>>
      BY <1>4, <2>3, <2>5
    <3>2. k.op = "each"
      <4>1. k.node \notin LUNs /\ k.node \notin MappedLUNs /\ k.node \notin SOs
        BY <3>1, Disjoint DEF Dirs
      <4>2. k.op # "link"
        BY <4>1, FrameKinds DEF Suits
      <4>3. QED
        BY <2>2, <4>1, <4>2, FrameKinds
    <3>3. Parent(y) = <<>> /\ Parent(y) = TPGOf(y) /\ TPGOf(y) \in TPGs
      BY <2>1, <2>5, <3>1, <3>2, FrameKinds, Parents, Paths
    <3>4. QED
      BY <3>3, Disjoint DEF Dirs
  <2>6. QED
    BY <2>4, <2>5
<1>6. Over(f, k)
  BY <1>2, <1>5, ChildOver
<1>7. Leads(f, k, link)
  <2>1. CASE h.op = "unmap"
    <3>1. k.node \in LUNs => k.node = h.node
      BY <1>3, <1>4, <2>1, Disjoint DEF Dirs
    <3>2. k.node \in SOs => link[h.node] = k.node
      BY <1>1, <2>1 DEF Leads
    <3>3. y \notin LUNs
      BY <2>1, Disjoint
    <3>4. QED
      BY <1>1, <2>1, <3>1, <3>2, <3>3 DEF Leads
  <2>2. CASE h.op = "detach"
    <3>1. k.node \in SOs => k.node = h.node
      BY <1>3, <1>4, <2>2, Disjoint DEF Dirs
    <3>2. y \notin MappedLUNs
      BY <2>2, Disjoint
    <3>3. QED
      BY <2>2, <3>1, <3>2 DEF Leads
  <2>3. QED
    BY <2>1, <2>2
<1>8. QED
  BY <1>6, <1>7

(* The scan for mapped LUNs goes on. *)
LEMMA MoreFrame ==
  ASSUME TypeInv, NEW h \in Frames, h.op = "unmap", NEW c, NEW n,
         Free(h, c, dirs, link, enabled), ~Wide(c), NEW S \in SUBSET dirs,
         \A y \in S : y \in NodeACLs \cup MappedLUNs /\ TPGOf(y) = TPGOf(h.node),
         n = 0 => \A y \in S \cap MappedLUNs : link[y] # None
  PROVE  LET g == Frame("unmap", h.node, S) IN
         /\ g \in Frames /\ Follows(g, h, link)
         /\ Ready(g, c, dirs, link, n) /\ Free(g, c, dirs, link, enabled)
<1> DEFINE g == Frame("unmap", h.node, S)
<1>1. S \in SUBSET Dirs /\ h.node \in LUNs
  BY FrameKinds DEF TypeInv, TypeOK
<1>2. g \in Frames
  BY <1>1, FrameTyped
<1>3. g.op = "unmap" /\ g.node = h.node /\ g.rest = S
  BY DEF Frame
<1> HIDE DEF g
<1>4. Ready(g, c, dirs, link, n)
  BY <1>3 DEF Ready, Lists
<1>5. Follows(g, h, link) /\ Free(g, c, dirs, link, enabled)
  BY <1>2, <1>3, Same
<1>6. QED
  BY <1>2, <1>4, <1>5 DEF g

(* What the scan for mapped LUNs has to reach. *)
Reaches(S, z) == z \in S \/ Parent(z) \in S

(* What the scan of LUN._list_mapped_luns takes away. *)
LEMMA UnmapReaches ==
  ASSUME NEW h, h.op = "unmap"
  PROVE  /\ \A z : h \notin ClearsDir(z)
         /\ \A z, t : h \in ClearsLink(z, t) => h.node = t /\ Reaches(h.rest, z)
BY DEF ClearsDir, ClearsLink, Lists, Reaches

(* S is what may be left of the scan for the mapped LUNs of x, ... *)
Scans(S, x, n) ==
  /\ S \subseteq dirs
  /\ \A y \in S : y \in NodeACLs \cup MappedLUNs /\ TPGOf(y) = TPGOf(x)
  /\ n = 0 => \A y \in S \cap MappedLUNs : link[y] # None

(* ... and reaches all that h does but y. *)
AllBut(S, h, y) == \A z \in Linking : link[z] = h.node /\ Reaches(h.rest, z) => z = y \/ Reaches(S, z)

-----------------------------------------------------------------------------
(* StorageObject._gen_attached_luns. *)

(* delete() works on its node and on what it has to delete before. *)
LEMMA HeadInCall ==
  ASSUME NEW s \in Seq(Frames), s # <<>>, NEW c \in Dirs,
         NEW D, NEW L, NEW E, NEW n, StackInv(s, c, D, L, E, n)
  PROVE  /\ s[Len(s)] = Do("rmdir", c)
         /\ \/ Len(s) = 1 /\ s[1] = Do("rmdir", c)
            \/ Over(s[1], Do("rmdir", c)) /\ Leads(s[1], Do("rmdir", c), L)
<1>1. s[Len(s)] = Do("rmdir", c)
  BY DEF StackInv, Placed
<1>2. Len(s) \in Nat /\ Len(s) # 0
  BY SMT
<1>3. CASE Len(s) = 1
  BY <1>1, <1>3
<1>4. CASE Len(s) # 1
  <2>1. 1 \in 1 .. Len(s) /\ Len(s) \in 1 .. Len(s) /\ 1 < Len(s)
    BY <1>2, <1>4, SMT
  <2>2. QED
    BY <1>1, <2>1 DEF StackInv, InOrder
<1>5. QED
  BY <1>1, <1>3, <1>4

(* What the scan for LUNs has to reach. *)
Sees(S, z) == z \in S \/ TPGOf(z) \in S \/ TargetOf(z) \in S

(* What the scan of StorageObject._gen_attached_luns takes away. *)
LEMMA DetachSees ==
  ASSUME NEW h, h.op = "detach"
  PROVE  /\ \A z : h \notin ClearsDir(z)
         /\ \A z, t : h \in ClearsLink(z, t) => h.node = t /\ Sees(h.rest, z)
BY DEF ClearsDir, ClearsLink, Lists, Sees

(* The scan of StorageObject._gen_attached_luns, on another worklist, is   *)
(* as good.                                                                *)
LEMMA DetachFrame ==
  ASSUME TypeInv, NEW h \in Frames, h.op = "detach", NEW c, NEW n,
         Free(h, c, dirs, link, enabled), ~Wide(c),
         NEW S \in SUBSET dirs, S \subseteq TargetDirs \cup TPGs \cup LUNs
  PROVE  LET g == Frame("detach", h.node, S) IN
         /\ g \in Frames /\ Follows(g, h, link)
         /\ Ready(g, c, dirs, link, n) /\ Free(g, c, dirs, link, enabled)
<1> DEFINE g == Frame("detach", h.node, S)
<1>1. h.node \in SOs /\ c # <<>>
  BY FrameKinds DEF Wide
<1>2. g \in Frames
  BY <1>1, FrameTyped
<1>3. g.op = "detach" /\ g.node = h.node /\ g.rest = S
  BY DEF Frame
<1> HIDE DEF g
<1>4. Ready(g, c, dirs, link, n)
  BY <1>1, <1>3 DEF Ready, Lists
<1>5. Follows(g, h, link) /\ Free(g, c, dirs, link, enabled)
  BY <1>2, <1>3, Same
<1>6. QED
  BY <1>2, <1>4, <1>5 DEF g

-----------------------------------------------------------------------------
(* Steps: listings and delete(). *)

(* The stack of p goes on as it should. *)
Kept(p) == StackInv(stack[p], call[p], dirs, link, enabled, crashes)

Goes(p, D, L, E) ==
  \E t \in Seq(Frames) : Become(p, t) /\ StackInv(t, call[p], D, L, E, crashes)

(* A step that replaces the frame on top by frames that fit keeps the      *)
(* stack good.                                                             *)
LEMMA ThenFits ==
  ASSUME TypeInv, NEW p \in Procs, ~Idle(p), Kept(p), NEW fs \in Seq(Frames),
         Fits(fs, stack[p][1], call[p], dirs, link, enabled, crashes), Then(p, fs)
  PROVE  Goes(p, dirs, link, enabled)
<1>1. stack[p] \in Seq(Frames) /\ stack[p] # <<>>
  BY DEF TypeInv, Idle
<1>2. fs \o Tail(stack[p]) \in Seq(Frames)
  BY <1>1, PushSeq
<1>3. StackInv(fs \o Tail(stack[p]), call[p], dirs, link, enabled, crashes)
  BY <1>1, PushInv DEF Kept
<1>4. QED
  BY <1>2, <1>3 DEF Goes, Then

(* So does a step that pushes the frames of a delete(). *)
LEMMA ThenDelete ==
  ASSUME TypeInv, TreeInv, NEW p \in Procs, ~Idle(p), Kept(p), NEW y \in Dirs, NEW gs \in Seq(Frames),
         <<Do("delete", y)>> \o gs \in Seq(Frames),
         Fits(<<Do("delete", y)>> \o gs, stack[p][1], call[p], dirs, link, enabled, crashes),
         Then(p, DeleteFrames(y) \o gs)
  PROVE  Goes(p, dirs, link, enabled)
<1> DEFINE s == stack[p]
           f == Do("delete", y)
           t == (<<f>> \o gs) \o Tail(s)
           u == DeleteFrames(y)
<1>1. s \in Seq(Frames) /\ s # <<>> /\ Tail(s) \in Seq(Frames)
  BY SMT DEF TypeInv, Idle
<1>2. t \in Seq(Frames)
  BY <1>1, PushSeq
<1>3. StackInv(t, call[p], dirs, link, enabled, crashes)
  BY <1>1, PushInv DEF Kept
<1>4. f \in Frames /\ u \in Seq(Frames)
  BY DoTyped, DeleteFramesTyped DEF TypeInv, TypeOK
<1>5. t # <<>> /\ t[1] = f /\ Tail(t) = gs \o Tail(s)
  <2> HIDE DEF f, s
  <2>1. t = <<f>> \o (gs \o Tail(s))
    <3>1. <<f>> \in Seq(Frames)
      BY <1>4, OneSeq
    <3>2. QED
      BY <1>1, <3>1, FramesAssociative
  <2>2. gs \o Tail(s) \in Seq(Frames)
    BY <1>1, JoinTyped
  <2>3. QED
    BY <1>4, <2>1, <2>2, PushOne
<1>6. /\ u \o Tail(t) \in Seq(Frames)
      /\ StackInv(u \o Tail(t), call[p], dirs, link, enabled, crashes)
  <2> HIDE DEF t
  <2>1. QED
    BY <1>2, <1>3, <1>5, DeletePush
<1>7. u \o Tail(t) = (u \o gs) \o Tail(s)
  <2> HIDE DEF t, s, u
  <2>1. u \in Seq(Frames) /\ gs \in Seq(Frames) /\ Tail(s) \in Seq(Frames)
    BY <1>1, <1>4
  <2>2. (u \o gs) \o Tail(s) = u \o (gs \o Tail(s))
    BY <2>1, FramesAssociative
  <2>3. QED
    BY <1>5, <2>2
<1>8. Become(p, (u \o gs) \o Tail(s))
  BY DEF Then
<1>9. QED
  BY <1>6, <1>7, <1>8 DEF Goes

(* When a call may be over. *)
LEMMA EmptyInv ==
  ASSUME NEW c, NEW D \in SUBSET Dirs, NEW L, NEW E, NEW n,
         \A y \in D : ~Meant(c, y),
         n = 0 => \A x \in D \cap Linking : L[x] # None
  PROVE  StackInv(<<>>, c, D, L, E, n)
<1>1. 1 .. Len(<<>>) = {}
  BY SMT
<1>2. InOrder(<<>>, L) /\ AllReady(<<>>, c, D, L, n)
  BY <1>1 DEF InOrder, AllReady
<1>3. \A B, C : Covers(<<>>, B, C)
  BY <1>1 DEF Covers
<1>4. DirsCleared(<<>>, c, D) /\ LinksCleared(<<>>, L) /\ TPGsDisabled(<<>>, c, E)
  BY <1>3 DEF DirsCleared, LinksCleared, TPGsDisabled
<1>5. Sweeps(<<>>, c, D) /\ BreaksMended(<<>>, D, L, n)
  BY DEF Sweeps, BreaksMended
<1>6. Placed(<<>>, c)
  BY <1>1 DEF Placed, Unlinks, Detaches
<1>7. QED
  BY <1>2, <1>4, <1>5, <1>6 DEF StackInv

(* With the empty stack nothing that the call was meant to delete is left. *)
LEMMA EmptyMeans ==
  ASSUME NEW c, NEW D, NEW L, NEW E, NEW n, StackInv(<<>>, c, D, L, E, n)
  PROVE  /\ \A y \in D : ~Meant(c, y)
         /\ n = 0 => \A x \in D \cap Linking : L[x] # None
BY SMT DEF StackInv, Sweeps, BreaksMended, Has

(* The listings keep the stack good. *)
LEMMA ListGoes ==
  ASSUME TypeInv, NEW p \in Procs, Kept(p), List(p) \/ ListAll(p)
  PROVE  Goes(p, dirs, link, enabled) /\ UNCHANGED Configfs
(* A process lists what h stands for. *)
<1>ListFits. ASSUME NEW h \in Frames, NEW c, NEW n, NEW S \in SUBSET dirs,
                    Free(h, c, dirs, link, enabled),
                    \/ h.op \in Lists /\ S = Below(h.node, Listed(h.op))
                    \/ h.op = "targets" /\ S = dirs \cap TargetDirs
                    \/ h.op = "sos" /\ S = dirs \cap SOs
             PROVE  Each(h.node, S) \in Seq(Frames) /\ Fits(Each(h.node, S), h, c, dirs, link, enabled, n)
  <2> USE <1>ListFits
  <2>1. dirs \in SUBSET Dirs
    BY DEF TypeInv, TypeOK
  <2>2. \A y \in S : Parent(y) = h.node
    BY FrameKinds, Parents DEF Below
  <2>3. h.node \in Dirs \cup {<<>>}
    BY FrameKinds
  <2>4. Each(h.node, S) \in Seq(Frames)
    BY <2>1, <2>2, <2>3, EachTyped
  <2>5. h.op \notin {"link", "except", "rmdir", "disable", "delete", "unlink", "attached", "unmap",
                     "detach", "each"}
    BY DEF Lists
  <2>6. \A y \in dirs : h \in ClearsDir(y) => y \in S
    BY <2>5, ListedKinds DEF ClearsDir, Below
  <2>7. \A y \in Linking : h \notin ClearsLink(y, link[y])
    BY <2>5 DEF ClearsLink
  <2>8. CASE S = {}
    <3>1. \A y \in dirs : h \notin ClearsDir(y)
      BY <2>6, <2>8
    <3>2. QED
      BY <2>4, <2>5, <2>7, <2>8, <3>1, FitsNone DEF Each
  <2>9. CASE S # {}
    <3> DEFINE f == Frame("each", h.node, S)
    <3>1. f \in Frames
      BY <2>1, <2>2, <2>3, <2>9, FrameTyped
    <3>2. f.op = "each" /\ f.node = h.node /\ f.rest = S
      BY DEF Frame
    <3>3. Each(h.node, S) = <<f>>
      BY <2>9 DEF Each
    <3> HIDE DEF f
    <3>4. Follows(f, h, link)
      BY <2>5, <3>2 DEF Follows, Over, Leads
    <3>5. Ready(f, c, dirs, link, n)
      BY <3>2 DEF Ready, Lists
    <3>6. Free(f, c, dirs, link, enabled)
      <4>1. f.rest \cap LUNs # {} => h.op = "luns"
        BY <3>2, ListedKinds, Disjoint DEF Below
      <4>2. f.rest \cap SOs # {} => h.op = "sos"
        BY <3>2, ListedKinds, Disjoint DEF Below
      <4>3. ASSUME NEW y \in dirs, f \in BlockedByDir(c, y) PROVE FALSE
        <5>1. h \in BlockedByDir(c, y)
          BY <3>2, <4>1, <4>2, <4>3 DEF BlockedByDir
        <5>2. QED
          BY <5>1 DEF Free
      <4>4. ASSUME NEW x \in enabled, f \in BlockedByEnable(c, x) PROVE FALSE
        <5>1. h \in BlockedByEnable(c, x)
          BY <2>5, <3>2, <4>4 DEF BlockedByEnable
        <5>2. QED
          BY <5>1 DEF Free
      <4>5. \A y : f \notin BlockedByLink(y, link[y])
        BY <3>2 DEF BlockedByLink
      <4>6. QED
        BY <4>3, <4>4, <4>5 DEF Free
    <3>7. \A y \in dirs : h \in ClearsDir(y) => f \in ClearsDir(y)
      BY <2>6, <3>1, <3>2 DEF ClearsDir
    <3>8. f.op \notin {"unlink", "link", "except", "attached"}
      BY <3>2
    <3>9. Fits(<<f>>, h, c, dirs, link, enabled, n)
      BY <2>5, <2>7, <3>1, <3>4, <3>5, <3>6, <3>7, <3>8, FitsOne
    <3>10. QED
      BY <3>1, <3>3, <3>9, OneSeq
  <2>10. QED
    BY <2>8, <2>9
<1> DEFINE h == stack[p][1]
<1>1. ~Idle(p) /\ UNCHANGED Configfs
  BY DEF List, ListAll, At
<1>2. stack[p] \in Seq(Frames) /\ stack[p] # <<>> /\ Head(stack[p]) = h /\ h \in Frames
  BY <1>1, HeadTyped DEF TypeInv, Idle
<1>3. Free(h, call[p], dirs, link, enabled) /\ Ready(h, call[p], dirs, link, crashes)
  BY <1>2, HeadFree DEF Kept
<1>4. Node(p) = h.node /\ (h.op \in {"targets", "sos"} => h.node = <<>>)
  BY <1>2, FrameKinds DEF Node
<1> HIDE DEF h
<1>5. h.op \in Lists => h.node \in dirs
  BY <1>3 DEF Ready
<1>6. \/ h.op \in Lists /\ Then(p, Each(h.node, Below(h.node, Listed(h.op))))
      \/ h.op = "targets" /\ Then(p, Each(h.node, dirs \cap TargetDirs))
      \/ h.op = "sos" /\ Then(p, Each(h.node, dirs \cap SOs))
  BY <1>2, <1>4, <1>5 DEF List, ListAll, At
<1>7. CASE h.op \in Lists /\ Then(p, Each(h.node, Below(h.node, Listed(h.op))))
  <2>1. Below(h.node, Listed(h.op)) \in SUBSET dirs
    BY DEF Below
  <2>2. /\ Each(h.node, Below(h.node, Listed(h.op))) \in Seq(Frames)
        /\ Fits(Each(h.node, Below(h.node, Listed(h.op))), h, call[p], dirs, link, enabled, crashes)
    BY <1>2, <1>3, <1>7, <2>1, <1>ListFits
  <2>3. QED
    BY <1>1, <1>7, <2>2, ThenFits DEF h
<1>8. CASE h.op = "targets" /\ Then(p, Each(h.node, dirs \cap TargetDirs))
  <2>1. /\ Each(h.node, dirs \cap TargetDirs) \in Seq(Frames)
        /\ Fits(Each(h.node, dirs \cap TargetDirs), h, call[p], dirs, link, enabled, crashes)
    BY <1>2, <1>3, <1>8, <1>ListFits
  <2>2. QED
    BY <1>1, <1>8, <2>1, ThenFits DEF h
<1>9. CASE h.op = "sos" /\ Then(p, Each(h.node, dirs \cap SOs))
  <2>1. /\ Each(h.node, dirs \cap SOs) \in Seq(Frames)
        /\ Fits(Each(h.node, dirs \cap SOs), h, call[p], dirs, link, enabled, crashes)
    BY <1>2, <1>3, <1>9, <1>ListFits
  <2>2. QED
    BY <1>1, <1>9, <2>1, ThenFits DEF h
<1>10. QED
  BY <1>1, <1>6, <1>7, <1>8, <1>9

(* Deleting the next one of a listing keeps the stack good. *)
LEMMA NextGoes ==
  ASSUME TypeInv, TreeInv, NEW p \in Procs, Kept(p), DeleteNext(p)
  PROVE  Goes(p, dirs, link, enabled) /\ UNCHANGED Configfs
(* The next one that a listing has found. *)
<1>NextFits. ASSUME NEW h \in Frames, h.op = "each", NEW c, NEW n,
                    Free(h, c, dirs, link, enabled), Ready(h, c, dirs, link, n), NEW y \in h.rest
             PROVE  LET fs == <<Do("delete", y)>> \o Each(h.node, h.rest \ {y}) IN
                    fs \in Seq(Frames) /\ Fits(fs, h, c, dirs, link, enabled, n)
  <2> USE <1>NextFits
  (* The nodes that have something below them. *)
  <2>ParentKinds. ASSUME NEW x \in Dirs
                  PROVE  /\ Parent(x) \in TargetDirs \cup TPGs \cup NodeACLs \cup {<<>>}
                         /\ Parent(x) \notin Linking \cup SOs
    <3> USE <2>ParentKinds
    <3>1. Parent(x) \in TargetDirs \cup TPGs \cup NodeACLs \cup {<<>>}
      BY Parents, Paths, SMT DEF Dirs
    <3>2. QED
      BY <3>1, Disjoint DEF Dirs, Linking
  (* Only LUNs and mapped LUNs are inside a LUN or a storage object. *)
  <2>InsideLinks. ASSUME NEW a, NEW b, Inside(a, b), a \notin Linking
                  PROVE  b \notin Linking \cup SOs
    <3> USE <2>InsideLinks
    <3>1. b \in {<<>>} \cup TargetDirs \cup TPGs \cup NodeACLs
      BY DEF Inside, Linking
    <3>2. QED
      BY <3>1, Disjoint DEF Dirs, Linking
  (* A directory is inside its parent. *)
  <2>ParentInside. ASSUME NEW x \in Dirs
                   PROVE  Inside(x, Parent(x))
    BY <2>ParentInside, Disjoint, Paths, Parents, SMTT(30) DEF Inside, Dirs, Linking
  <2> DEFINE f == Do("delete", y)
             g == Frame("each", h.node, h.rest \ {y})
             rest == h.rest \ {y}
  <2>1. /\ dirs \in SUBSET Dirs /\ enabled \in SUBSET TPGs /\ h.rest \in SUBSET dirs
        /\ y \in Dirs /\ y \in dirs
    BY DEF TypeInv, TypeOK, Ready
  <2>2. h.node = Parent(y) /\ (\A z \in h.rest : Parent(z) = h.node) /\ h.node \in Dirs \cup {<<>>}
    BY FrameKinds
  <2>3. h.node \in TargetDirs \cup TPGs \cup NodeACLs \cup {<<>>} /\ h.node \notin Linking \cup SOs
    BY <2>1, <2>2, <2>ParentKinds
  <2>4. Inside(y, h.node)
    BY <2>1, <2>2, <2>ParentInside
  <2>5. f \in Frames /\ f.op = "delete" /\ f.node = y /\ f.rest = {}
    BY <2>1, DoTyped DEF Do, Frame
  <2>6. rest # {} => g \in Frames
    BY <2>1, <2>2, FrameTyped
  <2>7. g.op = "each" /\ g.node = h.node /\ g.rest = rest
    BY DEF Frame
  <2> HIDE DEF f, g
  <2>8. Follows(f, h, link)
    <3>1. SUFFICES ASSUME NEW k \in Frames, Over(h, k), Leads(h, k, link)
                   PROVE  Over(f, k) /\ Leads(f, k, link)
      BY DEF Follows
    <3>2. h.node = k.node => k.op # "each"
      BY <3>1, InsideTypes DEF Over
    <3>3. k.node \notin Linking \cup SOs
      <4>1. h.node = k.node \/ Inside(h.node, k.node)
        BY <3>1 DEF Over
      <4>2. CASE Inside(h.node, k.node)
        BY <2>3, <4>2, <2>InsideLinks
      <4>3. QED
        BY <2>3, <4>1, <4>2
    <3>4. y \notin k.rest
      <4>1. SUFFICES ASSUME y \in k.rest
                     PROVE  FALSE
        OBVIOUS
      <4>2. k.op = "each"
        BY <3>3, <4>1, FrameKinds DEF Linking, Suits
      <4>3. k.node = h.node
        BY <2>2, <4>1, <4>2, FrameKinds
      <4>4. QED
        BY <3>2, <4>2, <4>3
    <3>5. Over(f, k)
      BY <2>4, <2>5, <3>1, <3>4, ChildOver
    <3>6. Leads(f, k, link)
      BY <2>5, <3>3 DEF Leads, Linking
    <3>7. QED
      BY <3>5, <3>6
  <2>9. Ready(f, c, dirs, link, n)
    BY <2>1, <2>5 DEF Ready, Lists
  <2>10. Free(f, c, dirs, link, enabled)
    <3>1. ASSUME NEW z \in dirs, f \in BlockedByDir(c, z) PROVE FALSE
      <4>1. y \in LUNs => Parent(y) = TPGOf(y)
        BY Parents
      <4>2. h \in BlockedByDir(c, z)
        BY <2>2, <2>5, <3>1, <4>1 DEF BlockedByDir
      <4>3. QED
        BY <4>2 DEF Free
    <3>2. ASSUME NEW x \in enabled, f \in BlockedByEnable(c, x) PROVE FALSE
      <4>1. Wide(c) /\ Inside(y, x) /\ x \in TPGs
        BY <2>1, <2>5, <3>2 DEF BlockedByEnable
      <4>2. h.node = x \/ Inside(h.node, x)
        BY <2>2, <4>1, InTPGParent
      <4>3. h \in BlockedByEnable(c, x)
        BY <4>1, <4>2 DEF BlockedByEnable
      <4>4. QED
        BY <4>3 DEF Free
    <3>3. \A z : f \notin BlockedByLink(z, link[z])
      BY <2>5 DEF BlockedByLink
    <3>4. QED
      BY <3>1, <3>2, <3>3 DEF Free
  <2>11. \A z \in Linking : h \notin ClearsLink(z, link[z])
    BY DEF ClearsLink
  <2>12. \A z \in dirs : h \in ClearsDir(z) => z \in h.rest
    BY DEF ClearsDir, Lists
  <2>13. f \in ClearsDir(y)
    BY <2>5 DEF ClearsDir
  <2>14. CASE rest = {}
    <3>1. \A z \in dirs : h \in ClearsDir(z) => f \in ClearsDir(z)
      BY <2>12, <2>13, <2>14
    <3>2. Fits(<<f>>, h, c, dirs, link, enabled, n)
      BY <2>5, <2>8, <2>9, <2>10, <2>11, <3>1, FitsOne
    <3>3. <<f>> \o Each(h.node, rest) = <<f>> /\ <<f>> \in Seq(Frames)
      BY <2>5, <2>14, SMT DEF Each
    <3>4. QED
      BY <3>2, <3>3 DEF f
  <2>15. CASE rest # {}
    <3>1. g \in Frames
      BY <2>6, <2>15
    <3>2. Over(f, g) /\ Leads(f, g, link)
      BY <2>3, <2>4, <2>5, <2>7 DEF Over, Leads, Linking
    <3>3. Follows(g, h, link)
      BY <2>7 DEF Follows, Over, Leads
    <3>4. Ready(g, c, dirs, link, n)
      BY <2>1, <2>7 DEF Ready, Lists
    <3>5. Free(g, c, dirs, link, enabled)
      <4>1. ASSUME NEW z \in dirs, g \in BlockedByDir(c, z) PROVE FALSE
        <5>1. h \in BlockedByDir(c, z)
          BY <2>7, <4>1 DEF BlockedByDir
        <5>2. QED
          BY <5>1 DEF Free
      <4>2. ASSUME NEW x \in enabled, g \in BlockedByEnable(c, x) PROVE FALSE
        <5>1. h \in BlockedByEnable(c, x)
          BY <2>7, <4>2 DEF BlockedByEnable
        <5>2. QED
          BY <5>1 DEF Free
      <4>3. \A z : g \notin BlockedByLink(z, link[z])
        BY <2>7 DEF BlockedByLink
      <4>4. QED
        BY <4>1, <4>2, <4>3 DEF Free
    <3>6. \A z \in dirs : h \in ClearsDir(z) => f \in ClearsDir(z) \/ g \in ClearsDir(z)
      BY <2>7, <2>12, <2>13, <3>1 DEF ClearsDir
    <3>7. Fits(<<f, g>>, h, c, dirs, link, enabled, n)
      BY <2>5, <2>7, <2>8, <2>9, <2>10, <2>11, <3>1, <3>2, <3>3, <3>4, <3>5, <3>6, FitsTwo
    <3>8. <<f>> \o Each(h.node, rest) = <<f, g>> /\ <<f, g>> \in Seq(Frames)
      <4>1. Each(h.node, rest) = <<g>>
        BY <2>15 DEF Each, g
      <4>2. <<f>> \o <<g>> = <<f, g>> /\ <<f, g>> \in Seq(Frames)
        BY <2>5, <3>1, Pair
      <4>3. QED
        BY <4>1, <4>2
    <3>9. QED
      BY <3>7, <3>8 DEF f
  <2>16. QED
    BY <2>14, <2>15
<1> DEFINE h == stack[p][1]
<1>1. ~Idle(p) /\ UNCHANGED Configfs
  BY DEF DeleteNext, At
<1>2. stack[p] \in Seq(Frames) /\ stack[p] # <<>> /\ Head(stack[p]) = h /\ h \in Frames
  BY <1>1, HeadTyped DEF TypeInv, Idle
<1>3. Free(h, call[p], dirs, link, enabled) /\ Ready(h, call[p], dirs, link, crashes)
  BY <1>2, HeadFree DEF Kept
<1>4. Node(p) = h.node /\ h.op = "each" /\ h.rest \in SUBSET dirs /\ dirs \in SUBSET Dirs
  BY <1>2, <1>3 DEF Node, DeleteNext, At, Ready, TypeInv, TypeOK
<1> HIDE DEF h
<1>5. PICK y \in h.rest : Then(p, DeleteFrames(y) \o Each(h.node, h.rest \ {y}))
  BY <1>2, <1>4 DEF DeleteNext
<1>6. /\ <<Do("delete", y)>> \o Each(h.node, h.rest \ {y}) \in Seq(Frames)
      /\ Fits(<<Do("delete", y)>> \o Each(h.node, h.rest \ {y}), h, call[p], dirs, link, enabled, crashes)
  BY <1>2, <1>3, <1>4, <1>NextFits
<1>7. Each(h.node, h.rest \ {y}) \in Seq(Frames)
  BY <1>2, <1>4, FrameKinds, EachTyped
<1>8. QED
  BY <1>1, <1>4, <1>5, <1>6, <1>7, ThenDelete DEF h

(* self.delete() in a constructor keeps the stack good. *)
LEMMA DeleteGoes ==
  ASSUME TypeInv, TreeInv, NEW p \in Procs, Kept(p), Delete(p)
  PROVE  Goes(p, dirs, link, enabled) /\ UNCHANGED Configfs
<1> DEFINE h == stack[p][1]
<1>1. ~Idle(p) /\ UNCHANGED Configfs
  BY DEF Delete, At
<1>2. stack[p] \in Seq(Frames) /\ stack[p] # <<>> /\ Head(stack[p]) = h /\ h \in Frames
  BY <1>1, HeadTyped DEF TypeInv, Idle
<1>3. h.op = "delete" /\ h.node \in dirs /\ Node(p) = h.node
  BY <1>2, HeadFree DEF Kept, Ready, Delete, At, Node
<1>4. h = Do("delete", h.node)
  BY <1>2, <1>3 DEF Frames, Framed, Do, Frame
<1>5. Become(p, DeleteFrames(h.node) \o Tail(stack[p]))
  BY <1>3 DEF Delete, Then
<1>6. /\ DeleteFrames(h.node) \o Tail(stack[p]) \in Seq(Frames)
      /\ StackInv(DeleteFrames(h.node) \o Tail(stack[p]), call[p], dirs, link, enabled, crashes)
  BY <1>2, <1>4, DeletePush DEF Kept
<1>7. QED
  BY <1>1, <1>5, <1>6 DEF Goes

-----------------------------------------------------------------------------
(* Steps: LUN._list_mapped_luns. *)

(* A call ends early because of what a crash has left. *)
Broken(p) ==
  /\ Become(p, <<>>) /\ crashes # 0
  /\ call[p] \in LUNs \cup SOs \cup {None}

(* LUN._list_mapped_luns keeps the stack good, or meets a mapped LUN that  *)
(* a crash has left without its symlink.                                   *)
LEMMA UnmapGoes ==
  ASSUME TypeInv, TreeInv, NEW p \in Procs, Kept(p), Unmap(p)
  PROVE  (Goes(p, dirs, link, enabled) \/ Broken(p)) /\ UNCHANGED Configfs
(* The scan of LUN._list_mapped_luns may go on with S when S still reaches *)
(* what leads to the LUN.                                                  *)
<1>MoreFits. ASSUME NEW h \in Frames, h.op = "unmap", NEW c, NEW n,
                    Free(h, c, dirs, link, enabled), ~Wide(c), NEW S \in SUBSET dirs,
                    \A y \in S : y \in NodeACLs \cup MappedLUNs /\ TPGOf(y) = TPGOf(h.node),
                    n = 0 => \A y \in S \cap MappedLUNs : link[y] # None,
                    \A z \in Linking : link[z] = h.node /\ Reaches(h.rest, z) => Reaches(S, z)
             PROVE  More(h.node, S) \in Seq(Frames) /\ Fits(More(h.node, S), h, c, dirs, link, enabled, n)
  <2> USE <1>MoreFits
  <2> DEFINE g == Frame("unmap", h.node, S)
  <2>1. /\ g \in Frames /\ Follows(g, h, link)
        /\ Ready(g, c, dirs, link, n) /\ Free(g, c, dirs, link, enabled)
    BY MoreFrame
  <2>2. g.op = "unmap" /\ g.node = h.node /\ g.rest = S
    BY DEF Frame
  <2>3. h.op \notin {"link", "except", "rmdir", "disable", "delete"}
    OBVIOUS
  <2>4. \A z \in dirs : h \notin ClearsDir(z)
    BY UnmapReaches
  <2>5. \A z \in Linking : h \in ClearsLink(z, link[z]) => link[z] = h.node /\ Reaches(S, z)
    BY UnmapReaches
  <2>6. CASE S = {}
    <3>1. More(h.node, S) = <<>>
      BY <2>6 DEF More
    <3>2. \A z \in Linking : h \notin ClearsLink(z, link[z])
      BY <2>5, <2>6 DEF Reaches
    <3>3. QED
      BY <2>3, <2>4, <3>1, <3>2, FitsNone, EmptySeq
  <2>7. CASE S # {}
    <3>1. More(h.node, S) = <<g>>
      BY <2>7 DEF More
    <3> HIDE DEF g
    <3>2. \A z \in Linking : h \in ClearsLink(z, link[z]) => g \in ClearsLink(z, link[z])
      BY <2>1, <2>2, <2>5 DEF ClearsLink, Reaches
    <3>3. g.op \notin {"unlink", "link", "except", "attached"}
      BY <2>2
    <3>4. Fits(<<g>>, h, c, dirs, link, enabled, n)
      BY <2>1, <2>3, <2>4, <3>2, <3>3, FitsOne
    <3>5. QED
      BY <2>1, <3>1, <3>4, OneSeq
  <2>8. QED
    BY <2>6, <2>7
(* The scan of LUN._list_mapped_luns may delete the mapped LUN it has      *)
(* found, and go on.                                                       *)
<1>FoundFits. ASSUME NEW h \in Frames, h.op = "unmap", NEW c, NEW n,
                     Free(h, c, dirs, link, enabled), ~Wide(c), NEW S, Scans(S, h.node, n),
                     NEW y \in MappedLUNs \cap dirs, link[y] = h.node, TPGOf(y) = TPGOf(h.node),
                     y \notin S, AllBut(S, h, y)
              PROVE  LET fs == <<Do("delete", y)>> \o More(h.node, S) IN
                     fs \in Seq(Frames) /\ Fits(fs, h, c, dirs, link, enabled, n)
  <2> USE <1>FoundFits
  <2> DEFINE f == Do("delete", y)
             g == Frame("unmap", h.node, S)
  <2>1. /\ g \in Frames /\ Follows(g, h, link)
        /\ Ready(g, c, dirs, link, n) /\ Free(g, c, dirs, link, enabled)
    <3>1. /\ S \in SUBSET dirs
          /\ \A z \in S : z \in NodeACLs \cup MappedLUNs /\ TPGOf(z) = TPGOf(h.node)
          /\ n = 0 => \A z \in S \cap MappedLUNs : link[z] # None
      BY DEF Scans
    <3>2. QED
      BY <3>1, MoreFrame
  <2>2. g.op = "unmap" /\ g.node = h.node /\ g.rest = S
    BY DEF Frame
  <2>3. f \in Frames
    BY DoTyped DEF Dirs
  <2>4. f.op = "delete" /\ f.node = y
    BY DEF Do, Frame
  <2>5. h.op \notin {"link", "except", "rmdir", "disable", "delete"}
    OBVIOUS
  <2>6. \A z \in dirs : h \notin ClearsDir(z)
    BY UnmapReaches
  <2>7. \A z \in Linking : h \in ClearsLink(z, link[z]) => link[z] = h.node /\ (z = y \/ Reaches(S, z))
    BY UnmapReaches DEF AllBut
  <2>8. More(h.node, S) = IF S = {} THEN <<>> ELSE <<g>>
    BY DEF More
  <2> HIDE DEF f, g
  <2>9. Follows(f, h, link)
    BY <2>4, FoundOver DEF Follows
  <2>10. Ready(f, c, dirs, link, n)
    BY <2>4 DEF Ready, Lists
  <2>11. Free(f, c, dirs, link, enabled)
    <3>1. y \notin LUNs \cup SOs /\ c # <<>>
      BY Disjoint DEF Wide
    <3>2. \A z : f \notin BlockedByDir(c, z)
      BY <2>4, <3>1 DEF BlockedByDir
    <3>3. \A x : f \notin BlockedByEnable(c, x)
      BY DEF BlockedByEnable
    <3>4. \A z, t : f \notin BlockedByLink(z, t)
      BY <2>4 DEF BlockedByLink
    <3>5. QED
      BY <3>2, <3>3, <3>4 DEF Free
  <2>12. f \in ClearsLink(y, link[y])
    BY <2>3, <2>4 DEF ClearsLink
  <2>13. f.op \notin {"unlink", "link", "except", "attached"}
    BY <2>4
  <2>14. CASE S = {}
    <3>1. \A z \in Linking : h \in ClearsLink(z, link[z]) => f \in ClearsLink(z, link[z])
      BY <2>7, <2>12, <2>14 DEF Reaches
    <3>2. Fits(<<f>>, h, c, dirs, link, enabled, n)
      BY <2>3, <2>5, <2>6, <2>9, <2>10, <2>11, <2>13, <3>1, FitsOne
    <3>3. <<f>> \o More(h.node, S) = <<f>> /\ <<f>> \in Seq(Frames)
      BY <2>3, <2>8, <2>14, OneSeq, JoinEmpty
    <3>4. QED
      BY <3>2, <3>3 DEF f
  <2>15. CASE S # {}
    <3>1. <<f>> \o More(h.node, S) = <<f, g>> /\ <<f, g>> \in Seq(Frames)
      BY <2>1, <2>3, <2>8, <2>15, Pair
    <3>2. \A z \in Linking : h \in ClearsLink(z, link[z]) =>
            f \in ClearsLink(z, link[z]) \/ g \in ClearsLink(z, link[z])
      <4>1. \A z \in Linking : link[z] = h.node /\ Reaches(S, z) => g \in ClearsLink(z, link[z])
        BY <2>1, <2>2 DEF ClearsLink, Reaches
      <4>2. QED
        BY <2>7, <2>12, <4>1
    <3>3. Over(f, g) /\ Leads(f, g, link)
      <4>1. h.node \in LUNs /\ h.node \notin SOs /\ y \notin LUNs
        BY FrameKinds, Disjoint
      <4>2. Inside(y, h.node)
        BY <4>1 DEF Inside
      <4>3. QED
        BY <2>2, <2>4, <4>1, <4>2 DEF Over, Leads
    <3>4. g.op \notin {"unlink", "link", "except", "attached"}
      BY <2>2
    <3>5. Fits(<<f, g>>, h, c, dirs, link, enabled, n)
      BY <2>1, <2>3, <2>5, <2>6, <2>9, <2>10, <2>11, <2>13, <3>2, <3>3, <3>4, FitsTwo
    <3>6. QED
      BY <3>1, <3>5 DEF f
  <2>16. QED
    BY <2>14, <2>15
(* No LUN is on its way while the scan for mapped LUNs runs. *)
<1>UnmapWhole. ASSUME NEW s \in Seq(Frames), s # <<>>, s[1].op = "unmap",
                      NEW c, StackInv(s, c, dirs, link, enabled, 0), NEW m \in MappedLUNs \cap dirs
               PROVE  link[m] # None
  <2> USE <1>UnmapWhole
  <2>1. SUFFICES ASSUME link[m] = None PROVE FALSE
    OBVIOUS
  <2>2. Has(s, Mends(m))
    BY <2>1 DEF StackInv, BreaksMended, Linking
  <2>3. PICK i \in 1 .. Len(s) : s[i] \in Mends(m)
    BY <2>2 DEF Has
  <2>4. s[1] \in Frames /\ s[1].node \in LUNs /\ s[1].node # m
    BY FrameKinds, Disjoint, SMT
  <2>5. i # 1 /\ s[i].node = m
    BY <2>3, <2>4 DEF Mends
  <2>6. Over(s[1], s[i])
    <3>1. 1 \in 1 .. Len(s) /\ 1 < i
      BY <2>5, SMT
    <3>2. QED
      BY <3>1 DEF StackInv, InOrder
  <2>7. Inside(s[1].node, m)
    BY <2>4, <2>5, <2>6 DEF Over
  <2>8. QED
    BY <2>7, Disjoint DEF Inside, Dirs
<1> DEFINE h == stack[p][1]
           x == h.node
           rest == h.rest
           c == call[p]
<1>1. ~Idle(p) /\ UNCHANGED Configfs /\ Head(stack[p]).op = "unmap"
  BY DEF Unmap, At
<1>2. stack[p] \in Seq(Frames) /\ stack[p] # <<>> /\ Head(stack[p]) = h /\ h \in Frames
  BY <1>1, HeadTyped DEF TypeInv, Idle
<1>3. Free(h, c, dirs, link, enabled) /\ Ready(h, c, dirs, link, crashes)
  BY <1>2, HeadFree DEF Kept
<1>4. Node(p) = x /\ h.op = "unmap" /\ rest \in SUBSET dirs
  BY <1>1, <1>2, <1>3 DEF Node, Ready
<1>5. /\ x \in LUNs
      /\ \A y \in rest : y \in NodeACLs \cup MappedLUNs /\ TPGOf(y) = TPGOf(x)
  BY <1>2, <1>4, FrameKinds
<1>6. /\ crashes = 0 => \A y \in rest \cap MappedLUNs : link[y] # None
      /\ Wide(c) => rest = {}
  BY <1>3, <1>4 DEF Ready
<1>7. \/ rest = {} /\ Then(p, <<>>)
      \/ \E y \in rest :
           \/ y \in NodeACLs \cap dirs /\ Then(p, More(x, (rest \ {y}) \cup Below(y, MappedLUNs)))
           \/ y \in MappedLUNs \cap dirs /\ link[y] = x /\ Then(p, DeleteFrames(y) \o More(x, rest \ {y}))
           \/ y \in MappedLUNs \cap dirs /\ link[y] \notin {x, None} /\ Then(p, More(x, rest \ {y}))
           \/ (y \notin dirs \/ (y \in MappedLUNs /\ link[y] = None)) /\ Raise(p)
  BY <1>2, <1>4 DEF Unmap
<1>8. \A z \in Linking : link[z] = x => z \in MappedLUNs \cap dirs /\ Parent(z) \in NodeACLs
  BY <1>5, LinkPlaces, Disjoint, Parents DEF Dirs
<1> HIDE DEF h
<1>9. CASE rest = {} /\ Then(p, <<>>)
  <2>1. \A z : h \notin ClearsDir(z)
    BY <1>4, UnmapReaches
  <2>2. \A z, t : h \notin ClearsLink(z, t)
    BY <1>4, <1>9, UnmapReaches DEF Reaches
  <2>3. h.op \notin {"link", "except", "rmdir", "disable", "delete"}
    BY <1>4
  <2>4. Fits(<<>>, h, c, dirs, link, enabled, crashes) /\ <<>> \in Seq(Frames)
    BY <2>1, <2>2, <2>3, FitsNone, EmptySeq
  <2>5. QED
    BY <1>1, <1>9, <2>4, ThenFits DEF h
<1>10. ASSUME NEW y \in rest, y \in NodeACLs \cap dirs,
              Then(p, More(x, (rest \ {y}) \cup Below(y, MappedLUNs)))
       PROVE  Goes(p, dirs, link, enabled)
  <2> DEFINE S == (rest \ {y}) \cup Below(y, MappedLUNs)
  <2>1. S \in SUBSET dirs /\ ~Wide(c)
    BY <1>4, <1>6 DEF Below
  <2>2. \A z \in S : z \in NodeACLs \cup MappedLUNs /\ TPGOf(z) = TPGOf(x)
    BY <1>5, Parents DEF Below
  <2>3. crashes = 0 => \A z \in S \cap MappedLUNs : link[z] # None
    BY <1>2, <1>4, <2>1, <1>UnmapWhole DEF Kept, h
  <2>4. \A z \in Linking : link[z] = x /\ Reaches(rest, z) => Reaches(S, z)
    BY <1>8, <1>10, Disjoint DEF Reaches, Below
  <2>5. More(x, S) \in Seq(Frames) /\ Fits(More(x, S), h, c, dirs, link, enabled, crashes)
    <3> HIDE DEF S
    <3>1. QED
      BY <1>2, <1>3, <1>4, <2>1, <2>2, <2>3, <2>4, <1>MoreFits
  <2>6. QED
    BY <1>1, <1>10, <2>5, ThenFits DEF h
<1>11. ASSUME NEW y \in rest, y \in MappedLUNs \cap dirs, link[y] = x,
              Then(p, DeleteFrames(y) \o More(x, rest \ {y}))
       PROVE  Goes(p, dirs, link, enabled)
  <2> DEFINE S == rest \ {y}
  <2>1. S \in SUBSET dirs /\ ~Wide(c) /\ S \in SUBSET Dirs /\ y \in Dirs
    BY <1>4, <1>6 DEF TypeInv, TypeOK
  <2>2. \A z \in S : z \in NodeACLs \cup MappedLUNs /\ TPGOf(z) = TPGOf(x)
    BY <1>5
  <2>3. crashes = 0 => \A z \in S \cap MappedLUNs : link[z] # None
    BY <1>6
  <2>4. \A z \in Linking : link[z] = x /\ Reaches(rest, z) => z = y \/ Reaches(S, z)
    BY <1>8, <1>11, Disjoint DEF Reaches
  <2>5. y \notin S /\ TPGOf(y) = TPGOf(x)
    BY <1>5
  <2>6. More(x, S) \in Seq(Frames)
    BY <1>5, <2>1, <2>2, MoreTyped
  <2>7. /\ <<Do("delete", y)>> \o More(x, S) \in Seq(Frames)
        /\ Fits(<<Do("delete", y)>> \o More(x, S), h, c, dirs, link, enabled, crashes)
    <3>1. Scans(S, x, crashes) /\ AllBut(S, h, y)
      BY <2>1, <2>2, <2>3, <2>4 DEF Scans, AllBut
    <3> HIDE DEF S
    <3>2. QED
      BY <1>2, <1>3, <1>4, <1>11, <2>1, <2>5, <3>1, <1>FoundFits
  <2>8. QED
    BY <1>1, <1>11, <2>1, <2>6, <2>7, ThenDelete DEF h
<1>12. ASSUME NEW y \in rest, y \in MappedLUNs \cap dirs, link[y] \notin {x, None},
              Then(p, More(x, rest \ {y}))
       PROVE  Goes(p, dirs, link, enabled)
  <2> DEFINE S == rest \ {y}
  <2>1. S \in SUBSET dirs /\ ~Wide(c)
    BY <1>4, <1>6
  <2>2. \A z \in S : z \in NodeACLs \cup MappedLUNs /\ TPGOf(z) = TPGOf(x)
    BY <1>5
  <2>3. crashes = 0 => \A z \in S \cap MappedLUNs : link[z] # None
    BY <1>6
  <2>4. \A z \in Linking : link[z] = x /\ Reaches(rest, z) => Reaches(S, z)
    BY <1>8, <1>12, Disjoint DEF Reaches
  <2>5. More(x, S) \in Seq(Frames) /\ Fits(More(x, S), h, c, dirs, link, enabled, crashes)
    <3> HIDE DEF S
    <3>1. QED
      BY <1>2, <1>3, <1>4, <2>1, <2>2, <2>3, <2>4, <1>MoreFits
  <2>6. QED
    BY <1>1, <1>12, <2>5, ThenFits DEF h
<1>13. ASSUME NEW y \in rest, y \notin dirs \/ (y \in MappedLUNs /\ link[y] = None), Raise(p)
       PROVE  Broken(p)
  <2>1. crashes # 0 /\ ~Wide(c)
    BY <1>4, <1>6, <1>13
  <2>2. stack[p][Len(stack[p])].op # "except"
    <3>1. Len(stack[p]) \in 1 .. Len(stack[p])
      BY <1>2, SMT
    <3>2. h.op # "link"
      BY <1>4
    <3>3. QED
      BY <3>1, <3>2 DEF Kept, StackInv, Placed, h
  <2>3. Become(p, <<>>)
    BY <1>13, <2>2 DEF Raise
  <2>4. c \in {<<>>, None} \cup Dirs
    BY DEF TypeInv, TypeOK
  <2>5. ASSUME c \in NodeACLs \cup MappedLUNs \cup NetworkPortals PROVE FALSE
    <3>1. c \in Dirs
      BY <2>5 DEF Dirs
    <3>2. Over(h, Do("rmdir", c))
      <4>1. Do("rmdir", c).op = "rmdir"
        BY DEF Do, Frame
      <4>2. StackInv(stack[p], c, dirs, link, enabled, crashes) /\ h = stack[p][1]
        BY DEF Kept, h
      <4> HIDE DEF c
      <4>3. h = Do("rmdir", c) \/ Over(h, Do("rmdir", c))
        BY <1>2, <3>1, <4>2, HeadInCall
      <4>4. QED
        BY <1>4, <4>1, <4>3
    <3>3. x = c \/ Inside(x, c)
      BY <3>2 DEF Over, Do, Frame
    <3>4. QED
      BY <1>5, <2>5, <3>3, Disjoint DEF Inside, Dirs
  <2>6. QED
    BY <2>1, <2>3, <2>4, <2>5 DEF Broken, Wide, Dirs
<1>14. QED
  BY <1>1, <1>7, <1>9, <1>10, <1>11, <1>12, <1>13

-----------------------------------------------------------------------------
(* Steps: StorageObject._gen_attached_luns. *)

(* StorageObject._gen_attached_luns keeps the stack good. *)
LEMMA DetachGoes ==
  ASSUME TypeInv, TreeInv, NEW p \in Procs, Kept(p), Detach(p)
  PROVE  Goes(p, dirs, link, enabled) /\ UNCHANGED Configfs
(* delete() of a storage object only happens on its own or in              *)
(* clear_existing(), where no target is left.                              *)
<1>DetachNotWide. ASSUME NEW s \in Seq(Frames), s # <<>>, s[1].op = "detach", s[1].rest # {},
                         NEW c, NEW D, NEW L, NEW E, NEW n, StackInv(s, c, D, L, E, n)
                  PROVE  ~Wide(c)
  <2> USE <1>DetachNotWide
  <2>1. s[1] \in Frames /\ s[1].node \in SOs
    BY FrameKinds, SMT
  <2>2. c # <<>>
    BY HeadFree DEF Ready
  <2>3. ASSUME c \in TPGs \cup TargetDirs PROVE FALSE
    <3>1. c \in Dirs
      BY <2>3 DEF Dirs
    <3>2. Over(s[1], Do("rmdir", c))
      BY <3>1, HeadInCall, SMTT(30) DEF Do, Frame
    <3>3. s[1].node = c \/ Inside(s[1].node, c)
      BY <3>2 DEF Over, Do, Frame
    <3>4. QED
      BY <2>1, <2>3, <3>3, Disjoint DEF Inside, Dirs, Linking
  <2>4. QED
    BY <2>2, <2>3 DEF Wide
(* It may go on with S when S still shows what leads to the storage        *)
(* object.                                                                 *)
<1>DetachFits. ASSUME NEW h \in Frames, h.op = "detach", NEW c, NEW n,
                      Free(h, c, dirs, link, enabled), ~Wide(c),
                      NEW S \in SUBSET dirs, S \subseteq TargetDirs \cup TPGs \cup LUNs,
                      \A z \in Linking : link[z] = h.node /\ Sees(h.rest, z) => Sees(S, z)
               PROVE  LET fs == <<Frame("detach", h.node, S)>> IN
                      fs \in Seq(Frames) /\ Fits(fs, h, c, dirs, link, enabled, n)
  <2> USE <1>DetachFits
  <2> DEFINE g == Frame("detach", h.node, S)
  <2>1. /\ g \in Frames /\ Follows(g, h, link)
        /\ Ready(g, c, dirs, link, n) /\ Free(g, c, dirs, link, enabled)
    BY DetachFrame
  <2>2. g.op = "detach" /\ g.node = h.node /\ g.rest = S
    BY DEF Frame
  <2> HIDE DEF g
  <2>3. h.op \notin {"link", "except", "rmdir", "disable", "delete"}
    OBVIOUS
  <2>4. \A z \in dirs : h \notin ClearsDir(z)
    BY DetachSees
  <2>5. \A z \in Linking : h \in ClearsLink(z, link[z]) => g \in ClearsLink(z, link[z])
    <3>1. \A z \in Linking : h \in ClearsLink(z, link[z]) => link[z] = h.node /\ Sees(S, z)
      BY DetachSees
    <3>2. QED
      BY <2>1, <2>2, <3>1 DEF ClearsLink, Sees
  <2>6. g.op \notin {"unlink", "link", "except", "attached"}
    BY <2>2
  <2>7. Fits(<<g>>, h, c, dirs, link, enabled, n)
    BY <2>1, <2>3, <2>4, <2>5, <2>6, FitsOne
  <2>8. QED
    BY <2>1, <2>7, SMTT(30) DEF g
(* It may yield the LUN it has found, and go on. *)
<1>AttachedFits. ASSUME NEW h \in Frames, h.op = "detach", NEW c, NEW n,
                        Free(h, c, dirs, link, enabled), ~Wide(c),
                        NEW S \in SUBSET dirs, S \subseteq TargetDirs \cup TPGs \cup LUNs,
                        NEW y \in LUNs \cap dirs, link[y] = h.node, y \notin S,
                        \A z \in Linking : link[z] = h.node /\ Sees(h.rest, z) => z = y \/ Sees(S, z)
                 PROVE  LET fs == <<Do("attached", y)>> \o <<Frame("detach", h.node, S)>> IN
                        fs \in Seq(Frames) /\ Fits(fs, h, c, dirs, link, enabled, n)
  <2> USE <1>AttachedFits
  <2> DEFINE f == Do("attached", y)
             g == Frame("detach", h.node, S)
  <2>1. /\ g \in Frames /\ Follows(g, h, link)
        /\ Ready(g, c, dirs, link, n) /\ Free(g, c, dirs, link, enabled)
    BY DetachFrame
  <2>2. g.op = "detach" /\ g.node = h.node /\ g.rest = S
    BY DEF Frame
  <2>3. f \in Frames
    BY DoTyped
  <2>4. f.op = "attached" /\ f.node = y
    BY DEF Do, Frame
  <2> HIDE DEF f, g
  <2>5. h.op \notin {"link", "except", "rmdir", "disable", "delete"}
    OBVIOUS
  <2>6. \A z \in dirs : h \notin ClearsDir(z)
    BY DetachSees
  <2>7. \A z \in Linking : h \in ClearsLink(z, link[z]) => link[z] = h.node /\ (z = y \/ Sees(S, z))
    BY DetachSees
  <2>8. Follows(f, h, link)
    BY <2>4, FoundOver DEF Follows
  <2>9. Ready(f, c, dirs, link, n)
    BY <2>4 DEF Ready, Lists
  <2>10. Free(f, c, dirs, link, enabled)
    <3>1. y \notin SOs /\ c # <<>>
      BY Disjoint DEF Wide
    <3>2. \A z : f \notin BlockedByDir(c, z)
      BY <2>4, <3>1 DEF BlockedByDir
    <3>3. \A x : f \notin BlockedByEnable(c, x)
      BY DEF BlockedByEnable
    <3>4. \A z, t : f \notin BlockedByLink(z, t)
      BY <2>4 DEF BlockedByLink
    <3>5. QED
      BY <3>2, <3>3, <3>4 DEF Free
  <2>11. <<f>> \o <<g>> = <<f, g>> /\ <<f, g>> \in Seq(Frames)
    BY <2>1, <2>3, Pair
  <2>12. \A z \in Linking : h \in ClearsLink(z, link[z]) =>
           f \in ClearsLink(z, link[z]) \/ g \in ClearsLink(z, link[z])
    <3>1. \A z \in Linking : link[z] = h.node /\ Sees(S, z) => g \in ClearsLink(z, link[z])
      BY <2>1, <2>2 DEF ClearsLink, Sees
    <3>2. f \in ClearsLink(y, link[y])
      BY <2>3, <2>4 DEF ClearsLink
    <3>3. QED
      BY <2>7, <3>1, <3>2
  <2>13. Over(f, g) /\ Leads(f, g, link)
    <3>1. h.node \in SOs /\ h.node \notin LUNs /\ y \notin MappedLUNs
      BY FrameKinds, Disjoint
    <3>2. Inside(y, h.node)
      BY <3>1 DEF Inside, Linking
    <3>3. QED
      BY <2>2, <2>4, <3>1, <3>2 DEF Over, Leads
  <2>14. f.op \notin {"unlink", "link", "except"} /\ g.op \notin {"unlink", "link", "except", "attached"}
    BY <2>2, <2>4
  <2>15. Fits(<<f, g>>, h, c, dirs, link, enabled, n)
    BY <2>1, <2>2, <2>3, <2>5, <2>6, <2>8, <2>9, <2>10, <2>12, <2>13, <2>14, FitsTwo
  <2>16. QED
    BY <2>11, <2>15 DEF f, g
<1> DEFINE h == stack[p][1]
           x == h.node
           rest == h.rest
           c == call[p]
<1>1. ~Idle(p) /\ UNCHANGED Configfs /\ Head(stack[p]).op = "detach"
  BY DEF Detach, At
<1>2. stack[p] \in Seq(Frames) /\ stack[p] # <<>> /\ Head(stack[p]) = h /\ h \in Frames
  BY <1>1, HeadTyped DEF TypeInv, Idle
<1>3. Free(h, c, dirs, link, enabled) /\ Ready(h, c, dirs, link, crashes)
  BY <1>2, HeadFree DEF Kept
<1>4. Node(p) = x /\ h.op = "detach" /\ rest \in SUBSET dirs
  BY <1>1, <1>2, <1>3 DEF Node, Ready
<1>5. x \in SOs /\ rest \subseteq TargetDirs \cup TPGs \cup LUNs
  BY <1>2, <1>4, FrameKinds
<1>6. rest # {} => ~Wide(c)
  BY <1>1, <1>2, <1>DetachNotWide DEF Kept
<1>7. \A z \in Linking : link[z] = x =>
        /\ z \in LUNs /\ z \in dirs /\ Parent(z) = TPGOf(z)
        /\ TPGOf(z) \in TPGs /\ TPGOf(z) \in dirs /\ Parent(TPGOf(z)) = TargetOf(z)
        /\ TargetOf(z) \in TargetDirs
  BY <1>5, LinkPlaces, Disjoint, Parents, Paths DEF Dirs
<1>8. \/ rest = {} /\ Then(p, <<>>)
      \/ \E y \in rest :
           \/ Then(p, <<Frame("detach", x, (rest \ {y}) \cup Below(y, TPGs \cup LUNs))>>) /\ y \notin LUNs
           \/ y \in LUNs \cap dirs /\ link[y] = x
              /\ Then(p, <<Do("attached", y)>> \o <<Frame("detach", x, rest \ {y})>>)
           \/ y \in LUNs \cap dirs /\ link[y] # x
              /\ Then(p, <<>> \o <<Frame("detach", x, rest \ {y})>>)
  <2> HIDE DEF h
  <2>1. Head(stack[p]).rest = rest
    BY <1>2
  <2>2. \/ rest = {} /\ Then(p, <<>>)
        \/ \E y \in rest :
             \/ /\ y \in TPGs \/ y \in TargetDirs \cap dirs
                /\ Then(p, <<Frame("detach", x, (rest \ {y}) \cup Below(y, TPGs \cup LUNs))>>)
             \/ /\ y \in LUNs \cap dirs
                /\ Then(p, (IF link[y] = x THEN <<Do("attached", y)>> ELSE <<>>)
                           \o <<Frame("detach", x, rest \ {y})>>)
             \/ y \notin TPGs /\ y \notin dirs /\ Raise(p)
    BY <1>4, <2>1 DEF Detach
  <2>3. \A y \in TPGs \cup TargetDirs : y \notin LUNs
    BY Disjoint
  <2>4. QED
    BY <1>4, <2>2, <2>3
<1> HIDE DEF h
<1>9. CASE rest = {} /\ Then(p, <<>>)
  <2>1. \A z : h \notin ClearsDir(z)
    BY <1>4, DetachSees
  <2>2. \A z, t : h \notin ClearsLink(z, t)
    BY <1>4, <1>9, DetachSees DEF Sees
  <2>3. h.op \notin {"link", "except", "rmdir", "disable", "delete"}
    BY <1>4
  <2>4. Fits(<<>>, h, c, dirs, link, enabled, crashes) /\ <<>> \in Seq(Frames)
    BY <2>1, <2>2, <2>3, FitsNone, SMT
  <2>5. QED
    BY <1>1, <1>9, <2>4, ThenFits DEF h
<1>10. ASSUME NEW S \in SUBSET dirs, S \subseteq TargetDirs \cup TPGs \cup LUNs, ~Wide(c),
              \A z \in Linking : link[z] = x /\ Sees(rest, z) => Sees(S, z),
              Then(p, <<Frame("detach", x, S)>>)
       PROVE  Goes(p, dirs, link, enabled)
  <2>1. /\ <<Frame("detach", x, S)>> \in Seq(Frames)
        /\ Fits(<<Frame("detach", x, S)>>, h, c, dirs, link, enabled, crashes)
    BY <1>2, <1>3, <1>4, <1>10, <1>DetachFits
  <2>2. QED
    BY <1>1, <1>10, <2>1, ThenFits DEF h
<1>11. ASSUME NEW y \in rest, y \notin LUNs,
              Then(p, <<Frame("detach", x, (rest \ {y}) \cup Below(y, TPGs \cup LUNs))>>)
       PROVE  Goes(p, dirs, link, enabled)
  <2> DEFINE S == (rest \ {y}) \cup Below(y, TPGs \cup LUNs)
  <2>1. S \in SUBSET dirs /\ S \subseteq TargetDirs \cup TPGs \cup LUNs /\ ~Wide(c)
    BY <1>4, <1>5, <1>6 DEF Below
  <2>2. \A z \in Linking : link[z] = x /\ Sees(rest, z) => Sees(S, z)
    BY <1>7, <1>11 DEF Sees, Below
  <2>3. QED
    BY <1>10, <1>11, <2>1, <2>2
<1>12. ASSUME NEW y \in rest, y \in LUNs \cap dirs, link[y] # x,
              Then(p, <<>> \o <<Frame("detach", x, rest \ {y})>>)
       PROVE  Goes(p, dirs, link, enabled)
  <2> DEFINE S == rest \ {y}
  <2>1. S \in SUBSET dirs /\ S \subseteq TargetDirs \cup TPGs \cup LUNs /\ ~Wide(c)
    BY <1>4, <1>5, <1>6
  <2>2. \A z \in Linking : link[z] = x /\ Sees(rest, z) => Sees(S, z)
    <3>1. \A z \in Linking : TPGOf(z) # y /\ TargetOf(z) # y
      <4>1. \A z \in Linking : TPGOf(z) \in TPGs /\ TargetOf(z) \in TargetDirs
        BY Paths DEF Linking
      <4>2. y \notin TPGs /\ y \notin TargetDirs
        BY <1>12, Disjoint
      <4>3. QED
        BY <4>1, <4>2
    <3>2. QED
      BY <1>12, <3>1 DEF Sees
  <2>3. <<>> \o <<Frame("detach", x, S)>> = <<Frame("detach", x, S)>>
    BY SMT
  <2>4. QED
    BY <1>10, <1>12, <2>1, <2>2, <2>3
<1>13. ASSUME NEW y \in rest, y \in LUNs \cap dirs, link[y] = x,
              Then(p, <<Do("attached", y)>> \o <<Frame("detach", x, rest \ {y})>>)
       PROVE  Goes(p, dirs, link, enabled)
  <2> DEFINE S == rest \ {y}
             fs == <<Do("attached", y)>> \o <<Frame("detach", x, S)>>
  <2>1. S \in SUBSET dirs /\ S \subseteq TargetDirs \cup TPGs \cup LUNs /\ ~Wide(c) /\ y \notin S
    BY <1>4, <1>5, <1>6
  <2>2. \A z \in Linking : link[z] = x /\ Sees(rest, z) => z = y \/ Sees(S, z)
    BY <1>7, <1>13, Disjoint DEF Sees
  <2>3. fs \in Seq(Frames) /\ Fits(fs, h, c, dirs, link, enabled, crashes)
    <3> HIDE DEF S
    <3>1. QED
      BY <1>2, <1>3, <1>4, <1>13, <2>1, <2>2, <1>AttachedFits
  <2> HIDE DEF fs
  <2>4. Then(p, fs)
    BY <1>13 DEF fs
  <2>5. QED
    BY <1>1, <2>3, <2>4, ThenFits DEF h
<1>14. QED
  BY <1>1, <1>8, <1>9, <1>11, <1>12, <1>13

(* Constructing the LUN it yields creates nothing, and keeps the stack     *)
(* good.                                                                   *)
LEMMA AttachedGoes ==
  ASSUME TypeInv, TreeInv, NEW p \in Procs, Kept(p), Attached(p)
  PROVE  Goes(p, dirs, link, enabled) /\ UNCHANGED Configfs
(* The LUN that the scan found is deleted. *)
<1>DeleteAttachedFits. ASSUME NEW h \in Frames, h.op = "attached", NEW c, NEW n,
                              Free(h, c, dirs, link, enabled), Ready(h, c, dirs, link, n)
                       PROVE  LET fs == <<Do("delete", h.node)>> IN
                              fs \in Seq(Frames) /\ Fits(fs, h, c, dirs, link, enabled, n)
  <2> USE <1>DeleteAttachedFits
  <2> DEFINE f == Do("delete", h.node)
  <2>1. h.node \in LUNs /\ h.node \in dirs
    BY FrameKinds DEF Ready
  <2>2. f \in Frames
    BY <2>1, DoTyped DEF Dirs
  <2>3. f.op = "delete" /\ f.node = h.node
    BY DEF Do, Frame
  <2> HIDE DEF f
  <2>4. h.op \notin {"link", "except", "rmdir", "disable", "delete"}
    OBVIOUS
  <2>5. Follows(f, h, link)
    BY <2>3 DEF Follows, Over, Leads
  <2>6. Ready(f, c, dirs, link, n)
    BY <2>1, <2>3 DEF Ready, Lists
  <2>7. Free(f, c, dirs, link, enabled)
    <3>1. \A z : f \in BlockedByDir(c, z) => h \in BlockedByDir(c, z)
      BY <2>3 DEF BlockedByDir
    <3>2. \A x : f \in BlockedByEnable(c, x) => h \in BlockedByEnable(c, x)
      BY <2>3 DEF BlockedByEnable
    <3>3. \A z, t : f \notin BlockedByLink(z, t)
      BY <2>3 DEF BlockedByLink
    <3>4. QED
      BY <3>1, <3>2, <3>3 DEF Free
  <2>8. \A z \in dirs : h \notin ClearsDir(z)
    BY DEF ClearsDir, Lists
  <2>9. \A z \in Linking : h \in ClearsLink(z, link[z]) => f \in ClearsLink(z, link[z])
    BY <2>2, <2>3 DEF ClearsLink
  <2>10. f.op \notin {"unlink", "link", "except", "attached"}
    BY <2>3
  <2>11. Fits(<<f>>, h, c, dirs, link, enabled, n)
    BY <2>2, <2>4, <2>5, <2>6, <2>7, <2>8, <2>9, <2>10, FitsOne
  <2>12. QED
    BY <2>2, <2>11, OneSeq DEF f
<1> DEFINE h == stack[p][1]
           y == h.node
           c == call[p]
<1>1. ~Idle(p) /\ UNCHANGED <<link, enabled>> /\ Head(stack[p]).op = "attached"
  BY DEF Attached, At
<1>2. stack[p] \in Seq(Frames) /\ stack[p] # <<>> /\ Head(stack[p]) = h /\ h \in Frames
  BY <1>1, HeadTyped DEF TypeInv, Idle
<1>3. Free(h, c, dirs, link, enabled) /\ Ready(h, c, dirs, link, crashes)
  BY <1>2, HeadFree DEF Kept
<1>4. Node(p) = y /\ h.op = "attached" /\ y \in dirs /\ y \in LUNs
  BY <1>1, <1>2, <1>3, FrameKinds DEF Node, Ready
<1>5. stack[p][2] \in Frames /\ stack[p][2].node \in SOs /\ link[y] = stack[p][2].node
  <2>1. 1 \in 1 .. Len(stack[p]) /\ 1 + 1 = 2
    BY <1>2, SMT
  <2>2. 2 \in 1 .. Len(stack[p]) /\ stack[p][2].op = "detach"
    BY <1>4, <2>1 DEF Kept, StackInv, Placed, Detaches
  <2>3. stack[p][2] \in Frames /\ stack[p][2].node \in SOs
    BY <1>2, <2>2, ElementTyped, FrameKinds
  <2>4. Leads(stack[p][1], stack[p][2], link)
    BY <2>1, <2>2, SMT DEF Kept, StackInv, InOrder
  <2>5. QED
    BY <1>4, <2>3, <2>4 DEF Leads
<1>6. LinkedTo(stack[p][2].node) # {}
  BY <1>4, <1>5 DEF LinkedTo, Linking
<1>7. TPGOf(y) \in dirs /\ <<y[1]>> \in dirs
  BY <1>4, <1>5, LinkPlaces, Disjoint DEF Linking, TargetOf, Dirs
<1>8. dirs' = dirs /\ Then(p, DeleteFrames(y))
  BY <1>4, <1>6, <1>7 DEF Attached
<1> HIDE DEF h
<1>9. /\ <<Do("delete", y)>> \in Seq(Frames)
      /\ Fits(<<Do("delete", y)>>, h, c, dirs, link, enabled, crashes)
  BY <1>2, <1>3, <1>4, <1>DeleteAttachedFits
<1>10. /\ <<Do("delete", y)>> \o <<>> = <<Do("delete", y)>> /\ <<>> \in Seq(Frames)
       /\ DeleteFrames(y) \o <<>> = DeleteFrames(y) /\ y \in Dirs
  <2>1. dirs \in SUBSET Dirs
    BY DEF TypeInv, TypeOK
  <2>2. y \in Dirs /\ DeleteFrames(y) \in Seq(Frames)
    BY <1>4, <2>1, DeleteFramesTyped
  <2>3. QED
    BY <1>9, <2>2, JoinEmpty, SMT
<1>11. Goes(p, dirs, link, enabled)
  BY <1>1, <1>8, <1>9, <1>10, ThenDelete DEF h
<1>12. QED
  BY <1>1, <1>8, <1>11 DEF Configfs

-----------------------------------------------------------------------------
(* Steps: the ones that change configfs. *)

(* A step that is done leaves the rest of the stack. *)
LEMMA ThenPops ==
  ASSUME TypeInv, NEW p \in Procs, ~Idle(p), Then(p, <<>>), NEW D, NEW L, NEW E,
         StackInv(Tail(stack[p]), call[p], D, L, E, crashes)
  PROVE  Goes(p, D, L, E)
<1>1. stack[p] \in Seq(Frames) /\ stack[p] # <<>>
  BY DEF TypeInv, Idle
<1>2. Tail(stack[p]) \in Seq(Frames)
  BY <1>1, SMT
<1>3. <<>> \o Tail(stack[p]) = Tail(stack[p])
  BY <1>2, JoinEmpty
<1>4. QED
  BY <1>2, <1>3 DEF Goes, Then

(* What is known of the frames below the one on top. *)
LEMMA TailFacts ==
  ASSUME NEW s \in Seq(Frames), s # <<>>,
         NEW c, NEW D, NEW L, NEW E, NEW n, StackInv(s, c, D, L, E, n)
  PROVE  /\ \A i, j \in 2 .. Len(s) : i < j => Leads(s[i], s[j], L)
         /\ \A j \in 2 .. Len(s) : Ready(s[j], c, D, L, n) /\ Over(s[1], s[j]) /\ s[j] \in Frames
<1>1. Len(s) \in Nat \ {0} /\ \A j \in 2 .. Len(s) : j \in 1 .. Len(s) /\ 1 < j
  BY SMT
<1>2. 1 \in 1 .. Len(s)
  BY <1>1, SMT
<1>3. QED
  BY <1>1, <1>2, SMT DEF StackInv, AllReady, InOrder

(* Disabling a TPG does not raise and keeps the stack good. *)
LEMMA DisableGoes ==
  ASSUME TypeInv, NEW p \in Procs, Kept(p), Disable(p)
  PROVE  /\ Goes(p, dirs, link, enabled \ {Node(p)})
         /\ UNCHANGED <<dirs, link>> /\ enabled' = enabled \ {Node(p)}
<1> DEFINE h == stack[p][1]
           x == h.node
           s == stack[p]
           c == call[p]
<1>1. ~Idle(p) /\ UNCHANGED <<dirs, link>> /\ Head(stack[p]).op = "disable"
  BY DEF Disable, At
<1>2. s \in Seq(Frames) /\ s # <<>> /\ Head(stack[p]) = h /\ h \in Frames
  BY <1>1, HeadTyped DEF TypeInv, Idle
<1>3. StackInv(s, c, dirs, link, enabled, crashes)
  BY DEF Kept
<1>4. Node(p) = x /\ h.op = "disable" /\ x \in dirs
  BY <1>1, <1>2, <1>3, HeadFree DEF Node, Ready
<1>5. enabled' = enabled \ {x} /\ Then(p, <<>>)
  BY <1>4 DEF Disable
<1>6. /\ \A y : h \notin ClearsDir(y) /\ h \notin Mends(y)
      /\ \A y, t : h \notin ClearsLink(y, t)
      /\ \A y \in enabled \ {x} : h \notin Disables(y)
  BY <1>4 DEF ClearsDir, Lists, ClearsLink, Mends, Disables
<1>7. /\ \A i, j \in 2 .. Len(s) : i < j => Leads(s[i], s[j], link)
      /\ \A j \in 2 .. Len(s) : Ready(s[j], c, dirs, link, crashes)
  BY <1>2, <1>3, TailFacts
<1>8. StackInv(Tail(s), c, dirs, link, enabled \ {x}, crashes)
  <2> HIDE DEF s
  <2>1. h = s[1]
    BY DEF s
  <2> HIDE DEF h
  <2>2. /\ dirs \subseteq dirs /\ enabled \ {x} \subseteq enabled
        /\ \A y \in dirs : s[1] \notin ClearsDir(y)
        /\ \A y \in Linking : link[y] = None \/ (link[y] = link[y] /\ s[1] \notin ClearsLink(y, link[y]))
        /\ \A y \in enabled \ {x} : s[1] \notin Disables(y)
        /\ \A y \in dirs \cap Linking : crashes = 0 /\ link[y] = None =>
             (link[y] = None /\ s[1] \notin Mends(y)) \/ \E j \in 2 .. Len(s) : s[j] \in Mends(y)
        /\ s[1].op \notin {"link", "except", "delete"}
    BY <1>4, <1>6, <2>1
  <2>3. QED
    BY <1>2, <1>3, <1>7, <2>2, PopInv
<1>9. QED
  BY <1>1, <1>4, <1>5, <1>8, ThenPops

(* ... and removing the symlink does not raise. *)
LEMMA UnlinkGoes ==
  ASSUME TypeInv, NEW p \in Procs, Kept(p), Unlink(p)
  PROVE  /\ Goes(p, dirs, [link EXCEPT ![Node(p)] = None], enabled)
         /\ UNCHANGED <<dirs, enabled>> /\ link' = [link EXCEPT ![Node(p)] = None]
(* The rest of the stack is good without the symlink, ... *)
<1>UnlinkTail. ASSUME NEW s \in Seq(Frames), s # <<>>, NEW x \in Linking, s[1].op = "unlink", s[1].node = x,
                      NEW c, NEW n, StackInv(s, c, dirs, link, enabled, n)
               PROVE  StackInv(Tail(s), c, dirs, [link EXCEPT ![x] = None], enabled, n)
  <2> USE <1>UnlinkTail
  <2> DEFINE L == [link EXCEPT ![x] = None]
  <2>1. /\ \A i, j \in 2 .. Len(s) : i < j => Leads(s[i], s[j], link)
        /\ \A j \in 2 .. Len(s) : Ready(s[j], c, dirs, link, n) /\ Over(s[1], s[j]) /\ s[j] \in Frames
    BY TailFacts
  <2>2. L[x] = None /\ \A y \in Linking : y # x => L[y] = link[y]
    BY DEF TypeInv, TypeOK
  <2>3. \A j \in 2 .. Len(s) : s[j].node = x => s[j].op = "rmdir"
    BY <2>1, InsideTypes DEF Over
  <2> HIDE DEF L
  <2>4. ASSUME NEW i \in 2 .. Len(s), NEW j \in 2 .. Len(s), i < j
        PROVE  Leads(s[i], s[j], L)
    <3>1. SUFFICES ASSUME s[i].op # "rmdir"
                   PROVE  Leads(s[i], s[j], L)
      BY DEF Leads
    <3>2. s[i].node # x /\ Leads(s[i], s[j], link)
      BY <2>1, <2>3, <2>4, <3>1
    <3>3. s[i].node \in MappedLUNs /\ x \in LUNs => link[s[i].node] # x \/ s[j].node \notin SOs
      <4>1. SUFFICES ASSUME s[i].node \in MappedLUNs, x \in LUNs PROVE FALSE
        OBVIOUS
      <4>2. Inside(x, s[i].node)
        BY <2>1, <3>2 DEF Over
      <4>3. QED
        BY <4>1, <4>2, Disjoint DEF Inside, Dirs
    <3>4. s[i].node \in Linking => L[s[i].node] = link[s[i].node]
      BY <2>2, <3>2
    <3>5. s[i].node \in MappedLUNs /\ s[j].node \in SOs =>
            link[s[i].node] \in LUNs /\ link[s[i].node] # x /\ L[link[s[i].node]] = s[j].node
      <4>1. SUFFICES ASSUME s[i].node \in MappedLUNs, s[j].node \in SOs
                     PROVE  link[s[i].node] \in LUNs /\ link[s[i].node] # x /\ L[link[s[i].node]] = s[j].node
        OBVIOUS
      <4>2. link[s[i].node] \in LUNs /\ link[link[s[i].node]] = s[j].node
        BY <3>1, <3>2, <4>1 DEF Leads
      <4>3. link[s[i].node] # x
        BY <3>3, <4>1, <4>2
      <4>4. QED
        BY <2>2, <4>2, <4>3 DEF Linking
    <3>6. QED
      BY <3>1, <3>2, <3>4, <3>5 DEF Leads, Linking
  <2>5. ASSUME NEW j \in 2 .. Len(s)
        PROVE  Ready(s[j], c, dirs, L, n)
    <3>1. Ready(s[j], c, dirs, link, n) /\ x \notin s[j].rest /\ s[j] \in Frames
      BY <2>1 DEF Over
    <3>2. s[j].op = "link" => s[j].node \in Linking
      BY <3>1, FrameKinds DEF Suits, Linking
    <3>3. s[j].op = "link" => L[s[j].node] = None
      BY <2>2, <3>1, <3>2 DEF Ready
    <3>4. \A y \in s[j].rest \cap MappedLUNs : L[y] = link[y]
      BY <2>2, <3>1 DEF Linking
    <3>5. QED
      BY <3>1, <3>3, <3>4 DEF Ready
  <2>6. \A y : s[1] \notin ClearsDir(y) /\ s[1] \notin Mends(y) /\ s[1] \notin Disables(y)
    BY DEF ClearsDir, Lists, Mends, Disables
  <2>7. \A y \in Linking : L[y] = None \/ (L[y] = link[y] /\ s[1] \notin ClearsLink(y, link[y]))
    BY <2>2 DEF ClearsLink
  <2>8. \E j \in 2 .. Len(s) : s[j] \in Mends(x)
    <3>1. 1 \in 1 .. Len(s) /\ 1 + 1 = 2
      BY SMT
    <3>2. PICK j \in 2 .. Len(s) : s[j].op = "rmdir" /\ s[j].node = x
      BY <3>1 DEF StackInv, Placed, Unlinks
    <3>3. s[j] \in Mends(x)
      BY <2>1, <3>2 DEF Mends
    <3>4. QED
      BY <3>3
  <2>9. \A y \in dirs \cap Linking : n = 0 /\ L[y] = None =>
          (link[y] = None /\ s[1] \notin Mends(y)) \/ \E j \in 2 .. Len(s) : s[j] \in Mends(y)
    BY <2>2, <2>6, <2>8
  <2>10. StackInv(Tail(s), c, dirs, L, enabled, n)
    BY <2>4, <2>5, <2>6, <2>7, <2>9, PopInv
  <2>11. QED
    BY <2>10 DEF L
<1> DEFINE h == stack[p][1]
           x == h.node
<1>1. ~Idle(p) /\ UNCHANGED <<dirs, enabled>> /\ Head(stack[p]).op = "unlink"
  BY DEF Unlink, At
<1>2. stack[p] \in Seq(Frames) /\ stack[p] # <<>> /\ Head(stack[p]) = h /\ h \in Frames
  BY <1>1, HeadTyped DEF TypeInv, Idle
<1>3. Ready(h, call[p], dirs, link, crashes)
  BY <1>2, HeadFree DEF Kept
<1>4. Node(p) = x /\ h.op = "unlink" /\ x \in dirs /\ x \in Linking
  BY <1>1, <1>2, <1>3, FrameKinds DEF Node, Ready
<1>5. link' = [link EXCEPT ![x] = None] /\ Then(p, <<>>)
  BY <1>4 DEF Unlink
<1>6. StackInv(Tail(stack[p]), call[p], dirs, [link EXCEPT ![x] = None], enabled, crashes)
  BY <1>2, <1>4, <1>UnlinkTail DEF Kept
<1>7. QED
  BY <1>1, <1>4, <1>5, <1>6, ThenPops

(* The kernel accepts every rmdir of a process that works alone. *)
LEMMA RmdirGoes ==
  ASSUME TypeInv, NEW p \in Procs, Kept(p), Rmdir(p)
  PROVE  /\ Goes(p, dirs \ {Node(p)}, link, enabled')
         /\ UNCHANGED link /\ dirs' = dirs \ {Node(p)} /\ enabled' \in SUBSET enabled
(* The rest of the stack is good without the directory, ... *)
<1>RmdirTail. ASSUME NEW s \in Seq(Frames), s # <<>>, NEW x, s[1].op = "rmdir", s[1].node = x,
                     NEW c, NEW n, StackInv(s, c, dirs, link, enabled, n), NEW E \in SUBSET enabled
              PROVE  StackInv(Tail(s), c, dirs \ {x}, link, E, n)
  <2> USE <1>RmdirTail
  <2> DEFINE D == dirs \ {x}
  <2>1. /\ \A i, j \in 2 .. Len(s) : i < j => Leads(s[i], s[j], link)
        /\ \A j \in 2 .. Len(s) : Ready(s[j], c, dirs, link, n) /\ Over(s[1], s[j]) /\ s[j] \in Frames
    BY TailFacts
  <2>2. ASSUME NEW j \in 2 .. Len(s)
        PROVE  Ready(s[j], c, D, link, n)
    <3>1. Ready(s[j], c, dirs, link, n) /\ x \notin s[j].rest
      BY <2>1 DEF Over
    <3>2. s[j].node # x
      BY <2>1, InsideTypes DEF Over
    <3>3. QED
      BY <3>1, <3>2 DEF Ready
  <2>3. \A y \in D : s[1] \notin ClearsDir(y) /\ s[1] \notin Mends(y)
    BY DEF ClearsDir, Lists, Mends
  <2>4. /\ \A y, t : s[1] \notin ClearsLink(y, t)
        /\ \A y : s[1] \notin Disables(y)
    BY DEF ClearsLink, Disables
  <2>5. D \subseteq dirs /\ s[1].op \notin {"link", "except", "delete"}
    OBVIOUS
  <2> HIDE DEF D
  <2>6. StackInv(Tail(s), c, D, link, E, n)
    BY <2>1, <2>2, <2>3, <2>4, <2>5, PopInv
  <2>7. QED
    BY <2>6 DEF D
<1> DEFINE h == stack[p][1]
           x == h.node
<1>1. ~Idle(p) /\ UNCHANGED link /\ Head(stack[p]).op = "rmdir"
  BY DEF Rmdir, At
<1>2. stack[p] \in Seq(Frames) /\ stack[p] # <<>> /\ Head(stack[p]) = h /\ h \in Frames
  BY <1>1, HeadTyped DEF TypeInv, Idle
<1>3. Free(h, call[p], dirs, link, enabled)
  BY <1>2, HeadFree DEF Kept
<1>4. Node(p) = x /\ h.op = "rmdir" /\ x \in Dirs
  BY <1>1, <1>2 DEF Node, Frames, Framed
<1> HIDE DEF h
<1>5. CanRmdir(x)
  <2>1. ASSUME NEW y \in Below(x, Dirs) PROVE FALSE
    <3>1. y \in dirs /\ h \in BlockedByDir(call[p], y)
      BY <1>2, <1>4 DEF Below, BlockedByDir
    <3>2. QED
      BY <1>3, <3>1 DEF Free
  <2>2. ASSUME NEW y \in Linking, y = x \/ link[y] = x, link[y] # None PROVE FALSE
    <3>1. h \in BlockedByLink(y, link[y])
      BY <1>2, <1>4, <2>2 DEF BlockedByLink
    <3>2. QED
      BY <1>3, <2>2, <3>1 DEF Free
  <2>3. x # None
    BY <1>4, Disjoint
  <2>4. QED
    BY <2>1, <2>2, <2>3 DEF CanRmdir, LinkedTo
<1>6. Then(p, <<>>) /\ dirs' = dirs \ {x} /\ enabled' \in SUBSET enabled
  BY <1>4, <1>5 DEF Rmdir
<1>7. StackInv(Tail(stack[p]), call[p], dirs \ {x}, link, enabled', crashes)
  BY <1>2, <1>4, <1>6, <1>RmdirTail DEF Kept, h
<1>8. QED
  BY <1>1, <1>4, <1>6, <1>7, ThenPops

-----------------------------------------------------------------------------
(* The stacks with which calls begin. *)

(* A constructor is not meant to delete anything. *)
LEMMA NoneNotMeant ==
  ASSUME NEW D \in SUBSET Dirs
  PROVE  ~Wide(None) /\ None \notin Dirs /\ \A y \in D : ~Meant(None, y)
BY Disjoint DEF Wide, Meant, Dirs

-----------------------------------------------------------------------------
(* One process. *)

(* A constructor either ends with the symlink or goes on to clean up. *)
LEMMA LinkGoes ==
  ASSUME TypeInv, NEW p \in Procs, Kept(p), Link(p)
  PROVE  /\ Goes(p, dirs, link', enabled) /\ UNCHANGED <<dirs, enabled>>
         /\ call[p] = None
(* The constructor that failed has its own delete() to do. *)
<1>CleanupInv. ASSUME NEW D \in SUBSET Dirs, NEW L, NEW E, NEW n, NEW x \in D \cap Linking,
                      n = 0 => \A z \in D \cap Linking : z # x => L[z] # None
               PROVE  /\ <<Do("delete", x)>> \in Seq(Frames)
                      /\ StackInv(<<Do("delete", x)>>, None, D, L, E, n)
  <2> USE <1>CleanupInv
  <2> DEFINE f == Do("delete", x)
             s == <<f>>
  <2>1. f \in Frames /\ f.op = "delete" /\ f.node = x
    BY DoTyped DEF Do, Frame
  <2> HIDE DEF f
  <2>2. s \in Seq(Frames) /\ Len(s) = 1 /\ s[1] = f /\ \A i \in 1 .. Len(s) : s[i] = f
    BY <2>1, SMT
  <2> HIDE DEF s
  <2>3. InOrder(s, L)
    BY <2>2, SMT DEF InOrder
  <2>4. AllReady(s, None, D, L, n)
    BY <2>1, <2>2 DEF AllReady, Ready, Lists
  <2>5. ~Wide(None) /\ None # <<>> /\ None \notin Dirs /\ \A y \in D : ~Meant(None, y)
    BY NoneNotMeant, Disjoint
  <2>6. \A B, C : f \notin B => Covers(s, B, C)
    BY <2>2 DEF Covers
  <2>7. DirsCleared(s, None, D)
    <3>1. \A y : f \notin BlockedByDir(None, y)
      BY <2>1, <2>5 DEF BlockedByDir
    <3>2. QED
      BY <2>6, <3>1 DEF DirsCleared
  <2>8. LinksCleared(s, L)
    <3>1. \A y, t : f \notin BlockedByLink(y, t)
      BY <2>1 DEF BlockedByLink
    <3>2. QED
      BY <2>6, <3>1 DEF LinksCleared
  <2>9. TPGsDisabled(s, None, E)
    <3>1. \A y : f \notin BlockedByEnable(None, y)
      BY <2>5 DEF BlockedByEnable
    <3>2. QED
      BY <2>6, <3>1 DEF TPGsDisabled
  <2>10. Sweeps(s, None, D)
    BY <2>5 DEF Sweeps
  <2>11. BreaksMended(s, D, L, n)
    <3>1. f \in Mends(x)
      BY <2>1 DEF Mends
    <3>2. Has(s, Mends(x))
      BY <2>2, <3>1, SMT DEF Has
    <3>3. QED
      BY <3>2 DEF BreaksMended
  <2>12. Placed(s, None)
    <3>1. Unlinks(s) /\ Detaches(s)
      BY <2>1, <2>2 DEF Unlinks, Detaches
    <3>2. QED
      BY <2>1, <2>2, <2>5, <3>1 DEF Placed
  <2>13. QED
    BY <2>2, <2>3, <2>4, <2>7, <2>8, <2>9, <2>10, <2>11, <2>12 DEF StackInv, s, f
<1> DEFINE h == stack[p][1]
           s == stack[p]
           x == h.node
<1>1. ~Idle(p) /\ UNCHANGED <<dirs, enabled>> /\ Head(stack[p]).op = "link"
  BY DEF Link, At
<1>2. s \in Seq(Frames) /\ s # <<>> /\ Head(stack[p]) = h /\ h \in Frames
  BY <1>1, HeadTyped DEF TypeInv, Idle
<1>3. Ready(h, call[p], dirs, link, crashes)
  BY <1>2, HeadFree DEF Kept
<1>4. Node(p) = x /\ h.op = "link" /\ x \in dirs
  BY <1>1, <1>2, <1>3 DEF Node, Ready
<1>5. PICK t \in LUNs \cup SOs : h.rest = {t} /\ Suits(x, t)
  BY <1>2, <1>4, FrameKinds
<1>6. x \in Linking /\ x \in dirs \cap Linking /\ dirs \in SUBSET Dirs
  BY <1>4, <1>5 DEF Suits, Linking, TypeInv, TypeOK
<1>7. Len(s) = 2 /\ s[2] = Do("except", x) /\ call[p] = None
  <2>1. 1 \in 1 .. Len(s)
    BY <1>2, SMT
  <2>2. QED
    BY <1>4, <2>1 DEF Kept, StackInv, Placed
<1>8. crashes = 0 => \A z \in dirs \cap Linking : z # x => link[z] # None
  <2>1. SUFFICES ASSUME crashes = 0, NEW z \in dirs \cap Linking, z # x, link[z] = None PROVE FALSE
    OBVIOUS
  <2>2. PICK i \in 1 .. Len(s) : s[i] \in Mends(z)
    BY <2>1 DEF Kept, StackInv, BreaksMended, Has
  <2>3. i = 1 \/ i = 2
    BY <1>7, OneOrTwo
  <2>4. s[2].node = x
    <3>1. Do("except", x).node = x
      BY DEF Do, Frame
    <3>2. QED
      BY <1>7, <3>1
  <2>5. s[1] \notin Mends(z) /\ s[2] \notin Mends(z)
    BY <2>1, <2>4 DEF Mends
  <2>6. QED
    BY <2>2, <2>3, <2>5
<1>9. Raise(p) => Become(p, <<Do("delete", x)>>)
  BY <1>7, SMT DEF Raise, Do, Frame
<1>10. /\ link' = link \/ link' = [link EXCEPT ![x] = t]
       /\ \/ Become(p, <<Do("delete", x)>>)
          \/ Become(p, <<>>) /\ link' = [link EXCEPT ![x] = t]
  <2>1. Head(stack[p]).rest = {t}
    BY <1>2, <1>5
  <2>2. QED
    BY <1>4, <1>9, <2>1 DEF Link
<1>11. crashes = 0 => \A z \in dirs \cap Linking : z # x => link'[z] # None
  BY <1>8, <1>10 DEF TypeInv, TypeOK
<1>12. CASE Become(p, <<Do("delete", x)>>)
  <2>1. /\ <<Do("delete", x)>> \in Seq(Frames)
        /\ StackInv(<<Do("delete", x)>>, None, dirs, link', enabled, crashes)
    BY <1>6, <1>11, <1>CleanupInv
  <2>2. QED
    BY <1>1, <1>7, <1>12, <2>1 DEF Goes
<1>13. CASE Become(p, <<>>) /\ link' = [link EXCEPT ![x] = t]
  <2>1. link'[x] # None
    BY <1>5, <1>6, <1>13, Disjoint DEF TypeInv, TypeOK, Dirs
  <2>2. crashes = 0 => \A z \in dirs \cap Linking : link'[z] # None
    BY <1>11, <2>1
  <2>3. StackInv(<<>>, None, dirs, link', enabled, crashes)
    BY <1>6, <2>2, NoneNotMeant, EmptyInv
  <2>4. <<>> \in Seq(Frames)
    BY SMT
  <2>5. QED
    BY <1>1, <1>7, <1>13, <2>3, <2>4 DEF Goes
<1>14. QED
  BY <1>10, <1>12, <1>13

(* Every step of a process that works alone keeps to its stack, or meets   *)
(* what a crash has left.                                                  *)
LEMMA StepGoes ==
  ASSUME TypeInv, TreeInv, NEW p \in Procs, Kept(p), Step(p)
  PROVE  Goes(p, dirs', link', enabled') \/ (Broken(p) /\ UNCHANGED Configfs)
<1>1. CASE Link(p)
  BY <1>1, LinkGoes
<1>2. CASE Delete(p)
  BY <1>2, DeleteGoes DEF Configfs
<1>3. CASE Disable(p)
  BY <1>3, DisableGoes
<1>4. CASE List(p) \/ ListAll(p)
  BY <1>4, ListGoes DEF Configfs
<1>5. CASE DeleteNext(p)
  BY <1>5, NextGoes DEF Configfs
<1>6. CASE Unmap(p)
  BY <1>6, UnmapGoes DEF Configfs
<1>7. CASE Detach(p)
  BY <1>7, DetachGoes DEF Configfs
<1>8. CASE Attached(p)
  BY <1>8, AttachedGoes DEF Configfs
<1>9. CASE Unlink(p)
  BY <1>9, UnlinkGoes
<1>10. CASE Rmdir(p)
  BY <1>10, RmdirGoes
<1>11. QED
  BY <1>1, <1>2, <1>3, <1>4, <1>5, <1>6, <1>7, <1>8, <1>9, <1>10 DEF Step

(* One process works alone. *)
Alone == \E p : Procs = {p}

AloneInv ==
  /\ TypeInv /\ TreeInv
  /\ \A p \in Procs : Kept(p) /\ (Idle(p) => call[p] = None)

(* A step that goes on as it should keeps the invariant of its process. *)
LEMMA GoesKeeps ==
  ASSUME TypeInv, TypeInv', NEW p \in Procs,
         \/ Goes(p, dirs', link', enabled')
         \/ Broken(p)
  PROVE  Kept(p)' /\ (Idle(p)' => call'[p] = None)
<1>1. dirs' \in SUBSET Dirs
  BY DEF TypeInv, TypeOK
<1>2. stack \in [Procs -> Seq(Frames)] /\ call \in [Procs -> {<<>>, None} \cup Dirs]
  BY DEF TypeInv, TypeOK
<1>3. PICK t \in Seq(Frames) :
        /\ Become(p, t)
        /\ \/ StackInv(t, call[p], dirs', link', enabled', crashes)
           \/ t = <<>> /\ crashes # 0
  <2>1. <<>> \in Seq(Frames)
    BY SMT
  <2>2. QED
    BY <2>1 DEF Goes, Broken
<1>4. /\ stack'[p] = t /\ crashes' = crashes
      /\ call'[p] = IF t = <<>> THEN None ELSE call[p]
  BY <1>2, <1>3 DEF Become
<1>5. CASE t = <<>>
  <2>1. crashes' = 0 => \A z \in dirs' \cap Linking : link'[z] # None
    <3>1. crashes = 0 => StackInv(<<>>, call[p], dirs', link', enabled', crashes)
      BY <1>3, <1>5
    <3>2. QED
      BY <1>4, <3>1, EmptyMeans
  <2>2. StackInv(<<>>, None, dirs', link', enabled', crashes')
    BY <1>1, <2>1, NoneNotMeant, EmptyInv
  <2>3. QED
    BY <1>4, <1>5, <2>2 DEF Kept
<1>6. CASE t # <<>>
  BY <1>3, <1>4, <1>6 DEF Kept, Idle
<1>7. QED
  BY <1>5, <1>6

(* Between calls no LUN lacks its symlink, unless there was a crash. *)
LEMMA IdleWhole ==
  ASSUME NEW p \in Procs, Kept(p), Idle(p)
  PROVE  crashes = 0 => \A z \in dirs \cap Linking : link[z] # None
BY EmptyMeans DEF Kept, Idle

(* A call of p starts, or p works without a call. *)
LEMMA BeginKeeps ==
  ASSUME AloneInv, TypeInv', NEW p \in Procs,
         \/ \E x \in Dirs \ Linking : NewNode(p, x)
         \/ \E x \in Linking, y \in LUNs \cup SOs : NewLink(p, x, y)
         \/ \E x \in TPGs : SetEnable(p, x)
         \/ \E x \in Dirs : BeginDelete(p, x)
         \/ BeginClear(p)
         \/ Crash(p)
  PROVE  Kept(p)' /\ (Idle(p)' => call'[p] = None)
(* The constructor has made its directory. *)
<1>LinkInv. ASSUME NEW D \in SUBSET Dirs, NEW L, NEW E, NEW n, NEW x \in D \cap Linking, L[x] = None,
                   NEW y \in LUNs \cup SOs, Suits(x, y),
                   n = 0 => \A z \in D \cap Linking : z # x => L[z] # None
            PROVE  /\ <<Frame("link", x, {y}), Do("except", x)>> \in Seq(Frames)
                   /\ StackInv(<<Frame("link", x, {y}), Do("except", x)>>, None, D, L, E, n)
  <2> USE <1>LinkInv
  <2> DEFINE f == Frame("link", x, {y})
             g == Do("except", x)
             s == <<f, g>>
  <2>1. /\ f \in Frames /\ f.op = "link" /\ f.node = x
        /\ g \in Frames /\ g.op = "except" /\ g.node = x /\ g.rest = {}
    BY DoTyped, FrameTyped DEF Do, Frame
  <2> HIDE DEF f, g
  <2>2. /\ s \in Seq(Frames) /\ Len(s) = 2 /\ s[1] = f /\ s[2] = g
        /\ \A i \in 1 .. Len(s) : s[i] = f \/ s[i] = g
    BY <2>1, SMT
  <2> HIDE DEF s
  <2>3. InOrder(s, L)
    <3>1. Over(f, g)
      BY <2>1 DEF Over
    <3>2. Leads(f, g, L)
      BY <2>1, Disjoint DEF Leads
    <3>3. \A i, j \in 1 .. Len(s) : i < j => i = 1 /\ j = 2
      BY <2>2, SMT
    <3>4. QED
      BY <2>2, <3>1, <3>2, <3>3 DEF InOrder
  <2>4. AllReady(s, None, D, L, n)
    <3>1. Ready(f, None, D, L, n) /\ Ready(g, None, D, L, n)
      BY <2>1 DEF Ready, Lists
    <3>2. QED
      BY <2>2, <3>1 DEF AllReady
  <2>5. ~Wide(None) /\ None # <<>> /\ None \notin Dirs /\ \A z \in D : ~Meant(None, z)
    BY NoneNotMeant, Disjoint
  <2>6. \A B, C : f \notin B /\ g \notin B => Covers(s, B, C)
    BY <2>2 DEF Covers
  <2>7. DirsCleared(s, None, D)
    <3>1. \A z : f \notin BlockedByDir(None, z) /\ g \notin BlockedByDir(None, z)
      BY <2>1, <2>5 DEF BlockedByDir
    <3>2. QED
      BY <2>6, <3>1 DEF DirsCleared
  <2>8. LinksCleared(s, L)
    <3>1. \A z, t : f \notin BlockedByLink(z, t) /\ g \notin BlockedByLink(z, t)
      BY <2>1 DEF BlockedByLink
    <3>2. QED
      BY <2>6, <3>1 DEF LinksCleared
  <2>9. TPGsDisabled(s, None, E)
    <3>1. \A z : f \notin BlockedByEnable(None, z) /\ g \notin BlockedByEnable(None, z)
      BY <2>5 DEF BlockedByEnable
    <3>2. QED
      BY <2>6, <3>1 DEF TPGsDisabled
  <2>10. Sweeps(s, None, D)
    BY <2>5 DEF Sweeps
  <2>11. BreaksMended(s, D, L, n)
    <3>1. f \in Mends(x)
      BY <2>1 DEF Mends
    <3>2. Has(s, Mends(x))
      BY <2>2, <3>1, SMTT(30) DEF Has
    <3>3. QED
      BY <3>2 DEF BreaksMended
  <2>12. Placed(s, None)
    <3>1. Unlinks(s) /\ Detaches(s)
      BY <2>1, <2>2 DEF Unlinks, Detaches
    <3>2. s[2] = Do("except", s[1].node)
      BY <2>1, <2>2 DEF g
    <3>3. QED
      BY <2>1, <2>2, <2>5, <3>1, <3>2 DEF Placed
  <2>13. QED
    BY <2>2, <2>3, <2>4, <2>7, <2>8, <2>9, <2>10, <2>11, <2>12 DEF StackInv, s, f, g
(* clear_existing() starts. *)
<1>ClearInv. ASSUME TypeInv, NEW n, n = 0 => \A z \in dirs \cap Linking : link[z] # None
             PROVE  /\ <<Do("targets", <<>>), Do("sos", <<>>)>> \in Seq(Frames)
                    /\ StackInv(<<Do("targets", <<>>), Do("sos", <<>>)>>, <<>>, dirs, link, enabled, n)
  <2> USE <1>ClearInv
  <2> DEFINE f == Do("targets", <<>>)
             g == Do("sos", <<>>)
             s == <<f, g>>
  <2>1. /\ f \in Frames /\ f.op = "targets" /\ f.node = <<>>
        /\ g \in Frames /\ g.op = "sos" /\ g.node = <<>> /\ g.rest = {}
    BY DoTyped DEF Do, Frame
  <2> HIDE DEF f, g
  <2>2. /\ s \in Seq(Frames) /\ Len(s) = 2 /\ s[1] = f /\ s[2] = g
        /\ \A i \in 1 .. Len(s) : s[i] = f \/ s[i] = g
    BY <2>1, SMT
  <2> HIDE DEF s
  <2>3. <<>> \notin Dirs /\ <<>> # None /\ dirs \in SUBSET Dirs /\ enabled \in SUBSET TPGs
    BY Disjoint DEF TypeInv, TypeOK
  <2>4. <<>> \notin LUNs \cup MappedLUNs \cup SOs \cup TPGs
    BY <2>3 DEF Dirs
  <2>5. InOrder(s, link)
    <3>1. Over(f, g)
      BY <2>1 DEF Over
    <3>2. Leads(f, g, link)
      BY <2>1, <2>4 DEF Leads
    <3>3. \A i, j \in 1 .. Len(s) : i < j => i = 1 /\ j = 2
      BY <2>2, SMT
    <3>4. QED
      BY <2>2, <3>1, <3>2, <3>3 DEF InOrder
  <2>6. AllReady(s, <<>>, dirs, link, n)
    <3>1. Ready(f, <<>>, dirs, link, n) /\ Ready(g, <<>>, dirs, link, n)
      BY <2>1 DEF Ready, Lists
    <3>2. QED
      BY <2>2, <3>1 DEF AllReady
  <2>7. \A B, C : f \notin B /\ (g \notin B \/ f \in C) => Covers(s, B, C)
    <3>1. ASSUME NEW B, NEW C, f \notin B, g \notin B \/ f \in C, NEW i \in 1 .. Len(s), s[i] \in B
          PROVE  \E j \in 1 .. i - 1 : s[j] \in C
      <4>1. i = 2 /\ f \in C
        BY <2>2, <3>1, OneOrTwo
      <4>2. 1 \in 1 .. i - 1 /\ s[1] \in C
        BY <2>2, <4>1, SMT
      <4>3. QED
        BY <4>2
    <3>2. QED
      BY <3>1 DEF Covers
  <2>8. DirsCleared(s, <<>>, dirs)
    <3>1. SUFFICES ASSUME NEW y \in dirs
                   PROVE  Covers(s, BlockedByDir(<<>>, y), ClearsDir(y))
      BY DEF DirsCleared
    <3>2. f \notin BlockedByDir(<<>>, y)
      BY <2>1, <2>4 DEF BlockedByDir
    <3>3. g \in BlockedByDir(<<>>, y) => y \in TargetDirs
      BY <2>1, <2>4 DEF BlockedByDir
    <3>4. y \in TargetDirs => f \in ClearsDir(y)
      BY <2>1 DEF ClearsDir
    <3>5. QED
      BY <2>7, <3>2, <3>3, <3>4
  <2>9. LinksCleared(s, link)
    <3>1. \A z, t : f \notin BlockedByLink(z, t) /\ g \notin BlockedByLink(z, t)
      BY <2>1 DEF BlockedByLink
    <3>2. QED
      BY <2>7, <3>1 DEF LinksCleared
  <2>10. TPGsDisabled(s, <<>>, enabled)
    <3>1. \A z \in enabled : ~Inside(<<>>, z) /\ z # <<>>
      BY <2>3, <2>4, InsideTypes
    <3>2. \A z \in enabled : f \notin BlockedByEnable(<<>>, z) /\ g \notin BlockedByEnable(<<>>, z)
      BY <2>1, <3>1 DEF BlockedByEnable
    <3>3. QED
      BY <2>7, <3>2 DEF TPGsDisabled
  <2>11. Sweeps(s, <<>>, dirs)
    <3>1. SUFFICES ASSUME NEW y \in dirs, Meant(<<>>, y)
                   PROVE  Has(s, ClearsDir(y))
      BY DEF Sweeps
    <3>2. Parent(y) = <<>> /\ y \in Dirs
      BY <2>3, <3>1 DEF Meant
    <3>3. y \in TargetDirs \cup SOs
      <4>1. ASSUME y \notin TargetDirs \cup SOs PROVE Parent(y) \in Dirs
        BY <3>2, <4>1, ParentKinds DEF Dirs
      <4>2. QED
        BY <3>2, <4>1, Disjoint
    <3>4. f \in ClearsDir(y) \/ g \in ClearsDir(y)
      BY <2>1, <3>3 DEF ClearsDir
    <3>5. QED
      BY <2>2, <3>4, SMT DEF Has
  <2>12. BreaksMended(s, dirs, link, n)
    BY DEF BreaksMended
  <2>13. Placed(s, <<>>)
    <3>1. Unlinks(s) /\ Detaches(s)
      BY <2>1, <2>2 DEF Unlinks, Detaches
    <3>2. QED
      BY <2>1, <2>2, <2>3, <3>1 DEF Placed
  <2>14. QED
    BY <2>2, <2>5, <2>6, <2>8, <2>9, <2>10, <2>11, <2>12, <2>13 DEF StackInv, s, f, g
(* delete() starts. *)
<1>DeleteInv. ASSUME TypeInv, TreeInv, NEW n, n = 0 => \A z \in dirs \cap Linking : link[z] # None,
                     NEW x \in dirs
              PROVE  /\ DeleteFrames(x) \in Seq(Frames)
                     /\ StackInv(DeleteFrames(x), x, dirs, link, enabled, n)
  <2> USE <1>DeleteInv
  <2> DEFINE s == DeleteFrames(x)
  <2>1. x \in Dirs /\ enabled \in SUBSET TPGs /\ dirs \in SUBSET Dirs
    BY DEF TypeInv, TypeOK
  <2>2. x # <<>> /\ x # None
    BY <2>1, Disjoint
  <2>3. Safe(x, x)
    <3>1. ~(Wide(x) /\ x \in LUNs)
      BY <2>2, Disjoint DEF Wide
    <3>2. Wide(x) => \A y \in enabled : ~Inside(x, y)
      BY <2>1, <2>2, Disjoint, InTPG DEF Wide
    <3>3. QED
      BY <2>2, <3>1, <3>2 DEF Safe
  <2>4. Shaped(s, x) /\ s \in Seq(Frames)
    BY <2>1, DeleteShaped, DeleteFramesTyped
  <2>5. /\ AllReady(s, x, dirs, link, n) /\ DirsCleared(s, x, dirs)
        /\ LinksCleared(s, link) /\ TPGsDisabled(s, x, enabled)
    BY <2>3, DeleteReady, DeleteDirsCleared, DeleteLinksCleared, DeleteTPGsDisabled
  <2> HIDE DEF s
  <2>6. InOrder(s, link) /\ Unlinks(s) /\ Detaches(s)
    BY <2>4, ShapedOrder
  <2>7. s[Len(s)] = Do("rmdir", x) /\ Len(s) \in 1 .. Len(s) /\ s[Len(s)] \in Frames
    BY <2>4, SMT DEF Shaped
  <2>8. Sweeps(s, x, dirs)
    <3>1. s[Len(s)] \in ClearsDir(x)
      BY <2>7, SMT DEF ClearsDir, Do, Frame
    <3>2. Has(s, ClearsDir(x))
      BY <2>7, <3>1 DEF Has
    <3>3. QED
      BY <2>2, <3>2 DEF Sweeps, Meant
  <2>9. BreaksMended(s, dirs, link, n)
    BY DEF BreaksMended
  <2>10. Placed(s, x)
    BY <2>2, <2>4, <2>6, <2>7 DEF Placed, Shaped
  <2>11. QED
    BY <2>4, <2>5, <2>6, <2>8, <2>9, <2>10 DEF StackInv, s
<1>1. /\ TypeInv /\ TreeInv /\ Kept(p) /\ (Idle(p) => call[p] = None)
      /\ dirs \in SUBSET Dirs /\ dirs' \in SUBSET Dirs
      /\ stack \in [Procs -> Seq(Frames)] /\ call \in [Procs -> {<<>>, None} \cup Dirs]
  BY DEF AloneInv, TypeInv, TypeOK
<1>2. Idle(p) => (crashes = 0 => \A z \in dirs \cap Linking : link[z] # None)
  BY <1>1, IdleWhole
<1>3. ASSUME stack'[p] = <<>>, call'[p] = None,
             crashes' = 0 => \A z \in dirs' \cap Linking : link'[z] # None
      PROVE  Kept(p)' /\ (Idle(p)' => call'[p] = None)
  <2>1. StackInv(<<>>, None, dirs', link', enabled', crashes')
    BY <1>1, <1>3, NoneNotMeant, EmptyInv
  <2>2. QED
    BY <1>3, <2>1 DEF Kept
<1>4. ASSUME NEW x \in Dirs \ Linking, NewNode(p, x)
      PROVE  Kept(p)' /\ (Idle(p)' => call'[p] = None)
  <2>1. stack'[p] = <<>> /\ call'[p] = None
    BY <1>1, <1>4 DEF NewNode, Idle
  <2>2. crashes' = 0 => \A z \in dirs' \cap Linking : link'[z] # None
    BY <1>2, <1>4 DEF NewNode
  <2>3. QED
    BY <1>3, <2>1, <2>2
<1>5. ASSUME NEW x \in TPGs, SetEnable(p, x)
      PROVE  Kept(p)' /\ (Idle(p)' => call'[p] = None)
  <2>1. stack'[p] = <<>> /\ call'[p] = None
    BY <1>1, <1>5 DEF SetEnable, Idle
  <2>2. crashes' = 0 => \A z \in dirs' \cap Linking : link'[z] # None
    BY <1>2, <1>5 DEF SetEnable
  <2>3. QED
    BY <1>3, <2>1, <2>2
<1>6. CASE Crash(p)
  <2>1. stack'[p] = <<>> /\ call'[p] = None
    BY <1>1, <1>6 DEF Crash
  <2>2. crashes' # 0
    BY <1>1, <1>6, CrashesNat DEF Crash, TypeInv, TypeOK
  <2>3. QED
    BY <1>3, <2>1, <2>2
<1>7. ASSUME NEW c, NEW fs \in Seq(Frames), fs # <<>>, Begin(p, c, fs),
             StackInv(fs, c, dirs', link', enabled', crashes)
      PROVE  Kept(p)' /\ (Idle(p)' => call'[p] = None)
  <2>1. stack'[p] = fs /\ call'[p] = c /\ crashes' = crashes
    BY <1>1, <1>7 DEF Begin
  <2>2. QED
    BY <1>7, <2>1 DEF Kept, Idle
<1>8. ASSUME NEW x \in Linking, NEW y \in LUNs \cup SOs, NewLink(p, x, y)
      PROVE  Kept(p)' /\ (Idle(p)' => call'[p] = None)
  <2> DEFINE fs == <<Frame("link", x, {y}), Do("except", x)>>
  <2>1. Begin(p, None, fs) /\ Idle(p) /\ dirs' = dirs \cup {x} /\ UNCHANGED <<link, enabled>>
    BY <1>8 DEF NewLink, Begin
  <2>2. x \in dirs' \cap Linking /\ Suits(x, y) /\ link[x] = None
    BY <1>1, <1>8, <2>1 DEF NewLink, Suits, TreeInv, Tree
  <2>3. crashes = 0 => \A z \in dirs' \cap Linking : z # x => link[z] # None
    BY <1>2, <2>1
  <2>4. fs \in Seq(Frames) /\ StackInv(fs, None, dirs', link, enabled, crashes)
    BY <1>1, <2>2, <2>3, <1>LinkInv
  <2>5. fs # <<>>
    OBVIOUS
  <2> HIDE DEF fs
  <2>6. QED
    BY <1>7, <2>1, <2>4, <2>5
<1>9. ASSUME NEW x \in Dirs, BeginDelete(p, x)
      PROVE  Kept(p)' /\ (Idle(p)' => call'[p] = None)
  <2>1. x \in dirs /\ Begin(p, x, DeleteFrames(x)) /\ Idle(p) /\ UNCHANGED <<dirs, link, enabled>>
    BY <1>9 DEF BeginDelete, Begin, Configfs
  <2>2. DeleteFrames(x) \in Seq(Frames) /\ StackInv(DeleteFrames(x), x, dirs, link, enabled, crashes)
    BY <1>1, <1>2, <2>1, <1>DeleteInv
  <2>3. DeleteFrames(x) # <<>>
    BY DeleteShaped DEF Shaped
  <2>4. QED
    BY <1>7, <2>1, <2>2, <2>3
<1>10. CASE BeginClear(p)
  <2> DEFINE fs == <<Do("targets", <<>>), Do("sos", <<>>)>>
  <2>1. Begin(p, <<>>, fs) /\ Idle(p) /\ UNCHANGED <<dirs, link, enabled>>
    BY <1>10 DEF BeginClear, Begin, Configfs
  <2>2. fs \in Seq(Frames) /\ StackInv(fs, <<>>, dirs, link, enabled, crashes)
    BY <1>1, <1>2, <2>1, <1>ClearInv
  <2>3. fs # <<>>
    OBVIOUS
  <2> HIDE DEF fs
  <2>4. QED
    BY <1>7, <2>1, <2>2, <2>3
<1>11. QED
  BY <1>4, <1>5, <1>6, <1>8, <1>9, <1>10

(* The invariant holds at the start, ... *)
LEMMA AloneInit == Init => AloneInv
<1>1. SUFFICES ASSUME Init PROVE AloneInv
  OBVIOUS
<1>2. TypeInv /\ TreeInv
  BY <1>1, TypeInit, TreeInit
<1>3. \A p \in Procs : stack[p] = <<>> /\ call[p] = None
  BY <1>1 DEF Init
<1>4. StackInv(<<>>, None, dirs, link, enabled, crashes)
  <2>1. dirs = {} /\ dirs \in SUBSET Dirs
    BY <1>1 DEF Init
  <2>2. QED
    BY <2>1, EmptyInv
<1>5. QED
  BY <1>2, <1>3, <1>4 DEF AloneInv, Kept

(* ... and one process keeps it. *)
LEMMA AloneNext ==
  ASSUME Alone, AloneInv, [Next]_vars
  PROVE  AloneInv'
<1>1. TypeInv /\ TreeInv
  BY DEF AloneInv
<1>2. TypeInv' /\ TreeInv'
  BY <1>1, TypeNext, TreeNext
<1>3. ASSUME NEW p \in Procs, Kept(p)' /\ (Idle(p)' => call'[p] = None)
      PROVE  AloneInv'
  BY <1>2, <1>3 DEF Alone, AloneInv
<1>4. CASE UNCHANGED vars
  <2>1. \A p \in Procs : Kept(p)' /\ (Idle(p)' => call'[p] = None)
    BY <1>4 DEF vars, AloneInv, Kept, Idle
  <2>2. QED
    BY <1>2, <2>1 DEF AloneInv
<1>5. ASSUME NEW p \in Procs, Step(p)
      PROVE  AloneInv'
  <2>1. Kept(p)
    BY DEF AloneInv
  <2>2. Goes(p, dirs', link', enabled') \/ Broken(p)
    BY <1>1, <1>5, <2>1, StepGoes
  <2>3. QED
    BY <1>1, <1>2, <1>3, <2>2, GoesKeeps
<1>6. ASSUME NEW p \in Procs,
             \/ \E x \in Dirs \ Linking : NewNode(p, x)
             \/ \E x \in Linking, y \in LUNs \cup SOs : NewLink(p, x, y)
             \/ \E x \in TPGs : SetEnable(p, x)
             \/ \E x \in Dirs : BeginDelete(p, x)
             \/ BeginClear(p)
             \/ Crash(p)
      PROVE  AloneInv'
  BY <1>2, <1>3, <1>6, BeginKeeps
<1>7. QED
  BY <1>4, <1>5, <1>6 DEF Next

(* A process that works alone, and that has not died, leaves no LUN and no *)
(* mapped LUN without its symlink, whatever fails in its constructors.     *)
THEOREM NoBrokenLinkAlone ==
  ASSUME Alone
  PROVE  Spec => []NoBrokenLink
<1>1. Init => AloneInv
  BY AloneInit
<1>2. AloneInv /\ [Next]_vars => AloneInv'
  BY AloneNext
<1>3. AloneInv => NoBrokenLink
  <2>1. SUFFICES ASSUME AloneInv, crashes = 0, \A p \in Procs : Idle(p)
                 PROVE  \A x \in dirs \cap Linking : link[x] # None
    BY DEF NoBrokenLink
  <2>2. PICK p : p \in Procs
    BY DEF Alone
  <2>3. QED
    BY <2>1, <2>2, IdleWhole DEF AloneInv
<1>4. QED
  BY <1>1, <1>2, <1>3, PTL, SMTT(30) DEF Spec

-----------------------------------------------------------------------------
(* What calls achieve. *)

(* In a call, the next step is the process's own. *)
LEMMA InCall ==
  ASSUME Alone, AloneInv, [Next]_vars, NEW p \in Procs, call[p] # None
  PROVE  /\ ~Idle(p)
         /\ Step(p) \/ Crash(p) \/ UNCHANGED vars
<1>1. ~Idle(p)
  BY DEF AloneInv
<1>2. CASE UNCHANGED vars
  BY <1>1, <1>2
<1>3. CASE Next
  <2>1. PICK q \in Procs :
          \/ \E x \in Dirs \ Linking : NewNode(q, x)
          \/ \E x \in Linking, target \in LUNs \cup SOs : NewLink(q, x, target)
          \/ \E x \in TPGs : SetEnable(q, x)
          \/ \E x \in Dirs : BeginDelete(q, x)
          \/ BeginClear(q)
          \/ Step(q)
          \/ Crash(q)
    BY <1>3 DEF Next
  <2>2. q = p
    BY SMT DEF Alone
  <2>3. QED
    BY <1>1, <2>1, <2>2 DEF NewNode, NewLink, SetEnable, BeginDelete, BeginClear, Begin
<1>4. QED
  BY <1>2, <1>3

(* When a call is over, what it was meant to delete is gone, unless a      *)
(* crash came before and the node is a LUN or a storage object.            *)
LEMMA EndsMeans ==
  ASSUME Alone, AloneInv, [Next]_vars, NEW p \in Procs, Ends(p), call[p] # None
  PROVE  \/ \A y \in dirs' : ~Meant(call[p], y)
         \/ crashes # 0 /\ call[p] \in LUNs \cup SOs \cup {None}
<1>1. /\ TypeInv /\ TreeInv /\ Kept(p) /\ crashes \in Nat
      /\ stack \in [Procs -> Seq(Frames)]
  <2>1. TypeInv /\ TreeInv /\ Kept(p)
    BY DEF AloneInv
  <2>2. crashes \in Nat
    BY <2>1, CrashesNat DEF TypeInv, TypeOK
  <2>3. QED
    BY <2>1, <2>2 DEF TypeInv
<1>2. Step(p)
  BY <1>1, InCall, SMT DEF Ends, Crash, vars
<1>3. Goes(p, dirs', link', enabled') \/ Broken(p)
  BY <1>1, <1>2, StepGoes
<1>4. CASE Broken(p)
  BY <1>4 DEF Broken
<1>5. CASE Goes(p, dirs', link', enabled')
  <2>1. PICK t \in Seq(Frames) :
          Become(p, t) /\ StackInv(t, call[p], dirs', link', enabled', crashes)
    BY <1>5 DEF Goes
  <2>2. t = <<>>
    BY <1>1, <2>1 DEF Become, Ends
  <2>3. QED
    BY <2>1, <2>2, EmptyMeans
<1>6. QED
  BY <1>3, <1>4, <1>5

(* The invariant always holds for one process. *)
LEMMA AloneAlways ==
  ASSUME Alone
  PROVE  Spec => []AloneInv
<1>1. Init => AloneInv
  BY AloneInit
<1>2. AloneInv /\ [Next]_vars => AloneInv'
  BY AloneNext
<1>3. QED
  BY <1>1, <1>2, PTL, SMTT(30) DEF Spec

(* A process that works alone and never died: when delete() is over, the   *)
(* node is gone.  No rmdir on the way is refused.                          *)
THEOREM DeleteDeletesAlone ==
  ASSUME Alone
  PROVE  Spec => DeleteDeletesUnlessCrashed
<1>1. AloneInv /\ [Next]_vars =>
        [\A p \in Procs : Ends(p) /\ call[p] \in Dirs /\ crashes = 0 => call[p] \notin dirs']_vars
  <2>1. SUFFICES ASSUME AloneInv, [Next]_vars, NEW p \in Procs,
                        Ends(p), call[p] \in Dirs, crashes = 0
                 PROVE  call[p] \notin dirs'
    OBVIOUS
  <2>2. call[p] # None
    BY <2>1, Disjoint
  <2>3. \A y \in dirs' : ~Meant(call[p], y)
    BY <2>1, <2>2, EndsMeans
  <2>4. QED
    BY <2>3 DEF Meant
<1>2. Spec => []AloneInv
  BY AloneAlways
<1>3. QED
  BY <1>1, <1>2, PTL DEF Spec, DeleteDeletesUnlessCrashed

(* Whatever crashes have left, a process that works alone then succeeds in *)
(* deleting a target, a TPG, a portal, an ACL or a mapped LUN, and         *)
(* clear_existing() leaves nothing.                                        *)
THEOREM RecoversAlone ==
  ASSUME Alone
  PROVE  Spec => Recovers
(* A tree that has no root is empty. *)
<1>RootsGone. ASSUME NEW D \in SUBSET Dirs, NEW L, Tree(D, L), \A y \in D : Parent(y) # <<>>
              PROVE  D = {}
  <2> USE <1>RootsGone
  <2>1. \A y \in D : Parent(y) \in D
    BY DEF Tree
  <2>2. \A y \in D : y \notin TargetDirs \cup SOs
    BY Parents
  <2>3. ASSUME NEW y \in D PROVE y \notin TPGs
    BY <2>1, <2>2, ParentKinds
  <2>4. ASSUME NEW y \in D PROVE y \notin LUNs \cup NetworkPortals \cup NodeACLs
    BY <2>1, <2>3, ParentKinds
  <2>5. \A y \in D : y \notin MappedLUNs
    BY <2>1, <2>4, ParentKinds
  <2>6. QED
    BY <2>2, <2>3, <2>4, <2>5 DEF Dirs
<1>1. AloneInv /\ AloneInv' /\ [Next]_vars =>
        [\A p \in Procs : Ends(p) =>
           /\ call[p] \in Dirs \ (LUNs \cup SOs) => call[p] \notin dirs'
           /\ call[p] = <<>> => dirs' = {}]_vars
  <2>1. SUFFICES ASSUME AloneInv, AloneInv', [Next]_vars, NEW p \in Procs, Ends(p),
                        call[p] \in (Dirs \ (LUNs \cup SOs)) \cup {<<>>}
                 PROVE  /\ call[p] \in Dirs => call[p] \notin dirs'
                        /\ call[p] = <<>> => dirs' = {}
    BY Disjoint
  <2>2. call[p] # None /\ call[p] \notin LUNs \cup SOs \cup {None}
    BY <2>1, Disjoint DEF Dirs
  <2>3. \A y \in dirs' : ~Meant(call[p], y)
    BY <2>1, <2>2, EndsMeans
  <2>4. dirs' \in SUBSET Dirs /\ Tree(dirs', link')
    BY <2>1 DEF AloneInv, TypeInv, TypeOK, TreeInv
  <2>5. ASSUME call[p] = <<>> PROVE dirs' = {}
    <3>1. \A y \in dirs' : Parent(y) # <<>>
      BY <2>3, <2>5 DEF Meant
    <3>2. QED
      BY <2>4, <3>1, <1>RootsGone
  <2>6. QED
    BY <2>3, <2>5 DEF Meant
<1>2. Spec => []AloneInv
  BY AloneAlways
<1>3. QED
  BY <1>1, <1>2, PTL DEF Spec, Recovers

(* The beginning of a path. *)
First(y, k) == [i \in 1 .. k |-> y[i]]

(* Under in terms of the names of paths. *)
LEMMA UnderPaths ==
  /\ \A x \in Dirs : Under(x, x)
  /\ \A y \in Linking, c \in TargetDirs : TargetOf(y) = c => Under(y, c)
  /\ \A y \in Linking, c \in TPGs : TPGOf(y) = c => Under(y, c)
  /\ \A y \in MappedLUNs, c \in NodeACLs : Parent(y) = c => Under(y, c)
  /\ \A y \in Dirs, x \in TPGs : Under(y, x) => y = x \/ Inside(y, x)
(* The prefixes of a path. *)
<1>Prefixes. \A y, c : /\ c = <<y[1]>> => SubSeq(y, 1, 1) = c
                       /\ c = <<y[1], y[2]>> => SubSeq(y, 1, 2) = c
                       /\ c = <<y[1], y[2], y[3], y[4]>> => SubSeq(y, 1, 4) = c
  <2>1. \A y, c : c = <<y[1]>> => SubSeq(y, 1, 1) = c
    <3>1. \A y, c : c = First(y, 1) => SubSeq(y, 1, 1) = c
      BY SMT DEF First
    <3>2. \A y, c : c = <<y[1]>> => c = First(y, 1)
      BY SMT DEF First
    <3>3. QED
      BY <3>1, <3>2
  <2>2. \A y, c : c = <<y[1], y[2]>> => SubSeq(y, 1, 2) = c
    <3>1. \A y, c : c = First(y, 2) => SubSeq(y, 1, 2) = c
      BY SMT DEF First
    <3>2. \A y, c : c = <<y[1], y[2]>> => c = First(y, 2)
      BY SMT DEF First
    <3>3. QED
      BY <3>1, <3>2
  <2>4. \A y, c : c = <<y[1], y[2], y[3], y[4]>> => SubSeq(y, 1, 4) = c
    <3>1. \A y, c : c = First(y, 4) => SubSeq(y, 1, 4) = c
      BY SMT DEF First
    <3>2. \A y, c : c = <<y[1], y[2], y[3], y[4]>> => c = First(y, 4)
      BY SMT DEF First
    <3>3. QED
      BY <3>1, <3>2
  <2>5. QED
    BY <2>1, <2>2, <2>4
<1>0. \A y \in Linking : Len(y) = 4 \/ Len(y) = 5
  <2>1. \A y \in LUNs : Len(y) = 4
    BY DEF LUNs
  <2>2. \A y \in MappedLUNs : Len(y) = 5
    BY DEF MappedLUNs
  <2>3. QED
    BY <2>1, <2>2 DEF Linking
<1>1. \A x \in Dirs : Under(x, x)
  BY SMT DEF Under, Dirs, TargetDirs, TPGs, LUNs, NetworkPortals, NodeACLs, MappedLUNs, SOs
<1>2. \A y \in Linking, c \in TargetDirs : TargetOf(y) = c => Under(y, c)
  <2>1. \A y \in Linking : Len(y) >= 1
    BY <1>0, SMT
  <2>2. \A c \in TargetDirs : Len(c) = 1
    BY SMT DEF TargetDirs
  <2>3. QED
    BY <2>1, <2>2, <1>Prefixes DEF Under, TargetOf
<1>3. \A y \in Linking, c \in TPGs : TPGOf(y) = c => Under(y, c)
  <2>1. \A y \in Linking : Len(y) >= 2
    BY <1>0, SMT
  <2>2. \A c \in TPGs : Len(c) = 2
    BY DEF TPGs
  <2>3. QED
    BY <2>1, <2>2, <1>Prefixes DEF Under, TPGOf
<1>4. \A y \in MappedLUNs, c \in NodeACLs : Parent(y) = c => Under(y, c)
  <2>1. \A y \in MappedLUNs : Parent(y) = <<y[1], y[2], y[3], y[4]>>
    BY Disjoint DEF Parent
  <2>0. \A y \in MappedLUNs : Len(y) = 5
    BY DEF MappedLUNs
  <2>2. \A y \in MappedLUNs : Len(y) >= 4
    BY <2>0, SMT
  <2>3. \A c \in NodeACLs : Len(c) = 4
    BY DEF NodeACLs
  <2>4. QED
    BY <2>1, <2>2, <2>3, <1>Prefixes DEF Under
<1>5. ASSUME NEW y \in Dirs, NEW x \in TPGs, Under(y, x)
      PROVE  y = x \/ Inside(y, x)
  <2>1. Len(x) = 2 /\ Len(y) >= 2 /\ SubSeq(y, 1, 2) = x
    BY <1>5 DEF Under, TPGs
  <2>2. y \notin TargetDirs
    BY <2>1, SMT DEF TargetDirs
  <2>3. y \in TPGs \cup SOs => y = x
    BY <2>1, SMT DEF TPGs, SOs
  <2>4. y \in LUNs \cup NetworkPortals \cup NodeACLs \cup MappedLUNs => TPGOf(y) = x
    <3>1. SubSeq(y, 1, 2) = TPGOf(y)
      BY <1>Prefixes DEF TPGOf
    <3>2. QED
      BY <2>1, <3>1
  <2>5. QED
    BY <2>2, <2>3, <2>4, Disjoint DEF Inside, Dirs
<1>6. QED
  BY <1>1, <1>2, <1>3, <1>4, <1>5

(* delete() of a process that works alone takes away the symlinks of what  *)
(* is below its node or leads to it, and no other.                         *)
THEOREM OnlyDependentsAlone ==
  ASSUME Alone
  PROVE  Spec => OnlyDependents
<1>1. AloneInv /\ [Next]_vars =>
        [\A p \in Procs, y \in Linking :
           call[p] \in Dirs /\ link[y] # None /\ link'[y] = None =>
             \/ Under(y, call[p])
             \/ Under(link[y], call[p])
             \/ link[y] \in LUNs /\ link[link[y]] = call[p]]_vars
  <2>1. SUFFICES ASSUME AloneInv, [Next]_vars, NEW p \in Procs, NEW y \in Linking,
                        call[p] \in Dirs, link[y] # None, link'[y] = None
                 PROVE  \/ Under(y, call[p])
                        \/ Under(link[y], call[p])
                        \/ link[y] \in LUNs /\ link[link[y]] = call[p]
    OBVIOUS
  <2> DEFINE c == call[p]
             h == stack[p][1]
  <2>2. c # None /\ TypeInv /\ Kept(p)
    BY <2>1, Disjoint DEF AloneInv
  <2>3. ~Idle(p) /\ Step(p)
    BY <2>1, <2>2, InCall DEF Crash, Configfs, vars
  <2>4. stack[p] \in Seq(Frames) /\ stack[p] # <<>> /\ Head(stack[p]) = h /\ h \in Frames
    BY <2>2, <2>3, HeadTyped DEF TypeInv, Idle
  <2>5. ~At(p, "link")
    <3>1. 1 \in 1 .. Len(stack[p])
      BY <2>4, SMT
    <3>2. QED
      BY <2>2, <2>4, <3>1 DEF At, Kept, StackInv, Placed
  <2>6. At(p, "unlink") /\ link' = [link EXCEPT ![Node(p)] = None]
    BY <2>1, <2>2, <2>3, <2>5, StepEffect DEF Configfs
  <2>7. h.op = "unlink" /\ h.node = y
    BY <2>1, <2>2, <2>4, <2>6 DEF At, Node, TypeInv, TypeOK
  <2>8. Over(h, Do("rmdir", c)) /\ Leads(h, Do("rmdir", c), link)
    <3>1. h # Do("rmdir", c)
      <4>1. Do("rmdir", c).op = "rmdir"
        BY DEF Do, Frame
      <4>2. QED
        BY <2>7, <4>1
    <3>2. StackInv(stack[p], c, dirs, link, enabled, crashes)
      BY <2>2 DEF Kept
    <3>3. c \in Dirs
      BY <2>1
    <3> HIDE DEF c
    <3>4. \/ Len(stack[p]) = 1 /\ stack[p][1] = Do("rmdir", c)
          \/ Over(stack[p][1], Do("rmdir", c)) /\ Leads(stack[p][1], Do("rmdir", c), link)
      BY <2>4, <3>2, <3>3, HeadInCall
    <3>5. QED
      BY <3>1, <3>4
  <2>9. y = c \/ Inside(y, c)
    BY <2>7, <2>8 DEF Over, Do, Frame
  <2>10. /\ y \in LUNs /\ c \in SOs => link[y] = c
         /\ y \in MappedLUNs /\ c \in LUNs => link[y] = c
         /\ y \in MappedLUNs /\ c \in SOs => link[y] \in LUNs /\ link[link[y]] = c
    BY <2>7, <2>8 DEF Leads, Do, Frame
  <2> HIDE DEF c, h
  <2>11. c \in Dirs /\ c # <<>>
    BY <2>1, Disjoint DEF c
  <2>12. CASE c \in SOs \cup LUNs
    <3>1. Under(c, c)
      BY <2>11, UnderPaths
    <3>2. c \in LUNs => y = c \/ y \in MappedLUNs
      BY <2>9, <2>11, Disjoint DEF Inside
    <3>3. y \in LUNs \cup MappedLUNs
      BY DEF Linking
    <3>4. QED
      BY <2>10, <2>12, <3>1, <3>2, <3>3 DEF c
  <2>13. CASE c \notin SOs \cup LUNs
    <3>1. Under(y, c)
      BY <2>1, <2>9, <2>11, <2>13, UnderPaths DEF Inside
    <3>2. QED
      BY <3>1 DEF c
  <2>14. QED
    BY <2>12, <2>13
<1>2. Spec => []AloneInv
  BY AloneAlways
<1>3. QED
  BY <1>1, <1>2, PTL DEF Spec, OnlyDependents

(* delete() of a TPG or a target, and clear_existing(), disable a TPG      *)
(* before they take anything away below it.                                *)
THEOREM DisabledFirstAlone ==
  ASSUME Alone
  PROVE  Spec => DisabledFirst
<1>1. AloneInv /\ [Next]_vars =>
        [\A p \in Procs, x \in enabled :
           call[p] \in TPGs \cup TargetDirs \cup {<<>>} /\ Under(x, call[p]) =>
             \A y \in dirs \ dirs' : ~Under(y, x)]_vars
  <2>1. SUFFICES ASSUME AloneInv, [Next]_vars, NEW p \in Procs, NEW x \in enabled,
                        call[p] \in TPGs \cup TargetDirs \cup {<<>>}, NEW y \in dirs \ dirs'
                 PROVE  ~Under(y, x)
    OBVIOUS
  <2> DEFINE c == call[p]
             h == stack[p][1]
  <2>2. c # None /\ TypeInv /\ Kept(p) /\ Wide(c)
    BY <2>1, Disjoint DEF AloneInv, Wide, Dirs
  <2>3. ~Idle(p) /\ Step(p)
    BY <2>1, <2>2, InCall DEF Crash, Configfs, vars
  <2>4. stack[p] \in Seq(Frames) /\ stack[p] # <<>> /\ Head(stack[p]) = h /\ h \in Frames
    BY <2>2, <2>3, HeadTyped DEF TypeInv, Idle
  <2>5. At(p, "rmdir") /\ y = Node(p)
    BY <2>1, <2>2, <2>3, StepEffect DEF Configfs
  <2>6. h.op = "rmdir" /\ h.node = y
    BY <2>4, <2>5 DEF At, Node
  <2>7. h \notin BlockedByEnable(c, x)
    BY <2>1, <2>2, <2>4, HeadFree DEF Kept, Free
  <2>8. ~Inside(y, x) /\ y # x
    BY <2>2, <2>4, <2>6, <2>7 DEF BlockedByEnable
  <2>9. y \in Dirs /\ x \in TPGs
    BY <2>1, <2>2 DEF TypeInv, TypeOK
  <2>10. QED
    BY <2>8, <2>9, UnderPaths
<1>2. Spec => []AloneInv
  BY AloneAlways
<1>3. QED
  BY <1>1, <1>2, PTL DEF Spec, DisabledFirst

(* delete() and clear_existing() create nothing: the Target and the TPG    *)
(* that StorageObject._gen_attached_luns constructs in mode 'any' are      *)
(* there.                                                                  *)
THEOREM DeleteCreatesNothingAlone ==
  ASSUME Alone
  PROVE  Spec => DeleteCreatesNothing
<1>1. AloneInv /\ [Next]_vars =>
        [\A p \in Procs : call[p] # None /\ stack'[p] # stack[p] => dirs' \subseteq dirs]_vars
  <2>1. SUFFICES ASSUME AloneInv, [Next]_vars, NEW p \in Procs, call[p] # None
                 PROVE  dirs' \subseteq dirs
    OBVIOUS
  <2>2. TypeInv /\ TreeInv /\ Kept(p)
    BY <2>1 DEF AloneInv
  <2>3. CASE Crash(p) \/ UNCHANGED vars
    BY <2>3 DEF Crash, Configfs, vars
  <2>4. CASE Step(p) /\ ~At(p, "attached")
    BY <2>2, <2>4, StepEffect DEF Configfs
  <2>5. CASE Step(p) /\ At(p, "attached")
    <3>1. ~Idle(p)
      BY <2>1, InCall
    <3>2. stack[p] \in Seq(Frames) /\ stack[p] # <<>> /\ Head(stack[p]) = stack[p][1]
      BY <2>2, <3>1, HeadTyped DEF TypeInv, Idle
    <3>3. Ready(stack[p][1], call[p], dirs, link, crashes)
      BY <2>2, <3>2, HeadFree DEF Kept
    <3>4. Node(p) \in dirs
      BY <2>5, <3>2, <3>3 DEF Ready, At, Node
    <3>5. Node(p) \in LUNs => TPGOf(Node(p)) \in dirs /\ TargetOf(Node(p)) \in dirs
      <4>1. SUFFICES ASSUME Node(p) \in LUNs
                     PROVE  TPGOf(Node(p)) \in dirs /\ TargetOf(Node(p)) \in dirs
        OBVIOUS
      <4>2. TPGOf(Node(p)) \in TPGs /\ TPGOf(Node(p)) # <<>>
        <5>1. TPGOf(Node(p)) \in TPGs
          BY <4>1, Paths
        <5>2. TPGOf(Node(p)) \in Dirs
          BY <5>1 DEF Dirs
        <5>3. QED
          BY <5>1, <5>2, Disjoint
      <4>3. TPGOf(Node(p)) \in dirs
        BY <2>2, <3>4, <4>1, <4>2, Parents DEF TreeInv, Tree
      <4>4. TargetOf(Node(p)) \in TargetDirs /\ TargetOf(Node(p)) # <<>>
        <5>1. TargetOf(Node(p)) \in TargetDirs
          BY <4>1, Paths
        <5>2. TargetOf(Node(p)) \in Dirs
          BY <5>1 DEF Dirs
        <5>3. QED
          BY <5>1, <5>2, Disjoint
      <4>5. Parent(TPGOf(Node(p))) = TargetOf(Node(p))
        BY <4>1, <4>2, Paths, Parents
      <4>6. QED
        BY <2>2, <4>3, <4>4, <4>5 DEF TreeInv, Tree
    <3>6. QED
      BY <2>2, <2>5, <3>5, StepEffect DEF Configfs
  <2>6. QED
    BY <2>1, <2>3, <2>4, <2>5, InCall
<1>2. Spec => []AloneInv
  BY AloneAlways
<1>3. QED
  BY <1>1, <1>2, PTL DEF Spec, DeleteCreatesNothing

=============================================================================
