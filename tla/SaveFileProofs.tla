--------------------------- MODULE SaveFileProofs ---------------------------
(* Theorems about SaveFile: what holds for any number of savers, what      *)
(* holds as long as their calls do not overlap, and that save_to_file      *)
(* implements the atomic file of ConfigFile.                               *)
EXTENDS SaveFile, TLAPS

(* A process in a call has counted it, so that its inode is one; what it   *)
(* may open is private; a file that is to be chmod'ed is there.            *)
CallInv ==
  \A p \in Procs :
    /\ pc[p] # "idle" => count[p] \in 1 .. MaxSaves
    /\ pc[p] = "open" => p \in umask
    /\ pc[p] \in {"write", "fsync"} => Mine(p) \in private
    /\ pc[p] = "chmod" => save # NoFile

(* The directory is as it is now. *)
NowInv == <<save, temp>> \in past

ManyInv == TypeOK /\ CallInv /\ NowInv /\ NeverReadable

(* What a directory entry may be. *)
Entries == Inodes \cup {NoFile}

LEMMA PairParts ==
  ASSUME NEW n \in Entries \X Entries
  PROVE  n[1] \in Entries /\ n[2] \in Entries /\ n = <<n[1], n[2]>>
OBVIOUS

LEMMA PairIn ==
  ASSUME NEW a \in Entries, NEW b \in Entries
  PROVE  <<a, b>> \in Entries \X Entries
OBVIOUS

LEMMA NoFileIsNone == NoFile \notin Inodes
BY DEF NoFile, Inodes, New, Leftover, Previous

LEMMA PartIsNone == Part \notin Versions
BY MaxVersionAssumption DEF Part, Versions

LEMMA NextVersion ==
  ASSUME NEW v \in Versions, v < MaxVersion
  PROVE  v + 1 \in Versions
BY MaxVersionAssumption DEF Versions

LEMMA NextCount ==
  ASSUME NEW n \in Nat, NEW k \in 0 .. MaxSaves, n <= k, k < MaxSaves
  PROVE  n + 1 \in 1 .. MaxSaves /\ k + 1 \in 0 .. MaxSaves /\ n + 1 <= k + 1
         /\ n + 1 \in Nat /\ n <= k + 1
BY MaxSavesAssumption

LEMMA MineIsNew ==
  ASSUME NEW p \in Procs, count[p] \in 1 .. MaxSaves
  PROVE  Mine(p) \in New
BY DEF Mine, New

LEMMA ManyInvInit == Init => ManyInv
<1> SUFFICES ASSUME Init
             PROVE  ManyInv
  OBVIOUS
<1>1. 0 \in 0 .. MaxSaves /\ 0 <= 0
  BY MaxSavesAssumption
<1>2. 0 \in Versions
  BY MaxVersionAssumption DEF Versions
<1>3. private \subseteq Inodes
  BY DEF Init, Inodes
<1>4. past \subseteq Entries \X Entries
  BY DEF Init, Inodes, Entries
<1> QED
  BY <1>1, <1>2, <1>3, <1>4, PartIsNone, Zenon
     DEF Init, ManyInv, NowInv, TypeOK, CallInv, NeverReadable, Inodes, Steps, Outcomes, Entries

LEMMA ManyInvStep == ManyInv /\ [Next]_vars => ManyInv'
<1> SUFFICES ASSUME ManyInv, [Next]_vars
             PROVE  ManyInv'
  OBVIOUS
<1> USE NoFileIsNone, PartIsNone
        DEF ManyInv, NowInv, TypeOK, CallInv, NeverReadable, Steps, Outcomes,
            names, umasks, files, process, Goto, End, Raise, SystemError
<1>mine. ASSUME NEW p \in Procs, pc[p] # "idle"
         PROVE  Mine(p) \in Inodes
  BY <1>mine, MineIsNew, Zenon DEF Inodes
<1>same. ASSUME NEW p \in Procs, count'[p] = count[p]
         PROVE  Mine(p)' = Mine(p)
  BY <1>same, Zenon DEF Mine
<1>names. ASSUME NEW i \in Inodes \cup {NoFile}, NEW j \in Inodes \cup {NoFile}, Rename(i, j)
          PROVE  /\ save' = i /\ temp' = j
                 /\ past' \subseteq (Inodes \cup {NoFile}) \X (Inodes \cup {NoFile})
                 /\ <<save', temp'>> \in past'
  <2>1. save' = i /\ temp' = j /\ past' = past \cup {<<i, j>>}
    BY <1>names, Zenon DEF Rename
  <2>2. <<i, j>> \in (Inodes \cup {NoFile}) \X (Inodes \cup {NoFile})
    BY PairIn, Zenon DEF Entries
  <2> QED
    BY <2>1, <2>2, Zenon
<1>1. CASE Change
  <2>1. config' \in Versions
    BY <1>1, NextVersion, Zenon DEF Change
  <2> QED
    BY <1>1, <1>same, <2>1, Zenon DEF Change
<1>2. CASE PowerLoss
  <2>1. PICK n \in past : save' = n[1] /\ temp' = n[2] /\ past' = {n}
    BY <1>2, Zenon DEF PowerLoss
  <2>2. /\ n \in (Inodes \cup {NoFile}) \X (Inodes \cup {NoFile})
        /\ n[1] \in Inodes \cup {NoFile} /\ n[2] \in Inodes \cup {NoFile} /\ n = <<n[1], n[2]>>
    BY PairParts, Zenon DEF Entries
  <2>3. /\ save' \in Inodes \cup {NoFile} /\ temp' \in Inodes \cup {NoFile}
        /\ past' \subseteq (Inodes \cup {NoFile}) \X (Inodes \cup {NoFile})
        /\ <<save', temp'>> \in past'
    BY <2>1, <2>2, Zenon
  <2>4. PICK lost \in SUBSET {i \in Inodes \ synced : data[i] # Part} :
           data' = [i \in Inodes |-> IF i \in lost THEN Part ELSE data[i]]
    BY <1>2, Zenon DEF PowerLoss
  <2>5. data' \in [Inodes -> Versions \cup {Part}]
        /\ \A i \in Inodes : data'[i] \in Versions => data[i] \in Versions
    BY <2>4, Zenon
  <2> QED
    BY <1>2, <2>3, <2>5, Zenon DEF PowerLoss
<1>3. ASSUME NEW p \in Procs, Dump(p)
      PROVE  ManyInv'
  <2>1. /\ count[p] + 1 \in 1 .. MaxSaves /\ calls + 1 \in 0 .. MaxSaves
        /\ count[p] + 1 <= calls + 1 /\ count[p] + 1 \in Nat
    BY <1>3, NextCount, Zenon DEF Dump
  <2>2. \A q \in Procs : count[q] <= calls + 1
    BY <1>3, NextCount, Zenon DEF Dump
  <2>3. /\ count' \in [Procs -> Nat] /\ calls' \in 0 .. MaxSaves
        /\ \A q \in Procs : count'[q] <= calls'
    BY <1>3, <2>1, <2>2, Zenon DEF Dump
  <2>4. TypeOK'
    BY <1>3, <2>3, Zenon DEF Dump
  <2>5. CallInv'
    BY <1>3, <1>same, <2>1, Zenon DEF Dump
  <2> QED
    BY <1>3, <2>4, <2>5, Zenon DEF Dump
<1>4. ASSUME NEW p \in Procs, Unlink(p)
      PROVE  ManyInv'
  <2>1. CASE Rename(save, NoFile) /\ Goto(p, "umask")
    BY <1>4, <1>mine, <1>same, <1>names, <2>1, ZenonT(60) DEF Unlink
  <2>2. CASE SystemError(p) /\ UNCHANGED names
    BY <1>4, <1>mine, <1>same, <2>2, ZenonT(60) DEF Unlink
  <2> QED
    BY <1>4, <2>1, <2>2, Zenon DEF Unlink
<1>5. ASSUME NEW p \in Procs, Umask(p)
      PROVE  ManyInv'
  BY <1>5, <1>mine, <1>same, Zenon DEF Umask
<1>6. ASSUME NEW p \in Procs, Open(p)
      PROVE  ManyInv'
  <2>1. CASE temp = NoFile /\ Rename(save, Mine(p)) /\ Goto(p, "write")
             /\ private' = IF p \in umask THEN private \cup {Mine(p)} ELSE private
    BY <1>6, <1>mine, <1>same, <1>names, <2>1, ZenonT(120) DEF Open
  <2>2. CASE (Raise(p) \/ SystemError(p)) /\ UNCHANGED <<names, private>>
    BY <1>6, <1>mine, <1>same, <2>2, ZenonT(60) DEF Open
  <2> QED
    BY <1>6, <2>1, <2>2, Zenon DEF Open
<1>7. ASSUME NEW p \in Procs, Write(p)
      PROVE  ManyInv'
  <2>1. TypeOK'
    BY <1>7, <1>mine, <1>same, Zenon DEF Write
  <2>2. CallInv'
    <3>1. \A q \in Procs : Mine(q)' = Mine(q)
      BY <1>7, <1>same, Zenon DEF Write
    <3>2. \A q \in Procs : pc'[q] = pc[q] \/ (q = p /\ pc'[q] \in {"fsync", "idle"})
      BY <1>7, Zenon DEF Write
    <3>3. UNCHANGED <<count, umask, private, save>> /\ pc[p] = "write"
      BY <1>7, Zenon DEF Write
    <3>4. ASSUME NEW q \in Procs
          PROVE  CallInv!(q)'
      <4>1. CASE pc'[q] = pc[q]
        BY <3>1, <3>3, <4>1, Zenon
      <4>2. CASE q = p /\ pc'[q] \in {"fsync", "idle"}
        BY <3>1, <3>3, <4>2, Zenon
      <4> QED
        BY <3>2, <4>1, <4>2, Zenon
    <3> QED
      BY <3>4, Zenon
  <2>3. NeverReadable'
    <3>1. ASSUME NEW i \in Inodes, data'[i] # data[i]
          PROVE  i \in private'
      BY <1>7, <1>mine, <3>1, ZenonT(120) DEF Write
    <3> QED
      BY <1>7, <3>1, Zenon DEF Write
  <2>4. NowInv'
    BY <1>7, Zenon DEF Write
  <2> QED
    BY <2>1, <2>2, <2>3, <2>4, Zenon
<1>8. ASSUME NEW p \in Procs, Fsync(p)
      PROVE  ManyInv'
  <2>1. \A q \in Procs : Mine(q)' = Mine(q)
    BY <1>8, <1>same, Zenon DEF Fsync
  <2>2. \A q \in Procs : pc'[q] = pc[q] \/ (q = p /\ pc'[q] \in {"replace", "idle"})
    BY <1>8, Zenon DEF Fsync
  <2>3. TypeOK'
    BY <1>8, <1>mine, Zenon DEF Fsync
  <2>4. CallInv'
    <3>1. UNCHANGED <<count, umask, private, save>> /\ pc[p] = "fsync"
      BY <1>8, Zenon DEF Fsync
    <3>2. ASSUME NEW q \in Procs
          PROVE  CallInv!(q)'
      <4>1. CASE pc'[q] = pc[q]
        BY <2>1, <3>1, <4>1, Zenon
      <4>2. CASE q = p /\ pc'[q] \in {"replace", "idle"}
        BY <2>1, <3>1, <4>2, Zenon
      <4> QED
        BY <2>2, <4>1, <4>2, Zenon
    <3> QED
      BY <3>2, Zenon
  <2> QED
    BY <1>8, <2>3, <2>4, Zenon DEF Fsync
<1>9. ASSUME NEW p \in Procs, Replace(p)
      PROVE  ManyInv'
  <2>1. CASE temp # NoFile /\ Rename(temp, NoFile) /\ Goto(p, "chmod")
    BY <1>9, <1>mine, <1>same, <1>names, <2>1, ZenonT(60) DEF Replace
  <2>2. CASE (Raise(p) \/ SystemError(p)) /\ UNCHANGED names
    BY <1>9, <1>mine, <1>same, <2>2, ZenonT(60) DEF Replace
  <2> QED
    BY <1>9, <2>1, <2>2, Zenon DEF Replace
<1>10. ASSUME NEW p \in Procs, Chmod(p)
       PROVE  ManyInv'
  BY <1>10, <1>mine, <1>same, ZenonT(60) DEF Chmod
<1>11. ASSUME NEW p \in Procs, RestoreUmask(p)
       PROVE  ManyInv'
  BY <1>11, <1>mine, <1>same, Zenon DEF RestoreUmask
<1>12. ASSUME NEW p \in Procs, SaveObject(p) \/ RestoreFromFile(p)
       PROVE  ManyInv'
  <2>1. CASE SaveObject(p)
    BY <1>mine, <1>same, <2>1, ZenonT(120) DEF SaveObject
  <2>2. CASE RestoreFromFile(p)
    BY <1>mine, <1>same, <2>2, ZenonT(120) DEF RestoreFromFile
  <2> QED
    BY <1>12, <2>1, <2>2, Zenon
<1>13. ASSUME NEW p \in Procs, Crash(p)
       PROVE  ManyInv'
  BY <1>13, <1>mine, <1>same, Zenon DEF Crash
<1>14. CASE UNCHANGED vars
  BY <1>14, <1>mine, <1>same, Zenon DEF vars
<1> QED
  BY <1>1, <1>2, <1>3, <1>4, <1>5, <1>6, <1>7, <1>8, <1>9, <1>10, <1>11, <1>12, <1>13, <1>14, Zenon
     DEF Next

(* Every variable of save_to_file keeps its type. *)
THEOREM TypeCorrect == Spec => []TypeOK
BY ManyInvInit, ManyInvStep, PTL DEF Spec, ManyInv

(* No number of savers, crashes and failing writes puts a configuration    *)
(* into a file that others may read.                                       *)
THEOREM ConfigurationStaysPrivate == Spec => []NeverReadable
BY ManyInvInit, ManyInvStep, PTL DEF Spec, ManyInv

(* However many savers there are, the name saveconfig.json, once there,    *)
(* goes only in a power failure that undoes the first save since the last  *)
(* one.                                                                    *)
THEOREM FileStays == Spec => SaveFileStays
<1>1. ASSUME [Next]_vars, ~PowerLoss, save # NoFile
      PROVE  save' # NoFile
  BY <1>1, Zenon DEF Next, vars, files, names, Rename, Change, Dump, Unlink, Umask, Open,
         Write, Fsync, Replace, Chmod, RestoreUmask, SaveObject, RestoreFromFile, Crash
<1>2. ASSUME PowerLoss, save' = NoFile
      PROVE  \E n \in past : n[1] = NoFile
  BY <1>2, Zenon DEF PowerLoss
<1>3. [Next]_vars => [save # NoFile /\ save' = NoFile =>
                        PowerLoss /\ \E n \in past : n[1] = NoFile]_vars
  BY <1>1, <1>2
<1> QED
  BY <1>3, PTL DEF Spec, SaveFileStays

-----------------------------------------------------------------------------
(* Savers whose calls do not overlap. *)

Apart == \A p, q \in Procs : pc[p] # "idle" /\ pc[q] # "idle" => p = q

(* The data of a call is not on the disk before its own fsync. *)
FreshInv ==
  \A p \in Procs :
    /\ \A n \in Nat : n > count[p] => <<p, n>> \notin synced
    /\ pc[p] \in {"unlink", "umask", "open", "write", "fsync"} => Mine(p) \notin synced

(* Data on the disk is complete and the file is on the disk, the ones      *)
(* before it that a power failure may bring back too; a saver that         *)
(* writes owns the temporary file, which holds what it dumped from the     *)
(* write on, and is the file from the replace on.                          *)
LoneInv ==
  /\ \A i \in synced : data[i] \in Versions
  /\ save # NoFile => save \in synced
  /\ \A n \in past : n[1] # NoFile => n[1] \in synced
  /\ \A p \in Procs :
       /\ pc[p] \in {"umask", "open"} => temp = NoFile
       /\ pc[p] \in {"write", "fsync", "replace"} => temp = Mine(p)
       /\ pc[p] \in {"fsync", "replace", "chmod", "restore"} => data[Mine(p)] = conf[p]
       /\ pc[p] = "replace" => Mine(p) \in synced
       /\ pc[p] \in {"chmod", "restore"} => save = Mine(p)

ApartInv == ~overlap => Apart /\ LoneInv

SaveInv == ManyInv /\ FreshInv /\ ApartInv

LEMMA FreshInvStep ==
  ASSUME ManyInv, FreshInv, [Next]_vars
  PROVE  FreshInv'
<1> USE DEF FreshInv, Mine, names, umasks, files, process, Goto, End, Raise, SystemError
<1>type. pc \in [Procs -> Steps] /\ count \in [Procs -> Nat] /\ CallInv
  BY Zenon DEF ManyInv, TypeOK
<1>1. ASSUME NEW p \in Procs, Dump(p)
      PROVE  FreshInv'
  <2>1. count' = [count EXCEPT ![p] = @ + 1] /\ pc' = [pc EXCEPT ![p] = "unlink"] /\ synced' = synced
    BY <1>1, Zenon DEF Dump
  <2>2. count[p] \in Nat /\ count[p] + 1 \in Nat /\ count[p] + 1 > count[p]
    BY <1>type
  <2>3. \A n \in Nat : n > count[p] + 1 => n > count[p]
    BY <2>2
  <2> QED
    BY <1>type, <2>1, <2>2, <2>3
<1>2. ASSUME NEW p \in Procs, Fsync(p)
      PROVE  FreshInv'
  <2>1. count[p] \in Nat /\ ~(count[p] > count[p])
    BY <1>type
  <2>2. synced' \subseteq synced \cup {<<p, count[p]>>} /\ count' = count
    BY <1>2, Zenon DEF Fsync
  <2>3. pc'[p] \in {"replace", "idle"} /\ \A q \in Procs \ {p} : pc'[q] = pc[q]
    BY <1>type, <1>2, Zenon DEF Fsync
  <2> QED
    BY <2>1, <2>2, <2>3
<1>3. ASSUME synced' = synced, count' = count,
             \A q \in Procs : \/ pc'[q] = pc[q]
                              \/ pc'[q] \in {"idle", "replace", "chmod", "restore"}
                              \/ pc[q] \in {"unlink", "umask", "open", "write"}
      PROVE  FreshInv'
  BY <1>3
<1>4. CASE Change \/ PowerLoss \/ UNCHANGED vars
  BY <1>3, <1>4, Zenon DEF Change, PowerLoss, vars
<1>5. ASSUME NEW p \in Procs, Unlink(p) \/ Umask(p) \/ Open(p) \/ Write(p)
      PROVE  FreshInv'
  BY <1>type, <1>3, <1>5, Zenon DEF Unlink, Umask, Open, Write
<1>6. ASSUME NEW p \in Procs,
             \/ Replace(p) \/ Chmod(p) \/ RestoreUmask(p) \/ SaveObject(p)
             \/ RestoreFromFile(p) \/ Crash(p)
      PROVE  FreshInv'
  BY <1>type, <1>3, <1>6, ZenonT(60) DEF Replace, Chmod, RestoreUmask, SaveObject, RestoreFromFile, Crash
<1> QED
  BY <1>1, <1>2, <1>4, <1>5, <1>6, Zenon DEF Next

(* A step of p that is not its Dump leaves the others idle. *)
LEMMA ApartStep ==
  ASSUME TypeOK, Apart, [Next]_vars, ~overlap'
  PROVE  Apart'
<1> USE DEF TypeOK, Apart, names, umasks, files, process, Goto, End, Raise, SystemError
<1>1. ASSUME NEW p \in Procs, Dump(p)
      PROVE  Apart'
  <2>1. \A q \in Procs \ {p} : pc'[q] = "idle"
    BY <1>1, Zenon DEF Dump
  <2> QED
    BY <2>1, Zenon
<1>2. ASSUME \A q \in Procs : pc'[q] # "idle" => pc[q] # "idle"
      PROVE  Apart'
  BY <1>2, Zenon
<1>3. CASE Change \/ PowerLoss \/ UNCHANGED vars
  BY <1>2, <1>3, Zenon DEF Change, PowerLoss, vars
<1>4. ASSUME NEW p \in Procs, Unlink(p) \/ Umask(p) \/ Open(p) \/ Write(p) \/ Fsync(p)
      PROVE  Apart'
  BY <1>2, <1>4, Zenon DEF Unlink, Umask, Open, Write, Fsync
<1>5. ASSUME NEW p \in Procs,
             \/ Replace(p) \/ Chmod(p) \/ RestoreUmask(p) \/ SaveObject(p)
             \/ RestoreFromFile(p) \/ Crash(p)
      PROVE  Apart'
  BY <1>2, <1>5, ZenonT(60) DEF Replace, Chmod, RestoreUmask, SaveObject, RestoreFromFile, Crash
<1> QED
  BY <1>1, <1>3, <1>4, <1>5, Zenon DEF Next

LEMMA LoneInvStep ==
  ASSUME ManyInv, Apart, LoneInv, [Next]_vars, ~overlap'
  PROVE  LoneInv'
<1> USE NoFileIsNone, PartIsNone
        DEF ManyInv, TypeOK, CallInv, LoneInv, Steps, names, umasks, files, process,
            Goto, End, Raise, SystemError
<1>mine. ASSUME NEW p \in Procs, pc[p] # "idle"
         PROVE  Mine(p) \in Inodes
  BY <1>mine, MineIsNew, Zenon DEF Inodes
<1>same. ASSUME NEW p \in Procs, count'[p] = count[p]
         PROVE  Mine(p)' = Mine(p)
  BY <1>same, Zenon DEF Mine
<1>others. ASSUME NEW p \in Procs, pc[p] # "idle", NEW q \in Procs \ {p}
           PROVE  pc[q] = "idle"
  BY <1>others, Zenon DEF Apart
<1>1. CASE Change
  BY <1>1, <1>mine, <1>same, ZenonT(60) DEF Change
<1>past. ASSUME NEW i, NEW j, Rename(i, j), synced' = synced, i # NoFile => i \in synced
         PROVE  /\ save' = i /\ temp' = j
                /\ \A n \in past' : n[1] # NoFile => n[1] \in synced'
  <2>1. <<i, j>>[1] = i
    OBVIOUS
  <2> QED
    BY <1>past, <2>1, Zenon DEF Rename
<1>2. CASE PowerLoss
  <2>1. PICK n \in past : save' = n[1] /\ temp' = n[2] /\ past' = {n}
    BY <1>2, Zenon DEF PowerLoss
  <2>2. PICK lost \in SUBSET {i \in Inodes \ synced : data[i] # Part} :
           data' = [i \in Inodes |-> IF i \in lost THEN Part ELSE data[i]]
    BY <1>2, Zenon DEF PowerLoss
  <2>3. \A i \in synced : data'[i] = data[i]
    BY <2>2, Zenon
  <2>4. synced' = synced /\ \A p \in Procs : pc'[p] = "idle"
    BY <1>2, Zenon DEF PowerLoss
  <2> QED
    BY <2>1, <2>3, <2>4, Zenon
<1>3. ASSUME NEW p \in Procs, Dump(p)
      PROVE  LoneInv'
  <2>1. pc'[p] = "unlink" /\ \A q \in Procs \ {p} : pc'[q] = "idle"
    BY <1>3, Zenon DEF Dump
  <2> QED
    BY <1>3, <2>1, Zenon DEF Dump
<1>4. ASSUME NEW p \in Procs, Unlink(p)
      PROVE  LoneInv'
  <2>1. \A q \in Procs \ {p} : pc'[q] = "idle"
    BY <1>4, <1>others, ZenonT(60) DEF Unlink
  <2>2. CASE Rename(save, NoFile) /\ Goto(p, "umask")
    <3>1. pc'[p] = "umask" /\ UNCHANGED <<data, synced>>
      BY <1>4, <2>2, Zenon DEF Unlink
    <3>2. save' = save /\ temp' = NoFile /\ \A n \in past' : n[1] # NoFile => n[1] \in synced'
      BY <1>past, <2>2, <3>1, Zenon
    <3> QED
      BY <2>1, <3>1, <3>2, Zenon
  <2>3. CASE SystemError(p) /\ UNCHANGED names
    BY <1>4, <2>1, <2>3, Zenon DEF Unlink
  <2> QED
    BY <1>4, <2>2, <2>3, Zenon DEF Unlink
<1>5. ASSUME NEW p \in Procs, Umask(p)
      PROVE  LoneInv'
  <2>1. pc'[p] = "open" /\ \A q \in Procs \ {p} : pc'[q] = "idle"
    BY <1>5, <1>others, ZenonT(60) DEF Umask
  <2> QED
    BY <1>5, <2>1, Zenon DEF Umask
<1>6. ASSUME NEW p \in Procs, Open(p)
      PROVE  LoneInv'
  <2>1. \A q \in Procs \ {p} : pc'[q] = "idle"
    BY <1>6, <1>others, ZenonT(60) DEF Open
  <2>2. CASE Rename(save, Mine(p)) /\ Goto(p, "write")
    <3>1. pc'[p] = "write" /\ UNCHANGED <<data, synced>> /\ Mine(p)' = Mine(p)
      BY <1>6, <1>same, <2>2, Zenon DEF Open
    <3>2. save' = save /\ temp' = Mine(p) /\ \A n \in past' : n[1] # NoFile => n[1] \in synced'
      BY <1>past, <2>2, <3>1, Zenon
    <3> QED
      BY <2>1, <3>1, <3>2, Zenon
  <2>3. CASE (Raise(p) \/ SystemError(p)) /\ UNCHANGED names
    BY <1>6, <2>1, <2>3, ZenonT(60) DEF Open
  <2> QED
    BY <1>6, <2>2, <2>3, Zenon DEF Open
<1>7. ASSUME NEW p \in Procs, Write(p)
      PROVE  LoneInv'
  <2>1. Mine(p)' = Mine(p) /\ \A q \in Procs \ {p} : pc'[q] = "idle"
    BY <1>7, <1>same, <1>others, ZenonT(60) DEF Write
  <2>2. CASE data' = [data EXCEPT ![Mine(p)] = conf[p]] /\ Goto(p, "fsync")
    <3>1. Mine(p) \in Inodes /\ conf[p] \in Versions /\ temp = Mine(p)
      BY <1>7, <1>mine, Zenon DEF Write
    <3>2. data'[Mine(p)] = conf[p] /\ pc'[p] = "fsync"
      BY <2>2, <3>1, Zenon
    <3>3. \A i \in synced' : data'[i] \in Versions
      BY <1>7, <2>2, <3>1, Zenon DEF Write
    <3> QED
      BY <1>7, <2>1, <3>1, <3>2, <3>3, Zenon DEF Write
  <2>3. CASE SystemError(p) /\ UNCHANGED data
    BY <1>7, <2>1, <2>3, Zenon DEF Write
  <2> QED
    BY <1>7, <2>2, <2>3, Zenon DEF Write
<1>8. ASSUME NEW p \in Procs, Fsync(p)
      PROVE  LoneInv'
  <2>1. Mine(p)' = Mine(p) /\ \A q \in Procs \ {p} : pc'[q] = "idle"
    BY <1>8, <1>same, <1>others, ZenonT(60) DEF Fsync
  <2>2. CASE synced' = synced \cup {Mine(p)} /\ Goto(p, "replace")
    <3>1. data[Mine(p)] = conf[p] /\ conf[p] \in Versions /\ temp = Mine(p)
      BY <1>8, Zenon DEF Fsync
    <3>2. pc'[p] = "replace"
      BY <2>2, Zenon
    <3>3. \A i \in synced' : data'[i] \in Versions
      BY <1>8, <2>2, <3>1, Zenon DEF Fsync
    <3> QED
      BY <1>8, <2>1, <2>2, <3>1, <3>2, <3>3, Zenon DEF Fsync
  <2>3. CASE SystemError(p) /\ UNCHANGED synced
    BY <1>8, <2>1, <2>3, Zenon DEF Fsync
  <2> QED
    BY <1>8, <2>2, <2>3, Zenon DEF Fsync
<1>9. ASSUME NEW p \in Procs, Replace(p)
      PROVE  LoneInv'
  <2>1. Mine(p)' = Mine(p) /\ \A q \in Procs \ {p} : pc'[q] = "idle"
    BY <1>9, <1>same, <1>others, ZenonT(120) DEF Replace
  <2>2. temp = Mine(p) /\ Mine(p) \in synced /\ data[Mine(p)] = conf[p] /\ Mine(p) # NoFile
    BY <1>9, <1>mine, ZenonT(60) DEF Replace
  <2>3. CASE Rename(temp, NoFile) /\ Goto(p, "chmod")
    <3>1. pc'[p] = "chmod" /\ UNCHANGED <<data, synced, conf>>
      BY <1>9, <2>3, Zenon DEF Replace
    <3>2. save' = temp /\ \A n \in past' : n[1] # NoFile => n[1] \in synced'
      BY <1>past, <2>2, <2>3, <3>1, Zenon
    <3> QED
      BY <2>1, <2>2, <3>1, <3>2, Zenon
  <2>4. CASE SystemError(p) /\ UNCHANGED names
    BY <1>9, <2>1, <2>4, Zenon DEF Replace
  <2> QED
    BY <1>9, <2>2, <2>3, <2>4, Zenon DEF Replace
<1>10. ASSUME NEW p \in Procs, Chmod(p)
       PROVE  LoneInv'
  <2>1. /\ UNCHANGED <<names, data, synced, conf>> /\ Mine(p)' = Mine(p)
        /\ pc[p] = "chmod" /\ pc'[p] \in {"restore", "idle"}
        /\ \A q \in Procs \ {p} : pc'[q] = "idle"
    BY <1>10, <1>same, <1>others, ZenonT(60) DEF Chmod
  <2> QED
    BY <2>1, Zenon
<1>11. ASSUME NEW p \in Procs, RestoreUmask(p)
       PROVE  LoneInv'
  BY <1>11, <1>mine, <1>same, Zenon DEF RestoreUmask
<1>12. ASSUME NEW p \in Procs, SaveObject(p) \/ RestoreFromFile(p)
       PROVE  LoneInv'
  BY <1>12, <1>mine, <1>same, ZenonT(120) DEF SaveObject, RestoreFromFile
<1>13. ASSUME NEW p \in Procs, Crash(p)
       PROVE  LoneInv'
  BY <1>13, <1>mine, <1>same, ZenonT(60) DEF Crash
<1>14. CASE UNCHANGED vars
  BY <1>14, <1>mine, <1>same, ZenonT(60) DEF vars
<1> QED
  BY <1>1, <1>2, <1>3, <1>4, <1>5, <1>6, <1>7, <1>8, <1>9, <1>10, <1>11, <1>12, <1>13, <1>14, Zenon
     DEF Next

LEMMA SaveInvariant == Spec => []SaveInv
<1>1. Init => SaveInv
  <2>1. Init => FreshInv
    BY Zenon DEF Init, FreshInv, Previous
  <2>2. Init => ApartInv
    BY MaxVersionAssumption DEF Init, ApartInv, Apart, LoneInv, Versions, Inodes, Previous
  <2> QED
    BY ManyInvInit, <2>1, <2>2 DEF SaveInv
<1>2. SaveInv /\ [Next]_vars => SaveInv'
  <2> SUFFICES ASSUME SaveInv, [Next]_vars
               PROVE  SaveInv'
    OBVIOUS
  <2>1. ManyInv' /\ FreshInv'
    BY ManyInvStep, FreshInvStep DEF SaveInv
  <2>2. ~overlap' => ~overlap
    BY Zenon DEF Next, vars, files, names, process, Change, PowerLoss, Dump, Unlink, Umask, Open, Write, Fsync,
           Replace, Chmod, RestoreUmask, SaveObject, RestoreFromFile, Crash
  <2>3. ApartInv'
    BY <2>2, ApartStep, LoneInvStep DEF SaveInv, ApartInv, ManyInv
  <2> QED
    BY <2>1, <2>3 DEF SaveInv
<1> QED
  BY <1>1, <1>2, PTL DEF Spec

(* As long as calls do not overlap, the file of save_to_file holds a       *)
(* complete configuration at every crash, power failure and failing write, *)
(* however many processes take turns.                                      *)
THEOREM TurnsKeepTheFileComplete == Spec => []CompleteUnlessOverlap
<1>1. SaveInv => CompleteUnlessOverlap
  BY DEF SaveInv, ApartInv, LoneInv, CompleteUnlessOverlap, SavedComplete
<1> QED
  BY SaveInvariant, <1>1, PTL

(* What earlier processes left never makes a save raise that no other one  *)
(* overlaps.                                                               *)
THEOREM TurnsIgnoreLeftovers == Spec => LeftoversHarmless
<1>1. SaveInv /\ [Next]_vars => [\A p \in Procs :
        ~overlap /\ pc[p] # "idle" /\ pc'[p] = "idle" =>
          outcome'[p] # "save raised"]_vars
  <2> SUFFICES ASSUME TypeOK, LoneInv, Next, NEW p \in Procs,
                      pc[p] # "idle", pc'[p] = "idle"
               PROVE  outcome'[p] # "save raised"
    BY Zenon DEF SaveInv, ManyInv, ApartInv
  <2> USE DEF TypeOK, Goto, End, Raise, SystemError
  <2>1. CASE Change
    BY <2>1, Zenon DEF Change
  <2>2. CASE PowerLoss
    BY <2>2, Zenon DEF PowerLoss
  <2>3. ASSUME NEW q \in Procs, Open(q) \/ Replace(q)
        PROVE  outcome'[p] # "save raised"
    <3>1. Mine(q) # NoFile
      BY Zenon DEF Mine, NoFile
    <3>2. CASE p = q
      <4>1. CASE Open(p)
        <5>1. temp = NoFile
          BY <4>1, Zenon DEF LoneInv, Open
        <5> QED
          BY <4>1, <5>1, Zenon DEF Open
      <4>2. CASE Replace(p)
        <5>1. temp # NoFile
          BY <3>1, <3>2, <4>2, Zenon DEF LoneInv, Replace
        <5> QED
          BY <4>2, <5>1, Zenon DEF Replace
      <4> QED
        BY <2>3, <3>2, <4>1, <4>2
    <3>3. CASE p # q
      BY <2>3, <3>3, ZenonT(60) DEF Open, Replace
    <3> QED
      BY <3>2, <3>3, Zenon
  <2>4. ASSUME NEW q \in Procs,
               Unlink(q) \/ Write(q) \/ Fsync(q) \/ Chmod(q) \/ RestoreUmask(q) \/ Crash(q)
        PROVE  outcome'[p] # "save raised"
    BY <2>4, ZenonT(60) DEF Unlink, Write, Fsync, Chmod, RestoreUmask, Crash
  <2>5. ASSUME NEW q \in Procs, Dump(q) \/ Umask(q) \/ SaveObject(q) \/ RestoreFromFile(q)
        PROVE  FALSE
    BY <2>5, Zenon DEF Dump, Umask, SaveObject, RestoreFromFile
  <2> QED
    BY <2>1, <2>2, <2>3, <2>4, <2>5, Zenon DEF Next
<1> QED
  BY SaveInvariant, <1>1, PTL DEF Spec, LeftoversHarmless

-----------------------------------------------------------------------------
(* The refinement of ConfigFile. *)

(* What a file holds that is there. *)
LEMMA ContentsType ==
  ASSUME NEW d \in [Inodes -> Versions \cup {Part}], NEW i \in Inodes
  PROVE  d[i] # Absent /\ d[i] \in Versions \cup {Part}
<1>1. Absent \notin Versions \cup {Part}
  BY MaxVersionAssumption DEF Absent, Part, Versions
<1>2. d[i] \in Versions \cup {Part}
  BY Zenon
<1> QED
  BY <1>1, <1>2

(* A call moves from stage to stage when its process does. *)
LEMMA StageStep ==
  ASSUME TypeOK, NEW p \in Procs, NEW s \in Steps, pc' = [pc EXCEPT ![p] = s]
  PROVE  Stage' = [Stage EXCEPT ![p] = IF s = "idle" THEN "idle"
                                       ELSE IF s \in {"chmod", "restore"} THEN "saved" ELSE "saving"]
BY Zenon DEF TypeOK, Stage

LEMMA StageSame ==
  ASSUME TypeOK, NEW p \in Procs, NEW s \in Steps, pc' = [pc EXCEPT ![p] = s],
         pc[p] \in {"unlink", "umask", "open", "write", "fsync"},
         s \in {"umask", "open", "write", "fsync", "replace"}
  PROVE  Stage' = Stage /\ Stage[p] = "saving"
BY ZenonT(60) DEF TypeOK, Stage

(* Nothing is seen of a step that leaves the directory and the data.       *)
LEMMA ContentsSame ==
  ASSUME names' = names, data' = data
  PROVE  Contents' = Contents /\ Held' = Held
BY DEF names, Contents, ContentsOf, Held

(* Nor of one that names or removes the temporary file,                    *)
LEMMA TempRenamed ==
  ASSUME NowInv, NEW t, Rename(save, t), data' = data
  PROVE  Contents' = Contents /\ Held' = Held
<1>1. <<save, t>>[1] = save /\ <<save, temp>>[1] = save
  OBVIOUS
<1>2. save' = save /\ past' = past \cup {<<save, t>>} /\ <<save, temp>> \in past
  BY DEF Rename, NowInv
<1>3. \A i : ContentsOf(i)' = ContentsOf(i)
  BY DEF ContentsOf
<1>4. Held' = {ContentsOf(n[1]) : n \in past'}
  BY <1>3, Zenon DEF Held
<1>5. \A c : c \in {ContentsOf(n[1]) : n \in past'} <=> c \in {ContentsOf(n[1]) : n \in past}
  BY <1>1, <1>2, Zenon
<1> QED
  BY <1>2, <1>3, <1>4, <1>5, Zenon DEF Held, Contents

(* nor of one that changes no file the directory has named.                *)
LEMMA DataUnseen ==
  ASSUME NowInv, names' = names,
         \A n \in past : n[1] # NoFile => data'[n[1]] = data[n[1]]
  PROVE  Contents' = Contents /\ Held' = Held
<1>1. <<save, temp>>[1] = save
  OBVIOUS
<1>2. save' = save /\ past' = past /\ <<save, temp>> \in past
  BY DEF names, NowInv
<1>3. \A n \in past : ContentsOf(n[1])' = ContentsOf(n[1])
  BY DEF ContentsOf
<1>4. save # NoFile => data'[save] = data[save]
  BY <1>1, <1>2, Zenon
<1>5. Contents' = Contents
  BY <1>2, <1>4, Zenon DEF Contents, ContentsOf
<1>6. Held' = {ContentsOf(n[1])' : n \in past'}
  BY Zenon DEF Held
<1> QED
  BY <1>2, <1>3, <1>5, <1>6, Zenon DEF Held

(* Calls that overlap do not remove the file. *)
LEMMA MixedStep ==
  ASSUME TypeOK, TypeOK', overlap, save # NoFile => save' # NoFile,
         \A n \in past' : n[1] = NoFile => \E m \in past : m[1] = NoFile
  PROVE  Atomic!Mixed
<1>1. \A i \in Inodes \cup {NoFile} :
         /\ ContentsOf(i)' \in Versions \cup {Part, Absent}
         /\ ContentsOf(i)' = Absent => i = NoFile
  <2>1. data' \in [Inodes -> Versions \cup {Part}]
    BY Zenon DEF TypeOK
  <2> QED
    BY <2>1, ContentsType, Zenon DEF ContentsOf
<1>2. \A n \in past' : n[1] \in Inodes \cup {NoFile}
  <2>1. \A n \in past' : n \in Entries \X Entries
    BY Zenon DEF TypeOK, Entries
  <2> QED
    BY <2>1, PairParts, Zenon DEF Entries
<1>3. save' \in Inodes \cup {NoFile}
  BY Zenon DEF TypeOK
<1>4. Contents' \in Versions \cup {Part, Absent} /\ (Contents' = Absent => Contents = Absent)
  BY <1>1, <1>3, Zenon DEF Contents, ContentsOf
<1>5. Held' = {ContentsOf(n[1])' : n \in past'}
  BY Zenon DEF Held
<1>6. Held' \subseteq Versions \cup {Part, Absent}
  BY <1>1, <1>2, <1>5, Zenon
<1>7. ASSUME Absent \in Held'
      PROVE  Absent \in Held
  <2>1. PICK n \in past' : ContentsOf(n[1])' = Absent
    BY <1>5, <1>7, Zenon
  <2>2. n[1] = NoFile
    BY <1>1, <1>2, <2>1, Zenon
  <2>3. PICK m \in past : m[1] = NoFile
    BY <2>2, Zenon
  <2>4. ContentsOf(m[1]) = Absent
    BY <2>3, Zenon DEF ContentsOf
  <2> QED
    BY <2>4, Zenon DEF Held
<1> QED
  BY <1>4, <1>6, <1>7, Zenon DEF Atomic!Mixed

(* A call that raises. *)
LEMMA FailStep ==
  ASSUME TypeOK, NEW p \in Procs, Stage[p] = "saving", Raise(p) \/ SystemError(p),
         UNCHANGED <<config, conf, overlap, names, data>>
  PROVE  Atomic!Fail(p)
<1>1. Stage' = [Stage EXCEPT ![p] = "idle"]
  BY StageStep, Zenon DEF Steps, Raise, SystemError, End
<1>2. Contents' = Contents /\ Held' = Held
  BY ContentsSame, Zenon
<1>3. \E how \in {"system error", "save raised"} : outcome' = [outcome EXCEPT ![p] = how]
  BY Zenon DEF Raise, SystemError, End
<1> QED
  BY <1>1, <1>2, <1>3, Zenon DEF Atomic!Fail

(* An unfinished step of save_to_file is a preparation. *)
LEMMA PrepareStep ==
  ASSUME SaveInv, TypeOK', NEW p \in Procs,
         Unlink(p) \/ Umask(p) \/ Open(p) \/ Write(p) \/ Fsync(p)
  PROVE  Atomic!Prepare(p) \/ Atomic!Fail(p)
<1>type. TypeOK /\ NowInv
  BY DEF SaveInv, ManyInv
<1>1. UNCHANGED <<config, conf, overlap>> /\ Stage[p] = "saving"
  BY Zenon DEF Unlink, Umask, Open, Write, Fsync, Stage, process
<1>2. CASE (Raise(p) \/ SystemError(p)) /\ UNCHANGED <<names, data>>
  BY <1>type, <1>1, <1>2, FailStep, Zenon
<1>3. CASE /\ Goto(p, "umask") \/ Goto(p, "open") \/ Goto(p, "write") \/ Goto(p, "fsync") \/ Goto(p, "replace")
           /\ \/ UNCHANGED <<names, data>>
              \/ (\E t : Rename(save, t)) /\ UNCHANGED data
              \/ Write(p) /\ data' = [data EXCEPT ![Mine(p)] = conf[p]]
  <2>1. Stage' = Stage /\ outcome' = outcome
    <3>1. pc[p] \in {"unlink", "umask", "open", "write", "fsync"}
      BY Zenon DEF Unlink, Umask, Open, Write, Fsync
    <3> QED
      BY <1>type, <1>3, <3>1, StageSame, Zenon DEF Steps, Goto
  <2>2. Atomic!Kept
    <3>1. CASE UNCHANGED <<names, data>>
      BY <3>1, ContentsSame, Zenon DEF Atomic!Kept
    <3>2. CASE (\E t : Rename(save, t)) /\ UNCHANGED data
      BY <1>type, <3>2, TempRenamed, Zenon DEF Atomic!Kept
    <3>3. CASE Write(p) /\ data' = [data EXCEPT ![Mine(p)] = conf[p]]
      <4>1. names' = names /\ save' = save /\ past' = past /\ pc[p] = "write"
        BY <3>3, Zenon DEF Write, names
      <4>2. CASE ~overlap
        <5>1. Mine(p) \notin synced
          BY <4>1, Zenon DEF SaveInv, FreshInv
        <5>2. \A n \in past : n[1] # NoFile => n[1] \in synced
          BY <4>2, Zenon DEF SaveInv, ApartInv, LoneInv
        <5>3. \A i \in synced : data'[i] = data[i]
          BY <1>type, <3>3, <5>1, Zenon DEF TypeOK
        <5> QED
          BY <1>type, <4>1, <5>2, <5>3, DataUnseen, Zenon DEF Atomic!Kept
      <4>3. CASE overlap
        BY <1>type, <4>1, <4>3, MixedStep, Zenon DEF Atomic!Kept
      <4> QED
        BY <1>type, <4>2, <4>3, Zenon DEF TypeOK
    <3> QED
      BY <1>3, <3>1, <3>2, <3>3
  <2> QED
    BY <1>1, <2>1, <2>2, Zenon DEF Atomic!Prepare
<1> QED
  BY <1>2, <1>3, Zenon DEF Unlink, Umask, Open, Write, Fsync, files, names

(* The replace is the step that puts the configuration into the file. *)
LEMMA PutStep ==
  ASSUME SaveInv, TypeOK', NEW p \in Procs, Replace(p)
  PROVE  Atomic!Put(p) \/ Atomic!Fail(p)
<1>type. TypeOK
  BY DEF SaveInv, ManyInv
<1>1. UNCHANGED <<config, conf, overlap, data>> /\ Stage[p] = "saving" /\ pc[p] = "replace"
  BY Zenon DEF Replace, Stage, process
<1>2. CASE (Raise(p) \/ SystemError(p)) /\ UNCHANGED names
  BY <1>type, <1>1, <1>2, FailStep, Zenon
<1>3. CASE temp # NoFile /\ Rename(temp, NoFile) /\ Goto(p, "chmod")
  <2>1. Stage' = [Stage EXCEPT ![p] = "saved"] /\ outcome' = outcome
    BY <1>type, <1>3, StageStep, Zenon DEF Goto, Steps
  <2>2. save' = temp /\ past' = past \cup {<<temp, NoFile>>} /\ <<temp, NoFile>>[1] = temp
    BY <1>3 DEF Rename
  <2>3. CASE ~overlap
    <3>1. data[temp] = conf[p]
      BY <1>1, <2>3, Zenon DEF SaveInv, ApartInv, LoneInv
    <3>2. \A i : ContentsOf(i)' = ContentsOf(i)
      BY <1>1 DEF ContentsOf
    <3>3. ContentsOf(temp) = conf[p]
      BY <1>3, <3>1, Zenon DEF ContentsOf
    <3>4. Contents' = conf[p]
      BY <2>2, <3>2, <3>3, Zenon DEF Contents
    <3>5. Held' = {ContentsOf(n[1]) : n \in past'}
      BY <3>2, Zenon DEF Held
    <3>6. \A c : c \in {ContentsOf(n[1]) : n \in past'} <=> c \in Held \cup {conf[p]}
      BY <2>2, <3>3, Zenon DEF Held
    <3> QED
      BY <1>1, <2>1, <3>4, <3>5, <3>6, Zenon DEF Atomic!Put
  <2>4. CASE overlap
    <3>1. Atomic!Mixed
      BY <1>type, <1>3, <2>2, <2>4, MixedStep, Zenon
    <3> QED
      BY <1>1, <2>1, <3>1, Zenon DEF Atomic!Put
  <2> QED
    BY <1>type, <2>3, <2>4, Zenon DEF TypeOK
<1> QED
  BY <1>2, <1>3, Zenon DEF Replace

(* A power failure ends every call and brings an earlier file back. *)
LEMMA PowerStep ==
  ASSUME SaveInv, PowerLoss
  PROVE  Atomic!PowerFails
<1>type. TypeOK
  BY DEF SaveInv, ManyInv
<1>1. UNCHANGED <<config, conf, overlap>>
  BY DEF PowerLoss, process
<1>2. Stage' = [p \in Procs |-> "idle"] /\ outcome' = [p \in Procs |-> "none"]
  BY DEF PowerLoss, Stage
<1>3. PICK n \in past : save' = n[1] /\ past' = {n}
  BY Zenon DEF PowerLoss
<1>4. n[1] \in Inodes \cup {NoFile}
  <2>1. n \in Entries \X Entries
    BY <1>type, Zenon DEF TypeOK, Entries
  <2> QED
    BY <2>1, PairParts, Zenon DEF Entries
<1>5. Held' = {Contents'}
  <2>1. Held' = {ContentsOf(m[1])' : m \in past'}
    BY Zenon DEF Held
  <2>2. Contents' = ContentsOf(n[1])'
    BY <1>3, Zenon DEF Contents, ContentsOf
  <2>3. \A c : c \in {ContentsOf(m[1])' : m \in past'} <=> c \in {Contents'}
    BY <1>3, <2>2, Zenon
  <2> QED
    BY <2>1, <2>3, Zenon
<1>6. ContentsOf(n[1]) \in Held
  BY Zenon DEF Held
<1>7. PICK lost \in SUBSET {i \in Inodes \ synced : data[i] # Part} :
         data' = [i \in Inodes |-> IF i \in lost THEN Part ELSE data[i]]
  BY Zenon DEF PowerLoss
<1>8. Contents' \in Held \/ (overlap /\ Contents' \in Versions \cup {Part})
  <2>1. CASE n[1] = NoFile
    <3>1. Contents' = ContentsOf(n[1])
      BY <1>3, <2>1, Zenon DEF Contents, ContentsOf
    <3> QED
      BY <1>6, <3>1, Zenon
  <2>2. CASE n[1] # NoFile /\ ~overlap
    <3>1. n[1] \in synced /\ n[1] \in Inodes
      BY <1>4, <2>2, Zenon DEF SaveInv, ApartInv, LoneInv
    <3>2. data'[n[1]] = data[n[1]]
      BY <1>7, <3>1, Zenon
    <3>3. Contents' = ContentsOf(n[1])
      BY <1>3, <2>2, <3>2, Zenon DEF Contents, ContentsOf
    <3> QED
      BY <1>6, <3>3, Zenon
  <2>3. CASE n[1] # NoFile /\ overlap
    <3>1. data'[n[1]] \in Versions \cup {Part}
      BY <1>type, <1>4, <1>7, <2>3, Zenon DEF TypeOK
    <3> QED
      BY <1>3, <2>3, <3>1, Zenon DEF Contents, ContentsOf
  <2> QED
    BY <1>type, <2>1, <2>2, <2>3, Zenon DEF TypeOK
<1> QED
  BY <1>1, <1>2, <1>5, <1>8, Zenon DEF Atomic!PowerFails

(* The other steps. *)
LEMMA OtherSteps ==
  ASSUME SaveInv, NEW p \in Procs
  PROVE  /\ Dump(p) => Atomic!Begin(p)
         /\ Chmod(p) => UNCHANGED Atomic!vars \/ Atomic!Fail(p)
         /\ RestoreUmask(p) => Atomic!Return(p)
         /\ SaveObject(p) \/ RestoreFromFile(p) => Atomic!Refuse(p)
         /\ Crash(p) => Atomic!Die(p)
<1> USE DEF names, files, process, Goto, End, Raise, SystemError
<1>type. TypeOK /\ pc \in [Procs -> Steps] /\ outcome = [q \in Procs |-> outcome[q]]
  BY Zenon DEF SaveInv, ManyInv, TypeOK
<1>stage. Stage = [q \in Procs |-> Stage[q]]
  BY DEF Stage
<1>1. ASSUME Dump(p)
      PROVE  Atomic!Begin(p)
  <2>1. Stage' = [Stage EXCEPT ![p] = "saving"]
    BY <1>type, <1>1, StageStep, Zenon DEF Dump, Steps
  <2>2. Contents' = Contents /\ Held' = Held
    BY <1>1, ContentsSame DEF Dump
  <2>3. \A q \in Procs : Stage[q] = "idle" <=> pc[q] = "idle"
    BY DEF Stage
  <2> QED
    BY <1>1, <2>1, <2>2, <2>3 DEF Dump, Atomic!Begin
<1>2. ASSUME Chmod(p)
      PROVE  UNCHANGED Atomic!vars \/ Atomic!Fail(p)
  <2>1. /\ Contents' = Contents /\ Held' = Held
        /\ UNCHANGED <<config, conf, overlap>> /\ Stage[p] = "saved"
    BY <1>2, ContentsSame DEF Chmod, Stage
  <2>2. CASE Goto(p, "restore")
    <3>1. Stage' = Stage /\ outcome' = outcome
      BY <1>type, <1>2, <2>2 DEF Chmod, Stage
    <3> QED
      BY <2>1, <3>1 DEF Atomic!vars
  <2>3. CASE SystemError(p)
    <3>1. Stage' = [Stage EXCEPT ![p] = "idle"]
      BY <1>type, <2>3, StageStep, Zenon DEF Steps
    <3> QED
      BY <2>1, <2>3, <3>1, Zenon DEF Atomic!Fail
  <2> QED
    BY <1>2, <2>2, <2>3 DEF Chmod
<1>3. ASSUME RestoreUmask(p)
      PROVE  Atomic!Return(p)
  <2>1. Stage' = [Stage EXCEPT ![p] = "idle"] /\ Stage[p] = "saved"
    BY <1>type, <1>3, StageStep, Zenon DEF RestoreUmask, Steps, Stage
  <2>2. Contents' = Contents /\ Held' = Held
    BY <1>3, ContentsSame DEF RestoreUmask
  <2> QED
    BY <1>3, <2>1, <2>2 DEF RestoreUmask, Atomic!Return
<1>4. ASSUME SaveObject(p) \/ RestoreFromFile(p)
      PROVE  Atomic!Refuse(p)
  <2>1. Stage' = Stage /\ Stage[p] = "idle"
    BY <1>type, <1>4, Zenon DEF SaveObject, RestoreFromFile, Stage
  <2>2. Contents' = Contents /\ Held' = Held
    BY <1>4, ContentsSame, Zenon DEF SaveObject, RestoreFromFile
  <2> QED
    BY <1>4, <2>1, <2>2, Zenon DEF SaveObject, RestoreFromFile, Atomic!Refuse
<1>5. ASSUME Crash(p)
      PROVE  Atomic!Die(p)
  <2>1. Stage' = [Stage EXCEPT ![p] = "idle"]
    BY <1>type, <1>5, StageStep, Zenon DEF Crash, Steps
  <2>2. Contents' = Contents /\ Held' = Held
    BY <1>5, ContentsSame DEF Crash
  <2> QED
    BY <1>5, <2>1, <2>2, Zenon DEF Crash, Atomic!Die
<1> QED
  BY <1>1, <1>2, <1>3, <1>4, <1>5

(* save_to_file implements the atomic file, for any number of savers.      *)
THEOREM SaveFileIsAtomic == Spec => AtomicFile
<1>1. Init => Atomic!Init
  <2> SUFFICES ASSUME Init
               PROVE  Atomic!Init
    OBVIOUS
  <2>1. 0 \in Versions
    BY MaxVersionAssumption DEF Versions
  <2>2. Contents \in Versions \cup {Absent}
    BY <2>1 DEF Init, Contents, ContentsOf, Inodes
  <2>3. Stage = [p \in Procs |-> "idle"]
    BY DEF Init, Stage
  <2>4. Held = {Contents}
    <3>1. past = {<<save, temp>>} /\ <<save, temp>>[1] = save
      BY DEF Init
    <3>2. \A c : c \in {ContentsOf(n[1]) : n \in past} <=> c \in {ContentsOf(save)}
      BY <3>1, Zenon
    <3> QED
      BY <3>2, Zenon DEF Held, Contents
  <2> QED
    BY <2>1, <2>2, <2>3, <2>4 DEF Init, Atomic!Init
<1>2. SaveInv /\ [Next]_vars => [Atomic!Next]_(Atomic!vars)
  <2> SUFFICES ASSUME SaveInv, [Next]_vars
               PROVE  [Atomic!Next]_(Atomic!vars)
    OBVIOUS
  <2>type. TypeOK'
    BY ManyInvStep DEF SaveInv, ManyInv
  <2>1. CASE Change
    <3>1. Contents' = Contents /\ Held' = Held /\ Stage' = Stage
      BY <2>1, ContentsSame DEF Change, Stage, files
    <3>2. config' \in Versions
      BY <2>1, NextVersion, Zenon DEF Change, SaveInv, ManyInv, TypeOK
    <3>3. Atomic!Change
      BY <2>1, <3>1, <3>2 DEF Change, Atomic!Change, process
    <3> QED
      BY <3>3 DEF Atomic!Next
  <2>2. CASE PowerLoss
    BY <2>2, PowerStep DEF Atomic!Next
  <2>3. ASSUME NEW p \in Procs, Unlink(p) \/ Umask(p) \/ Open(p) \/ Write(p) \/ Fsync(p)
        PROVE  Atomic!Next
    BY <2>type, <2>3, PrepareStep DEF Atomic!Next
  <2>4. ASSUME NEW p \in Procs, Replace(p)
        PROVE  Atomic!Next
    BY <2>type, <2>4, PutStep DEF Atomic!Next
  <2>5. ASSUME NEW p \in Procs,
               \/ Dump(p) \/ Chmod(p) \/ RestoreUmask(p) \/ SaveObject(p)
               \/ RestoreFromFile(p) \/ Crash(p)
        PROVE  [Atomic!Next]_(Atomic!vars)
    BY <2>5, OtherSteps DEF Atomic!Next
  <2>6. CASE UNCHANGED vars
    BY <2>6, ContentsSame DEF vars, files, process, Atomic!vars, Stage
  <2> QED
    BY <2>1, <2>2, <2>3, <2>4, <2>5, <2>6 DEF Next
<1> QED
  BY SaveInvariant, <1>1, <1>2, PTL DEF Spec, AtomicFile, Atomic!Spec
=============================================================================
