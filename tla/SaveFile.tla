------------------------------ MODULE SaveFile ------------------------------
(***************************************************************************)
(* RTSRoot.save_to_file and restore_from_file (rtslib/root.py): the        *)
(* configuration is written to saveconfig.json.temp, which then replaces   *)
(* saveconfig.json.  Savers are processes; each system call is a step,     *)
(* each may fail and each may be the last before the process dies or the   *)
(* power fails.                                                            *)
(*                                                                         *)
(* A configuration is a version number.  A file is an inode with data and  *)
(* a mode: a writer keeps writing to the inode that it opened, whatever    *)
(* happens to the name.                                                    *)
(***************************************************************************)
EXTENDS Integers

CONSTANTS
  Procs,       \* processes that import rtslib
  MaxVersion,  \* bound on the changes to the configuration
  MaxSaves     \* bound on the calls of save_to_file

ASSUME MaxVersionAssumption == MaxVersion \in Nat
ASSUME MaxSavesAssumption == MaxSaves \in Nat

Versions == 0 .. MaxVersion
Part == -1                 \* data: only a part of a configuration
NoFile == <<>>
Leftover == <<"leftover">> \* files that were there before
Previous == <<"previous">>
New == Procs \X (1 .. MaxSaves)     \* of a process and the number of its call
Inodes == New \cup {Leftover, Previous}

Steps == {"idle", "unlink", "umask", "open", "write", "fsync", "replace", "chmod", "restore"}

VARIABLES
  config,   \* the version of the running configuration
  save,     \* the inode named saveconfig.json
  temp,     \* the inode named saveconfig.json.temp
  past,     \* the <<save, temp>> of the directory since the last power failure
  data,     \* what each inode holds
  private,  \* the inodes of mode 0600
  synced,   \* the inodes whose data is on the disk
  umask,    \* the processes whose umask is 0177
  original, \* the processes whose original_umask is 0177
  pc,       \* the next step of each process
  conf,     \* the version each process is saving
  count,    \* the calls of save_to_file each process has made
  calls,    \* the calls of save_to_file that all have made
  overlap,  \* history: whether two calls have been under way at a time
  outcome   \* how the last call of each process ended, none while in one

names == <<save, temp, past>>
files == <<names, data, private, synced>>
umasks == <<umask, original>>
process == <<conf, count, calls, overlap>>
vars == <<config, files, umasks, pc, process, outcome>>

Outcomes == {"none", "saved", "system error", "save raised", "restore raised"}

(* One type per variable. *)
TypeOK ==
  /\ config \in Versions
  /\ save \in Inodes \cup {NoFile}
  /\ temp \in Inodes \cup {NoFile}
  /\ past \subseteq (Inodes \cup {NoFile}) \X (Inodes \cup {NoFile})
  /\ data \in [Inodes -> Versions \cup {Part}]
  /\ private \subseteq Inodes
  /\ synced \subseteq Inodes
  /\ umask \subseteq Procs
  /\ original \subseteq Procs
  /\ pc \in [Procs -> Steps]
  /\ conf \in [Procs -> Versions]
  /\ count \in [Procs -> Nat]
  /\ calls \in 0 .. MaxSaves /\ \A p \in Procs : count[p] <= calls
  /\ overlap \in BOOLEAN
  /\ outcome \in [Procs -> Outcomes]

(* There may be a file from an earlier save and a temporary one that an    *)
(* earlier process left, both of any mode.                                 *)
Init ==
  /\ config = 0
  /\ save \in {NoFile, Previous}
  /\ temp \in {NoFile, Leftover}
  /\ past = {<<save, temp>>}
  /\ data = [i \in Inodes |-> IF i = Previous THEN 0 ELSE Part]
  /\ private \in SUBSET ({save, temp} \ {NoFile})
  /\ synced = {Previous}
  /\ umask = {} /\ original = {}
  /\ pc = [p \in Procs |-> "idle"]
  /\ conf = [p \in Procs |-> 0]
  /\ count = [p \in Procs |-> 0] /\ calls = 0
  /\ overlap = FALSE
  /\ outcome = [p \in Procs |-> "none"]

Mine(p) == <<p, count[p]>>

Goto(p, step) == pc' = [pc EXCEPT ![p] = step] /\ UNCHANGED outcome

End(p, how) ==
  /\ pc' = [pc EXCEPT ![p] = "idle"]
  /\ outcome' = [outcome EXCEPT ![p] = how]

(* A call ends with an exception: because the temporary file is in its way *)
(* or gone, or because the system refuses (no space, no permission).       *)
Raise(p) == End(p, "save raised")
SystemError(p) == End(p, "system error")

(* A change of the directory, which is on the disk at some later time. *)
Rename(s, t) == save' = s /\ temp' = t /\ past' = past \cup {<<s, t>>}

-----------------------------------------------------------------------------
(* Any other use of the library changes the configuration. *)
Change ==
  /\ config < MaxVersion
  /\ config' = config + 1
  /\ UNCHANGED <<files, umasks, pc, process, outcome>>

(* save_to_file(save_file): dump() comes first. *)
Dump(p) ==
  /\ pc[p] = "idle" /\ calls < MaxSaves
  /\ calls' = calls + 1
  /\ count' = [count EXCEPT ![p] = @ + 1]
  /\ conf' = [conf EXCEPT ![p] = config]
  /\ overlap' = (overlap \/ \E q \in Procs \ {p} : pc[q] # "idle")
  /\ pc' = [pc EXCEPT ![p] = "unlink"]
  /\ outcome' = [outcome EXCEPT ![p] = "none"]
  /\ UNCHANGED <<config, files, umasks>>

(* Mutant: nothing is removed. *)
UnlinkNothing(p) ==
  /\ pc[p] = "unlink" /\ Goto(p, "umask")
  /\ UNCHANGED <<config, files, umasks, process>>

Unlink(p) ==
  /\ pc[p] = "unlink"
  /\ \/ Rename(save, NoFile) /\ Goto(p, "umask")
     \/ SystemError(p) /\ UNCHANGED names
  /\ UNCHANGED <<config, data, private, synced, umasks, process>>

(* Mutant: the umask stays. *)
UmaskUnchanged(p) ==
  /\ pc[p] = "umask" /\ Goto(p, "open")
  /\ UNCHANGED <<config, files, umasks, process>>

(* os.umask returns the umask that it replaces. *)
Umask(p) ==
  /\ pc[p] = "umask" /\ Goto(p, "open")
  /\ umask' = umask \cup {p}
  /\ original' = IF p \in umask THEN original \cup {p} ELSE original \ {p}
  /\ UNCHANGED <<config, files, process>>

(* open(mode="x") fails when the file exists.  An exception, here and      *)
(* below, leaves the umask and the temporary file as they are.             *)
Open(p) ==
  /\ pc[p] = "open"
  /\ \/ /\ temp = NoFile
        /\ Rename(save, Mine(p))
        /\ private' = IF p \in umask THEN private \cup {Mine(p)} ELSE private
        /\ Goto(p, "write")
     \/ /\ temp # NoFile /\ Raise(p)
        /\ UNCHANGED <<names, private>>
     \/ SystemError(p) /\ UNCHANGED <<names, private>>
  /\ UNCHANGED <<config, data, synced, umasks, process>>

(* json.dump, write and flush. *)
Write(p) ==
  /\ pc[p] = "write"
  /\ \/ data' = [data EXCEPT ![Mine(p)] = conf[p]] /\ Goto(p, "fsync")
     \/ SystemError(p) /\ UNCHANGED data
  /\ UNCHANGED <<config, names, private, synced, umasks, process>>

(* Mutant: the file is flushed to the kernel only. *)
FsyncLeftOut(p) ==
  /\ pc[p] = "fsync" /\ Goto(p, "replace")
  /\ UNCHANGED <<config, files, umasks, process>>

Fsync(p) ==
  /\ pc[p] = "fsync"
  /\ \/ synced' = synced \cup {Mine(p)} /\ Goto(p, "replace")
     \/ SystemError(p) /\ UNCHANGED synced
  /\ UNCHANGED <<config, names, data, private, umasks, process>>

Replace(p) ==
  /\ pc[p] = "replace"
  /\ \/ temp # NoFile /\ Rename(temp, NoFile) /\ Goto(p, "chmod")
     \/ temp = NoFile /\ Raise(p) /\ UNCHANGED names
     \/ SystemError(p) /\ UNCHANGED names
  /\ UNCHANGED <<config, data, private, synced, umasks, process>>

(* Mutant: the mode of the temporary name is set. *)
ChmodTemp(p) ==
  /\ pc[p] = "chmod" /\ Goto(p, "restore")
  /\ private' = private \cup {temp}
  /\ UNCHANGED <<config, names, data, synced, umasks, process>>

(* A chmod that is refused raises with the file already replaced. *)
Chmod(p) ==
  /\ pc[p] = "chmod"
  /\ \/ private' = private \cup {save} /\ Goto(p, "restore")
     \/ SystemError(p) /\ UNCHANGED private
  /\ UNCHANGED <<config, names, data, synced, umasks, process>>

RestoreUmask(p) ==
  /\ pc[p] = "restore" /\ End(p, "saved")
  /\ umask' = IF p \in original THEN umask ELSE umask \ {p}
  /\ UNCHANGED <<config, files, original, process>>

(* save_to_file(save_file, so_path): "with Path(save_file).open as f" in   *)
(* _get_saveconf names the method and does not call it, which raises       *)
(* before the file is touched.                                             *)
SaveObject(p) ==
  /\ pc[p] = "idle" /\ Raise(p)
  /\ UNCHANGED <<config, files, umasks, process>>

(* restore_from_file opens its file in the same way. *)
RestoreFromFile(p) ==
  /\ pc[p] = "idle" /\ End(p, "restore raised")
  /\ UNCHANGED <<config, files, umasks, process>>

-----------------------------------------------------------------------------
(* A process dies and is started again, with its umask as it was. *)
Crash(p) ==
  /\ pc[p] # "idle"
  /\ End(p, "none")
  /\ umask' = umask \ {p}
  /\ original' = original \ {p}
  /\ UNCHANGED <<config, files, process>>

(* The power fails.  Data that is not synced may be lost.  Nothing in the  *)
(* code syncs the directory, so its last changes may be lost too: it is as *)
(* it was at some time since the last power failure.                       *)
PowerLoss ==
  /\ \E lost \in SUBSET {i \in Inodes \ synced : data[i] # Part} :
       data' = [i \in Inodes |-> IF i \in lost THEN Part ELSE data[i]]
  /\ \E n \in past : save' = n[1] /\ temp' = n[2] /\ past' = {n}
  /\ pc' = [p \in Procs |-> "idle"]
  /\ outcome' = [p \in Procs |-> "none"]
  /\ umask' = {} /\ original' = {}
  /\ UNCHANGED <<config, private, synced, process>>

Next ==
  \/ Change
  \/ PowerLoss
  \/ \E p \in Procs :
       \/ Dump(p) \/ Unlink(p) \/ Umask(p) \/ Open(p) \/ Write(p) \/ Fsync(p)
       \/ Replace(p) \/ Chmod(p) \/ RestoreUmask(p)
       \/ SaveObject(p) \/ RestoreFromFile(p) \/ Crash(p)

Spec == Init /\ [][Next]_vars

-----------------------------------------------------------------------------
(* Properties. *)

(* Whenever a process dies, the power fails or the disk is full, the file  *)
(* that a restore would read holds one complete configuration: it is only  *)
(* ever replaced by a file that is written and synced.                     *)
SavedComplete == save # NoFile => data[save] \in Versions

(* The same for processes whose calls never overlap. *)
CompleteUnlessOverlap == ~overlap => SavedComplete

(* A call that no other one overlaps raises only when the system refuses   *)
(* something: what an earlier one left, or a power failure brought back,   *)
(* never makes its exclusive open or its replace fail.                     *)
LeftoversHarmless ==
  [][\A p \in Procs :
       ~overlap /\ pc[p] # "idle" /\ pc'[p] = "idle" =>
         outcome'[p] # "save raised"]_vars

(* "For security, remove file with potentially elevated mode": no data is  *)
(* ever in a file that others may read, between its creation and the chmod *)
(* included, except in the one that was there before.                      *)
NeverReadable == \A i \in Inodes \ {Previous} : data[i] \in Versions => i \in private

(* A configuration file vanishes only in a power failure, and only when    *)
(* there was none at some time since the last one.                         *)
SaveFileStays ==
  [][save # NoFile /\ save' = NoFile =>
       PowerLoss /\ \E n \in past : n[1] = NoFile]_vars

(* "Restore the configuration from a file in json format": with a complete *)
(* file, restore_from_file makes its configuration the running one.        *)
RestoreRestores ==
  [][\A p \in Procs :
       RestoreFromFile(p) /\ save # NoFile => config' = data[save]]_vars

-----------------------------------------------------------------------------
(* The steps of save_to_file as those of an atomic file: the replace is    *)
(* the step that puts the configuration into the file.                     *)
Absent == -2

ContentsOf(i) == IF i = NoFile THEN Absent ELSE data[i]
Contents == ContentsOf(save)
Held == {ContentsOf(n[1]) : n \in past}

Stage ==
  [p \in Procs |->
     IF pc[p] = "idle" THEN "idle"
     ELSE IF pc[p] \in {"chmod", "restore"} THEN "saved" ELSE "saving"]

Atomic ==
  INSTANCE ConfigFile WITH
    NoConfig <- Absent, Broken <- Part, file <- Contents, held <- Held,
    stage <- Stage, wanted <- conf

(* save_to_file is an atomic file for calls that do not overlap, and one   *)
(* that does not vanish for all: the file changes only when a call puts    *)
(* its configuration there, a call that returns has done so, one that      *)
(* raises has done so or left the file as it was, and a power failure      *)
(* brings the file back as it was at some time since the last one.         *)
AtomicFile == Atomic!Spec
=============================================================================
