--------------------------- MODULE StorageObjects ---------------------------
(***************************************************************************)
(* What becomes of a storage object that is saved, lost at a restart and   *)
(* restored: the constructors and _configure() of the five plugins, their  *)
(* dump(), and the part of RTSRoot.restore that calls the constructors     *)
(* with what dump() returned (rtslib/tcm.py, node.py, root.py, utils.py).  *)
(*                                                                         *)
(* An object is a plugin and a name.  Of its attributes only               *)
(* emulate_write_cache is kept (variable cache of a device), which the     *)
(* fileio plugin treats apart; the others go the same way.  The writes     *)
(* that come before enable are one step: an object that is not enabled     *)
(* shows none of them, except udev_path to the pscsi plugin, for which it  *)
(* is the last one.  Backstore has the directories and their index, Alua   *)
(* the groups, DbRoot the reservations and SaveFile the file.              *)
(***************************************************************************)
EXTENDS Integers, Sequences, FiniteSets

CONSTANTS
  Procs,        \* the processes that use the library
  Objects,      \* pairs of a plugin and a name
  Requests,     \* the keyword arguments that callers pass, for each plugin
  Serials,      \* T10 unit serials
  Kind,         \* what a path leads to: "file", "dir", "disk", "cdrom"
  ScsiPaths,    \* the paths that lead to a SCSI device
  Path,         \* the device node of a SCSI device given as H:C:T:L
  DiskSize,     \* the size of a disk
  PageSize,     \* the page size of the machine
  Slashed,      \* words of a TCMU configuration with a "/"
  Coloned,      \* words of a TCMU configuration with a ":"
  DefaultHw,    \* hw_max_sectors when no one sets it
  DefaultControl, \* the other TCMU settings of the kernel, as long as no one sets them
  MaxObjects,   \* bound on the objects that callers make
  MaxCalls,     \* bound on the calls
  MaxBoots,     \* bound on the restarts
  None

Plugins == {"pscsi", "ramdisk", "fileio", "block", "user"}

ASSUME ObjectsAssumption == Objects \subseteq Plugins \X STRING
ASSUME PageAssumption == PageSize \in Nat \ {0}
ASSUME BoundsAssumption == MaxObjects \in Nat /\ MaxCalls \in Nat /\ MaxBoots \in Nat

Plugin(o) == o[1]

Get(kw, key, default) == IF key \in DOMAIN kw THEN kw[key] ELSE default

(* The arguments that callers are to pass. *)
Typed(plugin, kw) ==
  /\ Get(kw, "wwn", None) \in Serials \cup {None}
  /\ plugin = "ramdisk" => kw.size \in Nat /\ Get(kw, "nullio", FALSE) \in BOOLEAN
  /\ plugin = "fileio" => /\ Get(kw, "write_back", FALSE) \in BOOLEAN
                          /\ Get(kw, "aio", FALSE) \in BOOLEAN
  /\ plugin = "block" => Get(kw, "readonly", FALSE) \in BOOLEAN
  /\ plugin = "user" => kw.config \in Seq(STRING)

ASSUME RequestsAssumption ==
  \A plugin \in Plugins : \A kw \in Requests[plugin] : Typed(plugin, kw)

(* The device node of a SCSI device leads to that device. *)
ASSUME PathAssumption == \A d \in DOMAIN Path : Path[d] \in ScsiPaths

ASSUME NoneAssumption == None \notin Serials /\ None \notin BOOLEAN /\ None \notin Objects

VARIABLES
  tree,     \* the device behind each object, or None
  file,     \* what the last save has of each object, or None
  pc,       \* where each process is
  obj,      \* the object it works on
  kwargs,   \* the keyword arguments of its constructor
  attrs,    \* the attributes to set afterwards, None in a plain constructor
  todo,     \* the objects that its save or restore has to visit
  out,      \* what its save has collected
  source,   \* the process and the entry that an object was restored from, or None
  calls,    \* the number of calls so far
  boots     \* the number of restarts so far

vars == <<tree, file, pc, obj, kwargs, attrs, todo, out, source, calls, boots>>
local == <<pc, obj, kwargs, attrs, todo, out>>

Blank == [on |-> FALSE, serial |-> None, cache |-> FALSE, set |-> <<>>]
NoOutput == [o \in Objects |-> None]

Steps == {"ready", "made", "set", "enabled", "attributes", "undo", "restore", "dump", "values"}
Working == {"made", "set", "enabled", "attributes", "undo"}

(* A device has its settings when it is enabled; a process at work has an  *)
(* object; what a save has collected is of objects it has visited.         *)
TypeOK ==
  /\ \A o \in Objects : tree[o] # None =>
       /\ tree[o].on \in BOOLEAN /\ tree[o].cache \in BOOLEAN
       /\ tree[o].serial \in Serials \cup {None}
       /\ tree[o].on => tree[o].set # <<>>
  /\ pc \in [Procs -> Steps]
  /\ \A p \in Procs :
       /\ obj[p] \in Objects <=> pc[p] \in Working \cup {"values"}
       /\ todo[p] \subseteq Objects
       /\ pc[p] \in {"dump", "values"} => \A o \in todo[p] : out[p][o] = None
  /\ calls \in 0..MaxCalls /\ boots \in 0..MaxBoots

Init ==
  /\ tree = NoOutput /\ file = NoOutput /\ source = NoOutput
  /\ pc = [p \in Procs |-> "ready"]
  /\ obj = [p \in Procs |-> None] /\ kwargs = [p \in Procs |-> <<>>]
  /\ attrs = [p \in Procs |-> None]
  /\ todo = [p \in Procs |-> {}] /\ out = [p \in Procs |-> NoOutput]
  /\ calls = 0 /\ boots = 0

-----------------------------------------------------------------------------
(* What the constructors make of their arguments.                          *)

(* Mutant: the parameter that BlockStorageObject ignores is taken away. *)
ParametersNeeded(plugin) ==
  CASE plugin = "pscsi"  -> {"dev"}
    [] plugin = "ramdisk" -> {"size", "wwn", "nullio"}
    [] plugin = "fileio" -> {"dev", "size", "wwn", "write_back", "aio"}
    [] plugin = "block"  -> {"dev", "wwn", "readonly"}
    [] plugin = "user"   -> {"config", "size", "wwn", "hw_max_sectors", "control"}

Parameters(plugin) ==
  CASE plugin = "pscsi"  -> {"dev"}
    [] plugin = "ramdisk" -> {"size", "wwn", "nullio"}
    [] plugin = "fileio" -> {"dev", "size", "wwn", "write_back", "aio"}
    [] plugin = "block"  -> {"dev", "wwn", "readonly", "write_back"}
    [] plugin = "user"   -> {"config", "size", "wwn", "hw_max_sectors", "control"}

(* A TCMU configuration is a sequence of words with blanks between them. *)
HasOneOf(config, words) == \E i \in DOMAIN config : config[i] \in words

(* What is refused before the object is made.                              *)
Callable(plugin, kw) ==
  /\ DOMAIN kw \subseteq Parameters(plugin)
  /\ plugin = "user" => HasOneOf(kw.config, Slashed)

(* What _configure() refuses before it writes anything.                    *)
Configurable(plugin, kw) ==
  CASE plugin = "pscsi"  -> kw.dev \in ScsiPaths \cup DOMAIN Path
    [] plugin = "ramdisk" -> TRUE
    [] plugin = "fileio" -> \/ Kind[kw.dev] = "disk"
                            \/ Kind[kw.dev] = "file" /\ Get(kw, "size", None) # None
    [] plugin = "block"  -> Kind[kw.dev] = "disk"
    [] plugin = "user"   -> ~HasOneOf(kw.config, Coloned)

(* Mutant: one page more than fits. *)
PagesPlusOne(size) == size \div PageSize + 1

(* round(float(size) / pagesize), where halves go to the even number, and  *)
(* at least one page.                                                      *)
Pages(size) ==
  LET q == size \div PageSize
      r == size % PageSize
      n == IF 2 * r > PageSize \/ (2 * r = PageSize /\ q % 2 = 1) THEN q + 1 ELSE q
  IN  IF n = 0 THEN 1 ELSE n

(* What the writes to control and udev_path of _configure() leave in the   *)
(* kernel.                                                                 *)
PSCSISettings(kw) == [dev |-> IF kw.dev \in ScsiPaths THEN kw.dev ELSE Path[kw.dev]]

RDMCPSettings(kw) == [size |-> PageSize * Pages(kw.size), nullio |-> Get(kw, "nullio", FALSE)]

(* On a disk the object has the size of the disk. *)
FileIOSettings(kw) ==
  [dev |-> kw.dev, size |-> IF Kind[kw.dev] = "disk" THEN DiskSize ELSE kw.size,
   buffered |-> Get(kw, "write_back", FALSE), aio |-> Get(kw, "aio", FALSE)]

BlockSettings(kw) == [dev |-> kw.dev, readonly |-> Get(kw, "readonly", FALSE)]

(* The TCMU settings after a write of control=value tuples. *)
Control(tuples) == [k \in DOMAIN DefaultControl |-> Get(tuples, k, DefaultControl[k])]

UserBackedSettings(kw) ==
  [config |-> kw.config, size |-> kw.size, hw |-> Get(kw, "hw_max_sectors", DefaultHw),
   control |-> Control(Get(kw, "control", <<>>))]

Settings(plugin, kw) ==
  CASE plugin = "pscsi"   -> PSCSISettings(kw)
    [] plugin = "ramdisk" -> RDMCPSettings(kw)
    [] plugin = "fileio"  -> FileIOSettings(kw)
    [] plugin = "block"   -> BlockSettings(kw)
    [] plugin = "user"    -> UserBackedSettings(kw)

(* emulate_write_cache after _configure(): fileio sets it with write_back, *)
(* block takes the parameter and does nothing with it.                     *)
CacheSet(plugin, kw, cache) == cache \/ (plugin = "fileio" /\ Get(kw, "write_back", FALSE))

(* _parse_info takes the text up to the first blank. *)
ParseInfo(config) == <<Head(config)>>

(* The serial, for the plugins that dump it, can only be read once the     *)
(* object is enabled.                                                      *)
CanDump(o) == tree[o] # None /\ (Plugin(o) = "pscsi" \/ tree[o].on)

(* The part of dump() that goes into the keyword arguments of a restore.   *)
(* The udev_path of a pscsi object that is not there yet is empty.         *)
PSCSIDump(d) == [dev |-> Get(d.set, "dev", "")]

RDMCPDump(d) ==
  IF d.set.nullio THEN [wwn |-> d.serial, size |-> d.set.size, nullio |-> TRUE]
                  ELSE [wwn |-> d.serial, size |-> d.set.size]

(* Mutant: aio is not dumped. *)
FileIODumpNoAio(d) ==
  [write_back |-> d.cache, wwn |-> d.serial, dev |-> d.set.dev, size |-> d.set.size]

FileIODump(d) ==
  [write_back |-> d.cache, wwn |-> d.serial, dev |-> d.set.dev, size |-> d.set.size,
   aio |-> d.set.aio]

BlockDump(d) ==
  [write_back |-> d.cache, readonly |-> d.set.readonly, wwn |-> d.serial, dev |-> d.set.dev]

(* _get_control_tuples: the settings that it looks for and the kernel has. *)
ReadBack == {"max_data_area_mb", "hw_block_size", "data_pages_per_blk"}
ControlTuples(control) == [k \in DOMAIN control \cap ReadBack |-> control[k]]

UserBackedDump(d) ==
  [wwn |-> d.serial, size |-> d.set.size, config |-> ParseInfo(d.set.config),
   hw_max_sectors |-> d.set.hw, control |-> ControlTuples(d.set.control)]

Dump(plugin, d) ==
  CASE plugin = "pscsi"   -> PSCSIDump(d)
    [] plugin = "ramdisk" -> RDMCPDump(d)
    [] plugin = "fileio"  -> FileIODump(d)
    [] plugin = "block"   -> BlockDump(d)
    [] plugin = "user"    -> UserBackedDump(d)

-----------------------------------------------------------------------------
(* Calls and their steps.                                                  *)

Present == {o \in Objects : tree[o] # None}

Goto(p, step) == pc' = [pc EXCEPT ![p] = step]

(* The process may start a call; every call counts.                        *)
Call(p) == pc[p] = "ready" /\ calls < MaxCalls /\ calls' = calls + 1

(* A change by p: the object is as restored only while nobody else changes *)
(* it.                                                                     *)
Change(p, o, device) ==
  /\ tree' = [tree EXCEPT ![o] = device]
  /\ source' = [source EXCEPT ![o] = IF @ # None /\ @.by = p THEN @ ELSE None]

(* mkdir; then the object is p's to configure.                             *)
Make(p, o, kw, cache) ==
  /\ tree' = [tree EXCEPT ![o] = Blank]
  /\ Goto(p, "made")
  /\ obj' = [obj EXCEPT ![p] = o] /\ kwargs' = [kwargs EXCEPT ![p] = kw]
  /\ attrs' = [attrs EXCEPT ![p] = cache]

(* The process is done with the object.  A restore goes on to the next.    *)
Leave(p) ==
  /\ Goto(p, IF attrs[p] = None THEN "ready" ELSE "restore")
  /\ obj' = [obj EXCEPT ![p] = None] /\ kwargs' = [kwargs EXCEPT ![p] = <<>>]
  /\ attrs' = [attrs EXCEPT ![p] = None]
  /\ UNCHANGED <<todo, out>>

(* A constructor in creation mode.  One that is refused has no effect.     *)
Create(p, o, kw) ==
  /\ Call(p) /\ Cardinality(Present) < MaxObjects
  /\ tree[o] = None /\ Callable(Plugin(o), kw)
  /\ Make(p, o, kw, None)
  /\ source' = [source EXCEPT ![o] = None]
  /\ UNCHANGED <<file, todo, out, boots>>

At(p, step) == pc[p] = step /\ UNCHANGED <<file, calls, boots>>

(* The object of p is still there, and the next write to it succeeds.      *)
Proceed(p, step) ==
  /\ tree[obj[p]] # None
  /\ Goto(p, step)
  /\ UNCHANGED <<obj, kwargs, attrs, todo, out>>

(* A check or a write raises: the constructor deletes the object.          *)
Refused(p) == Goto(p, "undo") /\ UNCHANGED <<tree, source, obj, kwargs, attrs, todo, out>>

(* _configure() up to enable. *)
Configure(p) ==
  /\ At(p, "made")
  /\ \/ /\ Configurable(Plugin(obj[p]), kwargs[p])
        /\ Proceed(p, "set")
        /\ Change(p, obj[p],
                  [on |-> tree[obj[p]].on, serial |-> tree[obj[p]].serial,
                   cache |-> CacheSet(Plugin(obj[p]), kwargs[p], tree[obj[p]].cache),
                   set |-> Settings(Plugin(obj[p]), kwargs[p])])
     \/ Refused(p)

Enable(p) ==
  /\ At(p, "set")
  /\ \/ /\ Proceed(p, "enabled")
        /\ tree[obj[p]].set # <<>> /\ ~tree[obj[p]].on
        /\ Change(p, obj[p], [on |-> TRUE, serial |-> tree[obj[p]].serial,
                              cache |-> tree[obj[p]].cache, set |-> tree[obj[p]].set])
     \/ Refused(p)

(* The serial that is given, or a new one; a pscsi object has that of its  *)
(* device and takes no other.                                              *)
SerialsFor(plugin, kw) ==
  IF plugin = "pscsi" THEN {None}
  ELSE IF Get(kw, "wwn", None) # None THEN {kw.wwn} ELSE Serials

(* Mutant: attributes are set whether there are any or not. *)
SetSerialThenAttributes(p) ==
  /\ At(p, "enabled")
  /\ \/ /\ tree[obj[p]] # None /\ tree[obj[p]].on
        /\ \E s \in SerialsFor(Plugin(obj[p]), kwargs[p]) :
             Change(p, obj[p], [tree[obj[p]] EXCEPT !.serial = s])
        /\ Proceed(p, "attributes")
     \/ Refused(p)

(* StorageObject._configure, at the end of that of the plugin.  Reading    *)
(* the registrations, after the serial is set, may raise too.              *)
SetSerial(p) ==
  /\ At(p, "enabled")
  /\ \/ /\ tree[obj[p]] # None /\ tree[obj[p]].on
        /\ \E s \in SerialsFor(Plugin(obj[p]), kwargs[p]) :
             Change(p, obj[p], [tree[obj[p]] EXCEPT !.serial = s])
        /\ \/ attrs[p] # None /\ Proceed(p, "attributes")
           \/ attrs[p] = None /\ Leave(p)
           \/ Proceed(p, "undo")
     \/ Refused(p)

(* set_attributes at the end of a restore: an attribute that is refused is *)
(* reported, and the object stays.                                         *)
SetAttributes(p) ==
  /\ At(p, "attributes") /\ Leave(p)
  /\ \/ /\ tree[obj[p]] # None
        /\ Change(p, obj[p], [tree[obj[p]] EXCEPT !.cache = attrs[p]])
     \/ tree' = tree /\ source' = [source EXCEPT ![obj[p]] = None]

(* except: self.delete(); raise.  A restore reports it.                    *)
Undo(p) ==
  /\ At(p, "undo") /\ Leave(p)
  /\ tree' = [tree EXCEPT ![obj[p]] = None]
  /\ source' = [source EXCEPT ![obj[p]] = None]

Delete(p, o) ==
  /\ Call(p) /\ tree[o] # None
  /\ tree' = [tree EXCEPT ![o] = None] /\ source' = [source EXCEPT ![o] = None]
  /\ UNCHANGED <<file, local, boots>>

(* set_attribute("emulate_write_cache", value) and the setter of wwn.      *)
SetAttribute(p, o, value) ==
  /\ Call(p) /\ tree[o] # None
  /\ tree' = [tree EXCEPT ![o].cache = value] /\ source' = [source EXCEPT ![o] = None]
  /\ UNCHANGED <<file, local, boots>>

SetWwn(p, o, s) ==
  /\ Call(p) /\ tree[o] # None
  /\ tree[o].on /\ Plugin(o) # "pscsi"
  /\ tree' = [tree EXCEPT ![o].serial = s] /\ source' = [source EXCEPT ![o] = None]
  /\ UNCHANGED <<file, local, boots>>

-----------------------------------------------------------------------------
(* Saving: RTSRoot.dump lists the objects and dumps one after the other.   *)

Save(p) ==
  /\ Call(p)
  /\ Goto(p, "dump") /\ todo' = [todo EXCEPT ![p] = Present]
  /\ UNCHANGED <<tree, file, source, obj, kwargs, attrs, out, boots>>

Stop(p) ==
  /\ Goto(p, "ready")
  /\ obj' = [obj EXCEPT ![p] = None] /\ attrs' = [attrs EXCEPT ![p] = None]
  /\ kwargs' = [kwargs EXCEPT ![p] = <<>>]
  /\ todo' = [todo EXCEPT ![p] = {}] /\ out' = [out EXCEPT ![p] = NoOutput]

(* CFSNode.dump: the attributes come first.  An object that is gone raises *)
(* and with it the whole save.                                             *)
DumpAttributes(p, o) ==
  /\ At(p, "dump") /\ o \in todo[p]
  /\ \/ /\ tree[o] # None
        /\ Goto(p, "values")
        /\ obj' = [obj EXCEPT ![p] = o] /\ attrs' = [attrs EXCEPT ![p] = tree[o].cache]
        /\ UNCHANGED <<kwargs, todo, out>>
     \/ tree[o] = None /\ Stop(p)
  /\ UNCHANGED <<tree, source>>

(* Then the rest.  origin is not part of the entry: it records the device. *)
DumpValues(p) ==
  LET o == obj[p]
  IN  /\ At(p, "values")
      /\ \/ /\ CanDump(o)
            /\ out' = [out EXCEPT ![p][o] = [kwargs |-> Dump(Plugin(o), tree[o]),
                                             attrs |-> attrs[p], origin |-> tree[o]]]
            /\ todo' = [todo EXCEPT ![p] = @ \ {o}]
            /\ Goto(p, "dump")
            /\ obj' = [obj EXCEPT ![p] = None] /\ attrs' = [attrs EXCEPT ![p] = None]
            /\ UNCHANGED kwargs
         \/ ~CanDump(o) /\ Stop(p)
      /\ UNCHANGED <<tree, source>>

Saved(p) ==
  /\ pc[p] = "dump" /\ todo[p] = {}
  /\ file' = out[p] /\ Stop(p)
  /\ UNCHANGED <<tree, source, calls, boots>>

-----------------------------------------------------------------------------
(* Restoring, without clear_existing: refused when an object of the file   *)
(* is there.                                                               *)

Restore(p) ==
  /\ Call(p)
  /\ \A o \in Objects : file[o] # None => tree[o] = None
  /\ Goto(p, "restore")
  /\ todo' = [todo EXCEPT ![p] = {o \in Objects : file[o] # None}]
  /\ out' = [out EXCEPT ![p] = file]
  /\ UNCHANGED <<tree, file, source, obj, kwargs, attrs, boots>>

(* so_cls( **kwargs ); what it raises is reported and the next one is tried. *)
RestoreObject(p, o) ==
  /\ At(p, "restore") /\ o \in todo[p]
  /\ todo' = [todo EXCEPT ![p] = @ \ {o}]
  /\ UNCHANGED out
  /\ \/ /\ tree[o] = None /\ Callable(Plugin(o), out[p][o].kwargs)
        /\ Make(p, o, out[p][o].kwargs, out[p][o].attrs)
        /\ source' = [source EXCEPT ![o] = [by |-> p, entry |-> out[p][o]]]
     \/ UNCHANGED <<tree, source, pc, obj, kwargs, attrs>>

Restored(p) ==
  /\ At(p, "restore") /\ todo[p] = {}
  /\ Stop(p) /\ UNCHANGED <<tree, source>>

-----------------------------------------------------------------------------
(* A process dies, or the machine restarts: configfs is empty again.       *)

Crash(p) ==
  /\ pc[p] # "ready" /\ Stop(p)
  /\ source' = IF pc[p] \in Working THEN [source EXCEPT ![obj[p]] = None] ELSE source
  /\ UNCHANGED <<tree, file, calls, boots>>

Boot ==
  /\ boots < MaxBoots /\ boots' = boots + 1
  /\ tree' = NoOutput /\ source' = NoOutput
  /\ pc' = [p \in Procs |-> "ready"]
  /\ obj' = [p \in Procs |-> None] /\ kwargs' = [p \in Procs |-> <<>>]
  /\ attrs' = [p \in Procs |-> None]
  /\ todo' = [p \in Procs |-> {}] /\ out' = [p \in Procs |-> NoOutput]
  /\ UNCHANGED <<file, calls>>

Next ==
  \/ \E p \in Procs :
       \/ \E o \in Objects :
            \/ \E kw \in Requests[Plugin(o)] : Create(p, o, kw)
            \/ Delete(p, o) \/ DumpAttributes(p, o) \/ RestoreObject(p, o)
            \/ \E value \in BOOLEAN : SetAttribute(p, o, value)
            \/ \E s \in Serials : SetWwn(p, o, s)
       \/ Configure(p) \/ Enable(p) \/ SetSerial(p) \/ SetAttributes(p) \/ Undo(p)
       \/ Save(p) \/ DumpValues(p) \/ Saved(p)
       \/ Restore(p) \/ Restored(p) \/ Crash(p)
  \/ Boot

Spec == Init /\ [][Next]_vars

-----------------------------------------------------------------------------
(* Properties                                                              *)

(* An entry that is not of an object in the making, or of one whose maker  *)
(* died, and during which emulate_write_cache did not change.              *)
Whole(o, e) ==
  /\ e.origin.on /\ e.attrs = e.origin.cache
  /\ Plugin(o) = "pscsi" \/ e.origin.serial # None

(* The configuration of a TCMU object has no blanks: dump() cuts it there. *)
NoBlanks(o, e) == Plugin(o) = "user" => Len(e.origin.set.config) = 1

(* No TCMU setting was made that _get_control_tuples does not look for:    *)
(* dump() leaves it out, and the restored object has its default.          *)
ControlKept(o, e) ==
  Plugin(o) = "user" =>
    \A k \in DOMAIN e.origin.set.control \ ReadBack : e.origin.set.control[k] = DefaultControl[k]

(* emulate_write_cache is what it was when a fileio object was made; dump()*)
(* has no other trace of its buffered mode.                                *)
CacheAsMade(o, e) == Plugin(o) = "fileio" => e.origin.set.buffered = e.origin.cache

(* The restore of the object is over, all went well, and nobody has        *)
(* touched it since.                                                       *)
AsRestored(o) ==
  /\ source[o] # None
  /\ ~(obj[source[o].by] = o /\ pc[source[o].by] \in Working)

(* An object that comes back after a restart is the device that was        *)
(* dumped: its parameters, its attribute and its unit serial, however      *)
(* often the machine restarts and whatever other processes did meanwhile.  *)
(* Three things that dump() does not return complete are left out, against *)
(* its "complete state of the target config, suitable for [...] handing to *)
(* restore()": the words of a TCMU configuration after the first, the      *)
(* TCMU settings that _get_control_tuples does not look for, and whether a *)
(* fileio object is buffered when emulate_write_cache says otherwise.      *)
RestoredAlike ==
  \A o \in Objects :
    LET e == source[o].entry
    IN  /\ AsRestored(o) /\ Whole(o, e)
        /\ NoBlanks(o, e) /\ ControlKept(o, e) /\ CacheAsMade(o, e)
        => tree[o] = e.origin

(* A restored object dumps as what it was restored from, also where the    *)
(* device is not quite the old one: save after save and restart after      *)
(* restart, the configuration does not drift (the size of a ramdisk is     *)
(* rounded to pages at each creation, that of a file is passed through).   *)
NoDrift ==
  \A o \in Objects :
    LET e == source[o].entry
    IN  AsRestored(o) /\ Whole(o, e)
          => Dump(Plugin(o), tree[o]) = e.kwargs /\ tree[o].cache = e.attrs

(* What a save writes, the constructors take back: every key of the dump   *)
(* is a parameter and every value passes the checks, whichever of the      *)
(* equivalent arguments (H:C:T:L or path, disk or file) the object was     *)
(* made with.                                                              *)
Restorable ==
  \A o \in Objects :
    LET e == file[o]
    IN  e # None /\ Whole(o, e) /\ NoBlanks(o, e)
          => Callable(Plugin(o), e.kwargs) /\ Configurable(Plugin(o), e.kwargs)

=============================================================================
