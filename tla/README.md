# A TLA+ model of rtslib-fb

rtslib-fb is the Python library that configures the Linux kernel's SCSI target
(LIO).  Its state is not in its objects: it is the directory tree that the
kernel shows below `/sys/kernel/config/target` (configfs).  A Python object is
a path; a constructor is a `mkdir` (and perhaps a `symlink` and some attribute
writes), `delete()` a series of `unlink` and `rmdir`.  Several processes
(targetcli, a daemon, `targetctl`) may work on the tree at the same time, and
each may die between any two of its system calls.  This is what makes the
library hard to test, and what the modules here are about.

## Parts of the system

| Part | Code | Model |
|---|---|---|
| Creating, finding and removing a configfs directory | `node.py` | steps of `Backstore`, `Exports`, `Alua` |
| Storage objects, backstores (HBAs), `bs_cache` | `tcm.py` | `Backstore` (directories, cache), `StorageObjects` (what is in them) |
| `RTSRoot()`, `dbroot`, persistent reservations | `root.py:76-182`, `tcm.py:84-124` | `DbRoot` |
| ALUA target port groups | `alua.py`, `tcm.py:244-283` | `Alua`; set up in `Restore` |
| Targets, TPGs, LUNs, portals, node ACLs, mapped LUNs | `target.py` | `Exports` |
| `RTSRoot.clear_existing` | `root.py:282-321` | `Backstore` (storage objects), `Exports` (all), `Restore` (scoped) |
| `RTSRoot.save_to_file`, `restore_from_file` | `root.py:443-494` | `SaveFile`, which implements `ConfigFile` |
| `RTSRoot.restore`, the `setup()` methods | `root.py:323-441`, `target.py`, `alua.py`, `fabric.py` | `Restore` |
| `RTSRoot.dump` | `root.py:266-280`, `tcm.py`, `alua.py` | `StorageObjects` (storage objects), `Alua` (groups); not that of targets |
| ACL groups and mapped LUN groups | `target.py:1360-1677` | `AclGroups` |
| Other parts | `fabric.py`, `utils.py`, `scripts/` | see *Not modelled* |

How they interact.  A LUN links to a storage object and a mapped LUN links to
a LUN, so deletion has to go from mapped LUNs to LUNs to storage objects, and
`StorageObject.delete` walks the whole export tree to find its LUNs.
`clear_existing` deletes targets first, then storage objects, then backstores
that are left over.  `save_to_file` dumps the tree into a file that is read at
the next boot, and `restore` goes through what was dumped in the opposite
order of deletion.  ACL groups are a view on the ACLs of one TPG: a group is
the set of ACLs with the same tag.

## Modules

### Backstore

One storage object is the directory `core/<plugin>_<index>/<name>`.  `hbas`
and `sos` are the two levels of directories, `enabled` the attribute that
`_configure` sets at its end.  Every process has a `bs_cache` (`cache`), a
program counter (`pc`), the object that its call is about (`obj`), and what
the call is (`mode`, `exc`, `todo`).  One action is one access to configfs
with the local work up to the next one:

* `OpenByName`, `OpenByIndex`: `_Backstore.__init__` up to the path (`tcm.py:973-1018`);
* `CreateHba`, `LookupHba`, `HbaExistsAgain`, `MkdirHba`, and `CreateObject`,
  `LookupObject`, `ObjectExistsAgain`, `MkdirObject`: `_create_in_cfs_ine` of the
  two directories (`node.py:46-74`).  The first test for existence depends on
  the mode; the second one is common to both, so that a lookup makes a directory
  that has vanished since, and a create adopts one that has appeared;
* `Configure`: `_configure` of the subclasses, with its error path into `delete()`;
* `Delete`, `DeleteCheckSelf`, `ObjectExists`, `RmdirObject`, `BackstoreExists`,
  `RmdirBackstore`: `StorageObject.delete` and `_Backstore.delete`;
* `StartClear`, `ClearNextObject`, `ClearNextHba`: `clear_existing`;
* `InvalidateCaches`, `Crash`.

The lock file of `_Backstore.__init__` brackets only accesses to the process's
own cache, so it separates nothing and has no variable.  A directory of a
backstore always contains the kernel's file `hba_info`, which `_parse_info`
reads.  The constant `Coordinated` says whether the processes take turns and
call `invalidate_caches()` (a lone process is a special case), `CallerIndexes`
whether callers pass `index=`.

### Exports

A node is its path: `<<t>>` a target, `<<t, g>>` a TPG, `<<t, g, "lun", i>>` a
LUN, and so on.  `dirs` is the set of directories, `link` the symlink in a LUN
or mapped LUN, `enabled` the TPGs that are enabled.  A process has a `stack`
of what its call still has to do; `delete()` of a class pushes the steps of
its body (`TargetDelete`, `TPGDelete`, `LUNDelete`, ...), a listing becomes a
frame with the entries still to visit, and an exception drops the stack, down
to the `except` clause of a LUN or MappedLUN constructor if there is one.
`CanRmdir` is what configfs accepts: no children, no symlink in the directory,
none to it.  External assumptions: the kernel accepts writing 0 to `enable`, and
to `iser` and `cxgbit` of a portal that is being deleted (`target.py:901-902`
would raise if not), and the removal of a symlink; it may refuse to make a
symlink, and to write `write_protect`.  The fabric is one with TPGs, portals and ACLs, such as iscsi.
An existence test and the call after it are one step; `Backstore` has them
apart.  `NamesAssumption` says that no target is called `core`, the directory
of the storage objects.

### SaveFile

The steps of `save_to_file`, one per system call: `Dump`, `Unlink`, `Umask`,
`Open`, `Write`, `Fsync`, `Replace`, `Chmod`, `RestoreUmask`.  Files are inodes
with data and mode, because a writer keeps the inode it opened when the name
is unlinked or renamed.  Every system call but `umask` may be refused
(`SystemError`); a refused `chmod` raises with the file already replaced
(`root.py:475` is outside the `try`).  An exception leaves the umask at 0177,
which the next call takes for the original one (`original`).  `Crash` stops a
process.  `PowerLoss` stops all of them, loses data that is not synced and,
because nothing syncs the directory, takes the two names back to what they were
at some time since the last power failure (`past`); changes of the directory
are taken to reach the disk in their order.  `SaveObject` and `RestoreFromFile` are the calls that raise at
`with Path(...).open as f`, where `open` is not called.

### Restore

A configuration is a set of *parts*: something that a `setup()` method makes
(a storage object, an ALUA group, a target, a TPG, a LUN, a portal, an ACL, a
mapped LUN) or a group of values that it writes (attributes, the membership of
a LUN in an ALUA group, the flag `enable`, ...).  `Parent` is the part in whose
dictionary it is, `Uses` the part that it refers to: the storage object of a
LUN, the LUN of a mapped LUN, the ALUA group of a membership.  `tree` is what
is in force.  A call (`Call`, with all five arguments of `restore`) deletes
what it is to clear (`Clear`, one node below the target or storage object after
the other, and it may raise after any of them; `ClearDiscovery`) and then sets
up one part per step; `stack` has the lists that are still to be visited, in the
order of the code (`Inner`, from `List`s of the dictionary).  There is one
action per kind of part, because what happens on a failure differs from one to
the next: most call `err_func` (`Report`) and go on, some raise, and a LUN
reports and then raises.  Three setters ignore a write that is refused (`Lose`):
that of a LUN's ALUA group, that of an ACL's tag (`target.py:1012-1017`) and
those of a TPG's CHAP values, which pass `ignore=True` (`target.py:401-416`);
`AbsenceReported` and `AllOrRaise` name them as the only ones.  An ALUA group
that is `PassedOver` is dropped too.

The configuration is one that `dump()` has made, a new dictionary for each
call; the guards against entries without a name or index are left out.
`ShapeAssumption` says what such a configuration looks like: which kind of
dictionary holds each kind of part (`Holder`), and that LUNs refer to storage
objects, memberships to ALUA groups and mapped LUNs to LUNs of their own TPG.

### AclGroups

`acl` gives for each initiator its ACL: tag, mapped LUNs, attributes and
parameters (one value), TCQ depth, CHAP settings.  A call on a group takes the
members as they are at its start and visits one per step (`Visit`); `add_acl`
has a step for each mapped LUN that it deletes or copies, one for the values,
and one for the tag.  Any write may be refused.  The call then ends where it is
with an exception, with two exceptions: the `finally` clause of `add_acl` still
sets the tag, and a refused tag is ignored (`NodeACL._set_tag`).  `torn` is a
history variable: for each of mapped LUNs, attributes and TCQ depth the groups
in which such an event, or a rename to the name of another group, may have left
members that differ in it.  `add_acl` does not copy the TCQ depth, although its
docstring (`target.py:1469-1471`) says that the ACL will match the group in all
but its auth parameters: an ACL that joins with another depth is in `torn` for
it (`Uncopied`), and without that reason `MembersAlike` fails.  The flag
`authenticate_target` is read only and follows from the CHAP settings, which may
vary.

### ConfigFile

What `save_to_file` promises its callers, in a dozen lines: a call takes the
configuration at its start, puts it into the file in one step and then
returns; it may raise before that step or after it.  A power failure brings back
what the file held at some time since the last one (`held`), complete in either
case.  Once two calls have overlapped the file may hold anything, but there is
one.  `SaveFile` instantiates it as `Atomic`: the
file is what the inode behind its name holds (`Contents`), a call is `saving`
up to the rename and `saved` after it (`Stage`), and what it wants is what it
dumped.  `AtomicFile` is the specification of `ConfigFile` under this mapping.

### Alua

One storage object, its ALUA groups, their ids, the parameters of each (one
value) and the group of each LUN.  The object has `default_tg_pt_gp` from the
start.  The constructor of a group is `Create`, `CheckNew`, `Make`, `SetId`
and, when the id is refused, `Undo`; a lookup is `Look` and `LookAgain`, which
makes a group that has vanished in between, without an id.  `Delete` takes the
members out of a group and removes it.  `dump()` and `StorageObject.delete`
visit the groups that they have listed (`ListAll`, `NextName`) and do
`Dumped` or `Removed` for each; the latter goes on with `DeleteLuns` and
`RmdirObject`.  Mapped LUNs are left to `Exports`: there `LUN.delete` raises on
one without a symlink, here every mapped LUN has its symlink.  `AcceptsId`, `Mkdir`, `Rmdir`, `CanRmdirObject` are what the
kernel does.  `torn` and `before` are history variables: whether a process
has died in a call or calls have overlapped, and the tree at the start of a
call that no other has overlapped.

### DbRoot

The kernel keeps persistent reservations in files below `dbroot`, which it
lets a process move only while no device is registered.  `NewRoot`, `Mount`,
`Module`, `Read`, `Write`, `Reread`, `Returns` are the steps of `RTSRoot()`;
`NewObject`, another `RTSRoot()`, `Aptpl`, `Inject` and `Undo` those of the
constructor of a storage object.  `Register`, `Persist`, `Boot` and
`FileAtBoot` are the kernel and the disk: the file is written in place, so
that a power failure leaves it empty or cut.  History variables: `early` (an
object was made by a process without an RTSRoot), `orphan` (its constructor
died), `stolen` (another process deleted the object of a constructor), `cut`,
`saved`.

### StorageObjects

What the five plugins make of their arguments (`Callable`, `Configurable`,
`PSCSISettings` ... `UserBackedSettings`), what their `dump()` makes of a
device (`PSCSIDump` ... `UserBackedDump`), and the calls around them: the
constructor (`Create`, `Configure`, `Enable`, `SetSerial`, `Undo`), `Delete`,
`SetAttribute`, `SetWwn`, a save that dumps one object after the other in two
steps each, and a restore that calls the constructors with what was dumped.
A machine restart empties configfs.  Conversions are kept: `Pages` rounds the
size of a ramdisk half to even, `PSCSISettings` keeps a path to a SCSI device
(`ScsiPaths`) and turns H:C:T:L into one (`Path`), `ParseInfo` cuts a TCMU
configuration at its first blank, and `ControlTuples` returns of the TCMU
settings those three that `_get_control_tuples` reads (`ReadBack`).  Of the attributes
`emulate_write_cache` is kept, which the fileio plugin treats apart.  `source`
records what an object was restored from.

## Runs

| Run | Bounds | Shows |
|---|---|---|
| `backstore_turns` | 2 processes in turns, 2 plugins, 2 names, 2 indexes, 1 crash | names stay unique, caches say what is in configfs, nothing half-built is left, lookups change nothing |
| `backstore_races` | 2 processes at once, 1 plugin, 2 names, 1 index, every existence test and `mkdir` a step | whatever the race, finished calls leave no empty backstore |
| `exports_alone` | 1 process, 1 TPG, 2 LUNs, 2 ACLs with 2 mapped LUNs, 1 portal, 2 objects, 1 crash | constructors clean up, `delete()` deletes the node and only dependents, a TPG is disabled first, and after a crash everything but LUNs and storage objects can be deleted and `clear_existing` leaves nothing |
| `exports_races` | 2 processes, one node of each kind | every call ends |
| `savefile_savers` | 2 savers with 2 saves between them, 2 versions, any number of crashes and power failures | `save_to_file` implements `ConfigFile` (so that the file vanishes only when a power failure takes back the first save, and is always complete without overlap); leftovers are harmless without overlap; the configuration is never in a readable file |
| `savefile_restore` | 1 process | violated: `restore_from_file` always raises |
| `restore_calls` | 2 calls, 2 configurations with every kind of part, 2 failures per call | what is missing after a restore was reported, or the call raised when it was to abort, but for the three kinds of values that get lost silently; nothing is in force without what it needs; without `clear_existing` nothing existing changes, with it nothing old remains; a scoped call stays in its scope |
| `restore_stops` | 1 call, 1 failure, a storage object with an ALUA group and a target | violated: the group is refused, the call raises and the target is never set up, against `targetctl(8)` |
| `aclgroups_calls` | 6 calls, 3 initiators, 2 groups, 2 indexes | members of a group have the same mapped LUNs, attributes and TCQ depth unless a refusal, a merger or, for the TCQ depth, a joining ACL with another one gave a reason; other ACLs, and CHAP settings, are left alone |
| `alua_calls` | 2 processes, 1 group besides the default one, 2 LUNs, 1 tag, crashes | a failing constructor and a dump leave no trace, every group has an id, `StorageObject.delete` copes with all that is left in the object, every call ends |
| `dbroot_boots` | 2 processes, 1 object, any number of restarts and power failures | the database is in the preferred directory, constructors read it where the kernel writes it, reservations survive |
| `storageobjects_restarts` | 2 processes, one object of each plugin of which callers make one at a time, 4 calls, 1 restart | what is saved is accepted by the constructors, a restored object is the one that was dumped in all that `dump()` returns complete, and dumps as before |

Why the bounds are enough for the cases of interest.  Two names and two
indexes make indexes run out and be reused; two plugins share the pool of
indexes and not the names; two processes give every pairwise race; one crash
is possible at every step, and the calls after it meet what it left.  Two LUNs
and two ACLs are needed for `LUN.delete` to have mapped LUNs that it must not
touch.  Two saves, of one saver or of two, let a save follow a
failed or interrupted one, and give every overlap of two.  Two restores let the second meet what the first left,
complete or not; two storage objects of one name and different plugins, and a
target that is in both configurations with different LUNs, are the collisions
that `restore` looks for.  Six calls are enough to fill a group with three
members, two of which were configured before, and to change it.  One group
besides the default one is enough for a refused id, because the kernel may
refuse any, and for two processes to make and delete the same one.  Four calls are enough to make an object, change
it, save it and restore it; the sizes are below a page, half-way between two
numbers of pages and between two halves.  Symmetry is used for processes, names, nodes and other
unordered values in runs without liveness properties.

Fairness.  `CallsEnd`, of `Exports` and of `Alua`, assumes weak fairness of a process's next step: the
operating system runs every process that is ready, and none of the steps
waits.  Nothing is assumed of the starting of new calls.

Some further behaviours are in the model and not in a run of their own.  With
`Coordinated = FALSE` and two indexes, two processes make one name twice
(`NameUnique` fails), a lookup that loses a race removes or makes directories
(`LookupReadOnly`), and `clear_existing` removes a backstore that a constructor
is about to fill, so that two objects end up in the next one
(`OneObjectPerBackstore`).  After a crash a stale backstore is not reclaimed,
because the test for it sees the kernel's files (`StaleHbaReclaimed`).  With two
processes the scan of `StorageObject.delete` for LUNs creates a target or TPG
that the other has just deleted (`DeleteCreatesNothing`).  With `CallerIndexes = TRUE` one process
can make a name twice.  `save_to_file` with `so_path` always raises, for the
same reason as `restore_from_file`.  `NoBrokenLink` holds for one process; with
two uncoordinated ones the clean-up of a LUN constructor can trip over a
mapped LUN that the other has not linked yet.  A failing `save_to_file`
leaves the process with umask 0177 (`SaveFile` has the behaviour, no property
refers to it).  After a crash `LUN.delete` and `StorageObject.delete` raise
because of a mapped LUN without symlink (`DeleteDeletes` fails in `Exports`;
`DeleteDeletesUnlessCrashed` holds), and two savers at once can rename a
half-written file into place (`SavedComplete` fails in `SaveFile`;
`CompleteUnlessOverlap` holds, as a consequence of `AtomicFile`).

The same goes for the newer modules.  In `Alua` the second existence test of
`_create_in_cfs_ine` lets a constructor go on with a group that another
process has just made, and delete it when its own id is refused; a lookup can
make a group without an id.  The parameters of `default_tg_pt_gp` are dumped
and not restored.  In `DbRoot` a process that dies between enabling an object
and writing `res_aptpl_metadata` leaves an object without reservations until
the next restart, and a file cut within a reservation loses it.  In
`StorageObjects` a save that meets an object in the making raises, and raises
for ever if its maker has died; between enable and the serial it saves an
empty serial, and a new one is generated at the restore.  `dump()` reads the
attributes before `write_back`, so that a change in between gives an entry
that never was a state.  These entries are what `Whole` excludes.  A TCMU
configuration is cut at its first blank (`NoBlanks`), TCMU settings that
`_get_control_tuples` does not read are those of the kernel again
(`ControlKept`; without it `RestoredAlike` fails), and a fileio object whose
`emulate_write_cache` was changed comes back in another mode (`CacheAsMade`).
These three are what `RestoredAlike` excepts.
`nullio` and `readonly` catch `AttributeError` where a kernel without the key
gives a `TypeError`; the model takes a kernel that has it.  Whether a device is
in use is tested before it is configured, and not modelled further than as a
refusal.

## Proofs

TLAPS checks the following for all values of the constants.  Each safety
property of each passing run is the subject of a theorem.  A leaf names its
prover where the default (SMT, then Zenon) is slow; `ExportsProofs` and
`RestoreProofs`, the longest, make Zenon the default with a `USE` and name SMT
where a leaf needs it.

`BackstoreProofs` (no assumption on coordination): `TypeCorrect`, and
`NoEmptyBackstoreLeft`.  The latter is not inductive; the invariant
`EmptyBackstoreOwned` says that while no process has died an empty backstore
is in the hands of a process that is about to fill or remove it.  Each step is
shown to be `Guarded`: it empties or makes only a backstore that it owns
afterwards, and gives up only one that is not empty.  A create that adopts the
directory of another process owns it too, from its second existence test on.

Its second half is about processes that take turns, with no caller-chosen
index and crashes at any step: `TurnsKeepNamesUnique`, `TurnsKeepOneObjectPerBackstore`,
`TurnsKeepCachesCoherent`, `TurnsLeaveNothingHalfBuilt`, `TurnsLookupReadOnly`.
They follow from `TurnInv`: at most one process is in a call or has anything
cached, indexes and names are unique in the tree, and `CallInv` says for each
step what the process knows, above all that its cache tells exactly what is in
configfs for every key but that of the object it is working on.

`SaveFileProofs`, for any number of savers: `TypeCorrect`,
`ConfigurationStaysPrivate` and `FileStays` hold of all calls, from an
invariant that a process about to open has its umask set, and one about to
write a private file (`ManyInv`).  `FileStays` says that the file vanishes only
in a power failure, and only when there was none since the last one.  `TurnsKeepTheFileComplete`,
`TurnsIgnoreLeftovers` and the refinement `SaveFileIsAtomic` are about calls
that do not overlap, crashes and power failures included.  They need
`ApartInv`: as long as no two calls have overlapped, data on the disk is
complete, the file and whatever a power failure may bring back as the file are
on the disk, and from the open to the replace the temporary file is the saver's
own; and `FreshInv`, that an inode is not on the
disk before it is written.

`AluaProofs`, for any number of processes, groups, LUNs and tags:
`TypeCorrect`, `GroupsHaveIds`, `FailedCallsLeaveNoTrace`,
`DeleteDeletesObject`.  `TreeInv` says that a group that is not there has no
id, parameters or members.  `SoloInv` says, for a call that no other has
overlapped, how the tree differs at each step from what it was at the start;
`IdInv` that a group without an id is in the hands of its constructor.

`DbRootProofs`, for any number of processes and objects:
`TypeCorrect`, `DatabaseIsPreferred`, `ConstructorReadsTheRoot`,
`ReservationsSurvive`.  `HomeInv` says that from the first RTSRoot of a process
on, and as long as a device is registered, the directory does not move;
`FileInv` and `RegsInv` follow the reservations from the kernel to the file and
back.

`StorageObjectsProofs`, for any objects, page
size, arguments and number of restarts: `TypeCorrect`,
`SavedObjectsAreRestorable`, `RestoreBringsTheObjectBack`,
`ConfigurationDoesNotDrift`.  The core is a lemma on the operators, that the
settings made from the dump of good settings are those settings, up to what
`dump()` does not show, and that a second dump shows the same (`RoundTrip`);
for ramdisks it rests on `Pages(PageSize * n) = n`, for the TCMU settings on
`ControlTwice`.  `SOInv` carries it through
the steps of a restore that others may interfere with.

`RestoreProofs`, for any configurations of the assumed shape, any failures and
any number of calls: `TypeCorrect`, `AlwaysClosed`, `AbsenceAlwaysReported`,
`AlwaysAllOrRaise`, `ExistingStaysUntouched`, `ScopeAlwaysRespected` and
`AlwaysMatchesConfig`, that is, every invariant of `restore_calls`.  They
follow from one inductive invariant, `RestoreInv`.  Its conjuncts are about
the two halves of a call.  While `clear_existing` runs, each part that is in
force is below an entry that is still to be deleted (`ClearInv`; without scope,
so that an empty stack means an empty tree).  While `setup()` runs, the part
that holds an entry of the stack is in force, and every part that was asked for
is in force, below an entry of the stack (`Pending`), lost silently, or needs a
part that was reported (`SetupInv`); entering a dictionary replaces its entry
by the entries in it, one of which is on the way to the part (`UpPath`,
`InnerOf`).  `UntouchedInv` and `ScopeInv` compare with the tree at the start of
the call.  `Up` and `Needs` are recursive functions along the nesting of the
dictionaries; that they have the values that their definitions say (`UpDef`,
`NeedsDef`) is proved from the depth of the nesting, and `ByLevels` takes the
place of induction over it.

`AclGroupsProofs`, for any initiators, groups and calls: `TypeCorrect`,
`MembersStayAlike` and the action property `OthersStayUntouched`.  `GroupInv`
follows a call through the members, field by field: those that are visited have what the call
sets and those that are not are as alike as before (`EachInv`), and an ACL that
joins a group agrees with the member it is modelled on in what has been copied
(`JoinInv`).  That two ACLs that are alike stay alike when the same call
visits both is a lemma on `After`.

`ExportsProofs`.  For any number of processes and crashes: `TypeCorrect`, and
`TreeKept`, that the parent of a directory is there and that a symlink leads
from a LUN to a storage object, or from a mapped LUN to a LUN of its TPG.  For
one process (`Alone`), any tree and any number of crashes: `NoBrokenLinkAlone`,
`DeleteDeletesAlone`, `RecoversAlone`, `OnlyDependentsAlone` and
`DisabledFirstAlone`, that is, every property of `exports_alone`, and
`DeleteCreatesNothingAlone`.  None of them is inductive, because a `delete()`
that is half-way through says nothing of the tree by itself; what makes the
next `rmdir` succeed is what the stack still has to do before it.
`StackInv` says this of the stack and the tree:

* whatever directory, symlink or enabled TPG would be in the way of a frame is
  taken away by a frame above it (`DirsCleared`, `LinksCleared`,
  `TPGsDisabled`, all of the form `Covers(stack, blocked, clearing)`);
* each frame works inside the node of the frames below it, on something that
  they do not visit any more (`Over`), and what is deleted because of a LUN or
  a storage object has a symlink that leads there (`Leads`);
* what a frame needs is there (`Ready`): without a crash no mapped LUN that
  `LUN._list_mapped_luns` will read lacks its symlink, and in the `delete()` of
  a TPG or target no ACL is left for it to read, which is why crashes do no harm
  there;
* the node of the call is still to be removed if it is there (`Sweeps`), and so
  is a LUN without its symlink (`BreaksMended`).

A frame is replaced by other frames, and `Fits` says which ones may take its
place; `PushInv` shows once that the invariant then stays, and the rest is to
show that what each step pushes fits.  A step that pushes the frames of
`delete()` of a node is taken in two, first a frame `delete`, as in the
clean-up of a constructor, then its expansion (`DeletePush`).  An empty stack
that satisfies `Sweeps` means that the node is gone.  With two uncoordinated
processes none of these holds: on the instance of `exports_races` TLC finds
each of them violated.

The assumptions are those that the modules declare: bounds are natural
numbers, values that stand for "none" are none of the others, arguments have
the types that the constructors document, configurations the shape that
`dump()` gives them.

Only model-checked: the liveness properties, `CallsEnd` of `Exports` and of
`Alua`.  Liveness under fairness is out of the prover's reach.

## Not modelled

* `_get_saveconf`, which merges one object into a saved file
  (`root.py:184-264`): it raises at its first file access (`SaveObject` of
  `SaveFile`), so that the merge is never reached.
* `dump()` of targets, TPGs, LUNs and ACLs; `Restore` takes what it would give.
  The reuse of one dictionary for two restores, from which `setup()` removes
  keys.
* Conversions of strings: WWN formats of `fabric.py` and `utils.py`, the device
  probing of `utils.py`.  They have no state.
* Attributes, parameters, CHAP settings and sessions, except as values that
  `Restore`, `AclGroups` and `StorageObjects` write: plain reads and writes of
  files.
* `targetctl` and the system service: a command line over the calls above.
* `convert-to-json`: a parser of an older file format.

## Plan

1. `dump()` of the export tree, for the round trip with `Restore`.
2. WWN conversions as operators against reference definitions.
