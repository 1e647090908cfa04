------------------------ MODULE StorageObjectsProofs ------------------------
(***************************************************************************)
(* Proofs about StorageObjects, for any number of processes, objects,      *)
(* calls and restarts.                                                     *)
(***************************************************************************)
EXTENDS StorageObjects, TLAPS

-----------------------------------------------------------------------------
(* What dump() returns, the constructor turns into the same settings.      *)

(* The settings that _configure() leaves behind. *)
GoodSet(plugin, set) ==
  CASE plugin = "pscsi"   -> \E d \in ScsiPaths : set = [dev |-> d]
    [] plugin = "ramdisk" -> \E n \in Nat \ {0}, b \in BOOLEAN :
                               set = [size |-> PageSize * n, nullio |-> b]
    [] plugin = "fileio"  -> \E d, s : \E b, a \in BOOLEAN :
                               /\ set = [dev |-> d, size |-> s, buffered |-> b, aio |-> a]
                               /\ \/ Kind[d] = "disk" /\ s = DiskSize
                                  \/ Kind[d] = "file" /\ s # None
    [] plugin = "block"   -> \E d : \E b \in BOOLEAN :
                               set = [dev |-> d, readonly |-> b] /\ Kind[d] = "disk"
    [] plugin = "user"    -> \E c \in Seq(STRING) : \E s, h, t :
                               /\ set = [config |-> c, size |-> s, hw |-> h, control |-> Control(t)]
                               /\ HasOneOf(c, Slashed) /\ ~HasOneOf(c, Coloned)

LEMMA PagesOfWhole ==
  ASSUME NEW n \in Nat \ {0}
  PROVE  Pages(PageSize * n) = n
<1>1. PageSize \in Nat \ {0}
  BY PageAssumption
<1>2. PageSize * n \in Nat
  BY <1>1
<1>3. (PageSize * n) \div PageSize = n /\ (PageSize * n) % PageSize = 0
  BY <1>1, SMTT(30)
<1> QED
  BY <1>1, <1>3 DEF Pages

LEMMA PagesPositive ==
  ASSUME NEW s \in Nat
  PROVE  Pages(s) \in Nat \ {0}
<1>1. PageSize \in Nat \ {0}
  BY PageAssumption
<1>2. s \div PageSize \in Nat
  BY <1>1, SMTT(30)
<1> QED
  BY <1>1, <1>2 DEF Pages

LEMMA SettingsGood ==
  ASSUME NEW plugin \in Plugins, NEW kw, Typed(plugin, kw), Callable(plugin, kw),
         Configurable(plugin, kw)
  PROVE  GoodSet(plugin, Settings(plugin, kw))
<1>1. CASE plugin = "pscsi"
  BY <1>1, PathAssumption DEF Settings, PSCSISettings, GoodSet, Configurable
<1>2. CASE plugin = "ramdisk"
  <2>1. Pages(kw.size) \in Nat \ {0}
    BY <1>2, PagesPositive DEF Typed
  <2> QED
    BY <1>2, <2>1, Zenon DEF Settings, RDMCPSettings, GoodSet, Typed
<1>3. CASE plugin = "fileio"
  <2>1. CASE Kind[kw.dev] = "disk"
    BY <1>3, <2>1, Zenon DEF Settings, FileIOSettings, GoodSet, Typed
  <2>2. CASE Kind[kw.dev] = "file" /\ Get(kw, "size", None) # None
    <3>1. kw.size # None
      BY <2>2 DEF Get
    <3> DEFINE b == Get(kw, "write_back", FALSE)
               a == Get(kw, "aio", FALSE)
    <3>2. b \in BOOLEAN /\ a \in BOOLEAN
      BY <1>3, Zenon DEF Typed
    <3>3. Settings(plugin, kw) = [dev |-> kw.dev, size |-> kw.size, buffered |-> b, aio |-> a]
      BY <1>3, <2>2 DEF Settings, FileIOSettings
    <3> HIDE DEF b, a
    <3> QED
      BY <1>3, <2>2, <3>1, <3>2, <3>3 DEF GoodSet
  <2> QED
    BY <1>3, <2>1, <2>2 DEF Configurable
<1>4. CASE plugin = "block"
  BY <1>4, Zenon DEF Settings, BlockSettings, GoodSet, Typed, Configurable
<1>5. CASE plugin = "user"
  BY <1>5, Zenon DEF Settings, UserBackedSettings, GoodSet, Typed, Configurable, Callable
<1> QED
  BY <1>1, <1>2, <1>3, <1>4, <1>5 DEF Plugins

(* A configuration without blanks is what _parse_info returns. *)
LEMMA FirstWord ==
  ASSUME NEW c \in Seq(STRING), NEW words, HasOneOf(c, words)
  PROVE  /\ ParseInfo(c) \in Seq(STRING) /\ ParseInfo(ParseInfo(c)) = ParseInfo(c)
         /\ Len(c) = 1 => ParseInfo(c) = c
<1>1. Len(c) > 0
  BY DEF HasOneOf
<1>2. Head(c) \in STRING
  BY <1>1
<1>3. Len(c) = 1 => c = <<c[1]>>
  OBVIOUS
<1> QED
  BY <1>1, <1>2, <1>3 DEF ParseInfo

LEMMA FirstWordHas ==
  ASSUME NEW c \in Seq(STRING), c # <<>>, NEW words
  PROVE  HasOneOf(ParseInfo(c), words) => HasOneOf(c, words)
<1>1. Len(c) > 0 /\ Head(c) = c[1] /\ 1 \in DOMAIN c
  OBVIOUS
<1>2. DOMAIN <<c[1]>> = {1} /\ <<c[1]>>[1] = c[1]
  OBVIOUS
<1> QED
  BY <1>1, <1>2 DEF ParseInfo, HasOneOf

LEMMA TypedRamdisk ==
  ASSUME NEW kw, Get(kw, "wwn", None) \in Serials \cup {None}, kw.size \in Nat,
         Get(kw, "nullio", FALSE) \in BOOLEAN
  PROVE  Typed("ramdisk", kw)
BY Zenon DEF Typed

LEMMA TypedFileio ==
  ASSUME NEW kw, Get(kw, "wwn", None) \in Serials \cup {None},
         Get(kw, "write_back", FALSE) \in BOOLEAN, Get(kw, "aio", FALSE) \in BOOLEAN
  PROVE  Typed("fileio", kw)
BY Zenon DEF Typed

LEMMA TypedBlock ==
  ASSUME NEW kw, Get(kw, "wwn", None) \in Serials \cup {None},
         Get(kw, "readonly", FALSE) \in BOOLEAN
  PROVE  Typed("block", kw)
BY Zenon DEF Typed

(* What is dumped can be passed to the constructor.                        *)
LEMMA DumpTyped ==
  ASSUME NEW plugin \in Plugins, NEW d, GoodSet(plugin, d.set),
         d.cache \in BOOLEAN, d.serial \in Serials \cup {None}
  PROVE  LET kw == Dump(plugin, d)
         IN  /\ Typed(plugin, kw) /\ Configurable(plugin, kw)
             /\ DOMAIN kw \subseteq Parameters(plugin)
<1> DEFINE kw == Dump(plugin, d)
<1> SUFFICES /\ Typed(plugin, kw) /\ Configurable(plugin, kw)
             /\ DOMAIN kw \subseteq Parameters(plugin)
  OBVIOUS
<1>0. kw = Dump(plugin, d)
  OBVIOUS
<1> HIDE DEF kw
<1>1. CASE plugin = "pscsi"
  <2>1. PICK x \in ScsiPaths : d.set = [dev |-> x]
    BY <1>1, Zenon DEF GoodSet
  <2>2. kw = [dev |-> x]
    BY <1>0, <1>1, <2>1 DEF Dump, PSCSIDump, Get
  <2> QED
    BY <1>1, <2>1, <2>2 DEF Typed, Configurable, Parameters, Get
<1>2. CASE plugin = "ramdisk"
  <2>1. PICK n \in Nat \ {0}, b \in BOOLEAN : d.set = [size |-> PageSize * n, nullio |-> b]
    BY <1>2, Zenon DEF GoodSet
  <2>2. PageSize * n \in Nat
    BY PageAssumption
  <2>3. kw = IF b THEN [wwn |-> d.serial, size |-> PageSize * n, nullio |-> TRUE]
                  ELSE [wwn |-> d.serial, size |-> PageSize * n]
    BY <1>0, <1>2, <2>1 DEF Dump, RDMCPDump
  <2>4. CASE b
    <3>1. kw.size \in Nat /\ kw.wwn = d.serial /\ kw.nullio = TRUE
      BY <2>2, <2>3, <2>4
    <3>2. DOMAIN kw = {"wwn", "size", "nullio"}
      BY <2>3, <2>4
    <3> QED
      BY <1>2, <3>1, <3>2, TypedRamdisk, Zenon DEF Configurable, Parameters, Get
  <2>5. CASE ~b
    <3>1. kw.size \in Nat /\ kw.wwn = d.serial
      BY <2>2, <2>3, <2>5, Zenon
    <3>2. DOMAIN kw = {"wwn", "size"}
      BY <2>3, <2>5
    <3> QED
      BY <1>2, <3>1, <3>2, TypedRamdisk, Zenon DEF Configurable, Parameters, Get
  <2> QED
    BY <2>4, <2>5
<1>3. CASE plugin = "fileio"
  <2>1. PICK x, s : \E b, a \in BOOLEAN :
               /\ d.set = [dev |-> x, size |-> s, buffered |-> b, aio |-> a]
               /\ \/ Kind[x] = "disk" /\ s = DiskSize
                  \/ Kind[x] = "file" /\ s # None
    BY <1>3, Zenon DEF GoodSet
  <2>2. d.set.aio \in BOOLEAN /\ d.set.dev = x /\ d.set.size = s
    BY <2>1
  <2>3. kw = [write_back |-> d.cache, wwn |-> d.serial, dev |-> x, size |-> s,
              aio |-> d.set.aio]
    BY <1>0, <1>3, <2>2, Zenon DEF Dump, FileIODump
  <2>4. DOMAIN kw = {"write_back", "wwn", "dev", "size", "aio"}
    BY <2>3
  <2>a. /\ kw.write_back = d.cache /\ kw.wwn = d.serial /\ kw.aio = d.set.aio
        /\ kw.dev = x /\ kw.size = s
    BY <2>3
  <2>5. Typed(plugin, kw)
    BY <1>3, <2>2, <2>4, <2>a, TypedFileio, Zenon DEF Get
  <2>6. Configurable(plugin, kw)
    BY <1>3, <2>1, <2>4, <2>a DEF Configurable, Get
  <2> QED
    BY <1>3, <2>4, <2>5, <2>6 DEF Parameters
<1>4. CASE plugin = "block"
  <2>1. PICK x : \E b \in BOOLEAN : d.set = [dev |-> x, readonly |-> b] /\ Kind[x] = "disk"
    BY <1>4, Zenon DEF GoodSet
  <2>2. d.set.readonly \in BOOLEAN /\ d.set.dev = x
    BY <2>1
  <2>3. kw = [write_back |-> d.cache, readonly |-> d.set.readonly, wwn |-> d.serial, dev |-> x]
    BY <1>0, <1>4, <2>2, Zenon DEF Dump, BlockDump
  <2>4. DOMAIN kw = {"write_back", "readonly", "wwn", "dev"}
    BY <2>3
  <2>5. kw.readonly = d.set.readonly /\ kw.wwn = d.serial /\ kw.dev = x
    BY <2>3
  <2> QED
    BY <1>4, <2>1, <2>2, <2>4, <2>5, TypedBlock, Zenon DEF Configurable, Parameters, Get
<1>5. CASE plugin = "user"
  <2>1. PICK c \in Seq(STRING) : \E s, h, t :
               /\ d.set = [config |-> c, size |-> s, hw |-> h, control |-> Control(t)]
               /\ HasOneOf(c, Slashed) /\ ~HasOneOf(c, Coloned)
    BY <1>5, Zenon DEF GoodSet
  <2>2. d.set.config = c
    BY <2>1
  <2>3. kw = [wwn |-> d.serial, size |-> d.set.size, config |-> ParseInfo(c),
              hw_max_sectors |-> d.set.hw, control |-> ControlTuples(d.set.control)]
    BY <1>0, <1>5, <2>2, Zenon DEF Dump, UserBackedDump
  <2>4. ParseInfo(c) \in Seq(STRING)
    BY <2>1, FirstWord, Zenon
  <2>5. c # <<>>
    BY <2>1 DEF HasOneOf
  <2>6. ~HasOneOf(ParseInfo(c), Coloned)
    BY <2>1, <2>5, FirstWordHas, Zenon
  <2>7. DOMAIN kw = {"wwn", "size", "config", "hw_max_sectors", "control"}
    BY <2>3, Zenon
  <2> QED
    BY <1>5, <2>3, <2>4, <2>6, <2>7, Zenon DEF Typed, Configurable, Parameters, Get
<1> QED
  BY <1>1, <1>2, <1>3, <1>4, <1>5, Zenon DEF Plugins

(* The TCMU settings that dump() shows come back. *)
LEMMA ControlTwice ==
  ASSUME NEW t
  PROVE  LET k == Control(t)
         IN  /\ ControlTuples(Control(ControlTuples(k))) = ControlTuples(k)
             /\ (\A i \in DOMAIN k \ ReadBack : k[i] = DefaultControl[i]) => Control(ControlTuples(k)) = k
<1> DEFINE D == DOMAIN DefaultControl
<1>0. PICK k : k = Control(t)
  OBVIOUS
<1>1. k = [i \in D |-> k[i]] /\ DOMAIN k = D
  BY <1>0 DEF Control
<1>2. PICK s : s = ControlTuples(k)
  OBVIOUS
<1>3. s = [i \in D \cap ReadBack |-> k[i]]
  BY <1>1, <1>2 DEF ControlTuples
<1>4. PICK c : c = Control(s)
  OBVIOUS
<1>5. c = [i \in D |-> IF i \in ReadBack THEN k[i] ELSE DefaultControl[i]]
  BY <1>3, <1>4 DEF Control, Get
<1>6. ControlTuples(c) = s
  BY <1>3, <1>5 DEF ControlTuples
<1>7. (\A i \in DOMAIN k \ ReadBack : k[i] = DefaultControl[i]) => c = k
  BY <1>1, <1>5
<1> QED BY <1>0, <1>2, <1>4, <1>6, <1>7

(* The settings come back, up to the blanks of a TCMU configuration, the   *)
(* TCMU settings that dump() does not show and the buffered mode of a      *)
(* fileio object; what a second dump shows of them is in every case what   *)
(* the first did.                                                          *)
LEMMA RoundTrip ==
  ASSUME NEW plugin \in Plugins, NEW d, GoodSet(plugin, d.set), d.cache \in BOOLEAN,
         NEW e, e.set = Settings(plugin, Dump(plugin, d)),
         plugin # "pscsi" => e.serial = d.serial, e.cache = d.cache
  PROVE  /\ (plugin = "user" => /\ Len(d.set.config) = 1
                                 /\ \A k \in DOMAIN d.set.control \ ReadBack :
                                      d.set.control[k] = DefaultControl[k])
              /\ (plugin = "fileio" => d.set.buffered = d.cache) => e.set = d.set
         /\ Dump(plugin, e) = Dump(plugin, d)
<1> DEFINE kw == Dump(plugin, d)
<1>0. kw = Dump(plugin, d) /\ e.set = Settings(plugin, kw)
  OBVIOUS
<1> HIDE DEF kw
<1>1. CASE plugin = "pscsi"
  <2>1. PICK x \in ScsiPaths : d.set = [dev |-> x]
    BY <1>1, Zenon DEF GoodSet
  <2>2. kw = [dev |-> x]
    BY <1>0, <1>1, <2>1 DEF Dump, PSCSIDump, Get
  <2>3. e.set = d.set
    BY <1>0, <1>1, <2>1, <2>2 DEF Settings, PSCSISettings
  <2> QED
    BY <1>1, <2>3, Zenon DEF Dump, PSCSIDump
<1>2. CASE plugin = "ramdisk"
  <2>1. PICK n \in Nat \ {0}, b \in BOOLEAN : d.set = [size |-> PageSize * n, nullio |-> b]
    BY <1>2, Zenon DEF GoodSet
  <2>2. kw = IF b THEN [wwn |-> d.serial, size |-> PageSize * n, nullio |-> TRUE]
                  ELSE [wwn |-> d.serial, size |-> PageSize * n]
    BY <1>0, <1>2, <2>1 DEF Dump, RDMCPDump
  <2>3. kw.size = PageSize * n /\ Get(kw, "nullio", FALSE) = b
    BY <2>2, Zenon DEF Get
  <2>4. e.set = [size |-> PageSize * n, nullio |-> b]
    BY <1>0, <1>2, <2>3, PagesOfWhole, Zenon DEF Settings, RDMCPSettings
  <2>5. e.set = d.set
    BY <2>1, <2>4
  <2> QED
    BY <1>2, <2>5, Zenon DEF Dump, RDMCPDump
<1>3. CASE plugin = "fileio"
  <2>1. PICK x, s : \E b, a \in BOOLEAN :
               /\ d.set = [dev |-> x, size |-> s, buffered |-> b, aio |-> a]
               /\ \/ Kind[x] = "disk" /\ s = DiskSize
                  \/ Kind[x] = "file" /\ s # None
    BY <1>3, Zenon DEF GoodSet
  <2>2. /\ d.set.dev = x /\ d.set.size = s
        /\ d.set = [dev |-> x, size |-> s, buffered |-> d.set.buffered, aio |-> d.set.aio]
    BY <2>1
  <2>3. kw = [write_back |-> d.cache, wwn |-> d.serial, dev |-> x, size |-> s,
              aio |-> d.set.aio]
    BY <1>0, <1>3, <2>2, Zenon DEF Dump, FileIODump
  <2>4. /\ kw.dev = x /\ kw.size = s
        /\ Get(kw, "write_back", FALSE) = d.cache /\ Get(kw, "aio", FALSE) = d.set.aio
    BY <2>3 DEF Get
  <2>5. e.set = [dev |-> x, size |-> s, buffered |-> d.cache, aio |-> d.set.aio]
    <3>1. s = IF Kind[x] = "disk" THEN DiskSize ELSE s
      BY <2>1
    <3> QED
      BY <1>0, <1>3, <2>4, <3>1, Zenon DEF Settings, FileIOSettings
  <2>6. d.set.buffered = d.cache => e.set = d.set
    BY <2>2, <2>5
  <2>7. e.set.dev = d.set.dev /\ e.set.size = d.set.size /\ e.set.aio = d.set.aio
    BY <2>2, <2>5
  <2> QED
    BY <1>3, <2>6, <2>7 DEF Dump, FileIODump
<1>4. CASE plugin = "block"
  <2>1. PICK x : \E b \in BOOLEAN : d.set = [dev |-> x, readonly |-> b] /\ Kind[x] = "disk"
    BY <1>4, Zenon DEF GoodSet
  <2>2. d.set.dev = x /\ d.set = [dev |-> x, readonly |-> d.set.readonly]
    BY <2>1
  <2>3. kw = [write_back |-> d.cache, readonly |-> d.set.readonly, wwn |-> d.serial, dev |-> x]
    BY <1>0, <1>4, <2>2, Zenon DEF Dump, BlockDump
  <2>4. kw.dev = x /\ Get(kw, "readonly", FALSE) = d.set.readonly
    BY <2>3 DEF Get
  <2>5. e.set = d.set
    BY <1>0, <1>4, <2>2, <2>4, Zenon DEF Settings, BlockSettings
  <2> QED
    BY <1>4, <2>5 DEF Dump, BlockDump
<1>5. CASE plugin = "user"
  <2>0. PICK c \in Seq(STRING) : \E s, h, t :
               /\ d.set = [config |-> c, size |-> s, hw |-> h, control |-> Control(t)]
               /\ HasOneOf(c, Slashed) /\ ~HasOneOf(c, Coloned)
    BY <1>5, Zenon DEF GoodSet
  <2>1. PICK s, h, t :
               /\ d.set = [config |-> c, size |-> s, hw |-> h, control |-> Control(t)]
               /\ HasOneOf(c, Slashed) /\ ~HasOneOf(c, Coloned)
    BY <2>0, Zenon
  <2>2. PICK k : k = Control(t)
    OBVIOUS
  <2>a. /\ d.set = [config |-> c, size |-> s, hw |-> h, control |-> k]
        /\ d.set.control = k /\ d.set.config = c /\ d.set.size = s /\ d.set.hw = h
    BY <2>1, <2>2
  <2>3. kw = [wwn |-> d.serial, size |-> s, config |-> ParseInfo(c),
              hw_max_sectors |-> h, control |-> ControlTuples(k)]
    BY <1>0, <1>5, <2>a DEF Dump, UserBackedDump
  <2>4. /\ kw.config = ParseInfo(c) /\ kw.size = s
        /\ Get(kw, "hw_max_sectors", DefaultHw) = h /\ Get(kw, "control", <<>>) = ControlTuples(k)
    BY <2>3 DEF Get
  <2>b. e.set = [config |-> ParseInfo(c), size |-> s, hw |-> h, control |-> Control(ControlTuples(k))]
    BY <1>0, <1>5, <2>4, Zenon DEF Settings, UserBackedSettings
  <2>c. /\ ControlTuples(Control(ControlTuples(k))) = ControlTuples(k)
        /\ (\A i \in DOMAIN k \ ReadBack : k[i] = DefaultControl[i]) => Control(ControlTuples(k)) = k
    BY <2>2, ControlTwice
  <2>5. ParseInfo(ParseInfo(c)) = ParseInfo(c) /\ (Len(c) = 1 => ParseInfo(c) = c)
    BY <2>1, FirstWord, Zenon
  <2>6. Len(d.set.config) = 1 /\ (\A i \in DOMAIN d.set.control \ ReadBack :
                                    d.set.control[i] = DefaultControl[i]) => e.set = d.set
    BY <2>a, <2>b, <2>c, <2>5, Zenon
  <2>7. /\ ParseInfo(e.set.config) = ParseInfo(d.set.config) /\ e.set.size = d.set.size
        /\ e.set.hw = d.set.hw /\ ControlTuples(e.set.control) = ControlTuples(d.set.control)
    <3>1. /\ e.set.config = ParseInfo(c) /\ e.set.size = s /\ e.set.hw = h
          /\ e.set.control = Control(ControlTuples(k))
      BY <2>b
    <3> QED BY <2>a, <2>c, <2>5, <3>1, Zenon
  <2> QED
    BY <1>5, <2>6, <2>7 DEF Dump, UserBackedDump
<1> QED
  BY <1>1, <1>2, <1>3, <1>4, <1>5, Zenon DEF Plugins

-----------------------------------------------------------------------------
(* The inductive invariant.                                                *)

(* A device in configfs: once enabled it has settings that _configure()    *)
(* has made.                                                               *)
Device(o, d) ==
  /\ d = [on |-> d.on, serial |-> d.serial, cache |-> d.cache, set |-> d.set]
  /\ d.on \in BOOLEAN /\ d.cache \in BOOLEAN /\ d.serial \in Serials \cup {None}
  /\ Plugin(o) = "pscsi" => d.serial = None
  /\ d.set = <<>> \/ GoodSet(Plugin(o), d.set)
  /\ d.on => GoodSet(Plugin(o), d.set)

(* An entry of a save is the dump of its origin. *)
Entry(o, e) ==
  /\ e.attrs \in BOOLEAN
  /\ Device(o, e.origin) /\ (Plugin(o) = "pscsi" \/ e.origin.on)
  /\ e.kwargs = Dump(Plugin(o), e.origin)

Shape ==
  /\ tree = [o \in Objects |-> tree[o]] /\ file = [o \in Objects |-> file[o]]
  /\ source = [o \in Objects |-> source[o]]
  /\ pc \in [Procs -> Steps] /\ obj \in [Procs -> Objects \cup {None}]
  /\ kwargs = [p \in Procs |-> kwargs[p]] /\ attrs \in [Procs -> BOOLEAN \cup {None}]
  /\ todo \in [Procs -> SUBSET Objects]
  /\ out = [p \in Procs |-> out[p]]
  /\ \A p \in Procs : out[p] = [o \in Objects |-> out[p][o]]
  /\ calls \in 0..MaxCalls /\ boots \in 0..MaxBoots

Devices == \A o \in Objects : tree[o] # None => Device(o, tree[o])

Entries ==
  \A o \in Objects :
    /\ file[o] # None => Entry(o, file[o])
    /\ \A p \in Procs : out[p][o] # None => Entry(o, out[p][o])

InWork(p, o) == pc[p] \in Working /\ obj[p] = o

(* A process at work has arguments that it was right to start with; a save *)
(* has collected nothing of what it has still to visit, and a restore has  *)
(* an entry for it.                                                        *)
WorkOf(p) ==
  /\ obj[p] \in Objects <=> pc[p] \in Working \cup {"values"}
  /\ pc[p] \in Working => /\ Typed(Plugin(obj[p]), kwargs[p])
                          /\ Callable(Plugin(obj[p]), kwargs[p])
  /\ pc[p] \in {"attributes", "values"} => attrs[p] # None
  /\ pc[p] \in {"ready", "restore", "dump"} => attrs[p] = None
  /\ pc[p] = "ready" => out[p] = NoOutput
  /\ pc[p] \in Working /\ attrs[p] = None => out[p] = NoOutput
  /\ pc[p] \in {"dump", "values"} => \A o \in todo[p] : out[p][o] = None
  /\ pc[p] = "restore" \/ (pc[p] \in Working /\ attrs[p] # None) =>
       \A o \in todo[p] : out[p][o] # None

Work == \A p \in Procs : WorkOf(p)

(* How far the restore of an object has come. *)
SourceOf(o) ==
  LET p == source[o].by
      e == source[o].entry
  IN  /\ p \in Procs /\ Entry(o, e) /\ Device(o, tree[o])
      /\ InWork(p, o) => kwargs[p] = e.kwargs /\ attrs[p] = e.attrs
      /\ ~InWork(p, o) \/ pc[p] \in {"set", "enabled", "attributes"} =>
           tree[o].set = Settings(Plugin(o), e.kwargs)
      /\ ~InWork(p, o) \/ pc[p] \in {"enabled", "attributes"} => tree[o].on
      /\ ~InWork(p, o) \/ pc[p] = "attributes" =>
           tree[o].serial \in SerialsFor(Plugin(o), e.kwargs)
      /\ ~InWork(p, o) => tree[o].cache = e.attrs

Sources == \A o \in Objects : source[o] # None => SourceOf(o)

SOInv == Shape /\ Devices /\ Entries /\ Work /\ Sources

-----------------------------------------------------------------------------
(* What follows from it.                                                   *)

LEMMA PluginType == \A o \in Objects : Plugin(o) \in Plugins
BY ObjectsAssumption DEF Plugin

LEMMA GoodSetNotEmpty ==
  ASSUME NEW plugin \in Plugins, NEW set, GoodSet(plugin, set)
  PROVE  set # <<>>
<1>0. DOMAIN << >> = {}
  OBVIOUS
<1>1. CASE plugin = "pscsi"
  BY <1>0, <1>1 DEF GoodSet
<1>2. CASE plugin = "ramdisk"
  BY <1>0, <1>2 DEF GoodSet
<1>3. CASE plugin = "fileio"
  BY <1>0, <1>3 DEF GoodSet
<1>4. CASE plugin = "block"
  BY <1>0, <1>4 DEF GoodSet
<1>5. CASE plugin = "user"
  BY <1>0, <1>5 DEF GoodSet
<1> QED
  BY <1>1, <1>2, <1>3, <1>4, <1>5 DEF Plugins

LEMMA InvImpliesTypeOK == SOInv => TypeOK
<1> SUFFICES ASSUME SOInv PROVE TypeOK
  OBVIOUS
<1>1. \A o \in Objects : tree[o] # None =>
        /\ tree[o].on \in BOOLEAN /\ tree[o].cache \in BOOLEAN
        /\ tree[o].serial \in Serials \cup {None}
        /\ tree[o].on => tree[o].set # <<>>
  BY PluginType, GoodSetNotEmpty, Zenon DEF SOInv, Devices, Device
<1>2. \A p \in Procs :
        /\ obj[p] \in Objects <=> pc[p] \in Working \cup {"values"}
        /\ todo[p] \subseteq Objects
        /\ pc[p] \in {"dump", "values"} => \A o \in todo[p] : out[p][o] = None
  BY Zenon DEF SOInv, Shape, Work, WorkOf
<1> QED
  BY <1>1, <1>2 DEF SOInv, Shape, TypeOK

LEMMA EntryPasses ==
  ASSUME NEW o \in Objects, NEW e, Entry(o, e), e.origin.on
  PROVE  /\ Typed(Plugin(o), e.kwargs) /\ Configurable(Plugin(o), e.kwargs)
         /\ DOMAIN e.kwargs \subseteq Parameters(Plugin(o))
BY PluginType, DumpTyped DEF Entry, Device

LEMMA InvImpliesRestorable == SOInv => Restorable
<1> SUFFICES ASSUME SOInv, NEW o \in Objects, file[o] # None, Whole(o, file[o]),
                    NoBlanks(o, file[o])
             PROVE  /\ Callable(Plugin(o), file[o].kwargs)
                    /\ Configurable(Plugin(o), file[o].kwargs)
  BY DEF Restorable
<1> DEFINE e == file[o]
<1>1. Entry(o, e) /\ e.origin.on
  BY DEF SOInv, Entries, Whole
<1>2. Configurable(Plugin(o), e.kwargs) /\ DOMAIN e.kwargs \subseteq Parameters(Plugin(o))
  BY <1>1, EntryPasses, Zenon
<1>3. Plugin(o) = "user" => HasOneOf(e.kwargs.config, Slashed)
  <2> SUFFICES ASSUME Plugin(o) = "user" PROVE HasOneOf(e.kwargs.config, Slashed)
    BY Zenon
  <2>1. GoodSet("user", e.origin.set)
    BY <1>1 DEF Entry, Device
  <2>a. PICK c \in Seq(STRING) : \E s, h, t :
               /\ e.origin.set = [config |-> c, size |-> s, hw |-> h, control |-> Control(t)]
               /\ HasOneOf(c, Slashed) /\ ~HasOneOf(c, Coloned)
    BY <2>1, Zenon DEF GoodSet
  <2>2. e.origin.set.config = c /\ HasOneOf(c, Slashed)
    BY <2>a
  <2>3. Len(c) = 1
    BY <2>2 DEF NoBlanks
  <2>4. ParseInfo(c) = c
    BY <2>2, <2>3, FirstWord, Zenon
  <2>5. e.kwargs.config = ParseInfo(c)
    BY <1>1, <2>2 DEF Entry, Dump, UserBackedDump
  <2> QED
    BY <2>2, <2>4, <2>5
<1> QED
  BY <1>2, <1>3 DEF Callable

(* The serial that was dumped, if there was one, is the one that is set.   *)
LEMMA DumpedSerial ==
  ASSUME NEW o \in Objects, NEW d, Plugin(o) # "pscsi", d.serial # None
  PROVE  SerialsFor(Plugin(o), Dump(Plugin(o), d)) = {d.serial}
<1> DEFINE kw == Dump(Plugin(o), d)
<1>1. "wwn" \in DOMAIN kw /\ kw.wwn = d.serial
  <2>1. CASE Plugin(o) = "ramdisk"
    <3>1. CASE d.set.nullio
      BY <2>1, <3>1 DEF Dump, RDMCPDump
    <3>2. CASE ~d.set.nullio
      BY <2>1, <3>2 DEF Dump, RDMCPDump
    <3> QED
      BY <3>1, <3>2
  <2>2. CASE Plugin(o) = "fileio"
    BY <2>2 DEF Dump, FileIODump
  <2>3. CASE Plugin(o) = "block"
    BY <2>3 DEF Dump, BlockDump
  <2>4. CASE Plugin(o) = "user"
    BY <2>4 DEF Dump, UserBackedDump
  <2> QED
    BY <2>1, <2>2, <2>3, <2>4, PluginType, Zenon DEF Plugins
<1> HIDE DEF kw
<1>2. SerialsFor(Plugin(o), kw) = {d.serial}
  BY <1>1, Zenon DEF SerialsFor, Get
<1> QED
  BY <1>2, Zenon DEF kw

LEMMA RestoredFacts ==
  ASSUME SOInv, NEW o \in Objects, AsRestored(o), Whole(o, source[o].entry)
  PROVE  LET e == source[o].entry
         IN  /\ Entry(o, e) /\ Device(o, tree[o]) /\ tree[o].on
             /\ tree[o].set = Settings(Plugin(o), Dump(Plugin(o), e.origin))
             /\ tree[o].serial = e.origin.serial
             /\ tree[o].cache = e.origin.cache /\ tree[o].cache = e.attrs
             /\ GoodSet(Plugin(o), e.origin.set) /\ e.origin.cache \in BOOLEAN
<1> DEFINE e == source[o].entry
<1>1. SourceOf(o) /\ ~InWork(source[o].by, o)
  BY Zenon DEF SOInv, Sources, AsRestored, InWork
<1>2. /\ Entry(o, e) /\ Device(o, tree[o]) /\ tree[o].on
      /\ tree[o].set = Settings(Plugin(o), e.kwargs) /\ tree[o].cache = e.attrs
      /\ tree[o].serial \in SerialsFor(Plugin(o), e.kwargs)
  BY <1>1, Zenon DEF SourceOf
<1>3. e.kwargs = Dump(Plugin(o), e.origin) /\ e.origin.on /\ e.attrs = e.origin.cache
  BY <1>2, Zenon DEF Entry, Whole
<1>4. tree[o].serial = e.origin.serial
  <2>1. CASE Plugin(o) = "pscsi"
    BY <1>2, <2>1, Zenon DEF Entry, Device
  <2>2. CASE Plugin(o) # "pscsi"
    <3>1. e.origin.serial # None
      BY <2>2, Zenon DEF Whole
    <3> QED
      BY <1>2, <1>3, <2>2, <3>1, DumpedSerial, ZenonT(60)
  <2> QED
    BY <2>1, <2>2, Zenon
<1>5. GoodSet(Plugin(o), e.origin.set) /\ e.origin.cache \in BOOLEAN
  BY <1>2, <1>3, Zenon DEF Entry, Device
<1> QED
  BY <1>2, <1>3, <1>4, <1>5, Zenon

LEMMA InvImpliesRestoredAlike == SOInv => RestoredAlike
<1> SUFFICES ASSUME SOInv, NEW o \in Objects, AsRestored(o), Whole(o, source[o].entry),
                    NoBlanks(o, source[o].entry), ControlKept(o, source[o].entry),
                    CacheAsMade(o, source[o].entry)
             PROVE  tree[o] = source[o].entry.origin
  BY Zenon DEF RestoredAlike
<1> DEFINE d == source[o].entry.origin
<1>1. /\ Device(o, d) /\ Device(o, tree[o]) /\ tree[o].on
      /\ tree[o].set = Settings(Plugin(o), Dump(Plugin(o), d))
      /\ tree[o].serial = d.serial /\ tree[o].cache = d.cache
      /\ GoodSet(Plugin(o), d.set) /\ d.cache \in BOOLEAN
  BY RestoredFacts, Zenon DEF Entry
<1>2. (Plugin(o) = "user" => /\ Len(d.set.config) = 1
                             /\ \A k \in DOMAIN d.set.control \ ReadBack :
                                  d.set.control[k] = DefaultControl[k])
        /\ (Plugin(o) = "fileio" => d.set.buffered = d.cache)
  BY Zenon DEF NoBlanks, ControlKept, CacheAsMade
<1>3. Plugin(o) \in Plugins
  BY PluginType, Zenon
<1> HIDE DEF d
<1>4. tree[o].set = d.set
  BY <1>1, <1>2, <1>3, RoundTrip, Zenon
<1>5. d.on
  BY Zenon DEF Whole, d
<1>6. /\ tree[o] = [on |-> tree[o].on, serial |-> tree[o].serial, cache |-> tree[o].cache,
                    set |-> tree[o].set]
      /\ d = [on |-> d.on, serial |-> d.serial, cache |-> d.cache, set |-> d.set]
      /\ tree[o].on = TRUE /\ d.on = TRUE
  BY <1>1, <1>5 DEF Device
<1>7. tree[o] = d
  BY <1>1, <1>4, <1>6, Zenon
<1> QED
  BY <1>7 DEF d

LEMMA InvImpliesNoDrift == SOInv => NoDrift
<1> SUFFICES ASSUME SOInv, NEW o \in Objects, AsRestored(o), Whole(o, source[o].entry)
             PROVE  /\ Dump(Plugin(o), tree[o]) = source[o].entry.kwargs
                    /\ tree[o].cache = source[o].entry.attrs
  BY Zenon DEF NoDrift
<1> DEFINE d == source[o].entry.origin
<1>1. /\ tree[o].set = Settings(Plugin(o), Dump(Plugin(o), d))
      /\ tree[o].serial = d.serial /\ tree[o].cache = d.cache
      /\ GoodSet(Plugin(o), d.set) /\ d.cache \in BOOLEAN
      /\ source[o].entry.kwargs = Dump(Plugin(o), d) /\ tree[o].cache = source[o].entry.attrs
  BY RestoredFacts DEF Entry
<1>2. Plugin(o) \in Plugins
  BY PluginType, ZenonT(60)
<1> HIDE DEF d
<1> QED
  BY <1>1, <1>2, RoundTrip, Zenon

-----------------------------------------------------------------------------
(* Steps.                                                                  *)

LocalSame(q) ==
  /\ pc'[q] = pc[q] /\ obj'[q] = obj[q] /\ kwargs'[q] = kwargs[q]
  /\ attrs'[q] = attrs[q] /\ todo'[q] = todo[q] /\ out'[q] = out[q]

Only(p) == \A q \in Procs \ {p} : LocalSame(q)

LEMMA WorkKept ==
  ASSUME Work, NEW p \in Procs, Only(p), WorkOf(p)'
  PROVE  Work'
<1> SUFFICES ASSUME NEW q \in Procs \ {p} PROVE WorkOf(q)'
  BY Zenon DEF Work
<1>1. WorkOf(q) /\ LocalSame(q)
  BY Zenon DEF Work, Only
<1> QED
  BY <1>1, SMTT(60) DEF WorkOf, LocalSame

LEMMA SourceKept ==
  ASSUME NEW o \in Objects, source[o] # None, SourceOf(o),
         source'[o] = source[o], tree'[o] = tree[o],
         LocalSame(source[o].by) \/ (~InWork(source[o].by, o) /\ ~InWork(source[o].by, o)')
  PROVE  SourceOf(o)'
<1> DEFINE p == source[o].by
<1>1. source'[o].by = p /\ source'[o].entry = source[o].entry
  BY ZenonT(60)
<1>2. CASE LocalSame(p)
  BY <1>1, <1>2 DEF SourceOf, InWork, LocalSame
<1>3. CASE ~InWork(p, o) /\ ~InWork(p, o)'
  BY <1>1, <1>3, Zenon DEF SourceOf, InWork
<1> QED
  BY <1>2, <1>3

(* p touches the object x and no other. *)
LEMMA SourcesTouched ==
  ASSUME Sources, NEW p \in Procs, NEW x \in Objects, Only(p),
         \A o \in Objects \ {x} : /\ tree'[o] = tree[o] /\ source'[o] = source[o]
                                  /\ ~InWork(p, o) /\ ~InWork(p, o)',
         source'[x] # None => SourceOf(x)'
  PROVE  Sources'
<1> SUFFICES ASSUME NEW o \in Objects \ {x}, source'[o] # None
             PROVE  SourceOf(o)'
  BY DEF Sources
<1>1. source[o] # None /\ SourceOf(o) /\ source[o].by \in Procs
  BY ZenonT(60) DEF Sources, SourceOf
<1>2. LocalSame(source[o].by) \/ (~InWork(source[o].by, o) /\ ~InWork(source[o].by, o)')
  BY <1>1, Zenon DEF Only
<1> QED
  BY <1>1, <1>2, SourceKept, ZenonT(30)

LEMMA SourcesSame ==
  ASSUME Sources, NEW p \in Procs, Only(p), UNCHANGED <<tree, source>>,
         pc[p] \notin Working, pc'[p] \notin Working
  PROVE  Sources'
<1> SUFFICES ASSUME NEW o \in Objects, source'[o] # None
             PROVE  SourceOf(o)'
  BY Zenon DEF Sources
<1>1. source[o] # None /\ SourceOf(o) /\ source[o].by \in Procs
  BY Zenon DEF Sources, SourceOf
<1>2. LocalSame(source[o].by) \/ (~InWork(source[o].by, o) /\ ~InWork(source[o].by, o)')
  BY <1>1 DEF Only, InWork
<1> QED
  BY <1>1, <1>2, SourceKept, Zenon

(* What a step of a constructor may do to a device. *)
LEMMA DeviceChanges ==
  ASSUME NEW o \in Objects, NEW d, Device(o, d)
  PROVE  /\ d.set # <<>> => Device(o, [on |-> TRUE, serial |-> d.serial,
                                              cache |-> d.cache, set |-> d.set])
         /\ \A b \in BOOLEAN : Device(o, [d EXCEPT !.cache = b])
         /\ \A s \in Serials \cup {None} :
              (Plugin(o) = "pscsi" => s = None) => Device(o, [d EXCEPT !.serial = s])
         /\ \A set : \A b \in BOOLEAN :
              GoodSet(Plugin(o), set) =>
                Device(o, [on |-> d.on, serial |-> d.serial, cache |-> b, set |-> set])
<1>1. d = [on |-> d.on, serial |-> d.serial, cache |-> d.cache, set |-> d.set]
  BY DEF Device
<1>2. ASSUME d.set # <<>>
      PROVE  Device(o, [on |-> TRUE, serial |-> d.serial, cache |-> d.cache, set |-> d.set])
  <2> DEFINE f == [on |-> TRUE, serial |-> d.serial, cache |-> d.cache, set |-> d.set]
  <2>1. f = [on |-> TRUE, serial |-> d.serial, cache |-> d.cache, set |-> d.set]
    BY Zenon
  <2>2. f.on = TRUE /\ f.serial = d.serial /\ f.cache = d.cache /\ f.set = d.set
    BY <2>1
  <2> HIDE DEF f
  <2>3. f = [on |-> f.on, serial |-> f.serial, cache |-> f.cache, set |-> f.set]
    BY <2>1, <2>2, Zenon
  <2> QED
    BY <1>2, <2>2, <2>3, Zenon DEF Device, f
<1>3. \A b \in BOOLEAN : Device(o, [d EXCEPT !.cache = b])
  BY <1>1 DEF Device
<1>4. \A s \in Serials \cup {None} :
        (Plugin(o) = "pscsi" => s = None) => Device(o, [d EXCEPT !.serial = s])
  BY <1>1 DEF Device
<1>5. ASSUME NEW set, NEW b \in BOOLEAN, GoodSet(Plugin(o), set)
      PROVE  Device(o, [on |-> d.on, serial |-> d.serial, cache |-> b, set |-> set])
  <2> DEFINE f == [on |-> d.on, serial |-> d.serial, cache |-> b, set |-> set]
  <2>1. f = [on |-> d.on, serial |-> d.serial, cache |-> b, set |-> set]
    BY Zenon
  <2>2. f.on = d.on /\ f.serial = d.serial /\ f.cache = b /\ f.set = set
    BY <2>1
  <2> HIDE DEF f
  <2>3. f = [on |-> f.on, serial |-> f.serial, cache |-> f.cache, set |-> f.set]
    BY <2>1, <2>2, Zenon
  <2> QED
    BY <1>5, <2>2, <2>3, Zenon DEF Device, f
<1> QED
  BY <1>2, <1>3, <1>4, <1>5, Zenon

LEMMA BlankDevice == \A o \in Objects : Device(o, Blank)
BY Zenon DEF Device, Blank

LEMMA EntriesSame == Entries /\ UNCHANGED <<file, out>> => Entries'
BY DEF Entries

LEMMA DevicesSame == Devices /\ UNCHANGED tree => Devices'
BY DEF Devices

LEMMA DevicesTouched ==
  ASSUME Shape, Devices, NEW x \in Objects, NEW d, d # None => Device(x, d),
         tree' = [tree EXCEPT ![x] = d]
  PROVE  /\ Devices' /\ tree'[x] = d /\ tree' = [o \in Objects |-> tree'[o]]
         /\ \A o \in Objects \ {x} : tree'[o] = tree[o]
<1>1. tree = [o \in Objects |-> tree[o]]
  BY DEF Shape
<1>2. /\ tree'[x] = d /\ tree' = [o \in Objects |-> tree'[o]]
      /\ \A o \in Objects \ {x} : tree'[o] = tree[o]
  BY <1>1
<1> QED
  BY <1>2, Zenon DEF Devices

(* The source of x is taken away, or set. *)
LEMMA SourceTouched ==
  ASSUME Shape, NEW x \in Objects, NEW v, source' = [source EXCEPT ![x] = v]
  PROVE  /\ source'[x] = v /\ source' = [o \in Objects |-> source'[o]]
         /\ \A o \in Objects \ {x} : source'[o] = source[o]
BY Zenon DEF Shape

LEMMA MakeStep ==
  ASSUME Shape, NEW p \in Procs, NEW x \in Objects, NEW kw, NEW cache \in BOOLEAN \cup {None},
         Make(p, x, kw, cache)
  PROVE  /\ pc' \in [Procs -> Steps] /\ obj' \in [Procs -> Objects \cup {None}]
         /\ kwargs' = [q \in Procs |-> kwargs'[q]] /\ attrs' \in [Procs -> BOOLEAN \cup {None}]
         /\ pc'[p] = "made" /\ obj'[p] = x /\ kwargs'[p] = kw /\ attrs'[p] = cache
         /\ \A q \in Procs \ {p} : /\ pc'[q] = pc[q] /\ obj'[q] = obj[q]
                                   /\ kwargs'[q] = kwargs[q] /\ attrs'[q] = attrs[q]
BY Zenon DEF Shape, Make, Goto, Steps

LEMMA CreateStep ==
  ASSUME SOInv, NEW p \in Procs, NEW x \in Objects, NEW kw \in Requests[Plugin(x)],
         Create(p, x, kw)
  PROVE  SOInv'
<1>0. Shape /\ Devices /\ Entries /\ Work /\ Sources
  BY Zenon DEF SOInv
<1>1. Call(p) /\ tree[x] = None /\ Callable(Plugin(x), kw) /\ Make(p, x, kw, None)
  BY Zenon DEF Create
<1>2. /\ tree' = [tree EXCEPT ![x] = Blank] /\ source' = [source EXCEPT ![x] = None]
      /\ UNCHANGED <<file, todo, out, boots>>
  BY DEF Create, Make
<1>3. Devices' /\ \A o \in Objects \ {x} : tree'[o] = tree[o]
  BY <1>0, <1>2, BlankDevice, DevicesTouched, Zenon
<1>4. source'[x] = None /\ \A o \in Objects \ {x} : source'[o] = source[o]
  BY <1>0, <1>2, SourceTouched, Zenon
<1>5. /\ pc'[p] = "made" /\ obj'[p] = x /\ kwargs'[p] = kw /\ attrs'[p] = None
      /\ Only(p)
  BY <1>0, <1>1, <1>2, MakeStep DEF Only, LocalSame
<1>6. Shape'
  <2>1. tree' = [o \in Objects |-> tree'[o]] /\ source' = [o \in Objects |-> source'[o]]
    BY <1>0, <1>2, BlankDevice, DevicesTouched, SourceTouched, Zenon
  <2>2. /\ pc' \in [Procs -> Steps] /\ obj' \in [Procs -> Objects \cup {None}]
        /\ kwargs' = [q \in Procs |-> kwargs'[q]] /\ attrs' \in [Procs -> BOOLEAN \cup {None}]
    BY <1>0, <1>1, MakeStep, Zenon
  <2>3. calls' \in 0..MaxCalls
    BY <1>0, <1>1, BoundsAssumption DEF Call, Shape
  <2> QED
    BY <1>0, <1>2, <2>1, <2>2, <2>3 DEF Shape
<1>7. Entries'
  BY <1>0, <1>2, EntriesSame, Zenon
<1>8. pc[p] = "ready" /\ out[p] = NoOutput
  BY <1>0, <1>1, Zenon DEF Call, Work, WorkOf
<1>9. Work'
  <2>1. Typed(Plugin(x), kw)
    BY RequestsAssumption, PluginType, Zenon
  <2>2. WorkOf(p)'
    BY <1>1, <1>2, <1>5, <1>8, <2>1, Zenon DEF WorkOf, Working
  <2> QED
    BY <1>0, <1>5, <2>2, WorkKept, Zenon
<1>10. Sources'
  <2>1. \A o \in Objects \ {x} : ~InWork(p, o) /\ ~InWork(p, o)'
    BY <1>5, <1>8, Zenon DEF InWork, Working
  <2> QED
    BY <1>0, <1>3, <1>4, <1>5, <2>1, SourcesTouched, Zenon
<1> QED
  BY <1>3, <1>6, <1>7, <1>9, <1>10, Zenon DEF SOInv

(* The process moves on, keeping what it holds. *)
LEMMA GotoStep ==
  ASSUME Shape, NEW p \in Procs, NEW step \in Steps, Goto(p, step),
         UNCHANGED <<obj, kwargs, attrs, todo, out>>
  PROVE  pc'[p] = step /\ pc' \in [Procs -> Steps] /\ Only(p)
BY Zenon DEF Shape, Goto, Only, LocalSame

LEMMA LeaveStep ==
  ASSUME Shape, NEW p \in Procs, Leave(p)
  PROVE  /\ pc' \in [Procs -> Steps] /\ obj' \in [Procs -> Objects \cup {None}]
         /\ kwargs' = [q \in Procs |-> kwargs'[q]] /\ attrs' \in [Procs -> BOOLEAN \cup {None}]
         /\ pc'[p] = (IF attrs[p] = None THEN "ready" ELSE "restore")
         /\ obj'[p] = None /\ attrs'[p] = None /\ UNCHANGED <<todo, out>>
         /\ Only(p)
<1>1. /\ pc' \in [Procs -> Steps] /\ pc'[p] = (IF attrs[p] = None THEN "ready" ELSE "restore")
      /\ \A q \in Procs \ {p} : pc'[q] = pc[q]
  BY Zenon DEF Shape, Leave, Goto, Steps
<1>2. /\ obj' \in [Procs -> Objects \cup {None}] /\ obj'[p] = None
      /\ \A q \in Procs \ {p} : obj'[q] = obj[q]
  BY DEF Shape, Leave
<1>3. kwargs' = [q \in Procs |-> kwargs'[q]] /\ \A q \in Procs \ {p} : kwargs'[q] = kwargs[q]
  BY Zenon DEF Shape, Leave
<1>4. /\ attrs' \in [Procs -> BOOLEAN \cup {None}] /\ attrs'[p] = None
      /\ \A q \in Procs \ {p} : attrs'[q] = attrs[q]
  BY DEF Shape, Leave
<1>5. UNCHANGED <<todo, out>>
  BY Zenon DEF Leave
<1> QED
  BY <1>1, <1>2, <1>3, <1>4, <1>5, Zenon DEF Only, LocalSame

LEMMA StopStep ==
  ASSUME Shape, NEW p \in Procs, Stop(p)
  PROVE  /\ pc' \in [Procs -> Steps] /\ obj' \in [Procs -> Objects \cup {None}]
         /\ kwargs' = [q \in Procs |-> kwargs'[q]] /\ attrs' \in [Procs -> BOOLEAN \cup {None}]
         /\ todo' \in [Procs -> SUBSET Objects] /\ out' = [q \in Procs |-> out'[q]]
         /\ \A q \in Procs : out'[q] = [o \in Objects |-> out'[q][o]]
         /\ pc'[p] = "ready" /\ WorkOf(p)' /\ Only(p) /\ out'[p] = NoOutput
<1>1. /\ pc' \in [Procs -> Steps] /\ pc'[p] = "ready"
      /\ \A q \in Procs \ {p} : pc'[q] = pc[q]
  BY Zenon DEF Shape, Stop, Goto, Steps
<1>2. /\ obj' \in [Procs -> Objects \cup {None}] /\ obj'[p] = None
      /\ \A q \in Procs \ {p} : obj'[q] = obj[q]
  BY DEF Shape, Stop
<1>3. kwargs' = [q \in Procs |-> kwargs'[q]] /\ \A q \in Procs \ {p} : kwargs'[q] = kwargs[q]
  BY Zenon DEF Shape, Stop
<1>4. /\ attrs' \in [Procs -> BOOLEAN \cup {None}] /\ attrs'[p] = None
      /\ \A q \in Procs \ {p} : attrs'[q] = attrs[q]
  BY Zenon DEF Shape, Stop
<1>5. /\ todo' \in [Procs -> SUBSET Objects]
      /\ \A q \in Procs \ {p} : todo'[q] = todo[q]
  BY Zenon DEF Shape, Stop
<1>6. /\ out' = [q \in Procs |-> out'[q]] /\ out'[p] = NoOutput
      /\ \A q \in Procs \ {p} : out'[q] = out[q]
  BY Zenon DEF Shape, Stop
<1>7. \A q \in Procs : out'[q] = [o \in Objects |-> out'[q][o]]
  BY <1>6, Zenon DEF Shape, NoOutput
<1>8. WorkOf(p)'
  BY <1>1, <1>2, <1>4, <1>6, NoneAssumption, Zenon DEF WorkOf, Working
<1> QED
  BY <1>1, <1>2, <1>3, <1>4, <1>5, <1>6, <1>7, <1>8, Zenon DEF Only, LocalSame




-----------------------------------------------------------------------------
(* Steps of a call.                                                        *)

(* The object that a process works on, and what it may hold. *)
LEMMA AtWork ==
  ASSUME SOInv, NEW p \in Procs, pc[p] \in Working
  PROVE  /\ obj[p] \in Objects /\ Typed(Plugin(obj[p]), kwargs[p])
         /\ Callable(Plugin(obj[p]), kwargs[p]) /\ InWork(p, obj[p])
         /\ \A o \in Objects \ {obj[p]} : ~InWork(p, o)
BY DEF SOInv, Work, WorkOf, InWork

LEMMA ChangeStep ==
  ASSUME Shape, Devices, NEW p \in Procs, NEW x \in Objects, NEW d, Device(x, d),
         Change(p, x, d)
  PROVE  /\ Devices' /\ tree'[x] = d /\ \A o \in Objects \ {x} : tree'[o] = tree[o]
         /\ tree' = [o \in Objects |-> tree'[o]] /\ source' = [o \in Objects |-> source'[o]]
         /\ \A o \in Objects \ {x} : source'[o] = source[o]
         /\ source'[x] # None => /\ source'[x] = source[x] /\ source[x] # None
                                 /\ source[x].by = p
<1>1. tree' = [tree EXCEPT ![x] = d]
  BY DEF Change
<1>2. source' = [source EXCEPT ![x] = IF source[x] # None /\ source[x].by = p
                                      THEN source[x] ELSE None]
  BY DEF Change, Shape
<1> QED
  BY <1>1, <1>2, DevicesTouched, SourceTouched, Zenon

LEMMA RefusedStep ==
  ASSUME SOInv, NEW p \in Procs, pc[p] \in Working, Refused(p),
         UNCHANGED <<file, calls, boots>>
  PROVE  SOInv'
<1>x. PICK x \in Objects : x = obj[p]
  BY AtWork
<1>0. Shape /\ Devices /\ Entries /\ Work /\ Sources
  BY DEF SOInv
<1>1. UNCHANGED <<tree, source, obj, kwargs, attrs, todo, out>> /\ Goto(p, "undo")
  BY DEF Refused
<1>2. pc'[p] = "undo" /\ pc' \in [Procs -> Steps] /\ Only(p)
  BY <1>0, <1>1, GotoStep DEF Steps
<1>3. x \in Objects /\ InWork(p, x) /\ \A o \in Objects \ {x} : ~InWork(p, o)
  BY <1>x, AtWork
<1>4. Shape'
  BY <1>0, <1>1, <1>2 DEF Shape
<1>5. Work'
  <2>1. WorkOf(p)'
    BY <1>0, <1>1, <1>2, Zenon DEF Work, WorkOf, Working
  <2> QED
    BY <1>0, <1>2, <2>1, WorkKept, Zenon
<1>6. Sources'
  <2>1. \A o \in Objects \ {x} : ~InWork(p, o)'
    BY <1>x, <1>1 DEF InWork
  <2>2. ASSUME source'[x] # None PROVE SourceOf(x)'
    <3>1. source[x] # None /\ source'[x] = source[x] /\ tree'[x] = tree[x] /\ SourceOf(x)
      BY <1>0, <1>1, <1>3, <2>2, Zenon DEF Sources
    <3>2. CASE source[x].by = p
      BY <1>1, <1>2, <1>3, <3>1, <3>2, ZenonT(60) DEF SourceOf, InWork, Working
    <3>3. CASE source[x].by # p
      <4>1. LocalSame(source[x].by)
        BY <1>2, <3>1, <3>3, Zenon DEF Only, SourceOf
      <4> QED
        BY <1>3, <3>1, <4>1, SourceKept, ZenonT(60)
    <3> QED
      BY <3>2, <3>3, Zenon
  <2> QED
    BY <1>0, <1>1, <1>2, <1>3, <2>1, <2>2, SourcesTouched, ZenonT(60)
<1> QED
  BY <1>0, <1>1, <1>4, <1>5, <1>6, DevicesSame, EntriesSame, ZenonT(30) DEF SOInv

(* A write to the object succeeds and the constructor goes on. *)
LEMMA ProceedStep ==
  ASSUME SOInv, NEW p \in Procs, pc[p] \in Working,
         NEW step \in {"set", "enabled", "attributes", "undo"}, Proceed(p, step),
         step = "attributes" => attrs[p] # None,
         NEW d, Device(obj[p], d), Change(p, obj[p], d),
         UNCHANGED <<file, calls, boots>>,
         source[obj[p]] # None /\ source[obj[p]].by = p =>
           /\ step \in {"set", "enabled", "attributes"} =>
                d.set = Settings(Plugin(obj[p]), kwargs[p])
           /\ step \in {"enabled", "attributes"} => d.on
           /\ step = "attributes" => d.serial \in SerialsFor(Plugin(obj[p]), kwargs[p])
  PROVE  SOInv'
<1>x. PICK x \in Objects : x = obj[p]
  BY AtWork, Zenon
<1>0. Shape /\ Devices /\ Entries /\ Work /\ Sources
  BY Zenon DEF SOInv
<1>1. UNCHANGED <<obj, kwargs, attrs, todo, out>> /\ Goto(p, step)
  BY DEF Proceed
<1>2. pc'[p] = step /\ pc' \in [Procs -> Steps] /\ Only(p) /\ step \in Working
  BY <1>0, <1>1, GotoStep, Zenon DEF Steps, Working
<1>3. x \in Objects /\ InWork(p, x) /\ \A o \in Objects \ {x} : ~InWork(p, o)
  BY <1>x, AtWork, Zenon
<1>4. /\ Devices' /\ tree'[x] = d /\ \A o \in Objects \ {x} : tree'[o] = tree[o]
      /\ tree' = [o \in Objects |-> tree'[o]] /\ source' = [o \in Objects |-> source'[o]]
      /\ \A o \in Objects \ {x} : source'[o] = source[o]
      /\ source'[x] # None => /\ source'[x] = source[x] /\ source[x] # None
                              /\ source[x].by = p
  BY <1>x, <1>0, <1>3, ChangeStep
<1>5. Shape'
  BY <1>0, <1>1, <1>2, <1>4 DEF Shape
<1>6. Work'
  <2>1. WorkOf(p)'
    BY <1>0, <1>1, <1>2, Zenon DEF Work, WorkOf, Working
  <2> QED
    BY <1>0, <1>2, <2>1, WorkKept, ZenonT(60)
<1>7. Sources'
  <2>1. \A o \in Objects \ {x} : ~InWork(p, o)'
    BY <1>x, <1>1, ZenonT(60) DEF InWork
  <2>2. ASSUME source'[x] # None PROVE SourceOf(x)'
    <3>1. /\ source[x] # None /\ source'[x] = source[x] /\ source[x].by = p /\ SourceOf(x)
          /\ tree'[x] = d
      BY <1>0, <1>3, <1>4, <2>2 DEF Sources
    <3>2. kwargs[p] = source[x].entry.kwargs /\ attrs[p] = source[x].entry.attrs
      BY <1>3, <3>1, ZenonT(60) DEF SourceOf
    <3>3. InWork(p, x)'
      BY <1>x, <1>1, <1>2, ZenonT(60) DEF InWork
    <3>4. Entry(x, source[x].entry)
      BY <3>1, Zenon DEF SourceOf
    <3> QED
      BY <1>x, <1>1, <1>2, <3>1, <3>2, <3>3, <3>4, ZenonT(60) DEF SourceOf
  <2> QED
    BY <1>0, <1>2, <1>3, <1>4, <2>1, <2>2, SourcesTouched, Zenon
<1> QED
  BY <1>0, <1>1, <1>4, <1>5, <1>6, <1>7, EntriesSame, Zenon DEF SOInv

(* A write to the object succeeds and the process is done with it. *)
LEMMA LeaveChange ==
  ASSUME SOInv, NEW p \in Procs, pc[p] \in Working, Leave(p),
         NEW d, Device(obj[p], d), Change(p, obj[p], d),
         UNCHANGED <<file, calls, boots>>,
         source[obj[p]] # None /\ source[obj[p]].by = p =>
           /\ d.set = Settings(Plugin(obj[p]), kwargs[p]) /\ d.on
           /\ d.serial \in SerialsFor(Plugin(obj[p]), kwargs[p]) /\ d.cache = attrs[p]
  PROVE  SOInv'
<1>x. PICK x \in Objects : x = obj[p]
  BY AtWork, SMTT(30)
<1>0. Shape /\ Devices /\ Entries /\ Work /\ Sources
  BY DEF SOInv
<1>1. UNCHANGED <<todo, out>>
  BY Zenon DEF Leave
<1>2. /\ pc'[p] = (IF attrs[p] = None THEN "ready" ELSE "restore")
      /\ obj'[p] = None /\ attrs'[p] = None /\ Only(p)
  BY <1>0, LeaveStep
<1>3. x \in Objects /\ InWork(p, x) /\ \A o \in Objects \ {x} : ~InWork(p, o)
  BY <1>x, AtWork, Zenon
<1>4. /\ Devices' /\ tree'[x] = d /\ \A o \in Objects \ {x} : tree'[o] = tree[o]
      /\ tree' = [o \in Objects |-> tree'[o]] /\ source' = [o \in Objects |-> source'[o]]
      /\ \A o \in Objects \ {x} : source'[o] = source[o]
      /\ source'[x] # None => /\ source'[x] = source[x] /\ source[x] # None
                              /\ source[x].by = p
  BY <1>x, <1>0, <1>3, ChangeStep, SMTT(30)
<1>5. Shape'
  BY <1>0, <1>1, <1>4, LeaveStep DEF Shape
<1>6. Work'
  <2>1. WorkOf(p)'
    BY <1>0, <1>1, <1>2, NoneAssumption, Zenon DEF Work, WorkOf, Working
  <2> QED
    BY <1>0, <1>2, <2>1, WorkKept, ZenonT(60)
<1>7. Sources'
  <2>1. \A o \in Objects : ~InWork(p, o)'
    BY <1>2, ZenonT(60) DEF InWork, Working
  <2>2. ASSUME source'[x] # None PROVE SourceOf(x)'
    <3>1. /\ source[x] # None /\ source'[x] = source[x] /\ source[x].by = p /\ SourceOf(x)
          /\ tree'[x] = d
      BY <1>0, <1>3, <1>4, <2>2 DEF Sources
    <3>2. kwargs[p] = source[x].entry.kwargs /\ attrs[p] = source[x].entry.attrs
      BY <1>3, <3>1, ZenonT(60) DEF SourceOf
    <3>3. ~InWork(p, x)'
      BY <1>3, <2>1, ZenonT(60)
    <3>4. Entry(x, source[x].entry)
      BY <3>1, Zenon DEF SourceOf
    <3> QED
      BY <1>x, <3>1, <3>2, <3>3, <3>4, ZenonT(30) DEF SourceOf
  <2> QED
    BY <1>0, <1>2, <1>3, <1>4, <2>1, <2>2, SourcesTouched, Zenon
<1> QED
  BY <1>0, <1>1, <1>4, <1>5, <1>6, <1>7, EntriesSame, ZenonT(60) DEF SOInv

(* The process is done with the object, which is deleted or left alone,    *)
(* and no longer as restored.                                              *)
LEMMA LeaveForget ==
  ASSUME SOInv, NEW p \in Procs, pc[p] \in Working, Leave(p),
         NEW d, d # None => Device(obj[p], d), tree' = [tree EXCEPT ![obj[p]] = d],
         source' = [source EXCEPT ![obj[p]] = None], UNCHANGED <<file, calls, boots>>
  PROVE  SOInv'
<1>x. PICK x \in Objects : x = obj[p]
  BY AtWork, ZenonT(60)
<1>0. Shape /\ Devices /\ Entries /\ Work /\ Sources
  BY DEF SOInv
<1>1. UNCHANGED <<todo, out>>
  BY DEF Leave
<1>2. /\ pc'[p] = (IF attrs[p] = None THEN "ready" ELSE "restore")
      /\ obj'[p] = None /\ attrs'[p] = None /\ Only(p)
  BY <1>0, LeaveStep, Zenon
<1>3. \A o \in Objects \ {x} : ~InWork(p, o)
  BY <1>x, AtWork
<1>4. /\ Devices' /\ \A o \in Objects \ {x} : tree'[o] = tree[o]
      /\ tree' = [o \in Objects |-> tree'[o]]
  BY <1>x, <1>0, DevicesTouched, Zenon
<1>5. /\ source' = [o \in Objects |-> source'[o]] /\ source'[x] = None
      /\ \A o \in Objects \ {x} : source'[o] = source[o]
  BY <1>x, <1>0, SourceTouched, ZenonT(60)
<1>6. Shape'
  BY <1>0, <1>1, <1>4, <1>5, LeaveStep DEF Shape
<1>7. Work'
  <2>1. WorkOf(p)'
    BY <1>0, <1>1, <1>2, NoneAssumption, Zenon DEF Work, WorkOf, Working
  <2> QED
    BY <1>0, <1>2, <2>1, WorkKept, ZenonT(60)
<1>8. Sources'
  <2>1. \A o \in Objects : ~InWork(p, o)'
    BY <1>2, Zenon DEF InWork, Working
  <2> QED
    BY <1>0, <1>2, <1>3, <1>4, <1>5, <2>1, SourcesTouched, ZenonT(30)
<1> QED
  BY <1>0, <1>1, <1>4, <1>6, <1>7, <1>8, EntriesSame, Zenon DEF SOInv

(* A call that is a single write. *)
LEMMA TouchStep ==
  ASSUME SOInv, NEW p \in Procs, NEW x \in Objects, Call(p), NEW d, d # None => Device(x, d),
         tree' = [tree EXCEPT ![x] = d], source' = [source EXCEPT ![x] = None],
         UNCHANGED <<file, local, boots>>
  PROVE  SOInv'
<1>0. Shape /\ Devices /\ Entries /\ Work /\ Sources
  BY DEF SOInv
<1>1. UNCHANGED <<pc, obj, kwargs, attrs, todo, out>> /\ pc[p] = "ready"
  BY ZenonT(60) DEF local, Call
<1>2. Only(p) /\ WorkOf(p)'
  BY <1>0, <1>1, Zenon DEF Only, LocalSame, Work, WorkOf
<1>3. /\ Devices' /\ \A o \in Objects \ {x} : tree'[o] = tree[o]
      /\ tree' = [o \in Objects |-> tree'[o]]
  BY <1>0, DevicesTouched, Zenon
<1>4. /\ source' = [o \in Objects |-> source'[o]] /\ source'[x] = None
      /\ \A o \in Objects \ {x} : source'[o] = source[o]
  BY <1>0, SourceTouched, Zenon
<1>5. Shape'
  <2>1. calls' \in 0..MaxCalls
    BY <1>0, BoundsAssumption DEF Call, Shape
  <2> QED
    BY <1>0, <1>1, <1>3, <1>4, <2>1 DEF Shape
<1>6. Work'
  BY <1>0, <1>2, WorkKept, Zenon
<1>7. Sources'
  <2>1. \A o \in Objects : ~InWork(p, o) /\ ~InWork(p, o)'
    BY <1>1, Zenon DEF InWork, Working
  <2> QED
    BY <1>0, <1>2, <1>3, <1>4, <2>1, SourcesTouched, Zenon
<1> QED
  BY <1>0, <1>1, <1>3, <1>5, <1>6, <1>7, EntriesSame, Zenon DEF SOInv

LEMMA ExceptFields ==
  ASSUME NEW o \in Objects, NEW d, Device(o, d), NEW v
  PROVE  /\ LET e == [d EXCEPT !.serial = v]
            IN  e.on = d.on /\ e.serial = v /\ e.cache = d.cache /\ e.set = d.set
         /\ LET e == [d EXCEPT !.cache = v]
            IN  e.on = d.on /\ e.serial = d.serial /\ e.cache = v /\ e.set = d.set
<1>1. d = [on |-> d.on, serial |-> d.serial, cache |-> d.cache, set |-> d.set]
  BY DEF Device
<1> QED
  BY <1>1

(* What is known of an object whose restore has come this far. *)
LEMMA SourceAtWork ==
  ASSUME SOInv, NEW p \in Procs, pc[p] \in Working, source[obj[p]] # None,
         source[obj[p]].by = p
  PROVE  LET x == obj[p]
         IN  /\ attrs[p] \in BOOLEAN
             /\ pc[p] \in {"set", "enabled", "attributes"} =>
                  tree[x].set = Settings(Plugin(x), kwargs[p])
             /\ pc[p] \in {"enabled", "attributes"} => tree[x].on
             /\ pc[p] = "attributes" => tree[x].serial \in SerialsFor(Plugin(x), kwargs[p])
<1>1. obj[p] \in Objects /\ InWork(p, obj[p])
  BY AtWork
<1>2. SourceOf(obj[p])
  BY <1>1, Zenon DEF SOInv, Sources
<1> QED
  BY <1>1, <1>2, Zenon DEF SourceOf, Entry

LEMMA ConfigureStep ==
  ASSUME SOInv, NEW p \in Procs, Configure(p)
  PROVE  SOInv'
<1>1. pc[p] \in Working /\ UNCHANGED <<file, calls, boots>>
  BY Zenon DEF Configure, At, Working
<1>2. CASE Refused(p)
  BY <1>1, <1>2, RefusedStep
<1>3. ASSUME Configurable(Plugin(obj[p]), kwargs[p]), Proceed(p, "set"),
             Change(p, obj[p],
                    [on |-> tree[obj[p]].on, serial |-> tree[obj[p]].serial,
                     cache |-> CacheSet(Plugin(obj[p]), kwargs[p], tree[obj[p]].cache),
                     set |-> Settings(Plugin(obj[p]), kwargs[p])])
      PROVE  SOInv'
  <2> DEFINE b == CacheSet(Plugin(obj[p]), kwargs[p], tree[obj[p]].cache)
             set == Settings(Plugin(obj[p]), kwargs[p])
             d == [on |-> tree[obj[p]].on, serial |-> tree[obj[p]].serial,
                   cache |-> b, set |-> set]
  <2>1. /\ obj[p] \in Objects /\ Typed(Plugin(obj[p]), kwargs[p])
        /\ Callable(Plugin(obj[p]), kwargs[p]) /\ Plugin(obj[p]) \in Plugins
    BY <1>1, AtWork, PluginType, Zenon
  <2>2. Device(obj[p], tree[obj[p]])
    BY <1>3, <2>1, ZenonT(60) DEF SOInv, Devices, Proceed
  <2>3. GoodSet(Plugin(obj[p]), set)
    BY <1>3, <2>1, SettingsGood, ZenonT(60)
  <2>4. b \in BOOLEAN
    BY DEF CacheSet
  <2>5. Change(p, obj[p], d)
    BY <1>3, ZenonT(60)
  <2>6. d.set = set
    BY Zenon
  <2> HIDE DEF b, set
  <2>7. Device(obj[p], d)
    BY <2>1, <2>2, <2>3, <2>4, DeviceChanges, ZenonT(60)
  <2> HIDE DEF d
  <2>8. d.set = Settings(Plugin(obj[p]), kwargs[p])
    BY <2>6, Zenon DEF set
  <2> QED
    BY <1>1, <1>3, <2>5, <2>7, <2>8, ProceedStep, ZenonT(60)
<1> QED
  BY <1>2, <1>3 DEF Configure

LEMMA EnableStep ==
  ASSUME SOInv, NEW p \in Procs, Enable(p)
  PROVE  SOInv'
<1>1. pc[p] = "set" /\ pc[p] \in Working /\ UNCHANGED <<file, calls, boots>>
  BY DEF Enable, At, Working
<1>2. CASE Refused(p)
  BY <1>1, <1>2, RefusedStep, Zenon
<1> DEFINE d == [on |-> TRUE, serial |-> tree[obj[p]].serial,
                 cache |-> tree[obj[p]].cache, set |-> tree[obj[p]].set]
<1>3. ASSUME Proceed(p, "enabled"), tree[obj[p]].set # <<>>, Change(p, obj[p], d)
      PROVE  SOInv'
  <2>1. obj[p] \in Objects
    BY <1>1, AtWork, Zenon
  <2>2. Device(obj[p], tree[obj[p]])
    BY <1>3, <2>1, Zenon DEF SOInv, Devices, Proceed
  <2>3. Device(obj[p], d)
    BY <1>3, <2>1, <2>2, DeviceChanges, Zenon
  <2>4. d.on = TRUE /\ d.set = tree[obj[p]].set
    BY ZenonT(60)
  <2> HIDE DEF d
  <2>5. source[obj[p]] # None /\ source[obj[p]].by = p =>
           d.set = Settings(Plugin(obj[p]), kwargs[p])
    BY <1>1, <2>4, SourceAtWork, Zenon
  <2> QED
    BY <1>1, <1>3, <2>3, <2>4, <2>5, ProceedStep, Zenon
<1> QED
  BY <1>2, <1>3, Zenon DEF Enable

LEMMA SetSerialStep ==
  ASSUME SOInv, NEW p \in Procs, SetSerial(p)
  PROVE  SOInv'
<1>1. pc[p] = "enabled" /\ pc[p] \in Working /\ UNCHANGED <<file, calls, boots>>
  BY DEF SetSerial, At, Working
<1>2. CASE Refused(p)
  BY <1>1, <1>2, RefusedStep, Zenon
<1>3. ASSUME tree[obj[p]] # None, NEW s \in SerialsFor(Plugin(obj[p]), kwargs[p]),
             Change(p, obj[p], [tree[obj[p]] EXCEPT !.serial = s]),
             \/ attrs[p] # None /\ Proceed(p, "attributes")
             \/ attrs[p] = None /\ Leave(p)
             \/ Proceed(p, "undo")
      PROVE  SOInv'
  <2> DEFINE d == [tree[obj[p]] EXCEPT !.serial = s]
  <2>1. obj[p] \in Objects /\ Typed(Plugin(obj[p]), kwargs[p])
    BY <1>1, AtWork, Zenon
  <2>2. Device(obj[p], tree[obj[p]])
    BY <1>3, <2>1, Zenon DEF SOInv, Devices
  <2>3. s \in Serials \cup {None} /\ (Plugin(obj[p]) = "pscsi" => s = None)
    BY <1>3, <2>1 DEF SerialsFor, Typed, Get
  <2>4. Device(obj[p], d)
    BY <2>1, <2>2, <2>3, DeviceChanges, Zenon
  <2>5. d.on = tree[obj[p]].on /\ d.serial = s /\ d.set = tree[obj[p]].set
    BY <2>1, <2>2, ExceptFields
  <2>6. Change(p, obj[p], d)
    BY <1>3, Zenon
  <2> HIDE DEF d
  <2>7. source[obj[p]] # None /\ source[obj[p]].by = p =>
          /\ d.set = Settings(Plugin(obj[p]), kwargs[p]) /\ d.on
          /\ d.serial \in SerialsFor(Plugin(obj[p]), kwargs[p]) /\ attrs[p] # None
    BY <1>1, <1>3, <2>5, SourceAtWork, NoneAssumption, Zenon
  <2>8. CASE attrs[p] # None /\ Proceed(p, "attributes")
    BY <1>1, <2>4, <2>6, <2>7, <2>8, ProceedStep, ZenonT(60)
  <2>9. CASE attrs[p] = None /\ Leave(p)
    BY <1>1, <2>4, <2>6, <2>7, <2>9, LeaveChange, Zenon
  <2>10. CASE Proceed(p, "undo")
    BY <1>1, <2>4, <2>6, <2>10, ProceedStep, Zenon
  <2> QED
    BY <1>3, <2>8, <2>9, <2>10, Zenon
<1> QED
  BY <1>2, <1>3, Zenon DEF SetSerial

LEMMA SetAttributesStep ==
  ASSUME SOInv, NEW p \in Procs, SetAttributes(p)
  PROVE  SOInv'
<1>1. /\ pc[p] = "attributes" /\ pc[p] \in Working /\ UNCHANGED <<file, calls, boots>>
      /\ Leave(p)
  BY Zenon DEF SetAttributes, At, Working
<1>2. obj[p] \in Objects
  BY <1>1, AtWork
<1>3. ASSUME tree[obj[p]] # None, Change(p, obj[p], [tree[obj[p]] EXCEPT !.cache = attrs[p]])
      PROVE  SOInv'
  <2> DEFINE d == [tree[obj[p]] EXCEPT !.cache = attrs[p]]
  <2>1. Device(obj[p], tree[obj[p]])
    BY <1>2, <1>3, Zenon DEF SOInv, Devices
  <2>2. attrs[p] \in BOOLEAN
    BY <1>1 DEF SOInv, Work, WorkOf, Shape
  <2>3. Device(obj[p], d)
    BY <1>2, <2>1, <2>2, DeviceChanges, ZenonT(60)
  <2>4. /\ d.on = tree[obj[p]].on /\ d.serial = tree[obj[p]].serial
        /\ d.cache = attrs[p] /\ d.set = tree[obj[p]].set
    BY <1>2, <2>1, ExceptFields
  <2>5. Change(p, obj[p], d)
    BY <1>3, ZenonT(30)
  <2> HIDE DEF d
  <2>6. source[obj[p]] # None /\ source[obj[p]].by = p =>
          /\ d.set = Settings(Plugin(obj[p]), kwargs[p]) /\ d.on
          /\ d.serial \in SerialsFor(Plugin(obj[p]), kwargs[p])
    BY <1>1, <2>4, SourceAtWork
  <2> QED
    BY <1>1, <2>3, <2>4, <2>5, <2>6, LeaveChange, Zenon
<1>4. ASSUME tree' = tree, source' = [source EXCEPT ![obj[p]] = None]
      PROVE  SOInv'
  <2> DEFINE d == tree[obj[p]]
  <2>1. tree' = [tree EXCEPT ![obj[p]] = d]
    BY <1>4, Zenon DEF SOInv, Shape
  <2>2. d # None => Device(obj[p], d)
    BY <1>2 DEF SOInv, Devices
  <2> HIDE DEF d
  <2> QED
    BY <1>1, <1>4, <2>1, <2>2, LeaveForget, Zenon
<1> QED
  BY <1>3, <1>4, Zenon DEF SetAttributes

LEMMA UndoStep ==
  ASSUME SOInv, NEW p \in Procs, Undo(p)
  PROVE  SOInv'
<1>1. /\ pc[p] \in Working /\ UNCHANGED <<file, calls, boots>> /\ Leave(p)
      /\ tree' = [tree EXCEPT ![obj[p]] = None]
      /\ source' = [source EXCEPT ![obj[p]] = None]
  BY DEF Undo, At, Working
<1> QED
  BY <1>1, LeaveForget, Zenon

LEMMA TouchSteps ==
  ASSUME SOInv, NEW p \in Procs, NEW x \in Objects,
         \/ Delete(p, x)
         \/ \E value \in BOOLEAN : SetAttribute(p, x, value)
         \/ \E s \in Serials : SetWwn(p, x, s)
  PROVE  SOInv'
<1>1. CASE Delete(p, x)
  BY <1>1, TouchStep, Zenon DEF Delete
<1>2. ASSUME NEW value \in BOOLEAN, SetAttribute(p, x, value) PROVE SOInv'
  <2> DEFINE d == [tree[x] EXCEPT !.cache = value]
  <2>1. tree' = [tree EXCEPT ![x] = d]
    BY <1>2 DEF SetAttribute
  <2>2. Device(x, d)
    BY <1>2, DeviceChanges, Zenon DEF SetAttribute, SOInv, Devices
  <2> HIDE DEF d
  <2> QED
    BY <1>2, <2>1, <2>2, TouchStep, Zenon DEF SetAttribute
<1>3. ASSUME NEW s \in Serials, SetWwn(p, x, s) PROVE SOInv'
  <2> DEFINE d == [tree[x] EXCEPT !.serial = s]
  <2>1. tree' = [tree EXCEPT ![x] = d]
    BY <1>3 DEF SetWwn
  <2>2. Device(x, d)
    BY <1>3, DeviceChanges, Zenon DEF SetWwn, SOInv, Devices
  <2> HIDE DEF d
  <2> QED
    BY <1>3, <2>1, <2>2, TouchStep, Zenon DEF SetWwn
<1> QED
  BY <1>1, <1>2, <1>3, Zenon

(* A step of a save or a restore that leaves configfs alone. *)
LEMMA QuietStep ==
  ASSUME SOInv, NEW p \in Procs, UNCHANGED <<tree, source>>, Only(p),
         pc[p] \notin Working, pc'[p] \notin Working, Shape', Entries', WorkOf(p)'
  PROVE  SOInv'
BY WorkKept, SourcesSame, DevicesSame, Zenon DEF SOInv

LEMMA SaveStep ==
  ASSUME SOInv, NEW p \in Procs, Save(p)
  PROVE  SOInv'
<1>0. Shape /\ Entries /\ Work
  BY DEF SOInv
<1>1. /\ pc[p] = "ready" /\ UNCHANGED <<tree, file, source, obj, kwargs, attrs, out, boots>>
      /\ calls' \in 0..MaxCalls
  BY <1>0, BoundsAssumption DEF Save, Call, Shape
<1>2. /\ pc' \in [Procs -> Steps] /\ pc'[p] = "dump"
      /\ \A q \in Procs \ {p} : pc'[q] = pc[q]
  BY <1>0, Zenon DEF Shape, Save, Goto, Steps
<1>3. /\ todo' \in [Procs -> SUBSET Objects] /\ todo'[p] \subseteq Objects
      /\ \A q \in Procs \ {p} : todo'[q] = todo[q]
  BY <1>0, Zenon DEF Shape, Save, Present
<1>4. Shape'
  BY <1>0, <1>1, <1>2, <1>3, Zenon DEF Shape
<1>5. Only(p)
  BY <1>1, <1>2, <1>3, ZenonT(60) DEF Only, LocalSame
<1>6. WorkOf(p)'
  <2>1. out[p] = NoOutput /\ attrs[p] = None /\ obj[p] \notin Objects
    BY <1>0, <1>1, Zenon DEF Work, WorkOf, Working
  <2> QED
    BY <1>1, <1>2, <1>3, <2>1, Zenon DEF WorkOf, Working, NoOutput
<1> QED
  BY <1>0, <1>1, <1>2, <1>4, <1>5, <1>6, EntriesSame, QuietStep, Zenon DEF Working

LEMMA StopKeepsShape ==
  ASSUME SOInv, NEW p \in Procs, Stop(p), UNCHANGED <<tree, source, calls, boots>>,
         \A o \in Objects : file'[o] # None => Entry(o, file'[o]),
         file' = [o \in Objects |-> file'[o]]
  PROVE  Shape' /\ Entries' /\ Only(p) /\ WorkOf(p)' /\ pc'[p] = "ready"
<1>0. Shape /\ Entries
  BY DEF SOInv
<1>1. /\ pc' \in [Procs -> Steps] /\ obj' \in [Procs -> Objects \cup {None}]
      /\ kwargs' = [q \in Procs |-> kwargs'[q]] /\ attrs' \in [Procs -> BOOLEAN \cup {None}]
      /\ todo' \in [Procs -> SUBSET Objects] /\ out' = [q \in Procs |-> out'[q]]
      /\ \A q \in Procs : out'[q] = [o \in Objects |-> out'[q][o]]
      /\ pc'[p] = "ready" /\ WorkOf(p)' /\ Only(p) /\ out'[p] = NoOutput
  BY <1>0, StopStep, Zenon
<1>2. Shape'
  BY <1>0, <1>1, Zenon DEF Shape
<1>3. Entries'
  BY <1>0, <1>1 DEF Entries, NoOutput, Only, LocalSame
<1> QED
  BY <1>1, <1>2, <1>3, Zenon

LEMMA StopQuiet ==
  ASSUME SOInv, NEW p \in Procs, Stop(p), pc[p] \notin Working,
         UNCHANGED <<tree, file, source, calls, boots>>
  PROVE  SOInv'
<1>1. Shape' /\ Entries' /\ Only(p) /\ WorkOf(p)' /\ pc'[p] = "ready"
  BY StopKeepsShape, Zenon DEF SOInv, Shape, Entries
<1> QED
  BY <1>1, QuietStep, Zenon DEF Working

LEMMA DumpAttributesStep ==
  ASSUME SOInv, NEW p \in Procs, NEW x \in Objects, DumpAttributes(p, x)
  PROVE  SOInv'
<1>0. Shape /\ Entries /\ Work
  BY Zenon DEF SOInv
<1>1. pc[p] = "dump" /\ x \in todo[p] /\ UNCHANGED <<tree, file, source, calls, boots>>
  BY Zenon DEF DumpAttributes, At
<1>2. CASE Stop(p)
  BY <1>1, <1>2, StopQuiet, Zenon DEF Working
<1>3. ASSUME tree[x] # None, Goto(p, "values"), obj' = [obj EXCEPT ![p] = x],
             attrs' = [attrs EXCEPT ![p] = tree[x].cache], UNCHANGED <<kwargs, todo, out>>
      PROVE  SOInv'
  <2>1. tree[x].cache \in BOOLEAN /\ tree[x].cache # None
    BY <1>3, NoneAssumption, Zenon DEF SOInv, Devices, Device
  <2>2. /\ pc' \in [Procs -> Steps] /\ pc'[p] = "values"
        /\ \A q \in Procs \ {p} : pc'[q] = pc[q]
    BY <1>0, <1>3, Zenon DEF Shape, Goto, Steps
  <2>3. /\ obj' \in [Procs -> Objects \cup {None}] /\ obj'[p] = x
        /\ \A q \in Procs \ {p} : obj'[q] = obj[q]
    BY <1>0, <1>3, Zenon DEF Shape
  <2>4. /\ attrs' \in [Procs -> BOOLEAN \cup {None}] /\ attrs'[p] # None
        /\ \A q \in Procs \ {p} : attrs'[q] = attrs[q]
    BY <1>0, <1>3, <2>1, Zenon DEF Shape
  <2>5. Shape'
    BY <1>0, <1>1, <1>3, <2>2, <2>3, <2>4, ZenonT(120) DEF Shape
  <2>6. Only(p)
    BY <1>3, <2>2, <2>3, <2>4, ZenonT(60) DEF Only, LocalSame
  <2>7. \A o \in todo[p] : out[p][o] = None
    BY <1>0, <1>1, ZenonT(60) DEF Work, WorkOf
  <2>8. WorkOf(p)'
    BY <1>3, <2>2, <2>3, <2>4, <2>7, ZenonT(60) DEF WorkOf, Working
  <2> QED
    BY <1>0, <1>1, <1>3, <2>2, <2>5, <2>6, <2>8, EntriesSame, QuietStep, Zenon DEF Working
<1> QED
  BY <1>2, <1>3 DEF DumpAttributes

LEMMA DumpValuesStep ==
  ASSUME SOInv, NEW p \in Procs, DumpValues(p)
  PROVE  SOInv'
<1>0. Shape /\ Entries /\ Work
  BY DEF SOInv
<1>1. pc[p] = "values" /\ UNCHANGED <<tree, file, source, calls, boots>>
  BY DEF DumpValues, At
<1>2. CASE Stop(p)
  BY <1>1, <1>2, StopQuiet, Zenon DEF Working
<1>x. PICK x \in Objects : x = obj[p]
  BY <1>0, <1>1, Zenon DEF Work, WorkOf
<1> DEFINE e == [kwargs |-> Dump(Plugin(x), tree[x]), attrs |-> attrs[p], origin |-> tree[x]]
<1>3. ASSUME CanDump(x), out' = [out EXCEPT ![p][x] = e],
             todo' = [todo EXCEPT ![p] = todo[p] \ {x}], Goto(p, "dump"),
             obj' = [obj EXCEPT ![p] = None], attrs' = [attrs EXCEPT ![p] = None],
             UNCHANGED kwargs
      PROVE  SOInv'
  <2>1. Entry(x, e)
    <3>1. e.kwargs = Dump(Plugin(x), tree[x]) /\ e.attrs = attrs[p] /\ e.origin = tree[x]
      BY Zenon
    <3>2. attrs[p] \in BOOLEAN
      BY <1>0, <1>1, Zenon DEF Shape, Work, WorkOf
    <3>3. Device(x, tree[x]) /\ (Plugin(x) = "pscsi" \/ tree[x].on)
      BY <1>3, Zenon DEF CanDump, SOInv, Devices
    <3> HIDE DEF e
    <3> QED
      BY <3>1, <3>2, <3>3, Zenon DEF Entry
  <2> HIDE DEF e
  <2>2. /\ pc' \in [Procs -> Steps] /\ pc'[p] = "dump"
        /\ \A q \in Procs \ {p} : pc'[q] = pc[q]
    BY <1>0, <1>3, Zenon DEF Shape, Goto, Steps
  <2>3. /\ obj' \in [Procs -> Objects \cup {None}] /\ obj'[p] = None
        /\ \A q \in Procs \ {p} : obj'[q] = obj[q]
    BY <1>0, <1>3, Zenon DEF Shape
  <2>4. /\ attrs' \in [Procs -> BOOLEAN \cup {None}] /\ attrs'[p] = None
        /\ \A q \in Procs \ {p} : attrs'[q] = attrs[q]
    BY <1>0, <1>3, Zenon DEF Shape
  <2>5. /\ todo' \in [Procs -> SUBSET Objects] /\ todo'[p] = todo[p] \ {x}
        /\ \A q \in Procs \ {p} : todo'[q] = todo[q]
    BY <1>0, <1>3 DEF Shape
  <2>6. /\ out' = [q \in Procs |-> out'[q]] /\ out'[p] = [out[p] EXCEPT ![x] = e]
        /\ \A q \in Procs \ {p} : out'[q] = out[q]
    BY <1>0, <1>3, Zenon DEF Shape
  <2>7. /\ out'[p][x] = e /\ out'[p] = [o \in Objects |-> out'[p][o]]
        /\ \A o \in Objects \ {x} : out'[p][o] = out[p][o]
    BY <1>0, <2>6, ZenonT(60) DEF Shape
  <2>8. Shape'
    BY <1>0, <1>1, <1>3, <2>2, <2>3, <2>4, <2>5, <2>6, <2>7 DEF Shape
  <2>9. Only(p)
    BY <1>3, <2>2, <2>3, <2>4, <2>5, <2>6, Zenon DEF Only, LocalSame
  <2>10. Entries'
    BY <1>0, <1>1, <2>1, <2>6, <2>7, Zenon DEF Entries
  <2>11. \A o \in todo'[p] : out'[p][o] = None
    BY <1>0, <1>1, <2>5, <2>7, ZenonT(60) DEF Work, WorkOf, Shape
  <2>12. WorkOf(p)'
    BY <2>2, <2>3, <2>4, <2>11, NoneAssumption, Zenon DEF WorkOf, Working
  <2> QED
    BY <1>1, <2>2, <2>8, <2>9, <2>10, <2>12, QuietStep, Zenon DEF Working
<1> QED
  BY <1>x, <1>2, <1>3, Zenon DEF DumpValues

LEMMA SavedStep ==
  ASSUME SOInv, NEW p \in Procs, Saved(p)
  PROVE  SOInv'
<1>1. /\ pc[p] \notin Working /\ file' = out[p] /\ Stop(p)
      /\ UNCHANGED <<tree, source, calls, boots>>
  BY ZenonT(60) DEF Saved, Working
<1>2. Shape' /\ Entries' /\ Only(p) /\ WorkOf(p)' /\ pc'[p] = "ready"
  BY <1>1, StopKeepsShape, Zenon DEF SOInv, Shape, Entries
<1> QED
  BY <1>1, <1>2, QuietStep, ZenonT(60) DEF Working

LEMMA RestoreStep ==
  ASSUME SOInv, NEW p \in Procs, Restore(p)
  PROVE  SOInv'
<1>0. Shape /\ Entries /\ Work
  BY DEF SOInv
<1>1. /\ pc[p] = "ready" /\ UNCHANGED <<tree, file, source, obj, kwargs, attrs, boots>>
      /\ calls' \in 0..MaxCalls
  BY <1>0, BoundsAssumption DEF Restore, Call, Shape
<1>2. /\ pc' \in [Procs -> Steps] /\ pc'[p] = "restore"
      /\ \A q \in Procs \ {p} : pc'[q] = pc[q]
  BY <1>0, Zenon DEF Shape, Restore, Goto, Steps
<1>3. /\ todo' \in [Procs -> SUBSET Objects] /\ todo'[p] = {o \in Objects : file[o] # None}
      /\ \A q \in Procs \ {p} : todo'[q] = todo[q]
  BY <1>0 DEF Shape, Restore
<1>4. /\ out' = [q \in Procs |-> out'[q]] /\ out'[p] = file
      /\ \A q \in Procs \ {p} : out'[q] = out[q]
  BY <1>0, Zenon DEF Shape, Restore
<1>5. Shape'
  BY <1>0, <1>1, <1>2, <1>3, <1>4, ZenonT(60) DEF Shape
<1>6. Only(p)
  BY <1>1, <1>2, <1>3, <1>4 DEF Only, LocalSame
<1>7. Entries'
  BY <1>0, <1>1, <1>4 DEF Entries
<1>8. WorkOf(p)'
  <2>1. attrs[p] = None /\ obj[p] \notin Objects
    BY <1>0, <1>1, Zenon DEF Work, WorkOf, Working
  <2> QED
    BY <1>1, <1>2, <1>3, <1>4, <2>1 DEF WorkOf, Working
<1> QED
  BY <1>1, <1>2, <1>5, <1>6, <1>7, <1>8, QuietStep, Zenon DEF Working

(* The arguments of an entry are typed, also where a pscsi object was not  *)
(* there yet.                                                              *)
LEMMA EntryTyped ==
  ASSUME NEW o \in Objects, NEW e, Entry(o, e)
  PROVE  Typed(Plugin(o), e.kwargs)
<1>1. CASE e.origin.on
  BY <1>1, EntryPasses
<1>2. CASE ~e.origin.on
  <2>1. Plugin(o) = "pscsi" /\ e.kwargs = [dev |-> Get(e.origin.set, "dev", "")]
    BY <1>2, Zenon DEF Entry, Dump, PSCSIDump
  <2>2. DOMAIN e.kwargs = {"dev"}
    BY <2>1, ZenonT(60)
  <2> QED
    BY <2>1, <2>2, Zenon DEF Typed, Get
<1> QED
  BY <1>1, <1>2, Zenon DEF Entry, Device

LEMMA RestoreObjectStep ==
  ASSUME SOInv, NEW p \in Procs, NEW x \in Objects, RestoreObject(p, x)
  PROVE  SOInv'
<1>0. Shape /\ Devices /\ Entries /\ Work /\ Sources
  BY DEF SOInv
<1>1. /\ pc[p] = "restore" /\ x \in todo[p] /\ UNCHANGED <<file, calls, boots, out>>
      /\ todo' = [todo EXCEPT ![p] = todo[p] \ {x}]
  BY Zenon DEF RestoreObject, At
<1>2. /\ todo' \in [Procs -> SUBSET Objects] /\ todo'[p] = todo[p] \ {x}
      /\ \A q \in Procs \ {p} : todo'[q] = todo[q]
  BY <1>0, <1>1 DEF Shape
<1>3. \A o \in todo'[p] : out'[p][o] # None
  BY <1>0, <1>1, <1>2, Zenon DEF Work, WorkOf
<1>4. ASSUME UNCHANGED <<tree, source, pc, obj, kwargs, attrs>> PROVE SOInv'
  <2>1. Shape'
    BY <1>0, <1>1, <1>2, <1>4, ZenonT(120) DEF Shape
  <2>2. Only(p)
    BY <1>1, <1>2, <1>4, ZenonT(60) DEF Only, LocalSame
  <2>3. WorkOf(p)'
    BY <1>0, <1>1, <1>3, <1>4, Zenon DEF Work, WorkOf, Working
  <2> QED
    BY <1>0, <1>1, <1>4, <2>1, <2>2, <2>3, EntriesSame, QuietStep, Zenon DEF Working
<1> DEFINE e == out[p][x]
<1>5. ASSUME Callable(Plugin(x), e.kwargs), Make(p, x, e.kwargs, e.attrs),
             source' = [source EXCEPT ![x] = [by |-> p, entry |-> e]]
      PROVE  SOInv'
  <2>1. Entry(x, e) /\ e.attrs \in BOOLEAN /\ e.attrs # None /\ Typed(Plugin(x), e.kwargs)
    <3>1. e # None
      BY <1>0, <1>1, Zenon DEF Work, WorkOf
    <3>2. Entry(x, e)
      BY <1>0, <3>1 DEF Entries
    <3> HIDE DEF e
    <3> QED
      BY <3>2, EntryTyped, NoneAssumption, Zenon DEF Entry
  <2>e. e = out[p][x]
    BY Zenon
  <2> HIDE DEF e
  <2>2. /\ pc' \in [Procs -> Steps] /\ obj' \in [Procs -> Objects \cup {None}]
        /\ kwargs' = [q \in Procs |-> kwargs'[q]] /\ attrs' \in [Procs -> BOOLEAN \cup {None}]
        /\ pc'[p] = "made" /\ obj'[p] = x /\ kwargs'[p] = e.kwargs /\ attrs'[p] = e.attrs
        /\ \A q \in Procs \ {p} : /\ pc'[q] = pc[q] /\ obj'[q] = obj[q]
                                  /\ kwargs'[q] = kwargs[q] /\ attrs'[q] = attrs[q]
    BY <1>0, <1>5, <2>1, MakeStep, Zenon
  <2>3. /\ Devices' /\ tree'[x] = Blank /\ tree' = [o \in Objects |-> tree'[o]]
        /\ \A o \in Objects \ {x} : tree'[o] = tree[o]
    <3>1. tree' = [tree EXCEPT ![x] = Blank] /\ Device(x, Blank)
      BY <1>5, BlankDevice DEF Make
    <3> HIDE DEF Blank
    <3> QED
      BY <1>0, <3>1, DevicesTouched, Zenon
  <2>4. /\ source' = [o \in Objects |-> source'[o]]
        /\ source'[x] = [by |-> p, entry |-> e]
        /\ \A o \in Objects \ {x} : source'[o] = source[o]
    BY <1>0, <1>5, SourceTouched, ZenonT(60)
  <2>5. Shape'
    BY <1>0, <1>1, <1>2, <2>2, <2>3, <2>4 DEF Shape
  <2>6. Only(p)
    BY <1>1, <1>2, <2>2, Zenon DEF Only, LocalSame
  <2>7. Work'
    <3>1. WorkOf(p)'
      BY <1>3, <1>5, <2>1, <2>2, Zenon DEF WorkOf, Working
    <3> QED
      BY <1>0, <2>6, <3>1, WorkKept, Zenon
  <2>8. Sources'
    <3>1. \A o \in Objects \ {x} : ~InWork(p, o) /\ ~InWork(p, o)'
      BY <1>1, <2>2, Zenon DEF InWork, Working
    <3>2. SourceOf(x)'
      <4>1. source'[x].by = p /\ source'[x].entry = e
        BY <2>4
      <4>2. InWork(p, x)'
        BY <2>2 DEF InWork, Working
      <4>3. Device(x, tree'[x])
        BY <2>3, BlankDevice, Zenon
      <4> QED
        BY <2>1, <2>2, <4>1, <4>2, <4>3, Zenon DEF SourceOf
    <3> QED
      BY <1>0, <2>3, <2>4, <2>6, <3>1, <3>2, SourcesTouched, Zenon
  <2> QED
    BY <1>0, <1>1, <2>3, <2>5, <2>7, <2>8, EntriesSame, Zenon DEF SOInv
<1> QED
  BY <1>4, <1>5, Zenon DEF RestoreObject

LEMMA RestoredStep ==
  ASSUME SOInv, NEW p \in Procs, Restored(p)
  PROVE  SOInv'
BY StopQuiet DEF Restored, At, Working

LEMMA CrashStep ==
  ASSUME SOInv, NEW p \in Procs, Crash(p)
  PROVE  SOInv'
<1>0. Shape /\ Devices /\ Entries /\ Work /\ Sources
  BY DEF SOInv
<1>1. Stop(p) /\ UNCHANGED <<tree, file, calls, boots>>
  BY Zenon DEF Crash
<1>2. CASE pc[p] \notin Working
  BY <1>1, <1>2, StopQuiet, Zenon DEF Crash
<1>3. CASE pc[p] \in Working
  <2>x. PICK x \in Objects : x = obj[p]
    BY <1>3, AtWork, Zenon
  <2>1. source' = [source EXCEPT ![x] = None]
    BY <1>3, <2>x DEF Crash
  <2>2. /\ source' = [o \in Objects |-> source'[o]] /\ source'[x] = None
        /\ \A o \in Objects \ {x} : source'[o] = source[o]
    BY <1>0, <2>1, SourceTouched, Zenon
  <2>3. /\ pc' \in [Procs -> Steps] /\ obj' \in [Procs -> Objects \cup {None}]
        /\ kwargs' = [q \in Procs |-> kwargs'[q]] /\ attrs' \in [Procs -> BOOLEAN \cup {None}]
        /\ todo' \in [Procs -> SUBSET Objects] /\ out' = [q \in Procs |-> out'[q]]
        /\ \A q \in Procs : out'[q] = [o \in Objects |-> out'[q][o]]
        /\ pc'[p] = "ready" /\ WorkOf(p)' /\ Only(p) /\ out'[p] = NoOutput
    BY <1>0, <1>1, StopStep, Zenon
  <2>4. Shape'
    BY <1>0, <1>1, <2>2, <2>3, Zenon DEF Shape
  <2>5. Entries'
    BY <1>0, <1>1, <2>3 DEF Entries, NoOutput, Only, LocalSame
  <2>6. Work'
    BY <1>0, <2>3, WorkKept, Zenon
  <2>7. Sources'
    <3>1. \A o \in Objects \ {x} : ~InWork(p, o) /\ ~InWork(p, o)'
      BY <1>3, <2>x, <2>3, AtWork, Zenon DEF InWork, Working
    <3> QED
      BY <1>0, <1>1, <2>2, <2>3, <3>1, SourcesTouched, Zenon
  <2> QED
    BY <1>0, <1>1, <2>4, <2>5, <2>6, <2>7, DevicesSame, Zenon DEF SOInv
<1> QED
  BY <1>2, <1>3

LEMMA BootStep ==
  ASSUME SOInv, Boot
  PROVE  SOInv'
<1>0. Shape /\ Entries
  BY Zenon DEF SOInv
<1>1. Shape'
  BY <1>0, BoundsAssumption DEF Shape, Boot, NoOutput, Steps
<1>2. Devices' /\ Sources'
  BY Zenon DEF Boot, Devices, Sources, NoOutput
<1>3. Entries'
  BY <1>0, Zenon DEF Entries, Boot, NoOutput
<1>4. Work'
  BY NoneAssumption DEF Work, WorkOf, Boot, Working
<1> QED
  BY <1>1, <1>2, <1>3, <1>4, Zenon DEF SOInv

LEMMA InitInv == Init => SOInv
<1> SUFFICES ASSUME Init PROVE SOInv
  BY Zenon
<1>1. Shape
  BY BoundsAssumption DEF Shape, Init, NoOutput, Steps
<1>2. Devices /\ Sources
  BY DEF Init, Devices, Sources, NoOutput
<1>3. Entries
  BY Zenon DEF Entries, Init, NoOutput
<1>4. Work
  BY NoneAssumption DEF Work, WorkOf, Init, Working
<1> QED
  BY <1>1, <1>2, <1>3, <1>4, Zenon DEF SOInv

LEMMA StepInv == SOInv /\ [Next]_vars => SOInv'
<1> SUFFICES ASSUME SOInv, [Next]_vars PROVE SOInv'
  OBVIOUS
<1>1. CASE UNCHANGED vars
  <2>1. Shape' /\ Devices' /\ Entries'
    BY <1>1, Zenon DEF SOInv, Shape, Devices, Entries, vars
  <2>2. Work'
    BY <1>1, ZenonT(60) DEF SOInv, Work, WorkOf, vars
  <2>3. Sources'
    BY <1>1, ZenonT(60) DEF SOInv, Sources, SourceOf, InWork, vars
  <2> QED
    BY <2>1, <2>2, <2>3, Zenon DEF SOInv
<1>2. CASE Boot
  BY <1>2, BootStep
<1>3. ASSUME NEW p \in Procs, NEW x \in Objects,
             \/ \E kw \in Requests[Plugin(x)] : Create(p, x, kw)
             \/ Delete(p, x) \/ DumpAttributes(p, x) \/ RestoreObject(p, x)
             \/ \E value \in BOOLEAN : SetAttribute(p, x, value)
             \/ \E s \in Serials : SetWwn(p, x, s)
      PROVE  SOInv'
  BY <1>3, CreateStep, TouchSteps, DumpAttributesStep, RestoreObjectStep, Zenon
<1>4. ASSUME NEW p \in Procs,
             \/ Configure(p) \/ Enable(p) \/ SetSerial(p) \/ SetAttributes(p) \/ Undo(p)
             \/ Save(p) \/ DumpValues(p) \/ Saved(p)
             \/ Restore(p) \/ Restored(p) \/ Crash(p)
      PROVE  SOInv'
  BY <1>4, ConfigureStep, EnableStep, SetSerialStep, SetAttributesStep, UndoStep, SaveStep,
     DumpValuesStep, SavedStep, RestoreStep, RestoredStep, CrashStep, Zenon
<1> QED
  BY <1>1, <1>2, <1>3, <1>4, Zenon DEF Next

LEMMA Invariance == Spec => []SOInv
BY InitInv, StepInv, PTL DEF Spec

-----------------------------------------------------------------------------
(* Theorems                                                                *)

(* A device is enabled only with its settings, a process at work has its   *)
(* object, and a save has collected only of what it has visited.           *)
THEOREM TypeCorrect == Spec => []TypeOK
BY Invariance, InvImpliesTypeOK, PTL

(* What save_to_file writes of a storage object that was complete, the     *)
(* constructor that restore() calls takes back.                            *)
THEOREM SavedObjectsAreRestorable == Spec => []Restorable
BY Invariance, InvImpliesRestorable, PTL

(* An object that restore() has brought back is the one that was dumped,   *)
(* with its parameters, its write cache attribute and its unit serial, if  *)
(* its TCMU configuration was one word, its TCMU settings are ones that    *)
(* _get_control_tuples looks for, and its write cache was as made.         *)
THEOREM RestoreBringsTheObjectBack == Spec => []RestoredAlike
BY Invariance, InvImpliesRestoredAlike, PTL

(* Saving a restored object again writes what it was restored from.        *)
THEOREM ConfigurationDoesNotDrift == Spec => []NoDrift
BY Invariance, InvImpliesNoDrift, PTL

====
