------------------------- MODULE MCStorageObjects -------------------------
(***************************************************************************)
(* One object of each plugin, of which callers make one at a time and a    *)
(* restore may bring back another.  Pages have four bytes: the sizes are   *)
(* below a page, half-way between an odd and an even number of pages, and  *)
(* three bytes over.  One SCSI device has two paths.  Of the TCMU settings *)
(* dump() shows the data area, and not whether netlink is answered.        *)
(***************************************************************************)
EXTENDS StorageObjects, TLC

CONSTANTS p1, p2, w1, w2

MCObjects == Plugins \X {"a"}

MCKind == "/f" :> "file" @@ "/d" :> "disk" @@ "/cd" :> "cdrom" @@ "/etc" :> "dir"
MCScsiPaths == {"/cd", "/dvd"}
MCPath == "2:0:0:0" :> "/cd"
MCDefaultControl == "max_data_area_mb" :> 1 @@ "nl_reply_supported" :> 1

MCRequests ==
  [pl \in Plugins |->
     CASE pl = "pscsi"   -> {[dev |-> "/dvd"], [dev |-> "2:0:0:0"], [dev |-> "9:0:0:0"]}
       [] pl = "ramdisk" -> {[size |-> 1, nullio |-> TRUE], [size |-> 6, wwn |-> w1],
                             [size |-> 11]}
       [] pl = "fileio"  -> {[dev |-> "/f", size |-> 5, aio |-> TRUE],
                             [dev |-> "/d", write_back |-> TRUE, wwn |-> w1],
                             [dev |-> "/f"], [dev |-> "/etc", size |-> 5]}
       [] pl = "block"   -> {[dev |-> "/d", readonly |-> TRUE], [dev |-> "/cd"]}
       [] pl = "user"    -> {[config |-> <<"h/x">>, size |-> 5, control |-> "max_data_area_mb" :> 2],
                             [config |-> <<"h/x">>, size |-> 5, control |-> "nl_reply_supported" :> 2],
                             [config |-> <<"h/x", "y">>, size |-> 5, hw_max_sectors |-> 8],
                             [config |-> <<"h/:">>, size |-> 5], [config |-> <<"y">>, size |-> 5]}]

MCSlashed == {"h/x", "h/:"}
MCColoned == {"h/:"}

Symmetry == Permutations({p1, p2})
=============================================================================
