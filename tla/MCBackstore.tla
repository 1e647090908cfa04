---------------------------- MODULE MCBackstore ----------------------------
(***************************************************************************)
(* Small instances of Backstore.                                           *)
(***************************************************************************)
EXTENDS Backstore, TLC

(* Processes, plugins and names are interchangeable. *)
Symmetry ==
  Permutations(Procs) \cup Permutations(Plugins) \cup Permutations(Names)
=============================================================================
