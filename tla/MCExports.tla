------------------------------ MODULE MCExports -----------------------------
(***************************************************************************)
(* Exports on small instances.                                             *)
(***************************************************************************)
EXTENDS Exports, TLC

Symmetry ==
  Permutations(Procs) \cup Permutations(Targets) \cup Permutations(Nodes)
  \cup Permutations(StorageObjects)
=============================================================================
