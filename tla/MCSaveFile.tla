----------------------------- MODULE MCSaveFile -----------------------------
(* Small instances of SaveFile. *)
EXTENDS SaveFile, TLC

(* Processes are interchangeable. *)
Symmetry == Permutations(Procs)
=============================================================================
