------------------------------- MODULE MCAlua -------------------------------
(* Processes of the model-checking run of Alua. *)
EXTENDS Alua

CONSTANTS p1, p2
=============================================================================
