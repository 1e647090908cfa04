----------------------------- MODULE ConfigFile -----------------------------
(***************************************************************************)
(* What save_to_file promises its callers: an atomic configuration file.   *)
(* A call takes the configuration as it is at its start, puts it into the  *)
(* file in one step, and returns after that step; it may raise, and its    *)
(* process die, before the step or after it.  When the power fails, the    *)
(* file is again what it was at some time since the last power failure.    *)
(*                                                                         *)
(* The promise is for calls that do not overlap.  Once two have, the file  *)
(* may hold anything, but there still is one.                              *)
(***************************************************************************)
CONSTANTS
  Procs, Versions,
  NoConfig,   \* there is no file
  Broken      \* the file is not a complete configuration

VARIABLES
  config,   \* the running configuration
  file,     \* what the configuration file holds
  held,     \* what it has held since the last power failure
  stage,    \* how far the call of each process is
  wanted,   \* the configuration that it is to save
  outcome,  \* how the last call of each process ended, none while in one
  overlap   \* whether two calls have been under way at a time

vars == <<config, file, held, stage, wanted, outcome, overlap>>

Init ==
  /\ config \in Versions
  /\ file \in Versions \cup {NoConfig}
  /\ held = {file}
  /\ stage = [p \in Procs |-> "idle"]
  /\ wanted \in [Procs -> Versions]
  /\ outcome = [p \in Procs |-> "none"]
  /\ overlap = FALSE

(* Calls that overlap may do anything to the file but remove it. *)
Mixed ==
  /\ overlap
  /\ file' \in Versions \cup {Broken, NoConfig}
  /\ held' \subseteq Versions \cup {Broken, NoConfig}
  /\ file' = NoConfig => file = NoConfig
  /\ NoConfig \in held' => NoConfig \in held

Kept == UNCHANGED <<file, held>> \/ Mixed

Change ==
  /\ config' \in Versions
  /\ UNCHANGED <<file, held, stage, wanted, outcome, overlap>>

Begin(p) ==
  /\ stage[p] = "idle"
  /\ stage' = [stage EXCEPT ![p] = "saving"]
  /\ wanted' = [wanted EXCEPT ![p] = config]
  /\ overlap' = (overlap \/ \E q \in Procs \ {p} : stage[q] # "idle")
  /\ outcome' = [outcome EXCEPT ![p] = "none"]
  /\ UNCHANGED <<config, file, held>>

(* Preparations, of which nothing is seen. *)
Prepare(p) ==
  /\ stage[p] = "saving"
  /\ Kept
  /\ UNCHANGED <<config, stage, wanted, outcome, overlap>>

Put(p) ==
  /\ stage[p] = "saving"
  /\ stage' = [stage EXCEPT ![p] = "saved"]
  /\ (file' = wanted[p] /\ held' = held \cup {wanted[p]}) \/ Mixed
  /\ UNCHANGED <<config, wanted, outcome, overlap>>

Return(p) ==
  /\ stage[p] = "saved"
  /\ stage' = [stage EXCEPT ![p] = "idle"]
  /\ outcome' = [outcome EXCEPT ![p] = "saved"]
  /\ UNCHANGED <<config, file, held, wanted, overlap>>

(* An exception, with the configuration in the file or not. *)
Fail(p) ==
  /\ stage[p] # "idle"
  /\ stage' = [stage EXCEPT ![p] = "idle"]
  /\ \E how \in {"system error", "save raised"} :
       /\ outcome' = [outcome EXCEPT ![p] = how]
       /\ how = "save raised" => stage[p] = "saving"
  /\ UNCHANGED <<config, file, held, wanted, overlap>>

(* Calls that are refused at once. *)
Refuse(p) ==
  /\ stage[p] = "idle"
  /\ \E how \in {"save raised", "restore raised"} : outcome' = [outcome EXCEPT ![p] = how]
  /\ UNCHANGED <<config, file, held, stage, wanted, overlap>>

Die(p) ==
  /\ stage' = [stage EXCEPT ![p] = "idle"]
  /\ outcome' = [outcome EXCEPT ![p] = "none"]
  /\ UNCHANGED <<config, file, held, wanted, overlap>>

PowerFails ==
  /\ stage' = [p \in Procs |-> "idle"]
  /\ outcome' = [p \in Procs |-> "none"]
  /\ file' \in held \/ (overlap /\ file' \in Versions \cup {Broken})
  /\ held' = {file'}
  /\ UNCHANGED <<config, wanted, overlap>>

Next ==
  \/ Change
  \/ PowerFails
  \/ \E p \in Procs :
       Begin(p) \/ Prepare(p) \/ Put(p) \/ Return(p) \/ Fail(p) \/ Refuse(p) \/ Die(p)

Spec == Init /\ [][Next]_vars
=============================================================================
