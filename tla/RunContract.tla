---------------------------- MODULE RunContract ----------------------------
(***************************************************************************)
(* What the deep-researcher service promises about a Research Run, without *)
(* workers, leases, checkpoints or events.  A run is submitted once, may   *)
(* hold a budget reservation while it is open, and ends exactly once.  It  *)
(* ends with a published answer (completed or partial) or without one      *)
(* (failed or cancelled), and the reservation is given back by the very    *)
(* step that ends it.                                                      *)
(*                                                                         *)
(* RunLifecycle implements this module: see Contract there.                *)
(***************************************************************************)
CONSTANT Run

VARIABLES
  phase,     \* phase[r]: "absent", "open", or how the run ended
  held,      \* held[r]: the run holds a budget reservation
  answered   \* answered[r]: the assistant message carries the answer

contractVars == <<phase, held, answered>>

Ended == {"completed", "partial", "failed", "cancelled"}

ContractInit ==
  /\ phase = [r \in Run |-> "absent"]
  /\ held = [r \in Run |-> FALSE]
  /\ answered = [r \in Run |-> FALSE]

Open(r) ==
  /\ phase[r] = "absent"
  /\ phase' = [phase EXCEPT ![r] = "open"]
  /\ UNCHANGED <<held, answered>>

Hold(r) ==
  /\ phase[r] = "open"
  /\ ~held[r]
  /\ held' = [held EXCEPT ![r] = TRUE]
  /\ UNCHANGED <<phase, answered>>

Conclude(r) ==
  /\ phase[r] = "open"
  /\ \E s \in {"completed", "partial"} : phase' = [phase EXCEPT ![r] = s]
  /\ answered' = [answered EXCEPT ![r] = TRUE]
  /\ held' = [held EXCEPT ![r] = FALSE]

Abort(r) ==
  /\ phase[r] = "open"
  /\ \E s \in {"failed", "cancelled"} : phase' = [phase EXCEPT ![r] = s]
  /\ held' = [held EXCEPT ![r] = FALSE]
  /\ UNCHANGED answered

ContractNext ==
  \E r \in Run : Open(r) \/ Hold(r) \/ Conclude(r) \/ Abort(r)

ContractSafety == ContractInit /\ [][ContractNext]_contractVars

(* An open run ends: it is never parked forever. *)
ContractSpec ==
  ContractSafety /\ \A r \in Run : WF_contractVars(Conclude(r) \/ Abort(r))
=============================================================================
