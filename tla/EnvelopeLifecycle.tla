-------------------------- MODULE EnvelopeLifecycle --------------------------
(***************************************************************************)
(* What the signing service promises about one envelope, seen from the     *)
(* outside: the life of envelopes.status, the all-party delivery mark      *)
(* (completion_distributed_at) and the void refund.  Nothing is said of    *)
(* signers, mail or durable runs; module Envelope implements this one.     *)
(***************************************************************************)

VARIABLES
  status,         \* envelopes.status
  distributed,    \* completion_distributed_at is set
  refunded        \* the envelope's credit went back to the creator

lifeVars == <<status, distributed, refunded>>

(* The values the CHECK on envelopes.status admits. *)
Statuses == {"active", "awaiting_seal", "completed", "expired", "voided"}

LifeInit ==
  /\ status = "active"
  /\ distributed = FALSE
  /\ refunded = FALSE

Move(from, to) ==
  /\ status = from
  /\ status' = to
  /\ UNCHANGED <<distributed, refunded>>

(* Parked for the creator's seal, collecting signatures again after an edit, *)
(* or closed without a bundle: each only from the one status it names.       *)
Park   == Move("active", "awaiting_seal")
Reopen == Move("awaiting_seal", "active")
Void   == Move("active", "voided")
Expire == Move("active", "expired")

(* Completion is the only way into "completed" and nothing leads out of it. *)
(* It is not restricted to open envelopes: the code's UPDATE has no guard.  *)
Complete ==
  /\ status' = "completed"
  /\ UNCHANGED <<distributed, refunded>>

(* The delivery mark is set once, on a completed envelope. *)
Deliver ==
  /\ status = "completed"
  /\ ~distributed
  /\ distributed' = TRUE
  /\ UNCHANGED <<status, refunded>>

(* A refund is paid once, for an envelope that was voided; a distribution   *)
(* already under way may have turned it into a completed one meanwhile.     *)
Refund ==
  /\ status \in {"voided", "completed"}
  /\ ~refunded
  /\ refunded' = TRUE
  /\ UNCHANGED <<status, distributed>>

LifeNext ==
  \/ Park \/ Reopen \/ Void \/ Expire
  \/ Complete \/ Deliver \/ Refund

LifeSpec == LifeInit /\ [][LifeNext]_lifeVars
=============================================================================
