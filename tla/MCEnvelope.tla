----------------------------- MODULE MCEnvelope -----------------------------
(* Envelope with the symmetry of its forward workers, for TLC. *)
EXTENDS Envelope, TLC

WorkerSymmetry == Permutations(Worker)
=============================================================================
