----------------------------- MODULE MCRetention -----------------------------
(* Retention for TLC: envelopes of one upload, old ones and new ones. *)
EXTENDS Retention, TLC
=============================================================================
