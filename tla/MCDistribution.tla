--------------------------- MODULE MCDistribution ---------------------------
(* Distribution for TLC: a creator who signs nothing, or who is a signer. *)
EXTENDS Distribution, TLC
=============================================================================
