------------------------------ MODULE MCStudio -------------------------------
(* Studio for TLC. *)
EXTENDS Studio, TLC
=============================================================================
