------------------------------ MODULE MCCreation -----------------------------
(* Creation for TLC: clients are interchangeable. *)
EXTENDS Creation, TLC

ClientSymmetry == Permutations(Client)
=============================================================================
