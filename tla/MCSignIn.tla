------------------------------ MODULE MCSignIn -------------------------------
(* SignIn for TLC. *)
EXTENDS SignIn, TLC
=============================================================================
