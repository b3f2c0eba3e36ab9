----------------------------- MODULE MCAttempt -----------------------------
(* Finite instances of Attempt. *)
EXTENDS Attempt
=============================================================================
