------------------------------ MODULE MCOutput ------------------------------
(* Finite instance of Output. *)
EXTENDS Output
=============================================================================
