----------------------------- MODULE MCProcess -----------------------------
(* Finite instance of Process. *)
EXTENDS Process
OneHidden == {2}
=============================================================================
