----------------------------- MODULE MCMonitor -----------------------------
(* Finite instance of Monitor. *)
EXTENDS Monitor
CONSTANTS e1, e2
TwoInterfaces == <<e1, e2>>
=============================================================================
