------------------------- MODULE MCAdaptiveMonitor -------------------------
(* Finite instance of AdaptiveMonitor. *)
EXTENDS AdaptiveMonitor
=============================================================================
