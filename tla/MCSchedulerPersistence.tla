----------------------- MODULE MCSchedulerPersistence -----------------------
(* Finite instances of SchedulerPersistence. *)
EXTENDS SchedulerPersistence
=============================================================================
