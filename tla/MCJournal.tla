----------------------------- MODULE MCJournal -----------------------------
(* Finite instance of Journal. *)
EXTENDS Journal
ThreeBatches == <<3, 1, 1>>
=============================================================================
