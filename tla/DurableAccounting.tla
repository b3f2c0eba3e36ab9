------------------------- MODULE DurableAccounting -------------------------
(***************************************************************************)
(* What the scheduler relies on when it reserves a start before the first  *)
(* connection: one durable value, written by one process at a time.  A     *)
(* process that opens it reads the value acknowledged last, or one that a  *)
(* process asked for since and had not been told about when it died;       *)
(* never an older one and never one that nobody asked for.                 *)
(*                                                                         *)
(* SchedulerPersistence implements this with four files.                   *)
(***************************************************************************)
CONSTANTS Values, Zero

VARIABLES
    up,         \* a process has the value open
    value,      \* what it holds
    acked,      \* the value acknowledged last
    wanted      \* values asked for since

vars == <<up, value, acked, wanted>>

Open == /\ ~up /\ up'
        /\ value' \in {acked} \cup wanted
        /\ UNCHANGED <<acked, wanted>>

Ask == /\ up /\ UNCHANGED <<up, acked>>
       /\ \E v \in Values : value' = v /\ wanted' = wanted \cup {v}

Acknowledge == /\ up /\ acked' = value /\ wanted' = {}
               /\ UNCHANGED <<up, value>>

Crash == /\ up /\ ~up' /\ value' = Zero
         /\ UNCHANGED <<acked, wanted>>

Init == up = FALSE /\ value = Zero /\ acked = Zero /\ wanted = {}

Next == Open \/ Ask \/ Acknowledge \/ Crash

Spec == Init /\ [][Next]_vars
=============================================================================
