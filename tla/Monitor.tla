------------------------------ MODULE Monitor ------------------------------
(***************************************************************************)
(* The loop of `run' over several interfaces: monitor_multi_interface in   *)
(* src/src/monitor.rs with FairInterfaceSelector of src/src/interfaces.rs. *)
(*                                                                         *)
(* One ping round is active at a time; interfaces take turns.  While no    *)
(* round is active the scheduler is polled, and an opportunity it offers   *)
(* is measured on an interface chosen here, with ping rounds on that       *)
(* interface meanwhile.  What the scheduler offers (module Scheduler),     *)
(* what a round finds (module Health) and whether an interface resolves    *)
(* are nondeterministic; so are the moments of ticks and of shutdown.      *)
(*                                                                         *)
(* A retry deadline is modelled by the time left to it, in seconds.        *)
(***************************************************************************)
EXTENDS Integers, Sequences, FiniteSets, SequencesExt

CONSTANTS
    None,
    Order,            \* resolved.interfaces, in configuration order
    Foreign,          \* an interface named by a persisted trigger, not configured
    MaxStep,          \* cap of backoff_step (6 in mark_failed)
    MaxDelay,         \* cap of the retry delay, in seconds (60)
    MaxOffers         \* bound: opportunities offered in a behaviour

VARIABLES
    pc,               \* where the loop stands
    shutdown,         \* the watch channel
    next_interface,   \* index of the interface whose turn is next
    active,           \* interface of the ping round in flight, None
    unfinished,       \* rounds_started - rounds_completed
    interfaces,       \* the InterfaceRuntime of each interface
    attempts, last_turn, turn,   \* FairInterfaceSelector
    selected,         \* interface under test, None
    rivals,           \* history: interfaces the test in hand was chosen among
    offers            \* opportunities offered so far

fairness == <<attempts, last_turn, turn>>
vars == <<pc, shutdown, next_interface, active, unfinished, interfaces, fairness,
          selected, rivals, offers>>

Names == Range(Order)
Ended == pc \in {"stopped", "failed"}

ASSUME NameAssumption ==
    /\ Order \in Seq(Names) /\ Order # <<>>
    /\ \A i, j \in DOMAIN Order : Order[i] = Order[j] => i = j
    /\ None \notin Names /\ Foreign \notin Names /\ Foreign # None
ASSUME BoundAssumption == MaxStep \in Nat /\ MaxDelay \in Nat \ {0} /\ MaxOffers \in Nat

-----------------------------------------------------------------------------
(* InterfaceRuntime. *)

NewRuntime == [latest_success |-> FALSE, degraded |-> FALSE, available |-> TRUE,
               wait |-> 0, backoff_step |-> 0]

can_resolve(r) == r.wait = 0

mark_available(r) == [r EXCEPT !.available = TRUE, !.wait = 0, !.backoff_step = 0]

min(a, b) == IF a <= b THEN a ELSE b

\* Mutant: the back-off step is not capped.
MarkFailedUncapped(r) ==
    [r EXCEPT !.available = FALSE, !.latest_success = FALSE,
              !.wait = min(2 ^ min(r.backoff_step, MaxStep), MaxDelay),
              !.backoff_step = @ + 1]
mark_failed(r) ==
    [r EXCEPT !.available = FALSE, !.latest_success = FALSE,
              !.wait = min(2 ^ min(r.backoff_step, MaxStep), MaxDelay),
              !.backoff_step = min(@ + 1, MaxStep)]

-----------------------------------------------------------------------------
(* FairInterfaceSelector. *)

Index(i) == CHOOSE k \in DOMAIN Order : Order[k] = i

\* Mutant: the longest waiting interface goes first, whatever its count.
TurnBeforeCount(i, j) ==
    \/ last_turn[i] < last_turn[j]
    \/ last_turn[i] = last_turn[j] /\ Index(i) < Index(j)
\* i comes before j in the order of min_by_key; last_turn is 0 for never.
Before(i, j) ==
    \/ attempts[i] < attempts[j]
    \/ attempts[i] = attempts[j] /\ last_turn[i] < last_turn[j]
    \/ attempts[i] = attempts[j] /\ last_turn[i] = last_turn[j] /\ Index(i) < Index(j)

record_attempt(i) ==
    /\ turn' = turn + 1
    /\ attempts' = [attempts EXCEPT ![i] = @ + 1]
    /\ last_turn' = [last_turn EXCEPT ![i] = turn']

-----------------------------------------------------------------------------
(* select_bandwidth_interface. *)

\* The test of a trigger runs on the interface that asked for it, or nowhere.
SelectRequested(i) ==
    \/ /\ i \in Names => ~can_resolve(interfaces[i])
       /\ selected' = None /\ UNCHANGED interfaces
    \/ /\ i \in Names /\ can_resolve(interfaces[i])
       /\ \/ selected' = i /\ interfaces' = [interfaces EXCEPT ![i] = mark_available(@)]
          \/ selected' = None /\ interfaces' = [interfaces EXCEPT ![i] = mark_failed(@)]
    /\ rivals' = {}

Eligible == {i \in Names : /\ interfaces[i].available /\ ~interfaces[i].degraded
                           /\ can_resolve(interfaces[i])}

\* The eligible interfaces are tried in the selector's order; those tried
\* before the one that resolves have failed.
SelectPlanned ==
    \E s \in Eligible \cup {None} :
        LET failed == IF s = None THEN Eligible ELSE {j \in Eligible : Before(j, s)}
        IN  /\ selected' = s
            /\ interfaces' = [i \in Names |->
                    IF i \in failed THEN mark_failed(interfaces[i])
                    ELSE IF i = s THEN mark_available(interfaces[i]) ELSE interfaces[i]]
            /\ rivals' = Eligible \ failed

-----------------------------------------------------------------------------
(* The loop. *)

\* The head of the loop: stop, or poll the scheduler.
LoopHead ==
    /\ pc = "loop" /\ pc' = IF shutdown THEN "stopped" ELSE "poll"
    /\ UNCHANGED <<shutdown, next_interface, active, unfinished, interfaces, fairness,
                   selected, rivals, offers>>

\* poll_interfaces offers nothing, or an opportunity, for which an interface
\* is looked for: without one the attempt is finished at once.
Poll ==
    /\ pc = "poll"
    /\ \/ pc' = "wait" /\ UNCHANGED <<interfaces, selected, rivals, offers>>
       \/ /\ offers < MaxOffers /\ offers' = offers + 1
          /\ SelectPlanned \/ \E i \in Names \cup {Foreign} : SelectRequested(i)
          /\ pc' = IF selected' = None THEN "loop" ELSE "attempt"
    /\ UNCHANGED <<shutdown, next_interface, active, unfinished, fairness>>

\* Shutdown while waiting for a tick.
WaitCancelled ==
    /\ pc = "wait" /\ shutdown /\ pc' = "stopped"
    /\ UNCHANGED <<shutdown, next_interface, active, unfinished, interfaces, fairness,
                   selected, rivals, offers>>

\* Mutant: an interface that is backing off keeps its turn.
TickKeepsTurn ==
    LET i == Order[next_interface]
        r == interfaces[i]
        following == (next_interface % Len(Order)) + 1
    IN  /\ pc = "wait"
        /\ \/ /\ ~can_resolve(r) /\ pc' = "loop"
              /\ UNCHANGED <<interfaces, active, unfinished, next_interface>>
           \/ /\ can_resolve(r) /\ pc' = "round"
              /\ interfaces' = [interfaces EXCEPT ![i] = mark_available(@)]
              /\ active' = i /\ unfinished' = unfinished + 1
              /\ next_interface' = following
           \/ /\ can_resolve(r) /\ pc' = "loop"
              /\ interfaces' = [interfaces EXCEPT ![i] = mark_failed(@)]
              /\ UNCHANGED <<active, unfinished, next_interface>>
        /\ UNCHANGED <<shutdown, fairness, selected, rivals, offers>>
\* A tick: the interface whose turn it is is skipped while it backs off, or
\* resolves and is probed, or fails.
TickRound ==
    LET i == Order[next_interface]
        r == interfaces[i]
    IN  /\ pc = "wait"
        /\ next_interface' = (next_interface % Len(Order)) + 1
        /\ \/ ~can_resolve(r) /\ pc' = "loop" /\ UNCHANGED <<interfaces, active, unfinished>>
           \/ /\ can_resolve(r) /\ pc' = "round"
              /\ interfaces' = [interfaces EXCEPT ![i] = mark_available(@)]
              /\ active' = i /\ unfinished' = unfinished + 1
           \/ /\ can_resolve(r) /\ pc' = "loop"
              /\ interfaces' = [interfaces EXCEPT ![i] = mark_failed(@)]
              /\ UNCHANGED <<active, unfinished>>
        /\ UNCHANGED <<shutdown, fairness, selected, rivals, offers>>

\* complete_interface_round, with whatever the round and the window found.
complete_interface_round ==
    /\ active' = None /\ unfinished' = unfinished - 1
    /\ \E ok, bad \in BOOLEAN :
        interfaces' = [interfaces EXCEPT ![active].latest_success = ok,
                                         ![active].degraded = bad]

RoundCompletes ==
    /\ pc = "round" /\ pc' = "loop"
    /\ complete_interface_round
    /\ UNCHANGED <<shutdown, next_interface, fairness, selected, rivals, offers>>

\* Mutant: shutdown does not wait for the round in flight.
RoundAbandoned ==
    /\ pc = "round" /\ shutdown /\ pc' = "stopped"
    /\ UNCHANGED <<shutdown, next_interface, active, unfinished, interfaces, fairness,
                   selected, rivals, offers>>
\* Shutdown during a round, noticed by the select or, after a skipped tick, at
\* the head of the loop: the round is waited for and completed.
RoundCancelled ==
    /\ pc = "round" /\ shutdown /\ pc' = "stopped"
    /\ complete_interface_round
    /\ UNCHANGED <<shutdown, next_interface, fairness, selected, rivals, offers>>

-----------------------------------------------------------------------------
(* measure_bandwidth_while_monitoring. *)

LoadedTick ==
    /\ pc = "attempt" /\ active = None
    /\ active' = selected /\ unfinished' = unfinished + 1
    /\ UNCHANGED <<pc, shutdown, next_interface, interfaces, fairness, selected, rivals, offers>>

\* complete_loaded_round: the health window does not see it.
LoadedRoundCompletes ==
    /\ pc = "attempt" /\ active # None
    /\ active' = None /\ unfinished' = unfinished - 1
    /\ UNCHANGED <<pc, shutdown, next_interface, interfaces, fairness, selected, rivals, offers>>

\* The test returns; a loaded round in flight is waited for.
AttemptReturns ==
    /\ pc = "attempt" /\ pc' = "loop"
    /\ active' = None /\ unfinished' = IF active = None THEN unfinished ELSE unfinished - 1
    /\ record_attempt(selected)
    /\ selected' = None /\ rivals' = {}
    /\ UNCHANGED <<shutdown, next_interface, interfaces, offers>>

-----------------------------------------------------------------------------
(* The environment. *)

Shutdown ==
    /\ ~shutdown /\ shutdown' = TRUE /\ ~Ended
    /\ UNCHANGED <<pc, next_interface, active, unfinished, interfaces, fairness,
                   selected, rivals, offers>>

\* A second passes for the interfaces that back off.
Elapse ==
    /\ ~Ended /\ \E i \in Names : interfaces[i].wait > 0
    /\ interfaces' = [i \in Names |->
            IF interfaces[i].wait > 0 THEN [interfaces[i] EXCEPT !.wait = @ - 1]
            ELSE interfaces[i]]
    /\ UNCHANGED <<pc, shutdown, next_interface, active, unfinished, fairness,
                   selected, rivals, offers>>

\* The scheduler, the journal or a ping task fails, or the reservation was
\* rejected: the command ends with an error.
Fail ==
    /\ ~Ended /\ pc' = "failed"
    /\ UNCHANGED <<shutdown, next_interface, active, unfinished, interfaces, fairness,
                   selected, rivals, offers>>

Init ==
    /\ pc = "loop" /\ shutdown = FALSE /\ next_interface = 1
    /\ active = None /\ unfinished = 0
    /\ interfaces = [i \in Names |-> NewRuntime]
    /\ attempts = [i \in Names |-> 0] /\ last_turn = [i \in Names |-> 0] /\ turn = 0
    /\ selected = None /\ rivals = {} /\ offers = 0

Next ==
    \/ LoopHead \/ Poll \/ WaitCancelled \/ TickRound
    \/ RoundCompletes \/ RoundCancelled
    \/ LoadedTick \/ LoadedRoundCompletes \/ AttemptReturns
    \/ Shutdown \/ Elapse \/ Fail

Spec == Init /\ [][Next]_vars

(***************************************************************************)
(* Fairness.  The loop is one task of the runtime and is always resumed;   *)
(* the ticker ticks for ever; every probe of a round has a timeout and a   *)
(* test is bounded by whole_test_timeout, so both end; time passes.  The   *)
(* offers are finitely many, as a day's are: poll_interfaces consumes the  *)
(* slot or the trigger it offers.                                          *)
(***************************************************************************)
FairSpec ==
    /\ Spec
    /\ WF_vars(LoopHead) /\ WF_vars(Poll) /\ WF_vars(TickRound)
    /\ WF_vars(RoundCompletes) /\ WF_vars(AttemptReturns) /\ WF_vars(Elapse)

-----------------------------------------------------------------------------
(* Properties. *)

\* Type invariant of the loop, the interfaces and the selector.
TypeOK ==
    /\ pc \in {"loop", "poll", "wait", "round", "attempt", "stopped", "failed"}
    /\ shutdown \in BOOLEAN /\ next_interface \in DOMAIN Order
    /\ active \in Names \cup {None} /\ unfinished \in 0..1
    /\ interfaces \in [Names -> [latest_success : BOOLEAN, degraded : BOOLEAN,
                                 available : BOOLEAN, wait : 0..MaxDelay,
                                 backoff_step : 0..MaxStep]]
    /\ attempts \in [Names -> Nat] /\ last_turn \in [Names -> Nat] /\ turn \in Nat
    /\ selected \in Names \cup {None} /\ rivals \subseteq Names /\ offers \in 0..MaxOffers

\* A planned test never puts its interface more than one test ahead of an
\* interface that could have had it, whatever triggers and outages made the
\* counts unequal before (FairInterfaceSelector; docs/scheduling.md, "healthy
\* interfaces differ by at most one opportunity").
PlannedWithinOne ==
    [][attempts' # attempts =>
        \A j \in rivals : attempts'[selected] <= attempts'[j] + 1]_vars

\* Every interface is tried again and again, whatever happens to the others:
\* probed, or found unresolvable and put off by a fresh back-off delay (the
\* round-robin of the loop; docs/scheduling.md, "An unavailable interface is
\* skipped with bounded recovery backoff and cannot block another interface").
EveryInterfaceTried ==
    \A i \in Names : []<>(active = i \/ interfaces[i].wait > 0 \/ Ended)

\* A requested shutdown ends the loop, during a round or a test too, and
\* unless an error ended it every ping round that was started is completed
\* first: none is dropped (docs/data-format.md, "shutdown requested; active
\* work drained").
ShutdownDrains ==
    shutdown ~> \/ pc = "failed"
                \/ pc = "stopped" /\ unfinished = 0 /\ active = None

=============================================================================
