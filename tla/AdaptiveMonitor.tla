-------------------------- MODULE AdaptiveMonitor --------------------------
(***************************************************************************)
(* The loop of `run' without a configured interface, monitor_adaptive in   *)
(* src/src/monitor.rs, with its ping rounds (src/src/ping.rs), its health  *)
(* window (module Health) and the trigger the scheduler keeps for it,      *)
(* across restarts of the process and days.                                *)
(*                                                                         *)
(* The window dies with the process; the trigger and the deferred          *)
(* discovery are persisted.  When the scheduler offers, blocks, expires or *)
(* defers is module Scheduler's matter and a free choice here, as are the  *)
(* moments of ticks, midnight, shutdown and the end of a process.          *)
(***************************************************************************)
EXTENDS Health

CONSTANTS
    MaxStarts,        \* bound: processes started after the first
    MaxDays           \* bound: day changes the scheduler meets

VARIABLES
    pc,               \* where the loop stands; "down" when no process runs
    shutdown,         \* the watch channel
    loaded,           \* a ping round is in flight during a test
    latched, pending, \* interface_triggers of the default interface
    deferred,         \* a rate-limited discovery waits for its retry
    starts, days,
    requests,         \* history: triggers set since a recovery or a new day
    good,             \* history: recovery rounds in a row, in this process,
                      \* since the trigger was set
    own               \* history: this process set the trigger

trigger == <<latched, pending, deferred>>
bounds == <<starts, days>>
history == <<requests, good, own>>
vars == <<window, pc, shutdown, loaded, trigger, bounds, history>>

ASSUME BoundAssumption == MaxStarts \in Nat /\ MaxDays \in Nat

Up == pc # "down"

-----------------------------------------------------------------------------
(* A ping round: measure_round. *)

Failures == {"timeout", "unreachable", "permission_denied", "cancelled", "io",
             "protocol", "task_failed"}
\* What a reply agrees with the request in; the socket may hide the identifier.
Replies == [target : BOOLEAN, identifier : {"same", "other", "hidden"},
            sequence : BOOLEAN, echo_reply : BOOLEAN, rtt : {"fast", "slow"}]

validate_reply(r) == r.target /\ r.identifier # "other" /\ r.sequence /\ r.echo_reply

\* build_measurement: a failure of any kind and a reply that is not the
\* request's own echo are probes without an answer.
failure_fields == [f \in Failures |-> "lost"]
ProbeSamples == {IF validate_reply(r) THEN r.rtt ELSE "lost" : r \in Replies}
                    \cup Range(failure_fields)

\* The reports a round may give, an event for each target.
Measured == {r \in Rounds : Range(r) \subseteq ProbeSamples}

-----------------------------------------------------------------------------
(* The scheduler, as far as it touches the trigger. *)

\* The state after advance_clock: a new day clears the trigger and the
\* deferred discovery.
Trigger == [latched |-> latched, pending |-> pending, deferred |-> deferred]
NoTrigger == [latched |-> FALSE, pending |-> FALSE, deferred |-> FALSE]

AdvanceClock(t) ==
    \/ t = Trigger /\ UNCHANGED days
    \/ t = NoTrigger /\ days < MaxDays /\ days' = days + 1

Clocked == {Trigger, NoTrigger}

\* Triggers counted so far, in the day the clock now shows.
Counted == IF days' # days THEN 0 ELSE requests

SetTrigger(t) ==
    /\ latched' = t.latched /\ pending' = t.pending /\ deferred' = t.deferred

min(a, b) == IF a <= b THEN a ELSE b
GoodAfter(samples) == IF recovery_round(samples) THEN min(good + 1, recovery_rounds) ELSE 0

\* Mutant: a recovery re-arms only a trigger that still waits.
RearmedIfPending(t) ==
    IF t.pending THEN [t EXCEPT !.latched = FALSE, !.pending = FALSE] ELSE t
Rearmed(t) == [t EXCEPT !.latched = FALSE, !.pending = FALSE]

\* observe_health, after the window took the round.
observe_health(t, samples, d) ==
    \/ /\ d = "degraded" /\ ~t.latched
       /\ SetTrigger([t EXCEPT !.latched = TRUE, !.pending = ~t.deferred])
       /\ requests' = Counted + 1 /\ good' = 0 /\ own' = TRUE
    \/ /\ d = "recovered"
       /\ SetTrigger(Rearmed(t))
       /\ requests' = 0 /\ good' = GoodAfter(samples) /\ UNCHANGED own
    \/ /\ d = "healthy" \/ (d = "degraded" /\ t.latched)
       /\ SetTrigger(t)
       /\ requests' = Counted /\ good' = GoodAfter(samples) /\ UNCHANGED own
-----------------------------------------------------------------------------
(* The loop. *)

LoopHead ==
    /\ pc = "loop" /\ ~shutdown /\ pc' = "poll"
    /\ UNCHANGED <<window, shutdown, loaded, trigger, bounds, history>>

\* The end of a process, of which only the persisted state is left.
Exit ==
    /\ pc' = "down" /\ shutdown' = FALSE /\ loaded' = FALSE /\ NewWindow
    /\ good' = 0 /\ own' = FALSE

\* Shutdown noticed at the head of the loop or while waiting for a tick.
Stopped ==
    /\ pc \in {"loop", "wait"} /\ shutdown /\ Exit
    /\ UNCHANGED <<trigger, bounds, requests>>

latest_round_has_success ==
    rounds # <<>> /\ \E k \in 1..Targets : Last(rounds)[k] # "lost"

\* What poll leaves of the trigger and the deferred discovery: each may have
\* outlived its time, and a trigger blocked for the rest of the day is cleared.
\* Mutant: a trigger that outlived its time loses the latch with the request.
ExpiredUnlatches(t) ==
    {t, [t EXCEPT !.pending = FALSE, !.latched = @ /\ ~t.pending],
     [t EXCEPT !.deferred = FALSE]}
Expired(t) ==
    {t, [t EXCEPT !.pending = FALSE], [t EXCEPT !.deferred = FALSE]}

\* Nothing is offered.
PollWait ==
    /\ pc = "poll" /\ pc' = "wait"
    /\ \E t \in Clocked : /\ AdvanceClock(t) /\ \E e \in Expired(t) : SetTrigger(e)
                          /\ requests' = Counted
    /\ UNCHANGED <<window, shutdown, loaded, starts, good, own>>

\* A deferred discovery, a trigger whose interface answered, or a due slot,
\* which takes a pending trigger along, is offered.
PollOffer ==
    /\ pc = "poll" /\ pc' = "attempt"
    /\ \E t \in Clocked : \E due \in BOOLEAN :
        /\ t.deferred \/ due \/ (t.pending /\ latest_round_has_success)
        /\ AdvanceClock(t) /\ SetTrigger(t) /\ requests' = Counted
    /\ UNCHANGED <<window, shutdown, loaded, starts, good, own>>

Tick ==
    /\ pc = "wait" /\ pc' = "round"
    /\ UNCHANGED <<window, shutdown, loaded, trigger, bounds, history>>

\* complete_round, and the decision goes to the scheduler.
RoundCompletes ==
    /\ pc = "round" /\ pc' = "loop"
    /\ \E samples \in Measured, d \in Decisions :
        /\ observe_round(samples, d)
        /\ \E t \in Clocked : AdvanceClock(t) /\ observe_health(t, samples, d)
    /\ UNCHANGED <<shutdown, loaded, starts>>

\* Shutdown during a round: it is completed, its decision is dropped.
RoundCancelled ==
    /\ pc = "round" /\ shutdown /\ Exit
    /\ UNCHANGED <<trigger, bounds, requests>>

-----------------------------------------------------------------------------
(* measure_bandwidth_while_monitoring and finish_attempt. *)

LoadedTick ==
    /\ pc = "attempt" /\ ~loaded /\ loaded' = TRUE
    /\ UNCHANGED <<window, pc, shutdown, trigger, bounds, history>>

\* complete_loaded_round: published, and not observed.
LoadedRoundCompletes ==
    /\ pc = "attempt" /\ loaded /\ loaded' = FALSE
    /\ UNCHANGED <<window, pc, shutdown, trigger, bounds, history>>

\* The test is over; reserve_run may have met a new day.  finish_attempt
\* clears the request and may keep a rate-limited discovery for a retry.
AttemptReturns ==
    /\ pc = "attempt" /\ pc' = "loop" /\ loaded' = FALSE
    /\ \E t \in Clocked, d \in BOOLEAN :
        /\ AdvanceClock(t) /\ requests' = Counted
        /\ SetTrigger([t EXCEPT !.pending = FALSE, !.deferred = d])
    /\ UNCHANGED <<window, shutdown, starts, good, own>>

-----------------------------------------------------------------------------
(* The environment. *)

Shutdown ==
    /\ Up /\ ~shutdown /\ shutdown' = TRUE
    /\ UNCHANGED <<window, pc, loaded, trigger, bounds, history>>

\* A kill, or an error that ends the command.
Crash == Up /\ Exit /\ UNCHANGED <<trigger, bounds, requests>>

\* A new process opens the persisted state, perhaps on a new day.
Open ==
    /\ pc = "down" /\ pc' = "loop"
    /\ starts < MaxStarts /\ starts' = starts + 1
    /\ \E t \in Clocked : AdvanceClock(t) /\ SetTrigger(t) /\ requests' = Counted
    /\ UNCHANGED <<window, shutdown, loaded, good, own>>

Init ==
    /\ WindowInit /\ pc = "loop" /\ shutdown = FALSE /\ loaded = FALSE
    /\ latched = FALSE /\ pending = FALSE /\ deferred = FALSE
    /\ starts = 0 /\ days = 0 /\ requests = 0 /\ good = 0 /\ own = FALSE

Next ==
    \/ LoopHead \/ Stopped \/ PollWait \/ PollOffer \/ Tick
    \/ RoundCompletes \/ RoundCancelled
    \/ LoadedTick \/ LoadedRoundCompletes \/ AttemptReturns
    \/ Shutdown \/ Crash \/ Open

Spec == Init /\ [][Next]_vars

(***************************************************************************)
(* Fairness.  The loop is one task and is always resumed; the ticker ticks *)
(* for ever; every probe and every test has a time limit.  PollWait is     *)
(* strongly fair because a start makes the next one wait: block_reason     *)
(* keeps the spacing, and a deferred discovery its cooldown.               *)
(***************************************************************************)
FairSpec ==
    /\ Spec
    /\ WF_vars(LoopHead) /\ WF_vars(Stopped) /\ SF_vars(PollWait) /\ WF_vars(PollOffer) /\ WF_vars(Tick)
    /\ WF_vars(RoundCompletes) /\ WF_vars(AttemptReturns)

-----------------------------------------------------------------------------
(* Properties. *)

\* Type invariant of the window (WindowOK), the loop and the trigger.  A
\* request is latched, and it never waits beside a deferred discovery, which
\* would be two tests for one episode.
TypeOK ==
    /\ WindowOK
    /\ pc \in {"down", "loop", "poll", "wait", "round", "attempt"}
    /\ shutdown \in BOOLEAN /\ loaded \in BOOLEAN /\ (loaded => pc = "attempt")
    /\ latched \in BOOLEAN /\ pending \in BOOLEAN /\ deferred \in BOOLEAN
    /\ (pending => latched /\ ~deferred)
    /\ starts \in 0..MaxStarts /\ days \in 0..MaxDays
    /\ requests \in Nat /\ good \in 0..recovery_rounds /\ own \in BOOLEAN

\* Between two triggers lies a recovery or a new day, whatever expired, was
\* deferred, blocked or tested and however often the process was restarted
\* meanwhile (docs/scheduling.md, "One degradation episode can request one
\* early bandwidth opportunity"; poll_interfaces, "so one outage cannot
\* consume the daily allowance").
OneRequestPerEpisode == requests <= 1

\* An episode ends only when each of the last recovery_rounds rounds of the
\* window is a recovery round: one bad round in between starts the count anew
\* (observe_round, docs/scheduling.md, "three consecutive recovery rounds").
RecoveryEarned ==
    [][degraded /\ ~degraded' /\ pc' # "down" =>
        \A k \in 1..Len(rounds') :
            k > Len(rounds') - recovery_rounds => recovery_round(rounds'[k])]_vars

\* Three consecutive recovery rounds clear the trigger
\* (docs/scheduling.md, "The trigger stays latched until three consecutive
\* recovery rounds").
RearmedByRecovery == latched => good < recovery_rounds

\* It is so while the process that set the trigger lives.
RearmedInProcess == own => RearmedByRecovery

Quiet == rounds # <<>> /\ recovery_round(Last(rounds))

\* On a network that stays good, degradation ends for good and with it a
\* trigger this process set: whatever relapse the old rounds of the window
\* cause, they leave it, and tests, which keep rounds out of the window, do
\* not keep it from recovering for ever.
QuietEndsEpisodes == <>[]Quiet => <>[](~degraded /\ ~(own /\ latched))
=============================================================================
