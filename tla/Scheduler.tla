----------------------------- MODULE Scheduler -----------------------------
(***************************************************************************)
(* The adaptive bandwidth scheduler of src/src/scheduler.rs, driven as     *)
(* src/src/monitor.rs (command "run") and src/src/bandwidth.rs (command    *)
(* "once bandwidth") drive it.                                             *)
(*                                                                         *)
(* `store' is the ProviderState of the one provider in use.  Every handler *)
(* ends with persist(), so between handlers the value in memory and the    *)
(* value a restart finds are the same; a handler interrupted inside        *)
(* persist() leaves what the accounting log replays (operator              *)
(* replay_accounting).  Module SchedulerPersistence models persist() step  *)
(* by step.                                                                *)
(*                                                                         *)
(* Time is counted in ticks; a UTC day has DayLen of them.  The generator  *)
(* of slot and back-off jitter is a nondeterministic choice within the     *)
(* window the code samples from.  `runs' keeps, for each UTC day, the      *)
(* number of reserved starts: the code reads the timestamps only through   *)
(* runs_on_day and retains them by date.                                   *)
(***************************************************************************)
EXTENDS Integers, FiniteSets

CONSTANTS
    None,             \* Rust's Option::None
    Interfaces,       \* keys of interface_triggers ({""} without --interface)
    DayLen,           \* ticks of a UTC day
    Horizon,          \* bound: the last tick of the modelled clock
    Mlab,             \* TRUE for ProviderKind::Mlab, FALSE for Direct
    HardCap,          \* M-Lab's fixed daily limit (4 in block_reason)
    MAX_RATE_LIMIT_ATTEMPTS,  \* 5 in the code
    RunPolicies,      \* configurations `run' may be started with
    OncePolicies,     \* configurations `once bandwidth' may be started with
    PendingTtl,       \* pending_ttl
    CooldownInitial, CooldownMax,   \* cooldown_initial, cooldown_max
    RetryAfters,      \* delays a provider may send, in ticks
    MaxCrashes,       \* bound: crashes in a behaviour
    MaxRollbacks      \* bound: backward steps of the wall clock

VARIABLES
    now,         \* the wall clock, Utc::now()
    store,       \* persisted ProviderState, None before the first open
    recovered,   \* TRUE when the next open replays accounting records
    phase,       \* where the process stands
    command,     \* "run" or "once"
    policy,      \* SchedulerPolicy of the running process
    opp,         \* the BandwidthOpportunity in hand
    crashes, rollbacks,
    started,     \* history: starts really admitted, per UTC day
    lastStart,   \* history: time of the last admitted start
    promised,    \* history: latest Retry-After deadline not yet superseded
    discoveries  \* history: discovery attempts of the opportunity in hand

procVars == <<phase, command, policy, opp>>
ghosts == <<started, lastStart, promised, discoveries>>
vars == <<now, store, recovered, procVars, crashes, rollbacks, ghosts>>

Policy == [daily_max : Nat, min_spacing : Nat \ {0}, slot_jitter_pct : 0..100,
           force_limits : BOOLEAN]

ASSUME NoneAssumption == None \notin Int /\ None \notin Interfaces
ASSUME TimeAssumption ==
    /\ DayLen \in Nat \ {0} /\ Horizon \in Nat
    /\ PendingTtl \in Nat /\ CooldownInitial \in Nat /\ CooldownMax \in Nat
    /\ RetryAfters \subseteq Int   \* an HTTP-date may have passed already
ASSUME CapAssumption ==
    HardCap \in Nat /\ Mlab \in BOOLEAN /\ MAX_RATE_LIMIT_ATTEMPTS \in Nat \ {0}
\* --force exists for `once bandwidth' only.
ASSUME PolicyAssumption ==
    /\ RunPolicies \subseteq Policy /\ OncePolicies \subseteq Policy
    /\ \A p \in RunPolicies : ~p.force_limits
ASSUME BoundAssumption == MaxCrashes \in Nat /\ MaxRollbacks \in Nat

-----------------------------------------------------------------------------
(* Calendar. *)

max(a, b) == IF a >= b THEN a ELSE b
min(a, b) == IF a <= b THEN a ELSE b
maxOpt(o, t) == IF o = None THEN t ELSE max(o, t)   \* Option::max(Some(t))

date(t) == t \div DayLen
day_start(d) == d * DayLen
day_end(d) == day_start(d) + DayLen
Days == 0..date(Horizon)

MaxDiscoveries == MAX_RATE_LIMIT_ATTEMPTS + 1  \* bound: the history saturates

NoRuns == [d \in Days |-> 0]
NoTrigger == [latched |-> FALSE, pending |-> None]
NoTriggers == [i \in Interfaces |-> NoTrigger]

-----------------------------------------------------------------------------
(* Planning. *)

\* One stratum's candidate is kept when it is far enough from the last slot
\* kept and before the end.
KeepSlot(plan, candidate, spacing, end) ==
    IF candidate < end /\ \A s \in plan : candidate >= s + spacing
    THEN plan \cup {candidate} ELSE plan

\* Offsets (from the earliest admissible time) the i-th of count strata may
\* be sampled at: the centred slot_jitter_pct part of the stratum.
SlotWindow(p, total, count, i) ==
    LET lo == (total * i) \div count
        width == max((total * (i + 1)) \div count - lo, 1)
        jitter == (width * p.slot_jitter_pct) \div 100
        middle == lo + (width - jitter) \div 2
    IN  IF jitter = 0 THEN {middle} ELSE middle..(middle + jitter - 1)

\* First time at which a start is allowed, not before start.
Earliest(s, p, start) ==
    max(start, max(IF s.last_started_at_utc = None THEN start
                   ELSE s.last_started_at_utc + p.min_spacing,
                   IF s.cooldown_until_utc = None THEN start
                   ELSE s.cooldown_until_utc))

\* What the i-th of count strata makes of the plans so far.
Extended(plans, p, earliest, end, count, i) ==
    {KeepSlot(q, earliest + x, p.min_spacing, end) :
        q \in plans, x \in SlotWindow(p, end - earliest, count, i)}

\* The set of plans plan_interval may return.
plan_interval(s, p, start, end, count) ==
    LET earliest == Earliest(s, p, start)
        plans[n \in 0..count] ==
            IF n = 0 THEN {{}}
            ELSE Extended(plans[n - 1], p, earliest, end, count, n - 1)
    IN  IF count = 0 \/ start >= end \/ earliest >= end THEN {{}}
        ELSE plans[count] \cap SUBSET Int   \* Vec<DateTime<Utc>>

plan_full_day(s, p, t) ==
    {{x \in q : x > t} :
        q \in plan_interval(s, p, day_start(date(t)), day_end(date(t)), p.daily_max)}

\* replan_remaining: the states it may leave.
replan_remaining(s, p, t) ==
    {[s EXCEPT !.slots = q] :
        q \in plan_interval(s, p, t, day_end(date(t)),
                            max(p.daily_max - s.runs[date(t)], 0))}

-----------------------------------------------------------------------------
(* Day change and admission. *)

\* Mutant: the day change forgets a cooldown that is still running.
ReconcileDayNoCooldown(s, p, t) ==
    IF date(t) <= s.day_utc THEN {s}
    ELSE LET r == [s EXCEPT !.day_utc = date(t), !.runs = NoRuns,
                            !.deferred = None, !.interface_triggers = NoTriggers,
                            !.cooldown_until_utc = None]
         IN  {[r EXCEPT !.slots = q] : q \in plan_full_day(r, p, t)}
\* reconcile_day: the states it may leave.
reconcile_day(s, p, t) ==
    IF date(t) <= s.day_utc THEN {s}
    ELSE LET r == [s EXCEPT
                    !.day_utc = date(t),
                    !.runs = [d \in Days |-> IF d >= date(t) THEN s.runs[d] ELSE 0],
                    !.deferred = None,
                    !.interface_triggers = NoTriggers,
                    !.cooldown_until_utc =
                        IF @ # None /\ @ <= t THEN None ELSE @]
         IN  {[r EXCEPT !.slots = q] : q \in plan_full_day(r, p, t)}

\* Mutant: --force bypasses M-Lab's limit too.
CapReachedUnlessForced(s, p, t) ==
    ~p.force_limits /\ s.runs[date(t)] >= p.daily_max
\* Mutant: one start more than the configured maximum.
CapReachedOffByOne(s, p, t) ==
    \/ Mlab /\ s.runs[date(t)] >= HardCap
    \/ ~p.force_limits /\ s.runs[date(t)] > p.daily_max
CapReached(s, p, t) ==
    \/ Mlab /\ s.runs[date(t)] >= HardCap
    \/ ~p.force_limits /\ s.runs[date(t)] >= p.daily_max

InCooldown(s, t) == s.cooldown_until_utc # None /\ t < s.cooldown_until_utc

\* Mutant: spacing is forgotten at midnight.
TooSoonSameDay(s, p, t) ==
    /\ s.last_started_at_utc # None /\ date(t) = date(s.last_started_at_utc)
    /\ t < s.last_started_at_utc + p.min_spacing
TooSoon(s, p, t) ==
    s.last_started_at_utc # None /\ t < s.last_started_at_utc + p.min_spacing

\* block_reason(t).is_some()
Blocked(s, p, t) ==
    \/ CapReached(s, p, t)
    \/ ~p.force_limits /\ (InCooldown(s, t) \/ TooSoon(s, p, t))

\* The wall clock is behind the last time the scheduler observed.
BehindClock(s, t) == t < s.last_observed_utc

\* advance_clock: the states it may leave.  A clock that stepped back is only
\* reported.
advance_clock(s, p, t) ==
    IF BehindClock(s, t) THEN {s}
    ELSE {[r EXCEPT !.last_observed_utc = t] : r \in reconcile_day(s, p, t)}

-----------------------------------------------------------------------------
(* Opening the state file. *)

PolicyPart(p) == [daily_max |-> p.daily_max, min_spacing |-> p.min_spacing,
                  slot_jitter_pct |-> p.slot_jitter_pct]

NewProvider(p, t) ==
    LET s == [day_utc |-> date(t), slots |-> {}, runs |-> NoRuns,
              last_started_at_utc |-> None, cooldown_until_utc |-> None,
              backoff_step |-> 0, deferred |-> None,
              interface_triggers |-> NoTriggers, policy |-> PolicyPart(p),
              last_observed_utc |-> t]
    IN  {[s EXCEPT !.slots = q] : q \in plan_full_day(s, p, t)}

\* Mutant: the new policy is recorded and the old slots are kept.
AdoptPolicyNoReplan(s, p, t) == {[s EXCEPT !.policy = PolicyPart(p)]}
\* The part of reconcile that follows a change of the configured policy.
AdoptPolicy(s, p, t) ==
    LET r == [s EXCEPT !.policy = PolicyPart(p)]
    IN  IF s.policy = PolicyPart(p) THEN {s}
        ELSE IF p.daily_max = 0
        THEN {[r EXCEPT !.slots = {}, !.interface_triggers = NoTriggers,
                        !.deferred = None]}
        ELSE replan_remaining(r, p, t)

reconcile(s, p, t) ==
    {[r EXCEPT !.slots = {x \in @ : x > t}, !.last_observed_utc = max(@, t)] :
        r \in UNION {AdoptPolicy(d, p, t) : d \in reconcile_day(s, p, t)}}

\* Scheduler::open: the states it may leave.  A first open plans the day; a
\* recovered store is replanned.
open(s, p, t, replayed) ==
    IF s = None THEN NewProvider(p, t)
    ELSE IF replayed
    THEN UNION {replan_remaining(r, p, t) : r \in reconcile(s, p, t)}
    ELSE reconcile(s, p, t)

-----------------------------------------------------------------------------
(* Committing. *)

\* The fields whose change appends a record to the accounting log.
Accounting(s) ==
    <<s.day_utc, s.runs, s.last_started_at_utc, s.cooldown_until_utc,
      s.backoff_step, s.deferred>>

\* What a reopened store holds when the log has record m and the snapshot is
\* still s: only the slots and the policy they were planned for are the old.
replay_accounting(s, m) ==
    IF s = None THEN m
    ELSE [s EXCEPT !.day_utc = m.day_utc, !.runs = m.runs,
                   !.last_started_at_utc = m.last_started_at_utc,
                   !.cooldown_until_utc = m.cooldown_until_utc,
                   !.backoff_step = m.backoff_step,
                   !.last_observed_utc = max(@, m.last_observed_utc),
                   !.deferred = m.deferred,
                   !.interface_triggers = m.interface_triggers]

Down == phase' = "down" /\ opp' = None /\ command' = None /\ policy' = None

\* The handler persists m and goes on in phase ph with opportunity o...
Committed(m, ph, o) ==
    /\ store' = m /\ recovered' = FALSE
    /\ IF ph = "down" THEN Down
       ELSE phase' = ph /\ opp' = o /\ UNCHANGED <<command, policy>>
    /\ UNCHANGED crashes

\* ...or the process dies after the accounting record of m reached the log
\* and before the snapshot did.
TornCommit(m) ==
    /\ crashes < MaxCrashes /\ crashes' = crashes + 1
    /\ store # None => Accounting(m) # Accounting(store)
    /\ store' = replay_accounting(store, m) /\ recovered' = TRUE
    /\ Down

\* ...or right after the commit of m, where a handler that persists more than
\* once still had work to do.
Interrupted(m) ==
    /\ crashes < MaxCrashes /\ crashes' = crashes + 1
    /\ store' = m /\ recovered' = FALSE
    /\ Down

Persist(m, ph, o) == Committed(m, ph, o) \/ TornCommit(m) \/ Interrupted(m)

-----------------------------------------------------------------------------
(* The environment: the wall clock. *)

Tick ==
    /\ now < Horizon /\ now' = now + 1
    /\ UNCHANGED <<store, recovered, procVars, crashes, rollbacks, ghosts>>

StepBack ==
    /\ rollbacks < MaxRollbacks /\ rollbacks' = rollbacks + 1
    /\ now' \in 0..(now - 1)
    /\ UNCHANGED <<store, recovered, procVars, crashes, ghosts>>

-----------------------------------------------------------------------------
(* Process start and end. *)

\* `run': Scheduler::open.
OpenRun ==
    /\ phase = "down"
    /\ \E p \in RunPolicies : \E m \in open(store, p, now, recovered) :
        \/ /\ store' = m /\ recovered' = FALSE
           /\ phase' = "idle" /\ opp' = None /\ command' = "run" /\ policy' = p
           /\ UNCHANGED crashes
        \/ TornCommit(m)
    /\ UNCHANGED <<now, rollbacks, ghosts>>

Manual(i) == [reason |-> "manual", interface |-> i]

\* `once bandwidth': open, preflight_manual with the same timestamp, and,
\* when it is blocked, flush and exit.
OpenOnce ==
    /\ phase = "down"
    /\ \E p \in OncePolicies : \E m \in open(store, p, now, recovered) :
        \/ LET refused == BehindClock(m, now) \/ Blocked(m, p, now)
           IN  /\ store' = m /\ recovered' = FALSE /\ UNCHANGED crashes
               /\ \/ refused /\ Down /\ UNCHANGED discoveries
                  \/ /\ ~refused
                     /\ phase' = "offered" /\ command' = "once" /\ policy' = p
                     /\ \E i \in Interfaces : opp' = Manual(i)
                     /\ discoveries' = 1
        \/ TornCommit(m) /\ UNCHANGED discoveries
    /\ UNCHANGED <<now, rollbacks, started, lastStart, promised>>

\* Graceful end of `run' between two attempts: flush changes nothing.
Stop ==
    /\ phase = "idle" /\ Down
    /\ UNCHANGED <<now, store, recovered, crashes, rollbacks, ghosts>>

\* The process dies during an attempt.
Crash ==
    /\ phase \in {"offered", "running"}
    /\ crashes < MaxCrashes /\ crashes' = crashes + 1
    /\ Down
    /\ UNCHANGED <<now, store, recovered, rollbacks, ghosts>>

-----------------------------------------------------------------------------
(* observe_interface_health. *)

\* A new degradation: merged with a deferred discovery or made pending.
Latch(s, i, t) ==
    IF s.deferred # None
    THEN [s EXCEPT !.deferred.reason = "ping", !.deferred.interface = i,
                   !.interface_triggers[i] = [latched |-> TRUE, pending |-> None]]
    ELSE [s EXCEPT !.interface_triggers[i] =
            [latched |-> TRUE,
             pending |-> [created_at_utc |-> t, expires_at_utc |-> t + PendingTtl]]]

HealthState(s, i, decision, t) ==
    CASE decision = "degraded" /\ ~s.interface_triggers[i].latched -> Latch(s, i, t)
      [] decision = "recovered" -> [s EXCEPT !.interface_triggers[i] = NoTrigger]
      [] OTHER -> s

Decisions == {"healthy", "degraded", "recovered"}

observe_interface_health(i, decision) ==
    /\ phase = "idle"
    /\ \E s \in advance_clock(store, policy, now) :
        Persist(HealthState(s, i, decision, now), "idle", None) \/ Interrupted(s)
    /\ UNCHANGED <<now, rollbacks, ghosts>>

-----------------------------------------------------------------------------
(* poll_interfaces. *)

Pending(s, i) == s.interface_triggers[i].pending

\* Mutant: a latched trigger never expires.
ExpireTriggersUnlatched(s, t) ==
    [s EXCEPT !.interface_triggers =
        [i \in Interfaces |->
            IF ~@[i].latched THEN [@[i] EXCEPT !.pending = None] ELSE @[i]]]
\* Triggers past their time to live lose the request and keep the latch.
ExpireTriggers(s, t) ==
    [s EXCEPT !.interface_triggers =
        [i \in Interfaces |->
            IF Pending(s, i) # None /\ t >= Pending(s, i).expires_at_utc
            THEN [@[i] EXCEPT !.pending = None] ELSE @[i]]]

DeferredDead(s, t) ==
    /\ s.deferred # None
    /\ \/ t >= s.deferred.expires_at_utc
       \/ s.deferred.rate_limit_attempts >= MAX_RATE_LIMIT_ATTEMPTS

ExpireDeferred(s, t) ==
    IF DeferredDead(s, t) THEN [s EXCEPT !.deferred = None] ELSE s

due_slots(s, t) == {x \in s.slots : x <= t}
\* Mutant: the slot due right now is kept.
RemovePastSlots(s, t) == [s EXCEPT !.slots = {x \in @ : x >= t}]
remove_due_slots(s, t) == [s EXCEPT !.slots = {x \in @ : x > t}]

\* The interfaces oldest_eligible_pending_trigger may return.
oldest_eligible_pending_trigger(s, success, allow_without_success) ==
    LET eligible == {i \in Interfaces :
                        /\ Pending(s, i) # None
                        /\ allow_without_success \/ i \in success}
    IN  {i \in eligible : \A j \in eligible :
            Pending(s, i).created_at_utc <= Pending(s, j).created_at_utc}

\* A request without an interface is offered only when no trigger is pending
\* that it could clear.
ClearPending(s, i) ==
    IF i = None THEN s
    ELSE [s EXCEPT !.interface_triggers[i].pending = None]

\* A blocked request loses its due slots, and its trigger too when the block
\* lasts for the rest of the day.
BlockedState(s, p, t, i) ==
    LET r == remove_due_slots(s, t)
        terminal == CapReached(s, p, t) \/ t + p.min_spacing >= day_end(date(t))
    IN  IF terminal THEN ClearPending(r, i) ELSE r

\* An offer takes the due slots and, for a trigger, one planned slot more.
OfferedState(s, t, i) ==
    LET r == remove_due_slots(s, t)
    IN  IF i = None THEN r
        ELSE [r EXCEPT !.slots = {x \in @ : \E y \in @ : y < x}]

\* interface of the request poll_interfaces looks at: a trigger's, or None
\* for a due slot, or nothing at all.
Requests(s, t, success) ==
    LET due == due_slots(s, t) # {}
        triggers == oldest_eligible_pending_trigger(s, success, due)
    IN  IF triggers = {} /\ due THEN {None} ELSE triggers

PollDeferred(s) ==
    /\ s.deferred # None /\ ~InCooldown(s, now)
    /\ Persist(s, "offered", [reason |-> s.deferred.reason,
                              interface |-> s.deferred.interface])
    /\ discoveries' = IF phase' = "offered"
                      THEN min(discoveries + 1, MaxDiscoveries) ELSE discoveries

PollRequest(s, success) ==
    /\ s.deferred = None \/ InCooldown(s, now)
    /\ \/ /\ Requests(s, now, success) = {}
          /\ Persist(s, "idle", None) /\ UNCHANGED discoveries
       \/ \E i \in Requests(s, now, success) :
          \/ /\ Blocked(s, policy, now)
             /\ Persist(BlockedState(s, policy, now, i), "idle", None)
             /\ UNCHANGED discoveries
          \/ /\ ~Blocked(s, policy, now)
             /\ Persist(OfferedState(s, now, i), "offered",
                   [reason |-> IF i = None THEN "scheduled" ELSE "ping",
                    interface |-> i])
             /\ discoveries' = IF phase' = "offered" THEN 1 ELSE discoveries

poll_interfaces(success) ==
    /\ phase = "idle"
    /\ \/ /\ BehindClock(store, now)
          /\ UNCHANGED <<store, recovered, procVars, crashes, discoveries>>
       \/ /\ ~BehindClock(store, now)
          /\ \E a \in advance_clock(store, policy, now) :
              LET e == ExpireTriggers(a, now)
                  s == ExpireDeferred(e, now)
              IN  \/ PollDeferred(s) \/ PollRequest(s, success)
                  \/ \E m \in {a, e, s} : Interrupted(m) /\ UNCHANGED discoveries
    /\ UNCHANGED <<now, rollbacks, started, lastStart, promised>>

-----------------------------------------------------------------------------
(* reserve_run, called once the provider has named a server. *)

\* Mutant: the observed clock follows the wall clock backwards.
ReservedClock(s, t) ==
    [s EXCEPT !.runs[date(t)] = @ + 1,
              !.last_started_at_utc = maxOpt(@, t),
              !.last_observed_utc = t]
Reserved(s, t) ==
    [s EXCEPT !.runs[date(t)] = @ + 1,
              !.last_started_at_utc = maxOpt(@, t),
              !.last_observed_utc = max(@, t)]

reserve_run ==
    /\ phase = "offered"
    /\ \E s \in reconcile_day(store, policy, now) :
        /\ ~Blocked(s, policy, now)
        /\ Persist(Reserved(s, now), "running", opp)
    /\ IF phase' = "running"
       THEN /\ started' = [started EXCEPT ![date(now)] = @ + 1]
            /\ lastStart' = now
       ELSE UNCHANGED <<started, lastStart>>
    /\ UNCHANGED <<now, rollbacks, promised, discoveries>>

\* A rejected reservation ends the process with an error: `run' at once,
\* `once bandwidth' after a flush.
reserve_rejected ==
    /\ phase = "offered"
    /\ \E s \in reconcile_day(store, policy, now) :
        /\ Blocked(s, policy, now)
        /\ IF command = "once" THEN Persist(s, "down", None)
           ELSE Down /\ UNCHANGED <<store, recovered, crashes>>
    /\ UNCHANGED <<now, rollbacks, ghosts>>

-----------------------------------------------------------------------------
(* finish_attempt. *)

\* jitter_duration: the base moved by at most a fifth of it.
jitter_duration(base) == (base - base \div 5)..(base + base \div 5)

MaxBackoffStep == 4
next_backoff(s) == min(CooldownInitial * 2 ^ min(s.backoff_step, MaxBackoffStep),
                       CooldownMax)

\* Deadlines of a rate limit: the provider's, or a back-off from now.
Deadlines(s, t, retry_at) ==
    IF retry_at # None THEN {retry_at}
    ELSE {t + d : d \in jitter_duration(next_backoff(s))}

\* Mutant: every rate limit counts as the first.
NextDeferredUncounted(s, o, t, deadline) ==
    IF deadline < day_end(date(t))
    THEN [reason |-> o.reason, interface |-> o.interface,
          expires_at_utc |-> day_end(date(t)), rate_limit_attempts |-> 1]
    ELSE None
\* The discovery kept for a retry after a rate limit at time t.
NextDeferred(s, o, t, deadline) ==
    LET attempts == IF s.deferred = None THEN 1
                    ELSE s.deferred.rate_limit_attempts + 1
    IN  IF attempts < MAX_RATE_LIMIT_ATTEMPTS /\ deadline < day_end(date(t))
        THEN [reason |-> o.reason, interface |-> o.interface,
              expires_at_utc |-> day_end(date(t)),
              rate_limit_attempts |-> attempts]
        ELSE None

\* Mutant: a reserved run that the provider then refused is refunded.
RateLimitedRefund(s, o, t, reserved, deadline) ==
    [s EXCEPT !.cooldown_until_utc = deadline,
              !.deferred = IF reserved THEN None ELSE NextDeferred(s, o, t, deadline),
              !.runs[date(t)] = IF reserved THEN max(@ - 1, 0) ELSE @]
\* Mutant: the back-off step is not capped.
RateLimitedUncapped(s, o, t, reserved, deadline) ==
    ClearPending(
        [s EXCEPT !.cooldown_until_utc = deadline,
                  !.backoff_step = @ + 1,
                  !.deferred = IF reserved THEN None
                               ELSE NextDeferred(s, o, t, deadline)],
        o.interface)
RateLimited(s, o, t, reserved, deadline) ==
    ClearPending(
        [s EXCEPT !.cooldown_until_utc = deadline,
                  !.backoff_step = min(@ + 1, MaxBackoffStep),
                  !.deferred = IF reserved THEN None
                               ELSE NextDeferred(s, o, t, deadline)],
        o.interface)

Completed(s, o, successful_request) ==
    ClearPending(
        [s EXCEPT !.deferred = None,
                  !.cooldown_until_utc = IF successful_request THEN None ELSE @,
                  !.backoff_step = IF successful_request THEN 0 ELSE @],
        o.interface)

\* Slots after an attempt that was not rate-limited.
Resettled(s, p, o, t, reserved) ==
    IF o.reason # "scheduled" THEN replan_remaining(s, p, t)
    ELSE IF reserved
    THEN {[s EXCEPT !.slots = {x \in @ : x >= t + p.min_spacing}]}
    ELSE {s}

AfterAttempt == IF command = "once" THEN "down" ELSE "idle"

FinishRateLimited(reserved, retry_at) ==
    \E d \in Deadlines(store, now, retry_at) :
        LET deadline == maxOpt(store.cooldown_until_utc, d)
        IN  /\ \E m \in replan_remaining(
                        RateLimited(store, opp, now, reserved, deadline), policy, now) :
                   Persist(m, AfterAttempt, None)
            /\ promised' = maxOpt(promised, d)

FinishOther(reserved, successful_request) ==
    /\ \E m \in Resettled(Completed(store, opp, successful_request),
                           policy, opp, now, reserved) :
           Persist(m, AfterAttempt, None)
    /\ promised' = IF successful_request THEN None ELSE promised

\* Before the reservation: Locate failed, the attempt was cancelled or timed
\* out, or no interface could be selected.
finish_unreserved ==
    /\ phase = "offered"
    /\ \/ FinishRateLimited(FALSE, None)
       \/ \E r \in RetryAfters : FinishRateLimited(FALSE, now + r)
       \/ FinishOther(FALSE, FALSE)
    /\ discoveries' = IF store'.deferred = None THEN 0 ELSE discoveries
    /\ UNCHANGED <<now, rollbacks, started, lastStart>>

finish_reserved ==
    /\ phase = "running"
    /\ \/ FinishRateLimited(TRUE, None)
       \/ \E r \in RetryAfters : FinishRateLimited(TRUE, now + r)
       \/ \E ok \in BOOLEAN : FinishOther(TRUE, ok)
    /\ discoveries' = IF store'.deferred = None THEN 0 ELSE discoveries
    /\ UNCHANGED <<now, rollbacks, started, lastStart>>

-----------------------------------------------------------------------------
Init ==
    /\ now = 0 /\ store = None /\ recovered = FALSE
    /\ phase = "down" /\ command = None /\ policy = None /\ opp = None
    /\ crashes = 0 /\ rollbacks = 0
    /\ started = NoRuns /\ lastStart = None /\ promised = None
    /\ discoveries = 0

Attempt == reserve_run \/ reserve_rejected \/ finish_unreserved \/ finish_reserved
Poll == \E success \in SUBSET Interfaces : poll_interfaces(success)
Observe == \E i \in Interfaces, d \in Decisions : observe_interface_health(i, d)

Next ==
    \/ Tick \/ StepBack \/ OpenRun \/ OpenOnce \/ Stop \/ Crash
    \/ Observe \/ Poll
    \/ reserve_run \/ reserve_rejected \/ finish_unreserved \/ finish_reserved

Spec == Init /\ [][Next]_vars

(***************************************************************************)
(* Fairness.  The monitor's loop polls whenever no ping round is active,   *)
(* and every round ends; an attempt ends because measure_bandwidth is      *)
(* bounded by whole_test_timeout; a service manager restarts `run'.  Poll  *)
(* is strongly fair because a process may be stopped between two polls but *)
(* is not stopped before its first poll for ever.                          *)
(***************************************************************************)
Fairness ==
    /\ WF_vars(OpenRun) /\ SF_vars(Poll) /\ WF_vars(Attempt)

FairSpec == Spec /\ Fairness

-----------------------------------------------------------------------------
(* Properties. *)

Time == Int \cup {None}
TriggerState == [latched : BOOLEAN,
                 pending : [created_at_utc : Int, expires_at_utc : Int] \cup {None}]
Opportunity == [reason : {"scheduled", "ping", "manual"},
                interface : Interfaces \cup {None}]
Deferred == [reason : {"scheduled", "ping", "manual"},
             interface : Interfaces \cup {None},
             expires_at_utc : Int, rate_limit_attempts : Nat]
ProviderState ==
    [day_utc : Int, slots : SUBSET Int, runs : [Days -> Nat],
     last_started_at_utc : Time, cooldown_until_utc : Time,
     backoff_step : 0..MaxBackoffStep, deferred : Deferred \cup {None},
     interface_triggers : [Interfaces -> TriggerState],
     policy : [daily_max : Nat, min_spacing : Nat \ {0}, slot_jitter_pct : 0..100],
     last_observed_utc : Int]

ASSUME NoneStateAssumption == None \notin ProviderState

\* Type invariant of the persisted provider state, the process and the
\* history variables.
TypeOK ==
    /\ now \in 0..Horizon
    /\ store \in ProviderState \cup {None}
    /\ recovered \in BOOLEAN
    /\ phase \in {"down", "idle", "offered", "running"}
    /\ phase # "down" => /\ store # None /\ policy \in Policy
                         /\ command \in {"run", "once"}
    /\ phase \in {"offered", "running"} => opp \in Opportunity
    /\ crashes \in 0..MaxCrashes /\ rollbacks \in 0..MaxRollbacks
    /\ started \in [Days -> Nat] /\ lastStart \in Time /\ promised \in Time
    /\ discoveries \in Nat

\* A start once admitted is never refunded: for the day in use and any later
\* one, the persisted state accounts for at least the starts that were really
\* made, through crashes, interrupted commits, restarts, changes of policy
\* and backward steps of the clock (reserve_run persists before the first
\* connection; docs/scheduling.md, "crashes and restarts cannot restore it").
NoRefund ==
    store # None => \A d \in Days : d >= store.day_utc => started[d] <= store.runs[d]

\* With a clock that never steps back, M-Lab's fixed limit holds for every
\* UTC day whatever mix of scheduled, triggered, deferred, manual and forced
\* starts, crashes and restarts led there (block_reason, reserve_run).
HardCapRespected ==
    Mlab /\ rollbacks = 0 => \A d \in Days : started[d] <= HardCap

CapStep ==
    rollbacks = 0 /\ started' # started /\ ~policy.force_limits
       => started[date(now)] < policy.daily_max
\* A start not forced by the user respects the configured daily maximum,
\* counted over what was really started that day by any process, as long as
\* the clock has not stepped back: a clock that comes back to an earlier day
\* finds the starts of that day dropped (reconcile_day).
CapHonoured == [][CapStep]_vars

SpacingStep ==
    started' # started /\ ~policy.force_limits /\ lastStart # None
       => now >= lastStart + policy.min_spacing
\* A start not forced by the user keeps the minimum spacing from the last
\* real start, across midnight, restarts and backward clock steps.
SpacingHonoured == [][SpacingStep]_vars

CooldownStep ==
    rollbacks = 0 /\ started' # started /\ ~policy.force_limits /\ promised # None
       => now >= promised
\* A start not forced by the user never comes before a deadline a provider
\* set and no later success lifted, across midnight and restarts, as long as
\* the clock has not stepped back (finish_attempt, reconcile_day,
\* replay_accounting).
CooldownHonoured == [][CooldownStep]_vars

\* An opportunity makes at most MAX_RATE_LIMIT_ATTEMPTS discovery attempts
\* (docs/scheduling.md, "attempted at most five times").
DiscoveriesBounded == discoveries <= MAX_RATE_LIMIT_ATTEMPTS

\* The same bound where it does hold: one configuration is in use, nothing is
\* forced, no process died during an attempt and no clock step interfered.
DiscoveriesBoundedUndisturbed ==
    (\A p, q \in RunPolicies \cup OncePolicies : p = q) /\ crashes = 0 /\ rollbacks = 0
        => DiscoveriesBounded

\* While no crash and no clock step interfered, a monitor waiting for its
\* next opportunity holds a plan that block_reason cannot refuse for spacing
\* or cooldown: slots lie after the last start's spacing and the cooldown,
\* and are min_spacing apart from each other.
PlanSound ==
    phase = "idle" /\ crashes = 0 /\ rollbacks = 0 =>
        \A x \in store.slots :
            /\ ~InCooldown(store, x) /\ ~TooSoon(store, policy, x)
            /\ \A y \in store.slots : x < y => y >= x + policy.min_spacing

ClockKept ==
    store # None => store'.last_observed_utc >= store.last_observed_utc
\* The scheduler never forgets how far the clock had come, so a clock that
\* stepped back is noticed by every later process (advance_clock, reconcile,
\* replay_accounting).
ObservedClockMonotone == [][ClockKept]_vars

SlotDue == store # None /\ due_slots(store, now) # {}
Overdue(i) ==
    store # None /\ Pending(store, i) # None /\ now >= Pending(store, i).expires_at_utc

\* Due slots do not stay: they are offered, suppressed, replanned or dropped
\* by a restart, all together, so missed slots never pile up into a burst.
DueSlotsConsumed == SlotDue ~> ~SlotDue

\* A trigger past its time to live does not stay pending, even if the process
\* that made it pending is gone or a rate-limited discovery goes first.
OverdueTriggerDropped == \A i \in Interfaces : Overdue(i) ~> ~Overdue(i)
=============================================================================
