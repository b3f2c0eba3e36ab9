-------------------------- MODULE Scheduler_proofs --------------------------
EXTENDS Scheduler, FiniteSetTheorems, WellFoundedInduction, TLAPS

\* The day of a time is an integer.
LEMMA DateType == ASSUME NEW t \in Int PROVE date(t) \in Int
BY TimeAssumption DEF date

\* A later time is on the same day or a later one.
LEMMA DateMonotone ==
    ASSUME NEW a \in Int, NEW b \in Int, a <= b PROVE date(a) <= date(b)
BY TimeAssumption DEF date

\* Every time of the modelled clock is on a modelled day.
LEMMA DateInDays == ASSUME NEW t \in 0..Horizon PROVE date(t) \in Days
<1>1. 0 <= date(t) /\ date(0) = 0
  BY DateMonotone, TimeAssumption DEF date
<1> QED BY <1>1, DateMonotone, DateType, TimeAssumption DEF Days

\* A plan for the remaining day is a set of times.
LEMMA PlanType ==
    ASSUME NEW s, NEW p, NEW start, NEW end, NEW count,
           NEW q \in plan_interval(s, p, start, end, count)
    PROVE  q \in SUBSET Int
BY DEF plan_interval

\* A plan for a full day is a set of times.
LEMMA PlanFullDayType ==
    ASSUME NEW s, NEW p, NEW t, NEW q \in plan_full_day(s, p, t)
    PROVE  q \in SUBSET Int
<1> DEFINE plans == plan_interval(s, p, day_start(date(t)), day_end(date(t)), p.daily_max)
<1>1. PICK a \in plans : q = {x \in a : x > t}
  BY DEF plan_full_day
<1>2. a \in SUBSET Int
  BY PlanType
<1> QED BY <1>1, <1>2

-----------------------------------------------------------------------------
(* How a handler may change the accounting of a store.                     *)

\* The day only moves forward, to the day of t; the starts of the days still
\* accounted for and the time of the last start are kept.
Advances(s, m, t) ==
    /\ m.day_utc = s.day_utc \/ (m.day_utc = date(t) /\ s.day_utc <= date(t))
    /\ \A d \in Days : d >= m.day_utc => m.runs[d] >= s.runs[d]
    /\ s.last_started_at_utc # None =>
           /\ m.last_started_at_utc # None
           /\ m.last_started_at_utc >= s.last_started_at_utc

\* A cooldown still running at t is kept or prolonged.
KeepsCooldown(s, m, t) ==
    s.cooldown_until_utc # None /\ s.cooldown_until_utc > t =>
        /\ m.cooldown_until_utc # None
        /\ m.cooldown_until_utc >= s.cooldown_until_utc

Follows(s, m, t) ==
    m \in ProviderState /\ Advances(s, m, t) /\ KeepsCooldown(s, m, t)

\* Nothing the accounting promises is touched.
SameAccounts(s, m) ==
    /\ m.day_utc = s.day_utc /\ m.runs = s.runs
    /\ m.last_started_at_utc = s.last_started_at_utc
    /\ m.cooldown_until_utc = s.cooldown_until_utc

\* A state with the accounting of s is one that accounting may move to.
LEMMA SameFollows ==
    ASSUME NEW s \in ProviderState, NEW m \in ProviderState, NEW t,
           SameAccounts(s, m)
    PROVE  Follows(s, m, t)
<1>1. /\ \A d \in Days : s.runs[d] \in Nat
      /\ s.last_started_at_utc \in Time /\ s.cooldown_until_utc \in Time
  BY DEF ProviderState
<1>2. Advances(s, m, t)
  BY <1>1 DEF SameAccounts, Advances, Time
<1>3. KeepsCooldown(s, m, t)
  BY <1>1 DEF SameAccounts, KeepsCooldown, Time
<1> QED BY <1>2, <1>3 DEF Follows

\* Moving the accounting forward twice moves it forward.
LEMMA FollowsTransitive ==
    ASSUME NEW s \in ProviderState, NEW m \in ProviderState, NEW n \in ProviderState,
           NEW t \in Int, Follows(s, m, t), Follows(m, n, t)
    PROVE  Follows(s, n, t)
<1>1. date(t) \in Int
  BY DateType
<1>2. \A d \in Days : d >= n.day_utc => n.runs[d] >= s.runs[d]
  <2> SUFFICES ASSUME NEW d \in Days, d >= n.day_utc PROVE n.runs[d] >= s.runs[d]
    OBVIOUS
  <2>0. d \in Int
    BY DEF Days
  <2>1. s.runs[d] \in Nat /\ m.runs[d] \in Nat /\ n.runs[d] \in Nat
    BY DEF ProviderState
  <2>2. s.day_utc \in Int /\ m.day_utc \in Int /\ n.day_utc \in Int
    BY DEF ProviderState
  <2>3. n.day_utc >= m.day_utc
    BY <1>1, <2>2 DEF Follows, Advances
  <2> QED BY <2>0, <2>1, <2>2, <2>3 DEF Follows, Advances
<1>3. Advances(s, n, t)
  BY <1>1, <1>2, NoneAssumption DEF Follows, Advances, ProviderState, Time
<1>4. KeepsCooldown(s, n, t)
  BY NoneAssumption DEF Follows, KeepsCooldown, ProviderState, Time
<1> QED BY <1>3, <1>4 DEF Follows

\* replan_remaining changes the slots and no accounting.
LEMMA ReplanFollows ==
    ASSUME NEW s \in ProviderState, NEW p, NEW t, NEW r \in replan_remaining(s, p, t)
    PROVE  r \in ProviderState /\ SameAccounts(s, r) /\ r.deferred = s.deferred
           /\ r.last_observed_utc = s.last_observed_utc
<1>1. PICK q \in SUBSET Int : r = [s EXCEPT !.slots = q]
  BY PlanType DEF replan_remaining
<1> QED BY <1>1 DEF ProviderState, SameAccounts

\* reconcile_day drops only the starts of days that are over and only a
\* cooldown that has ended.
LEMMA ReconcileDayFollows ==
    ASSUME NEW s \in ProviderState, NEW p, NEW t \in 0..Horizon,
           NEW r \in reconcile_day(s, p, t)
    PROVE  /\ Follows(s, r, t)
           /\ r.day_utc >= date(t)
           /\ r.runs[date(t)] = s.runs[date(t)]
           /\ r.last_started_at_utc = s.last_started_at_utc
           /\ r.last_observed_utc = s.last_observed_utc
<1>0. date(t) \in Days /\ date(t) \in Int /\ t \in Int
  BY DateInDays, DateType DEF Days
<1>1. CASE date(t) <= s.day_utc
  <2>1. r = s
    BY <1>1 DEF reconcile_day
  <2> QED BY <1>0, <1>1, <2>1, SameFollows DEF SameAccounts, ProviderState
<1>2. CASE ~(date(t) <= s.day_utc)
  <2> DEFINE runs == [d \in Days |-> IF d >= date(t) THEN s.runs[d] ELSE 0]
             cool == IF s.cooldown_until_utc # None /\ s.cooldown_until_utc <= t
                     THEN None ELSE s.cooldown_until_utc
             u == [s EXCEPT !.day_utc = date(t), !.runs = runs, !.deferred = None,
                            !.interface_triggers = NoTriggers,
                            !.cooldown_until_utc = cool]
  <2>1. PICK q \in SUBSET Int : r = [u EXCEPT !.slots = q]
    <3>1. PICK q \in plan_full_day(u, p, t) : r = [u EXCEPT !.slots = q]
      BY <1>2 DEF reconcile_day
    <3>2. q \in SUBSET Int
      BY <3>1, PlanFullDayType
    <3> QED BY <3>1, <3>2
  <2>2. runs \in [Days -> Nat] /\ cool \in Time /\ NoTriggers \in [Interfaces -> TriggerState]
    BY DEF ProviderState, NoTriggers, NoTrigger, TriggerState, Time
  <2>3. r \in ProviderState
    BY <1>0, <2>1, <2>2 DEF ProviderState
  <2>4. /\ r.day_utc = date(t) /\ r.runs = runs /\ r.cooldown_until_utc = cool
        /\ r.last_started_at_utc = s.last_started_at_utc
        /\ r.last_observed_utc = s.last_observed_utc
    BY <2>1 DEF ProviderState
  <2>5. s.day_utc \in Int /\ s.runs \in [Days -> Nat]
        /\ s.last_started_at_utc \in Time /\ s.cooldown_until_utc \in Time
    BY DEF ProviderState
  <2>6. Advances(s, r, t)
    <3>1. \A d \in Days : d >= date(t) => r.runs[d] = s.runs[d] /\ s.runs[d] \in Nat
      BY <2>4, <2>5
    <3>2. s.last_started_at_utc # None => s.last_started_at_utc \in Int
      BY <2>5 DEF Time
    <3>3. \A d \in Days : d >= r.day_utc => r.runs[d] >= s.runs[d]
      BY <2>4, <3>1
    <3> QED BY <1>0, <1>2, <2>4, <2>5, <3>2, <3>3 DEF Advances
  <2>7. KeepsCooldown(s, r, t)
    BY <1>0, <2>4, <2>5, NoneAssumption DEF KeepsCooldown, Time
  <2> QED BY <1>0, <2>3, <2>4, <2>5, <2>6, <2>7 DEF Follows
<1> QED BY <1>1, <1>2

-----------------------------------------------------------------------------
(* The handlers' operators. *)

\* A provider state is not the absence of one.
LEMMA NoneNotState == ASSUME NEW s \in ProviderState PROVE s # None
BY NoneStateAssumption

\* Cleared triggers are triggers.
LEMMA TriggerTypes ==
    /\ NoTrigger \in TriggerState
    /\ NoTriggers \in [Interfaces -> TriggerState]
BY DEF NoTriggers, NoTrigger, TriggerState

\* A change of the configured policy keeps the accounting.
LEMMA AdoptPolicyFollows ==
    ASSUME NEW s \in ProviderState, NEW p \in Policy, NEW t,
           NEW r \in AdoptPolicy(s, p, t)
    PROVE  /\ r \in ProviderState /\ SameAccounts(s, r)
           /\ r.last_observed_utc = s.last_observed_utc
<1> DEFINE u == [s EXCEPT !.policy = PolicyPart(p)]
<1>1. u \in ProviderState /\ SameAccounts(s, u) /\ u.last_observed_utc = s.last_observed_utc
  BY DEF ProviderState, PolicyPart, Policy, SameAccounts
<1>2. CASE s.policy = PolicyPart(p)
  BY <1>2 DEF AdoptPolicy, SameAccounts
<1>3. CASE s.policy # PolicyPart(p) /\ p.daily_max = 0
  <2>1. r = [u EXCEPT !.slots = {}, !.interface_triggers = NoTriggers, !.deferred = None]
    BY <1>3 DEF AdoptPolicy
  <2> QED BY <1>1, <2>1, TriggerTypes DEF ProviderState, SameAccounts
<1>4. CASE s.policy # PolicyPart(p) /\ p.daily_max # 0
  <2>1. r \in replan_remaining(u, p, t)
    BY <1>4 DEF AdoptPolicy
  <2> HIDE DEF u
  <2>2. r \in ProviderState /\ SameAccounts(u, r) /\ r.last_observed_utc = u.last_observed_utc
    BY <1>1, <2>1, ReplanFollows
  <2> QED BY <1>1, <2>2 DEF SameAccounts
<1> QED BY <1>2, <1>3, <1>4

\* reconcile keeps what the day change keeps and never moves the observed
\* clock back.
LEMMA ReconcileFollows ==
    ASSUME NEW s \in ProviderState, NEW p \in Policy, NEW t \in 0..Horizon,
           NEW m \in reconcile(s, p, t)
    PROVE  Follows(s, m, t) /\ m.last_observed_utc >= s.last_observed_utc
<1>1. PICK r \in UNION {AdoptPolicy(d, p, t) : d \in reconcile_day(s, p, t)} :
        m = [r EXCEPT !.slots = {x \in r.slots : x > t},
                      !.last_observed_utc = max(r.last_observed_utc, t)]
  BY Zenon DEF reconcile
<1>2. PICK d \in reconcile_day(s, p, t) : r \in AdoptPolicy(d, p, t)
  BY Zenon
<1>3. Follows(s, d, t) /\ d.last_observed_utc = s.last_observed_utc /\ d \in ProviderState
  BY ReconcileDayFollows DEF Follows
<1>4. /\ r \in ProviderState /\ SameAccounts(d, r)
      /\ r.last_observed_utc = s.last_observed_utc
  <2>1. r \in ProviderState /\ SameAccounts(d, r) /\ r.last_observed_utc = d.last_observed_utc
    BY <1>2, <1>3, AdoptPolicyFollows, Zenon
  <2> QED BY <1>3, <2>1, Zenon
<1>5. r.last_observed_utc \in Int /\ t \in Int
  BY <1>4 DEF ProviderState
<1>6. max(r.last_observed_utc, t) \in Int /\ max(r.last_observed_utc, t) >= r.last_observed_utc
  BY <1>5 DEF max
<1> DEFINE later == max(r.last_observed_utc, t)
           ahead == {x \in r.slots : x > t}
<1> HIDE DEF later
<1>7. /\ m \in ProviderState /\ SameAccounts(r, m)
      /\ m.last_observed_utc = later
  <2>1. m = [r EXCEPT !.slots = ahead, !.last_observed_utc = later]
    BY <1>1, Zenon DEF later
  <2>2. later \in Int /\ r \in ProviderState
    BY <1>4, <1>6 DEF later
  <2>3. ahead \in SUBSET Int
    BY <2>2 DEF ProviderState
  <2> HIDE DEF ahead
  <2> QED BY <2>1, <2>2, <2>3 DEF ProviderState, SameAccounts
<1>70. m.last_observed_utc = max(r.last_observed_utc, t)
  BY <1>7, Zenon DEF later
<1>8. SameAccounts(d, m)
  BY <1>4, <1>7 DEF SameAccounts
<1> QED BY <1>3, <1>4, <1>5, <1>6, <1>7, <1>70, <1>8, SameFollows, FollowsTransitive

\* Scheduler::open of an existing store moves its accounting forward.
LEMMA OpenFollows ==
    ASSUME NEW s \in ProviderState, NEW p \in Policy, NEW t \in 0..Horizon, NEW b,
           NEW m \in open(s, p, t, b)
    PROVE  Follows(s, m, t) /\ m.last_observed_utc >= s.last_observed_utc
<1>0. s # None \/ s = None
  OBVIOUS
<1>1. s # None
  BY NoneNotState
<1>2. CASE ~b
  BY <1>1, <1>2, ReconcileFollows DEF open
<1>3. CASE b
  <2>1. PICK r \in reconcile(s, p, t) : m \in replan_remaining(r, p, t)
    BY <1>1, <1>3 DEF open
  <2>2. r \in ProviderState /\ Follows(s, r, t)
        /\ r.last_observed_utc >= s.last_observed_utc
    BY ReconcileFollows DEF Follows
  <2>3. m \in ProviderState /\ SameAccounts(r, m)
        /\ m.last_observed_utc = r.last_observed_utc
    BY <2>1, <2>2, ReplanFollows
  <2>4. t \in Int
    OBVIOUS
  <2> QED BY <2>2, <2>3, <2>4, SameFollows, FollowsTransitive
<1> QED BY <1>2, <1>3

\* The state of a first open is well typed and accounts for nothing.
LEMMA NewProviderType ==
    ASSUME NEW p \in Policy, NEW t \in 0..Horizon, NEW m \in NewProvider(p, t)
    PROVE  /\ m \in ProviderState
           /\ m.day_utc = date(t) /\ m.runs = NoRuns
           /\ m.last_started_at_utc = None /\ m.cooldown_until_utc = None
<1> DEFINE s == [day_utc |-> date(t), slots |-> {}, runs |-> NoRuns,
              last_started_at_utc |-> None, cooldown_until_utc |-> None,
              backoff_step |-> 0, deferred |-> None,
              interface_triggers |-> NoTriggers, policy |-> PolicyPart(p),
              last_observed_utc |-> t]
<1>1. PICK q \in plan_full_day(s, p, t) : m = [s EXCEPT !.slots = q]
  BY DEF NewProvider
<1>2. q \in SUBSET Int
  BY PlanFullDayType
<1>3. /\ date(t) \in Int /\ t \in Int /\ NoRuns \in [Days -> Nat]
      /\ 0 \in 0..MaxBackoffStep
      /\ PolicyPart(p) \in [daily_max : Nat, min_spacing : Nat \ {0},
                             slot_jitter_pct : 0..100]
  BY DateType DEF NoRuns, MaxBackoffStep, PolicyPart, Policy
<1> HIDE DEF NoRuns
<1>4. m.day_utc = date(t) /\ m.runs = NoRuns
      /\ m.last_started_at_utc = None /\ m.cooldown_until_utc = None
  BY <1>1
<1>5. s \in ProviderState
  BY <1>3, TriggerTypes DEF ProviderState, Time
<1>6. m \in ProviderState
  BY <1>1, <1>2, <1>5 DEF ProviderState
<1> QED BY <1>4, <1>6

\* advance_clock moves the accounting and the observed clock forward.
LEMMA AdvanceClockFollows ==
    ASSUME NEW s \in ProviderState, NEW p, NEW t \in 0..Horizon,
           NEW m \in advance_clock(s, p, t)
    PROVE  Follows(s, m, t) /\ m.last_observed_utc >= s.last_observed_utc
<1>0. t \in Int /\ s.last_observed_utc \in Int
  BY DEF ProviderState
<1>1. CASE BehindClock(s, t)
  <2>1. m = s
    BY <1>1 DEF advance_clock
  <2> QED BY <1>0, <2>1, SameFollows DEF SameAccounts
<1>2. CASE ~BehindClock(s, t)
  <2>1. PICK r \in reconcile_day(s, p, t) : m = [r EXCEPT !.last_observed_utc = t]
    BY <1>2 DEF advance_clock
  <2>2. Follows(s, r, t) /\ r \in ProviderState
    BY ReconcileDayFollows DEF Follows
  <2>3. m \in ProviderState /\ SameAccounts(r, m) /\ m.last_observed_utc = t
    BY <1>0, <2>1, <2>2 DEF ProviderState, SameAccounts
  <2> QED BY <1>0, <1>2, <2>2, <2>3, SameFollows, FollowsTransitive DEF BehindClock
<1> QED BY <1>1, <1>2

\* A health decision changes triggers and the deferred discovery only.
LEMMA HealthFollows ==
    ASSUME NEW s \in ProviderState, NEW i \in Interfaces, NEW decision, NEW t \in Int
    PROVE  LET m == HealthState(s, i, decision, t)
           IN  /\ m \in ProviderState /\ SameAccounts(s, m)
               /\ m.last_observed_utc = s.last_observed_utc
<1> DEFINE m == HealthState(s, i, decision, t)
<1>0. s.interface_triggers \in [Interfaces -> TriggerState]
  BY DEF ProviderState
<1>1. CASE decision = "degraded" /\ ~s.interface_triggers[i].latched
  <2>1. m = Latch(s, i, t)
    BY <1>1 DEF HealthState
  <2>2. [latched |-> TRUE, pending |-> None] \in TriggerState
    BY DEF TriggerState
  <2>3. [latched |-> TRUE, pending |-> [created_at_utc |-> t,
            expires_at_utc |-> t + PendingTtl]] \in TriggerState
    BY TimeAssumption DEF TriggerState
  <2>4. CASE s.deferred # None
    <3>1. s.deferred \in Deferred
      BY <2>4 DEF ProviderState
    <3>2. [s.deferred EXCEPT !.reason = "ping", !.interface = i] \in Deferred
      BY <3>1 DEF Deferred
    <3>3. m = [s EXCEPT !.deferred = [s.deferred EXCEPT !.reason = "ping", !.interface = i],
                        !.interface_triggers =
                            [s.interface_triggers EXCEPT ![i] =
                                [latched |-> TRUE, pending |-> None]]]
      BY <2>1, <2>4, <3>1 DEF Latch, ProviderState, Deferred
    <3>4. [s.interface_triggers EXCEPT ![i] = [latched |-> TRUE, pending |-> None]]
            \in [Interfaces -> TriggerState]
      BY <1>0, <2>2
    <3> HIDE DEF m
    <3>5. m \in ProviderState /\ SameAccounts(s, m)
          /\ m.last_observed_utc = s.last_observed_utc
      BY <3>2, <3>3, <3>4 DEF ProviderState, SameAccounts
    <3> QED BY <3>5 DEF m
  <2>5. CASE s.deferred = None
    <3> DEFINE g == [s.interface_triggers EXCEPT ![i] =
                [latched |-> TRUE,
                 pending |-> [created_at_utc |-> t, expires_at_utc |-> t + PendingTtl]]]
    <3>1. g \in [Interfaces -> TriggerState]
      BY <1>0, <2>3
    <3>2. m = [s EXCEPT !.interface_triggers = g]
      BY <2>1, <2>5 DEF Latch, ProviderState
    <3> HIDE DEF g, m
    <3>3. m \in ProviderState /\ SameAccounts(s, m)
          /\ m.last_observed_utc = s.last_observed_utc
      BY <3>1, <3>2 DEF ProviderState, SameAccounts
    <3> QED BY <3>3 DEF m
  <2> QED BY <2>4, <2>5
<1>2. CASE ~(decision = "degraded" /\ ~s.interface_triggers[i].latched)
           /\ decision = "recovered"
  BY <1>0, <1>2, TriggerTypes DEF HealthState, ProviderState, SameAccounts
<1>3. CASE ~(decision = "degraded" /\ ~s.interface_triggers[i].latched)
           /\ decision # "recovered"
  BY <1>3 DEF HealthState, SameAccounts
<1> QED BY <1>1, <1>2, <1>3

\* Dropping a pending trigger keeps the accounting.
LEMMA ClearPendingFollows ==
    ASSUME NEW s \in ProviderState, NEW i \in Interfaces \cup {None}
    PROVE  LET m == ClearPending(s, i)
           IN  /\ m \in ProviderState /\ SameAccounts(s, m)
               /\ m.last_observed_utc = s.last_observed_utc
<1>1. CASE i = None
  BY <1>1 DEF ClearPending, SameAccounts
<1>2. CASE i # None
  <2>1. s.interface_triggers \in [Interfaces -> TriggerState]
        /\ s.interface_triggers[i] \in TriggerState
    BY <1>2 DEF ProviderState
  <2>2. [s.interface_triggers[i] EXCEPT !.pending = None] \in TriggerState
    BY <2>1 DEF TriggerState
  <2>3. ClearPending(s, i) =
          [s EXCEPT !.interface_triggers = [s.interface_triggers EXCEPT ![i] =
                [s.interface_triggers[i] EXCEPT !.pending = None]]]
    BY <1>2, <2>1 DEF ClearPending, ProviderState
  <2> QED BY <2>1, <2>2, <2>3 DEF ProviderState, SameAccounts
<1> QED BY <1>1, <1>2

\* Expiry of triggers and of the deferred discovery keeps the accounting.
LEMMA ExpiryFollows ==
    ASSUME NEW s \in ProviderState, NEW t
    PROVE  \A m \in {ExpireTriggers(s, t), ExpireDeferred(ExpireTriggers(s, t), t)} :
               /\ m \in ProviderState /\ SameAccounts(s, m)
               /\ m.last_observed_utc = s.last_observed_utc
<1> DEFINE e == ExpireTriggers(s, t)
<1>1. s.interface_triggers \in [Interfaces -> TriggerState]
  BY DEF ProviderState
<1>2. \A i \in Interfaces :
        /\ s.interface_triggers[i] \in TriggerState
        /\ [s.interface_triggers[i] EXCEPT !.pending = None] \in TriggerState
  BY <1>1 DEF TriggerState
<1>3. PICK g \in [Interfaces -> TriggerState] : e = [s EXCEPT !.interface_triggers = g]
  <2> DEFINE g == [i \in Interfaces |->
            IF Pending(s, i) # None /\ t >= Pending(s, i).expires_at_utc
            THEN [s.interface_triggers[i] EXCEPT !.pending = None]
            ELSE s.interface_triggers[i]]
  <2>1. g \in [Interfaces -> TriggerState]
    BY <1>2
  <2>2. e = [s EXCEPT !.interface_triggers = g]
    BY DEF ExpireTriggers
  <2> QED BY <2>1, <2>2
<1>4. e \in ProviderState /\ SameAccounts(s, e) /\ e.last_observed_utc = s.last_observed_utc
  BY <1>3 DEF ProviderState, SameAccounts
<1> HIDE DEF e
<1> DEFINE m == ExpireDeferred(e, t)
<1>5. m = e \/ m = [e EXCEPT !.deferred = None]
  BY DEF ExpireDeferred
<1>6. m \in ProviderState /\ SameAccounts(s, m) /\ m.last_observed_utc = s.last_observed_utc
  BY <1>4, <1>5 DEF ProviderState, SameAccounts
<1> QED BY <1>4, <1>6 DEF e

\* What a poll leaves, blocked or offered, has the accounting it found.
LEMMA PollFollows ==
    ASSUME NEW s \in ProviderState, NEW p, NEW t, NEW i \in Interfaces \cup {None},
           NEW m \in {BlockedState(s, p, t, i), OfferedState(s, t, i)}
    PROVE  /\ m \in ProviderState /\ SameAccounts(s, m)
           /\ m.last_observed_utc = s.last_observed_utc
<1> DEFINE r == remove_due_slots(s, t)
<1>1. r \in ProviderState /\ SameAccounts(s, r) /\ r.last_observed_utc = s.last_observed_utc
  BY DEF remove_due_slots, ProviderState, SameAccounts
<1> HIDE DEF r
<1>2. LET c == ClearPending(r, i)
      IN c \in ProviderState /\ SameAccounts(s, c) /\ c.last_observed_utc = s.last_observed_utc
  BY <1>1, ClearPendingFollows DEF SameAccounts
<1>3. CASE m = BlockedState(s, p, t, i)
  <2>1. m = r \/ m = ClearPending(r, i)
    BY <1>3 DEF BlockedState, r
  <2> QED BY <1>1, <1>2, <2>1
<1>4. CASE m = OfferedState(s, t, i)
  <2>1. m = r \/ m = [r EXCEPT !.slots = {x \in r.slots : \E y \in r.slots : y < x}]
    BY <1>4 DEF OfferedState, r
  <2> QED BY <1>1, <2>1 DEF ProviderState, SameAccounts
<1> QED BY <1>3, <1>4

\* A reservation adds one start to its day and remembers its time.
LEMMA ReservedFollows ==
    ASSUME NEW s \in ProviderState, NEW t \in 0..Horizon
    PROVE  LET m == Reserved(s, t)
           IN  /\ Follows(s, m, t)
               /\ m.day_utc = s.day_utc
               /\ m.runs = [s.runs EXCEPT ![date(t)] = @ + 1]
               /\ m.last_started_at_utc # None /\ m.last_started_at_utc >= t
               /\ m.cooldown_until_utc = s.cooldown_until_utc
               /\ m.last_observed_utc >= s.last_observed_utc
<1> DEFINE m == Reserved(s, t)
           runs == [s.runs EXCEPT ![date(t)] = @ + 1]
           last == maxOpt(s.last_started_at_utc, t)
           seen == max(s.last_observed_utc, t)
<1>1. /\ t \in Int /\ date(t) \in Days /\ s.runs \in [Days -> Nat] /\ s.day_utc \in Int
      /\ s.last_started_at_utc \in Time /\ s.cooldown_until_utc \in Time
      /\ s.last_observed_utc \in Int
  BY DateInDays DEF ProviderState
<1>2. runs \in [Days -> Nat] /\ \A d \in Days : runs[d] >= s.runs[d]
  BY <1>1
<1>3. /\ last \in Int /\ last >= t
      /\ s.last_started_at_utc # None => last >= s.last_started_at_utc
  BY <1>1 DEF maxOpt, max, Time
<1>4. seen \in Int /\ seen >= s.last_observed_utc
  BY <1>1 DEF max
<1>5. m = [s EXCEPT !.runs = runs, !.last_started_at_utc = last, !.last_observed_utc = seen]
  BY DEF Reserved, ProviderState
<1> HIDE DEF m, runs, last, seen
<1>6. /\ m \in ProviderState /\ m.day_utc = s.day_utc /\ m.runs = runs
      /\ m.last_started_at_utc = last /\ m.last_observed_utc = seen
      /\ m.cooldown_until_utc = s.cooldown_until_utc
  BY <1>2, <1>3, <1>4, <1>5 DEF ProviderState, Time
<1>7. Advances(s, m, t)
  BY <1>2, <1>3, <1>6, NoneAssumption DEF Advances
<1>8. KeepsCooldown(s, m, t)
  BY <1>1, <1>6 DEF KeepsCooldown, Time
<1>9. last # None
  BY <1>3, NoneAssumption
<1> QED BY <1>3, <1>4, <1>6, <1>7, <1>8, <1>9 DEF Follows, m, runs

\* The discovery kept after a rate limit is well typed.
LEMMA NextDeferredType ==
    ASSUME NEW s \in ProviderState, NEW o \in Opportunity, NEW t \in Int, NEW deadline
    PROVE  NextDeferred(s, o, t, deadline) \in Deferred \cup {None}
<1> DEFINE attempts == IF s.deferred = None THEN 1 ELSE s.deferred.rate_limit_attempts + 1
<1>1. attempts \in Nat
  BY DEF ProviderState, Deferred
<1>2. day_end(date(t)) \in Int
  BY DateType, TimeAssumption DEF day_end, day_start
<1> HIDE DEF attempts
<1>3. [reason |-> o.reason, interface |-> o.interface,
       expires_at_utc |-> day_end(date(t)),
       rate_limit_attempts |-> attempts] \in Deferred
  BY <1>1, <1>2 DEF Opportunity, Deferred
<1> QED BY <1>3 DEF NextDeferred, attempts

\* A rate limit changes the cooldown, never the starts.
LEMMA RateLimitedFollows ==
    ASSUME NEW s \in ProviderState, NEW o \in Opportunity, NEW t \in Int,
           NEW reserved \in BOOLEAN, NEW d \in Int
    PROVE  LET deadline == maxOpt(s.cooldown_until_utc, d)
               m == RateLimited(s, o, t, reserved, deadline)
           IN  /\ Follows(s, m, t)
               /\ m.cooldown_until_utc \in Int /\ m.cooldown_until_utc >= d
               /\ m.last_observed_utc = s.last_observed_utc
<1> DEFINE deadline == maxOpt(s.cooldown_until_utc, d)
           u == [s EXCEPT !.cooldown_until_utc = deadline,
                          !.backoff_step = min(@ + 1, MaxBackoffStep),
                          !.deferred = IF reserved THEN None
                                       ELSE NextDeferred(s, o, t, deadline)]
           m == RateLimited(s, o, t, reserved, deadline)
<1>1. s.cooldown_until_utc \in Time
  BY DEF ProviderState
<1>2. /\ deadline \in Int /\ deadline >= d
      /\ s.cooldown_until_utc # None => deadline >= s.cooldown_until_utc
  BY <1>1 DEF maxOpt, max, Time
<1> HIDE DEF deadline
<1>3. min(s.backoff_step + 1, MaxBackoffStep) \in 0..MaxBackoffStep
  BY DEF ProviderState, MaxBackoffStep, min
<1>4. (IF reserved THEN None ELSE NextDeferred(s, o, t, deadline)) \in Deferred \cup {None}
  BY NextDeferredType
<1>5. /\ u \in ProviderState /\ u.cooldown_until_utc = deadline /\ u.day_utc = s.day_utc
      /\ u.runs = s.runs /\ u.last_started_at_utc = s.last_started_at_utc
      /\ u.last_observed_utc = s.last_observed_utc
  <2> DEFINE step == min(s.backoff_step + 1, MaxBackoffStep)
             rest == IF reserved THEN None ELSE NextDeferred(s, o, t, deadline)
  <2>1. step \in 0..MaxBackoffStep /\ rest \in Deferred \cup {None} /\ deadline \in Time
    BY <1>2, <1>3, <1>4 DEF Time
  <2>2. u = [s EXCEPT !.cooldown_until_utc = deadline, !.backoff_step = step,
                      !.deferred = rest]
    OBVIOUS
  <2> HIDE DEF step, rest, u
  <2> QED BY <2>1, <2>2 DEF ProviderState
<1> HIDE DEF u
<1>6. m = ClearPending(u, o.interface) /\ o.interface \in Interfaces \cup {None}
  BY DEF RateLimited, u, Opportunity
<1> HIDE DEF m
<1>7. m \in ProviderState /\ SameAccounts(u, m) /\ m.last_observed_utc = u.last_observed_utc
  BY <1>5, <1>6, ClearPendingFollows
<1>8. s.runs \in [Days -> Nat] /\ s.last_started_at_utc \in Time
  BY DEF ProviderState
<1>9. Advances(s, m, t)
  BY <1>5, <1>7, <1>8, NoneAssumption DEF Advances, SameAccounts, Time
<1>10. KeepsCooldown(s, m, t)
  BY <1>2, <1>5, <1>7, NoneAssumption DEF KeepsCooldown, SameAccounts
<1> QED BY <1>2, <1>5, <1>7, <1>9, <1>10 DEF Follows, SameAccounts, m, deadline

\* An attempt without a rate limit lifts the cooldown only after success.
LEMMA CompletedFollows ==
    ASSUME NEW s \in ProviderState, NEW o \in Opportunity, NEW t, NEW ok \in BOOLEAN
    PROVE  LET m == Completed(s, o, ok)
           IN  /\ m \in ProviderState /\ Advances(s, m, t)
               /\ ~ok => KeepsCooldown(s, m, t)
               /\ m.last_observed_utc = s.last_observed_utc
<1> DEFINE u == [s EXCEPT !.deferred = None,
                          !.cooldown_until_utc = IF ok THEN None ELSE @,
                          !.backoff_step = IF ok THEN 0 ELSE @]
           m == Completed(s, o, ok)
<1>1. /\ s.runs \in [Days -> Nat] /\ s.last_started_at_utc \in Time
      /\ s.cooldown_until_utc \in Time /\ s.backoff_step \in 0..MaxBackoffStep
      /\ 0 \in 0..MaxBackoffStep
  BY DEF ProviderState, MaxBackoffStep
<1>2. /\ u \in ProviderState /\ u.day_utc = s.day_utc /\ u.runs = s.runs
      /\ u.last_started_at_utc = s.last_started_at_utc
      /\ ~ok => u.cooldown_until_utc = s.cooldown_until_utc
      /\ u.last_observed_utc = s.last_observed_utc
  BY <1>1 DEF ProviderState, Time
<1> HIDE DEF u
<1>3. m = ClearPending(u, o.interface) /\ o.interface \in Interfaces \cup {None}
  BY DEF Completed, u, Opportunity
<1> HIDE DEF m
<1>4. m \in ProviderState /\ SameAccounts(u, m) /\ m.last_observed_utc = u.last_observed_utc
  BY <1>2, <1>3, ClearPendingFollows
<1>5. Advances(s, m, t)
  BY <1>1, <1>2, <1>4, NoneAssumption DEF Advances, SameAccounts, Time
<1>6. ~ok => KeepsCooldown(s, m, t)
  BY <1>1, <1>2, <1>4, NoneAssumption DEF KeepsCooldown, SameAccounts, Time
<1> QED BY <1>2, <1>4, <1>5, <1>6 DEF m

\* The slots are settled after an attempt without touching the accounting.
LEMMA ResettledSame ==
    ASSUME NEW s \in ProviderState, NEW p, NEW o, NEW t, NEW reserved,
           NEW m \in Resettled(s, p, o, t, reserved)
    PROVE  /\ m \in ProviderState /\ SameAccounts(s, m)
           /\ m.last_observed_utc = s.last_observed_utc
<1>1. \/ m \in replan_remaining(s, p, t)
      \/ m = [s EXCEPT !.slots = {x \in s.slots : x >= t + p.min_spacing}]
      \/ m = s
  BY DEF Resettled
<1> QED BY <1>1, ReplanFollows DEF ProviderState, SameAccounts

\* An interrupted commit replays the accounting that was being persisted.
LEMMA ReplayFollows ==
    ASSUME NEW s \in ProviderState, NEW m \in ProviderState
    PROVE  LET r == replay_accounting(s, m)
           IN  /\ r \in ProviderState /\ SameAccounts(m, r)
               /\ r.last_observed_utc >= s.last_observed_utc
<1> DEFINE seen == max(s.last_observed_utc, m.last_observed_utc)
<1>1. seen \in Int /\ seen >= s.last_observed_utc
  BY DEF ProviderState, max
<1>2. s # None
  BY NoneNotState
<1> QED BY <1>1, <1>2 DEF replay_accounting, ProviderState, SameAccounts

-----------------------------------------------------------------------------
(* The inductive invariant. *)

\* The part of TypeOK a handler's commit decides.
ProcessOK ==
    /\ store \in ProviderState \cup {None}
    /\ recovered \in BOOLEAN
    /\ phase \in {"down", "idle", "offered", "running"}
    /\ phase # "down" => /\ store # None /\ policy \in Policy
                         /\ command \in {"run", "once"}
    /\ phase \in {"offered", "running"} => opp \in Opportunity
    /\ crashes \in 0..MaxCrashes

\* Nothing happened before the state file was created.
Unopened == store = None => started = NoRuns /\ lastStart = None /\ promised = None

\* The store remembers the last real start.
LastStartKept ==
    lastStart # None => /\ store.last_started_at_utc # None
                        /\ store.last_started_at_utc >= lastStart

\* A clock that never stepped back is at or after the accounting day.
DayNotAhead == rollbacks = 0 /\ store # None => store.day_utc <= date(now)

\* The store remembers every promise still running.
PromiseKept ==
    rollbacks = 0 /\ promised # None /\ promised > now =>
        /\ store.cooldown_until_utc # None
        /\ store.cooldown_until_utc >= promised

Accounts ==
    /\ NoRefund /\ Unopened /\ LastStartKept /\ DayNotAhead /\ PromiseKept
    /\ HardCapRespected

Inv == TypeOK /\ Accounts

\* What persist leaves, whether the commit completes or is cut short, has the
\* accounting that was persisted.
LEMMA PersistKeeps ==
    ASSUME TypeOK, phase # "down", NEW m \in ProviderState, Advances(store, m, now),
           NEW ph \in {"down", "idle", "offered", "running"}, NEW o,
           ph \in {"offered", "running"} => o \in Opportunity, Persist(m, ph, o)
    PROVE  /\ ProcessOK' /\ store' \in ProviderState
           /\ SameAccounts(m, store') /\ Advances(store, store', now)
           /\ KeepsCooldown(store, m, now) => KeepsCooldown(store, store', now)
           /\ phase' = ph /\ ph # "down" => store' = m
           /\ m.last_observed_utc >= store.last_observed_utc => ClockKept
<1>1. store \in ProviderState /\ now \in Int
      /\ m.last_observed_utc \in Int /\ store.last_observed_utc \in Int
  BY DEF TypeOK, ProviderState
<1>2. m # None
  BY NoneNotState
<1>3. CASE Committed(m, ph, o)
  <2>1. store' = m /\ recovered' = FALSE /\ crashes' = crashes
    BY <1>3 DEF Committed
  <2>2. ProcessOK'
    BY <1>2, <1>3, <2>1 DEF ProcessOK, Committed, Down, TypeOK
  <2>3. SameAccounts(m, m)
    BY DEF SameAccounts
  <2> QED BY <2>1, <2>2, <2>3 DEF ClockKept
<1>4. CASE TornCommit(m)
  <2> DEFINE r == replay_accounting(store, m)
  <2>1. store' = r /\ recovered' = TRUE /\ crashes' = crashes + 1 /\ phase' = "down"
        /\ crashes < MaxCrashes
    BY <1>4 DEF TornCommit, Down
  <2>2. r \in ProviderState /\ SameAccounts(m, r)
        /\ r.last_observed_utc >= store.last_observed_utc
    BY <1>1, ReplayFollows
  <2> HIDE DEF r
  <2>3. Advances(store, r, now) /\ (KeepsCooldown(store, m, now) => KeepsCooldown(store, r, now))
    BY <2>2 DEF Advances, KeepsCooldown, SameAccounts
  <2>4. ProcessOK'
    BY <2>1, <2>2, BoundAssumption DEF ProcessOK, TypeOK
  <2> QED BY <2>1, <2>2, <2>3, <2>4 DEF ClockKept
<1>5. CASE Interrupted(m)
  <2>1. store' = m /\ recovered' = FALSE /\ crashes' = crashes + 1 /\ phase' = "down"
        /\ crashes < MaxCrashes
    BY <1>5 DEF Interrupted, Down
  <2>2. crashes' \in 0..MaxCrashes
    BY <2>1, BoundAssumption DEF TypeOK
  <2>3. store' \in ProviderState /\ recovered' \in BOOLEAN
    BY <2>1
  <2>4. ProcessOK'
    BY <2>1, <2>2, <2>3 DEF ProcessOK
  <2>5. SameAccounts(m, m)
    BY DEF SameAccounts
  <2> QED BY <2>1, <2>3, <2>4, <2>5 DEF ClockKept
<1> QED BY <1>3, <1>4, <1>5 DEF Persist

\* What a handler that starts nothing keeps.
LEMMA AdvancingKeepsAccounts ==
    ASSUME Inv, store # None, store' \in ProviderState, Advances(store, store', now),
           UNCHANGED <<now, rollbacks, started, lastStart>>
    PROVE  (NoRefund /\ Unopened /\ LastStartKept /\ DayNotAhead /\ HardCapRespected)'
<1>1. /\ store \in ProviderState /\ now \in 0..Horizon /\ now \in Int /\ date(now) \in Int
      /\ started \in [Days -> Nat] /\ lastStart \in Time
  BY DateType DEF Inv, TypeOK
<1>2. store' # None
  BY NoneNotState
<1>3. /\ store.day_utc \in Int /\ store'.day_utc \in Int
      /\ store.runs \in [Days -> Nat] /\ store'.runs \in [Days -> Nat]
      /\ store.last_started_at_utc \in Time /\ store'.last_started_at_utc \in Time
  BY <1>1 DEF ProviderState
<1>4. NoRefund'
  <2> SUFFICES ASSUME NEW d \in Days, d >= store'.day_utc
               PROVE  started[d] <= store'.runs[d]
    BY DEF NoRefund
  <2>1. d \in Int /\ d >= store.day_utc
    BY <1>1, <1>3 DEF Advances, Days
  <2>2. started[d] <= store.runs[d]
    BY <2>1 DEF Inv, Accounts, NoRefund
  <2>3. store'.runs[d] >= store.runs[d]
    BY DEF Advances
  <2> QED BY <1>1, <1>3, <2>2, <2>3
<1>5. Unopened'
  BY <1>2 DEF Unopened
<1>6. LastStartKept'
  BY <1>1, <1>3, NoneAssumption DEF Inv, Accounts, LastStartKept, Advances, Time
<1>7. DayNotAhead'
  BY <1>1, <1>3 DEF Inv, Accounts, DayNotAhead, Advances
<1>8. HardCapRespected'
  BY DEF Inv, Accounts, HardCapRespected
<1> QED BY <1>4, <1>5, <1>6, <1>7, <1>8

\* A promise still running survives a handler that keeps the cooldown.
LEMMA PromiseSurvives ==
    ASSUME Inv, store # None, store' \in ProviderState, KeepsCooldown(store, store', now),
           UNCHANGED <<now, rollbacks, promised>>
    PROVE  PromiseKept'
<1>1. /\ store.cooldown_until_utc \in Time /\ store'.cooldown_until_utc \in Time
      /\ now \in Int /\ promised \in Time
  BY DEF Inv, TypeOK, ProviderState
<1> QED BY <1>1, NoneAssumption DEF Inv, Accounts, PromiseKept, KeepsCooldown, Time

\* A handler that starts nothing and keeps the promise keeps Accounts.
LEMMA FollowingKeepsAccounts ==
    ASSUME Inv, store # None, Follows(store, store', now),
           UNCHANGED <<now, rollbacks, started, lastStart, promised>>
    PROVE  Accounts'
BY AdvancingKeepsAccounts, PromiseSurvives DEF Follows, Accounts

\* TypeOK from the part persist decides and the rest.
LEMMA HandlerType ==
    ASSUME TypeOK, ProcessOK', UNCHANGED <<now, rollbacks>>,
           started' \in [Days -> Nat], lastStart' \in Time, promised' \in Time,
           discoveries' \in Nat
    PROVE  TypeOK'
BY DEF TypeOK, ProcessOK

\* A handler that only moves the accounting forward keeps the invariant.
LEMMA HandlerInv ==
    ASSUME Inv, phase # "down", NEW m, Follows(store, m, now),
           m.last_observed_utc >= store.last_observed_utc,
           NEW ph \in {"down", "idle", "offered", "running"}, NEW o,
           ph \in {"offered", "running"} => o \in Opportunity, Persist(m, ph, o),
           UNCHANGED <<now, rollbacks, started, lastStart, promised>>,
           discoveries' \in Nat
    PROVE  Inv' /\ ClockKept
<1>1. /\ ProcessOK' /\ store' \in ProviderState /\ Advances(store, store', now)
      /\ KeepsCooldown(store, store', now) /\ ClockKept
  BY PersistKeeps DEF Follows, Inv
<1>2. store # None
  BY DEF Inv, TypeOK
<1>3. Accounts'
  BY <1>1, <1>2, FollowingKeepsAccounts DEF Follows
<1>4. started' \in [Days -> Nat] /\ lastStart' \in Time /\ promised' \in Time
  BY DEF Inv, TypeOK
<1>5. TypeOK'
  BY <1>1, <1>4, HandlerType DEF Inv
<1> QED BY <1>1, <1>3, <1>5 DEF Inv

-----------------------------------------------------------------------------
(* Every action keeps the invariant. *)

\* The initial state satisfies the invariant.
LEMMA InitInv == Init => Inv
<1> SUFFICES ASSUME Init PROVE Inv
  OBVIOUS
<1>1. NoRuns \in [Days -> Nat] /\ \A d \in Days : NoRuns[d] = 0
  BY DEF NoRuns
<1> HIDE DEF NoRuns
<1>2. TypeOK
  <2>1. now \in 0..Horizon /\ crashes \in 0..MaxCrashes /\ rollbacks \in 0..MaxRollbacks
        /\ discoveries \in Nat
    BY TimeAssumption, BoundAssumption DEF Init
  <2>2. /\ store \in ProviderState \cup {None} /\ recovered \in BOOLEAN /\ phase = "down"
        /\ started \in [Days -> Nat] /\ lastStart \in Time /\ promised \in Time
    BY <1>1, Zenon DEF Init, Time
  <2> QED BY <2>1, <2>2 DEF TypeOK
<1>3. NoRefund /\ Unopened /\ LastStartKept /\ DayNotAhead /\ PromiseKept
  BY DEF Init, NoRefund, Unopened, LastStartKept, DayNotAhead, PromiseKept
<1>4. HardCapRespected
  BY <1>1, CapAssumption DEF Init, HardCapRespected
<1> QED BY <1>2, <1>3, <1>4 DEF Inv, Accounts

\* The wall clock may move either way.
LEMMA ClockInv == Inv /\ (Tick \/ StepBack) => Inv' /\ ClockKept
<1> SUFFICES ASSUME Inv, Tick \/ StepBack PROVE Inv' /\ ClockKept
  OBVIOUS
<1>0. /\ now \in Int /\ now' \in 0..Horizon /\ now' \in Int
      /\ rollbacks \in Nat /\ rollbacks' \in 0..MaxRollbacks
      /\ (rollbacks' = 0 => rollbacks = 0 /\ now <= now')
  BY TimeAssumption, BoundAssumption DEF Inv, TypeOK, Tick, StepBack
<1>1. UNCHANGED <<store, recovered, procVars, crashes, ghosts>>
  BY DEF Tick, StepBack
<1>2. TypeOK'
  BY <1>0, <1>1 DEF Inv, TypeOK, procVars, ghosts
<1>3. (NoRefund /\ Unopened /\ LastStartKept)'
  BY <1>1 DEF Inv, Accounts, NoRefund, Unopened, LastStartKept, ghosts
<1>4. DayNotAhead'
  <2> SUFFICES ASSUME rollbacks' = 0, store # None PROVE store.day_utc <= date(now')
    BY <1>1 DEF DayNotAhead
  <2>1. store.day_utc <= date(now) /\ store.day_utc \in Int
    BY <1>0 DEF Inv, Accounts, DayNotAhead, TypeOK, ProviderState
  <2>2. date(now) <= date(now') /\ date(now) \in Int /\ date(now') \in Int
    BY <1>0, DateMonotone, DateType
  <2> QED BY <2>1, <2>2
<1>5. PromiseKept'
  BY <1>0, <1>1 DEF Inv, Accounts, PromiseKept, TypeOK, Time, ghosts
<1>6. HardCapRespected'
  BY <1>0, <1>1 DEF Inv, Accounts, HardCapRespected, ghosts
<1>7. ClockKept
  BY <1>1 DEF ClockKept, Inv, TypeOK, ProviderState
<1> QED BY <1>2, <1>3, <1>4, <1>5, <1>6, <1>7 DEF Inv, Accounts

\* The end of a process, in order or by a crash, keeps the store.
LEMMA EndInv == Inv /\ (Stop \/ Crash) => Inv' /\ ClockKept
<1> SUFFICES ASSUME Inv, Stop \/ Crash PROVE Inv' /\ ClockKept
  OBVIOUS
<1>1. /\ UNCHANGED <<now, store, recovered, rollbacks, ghosts>> /\ phase' = "down"
      /\ crashes' \in 0..MaxCrashes
  BY BoundAssumption DEF Stop, Crash, Down, Inv, TypeOK
<1>2. TypeOK'
  BY <1>1 DEF Inv, TypeOK, ghosts
<1>3. Accounts'
  BY <1>1 DEF Inv, Accounts, NoRefund, Unopened, LastStartKept, DayNotAhead,
              PromiseKept, HardCapRespected, ghosts
<1>4. ClockKept
  BY <1>1 DEF ClockKept, Inv, TypeOK, ProviderState
<1> QED BY <1>2, <1>3, <1>4 DEF Inv

\* A first open.
LEMMA FirstOpenInv ==
    ASSUME Inv, store = None, NEW p \in Policy, NEW m \in open(None, p, now, recovered),
           store' = m, UNCHANGED <<now, rollbacks, started, lastStart, promised>>
    PROVE  store' \in ProviderState /\ Accounts'
<1>1. m \in NewProvider(p, now) /\ now \in 0..Horizon
  BY DEF open, Inv, TypeOK
<1>2. /\ m \in ProviderState /\ m.day_utc = date(now) /\ m.runs = NoRuns
  BY <1>1, NewProviderType
<1>3. started = NoRuns /\ lastStart = None /\ promised = None
  BY DEF Inv, Accounts, Unopened
<1>4. date(now) \in Int /\ m # None /\ \A d \in Days : NoRuns[d] \in Nat
  BY <1>1, <1>2, DateType, NoneNotState DEF NoRuns
<1>5. (NoRefund /\ Unopened /\ LastStartKept /\ DayNotAhead /\ PromiseKept)'
  BY <1>2, <1>3, <1>4
  DEF NoRefund, Unopened, LastStartKept, DayNotAhead, PromiseKept
<1>6. HardCapRespected'
  BY DEF Inv, Accounts, HardCapRespected
<1> QED BY <1>2, <1>5, <1>6 DEF Accounts

\* The store an open leaves, committed or torn.
LEMMA OpenInv ==
    ASSUME Inv, NEW p \in Policy, NEW m \in open(store, p, now, recovered),
           store' = m \/ TornCommit(m),
           UNCHANGED <<now, rollbacks, started, lastStart, promised>>
    PROVE  /\ store' \in ProviderState /\ Accounts'
           /\ ClockKept
<1>0. now \in 0..Horizon /\ now \in Int
  BY DEF Inv, TypeOK
<1>1. CASE store = None
  <2>1. store' = m
    BY <1>1 DEF TornCommit, replay_accounting
  <2> QED BY <1>1, <2>1, FirstOpenInv DEF ClockKept
<1>2. CASE store # None
  <2>1. store \in ProviderState
    BY <1>2 DEF Inv, TypeOK
  <2>2. Follows(store, m, now) /\ m.last_observed_utc >= store.last_observed_utc
    BY <1>0, <2>1, OpenFollows
  <2>3. m \in ProviderState
    BY <2>2 DEF Follows
  <2>4. Follows(store, store', now) /\ store'.last_observed_utc >= store.last_observed_utc
    <3>1. CASE store' = m
      BY <2>2, <3>1
    <3>2. CASE TornCommit(m)
      <4> DEFINE r == replay_accounting(store, m)
      <4>1. store' = r
        BY <3>2 DEF TornCommit
      <4>2. r \in ProviderState /\ SameAccounts(m, r)
            /\ r.last_observed_utc >= store.last_observed_utc
        BY <2>1, <2>3, ReplayFollows
      <4> HIDE DEF r
      <4> QED BY <1>0, <2>1, <2>2, <2>3, <4>1, <4>2, SameFollows, FollowsTransitive
    <3> QED BY <3>1, <3>2
  <2>5. store' \in ProviderState
    BY <2>4 DEF Follows
  <2> QED BY <1>2, <2>4, <2>5, FollowingKeepsAccounts DEF ClockKept
<1> QED BY <1>1, <1>2

\* `run' opens the state file.
LEMMA OpenRunInv == Inv /\ OpenRun => Inv' /\ ClockKept
<1> SUFFICES ASSUME Inv, OpenRun PROVE Inv' /\ ClockKept
  OBVIOUS
<1> DEFINE opened(p, m) ==
        \/ /\ store' = m /\ recovered' = FALSE
           /\ phase' = "idle" /\ opp' = None /\ command' = "run" /\ policy' = p
           /\ UNCHANGED crashes
        \/ TornCommit(m)
<1>0. PICK p \in RunPolicies : \E m \in open(store, p, now, recovered) : opened(p, m)
  BY DEF OpenRun
<1>1. PICK m \in open(store, p, now, recovered) : opened(p, m)
  BY <1>0
<1>2. p \in Policy
  BY PolicyAssumption
<1>3. UNCHANGED <<now, rollbacks, ghosts>>
  BY DEF OpenRun
<1>4. store' \in ProviderState /\ Accounts' /\ ClockKept
  BY <1>1, <1>2, <1>3, OpenInv DEF ghosts
<1>5. store' # None
  BY <1>4, NoneNotState
<1>6. /\ recovered' \in BOOLEAN /\ crashes' \in 0..MaxCrashes
      /\ phase' = "down" \/ (phase' = "idle" /\ policy' = p /\ command' = "run")
  <2>1. crashes \in 0..MaxCrashes
    BY DEF Inv, TypeOK
  <2>2. CASE TornCommit(m)
    BY <2>1, <2>2, BoundAssumption DEF TornCommit, Down
  <2>3. CASE ~TornCommit(m)
    BY <1>1, <2>1, <2>3
  <2> QED BY <2>2, <2>3
<1>7. TypeOK'
  <2>1. /\ now' \in 0..Horizon /\ rollbacks' \in 0..MaxRollbacks
        /\ started' \in [Days -> Nat] /\ lastStart' \in Time /\ promised' \in Time
        /\ discoveries' \in Nat
    BY <1>3 DEF Inv, TypeOK, ghosts
  <2>2. /\ phase' \in {"down", "idle", "offered", "running"}
        /\ phase' # "down" => policy' \in Policy /\ command' \in {"run", "once"}
        /\ phase' \notin {"offered", "running"}
    BY <1>2, <1>6
  <2> QED BY <1>4, <1>5, <1>6, <2>1, <2>2 DEF TypeOK
<1> QED BY <1>4, <1>7 DEF Inv

\* `once bandwidth' opens the state file and is admitted or refused.
LEMMA OpenOnceInv == Inv /\ OpenOnce => Inv' /\ ClockKept
<1> SUFFICES ASSUME Inv, OpenOnce PROVE Inv' /\ ClockKept
  OBVIOUS
<1> DEFINE refused(p, m) == BehindClock(m, now) \/ Blocked(m, p, now)
           opened(p, m) ==
        \/ /\ store' = m /\ recovered' = FALSE /\ UNCHANGED crashes
           /\ \/ refused(p, m) /\ Down /\ UNCHANGED discoveries
              \/ /\ ~refused(p, m)
                 /\ phase' = "offered" /\ command' = "once" /\ policy' = p
                 /\ \E i \in Interfaces : opp' = Manual(i)
                 /\ discoveries' = 1
        \/ TornCommit(m) /\ UNCHANGED discoveries
<1>0. PICK p \in OncePolicies : \E m \in open(store, p, now, recovered) : opened(p, m)
  BY DEF OpenOnce
<1>1. PICK m \in open(store, p, now, recovered) : opened(p, m)
  BY <1>0
<1>2. p \in Policy
  BY PolicyAssumption
<1>3. UNCHANGED <<now, rollbacks, started, lastStart, promised>>
  BY DEF OpenOnce
<1>4. store' \in ProviderState /\ Accounts' /\ ClockKept
  BY <1>1, <1>2, <1>3, OpenInv
<1>5. store' # None
  BY <1>4, NoneNotState
<1>6. \A i \in Interfaces : Manual(i) \in Opportunity
  BY DEF Manual, Opportunity
<1>7. /\ recovered' \in BOOLEAN /\ crashes' \in 0..MaxCrashes /\ discoveries' \in Nat
      /\ \/ phase' = "down"
         \/ phase' = "offered" /\ policy' = p /\ command' = "once" /\ opp' \in Opportunity
  <2>1. crashes \in 0..MaxCrashes /\ discoveries \in Nat
    BY DEF Inv, TypeOK
  <2>2. CASE TornCommit(m) /\ UNCHANGED discoveries
    BY <2>1, <2>2, BoundAssumption DEF TornCommit, Down
  <2>3. CASE ~(TornCommit(m) /\ UNCHANGED discoveries)
    <3>1. recovered' = FALSE /\ UNCHANGED crashes
      BY <1>1, <2>3
    <3>2. \/ phase' = "down" /\ UNCHANGED discoveries
          \/ /\ phase' = "offered" /\ command' = "once" /\ policy' = p
             /\ discoveries' = 1 /\ opp' \in Opportunity
      BY <1>1, <1>6, <2>3 DEF Down
    <3>3. discoveries' \in Nat
      BY <2>1, <3>2
    <3> QED BY <2>1, <3>1, <3>2, <3>3
  <2> QED BY <2>2, <2>3
<1>8. TypeOK'
  <2>1. /\ now' \in 0..Horizon /\ rollbacks' \in 0..MaxRollbacks
        /\ started' \in [Days -> Nat] /\ lastStart' \in Time /\ promised' \in Time
    BY <1>3 DEF Inv, TypeOK
  <2>2. /\ phase' \in {"down", "idle", "offered", "running"}
        /\ phase' # "down" => policy' \in Policy /\ command' \in {"run", "once"}
        /\ phase' \in {"offered", "running"} => opp' \in Opportunity
    BY <1>2, <1>7
  <2> QED BY <1>4, <1>5, <1>7, <2>1, <2>2 DEF TypeOK
<1> QED BY <1>4, <1>8 DEF Inv

\* A health decision is applied and persisted.
LEMMA ObserveInv == Inv /\ Observe => Inv' /\ ClockKept
<1> SUFFICES ASSUME Inv, NEW i \in Interfaces, NEW d \in Decisions,
                    observe_interface_health(i, d)
             PROVE  Inv' /\ ClockKept
  BY DEF Observe
<1>0. phase = "idle" /\ store \in ProviderState /\ now \in 0..Horizon /\ now \in Int
      /\ store.last_observed_utc \in Int /\ discoveries \in Nat
  BY DEF observe_interface_health, Inv, TypeOK, ProviderState
<1>1. PICK a \in advance_clock(store, policy, now) :
        Persist(HealthState(a, i, d, now), "idle", None) \/ Interrupted(a)
  BY DEF observe_interface_health
<1> DEFINE h == HealthState(a, i, d, now)
<1>2. a \in ProviderState /\ Follows(store, a, now)
      /\ a.last_observed_utc >= store.last_observed_utc
  BY <1>0, AdvanceClockFollows DEF Follows
<1>3. h \in ProviderState /\ SameAccounts(a, h) /\ h.last_observed_utc = a.last_observed_utc
  BY <1>0, <1>2, HealthFollows
<1>4. PICK m \in {a, h} : Persist(m, "idle", None)
  BY <1>1 DEF Persist
<1> HIDE DEF h
<1>5. Follows(store, m, now) /\ m.last_observed_utc >= store.last_observed_utc
  BY <1>0, <1>2, <1>3, SameFollows, FollowsTransitive
<1>6. UNCHANGED <<now, rollbacks, started, lastStart, promised>> /\ discoveries' \in Nat
  BY <1>0 DEF observe_interface_health, ghosts
<1> QED BY <1>0, <1>4, <1>5, <1>6, HandlerInv

\* Whatever a poll decides, it persists a state with the accounting of s.
LEMMA PollPersists ==
    ASSUME NEW s \in ProviderState, NEW success \in SUBSET Interfaces,
           discoveries \in Nat, MAX_RATE_LIMIT_ATTEMPTS \in Nat,
           PollDeferred(s) \/ PollRequest(s, success)
    PROVE  /\ \E m \in ProviderState, ph \in {"idle", "offered"} :
                 \E o \in Opportunity \cup {None} :
                   /\ SameAccounts(s, m) /\ m.last_observed_utc = s.last_observed_utc
                   /\ ph = "offered" => o \in Opportunity
                   /\ Persist(m, ph, o)
           /\ discoveries' \in Nat
<1>1. CASE PollDeferred(s)
  <2> DEFINE o == [reason |-> s.deferred.reason, interface |-> s.deferred.interface]
  <2>1. s.deferred \in Deferred
    BY <1>1 DEF PollDeferred, ProviderState
  <2>2. o \in Opportunity
    BY <2>1 DEF Deferred, Opportunity
  <2>3. Persist(s, "offered", o) /\ SameAccounts(s, s)
    BY <1>1 DEF PollDeferred, SameAccounts
  <2>4. discoveries' \in Nat
    BY <1>1 DEF PollDeferred, min, MaxDiscoveries
  <2> HIDE DEF o
  <2> QED BY <2>2, <2>3, <2>4
<1>2. CASE PollRequest(s, success)
  <2>1. CASE Persist(s, "idle", None) /\ UNCHANGED discoveries
    BY <2>1 DEF SameAccounts
  <2>2. CASE ~(Persist(s, "idle", None) /\ UNCHANGED discoveries)
    <3>1. PICK i \in Requests(s, now, success) :
            \/ /\ Persist(BlockedState(s, policy, now, i), "idle", None)
               /\ UNCHANGED discoveries
            \/ /\ Persist(OfferedState(s, now, i), "offered",
                     [reason |-> IF i = None THEN "scheduled" ELSE "ping",
                      interface |-> i])
               /\ discoveries' = IF phase' = "offered" THEN 1 ELSE discoveries
      BY <1>2, <2>2 DEF PollRequest
    <3>2. i \in Interfaces \cup {None}
      BY DEF Requests, oldest_eligible_pending_trigger
    <3> DEFINE b == BlockedState(s, policy, now, i)
               f == OfferedState(s, now, i)
               o == [reason |-> IF i = None THEN "scheduled" ELSE "ping", interface |-> i]
    <3>3. /\ b \in ProviderState /\ SameAccounts(s, b)
          /\ b.last_observed_utc = s.last_observed_utc
          /\ f \in ProviderState /\ SameAccounts(s, f)
          /\ f.last_observed_utc = s.last_observed_utc
      BY <3>2, PollFollows
    <3>4. o \in Opportunity
      BY <3>2 DEF Opportunity
    <3>5. discoveries' \in Nat
      BY <3>1
    <3>6. Persist(b, "idle", None) \/ Persist(f, "offered", o)
      BY <3>1
    <3> HIDE DEF b, f, o
    <3> QED BY <3>3, <3>4, <3>5, <3>6
  <2> QED BY <2>1, <2>2
<1> QED BY <1>1, <1>2

\* A poll is ignored behind the observed clock and persisted otherwise.
LEMMA PollInv == Inv /\ Poll => Inv' /\ ClockKept
<1> SUFFICES ASSUME Inv, NEW success \in SUBSET Interfaces, poll_interfaces(success)
             PROVE  Inv' /\ ClockKept
  BY DEF Poll
<1>0. /\ phase = "idle" /\ store \in ProviderState /\ now \in 0..Horizon /\ now \in Int
      /\ store.last_observed_utc \in Int /\ discoveries \in Nat
      /\ UNCHANGED <<now, rollbacks, started, lastStart, promised>>
  BY DEF poll_interfaces, Inv, TypeOK, ProviderState
<1>1. CASE UNCHANGED <<store, recovered, procVars, crashes, discoveries>>
  <2>1. TypeOK'
    BY <1>0, <1>1 DEF Inv, TypeOK, procVars
  <2>2. Accounts'
    BY <1>0, <1>1 DEF Inv, Accounts, NoRefund, Unopened, LastStartKept, DayNotAhead,
                      PromiseKept, HardCapRespected
  <2> QED BY <1>0, <1>1, <2>1, <2>2 DEF Inv, ClockKept
<1>2. CASE ~UNCHANGED <<store, recovered, procVars, crashes, discoveries>>
  <2> DEFINE Expired(a) == ExpireDeferred(ExpireTriggers(a, now), now)
  <2>1. PICK a \in advance_clock(store, policy, now) :
          \/ PollDeferred(Expired(a)) \/ PollRequest(Expired(a), success)
          \/ \E m \in {a, ExpireTriggers(a, now), Expired(a)} :
                Interrupted(m) /\ UNCHANGED discoveries
    BY <1>2 DEF poll_interfaces
  <2> DEFINE s == ExpireDeferred(ExpireTriggers(a, now), now)
             e == ExpireTriggers(a, now)
  <2>2. a \in ProviderState /\ Follows(store, a, now)
        /\ a.last_observed_utc >= store.last_observed_utc
    BY <1>0, AdvanceClockFollows DEF Follows
  <2>3. /\ s \in ProviderState /\ SameAccounts(a, s)
        /\ s.last_observed_utc = a.last_observed_utc
        /\ e \in ProviderState /\ SameAccounts(a, e)
        /\ e.last_observed_utc = a.last_observed_utc
    BY <2>2, ExpiryFollows
  <2>4. \/ PollDeferred(s) \/ PollRequest(s, success)
        \/ \E m \in {a, e, s} : Interrupted(m) /\ UNCHANGED discoveries
    BY <2>1
  <2> HIDE DEF s, e, Expired
  <2>i. CASE \E m \in {a, e, s} : Interrupted(m) /\ UNCHANGED discoveries
    <3>1. PICK m \in {a, e, s} : Interrupted(m) /\ UNCHANGED discoveries
      BY <2>i
    <3>2. Follows(store, m, now) /\ m.last_observed_utc >= store.last_observed_utc
      BY <1>0, <2>2, <2>3, SameFollows, FollowsTransitive
    <3>3. Persist(m, "idle", None) /\ discoveries' \in Nat
      BY <1>0, <3>1 DEF Persist
    <3> QED BY <1>0, <3>2, <3>3, HandlerInv
  <2>d. CASE PollDeferred(s) \/ PollRequest(s, success)
    <3>1. /\ \E m \in ProviderState, ph \in {"idle", "offered"} :
               \E o \in Opportunity \cup {None} :
                 /\ SameAccounts(s, m) /\ m.last_observed_utc = s.last_observed_utc
                 /\ ph = "offered" => o \in Opportunity
                 /\ Persist(m, ph, o)
          /\ discoveries' \in Nat
      BY <1>0, <2>3, <2>d, CapAssumption, PollPersists
    <3>2. PICK m \in ProviderState, ph \in {"idle", "offered"} :
               \E o \in Opportunity \cup {None} :
                 /\ SameAccounts(s, m) /\ m.last_observed_utc = s.last_observed_utc
                 /\ ph = "offered" => o \in Opportunity
                 /\ Persist(m, ph, o)
      BY <3>1
    <3>3. PICK o \in Opportunity \cup {None} :
                 /\ SameAccounts(s, m) /\ m.last_observed_utc = s.last_observed_utc
                 /\ ph = "offered" => o \in Opportunity
                 /\ Persist(m, ph, o)
      BY <3>2
    <3>4. SameAccounts(a, m)
      BY <2>3, <3>3 DEF SameAccounts
    <3>5. Follows(store, m, now) /\ m.last_observed_utc >= store.last_observed_utc
      BY <1>0, <2>2, <2>3, <3>3, <3>4, SameFollows, FollowsTransitive
    <3> QED BY <1>0, <3>1, <3>3, <3>5, HandlerInv
  <2> QED BY <2>4, <2>i, <2>d
<1> QED BY <1>1, <1>2

\* An admitted start is accounted for, and was allowed by what the store
\* accounts for.
LEMMA ReserveInv == Inv /\ reserve_run => Inv' /\ ClockKept
<1> SUFFICES ASSUME Inv, reserve_run PROVE Inv' /\ ClockKept
  OBVIOUS
<1>0. /\ phase = "offered" /\ store \in ProviderState /\ store # None
      /\ now \in 0..Horizon /\ now \in Int /\ date(now) \in Int /\ date(now) \in Days
      /\ started \in [Days -> Nat] /\ lastStart \in Time /\ promised \in Time
      /\ discoveries \in Nat /\ opp \in Opportunity
      /\ store.last_observed_utc \in Int /\ store.day_utc \in Int
      /\ store.runs \in [Days -> Nat]
      /\ UNCHANGED <<now, rollbacks, promised, discoveries>>
  BY DateInDays, DateType DEF reserve_run, Inv, TypeOK, ProviderState
<1>1. PICK s \in reconcile_day(store, policy, now) :
        ~Blocked(s, policy, now) /\ Persist(Reserved(s, now), "running", opp)
  BY DEF reserve_run
<1>2. /\ s \in ProviderState /\ Follows(store, s, now)
      /\ s.runs[date(now)] = store.runs[date(now)] /\ s.runs \in [Days -> Nat]
      /\ s.last_observed_utc = store.last_observed_utc /\ s.day_utc \in Int
  BY <1>0, ReconcileDayFollows DEF Follows, ProviderState
<1> DEFINE m == Reserved(s, now)
<1>3. /\ Follows(s, m, now) /\ m \in ProviderState
      /\ m.day_utc = s.day_utc /\ m.runs = [s.runs EXCEPT ![date(now)] = @ + 1]
      /\ m.last_started_at_utc # None /\ m.last_started_at_utc >= now
      /\ m.last_observed_utc >= store.last_observed_utc
  BY <1>0, <1>2, ReservedFollows DEF Follows
<1>4. Persist(m, "running", opp)
  BY <1>1
<1> HIDE DEF m
<1>5. Follows(store, m, now)
  BY <1>0, <1>2, <1>3, FollowsTransitive
<1>6. /\ ProcessOK' /\ store' \in ProviderState /\ Advances(store, store', now)
      /\ KeepsCooldown(store, store', now)
      /\ phase' = "running" => store' = m
      /\ ClockKept
  BY <1>0, <1>3, <1>4, <1>5, PersistKeeps DEF Follows, Inv
<1>7. CASE phase' # "running"
  <2>1. UNCHANGED <<started, lastStart>>
    BY <1>7 DEF reserve_run
  <2>2. Accounts'
    BY <1>0, <1>6, <2>1, FollowingKeepsAccounts DEF Follows
  <2> QED BY <1>0, <1>6, <2>1, <2>2, HandlerType DEF Inv
<1>8. CASE phase' = "running"
  <2>1. started' = [started EXCEPT ![date(now)] = @ + 1] /\ lastStart' = now /\ store' = m
    BY <1>6, <1>8 DEF reserve_run
  <2>2. started' \in [Days -> Nat] /\ lastStart' \in Time
    BY <1>0, <2>1 DEF Time
  <2>3. TypeOK'
    BY <1>0, <1>6, <2>2, HandlerType DEF Inv
  <2>4. NoRefund'
    <3> SUFFICES ASSUME NEW d \in Days, d >= m.day_utc PROVE started'[d] <= m.runs[d]
      BY <2>1 DEF NoRefund
    <3>1. d \in Int /\ d >= store.day_utc /\ d >= s.day_utc
      BY <1>0, <1>2, <1>3 DEF Follows, Advances, Days
    <3>2. started[d] <= store.runs[d]
      BY <1>0, <3>1 DEF Inv, Accounts, NoRefund
    <3>3. store.runs[d] <= s.runs[d]
      BY <1>0, <1>2, <3>1 DEF Follows, Advances
    <3> QED BY <1>0, <1>2, <1>3, <2>1, <3>2, <3>3
  <2>5. Unopened' /\ LastStartKept'
    BY <1>3, <1>6, <2>1, NoneNotState DEF Unopened, LastStartKept
  <2>6. DayNotAhead'
    BY <1>0, <1>6 DEF Inv, Accounts, DayNotAhead, Advances
  <2>7. PromiseKept'
    BY <1>0, <1>6, PromiseSurvives
  <2>8. HardCapRespected'
    <3> SUFFICES ASSUME Mlab, rollbacks = 0, NEW d \in Days PROVE started'[d] <= HardCap
      BY <1>0 DEF HardCapRespected
    <3>1. started[d] <= HardCap
      BY DEF Inv, Accounts, HardCapRespected
    <3>2. started[date(now)] <= store.runs[date(now)]
      BY <1>0 DEF Inv, Accounts, DayNotAhead, NoRefund
    <3>3. ~(s.runs[date(now)] >= HardCap)
      BY <1>1 DEF Blocked, CapReached
    <3> QED BY <1>0, <1>2, <2>1, <3>1, <3>2, <3>3, CapAssumption
  <2> QED BY <1>6, <2>3, <2>4, <2>5, <2>6, <2>7, <2>8 DEF Inv, Accounts
<1> QED BY <1>7, <1>8

\* A rejected reservation starts nothing.
LEMMA RejectInv == Inv /\ reserve_rejected => Inv' /\ ClockKept
<1> SUFFICES ASSUME Inv, reserve_rejected PROVE Inv' /\ ClockKept
  OBVIOUS
<1>0. /\ phase = "offered" /\ store \in ProviderState /\ now \in 0..Horizon
      /\ store.last_observed_utc \in Int /\ discoveries' \in Nat
      /\ UNCHANGED <<now, rollbacks, started, lastStart, promised, discoveries>>
  BY DEF reserve_rejected, Inv, TypeOK, ProviderState, ghosts
<1>1. PICK s \in reconcile_day(store, policy, now) :
        IF command = "once" THEN Persist(s, "down", None)
        ELSE Down /\ UNCHANGED <<store, recovered, crashes>>
  BY DEF reserve_rejected
<1>2. Follows(store, s, now) /\ s.last_observed_utc >= store.last_observed_utc
  BY <1>0, ReconcileDayFollows
<1>3. CASE command = "once"
  BY <1>0, <1>1, <1>2, <1>3, HandlerInv
<1>4. CASE command # "once"
  <2>1. phase' = "down" /\ UNCHANGED <<store, recovered, crashes>>
    BY <1>1, <1>4 DEF Down
  <2>2. TypeOK'
    BY <1>0, <2>1 DEF Inv, TypeOK
  <2>3. Accounts'
    BY <1>0, <2>1 DEF Inv, Accounts, NoRefund, Unopened, LastStartKept, DayNotAhead,
                      PromiseKept, HardCapRespected
  <2> QED BY <1>0, <2>1, <2>2, <2>3 DEF Inv, ClockKept
<1> QED BY <1>3, <1>4

\* A rate limit prolongs the cooldown at least to the new deadline.
LEMMA FinishRateLimitedInv ==
    ASSUME Inv, phase \in {"offered", "running"}, NEW reserved \in BOOLEAN,
           NEW retry_at \in Time, FinishRateLimited(reserved, retry_at),
           UNCHANGED <<now, rollbacks, started, lastStart>>, discoveries' \in Nat
    PROVE  Inv' /\ ClockKept
<1>0. /\ store \in ProviderState /\ store # None /\ now \in 0..Horizon /\ now \in Int
      /\ opp \in Opportunity /\ promised \in Time /\ phase # "down"
      /\ store.last_observed_utc \in Int /\ store.cooldown_until_utc \in Time
      /\ started' \in [Days -> Nat] /\ lastStart' \in Time
      /\ AfterAttempt \in {"down", "idle"}
  BY DEF Inv, TypeOK, ProviderState, AfterAttempt
<1> DEFINE limited(d) == RateLimited(store, opp, now, reserved,
                                     maxOpt(store.cooldown_until_utc, d))
<1>1. PICK d \in Deadlines(store, now, retry_at) :
        /\ \E m \in replan_remaining(limited(d), policy, now) :
               Persist(m, AfterAttempt, None)
        /\ promised' = maxOpt(promised, d)
  BY DEF FinishRateLimited
<1>2. PICK m \in replan_remaining(limited(d), policy, now) :
        Persist(m, AfterAttempt, None)
  BY <1>1
<1>3. d \in Int
  <2>1. CASE retry_at # None
    BY <2>1 DEF Deadlines, Time
  <2>2. CASE retry_at = None
    BY <1>0, <2>2 DEF Deadlines, jitter_duration
  <2> QED BY <2>1, <2>2
<1>4. /\ limited(d) \in ProviderState /\ Follows(store, limited(d), now)
      /\ limited(d).cooldown_until_utc \in Int /\ limited(d).cooldown_until_utc >= d
      /\ limited(d).last_observed_utc = store.last_observed_utc
  BY <1>0, <1>3, RateLimitedFollows DEF Follows
<1>5. /\ m \in ProviderState /\ SameAccounts(limited(d), m)
      /\ m.last_observed_utc = limited(d).last_observed_utc
  BY <1>4, ReplanFollows
<1> HIDE DEF limited
<1>6. Follows(store, m, now) /\ m.last_observed_utc >= store.last_observed_utc
  BY <1>0, <1>4, <1>5, SameFollows, FollowsTransitive
<1>7. /\ ProcessOK' /\ store' \in ProviderState /\ SameAccounts(m, store')
      /\ Advances(store, store', now) /\ KeepsCooldown(store, store', now) /\ ClockKept
  BY <1>0, <1>2, <1>5, <1>6, PersistKeeps DEF Follows, Inv
<1>8. store'.cooldown_until_utc \in Int /\ store'.cooldown_until_utc >= d
  BY <1>4, <1>5, <1>7 DEF SameAccounts
<1>9. promised' \in Int /\ (promised' = d \/ promised' = promised)
  BY <1>0, <1>1, <1>3, NoneAssumption DEF maxOpt, max, Time
<1>10. PromiseKept'
  <2>1. CASE promised' = d
    BY <1>8, <2>1, NoneAssumption DEF PromiseKept
  <2>2. CASE promised' = promised
    BY <1>0, <1>7, <2>2, PromiseSurvives
  <2> QED BY <1>9, <2>1, <2>2
<1>11. Accounts'
  BY <1>0, <1>7, <1>10, AdvancingKeepsAccounts DEF Accounts
<1>12. TypeOK'
  <2>1. promised' \in Time
    BY <1>9 DEF Time
  <2> QED BY <1>0, <1>7, <2>1, HandlerType DEF Inv
<1> QED BY <1>7, <1>11, <1>12 DEF Inv

\* The end of an attempt that was not rate-limited.
LEMMA FinishOtherInv ==
    ASSUME Inv, phase \in {"offered", "running"}, NEW reserved \in BOOLEAN,
           NEW ok \in BOOLEAN, FinishOther(reserved, ok),
           UNCHANGED <<now, rollbacks, started, lastStart>>, discoveries' \in Nat
    PROVE  Inv' /\ ClockKept
<1>0. /\ store \in ProviderState /\ store # None /\ now \in 0..Horizon /\ now \in Int
      /\ opp \in Opportunity /\ promised \in Time /\ phase # "down"
      /\ store.last_observed_utc \in Int
      /\ started' \in [Days -> Nat] /\ lastStart' \in Time
      /\ AfterAttempt \in {"down", "idle"}
  BY DEF Inv, TypeOK, ProviderState, AfterAttempt
<1> DEFINE c == Completed(store, opp, ok)
<1>1. PICK m \in Resettled(c, policy, opp, now, reserved) : Persist(m, AfterAttempt, None)
  BY DEF FinishOther
<1>2. /\ c \in ProviderState /\ Advances(store, c, now)
      /\ ~ok => KeepsCooldown(store, c, now)
      /\ c.last_observed_utc = store.last_observed_utc
  BY <1>0, CompletedFollows
<1> HIDE DEF c
<1>3. m \in ProviderState /\ SameAccounts(c, m) /\ m.last_observed_utc = c.last_observed_utc
  BY <1>2, ResettledSame
<1>4. Advances(store, m, now) /\ (~ok => KeepsCooldown(store, m, now))
  BY <1>2, <1>3 DEF Advances, KeepsCooldown, SameAccounts
<1>5. /\ ProcessOK' /\ store' \in ProviderState /\ Advances(store, store', now)
      /\ ~ok => KeepsCooldown(store, store', now)
      /\ ClockKept
  BY <1>0, <1>1, <1>2, <1>3, <1>4, PersistKeeps DEF Inv
<1>6. promised' = (IF ok THEN None ELSE promised)
  BY DEF FinishOther
<1>7. PromiseKept' /\ promised' \in Time
  <2>1. CASE ok
    BY <1>6, <2>1 DEF PromiseKept, Time
  <2>2. CASE ~ok
    BY <1>0, <1>5, <1>6, <2>2, PromiseSurvives
  <2> QED BY <2>1, <2>2
<1>8. Accounts'
  BY <1>0, <1>5, <1>7, AdvancingKeepsAccounts DEF Accounts
<1>9. TypeOK'
  BY <1>0, <1>5, <1>7, HandlerType DEF Inv
<1> QED BY <1>5, <1>8, <1>9 DEF Inv

\* The end of an attempt, reserved or not.
LEMMA FinishInv == Inv /\ (finish_unreserved \/ finish_reserved) => Inv' /\ ClockKept
<1> SUFFICES ASSUME Inv, finish_unreserved \/ finish_reserved PROVE Inv' /\ ClockKept
  OBVIOUS
<1>0. /\ phase \in {"offered", "running"}
      /\ UNCHANGED <<now, rollbacks, started, lastStart>>
      /\ discoveries' \in Nat /\ now \in Int
  <2>1. discoveries \in Nat /\ now \in Int
    BY DEF Inv, TypeOK
  <2>2. discoveries' = (IF store'.deferred = None THEN 0 ELSE discoveries)
    BY DEF finish_unreserved, finish_reserved
  <2>3. phase \in {"offered", "running"} /\ UNCHANGED <<now, rollbacks, started, lastStart>>
    BY DEF finish_unreserved, finish_reserved
  <2>4. discoveries' \in Nat
    BY <2>1, <2>2
  <2> QED BY <2>1, <2>3, <2>4
<1>1. PICK reserved \in BOOLEAN :
        \/ FinishRateLimited(reserved, None)
        \/ \E r \in RetryAfters : FinishRateLimited(reserved, now + r)
        \/ \E ok \in BOOLEAN : FinishOther(reserved, ok)
  <2>1. CASE finish_unreserved
    BY <2>1 DEF finish_unreserved
  <2>2. CASE finish_reserved
    BY <2>2 DEF finish_reserved
  <2> QED BY <2>1, <2>2
<1>2. CASE FinishRateLimited(reserved, None)
  <2>1. None \in Time
    BY DEF Time
  <2> QED BY <1>0, <1>2, <2>1, FinishRateLimitedInv
<1>3. CASE \E r \in RetryAfters : FinishRateLimited(reserved, now + r)
  <2>1. PICK r \in RetryAfters : FinishRateLimited(reserved, now + r)
    BY <1>3
  <2>2. now + r \in Time
    BY <1>0, TimeAssumption DEF Time
  <2> QED BY <1>0, <2>1, <2>2, FinishRateLimitedInv
<1>4. CASE \E ok \in BOOLEAN : FinishOther(reserved, ok)
  BY <1>0, <1>4, FinishOtherInv
<1> QED BY <1>1, <1>2, <1>3, <1>4

\* Inv is inductive, and no step forgets how far the clock had come.
LEMMA NextInv == Inv /\ [Next]_vars => Inv' /\ (ClockKept \/ UNCHANGED vars)
<1> SUFFICES ASSUME Inv, [Next]_vars PROVE Inv' /\ (ClockKept \/ UNCHANGED vars)
  OBVIOUS
<1>1. CASE UNCHANGED vars
  <2>1. TypeOK'
    BY <1>1 DEF Inv, TypeOK, vars, procVars, ghosts
  <2>2. Accounts'
    BY <1>1 DEF Inv, Accounts, NoRefund, Unopened, LastStartKept, DayNotAhead,
                PromiseKept, HardCapRespected, vars, ghosts
  <2> QED BY <1>1, <2>1, <2>2 DEF Inv
<1>2. CASE Tick \/ StepBack
  BY <1>2, ClockInv
<1>3. CASE OpenRun
  BY <1>3, OpenRunInv
<1>4. CASE OpenOnce
  BY <1>4, OpenOnceInv
<1>5. CASE Stop \/ Crash
  BY <1>5, EndInv
<1>6. CASE Observe
  BY <1>6, ObserveInv
<1>7. CASE Poll
  BY <1>7, PollInv
<1>8. CASE reserve_run
  BY <1>8, ReserveInv
<1>9. CASE reserve_rejected
  BY <1>9, RejectInv
<1>10. CASE finish_unreserved \/ finish_reserved
  BY <1>10, FinishInv
<1> QED BY <1>1, <1>2, <1>3, <1>4, <1>5, <1>6, <1>7, <1>8, <1>9, <1>10 DEF Next

\* The inductive invariant holds in every reachable state.
THEOREM InvHolds == Spec => []Inv
<1>1. Init => Inv
  BY InitInv
<1>2. Inv /\ [Next]_vars => Inv'
  BY NextInv
<1> QED BY <1>1, <1>2, PTL DEF Spec

-----------------------------------------------------------------------------
(* What a start was admitted against.                                      *)

\* Only reserve_run starts anything.
LEMMA StartsInReserve ==
    ASSUME [Next]_vars, started' # started PROVE reserve_run /\ phase' = "running"
<1>1. ~UNCHANGED vars
  BY DEF vars, ghosts
<1>2. ~(Tick \/ StepBack \/ OpenRun \/ OpenOnce \/ Stop \/ Crash)
  BY DEF Tick, StepBack, OpenRun, OpenOnce, Stop, Crash, ghosts
<1>3. ~(Observe \/ Poll)
  BY DEF Observe, Poll, observe_interface_health, poll_interfaces, ghosts
<1>4. ~(reserve_rejected \/ finish_unreserved \/ finish_reserved)
  BY DEF reserve_rejected, finish_unreserved, finish_reserved, ghosts
<1>5. reserve_run
  BY <1>1, <1>2, <1>3, <1>4 DEF Next
<1> QED BY <1>5 DEF reserve_run

\* An admitted start passed block_reason on accounting that follows the
\* store's.
LEMMA StartAdmitted ==
    ASSUME Inv, [Next]_vars, started' # started
    PROVE  /\ store \in ProviderState /\ policy \in Policy
           /\ now \in 0..Horizon /\ date(now) \in Days
           /\ \E s \in ProviderState :
                /\ Follows(store, s, now) /\ ~Blocked(s, policy, now)
                /\ s.runs[date(now)] = store.runs[date(now)]
                /\ s.last_started_at_utc = store.last_started_at_utc
<1>1. reserve_run
  BY StartsInReserve
<1>2. store \in ProviderState /\ policy \in Policy /\ now \in 0..Horizon
  BY <1>1 DEF reserve_run, Inv, TypeOK
<1>3. PICK s \in reconcile_day(store, policy, now) : ~Blocked(s, policy, now)
  BY <1>1 DEF reserve_run
<1>4. /\ s \in ProviderState /\ Follows(store, s, now)
      /\ s.runs[date(now)] = store.runs[date(now)]
      /\ s.last_started_at_utc = store.last_started_at_utc
  BY <1>2, ReconcileDayFollows DEF Follows
<1> QED BY <1>2, <1>3, <1>4, DateInDays

\* A step that starts something keeps the minimum spacing.
LEMMA SpacingAction == Inv /\ [Next]_vars => SpacingStep
<1> SUFFICES ASSUME Inv, [Next]_vars, started' # started, ~policy.force_limits,
                    lastStart # None
             PROVE  now >= lastStart + policy.min_spacing
  BY DEF SpacingStep
<1>1. PICK s \in ProviderState : ~Blocked(s, policy, now)
                /\ s.last_started_at_utc = store.last_started_at_utc
  BY StartAdmitted
<1>2. ~TooSoon(s, policy, now)
  BY <1>1 DEF Blocked
<1>3. s.last_started_at_utc # None /\ s.last_started_at_utc >= lastStart
  BY <1>1 DEF Inv, Accounts, LastStartKept
<1>4. /\ s.last_started_at_utc \in Int /\ lastStart \in Int /\ now \in Int
      /\ policy.min_spacing \in Int
  BY <1>3, StartAdmitted DEF ProviderState, Time, Policy, Inv, TypeOK
<1> QED BY <1>2, <1>3, <1>4 DEF TooSoon

\* A step that starts something respects the daily maximum.
LEMMA CapAction == Inv /\ [Next]_vars => CapStep
<1> SUFFICES ASSUME Inv, [Next]_vars, rollbacks = 0, started' # started,
                    ~policy.force_limits
             PROVE  started[date(now)] < policy.daily_max
  BY DEF CapStep
<1>1. PICK s \in ProviderState : ~Blocked(s, policy, now)
                /\ s.runs[date(now)] = store.runs[date(now)]
  BY StartAdmitted
<1>2. ~(s.runs[date(now)] >= policy.daily_max)
  BY <1>1 DEF Blocked, CapReached
<1>3. /\ store \in ProviderState /\ store # None /\ date(now) \in Days /\ date(now) \in Int
      /\ store.runs[date(now)] \in Int
      /\ policy.daily_max \in Int /\ started[date(now)] \in Int
  <2>1. store \in ProviderState /\ date(now) \in Days /\ policy \in Policy
    BY StartAdmitted
  <2>2. store # None
    BY <2>1, NoneNotState
  <2>3. date(now) \in Int
    BY <2>1 DEF Days
  <2>4. store.runs \in [Days -> Nat] /\ started \in [Days -> Nat] /\ policy.daily_max \in Nat
    BY <2>1 DEF ProviderState, Policy, Inv, TypeOK
  <2> QED BY <2>1, <2>2, <2>3, <2>4
<1>4. started[date(now)] <= store.runs[date(now)]
  BY <1>3 DEF Inv, Accounts, NoRefund, DayNotAhead
<1> QED BY <1>1, <1>2, <1>3, <1>4

\* A step that starts something comes after every promised deadline.
LEMMA CooldownAction == Inv /\ [Next]_vars => CooldownStep
<1> SUFFICES ASSUME Inv, [Next]_vars, rollbacks = 0, started' # started,
                    ~policy.force_limits, promised # None, ~(now >= promised)
             PROVE  FALSE
  BY DEF CooldownStep
<1>1. PICK s \in ProviderState : Follows(store, s, now) /\ ~Blocked(s, policy, now)
  BY StartAdmitted
<1>2. ~InCooldown(s, now)
  BY <1>1 DEF Blocked
<1>3. /\ store.cooldown_until_utc \in Time /\ s.cooldown_until_utc \in Time
      /\ now \in Int /\ promised \in Int
  BY StartAdmitted DEF ProviderState, Inv, TypeOK, Time
<1>4. store.cooldown_until_utc # None /\ store.cooldown_until_utc >= promised
  BY <1>3 DEF Inv, Accounts, PromiseKept
<1>5. s.cooldown_until_utc # None /\ s.cooldown_until_utc >= store.cooldown_until_utc
  BY <1>1, <1>3, <1>4 DEF Follows, KeepsCooldown, Time
<1> QED BY <1>2, <1>3, <1>4, <1>5 DEF InCooldown, Time

-----------------------------------------------------------------------------
(* The plan: strata planned one after the other. *)

\* A set of numbers that is not empty has a least member: what the proofs use
\* in place of an induction.
LEMMA Smallest ==
    ASSUME NEW X \in SUBSET Nat, X # {}
    PROVE  \E m \in X : \A k \in X : m <= k
<1> DEFINE T == {0..i : i \in X}
<1>1. T \subseteq FiniteSubsetsOf(Nat)
  <2>1. ASSUME NEW i \in X PROVE IsFiniteSet(0..i) /\ 0..i \in SUBSET Nat
    BY <2>1, FS_Interval
  <2> QED
    BY <2>1 DEF FiniteSubsetsOf
<1>2. T # {}
  OBVIOUS
<1>3. PICK x \in T : \A y \in T : ~ (<<y, x>> \in StrictSubsetOrdering(Nat))
  <2> HIDE DEF T
  <2> QED
    BY <1>1, <1>2, WFMin, FS_StrictSubsetOrderingWellFounded
<1>4. PICK m \in X : x = 0..m
  BY <1>3
<1>5. ASSUME NEW k \in X, k < m PROVE FALSE
  <2>1. 0..k \subseteq 0..m /\ 0..k # 0..m /\ 0..k \in SUBSET Nat /\ 0..m \in SUBSET Nat
    <3>1. m \in 0..m /\ m \notin 0..k
      BY <1>5
    <3> QED
      BY <1>5, <3>1
  <2>2. <<0..k, 0..m>> \in StrictSubsetOrdering(Nat)
    BY <2>1 DEF StrictSubsetOrdering
  <2> QED
    BY <1>3, <1>4, <2>2
<1> QED
  BY <1>5

\* Where f holds the plans after each of the first m of count strata.
Strata(f, m, p, earliest, end, count) ==
    f = [n \in 0..m |-> IF n = 0 THEN {{}}
                        ELSE Extended(f[n - 1], p, earliest, end, count, n - 1)]

\* The strata are planned one after the other, so that all of them can be.
LEMMA StrataExist ==
    ASSUME NEW p, NEW earliest, NEW end, NEW count \in Nat
    PROVE  \E f : Strata(f, count, p, earliest, end, count)
<1> DEFINE Planned(m) == \E f : Strata(f, m, p, earliest, end, count)
           Missing == {m \in Nat : ~Planned(m)}
<1>1. Missing = {}
  <2> SUFFICES ASSUME Missing # {} PROVE FALSE
    OBVIOUS
  <2>1. PICK m \in Missing : \A k \in Missing : m <= k
    <3> Missing \in SUBSET Nat
      OBVIOUS
    <3> HIDE DEF Missing
    <3> QED
      BY Smallest
  <2>2. CASE m = 0
    <3> DEFINE f == [n \in 0..0 |-> {{}}]
    <3>1. Strata(f, 0, p, earliest, end, count)
      BY DEF Strata
    <3> QED
      BY <2>2, <3>1
  <2>3. CASE m # 0
    <3>1. m - 1 \in Nat /\ ~(m - 1 \in Missing)
      BY <2>1, <2>3
    <3>2. PICK f : Strata(f, m - 1, p, earliest, end, count)
      BY <3>1
    <3> DEFINE E(qs, n) == Extended(qs, p, earliest, end, count, n)
               g == [n \in 0..m |-> IF n = m THEN E(f[m - 1], m - 1) ELSE f[n]]
               h == [n \in 0..m |-> IF n = 0 THEN {{}} ELSE E(g[n - 1], n - 1)]
    <3>3. \A n \in 0..(m - 1) : f[n] = IF n = 0 THEN {{}} ELSE E(f[n - 1], n - 1)
      BY <3>2 DEF Strata
    <3> HIDE DEF E
    <3>4. ASSUME NEW n \in 0..m PROVE g[n] = h[n]
      <4>1. CASE n = m
        <5>1. m - 1 \in 0..m /\ m - 1 # m /\ m # 0
          BY <3>1, <2>3
        <5>2. g[m - 1] = f[m - 1]
          BY <5>1
        <5> QED
          BY <4>1, <5>1, <5>2
      <4>2. CASE n # m /\ n # 0
        <5>1. n - 1 \in 0..m /\ n - 1 # m /\ n \in 0..(m - 1)
          BY <4>2, <3>1
        <5>2. g[n - 1] = f[n - 1] /\ g[n] = f[n]
          BY <4>2, <5>1
        <5> QED
          BY <3>3, <4>2, <5>1, <5>2
      <4>3. CASE n # m /\ n = 0
        <5>1. 0 \in 0..(m - 1)
          BY <3>1
        <5> QED
          BY <3>3, <4>3, <5>1
      <4> QED
        BY <4>1, <4>2, <4>3
    <3>5. g = h
      BY <3>4
    <3>6. Strata(g, m, p, earliest, end, count)
      <4> HIDE DEF g
      <4> QED
        BY <3>5 DEF Strata, E
    <3> QED
      BY <2>1, <3>6
  <2> QED
    BY <2>2, <2>3
<1> QED
  BY <1>1

\* A plan that begins at earliest and keeps the spacing.
Spaced(q, earliest, spacing) ==
    /\ q \in SUBSET Int /\ \A x \in q : x >= earliest
    /\ \A x, y \in q : x < y => y >= x + spacing

\* One candidate more keeps the spacing of a plan.
LEMMA KeepSlotSpaced ==
    ASSUME NEW earliest \in Int, NEW end \in Int, NEW spacing \in Nat \ {0},
           NEW q, Spaced(q, earliest, spacing),
           NEW candidate \in Int, candidate >= earliest
    PROVE  Spaced(KeepSlot(q, candidate, spacing, end), earliest, spacing)
BY DEF Spaced, KeepSlot

\* A candidate is never before the earliest time.
LEMMA SlotWindowLater ==
    ASSUME NEW p \in Policy, NEW total \in Nat, NEW count \in Nat \ {0},
           NEW i \in Nat, NEW x \in SlotWindow(p, total, count, i)
    PROVE  x \in Nat
<1> DEFINE a == total * i
           lo == a \div count
           b == (total * (i + 1)) \div count
           width == max(b - lo, 1)
           scaled == width * p.slot_jitter_pct
           jitter == scaled \div 100
           middle == lo + (width - jitter) \div 2
<1>0. p.slot_jitter_pct \in 0..100
  BY DEF Policy
<1>1. a \in Nat /\ total * (i + 1) \in Nat
  BY Z3
<1> HIDE DEF a
<1>2. lo \in Nat
  BY <1>1, Z3
<1>3. b \in Int
  BY <1>1, Z3
<1> HIDE DEF lo, b
<1>4. width \in Nat \ {0}
  BY <1>2, <1>3 DEF max
<1> HIDE DEF width
<1>5. scaled \in Nat /\ scaled <= width * 100
  BY <1>0, <1>4, Z3
<1> HIDE DEF scaled
<1>6. jitter \in Nat /\ jitter <= width
  BY <1>4, <1>5, Z3
<1> HIDE DEF jitter
<1>7. middle \in Nat
  BY <1>2, <1>4, <1>6, Z3
<1>8. x = middle \/ x \in middle..(middle + jitter - 1)
  BY DEF SlotWindow, a, lo, b, width, scaled, jitter
<1> HIDE DEF middle
<1> QED
  BY <1>6, <1>7, <1>8

\* A plan begins no earlier than a start is allowed and keeps the spacing.
LEMMA PlanSpaced ==
    ASSUME NEW s \in ProviderState, NEW p \in Policy, NEW start \in Int, NEW end \in Int,
           NEW count \in Nat, NEW q \in plan_interval(s, p, start, end, count)
    PROVE  Spaced(q, Earliest(s, p, start), p.min_spacing)
<1> DEFINE earliest == Earliest(s, p, start)
<1>1. earliest \in Int
  BY DEF Earliest, max, ProviderState, Time, Policy
<1>2. p.min_spacing \in Nat \ {0}
  BY DEF Policy
<1>3. CASE q = {}
  BY <1>3 DEF Spaced
<1>4. CASE q # {}
  <2> DEFINE plans == CHOOSE f : Strata(f, count, p, earliest, end, count)
  <2>1. q \in plans[count] /\ count # 0 /\ earliest < end
    <3>1. q \notin {{}}
      BY <1>4
    <3> QED
      BY <3>1, <1>1 DEF plan_interval, Strata
  <2>2. Strata(plans, count, p, earliest, end, count)
    <3>1. \E f : Strata(f, count, p, earliest, end, count)
      BY StrataExist
    <3> QED
      BY <3>1
  <2> HIDE DEF plans, earliest
  <2> DEFINE Good(n) == \A r \in plans[n] : Spaced(r, earliest, p.min_spacing)
             Bad == {n \in 0..count : ~Good(n)}
  <2>3. \A n \in 0..count : plans[n] =
            IF n = 0 THEN {{}} ELSE Extended(plans[n - 1], p, earliest, end, count, n - 1)
    BY <2>2 DEF Strata
  <2>4. ASSUME NEW n \in 0..count, n = 0 \/ Good(n - 1) PROVE Good(n)
    <3>1. CASE n = 0
      BY <2>3, <3>1 DEF Spaced
    <3>2. CASE n # 0
      <4> SUFFICES ASSUME NEW r \in Extended(plans[n - 1], p, earliest, end, count, n - 1)
                   PROVE  Spaced(r, earliest, p.min_spacing)
        BY <2>3, <3>2
      <4>1. PICK u \in plans[n - 1], x \in SlotWindow(p, end - earliest, count, n - 1) :
              r = KeepSlot(u, earliest + x, p.min_spacing, end)
        BY DEF Extended
      <4>2. end - earliest \in Nat /\ count \in Nat \ {0} /\ n - 1 \in Nat
        BY <1>1, <2>1, <3>2
      <4>3. x \in Nat
        BY <4>1, <4>2, SlotWindowLater
      <4>4. earliest + x \in Int /\ earliest + x >= earliest
        BY <1>1, <4>3
      <4>5. Spaced(u, earliest, p.min_spacing)
        BY <2>4, <3>2, <4>1
      <4> QED
        BY <1>1, <1>2, <4>1, <4>4, <4>5, KeepSlotSpaced
    <3> QED
      BY <3>1, <3>2
  <2>5. Bad = {}
    <3> SUFFICES ASSUME Bad # {} PROVE FALSE
      OBVIOUS
    <3>1. PICK n \in Bad : \A k \in Bad : n <= k
      <4> Bad \in SUBSET Nat
        OBVIOUS
      <4> HIDE DEF Bad
      <4> QED
        BY Smallest
    <3>2. n = 0 \/ Good(n - 1)
      <4>1. n # 0 => n - 1 \in 0..count /\ ~(n - 1 \in Bad)
        BY <3>1
      <4> QED
        BY <4>1
    <3> HIDE DEF Good
    <3> QED
      BY <2>4, <3>1, <3>2
  <2>6. count \in 0..count
    OBVIOUS
  <2> QED
    BY <2>1, <2>5, <2>6 DEF earliest
<1> QED
  BY <1>3, <1>4

-----------------------------------------------------------------------------
\* The slots of s are min_spacing apart and lie behind the cooldown.
Apart(s, spacing) ==
    \A x \in s.slots :
        /\ ~InCooldown(s, x)
        /\ \A y \in s.slots : x < y => y >= x + spacing

\* The slots of s lie behind the spacing of the last start.
Rested(s, p) == \A x \in s.slots : ~TooSoon(s, p, x)

\* What block_reason cannot refuse p for any slot of s.
Sound(s, p) == Apart(s, p.min_spacing) /\ Rested(s, p)

\* r has no slots but those of s, and waits for nothing more.
FewerSlots(s, r) ==
    /\ r.slots \subseteq s.slots /\ r.policy = s.policy
    /\ r.cooldown_until_utc \in {s.cooldown_until_utc, None}
    /\ r.last_started_at_utc = s.last_started_at_utc

\* A state that lost slots, or its cooldown, is still sound.
LEMMA FewerSound ==
    ASSUME NEW s, NEW r, NEW p, FewerSlots(s, r), Sound(s, p)
    PROVE  Sound(r, p)
BY DEF FewerSlots, Sound, Apart, Rested, InCooldown, TooSoon

\* A planned state is sound.
LEMMA PlannedSound ==
    ASSUME NEW s \in ProviderState, NEW p \in Policy, NEW start \in Int, NEW q,
           Spaced(q, Earliest(s, p, start), p.min_spacing)
    PROVE  Sound([s EXCEPT !.slots = q], p)
<1> DEFINE r == [s EXCEPT !.slots = q]
<1>1. /\ r.slots = q /\ r.cooldown_until_utc = s.cooldown_until_utc
      /\ r.last_started_at_utc = s.last_started_at_utc
  BY DEF ProviderState
<1> HIDE DEF r
<1>2. s.cooldown_until_utc \in Time /\ s.last_started_at_utc \in Time
      /\ p.min_spacing \in Nat
  BY DEF ProviderState, Policy
<1>3. ASSUME NEW x \in q PROVE ~InCooldown(r, x) /\ ~TooSoon(r, p, x)
  <2>1. x \in Int /\ x >= Earliest(s, p, start)
    BY DEF Spaced
  <2>2. s.cooldown_until_utc # None => x >= s.cooldown_until_utc
    BY <1>2, <2>1 DEF Earliest, max, Time
  <2>3. s.last_started_at_utc # None => x >= s.last_started_at_utc + p.min_spacing
    BY <1>2, <2>1 DEF Earliest, max, Time
  <2> QED
    BY <1>1, <1>2, <2>1, <2>2, <2>3, NoneAssumption DEF InCooldown, TooSoon, Time
<1>4. \A x, y \in q : x < y => y >= x + p.min_spacing
  BY DEF Spaced
<1> QED
  BY <1>1, <1>3, <1>4 DEF Sound, Apart, Rested, r

-----------------------------------------------------------------------------
\* A replanned state is sound.
LEMMA ReplanSound ==
    ASSUME NEW s \in ProviderState, NEW p \in Policy, NEW t \in 0..Horizon,
           NEW r \in replan_remaining(s, p, t)
    PROVE  Sound(r, p) /\ r.policy = s.policy
<1> DEFINE count == max(p.daily_max - s.runs[date(t)], 0)
<1>1. PICK q \in plan_interval(s, p, t, day_end(date(t)), count) : r = [s EXCEPT !.slots = q]
  BY DEF replan_remaining
<1>2. count \in Nat
  <2>1. p.daily_max \in Nat /\ s.runs[date(t)] \in Nat
    BY DateInDays DEF Policy, ProviderState
  <2> QED
    BY <2>1 DEF max
<1>3. t \in Int /\ day_end(date(t)) \in Int
  BY DateType, TimeAssumption DEF day_end, day_start
<1> HIDE DEF count
<1>4. Spaced(q, Earliest(s, p, t), p.min_spacing)
  BY <1>2, <1>3, PlanSpaced
<1>5. Sound(r, p)
  BY <1>1, <1>3, <1>4, PlannedSound
<1> QED
  BY <1>1, <1>5 DEF ProviderState

\* A state planned for a full day is sound.
LEMMA FullDaySound ==
    ASSUME NEW s \in ProviderState, NEW p \in Policy, NEW t \in 0..Horizon,
           NEW q \in plan_full_day(s, p, t)
    PROVE  Sound([s EXCEPT !.slots = q], p)
<1> DEFINE start == day_start(date(t))
           end == day_end(date(t))
<1>1. PICK a \in plan_interval(s, p, start, end, p.daily_max) : q = {x \in a : x > t}
  BY DEF plan_full_day
<1>2. start \in Int /\ end \in Int /\ p.daily_max \in Nat
  BY DateType, TimeAssumption DEF day_end, day_start, Policy
<1> HIDE DEF start, end
<1>3. Spaced(a, Earliest(s, p, start), p.min_spacing)
  BY <1>2, PlanSpaced
<1>4. Spaced(q, Earliest(s, p, start), p.min_spacing)
  BY <1>1, <1>3 DEF Spaced
<1> QED
  BY <1>2, <1>4, PlannedSound

\* The slots of s were planned for configuration p, or for another one.
SoundIfCurrent(s, p) == s.policy = PolicyPart(p) => Sound(s, p)

\* A day change plans a sound day.
LEMMA ReconcileDaySound ==
    ASSUME NEW s \in ProviderState, NEW p \in Policy, NEW t \in 0..Horizon,
           SoundIfCurrent(s, p), NEW r \in reconcile_day(s, p, t)
    PROVE  SoundIfCurrent(r, p) /\ r.policy = s.policy
<1>1. CASE date(t) <= s.day_utc
  BY <1>1 DEF reconcile_day
<1>2. CASE ~(date(t) <= s.day_utc)
  <2> DEFINE runs == [d \in Days |-> IF d >= date(t) THEN s.runs[d] ELSE 0]
             cool == IF s.cooldown_until_utc # None /\ s.cooldown_until_utc <= t
                     THEN None ELSE s.cooldown_until_utc
             u == [s EXCEPT !.day_utc = date(t), !.runs = runs, !.deferred = None,
                            !.interface_triggers = NoTriggers,
                            !.cooldown_until_utc = cool]
  <2>1. PICK q \in plan_full_day(u, p, t) : r = [u EXCEPT !.slots = q]
    BY <1>2 DEF reconcile_day
  <2>2. u \in ProviderState /\ u.policy = s.policy
    <3>1. runs \in [Days -> Nat]
      BY DEF ProviderState
    <3>2. cool \in Time
      BY DEF ProviderState, Time
    <3>3. date(t) \in Int
      BY DateType
    <3> HIDE DEF runs, cool
    <3> QED
      BY <3>1, <3>2, <3>3, TriggerTypes DEF ProviderState
  <2> HIDE DEF u
  <2>3. Sound(r, p)
    BY <2>1, <2>2, FullDaySound
  <2> QED
    BY <2>1, <2>2, <2>3 DEF SoundIfCurrent, ProviderState
<1> QED
  BY <1>1, <1>2

\* advance_clock leaves a sound day.
LEMMA AdvanceClockSound ==
    ASSUME NEW s \in ProviderState, NEW p \in Policy, NEW t \in 0..Horizon,
           SoundIfCurrent(s, p), NEW r \in advance_clock(s, p, t)
    PROVE  SoundIfCurrent(r, p) /\ r.policy = s.policy
<1>1. CASE r = s
  BY <1>1
<1>2. CASE r # s
  <2>1. PICK d \in reconcile_day(s, p, t) : r = [d EXCEPT !.last_observed_utc = t]
    BY <1>2 DEF advance_clock
  <2>2. SoundIfCurrent(d, p) /\ d.policy = s.policy /\ d \in ProviderState
    BY ReconcileDaySound, ReconcileDayFollows DEF Follows
  <2>3. FewerSlots(d, r)
    BY <2>1, <2>2 DEF FewerSlots, ProviderState
  <2> QED
    BY <2>2, <2>3, FewerSound DEF SoundIfCurrent, FewerSlots
<1> QED
  BY <1>1, <1>2

\* A change of the configuration replans.
LEMMA AdoptPolicySound ==
    ASSUME NEW s \in ProviderState, NEW p \in Policy, NEW t \in 0..Horizon,
           SoundIfCurrent(s, p), NEW r \in AdoptPolicy(s, p, t)
    PROVE  Sound(r, p) /\ r.policy = PolicyPart(p)
<1> DEFINE u == [s EXCEPT !.policy = PolicyPart(p)]
<1>1. u \in ProviderState /\ u.policy = PolicyPart(p)
  BY DEF ProviderState, PolicyPart, Policy
<1>2. CASE s.policy = PolicyPart(p)
  BY <1>2 DEF AdoptPolicy, SoundIfCurrent
<1>3. CASE s.policy # PolicyPart(p) /\ p.daily_max = 0
  <2>1. r = [u EXCEPT !.slots = {}, !.interface_triggers = NoTriggers, !.deferred = None]
    BY <1>3 DEF AdoptPolicy
  <2> HIDE DEF u
  <2>2. r.slots = {} /\ r.policy = u.policy
    BY <1>1, <2>1 DEF ProviderState
  <2> QED
    BY <1>1, <2>2 DEF Sound, Apart, Rested
<1>4. CASE s.policy # PolicyPart(p) /\ p.daily_max # 0
  <2>1. r \in replan_remaining(u, p, t)
    BY <1>4 DEF AdoptPolicy
  <2> HIDE DEF u
  <2> QED
    BY <1>1, <2>1, ReplanSound
<1> QED
  BY <1>2, <1>3, <1>4

\* reconcile leaves sound slots of the configuration in use.
LEMMA ReconcileSound ==
    ASSUME NEW s \in ProviderState, NEW p \in Policy, NEW t \in 0..Horizon,
           SoundIfCurrent(s, p), NEW m \in reconcile(s, p, t)
    PROVE  Sound(m, p) /\ m.policy = PolicyPart(p)
           /\ m.last_started_at_utc = s.last_started_at_utc
<1>1. PICK r \in UNION {AdoptPolicy(d, p, t) : d \in reconcile_day(s, p, t)} :
        m = [r EXCEPT !.slots = {x \in r.slots : x > t},
                      !.last_observed_utc = max(r.last_observed_utc, t)]
  BY Zenon DEF reconcile
<1>2. PICK d \in reconcile_day(s, p, t) : r \in AdoptPolicy(d, p, t)
  BY Zenon
<1>3. /\ d \in ProviderState /\ SoundIfCurrent(d, p)
      /\ d.last_started_at_utc = s.last_started_at_utc
  BY ReconcileDaySound, ReconcileDayFollows DEF Follows
<1>4. /\ r \in ProviderState /\ Sound(r, p) /\ r.policy = PolicyPart(p)
      /\ r.last_started_at_utc = d.last_started_at_utc
  BY <1>2, <1>3, AdoptPolicySound, AdoptPolicyFollows DEF SameAccounts
<1>5. FewerSlots(r, m)
  BY <1>1, <1>4 DEF FewerSlots, ProviderState
<1> QED
  BY <1>3, <1>4, <1>5, FewerSound DEF FewerSlots

\* Scheduler::open of an existing store leaves sound slots.
LEMMA OpenSound ==
    ASSUME NEW s \in ProviderState, NEW p \in Policy, NEW t \in 0..Horizon, NEW b,
           SoundIfCurrent(s, p), NEW m \in open(s, p, t, b)
    PROVE  Sound(m, p) /\ m.policy = PolicyPart(p)
           /\ m.last_started_at_utc = s.last_started_at_utc
<1>1. s # None
  BY NoneNotState
<1>2. CASE ~b
  BY <1>1, <1>2, ReconcileSound DEF open
<1>3. CASE b
  <2>1. PICK r \in reconcile(s, p, t) : m \in replan_remaining(r, p, t)
    BY <1>1, <1>3 DEF open
  <2>2. /\ r \in ProviderState /\ r.policy = PolicyPart(p)
        /\ r.last_started_at_utc = s.last_started_at_utc
    BY ReconcileSound, ReconcileFollows DEF Follows
  <2> QED
    BY <2>1, <2>2, ReplanSound, ReplanFollows DEF SameAccounts
<1> QED
  BY <1>2, <1>3

\* The first open plans a sound day.
LEMMA NewProviderSound ==
    ASSUME NEW p \in Policy, NEW t \in 0..Horizon, NEW m \in NewProvider(p, t)
    PROVE  Sound(m, p) /\ m.policy = PolicyPart(p)
<1> DEFINE s == [day_utc |-> date(t), slots |-> {}, runs |-> NoRuns,
              last_started_at_utc |-> None, cooldown_until_utc |-> None,
              backoff_step |-> 0, deferred |-> None,
              interface_triggers |-> NoTriggers, policy |-> PolicyPart(p),
              last_observed_utc |-> t]
<1>1. PICK q \in plan_full_day(s, p, t) : m = [s EXCEPT !.slots = q]
  BY DEF NewProvider
<1>2. /\ date(t) \in Int /\ t \in Int /\ NoRuns \in [Days -> Nat]
      /\ 0 \in 0..MaxBackoffStep
      /\ PolicyPart(p) \in [daily_max : Nat, min_spacing : Nat \ {0},
                             slot_jitter_pct : 0..100]
  BY DateType DEF NoRuns, MaxBackoffStep, PolicyPart, Policy
<1> HIDE DEF NoRuns
<1>3. s \in ProviderState /\ s.policy = PolicyPart(p)
  BY <1>2, TriggerTypes DEF ProviderState, Time
<1> HIDE DEF s
<1>4. Sound(m, p)
  BY <1>1, <1>3, FullDaySound
<1> QED
  BY <1>1, <1>3, <1>4 DEF ProviderState

\* A health decision keeps the plan.
LEMMA HealthFewer ==
    ASSUME NEW s \in ProviderState, NEW i \in Interfaces, NEW decision, NEW t \in Int
    PROVE  FewerSlots(s, HealthState(s, i, decision, t))
BY DEF HealthState, Latch, FewerSlots, ProviderState

\* Dropping a pending trigger keeps the plan.
LEMMA ClearPendingFewer ==
    ASSUME NEW s \in ProviderState, NEW i
    PROVE  FewerSlots(s, ClearPending(s, i))
BY DEF ClearPending, FewerSlots, ProviderState

\* Expiry keeps the plan.
LEMMA ExpiryFewer ==
    ASSUME NEW s \in ProviderState, NEW t
    PROVE  \A m \in {ExpireTriggers(s, t), ExpireDeferred(ExpireTriggers(s, t), t)} :
               FewerSlots(s, m)
<1> DEFINE e == ExpireTriggers(s, t)
<1>1. FewerSlots(s, e)
  BY DEF ExpireTriggers, FewerSlots, ProviderState
<1>2. e \in ProviderState
  BY ExpiryFollows
<1> HIDE DEF e
<1>3. FewerSlots(s, ExpireDeferred(e, t))
  BY <1>1, <1>2 DEF ExpireDeferred, FewerSlots, ProviderState
<1> QED
  BY <1>1, <1>3 DEF e

\* A poll only takes slots away.
LEMMA PollFewer ==
    ASSUME NEW s \in ProviderState, NEW p, NEW t, NEW i \in Interfaces \cup {None},
           NEW m \in {BlockedState(s, p, t, i), OfferedState(s, t, i)}
    PROVE  FewerSlots(s, m)
<1> DEFINE r == remove_due_slots(s, t)
<1>1. r \in ProviderState /\ FewerSlots(s, r)
  BY DEF remove_due_slots, ProviderState, FewerSlots
<1> HIDE DEF r
<1>2. FewerSlots(r, ClearPending(r, i))
  BY <1>1, ClearPendingFewer
<1>3. CASE m = BlockedState(s, p, t, i)
  <2>1. m = r \/ m = ClearPending(r, i)
    BY <1>3 DEF BlockedState, r
  <2> QED
    BY <1>1, <1>2, <2>1 DEF FewerSlots
<1>4. CASE m = OfferedState(s, t, i)
  <2>1. m = r \/ m = [r EXCEPT !.slots = {x \in r.slots : \E y \in r.slots : y < x}]
    BY <1>4 DEF OfferedState, r
  <2>2. FewerSlots(r, m)
    BY <1>1, <2>1 DEF ProviderState, FewerSlots
  <2> QED
    BY <1>1, <2>2 DEF FewerSlots
<1> QED
  BY <1>3, <1>4

\* An attempt that was not rate-limited keeps the plan until it is settled.
LEMMA CompletedFewer ==
    ASSUME NEW s \in ProviderState, NEW o \in Opportunity, NEW ok \in BOOLEAN
    PROVE  FewerSlots(s, Completed(s, o, ok))
<1> DEFINE u == [s EXCEPT !.deferred = None,
                          !.cooldown_until_utc = IF ok THEN None ELSE @,
                          !.backoff_step = IF ok THEN 0 ELSE @]
<1>1. u \in ProviderState /\ FewerSlots(s, u)
  <2>1. 0 \in 0..MaxBackoffStep
    BY DEF MaxBackoffStep
  <2> QED
    BY <2>1 DEF ProviderState, FewerSlots, Time
<1>2. Completed(s, o, ok) = ClearPending(u, o.interface)
  BY DEF Completed
<1> HIDE DEF u
<1>3. FewerSlots(u, ClearPending(u, o.interface))
  BY <1>1, ClearPendingFewer
<1> QED
  BY <1>1, <1>2, <1>3 DEF FewerSlots

\* A rate limit changes neither configuration nor last start.
LEMMA RateLimitedKeeps ==
    ASSUME NEW s \in ProviderState, NEW o \in Opportunity, NEW t, NEW reserved, NEW deadline
    PROVE  LET m == RateLimited(s, o, t, reserved, deadline)
           IN  m.policy = s.policy /\ m.last_started_at_utc = s.last_started_at_utc
BY DEF RateLimited, ClearPending, ProviderState

-----------------------------------------------------------------------------
(* The plan between the handlers. *)

\* No process died during an attempt and the clock did not step back.
Undisturbed == crashes = 0 /\ rollbacks = 0

\* No start is remembered later than t.
StartedBy(s, t) == s.last_started_at_utc # None => s.last_started_at_utc <= t

\* The store holds slots block_reason cannot refuse, except that those of a
\* running attempt may lie in its own spacing: finish_attempt settles them.
PlanInv ==
    Undisturbed /\ store # None =>
        /\ Apart(store, store.policy.min_spacing)
        /\ phase # "running" => Rested(store, store.policy)
        /\ phase # "down" => store.policy = PolicyPart(policy)
        /\ StartedBy(store, now)

\* Sound slots, planned for configuration p, when nothing has started after t.
Settled(s, p, t) ==
    s \in ProviderState /\ Sound(s, p) /\ s.policy = PolicyPart(p) /\ StartedBy(s, t)

\* A settled state that lost slots is still settled.
LEMMA FewerSettled ==
    ASSUME NEW s, NEW p, NEW t, NEW r \in ProviderState, Settled(s, p, t), FewerSlots(s, r)
    PROVE  Settled(r, p, t)
BY FewerSound DEF Settled, FewerSlots, StartedBy

\* Without a crash a handler commits.
LEMMA Commits ==
    ASSUME TypeOK, crashes' = 0, NEW m, NEW ph, NEW o,
           Persist(m, ph, o) \/ TornCommit(m) \/ Interrupted(m)
    PROVE  Committed(m, ph, o) /\ crashes = 0
<1>1. crashes \in Nat
  BY BoundAssumption DEF TypeOK
<1>2. ~TornCommit(m) /\ ~Interrupted(m)
  BY <1>1 DEF TornCommit, Interrupted
<1> QED
  BY <1>2 DEF Persist, Committed

\* A settled store outside an attempt is a sound plan.
LEMMA SettledPlan ==
    ASSUME NEW p, Settled(store', p, now'), phase' # "down" => policy' = p
    PROVE  PlanInv'
BY DEF Settled, PlanInv, Sound, Apart, Rested, TooSoon, PolicyPart

\* A handler that persists a settled state keeps the plan.
LEMMA HandlerPlan ==
    ASSUME TypeOK, phase # "down", NEW m, Settled(m, policy, now),
           NEW ph, NEW o, Persist(m, ph, o), now' = now
    PROVE  PlanInv'
<1> SUFFICES ASSUME crashes' = 0 PROVE PlanInv'
  BY DEF PlanInv, Undisturbed
<1>1. Committed(m, ph, o)
  BY Commits
<1>2. store' = m /\ (phase' # "down" => policy' = policy)
  BY <1>1 DEF Committed, Down
<1> QED
  BY <1>2, SettledPlan

\* A waiting process, or one whose discovery is under way, has a settled store.
LEMMA WaitingSettled ==
    ASSUME TypeOK, PlanInv, Undisturbed, phase \in {"idle", "offered"}
    PROVE  Settled(store, policy, now) /\ policy \in Policy /\ now \in 0..Horizon
           /\ store \in ProviderState
BY NoneNotState DEF TypeOK, PlanInv, Settled, Sound, Apart, Rested, TooSoon, PolicyPart

\* The clock goes forward or the behaviour is disturbed; a process that ends
\* leaves its plan.
LEMMA ClockPlan == Inv /\ PlanInv /\ (Tick \/ StepBack \/ Stop \/ Crash) => PlanInv'
<1> SUFFICES ASSUME Inv, PlanInv, Tick \/ StepBack \/ Stop \/ Crash, Undisturbed' PROVE PlanInv'
  BY DEF PlanInv
<1>0. crashes \in Nat /\ rollbacks \in Nat /\ now \in Int
  BY BoundAssumption DEF Inv, TypeOK
<1>1. CASE Tick
  <2>1. UNCHANGED <<store, procVars, crashes, rollbacks>> /\ now' = now + 1
    BY <1>1 DEF Tick
  <2>2. store # None => store.last_started_at_utc \in Time
    BY DEF Inv, TypeOK, ProviderState
  <2>3. store # None /\ StartedBy(store, now) => StartedBy(store, now + 1)
    BY <1>0, <2>2 DEF StartedBy, Time
  <2> QED
    BY <2>1, <2>3 DEF PlanInv, Undisturbed, procVars
<1>2. CASE StepBack \/ Crash
  <2>1. crashes' > 0 \/ rollbacks' > 0
    BY <1>0, <1>2 DEF StepBack, Crash
  <2> QED
    BY <2>1 DEF Undisturbed
<1>3. CASE Stop
  BY <1>3 DEF Stop, Down, PlanInv, Undisturbed
<1> QED
  BY <1>1, <1>2, <1>3

\* The store an open leaves is settled.
LEMMA OpenSettled ==
    ASSUME Inv, PlanInv, Undisturbed, phase = "down", NEW p \in Policy,
           NEW m \in open(store, p, now, recovered)
    PROVE  Settled(m, p, now)
<1>0. now \in 0..Horizon
  BY DEF Inv, TypeOK
<1>1. CASE store = None
  <2>1. m \in NewProvider(p, now)
    BY <1>1 DEF open
  <2> QED
    BY <1>0, <2>1, NewProviderType, NewProviderSound DEF Settled, StartedBy
<1>2. CASE store # None
  <2>1. store \in ProviderState
    BY <1>2 DEF Inv, TypeOK
  <2>2. SoundIfCurrent(store, p) /\ StartedBy(store, now)
    BY <1>2 DEF PlanInv, SoundIfCurrent, Sound, Apart, Rested, TooSoon, PolicyPart
  <2>3. /\ Sound(m, p) /\ m.policy = PolicyPart(p)
        /\ m.last_started_at_utc = store.last_started_at_utc /\ m \in ProviderState
    BY <1>0, <2>1, <2>2, OpenSound, OpenFollows DEF Follows
  <2> QED
    BY <2>2, <2>3 DEF Settled, StartedBy
<1> QED
  BY <1>1, <1>2

\* Opening, by either command, leaves a plan for its configuration.
LEMMA OpenPlan == Inv /\ PlanInv /\ (OpenRun \/ OpenOnce) => PlanInv'
<1> SUFFICES ASSUME Inv, PlanInv, OpenRun \/ OpenOnce, Undisturbed' PROVE PlanInv'
  BY DEF PlanInv
<1>0. crashes \in Nat /\ now' = now /\ rollbacks = 0 /\ phase = "down"
  BY BoundAssumption DEF Inv, TypeOK, Undisturbed, OpenRun, OpenOnce
<1>1. PICK p \in RunPolicies \cup OncePolicies : \E m \in open(store, p, now, recovered) :
        \/ store' = m /\ UNCHANGED crashes /\ (phase' # "down" => policy' = p)
        \/ TornCommit(m)
  <2>1. CASE OpenRun
    BY <2>1 DEF OpenRun
  <2>2. CASE OpenOnce
    <3>1. PICK p \in OncePolicies : \E m \in open(store, p, now, recovered) :
            \/ store' = m /\ UNCHANGED crashes /\ (Down \/ policy' = p)
            \/ TornCommit(m)
      BY <2>2 DEF OpenOnce
    <3>2. Down => phase' = "down"
      BY DEF Down
    <3> QED
      BY <3>1, <3>2
  <2> QED
    BY <2>1, <2>2
<1>2. PICK m \in open(store, p, now, recovered) :
        store' = m /\ crashes = 0 /\ (phase' # "down" => policy' = p)
  <2>1. \A m : ~TornCommit(m)
    BY <1>0 DEF TornCommit, Undisturbed
  <2> QED
    BY <1>1, <2>1 DEF Undisturbed
<1>3. p \in Policy
  BY PolicyAssumption
<1>4. Settled(m, p, now)
  BY <1>0, <1>2, <1>3, OpenSettled DEF Undisturbed
<1> QED
  BY <1>0, <1>2, <1>4, SettledPlan

\* The store after advance_clock is settled if it was before.
LEMMA AdvanceClockSettled ==
    ASSUME NEW s, NEW p \in Policy, NEW t \in 0..Horizon, Settled(s, p, t),
           NEW r \in advance_clock(s, p, t) \cup reconcile_day(s, p, t)
    PROVE  Settled(r, p, t)
<1>0. s \in ProviderState /\ SoundIfCurrent(s, p)
  BY DEF Settled, SoundIfCurrent
<1>1. /\ SoundIfCurrent(r, p) /\ r.policy = s.policy /\ r \in ProviderState
      /\ r.last_started_at_utc = s.last_started_at_utc
  <2>1. CASE r \in reconcile_day(s, p, t)
    BY <1>0, <2>1, ReconcileDaySound, ReconcileDayFollows DEF Follows
  <2>2. CASE r \in advance_clock(s, p, t)
    <3>1. SoundIfCurrent(r, p) /\ r.policy = s.policy /\ r \in ProviderState
      BY <1>0, <2>2, AdvanceClockSound, AdvanceClockFollows DEF Follows
    <3>2. r = s \/ \E d \in reconcile_day(s, p, t) : r = [d EXCEPT !.last_observed_utc = t]
      BY <2>2 DEF advance_clock
    <3>3. \A d \in reconcile_day(s, p, t) :
            d.last_started_at_utc = s.last_started_at_utc /\ d \in ProviderState
      BY <1>0, ReconcileDayFollows DEF Follows
    <3>4. r.last_started_at_utc = s.last_started_at_utc
      BY <3>2, <3>3 DEF ProviderState
    <3> QED
      BY <3>1, <3>4
  <2> QED
    BY <2>1, <2>2
<1> QED
  BY <1>1 DEF Settled, SoundIfCurrent, StartedBy

\* What undisturbed handlers start from.
LEMMA HandlerStarts ==
    ASSUME Inv, PlanInv, crashes' = 0, Undisturbed', UNCHANGED rollbacks,
           phase \in {"idle", "offered"}, crashes = 0
    PROVE  /\ Settled(store, policy, now) /\ policy \in Policy /\ now \in 0..Horizon
           /\ store \in ProviderState
BY WaitingSettled DEF Undisturbed, Inv

\* A health decision keeps the plan.
LEMMA ObservePlan == Inv /\ PlanInv /\ Observe => PlanInv'
<1> SUFFICES ASSUME Inv, PlanInv, Undisturbed', NEW i \in Interfaces, NEW d \in Decisions,
                    observe_interface_health(i, d)
             PROVE  PlanInv'
  BY DEF Observe, PlanInv
<1>0. phase = "idle" /\ now' = now /\ UNCHANGED rollbacks
  BY DEF observe_interface_health
<1>1. PICK a \in advance_clock(store, policy, now) :
        Persist(HealthState(a, i, d, now), "idle", None) \/ Interrupted(a)
  BY DEF observe_interface_health
<1> DEFINE h == HealthState(a, i, d, now)
<1>2. PICK m \in {a, h} : Persist(m, "idle", None)
  BY <1>1 DEF Persist
<1>3. crashes = 0 /\ crashes' = 0
  BY <1>2, Commits DEF Inv, Undisturbed
<1>4. Settled(store, policy, now) /\ policy \in Policy /\ now \in 0..Horizon
  BY <1>0, <1>3, HandlerStarts
<1>5. Settled(a, policy, now) /\ a \in ProviderState
  BY <1>4, AdvanceClockSettled DEF Settled
<1>6. h \in ProviderState /\ FewerSlots(a, h)
  BY <1>4, <1>5, HealthFollows, HealthFewer
<1> HIDE DEF h
<1>7. Settled(m, policy, now)
  BY <1>2, <1>5, <1>6, FewerSettled
<1> QED
  BY <1>0, <1>2, <1>7, HandlerPlan DEF Inv

\* Whatever a poll decides, it persists a plan with slots of s only.
LEMMA PollPersistsFewer ==
    ASSUME NEW s \in ProviderState, NEW success \in SUBSET Interfaces,
           PollDeferred(s) \/ PollRequest(s, success)
    PROVE  \E m \in ProviderState : FewerSlots(s, m) /\ \E ph, o : Persist(m, ph, o)
<1>1. FewerSlots(s, s)
  BY DEF FewerSlots
<1>2. CASE PollDeferred(s)
  BY <1>1, <1>2 DEF PollDeferred
<1>3. CASE PollRequest(s, success)
  <2>1. CASE Persist(s, "idle", None)
    BY <1>1, <2>1
  <2>2. CASE ~Persist(s, "idle", None)
    <3>1. PICK i \in Requests(s, now, success) :
            \/ Persist(BlockedState(s, policy, now, i), "idle", None)
            \/ Persist(OfferedState(s, now, i), "offered",
                     [reason |-> IF i = None THEN "scheduled" ELSE "ping",
                      interface |-> i])
      BY <1>3, <2>2 DEF PollRequest
    <3>2. i \in Interfaces \cup {None}
      BY DEF Requests, oldest_eligible_pending_trigger
    <3> DEFINE b == BlockedState(s, policy, now, i)
               f == OfferedState(s, now, i)
    <3>3. FewerSlots(s, b) /\ b \in ProviderState /\ FewerSlots(s, f) /\ f \in ProviderState
      BY <3>2, PollFollows, PollFewer
    <3>4. \E ph, o : Persist(b, ph, o) \/ Persist(f, ph, o)
      BY <3>1
    <3> HIDE DEF b, f
    <3> QED
      BY <3>3, <3>4
  <2> QED
    BY <2>1, <2>2
<1> QED
  BY <1>2, <1>3

\* A poll keeps the plan, or what is left of it.
LEMMA PollPlan == Inv /\ PlanInv /\ Poll => PlanInv'
<1> SUFFICES ASSUME Inv, PlanInv, Undisturbed', NEW success \in SUBSET Interfaces,
                    poll_interfaces(success)
             PROVE  PlanInv'
  BY DEF Poll, PlanInv
<1>0. phase = "idle" /\ now' = now /\ UNCHANGED rollbacks
  BY DEF poll_interfaces
<1>1. CASE UNCHANGED <<store, recovered, procVars, crashes>>
  BY <1>0, <1>1 DEF PlanInv, Undisturbed, procVars
<1>2. CASE ~UNCHANGED <<store, recovered, procVars, crashes>>
  <2> DEFINE e(a) == ExpireTriggers(a, now)
             s(a) == ExpireDeferred(e(a), now)
  <2>1. PICK a \in advance_clock(store, policy, now) :
          \/ PollDeferred(s(a)) \/ PollRequest(s(a), success)
          \/ \E m \in {a, e(a), s(a)} : Interrupted(m)
    BY <1>2 DEF poll_interfaces
  <2>2. crashes \in Nat /\ \A m : ~Interrupted(m)
    BY BoundAssumption DEF Interrupted, Inv, TypeOK, Undisturbed
  <2>3. a \in ProviderState
    <3>1. store \in ProviderState /\ now \in 0..Horizon
      BY <1>0 DEF Inv, TypeOK
    <3> QED
      BY <3>1, AdvanceClockFollows DEF Follows
  <2>4. s(a) \in ProviderState /\ FewerSlots(a, s(a))
    BY <2>3, ExpiryFollows, ExpiryFewer
  <2> HIDE DEF s
  <2>5. PICK m \in ProviderState : FewerSlots(s(a), m) /\ \E ph, o : Persist(m, ph, o)
    BY <2>1, <2>2, <2>4, PollPersistsFewer
  <2>6. PICK ph, o : Persist(m, ph, o)
    BY <2>5
  <2>7. crashes = 0 /\ crashes' = 0
    BY <2>6, Commits DEF Inv, Undisturbed
  <2>8. Settled(store, policy, now) /\ policy \in Policy /\ now \in 0..Horizon
    BY <1>0, <2>7, HandlerStarts
  <2>9. Settled(a, policy, now)
    BY <2>8, AdvanceClockSettled
  <2>10. Settled(s(a), policy, now)
    BY <2>4, <2>9, FewerSettled
  <2>11. Settled(m, policy, now)
    BY <2>5, <2>10, FewerSettled
  <2> QED
    BY <1>0, <2>6, <2>11, HandlerPlan DEF Inv
<1> QED
  BY <1>1, <1>2

\* A reservation leaves slots that only the start just made may block.
LEMMA ReservePlan == Inv /\ PlanInv /\ reserve_run => PlanInv'
<1> SUFFICES ASSUME Inv, PlanInv, Undisturbed', reserve_run PROVE PlanInv'
  BY DEF PlanInv
<1>0. phase = "offered" /\ now' = now /\ UNCHANGED rollbacks
  BY DEF reserve_run
<1>1. PICK s \in reconcile_day(store, policy, now) : Persist(Reserved(s, now), "running", opp)
  BY DEF reserve_run
<1>2. Committed(Reserved(s, now), "running", opp) /\ crashes = 0 /\ crashes' = 0
  BY <1>1, Commits DEF Inv, Undisturbed
<1>3. /\ Settled(store, policy, now) /\ policy \in Policy /\ now \in 0..Horizon
      /\ store \in ProviderState
  BY <1>0, <1>2, HandlerStarts
<1>4. Settled(s, policy, now)
  BY <1>3, AdvanceClockSettled
<1> DEFINE m == Reserved(s, now)
<1>5. store' = m /\ phase' = "running" /\ policy' = policy
  BY <1>2 DEF Committed
<1>6. /\ m.slots = s.slots /\ m.policy = s.policy
      /\ m.cooldown_until_utc = s.cooldown_until_utc
      /\ m.last_started_at_utc = maxOpt(s.last_started_at_utc, now)
  BY <1>4 DEF Settled, Reserved, ProviderState
<1> HIDE DEF m
<1>7. StartedBy(m, now)
  <2>1. s.last_started_at_utc \in Time /\ now \in Int
    BY <1>3, <1>4 DEF Settled, ProviderState
  <2> QED
    BY <1>4, <1>6, <2>1 DEF Settled, StartedBy, maxOpt, max, Time
<1>8. Apart(m, m.policy.min_spacing)
  BY <1>4, <1>6 DEF Settled, Sound, Apart, InCooldown, PolicyPart
<1>9. m.policy = PolicyPart(policy)
  BY <1>4, <1>6 DEF Settled
<1> QED
  BY <1>0, <1>5, <1>7, <1>8, <1>9 DEF PlanInv

\* A rejected reservation leaves the plan, of a new day perhaps.
LEMMA RejectPlan == Inv /\ PlanInv /\ reserve_rejected => PlanInv'
<1> SUFFICES ASSUME Inv, PlanInv, Undisturbed', reserve_rejected PROVE PlanInv'
  BY DEF PlanInv
<1>0. phase = "offered" /\ now' = now /\ UNCHANGED rollbacks
  BY DEF reserve_rejected
<1>1. PICK s \in reconcile_day(store, policy, now) :
        \/ Persist(s, "down", None)
        \/ Down /\ UNCHANGED <<store, recovered, crashes>>
  BY DEF reserve_rejected
<1>2. CASE Persist(s, "down", None)
  <2>1. crashes = 0 /\ crashes' = 0
    BY <1>2, Commits DEF Inv, Undisturbed
  <2>2. Settled(store, policy, now) /\ policy \in Policy /\ now \in 0..Horizon
    BY <1>0, <2>1, HandlerStarts
  <2>3. Settled(s, policy, now)
    BY <2>2, AdvanceClockSettled
  <2> QED
    BY <1>0, <1>2, <2>3, HandlerPlan DEF Inv
<1>3. CASE Down /\ UNCHANGED <<store, recovered, crashes>>
  BY <1>0, <1>3 DEF Down, PlanInv, Undisturbed
<1> QED
  BY <1>1, <1>2, <1>3

\* What finish_attempt starts from: only the spacing of the attempt's own
\* start may lie over the slots.
LEMMA FinishStarts ==
    ASSUME Inv, PlanInv, Undisturbed', UNCHANGED <<now, rollbacks>>, crashes = 0,
           phase \in {"offered", "running"}
    PROVE  /\ store \in ProviderState /\ policy \in Policy /\ now \in 0..Horizon
           /\ opp \in Opportunity /\ store.policy = PolicyPart(policy)
           /\ StartedBy(store, now) /\ Apart(store, policy.min_spacing)
           /\ phase = "offered" => Rested(store, policy)
<1>1. store \in ProviderState /\ store # None /\ policy \in Policy /\ opp \in Opportunity
      /\ now \in 0..Horizon
  BY DEF Inv, TypeOK
<1>2. store.policy = PolicyPart(policy)
  BY <1>1 DEF PlanInv, Undisturbed
<1>3. store.policy.min_spacing = policy.min_spacing
  BY <1>2 DEF PolicyPart
<1> QED
  BY <1>1, <1>2, <1>3 DEF PlanInv, Undisturbed, Rested, TooSoon

\* A rate limit plans the rest of the day again.
LEMMA FinishRateLimitedPlan ==
    ASSUME Inv, PlanInv, Undisturbed', UNCHANGED <<now, rollbacks>>,
           phase \in {"offered", "running"},
           NEW reserved \in BOOLEAN, NEW retry_at \in Time, FinishRateLimited(reserved, retry_at)
    PROVE  PlanInv'
<1> DEFINE limited(d) == RateLimited(store, opp, now, reserved,
                                     maxOpt(store.cooldown_until_utc, d))
<1>1. PICK d \in Deadlines(store, now, retry_at) :
        \E m \in replan_remaining(limited(d), policy, now) : Persist(m, AfterAttempt, None)
  BY DEF FinishRateLimited
<1>2. PICK m \in replan_remaining(limited(d), policy, now) : Persist(m, AfterAttempt, None)
  BY <1>1
<1>3. crashes = 0
  BY <1>2, Commits DEF Inv, Undisturbed
<1>4. /\ store \in ProviderState /\ policy \in Policy /\ now \in 0..Horizon
      /\ opp \in Opportunity /\ store.policy = PolicyPart(policy) /\ StartedBy(store, now)
  BY <1>3, FinishStarts
<1>5. d \in Int
  BY <1>4 DEF Deadlines, Time, jitter_duration
<1>6. limited(d) \in ProviderState
  BY <1>4, <1>5, RateLimitedFollows DEF Follows
<1>7. /\ limited(d).policy = store.policy
      /\ limited(d).last_started_at_utc = store.last_started_at_utc
  BY <1>4, RateLimitedKeeps
<1> HIDE DEF limited
<1>8. /\ Sound(m, policy) /\ m.policy = store.policy /\ m \in ProviderState
      /\ m.last_started_at_utc = store.last_started_at_utc
  BY <1>4, <1>6, <1>7, ReplanSound, ReplanFollows DEF SameAccounts
<1>9. Settled(m, policy, now)
  BY <1>4, <1>8 DEF Settled, StartedBy
<1> QED
  BY <1>2, <1>9, HandlerPlan DEF Inv

\* An attempt that was not rate-limited: the slots in its spacing go.
LEMMA FinishOtherPlan ==
    ASSUME Inv, PlanInv, Undisturbed', UNCHANGED <<now, rollbacks>>,
           phase \in {"offered", "running"},
           NEW reserved \in BOOLEAN, reserved \/ phase = "offered",
           NEW ok \in BOOLEAN, FinishOther(reserved, ok)
    PROVE  PlanInv'
<1> DEFINE c == Completed(store, opp, ok)
<1>1. PICK m \in Resettled(c, policy, opp, now, reserved) : Persist(m, AfterAttempt, None)
  BY DEF FinishOther
<1>2. crashes = 0
  BY <1>1, Commits DEF Inv, Undisturbed
<1>3. /\ store \in ProviderState /\ policy \in Policy /\ now \in 0..Horizon
      /\ opp \in Opportunity /\ store.policy = PolicyPart(policy)
      /\ StartedBy(store, now) /\ Apart(store, policy.min_spacing)
      /\ phase = "offered" => Rested(store, policy)
  BY <1>2, FinishStarts
<1>4. c \in ProviderState /\ FewerSlots(store, c)
  BY <1>3, CompletedFollows, CompletedFewer
<1> HIDE DEF c
<1>5. m \in ProviderState /\ SameAccounts(c, m)
  BY <1>4, ResettledSame
<1>6. Apart(c, policy.min_spacing) /\ (phase = "offered" => Rested(c, policy))
  BY <1>3, <1>4 DEF FewerSlots, Apart, Rested, InCooldown, TooSoon
<1>7. Sound(m, policy) /\ m.policy = c.policy
  <2>1. CASE m \in replan_remaining(c, policy, now)
    BY <1>3, <1>4, <2>1, ReplanSound
  <2>2. CASE reserved /\ m = [c EXCEPT !.slots = {x \in c.slots : x >= now + policy.min_spacing}]
    <3> DEFINE later == {x \in c.slots : x >= now + policy.min_spacing}
    <3>1. /\ m.slots = later /\ m.policy = c.policy
          /\ m.cooldown_until_utc = c.cooldown_until_utc
          /\ m.last_started_at_utc = c.last_started_at_utc
      BY <1>4, <2>2 DEF ProviderState
    <3>2. Apart(m, policy.min_spacing)
      BY <1>6, <3>1 DEF Apart, InCooldown
    <3>3. StartedBy(c, now)
      BY <1>3, <1>4 DEF FewerSlots, StartedBy
    <3>4. /\ c.last_started_at_utc \in Time /\ c.slots \in SUBSET Int /\ now \in Int
          /\ policy.min_spacing \in Int
      BY <1>3, <1>4 DEF ProviderState, Policy
    <3>5. Rested(m, policy)
      <4> SUFFICES ASSUME NEW x \in later, c.last_started_at_utc # None,
                          x < c.last_started_at_utc + policy.min_spacing
                   PROVE  FALSE
        BY <3>1 DEF Rested, TooSoon
      <4> QED
        BY <3>3, <3>4 DEF StartedBy, Time
    <3> QED
      BY <3>1, <3>2, <3>5 DEF Sound
  <2>3. CASE ~reserved /\ m = c
    BY <1>6, <2>3 DEF Sound
  <2> QED
    BY <2>1, <2>2, <2>3 DEF Resettled
<1>8. Settled(m, policy, now)
  BY <1>3, <1>4, <1>5, <1>7 DEF Settled, StartedBy, SameAccounts, FewerSlots
<1> QED
  BY <1>1, <1>8, HandlerPlan DEF Inv

\* The end of an attempt leaves a plan.
LEMMA FinishPlan == Inv /\ PlanInv /\ (finish_unreserved \/ finish_reserved) => PlanInv'
<1> SUFFICES ASSUME Inv, PlanInv, finish_unreserved \/ finish_reserved, Undisturbed'
             PROVE  PlanInv'
  BY DEF PlanInv
<1>1. PICK reserved \in BOOLEAN :
        /\ reserved \/ phase = "offered"
        /\ \/ FinishRateLimited(reserved, None)
           \/ \E r \in RetryAfters : FinishRateLimited(reserved, now + r)
           \/ \E ok \in BOOLEAN : FinishOther(reserved, ok)
  BY DEF finish_unreserved, finish_reserved
<1>2. UNCHANGED <<now, rollbacks>> /\ phase \in {"offered", "running"} /\ now \in Int
  <2>1. now \in Int
    BY DEF Inv, TypeOK
  <2> QED
    BY <2>1 DEF finish_unreserved, finish_reserved
<1>3. ASSUME NEW retry_at \in Time, FinishRateLimited(reserved, retry_at) PROVE PlanInv'
  BY <1>2, <1>3, FinishRateLimitedPlan
<1>4. None \in Time /\ \A r \in RetryAfters : now + r \in Time
  BY <1>2, TimeAssumption DEF Time
<1>5. ASSUME NEW ok \in BOOLEAN, FinishOther(reserved, ok) PROVE PlanInv'
  BY <1>1, <1>2, <1>5, FinishOtherPlan
<1> QED
  BY <1>1, <1>3, <1>4, <1>5

\* Every step leaves a plan block_reason cannot refuse.
LEMMA NextPlan == Inv /\ PlanInv /\ [Next]_vars => PlanInv'
<1> SUFFICES ASSUME Inv, PlanInv, [Next]_vars PROVE PlanInv'
  OBVIOUS
<1>1. CASE UNCHANGED vars
  BY <1>1 DEF vars, procVars, PlanInv, Undisturbed
<1>2. CASE Next
  BY <1>2, ClockPlan, OpenPlan, ObservePlan, PollPlan, ReservePlan, RejectPlan, FinishPlan DEF Next
<1> QED
  BY <1>1, <1>2

-----------------------------------------------------------------------------
(* The discoveries of one opportunity. *)

\* r waits for nothing s does not wait for, with the starts of s.
Waits(s, r, t) ==
    /\ r \in ProviderState
    /\ r.deferred # None =>
           /\ s.deferred # None
           /\ r.deferred.rate_limit_attempts = s.deferred.rate_limit_attempts
    /\ \A d \in Days : d >= date(t) => r.runs[d] = s.runs[d]
    /\ r.last_started_at_utc = s.last_started_at_utc

\* Two steps that wait for nothing more do so together.
LEMMA WaitsTransitive ==
    ASSUME NEW s, NEW r, NEW q, NEW t, Waits(s, r, t), Waits(r, q, t)
    PROVE  Waits(s, q, t)
BY DEF Waits

\* States with the accounts of s and its deferred discovery, or none.
LEMMA SameWaits ==
    ASSUME NEW s, NEW r \in ProviderState, NEW t, SameAccounts(s, r),
           r.deferred \in {s.deferred, None}
    PROVE  Waits(s, r, t)
BY DEF SameAccounts, Waits

\* A day change keeps the starts of the day it changes to.
LEMMA ReconcileDayWaits ==
    ASSUME NEW s \in ProviderState, NEW p, NEW t \in 0..Horizon,
           NEW r \in reconcile_day(s, p, t)
    PROVE  Waits(s, r, t) /\ r.cooldown_until_utc \in {s.cooldown_until_utc, None}
<1>0. /\ r \in ProviderState /\ r.last_started_at_utc = s.last_started_at_utc
  BY ReconcileDayFollows DEF Follows
<1>1. CASE date(t) <= s.day_utc
  BY <1>0, <1>1 DEF reconcile_day, Waits
<1>2. CASE ~(date(t) <= s.day_utc)
  <2> DEFINE runs == [d \in Days |-> IF d >= date(t) THEN s.runs[d] ELSE 0]
             cool == IF s.cooldown_until_utc # None /\ s.cooldown_until_utc <= t
                     THEN None ELSE s.cooldown_until_utc
  <2>1. r.runs = runs /\ r.deferred = None /\ r.cooldown_until_utc = cool
    <3> DEFINE u == [s EXCEPT !.day_utc = date(t), !.runs = runs, !.deferred = None,
                            !.interface_triggers = NoTriggers,
                            !.cooldown_until_utc = cool]
    <3>1. \E q : r = [u EXCEPT !.slots = q]
      BY <1>2 DEF reconcile_day
    <3> HIDE DEF runs, cool
    <3> QED
      BY <3>1 DEF ProviderState
  <2> QED
    BY <1>0, <2>1 DEF Waits
<1> QED
  BY <1>1, <1>2

\* A change of the configuration keeps the discovery or drops it.
LEMMA AdoptPolicyWaits ==
    ASSUME NEW s \in ProviderState, NEW p \in Policy, NEW t, NEW r \in AdoptPolicy(s, p, t)
    PROVE  Waits(s, r, t)
<1> DEFINE u == [s EXCEPT !.policy = PolicyPart(p)]
<1>1. u \in ProviderState /\ u.deferred = s.deferred
  BY DEF ProviderState, PolicyPart, Policy
<1>2. r.deferred \in {s.deferred, None}
  <2>1. CASE s.policy = PolicyPart(p)
    BY <2>1 DEF AdoptPolicy
  <2>2. CASE s.policy # PolicyPart(p) /\ p.daily_max = 0
    <3>1. r = [u EXCEPT !.slots = {}, !.interface_triggers = NoTriggers, !.deferred = None]
      BY <2>2 DEF AdoptPolicy
    <3> HIDE DEF u
    <3> QED
      BY <1>1, <3>1 DEF ProviderState
  <2>3. CASE s.policy # PolicyPart(p) /\ p.daily_max # 0
    <3>1. r \in replan_remaining(u, p, t)
      BY <2>3 DEF AdoptPolicy
    <3> HIDE DEF u
    <3> QED
      BY <1>1, <3>1, ReplanFollows
  <2> QED
    BY <2>1, <2>2, <2>3
<1> QED
  BY <1>2, AdoptPolicyFollows, SameWaits

\* Scheduler::open keeps the discovery or drops it.
LEMMA ReconcileWaits ==
    ASSUME NEW s \in ProviderState, NEW p \in Policy, NEW t \in 0..Horizon,
           NEW m \in reconcile(s, p, t)
    PROVE  Waits(s, m, t)
<1>1. PICK r \in UNION {AdoptPolicy(d, p, t) : d \in reconcile_day(s, p, t)} :
        m = [r EXCEPT !.slots = {x \in r.slots : x > t},
                      !.last_observed_utc = max(r.last_observed_utc, t)]
  BY Zenon DEF reconcile
<1>2. PICK d \in reconcile_day(s, p, t) : r \in AdoptPolicy(d, p, t)
  BY Zenon
<1>3. Waits(s, d, t) /\ d \in ProviderState
  BY ReconcileDayWaits DEF Waits
<1>4. Waits(d, r, t) /\ r \in ProviderState
  BY <1>2, <1>3, AdoptPolicyWaits DEF Waits
<1>5. m \in ProviderState
  BY ReconcileFollows DEF Follows
<1>6. SameAccounts(r, m) /\ m.deferred = r.deferred
  BY <1>1, <1>4 DEF SameAccounts, ProviderState
<1> QED
  BY <1>3, <1>4, <1>5, <1>6, SameWaits, WaitsTransitive

\* A process that opens the state, replanning or not, waits for nothing more.
LEMMA OpenWaits ==
    ASSUME NEW s \in ProviderState, NEW p \in Policy, NEW t \in 0..Horizon, NEW b,
           NEW m \in open(s, p, t, b)
    PROVE  Waits(s, m, t)
<1>1. s # None
  BY NoneNotState
<1>2. CASE ~b
  BY <1>1, <1>2, ReconcileWaits DEF open
<1>3. CASE b
  <2>1. PICK r \in reconcile(s, p, t) : m \in replan_remaining(r, p, t)
    BY <1>1, <1>3 DEF open
  <2>2. Waits(s, r, t) /\ r \in ProviderState
    BY ReconcileWaits DEF Waits
  <2>3. Waits(r, m, t)
    BY <2>1, <2>2, ReplanFollows, SameWaits
  <2> QED
    BY <2>2, <2>3, WaitsTransitive
<1> QED
  BY <1>2, <1>3

\* So does advance_clock,
LEMMA AdvanceClockWaits ==
    ASSUME NEW s \in ProviderState, NEW p, NEW t \in 0..Horizon,
           NEW r \in advance_clock(s, p, t)
    PROVE  Waits(s, r, t)
<1>1. CASE r = s
  BY <1>1 DEF Waits
<1>2. CASE r # s
  <2>1. PICK d \in reconcile_day(s, p, t) : r = [d EXCEPT !.last_observed_utc = t]
    BY <1>2 DEF advance_clock
  <2>2. Waits(s, d, t) /\ d \in ProviderState
    BY ReconcileDayWaits DEF Waits
  <2>3. r \in ProviderState /\ SameAccounts(d, r) /\ r.deferred = d.deferred
    BY <2>1, <2>2 DEF ProviderState, SameAccounts
  <2> QED
    BY <2>2, <2>3, SameWaits, WaitsTransitive
<1> QED
  BY <1>1, <1>2

\* a health decision, which may give it another reason,
LEMMA HealthWaits ==
    ASSUME NEW s \in ProviderState, NEW i \in Interfaces, NEW decision, NEW t \in Int
    PROVE  Waits(s, HealthState(s, i, decision, t), t)
<1> DEFINE m == HealthState(s, i, decision, t)
<1>1. m \in ProviderState /\ SameAccounts(s, m)
  BY HealthFollows
<1>2. m.deferred # None => /\ s.deferred # None
                           /\ m.deferred.rate_limit_attempts = s.deferred.rate_limit_attempts
  <2>1. s.deferred \in Deferred \cup {None}
    BY DEF ProviderState
  <2>2. \/ m = s
        \/ m.deferred = s.deferred
        \/ s.deferred # None
           /\ m.deferred = [s.deferred EXCEPT !.reason = "ping", !.interface = i]
    BY DEF HealthState, Latch, ProviderState
  <2> HIDE DEF m
  <2> QED
    BY <2>1, <2>2 DEF Deferred
<1> HIDE DEF m
<1> QED
  BY <1>1, <1>2 DEF Waits, SameAccounts, m

\* expiry,
LEMMA ExpiryWaits ==
    ASSUME NEW s \in ProviderState, NEW t
    PROVE  /\ Waits(s, ExpireDeferred(ExpireTriggers(s, t), t), t)
           /\ LET m == ExpireDeferred(ExpireTriggers(s, t), t)
              IN m.deferred # None => m.deferred.rate_limit_attempts < MAX_RATE_LIMIT_ATTEMPTS
<1> DEFINE e == ExpireTriggers(s, t)
           m == ExpireDeferred(e, t)
<1>1. e \in ProviderState /\ m \in ProviderState /\ SameAccounts(s, m)
  BY ExpiryFollows
<1>2. e.deferred = s.deferred
  BY DEF ExpireTriggers, ProviderState
<1> HIDE DEF e
<1>3. m.deferred = (IF DeferredDead(e, t) THEN None ELSE e.deferred)
  BY <1>1 DEF ExpireDeferred, ProviderState
<1> HIDE DEF m
<1>4. m.deferred # None => m.deferred.rate_limit_attempts < MAX_RATE_LIMIT_ATTEMPTS
  <2> SUFFICES ASSUME m.deferred # None
               PROVE  m.deferred.rate_limit_attempts < MAX_RATE_LIMIT_ATTEMPTS
    OBVIOUS
  <2>1. m.deferred \in Deferred /\ m.deferred = e.deferred /\ ~DeferredDead(e, t)
    BY <1>1, <1>3 DEF ProviderState
  <2>2. m.deferred.rate_limit_attempts \in Nat
    BY <2>1 DEF Deferred
  <2> QED
    BY <2>1, <2>2, CapAssumption DEF DeferredDead
<1>5. m.deferred \in {s.deferred, None}
  BY <1>2, <1>3
<1>6. Waits(s, m, t)
  BY <1>1, <1>5, SameWaits
<1> QED
  BY <1>4, <1>6 DEF m, e

\* and a poll.
LEMMA PollWaits ==
    ASSUME NEW s \in ProviderState, NEW p, NEW t, NEW i \in Interfaces \cup {None},
           NEW m \in {BlockedState(s, p, t, i), OfferedState(s, t, i)}
    PROVE  Waits(s, m, t)
<1>1. m \in ProviderState /\ SameAccounts(s, m)
  BY PollFollows
<1>2. m.deferred = s.deferred
  <2> DEFINE r == remove_due_slots(s, t)
  <2>1. r \in ProviderState /\ r.deferred = s.deferred
    BY DEF remove_due_slots, ProviderState
  <2> HIDE DEF r
  <2>2. ClearPending(r, i).deferred = r.deferred
    BY <2>1 DEF ClearPending, ProviderState
  <2>3. CASE m = BlockedState(s, p, t, i)
    <3>1. m = r \/ m = ClearPending(r, i)
      BY <2>3 DEF BlockedState, r
    <3> QED
      BY <2>1, <2>2, <3>1
  <2>4. CASE m = OfferedState(s, t, i)
    <3>1. m = r \/ m = [r EXCEPT !.slots = {x \in r.slots : \E y \in r.slots : y < x}]
      BY <2>4 DEF OfferedState, r
    <3> QED
      BY <2>1, <3>1 DEF ProviderState
  <2> QED
    BY <2>3, <2>4
<1> QED
  BY <1>1, <1>2, SameWaits

\* What the commands may be configured with.
Configurations == RunPolicies \cup OncePolicies

\* One configuration is in use, and nothing interfered.
Alone == (\A p, q \in Configurations : p = q) /\ Undisturbed

\* No start is accounted for on a later day.
NothingAhead(s, t) == \A d \in Days : d > date(t) => s.runs[d] = 0

\* The limit and the spacing admit a start; the cooldown does.
Admitted(s, t) ==
    \A p \in Configurations :
        ~CapReached(s, p, t) /\ (~p.force_limits => ~TooSoon(s, p, t))
Cooled(s, t) == \A p \in Configurations : ~p.force_limits => ~InCooldown(s, t)

\* A discovery that waits has counted every attempt of d, and its reservation
\* will not be refused.
Rests(s, d, t) ==
    s.deferred # None => d <= s.deferred.rate_limit_attempts /\ Admitted(s, t)

\* A discovery under way is one more than those counted.
Discovers(s, d, t) ==
    /\ d <= (IF s.deferred = None THEN 1 ELSE s.deferred.rate_limit_attempts + 1)
    /\ Admitted(s, t) /\ Cooled(s, t)

\* The attempts of an opportunity are bounded because the state counts them,
\* between the handlers and while one is under way.
DiscoveryInv ==
    Alone =>
        /\ discoveries <= MAX_RATE_LIMIT_ATTEMPTS
        /\ phase # "down" => policy \in Configurations
        /\ store # None =>
             /\ NothingAhead(store, now)
             /\ phase \in {"down", "idle"} => Rests(store, discoveries, now)
             /\ phase = "offered" => Discovers(store, discoveries, now)

\* A state that waits for nothing more admits what was admitted.
LEMMA WaitsKeeps ==
    ASSUME NEW s, NEW r, NEW d, NEW t \in 0..Horizon, Waits(s, r, t)
    PROVE  /\ NothingAhead(s, t) => NothingAhead(r, t)
           /\ Admitted(s, t) => Admitted(r, t)
           /\ Rests(s, d, t) => Rests(r, d, t)
<1>0. date(t) \in Days /\ date(t) \in Int /\ Days \subseteq Int
  BY DateInDays, DateType DEF Days
<1>1. NothingAhead(s, t) => NothingAhead(r, t)
  <2> SUFFICES ASSUME NothingAhead(s, t), NEW e \in Days, e > date(t) PROVE r.runs[e] = 0
    BY DEF NothingAhead
  <2>1. e >= date(t)
    BY <1>0
  <2> QED
    BY <2>1 DEF Waits, NothingAhead
<1>2. r.runs[date(t)] = s.runs[date(t)] /\ r.last_started_at_utc = s.last_started_at_utc
  BY <1>0 DEF Waits
<1>3. Admitted(s, t) => Admitted(r, t)
  BY <1>2 DEF Admitted, CapReached, TooSoon
<1>4. Rests(s, d, t) => Rests(r, d, t)
  BY <1>3 DEF Rests, Waits
<1> QED
  BY <1>1, <1>3, <1>4

\* What was admitted stays admitted: the spacing passes, and the next day has
\* no starts.
LEMMA TickAdmitted ==
    ASSUME NEW s \in ProviderState, NEW t \in 0..Horizon, t + 1 \in 0..Horizon,
           NothingAhead(s, t)
    PROVE  /\ NothingAhead(s, t + 1)
           /\ Admitted(s, t) => Admitted(s, t + 1)
           /\ Cooled(s, t) => Cooled(s, t + 1)
<1>0. /\ date(t) \in Days /\ date(t + 1) \in Days
      /\ date(t) <= date(t + 1) /\ t \in Int
      /\ date(t) \in Int /\ date(t + 1) \in Int /\ \A d \in Days : d \in Int
  <2>1. t \in Int /\ t + 1 \in Int /\ t <= t + 1
    OBVIOUS
  <2> QED
    BY <2>1, DateInDays, DateMonotone, DateType DEF Days
<1>1. NothingAhead(s, t + 1)
  BY <1>0 DEF NothingAhead
<1>2. s.runs[date(t + 1)] = s.runs[date(t)] \/ s.runs[date(t + 1)] = 0
  <2>1. date(t + 1) = date(t) \/ date(t + 1) > date(t)
    BY <1>0
  <2> QED
    BY <1>0, <2>1 DEF NothingAhead
<1>3. /\ s.runs[date(t)] \in Nat /\ s.last_started_at_utc \in Time
      /\ s.cooldown_until_utc \in Time
  BY <1>0 DEF ProviderState
<1>4. ASSUME NEW p \in Configurations
      PROVE  /\ ~CapReached(s, p, t) => ~CapReached(s, p, t + 1)
             /\ ~TooSoon(s, p, t) => ~TooSoon(s, p, t + 1)
  <2>1. p.daily_max \in Nat /\ p.min_spacing \in Nat
    BY PolicyAssumption DEF Configurations, Policy
  <2>2. ~CapReached(s, p, t) => ~CapReached(s, p, t + 1)
    <3>1. HardCap \in Nat
      BY CapAssumption
    <3>2. /\ ~(s.runs[date(t)] >= HardCap) => ~(s.runs[date(t + 1)] >= HardCap)
          /\ ~(s.runs[date(t)] >= p.daily_max) => ~(s.runs[date(t + 1)] >= p.daily_max)
      BY <1>2, <1>3, <2>1, <3>1
    <3> QED
      BY <3>2, Zenon DEF CapReached
  <2>3. ~TooSoon(s, p, t) => ~TooSoon(s, p, t + 1)
    BY <1>0, <1>3, <2>1 DEF TooSoon, Time
  <2> QED
    BY <2>2, <2>3
<1>5. ~InCooldown(s, t) => ~InCooldown(s, t + 1)
  BY <1>0, <1>3 DEF InCooldown, Time
<1> QED
  BY <1>1, <1>4, <1>5 DEF Admitted, Cooled

\* A start that is not blocked is admitted.
LEMMA UnblockedAdmitted ==
    ASSUME NEW s, NEW t, NEW p \in Configurations, \A q \in Configurations : q = p,
           ~Blocked(s, p, t)
    PROVE  Admitted(s, t) /\ Cooled(s, t)
BY DEF Blocked, Admitted, Cooled

\* With limit, spacing and cooldown satisfied, block_reason finds nothing.
LEMMA AdmittedUnblocked ==
    ASSUME NEW s, NEW t, NEW p \in Configurations, Admitted(s, t), Cooled(s, t)
    PROVE  ~Blocked(s, p, t)
BY DEF Blocked, Admitted, Cooled

\* A handler's commit decides the invariant.
LEMMA HandlerDiscoveries ==
    ASSUME Inv, DiscoveryInv, phase # "down", NEW m, NEW ph, NEW o, Persist(m, ph, o),
           UNCHANGED <<now, rollbacks>>,
           Alone /\ crashes = 0 /\ Committed(m, ph, o) =>
             /\ discoveries' <= MAX_RATE_LIMIT_ATTEMPTS /\ NothingAhead(m, now)
             /\ ph \in {"down", "idle"} => Rests(m, discoveries', now)
             /\ ph = "offered" => Discovers(m, discoveries', now)
    PROVE  DiscoveryInv'
<1> SUFFICES ASSUME Alone' PROVE DiscoveryInv'
  BY DEF DiscoveryInv
<1>1. Committed(m, ph, o) /\ crashes = 0 /\ Alone
  <2>1. crashes' = 0 /\ rollbacks = 0
    BY DEF Alone, Undisturbed
  <2>2. Committed(m, ph, o) /\ crashes = 0
    BY <2>1, Commits DEF Inv
  <2> QED
    BY <2>1, <2>2 DEF Alone, Undisturbed
<1>2. store' = m /\ phase' = ph /\ (ph # "down" => policy' = policy)
  BY <1>1 DEF Committed, Down
<1>3. policy \in Configurations
  BY <1>1 DEF DiscoveryInv
<1> QED
  BY <1>1, <1>2, <1>3 DEF DiscoveryInv

\* What the invariant says before an undisturbed step of a process.
LEMMA DiscoveryStarts ==
    ASSUME Inv, DiscoveryInv, Alone, phase # "down"
    PROVE  /\ store \in ProviderState /\ now \in 0..Horizon /\ discoveries \in Nat
           /\ discoveries <= MAX_RATE_LIMIT_ATTEMPTS /\ policy \in Configurations
           /\ NothingAhead(store, now)
           /\ phase = "idle" => Rests(store, discoveries, now)
           /\ phase = "offered" => Discovers(store, discoveries, now)
<1>1. store \in ProviderState /\ store # None /\ now \in 0..Horizon /\ discoveries \in Nat
  BY DEF Inv, TypeOK
<1> QED
  BY <1>1 DEF DiscoveryInv

\* Time that passes admits more; a clock that steps back or a crash disturbs;
\* a process that stops between two attempts leaves what waits.
LEMMA ClockDiscoveries ==
    Inv /\ DiscoveryInv /\ (Tick \/ StepBack \/ Stop \/ Crash) => DiscoveryInv'
<1> SUFFICES ASSUME Inv, DiscoveryInv, Tick \/ StepBack \/ Stop \/ Crash, Alone'
             PROVE  DiscoveryInv'
  BY DEF DiscoveryInv
<1>0. crashes \in Nat /\ rollbacks \in Nat /\ now \in 0..Horizon /\ now \in Int
  BY BoundAssumption DEF Inv, TypeOK
<1>1. CASE Tick
  <2>1. /\ UNCHANGED <<store, procVars, crashes, rollbacks, discoveries>>
        /\ now' = now + 1 /\ now + 1 \in 0..Horizon
    BY <1>0, <1>1, TimeAssumption DEF Tick, ghosts
  <2>2. Alone
    BY <2>1 DEF Alone, Undisturbed
  <2>3. CASE store = None
    BY <2>1, <2>2, <2>3 DEF DiscoveryInv, procVars
  <2>4. CASE store # None
    <3>1. store \in ProviderState /\ NothingAhead(store, now)
      BY <2>2, <2>4 DEF DiscoveryInv, Inv, TypeOK
    <3>2. /\ NothingAhead(store, now + 1)
          /\ Admitted(store, now) => Admitted(store, now + 1)
          /\ Cooled(store, now) => Cooled(store, now + 1)
      BY <1>0, <2>1, <3>1, TickAdmitted
    <3>3. /\ Rests(store, discoveries, now) => Rests(store, discoveries, now + 1)
          /\ Discovers(store, discoveries, now) => Discovers(store, discoveries, now + 1)
      BY <3>2 DEF Rests, Discovers
    <3> QED
      BY <2>1, <2>2, <2>4, <3>2, <3>3 DEF DiscoveryInv, procVars
  <2> QED
    BY <2>3, <2>4
<1>2. CASE StepBack \/ Crash
  <2>1. crashes' > 0 \/ rollbacks' > 0
    BY <1>0, <1>2 DEF StepBack, Crash
  <2> QED
    BY <2>1 DEF Alone, Undisturbed
<1>3. CASE Stop
  <2>1. /\ UNCHANGED <<now, store, crashes, rollbacks, discoveries>>
        /\ phase = "idle" /\ phase' = "down"
    BY <1>3 DEF Stop, Down, ghosts
  <2>2. Alone
    BY <2>1 DEF Alone, Undisturbed
  <2> QED
    BY <2>1, <2>2 DEF DiscoveryInv
<1> QED
  BY <1>1, <1>2, <1>3

\* Opening the state keeps what waits; `once' discovers for the first time.
LEMMA OpenDiscoveries == Inv /\ DiscoveryInv /\ (OpenRun \/ OpenOnce) => DiscoveryInv'
<1> SUFFICES ASSUME Inv, DiscoveryInv, OpenRun \/ OpenOnce, Alone' PROVE DiscoveryInv'
  BY DEF DiscoveryInv
<1>0. /\ crashes \in Nat /\ now' = now /\ rollbacks' = rollbacks /\ phase = "down"
      /\ now \in 0..Horizon /\ crashes' = 0
  <2>1. crashes \in Nat /\ now \in 0..Horizon
    BY BoundAssumption DEF Inv, TypeOK
  <2> QED
    BY <2>1 DEF Alone, Undisturbed, OpenRun, OpenOnce
<1>1. \A m : ~TornCommit(m)
  BY <1>0 DEF TornCommit
<1>2. PICK p \in Configurations : \E m \in open(store, p, now, recovered) :
        /\ store' = m /\ UNCHANGED crashes
        /\ \/ phase' = "idle" /\ policy' = p /\ UNCHANGED discoveries
           \/ phase' = "down" /\ UNCHANGED discoveries
           \/ phase' = "offered" /\ policy' = p /\ discoveries' = 1 /\ ~Blocked(m, p, now)
  <2>1. CASE OpenRun
    BY <1>1, <2>1 DEF OpenRun, Configurations, ghosts
  <2>2. CASE OpenOnce
    <3>1. PICK p \in OncePolicies : \E m \in open(store, p, now, recovered) :
            /\ store' = m /\ UNCHANGED crashes
            /\ \/ Down /\ UNCHANGED discoveries
               \/ phase' = "offered" /\ policy' = p /\ discoveries' = 1 /\ ~Blocked(m, p, now)
      BY <1>1, <2>2 DEF OpenOnce
    <3>2. Down => phase' = "down"
      BY DEF Down
    <3>3. p \in Configurations
      BY DEF Configurations
    <3> QED
      BY <3>1, <3>2, <3>3
  <2> QED
    BY <2>1, <2>2
<1>3. PICK m \in open(store, p, now, recovered) :
        /\ store' = m /\ UNCHANGED crashes
        /\ \/ phase' = "idle" /\ policy' = p /\ UNCHANGED discoveries
           \/ phase' = "down" /\ UNCHANGED discoveries
           \/ phase' = "offered" /\ policy' = p /\ discoveries' = 1 /\ ~Blocked(m, p, now)
  BY <1>2
<1>4. Alone
  BY <1>0, <1>3 DEF Alone, Undisturbed
<1>5. p \in Policy
  BY PolicyAssumption DEF Configurations
<1>6. NothingAhead(m, now) /\ Rests(m, discoveries, now) /\ m \in ProviderState
  <2>1. CASE store = None
    <3>1. m \in NewProvider(p, now)
      BY <2>1 DEF open
    <3>2. m.deferred = None
      BY <3>1 DEF NewProvider
    <3>3. m \in ProviderState /\ m.runs = NoRuns
      BY <1>0, <1>5, <3>1, NewProviderType
    <3> QED
      BY <3>2, <3>3 DEF Rests, NothingAhead, NoRuns
  <2>2. CASE store # None
    <3>1. store \in ProviderState
      BY <2>2 DEF Inv, TypeOK
    <3>2. Waits(store, m, now)
      BY <1>0, <1>5, <3>1, OpenWaits
    <3>3. NothingAhead(store, now) /\ Rests(store, discoveries, now)
      BY <1>0, <1>4, <2>2 DEF DiscoveryInv
    <3> QED
      BY <1>0, <3>2, <3>3, WaitsKeeps DEF Waits
  <2> QED
    BY <2>1, <2>2
<1>7. CASE UNCHANGED discoveries /\ phase' \in {"idle", "down"}
  BY <1>0, <1>3, <1>4, <1>6, <1>7 DEF DiscoveryInv
<1>8. CASE phase' = "offered" /\ policy' = p /\ discoveries' = 1 /\ ~Blocked(m, p, now)
  <2>1. Admitted(m, now) /\ Cooled(m, now)
    BY <1>4, <1>8, UnblockedAdmitted DEF Alone
  <2>2. m.deferred = None \/ m.deferred.rate_limit_attempts \in Nat
    BY <1>6 DEF ProviderState, Deferred
  <2>3. Discovers(m, 1, now)
    BY <2>1, <2>2 DEF Discovers
  <2>4. 1 <= MAX_RATE_LIMIT_ATTEMPTS
    BY CapAssumption
  <2> QED
    BY <1>0, <1>3, <1>6, <1>8, <2>3, <2>4 DEF DiscoveryInv
<1> QED
  BY <1>3, <1>7, <1>8

\* A health decision changes the trigger and no discovery.
LEMMA ObserveDiscoveries == Inv /\ DiscoveryInv /\ Observe => DiscoveryInv'
<1> SUFFICES ASSUME Inv, DiscoveryInv, NEW i \in Interfaces, NEW d \in Decisions,
                    observe_interface_health(i, d)
             PROVE  DiscoveryInv'
  BY DEF Observe
<1>0. phase = "idle" /\ UNCHANGED <<now, rollbacks>> /\ UNCHANGED discoveries
  BY DEF observe_interface_health, ghosts
<1>1. PICK a \in advance_clock(store, policy, now) :
        Persist(HealthState(a, i, d, now), "idle", None) \/ Interrupted(a)
  BY DEF observe_interface_health
<1> DEFINE h == HealthState(a, i, d, now)
<1>2. PICK m \in {a, h} : Persist(m, "idle", None)
  BY <1>1 DEF Persist
<1>3. ASSUME Alone
      PROVE  /\ discoveries' <= MAX_RATE_LIMIT_ATTEMPTS /\ NothingAhead(m, now)
             /\ Rests(m, discoveries', now)
  <2>1. /\ store \in ProviderState /\ now \in 0..Horizon /\ now \in Int
        /\ discoveries <= MAX_RATE_LIMIT_ATTEMPTS
        /\ NothingAhead(store, now) /\ Rests(store, discoveries, now)
    BY <1>0, <1>3, DiscoveryStarts
  <2>2. Waits(store, a, now) /\ a \in ProviderState
    BY <2>1, AdvanceClockWaits DEF Waits
  <2>3. Waits(a, h, now)
    BY <2>1, <2>2, HealthWaits
  <2> HIDE DEF h
  <2>4. Waits(store, m, now)
    BY <1>2, <2>2, <2>3, WaitsTransitive
  <2> QED
    BY <1>0, <2>1, <2>4, WaitsKeeps
<1> QED
  BY <1>0, <1>2, <1>3, HandlerDiscoveries

\* A poll discovers again only while the count is below the maximum.
LEMMA PollDiscoveries == Inv /\ DiscoveryInv /\ Poll => DiscoveryInv'
<1> SUFFICES ASSUME Inv, DiscoveryInv, Alone', NEW success \in SUBSET Interfaces,
                    poll_interfaces(success)
             PROVE  DiscoveryInv'
  BY DEF Poll, DiscoveryInv
<1>0. phase = "idle" /\ UNCHANGED <<now, rollbacks>>
  BY DEF poll_interfaces
<1>1. CASE UNCHANGED <<store, recovered, procVars, crashes, discoveries>>
  BY <1>0, <1>1 DEF DiscoveryInv, Alone, Undisturbed, procVars
<1>2. CASE ~UNCHANGED <<store, recovered, procVars, crashes, discoveries>>
  <2> DEFINE s(a) == ExpireDeferred(ExpireTriggers(a, now), now)
  <2>1. PICK a \in advance_clock(store, policy, now) :
          \/ PollDeferred(s(a)) \/ PollRequest(s(a), success)
          \/ \E m : Interrupted(m)
    BY <1>2 DEF poll_interfaces
  <2>2. crashes \in Nat /\ \A m : ~Interrupted(m)
    BY BoundAssumption DEF Interrupted, Inv, TypeOK, Alone, Undisturbed
  <2>3. store \in ProviderState /\ now \in 0..Horizon
    BY <1>0 DEF Inv, TypeOK
  <2>4. Waits(store, a, now) /\ a \in ProviderState
    BY <2>3, AdvanceClockWaits DEF Waits
  <2>5. /\ Waits(store, s(a), now)
        /\ s(a).deferred # None =>
             s(a).deferred.rate_limit_attempts < MAX_RATE_LIMIT_ATTEMPTS
    BY <2>4, ExpiryWaits, WaitsTransitive
  <2> DEFINE u == s(a)
  <2>6. u \in ProviderState
    BY <2>5 DEF Waits
  <2>7. /\ u.deferred # None => /\ u.deferred.rate_limit_attempts < MAX_RATE_LIMIT_ATTEMPTS
                                /\ u.deferred.rate_limit_attempts \in Nat
        /\ 1 <= MAX_RATE_LIMIT_ATTEMPTS /\ MAX_RATE_LIMIT_ATTEMPTS \in Nat
    BY <2>5, <2>6, CapAssumption DEF ProviderState, Deferred
  <2>8. Waits(store, u, now)
    BY <2>5
  <2>9. PollDeferred(u) \/ PollRequest(u, success)
    BY <2>1, <2>2
  <2> HIDE DEF u
  <2>10. ASSUME Alone
         PROVE  /\ NothingAhead(u, now) /\ Rests(u, discoveries, now)
                /\ policy \in Configurations /\ \A q \in Configurations : q = policy
                /\ discoveries <= MAX_RATE_LIMIT_ATTEMPTS /\ discoveries \in Nat
    <3>1. /\ NothingAhead(store, now) /\ Rests(store, discoveries, now)
          /\ policy \in Configurations
          /\ discoveries <= MAX_RATE_LIMIT_ATTEMPTS /\ discoveries \in Nat
      BY <1>0, <2>10, DiscoveryStarts
    <3>2. NothingAhead(u, now) /\ Rests(u, discoveries, now)
      BY <2>3, <2>8, <3>1, WaitsKeeps
    <3> QED
      BY <2>10, <3>1, <3>2 DEF Alone
  <2>11. CASE PollDeferred(u)
    <3> DEFINE o == [reason |-> u.deferred.reason, interface |-> u.deferred.interface]
    <3>1. /\ u.deferred # None /\ ~InCooldown(u, now) /\ Persist(u, "offered", o)
          /\ discoveries' = IF phase' = "offered"
                            THEN min(discoveries + 1, MaxDiscoveries) ELSE discoveries
      BY <2>11 DEF PollDeferred
    <3>2. ASSUME Alone, Committed(u, "offered", o)
          PROVE  /\ discoveries' <= MAX_RATE_LIMIT_ATTEMPTS
                 /\ NothingAhead(u, now) /\ Discovers(u, discoveries', now)
      <4>1. discoveries' = min(discoveries + 1, MaxDiscoveries)
        BY <3>1, <3>2 DEF Committed
      <4>2. /\ discoveries <= u.deferred.rate_limit_attempts /\ Admitted(u, now)
            /\ NothingAhead(u, now) /\ discoveries \in Nat
        BY <2>10, <3>1, <3>2 DEF Rests
      <4>3. /\ discoveries' <= u.deferred.rate_limit_attempts + 1
            /\ discoveries' <= MAX_RATE_LIMIT_ATTEMPTS
        BY <2>7, <3>1, <4>1, <4>2 DEF min, MaxDiscoveries
      <4>4. Cooled(u, now)
        BY <3>1 DEF Cooled
      <4> QED
        BY <3>1, <4>2, <4>3, <4>4 DEF Discovers
    <3> HIDE DEF o
    <3> QED
      BY <1>0, <3>1, <3>2, HandlerDiscoveries
  <2>12. CASE PollRequest(u, success)
    <3>1. CASE Persist(u, "idle", None) /\ UNCHANGED discoveries
      BY <1>0, <2>10, <3>1, HandlerDiscoveries
    <3>2. CASE ~(Persist(u, "idle", None) /\ UNCHANGED discoveries)
      <4>1. PICK i \in Requests(u, now, success) :
              \/ /\ Persist(BlockedState(u, policy, now, i), "idle", None)
                 /\ UNCHANGED discoveries
              \/ /\ ~Blocked(u, policy, now)
                 /\ Persist(OfferedState(u, now, i), "offered",
                       [reason |-> IF i = None THEN "scheduled" ELSE "ping",
                        interface |-> i])
                 /\ discoveries' = IF phase' = "offered" THEN 1 ELSE discoveries
        BY <2>12, <3>2 DEF PollRequest
      <4>2. i \in Interfaces \cup {None}
        BY DEF Requests, oldest_eligible_pending_trigger
      <4> DEFINE b == BlockedState(u, policy, now, i)
                 f == OfferedState(u, now, i)
                 o == [reason |-> IF i = None THEN "scheduled" ELSE "ping", interface |-> i]
      <4>3. Waits(u, b, now) /\ Waits(u, f, now)
        BY <2>6, <4>2, PollWaits
      <4>4. f.cooldown_until_utc = u.cooldown_until_utc
        BY <2>6, <4>2, PollFollows DEF SameAccounts
      <4>5. \/ Persist(b, "idle", None) /\ UNCHANGED discoveries
            \/ /\ ~Blocked(u, policy, now) /\ Persist(f, "offered", o)
               /\ discoveries' = IF phase' = "offered" THEN 1 ELSE discoveries
        BY <4>1
      <4> HIDE DEF b, f, o
      <4>6. CASE Persist(b, "idle", None) /\ UNCHANGED discoveries
        <5>1. ASSUME Alone PROVE NothingAhead(b, now) /\ Rests(b, discoveries, now)
          BY <2>3, <2>10, <4>3, <5>1, WaitsKeeps
        <5> QED
          BY <1>0, <2>10, <4>6, <5>1, HandlerDiscoveries
      <4>7. CASE /\ ~Blocked(u, policy, now) /\ Persist(f, "offered", o)
                 /\ discoveries' = IF phase' = "offered" THEN 1 ELSE discoveries
        <5>1. ASSUME Alone, Committed(f, "offered", o)
              PROVE  /\ discoveries' <= MAX_RATE_LIMIT_ATTEMPTS
                     /\ NothingAhead(f, now) /\ Discovers(f, discoveries', now)
          <6>1. discoveries' = 1
            BY <4>7, <5>1 DEF Committed
          <6>2. Admitted(u, now) /\ Cooled(u, now)
            BY <2>10, <4>7, <5>1, UnblockedAdmitted
          <6>3. Admitted(f, now) /\ NothingAhead(f, now)
            BY <2>3, <2>10, <4>3, <5>1, <6>2, WaitsKeeps
          <6>4. Cooled(f, now)
            BY <4>4, <6>2 DEF Cooled, InCooldown
          <6>5. f.deferred = None \/ f.deferred.rate_limit_attempts \in Nat
            BY <4>3 DEF Waits, ProviderState, Deferred
          <6> QED
            BY <2>7, <6>1, <6>3, <6>4, <6>5 DEF Discovers
        <5> QED
          BY <1>0, <4>7, <5>1, HandlerDiscoveries
      <4> QED
        BY <4>5, <4>6, <4>7
    <3> QED
      BY <3>1, <3>2
  <2> QED
    BY <2>9, <2>11, <2>12
<1> QED
  BY <1>1, <1>2

\* A reservation counts a start of today.
LEMMA ReserveDiscoveries == Inv /\ DiscoveryInv /\ reserve_run => DiscoveryInv'
<1> SUFFICES ASSUME Inv, DiscoveryInv, reserve_run PROVE DiscoveryInv'
  OBVIOUS
<1>0. phase = "offered" /\ UNCHANGED <<now, rollbacks>> /\ UNCHANGED discoveries
  BY DEF reserve_run
<1>1. PICK s \in reconcile_day(store, policy, now) : Persist(Reserved(s, now), "running", opp)
  BY DEF reserve_run
<1>2. ASSUME Alone
      PROVE  /\ discoveries' <= MAX_RATE_LIMIT_ATTEMPTS /\ NothingAhead(Reserved(s, now), now)
  <2>1. /\ store \in ProviderState /\ now \in 0..Horizon /\ NothingAhead(store, now)
        /\ discoveries <= MAX_RATE_LIMIT_ATTEMPTS
    BY <1>0, <1>2, DiscoveryStarts
  <2>2. Waits(store, s, now)
    BY <2>1, ReconcileDayWaits
  <2>3. NothingAhead(s, now) /\ s \in ProviderState
    BY <2>1, <2>2, WaitsKeeps DEF Waits
  <2>4. Reserved(s, now).runs = [s.runs EXCEPT ![date(now)] = @ + 1]
    BY <2>1, <2>3, ReservedFollows
  <2>5. \A d \in Days : d \in Int
    BY DEF Days
  <2>6. date(now) \in Int
    BY <2>1, DateType
  <2>7. ASSUME NEW d \in Days, d > date(now) PROVE Reserved(s, now).runs[d] = 0
    <3>1. s.runs \in [Days -> Nat] /\ d # date(now)
      BY <2>3, <2>5, <2>6, <2>7 DEF ProviderState
    <3> QED
      BY <2>3, <2>4, <2>7, <3>1 DEF NothingAhead
  <2> QED
    BY <1>0, <2>1, <2>7 DEF NothingAhead
<1> QED
  BY <1>0, <1>1, <1>2, HandlerDiscoveries

\* Undisturbed, a reservation is not rejected.
LEMMA RejectDiscoveries == Inv /\ DiscoveryInv /\ reserve_rejected => DiscoveryInv'
<1> SUFFICES ASSUME Inv, DiscoveryInv, reserve_rejected, Alone' PROVE FALSE
  BY DEF DiscoveryInv
<1>0. phase = "offered" /\ UNCHANGED <<now, rollbacks>>
  BY DEF reserve_rejected, ghosts
<1>1. PICK s \in reconcile_day(store, policy, now) :
        /\ Blocked(s, policy, now)
        /\ Persist(s, "down", None) \/ UNCHANGED crashes
  BY DEF reserve_rejected
<1>2. Alone
  <2>1. crashes' = 0 /\ rollbacks = 0
    BY <1>0 DEF Alone, Undisturbed
  <2>2. crashes = 0
    BY <1>1, <2>1, Commits DEF Inv
  <2> QED
    BY <2>1, <2>2 DEF Alone, Undisturbed
<1>3. /\ store \in ProviderState /\ now \in 0..Horizon /\ policy \in Configurations
      /\ Admitted(store, now) /\ Cooled(store, now)
  BY <1>0, <1>2, DiscoveryStarts DEF Discovers
<1>4. Waits(store, s, now) /\ s.cooldown_until_utc \in {store.cooldown_until_utc, None}
  BY <1>3, ReconcileDayWaits
<1>5. Admitted(s, now)
  BY <1>3, <1>4, WaitsKeeps
<1>6. Cooled(s, now)
  BY <1>3, <1>4 DEF Cooled, InCooldown
<1> QED
  BY <1>1, <1>3, <1>5, <1>6, AdmittedUnblocked

\* What a rate limit leaves waiting has counted the discovery just made.
LEMMA RateLimitedCounts ==
    ASSUME NEW s \in ProviderState, NEW o \in Opportunity, NEW t \in Int,
           NEW reserved \in BOOLEAN, NEW deadline
    PROVE  LET m == RateLimited(s, o, t, reserved, deadline)
           IN  m.deferred # None =>
                 /\ ~reserved
                 /\ m.deferred.rate_limit_attempts =
                      IF s.deferred = None THEN 1 ELSE s.deferred.rate_limit_attempts + 1
<1> DEFINE next == NextDeferred(s, o, t, deadline)
           m == RateLimited(s, o, t, reserved, deadline)
           counted == IF s.deferred = None THEN 1 ELSE s.deferred.rate_limit_attempts + 1
<1>1. next # None => next.rate_limit_attempts = counted
  BY DEF NextDeferred
<1> HIDE DEF counted, next
<1>2. m.deferred = IF reserved THEN None ELSE next
  BY DEF RateLimited, ClearPending, ProviderState, next
<1> HIDE DEF m
<1>3. m.deferred # None => ~reserved /\ m.deferred.rate_limit_attempts = counted
  BY <1>1, <1>2
<1> QED
  BY <1>3 DEF m, counted

\* A rate limit counts the attempt, or gives the opportunity up at the last one.
LEMMA FinishRateLimitedDiscoveries ==
    ASSUME Inv, DiscoveryInv, UNCHANGED <<now, rollbacks>>,
           phase \in {"offered", "running"},
           NEW reserved \in BOOLEAN, reserved \/ phase = "offered",
           NEW retry_at \in Time, FinishRateLimited(reserved, retry_at),
           discoveries' = IF store'.deferred = None THEN 0 ELSE discoveries
    PROVE  DiscoveryInv'
<1> DEFINE deadline(d) == maxOpt(store.cooldown_until_utc, d)
           limited(d) == RateLimited(store, opp, now, reserved, deadline(d))
<1>1. PICK d \in Deadlines(store, now, retry_at) :
        \E m \in replan_remaining(limited(d), policy, now) : Persist(m, AfterAttempt, None)
  BY DEF FinishRateLimited
<1>2. PICK m \in replan_remaining(limited(d), policy, now) : Persist(m, AfterAttempt, None)
  BY <1>1
<1>3. store \in ProviderState /\ opp \in Opportunity /\ now \in 0..Horizon /\ now \in Int
  BY DEF Inv, TypeOK
<1>4. d \in Int
  BY <1>3 DEF Deadlines, Time, jitter_duration
<1>5. limited(d) \in ProviderState
  BY <1>3, <1>4, RateLimitedFollows DEF Follows
<1>6. /\ limited(d).last_started_at_utc = store.last_started_at_utc
      /\ limited(d).runs = store.runs
  BY <1>3 DEF RateLimited, ClearPending, ProviderState
<1>7. limited(d).deferred # None =>
        /\ ~reserved
        /\ limited(d).deferred.rate_limit_attempts =
             IF store.deferred = None THEN 1 ELSE store.deferred.rate_limit_attempts + 1
  BY <1>3, RateLimitedCounts
<1> HIDE DEF limited
<1>8. SameAccounts(limited(d), m) /\ m.deferred = limited(d).deferred /\ m \in ProviderState
  BY <1>5, ReplanFollows
<1>9. m.runs = store.runs /\ m.last_started_at_utc = store.last_started_at_utc
  BY <1>6, <1>8 DEF SameAccounts
<1>10. ASSUME Alone, Committed(m, AfterAttempt, None)
       PROVE  /\ discoveries' <= MAX_RATE_LIMIT_ATTEMPTS /\ NothingAhead(m, now)
              /\ Rests(m, discoveries', now)
  <2>1. /\ discoveries \in Nat /\ discoveries <= MAX_RATE_LIMIT_ATTEMPTS
        /\ NothingAhead(store, now)
        /\ phase = "offered" => Discovers(store, discoveries, now)
    BY <1>10, DiscoveryStarts
  <2>2. store' = m
    BY <1>10 DEF Committed
  <2>3. discoveries' <= MAX_RATE_LIMIT_ATTEMPTS
    BY <2>1, CapAssumption
  <2>4. NothingAhead(m, now)
    BY <1>9, <2>1 DEF NothingAhead
  <2>5. ASSUME m.deferred # None
        PROVE  discoveries' <= m.deferred.rate_limit_attempts /\ Admitted(m, now)
    <3>1. Discovers(store, discoveries, now) /\ discoveries' = discoveries
      BY <1>7, <1>8, <2>1, <2>2, <2>5
    <3>2. Admitted(m, now)
      BY <1>9, <3>1 DEF Discovers, Admitted, CapReached, TooSoon
    <3> QED
      BY <1>7, <1>8, <2>5, <3>1, <3>2 DEF Discovers
  <2> QED
    BY <2>3, <2>4, <2>5 DEF Rests
<1>11. AfterAttempt \in {"down", "idle"}
  BY DEF AfterAttempt
<1> QED
  BY <1>2, <1>10, <1>11, HandlerDiscoveries

\* Any other outcome ends the opportunity.
LEMMA FinishOtherDiscoveries ==
    ASSUME Inv, DiscoveryInv, UNCHANGED <<now, rollbacks>>,
           phase \in {"offered", "running"},
           NEW reserved \in BOOLEAN, NEW ok \in BOOLEAN, FinishOther(reserved, ok),
           discoveries' = IF store'.deferred = None THEN 0 ELSE discoveries
    PROVE  DiscoveryInv'
<1> DEFINE c == Completed(store, opp, ok)
<1>1. PICK m \in Resettled(c, policy, opp, now, reserved) : Persist(m, AfterAttempt, None)
  BY DEF FinishOther
<1>2. store \in ProviderState /\ opp \in Opportunity
  BY DEF Inv, TypeOK
<1>3. c \in ProviderState
  BY <1>2, CompletedFollows
<1>4. c.runs = store.runs /\ c.deferred = None
  BY <1>2 DEF Completed, ClearPending, ProviderState
<1> HIDE DEF c
<1>5. m.deferred = None /\ m.runs = store.runs
  <2>1. m.runs = c.runs
    BY <1>3, ResettledSame DEF SameAccounts
  <2>2. \/ m \in replan_remaining(c, policy, now)
        \/ m = [c EXCEPT !.slots = {x \in c.slots : x >= now + policy.min_spacing}]
        \/ m = c
    BY DEF Resettled
  <2>3. m.deferred = c.deferred
    BY <1>3, <2>2, ReplanFollows DEF ProviderState
  <2> QED
    BY <1>4, <2>1, <2>3
<1>6. ASSUME Alone, Committed(m, AfterAttempt, None)
      PROVE  /\ discoveries' <= MAX_RATE_LIMIT_ATTEMPTS /\ NothingAhead(m, now)
             /\ Rests(m, discoveries', now)
  <2>1. NothingAhead(store, now)
    BY <1>6, DiscoveryStarts
  <2>2. discoveries' = 0
    BY <1>5, <1>6 DEF Committed
  <2> QED
    BY <1>5, <2>1, <2>2, CapAssumption DEF NothingAhead, Rests
<1>7. AfterAttempt \in {"down", "idle"}
  BY DEF AfterAttempt
<1> QED
  BY <1>1, <1>6, <1>7, HandlerDiscoveries

\* finish_attempt, with and without a reserved start.
LEMMA FinishDiscoveries ==
    Inv /\ DiscoveryInv /\ (finish_unreserved \/ finish_reserved) => DiscoveryInv'
<1> SUFFICES ASSUME Inv, DiscoveryInv, finish_unreserved \/ finish_reserved
             PROVE  DiscoveryInv'
  OBVIOUS
<1>1. PICK reserved \in BOOLEAN :
        /\ reserved \/ phase = "offered"
        /\ \/ FinishRateLimited(reserved, None)
           \/ \E r \in RetryAfters : FinishRateLimited(reserved, now + r)
           \/ \E ok \in BOOLEAN : FinishOther(reserved, ok)
  BY DEF finish_unreserved, finish_reserved
<1>2. /\ UNCHANGED <<now, rollbacks>> /\ phase \in {"offered", "running"} /\ now \in Int
      /\ discoveries' = IF store'.deferred = None THEN 0 ELSE discoveries
  <2>1. now \in Int
    BY DEF Inv, TypeOK
  <2> QED
    BY <2>1 DEF finish_unreserved, finish_reserved
<1>3. ASSUME NEW retry_at \in Time, FinishRateLimited(reserved, retry_at) PROVE DiscoveryInv'
  BY <1>1, <1>2, <1>3, FinishRateLimitedDiscoveries
<1>4. None \in Time /\ \A r \in RetryAfters : now + r \in Time
  BY <1>2, TimeAssumption DEF Time
<1>5. ASSUME NEW ok \in BOOLEAN, FinishOther(reserved, ok) PROVE DiscoveryInv'
  BY <1>2, <1>5, FinishOtherDiscoveries
<1> QED
  BY <1>1, <1>3, <1>4, <1>5

\* Every step keeps the bound on the discoveries.
LEMMA NextDiscoveries == Inv /\ DiscoveryInv /\ [Next]_vars => DiscoveryInv'
<1> SUFFICES ASSUME Inv, DiscoveryInv, [Next]_vars PROVE DiscoveryInv'
  OBVIOUS
<1>1. CASE UNCHANGED vars
  BY <1>1 DEF vars, procVars, ghosts, DiscoveryInv, Alone, Undisturbed
<1>2. CASE Next
  BY <1>2, ClockDiscoveries, OpenDiscoveries, ObserveDiscoveries, PollDiscoveries,
     ReserveDiscoveries, RejectDiscoveries, FinishDiscoveries DEF Next
<1> QED
  BY <1>1, <1>2

-----------------------------------------------------------------------------
(* The theorems. *)

\* Every reachable state of the scheduler is well typed.
THEOREM TypeCorrect == Spec => []TypeOK
<1>1. Inv => TypeOK
  BY DEF Inv
<1> QED BY <1>1, InvHolds, PTL

\* An admitted start is never refunded, for every number of interfaces,
\* crashes, interrupted commits, clock steps, days and configurations.
THEOREM StartsNeverRefunded == Spec => []NoRefund
<1>1. Inv => NoRefund
  BY DEF Inv, Accounts
<1> QED BY <1>1, InvHolds, PTL

\* M-Lab's fixed daily limit holds as long as the clock does not step back,
\* for forced and unforced starts of both commands.
THEOREM FixedLimitHolds == Spec => []HardCapRespected
<1>1. Inv => HardCapRespected
  BY DEF Inv, Accounts
<1> QED BY <1>1, InvHolds, PTL

\* Unforced starts keep the minimum spacing, also when the clock steps back.
THEOREM SpacingHolds == Spec => SpacingHonoured
<1>1. Inv /\ [Next]_vars => SpacingStep
  BY SpacingAction
<1> QED BY <1>1, InvHolds, PTL DEF Spec, SpacingHonoured

\* Unforced starts respect the configured daily maximum, as long as the clock
\* has not stepped back.
THEOREM DailyMaximumHolds == Spec => CapHonoured
<1>1. Inv /\ [Next]_vars => CapStep
  BY CapAction
<1> QED BY <1>1, InvHolds, PTL DEF Spec, CapHonoured

\* Unforced starts wait for every deadline a provider set, as long as the clock
\* has not stepped back.
THEOREM CooldownHolds == Spec => CooldownHonoured
<1>1. Inv /\ [Next]_vars => CooldownStep
  BY CooldownAction
<1> QED BY <1>1, InvHolds, PTL DEF Spec, CooldownHonoured

\* No step of any process makes the scheduler forget how far the wall clock
\* had come.
THEOREM ObservedClockNeverLost == Spec => ObservedClockMonotone
<1>1. Inv /\ [Next]_vars => ClockKept \/ UNCHANGED vars
  BY NextInv
<1> QED BY <1>1, InvHolds, PTL DEF Spec, ObservedClockMonotone

\* While no crash and no clock step interfered, a waiting process holds slots
\* that lie behind the spacing and the cooldown and apart from each other
\* (plan_interval, replan_remaining, finish_attempt), for every configuration.
THEOREM PlansSound == Spec => []PlanSound
<1>1. Init => PlanInv
  BY DEF Init, PlanInv
<1>2. Inv /\ PlanInv => PlanSound
  <2> SUFFICES ASSUME Inv, PlanInv, phase = "idle", Undisturbed PROVE PlanSound
    BY DEF PlanSound, Undisturbed
  <2>1. Settled(store, policy, now)
    BY WaitingSettled DEF Inv
  <2> QED
    BY <2>1 DEF Settled, Sound, Apart, Rested, PlanSound
<1> QED
  BY <1>1, <1>2, NextPlan, InvHolds, PTL DEF Spec

\* An opportunity makes at most MAX_RATE_LIMIT_ATTEMPTS discovery attempts
\* (poll_interfaces, reserve_run, finish_attempt) while one configuration is in
\* use and no crash and no clock step interfered, for every configuration.
THEOREM DiscoveriesLimited == Spec => []DiscoveriesBoundedUndisturbed
<1>1. Init => DiscoveryInv
  BY CapAssumption DEF Init, DiscoveryInv
<1>2. DiscoveryInv => DiscoveriesBoundedUndisturbed
  BY DEF DiscoveryInv, Alone, Undisturbed, Configurations, DiscoveriesBoundedUndisturbed,
         DiscoveriesBounded
<1> QED
  BY <1>1, <1>2, NextDiscoveries, InvHolds, PTL DEF Spec
=============================================================================
