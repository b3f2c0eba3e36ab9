----------------------- MODULE AdaptiveMonitor_proofs -----------------------
(***************************************************************************)
(* Proofs about AdaptiveMonitor, for every configuration of the window and *)
(* any number of targets, restarts and days: an episode asks for one test, *)
(* and a recovery re-arms the trigger.                                     *)
(*                                                                         *)
(* Neither property is inductive.  That no second request is made depends  *)
(* on the latch standing for the first one (Latched), and that the rounds  *)
(* of a recovery re-arm the trigger depends on the window counting them    *)
(* too, which it does only while it is degraded (Counting).                *)
(* That an episode ends only when it was recovered from depends on what    *)
(* the streak of the window stands for (Earned).                           *)
(***************************************************************************)
EXTENDS AdaptiveMonitor, SequenceTheorems, TLAPS

\* Types of what decides about requests; what the rounds hold is not needed.
Typed ==
    /\ degraded \in BOOLEAN /\ recovery_streak \in 0..(recovery_rounds - 1)
    /\ latched \in BOOLEAN /\ own \in BOOLEAN
    /\ days \in Nat /\ requests \in Nat /\ good \in 0..recovery_rounds

Latched == OneRequestPerEpisode /\ (~latched => requests = 0)

Counting == own /\ latched => degraded /\ good <= recovery_streak

Inv == Typed /\ Latched /\ Counting

-----------------------------------------------------------------------------
(* The window. *)

\* A round leaves the window well typed.  A decision "degraded" leaves it
\* degraded with a streak of one more or none; it is not "degraded" or
\* "recovered" unless the window is degraded before or after.
LEMMA ObserveRound ==
    ASSUME Typed, NEW samples, NEW d \in Decisions, observe_round(samples, d)
    PROVE  /\ degraded' \in BOOLEAN /\ recovery_streak' \in 0..(recovery_rounds - 1)
           /\ d = "healthy" => ~degraded
           /\ d = "degraded" => degraded'
           /\ d = "degraded" /\ degraded => recovery_streak' = Streak(samples)
<1> DEFINE reason == degradation_reason_of(FlattenSeq(rounds'))
<1>1. recovery_rounds \in Nat \ {0}
  BY ConfigAssumption
<1>2. Streak(samples) \in Nat
  BY DEF Streak, Typed
<1>3. CASE Healthy(reason, d)
  BY <1>3 DEF Healthy, Typed
<1>4. CASE Degrade(reason, d)
  BY <1>1, <1>4 DEF Degrade, Typed
<1>5. CASE StayDegraded(samples, d)
  BY <1>1, <1>2, <1>5 DEF StayDegraded, Typed
<1>6. CASE Recover(samples, d)
  <2>1. recovery_streak' \in 0..(recovery_rounds - 1)
    BY <1>1, <1>6 DEF Recover
  <2>2. degraded' = FALSE /\ d = "recovered"
    BY <1>6 DEF Recover
  <2> QED
    BY <2>1, <2>2, Zenon
<1> QED
  BY <1>3, <1>4, <1>5, <1>6 DEF observe_round

\* The rounds counted since the trigger was set stay within their bound.
LEMMA GoodAfterTyped ==
    ASSUME Typed, NEW samples
    PROVE  /\ GoodAfter(samples) \in 0..recovery_rounds
           /\ good <= recovery_streak => GoodAfter(samples) <= Streak(samples)
<1>1. recovery_rounds \in Nat \ {0}
  BY ConfigAssumption
<1> QED
  BY <1>1 DEF GoodAfter, Streak, min, Typed

-----------------------------------------------------------------------------
(* The trigger. *)

\* The state after advance_clock: what the latch stood for it still stands
\* for, and a latch that is left was there before, for the same request.
LEMMA ClockKeepsLatched ==
    ASSUME Inv, NEW t \in Clocked, AdvanceClock(t)
    PROVE  /\ t.latched \in BOOLEAN /\ days' \in Nat /\ Counted \in Nat
           /\ Counted <= 1 /\ (~t.latched => Counted = 0)
           /\ t.latched => latched
<1>1. CASE t = Trigger /\ UNCHANGED days
  BY <1>1 DEF Trigger, Counted, Inv, Typed, Latched, OneRequestPerEpisode
<1>2. CASE t = NoTrigger /\ days' = days + 1
  BY <1>2 DEF NoTrigger, Counted, Inv, Typed
<1> QED
  BY <1>1, <1>2 DEF AdvanceClock

\* What poll leaves keeps the latch.
LEMMA ExpiredKeepsLatch ==
    ASSUME NEW t \in Clocked, NEW x \in Expired(t)
    PROVE  x.latched = t.latched
BY DEF Expired, Clocked, Trigger, NoTrigger

\* A step of the scheduler that only passes on what advance_clock left, and
\* neither the window nor the history of the rounds.
LEMMA PassedOn ==
    ASSUME Inv, NEW t \in Clocked, AdvanceClock(t),
           latched' = t.latched, requests' = Counted,
           UNCHANGED <<window, good, own>>
    PROVE  Inv'
<1>1. Typed'
  BY ClockKeepsLatched DEF Inv, Typed, window
<1>2. Latched'
  BY ClockKeepsLatched DEF Latched, OneRequestPerEpisode
<1>3. Counting'
  BY ClockKeepsLatched DEF Inv, Counting, window
<1> QED
  BY <1>1, <1>2, <1>3 DEF Inv

\* The scheduler takes the decision of a round.
LEMMA ObserveHealth ==
    ASSUME Inv, NEW samples, NEW d \in Decisions, observe_round(samples, d),
           NEW t \in Clocked, AdvanceClock(t), observe_health(t, samples, d)
    PROVE  Inv'
<1>1. /\ t.latched \in BOOLEAN /\ days' \in Nat /\ Counted \in Nat
      /\ Counted <= 1 /\ (~t.latched => Counted = 0) /\ (t.latched => latched)
  BY ClockKeepsLatched
<1>2. /\ degraded' \in BOOLEAN /\ recovery_streak' \in 0..(recovery_rounds - 1)
      /\ d = "healthy" => ~degraded
      /\ d = "degraded" => degraded'
      /\ d = "degraded" /\ degraded => recovery_streak' = Streak(samples)
  BY ObserveRound DEF Inv
<1>3. /\ GoodAfter(samples) \in 0..recovery_rounds
      /\ good <= recovery_streak => GoodAfter(samples) <= Streak(samples)
  BY GoodAfterTyped DEF Inv
<1>4. own \in BOOLEAN /\ recovery_rounds \in Nat \ {0}
  BY ConfigAssumption DEF Inv, Typed
<1>5. CASE /\ d = "degraded" /\ ~t.latched
           /\ SetTrigger([t EXCEPT !.latched = TRUE, !.pending = ~t.deferred])
           /\ requests' = Counted + 1 /\ good' = 0 /\ own' = TRUE
  <2>1. latched' = TRUE
    BY <1>5 DEF SetTrigger, Clocked, Trigger, NoTrigger
  <2>2. requests' = 1
    BY <1>1, <1>5
  <2> QED
    BY <1>1, <1>2, <1>4, <1>5, <2>1, <2>2
       DEF Inv, Typed, Latched, OneRequestPerEpisode, Counting
<1>6. CASE /\ d = "recovered" /\ SetTrigger(Rearmed(t))
           /\ requests' = 0 /\ good' = GoodAfter(samples) /\ UNCHANGED own
  <2>1. latched' = FALSE
    BY <1>6 DEF SetTrigger, Rearmed, Clocked, Trigger, NoTrigger
  <2>2. requests' = 0 /\ 0 \in Nat /\ 0 <= 1
    BY <1>6
  <2> QED
    BY <1>1, <1>2, <1>3, <1>4, <1>6, <2>1, <2>2, Zenon
       DEF Inv, Typed, Latched, OneRequestPerEpisode, Counting
<1>7. CASE /\ d = "healthy" \/ (d = "degraded" /\ t.latched)
           /\ SetTrigger(t)
           /\ requests' = Counted /\ good' = GoodAfter(samples) /\ UNCHANGED own
  <2>1. latched' = t.latched
    BY <1>7 DEF SetTrigger
  <2>2. Typed' /\ Latched'
    BY <1>1, <1>2, <1>3, <1>4, <1>7, <2>1 DEF Typed, Latched, OneRequestPerEpisode
  <2>3. Counting'
    BY <1>1, <1>2, <1>3, <1>7, <2>1 DEF Inv, Counting
  <2> QED
    BY <2>2, <2>3 DEF Inv
<1> QED
  BY <1>5, <1>6, <1>7 DEF observe_health

-----------------------------------------------------------------------------
(* The steps. *)

\* The first process begins with nothing requested.
LEMMA Initially == Init => Inv
<1> SUFFICES ASSUME Init PROVE Inv
  OBVIOUS
<1>1. 0 \in 0..(recovery_rounds - 1) /\ 0 \in 0..recovery_rounds /\ 0 \in Nat /\ 0 <= 1
  BY ConfigAssumption
<1>2. /\ degraded = FALSE /\ recovery_streak = 0 /\ latched = FALSE /\ own = FALSE
      /\ days = 0 /\ requests = 0 /\ good = 0
  BY DEF Init, WindowInit
<1> QED
  BY <1>1, <1>2, Zenon DEF Inv, Typed, Latched, OneRequestPerEpisode, Counting

\* The end of a process keeps the trigger and its requests, and forgets the
\* window together with what was counted for it.
LEMMA ExitKeeps ==
    ASSUME Inv, Exit, UNCHANGED <<trigger, bounds, requests>>
    PROVE  Inv'
<1>1. 0 \in 0..(recovery_rounds - 1) /\ 0 \in 0..recovery_rounds
  BY ConfigAssumption
<1>2. degraded' = FALSE /\ recovery_streak' = 0 /\ good' = 0 /\ own' = FALSE
  BY DEF Exit, NewWindow
<1>3. latched' = latched /\ days' = days /\ requests' = requests
  BY DEF trigger, bounds
<1> QED
  BY <1>1, <1>2, <1>3, Zenon DEF Inv, Typed, Latched, OneRequestPerEpisode, Counting

\* A step that touches neither the window nor the trigger keeps them.
LEMMA Untouched ==
    ASSUME Inv, UNCHANGED <<window, trigger, bounds, history>>
    PROVE  Inv'
BY DEF window, trigger, bounds, history, Inv, Typed, Latched, OneRequestPerEpisode, Counting

\* Every step keeps the invariant.
LEMMA Steps == Inv /\ [Next]_vars => Inv'
<1> SUFFICES ASSUME Inv, [Next]_vars PROVE Inv'
  OBVIOUS
<1>1. CASE LoopHead
  BY <1>1, Untouched DEF LoopHead
<1>2. CASE Stopped
  BY <1>2, ExitKeeps DEF Stopped
<1>3. CASE PollWait
  <2>1. PICK t \in Clocked : /\ AdvanceClock(t) /\ requests' = Counted
                             /\ \E x \in Expired(t) : SetTrigger(x)
    BY <1>3 DEF PollWait
  <2>2. latched' = t.latched
    BY <2>1, ExpiredKeepsLatch DEF SetTrigger
  <2> QED
    BY <1>3, <2>1, <2>2, PassedOn DEF PollWait
<1>4. CASE PollOffer
  <2>1. PICK t \in Clocked : AdvanceClock(t) /\ SetTrigger(t) /\ requests' = Counted
    BY <1>4 DEF PollOffer
  <2> QED
    BY <1>4, <2>1, PassedOn DEF PollOffer, SetTrigger
<1>5. CASE Tick
  BY <1>5, Untouched DEF Tick
<1>6. CASE RoundCompletes
  BY <1>6, ObserveHealth, Zenon DEF RoundCompletes, Clocked
<1>7. CASE RoundCancelled
  BY <1>7, ExitKeeps DEF RoundCancelled
<1>8. CASE LoadedTick
  BY <1>8, Untouched DEF LoadedTick
<1>9. CASE LoadedRoundCompletes
  BY <1>9, Untouched DEF LoadedRoundCompletes
<1>10. CASE AttemptReturns
  <2>1. PICK t \in Clocked, d \in BOOLEAN :
            /\ AdvanceClock(t) /\ requests' = Counted
            /\ SetTrigger([t EXCEPT !.pending = FALSE, !.deferred = d])
    BY <1>10 DEF AttemptReturns
  <2>2. latched' = t.latched
    BY <2>1 DEF SetTrigger, Clocked, Trigger, NoTrigger
  <2> QED
    BY <1>10, <2>1, <2>2, PassedOn DEF AttemptReturns
<1>11. CASE Shutdown
  BY <1>11, Untouched DEF Shutdown
<1>12. CASE Crash
  BY <1>12, ExitKeeps DEF Crash
<1>13. CASE Open
  <2>1. PICK t \in Clocked : AdvanceClock(t) /\ SetTrigger(t) /\ requests' = Counted
    BY <1>13 DEF Open
  <2> QED
    BY <1>13, <2>1, PassedOn DEF Open, SetTrigger
<1>14. CASE UNCHANGED vars
  BY <1>14, Untouched DEF vars
<1> QED
  BY <1>1, <1>2, <1>3, <1>4, <1>5, <1>6, <1>7, <1>8, <1>9, <1>10, <1>11, <1>12, <1>13, <1>14
     DEF Next

LEMMA Invariant == Spec => []Inv
BY Initially, Steps, PTL DEF Spec

-----------------------------------------------------------------------------
(* The types, and what a streak of the window stands for.                  *)

\* The last n rounds, or as many as are left of them, are recovery rounds.
Recovering(rs, n) == \A k \in 1..Len(rs) : k > Len(rs) - n => recovery_round(rs[k])

\* While the window is degraded its streak is that of its last rounds.
Earned == degraded => Recovering(rounds, recovery_streak)

Sound == TypeOK /\ Earned

\* A round joins the window, which may drop its first one for it.
LEMMA RetainKeeps ==
    ASSUME NEW rs \in Seq(Rounds), Len(rs) <= window_rounds, NEW s \in Rounds, NEW n \in Nat,
           NEW kept, kept = Retain(Append(rs, s))
    PROVE  /\ kept \in Seq(Rounds) /\ Len(kept) <= window_rounds
           /\ Recovering(kept, 0)
           /\ Recovering(rs, n) /\ recovery_round(s) => Recovering(kept, n + 1)
<1> DEFINE full == Append(rs, s)
<1>1. /\ full \in Seq(Rounds) /\ full # <<>> /\ Len(full) = Len(rs) + 1 /\ Len(rs) \in Nat
      /\ \A k \in 1..Len(rs) : full[k] = rs[k]
      /\ full[Len(rs) + 1] = s
  BY AppendProperties, LenProperties
<1>2. window_rounds \in Nat
  BY ConfigAssumption
<1>3. kept = IF Len(full) > window_rounds THEN Tail(full) ELSE full
  BY DEF Retain
<1> HIDE DEF full
<1>4. /\ Tail(full) \in Seq(Rounds) /\ Len(Tail(full)) = Len(full) - 1
      /\ \A k \in 1..Len(Tail(full)) : Tail(full)[k] = full[k + 1]
  BY <1>1, HeadTailProperties
<1>5. kept \in Seq(Rounds) /\ Len(kept) <= window_rounds /\ Len(kept) \in Nat
  BY <1>1, <1>2, <1>3, <1>4
<1>6. Recovering(kept, 0)
  BY <1>5 DEF Recovering
<1>7. ASSUME Recovering(rs, n), recovery_round(s) PROVE Recovering(kept, n + 1)
  <2>1. ASSUME NEW k \in 1..Len(full), k > Len(full) - (n + 1) PROVE recovery_round(full[k])
    <3>1. CASE k = Len(rs) + 1
      BY <1>1, <1>7, <3>1
    <3>2. CASE k # Len(rs) + 1
      <4>1. k \in 1..Len(rs) /\ k > Len(rs) - n
        BY <1>1, <2>1, <3>2
      <4> QED
        BY <1>1, <1>7, <4>1 DEF Recovering
    <3> QED
      BY <3>1, <3>2
  <2>2. CASE Len(full) > window_rounds
    <3>1. ASSUME NEW k \in 1..Len(kept), k > Len(kept) - (n + 1) PROVE recovery_round(kept[k])
      <4>1. kept = Tail(full) /\ k + 1 \in 1..Len(full) /\ k + 1 > Len(full) - (n + 1)
        BY <1>1, <1>3, <1>4, <2>2, <3>1
      <4>2. kept[k] = full[k + 1]
        BY <1>4, <4>1
      <4> QED
        BY <2>1, <4>1, <4>2
    <3> QED
      BY <3>1 DEF Recovering
  <2>3. CASE ~(Len(full) > window_rounds)
    BY <1>3, <2>1, <2>3 DEF Recovering
  <2> QED
    BY <2>2, <2>3
<1> QED
  BY <1>5, <1>6, <1>7

\* The window takes a round: a streak is only of rounds it saw, and it ends
\* an episode only after recovery_rounds of them.
LEMMA ObserveSound ==
    ASSUME Sound, NEW samples \in Rounds, NEW d, observe_round(samples, d)
    PROVE  /\ WindowOK' /\ Earned'
           /\ degraded /\ ~degraded' => Recovering(rounds', recovery_rounds)
<1> DEFINE reason == degradation_reason_of(FlattenSeq(rounds'))
<1>1. /\ rounds \in Seq(Rounds) /\ Len(rounds) <= window_rounds
      /\ degraded \in BOOLEAN /\ degradation_reason \in Reasons \cup {None}
      /\ recovery_streak \in 0..(recovery_rounds - 1) /\ (degraded <=> degradation_reason # None)
  BY DEF Sound, TypeOK, WindowOK
<1>2. rounds' = Retain(Append(rounds, samples))
  BY DEF observe_round
<1>3. recovery_rounds \in Nat \ {0} /\ recovery_streak \in Nat
  BY <1>1, ConfigAssumption
<1>4. /\ rounds' \in Seq(Rounds) /\ Len(rounds') <= window_rounds /\ Recovering(rounds', 0)
      /\ Recovering(rounds, recovery_streak) /\ recovery_round(samples)
           => Recovering(rounds', recovery_streak + 1)
  BY <1>1, <1>2, <1>3, RetainKeeps
<1>5. degraded => Recovering(rounds', Streak(samples))
  BY <1>4 DEF Sound, Earned, Streak
<1>6. Streak(samples) \in 0..recovery_rounds
  BY <1>1, <1>3 DEF Streak
<1>7. reason \in Reasons \cup {None}
  BY DEF degradation_reason_of, Reasons
<1> HIDE DEF reason
<1>8. CASE Healthy(reason, d)
  BY <1>1, <1>4, <1>8 DEF Healthy, WindowOK, Earned
<1>9. CASE Degrade(reason, d)
  BY <1>3, <1>4, <1>7, <1>9 DEF Degrade, WindowOK, Earned
<1>10. CASE StayDegraded(samples, d)
  <2>1. Streak(samples) \in 0..(recovery_rounds - 1)
    BY <1>3, <1>6, <1>10 DEF StayDegraded
  <2> QED
    BY <1>1, <1>4, <1>5, <1>10, <2>1 DEF StayDegraded, WindowOK, Earned
<1>11. CASE Recover(samples, d)
  <2>1. Streak(samples) = recovery_rounds
    BY <1>3, <1>6, <1>11 DEF Recover
  <2>2. Recovering(rounds', recovery_rounds)
    BY <1>5, <1>11, <2>1 DEF Recover
  <2>3. WindowOK'
    <3>1. 0 \in 0..(recovery_rounds - 1)
      BY <1>3
    <3>2. degraded' = FALSE /\ degradation_reason' = None /\ recovery_streak' = 0
      BY <1>11 DEF Recover
    <3> QED
      BY <1>4, <3>1, <3>2, Zenon DEF WindowOK
  <2> QED
    BY <1>11, <2>2, <2>3 DEF Recover, Earned
<1> QED
  BY <1>8, <1>9, <1>10, <1>11 DEF observe_round, reason

\* The trigger: what the scheduler may make of it is a trigger again.
Triggers == {t \in [latched : BOOLEAN, pending : BOOLEAN, deferred : BOOLEAN] :
               t.pending => t.latched /\ ~t.deferred}

LEMMA TriggersKept ==
    ASSUME TypeOK, NEW t \in Clocked, AdvanceClock(t)
    PROVE  /\ t \in Triggers /\ Expired(t) \subseteq Triggers /\ Rearmed(t) \in Triggers
           /\ ~t.latched => [t EXCEPT !.latched = TRUE, !.pending = ~t.deferred] \in Triggers
           /\ \A d \in BOOLEAN : [t EXCEPT !.pending = FALSE, !.deferred = d] \in Triggers
           /\ days' \in 0..MaxDays /\ Counted \in Nat
<1>1. t \in Triggers
  <2>1. CASE t = Trigger
    <3>1. /\ t \in [latched : BOOLEAN, pending : BOOLEAN, deferred : BOOLEAN]
          /\ t.latched = latched /\ t.pending = pending /\ t.deferred = deferred
      BY <2>1 DEF Trigger, TypeOK
    <3>2. pending => latched /\ ~deferred
      BY DEF TypeOK
    <3> QED
      BY <3>1, <3>2, Zenon DEF Triggers
  <2>2. CASE t = NoTrigger
    BY <2>2 DEF NoTrigger, Triggers
  <2> QED
    BY <2>1, <2>2 DEF Clocked
<1>2. days' \in 0..MaxDays /\ Counted \in Nat
  BY BoundAssumption DEF AdvanceClock, Counted, TypeOK
<1>3. /\ Expired(t) \subseteq Triggers /\ Rearmed(t) \in Triggers
      /\ \A d \in BOOLEAN : [t EXCEPT !.pending = FALSE, !.deferred = d] \in Triggers
  BY <1>1 DEF Triggers, Expired, Rearmed
<1>4. ~t.latched => [t EXCEPT !.latched = TRUE, !.pending = ~t.deferred] \in Triggers
  BY <1>1 DEF Triggers
<1> QED
  BY <1>1, <1>2, <1>3, <1>4

\* A step of the scheduler that leaves the window alone.
LEMMA TriggerSound ==
    ASSUME Sound, NEW t \in Triggers, SetTrigger(t), requests' \in Nat, days' \in 0..MaxDays,
           pc' \in {"loop", "wait", "attempt"}, loaded' \in BOOLEAN, loaded' => pc' = "attempt",
           starts' \in 0..MaxStarts, UNCHANGED <<window, shutdown, good, own>>
    PROVE  Sound'
<1>1. /\ latched' \in BOOLEAN /\ pending' \in BOOLEAN /\ deferred' \in BOOLEAN
      /\ pending' => latched' /\ ~deferred'
  BY DEF SetTrigger, Triggers
<1> QED
  BY <1>1 DEF Sound, TypeOK, WindowOK, Earned, window

\* The end of a process.
LEMMA ExitSound ==
    ASSUME Sound, Exit, UNCHANGED <<trigger, bounds, requests>>
    PROVE  Sound'
<1>1. 0 \in 0..(recovery_rounds - 1) /\ 0 \in 0..recovery_rounds /\ 0 <= window_rounds
  BY ConfigAssumption
<1>2. <<>> \in Seq(Rounds) /\ Len(<<>>) = 0
  BY EmptySeq
<1> QED
  BY <1>1, <1>2 DEF Sound, TypeOK, WindowOK, Earned, Exit, NewWindow, trigger, bounds

\* The window and the scheduler take a round.
LEMMA RoundSound ==
    ASSUME Sound, RoundCompletes
    PROVE  Sound' /\ (degraded /\ ~degraded' => Recovering(rounds', recovery_rounds))
<1>1. PICK samples \in Measured, d \in Decisions :
        /\ observe_round(samples, d)
        /\ \E t \in Clocked : AdvanceClock(t) /\ observe_health(t, samples, d)
  BY DEF RoundCompletes
<1>2. PICK t \in Clocked : AdvanceClock(t) /\ observe_health(t, samples, d)
  BY <1>1
<1>3. samples \in Rounds /\ TypeOK
  BY DEF Measured, Sound
<1>4. /\ WindowOK' /\ Earned'
      /\ degraded /\ ~degraded' => Recovering(rounds', recovery_rounds)
  BY <1>1, <1>3, ObserveSound
<1>5. GoodAfter(samples) \in 0..recovery_rounds /\ 0 \in 0..recovery_rounds
  BY <1>3, ConfigAssumption DEF GoodAfter, min, TypeOK
<1>6. /\ t \in Triggers /\ Rearmed(t) \in Triggers
      /\ ~t.latched => [t EXCEPT !.latched = TRUE, !.pending = ~t.deferred] \in Triggers
      /\ days' \in 0..MaxDays /\ Counted \in Nat
  BY <1>2, <1>3, TriggersKept
<1>7. PICK n \in Triggers : SetTrigger(n)
  BY <1>2, <1>6 DEF observe_health
<1>8. requests' \in Nat /\ good' \in 0..recovery_rounds /\ own' \in BOOLEAN
  <2>1. requests' \in {Counted + 1, 0, Counted} /\ good' \in {0, GoodAfter(samples)}
        /\ (own' = TRUE \/ own' = own)
    BY <1>2 DEF observe_health
  <2>2. Counted + 1 \in Nat /\ 0 \in Nat /\ own \in BOOLEAN
    BY <1>3, <1>6 DEF TypeOK
  <2> HIDE DEF Counted
  <2> QED
    BY <1>5, <1>6, <2>1, <2>2
<1>9. TypeOK'
  <2>1. /\ latched' \in BOOLEAN /\ pending' \in BOOLEAN /\ deferred' \in BOOLEAN
        /\ pending' => latched' /\ ~deferred'
    BY <1>7 DEF SetTrigger, Triggers
  <2> QED
    BY <1>3, <1>4, <1>6, <1>8, <2>1 DEF TypeOK, RoundCompletes
<1> QED
  BY <1>4, <1>9 DEF Sound

LEMMA SoundInitially == Init => Sound
<1> SUFFICES ASSUME Init PROVE Sound
  OBVIOUS
<1>1. 0 \in 0..(recovery_rounds - 1) /\ 0 \in 0..recovery_rounds /\ 0 <= window_rounds
  BY ConfigAssumption
<1>2. 0 \in 0..MaxStarts /\ 0 \in 0..MaxDays
  BY BoundAssumption
<1>3. <<>> \in Seq(Rounds) /\ Len(<<>>) = 0
  BY EmptySeq
<1> QED
  BY <1>1, <1>2, <1>3 DEF Init, WindowInit, Sound, TypeOK, WindowOK, Earned

LEMMA SoundSteps == Sound /\ [Next]_vars => Sound'
<1> SUFFICES ASSUME Sound, [Next]_vars PROVE Sound'
  OBVIOUS
<1>1. CASE LoopHead \/ Tick \/ LoadedTick \/ LoadedRoundCompletes \/ Shutdown \/ UNCHANGED vars
  <2>1. /\ UNCHANGED <<window, trigger, bounds, history>>
        /\ pc' \in {"down", "loop", "poll", "wait", "round", "attempt"}
        /\ shutdown' \in BOOLEAN /\ loaded' \in BOOLEAN /\ (loaded' => pc' = "attempt")
    <3>1. /\ pc \in {"down", "loop", "poll", "wait", "round", "attempt"}
          /\ shutdown \in BOOLEAN /\ loaded \in BOOLEAN /\ (loaded => pc = "attempt")
      BY DEF Sound, TypeOK
    <3>2. CASE LoopHead
      BY <3>1, <3>2 DEF LoopHead
    <3>3. CASE Tick
      BY <3>1, <3>3 DEF Tick
    <3>4. CASE LoadedTick \/ LoadedRoundCompletes
      BY <3>1, <3>4 DEF LoadedTick, LoadedRoundCompletes
    <3>5. CASE Shutdown
      BY <3>1, <3>5 DEF Shutdown
    <3>6. CASE UNCHANGED vars
      BY <3>1, <3>6 DEF vars
    <3> QED
      BY <1>1, <3>2, <3>3, <3>4, <3>5, <3>6
  <2> QED
    BY <2>1 DEF window, trigger, bounds, history, Sound, TypeOK, WindowOK, Earned
<1>2. CASE Stopped \/ RoundCancelled \/ Crash
  BY <1>2, ExitSound DEF Stopped, RoundCancelled, Crash
<1>3. CASE PollWait
  <2>1. PICK t \in Clocked : /\ AdvanceClock(t) /\ requests' = Counted
                             /\ \E x \in Expired(t) : SetTrigger(x)
    BY <1>3 DEF PollWait
  <2>2. Expired(t) \subseteq Triggers /\ days' \in 0..MaxDays /\ requests' \in Nat
    BY <2>1, TriggersKept DEF Sound
  <2>3. /\ pc' = "wait" /\ UNCHANGED <<window, shutdown, good, own>>
        /\ loaded' \in BOOLEAN /\ (loaded' => pc' = "attempt") /\ starts' \in 0..MaxStarts
    BY <1>3 DEF PollWait, Sound, TypeOK
  <2> QED
    BY <2>1, <2>2, <2>3, TriggerSound
<1>4. CASE PollOffer
  <2>1. PICK t \in Clocked : AdvanceClock(t) /\ SetTrigger(t) /\ requests' = Counted
    BY <1>4 DEF PollOffer
  <2>2. t \in Triggers /\ days' \in 0..MaxDays /\ requests' \in Nat
    BY <2>1, TriggersKept DEF Sound
  <2>3. /\ pc' = "attempt" /\ UNCHANGED <<window, shutdown, good, own>>
        /\ loaded' \in BOOLEAN /\ starts' \in 0..MaxStarts
    BY <1>4 DEF PollOffer, Sound, TypeOK
  <2> QED
    BY <2>1, <2>2, <2>3, TriggerSound
<1>5. CASE RoundCompletes
  BY <1>5, RoundSound
<1>6. CASE AttemptReturns
  <2>1. PICK t \in Clocked, d \in BOOLEAN :
            /\ AdvanceClock(t) /\ requests' = Counted
            /\ SetTrigger([t EXCEPT !.pending = FALSE, !.deferred = d])
    BY <1>6 DEF AttemptReturns
  <2>2. /\ [t EXCEPT !.pending = FALSE, !.deferred = d] \in Triggers
        /\ days' \in 0..MaxDays /\ requests' \in Nat
    BY <2>1, TriggersKept DEF Sound
  <2>3. /\ pc' = "loop" /\ UNCHANGED <<window, shutdown, good, own>>
        /\ loaded' = FALSE /\ starts' \in 0..MaxStarts
    BY <1>6 DEF AttemptReturns, Sound, TypeOK
  <2> QED
    BY <2>1, <2>2, <2>3, TriggerSound
<1>7. CASE Open
  <2>1. PICK t \in Clocked : AdvanceClock(t) /\ SetTrigger(t) /\ requests' = Counted
    BY <1>7 DEF Open
  <2>2. t \in Triggers /\ days' \in 0..MaxDays /\ requests' \in Nat
    BY <2>1, TriggersKept DEF Sound
  <2>3. /\ pc' = "loop" /\ UNCHANGED <<window, shutdown, good, own>>
        /\ loaded' = FALSE /\ starts' \in 0..MaxStarts
    BY <1>7, BoundAssumption DEF Open, Sound, TypeOK
  <2> QED
    BY <2>1, <2>2, <2>3, TriggerSound
<1> QED
  BY <1>1, <1>2, <1>3, <1>4, <1>5, <1>6, <1>7 DEF Next

LEMMA SoundHolds == Spec => []Sound
BY SoundInitially, SoundSteps, PTL DEF Spec

-----------------------------------------------------------------------------
(* The theorems. *)

\* Between two requests for a test lies a recovery or a new day, for any
\* window, any number of restarts and any order of rounds, polls, tests,
\* expiries and shutdowns (observe_health, poll_interfaces).
THEOREM OneRequest == Spec => []OneRequestPerEpisode
<1>1. Inv => OneRequestPerEpisode
  BY DEF Inv, Latched
<1> QED
  BY <1>1, Invariant, PTL

\* In the process that set the trigger, recovery_rounds recovery rounds in a
\* row clear it (observe_round, observe_health).
THEOREM RecoveryRearms == Spec => []RearmedInProcess
<1>1. Inv => RearmedInProcess
  BY ConfigAssumption DEF Inv, Typed, Counting, RearmedInProcess, RearmedByRecovery
<1> QED
  BY <1>1, Invariant, PTL

\* The types of window, loop and trigger: a degraded window has its reason, a
\* request is latched and never waits beside a deferred discovery.
THEOREM TypeCorrect == Spec => []TypeOK
<1>1. Sound => TypeOK
  BY DEF Sound
<1> QED
  BY <1>1, SoundHolds, PTL

\* Only recovery_rounds recovery rounds in a row end an episode
\* (observe_round), however many of them the window still holds.
THEOREM RecoveriesEarned == Spec => RecoveryEarned
<1> DEFINE Ends == degraded /\ ~degraded' /\ pc' # "down" =>
                     \A k \in 1..Len(rounds') :
                       k > Len(rounds') - recovery_rounds => recovery_round(rounds'[k])
<1>1. Sound /\ [Next]_vars => Ends
  <2> SUFFICES ASSUME Sound, [Next]_vars, degraded, ~degraded', pc' # "down"
               PROVE  Recovering(rounds', recovery_rounds)
    BY DEF Recovering
  <2>1. RoundCompletes
    BY DEF Next, vars, window, LoopHead, Stopped, PollWait, PollOffer, Tick, RoundCancelled,
       LoadedTick, LoadedRoundCompletes, AttemptReturns, Shutdown, Crash, Open, Exit
  <2> QED
    BY <2>1, RoundSound
<1>2. Spec => [][Ends]_vars
  <2>1. Sound /\ [Next]_vars => [Ends]_vars
    BY <1>1
  <2> HIDE DEF Ends
  <2> QED
    BY <2>1, SoundHolds, PTL DEF Spec
<1> QED
  BY <1>2 DEF RecoveryEarned
=============================================================================
