------------------------------- MODULE Health -------------------------------
(***************************************************************************)
(* The health window of one interface, src/src/health.rs: completed ping   *)
(* rounds go in, a decision comes out that the scheduler turns into a      *)
(* trigger (observe_interface_health in module Scheduler).                 *)
(*                                                                         *)
(* A probe is lost, or answered with a round-trip time below or at least   *)
(* the configured threshold; only that comparison is used by the code.  A  *)
(* round is a tuple of probes, one for each target; their order is never   *)
(* read, so one order stands for all.  Percentages are compared by cross   *)
(* multiplication.  Module AdaptiveMonitor gives the window its rounds and *)
(* its fresh start in every process.                                       *)
(***************************************************************************)
EXTENDS Integers, Sequences, FiniteSets, SequencesExt

CONSTANTS
    None,               \* Rust's Option::None
    Targets,            \* probes of one round
    RttTrigger,         \* TRUE when rtt_threshold_ms is configured
    window_rounds, min_samples,
    loss_threshold_pct, recovery_loss_pct, recovery_rounds

VARIABLES
    rounds,              \* VecDeque of the retained rounds, oldest first
    degraded, degradation_reason, recovery_streak

window == <<rounds, degraded, degradation_reason, recovery_streak>>

Samples == {"lost", "fast", "slow"}
Reasons == {"loss", "rtt", "loss_and_rtt"}
Decisions == {"healthy", "degraded", "recovered"}   \* HealthDecision
Rounds == {r \in [1..Targets -> Samples] :
            \A k \in 2..Targets : /\ r[k] = "lost" => r[k - 1] = "lost"
                                 /\ r[k] = "fast" => r[k - 1] # "slow"}

ASSUME NoneAssumption == None \notin Reasons
\* config.rs: positive counts, percentages, recovery below the trigger.
ASSUME ConfigAssumption ==
    /\ Targets \in Nat \ {0} /\ RttTrigger \in BOOLEAN
    /\ window_rounds \in Nat \ {0} /\ min_samples \in Nat \ {0}
    /\ recovery_rounds \in Nat \ {0}
    /\ loss_threshold_pct \in 0..100 /\ recovery_loss_pct \in 0..100
    /\ recovery_loss_pct < loss_threshold_pct

-----------------------------------------------------------------------------
(* snapshot and the two tests on it. *)

Count(samples, kinds) == Cardinality({k \in DOMAIN samples : samples[k] \in kinds})

\* loss_pct >= pct; no probe at all is no loss.
LossAtLeast(samples, pct) ==
    IF samples = <<>> THEN 0 >= pct
    ELSE Count(samples, {"lost"}) * 100 >= pct * Len(samples)

\* p95_rtt_ms >= threshold: the rank-th smallest of the answered probes is slow.
P95Slow(samples) ==
    LET answered == Count(samples, {"fast", "slow"})
        rank == (answered * 95 + 99) \div 100
    IN  answered > 0 /\ rank > Count(samples, {"fast"})

\* degradation_reason of a window snapshot.
degradation_reason_of(samples) ==
    LET loss == LossAtLeast(samples, loss_threshold_pct)
        rtt == RttTrigger /\ P95Slow(samples)
    IN  CASE Len(samples) < min_samples -> None
          [] loss /\ rtt -> "loss_and_rtt"
          [] loss /\ ~rtt -> "loss"
          [] ~loss /\ rtt -> "rtt"
          [] OTHER -> None

\* recovery_round of one round's snapshot.
recovery_round(samples) ==
    /\ samples # <<>> /\ ~LossAtLeast(samples, recovery_loss_pct)
    /\ RttTrigger => Count(samples, {"fast", "slow"}) > 0 /\ ~P95Slow(samples)

-----------------------------------------------------------------------------
(* observe_round, which returns the decision d. *)

\* The oldest rounds are dropped; a call adds one round, so one is enough.
Retain(rs) == IF Len(rs) > window_rounds THEN Tail(rs) ELSE rs

Healthy(reason, d) ==
    /\ ~degraded /\ reason = None
    /\ d = "healthy"
    /\ UNCHANGED <<degraded, degradation_reason, recovery_streak>>

Degrade(reason, d) ==
    /\ ~degraded /\ reason # None
    /\ degraded' = TRUE /\ degradation_reason' = reason /\ recovery_streak' = 0
    /\ d = "degraded"

\* Mutant: a round that is not a recovery round does not end the streak.
StreakNotReset(samples) ==
    IF recovery_round(samples) THEN recovery_streak + 1 ELSE recovery_streak
\* The streak of recovery rounds after this one.
Streak(samples) == IF recovery_round(samples) THEN recovery_streak + 1 ELSE 0

\* Mutant: the reason is dropped with the first recovery round.
StayDegradedNoReason(samples, d) ==
    /\ degraded /\ Streak(samples) < recovery_rounds
    /\ recovery_streak' = Streak(samples) /\ d = "degraded"
    /\ degradation_reason' = IF recovery_streak' > 0 THEN None ELSE degradation_reason
    /\ UNCHANGED degraded
StayDegraded(samples, d) ==
    /\ degraded /\ Streak(samples) < recovery_rounds
    /\ recovery_streak' = Streak(samples) /\ d = "degraded"
    /\ UNCHANGED <<degraded, degradation_reason>>

\* Mutant: the recovery is reported and the episode goes on.
RecoverWithoutEnd(samples, d) ==
    /\ degraded /\ Streak(samples) >= recovery_rounds
    /\ recovery_streak' = 0 /\ d = "recovered"
    /\ UNCHANGED <<degraded, degradation_reason>>
Recover(samples, d) ==
    /\ degraded /\ Streak(samples) >= recovery_rounds
    /\ degraded' = FALSE /\ degradation_reason' = None /\ recovery_streak' = 0
    /\ d = "recovered"

observe_round(samples, d) ==
    /\ rounds' = Retain(Append(rounds, samples))
    /\ LET reason == degradation_reason_of(FlattenSeq(rounds'))
       IN  \/ Healthy(reason, d) \/ Degrade(reason, d)
           \/ StayDegraded(samples, d) \/ Recover(samples, d)

\* HealthWindow::new, with which every process begins.
NewWindow ==
    /\ rounds' = <<>> /\ degraded' = FALSE /\ degradation_reason' = None
    /\ recovery_streak' = 0

WindowInit ==
    /\ rounds = <<>> /\ degraded = FALSE /\ degradation_reason = None
    /\ recovery_streak = 0

-----------------------------------------------------------------------------
(* Properties. *)

\* Type invariant of the window; it holds at most window_rounds rounds and the
\* streak never reaches its limit between two rounds; a degraded window has a
\* reason and a healthy one has none, so the expect in observe_round ("a
\* degraded window retains its reason") never panics.
WindowOK ==
    /\ rounds \in Seq(Rounds) /\ Len(rounds) <= window_rounds
    /\ degraded \in BOOLEAN /\ degradation_reason \in Reasons \cup {None}
    /\ recovery_streak \in 0..(recovery_rounds - 1)
    /\ degraded <=> degradation_reason # None
=============================================================================
