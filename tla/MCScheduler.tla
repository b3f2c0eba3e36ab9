---------------------------- MODULE MCScheduler ----------------------------
(* Finite instances of Scheduler. *)
EXTENDS Scheduler, TLC

\* Interfaces are alike in the initial states and every action.
Symmetry == Permutations(Interfaces)

P(max_starts, spacing, jitter, force) ==
    [daily_max |-> max_starts, min_spacing |-> spacing, slot_jitter_pct |-> jitter,
     force_limits |-> force]

\* One configuration for the service, one forced manual command.
MCRun == {P(2, 2, 50, FALSE)}
MCOnceForced == {P(2, 2, 50, TRUE)}
\* A service whose configured limit (zero too) and spacing change between restarts.
MCRunChanging == {P(2, 2, 50, FALSE), P(0, 3, 50, FALSE)}
MCNone == {}
=============================================================================
