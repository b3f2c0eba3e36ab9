# Verification of netband

TLA+ modules that model the concurrent, stateful and crash-sensitive parts of
netband, TLC configurations that check them on small instances, and TLAPS
proofs, for every value of the constants, of every safety property those
configurations check: invariants, action properties and the refinement of the
scheduler's files to one durable value.

netband measures a network: `netband run` is a service that sends ping rounds
for ever and, a few times a day or after a degradation, runs an NDT7 bandwidth
test; `netband once ping|bandwidth` makes one measurement. Everything is
written to a durable CSV journal and shown on the console. Because the tests
use a public provider (M-Lab), the number of test starts per UTC day, the
spacing between them and the provider's rate limits must be respected by every
process that ever runs, whatever crashes, clock steps and restarts happen in
between. That accounting is the heart of the program and of this project.

## Inventory

| Component | State it keeps | Operations | Hard behaviour |
| --- | --- | --- | --- |
| Scheduler (`src/src/scheduler.rs`) | per provider: accounting day, reserved starts, last start, cooldown, back-off step, planned slots, deferred discovery, one trigger per interface, last observed clock | `open`, `observe_interface_health`, `poll_interfaces`, `preflight_manual`, `reserve_run`, `finish_attempt`, `flush` | admission decided twice with a network exchange in between; two commands, crashes, midnight, backward clock steps, changed configuration |
| Scheduler persistence (`scheduler/persistence.rs`) | snapshot, backup, accounting log, checkpoint | `open` with replay, `persist` | four files written, renamed and synced one after the other; kills and power failures between any two |
| Health window (`health.rs`) | last rounds, degraded flag and reason, recovery streak | `observe_events` | old rounds stay in the window over a recovery |
| Monitor (`monitor.rs`, `interfaces.rs`) | active ping round, interface turns and back-off, fair selection counts | main loop, selection, tests with ping rounds meanwhile | ticks, round ends, test ends and shutdown in any order; interfaces that vanish |
| Journal (`journal.rs`, `journal/output.rs`, `journal/durability.rs`) | segments, active marker, staging file; date, size and poison flag in memory | `open_at`, `append_batch`, rotation, recovery | crash between any two file operations, half-written rows, clock steps |
| Output coordinator (`journal.rs`) | sequence counter, failed flag, tree of active runs | `start_session`, `start_run`, `publish_batch`, `finish_run`, `finish_session` | journal failing in the middle of a batch or of closing a session |
| Console (`console.rs`) | bounded queue, two atomic flags, drop counter, worker task | `offer`, worker, `shutdown` | two threads on the flags, a reader of stdout that never takes another byte, time-out against a late worker |
| NDT7 attempt (`bandwidth.rs`) | progress of one attempt | candidates, reservation, two transfers, classification | time-out and cancellation in every phase |
| Provider and Locate (`provider.rs`) | none | discovery, rate-limit parsing | network only |
| Ping (`ping.rs`) | sockets, one task per target | `measure_round` | late and foreign replies |
| Process (`shutdown.rs`, `lib.rs`, `main.rs`) | watch channel, exit code, runtime | `supervise`, the three commands' frames, end of the runtime | a signal at any statement, second signal and grace period against the command's own end, a write to stdout or a diagnostic to stderr that never returns |
| Configuration, arguments, logging, TLS, event model | none that changes | parsing, merging, formatting | none |

How they interact. The monitor owns the scheduler, the coordinator and the ping
tasks. A completed round goes to the interface's health window, whose decision
goes to `observe_interface_health`; `poll_interfaces` may hand out an
opportunity; the monitor picks an interface and runs the attempt, which calls
back `reserve_run` once Locate has answered; the outcome goes to
`finish_attempt`. Every scheduler call ends in `persist`. All events go through
the coordinator to the journal first and then to the console's queue. `once
bandwidth` opens the same scheduler state (under a process lock) and does the
same with `preflight_manual` in place of the poll. A command is one future that
the supervisor polls beside the signals: a first signal asks it to drain, a second
one or the end of the grace period drops it.

What makes the parts correct: no start is ever refunded, every start respects
limit, spacing and cooldown, plans hold only admissible slots, triggers and slots
never stay for ever (Scheduler); a granted start survives any crash and the files open
again (Persistence); recovery is earned, an episode asks for one test, and it ends when
the network stays good (Health, AdaptiveMonitor); no round is dropped, no interface
starved, no shutdown missed, planned tests fair (Monitor); connections stay within the
admission, measurements survive failure and interruption, the upload ends in time, the
report says what happened (Attempt); acknowledged batches stay whole and closed segments
unchanged (Journal); gapless numbering and proper nesting of what was acknowledged (Output); every event accounted
for (Console); a signal ends the process and the exit code is true (Process).
`PROJECT.json` lists the hazards, each at its line, with the properties that cover it.

## Modules

Definitions keep the names of the code. Each module has one action per
operation, or per step of an operation where another actor or a crash can come
in between. A definition called "Mutant" in its comment is a plausible wrong
version of the definition below it; it is not part of any specification and
exists to show that the property it is listed with can fail.

**Scheduler.** `store` is the `ProviderState` of the provider in use; `phase`
says whether no process runs, one waits, one has been offered an opportunity
(discovery under way) or one has reserved its start (test under way). `OpenRun` and
`OpenOnce` are the two commands. `observe_interface_health`, `poll_interfaces`,
`reserve_run` and `finish_attempt` (`finish_reserved`, `finish_unreserved`) are
the handlers, each ending in `Persist`: the commit completes, is
cut short after its log record (`TornCommit`: the next open replays the
accounting over the old snapshot), or completes and the process dies before the
handler's next commit (`Interrupted`). `reserve_rejected` is the path on which
the reservation is refused and the command ends with an error. Time is counted
in ticks. Slot and back-off jitter are choices within the windows the code
samples from. `started`, `lastStart`, `promised` and `discoveries` record what
really happened, independent of what the program remembers; the properties
compare the two.

**SchedulerPersistence.** The files of `persistence.rs`, with `vol` (what a
process reads) and `dur` (what survives a power failure). One action per write,
rename and sync of `open` and `persist`; `Kill`, `TornAppend`, `PowerLoss` and
`RestoreBackup` interrupt anywhere. The digest chain of the log identifies a
prefix of the log and is modelled as that prefix. `Scheduler` uses the outcome
of this module: a commit leaves the old value, the new value or the replayed
accounting.

**DurableAccounting.** What that amounts to: one durable value. A process that opens it
reads the value acknowledged last or one asked for since. `ImplementsDurableAccounting`
is the refinement: `SchedulerPersistence` implements it with `value` mapped to the
accounting of the store in memory, `acked` and `wanted` to history variables that only
the calls and returns of `persist` change.

**Health.** `observe_round` on rounds of abstract probes (lost, below the RTT
threshold, at or above it); percentages by cross multiplication. A library: it has the
window's state and steps, and no specification of its own.

**AdaptiveMonitor** extends it: `monitor_adaptive`, the loop of `run` without a
configured interface, from the replies of a ping round (`validate_reply`, failures) over
the window's decision to the trigger the scheduler keeps, through tests, deferred
discoveries, midnights, shutdown, kills and restarts. The window dies with the process,
the trigger is persisted. When the scheduler offers, blocks, expires or defers is free
here and exact in `Scheduler`.

**Monitor.** `monitor_multi_interface` with `InterfaceRuntime`,
`FairInterfaceSelector` and the ping rounds during a test. What the scheduler
offers, what rounds find and whether interfaces resolve is nondeterministic.

**Journal.** Rotating directory or single file, again with `vol` and `dur`; `rotating` is
chosen at the start. One action per file operation of `Directory::create`, of opening and of appending;
`StepFails` (an I/O error at any step), `Kill`, `PowerLoss`, `DayChanges`. The
csv crate, which is external, keeps a batch it could not write in its buffer and
writes it again when dropped (`DropWriter`; single file only, the rotating
journal writes past that buffer). The size of the header and of every row is one unit.

**Output.** `OutputCoordinator` over a journal that may fail with any prefix
of the batch in the file and, in a single file, with rows of the same batch once more
behind it (`LeavesBehind`: what module Journal shows a failed batch may leave; `rotating`
is chosen at the start as there).
`finish_session` with an error is a loop of its own (`CloseNext`).

**Attempt.** One NDT7 attempt: endpoint resolution, reservation, targets and their
addresses, connection stages, download, upload with its two timers, server reports and
Closes, failures and their dispositions, shutdown and the whole-test time-out at any
await, and the report. An action is what happens between two awaits. Byte counts and
elapsed times are small sets; the clock ticks only during the upload.

**Console.** `offer`, `disable_writer`, `run_worker` and `shutdown`, split
where the two threads touch shared flags or the channel. A library as well.

**Process** extends it: the frame of the three commands (`execute_ping_once`,
`execute_bandwidth_once`, `execute_ping_monitor` and its twin for several interfaces),
`supervise`, the exit code and the end of the runtime. A signal is seen, and the command
dropped, only where the command awaits (`Awaiting`). What a measurement publishes and
how long it takes is free. `ExitCodes` keeps apart 0, 1, 6 and the errors 3 to 5; which
of the errors is the error's type and no more. Events are written to stdout by the worker,
which awaits them; diagnostics are written to stderr by the thread that has one, without an
await (`diagnostics::init`). `stderr_blocked` says that nobody reads stderr any more; then
the command, the supervisor (one thread) or the worker may be caught in a diagnostic for
ever (`CommandStuck`, `ReportStuck`; `stuck`), and an error, logged at every verbosity, is
(`Forced`, `CommandReturns`).

The `MC...` modules only define constants for TLC. Eight modules `..._proofs` hold the
theorems: those of `Scheduler`, `SchedulerPersistence`, `AdaptiveMonitor`, `Monitor`,
`Attempt`, `Journal`, `Output` and `Process`.

## Runs

| Run | Shows | States |
| --- | --- | --- |
| `scheduler_core` | no refund, hard limit, configured limit, cooldowns; service and forced manual command, one crash anywhere, over midnight | 2.8 M |
| `scheduler_clock` | spacing and observed clock under a backward clock step at any moment, two interfaces over midnight; the discoveries of one opportunity are bounded, with deadlines that have already passed | 2.2 M |
| `scheduler_live` | a restart with another limit (zero too) replans: plans hold only slots admission will not refuse; due slots and overdue triggers do not stay | 0.1 M |
| `persistence` | the four files are one durable value, files open again, the observed clock is kept; three kills, two power failures, one restored backup | 1.2 M |
| `adaptive` | recovery is earned, one request per episode across restarts, recovery re-arms, a good network ends every episode | 0.6 M |
| `monitor` | rounds, back-off, tests and shutdown; no starvation; planned tests are fair | 0.4 M |
| `attempt` | contacts within the admission, results kept, upload bounded, outcome and limits as the report says | 7.2 M |
| `journal` | rotating and single file: acknowledged batches, opening again, half rows, closed segments, staging, rotation by size and date | 1.6 M |
| `output` | rotating and single file: numbering, nesting, run tree, console behind journal, closing on error | 0.8 M |
| `process` | a signal ends the process while stderr is read from, an exit code always does; exit codes tell the truth, the console accounts for every event | 1.3 M |
| `scheduler_discoveries`, `attempt_accounted` | the two disagreements below | violations |

State counts are orders of magnitude of distinct states.

Bounds, and why they are enough. A day has six ticks (four in `scheduler_clock`) with spacing two and a
horizon just past midnight, so that one day's limit can be reached, a start can
fall into the spacing before midnight and a cooldown can outlive the day; the fixed limit
(four in the code) is scaled to two or three and the five discovery attempts
to three, which keeps "limit reached", "one below" and "one above" apart. One
crash suffices for a single interrupted commit; the proofs cover any number. In
`persistence` and `journal` the interruptions (in `journal` one kill or failed
step and one power failure) let a crash hit the recovery from a crash. With batches of
three, one and one row and a segment limit of three units, header included, the first batch
is too large by itself, the second just does not fit behind it, and the second and the third
share a segment that they just fill; one backward step of the clock brings an earlier date
back. `MaxOffers` of `Monitor` bounds the counts of the fair selector; with four offers
triggered tests can put one of two interfaces two ahead before a planned test follows.
`MaxSequence` of `Output` stands for `u64::MAX` and is
reached; batches of up to three rows let a failed one repeat all its rows, some of them or
none. `adaptive`: a window of five rounds with recovery after two holds more bad rounds than a recovery takes good
ones, so a relapse caused by old rounds happens; two restarts and two midnights let one
fall between a degradation and the recovery from it. `attempt`: two targets with two addresses each reach "next
address", "next target" and "other direction" after every kind of failure; two values
of each counter make a report advance, repeat and go backwards. `process`: with a queue
of one and four rows the queue is full, is drained and fills again, the journal can
fail at the first, a middle and the last row, and stderr can block before, between and after
all of them.

Deadlock checking is off: everywhere a bound can stop the model (end of the horizon,
counters used up) or the process ends.

Fairness. `Scheduler`: the service manager restarts `run`, the loop polls
(strongly fair, because a process can be stopped between two polls but not
before its first poll for ever), an attempt ends because `whole_test_timeout`
bounds it. `AdaptiveMonitor`: the loop's task is resumed, the ticker ticks, rounds and
tests have time limits; a poll that offers nothing is strongly fair because a start
makes the next one wait. `Monitor`: the task is resumed, the ticker ticks, rounds and
tests are bounded by time-outs, time passes; offers are finitely many, as a day's are.
`Output`: the loop of `finish_session` does not wait. `Process`: statements, timers, the
supervisor and the runtime go on and the journal's calls return; nothing is assumed of
measurements, of the reader of stdout or of the user, so `SignalEndsProcess` holds with a
measurement and a write to stdout that both last for ever. A thread caught in a diagnostic
takes no further step, whatever is fair, and the property promises the end of the process
after a signal only while stderr is not blocked; after an exit code it promises it always.
A `fsync` that hangs is outside it: the
command runs in the supervisor's own task, and no signal is seen meanwhile. Shutdown, failures,
crashes and ticks of the clock are never assumed anywhere.

## Proofs

**`Scheduler_proofs`** proves, for every set of interfaces, length of a day,
horizon, limit, set of configurations, number of crashes and of clock steps:

- `TypeCorrect`: the type invariant;
- `StartsNeverRefunded` (`NoRefund`), `FixedLimitHolds` (`HardCapRespected`);
- `DailyMaximumHolds` (`CapHonoured`), `SpacingHolds` (`SpacingHonoured`),
  `CooldownHolds` (`CooldownHonoured`), `ObservedClockNeverLost`
  (`ObservedClockMonotone`), which are action properties;
- `PlansSound` (`PlanSound`) and `DiscoveriesLimited` (`DiscoveriesBoundedUndisturbed`).

Assumptions: those of the constants in `Scheduler` (natural numbers, at least one discovery
attempt, `None` outside the types, no forced configuration for `run`), which TLC evaluates
in every scheduler run.

Argument. `NoRefund` alone is not inductive: that a new start is not admitted
too early depends on the day the store accounts for and on the last start it
remembers. The inductive invariant is `Inv == TypeOK /\ Accounts`, where
`Accounts` adds to `NoRefund` and `HardCapRespected`: before the first open
nothing has been started (`Unopened`); the remembered last start is at least the
real one (`LastStartKept`); without backward steps the accounting day is not
ahead of the clock (`DayNotAhead`); and a provider's deadline that still binds is covered by
the stored cooldown (`PromiseKept`). Each helper of the scheduler gets a lemma
saying how its result's accounting relates to its argument's (`Follows`,
`SameAccounts`, `Advances`, `KeepsCooldown`); the commit gets one lemma for its
three outcomes (`PersistKeeps`); then there is one step per action.

The plan. `plan_interval` plans stratum after stratum, which the model writes as a
recursive function. That such a function exists, and that the plan after each stratum keeps
its slots apart (`StrataExist`, `PlanSpaced`), is shown without induction: a stratum that
fails would have a least one (`Smallest`, from the well-foundedness of finite sets), and the
one before it contradicts that. `PlanInv` then says that an undisturbed store holds slots
apart from each other and behind the cooldown, planned for the configuration of the process,
and that no start is remembered from the future. That they lie behind the spacing of the
last start it says only outside an attempt: a start just reserved may have slots of the plan
in its own spacing until `finish_attempt` settles them.

The discoveries. The bound is not inductive because the count is the program's:
`DiscoveryInv` says that a deferred discovery has counted every attempt so far, that the one
under way is one more, and that limit and spacing admit a start whenever one waits, so that
its reservation cannot be refused (`Rests`, `Discovers`). For that no start may be accounted
for on a later day (`NothingAhead`), and the passing of time must only admit more. Without
the restriction to one configuration it fails, as the run `scheduler_discoveries` shows.

**`SchedulerPersistence_proofs`** proves, for any number of kills, failed writes, power
failures and restored backups, `DurableAccountingImplemented` (`ImplementsDurableAccounting`),
`ObservedClockRemembered` (`ObservedClockKept`) and `InterruptedFilesOpen` (`FilesOpenAgain`).
The refinement rests on `Inv`: what is synced of the log is a prefix of what is read
(`LogsExtend`); a log that contains a checkpoint left beside it, either of them synced or
not, ends with an accounting acknowledged last or asked for since (`Binds`); and what the
process holds and has written at each step (`Begins`, `HoldsLog`, `HoldsFiles`, `Marked`).
`ClockInv` follows the clock through the snapshot, and `OpenInv` says which files fit each
other: every pair a power failure can leave when nothing was killed, and the files as they
are read when there was no power failure.

**`AdaptiveMonitor_proofs`** proves, for every configuration of the window, number of
targets, restarts and midnights, `TypeCorrect`, `OneRequest` (`OneRequestPerEpisode`),
`RecoveryRearms` (`RearmedInProcess`) and `RecoveriesEarned` (`RecoveryEarned`). None of the
last three is inductive. A second request is impossible
because the latch stands for the first one (`Latched`: nothing latched, nothing
requested), so a request is made only with the count at zero. Recovery rounds re-arm the
trigger because the window counts them too while it is degraded: `Counting` says that,
while the trigger this process set is latched, the window is degraded and its streak is
at least the number of good rounds since then; the round that completes the streak is the
one whose decision clears the latch. For `RecoveryEarned` the window's rounds matter:
`Earned` says that the streak of a degraded window is that of its last rounds, as many of
them as it still holds. Assumption: `ConfigAssumption` (bounds that the configuration
enforces).

**`Monitor_proofs`** proves, for any interfaces in any order, back-off bounds and number of
offers, `TypeCorrect` and `PlannedTestsFair` (`PlannedWithinOne`). `Chosen` carries what the
selection saw to the moment the test is counted: while the test runs, rounds end and
interfaces come and go, but only the selected one's count may change. `RoundCounted` ties
the round in flight to the loop's counter.

**`Attempt_proofs`** proves, for every number of targets and addresses and every duration,
`ContactsAllowed`, `MeasurementsStay` (`ResultsRetained`), `UploadInTime` (`UploadBounded`),
`OutcomeAgrees` (`OutcomeSound`), `LimitsKept` (`LimitRetained`) and `TypeCorrect`. The
invariant has a part for where the attempt is (`Placed`), for what the failures of a running
attempt say (`Explained`: all of them let it go on, so that with M-Lab only the last failure
can be a limit), for what was measured (`Results`: the upload result is always the latest
valid report), for the two timers (`Timed`) and for the report (`Final`).

**`Journal_proofs`** proves, for any batches, limits and number of kills, failed steps,
power failures and clock steps, `RecoveryCoversFiles` (`FilesSound`),
`AcknowledgedBatchesKept` (`AckedKept`), `InterruptedFilesReopen` (`OpensAgain`),
`RotationKeepsBounds` (`RotationBounded`) and `ClosedSegmentsNeverChange`
(`ClosedSegmentsKept`). One invariant of eleven parts carries all five, since each file
operation disturbs several of them: where the process is (`Place`); synced rows are a part
of those read (`Extends`); no row before a synced header (`HeaderFirst`); nothing behind half
a row (`Clean`); a segment differs from what is synced only while the marker names it, on
the disk too (`Settled`); the staging name is gone before a row is written (`Staged`); sizes,
dates and batch numbers are what the process takes them for (`Sized`, `Dated`, `Numbered`);
and an acknowledged batch is synced, whole and in one file (`Kept`).

**`Output_proofs`** proves, for every set of runs, size of a batch and range of the counter,
`RowsNumbered` (`NumberedWithoutGap`), `RunsNested` (`Nested`) and `ConsoleAgrees`
(`AgreesWithJournal`). Numbers are given away before the write that may fail, so the counter
says nothing by itself; the invariant says that until a write fails the counter is the number
of rows of the one tree, or exhausted (`Counts`), that the active runs are those the journal
shows as begun and not ended (`Shown`) and that they form one tree (`OneTree`). What was
written stays nested and rooted (`Nest`, `Rooted`) after a failure too, and numbered:
`Gapless` of the acknowledged rows, and of the whole of a rotating journal, and `Beyond` of
what a failed batch leaves in a single file (`LeftBehind`): its numbers lie beyond those of
the acknowledged rows.

**`Process_proofs`** proves, for every capacity of the queue, set of hidden events and
number of rows, `EveryEventAccounted` (`ConsoleAccounted`) and `ExitTellsTruth`
(`ExitTruthful`, with the type invariant). Both speak of the end of a process; the
invariant says what holds on the way. For the console: every event offered is handled,
dropped, queued or in one of the two threads' hands (`Conserved`); a set flag has been
reported or will be by the thread that set it (`Reported`); a worker that ended without a
failure found the sender gone and the queue empty (`Drains`). For the process: what each
step of the command has behind it (`Offered`, `Recorded`), and that the exit code is set
once (`Exited`, `Truth`). The console's steps are proved to keep the first half without
regard to the process, except that the end of the worker needs the second half: a worker
is aborted only when the flag is set or the console was dropped. Assumptions:
`ConsoleAssumption` (a capacity of one or more) and `NoneAssumption`.

Assumptions, in all modules: bounds are natural numbers (positive where the code's constant
or its configuration check makes them so), `None` lies outside the types it is added to,
the names in `Order` are distinct. Each is named in its module and evaluated by TLC in the
runs of that module.

Only model-checked: what needs fairness or ENABLED, which the prover cannot handle
(`DueSlotsConsumed`, `OverdueTriggerDropped`, `QuietEndsEpisodes`, `EveryInterfaceTried`,
`ShutdownDrains`, `ErrorEndsTree`, `SignalEndsProcess`), and the two disagreements below,
which are counterexamples. The library's induction theorems cannot be used with the installed
provers; where a proof needs an induction over numbers it takes the least counterexample of a
set (`Smallest`).

## Where the documentation and the code disagree

- `scheduler_discoveries`: a deferred discovery is offered without asking
  `block_reason`; if the reservation is then refused the command ends without
  counting the attempt and the restarted service offers it again.
  `docs/scheduling.md:74-75`: "Deferred discovery is attempted at most five
  times". `DiscoveriesBoundedUndisturbed` states where the bound does hold.
- `attempt_accounted`: `run_upload` counts the failures so far before it connects. If an
  earlier address of the same server failed, that failure is later taken for one of the
  transfer, and an upload that connects and ends without a valid measurement leaves no
  failure. `docs/data-format.md:259-260`: "an upload without a valid server
  measurement is also a transfer failure even if the connection closes cleanly".

Observations without a run of their own:

- `reserve_run` does not compare its time with `last_observed_utc`: a clock that steps
  back over midnight between the poll and the reservation finds the starts of the earlier
  day dropped, and one start beyond the fixed limit is admitted that day
  (`docs/scheduling.md:61`, "Four reservations suppress any fifth manual, scheduled, or
  triggered start"). `HardCapRespected` is therefore stated, and proved
  (`FixedLimitHolds`), for clocks that do not step back; so are `CapHonoured` and
  `CooldownHonoured`.
- The trigger is persisted and the health window is not. A process that starts during an
  outage whose trigger is latched begins with an empty window; if the network is good
  again it never degrades and never decides Recovered, and the trigger stays latched until
  midnight. `RearmedInProcess` states what `docs/scheduling.md:48-49` promises ("until
  three consecutive recovery rounds") for the process that set the trigger.
- The window keeps its old rounds over a recovery, so one further bad round can begin a second
  episode, with a second request, right after it; midnight clears the latch too, in the
  middle of an outage. `OneRequestPerEpisode` counts between recoveries and midnights.
- The decision of the round that shutdown waited for is not given to the scheduler in
  `monitor_adaptive` (`monitor.rs:703`), unlike in the loop over several interfaces. A
  recovery lost this way leaves the trigger latched as described above; no property speaks
  of it.
- In a single file the rows of the batch that failed may appear twice behind the
  acknowledged rows, with the same `event_sequence` and `event_id`: the csv writer keeps what
  it could not write and writes it when it is dropped. If the first write ended between two
  rows, the file reads well and the next start opens it. `docs/data-format.md:233-234` has
  readers use `event_id` for deduplication. `NumberedWithoutGap` states this exception; a
  rotating journal, which writes past that buffer, needs none.
- With stderr on a terminal or pipe that nobody reads any more, a signal need not end the
  process, and neither does a second one or the end of the grace period: `supervise` logs
  the first signal before it passes it on and an error before it gives up
  (`shutdown.rs:50-54`, `59`, `63`), on the thread that also polls the command, and `main`
  never reaches `shutdown_timeout`. The comment in `main.rs` speaks of stdout only, and for
  stdout it holds (`SignalEndsProcess`).
- With a direct server a 503 to the download is terminal for the download only; the
  upload is tried, and if its limit carries a deadline, `finish_attempt` reads the first
  limit and drops that deadline. `LimitRetained` is stated for M-Lab.
- Without a configured interface the ping sockets are bound once, when the process
  starts, and keep that address when the default route changes.
- `once ping` is not told of the first signal; with a grace period shorter than its
  time-out it exits with 6. The "final best-effort flush" of `docs/service.md:168` is the
  drop of the journal, whose batches are synced already.
- An initialization interrupted on two different days, and a power failure that loses a
  record adopted after a kill, make the scheduler state refuse to open although no start
  is lost; a single-file journal whose very first header was cut short, or whose failed
  batch the csv writer wrote again behind half a row, is refused at the next start with its
  acknowledged rows intact.

## Not modelled

HTTP, TLS, WebSocket framing, throughput arithmetic, ICMP packets and sockets,
configuration merging, command-line parsing, rendering, CSV and JSON encoding:
no state that a crash or an interleaving could disturb. File locks are assumed
to keep a second process out. Rows with line breaks inside quoted fields are not
distinguished from others. `monitor_ping`, the loop without bandwidth tests, is
`monitor_adaptive` without the scheduler's calls and has no module of its own. The
composition of all modules in one is out of TLC's reach; modules meet at the values they exchange
(a decision, an offer, a reservation, an outcome, a batch, an event), which each takes
as a free choice over everything the other can give. `PROJECT.json` gives the reason for each
component.

## Plan

Done: Scheduler, SchedulerPersistence with its refinement, Health and AdaptiveMonitor,
Monitor, Attempt, Journal, Output, Console and Process, with the proofs above. What is left:

1. `Scheduler` over `DurableAccounting`: its commit as calls of the abstract module
   instead of the summary of outcomes it uses now.
2. Rows cut behind a line break inside a quoted field (`journal.rs:309`).
3. Proofs of stronger facts: the number of slots a plan has, and `Earliest` as the least
   time a slot may have; the safety half of `SignalEndsProcess` (a signal seen is never
   forgotten).
