------------------------------ MODULE Process ------------------------------
(***************************************************************************)
(* One process of Netband, from the command to its exit code: main.rs,     *)
(* run_once_ping, run_once_bandwidth, run_monitor and supervise_command of *)
(* src/src/lib.rs, shutdown.rs, and the frame of the commands around their *)
(* measurements (execute_ping_once, execute_bandwidth_once,                *)
(* execute_ping_monitor), with the console of module Console.              *)
(*                                                                         *)
(* The command is one future, polled by the supervisor: a signal is seen,  *)
(* and the future is dropped, only where the command awaits.  Everything   *)
(* it publishes is written and offered without an await in between.  How   *)
(* long a measurement takes, and what it publishes, is a free choice here  *)
(* (modules Monitor, AdaptiveMonitor, Attempt, Output and Journal).        *)
(*                                                                         *)
(* The two outputs differ.  Events go to stdout by the worker, which waits *)
(* for them at an await.  Diagnostics go to stderr by whichever thread has *)
(* one, in a plain write that holds the thread until stderr takes it.      *)
(***************************************************************************)
EXTENDS Console

CONSTANT MaxRows    \* bound: batches of one row the process publishes

VARIABLES
    command,        \* which command runs
    stage,          \* step of the command
    shutdown,       \* the watch channel the command was given
    journal_failed, \* OutputCoordinator::failed, or the flush failed
    result,         \* of the measurements, as far as they have one
    session_closed, \* the finish of the session is durable
    pending,        \* signals that arrived and were not yet taken
    supervisor,     \* what supervise has seen
    exit_code,
    writing,        \* a write to stdout occupies a thread of the runtime
                    \* although its task is gone
    stderr_blocked, \* nobody will ever read from stderr again
    stuck,          \* threads in a write to stderr that never returns
    ended           \* the process is gone

work == <<command, stage, shutdown, journal_failed, result, session_closed>>
supervision == <<pending, supervisor, exit_code>>
stderr == <<stderr_blocked, stuck>>
vars == <<console, work, supervision, writing, stderr, ended>>

ASSUME RowsAssumption == MaxRows \in Nat /\ MaxRows >= 2

Commands == {"once ping", "once bandwidth", "run"}
Signals == {"SIGINT", "SIGTERM"}
\* 0, 1, 3 to 5 and 6.
ExitCodes == {"success", "failure", "error", "forced"}

ASSUME NoneAssumption == None \notin ExitCodes

-----------------------------------------------------------------------------
(* The command. *)

\* The journal takes one more row, or fails for good.
Appended ==
    /\ ~journal_failed /\ published' = published + 1 /\ UNCHANGED journal_failed
AppendFails ==
    /\ ~journal_failed /\ journal_failed' = TRUE /\ UNCHANGED published

\* The command and the supervisor run on one thread.
CommandRuns == "command" \notin stuck /\ ~ended

\* Between two statements: all that was published has been offered.
Idle == caller = "idle" /\ offered = published /\ CommandRuns

\* The console as the command's statements and their order leave it.
ConsoleUntouched ==
    UNCHANGED <<mode, caller, offered, channel, worker, event, shared, history>>

\* The journal or the scheduler does not open: a console that was spawned is
\* dropped without a shutdown.
OpenFails ==
    /\ stage = "open" /\ CommandRuns
    /\ stage' = "refused" /\ result' = "error" /\ caller' = "dropped"
    /\ UNCHANGED <<given, offered, channel, worker, event, shared, history, command, shutdown,
                   journal_failed, session_closed, supervision, writing, stderr, ended>>

StartSession ==
    /\ stage = "open" /\ CommandRuns
    /\ \/ Appended /\ stage' = "work" /\ UNCHANGED result
       \/ AppendFails /\ stage' = "finish" /\ result' = "error"
    /\ ConsoleUntouched
    /\ UNCHANGED <<command, shutdown, session_closed, supervision, writing, stderr, ended>>

PublishResults ==
    /\ stage = "work" /\ Idle /\ published < MaxRows - 1
    /\ \/ Appended /\ UNCHANGED <<stage, result>>
       \/ AppendFails /\ stage' = "finish" /\ result' = "error"
    /\ ConsoleUntouched
    /\ UNCHANGED <<command, shutdown, session_closed, supervision, writing, stderr, ended>>

\* A one-shot measurement is over; the loop of `run' ends for a shutdown.  A
\* task or the scheduler may fail in either, but not in a one-shot ping.
WorkEnds ==
    /\ stage = "work" /\ Idle /\ stage' = "finish"
    /\ \/ command # "run" /\ result' \in {"success", "failure"}
       \/ command = "run" /\ shutdown /\ result' = "success"
       \/ command # "once ping" /\ result' = "error"
    /\ UNCHANGED <<console, command, shutdown, journal_failed, session_closed, supervision,
                   writing, stderr, ended>>

\* finish_session, or finish_run in a one-shot ping.
FinishSession ==
    /\ stage = "finish" /\ Idle /\ stage' = "flush"
    /\ \/ Appended /\ session_closed' = TRUE /\ UNCHANGED result
       \/ AppendFails /\ result' = "error" /\ UNCHANGED session_closed
       \/ journal_failed /\ UNCHANGED <<published, journal_failed, result, session_closed>>
    /\ ConsoleUntouched
    /\ UNCHANGED <<command, shutdown, supervision, writing, stderr, ended>>

\* The journal is flushed and dropped; the console is shut down next.
FlushJournal ==
    /\ stage = "flush" /\ Idle /\ stage' = "console"
    /\ \/ UNCHANGED <<journal_failed, result>>
       \/ journal_failed' = TRUE /\ result' = "error"
    /\ UNCHANGED <<console, command, shutdown, session_closed, supervision, writing, stderr, ended>>

ShutDownConsole ==
    /\ stage = "console" /\ CommandRuns
    /\ DropSender \/ Joined \/ Timeout \/ Abort \/ AbortJoined
    /\ UNCHANGED <<work, supervision, writing, stderr, ended>>

Offering ==
    /\ CommandRuns /\ (CheckDisabled \/ TrySend)
    /\ UNCHANGED <<work, supervision, writing, stderr, ended>>

-----------------------------------------------------------------------------
(* supervise. *)

\* The command waits: for its first poll, a measurement or the console.
Awaiting ==
    /\ CommandRuns
    /\ \/ stage = "open" \/ (stage = "work" /\ Idle)
       \/ stage = "console" /\ caller \in {"join", "joinAborted"}

Signal(s) ==
    /\ ~ended /\ pending' = pending \cup {s}
    /\ UNCHANGED <<console, work, supervisor, exit_code, writing, stderr, ended>>

FirstSignal ==
    /\ supervisor = "none" /\ Awaiting
    /\ \E s \in pending : pending' = pending \ {s}
    /\ supervisor' = "draining" /\ shutdown' = (command # "once ping")
    /\ UNCHANGED <<console, command, stage, journal_failed, result, session_closed, exit_code,
                   writing, stderr, ended>>

\* The future is dropped, and with it whatever the command awaits.  Before
\* and after it an error is logged, which no verbosity leaves out.
Forced ==
    /\ supervisor = "draining" /\ Awaiting /\ ~stderr_blocked
    /\ supervisor' = "forced" /\ exit_code' = "forced"
    /\ stage' = "dropped" /\ caller' = "dropped"
    /\ UNCHANGED <<given, offered, channel, worker, event, shared, history, command, shutdown,
                   journal_failed, result, session_closed, writing, stderr, ended>>

SecondSignal == Forced /\ \E s \in pending : pending' = pending \ {s}
GraceExpired == Forced /\ UNCHANGED pending

\* Mutant: a first signal makes the exit a success whatever the command met.
CommandCodeIgnoringErrors ==
    IF supervisor = "draining" THEN "success" ELSE result
\* The exit code of a command that returned: errors count after a first
\* signal too, an unsuccessful measurement does not.
CommandCode ==
    IF supervisor = "draining" /\ result # "error" THEN "success" ELSE result

\* The command returns: Completed, or Graceful after a signal.  Its error is
\* logged at every verbosity too.
CommandReturns ==
    /\ stage = "refused" \/ (stage = "console" /\ caller = "done")
    /\ CommandRuns /\ (result = "error" => ~stderr_blocked)
    /\ stage' = "returned"
    /\ supervisor' = IF supervisor = "draining" THEN "graceful" ELSE "completed"
    /\ exit_code' = CommandCode
    /\ UNCHANGED <<console, command, shutdown, journal_failed, result, session_closed, pending,
                   writing, stderr, ended>>

-----------------------------------------------------------------------------
(* The runtime. *)

\* The worker runs beside the command, on a thread of its own.
Worker ==
    /\ ~ended /\ (Receive \/ Drained \/ Write \/ Flush \/ LastFlush)
    /\ UNCHANGED <<work, supervision, writing, stderr, ended>>

WorkerReturns ==
    /\ "worker" \notin stuck /\ ~ended /\ Return
    /\ UNCHANGED <<work, supervision, writing, stderr, ended>>

\* The thread that takes a step of disable_writer.
Disabling == IF worker' = worker THEN "command" ELSE "worker"

DisableWriter ==
    /\ ~ended /\ (StoreDisabled \/ SwapReported) /\ Disabling \notin stuck
    /\ UNCHANGED <<work, supervision, writing, stderr, ended>>

\* The worker's task is aborted, by shutdown or by the end of the runtime; the
\* write it waited for stays on its blocking thread.
WorkerAborted ==
    /\ caller = "joinAborted" \/ exit_code # None
    /\ ~ended /\ Aborted
    /\ writing' \in {FALSE, worker # "recv"}
    /\ UNCHANGED <<work, supervision, stderr, ended>>

\* The terminal or pipe takes the bytes after all.
WriteReturns ==
    /\ writing /\ writing' = FALSE
    /\ UNCHANGED <<console, work, supervision, stderr, ended>>

\* Mutant: the runtime waits for its threads, as #[tokio::main] does.
EndWaits ==
    /\ exit_code # None /\ worker = "gone" /\ ~writing
    /\ ~ended /\ ended' = TRUE
    /\ UNCHANGED <<console, work, supervision, writing, stderr>>
\* shutdown_timeout: the threads are waited for, but not for long.
End ==
    /\ exit_code # None
    /\ ~ended /\ ended' = TRUE
    /\ UNCHANGED <<console, work, supervision, writing, stderr>>

-----------------------------------------------------------------------------
(* The diagnostics, written to stderr without an await. *)

\* The reader of stderr stops for good; one that pauses only delays a step.
StderrBlocks ==
    /\ ~stderr_blocked /\ ~ended /\ stderr_blocked' = TRUE
    /\ UNCHANGED <<console, work, supervision, writing, stuck, ended>>

\* A diagnostic of the command or of the supervisor: of an event appended, of
\* a file opened or flushed, of a full queue, of the first signal.  Whether
\* there is one at a step depends on the verbosity as well.
CommandStuck ==
    /\ stderr_blocked /\ CommandRuns /\ exit_code = None
    /\ stuck' = stuck \cup {"command"}
    /\ UNCHANGED <<console, work, supervision, writing, stderr_blocked, ended>>

\* The diagnostic of disable_writer, by the thread that found the flag unset.
ReportStuck ==
    /\ stderr_blocked /\ ~ended
    /\ ~writer_failure_reported /\ SwapReported /\ Disabling \notin stuck
    /\ stuck' = stuck \cup {Disabling}
    /\ UNCHANGED <<work, supervision, writing, stderr_blocked, ended>>

-----------------------------------------------------------------------------
Init ==
    /\ ConsoleInit
    /\ command \in Commands /\ stage = "open" /\ shutdown = FALSE
    /\ journal_failed = FALSE /\ result = None /\ session_closed = FALSE
    /\ pending = {} /\ supervisor = "none" /\ exit_code = None
    /\ writing = FALSE /\ stderr_blocked = FALSE /\ stuck = {} /\ ended = FALSE

Next ==
    \/ OpenFails \/ StartSession \/ PublishResults \/ WorkEnds \/ FinishSession \/ FlushJournal
    \/ Offering \/ ShutDownConsole \/ DisableWriter
    \/ \E s \in Signals : Signal(s)
    \/ FirstSignal \/ SecondSignal \/ GraceExpired \/ CommandReturns
    \/ Worker \/ WorkerReturns \/ WorkerAborted \/ WriteReturns \/ End
    \/ StderrBlocks \/ CommandStuck \/ ReportStuck

Spec == Init /\ [][Next]_vars

(***************************************************************************)
(* Fairness.  The command's statements and the supervisor's timers go on;  *)
(* appends and syncs of the journal return.  Nothing is assumed of the     *)
(* measurements, which may last for ever, of whatever reads stdout, which  *)
(* may never take another byte, and of the user.  A write to stderr that   *)
(* never returns is the stuck thread: its actions are then not enabled.    *)
(***************************************************************************)
FairSpec ==
    /\ Spec
    /\ WF_vars(StartSession) /\ WF_vars(FinishSession) /\ WF_vars(FlushJournal)
    /\ WF_vars(Offering) /\ WF_vars(ShutDownConsole) /\ WF_vars(DisableWriter)
    /\ WF_vars(WorkerReturns) /\ WF_vars(WorkerAborted)
    /\ WF_vars(FirstSignal) /\ WF_vars(GraceExpired) /\ WF_vars(CommandReturns) /\ WF_vars(End)

-----------------------------------------------------------------------------
(* Properties. *)

\* Types of the process and the console.
TypeOK ==
    /\ ConsoleOK
    /\ command \in Commands /\ shutdown \in BOOLEAN
    /\ stage \in {"open", "refused", "work", "finish", "flush", "console", "returned", "dropped"}
    /\ journal_failed \in BOOLEAN /\ session_closed \in BOOLEAN
    /\ result \in {None, "success", "failure", "error"}
    /\ pending \subseteq Signals
    /\ supervisor \in {"none", "draining", "completed", "graceful", "forced"}
    /\ exit_code \in ExitCodes \cup {None} /\ writing \in BOOLEAN /\ ended \in BOOLEAN
    /\ stderr_blocked \in BOOLEAN /\ stuck \subseteq {"command", "worker"}

\* The exit code tells the truth (docs/service.md, "Exit codes").  A process
\* that reports success or a failed measurement, also after a first signal
\* that overtook any statement of it, has its session closed durably, met no
\* error of the journal and has shut its console down; success of a one-shot
\* command without a signal is the measurement's.  Any other exit but a forced
\* one closes its session too, as long as the journal works.  Type invariant
\* (TypeOK) included.
ExitTruthful ==
    /\ TypeOK
    /\ exit_code \in {"success", "failure"} =>
         session_closed /\ ~journal_failed /\ caller = "done"
    /\ exit_code = "success" => result = "success" \/ supervisor = "graceful"
    /\ exit_code = "error" /\ published > 0 /\ ~journal_failed => session_closed

\* A signal ends the process, at whatever moment it arrives, even if the
\* measurements never end and nobody ever reads another byte from stdout
\* (supervise; main, "console backpressure cannot hold the process open");
\* and once there is an exit code the process ends, whatever the outputs and
\* the threads that write to them do.  Of a signal it holds as long as stderr
\* is read from: diagnostics::init has every diagnostic written to it by the
\* thread that drains the command.
SignalEndsProcess ==
    /\ pending # {} ~> ended \/ stderr_blocked
    /\ exit_code # None ~> ended
=============================================================================
