------------------------------ MODULE Console ------------------------------
(***************************************************************************)
(* The console of src/src/console.rs: a bounded queue between the thread   *)
(* that offers events and a worker task that renders and writes them.      *)
(*                                                                         *)
(* offer, disable_writer and shutdown run in steps, because the worker and *)
(* the caller share two atomic flags: disabled and                         *)
(* writer_failure_reported.  Events are numbered in the order offered.     *)
(* Module Process publishes the events and shuts the console down, or      *)
(* drops it in the middle of anything the caller awaits.                   *)
(***************************************************************************)
EXTENDS Integers, Sequences, SequencesExt

CONSTANTS
    None,
    Capacity,          \* of the channel
    Hidden             \* events the human format renders as no line at all

VARIABLES
    mode,              \* "human" or "jsonl"; off has neither queue nor worker
    caller,            \* step of the thread that offers and shuts down
    published,         \* events in the journal, which are to be offered
    offered,           \* events offered so far
    queue, open,       \* channel: contents, and its receiver is alive
    worker,            \* step of the worker task
    event,             \* event the worker has taken, or None
    dropped_events, disabled, writer_failure_reported,   \* SharedState
    handled,           \* history: events the worker has done with
    diagnostics        \* history: WriterDisabled diagnostics emitted

given == <<mode, published>>
channel == <<queue, open>>
shared == <<dropped_events, disabled, writer_failure_reported>>
history == <<handled, diagnostics>>
console == <<given, caller, offered, channel, worker, event, shared, history>>

ASSUME ConsoleAssumption ==
    /\ Capacity \in Nat \ {0} /\ Hidden \subseteq Nat
    /\ None \notin Nat

CallerSteps == {"idle", "send", "disable", "report", "join", "timedOut", "timeoutReport",
                "abort", "joinAborted", "done", "dropped"}
WorkerSteps == {"recv", "write", "flush", "lastFlush", "disable", "report", "return", "gone"}

-----------------------------------------------------------------------------
(* offer. *)

\* The flag is read first.
CheckDisabled ==
    /\ caller = "idle" /\ offered < published
    /\ offered' = offered + 1
    /\ IF disabled
       THEN caller' = "idle" /\ dropped_events' = dropped_events + 1
       ELSE caller' = "send" /\ UNCHANGED dropped_events
    /\ UNCHANGED <<given, channel, worker, event, disabled, writer_failure_reported, history>>

\* try_send: queued, Full or Closed.
TrySend ==
    /\ caller = "send"
    /\ \/ /\ open /\ Len(queue) < Capacity
          /\ queue' = Append(queue, offered) /\ caller' = "idle"
          /\ UNCHANGED dropped_events
       \/ /\ open /\ Len(queue) = Capacity
          /\ dropped_events' = dropped_events + 1 /\ caller' = "idle"
          /\ UNCHANGED queue
       \/ /\ ~open
          /\ dropped_events' = dropped_events + 1 /\ caller' = "disable"
          /\ UNCHANGED queue
    /\ UNCHANGED <<given, offered, open, worker, event, disabled, writer_failure_reported, history>>

-----------------------------------------------------------------------------
(* disable_writer, by either thread. *)

\* The first half: disabled is set.
StoreDisabled ==
    /\ \/ caller = "disable" /\ caller' = "report" /\ UNCHANGED worker
       \/ caller = "timedOut" /\ caller' = "timeoutReport" /\ UNCHANGED worker
       \/ worker = "disable" /\ worker' = "report" /\ UNCHANGED caller
    /\ disabled' = TRUE
    /\ UNCHANGED <<given, offered, channel, event, dropped_events, writer_failure_reported, history>>

\* The thread that finds the flag unset emits the diagnostic, a write to
\* stderr that may hold it for ever (ReportStuck in module Process).
\* Mutant: every thread does.
SwapUnchecked ==
    /\ \/ caller = "report" /\ caller' = "idle" /\ UNCHANGED worker
       \/ caller = "timeoutReport" /\ caller' = "abort" /\ UNCHANGED worker
       \/ worker = "report" /\ worker' = "return" /\ UNCHANGED caller
    /\ writer_failure_reported' = TRUE
    /\ diagnostics' = diagnostics + 1
    /\ UNCHANGED <<given, offered, channel, event, dropped_events, disabled, handled>>
SwapReported ==
    /\ \/ caller = "report" /\ caller' = "idle" /\ UNCHANGED worker
       \/ caller = "timeoutReport" /\ caller' = "abort" /\ UNCHANGED worker
       \/ worker = "report" /\ worker' = "return" /\ UNCHANGED caller
    /\ writer_failure_reported' = TRUE
    /\ diagnostics' = diagnostics + IF writer_failure_reported THEN 0 ELSE 1
    /\ UNCHANGED <<given, offered, channel, event, dropped_events, disabled, handled>>

-----------------------------------------------------------------------------
(* run_worker. *)

SenderGone ==
    caller \in {"join", "timedOut", "timeoutReport", "abort", "joinAborted", "done", "dropped"}

HiddenEvents == IF mode = "human" THEN Hidden ELSE {}

\* An event is received and rendered: one without a line is passed over, one
\* that cannot be serialized ends the worker.
Receive ==
    /\ worker = "recv" /\ queue # <<>>
    /\ queue' = Tail(queue)
    /\ \/ /\ Head(queue) \in HiddenEvents /\ UNCHANGED <<worker, event>>
          /\ handled' = Append(handled, Head(queue))
       \/ /\ Head(queue) \notin HiddenEvents
          /\ worker' = "write" /\ event' = Head(queue) /\ UNCHANGED handled
       \/ /\ mode = "jsonl" /\ worker' = "disable"
          /\ event' = Head(queue) /\ UNCHANGED handled
    /\ UNCHANGED <<given, caller, offered, open, shared, diagnostics>>

\* recv returns None: the sender is gone and the queue is empty.
Drained ==
    /\ worker = "recv" /\ queue = <<>> /\ SenderGone
    /\ worker' = "lastFlush"
    /\ UNCHANGED <<given, caller, offered, channel, event, shared, history>>

Write ==
    /\ worker = "write" /\ worker' \in {"flush", "disable"}
    /\ UNCHANGED <<given, caller, offered, channel, event, shared, history>>

Flush ==
    /\ worker = "flush"
    /\ \/ /\ worker' = "recv" /\ event' = None
          /\ handled' = Append(handled, event)
       \/ worker' = "disable" /\ UNCHANGED <<event, handled>>
    /\ UNCHANGED <<given, caller, offered, channel, shared, diagnostics>>

LastFlush ==
    /\ worker = "lastFlush" /\ worker' \in {"return", "disable"}
    /\ UNCHANGED <<given, caller, offered, channel, event, shared, history>>

\* The task ends: its receiver is dropped with what is left in the queue.
Return ==
    /\ worker = "return" /\ worker' = "gone"
    /\ open' = FALSE /\ queue' = <<>>
    /\ UNCHANGED <<given, caller, offered, event, shared, history>>

-----------------------------------------------------------------------------
(* shutdown. *)

\* The sender is dropped.
DropSender ==
    /\ caller = "idle" /\ caller' = "join"
    /\ UNCHANGED <<given, offered, channel, worker, event, shared, history>>

\* The worker ended in time.
Joined ==
    /\ caller = "join" /\ worker = "gone" /\ caller' = "done"
    /\ UNCHANGED <<given, offered, channel, worker, event, shared, history>>

\* Mutant: the worker is aborted without a note in the statistics.
TimeoutSilent ==
    /\ caller = "join" /\ worker # "gone" /\ caller' = "abort"
    /\ UNCHANGED <<given, offered, channel, worker, event, shared, history>>
\* The time-out passes first; the worker may still go on until the abort.
Timeout ==
    /\ caller = "join" /\ worker # "gone" /\ caller' = "timedOut"
    /\ UNCHANGED <<given, offered, channel, worker, event, shared, history>>

Abort ==
    /\ caller = "abort" /\ caller' = "joinAborted"
    /\ UNCHANGED <<given, offered, channel, worker, event, shared, history>>

AtAwait == {"recv", "write", "flush", "lastFlush"}

\* The task stops at an await: while it waits for an event or a write.
Aborted ==
    /\ worker \in AtAwait /\ worker' = "gone" /\ open' = FALSE /\ queue' = <<>>
    /\ UNCHANGED <<given, caller, offered, event, shared, history>>

AbortJoined ==
    /\ caller = "joinAborted" /\ worker = "gone" /\ caller' = "done"
    /\ UNCHANGED <<given, offered, channel, worker, event, shared, history>>

-----------------------------------------------------------------------------
ConsoleInit ==
    /\ mode \in {"human", "jsonl"} /\ caller = "idle" /\ published = 0 /\ offered = 0
    /\ queue = <<>> /\ open = TRUE
    /\ worker = "recv" /\ event = None
    /\ dropped_events = 0 /\ disabled = FALSE /\ writer_failure_reported = FALSE
    /\ handled = <<>> /\ diagnostics = 0

-----------------------------------------------------------------------------
(* Properties. *)

\* Types of the console; the queue never exceeds its capacity and no event is
\* counted twice.
ConsoleOK ==
    /\ mode \in {"human", "jsonl"} /\ caller \in CallerSteps /\ worker \in WorkerSteps
    /\ published \in Nat /\ offered \in 0..published /\ event \in (1..offered) \cup {None}
    /\ queue \in Seq(1..offered) /\ Len(queue) <= Capacity /\ open \in BOOLEAN
    /\ dropped_events \in Nat /\ disabled \in BOOLEAN
    /\ dropped_events + Len(handled) + Len(queue) + (IF event = None THEN 0 ELSE 1) <= offered
    /\ writer_failure_reported \in BOOLEAN /\ diagnostics \in Nat

\* The statistics shutdown returns account for every event (ConsoleStats):
\* without the disabled flag each was handled or counted as dropped, and none
\* was lost silently; with it the failure was reported, exactly once, although
\* the worker, the caller and the time-out may all find it.
ConsoleAccounted ==
    /\ diagnostics <= 1
    /\ caller = "done" =>
         IF disabled THEN diagnostics = 1 ELSE published = Len(handled) + dropped_events
=============================================================================
