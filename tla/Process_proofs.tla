--------------------------- MODULE Process_proofs ---------------------------
(***************************************************************************)
(* Proofs about Process and its console, for every capacity of the queue   *)
(* and any number of rows: the console accounts for every event, and the   *)
(* exit code tells the truth.                                              *)
(*                                                                         *)
(* The properties speak of the end.  The invariant says what holds on the  *)
(* way.  Of the console: where every event offered is (Conserved), who     *)
(* still has to report a failure (Reported), what the sender's end means   *)
(* for the queue (Drains).  Of the process: what each step of the command  *)
(* has behind it (Progress).                                               *)
(***************************************************************************)
EXTENDS Process, SequenceTheorems, TLAPS

-----------------------------------------------------------------------------
(* The invariant of the console. *)

ConsoleTyped ==
    /\ mode \in {"human", "jsonl"} /\ caller \in CallerSteps /\ worker \in WorkerSteps
    /\ published \in Nat /\ offered \in 0..published /\ event \in (1..offered) \cup {None}
    /\ queue \in Seq(1..offered) /\ Len(queue) <= Capacity /\ open \in BOOLEAN
    /\ dropped_events \in Nat /\ handled \in Seq(Nat) /\ diagnostics \in Nat
    /\ disabled \in BOOLEAN /\ writer_failure_reported \in BOOLEAN

InWorker == IF event = None THEN 0 ELSE 1
InCaller == IF caller = "send" THEN 1 ELSE 0

\* Events handled, dropped, queued or in the worker's or the caller's hands.
Accounted == dropped_events + Len(handled) + Len(queue) + InWorker + InCaller

\* No event is counted twice; until the writer is disabled or the console is
\* dropped none is missing either.
Conserved ==
    /\ Accounted <= offered
    /\ ~disabled /\ caller # "dropped" => Accounted = offered

Abandoned == {"timeoutReport", "abort", "joinAborted"}

\* The diagnostic was emitted, or the thread that set the flag is about to.
Reported ==
    /\ diagnostics = IF writer_failure_reported THEN 1 ELSE 0
    /\ disabled => \/ writer_failure_reported
                   \/ caller \in {"report", "timeoutReport"} \/ worker = "report"
    /\ worker = "report" \/ caller \in Abandoned \cup {"report"} => disabled

\* A worker that returned without a failure left nothing behind.
Drains ==
    /\ worker = "recv" => event = None
    /\ worker \in {"write", "flush"} => event # None
    /\ worker \in {"lastFlush", "return", "gone"} /\ ~disabled /\ caller # "dropped" =>
         SenderGone /\ queue = <<>> /\ event = None
    /\ caller = "done" => worker = "gone"

ConsoleInv == ConsoleTyped /\ Conserved /\ Reported /\ Drains

-----------------------------------------------------------------------------
(* The invariant of the process. *)

ProcessTyped ==
    /\ command \in Commands /\ shutdown \in BOOLEAN
    /\ stage \in {"open", "refused", "work", "finish", "flush", "console", "returned", "dropped"}
    /\ journal_failed \in BOOLEAN /\ session_closed \in BOOLEAN
    /\ result \in {None, "success", "failure", "error"}
    /\ pending \subseteq Signals
    /\ supervisor \in {"none", "draining", "completed", "graceful", "forced"}
    /\ exit_code \in ExitCodes \cup {None} /\ writing \in BOOLEAN /\ ended \in BOOLEAN
    /\ stderr_blocked \in BOOLEAN /\ stuck \subseteq {"command", "worker"}

Joining == {"join", "timedOut", "done"} \cup Abandoned

\* What each step of the command has behind it, as to the console ...
Offered ==
    /\ stage \in {"open", "refused"} => published = 0
    /\ stage = "open" => caller = "idle"
    /\ stage \in {"refused", "dropped"} => caller = "dropped"
    /\ stage \in {"work", "finish", "flush"} => ~SenderGone
    /\ stage = "console" => caller \in Joining \cup {"idle"}
    /\ stage = "returned" => caller \in {"done", "dropped"}
    /\ caller \in Joining => offered = published
    /\ stage = "console" => offered = published

\* ... and as to the journal and the session.
Recorded ==
    /\ stage \in {"open", "work"} => ~journal_failed
    /\ stage \notin {"open", "work", "dropped"} => result # None
    /\ journal_failed => result = "error"
    /\ stage = "refused" => result = "error"
    /\ stage \in {"flush", "console"} /\ ~journal_failed => session_closed

\* The exit code is set once, by the supervisor.
Exited ==
    /\ exit_code # None => stage \in {"returned", "dropped"}
    /\ stage = "dropped" <=> exit_code = "forced"
    /\ supervisor \in {"none", "draining"} <=> exit_code = None

Truth ==
    /\ exit_code \in {"success", "failure"} =>
         session_closed /\ ~journal_failed /\ caller = "done"
    /\ exit_code = "success" => result = "success" \/ supervisor = "graceful"
    /\ exit_code = "error" /\ published > 0 /\ ~journal_failed => session_closed

ProcessInv == ProcessTyped /\ Offered /\ Recorded /\ Exited /\ Truth

Inv == ConsoleInv /\ ProcessInv
-----------------------------------------------------------------------------
(* The steps of the console. *)

\* What is in nobody's hands any more, and what the numbers are.
LEMMA Counts ==
    ASSUME ConsoleTyped
    PROVE  /\ Len(handled) \in Nat /\ Len(queue) \in Nat /\ offered \in Nat
           /\ InWorker \in 0..1 /\ InCaller \in 0..1
           /\ (queue = <<>> <=> Len(queue) = 0)
BY EmptySeq, LenProperties DEF ConsoleTyped, InWorker, InCaller

\* The steps that only move a thread on: nothing is counted anew.
LEMMA ThreadMoves ==
    ASSUME ConsoleInv, caller' \in CallerSteps, worker' \in WorkerSteps,
           caller = "send" <=> caller' = "send",
           caller = "dropped" => caller' = "dropped",
           disabled' \in BOOLEAN, disabled => disabled',
           diagnostics' \in Nat, writer_failure_reported' \in BOOLEAN,
           published' \in Nat, published' >= published,
           UNCHANGED <<mode, offered, channel, event, dropped_events, handled>>
    PROVE  ConsoleTyped' /\ Conserved'
<1>1. offered \in 0..published'
  BY SMT DEF ConsoleInv, ConsoleTyped
<1>2. ConsoleTyped'
  BY <1>1 DEF ConsoleInv, ConsoleTyped, channel
<1>3. Accounted' = Accounted
  BY DEF Accounted, InWorker, InCaller, channel
<1>4. Conserved'
  BY <1>3 DEF ConsoleInv, Conserved
<1> QED
  BY <1>2, <1>4

LEMMA CheckDisabledKeeps ==
    ASSUME ConsoleInv, CheckDisabled
    PROVE  ConsoleInv'
<1>1. /\ offered \in 0..published /\ offered' = offered + 1 /\ published \in Nat /\ offered < published
      /\ dropped_events \in Nat /\ dropped_events' \in {dropped_events, dropped_events + 1}
      /\ caller' \in {"idle", "send"}
  BY DEF ConsoleInv, ConsoleTyped, CheckDisabled
<1>2. offered' \in 0..published /\ dropped_events' \in Nat /\ 1..offered \subseteq 1..offered'
  BY <1>1, SMT
<1>3. ConsoleTyped'
  <2>1. queue \in Seq(1..offered')
    BY <1>2, SeqMonotonic DEF ConsoleInv, ConsoleTyped
  <2>2. event \in (1..offered') \cup {None}
    BY <1>2 DEF ConsoleInv, ConsoleTyped
  <2> QED
    BY <1>1, <1>2, <2>1, <2>2
       DEF ConsoleInv, ConsoleTyped, CheckDisabled, CallerSteps, given, channel, history
<1>4. Conserved'
  <2>1. /\ Len(handled) \in Nat /\ Len(queue) \in Nat /\ InWorker \in 0..1 /\ InCaller = 0
        /\ InWorker' = InWorker /\ handled' = handled /\ queue' = queue
    BY Counts DEF ConsoleInv, CheckDisabled, InWorker, InCaller, channel, history
  <2>2. InCaller' = IF disabled THEN 0 ELSE 1
    BY DEF CheckDisabled, InCaller
  <2>3. dropped_events' = dropped_events + IF disabled THEN 1 ELSE 0
    BY <1>1 DEF CheckDisabled
  <2>4. Accounted' = Accounted + 1
    BY <1>1, <2>1, <2>2, <2>3 DEF Accounted
  <2>5. Accounted \in Nat
    BY <1>1, <2>1 DEF Accounted
  <2>6. disabled' = disabled /\ caller # "dropped"
    BY DEF CheckDisabled
  <2> QED
    BY <1>1, <2>4, <2>5, <2>6 DEF ConsoleInv, Conserved
<1>5. Reported'
  BY <1>1 DEF ConsoleInv, Reported, CheckDisabled, Abandoned, history
<1>6. Drains'
  BY <1>1 DEF ConsoleInv, Drains, CheckDisabled, SenderGone, channel
<1> QED
  BY <1>3, <1>4, <1>5, <1>6 DEF ConsoleInv

LEMMA TrySendKeeps ==
    ASSUME ConsoleInv, TrySend
    PROVE  ConsoleInv'
<1>1. /\ Len(handled) \in Nat /\ Len(queue) \in Nat /\ InWorker \in 0..1 /\ InCaller = 1
      /\ InCaller' = 0 /\ InWorker' = InWorker /\ handled' = handled /\ offered' = offered
      /\ offered \in Nat /\ dropped_events \in Nat /\ Capacity \in Nat
  BY Counts, ConsoleAssumption DEF ConsoleInv, ConsoleTyped, TrySend, InWorker, InCaller, history
<1>2. Accounted \in Nat /\ Accounted <= offered
  BY <1>1 DEF Accounted, ConsoleInv, Conserved
<1>3. offered \in 1..offered
  BY <1>1, <1>2 DEF Accounted
<1>4. /\ queue' \in Seq(1..offered) /\ Len(queue') <= Capacity
      /\ dropped_events' \in Nat /\ caller' \in {"idle", "disable"}
      /\ Len(queue') \in Nat
      /\ dropped_events' + Len(queue') = dropped_events + Len(queue) + 1
  <2>1. CASE queue' = Append(queue, offered) /\ Len(queue) < Capacity
             /\ caller' = "idle" /\ UNCHANGED dropped_events
    <3>1. queue' \in Seq(1..offered) /\ Len(queue') = Len(queue) + 1
      BY <1>3, <2>1, AppendProperties DEF ConsoleInv, ConsoleTyped
    <3> QED
      BY <1>1, <2>1, <3>1
  <2>2. CASE dropped_events' = dropped_events + 1 /\ UNCHANGED queue
             /\ caller' \in {"idle", "disable"}
    BY <1>1, <2>2 DEF ConsoleInv, ConsoleTyped
  <2> QED
    BY <2>1, <2>2 DEF TrySend
<1>5. ConsoleTyped'
  BY <1>4 DEF ConsoleInv, ConsoleTyped, TrySend, CallerSteps, given, history
<1>6. Conserved'
  <2>1. Accounted' = Accounted
    <3>1. Accounted = Len(handled) + InWorker + (dropped_events + Len(queue) + 1)
      BY <1>1 DEF Accounted
    <3>2. Accounted' = Len(handled) + InWorker + (dropped_events' + Len(queue'))
      BY <1>1, <1>4 DEF Accounted
    <3> QED
      BY <1>4, <3>1, <3>2
  <2>2. disabled' = disabled /\ caller # "dropped"
    BY DEF TrySend
  <2> QED
    BY <1>1, <2>1, <2>2 DEF ConsoleInv, Conserved
<1>7. Reported'
  BY <1>4 DEF ConsoleInv, Reported, TrySend, Abandoned, history
<1>8. Drains'
  BY <1>4 DEF ConsoleInv, Drains, TrySend, SenderGone
<1> QED
  BY <1>5, <1>6, <1>7, <1>8 DEF ConsoleInv

\* One thread stores the flag that disables the writer.
LEMMA StoreDisabledKeeps ==
    ASSUME ConsoleInv, StoreDisabled
    PROVE  ConsoleInv'
<1>1. ConsoleTyped' /\ Conserved'
  BY ThreadMoves DEF ConsoleInv, ConsoleTyped, StoreDisabled, CallerSteps, WorkerSteps, given, history
<1>2. Reported'
  BY DEF ConsoleInv, Reported, StoreDisabled, Abandoned, history
<1>3. Drains'
  BY DEF ConsoleInv, Drains, StoreDisabled
<1> QED
  BY <1>1, <1>2, <1>3 DEF ConsoleInv

\* The diagnostic is emitted by the first thread that comes here only.
LEMMA SwapReportedKeeps ==
    ASSUME ConsoleInv, SwapReported
    PROVE  ConsoleInv'
<1>1. diagnostics' = 1 /\ writer_failure_reported' = TRUE
  BY DEF ConsoleInv, ConsoleTyped, Reported, SwapReported
<1>2. disabled /\ disabled' = disabled
  BY DEF ConsoleInv, Reported, SwapReported, Abandoned
<1>3. ConsoleTyped' /\ Conserved'
  BY <1>1, ThreadMoves
     DEF ConsoleInv, ConsoleTyped, SwapReported, CallerSteps, WorkerSteps, given
<1>4. Reported'
  BY <1>1, <1>2 DEF Reported
<1>5. Drains'
  BY <1>2 DEF ConsoleInv, Drains, SwapReported
<1> QED
  BY <1>3, <1>4, <1>5 DEF ConsoleInv

-----------------------------------------------------------------------------
(* The steps of the worker. *)

\* The worker passes on to a step with nothing received or given up.
LEMMA WorkerMovesKeep ==
    ASSUME ConsoleInv, Drained \/ Write \/ LastFlush
    PROVE  ConsoleInv'
<1>1. ConsoleTyped' /\ Conserved'
  BY ThreadMoves DEF ConsoleInv, ConsoleTyped, Drained, Write, LastFlush, CallerSteps, WorkerSteps,
                     given, shared, history
<1>2. Reported'
  BY DEF ConsoleInv, Reported, Drained, Write, LastFlush, shared, history
<1>3. Drains'
  BY DEF ConsoleInv, Drains, Drained, Write, LastFlush, SenderGone, channel, shared
<1> QED
  BY <1>1, <1>2, <1>3 DEF ConsoleInv

LEMMA ReceiveKeeps ==
    ASSUME ConsoleInv, Receive
    PROVE  ConsoleInv'
<1>1. /\ Head(queue) \in 1..offered /\ Head(queue) \in Nat /\ Head(queue) # None
      /\ queue' \in Seq(1..offered) /\ Len(queue') \in Nat /\ Len(queue) = Len(queue') + 1
  <2>1. /\ Head(queue) \in 1..offered /\ Tail(queue) \in Seq(1..offered)
        /\ Len(Tail(queue)) = Len(queue) - 1
    BY HeadTailProperties DEF ConsoleInv, ConsoleTyped, Receive
  <2>2. offered \in Nat /\ Len(queue) \in Nat /\ Len(queue) # 0 /\ None \notin Nat
    BY Counts, ConsoleAssumption DEF ConsoleInv, Receive
  <2>3. Head(queue) \in Nat
    BY <2>1, <2>2
  <2>4. queue' = Tail(queue)
    BY DEF Receive
  <2> QED
    BY <2>1, <2>2, <2>3, <2>4
<1>2. event = None /\ InWorker = 0
  BY DEF ConsoleInv, Drains, Receive, InWorker
<1>3. /\ worker' \in {"recv", "write", "disable"} /\ worker' = "recv" => event' = None
      /\ worker' = "write" => event' # None
      /\ event' \in (1..offered) \cup {None}
      /\ handled' \in Seq(Nat) /\ Len(handled') \in Nat /\ InWorker' \in Nat
      /\ Len(handled') + InWorker' = Len(handled) + 1
  <2>1. CASE UNCHANGED <<worker, event>> /\ handled' = Append(handled, Head(queue))
    <3>1. handled' \in Seq(Nat) /\ Len(handled') = Len(handled) + 1
      BY <1>1, <2>1, AppendProperties DEF ConsoleInv, ConsoleTyped
    <3>2. InWorker' = 0
      BY <1>2, <2>1 DEF InWorker
    <3>3. Len(handled) \in Nat
      BY Counts DEF ConsoleInv
    <3> QED
      BY <1>2, <2>1, <3>1, <3>2, <3>3 DEF Receive
  <2>2. CASE worker' \in {"write", "disable"} /\ event' = Head(queue) /\ UNCHANGED handled
    <3>1. InWorker' = 1
      BY <1>1, <2>2 DEF InWorker
    <3>2. Len(handled) \in Nat /\ handled \in Seq(Nat)
      BY Counts DEF ConsoleInv, ConsoleTyped
    <3> QED
      BY <1>1, <2>2, <3>1, <3>2
  <2> QED
    BY <2>1, <2>2 DEF Receive
<1>4. /\ Len(queue) <= Capacity /\ Capacity \in Nat /\ Len(queue) \in Nat
  BY Counts, ConsoleAssumption DEF ConsoleInv, ConsoleTyped
<1>5. ConsoleTyped'
  <2>1. Len(queue') <= Capacity
    BY <1>1, <1>4
  <2> QED
    BY <1>1, <1>3, <2>1 DEF ConsoleInv, ConsoleTyped, Receive, WorkerSteps, given, shared
<1>6. Conserved'
  <2>1. /\ dropped_events \in Nat /\ dropped_events' = dropped_events
        /\ InCaller \in Nat /\ InCaller' = InCaller /\ Len(handled) \in Nat
    BY Counts DEF ConsoleInv, ConsoleTyped, Receive, InCaller, shared
  <2>2. Accounted = dropped_events + InCaller + Len(queue') + (Len(handled) + 1)
    BY <1>1, <1>2, <1>4, <2>1 DEF Accounted
  <2>3. Accounted' = dropped_events + InCaller + Len(queue') + (Len(handled') + InWorker')
    BY <1>1, <1>3, <2>1 DEF Accounted
  <2>4. Accounted' = Accounted
    BY <1>3, <2>2, <2>3
  <2> QED
    BY <2>4 DEF ConsoleInv, Conserved, Receive, shared
<1>7. Reported'
  BY <1>3 DEF ConsoleInv, Reported, Receive, shared
<1>8. Drains'
  BY <1>3 DEF ConsoleInv, Drains, Receive
<1> QED
  BY <1>5, <1>6, <1>7, <1>8 DEF ConsoleInv

LEMMA FlushKeeps ==
    ASSUME ConsoleInv, Flush
    PROVE  ConsoleInv'
<1>1. CASE worker' = "disable" /\ UNCHANGED <<event, handled>>
  <2>1. ConsoleTyped' /\ Conserved'
    BY <1>1, ThreadMoves
       DEF ConsoleInv, ConsoleTyped, Flush, CallerSteps, WorkerSteps, given, shared
  <2>2. Reported' /\ Drains'
    BY <1>1 DEF ConsoleInv, Reported, Drains, Flush, shared
  <2> QED
    BY <2>1, <2>2 DEF ConsoleInv
<1>2. CASE worker' = "recv" /\ event' = None /\ handled' = Append(handled, event)
  <2>1. event \in 1..offered /\ event \in Nat /\ InWorker = 1 /\ InWorker' = 0
    BY <1>2, Counts DEF ConsoleInv, ConsoleTyped, Drains, Flush, InWorker
  <2>2. handled' \in Seq(Nat) /\ Len(handled') = Len(handled) + 1
    BY <1>2, <2>1, AppendProperties DEF ConsoleInv, ConsoleTyped
  <2>3. ConsoleTyped'
    BY <1>2, <2>2 DEF ConsoleInv, ConsoleTyped, Flush, WorkerSteps, given, channel, shared
  <2>4. Conserved'
    <3>1. /\ dropped_events \in Nat /\ Len(handled) \in Nat /\ Len(queue) \in Nat
          /\ InCaller \in Nat /\ InCaller' = InCaller /\ dropped_events' = dropped_events
          /\ queue' = queue
      BY Counts DEF ConsoleInv, ConsoleTyped, Flush, InCaller, channel, shared
    <3>2. Accounted' = Accounted
      BY <2>1, <2>2, <3>1 DEF Accounted
    <3> QED
      BY <3>2 DEF ConsoleInv, Conserved, Flush, shared
  <2>5. Reported' /\ Drains'
    BY <1>2 DEF ConsoleInv, Reported, Drains, Flush, shared
  <2> QED
    BY <2>3, <2>4, <2>5 DEF ConsoleInv
<1> QED
  BY <1>1, <1>2 DEF Flush

\* The end of the worker loses what is in the queue, and no one asks for it
\* any more unless the queue is empty.
LEMMA ReceiverDropped ==
    ASSUME ConsoleInv, disabled \/ caller = "dropped" \/ queue = <<>>,
           worker \notin {"report", "gone"}, worker' = "gone", open' = FALSE, queue' = <<>>,
           ~disabled /\ caller # "dropped" => SenderGone /\ event = None,
           UNCHANGED <<given, caller, offered, event, shared, history>>
    PROVE  ConsoleInv'
<1>1. Len(queue') = 0 /\ queue' \in Seq(1..offered)
  BY EmptySeq
<1>2. ConsoleTyped'
  <2>1. Len(queue') <= Capacity
    BY <1>1, ConsoleAssumption
  <2> QED
    BY <1>1, <2>1 DEF ConsoleInv, ConsoleTyped, WorkerSteps, given, shared, history
<1>3. Conserved'
  <2>1. /\ dropped_events \in Nat /\ Len(handled) \in Nat /\ Len(queue) \in Nat
        /\ InWorker \in Nat /\ InCaller \in Nat /\ offered \in Nat
        /\ InCaller' = InCaller /\ InWorker' = InWorker
        /\ dropped_events' = dropped_events /\ handled' = handled /\ offered' = offered
        /\ disabled' = disabled /\ caller' = caller
        /\ queue = <<>> => Len(queue) = 0
    BY Counts DEF ConsoleInv, ConsoleTyped, InWorker, InCaller, shared, history
  <2>2. Accounted' <= Accounted /\ (queue = <<>> => Accounted' = Accounted) /\ Accounted' \in Nat
        /\ Accounted \in Nat
    BY <1>1, <2>1 DEF Accounted
  <2> QED
    BY <2>1, <2>2 DEF ConsoleInv, Conserved
<1>4. Reported'
  BY DEF ConsoleInv, Reported, shared, history
<1>5. Drains'
  BY DEF ConsoleInv, Drains, SenderGone, shared
<1> QED
  BY <1>2, <1>3, <1>4, <1>5 DEF ConsoleInv

LEMMA ReturnKeeps ==
    ASSUME ConsoleInv, Return
    PROVE  ConsoleInv'
BY ReceiverDropped DEF ConsoleInv, Drains, Return

-----------------------------------------------------------------------------
(* The steps of the command, as the console sees them. *)

\* The console is shut down step by step.
LEMMA ShutdownKeeps ==
    ASSUME ConsoleInv, DropSender \/ Joined \/ Timeout \/ Abort \/ AbortJoined
    PROVE  ConsoleInv'
<1>1. ConsoleTyped' /\ Conserved'
  BY ThreadMoves DEF ConsoleInv, ConsoleTyped, DropSender, Joined, Timeout, Abort, AbortJoined,
                     CallerSteps, given, shared, history
<1>2. Reported'
  BY DEF ConsoleInv, Reported, DropSender, Joined, Timeout, Abort, AbortJoined, Abandoned,
         shared, history
<1>3. Drains'
  BY DEF ConsoleInv, Drains, DropSender, Joined, Timeout, Abort, AbortJoined, SenderGone,
         channel, shared
<1> QED
  BY <1>1, <1>2, <1>3 DEF ConsoleInv

\* The command is dropped, or never shuts its console down.
LEMMA CallerDropped ==
    ASSUME ConsoleInv, caller \in {"idle", "join", "joinAborted"}, caller' = "dropped",
           UNCHANGED <<given, offered, channel, worker, event, shared, history>>
    PROVE  ConsoleInv'
<1>1. ConsoleTyped' /\ Conserved'
  BY ThreadMoves DEF ConsoleInv, ConsoleTyped, CallerSteps, given, shared, history
<1>2. Reported' /\ Drains'
  BY DEF ConsoleInv, Reported, Drains, Abandoned, channel, shared, history
<1> QED
  BY <1>1, <1>2 DEF ConsoleInv

\* A row is published, or the console is left alone.
LEMMA Publishes ==
    ASSUME ConsoleInv, published' \in {published, published + 1}, ConsoleUntouched
    PROVE  ConsoleInv'
<1>1. ConsoleTyped' /\ Conserved'
  BY ThreadMoves DEF ConsoleInv, ConsoleTyped, ConsoleUntouched, shared, history
<1>2. Reported' /\ Drains'
  BY DEF ConsoleInv, Reported, Drains, ConsoleUntouched, SenderGone, channel, shared, history
<1> QED
  BY <1>1, <1>2 DEF ConsoleInv

-----------------------------------------------------------------------------
(* The steps of the process. *)

\* What the proofs about the process use of the console.
LEMMA ConsoleFacts ==
    ASSUME ConsoleInv
    PROVE  /\ published \in Nat /\ offered \in 0..published
           /\ caller = "done" => worker = "gone"
           /\ caller \in Abandoned => disabled
BY DEF ConsoleInv, ConsoleTyped, Reported, Drains, Abandoned

\* A step of the console that leaves the caller where it is leaves the
\* process alone.
LEMMA Beside ==
    ASSUME ProcessInv, UNCHANGED <<given, caller, offered, work, supervision>>,
           writing' \in BOOLEAN, ended' \in BOOLEAN,
           stderr_blocked' \in BOOLEAN, stuck' \subseteq {"command", "worker"}
    PROVE  ProcessInv'
BY DEF ProcessInv, ProcessTyped, Offered, Recorded, Exited, Truth, given, work, supervision,
       SenderGone

\* A step of the caller beside the command's statements.
LEMMA CallerMoves ==
    ASSUME ProcessInv, UNCHANGED <<given, work, supervision, writing, ended>>,
           stderr_blocked' \in BOOLEAN, stuck' \subseteq {"command", "worker"},
           Offered', caller = "done" => caller' = "done"
    PROVE  ProcessInv'
<1>1. ProcessTyped' /\ Recorded' /\ Exited'
  BY DEF ProcessInv, ProcessTyped, Recorded, Exited, work, supervision
<1>2. Truth'
  BY DEF ProcessInv, Truth, given, work, supervision
<1> QED
  BY <1>1, <1>2 DEF ProcessInv

LEMMA OfferingKeeps ==
    ASSUME Inv, Offering
    PROVE  Inv'
<1>1. ConsoleInv'
  BY CheckDisabledKeeps, TrySendKeeps DEF Inv, Offering
<1>2. /\ caller \in {"idle", "send"} /\ caller' \in {"idle", "send", "disable"}
      /\ stage \notin {"open", "refused", "console", "returned", "dropped"}
  <2>1. CASE CheckDisabled
    <3>1. offered < published /\ published \in Nat /\ caller = "idle"
      BY <2>1, ConsoleFacts DEF Inv, CheckDisabled
    <3>2. published # 0 /\ offered # published
      BY <3>1, ConsoleFacts DEF Inv
    <3> QED
      BY <2>1, <3>1, <3>2 DEF Inv, ProcessInv, Offered, CheckDisabled
  <2>2. CASE TrySend
    BY <2>2 DEF Inv, ProcessInv, Offered, TrySend, Joining, Abandoned
  <2> QED
    BY <2>1, <2>2 DEF Offering
<1>3. UNCHANGED <<given, work, supervision, writing, stderr, ended>>
  BY DEF Offering, CheckDisabled, TrySend
<1>4. Offered'
  BY <1>2, <1>3 DEF Offered, work, SenderGone, Joining, Abandoned
<1> QED
  BY <1>1, <1>2, <1>3, <1>4, CallerMoves DEF Inv, ProcessInv, ProcessTyped, stderr

LEMMA ShutDownConsoleKeeps ==
    ASSUME Inv, ShutDownConsole
    PROVE  Inv'
<1>1. ConsoleInv'
  BY ShutdownKeeps DEF Inv, ShutDownConsole
<1>2. caller' \in Joining /\ caller # "done" /\ stage = "console"
  BY DEF ShutDownConsole, DropSender, Joined, Timeout, Abort, AbortJoined, Joining, Abandoned
<1>3. UNCHANGED <<given, offered, work, supervision, writing, stderr, ended>>
  BY DEF ShutDownConsole, DropSender, Joined, Timeout, Abort, AbortJoined
<1>4. Offered'
  BY <1>2, <1>3 DEF Inv, ProcessInv, Offered, work, given
<1> QED
  BY <1>1, <1>2, <1>3, <1>4, CallerMoves DEF Inv, ProcessInv, ProcessTyped, stderr

LEMMA DisableWriterKeeps ==
    ASSUME Inv, DisableWriter \/ ReportStuck
    PROVE  Inv'
<1>1. ConsoleInv'
  BY StoreDisabledKeeps, SwapReportedKeeps DEF Inv, DisableWriter, ReportStuck
<1>2. /\ UNCHANGED <<given, offered, work, supervision, writing, ended>>
      /\ \/ caller' = caller
         \/ caller = "disable" /\ caller' = "report"
         \/ caller = "timedOut" /\ caller' = "timeoutReport"
         \/ caller = "report" /\ caller' = "idle"
         \/ caller = "timeoutReport" /\ caller' = "abort"
  BY DEF DisableWriter, ReportStuck, StoreDisabled, SwapReported
<1>3. stderr_blocked' \in BOOLEAN /\ stuck' \subseteq {"command", "worker"}
  BY DEF Inv, ProcessInv, ProcessTyped, DisableWriter, ReportStuck, Disabling, stderr
<1>4. Offered'
  BY <1>2 DEF Inv, ProcessInv, Offered, work, given, SenderGone, Joining, Abandoned
<1> QED
  BY <1>1, <1>2, <1>3, <1>4, CallerMoves DEF Inv

LEMMA WorkerKeeps ==
    ASSUME Inv, Worker \/ WorkerReturns
    PROVE  Inv'
<1>1. ConsoleInv'
  BY WorkerMovesKeep, ReceiveKeeps, FlushKeeps, ReturnKeeps DEF Inv, Worker, WorkerReturns
<1>2. UNCHANGED <<given, caller, offered, work, supervision, writing, stderr, ended>>
  BY DEF Worker, WorkerReturns, Receive, Drained, Write, Flush, LastFlush, Return
<1> QED
  BY <1>1, <1>2, Beside DEF Inv, ProcessInv, ProcessTyped, stderr

LEMMA WorkerAbortedKeeps ==
    ASSUME Inv, WorkerAborted
    PROVE  Inv'
<1>1. worker \in AtAwait /\ worker' = "gone" /\ open' = FALSE /\ queue' = <<>>
      /\ UNCHANGED <<given, caller, offered, event, shared, history>>
  BY DEF WorkerAborted, Aborted
<1>2. disabled \/ caller = "dropped"
  <2>1. CASE caller = "joinAborted"
    BY <2>1, ConsoleFacts DEF Inv, Abandoned
  <2>2. CASE exit_code # None
    <3>1. caller \in {"done", "dropped"}
      BY <2>2 DEF Inv, ProcessInv, Exited, Offered
    <3> QED
      BY <1>1, <3>1, ConsoleFacts DEF Inv, AtAwait
  <2> QED
    BY <2>1, <2>2 DEF WorkerAborted
<1>3. ConsoleInv'
  BY <1>1, <1>2, ReceiverDropped DEF Inv, AtAwait
<1>4. UNCHANGED <<work, supervision, stderr, ended>> /\ writing' \in BOOLEAN
  BY DEF WorkerAborted
<1> QED
  BY <1>1, <1>3, <1>4, Beside DEF Inv, ProcessInv, ProcessTyped, stderr

\* While the command runs no exit code is set, and nothing is said of it.
LEMMA NotExited ==
    ASSUME ProcessInv, exit_code = None, UNCHANGED <<supervisor, exit_code>>, stage' # "dropped"
    PROVE  Exited' /\ Truth'
BY NoneAssumption DEF ProcessInv, Exited, Truth, ExitCodes

LEMMA Running ==
    ASSUME ProcessInv, stage \in {"open", "refused", "work", "finish", "flush", "console"}
    PROVE  exit_code = None
BY DEF ProcessInv, Exited

LEMMA OpenFailsKeeps ==
    ASSUME Inv, OpenFails
    PROVE  Inv'
<1>1. /\ stage = "open" /\ caller = "idle" /\ published = 0 /\ stage' = "refused"
      /\ caller' = "dropped" /\ result' = "error" /\ exit_code = None
      /\ UNCHANGED <<given, offered, command, shutdown, journal_failed, session_closed,
                     supervision, writing, stderr, ended>>
  BY Running DEF Inv, ProcessInv, Offered, OpenFails
<1>2. ConsoleInv'
  BY <1>1, CallerDropped DEF Inv, OpenFails
<1>3. ProcessTyped'
  BY <1>1 DEF Inv, ProcessInv, ProcessTyped, supervision, stderr
<1>4. Offered'
  BY <1>1 DEF Offered, given, Joining, Abandoned
<1>5. Recorded'
  BY <1>1, NoneAssumption DEF Recorded, ExitCodes
<1>6. Exited' /\ Truth'
  BY <1>1, NotExited DEF Inv, supervision
<1> QED
  BY <1>2, <1>3, <1>4, <1>5, <1>6 DEF Inv, ProcessInv

\* A statement of the command that publishes one row or none, and whose
\* journal may fail.
LEMMA Statement ==
    ASSUME Inv, ConsoleUntouched, published' \in {published, published + 1},
           stage \in {"open", "work", "finish", "flush"},
           stage' \in {"work", "finish", "flush", "console"},
           journal_failed' \in BOOLEAN, session_closed' \in BOOLEAN,
           result' \in {None, "success", "failure", "error"},
           Recorded',
           stage' = "console" => caller = "idle" /\ offered = published /\ published' = published,
           UNCHANGED <<command, shutdown, supervision, writing, stderr, ended>>
    PROVE  Inv'
<1>1. ConsoleInv'
  BY Publishes DEF Inv
<1>2. UNCHANGED <<caller, offered>>
  BY DEF ConsoleUntouched
<1>3. ProcessTyped'
  BY DEF Inv, ProcessInv, ProcessTyped, supervision, stderr
<1>4. ~SenderGone
  BY DEF Inv, ProcessInv, Offered, SenderGone
<1>5. Offered'
  BY <1>2, <1>4 DEF Offered, SenderGone, Joining, Abandoned
<1>6. Exited' /\ Truth'
  BY Running, NotExited DEF Inv, supervision
<1> QED
  BY <1>1, <1>3, <1>5, <1>6 DEF Inv, ProcessInv

LEMMA StartSessionKeeps ==
    ASSUME Inv, StartSession
    PROVE  Inv'
<1>1. Recorded'
  BY NoneAssumption DEF StartSession, Appended, AppendFails, Recorded, ExitCodes
<1> QED
  BY <1>1, Statement
     DEF Inv, ProcessInv, ProcessTyped, StartSession, Appended, AppendFails

LEMMA PublishResultsKeeps ==
    ASSUME Inv, PublishResults
    PROVE  Inv'
<1>1. Recorded'
  BY NoneAssumption
     DEF Inv, ProcessInv, PublishResults, Appended, AppendFails, Recorded, ExitCodes
<1> QED
  BY <1>1, Statement
     DEF Inv, ProcessInv, ProcessTyped, PublishResults, Appended, AppendFails

LEMMA WorkEndsKeeps ==
    ASSUME Inv, WorkEnds
    PROVE  Inv'
<1>1. Recorded'
  BY NoneAssumption DEF Inv, ProcessInv, WorkEnds, Recorded, ExitCodes
<1>2. ConsoleUntouched /\ published' = published
  BY DEF WorkEnds, ConsoleUntouched, console, given
<1> QED
  BY <1>1, <1>2, Statement DEF Inv, ProcessInv, ProcessTyped, WorkEnds

LEMMA FinishSessionKeeps ==
    ASSUME Inv, FinishSession
    PROVE  Inv'
<1>1. Recorded'
  BY NoneAssumption
     DEF Inv, ProcessInv, FinishSession, Appended, AppendFails, Recorded, ExitCodes
<1> QED
  BY <1>1, Statement
     DEF Inv, ProcessInv, ProcessTyped, FinishSession, Appended, AppendFails

LEMMA FlushJournalKeeps ==
    ASSUME Inv, FlushJournal
    PROVE  Inv'
<1>1. Recorded'
  BY NoneAssumption DEF Inv, ProcessInv, FlushJournal, Recorded, ExitCodes
<1>2. ConsoleUntouched /\ published' = published
  BY DEF FlushJournal, ConsoleUntouched, console, given
<1> QED
  BY <1>1, <1>2, Statement DEF Inv, ProcessInv, ProcessTyped, FlushJournal, Idle

-----------------------------------------------------------------------------
(* The steps of the supervisor. *)

\* The console does not see a step that leaves its variables alone.
LEMMA ConsoleAlone ==
    ASSUME ConsoleInv, UNCHANGED console
    PROVE  ConsoleInv'
<1>1. published' = published /\ ConsoleUntouched
  BY DEF console, given, ConsoleUntouched
<1> QED
  BY <1>1, Publishes

LEMMA SignalKeeps ==
    ASSUME Inv, NEW s \in Signals, Signal(s)
    PROVE  Inv'
<1>1. ConsoleInv'
  BY ConsoleAlone DEF Inv, Signal
<1>2. /\ UNCHANGED <<given, caller, offered, work, supervisor, exit_code, writing, stderr, ended>>
      /\ pending' = pending \cup {s}
  BY DEF Signal, console
<1>3. ProcessTyped'
  BY <1>2 DEF Inv, ProcessInv, ProcessTyped, work, stderr
<1>4. Offered' /\ Recorded' /\ Exited' /\ Truth'
  BY <1>2 DEF Inv, ProcessInv, Offered, Recorded, Exited, Truth, given, work, SenderGone
<1> QED
  BY <1>1, <1>3, <1>4 DEF Inv, ProcessInv

LEMMA FirstSignalKeeps ==
    ASSUME Inv, FirstSignal
    PROVE  Inv'
<1>1. ConsoleInv'
  BY ConsoleAlone DEF Inv, FirstSignal
<1>2. /\ UNCHANGED <<given, caller, offered, stage, journal_failed, result, session_closed,
                     exit_code, command, writing, stderr, ended>>
      /\ supervisor = "none" /\ supervisor' = "draining" /\ shutdown' \in BOOLEAN
      /\ pending' \subseteq pending
  BY DEF FirstSignal, console
<1>3. ProcessTyped'
  BY <1>2 DEF Inv, ProcessInv, ProcessTyped, stderr
<1>4. Offered' /\ Recorded'
  BY <1>2 DEF Inv, ProcessInv, Offered, Recorded, given, SenderGone
<1>5. Exited' /\ Truth'
  BY <1>2, NoneAssumption DEF Inv, ProcessInv, Exited, Truth, ExitCodes
<1> QED
  BY <1>1, <1>3, <1>4, <1>5 DEF Inv, ProcessInv

\* The command is dropped where it waits; nothing but the forced exit is said.
LEMMA ForcedKeeps ==
    ASSUME Inv, Forced, pending' \subseteq pending
    PROVE  Inv'
<1>1. caller \in {"idle", "join", "joinAborted"}
  BY DEF Inv, ProcessInv, Offered, Forced, Awaiting, Idle
<1>2. /\ UNCHANGED <<given, offered, command, shutdown, journal_failed, result, session_closed,
                     writing, stderr, ended>>
      /\ stage' = "dropped" /\ caller' = "dropped"
      /\ supervisor' = "forced" /\ exit_code' = "forced"
  BY DEF Forced
<1>3. ConsoleInv'
  BY <1>1, CallerDropped DEF Inv, Forced
<1>4. ProcessTyped'
  BY <1>2 DEF Inv, ProcessInv, ProcessTyped, ExitCodes, stderr
<1>5. Offered' /\ Exited' /\ Truth'
  BY <1>2, NoneAssumption DEF Offered, Exited, Truth, ExitCodes, Joining, Abandoned
<1>6. Recorded'
  BY <1>2 DEF Inv, ProcessInv, Recorded
<1> QED
  BY <1>3, <1>4, <1>5, <1>6 DEF Inv, ProcessInv

\* The command returns, and its result becomes the exit code.
LEMMA CommandReturnsKeeps ==
    ASSUME Inv, CommandReturns
    PROVE  Inv'
<1>1. ConsoleInv'
  BY ConsoleAlone DEF Inv, CommandReturns
<1>2. /\ UNCHANGED <<given, caller, offered, command, shutdown, journal_failed, result,
                     session_closed, pending, writing, stderr, ended>>
      /\ stage' = "returned" /\ exit_code' = CommandCode
      /\ supervisor' = IF supervisor = "draining" THEN "graceful" ELSE "completed"
      /\ stage = "refused" \/ (stage = "console" /\ caller = "done")
  BY DEF CommandReturns, console
<1>3. result \in {"success", "failure", "error"}
  BY <1>2 DEF Inv, ProcessInv, ProcessTyped, Recorded
<1>4. /\ exit_code' \in {"success", "failure", "error"}
      /\ exit_code' = "error" <=> result = "error"
      /\ exit_code' = "success" => result = "success" \/ supervisor' = "graceful"
  BY <1>2, <1>3 DEF CommandCode
<1>5. ProcessTyped'
  BY <1>2, <1>4 DEF Inv, ProcessInv, ProcessTyped, ExitCodes, stderr
<1>6. Offered'
  BY <1>2 DEF Inv, ProcessInv, Offered, given, Joining
<1>7. Recorded'
  BY <1>2, <1>3, NoneAssumption DEF Inv, ProcessInv, Recorded, ExitCodes
<1>8. Exited'
  BY <1>2, <1>4, NoneAssumption DEF Exited, ExitCodes
<1>9. Truth'
  <2>1. CASE stage = "refused"
    BY <1>2, <1>4, <2>1, SMT DEF Inv, ProcessInv, Offered, Recorded, Truth, given
  <2>2. CASE stage = "console" /\ caller = "done"
    BY <1>2, <1>4, <2>2 DEF Inv, ProcessInv, Recorded, Truth
  <2> QED
    BY <1>2, <2>1, <2>2
<1> QED
  BY <1>1, <1>5, <1>6, <1>7, <1>8, <1>9 DEF Inv, ProcessInv

-----------------------------------------------------------------------------
(* The specification. *)

LEMMA Initially == Init => Inv
<1> SUFFICES ASSUME Init PROVE Inv
  OBVIOUS
<1>1. ConsoleTyped
  <2>1. queue = <<>> /\ handled = <<>> /\ queue \in Seq(1..offered) /\ handled \in Seq(Nat)
    BY EmptySeq DEF Init, ConsoleInit
  <2>2. Len(queue) <= Capacity
    BY <2>1, EmptySeq, ConsoleAssumption
  <2>3. /\ mode \in {"human", "jsonl"} /\ caller \in CallerSteps /\ worker \in WorkerSteps
        /\ event \in (1..offered) \cup {None} /\ open \in BOOLEAN
        /\ disabled \in BOOLEAN /\ writer_failure_reported \in BOOLEAN
    BY DEF Init, ConsoleInit, CallerSteps, WorkerSteps
  <2>4. published \in Nat /\ offered \in 0..published /\ dropped_events \in Nat /\ diagnostics \in Nat
    BY DEF Init, ConsoleInit
  <2> QED
    BY <2>1, <2>2, <2>3, <2>4 DEF ConsoleTyped
<1>2. Conserved
  BY EmptySeq DEF Init, ConsoleInit, Conserved, Accounted, InWorker, InCaller
<1>3. Reported /\ Drains
  BY DEF Init, ConsoleInit, Reported, Drains, Abandoned
<1>4. ProcessTyped
  BY DEF Init, ProcessTyped
<1>5. Offered /\ Recorded
  BY DEF Init, ConsoleInit, Offered, Recorded, SenderGone, Joining, Abandoned
<1>6. Exited /\ Truth
  BY NoneAssumption DEF Init, Exited, Truth, ExitCodes
<1> QED
  BY <1>1, <1>2, <1>3, <1>4, <1>5, <1>6 DEF Inv, ConsoleInv, ProcessInv

\* Every step keeps the invariant.
LEMMA Steps == Inv /\ [Next]_vars => Inv'
<1> SUFFICES ASSUME Inv, [Next]_vars PROVE Inv'
  OBVIOUS
<1>1. CASE OpenFails
  BY <1>1, OpenFailsKeeps
<1>2. CASE StartSession
  BY <1>2, StartSessionKeeps
<1>3. CASE PublishResults
  BY <1>3, PublishResultsKeeps
<1>4. CASE WorkEnds
  BY <1>4, WorkEndsKeeps
<1>5. CASE FinishSession
  BY <1>5, FinishSessionKeeps
<1>6. CASE FlushJournal
  BY <1>6, FlushJournalKeeps
<1>7. CASE Offering
  BY <1>7, OfferingKeeps
<1>8. CASE ShutDownConsole
  BY <1>8, ShutDownConsoleKeeps
<1>9. CASE DisableWriter \/ ReportStuck
  BY <1>9, DisableWriterKeeps
<1>10. CASE \E s \in Signals : Signal(s)
  BY <1>10, SignalKeeps
<1>11. CASE FirstSignal
  BY <1>11, FirstSignalKeeps
<1>12. CASE SecondSignal \/ GraceExpired
  <2>1. Forced /\ pending' \subseteq pending
    BY <1>12 DEF SecondSignal, GraceExpired
  <2> QED
    BY <2>1, ForcedKeeps
<1>13. CASE CommandReturns
  BY <1>13, CommandReturnsKeeps
<1>14. CASE Worker \/ WorkerReturns
  BY <1>14, WorkerKeeps
<1>15. CASE WorkerAborted
  BY <1>15, WorkerAbortedKeeps
<1>16. CASE WriteReturns \/ End \/ StderrBlocks \/ CommandStuck \/ UNCHANGED vars
  <2>1. UNCHANGED <<console, work, supervision>>
    BY <1>16 DEF WriteReturns, End, StderrBlocks, CommandStuck, vars
  <2>2. /\ writing' \in BOOLEAN /\ ended' \in BOOLEAN
        /\ stderr_blocked' \in BOOLEAN /\ stuck' \subseteq {"command", "worker"}
    BY <1>16 DEF WriteReturns, End, StderrBlocks, CommandStuck, vars, stderr,
                 Inv, ProcessInv, ProcessTyped
  <2>3. UNCHANGED <<given, caller, offered>>
    BY <2>1 DEF console
  <2> QED
    BY <2>1, <2>2, <2>3, Beside, ConsoleAlone DEF Inv
<1> QED
  BY <1>1, <1>2, <1>3, <1>4, <1>5, <1>6, <1>7, <1>8, <1>9, <1>10, <1>11, <1>12, <1>13, <1>14,
     <1>15, <1>16
     DEF Next

LEMMA Invariant == Spec => []Inv
BY Initially, Steps, PTL DEF Spec

-----------------------------------------------------------------------------
(* The theorems. *)

\* The statistics that shutdown returns account for every event published,
\* and a failure is reported exactly once, for any queue and any order of the
\* worker, the caller, the time-out and the abort (ConsoleStats).
THEOREM EveryEventAccounted == Spec => []ConsoleAccounted
<1>1. Inv => ConsoleAccounted
  <2> SUFFICES ASSUME Inv PROVE ConsoleAccounted
    OBVIOUS
  <2>1. diagnostics <= 1
    BY DEF Inv, ConsoleInv, Reported
  <2>2. ASSUME caller = "done", disabled PROVE diagnostics = 1
    BY <2>2 DEF Inv, ConsoleInv, Reported, Drains
  <2>3. ASSUME caller = "done", ~disabled PROVE published = Len(handled) + dropped_events
    <3>1. offered = published /\ queue = <<>> /\ event = None
      BY <2>3 DEF Inv, ConsoleInv, Drains, ProcessInv, Offered, Joining
    <3>2. Len(queue) = 0 /\ InWorker = 0 /\ InCaller = 0
      BY <2>3, <3>1, Counts DEF Inv, ConsoleInv, InWorker, InCaller
    <3>3. Accounted = offered
      BY <2>3 DEF Inv, ConsoleInv, Conserved
    <3>4. Len(handled) \in Nat /\ dropped_events \in Nat
      BY Counts DEF Inv, ConsoleInv, ConsoleTyped
    <3> QED
      BY <3>1, <3>2, <3>3, <3>4 DEF Accounted
  <2> QED
    BY <2>1, <2>2, <2>3 DEF ConsoleAccounted
<1> QED
  BY <1>1, Invariant, PTL

\* An exit code other than the forced one tells the truth about the session,
\* the journal and the console, whatever signals arrive and wherever the
\* command is when they do (CommandOutcome, supervise_command).
THEOREM ExitTellsTruth == Spec => []ExitTruthful
<1>1. Inv => ExitTruthful
  <2> SUFFICES ASSUME Inv PROVE ExitTruthful
    OBVIOUS
  <2>1. dropped_events + Len(handled) + Len(queue) + (IF event = None THEN 0 ELSE 1) <= offered
    <3>1. /\ dropped_events \in Nat /\ Len(handled) \in Nat /\ Len(queue) \in Nat
          /\ InWorker \in Nat /\ InCaller \in Nat /\ offered \in Nat
      BY Counts DEF Inv, ConsoleInv, ConsoleTyped
    <3>2. Accounted <= offered
      BY DEF Inv, ConsoleInv, Conserved
    <3>3. dropped_events + Len(handled) + Len(queue) + InWorker <= offered
      BY <3>1, <3>2 DEF Accounted
    <3> QED
      BY <3>3 DEF InWorker
  <2>2. ConsoleOK
    BY <2>1 DEF Inv, ConsoleInv, ConsoleTyped, ConsoleOK
  <2>3. TypeOK
    BY <2>2 DEF Inv, ProcessInv, ProcessTyped, TypeOK
  <2> QED
    BY <2>3 DEF Inv, ProcessInv, Truth, ExitTruthful
<1> QED
  BY <1>1, Invariant, PTL
=============================================================================
