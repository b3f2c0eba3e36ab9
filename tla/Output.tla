------------------------------- MODULE Output -------------------------------
(***************************************************************************)
(* OutputCoordinator of src/src/journal.rs: it numbers the events of a     *)
(* session, keeps the tree of active runs, writes each batch to the        *)
(* journal and only then offers it to the console.                         *)
(*                                                                         *)
(* append_batch of the journal succeeds with the whole batch, or fails and *)
(* may leave some of its rows behind, in a single file some of them twice  *)
(* (module Journal, DropWriter).  Run identifiers are fresh.  finish_session writes several batches: `closing' is the     *)
(* session it is busy with, and the process may die between two of them.   *)
(***************************************************************************)
EXTENDS Integers, Sequences, FiniteSets, SequencesExt

CONSTANTS
    None,
    RunIds,
    MaxSequence,       \* u64::MAX of the sequence counter
    MaxBatch,          \* bound: results in one batch
    MaxRows            \* bound: rows of the journal

VARIABLES
    rotating,                    \* TRUE for directory output, chosen once
    sequence, failed, runs,      \* OutputCoordinator
    closing,                     \* session being closed by finish_session
    journal,                     \* rows in the journal file
    console                      \* events offered to the console

vars == <<rotating, sequence, failed, runs, closing, journal, console>>

ASSUME OutputAssumption ==
    /\ MaxSequence \in Nat /\ MaxBatch \in Nat \ {0} /\ MaxRows \in Nat
    /\ None \notin RunIds

Active == DOMAIN runs
Used == {journal[i].run : i \in DOMAIN journal} \cup Active
\* Room in the bound for n rows and the finishes of the active runs.
Room(n) == Len(journal) + n + Cardinality(Active) <= MaxRows
Leaf(r) == \A s \in Active : runs[s].parent # r

-----------------------------------------------------------------------------
(* publish_batch, with the counter at q. *)

Event(r, what, parent, root) == [run |-> r, what |-> what, parent |-> parent, root |-> root]
Row(n, r, what, parent, root) ==
    [seq |-> n, run |-> r, what |-> what, parent |-> parent, root |-> root]

\* Sequence numbers, and the relations of an active run, are filled in.
Numbered(q, events) ==
    [i \in DOMAIN events |->
        LET e == events[i]
        IN  Row(q + i, e.run, e.what,
                IF e.run \in Active THEN runs[e.run].parent ELSE e.parent,
                IF e.run \in Active THEN runs[e.run].root ELSE e.root)]

\* The whole batch is written, then offered to the console: Ok.
Published(q, events) ==
    /\ ~failed /\ q + Len(events) <= MaxSequence
    /\ sequence' = q + Len(events)
    /\ journal' = journal \o Numbered(q, events)
    /\ console' = console \o Numbered(q, events)
    /\ UNCHANGED failed

\* What an append_batch that fails leaves of its rows: the first k of them.  In
\* a single file the csv writer keeps what it could not write since its buffer
\* was last empty, and writes it again, or a part of it, when it is dropped.
\* Behind half of row k + 1 the first of these rows is spoilt.  Nothing comes
\* in between, for publication has failed for good.
LeavesBehind(rows) ==
    \E k \in 0..Len(rows) :
        \/ journal' = journal \o SubSeq(rows, 1, k)
        \/ /\ ~rotating /\ k < Len(rows)
           /\ \E j \in 1..(k + 2), m \in 0..Len(rows) :
                journal' = journal \o SubSeq(rows, 1, k) \o SubSeq(rows, j, m)

\* Mutant: a failed write is not remembered.
AppendFailsOnce(q, events) ==
    /\ ~failed /\ q + Len(events) <= MaxSequence
    /\ sequence' = q + Len(events)
    /\ LeavesBehind(Numbered(q, events))
    /\ UNCHANGED <<failed, console>>
\* The journal fails; some of the rows may have reached the file.
AppendFails(q, events) ==
    /\ ~failed /\ q + Len(events) <= MaxSequence
    /\ sequence' = q + Len(events) /\ failed' = TRUE
    /\ LeavesBehind(Numbered(q, events))
    /\ UNCHANGED console

\* The counter is exhausted, at some event of the batch: nothing is written.
Exhausted(q, events) ==
    /\ ~failed /\ q + Len(events) > MaxSequence
    /\ sequence' = MaxSequence
    /\ UNCHANGED <<failed, journal, console>>

FailedBefore(q) == failed /\ sequence' = q /\ UNCHANGED <<failed, journal, console>>

PublishFails(q, events) ==
    AppendFails(q, events) \/ Exhausted(q, events) \/ FailedBefore(q)

\* Results and scheduler decisions of an active run.
publish_batch(r, n) ==
    LET events == [i \in 1..n |-> Event(r, "result", None, r)]
    IN  /\ closing = None /\ r \in Active /\ Room(n)
        /\ Published(sequence, events) \/ PublishFails(sequence, events)
        /\ UNCHANGED <<rotating, runs, closing>>

-----------------------------------------------------------------------------
(* The run tree. *)

With(r, parent, root) ==
    [s \in Active \cup {r} |-> IF s = r THEN [parent |-> parent, root |-> root] ELSE runs[s]]
Without(r) == [s \in Active \ {r} |-> runs[s]]

\* Mutant: the run is active although its start could not be written.
BeginRunAnyway(q, r, parent, root) ==
    LET events == <<Event(r, "started", parent, root)>>
    IN  /\ Published(q, events) \/ PublishFails(q, events)
        /\ runs' = With(r, parent, root)
\* The start is durable before the run is active.
begin_run(q, r, parent, root) ==
    LET events == <<Event(r, "started", parent, root)>>
    IN  \/ Published(q, events) /\ runs' = With(r, parent, root)
        \/ PublishFails(q, events) /\ UNCHANGED runs

start_session(r) ==
    /\ closing = None /\ Active = {} /\ r \notin Used /\ Room(2)
    /\ begin_run(0, r, None, r)
    /\ UNCHANGED <<rotating, closing>>

start_run(r, parent) ==
    /\ closing = None /\ parent \in Active /\ r \notin Used /\ Room(2)
    /\ begin_run(sequence, r, parent, runs[parent].root)
    /\ UNCHANGED <<rotating, closing>>

\* Mutant: a run may end before its children.
FinishAnyOrder(r) ==
    LET events == <<Event(r, "finished", None, r)>>
    IN  /\ r \in Active
        /\ \/ Published(sequence, events) /\ runs' = Without(r)
           \/ PublishFails(sequence, events) /\ UNCHANGED runs
\* The finish of a run without active children.
Finish(r) ==
    LET events == <<Event(r, "finished", None, r)>>
    IN  /\ r \in Active /\ Leaf(r)
        /\ \/ Published(sequence, events) /\ runs' = Without(r)
           \/ PublishFails(sequence, events) /\ UNCHANGED runs

finish_run(r) == closing = None /\ Finish(r) /\ UNCHANGED <<rotating, closing>>

\* finish_session with an error: it ends every run of the tree on the way.
finish_session(r) ==
    /\ closing = None /\ r \in Active /\ runs[r].parent = None
    /\ closing' = r
    /\ UNCHANGED <<rotating, sequence, failed, runs, journal, console>>

\* Mutant: one child is ended, the session is not.
CloseOnce ==
    /\ closing # None
    /\ \E r \in Active : runs[r].root = closing /\ Finish(r) /\ closing' = None
    /\ UNCHANGED rotating
\* One round of its loop: a child that has no children, at last the session.
\* An error of publish_batch ends it.
CloseNext ==
    /\ closing # None
    /\ \E r \in Active :
        /\ runs[r].root = closing /\ Finish(r)
        /\ closing' = IF r \in DOMAIN runs' \/ r = closing THEN None ELSE closing
    /\ UNCHANGED rotating

-----------------------------------------------------------------------------
Init ==
    /\ rotating \in BOOLEAN
    /\ sequence = 0 /\ failed = FALSE /\ runs = [r \in {} |-> None] /\ closing = None
    /\ journal = <<>> /\ console = <<>>

Next ==
    \/ \E r \in RunIds : start_session(r) \/ finish_run(r) \/ finish_session(r)
    \/ \E r, parent \in RunIds : start_run(r, parent)
    \/ \E r \in RunIds, n \in 1..MaxBatch : publish_batch(r, n)
    \/ CloseNext

\* finish_session is a loop without waiting.
Spec == Init /\ [][Next]_vars
FairSpec == Spec /\ WF_vars(CloseNext)

-----------------------------------------------------------------------------
(* Properties. *)

Rows == [seq : 1..MaxSequence, run : RunIds, what : {"started", "result", "finished"},
         parent : RunIds \cup {None}, root : RunIds]

\* Types of the coordinator and its two outputs; the parent of an active run is
\* active.
TypeOK ==
    /\ rotating \in BOOLEAN /\ sequence \in 0..MaxSequence /\ failed \in BOOLEAN
    /\ Active \subseteq RunIds
    /\ \A r \in Active : runs[r].parent \in Active \cup {None} /\ runs[r].root \in Active
    /\ closing \in RunIds \cup {None}
    /\ journal \in Seq(Rows) /\ console \in Seq(Rows)

At(r, what) == {i \in DOMAIN journal : journal[i].run = r /\ journal[i].what = what}

\* The rows of a session are numbered 1, 2, 3 ... in the order of the journal
\* (docs/data-format.md, event_sequence: "One-based journal emission order"),
\* although numbers are given away before the write.  The one exception is the
\* batch that failed in a single file: the csv writer may have written its rows
\* twice, but never with the number of a row that was acknowledged.
NumberedWithoutGap ==
    \A i \in DOMAIN journal : LET e == journal[i] IN
        IF rotating \/ i <= Len(console)
        THEN e.seq = Cardinality({j \in 1..i : journal[j].root = e.root})
        ELSE e.seq > Cardinality({j \in 1..Len(console) : console[j].root = e.root})

\* The start of a run precedes all its rows and follows its parent's; its
\* finish follows all its rows and precedes its parent's; all its rows carry
\* the same parent and root (docs/data-format.md,
\* "A child start is durably recorded before its measurement work begins ...
\* Results precede their run's finish record").
Nested ==
    \A i \in DOMAIN journal : LET e == journal[i] IN
        /\ \E s \in At(e.run, "started") : s <= i /\ At(e.run, "started") = {s}
        /\ \A f \in At(e.run, "finished") : i <= f
        /\ e.parent # None =>
            /\ \E s \in At(e.parent, "started") : s < i
            /\ \A f \in At(e.parent, "finished") : i < f
        /\ \A j \in DOMAIN journal : journal[j].run = e.run =>
                journal[j].parent = e.parent /\ journal[j].root = e.root

\* The console is offered an event only once it is in the journal, in the same
\* order; until a write fails it has them all, and the active runs are those
\* the journal shows as begun and not ended.  Type invariant (TypeOK) included.
AgreesWithJournal ==
    /\ TypeOK
    /\ IsPrefix(console, journal)
    /\ ~failed => /\ console = journal
                  /\ Active = {r \in RunIds : At(r, "started") # {} /\ At(r, "finished") = {}}

\* A session that ends with an error leaves no run of its tree open, unless
\* the journal fails or the counter is exhausted.
ErrorEndsTree ==
    \A r \in RunIds : closing = r ~> (\/ At(r, "finished") # {} \/ failed
                                      \/ sequence = MaxSequence)
=============================================================================
