------------------------------ MODULE Journal ------------------------------
(***************************************************************************)
(* The durable CSV journal: Journal and Directory of                       *)
(* src/src/journal/output.rs over JournalWriter and the recovery of        *)
(* src/src/journal.rs.                                                     *)
(*                                                                         *)
(* rotating: a directory of segments, of which .netband-active names the   *)
(* one being written; a new segment is staged under another name, linked   *)
(* into place and marked.  Not rotating: one file, appended to for ever.   *)
(*                                                                         *)
(* `vol' is what a process reads now, `dur' what survives a power failure. *)
(* A row is <<batch, position>>; half a row at the end of a file is the    *)
(* flag torn; a half row that something was written behind is corrupt.     *)
(* The header counts as one unit of size, and so does each row.            *)
(***************************************************************************)
EXTENDS Integers, Sequences, FiniteSets, SequencesExt

CONSTANTS
    None,
    BatchSizes,       \* rows of the batches handed to append_batch, in order
    max_bytes,        \* rotate_max_bytes, with directory output only; None: by date
    MaxSegments,      \* bound: CSV names
    MaxDay,           \* bound: days of the wall clock
    MaxKills, MaxPowerLosses, MaxStepBacks   \* bounds

VARIABLES
    rotating,                    \* TRUE for directory output, chosen once
    vol, dur,                    \* CSV files by name
    volMarker, durMarker,        \* .netband-active
    volPending, durPending,      \* .netband-header.tmp: None, Unlinked or the
                                 \* name of the segment it is linked to
    pc, after,                   \* step of the process; where create returns to
    current, date, bytes, has_events, poisoned,   \* Journal
    buffered,                    \* batch the csv writer still holds, or None
    rewritten,                   \* history: file whose half row the csv writer
                                 \* wrote its buffer behind, or None
    begun,                       \* history: date this process opened at, then each
                                 \* date that began a segment for being later
    next,                        \* batch the caller publishes next
    day,                         \* date of the wall clock
    kills, powerLosses, stepBacks,
    acked                        \* history: batches append_batch returned Ok for

files == <<vol, dur, volMarker, durMarker, volPending, durPending>>
journal == <<current, date, bytes, has_events, poisoned, buffered, rewritten, begun>>
bounds == <<kills, powerLosses, stepBacks>>
vars == <<rotating, files, pc, after, journal, next, day, bounds, acked>>

Names == 1..MaxSegments
Unlinked == 0
Batches == DOMAIN BatchSizes
Rows(b) == [k \in 1..BatchSizes[b] |-> <<b, k>>]

ASSUME BatchAssumption ==
    /\ BatchSizes \in Seq(Nat \ {0})
    /\ max_bytes # None => max_bytes \in Nat \ {0}
ASSUME BoundAssumption ==
    /\ MaxSegments \in Nat \ {0} /\ MaxDay \in Nat
    /\ MaxKills \in Nat /\ MaxPowerLosses \in Nat /\ MaxStepBacks \in Nat

-----------------------------------------------------------------------------
(* File contents. *)

Headers == {"empty", "partial", "bare", "full"}   \* bare: without its line end
Contents == [header : Headers, rows : Seq(Batches \X Nat), torn : BOOLEAN, corrupt : BOOLEAN]

ASSUME NoneAssumption == None \notin Int /\ None \notin Contents

File(h, rows, torn) == [header |-> h, rows |-> rows, torn |-> torn, corrupt |-> FALSE]
HeaderOnly == File("full", <<>>, FALSE)
EmptyFile == File("empty", <<>>, FALSE)

\* What an interrupted write of batch b may leave: its first rows, fewer than
\* all, and perhaps half of another.
CutAfter(f, b, k, t) ==
    [f EXCEPT !.rows = @ \o SubSeq(Rows(b), 1, k), !.torn = t \/ (k = 0 /\ f.torn),
              !.corrupt = @ \/ (k > 0 /\ f.torn)]
Partial(f, b) == {CutAfter(f, b, k, t) : k \in 0..(BatchSizes[b] - 1), t \in BOOLEAN}

\* Rows written behind half a row make one malformed row with it.
Written(f, b) == [f EXCEPT !.rows = @ \o Rows(b), !.torn = FALSE,
                           !.corrupt = @ \/ f.torn]

\* What a power failure may leave of a file synced as d and written as v.
Left(d, v, h, k, t, c) ==
    [d EXCEPT !.header = h, !.rows = SubSeq(v.rows, 1, k), !.torn = t, !.corrupt = c]
Mixtures(d, v) ==
    {Left(d, v, h, k, t, c) :
        h \in IF d.header = v.header THEN {v.header} ELSE Headers,
        k \in Len(d.rows)..Len(v.rows), t \in BOOLEAN, c \in {d.corrupt, v.corrupt}}
Between(d, v) == IF d = v THEN {v} ELSE Mixtures(d, v)

\* validate_header and the malformed rows recover_trailing_record refuses.
readable(f) == f.header \in {"bare", "full"} /\ ~f.corrupt

\* The half row at the end is cut off, a missing line end is added.
recover_trailing_record(f) == [f EXCEPT !.header = "full", !.torn = FALSE]

-----------------------------------------------------------------------------
(* Journal::open_at. *)

\* The directory, or the file, opens.
CanOpen ==
    IF rotating
    THEN volMarker # None => vol[volMarker] # None /\ readable(vol[volMarker])
    ELSE vol[1] # None => vol[1].header = "empty" \/ readable(vol[1])

\* Mutant: the recovered segment is not synced.
RecoverUnsynced ==
    IF volMarker = None THEN UNCHANGED <<vol, dur>>
    ELSE /\ vol' = [vol EXCEPT ![volMarker] = recover_trailing_record(@)]
         /\ UNCHANGED dur
\* Directory::recover: only the marked segment is looked at.
recover ==
    IF volMarker = None THEN UNCHANGED <<vol, dur>>
    ELSE LET f == recover_trailing_record(vol[volMarker])
         IN  vol' = [vol EXCEPT ![volMarker] = f] /\ dur' = [dur EXCEPT ![volMarker] = f]

OpenDirectory ==
    /\ rotating /\ pc = "down" /\ CanOpen
    /\ recover
    /\ pc' = "stage" /\ after' = "idle" /\ date' = day /\ begun' = <<day>>
    /\ poisoned' = FALSE
    /\ UNCHANGED <<rotating, volMarker, durMarker, volPending, durPending, current, bytes,
                   has_events, buffered, rewritten, next, day, bounds, acked>>

\* open_explicit: a new or empty file gets its header, another is recovered.
OpenFile ==
    /\ ~rotating /\ pc = "down" /\ CanOpen
    /\ IF vol[1] = None \/ vol[1].header = "empty"
       THEN vol' = [vol EXCEPT ![1] = EmptyFile] /\ pc' = "header"
       ELSE vol' = [vol EXCEPT ![1] = recover_trailing_record(@)] /\ pc' = "parentSync"
    /\ after' = "idle" /\ current' = 1 /\ date' = day
    /\ poisoned' = FALSE /\ has_events' = FALSE /\ buffered' = None
    /\ UNCHANGED <<rotating, dur, volMarker, durMarker, volPending, durPending, bytes, rewritten,
                   begun, next, day, bounds, acked>>

WriteHeader ==
    /\ pc = "header" /\ pc' = "parentSync"
    /\ vol' = [vol EXCEPT ![1].header = "full"]
    /\ UNCHANGED <<rotating, dur, volMarker, durMarker, volPending, durPending, after, journal,
                   next, day, bounds, acked>>

\* flush of the file, then sync_parent.
ParentSync ==
    /\ pc = "parentSync" /\ pc' = after
    /\ dur' = [dur EXCEPT ![1] = vol[1]]
    /\ UNCHANGED <<rotating, vol, volMarker, durMarker, volPending, durPending, after, journal,
                   next, day, bounds, acked>>

-----------------------------------------------------------------------------
(* Directory::create. *)

\* sync_directory: every entry of the directory is durable.  The data of a
\* segment was synced while it was staged.
sync_directory ==
    /\ dur' = [n \in Names |-> IF dur[n] = None THEN vol[n] ELSE dur[n]]
    /\ durMarker' = volMarker /\ durPending' = volPending
    /\ UNCHANGED <<vol, volMarker, volPending>>

\* A stale staging file is removed; the header is written and synced in a
\* new one.
Stage ==
    /\ pc = "stage" /\ pc' = "publish"
    /\ volPending' = Unlinked
    /\ UNCHANGED <<rotating, vol, dur, volMarker, durMarker, durPending, after, journal, next, day,
                   bounds, acked>>

\* The first free name is linked to the staged file.
Publish ==
    /\ pc = "publish" /\ pc' = "unlink"
    /\ \E n \in Names :
        /\ vol[n] = None /\ vol' = [vol EXCEPT ![n] = HeaderOnly]
        /\ volPending' = n /\ current' = n
    /\ UNCHANGED <<rotating, dur, volMarker, durMarker, durPending, after, date, bytes, has_events,
                   poisoned, buffered, rewritten, begun, next, day, bounds, acked>>

\* Mutant: the staging name stays linked to the segment.
UnlinkSkipped ==
    /\ pc = "unlink" /\ pc' = "segmentSync"
    /\ UNCHANGED <<rotating, files, after, journal, next, day, bounds, acked>>
Unlink ==
    /\ pc = "unlink" /\ pc' = "segmentSync"
    /\ volPending' = None
    /\ UNCHANGED <<rotating, vol, dur, volMarker, durMarker, durPending, after, journal, next, day,
                   bounds, acked>>

\* Mutant: the directory is synced once, after the marker.
SegmentSyncSkipped ==
    /\ pc = "segmentSync" /\ pc' = "markerRename"
    /\ UNCHANGED <<rotating, files, after, journal, next, day, bounds, acked>>
SegmentDirectorySync ==
    /\ pc = "segmentSync" /\ pc' = "markerRename"
    /\ sync_directory
    /\ UNCHANGED <<rotating, after, journal, next, day, bounds, acked>>

\* The marker's text is written and synced under a temporary name before.
MarkerRename ==
    /\ pc = "markerRename" /\ pc' = "markerSync"
    /\ volMarker' = current
    /\ UNCHANGED <<rotating, vol, dur, durMarker, volPending, durPending, after, journal, next, day,
                   bounds, acked>>

MarkerDirectorySync ==
    /\ pc = "markerSync" /\ pc' = after
    /\ sync_directory
    /\ bytes' = 1 /\ has_events' = FALSE
    /\ UNCHANGED <<rotating, after, current, date, poisoned, buffered, rewritten, begun, next, day,
                   bounds, acked>>

-----------------------------------------------------------------------------
(* append_batch_at. *)

LaterDate == rotating /\ day > date
Oversized == /\ rotating /\ has_events /\ max_bytes # None
             /\ bytes + BatchSizes[next] > max_bytes

\* Mutant: the date follows a clock that stepped back.
LatestDate(d, today) == today
max(d, today) == IF d >= today THEN d ELSE today

\* A batch is taken: into the segment in use, or a new one.  The old segment
\* was synced with its last batch.
Append1 ==
    /\ pc = "idle" /\ ~poisoned /\ next \in Batches
    /\ IF LaterDate \/ Oversized
       THEN pc' = "stage" /\ after' = "write" /\ date' = max(date, day)
       ELSE pc' = "write" /\ UNCHANGED <<after, date>>
    /\ begun' = IF LaterDate THEN Append(begun, day) ELSE begun
    /\ UNCHANGED <<rotating, files, current, bytes, has_events, poisoned, buffered, rewritten, next,
                   day, bounds, acked>>

BatchWrite ==
    /\ pc = "write" /\ pc' = "sync"
    /\ vol' = [vol EXCEPT ![current] = Written(@, next)]
    /\ UNCHANGED <<rotating, dur, volMarker, durMarker, volPending, durPending, after, journal,
                   next, day, bounds, acked>>

\* Mutant: the size written is not counted.
BatchSyncUncounted ==
    /\ pc = "sync" /\ pc' = "idle"
    /\ dur' = [dur EXCEPT ![current] = vol[current]]
    /\ has_events' = TRUE /\ acked' = acked \cup {next} /\ next' = next + 1
    /\ UNCHANGED <<rotating, vol, volMarker, durMarker, volPending, durPending, after, current, date,
                   bytes, poisoned, buffered, rewritten, begun, day, bounds>>
\* Mutant: the batch is acknowledged without a sync.
BatchNotSynced ==
    /\ pc = "sync" /\ pc' = "idle"
    /\ bytes' = bytes + BatchSizes[next] /\ has_events' = TRUE
    /\ acked' = acked \cup {next} /\ next' = next + 1
    /\ UNCHANGED <<rotating, files, after, current, date, poisoned, buffered, rewritten, begun, day,
                   bounds>>
\* The batch is durable: append_batch returns Ok.
BatchSync ==
    /\ pc = "sync" /\ pc' = "idle"
    /\ dur' = [dur EXCEPT ![current] = vol[current]]
    /\ bytes' = bytes + BatchSizes[next] /\ has_events' = TRUE
    /\ acked' = acked \cup {next} /\ next' = next + 1
    /\ UNCHANGED <<rotating, vol, volMarker, durMarker, volPending, durPending, after, current, date,
                   poisoned, buffered, rewritten, begun, day, bounds>>

-----------------------------------------------------------------------------
(* Failures and the end of the process. *)

Opening == after = "idle" /\ pc \notin {"idle", "write", "sync"}

\* What a write that fails or is cut short may leave in the current file.
CutShort ==
    CASE pc = "write" -> Partial(vol[current], next)
      [] pc = "header" -> {File(h, <<>>, FALSE) : h \in Headers}
      [] OTHER -> {None}

\* A step fails: opening ends the command, appending poisons the journal.  In
\* a file without rotation the csv writer keeps the batch it could not write.
StepFails ==
    /\ pc \notin {"down", "idle"} /\ kills < MaxKills /\ kills' = kills + 1
    /\ \E f \in CutShort : vol' = IF f = None THEN vol ELSE [vol EXCEPT ![current] = f]
    /\ IF Opening THEN pc' = "down" /\ UNCHANGED <<poisoned, next>>
       ELSE pc' = "idle" /\ poisoned' = TRUE /\ next' = next + 1
    /\ buffered' = IF pc = "write" /\ ~rotating THEN next ELSE buffered
    /\ UNCHANGED <<rotating, dur, volMarker, durMarker, volPending, durPending, after, current, date,
                   bytes, has_events, rewritten, begun, day, powerLosses, stepBacks, acked>>

\* The csv writer, when it is dropped, writes the batch it still holds: all
\* of it, or again only a part.
DropWriter ==
    IF buffered = None THEN UNCHANGED <<vol, rewritten>>
    ELSE /\ \E f \in Partial(vol[current], buffered) \cup {Written(vol[current], buffered)} :
                vol' = [vol EXCEPT ![current] = f]
         /\ rewritten' = IF vol[current].torn THEN current ELSE rewritten

\* The command ends; flush syncs unless the journal is poisoned.
Close ==
    /\ pc = "idle" /\ pc' = "down"
    /\ DropWriter /\ buffered' = None
    /\ dur' = IF poisoned THEN dur ELSE [dur EXCEPT ![current] = vol[current]]
    /\ UNCHANGED <<rotating, volMarker, durMarker, volPending, durPending, after, current, date, bytes,
                   has_events, poisoned, begun, next, day, bounds, acked>>

\* The process is killed.
Kill ==
    /\ pc # "down" /\ kills < MaxKills /\ kills' = kills + 1
    /\ pc' = "down"
    /\ \E f \in CutShort : vol' = IF f = None THEN vol ELSE [vol EXCEPT ![current] = f]
    /\ next' = IF Opening \/ pc = "idle" THEN next ELSE next + 1
    /\ UNCHANGED <<rotating, dur, volMarker, durMarker, volPending, durPending, after, journal, day,
                   powerLosses, stepBacks, acked>>

\* What a power failure may leave of file n.
AfterPowerLoss(n) ==
    IF vol[n] = None THEN {dur[n]}
    ELSE IF dur[n] # None THEN Between(dur[n], vol[n])
    ELSE {None} \cup IF rotating THEN {vol[n]} ELSE Between(EmptyFile, vol[n])

PowerLoss ==
    /\ powerLosses < MaxPowerLosses /\ powerLosses' = powerLosses + 1
    /\ pc' = "down"
    /\ vol' \in {g \in [Names -> UNION {AfterPowerLoss(n) : n \in Names}] :
                    \A n \in Names : g[n] \in AfterPowerLoss(n)}
    /\ volMarker' \in {volMarker, durMarker} /\ volPending' \in {volPending, durPending}
    /\ dur' = vol' /\ durMarker' = volMarker' /\ durPending' = volPending'
    /\ next' = IF pc = "down" \/ Opening \/ pc = "idle" THEN next ELSE next + 1
    /\ UNCHANGED <<rotating, after, journal, day, kills, stepBacks, acked>>

\* The date of the wall clock, forwards or backwards.
DayChanges ==
    /\ \/ day < MaxDay /\ day' = day + 1 /\ UNCHANGED stepBacks
       \/ /\ day > 0 /\ day' = day - 1
          /\ stepBacks < MaxStepBacks /\ stepBacks' = stepBacks + 1
    /\ UNCHANGED <<rotating, files, pc, after, journal, next, kills, powerLosses, acked>>

-----------------------------------------------------------------------------
Init ==
    /\ rotating \in BOOLEAN
    /\ vol = [n \in Names |-> None] /\ dur = vol
    /\ volMarker = None /\ durMarker = None /\ volPending = None /\ durPending = None
    /\ pc = "down" /\ after = "idle"
    /\ current = None /\ date = 0 /\ bytes = 0 /\ has_events = FALSE /\ poisoned = FALSE
    /\ buffered = None /\ rewritten = None /\ begun = <<>>
    /\ next = 1 /\ day = 0 /\ kills = 0 /\ powerLosses = 0 /\ stepBacks = 0
    /\ acked = {}

Next ==
    \/ OpenDirectory \/ OpenFile \/ WriteHeader \/ ParentSync
    \/ Stage \/ Publish \/ Unlink \/ SegmentDirectorySync
    \/ MarkerRename \/ MarkerDirectorySync
    \/ Append1 \/ BatchWrite \/ BatchSync
    \/ StepFails \/ Close \/ Kill \/ PowerLoss \/ DayChanges

Spec == Init /\ [][Next]_vars

-----------------------------------------------------------------------------
(* Properties. *)

Files == {None} \cup Contents

\* Types of the files, the process and the history.
TypeOK ==
    /\ rotating \in BOOLEAN
    /\ vol \in [Names -> Files] /\ dur \in [Names -> Files]
    /\ volMarker \in Names \cup {None} /\ durMarker \in Names \cup {None}
    /\ volPending \in Names \cup {None, Unlinked} /\ durPending \in Names \cup {None, Unlinked}
    /\ pc \notin {"down"} /\ ~Opening => current \in Names /\ vol[current] # None
    /\ date \in 0..MaxDay /\ day \in 0..MaxDay
    /\ bytes \in Nat /\ buffered \in Batches \cup {None}
    /\ has_events \in BOOLEAN /\ poisoned \in BOOLEAN
    /\ next \in 1..(Len(BatchSizes) + 1) /\ acked \subseteq Batches

Mentions(n, b) == vol[n] # None /\ \E r \in Range(vol[n].rows) : r[1] = b
\* The rows of b in a file: all of them, in order, side by side, once.
Complete(n, b) ==
    \E k \in 0..Len(vol[n].rows) :
        /\ k + BatchSizes[b] <= Len(vol[n].rows)
        /\ \A i \in DOMAIN vol[n].rows :
             IF i \in (k + 1)..(k + BatchSizes[b]) THEN vol[n].rows[i] = <<b, i - k>>
             ELSE vol[n].rows[i][1] # b

\* An acknowledged batch is never lost, cut, split or mixed with another, whatever
\* kills, failed steps, power failures and rotations follow (append_batch
\* returns after the sync; docs/data-format.md, "Acknowledgement follows batch
\* sync", "Each batch stays together").
AckedKept ==
    \A b \in acked : \E n \in Names :
        /\ Mentions(n, b) /\ Complete(n, b) /\ (vol[n].corrupt => n = rewritten)
        /\ \A m \in Names : Mentions(m, b) => m = n

\* What a kill, a failed step or a power failure leaves opens again: the
\* marker never names a missing or malformed segment.  One file without
\* rotation does not open when its very header was cut short, or when the csv
\* writer wrote its buffer behind the half row of a failed write.
OpensAgain ==
    /\ pc = "down" /\ (~rotating /\ vol[1] # None => vol[1].header # "partial")
    /\ rewritten = None
    => CanOpen

\* Half a row only ever ends the marked segment, the one the next start
\* recovers (docs/data-format.md, "Historical CSVs are not scanned").
TornOnlyActive ==
    rotating => \A n \in Names : vol[n] # None /\ vol[n].torn => n = volMarker

\* The staging name is never a second name of a segment with events (the
\* comment in create, "must never truncate an acknowledged segment through a
\* hard link").
StagingHoldsNoEvents == volPending \in Names /\ vol[volPending] # None
                            => vol[volPending].rows = <<>>

\* What the next start relies on: it recovers the marked segment only and
\* truncates the staging file (TornOnlyActive, StagingHoldsNoEvents).  Type
\* invariant (TypeOK) included.
FilesSound == TypeOK /\ TornOnlyActive /\ StagingHoldsNoEvents

\* A segment with events that is no longer the marked one never changes,
\* not by a power failure either.
ClosedSegmentsKept ==
    [][\A n \in Names :
        rotating /\ vol[n] # None /\ vol[n].rows # <<>> /\ n # volMarker
            => vol'[n] = vol[n]]_vars

\* Rotation keeps segments small and few: a segment exceeds rotate_max_bytes
\* only with one batch that is larger, and a date begins one segment only in a
\* process, whatever the clock does in between (append: directory.date is the
\* latest date seen; docs/data-format.md, a clock adjustment does not "reset
\* the running writer's date boundary").
RotationBounded ==
    /\ rotating /\ max_bytes # None =>
         \A n \in Names : vol[n] # None /\ ~vol[n].torn /\ 1 + Len(vol[n].rows) > max_bytes
            => Cardinality({r[1] : r \in Range(vol[n].rows)}) = 1
    /\ IsInjective(begun)
=============================================================================
