------------------------ MODULE SchedulerPersistence ------------------------
(***************************************************************************)
(* How the scheduler's state is made durable: src/src/scheduler/           *)
(* persistence.rs, opened and driven by src/src/scheduler.rs.              *)
(*                                                                         *)
(* Four files: the snapshot (scheduler.json), its backup, the accounting   *)
(* log and the checkpoint (scheduler.initialized).  `vol' is what a        *)
(* process reads now, `dur' what is certain to survive a power failure; a  *)
(* write moves vol, an fsync of the log or of the directory moves dur.     *)
(* Killing the process keeps vol; a power failure keeps, for each file,    *)
(* either value, and may leave half a record at the end of the log.        *)
(*                                                                         *)
(* A store is abstracted to the accounting the recovery protects (the      *)
(* accounting day and the number of starts reserved so far) and to         *)
(* last_observed_utc, which is not accounting.  A checkpoint is a sequence *)
(* number and the head of a digest chain over the records up to it: it     *)
(* identifies, and is modelled as, that prefix of the log.                 *)
(***************************************************************************)
EXTENDS Integers, Sequences, SequencesExt

CONSTANTS
    None,                   \* an absent file
    MaxDay, MaxStarts, MaxClock,   \* bounds of the stores produced
    MaxKills,               \* bound: kills and write failures
    MaxPowerLosses,         \* bound: power failures
    MaxRestores             \* bound: backups restored by the operator

VARIABLES
    vol, dur,      \* the files: [primary, backup, marker, ledger]
    pc,            \* next step of the process
    mem,           \* SchedulerStore in memory
    committed,     \* Persistence::committed, the last store in the log
    checkpoint,    \* Persistence::checkpoint
    recovered,     \* result of Persistence::open
    kills, powerLosses, restores,
    acked,         \* history: accounting persisted with success
    wanted,        \* history: accounting given to persist since
    observed       \* history: last_observed_utc persisted with success

procVars == <<pc, mem, committed, checkpoint, recovered>>
bounds == <<kills, powerLosses, restores>>
history == <<acked, wanted, observed>>
vars == <<vol, dur, procVars, bounds, history>>

ASSUME BoundsAssumption ==
    /\ MaxDay \in Nat /\ MaxStarts \in Nat /\ MaxClock \in Nat
    /\ MaxKills \in Nat /\ MaxPowerLosses \in Nat /\ MaxRestores \in Nat

Store == [day : 0..MaxDay, starts : 0..MaxStarts, clock : 0..MaxClock]
Empty == [day |-> 0, starts |-> 0, clock |-> 0]    \* no provider yet
accounting(s) == <<s.day, s.starts>>
Accountings == (0..MaxDay) \X (0..MaxStarts)

\* What the four files hold.
Records == Seq(Store)
Snapshots == [store : Store, checkpoint : Records]
Logs == [records : Records, torn : BOOLEAN]

ASSUME NoneAssumption == None \notin Records \cup Snapshots \cup Logs

NoFiles == [primary |-> None, backup |-> None, marker |-> None, ledger |-> None]
Log(records, torn) == [records |-> records, torn |-> torn]

-----------------------------------------------------------------------------
(* Persistence::open: what it decides from the files it reads. *)

\* No admission can have occurred before the first checkpoint was installed.
fresh(f) == f.primary = None /\ f.marker = None /\ f.backup = None

read_log_ok(f) == f.ledger # None /\ ~f.ledger.torn

\* A checkpoint names a prefix of the log.
validate_checkpoint(c, f) == IsPrefix(c, f.ledger.records)

\* Initialization was cut short: at most one record, nothing used, no backup.
Initializing(f) ==
    /\ f.primary = None /\ ~fresh(f)
    /\ read_log_ok(f) /\ f.marker # None /\ validate_checkpoint(f.marker, f)
    /\ Len(f.ledger.records) <= 1
    /\ \A r \in Range(f.ledger.records) : r.starts = 0
    /\ f.backup = None

\* A snapshot is accepted when its checkpoint is in the log and records the
\* same accounting.
SnapshotValid(f) ==
    LET c == f.primary.checkpoint
    IN  /\ f.marker # None /\ read_log_ok(f)
        /\ validate_checkpoint(c, f) /\ c # <<>>
        /\ accounting(Last(c)) = accounting(f.primary.store)
        /\ validate_checkpoint(f.marker, f)

FreshValid(f) ==
    fresh(f) /\ (f.ledger # None => read_log_ok(f) /\ f.ledger.records = <<>>)

CanOpen(f) ==
    \/ FreshValid(f)
    \/ Initializing(f)
    \/ f.primary # None /\ SnapshotValid(f)

LastStore(records) == IF records = <<>> THEN Empty ELSE Last(records)

\* The snapshot is not at the end of the log.
Recovered(f) ==
    /\ ~fresh(f) /\ f.ledger.records # <<>>
    /\ f.primary # None => f.primary.checkpoint # f.ledger.records

max(a, b) == IF a >= b THEN a ELSE b

replay_accounting(s, r) ==
    [day |-> r.day, starts |-> r.starts, clock |-> max(s.clock, r.clock)]

\* Mutant: the snapshot is believed, whatever the log says.
OpenedSnapshot(f) ==
    IF fresh(f) THEN Empty
    ELSE IF f.primary = None THEN LastStore(f.ledger.records)
    ELSE f.primary.store
\* The store open returns.
OpenedStore(f) ==
    IF fresh(f) THEN Empty
    ELSE IF f.primary = None THEN LastStore(f.ledger.records)
    ELSE IF Recovered(f)
    THEN replay_accounting(f.primary.store, Last(f.ledger.records))
    ELSE f.primary.store

-----------------------------------------------------------------------------
(* Steps of open. *)

\* atomic_write of one file up to the rename; the directory sync follows.
Rename(field, value) == vol' = [vol EXCEPT ![field] = value] /\ UNCHANGED dur
DirectorySync == dur' = [vol EXCEPT !.ledger = IF dur.ledger = None THEN @ ELSE dur.ledger]
                 /\ UNCHANGED vol

Start ==
    /\ pc = "down" /\ CanOpen(vol)
    /\ pc' = IF vol.ledger = None THEN "header" ELSE "loaded"
    /\ UNCHANGED <<vol, dur, mem, committed, checkpoint, recovered, bounds, history>>

WriteHeader ==
    /\ pc = "header" /\ pc' = "headerSync"
    /\ Rename("ledger", Log(<<>>, FALSE))
    /\ UNCHANGED <<mem, committed, checkpoint, recovered, bounds, history>>

SyncHeader ==
    /\ pc = "headerSync" /\ pc' = "loaded"
    /\ DirectorySync
    /\ UNCHANGED <<mem, committed, checkpoint, recovered, bounds, history>>

\* All input is validated; the process takes the recovered values, and the
\* checkpoint file is rewritten when it is behind the log.
Load ==
    /\ pc = "loaded"
    /\ mem' = OpenedStore(vol) /\ committed' = LastStore(vol.ledger.records)
    /\ checkpoint' = vol.ledger.records /\ recovered' = Recovered(vol)
    /\ pc' = IF vol.marker = vol.ledger.records THEN "opened" ELSE "openMarker"
    /\ UNCHANGED <<vol, dur, bounds, history>>

OpenMarker ==
    /\ pc = "openMarker" /\ pc' = "openSync"
    /\ Rename("marker", checkpoint)
    /\ UNCHANGED <<mem, committed, checkpoint, recovered, bounds, history>>

OpenSync ==
    /\ pc = "openSync" /\ pc' = "opened"
    /\ DirectorySync
    /\ UNCHANGED <<mem, committed, checkpoint, recovered, bounds, history>>

-----------------------------------------------------------------------------
(* Persistence::persist of the store s. *)

\* The first step: append when the accounting changed.
BeginPersist(s) ==
    /\ mem' = s
    /\ pc' = IF accounting(s) # accounting(committed) THEN "append" ELSE "backup"
    /\ wanted' = wanted \cup {accounting(s)}
    /\ UNCHANGED <<vol, dur, committed, checkpoint, recovered, bounds, acked, observed>>

\* open_seeded: reconcile with the clock and the day, persist when anything
\* differs from the snapshot.
Reconcile ==
    /\ pc = "opened"
    /\ \E d \in {mem.day, mem.day + 1} \ {0}, c \in {mem.clock, mem.clock + 1} :
        LET s == [mem EXCEPT !.day = d, !.clock = c]
        IN  /\ s \in Store
            /\ IF s # mem \/ recovered \/ vol.primary = None THEN BeginPersist(s)
               ELSE pc' = "ready" /\ UNCHANGED <<vol, dur, mem, committed, checkpoint,
                                                recovered, bounds, history>>

\* A handler of the scheduler persists: a reservation, a new day, or a change
\* that is not accounting.
Handle ==
    /\ pc = "ready"
    /\ \E s \in {[mem EXCEPT !.starts = @ + 1], [mem EXCEPT !.day = @ + 1],
                 [mem EXCEPT !.clock = @ + 1]} :
        s \in Store /\ BeginPersist(s)

Append1 ==
    /\ pc = "append" /\ pc' = "ledgerSync"
    /\ Rename("ledger", Log(Append(vol.ledger.records, mem), FALSE))
    /\ UNCHANGED <<mem, committed, checkpoint, recovered, bounds, history>>

\* Mutant: the record is not synced before the checkpoint names it.
LedgerNotSynced ==
    /\ pc = "ledgerSync" /\ pc' = "marker" /\ UNCHANGED <<vol, dur>>
    /\ UNCHANGED <<mem, committed, checkpoint, recovered, bounds, history>>
LedgerSync ==
    /\ pc = "ledgerSync" /\ pc' = "marker"
    /\ dur' = [dur EXCEPT !.ledger = vol.ledger] /\ UNCHANGED vol
    /\ UNCHANGED <<mem, committed, checkpoint, recovered, bounds, history>>

WriteMarker ==
    /\ pc = "marker" /\ pc' = "markerSync"
    /\ Rename("marker", Append(checkpoint, mem))
    /\ UNCHANGED <<mem, committed, checkpoint, recovered, bounds, history>>

MarkerSync ==
    /\ pc = "markerSync" /\ pc' = "backup"
    /\ DirectorySync
    /\ checkpoint' = Append(checkpoint, mem) /\ committed' = mem
    /\ UNCHANGED <<mem, recovered, bounds, history>>

\* The previous snapshot becomes the backup.
WriteBackup ==
    /\ pc = "backup"
    /\ IF vol.primary = None THEN pc' = "snapshot" /\ UNCHANGED <<vol, dur>>
       ELSE pc' = "backupSync" /\ Rename("backup", vol.primary)
    /\ UNCHANGED <<mem, committed, checkpoint, recovered, bounds, history>>

BackupSync ==
    /\ pc = "backupSync" /\ pc' = "snapshot"
    /\ DirectorySync
    /\ UNCHANGED <<mem, committed, checkpoint, recovered, bounds, history>>

WriteSnapshot ==
    /\ pc = "snapshot" /\ pc' = "snapshotSync"
    /\ Rename("primary", [store |-> mem, checkpoint |-> checkpoint])
    /\ UNCHANGED <<mem, committed, checkpoint, recovered, bounds, history>>

\* Mutant: the directory is not synced after the snapshot is renamed.
SnapshotNotSynced ==
    /\ pc = "snapshotSync" /\ pc' = "ready" /\ UNCHANGED <<vol, dur>>
    /\ acked' = accounting(mem) /\ wanted' = {} /\ observed' = max(observed, mem.clock)
    /\ UNCHANGED <<mem, committed, checkpoint, recovered, bounds>>
\* persist returns Ok: the caller may act on the reservation.
SnapshotSync ==
    /\ pc = "snapshotSync" /\ pc' = "ready"
    /\ DirectorySync
    /\ acked' = accounting(mem) /\ wanted' = {} /\ observed' = max(observed, mem.clock)
    /\ UNCHANGED <<mem, committed, checkpoint, recovered, bounds>>

-----------------------------------------------------------------------------
(* Failures. *)

Gone == pc' = "down" /\ mem' = Empty /\ committed' = Empty
        /\ checkpoint' = <<>> /\ recovered' = FALSE

\* The process is killed, or an I/O error poisons the store and the command
\* ends: either way the files stay as they are.
Kill ==
    /\ pc # "down" /\ kills < MaxKills /\ kills' = kills + 1
    /\ Gone
    /\ UNCHANGED <<vol, dur, powerLosses, restores, history>>

\* The append itself fails half way.
TornAppend ==
    /\ pc = "append" /\ kills < MaxKills /\ kills' = kills + 1
    /\ Rename("ledger", Log(vol.ledger.records, TRUE))
    /\ Gone
    /\ UNCHANGED <<powerLosses, restores, history>>

\* What a power failure may leave of the log: either value, or a record cut
\* short after the part that was synced.
LogsAfterPowerLoss ==
    {dur.ledger, vol.ledger} \cup
    (IF dur.ledger # None /\ dur.ledger # vol.ledger
     THEN {Log(dur.ledger.records, TRUE)} ELSE {})

PowerLoss ==
    /\ powerLosses < MaxPowerLosses /\ powerLosses' = powerLosses + 1
    /\ \E p \in {dur.primary, vol.primary}, b \in {dur.backup, vol.backup},
          m \in {dur.marker, vol.marker}, l \in LogsAfterPowerLoss :
        vol' = [primary |-> p, backup |-> b, marker |-> m, ledger |-> l]
    /\ dur' = vol'
    /\ Gone
    /\ UNCHANGED <<kills, restores, history>>

\* The operator copies scheduler.bak over scheduler.json (docs/service.md).
RestoreBackup ==
    /\ pc = "down" /\ vol.backup # None
    /\ restores < MaxRestores /\ restores' = restores + 1
    /\ vol' = [vol EXCEPT !.primary = vol.backup]
    /\ dur' = [dur EXCEPT !.primary = vol.backup]
    /\ UNCHANGED <<procVars, kills, powerLosses, history>>

-----------------------------------------------------------------------------
Init ==
    /\ vol = NoFiles /\ dur = NoFiles
    /\ pc = "down" /\ mem = Empty /\ committed = Empty
    /\ checkpoint = <<>> /\ recovered = FALSE
    /\ kills = 0 /\ powerLosses = 0 /\ restores = 0
    /\ acked = accounting(Empty) /\ wanted = {} /\ observed = 0

Next ==
    \/ Start \/ WriteHeader \/ SyncHeader \/ Load \/ OpenMarker \/ OpenSync
    \/ Reconcile \/ Handle
    \/ Append1 \/ LedgerSync \/ WriteMarker \/ MarkerSync
    \/ WriteBackup \/ BackupSync \/ WriteSnapshot \/ SnapshotSync
    \/ Kill \/ TornAppend \/ PowerLoss \/ RestoreBackup

Spec == Init /\ [][Next]_vars

-----------------------------------------------------------------------------
(* Properties. *)

Files == [primary : Snapshots \cup {None}, backup : Snapshots \cup {None},
          marker : Records \cup {None}, ledger : Logs \cup {None}]

\* Types of the files and the process.
TypeOK ==
    /\ vol \in Files /\ dur \in Files
    /\ mem \in Store /\ committed \in Store /\ checkpoint \in Records
    /\ recovered \in BOOLEAN
    /\ acked \in Accountings /\ wanted \subseteq Accountings /\ observed \in 0..MaxClock

Running == pc \in {"opened", "ready", "append", "ledgerSync", "marker", "markerSync",
                   "backup", "backupSync", "snapshot", "snapshotSync"}

Durable == INSTANCE DurableAccounting WITH
    Values <- Accountings, Zero <- accounting(Empty),
    up <- Running,
    value <- IF Running THEN accounting(mem) ELSE accounting(Empty)

\* The four files are one durable value: whatever kill, power failure, failed
\* write or restored backup comes between, a process that opens them counts
\* every reservation that was granted, and none that was never asked for or
\* counted before (persist, open, replay_accounting).
ImplementsDurableAccounting == Durable!Spec

\* A process that opens the state knows how far the clock had come, unless
\* the operator restored an older snapshot (replay_accounting takes the max).
ObservedClockKept == Running /\ restores = 0 => mem.clock >= observed

Whole == vol.ledger # None => ~vol.ledger.torn

\* An initialization interrupted on two different days: two records, neither
\* with a start, and no snapshot yet.
InitializedOnTwoDays ==
    /\ vol.primary = None /\ vol.ledger # None /\ Len(vol.ledger.records) > 1
    /\ \A r \in Range(vol.ledger.records) : r.starts = 0

\* Wherever kills and failed writes interrupt open or persist, the files left
\* behind open again, unless a record was cut short.  The one exception is an
\* initialization interrupted on two days, which is refused though no start
\* was reserved (docs/service.md, "Interrupted initialization resumes
\* automatically ...").
KilledOpens ==
    pc = "down" /\ powerLosses = 0 /\ Whole => CanOpen(vol) \/ InitializedOnTwoDays

\* A power failure alone, without an earlier kill, leaves files that open,
\* unless it cut a record short.
PowerLossOpens ==
    pc = "down" /\ kills = 0 /\ Whole => CanOpen(vol) \/ InitializedOnTwoDays

\* The files open again after any of these interruptions: no crash of open or
\* persist leaves the scheduler, and with it the service, refusing to start.
\* Type invariant (TypeOK) included.
FilesOpenAgain == TypeOK /\ KilledOpens /\ PowerLossOpens
=============================================================================
