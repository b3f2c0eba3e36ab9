-------------------- MODULE SchedulerPersistence_proofs --------------------
(***************************************************************************)
(* Proofs about SchedulerPersistence, for every number of kills, power     *)
(* failures and restored backups and for stores of any size: the four      *)
(* files implement one durable value, the observed clock is kept, and the  *)
(* files open again.                                                       *)
(*                                                                         *)
(* The key is Binds: whatever checkpoint and whatever log an interruption  *)
(* leaves side by side, a log that contains the checkpoint ends with an    *)
(* accounting that was acknowledged last or asked for since.               *)
(***************************************************************************)
EXTENDS SchedulerPersistence, SequenceTheorems, TLAPS

-----------------------------------------------------------------------------
(* Prefixes. *)

LEMMA PrefixPointwise ==
    ASSUME NEW S, NEW s \in Seq(S), NEW t \in Seq(S)
    PROVE  IsPrefix(s, t) <=>
             Len(s) <= Len(t) /\ \A i \in 1..Len(s) : s[i] = t[i]
<1>1. Len(s) \in Nat /\ Len(t) \in Nat
  BY LenProperties
<1>2. SubSeq(s, 1, Len(s)) = s
  BY SubSeqFull
<1>3. ASSUME Len(s) <= Len(t)
      PROVE  /\ SubSeq(t, 1, Len(s)) \in Seq(S) /\ Len(SubSeq(t, 1, Len(s))) = Len(s)
             /\ \A i \in 1..Len(s) : SubSeq(t, 1, Len(s))[i] = t[i]
  <2>1. \A i \in 1..Len(s) : t[i] \in S
    BY <1>1, <1>3, ElementOfSeq
  <2>2. /\ SubSeq(t, 1, Len(s)) \in Seq(S)
        /\ Len(SubSeq(t, 1, Len(s))) = IF 1 <= Len(s) THEN Len(s) - 1 + 1 ELSE 0
        /\ \A i \in 1..(Len(s) - 1 + 1) : SubSeq(t, 1, Len(s))[i] = t[1 + i - 1]
    BY <1>1, <2>1, SubSeqProperties
  <2> QED
    BY <1>1, <2>2
<1>4. CASE Len(s) <= Len(t)
  <2>1. ASSUME \A i \in 1..Len(s) : s[i] = t[i] PROVE SubSeq(t, 1, Len(s)) = s
    BY <1>3, <1>4, <2>1, SeqEqual
  <2> QED
    BY <1>2, <1>3, <1>4, <2>1 DEF IsPrefix
<1> QED
  BY <1>4 DEF IsPrefix

LEMMA PrefixReflexive ==
    ASSUME NEW S, NEW s \in Seq(S)
    PROVE  IsPrefix(s, s)
BY PrefixPointwise, LenProperties

LEMMA PrefixTransitive ==
    ASSUME NEW S, NEW s \in Seq(S), NEW t \in Seq(S), NEW u \in Seq(S),
           IsPrefix(s, t), IsPrefix(t, u)
    PROVE  IsPrefix(s, u)
BY PrefixPointwise, LenProperties

LEMMA PrefixAntisymmetric ==
    ASSUME NEW S, NEW s \in Seq(S), NEW t \in Seq(S), IsPrefix(s, t), IsPrefix(t, s)
    PROVE  s = t
BY PrefixPointwise, LenProperties, SeqEqual

LEMMA PrefixOfEmpty ==
    ASSUME NEW S, NEW s \in Seq(S)
    PROVE  IsPrefix(<<>>, s) /\ (IsPrefix(s, <<>>) => s = <<>>)
<1>1. <<>> \in Seq(S) /\ Len(<<>>) = 0 /\ Len(s) \in Nat
  BY EmptySeq, LenProperties
<1>2. IsPrefix(<<>>, s)
  <2>1. SubSeq(<<>>, 1, 0) = <<>> /\ SubSeq(s, 1, 0) = <<>>
    BY SubSeqEmpty
  <2> QED
    BY <1>1, <2>1 DEF IsPrefix
<1>3. ASSUME IsPrefix(s, <<>>) PROVE s = <<>>
  <2>1. Len(s) <= Len(<<>>)
    BY <1>3 DEF IsPrefix
  <2>2. s # <<>> => Len(s) \in Nat \ {0}
    BY EmptySeq
  <2> QED
    BY <1>1, <2>1, <2>2
<1> QED
  BY <1>2, <1>3

LEMMA PrefixOfAppend ==
    ASSUME NEW S, NEW s \in Seq(S), NEW t \in Seq(S), NEW e \in S, IsPrefix(s, t)
    PROVE  IsPrefix(s, Append(t, e))
<1>1. /\ Append(t, e) \in Seq(S) /\ Len(Append(t, e)) = Len(t) + 1
      /\ \A i \in 1..Len(t) : Append(t, e)[i] = t[i]
      /\ Len(s) \in Nat /\ Len(t) \in Nat
  BY AppendProperties, LenProperties
<1>2. Len(s) <= Len(t) /\ \A i \in 1..Len(s) : s[i] = t[i]
  BY PrefixPointwise
<1>3. Len(s) <= Len(Append(t, e)) /\ \A i \in 1..Len(s) : s[i] = Append(t, e)[i]
  BY <1>1, <1>2
<1> QED
  BY <1>1, <1>3, PrefixPointwise

-----------------------------------------------------------------------------
(* What open makes of the files. *)

\* Accounting at the end of a log.
Acc(records) == accounting(LastStore(records))

LEMMA LastOfSeq ==
    ASSUME NEW s \in Records, s # <<>>
    PROVE  Last(s) \in Store /\ Last(s) \in Range(s)
<1>1. Len(s) \in Nat \ {0} /\ DOMAIN s = 1..Len(s)
  BY EmptySeq, LenProperties DEF Records
<1>2. s[Len(s)] \in Store
  BY <1>1, ElementOfSeq DEF Records
<1> QED
  BY <1>1, <1>2 DEF Last, Range

LEMMA StoreEmpty == Empty \in Store /\ accounting(Empty) = <<0, 0>> /\ Empty.clock = 0
BY BoundsAssumption DEF Empty, Store, accounting

LEMMA LastStoreTyped ==
    ASSUME NEW s \in Records
    PROVE  LastStore(s) \in Store
BY LastOfSeq, StoreEmpty DEF LastStore

LEMMA AppendAcc ==
    ASSUME NEW s \in Records, NEW e \in Store
    PROVE  /\ Append(s, e) \in Records /\ Append(s, e) # <<>>
           /\ LastStore(Append(s, e)) = e
           /\ Range(Append(s, e)) = Range(s) \cup {e}
<1>1. /\ Append(s, e) \in Records /\ Append(s, e) # <<>>
      /\ Len(Append(s, e)) = Len(s) + 1 /\ Append(s, e)[Len(s) + 1] = e
      /\ \A i \in 1..Len(s) : Append(s, e)[i] = s[i]
      /\ Len(s) \in Nat /\ DOMAIN s = 1..Len(s)
      /\ DOMAIN Append(s, e) = 1..(Len(s) + 1)
  BY AppendProperties, LenProperties DEF Records
<1>2. Range(Append(s, e)) = Range(s) \cup {e}
  BY <1>1 DEF Range
<1> QED
  BY <1>1, <1>2 DEF LastStore, Last

LEMMA FileTyped ==
    ASSUME NEW f \in Files
    PROVE  /\ f.ledger # None => f.ledger \in Logs /\ f.ledger.records \in Records
                                 /\ f.ledger.torn \in BOOLEAN
           /\ f.marker # None => f.marker \in Records
           /\ f.primary # None => f.primary \in Snapshots /\ f.primary.store \in Store
                                  /\ f.primary.checkpoint \in Records
           /\ f.backup # None => f.backup \in Snapshots
BY DEF Files, Logs, Snapshots

LEMMA OpenWithoutLedger ==
    ASSUME NEW f \in Files, CanOpen(f), f.ledger = None
    PROVE  f.primary = None /\ f.marker = None /\ f.backup = None
BY DEF CanOpen, FreshValid, Initializing, SnapshotValid, read_log_ok, fresh

\* What open requires of a log, and of the checkpoint beside it.
LEMMA OpenLedger ==
    ASSUME NEW f \in Files, CanOpen(f), f.ledger # None
    PROVE  /\ ~f.ledger.torn
           /\ fresh(f) => f.ledger.records = <<>>
           /\ ~fresh(f) => f.marker # None /\ IsPrefix(f.marker, f.ledger.records)
           /\ ~fresh(f) /\ f.primary # None =>
                /\ f.primary.checkpoint # <<>>
                /\ IsPrefix(f.primary.checkpoint, f.ledger.records)
                /\ accounting(Last(f.primary.checkpoint)) = accounting(f.primary.store)
BY DEF CanOpen, FreshValid, Initializing, SnapshotValid, read_log_ok, fresh,
       validate_checkpoint

\* The store that open returns counts what the log counts.
LEMMA OpenedAccounting ==
    ASSUME NEW f \in Files, CanOpen(f), f.ledger # None
    PROVE  /\ OpenedStore(f) \in Store
           /\ accounting(OpenedStore(f)) = Acc(f.ledger.records)
           /\ f.primary # None => OpenedStore(f).clock >= f.primary.store.clock
           /\ f.primary = None =>
                OpenedStore(f) = Empty \/ OpenedStore(f) = LastStore(f.ledger.records)
<1> DEFINE records == f.ledger.records
           s == f.primary.store
<1>1. /\ records \in Records
      /\ f.primary # None => s \in Store /\ f.primary.checkpoint \in Records
  BY FileTyped
<1>2. CASE fresh(f)
  <2>1. records = <<>> /\ OpenedStore(f) = Empty /\ f.primary = None
    BY <1>2, OpenLedger DEF OpenedStore, fresh
  <2>2. LastStore(records) = Empty
    BY <2>1 DEF LastStore
  <2> HIDE DEF records, s
  <2> QED
    BY <2>1, <2>2, StoreEmpty DEF Acc, records
<1>3. CASE ~fresh(f) /\ f.primary = None
  <2>1. OpenedStore(f) = LastStore(records)
    BY <1>3 DEF OpenedStore
  <2> QED
    BY <1>1, <1>3, <2>1, LastStoreTyped DEF Acc
<1>4. CASE ~fresh(f) /\ f.primary # None
  <2>1. /\ f.primary.checkpoint # <<>> /\ IsPrefix(f.primary.checkpoint, records)
        /\ accounting(Last(f.primary.checkpoint)) = accounting(s)
    BY <1>4, OpenLedger
  <2>2. records # <<>>
    BY <1>1, <1>4, <2>1, PrefixOfEmpty DEF Records
  <2>3. LastStore(records) = Last(records) /\ Last(records) \in Store
    BY <1>1, <2>2, LastOfSeq DEF LastStore
  <2>4. CASE Recovered(f)
    <3>1. OpenedStore(f) = replay_accounting(s, Last(records))
      BY <1>4, <2>4 DEF OpenedStore
    <3>2. OpenedStore(f) = [day |-> Last(records).day, starts |-> Last(records).starts,
                            clock |-> max(s.clock, Last(records).clock)]
      BY <3>1 DEF replay_accounting
    <3>3. /\ s.clock \in 0..MaxClock /\ Last(records).clock \in 0..MaxClock
          /\ Last(records).day \in 0..MaxDay /\ Last(records).starts \in 0..MaxStarts
      BY <1>1, <1>4, <2>3 DEF Store
    <3>4. /\ max(s.clock, Last(records).clock) \in 0..MaxClock
          /\ max(s.clock, Last(records).clock) >= s.clock
      BY <3>3, BoundsAssumption DEF max
    <3>5. OpenedStore(f) \in Store /\ OpenedStore(f).clock >= s.clock
      BY <3>2, <3>3, <3>4 DEF Store
    <3>6. accounting(OpenedStore(f)) = accounting(Last(records))
      BY <3>2 DEF accounting
    <3> QED
      BY <1>4, <2>3, <3>5, <3>6 DEF Acc
  <2>5. CASE ~Recovered(f)
    <3>1. OpenedStore(f) = s /\ f.primary.checkpoint = records
      BY <1>4, <2>2, <2>5 DEF OpenedStore, Recovered
    <3>2. s.clock \in 0..MaxClock
      BY <1>1, <1>4 DEF Store
    <3>3. s.clock >= s.clock
      BY <3>2, BoundsAssumption
    <3>4. accounting(s) = accounting(Last(records))
      BY <2>1, <3>1
    <3> QED
      BY <1>1, <1>4, <2>3, <3>1, <3>3, <3>4 DEF Acc
  <2> QED
    BY <2>4, <2>5
<1> QED
  BY <1>2, <1>3, <1>4

-----------------------------------------------------------------------------
(* The invariant of the accounting. *)

Allowed == {acked} \cup wanted

Opening == {"header", "headerSync", "loaded"}
Served == {"opened", "ready", "append", "ledgerSync", "marker", "markerSync",
           "backup", "backupSync", "snapshot", "snapshotSync"}
Held == {"openMarker", "openSync"} \cup Served
Appended == {"ledgerSync", "marker", "markerSync"}
Settled == {"openMarker", "openSync", "opened", "backup", "backupSync", "snapshot",
            "snapshotSync"}

\* What was synced of the log is a prefix of what is read.
LogsExtend ==
    dur.ledger # None =>
        vol.ledger # None /\ IsPrefix(dur.ledger.records, vol.ledger.records)

\* A process that opens validated its input.
Begins ==
    /\ pc \in {"down"} \cup Opening \cup Held
    /\ pc \in Opening => CanOpen(vol) /\ (pc = "header" <=> vol.ledger = None)
    /\ pc \in {"header", "headerSync"} => dur.ledger = None

\* The log of a process that holds a store, and what its values say of it.
HoldsLog ==
    pc \in Held =>
        /\ vol.ledger # None /\ ~vol.ledger.torn
        /\ vol.ledger.records =
             IF pc \in Appended THEN Append(checkpoint, mem) ELSE checkpoint
        /\ accounting(committed) = Acc(checkpoint)
        /\ pc \in Settled => accounting(mem) = Acc(checkpoint)
        /\ accounting(mem) \in Allowed

\* The checkpoint and the snapshot such a process has written.
HoldsFiles ==
    /\ pc \in {"marker", "markerSync"} => dur.ledger = vol.ledger
    /\ pc \in Held \ {"openMarker"} =>
         vol.marker = IF pc = "markerSync" THEN Append(checkpoint, mem) ELSE checkpoint
    /\ pc = "snapshotSync" => vol.primary = [store |-> mem, checkpoint |-> checkpoint]

\* Without a checkpoint nothing was ever acknowledged.
Marked == None \in {dur.marker, vol.marker} => acked = accounting(Empty)

\* A log that contains a checkpoint left beside it ends with an accounting
\* acknowledged last or asked for since.
Binds ==
    \A m \in {dur.marker, vol.marker} \ {None}, l \in {dur.ledger, vol.ledger} \ {None} :
        ~l.torn /\ IsPrefix(m, l.records) => Acc(l.records) \in Allowed

Inv == TypeOK /\ LogsExtend /\ Begins /\ HoldsLog /\ HoldsFiles /\ Marked /\ Binds

-----------------------------------------------------------------------------
(* What the steps do to the files. *)

LEMMA NoneApart ==
    /\ \A r \in Records : r # None
    /\ \A l \in Logs : l # None
    /\ \A p \in Snapshots : p # None
BY NoneAssumption

LEMMA RenamedLedger ==
    ASSUME TypeOK, NEW v \in Logs, Rename("ledger", v)
    PROVE  /\ vol' \in Files /\ dur' \in Files /\ dur' = dur
           /\ vol'.ledger = v /\ vol'.marker = vol.marker
           /\ vol'.primary = vol.primary /\ vol'.backup = vol.backup
BY DEF TypeOK, Files, Rename

LEMMA RenamedMarker ==
    ASSUME TypeOK, NEW v \in Records, Rename("marker", v)
    PROVE  /\ vol' \in Files /\ dur' \in Files /\ dur' = dur
           /\ vol'.marker = v /\ vol'.ledger = vol.ledger
           /\ vol'.primary = vol.primary /\ vol'.backup = vol.backup
BY DEF TypeOK, Files, Rename

LEMMA RenamedPrimary ==
    ASSUME TypeOK, NEW v \in Snapshots, Rename("primary", v)
    PROVE  /\ vol' \in Files /\ dur' \in Files /\ dur' = dur
           /\ vol'.primary = v /\ vol'.ledger = vol.ledger
           /\ vol'.marker = vol.marker /\ vol'.backup = vol.backup
BY DEF TypeOK, Files, Rename

LEMMA RenamedBackup ==
    ASSUME TypeOK, NEW v \in Snapshots, Rename("backup", v)
    PROVE  /\ vol' \in Files /\ dur' \in Files /\ dur' = dur
           /\ vol'.backup = v /\ vol'.ledger = vol.ledger
           /\ vol'.marker = vol.marker /\ vol'.primary = vol.primary
BY DEF TypeOK, Files, Rename

LEMMA SyncedDirectory ==
    ASSUME TypeOK, LogsExtend, DirectorySync
    PROVE  /\ vol' = vol /\ vol' \in Files /\ dur' \in Files
           /\ dur'.marker = vol.marker /\ dur'.primary = vol.primary
           /\ dur'.backup = vol.backup
           /\ dur'.ledger = IF dur.ledger = None THEN vol.ledger ELSE dur.ledger
           /\ LogsExtend'
<1>1. /\ vol' = vol /\ vol' \in Files /\ dur' \in Files
      /\ dur'.marker = vol.marker /\ dur'.primary = vol.primary
      /\ dur'.backup = vol.backup
      /\ dur'.ledger = IF dur.ledger = None THEN vol.ledger ELSE dur.ledger
  BY DEF TypeOK, Files, DirectorySync
<1>2. vol.ledger # None => vol.ledger.records \in Records
  BY FileTyped DEF TypeOK
<1>3. vol.ledger # None => IsPrefix(vol.ledger.records, vol.ledger.records)
  BY <1>2, PrefixReflexive DEF Records
<1> QED
  BY <1>1, <1>3 DEF LogsExtend

\* No step makes Binds or Marked false by choosing among the files there are
\* and asking for more.
LEMMA FilesChosen ==
    ASSUME Marked, Binds, acked' = acked, wanted \subseteq wanted',
           {dur'.marker, vol'.marker} \subseteq {dur.marker, vol.marker},
           {dur'.ledger, vol'.ledger} \subseteq {dur.ledger, vol.ledger}
    PROVE  Marked' /\ Binds'
BY DEF Marked, Binds, Allowed

LEMMA FilesKept ==
    ASSUME LogsExtend, Marked, Binds, acked' = acked, wanted \subseteq wanted',
           UNCHANGED <<vol, dur>>
    PROVE  LogsExtend' /\ Marked' /\ Binds'
BY FilesChosen DEF LogsExtend

-----------------------------------------------------------------------------
(* The steps of open. *)

LEMMA StartInv == Inv /\ Start => Inv'
<1> SUFFICES ASSUME Inv, Start PROVE Inv'
  OBVIOUS
<1>1. pc' \in {"header", "loaded"} /\ (pc' = "header" <=> vol.ledger = None)
  BY DEF Start
<1>2. UNCHANGED <<vol, dur, mem, committed, checkpoint, recovered, bounds, history>>
      /\ CanOpen(vol)
  BY DEF Start
<1>3. TypeOK'
  BY <1>2 DEF Inv, TypeOK, history
<1>4. LogsExtend' /\ Marked' /\ Binds'
  BY <1>2, FilesKept DEF Inv, history
<1>5. Begins'
  BY <1>1, <1>2 DEF Inv, LogsExtend, Begins, Opening
<1>6. HoldsLog' /\ HoldsFiles'
  BY <1>1 DEF HoldsLog, HoldsFiles, Held, Served
<1> QED
  BY <1>3, <1>4, <1>5, <1>6 DEF Inv

LEMMA WriteHeaderInv == Inv /\ WriteHeader => Inv'
<1> SUFFICES ASSUME Inv, WriteHeader PROVE Inv'
  OBVIOUS
<1> DEFINE new == Log(<<>>, FALSE)
<1>1. /\ pc = "header" /\ pc' = "headerSync" /\ Rename("ledger", new)
      /\ UNCHANGED <<mem, committed, checkpoint, recovered, bounds, history>>
  BY DEF WriteHeader
<1>2. new \in Logs /\ new.records = <<>> /\ new.torn = FALSE
  BY EmptySeq DEF Logs, Log, Records
<1> HIDE DEF new
<1>3. /\ vol' \in Files /\ dur' \in Files /\ dur' = dur
      /\ vol'.ledger = new /\ vol'.marker = vol.marker
      /\ vol'.primary = vol.primary /\ vol'.backup = vol.backup
  BY <1>1, <1>2, RenamedLedger DEF Inv
<1>4. vol.ledger = None /\ dur.ledger = None /\ CanOpen(vol)
  BY <1>1 DEF Inv, Begins, Opening
<1>5. fresh(vol')
  BY <1>3, <1>4, OpenWithoutLedger DEF Inv, TypeOK, fresh
<1>6. vol'.ledger # None
  BY <1>2, <1>3, NoneApart
<1>7. CanOpen(vol')
  BY <1>2, <1>3, <1>5, <1>6 DEF CanOpen, FreshValid, read_log_ok
<1>8. TypeOK'
  BY <1>1, <1>3 DEF Inv, TypeOK, history
<1>9. LogsExtend'
  BY <1>3, <1>4 DEF LogsExtend
<1>10. Begins'
  BY <1>1, <1>3, <1>4, <1>6, <1>7 DEF Begins, Opening
<1>11. HoldsLog' /\ HoldsFiles'
  BY <1>1 DEF HoldsLog, HoldsFiles, Held, Served
<1>12. Marked' /\ acked' = accounting(Empty)
  BY <1>1, <1>3, <1>5 DEF Inv, Marked, history, fresh
<1>13. Binds'
  <2>1. Acc(new.records) = accounting(Empty)
    BY <1>2 DEF Acc, LastStore
  <2>2. {dur'.ledger, vol'.ledger} \ {None} = {new}
    BY <1>3, <1>4, <1>6
  <2> QED
    BY <1>12, <2>1, <2>2 DEF Binds, Allowed
<1> QED
  BY <1>8, <1>9, <1>10, <1>11, <1>12, <1>13 DEF Inv

\* The directory is synced, and the history is as it was.
LEMMA SyncedInv ==
    ASSUME Inv, DirectorySync, UNCHANGED history
    PROVE  /\ LogsExtend' /\ Marked' /\ Binds'
           /\ vol' = vol /\ vol' \in Files /\ dur' \in Files
<1>1. /\ vol' = vol /\ vol' \in Files /\ dur' \in Files
      /\ dur'.marker = vol.marker
      /\ dur'.ledger = IF dur.ledger = None THEN vol.ledger ELSE dur.ledger
      /\ LogsExtend'
  BY SyncedDirectory DEF Inv
<1>2. Marked' /\ Binds'
  BY <1>1, FilesChosen DEF Inv, history
<1> QED
  BY <1>1, <1>2

LEMMA SyncHeaderInv == Inv /\ SyncHeader => Inv'
<1> SUFFICES ASSUME Inv, SyncHeader PROVE Inv'
  OBVIOUS
<1>1. /\ pc = "headerSync" /\ pc' = "loaded" /\ DirectorySync
      /\ UNCHANGED <<mem, committed, checkpoint, recovered, bounds, history>>
  BY DEF SyncHeader
<1>2. /\ LogsExtend' /\ Marked' /\ Binds'
      /\ vol' = vol /\ vol' \in Files /\ dur' \in Files
  BY <1>1, SyncedInv
<1>3. TypeOK'
  BY <1>1, <1>2 DEF Inv, TypeOK, history
<1>4. Begins'
  BY <1>1, <1>2 DEF Inv, Begins, Opening
<1>5. HoldsLog' /\ HoldsFiles'
  BY <1>1 DEF HoldsLog, HoldsFiles, Held, Served
<1> QED
  BY <1>2, <1>3, <1>4, <1>5 DEF Inv

LEMMA LoadInv == Inv /\ Load => Inv'
<1> SUFFICES ASSUME Inv, Load PROVE Inv'
  OBVIOUS
<1> DEFINE records == vol.ledger.records
<1>1. /\ pc = "loaded"
      /\ mem' = OpenedStore(vol) /\ committed' = LastStore(records)
      /\ checkpoint' = records /\ recovered' = Recovered(vol)
      /\ pc' = IF vol.marker = records THEN "opened" ELSE "openMarker"
      /\ UNCHANGED <<vol, dur, bounds, history>>
  BY DEF Load
<1>2. vol \in Files /\ CanOpen(vol) /\ vol.ledger # None
  BY <1>1 DEF Inv, TypeOK, Begins, Opening
<1>3. records \in Records /\ ~vol.ledger.torn
  BY <1>2, FileTyped, OpenLedger
<1>4. mem' \in Store /\ accounting(mem') = Acc(records)
  BY <1>1, <1>2, OpenedAccounting
<1>5. committed' \in Store /\ accounting(committed') = Acc(records)
  BY <1>1, <1>3, LastStoreTyped DEF Acc
<1>6. Acc(records) \in Allowed
  <2>1. CASE fresh(vol)
    <3>1. acked = accounting(Empty)
      BY <2>1 DEF Inv, Marked, fresh
    <3>2. Acc(records) = accounting(Empty)
      BY <1>2, <2>1, OpenLedger DEF Acc, LastStore
    <3> QED
      BY <3>1, <3>2 DEF Allowed
  <2>2. CASE ~fresh(vol)
    <3>1. vol.marker # None /\ IsPrefix(vol.marker, records)
      BY <1>2, <2>2, OpenLedger
    <3> QED
      BY <1>2, <1>3, <3>1 DEF Inv, Binds
  <2> QED
    BY <2>1, <2>2
<1> HIDE DEF records
<1>7. TypeOK'
  <2>1. recovered' \in BOOLEAN
    BY <1>1 DEF Recovered
  <2> QED
    BY <1>1, <1>3, <1>4, <1>5, <2>1 DEF Inv, TypeOK, history
<1>8. LogsExtend' /\ Marked' /\ Binds'
  BY <1>1, FilesKept DEF Inv, history
<1>9. Begins'
  BY <1>1 DEF Begins, Opening, Held, Served
<1>10. HoldsLog'
  <2>1. pc' \notin Appended /\ vol' = vol /\ vol.ledger.records = records
    BY <1>1 DEF Appended, records
  <2>2. Allowed' = Allowed
    BY <1>1 DEF Allowed, history
  <2> QED
    BY <1>1, <1>2, <1>3, <1>4, <1>5, <1>6, <2>1, <2>2 DEF HoldsLog
<1>11. HoldsFiles'
  BY <1>1 DEF HoldsFiles, Held, Served
<1> QED
  BY <1>7, <1>8, <1>9, <1>10, <1>11 DEF Inv

LEMMA OpenMarkerInv == Inv /\ OpenMarker => Inv'
<1> SUFFICES ASSUME Inv, OpenMarker PROVE Inv'
  OBVIOUS
<1>1. /\ pc = "openMarker" /\ pc' = "openSync" /\ Rename("marker", checkpoint)
      /\ UNCHANGED <<mem, committed, checkpoint, recovered, bounds, history>>
  BY DEF OpenMarker
<1>2. /\ vol' \in Files /\ dur' \in Files /\ dur' = dur
      /\ vol'.marker = checkpoint /\ vol'.ledger = vol.ledger
      /\ vol'.primary = vol.primary /\ vol'.backup = vol.backup
  BY <1>1, RenamedMarker DEF Inv, TypeOK
<1>3. /\ vol.ledger # None /\ vol.ledger.records = checkpoint
      /\ accounting(mem) = Acc(checkpoint) /\ accounting(mem) \in Allowed
  BY <1>1 DEF Inv, HoldsLog, Held, Appended, Settled
<1>4. TypeOK'
  BY <1>1, <1>2 DEF Inv, TypeOK, history
<1>5. LogsExtend'
  BY <1>2 DEF Inv, LogsExtend
<1>6. Begins'
  BY <1>1 DEF Begins, Opening, Held
<1>7. HoldsLog'
  BY <1>1, <1>2 DEF Inv, HoldsLog, Held, Appended, Settled, Allowed, history
<1>8. HoldsFiles'
  BY <1>1, <1>2 DEF HoldsFiles, Held
<1>9. Marked'
  BY <1>1, <1>2, NoneApart DEF Inv, TypeOK, Marked, history
<1>10. Binds'
  <2> SUFFICES ASSUME NEW m \in {dur.marker, checkpoint} \ {None},
                      NEW l \in {dur.ledger, vol.ledger} \ {None},
                      ~l.torn, IsPrefix(m, l.records)
               PROVE  Acc(l.records) \in Allowed
    BY <1>1, <1>2 DEF Binds, Allowed, history
  <2>1. CASE m = dur.marker
    BY <2>1 DEF Inv, Binds
  <2>2. CASE m = checkpoint
    <3>1. l.records \in Records /\ checkpoint \in Records
      BY FileTyped DEF Inv, TypeOK
    <3>2. IsPrefix(l.records, checkpoint)
      <4>1. CASE l = vol.ledger
        BY <1>3, <3>1, <4>1, PrefixReflexive DEF Records
      <4>2. CASE l = dur.ledger
        BY <1>3, <4>2 DEF Inv, LogsExtend
      <4> QED
        BY <4>1, <4>2
    <3>3. l.records = checkpoint
      BY <2>2, <3>1, <3>2, PrefixAntisymmetric DEF Records
    <3> QED
      BY <1>3, <3>3
  <2> QED
    BY <2>1, <2>2
<1> QED
  BY <1>4, <1>5, <1>6, <1>7, <1>8, <1>9, <1>10 DEF Inv

LEMMA OpenSyncInv == Inv /\ OpenSync => Inv'
<1> SUFFICES ASSUME Inv, OpenSync PROVE Inv'
  OBVIOUS
<1>1. /\ pc = "openSync" /\ pc' = "opened" /\ DirectorySync
      /\ UNCHANGED <<mem, committed, checkpoint, recovered, bounds, history>>
  BY DEF OpenSync
<1>2. /\ LogsExtend' /\ Marked' /\ Binds'
      /\ vol' = vol /\ vol' \in Files /\ dur' \in Files
  BY <1>1, SyncedInv
<1>3. TypeOK'
  BY <1>1, <1>2 DEF Inv, TypeOK, history
<1>4. Begins'
  BY <1>1 DEF Begins, Opening, Held, Served
<1>5. HoldsLog'
  BY <1>1, <1>2 DEF Inv, HoldsLog, Held, Served, Appended, Settled, Allowed, history
<1>6. HoldsFiles'
  BY <1>1, <1>2 DEF Inv, HoldsFiles, Held, Served
<1> QED
  BY <1>2, <1>3, <1>4, <1>5, <1>6 DEF Inv

-----------------------------------------------------------------------------
(* The steps of persist. *)

\* persist begins with a store nothing was said about before.
LEMMA BeginPersistInv ==
    ASSUME Inv, pc \in {"opened", "ready"}, NEW s \in Store, BeginPersist(s)
    PROVE  Inv'
<1>1. /\ mem' = s
      /\ pc' = IF accounting(s) # accounting(committed) THEN "append" ELSE "backup"
      /\ wanted' = wanted \cup {accounting(s)}
      /\ UNCHANGED <<vol, dur, committed, checkpoint, recovered, bounds, acked, observed>>
  BY DEF BeginPersist
<1>2. accounting(s) \in Accountings
  BY DEF Store, accounting, Accountings
<1>3. TypeOK'
  BY <1>1, <1>2 DEF Inv, TypeOK
<1>4. LogsExtend' /\ Marked' /\ Binds'
  BY <1>1, FilesKept DEF Inv
<1>5. Begins'
  BY <1>1 DEF Begins, Opening, Held, Served
<1>6. HoldsLog'
  <2>1. /\ vol.ledger # None /\ ~vol.ledger.torn /\ vol.ledger.records = checkpoint
        /\ accounting(committed) = Acc(checkpoint)
    BY DEF Inv, HoldsLog, Held, Served, Appended
  <2>2. accounting(mem') \in Allowed'
    BY <1>1 DEF Allowed
  <2>3. pc' \in {"append", "backup"} /\ (pc' = "backup" => accounting(mem') = Acc(checkpoint))
    BY <1>1, <2>1
  <2> QED
    BY <1>1, <2>1, <2>2, <2>3 DEF HoldsLog, Appended, Settled
<1>7. HoldsFiles'
  BY <1>1 DEF Inv, HoldsFiles, Held, Served
<1> QED
  BY <1>3, <1>4, <1>5, <1>6, <1>7 DEF Inv

LEMMA ReconcileInv == Inv /\ Reconcile => Inv'
<1> SUFFICES ASSUME Inv, Reconcile PROVE Inv'
  OBVIOUS
<1>1. pc = "opened"
  BY DEF Reconcile
<1>2. PICK s \in Store :
        \/ BeginPersist(s)
        \/ pc' = "ready" /\ UNCHANGED <<vol, dur, mem, committed, checkpoint,
                                        recovered, bounds, history>>
  BY Zenon DEF Reconcile
<1>3. CASE BeginPersist(s)
  BY <1>1, <1>3, BeginPersistInv
<1>4. CASE pc' = "ready" /\ UNCHANGED <<vol, dur, mem, committed, checkpoint,
                                        recovered, bounds, history>>
  <2>1. TypeOK'
    BY <1>4 DEF Inv, TypeOK, history
  <2>2. LogsExtend' /\ Marked' /\ Binds'
    BY <1>4, FilesKept DEF Inv, history
  <2>3. Begins'
    BY <1>4 DEF Begins, Opening, Held, Served
  <2>4. HoldsLog'
    BY <1>1, <1>4 DEF Inv, HoldsLog, Held, Served, Appended, Settled, Allowed, history
  <2>5. HoldsFiles'
    BY <1>1, <1>4 DEF Inv, HoldsFiles, Held, Served
  <2> QED
    BY <2>1, <2>2, <2>3, <2>4, <2>5 DEF Inv
<1> QED
  BY <1>2, <1>3, <1>4

LEMMA HandleInv == Inv /\ Handle => Inv'
<1> SUFFICES ASSUME Inv, Handle PROVE Inv'
  OBVIOUS
<1>1. pc = "ready"
  BY DEF Handle
<1>2. PICK s \in Store : BeginPersist(s)
  BY Zenon DEF Handle
<1> QED
  BY <1>1, <1>2, BeginPersistInv

LEMMA AppendInv == Inv /\ Append1 => Inv'
<1> SUFFICES ASSUME Inv, Append1 PROVE Inv'
  OBVIOUS
<1> DEFINE records == Append(checkpoint, mem)
           new == Log(records, FALSE)
<1>1. /\ pc = "append" /\ pc' = "ledgerSync"
      /\ Rename("ledger", Log(Append(vol.ledger.records, mem), FALSE))
      /\ UNCHANGED <<mem, committed, checkpoint, recovered, bounds, history>>
  BY DEF Append1
<1>2. /\ vol.ledger # None /\ vol.ledger.records = checkpoint
      /\ accounting(committed) = Acc(checkpoint)
      /\ accounting(mem) \in Allowed
  BY <1>1 DEF Inv, HoldsLog, Held, Served, Appended
<1>3. checkpoint \in Records /\ mem \in Store
  BY DEF Inv, TypeOK
<1>4. records \in Records /\ Acc(records) = accounting(mem)
  BY <1>3, AppendAcc DEF Acc
<1>5. new \in Logs /\ new.records = records /\ new.torn = FALSE /\ Rename("ledger", new)
  BY <1>1, <1>2, <1>4 DEF Logs, Log
<1>6. IsPrefix(checkpoint, records)
  BY <1>3, PrefixReflexive, PrefixOfAppend DEF Records
<1>7. dur.ledger # None =>
        dur.ledger.records \in Records /\ IsPrefix(dur.ledger.records, records)
  <2> SUFFICES ASSUME dur.ledger # None
               PROVE  dur.ledger.records \in Records /\ IsPrefix(dur.ledger.records, records)
    OBVIOUS
  <2>1. dur.ledger.records \in Records
    BY FileTyped DEF Inv, TypeOK
  <2>2. IsPrefix(dur.ledger.records, checkpoint)
    BY <1>2 DEF Inv, LogsExtend
  <2> QED
    BY <1>3, <1>4, <1>6, <2>1, <2>2, PrefixTransitive DEF Records
<1> HIDE DEF new, records
<1>8. /\ vol' \in Files /\ dur' \in Files /\ dur' = dur
      /\ vol'.ledger = new /\ vol'.marker = vol.marker
      /\ vol'.primary = vol.primary /\ vol'.backup = vol.backup
  BY <1>5, RenamedLedger DEF Inv
<1>9. vol'.ledger # None
  BY <1>5, <1>8, NoneApart
<1>10. TypeOK'
  BY <1>1, <1>8 DEF Inv, TypeOK, history
<1>11. LogsExtend'
  BY <1>5, <1>7, <1>8, <1>9 DEF LogsExtend
<1>12. Begins'
  BY <1>1 DEF Begins, Opening, Held, Served
<1>13. HoldsLog'
  <2>1. vol'.ledger.records = Append(checkpoint', mem')
    BY <1>1, <1>5, <1>8 DEF records
  <2>2. Allowed' = Allowed
    BY <1>1 DEF Allowed, history
  <2> QED
    BY <1>1, <1>2, <1>5, <1>8, <1>9, <2>1, <2>2 DEF HoldsLog, Appended, Settled
<1>14. HoldsFiles'
  BY <1>1, <1>8 DEF Inv, HoldsFiles, Held, Served
<1>15. Marked'
  BY <1>1, <1>8 DEF Inv, Marked, history
<1>16. Binds'
  <2>1. Acc(new.records) \in Allowed
    BY <1>2, <1>4, <1>5
  <2> QED
    BY <1>1, <1>8, <2>1 DEF Inv, Binds, Allowed, history
<1> QED
  BY <1>10, <1>11, <1>12, <1>13, <1>14, <1>15, <1>16 DEF Inv

LEMMA LedgerSyncInv == Inv /\ LedgerSync => Inv'
<1> SUFFICES ASSUME Inv, LedgerSync PROVE Inv'
  OBVIOUS
<1>1. /\ pc = "ledgerSync" /\ pc' = "marker"
      /\ dur' = [dur EXCEPT !.ledger = vol.ledger] /\ vol' = vol
      /\ UNCHANGED <<mem, committed, checkpoint, recovered, bounds, history>>
  BY DEF LedgerSync
<1>2. /\ dur' \in Files /\ vol' \in Files
      /\ dur'.ledger = vol.ledger /\ dur'.marker = dur.marker
  BY <1>1 DEF Inv, TypeOK, Files
<1>3. TypeOK'
  BY <1>1, <1>2 DEF Inv, TypeOK, history
<1>4. LogsExtend'
  <2>1. vol.ledger # None => vol.ledger.records \in Records
    BY FileTyped DEF Inv, TypeOK
  <2>2. vol.ledger # None => IsPrefix(vol.ledger.records, vol.ledger.records)
    BY <2>1, PrefixReflexive DEF Records
  <2> QED
    BY <1>1, <1>2, <2>2 DEF LogsExtend
<1>5. Marked' /\ Binds'
  BY <1>1, <1>2, FilesChosen DEF Inv, history
<1>6. Begins'
  BY <1>1 DEF Begins, Opening, Held, Served
<1>7. HoldsLog'
  BY <1>1 DEF Inv, HoldsLog, Held, Served, Appended, Settled, Allowed, history
<1>8. HoldsFiles'
  BY <1>1, <1>2 DEF Inv, HoldsFiles, Held, Served
<1> QED
  BY <1>3, <1>4, <1>5, <1>6, <1>7, <1>8 DEF Inv

LEMMA WriteMarkerInv == Inv /\ WriteMarker => Inv'
<1> SUFFICES ASSUME Inv, WriteMarker PROVE Inv'
  OBVIOUS
<1> DEFINE new == Append(checkpoint, mem)
<1>1. /\ pc = "marker" /\ pc' = "markerSync" /\ Rename("marker", new)
      /\ UNCHANGED <<mem, committed, checkpoint, recovered, bounds, history>>
  BY DEF WriteMarker
<1>2. new \in Records /\ Acc(new) = accounting(mem)
  BY AppendAcc DEF Inv, TypeOK, Acc
<1>3. /\ vol' \in Files /\ dur' \in Files /\ dur' = dur
      /\ vol'.marker = new /\ vol'.ledger = vol.ledger
  BY <1>1, <1>2, RenamedMarker DEF Inv
<1>4. /\ vol.ledger # None /\ vol.ledger.records = new
      /\ accounting(mem) \in Allowed /\ dur.ledger = vol.ledger
  BY <1>1 DEF Inv, HoldsLog, HoldsFiles, Held, Served, Appended
<1>5. TypeOK'
  BY <1>1, <1>3 DEF Inv, TypeOK, history
<1>6. LogsExtend'
  BY <1>3 DEF Inv, LogsExtend
<1>7. Begins'
  BY <1>1 DEF Begins, Opening, Held, Served
<1>8. HoldsLog'
  BY <1>1, <1>3 DEF Inv, HoldsLog, Held, Served, Appended, Settled, Allowed, history
<1>9. HoldsFiles'
  BY <1>1, <1>3, <1>4 DEF HoldsFiles, Held, Served
<1>10. Marked'
  BY <1>1, <1>2, <1>3, NoneApart DEF Inv, Marked, history
<1>11. Binds'
  <2>1. \A l \in {dur'.ledger, vol'.ledger} \ {None} : Acc(l.records) \in Allowed
    BY <1>2, <1>3, <1>4
  <2> QED
    BY <1>1, <2>1 DEF Binds, Allowed, history
<1> QED
  BY <1>5, <1>6, <1>7, <1>8, <1>9, <1>10, <1>11 DEF Inv

LEMMA MarkerSyncInv == Inv /\ MarkerSync => Inv'
<1> SUFFICES ASSUME Inv, MarkerSync PROVE Inv'
  OBVIOUS
<1> DEFINE new == Append(checkpoint, mem)
<1>1. /\ pc = "markerSync" /\ pc' = "backup" /\ DirectorySync
      /\ checkpoint' = new /\ committed' = mem
      /\ UNCHANGED <<mem, recovered, bounds, history>>
  BY DEF MarkerSync
<1>2. /\ LogsExtend' /\ Marked' /\ Binds'
      /\ vol' = vol /\ vol' \in Files /\ dur' \in Files
  BY <1>1, SyncedInv
<1>3. new \in Records /\ Acc(new) = accounting(mem)
  BY AppendAcc DEF Inv, TypeOK, Acc
<1>4. TypeOK'
  BY <1>1, <1>2, <1>3 DEF Inv, TypeOK, history
<1>5. Begins'
  BY <1>1 DEF Begins, Opening, Held, Served
<1>6. HoldsLog'
  <2>1. /\ vol.ledger # None /\ ~vol.ledger.torn /\ vol.ledger.records = new
        /\ accounting(mem) \in Allowed
    BY <1>1 DEF Inv, HoldsLog, Held, Served, Appended
  <2>2. Allowed' = Allowed
    BY <1>1 DEF Allowed, history
  <2> QED
    BY <1>1, <1>2, <1>3, <2>1, <2>2 DEF HoldsLog, Appended
<1>7. HoldsFiles'
  BY <1>1, <1>2 DEF Inv, HoldsFiles, Held, Served
<1> QED
  BY <1>2, <1>4, <1>5, <1>6, <1>7 DEF Inv

LEMMA WriteBackupInv == Inv /\ WriteBackup => Inv'
<1> SUFFICES ASSUME Inv, WriteBackup PROVE Inv'
  OBVIOUS
<1>1. /\ pc = "backup" /\ pc' \in {"backupSync", "snapshot"}
      /\ UNCHANGED <<mem, committed, checkpoint, recovered, bounds, history>>
  BY DEF WriteBackup
<1>2. /\ vol' \in Files /\ dur' \in Files /\ dur' = dur
      /\ vol'.ledger = vol.ledger /\ vol'.marker = vol.marker
  <2>1. CASE vol.primary = None
    BY <2>1 DEF WriteBackup, Inv, TypeOK
  <2>2. CASE vol.primary # None
    <3>1. vol.primary \in Snapshots
      BY <2>2, FileTyped DEF Inv, TypeOK
    <3> QED
      BY <2>2, <3>1, RenamedBackup DEF WriteBackup, Inv
  <2> QED
    BY <2>1, <2>2
<1>3. TypeOK'
  BY <1>1, <1>2 DEF Inv, TypeOK, history
<1>4. LogsExtend'
  BY <1>2 DEF Inv, LogsExtend
<1>5. Marked' /\ Binds'
  BY <1>1, <1>2, FilesChosen DEF Inv, history
<1>6. Begins'
  BY <1>1 DEF Begins, Opening, Held, Served
<1>7. HoldsLog'
  BY <1>1, <1>2 DEF Inv, HoldsLog, Held, Served, Appended, Settled, Allowed, history
<1>8. HoldsFiles'
  BY <1>1, <1>2 DEF Inv, HoldsFiles, Held, Served
<1> QED
  BY <1>3, <1>4, <1>5, <1>6, <1>7, <1>8 DEF Inv

LEMMA BackupSyncInv == Inv /\ BackupSync => Inv'
<1> SUFFICES ASSUME Inv, BackupSync PROVE Inv'
  OBVIOUS
<1>1. /\ pc = "backupSync" /\ pc' = "snapshot" /\ DirectorySync
      /\ UNCHANGED <<mem, committed, checkpoint, recovered, bounds, history>>
  BY DEF BackupSync
<1>2. /\ LogsExtend' /\ Marked' /\ Binds'
      /\ vol' = vol /\ vol' \in Files /\ dur' \in Files
  BY <1>1, SyncedInv
<1>3. TypeOK'
  BY <1>1, <1>2 DEF Inv, TypeOK, history
<1>4. Begins'
  BY <1>1 DEF Begins, Opening, Held, Served
<1>5. HoldsLog'
  BY <1>1, <1>2 DEF Inv, HoldsLog, Held, Served, Appended, Settled, Allowed, history
<1>6. HoldsFiles'
  BY <1>1, <1>2 DEF Inv, HoldsFiles, Held, Served
<1> QED
  BY <1>2, <1>3, <1>4, <1>5, <1>6 DEF Inv

LEMMA WriteSnapshotInv == Inv /\ WriteSnapshot => Inv'
<1> SUFFICES ASSUME Inv, WriteSnapshot PROVE Inv'
  OBVIOUS
<1> DEFINE new == [store |-> mem, checkpoint |-> checkpoint]
<1>1. /\ pc = "snapshot" /\ pc' = "snapshotSync" /\ Rename("primary", new)
      /\ UNCHANGED <<mem, committed, checkpoint, recovered, bounds, history>>
  BY DEF WriteSnapshot
<1>2. new \in Snapshots
  BY DEF Inv, TypeOK, Snapshots
<1>3. /\ vol' \in Files /\ dur' \in Files /\ dur' = dur
      /\ vol'.primary = new /\ vol'.ledger = vol.ledger /\ vol'.marker = vol.marker
  BY <1>1, <1>2, RenamedPrimary DEF Inv
<1>4. TypeOK'
  BY <1>1, <1>3 DEF Inv, TypeOK, history
<1>5. LogsExtend'
  BY <1>3 DEF Inv, LogsExtend
<1>6. Marked' /\ Binds'
  BY <1>1, <1>3, FilesChosen DEF Inv, history
<1>7. Begins'
  BY <1>1 DEF Begins, Opening, Held, Served
<1>8. HoldsLog'
  BY <1>1, <1>3 DEF Inv, HoldsLog, Held, Served, Appended, Settled, Allowed, history
<1>9. HoldsFiles'
  BY <1>1, <1>3 DEF Inv, HoldsFiles, Held, Served
<1> QED
  BY <1>4, <1>5, <1>6, <1>7, <1>8, <1>9 DEF Inv

\* The acknowledgement: from now on a process must find this accounting, and
\* the log that contains the checkpoint has it at its end.
LEMMA SnapshotSyncInv == Inv /\ SnapshotSync => Inv'
<1> SUFFICES ASSUME Inv, SnapshotSync PROVE Inv'
  OBVIOUS
<1>1. /\ pc = "snapshotSync" /\ pc' = "ready" /\ DirectorySync
      /\ acked' = accounting(mem) /\ wanted' = {} /\ observed' = max(observed, mem.clock)
      /\ UNCHANGED <<mem, committed, checkpoint, recovered, bounds>>
  BY DEF SnapshotSync
<1>2. /\ LogsExtend' /\ vol' = vol /\ vol' \in Files /\ dur' \in Files
      /\ dur'.marker = vol.marker
      /\ dur'.ledger = IF dur.ledger = None THEN vol.ledger ELSE dur.ledger
  BY <1>1, SyncedDirectory DEF Inv
<1>3. /\ vol.ledger # None /\ ~vol.ledger.torn /\ vol.ledger.records = checkpoint
      /\ accounting(mem) = Acc(checkpoint) /\ vol.marker = checkpoint
  BY <1>1 DEF Inv, HoldsLog, HoldsFiles, Held, Served, Appended, Settled
<1>4. mem \in Store /\ checkpoint \in Records /\ observed \in 0..MaxClock
  BY DEF Inv, TypeOK
<1>5. TypeOK'
  <2>1. accounting(mem) \in Accountings
    BY <1>4 DEF Store, accounting, Accountings
  <2>2. max(observed, mem.clock) \in 0..MaxClock
    BY <1>4 DEF Store, max
  <2> QED
    BY <1>1, <1>2, <2>1, <2>2 DEF Inv, TypeOK
<1>6. Begins'
  BY <1>1 DEF Begins, Opening, Held, Served
<1>7. HoldsLog'
  <2>1. accounting(mem') \in Allowed'
    BY <1>1 DEF Allowed
  <2> QED
    BY <1>1, <1>2, <1>3, <2>1 DEF Inv, HoldsLog, Held, Served, Appended, Settled
<1>8. HoldsFiles'
  BY <1>1, <1>2, <1>3 DEF HoldsFiles, Held, Served
<1>9. Marked'
  BY <1>2, <1>3, <1>4, NoneApart DEF Marked
<1>10. Binds'
  <2> SUFFICES ASSUME NEW l \in {dur'.ledger, vol'.ledger} \ {None},
                      IsPrefix(checkpoint, l.records)
               PROVE  Acc(l.records) = accounting(mem)
    BY <1>1, <1>2, <1>3 DEF Binds, Allowed
  <2>1. l \in {vol.ledger, dur.ledger} \ {None}
    BY <1>2
  <2>2. l.records \in Records
    BY <2>1, FileTyped DEF Inv, TypeOK
  <2>3. IsPrefix(l.records, checkpoint)
    <3>1. CASE l = vol.ledger
      BY <1>3, <2>2, <3>1, PrefixReflexive DEF Records
    <3>2. CASE l = dur.ledger
      BY <1>3, <3>2 DEF Inv, LogsExtend
    <3> QED
      BY <2>1, <3>1, <3>2
  <2>4. l.records = checkpoint
    BY <1>4, <2>2, <2>3, PrefixAntisymmetric DEF Records
  <2> QED
    BY <1>3, <2>4
<1> QED
  BY <1>2, <1>5, <1>6, <1>7, <1>8, <1>9, <1>10 DEF Inv

-----------------------------------------------------------------------------
(* The failures. *)

\* A process that is gone promises nothing of the files.
LEMMA GoneInv ==
    ASSUME Inv, Gone, vol' \in Files, dur' \in Files, UNCHANGED history,
           LogsExtend', Marked', Binds'
    PROVE  Inv'
<1>1. TypeOK'
  BY StoreEmpty, EmptySeq DEF Inv, TypeOK, Gone, history, Records
<1>2. Begins' /\ HoldsLog' /\ HoldsFiles'
  BY DEF Gone, Begins, HoldsLog, HoldsFiles, Opening, Held, Served
<1> QED
  BY <1>1, <1>2 DEF Inv

LEMMA KillInv == Inv /\ Kill => Inv'
<1> SUFFICES ASSUME Inv, Kill PROVE Inv'
  OBVIOUS
<1>1. Gone /\ UNCHANGED <<vol, dur, history>>
  BY DEF Kill
<1>2. LogsExtend' /\ Marked' /\ Binds'
  BY <1>1, FilesKept DEF Inv, history
<1>3. vol' \in Files /\ dur' \in Files
  BY <1>1 DEF Inv, TypeOK
<1> QED
  BY <1>1, <1>2, <1>3, GoneInv

LEMMA TornAppendInv == Inv /\ TornAppend => Inv'
<1> SUFFICES ASSUME Inv, TornAppend PROVE Inv'
  OBVIOUS
<1> DEFINE new == Log(vol.ledger.records, TRUE)
<1>1. pc = "append" /\ Rename("ledger", new) /\ Gone /\ UNCHANGED history
  BY DEF TornAppend
<1>2. vol.ledger # None
  BY <1>1 DEF Inv, HoldsLog, Held, Served
<1>3. new \in Logs /\ new.records = vol.ledger.records /\ new.torn = TRUE
  BY <1>2, FileTyped DEF Inv, TypeOK, Logs, Log
<1> HIDE DEF new
<1>4. /\ vol' \in Files /\ dur' \in Files /\ dur' = dur
      /\ vol'.ledger = new /\ vol'.marker = vol.marker
  BY <1>1, <1>3, RenamedLedger DEF Inv
<1>5. LogsExtend'
  BY <1>3, <1>4, NoneApart DEF Inv, LogsExtend
<1>6. Marked'
  BY <1>1, <1>4 DEF Inv, Marked, history
<1>7. Binds'
  BY <1>1, <1>3, <1>4 DEF Inv, Binds, Allowed, history
<1> QED
  BY <1>1, <1>4, <1>5, <1>6, <1>7, GoneInv

LEMMA PowerLossInv == Inv /\ PowerLoss => Inv'
<1> SUFFICES ASSUME Inv, PowerLoss PROVE Inv'
  OBVIOUS
<1>1. PICK p \in {dur.primary, vol.primary}, b \in {dur.backup, vol.backup},
           m \in {dur.marker, vol.marker}, l \in LogsAfterPowerLoss :
        vol' = [primary |-> p, backup |-> b, marker |-> m, ledger |-> l]
  BY DEF PowerLoss
<1>2. dur' = vol' /\ Gone /\ UNCHANGED history
  BY DEF PowerLoss
<1>3. \/ l \in {dur.ledger, vol.ledger}
      \/ dur.ledger # None /\ l = Log(dur.ledger.records, TRUE)
  BY DEF LogsAfterPowerLoss
<1>4. l # None => /\ l \in Logs /\ l.records \in Records
                  /\ l.torn \/ l \in {dur.ledger, vol.ledger}
  <2>1. ASSUME l # None, l \in {dur.ledger, vol.ledger}
        PROVE  l \in Logs /\ l.records \in Records
    BY <2>1, FileTyped DEF Inv, TypeOK
  <2>2. ASSUME dur.ledger # None, l = Log(dur.ledger.records, TRUE)
        PROVE  l \in Logs /\ l.records \in Records /\ l.torn
    <3>1. dur.ledger.records \in Records
      BY <2>2, FileTyped DEF Inv, TypeOK
    <3> QED
      BY <2>2, <3>1 DEF Logs, Log
  <2> QED
    BY <1>3, <2>1, <2>2
<1>5. vol' \in Files
  BY <1>1, <1>4 DEF Inv, TypeOK, Files
<1>6. LogsExtend'
  <2>1. vol'.ledger # None => IsPrefix(vol'.ledger.records, vol'.ledger.records)
    BY <1>1, <1>4, PrefixReflexive DEF Records
  <2> QED
    BY <1>2, <2>1 DEF LogsExtend
<1>7. Marked'
  BY <1>1, <1>2 DEF Inv, Marked, history
<1>8. Binds'
  BY <1>1, <1>2, <1>4 DEF Inv, Binds, Allowed, history
<1> QED
  BY <1>2, <1>5, <1>6, <1>7, <1>8, GoneInv

LEMMA RestoreBackupInv == Inv /\ RestoreBackup => Inv'
<1> SUFFICES ASSUME Inv, RestoreBackup PROVE Inv'
  OBVIOUS
<1>1. /\ pc = "down" /\ vol.backup # None
      /\ vol' = [vol EXCEPT !.primary = vol.backup]
      /\ dur' = [dur EXCEPT !.primary = vol.backup]
      /\ UNCHANGED <<procVars, history>>
  BY DEF RestoreBackup
<1>2. /\ vol' \in Files /\ dur' \in Files
      /\ vol'.ledger = vol.ledger /\ dur'.ledger = dur.ledger
      /\ vol'.marker = vol.marker /\ dur'.marker = dur.marker
  BY <1>1 DEF Inv, TypeOK, Files
<1>3. TypeOK'
  BY <1>1, <1>2 DEF Inv, TypeOK, history, procVars
<1>4. LogsExtend'
  BY <1>2 DEF Inv, LogsExtend
<1>5. Marked' /\ Binds'
  BY <1>1, <1>2, FilesChosen DEF Inv, history
<1>6. Begins' /\ HoldsLog' /\ HoldsFiles'
  BY <1>1 DEF Begins, HoldsLog, HoldsFiles, Opening, Held, Served, procVars
<1> QED
  BY <1>3, <1>4, <1>5, <1>6 DEF Inv

-----------------------------------------------------------------------------
LEMMA Initially == Init => Inv
<1> SUFFICES ASSUME Init PROVE Inv
  OBVIOUS
<1>1. /\ vol.primary = None /\ vol.backup = None /\ vol.marker = None /\ vol.ledger = None
      /\ dur = vol /\ vol \in Files
  BY DEF Init, NoFiles, Files
<1>2. TypeOK
  <2>1. acked \in Accountings /\ observed \in 0..MaxClock
    BY StoreEmpty, BoundsAssumption DEF Init, Accountings
  <2>2. mem \in Store /\ committed \in Store /\ checkpoint \in Records
    BY StoreEmpty, EmptySeq DEF Init, Records
  <2> QED
    BY <1>1, <2>1, <2>2 DEF Init, TypeOK
<1>3. LogsExtend /\ Marked /\ Binds
  BY <1>1 DEF Init, LogsExtend, Marked, Binds
<1>4. Begins /\ HoldsLog /\ HoldsFiles
  BY DEF Init, Begins, HoldsLog, HoldsFiles, Opening, Held, Served
<1> QED
  BY <1>2, <1>3, <1>4 DEF Inv

LEMMA Stuttering == Inv /\ UNCHANGED vars => Inv'
<1> SUFFICES ASSUME Inv, UNCHANGED vars PROVE Inv'
  OBVIOUS
<1>1. UNCHANGED <<vol, dur, pc, mem, committed, checkpoint, recovered, acked, wanted, observed>>
  BY DEF vars, procVars, history
<1>2. TypeOK' /\ Begins' /\ HoldsLog' /\ HoldsFiles'
  BY <1>1 DEF Inv, TypeOK, Begins, HoldsLog, HoldsFiles, Allowed
<1>3. LogsExtend' /\ Marked' /\ Binds'
  BY <1>1, FilesKept DEF Inv
<1> QED
  BY <1>2, <1>3 DEF Inv

LEMMA Steps == Inv /\ [Next]_vars => Inv'
BY Stuttering, StartInv, WriteHeaderInv, SyncHeaderInv, LoadInv, OpenMarkerInv, OpenSyncInv,
   ReconcileInv, HandleInv, AppendInv, LedgerSyncInv, WriteMarkerInv, MarkerSyncInv,
   WriteBackupInv, BackupSyncInv, WriteSnapshotInv, SnapshotSyncInv,
   KillInv, TornAppendInv, PowerLossInv, RestoreBackupInv DEF Next

LEMMA Invariant == Spec => []Inv
BY Initially, Steps, PTL DEF Spec

-----------------------------------------------------------------------------
(* One durable value. *)

\* A step that neither opens, asks, acknowledges nor ends a process.
LEMMA Unseen ==
    ASSUME Running' <=> Running, Running => mem' = mem, UNCHANGED <<acked, wanted>>
    PROVE  UNCHANGED Durable!vars
BY DEF Durable!vars

\* The process that ends lets go of the value.
LEMMA GoneCrashes ==
    ASSUME Gone, UNCHANGED history
    PROVE  Durable!Crash \/ UNCHANGED Durable!vars
<1>1. ~Running'
  BY DEF Gone, Running
<1>2. CASE Running
  BY <1>1, <1>2 DEF Durable!Crash, history
<1>3. CASE ~Running
  BY <1>1, <1>3, Unseen DEF history
<1> QED
  BY <1>2, <1>3

LEMMA Asks ==
    ASSUME Inv, Running, NEW s \in Store, BeginPersist(s)
    PROVE  Durable!Ask
<1>1. /\ mem' = s /\ pc' \in {"append", "backup"} /\ acked' = acked
      /\ wanted' = wanted \cup {accounting(s)}
  BY DEF BeginPersist
<1>2. Running'
  BY <1>1 DEF Running
<1>3. accounting(s) \in Accountings
  BY DEF Store, accounting, Accountings
<1> QED
  BY <1>1, <1>2, <1>3 DEF Durable!Ask

\* open returns at Load, or after the checkpoint was rewritten.
LEMMA Opens ==
    ASSUME Inv, Inv', ~Running, pc' = "opened", UNCHANGED history
    PROVE  Durable!Open
<1>1. Running'
  BY DEF Running
<1>2. accounting(mem') \in Allowed
  BY DEF Inv, HoldsLog, Held, Served, Allowed, history
<1> QED
  BY <1>1, <1>2 DEF Durable!Open, Allowed, history

LEMMA Refines == Inv /\ Inv' /\ [Next]_vars => [Durable!Next]_Durable!vars
<1> SUFFICES ASSUME Inv, Inv', [Next]_vars PROVE Durable!Next \/ UNCHANGED Durable!vars
  OBVIOUS
<1>1. CASE UNCHANGED vars
  BY <1>1, Unseen DEF vars, procVars, history, Running
<1>2. CASE Start \/ WriteHeader \/ SyncHeader \/ OpenMarker
  <2>1. ~Running /\ ~Running' /\ UNCHANGED history
    BY <1>2 DEF Start, WriteHeader, SyncHeader, OpenMarker, Running
  <2> QED
    BY <2>1, Unseen DEF history
<1>3. CASE Load \/ OpenSync
  <2>1. ~Running /\ pc' \in {"opened", "openMarker"} /\ UNCHANGED history
    BY <1>3 DEF Load, OpenSync, Running
  <2>2. CASE pc' = "opened"
    BY <2>1, <2>2, Opens DEF Durable!Next
  <2>3. CASE pc' = "openMarker"
    BY <2>1, <2>3, Unseen DEF history, Running
  <2> QED
    BY <2>1, <2>2, <2>3
<1>4. CASE Reconcile
  <2>1. Running
    BY <1>4 DEF Reconcile, Running
  <2>2. PICK s \in Store :
          \/ BeginPersist(s)
          \/ pc' = "ready" /\ UNCHANGED <<vol, dur, mem, committed, checkpoint,
                                          recovered, bounds, history>>
    BY <1>4, Zenon DEF Reconcile
  <2>3. CASE BeginPersist(s)
    BY <2>1, <2>3, Asks DEF Durable!Next
  <2>4. CASE pc' = "ready" /\ UNCHANGED <<vol, dur, mem, committed, checkpoint,
                                          recovered, bounds, history>>
    BY <2>1, <2>4, Unseen DEF history, Running
  <2> QED
    BY <2>2, <2>3, <2>4
<1>5. CASE Handle
  <2>1. Running
    BY <1>5 DEF Handle, Running
  <2>2. PICK s \in Store : BeginPersist(s)
    BY <1>5, Zenon DEF Handle
  <2> QED
    BY <2>1, <2>2, Asks DEF Durable!Next
<1>6. CASE Append1 \/ LedgerSync \/ WriteMarker \/ MarkerSync
           \/ WriteBackup \/ BackupSync \/ WriteSnapshot
  <2>1. Running /\ Running' /\ mem' = mem /\ UNCHANGED history
    BY <1>6 DEF Append1, LedgerSync, WriteMarker, MarkerSync, WriteBackup, BackupSync,
                WriteSnapshot, Running
  <2> QED
    BY <2>1, Unseen DEF history
<1>7. CASE SnapshotSync
  <2>1. /\ Running /\ Running' /\ mem' = mem
        /\ acked' = accounting(mem) /\ wanted' = {}
    BY <1>7 DEF SnapshotSync, Running
  <2> QED
    BY <2>1 DEF Durable!Next, Durable!Acknowledge
<1>8. CASE Kill \/ TornAppend \/ PowerLoss
  <2>1. Gone /\ UNCHANGED history
    BY <1>8 DEF Kill, TornAppend, PowerLoss
  <2> QED
    BY <2>1, GoneCrashes DEF Durable!Next
<1>9. CASE RestoreBackup
  BY <1>9, Unseen DEF RestoreBackup, procVars, history, Running
<1> QED
  BY <1>1, <1>2, <1>3, <1>4, <1>5, <1>6, <1>7, <1>8, <1>9 DEF Next

\* The four files are one durable value: whatever kills, power failures,
\* failed writes and restored backups come between, a process that opens them
\* counts what was acknowledged last or asked for since (persist, open,
\* replay_accounting), for any number of each.
THEOREM DurableAccountingImplemented == Spec => ImplementsDurableAccounting
<1>1. Init => Durable!Init
  BY DEF Init, Durable!Init, Running
<1> QED
  BY <1>1, Invariant, Refines, PTL DEF Spec, Durable!Spec, ImplementsDurableAccounting

-----------------------------------------------------------------------------
(* The observed clock. *)

Counted == kills \in Nat /\ powerLosses \in Nat /\ restores \in Nat

\* Failures are counted up.
LEMMA CountsRise ==
    ASSUME Counted, [Next]_vars
    PROVE  /\ Counted'
           /\ kills' = 0 => kills = 0
           /\ powerLosses' = 0 => powerLosses = 0
           /\ restores' = 0 => restores = 0
<1>1. /\ kills' \in {kills, kills + 1} /\ powerLosses' \in {powerLosses, powerLosses + 1}
      /\ restores' \in {restores, restores + 1}
  BY DEF Next, vars, bounds, Start, WriteHeader, SyncHeader, Load, OpenMarker, OpenSync,
         Reconcile, Handle, BeginPersist, Append1, LedgerSync, WriteMarker, MarkerSync,
         WriteBackup, BackupSync, WriteSnapshot, SnapshotSync, Kill, TornAppend,
         PowerLoss, RestoreBackup
<1> QED
  BY <1>1 DEF Counted

\* What a snapshot says of the clock, and what the process holding it knows.
SnapshotClock ==
    restores = 0 => \A p \in {dur.primary, vol.primary} :
        IF p = None THEN observed = 0 ELSE p.store.clock >= observed
HeldClock == restores = 0 /\ pc \in Held => mem.clock >= observed

ClockInv == Counted /\ SnapshotClock /\ HeldClock

LEMMA ClockUndisturbed ==
    ASSUME ClockInv, restores' = 0 => restores = 0, observed' = observed,
           {dur'.primary, vol'.primary} \subseteq {dur.primary, vol.primary},
           pc' \in Held => pc \in Held /\ mem' = mem
    PROVE  SnapshotClock' /\ HeldClock'
BY DEF ClockInv, SnapshotClock, HeldClock

LEMMA ClockForward ==
    ASSUME Inv, ClockInv, pc \in Held, restores' = 0 => restores = 0,
           NEW s \in Store, s.clock >= mem.clock, BeginPersist(s)
    PROVE  SnapshotClock' /\ HeldClock'
<1>1. mem' = s /\ UNCHANGED <<vol, dur, observed>>
  BY DEF BeginPersist
<1>2. s.clock \in Int /\ mem.clock \in Int /\ observed \in Int
  BY DEF Inv, TypeOK, Store
<1> QED
  BY <1>1, <1>2 DEF ClockInv, SnapshotClock, HeldClock

LEMMA ClockSteps == Inv /\ ClockInv /\ [Next]_vars => ClockInv'
<1> SUFFICES ASSUME Inv, ClockInv, [Next]_vars PROVE ClockInv'
  OBVIOUS
<1>1. Counted' /\ (restores' = 0 => restores = 0)
  BY CountsRise DEF ClockInv
<1>2. vol \in Files /\ dur \in Files /\ mem \in Store /\ mem.clock \in Int /\ observed \in Nat
  BY DEF Inv, TypeOK, Store
<1>3. CASE \/ UNCHANGED vars
           \/ Start \/ WriteHeader \/ SyncHeader \/ OpenMarker \/ OpenSync
           \/ Append1 \/ LedgerSync \/ WriteMarker \/ MarkerSync \/ WriteBackup \/ BackupSync
  <2>1. {dur'.primary, vol'.primary} \subseteq {dur.primary, vol.primary}
    BY <1>2, <1>3 DEF vars, Start, WriteHeader, SyncHeader, OpenMarker, OpenSync, Append1,
       LedgerSync, WriteMarker, MarkerSync, WriteBackup, BackupSync, Rename, DirectorySync, Files
  <2>2. /\ pc' \in Held => pc \in Held /\ mem' = mem
        /\ observed' = observed
    BY <1>3 DEF vars, procVars, history, Start, WriteHeader, SyncHeader, OpenMarker, OpenSync,
       Append1, LedgerSync, WriteMarker, MarkerSync, WriteBackup, BackupSync, Held, Served
  <2> QED
    BY <1>1, <2>1, <2>2, ClockUndisturbed DEF ClockInv
<1>4. CASE Load
  <2>1. pc = "loaded" /\ mem' = OpenedStore(vol) /\ UNCHANGED <<vol, dur, bounds, history>>
    BY <1>4 DEF Load
  <2>2. CanOpen(vol) /\ vol.ledger # None
    BY <2>1 DEF Inv, Begins, Opening
  <2>3. mem' \in Store /\ mem'.clock \in Nat
    BY <1>2, <2>1, <2>2, OpenedAccounting DEF Store
  <2>4. vol.primary # None => mem'.clock >= vol.primary.store.clock
                              /\ vol.primary.store.clock \in Nat
    BY <1>2, <2>1, <2>2, OpenedAccounting, FileTyped DEF Store
  <2>5. SnapshotClock'
    BY <2>1 DEF ClockInv, SnapshotClock, bounds, history
  <2>6. HeldClock'
    <3> SUFFICES ASSUME restores = 0 PROVE mem'.clock >= observed
      BY <2>1 DEF HeldClock, bounds, history
    <3>1. CASE vol.primary = None
      BY <2>3, <3>1 DEF ClockInv, SnapshotClock
    <3>2. CASE vol.primary # None
      BY <1>2, <2>3, <2>4, <3>2 DEF ClockInv, SnapshotClock
    <3> QED
      BY <3>1, <3>2
  <2> QED
    BY <1>1, <2>5, <2>6 DEF ClockInv
<1>5. CASE Reconcile
  <2>1. pc \in Held
    BY <1>5 DEF Reconcile, Held, Served
  <2>2. PICK s \in Store, c \in {mem.clock, mem.clock + 1} :
          /\ s.clock = c
          /\ \/ BeginPersist(s)
             \/ pc' = "ready" /\ UNCHANGED <<vol, dur, mem, committed, checkpoint,
                                             recovered, bounds, history>>
    <3>1. PICK d \in {mem.day, mem.day + 1} \ {0}, c \in {mem.clock, mem.clock + 1} :
            LET s == [mem EXCEPT !.day = d, !.clock = c]
            IN  /\ s \in Store
                /\ \/ BeginPersist(s)
                   \/ pc' = "ready" /\ UNCHANGED <<vol, dur, mem, committed, checkpoint,
                                                   recovered, bounds, history>>
      BY <1>5, Zenon DEF Reconcile
    <3>2. [mem EXCEPT !.day = d, !.clock = c].clock = c
      BY <1>2 DEF Store
    <3> QED
      BY <3>1, <3>2
  <2>3. s.clock >= mem.clock
    BY <1>2, <2>2
  <2>4. CASE BeginPersist(s)
    BY <1>1, <2>1, <2>3, <2>4, ClockForward DEF ClockInv
  <2>5. CASE pc' = "ready" /\ UNCHANGED <<vol, dur, mem, committed, checkpoint,
                                          recovered, bounds, history>>
    BY <1>1, <2>1, <2>5, ClockUndisturbed DEF ClockInv, history
  <2> QED
    BY <2>2, <2>4, <2>5
<1>6. CASE Handle
  <2>1. pc \in Held
    BY <1>6 DEF Handle, Held, Served
  <2>2. PICK s \in {[mem EXCEPT !.starts = @ + 1], [mem EXCEPT !.day = @ + 1],
                    [mem EXCEPT !.clock = @ + 1]} : s \in Store /\ BeginPersist(s)
    BY <1>6 DEF Handle
  <2>3. /\ [mem EXCEPT !.starts = @ + 1].clock = mem.clock
        /\ [mem EXCEPT !.day = @ + 1].clock = mem.clock
        /\ [mem EXCEPT !.clock = @ + 1].clock = mem.clock + 1
    BY <1>2 DEF Store
  <2>4. s.clock = mem.clock \/ s.clock = mem.clock + 1
    BY <2>2, <2>3
  <2>5. s.clock >= mem.clock
    BY <1>2, <2>4
  <2> QED
    BY <1>1, <2>1, <2>2, <2>5, ClockForward DEF ClockInv
<1>7. CASE WriteSnapshot
  <2>1. /\ pc \in Held /\ dur' = dur /\ vol'.primary = [store |-> mem, checkpoint |-> checkpoint]
        /\ mem' = mem /\ observed' = observed /\ restores' = restores
    BY <1>2, <1>7 DEF WriteSnapshot, Rename, Files, Held, Served, bounds, history
  <2>2. vol'.primary # None /\ vol'.primary.store.clock = mem.clock
    <3>1. [store |-> mem, checkpoint |-> checkpoint] \in Snapshots
      BY DEF Inv, TypeOK, Snapshots
    <3> QED
      BY <2>1, <3>1, NoneApart
  <2> QED
    BY <1>1, <2>1, <2>2 DEF ClockInv, SnapshotClock, HeldClock
<1>8. CASE SnapshotSync
  <2>1. /\ pc = "snapshotSync" /\ vol' = vol /\ dur'.primary = vol.primary
        /\ mem' = mem /\ restores' = restores /\ observed' = max(observed, mem.clock)
    BY <1>2, <1>8 DEF SnapshotSync, DirectorySync, Files, bounds
  <2>2. restores = 0 => observed' = mem.clock
    BY <1>2, <2>1 DEF ClockInv, HeldClock, Held, Served, max
  <2>3. vol.primary # None /\ vol.primary.store.clock = mem.clock
    <3>1. vol.primary = [store |-> mem, checkpoint |-> checkpoint]
      BY <2>1 DEF Inv, HoldsFiles
    <3>2. [store |-> mem, checkpoint |-> checkpoint] \in Snapshots
      BY DEF Inv, TypeOK, Snapshots
    <3> QED
      BY <3>1, <3>2, NoneApart
  <2>4. mem.clock >= mem.clock
    BY <1>2
  <2> QED
    BY <1>1, <2>1, <2>2, <2>3, <2>4 DEF ClockInv, SnapshotClock, HeldClock
<1>9. CASE Kill \/ TornAppend \/ PowerLoss
  <2>1. pc' = "down" /\ observed' = observed
    BY <1>9 DEF Kill, TornAppend, PowerLoss, Gone, history
  <2>2. {dur'.primary, vol'.primary} \subseteq {dur.primary, vol.primary}
    <3>1. CASE Kill
      BY <3>1 DEF Kill
    <3>2. CASE TornAppend
      BY <1>2, <3>2 DEF TornAppend, Rename, Files
    <3>3. CASE PowerLoss
      <4>1. dur' = vol' /\ vol'.primary \in {dur.primary, vol.primary}
        BY <3>3 DEF PowerLoss
      <4> QED
        BY <4>1
    <3> QED
      BY <1>9, <3>1, <3>2, <3>3
  <2> QED
    BY <1>1, <2>1, <2>2, ClockUndisturbed DEF ClockInv, Held, Served
<1>10. CASE RestoreBackup
  <2>1. restores' # 0
    BY <1>10 DEF RestoreBackup, ClockInv, Counted
  <2> QED
    BY <1>1, <2>1 DEF ClockInv, SnapshotClock, HeldClock
<1> QED
  BY <1>3, <1>4, <1>5, <1>6, <1>7, <1>8, <1>9, <1>10 DEF Next

\* A process that has the state open knows how far the clock had come when a
\* process last persisted, unless the operator restored an older snapshot
\* (replay_accounting takes the later clock).
THEOREM ObservedClockRemembered == Spec => []ObservedClockKept
<1>1. Init => ClockInv
  BY DEF Init, NoFiles, ClockInv, Counted, SnapshotClock, HeldClock, Held, Served
<1>2. ClockInv => ObservedClockKept
  BY DEF ClockInv, HeldClock, ObservedClockKept, Running, Held, Served
<1> QED
  BY <1>1, <1>2, ClockSteps, Invariant, PTL DEF Spec

-----------------------------------------------------------------------------
(* The files open again. *)

\* A snapshot names a prefix of the log that ends with its own accounting.
Matches(p, records) ==
    /\ p.checkpoint # <<>> /\ IsPrefix(p.checkpoint, records)
    /\ accounting(Last(p.checkpoint)) = accounting(p.store)

NoStarts(records) == \A r \in Range(records) : r.starts = 0

\* The log is older than the checkpoint, the checkpoint than the snapshot, the
\* snapshot than the backup, and each fits the log.  g and h are what may be
\* read of one file and of another.
Compat(g, h) ==
    /\ g.ledger = None => h.primary = None /\ h.backup = None /\ h.marker = None
    /\ g.marker = None =>
         h.primary = None /\ (h.ledger # None => h.ledger.records = <<>>)
    /\ g.primary = None =>
         h.backup = None /\ (h.ledger # None => NoStarts(h.ledger.records))
    /\ h.ledger # None =>
         /\ g.marker # None => IsPrefix(g.marker, h.ledger.records)
         /\ g.primary # None => Matches(g.primary, h.ledger.records)
         /\ g.backup # None => Matches(g.backup, h.ledger.records)

Calm == powerLosses = 0 \/ kills = 0

Compatible ==
    /\ Calm => Compat(vol, vol)
    /\ kills = 0 => Compat(dur, dur) /\ Compat(dur, vol) /\ Compat(vol, dur)

\* Without a kill, only the file whose sync comes next may be lost.
Synced ==
    kills = 0 =>
        /\ pc \notin {"headerSync", "ledgerSync"} => dur.ledger = vol.ledger
        /\ pc \notin {"openSync", "markerSync"} => dur.marker = vol.marker
        /\ pc # "snapshotSync" => dur.primary = vol.primary
        /\ pc # "backupSync" => dur.backup = vol.backup

\* Before the first snapshot no start is reserved; from the first record on the
\* day is known.
Started ==
    /\ Calm /\ pc \in Held /\ vol.primary = None => mem.starts = 0 /\ pc # "ready"
    /\ pc \in Held \ {"openMarker", "openSync", "opened"} => mem.day >= 1

OpenInv == Counted /\ Compatible /\ Synced /\ Started

LEMMA CompatOpens ==
    ASSUME NEW f \in Files, Compat(f, f), f.ledger # None => ~f.ledger.torn
    PROVE  CanOpen(f) \/ (/\ f.primary = None /\ f.ledger # None
                          /\ Len(f.ledger.records) > 1 /\ NoStarts(f.ledger.records))
<1>1. CASE fresh(f)
  <2>1. f.ledger # None => f.ledger.records = <<>> /\ ~f.ledger.torn
    BY <1>1 DEF Compat, fresh
  <2> QED
    BY <1>1, <2>1 DEF CanOpen, FreshValid, read_log_ok
<1>2. CASE ~fresh(f)
  <2>1. f.ledger # None /\ f.marker # None /\ ~f.ledger.torn
        /\ IsPrefix(f.marker, f.ledger.records)
    BY <1>2 DEF Compat, fresh
  <2>2. CASE f.primary = None
    <3>1. f.backup = None /\ NoStarts(f.ledger.records)
      BY <2>1, <2>2 DEF Compat
    <3>2. Len(f.ledger.records) \in Nat
      BY <2>1, FileTyped, LenProperties DEF Records
    <3>3. Len(f.ledger.records) <= 1 => Initializing(f)
      BY <1>2, <2>1, <2>2, <3>1 DEF Initializing, read_log_ok, validate_checkpoint, NoStarts
    <3> QED
      BY <2>1, <2>2, <3>1, <3>2, <3>3 DEF CanOpen
  <2>3. CASE f.primary # None
    BY <2>1, <2>3 DEF Compat, Matches, CanOpen, SnapshotValid, read_log_ok, validate_checkpoint
  <2> QED
    BY <2>2, <2>3
<1> QED
  BY <1>1, <1>2

LEMMA FilesEqual ==
    ASSUME NEW f \in Files, NEW g \in Files, f.ledger = g.ledger, f.marker = g.marker,
           f.primary = g.primary, f.backup = g.backup
    PROVE  f = g
BY DEF Files

LEMMA MatchesAppend ==
    ASSUME NEW p \in Snapshots, NEW r \in Records, NEW e \in Store, Matches(p, r)
    PROVE  Matches(p, Append(r, e))
<1>1. p.checkpoint \in Records
  BY DEF Snapshots
<1>2. IsPrefix(p.checkpoint, Append(r, e))
  BY <1>1, PrefixOfAppend DEF Matches, Records
<1> QED
  BY <1>2 DEF Matches

LEMMA NoStartsEmpty == NoStarts(<<>>)
<1>1. Range(<<>>) = {}
  BY DEF Range
<1> QED
  BY <1>1 DEF NoStarts

\* Steps that leave the files alone.
LEMMA QuietCompatible ==
    ASSUME Compatible, Calm' => Calm, kills' = 0 => kills = 0, UNCHANGED <<vol, dur>>
    PROVE  Compatible'
BY DEF Compatible

\* After a sync, with no kill so far, both values of every file agree.
LEMMA SyncCompatible ==
    ASSUME Compatible, Calm' => Calm, vol' = vol, kills' = 0 => kills = 0 /\ dur' = vol
    PROVE  Compatible' /\ Synced'
<1>1. kills = 0 => Calm
  BY DEF Calm
<1> QED
  BY <1>1 DEF Compatible, Synced

\* Before a write, with no kill so far, they agree too.
LEMMA WriteCompatible ==
    ASSUME Compatible, Calm' => Calm, dur' = dur, kills' = 0 => kills = 0 /\ dur = vol,
           Calm => Compat(vol', vol') /\ Compat(vol, vol') /\ Compat(vol', vol)
    PROVE  Compatible'
<1>1. kills = 0 => Calm
  BY DEF Calm
<1> QED
  BY <1>1 DEF Compatible

LEMMA StartedOn ==
    ASSUME Started, Calm' => Calm, pc \in Held, pc' \in Held \ {"ready"}, mem' = mem,
           vol'.primary = None => vol.primary = None,
           pc' \notin {"openMarker", "openSync", "opened"} =>
               pc \notin {"openMarker", "openSync", "opened"}
    PROVE  Started'
BY DEF Started

LEMMA CalmFalls ==
    ASSUME OpenInv, [Next]_vars
    PROVE  Counted' /\ (Calm' => Calm) /\ (kills' = 0 => kills = 0)
BY CountsRise DEF OpenInv, Calm

LEMMA QuietSteps ==
    ASSUME Inv, Inv', OpenInv, [Next]_vars,
           UNCHANGED vars \/ Start \/ Load \/ Reconcile \/ Handle \/ Kill
    PROVE  OpenInv'
<1>1. Counted' /\ (Calm' => Calm) /\ (kills' = 0 => kills = 0)
  BY CalmFalls
<1>2. UNCHANGED <<vol, dur>>
  BY DEF vars, Start, Load, Reconcile, Handle, BeginPersist, Kill
<1>3. Compatible'
  BY <1>1, <1>2, QuietCompatible DEF OpenInv
<1>4. vol \in Files /\ mem \in Store /\ mem.day \in Int
  BY DEF Inv, TypeOK, Store
<1>5. Synced' /\ Started'
  <2>1. CASE UNCHANGED vars
    BY <1>1, <1>2, <2>1 DEF vars, procVars, bounds, OpenInv, Synced, Started, Calm
  <2>2. CASE Start
    BY <1>1, <1>2, <2>2 DEF Start, OpenInv, Synced, Started, Held, Served
  <2>3. CASE Load
    <3>1. /\ pc = "loaded" /\ pc' \in {"opened", "openMarker"} /\ mem' = OpenedStore(vol)
      BY <2>3 DEF Load
    <3>2. CanOpen(vol) /\ vol.ledger # None /\ vol.ledger.records \in Records
      BY <1>4, <3>1, FileTyped DEF Inv, Begins, Opening
    <3>3. ASSUME Calm, vol.primary = None PROVE mem'.starts = 0
      <4>1. NoStarts(vol.ledger.records)
        BY <3>2, <3>3 DEF OpenInv, Compatible, Compat
      <4>2. LastStore(vol.ledger.records).starts = 0
        BY <3>2, <4>1, LastOfSeq DEF LastStore, NoStarts, Empty
      <4>3. Empty.starts = 0
        BY DEF Empty
      <4> QED
        BY <1>4, <3>1, <3>2, <3>3, <4>2, <4>3, OpenedAccounting
    <3> QED
      BY <1>1, <1>2, <3>1, <3>3 DEF OpenInv, Synced, Started
  <2>4. CASE Reconcile
    <3>1. pc = "opened" /\ pc' \in {"ready", "append", "backup"}
      BY <2>4 DEF Reconcile, BeginPersist
    <3>2. /\ mem'.day # 0 /\ mem'.starts = mem.starts
          /\ pc' = "ready" => vol.primary # None
      <4>1. PICK d \in {mem.day, mem.day + 1} \ {0}, c \in {mem.clock, mem.clock + 1} :
              LET s == [mem EXCEPT !.day = d, !.clock = c]
              IN  IF s # mem \/ recovered \/ vol.primary = None THEN BeginPersist(s)
                  ELSE pc' = "ready" /\ mem' = mem
        BY <2>4, Zenon DEF Reconcile
      <4> DEFINE s == [mem EXCEPT !.day = d, !.clock = c]
      <4>2. s.day = d /\ s.starts = mem.starts /\ d # 0
        BY <1>4, <4>1 DEF Store
      <4> HIDE DEF s
      <4>3. CASE s # mem \/ recovered \/ vol.primary = None
        <5>1. BeginPersist(s)
          BY <4>1, <4>3 DEF s
        <5> QED
          BY <4>2, <5>1 DEF BeginPersist
      <4>4. CASE ~(s # mem \/ recovered \/ vol.primary = None)
        <5>1. mem' = mem /\ s = mem /\ vol.primary # None
          BY <4>1, <4>4 DEF s
        <5> QED
          BY <4>2, <5>1
      <4> QED
        BY <4>3, <4>4
    <3>3. mem'.day >= 1
      BY <3>2 DEF Inv, TypeOK, Store
    <3> QED
      BY <1>1, <1>2, <3>1, <3>2, <3>3 DEF OpenInv, Synced, Started, Held, Served
  <2>5. CASE Handle
    <3>1. pc = "ready" /\ pc' \in {"append", "backup"}
      BY <2>5 DEF Handle, BeginPersist
    <3>2. PICK s \in {[mem EXCEPT !.starts = @ + 1], [mem EXCEPT !.day = @ + 1],
                      [mem EXCEPT !.clock = @ + 1]} : mem' = s
      BY <2>5 DEF Handle, BeginPersist
    <3>3. mem'.day \in {mem.day, mem.day + 1}
      BY <1>4, <3>2 DEF Store
    <3>4. mem.day >= 1 /\ (Calm => vol.primary # None)
      BY <3>1 DEF OpenInv, Started, Held, Served
    <3>5. mem'.day >= 1
      BY <1>4, <3>3, <3>4
    <3> QED
      BY <1>1, <1>2, <3>1, <3>4, <3>5 DEF OpenInv, Synced, Started, Held, Served
  <2>6. CASE Kill
    BY <1>1, <2>6 DEF Kill, Gone, OpenInv, Counted, Synced, Started, Held, Served
  <2> QED
    BY <2>1, <2>2, <2>3, <2>4, <2>5, <2>6
<1> QED
  BY <1>1, <1>3, <1>5 DEF OpenInv

\* With no kill so far, a sync leaves no difference.
LEMMA SyncSteps ==
    ASSUME Inv, Inv', OpenInv, [Next]_vars,
           SyncHeader \/ OpenSync \/ LedgerSync \/ MarkerSync \/ BackupSync \/ SnapshotSync
    PROVE  OpenInv'
<1>1. Counted' /\ (Calm' => Calm) /\ (kills' = 0 => kills = 0)
  BY CalmFalls
<1>2. vol' = vol /\ vol \in Files /\ dur \in Files /\ dur' \in Files /\ mem' = mem
  BY DEF Inv, TypeOK, SyncHeader, OpenSync, LedgerSync, MarkerSync, BackupSync,
         SnapshotSync, DirectorySync
<1>3. ASSUME kills = 0 PROVE dur' = vol
  <2>1. CASE LedgerSync
    <3>1. pc = "ledgerSync" /\ dur' = [dur EXCEPT !.ledger = vol.ledger]
      BY <2>1 DEF LedgerSync
    <3>2. /\ dur'.ledger = vol.ledger /\ dur'.marker = dur.marker
          /\ dur'.primary = dur.primary /\ dur'.backup = dur.backup
      BY <1>2, <3>1 DEF Files
    <3>3. dur.marker = vol.marker /\ dur.primary = vol.primary /\ dur.backup = vol.backup
      BY <1>3, <3>1 DEF OpenInv, Synced
    <3> QED
      BY <1>2, <3>2, <3>3, FilesEqual
  <2>2. CASE ~LedgerSync
    <3>1. /\ DirectorySync
          /\ pc \in {"headerSync", "openSync", "markerSync", "backupSync", "snapshotSync"}
      BY <2>2 DEF SyncHeader, OpenSync, MarkerSync, BackupSync, SnapshotSync
    <3>2. /\ dur'.marker = vol.marker /\ dur'.primary = vol.primary
          /\ dur'.backup = vol.backup
          /\ dur'.ledger = IF dur.ledger = None THEN vol.ledger ELSE dur.ledger
      BY <3>1, SyncedDirectory DEF Inv
    <3>3. dur.ledger = None \/ dur.ledger = vol.ledger
      BY <1>3, <3>1 DEF Inv, Begins, OpenInv, Synced
    <3> QED
      BY <1>2, <3>2, <3>3, FilesEqual
  <2> QED
    BY <2>1, <2>2
<1>4. Compatible' /\ Synced'
  BY <1>1, <1>2, <1>3, SyncCompatible DEF OpenInv
<1>5. Started'
  <2>1. CASE SyncHeader
    BY <2>1 DEF SyncHeader, Started, Held, Served
  <2>2. CASE SnapshotSync
    <3>1. pc = "snapshotSync" /\ pc' = "ready"
      BY <2>2 DEF SnapshotSync
    <3>2. vol.primary # None
      <4>1. vol.primary = [store |-> mem, checkpoint |-> checkpoint]
        BY <3>1 DEF Inv, HoldsFiles
      <4>2. [store |-> mem, checkpoint |-> checkpoint] \in Snapshots
        BY DEF Inv, TypeOK, Snapshots
      <4> QED
        BY <4>1, <4>2, NoneApart
    <3> QED
      BY <1>2, <3>1, <3>2 DEF OpenInv, Started, Held, Served
  <2>3. CASE OpenSync \/ LedgerSync \/ MarkerSync \/ BackupSync
    <3>1. /\ pc \in Held /\ pc' \in Held \ {"ready"}
          /\ pc' \notin {"openMarker", "openSync", "opened"} =>
               pc \notin {"openMarker", "openSync", "opened"}
      BY <2>3 DEF OpenSync, LedgerSync, MarkerSync, BackupSync, Held, Served
    <3> QED
      BY <1>1, <1>2, <3>1, StartedOn DEF OpenInv
  <2> QED
    BY <2>1, <2>2, <2>3
<1> QED
  BY <1>1, <1>4, <1>5 DEF OpenInv

\* A write that comes when nothing waits for a sync.
LEMMA WriteSynced ==
    ASSUME Inv, Inv', OpenInv, [Next]_vars, dur' = dur,
           pc \in {"header", "openMarker", "append", "marker", "backup", "snapshot"},
           vol'.ledger # vol.ledger => pc' \in {"headerSync", "ledgerSync"},
           vol'.marker # vol.marker => pc' \in {"openSync", "markerSync"},
           vol'.primary # vol.primary => pc' = "snapshotSync",
           vol'.backup # vol.backup => pc' = "backupSync",
           Calm => Compat(vol', vol') /\ Compat(vol, vol') /\ Compat(vol', vol)
    PROVE  Compatible' /\ Synced'
<1>1. Counted' /\ (Calm' => Calm) /\ (kills' = 0 => kills = 0)
  BY CalmFalls
<1>2. kills = 0 => dur = vol
  BY FilesEqual DEF Inv, TypeOK, OpenInv, Synced
<1> QED
  BY <1>1, <1>2, WriteCompatible DEF OpenInv, Synced

LEMMA HeaderStep ==
    ASSUME Inv, Inv', OpenInv, [Next]_vars, WriteHeader
    PROVE  OpenInv'
<1> DEFINE new == Log(<<>>, FALSE)
<1>1. pc = "header" /\ pc' = "headerSync" /\ Rename("ledger", new)
  BY DEF WriteHeader
<1>2. new \in Logs /\ new.records = <<>>
  BY EmptySeq DEF Logs, Log, Records
<1> HIDE DEF new
<1>3. /\ dur' = dur /\ vol'.ledger = new /\ vol'.marker = vol.marker
      /\ vol'.primary = vol.primary /\ vol'.backup = vol.backup
  BY <1>1, <1>2, RenamedLedger DEF Inv
<1>4. vol.ledger = None /\ vol.marker = None /\ vol.primary = None /\ vol.backup = None
  BY <1>1, OpenWithoutLedger DEF Inv, TypeOK, Begins, Opening
<1>5. new # None
  BY <1>2, NoneApart
<1>6. Compat(vol', vol') /\ Compat(vol, vol') /\ Compat(vol', vol)
  BY <1>2, <1>3, <1>4, <1>5, NoStartsEmpty DEF Compat
<1>7. Compatible' /\ Synced'
  BY <1>1, <1>3, <1>6, WriteSynced
<1>8. Started'
  BY <1>1 DEF Started, Held, Served
<1> QED
  BY <1>7, <1>8, CalmFalls DEF OpenInv

LEMMA OpenMarkerStep ==
    ASSUME Inv, Inv', OpenInv, [Next]_vars, OpenMarker
    PROVE  OpenInv'
<1>1. pc = "openMarker" /\ pc' = "openSync" /\ Rename("marker", checkpoint) /\ mem' = mem
  BY DEF OpenMarker
<1>2. /\ dur' = dur /\ vol'.marker = checkpoint /\ vol'.ledger = vol.ledger
      /\ vol'.primary = vol.primary /\ vol'.backup = vol.backup
  BY <1>1, RenamedMarker DEF Inv, TypeOK
<1>3. vol.ledger # None /\ vol.ledger.records = checkpoint /\ checkpoint \in Records
  BY <1>1 DEF Inv, TypeOK, HoldsLog, Held, Appended
<1>4. checkpoint # None /\ IsPrefix(checkpoint, checkpoint)
  BY <1>3, NoneApart, PrefixReflexive DEF Records
<1>5. ASSUME Calm PROVE Compat(vol', vol') /\ Compat(vol, vol') /\ Compat(vol', vol)
  BY <1>2, <1>3, <1>4, <1>5 DEF OpenInv, Compatible, Compat
<1>6. Compatible' /\ Synced'
  BY <1>1, <1>2, <1>5, WriteSynced
<1>7. Started'
  BY <1>1, <1>2, CalmFalls, StartedOn DEF OpenInv, Held, Served
<1> QED
  BY <1>6, <1>7, CalmFalls DEF OpenInv

LEMMA AppendStep ==
    ASSUME Inv, Inv', OpenInv, [Next]_vars, Append1
    PROVE  OpenInv'
<1> DEFINE records == Append(checkpoint, mem)
           new == Log(records, FALSE)
<1>1. /\ pc = "append" /\ pc' = "ledgerSync" /\ mem' = mem
      /\ Rename("ledger", Log(Append(vol.ledger.records, mem), FALSE))
  BY DEF Append1
<1>2. /\ vol.ledger # None /\ vol.ledger.records = checkpoint /\ vol.marker = checkpoint
      /\ checkpoint \in Records /\ mem \in Store
  BY <1>1 DEF Inv, TypeOK, HoldsLog, HoldsFiles, Held, Served, Appended
<1>3. records \in Records /\ Range(records) = Range(checkpoint) \cup {mem}
  BY <1>2, AppendAcc
<1>4. new \in Logs /\ new.records = records /\ Rename("ledger", new)
  BY <1>1, <1>2, <1>3 DEF Logs, Log
<1>5. IsPrefix(checkpoint, records)
  BY <1>2, PrefixReflexive, PrefixOfAppend DEF Records
<1>6. \A p \in Snapshots : Matches(p, checkpoint) => Matches(p, records)
  BY <1>2, MatchesAppend
<1>7. ASSUME Calm, vol.primary = None PROVE NoStarts(records)
  <2>1. mem.starts = 0
    BY <1>1, <1>7 DEF OpenInv, Started, Held, Served
  <2>2. NoStarts(checkpoint)
    BY <1>2, <1>7 DEF OpenInv, Compatible, Compat
  <2> QED
    BY <1>3, <2>1, <2>2 DEF NoStarts
<1> HIDE DEF new, records
<1>8. /\ dur' = dur /\ vol'.ledger = new /\ vol'.marker = vol.marker
      /\ vol'.primary = vol.primary /\ vol'.backup = vol.backup
  BY <1>4, RenamedLedger DEF Inv
<1>9. new # None /\ checkpoint # None
  BY <1>2, <1>4, NoneApart
<1>10. /\ vol.primary # None => vol.primary \in Snapshots
       /\ vol.backup # None => vol.backup \in Snapshots
  BY FileTyped DEF Inv, TypeOK
<1>11. ASSUME Calm PROVE Compat(vol', vol') /\ Compat(vol, vol') /\ Compat(vol', vol)
  <2>1. Compat(vol, vol)
    BY <1>11 DEF OpenInv, Compatible
  <2>2. /\ vol.primary = None => vol.backup = None
        /\ vol.primary # None => Matches(vol.primary, checkpoint)
        /\ vol.backup # None => Matches(vol.backup, checkpoint)
    BY <1>2, <2>1 DEF Compat
  <2>3. /\ vol.primary # None => Matches(vol.primary, records)
        /\ vol.backup # None => Matches(vol.backup, records)
    BY <1>6, <1>10, <2>2
  <2> QED
    BY <1>2, <1>4, <1>5, <1>7, <1>8, <1>9, <1>11, <2>1, <2>2, <2>3 DEF Compat
<1>12. Compatible' /\ Synced'
  BY <1>1, <1>8, <1>11, WriteSynced
<1>13. Started'
  BY <1>1, <1>8, CalmFalls, StartedOn DEF OpenInv, Held, Served
<1> QED
  BY <1>12, <1>13, CalmFalls DEF OpenInv

LEMMA WriteMarkerStep ==
    ASSUME Inv, Inv', OpenInv, [Next]_vars, WriteMarker
    PROVE  OpenInv'
<1> DEFINE new == Append(checkpoint, mem)
<1>1. pc = "marker" /\ pc' = "markerSync" /\ Rename("marker", new) /\ mem' = mem
  BY DEF WriteMarker
<1>2. new \in Records
  BY AppendAcc DEF Inv, TypeOK
<1>3. /\ vol.ledger # None /\ vol.ledger.records = new /\ vol.marker = checkpoint
      /\ checkpoint \in Records
  BY <1>1 DEF Inv, TypeOK, HoldsLog, HoldsFiles, Held, Served, Appended
<1>4. new # None /\ checkpoint # None /\ IsPrefix(new, new)
  BY <1>2, <1>3, NoneApart, PrefixReflexive DEF Records
<1> HIDE DEF new
<1>5. /\ dur' = dur /\ vol'.marker = new /\ vol'.ledger = vol.ledger
      /\ vol'.primary = vol.primary /\ vol'.backup = vol.backup
  BY <1>1, <1>2, RenamedMarker DEF Inv
<1>6. ASSUME Calm PROVE Compat(vol', vol') /\ Compat(vol, vol') /\ Compat(vol', vol)
  BY <1>3, <1>4, <1>5, <1>6 DEF OpenInv, Compatible, Compat
<1>7. Compatible' /\ Synced'
  BY <1>1, <1>5, <1>6, WriteSynced
<1>8. Started'
  BY <1>1, <1>5, CalmFalls, StartedOn DEF OpenInv, Held, Served
<1> QED
  BY <1>7, <1>8, CalmFalls DEF OpenInv

LEMMA WriteBackupStep ==
    ASSUME Inv, Inv', OpenInv, [Next]_vars, WriteBackup
    PROVE  OpenInv'
<1>1. pc = "backup" /\ mem' = mem /\ pc' \in {"backupSync", "snapshot"}
  BY DEF WriteBackup
<1>2. /\ vol.ledger # None /\ vol.ledger.records = checkpoint /\ vol.marker = checkpoint
      /\ checkpoint \in Records
  BY <1>1 DEF Inv, TypeOK, HoldsLog, HoldsFiles, Held, Served, Appended
<1>3. checkpoint # None
  BY <1>2, NoneApart
<1>4. /\ dur' = dur /\ vol'.marker = vol.marker /\ vol'.ledger = vol.ledger
      /\ vol'.primary = vol.primary
      /\ \/ vol.primary # None /\ vol'.backup = vol.primary /\ pc' = "backupSync"
         \/ vol'.backup = vol.backup
  <2>1. CASE vol.primary = None
    BY <2>1 DEF WriteBackup
  <2>2. CASE vol.primary # None
    <3>1. vol.primary \in Snapshots
      BY <2>2, FileTyped DEF Inv, TypeOK
    <3> QED
      BY <2>2, <3>1, RenamedBackup DEF WriteBackup, Inv
  <2> QED
    BY <2>1, <2>2
<1>5. ASSUME Calm PROVE Compat(vol', vol') /\ Compat(vol, vol') /\ Compat(vol', vol)
  BY <1>2, <1>3, <1>4, <1>5 DEF OpenInv, Compatible, Compat
<1>6. Compatible' /\ Synced'
  BY <1>1, <1>4, <1>5, WriteSynced
<1>7. Started'
  BY <1>1, <1>4, CalmFalls, StartedOn DEF OpenInv, Held, Served
<1> QED
  BY <1>6, <1>7, CalmFalls DEF OpenInv

LEMMA WriteSnapshotStep ==
    ASSUME Inv, Inv', OpenInv, [Next]_vars, WriteSnapshot
    PROVE  OpenInv'
<1> DEFINE new == [store |-> mem, checkpoint |-> checkpoint]
<1>1. pc = "snapshot" /\ pc' = "snapshotSync" /\ Rename("primary", new) /\ mem' = mem
  BY DEF WriteSnapshot
<1>2. /\ vol.ledger # None /\ vol.ledger.records = checkpoint /\ vol.marker = checkpoint
      /\ accounting(mem) = Acc(checkpoint) /\ checkpoint \in Records /\ mem \in Store
  BY <1>1 DEF Inv, TypeOK, HoldsLog, HoldsFiles, Held, Served, Appended, Settled
<1>3. new \in Snapshots /\ new # None /\ checkpoint # None
  BY <1>2, NoneApart DEF Snapshots
<1>4. checkpoint # <<>>
  <2>1. mem.day >= 1 /\ accounting(mem)[1] = mem.day
    BY <1>1 DEF OpenInv, Started, Held, Served, accounting
  <2>2. ASSUME checkpoint = <<>> PROVE FALSE
    <3>1. Acc(checkpoint) = <<0, 0>>
      BY <2>2, StoreEmpty DEF Acc, LastStore
    <3>2. mem.day = 0
      BY <1>2, <3>1 DEF accounting
    <3> QED
      BY <2>1, <3>2
  <2> QED
    BY <2>2
<1>5. Matches(new, checkpoint)
  <2>1. accounting(Last(checkpoint)) = accounting(mem)
    BY <1>2, <1>4 DEF Acc, LastStore
  <2>2. IsPrefix(checkpoint, checkpoint)
    BY <1>2, PrefixReflexive DEF Records
  <2> QED
    BY <1>4, <2>1, <2>2 DEF Matches
<1> HIDE DEF new
<1>6. /\ dur' = dur /\ vol'.primary = new /\ vol'.ledger = vol.ledger
      /\ vol'.marker = vol.marker /\ vol'.backup = vol.backup
  BY <1>1, <1>3, RenamedPrimary DEF Inv
<1>7. ASSUME Calm PROVE Compat(vol', vol') /\ Compat(vol, vol') /\ Compat(vol', vol)
  BY <1>2, <1>3, <1>5, <1>6, <1>7 DEF OpenInv, Compatible, Compat
<1>8. Compatible' /\ Synced'
  BY <1>1, <1>6, <1>7, WriteSynced
<1>9. Started'
  BY <1>1, <1>3, <1>6, CalmFalls, StartedOn DEF OpenInv, Held, Served
<1> QED
  BY <1>8, <1>9, CalmFalls DEF OpenInv

LEMMA FailureSteps ==
    ASSUME Inv, Inv', OpenInv, [Next]_vars, TornAppend \/ PowerLoss \/ RestoreBackup
    PROVE  OpenInv'
<1>1. Counted' /\ (Calm' => Calm) /\ (kills' = 0 => kills = 0)
  BY CalmFalls
<1>2. pc' = "down"
  BY DEF TornAppend, PowerLoss, RestoreBackup, Gone, procVars
<1>3. Started'
  BY <1>2 DEF Started, Held, Served
<1>4. Compatible' /\ Synced'
  <2>1. CASE TornAppend
    <3> DEFINE new == Log(vol.ledger.records, TRUE)
    <3>0. kills' # 0
      BY <2>1 DEF TornAppend, OpenInv, Counted
    <3>1. pc = "append" /\ Rename("ledger", new)
      BY <2>1 DEF TornAppend
    <3>2. vol.ledger # None
      BY <3>1 DEF Inv, HoldsLog, Held, Served
    <3>3. new \in Logs /\ new # None /\ new.records = vol.ledger.records
      BY <3>2, FileTyped, NoneApart DEF Inv, TypeOK, Logs, Log
    <3> HIDE DEF new
    <3>4. /\ vol'.ledger = new /\ vol'.marker = vol.marker
          /\ vol'.primary = vol.primary /\ vol'.backup = vol.backup
      BY <3>1, <3>3, RenamedLedger DEF Inv
    <3>5. Calm => Compat(vol', vol')
      BY <3>2, <3>3, <3>4 DEF OpenInv, Compatible, Compat
    <3> QED
      BY <1>1, <3>0, <3>5 DEF Compatible, Synced
  <2>2. CASE PowerLoss
    <3>1. PICK p \in {dur.primary, vol.primary}, b \in {dur.backup, vol.backup},
               m \in {dur.marker, vol.marker}, l \in LogsAfterPowerLoss :
            vol' = [primary |-> p, backup |-> b, marker |-> m, ledger |-> l]
      BY <2>2 DEF PowerLoss
    <3>2. dur' = vol' /\ kills' = kills /\ powerLosses' # 0
      BY <2>2 DEF PowerLoss, OpenInv, Counted
    <3>3. PICK k \in {dur.ledger, vol.ledger} :
            l = k \/ (k # None /\ l # None /\ l.records = k.records)
      <4>1. ASSUME dur.ledger # None, l = Log(dur.ledger.records, TRUE)
            PROVE  l # None /\ l.records = dur.ledger.records
        <5>1. l \in Logs /\ l.records = dur.ledger.records
          BY <4>1, FileTyped DEF Inv, TypeOK, Logs, Log
        <5> QED
          BY <5>1, NoneApart
      <4> QED
        BY <4>1 DEF LogsAfterPowerLoss
    <3>4. /\ vol'.primary = p /\ vol'.backup = b /\ vol'.marker = m /\ vol'.ledger = l
      BY <3>1
    <3>5. ASSUME kills = 0 PROVE Compat(vol', vol')
      <4>1. Compat(vol, vol) /\ Compat(dur, dur) /\ Compat(dur, vol) /\ Compat(vol, dur)
        BY <3>5 DEF OpenInv, Compatible, Calm
      <4>2. /\ k = None => p = None /\ b = None /\ m = None
            /\ m = None => p = None /\ (k # None => k.records = <<>>)
            /\ p = None => b = None /\ (k # None => NoStarts(k.records))
            /\ k # None => /\ m # None => IsPrefix(m, k.records)
                           /\ p # None => Matches(p, k.records)
                           /\ b # None => Matches(b, k.records)
        <5>1. /\ k = None => p = None /\ b = None /\ m = None
              /\ m = None => p = None /\ (k # None => k.records = <<>>)
          BY <3>3, <4>1 DEF Compat
        <5>2. p = None => b = None /\ (k # None => NoStarts(k.records))
          BY <3>3, <4>1 DEF Compat
        <5>3. k # None => /\ m # None => IsPrefix(m, k.records)
                          /\ p # None => Matches(p, k.records)
                          /\ b # None => Matches(b, k.records)
          BY <3>3, <4>1 DEF Compat
        <5> QED
          BY <5>1, <5>2, <5>3
      <4> QED
        BY <3>3, <3>4, <4>2 DEF Compat
    <3> QED
      BY <3>2, <3>5 DEF Compatible, Synced, Calm
  <2>3. CASE RestoreBackup
    <3>1. /\ vol.backup # None /\ pc = "down" /\ kills' = kills
          /\ vol' = [vol EXCEPT !.primary = vol.backup]
          /\ dur' = [dur EXCEPT !.primary = vol.backup]
      BY <2>3 DEF RestoreBackup
    <3>2. /\ vol'.primary = vol.backup /\ dur'.primary = vol.backup
          /\ vol'.ledger = vol.ledger /\ dur'.ledger = dur.ledger
          /\ vol'.marker = vol.marker /\ dur'.marker = dur.marker
          /\ vol'.backup = vol.backup /\ dur'.backup = dur.backup
      BY <3>1 DEF Inv, TypeOK, Files
    <3>3. Calm => Compat(vol', vol')
      BY <3>1, <3>2 DEF OpenInv, Compatible, Compat
    <3>4. ASSUME kills = 0
          PROVE  Compat(dur', dur') /\ Compat(dur', vol') /\ Compat(vol', dur') /\ Synced'
      <4>1. /\ dur.ledger = vol.ledger /\ dur.marker = vol.marker
            /\ dur.primary = vol.primary /\ dur.backup = vol.backup
        BY <3>1, <3>4 DEF OpenInv, Synced
      <4>2. Compat(vol', vol')
        BY <3>3, <3>4 DEF Calm
      <4> QED
        BY <3>2, <4>1, <4>2 DEF Compat, Synced
    <3> QED
      BY <1>1, <3>1, <3>3, <3>4 DEF Compatible, Synced
  <2> QED
    BY <2>1, <2>2, <2>3
<1> QED
  BY <1>1, <1>3, <1>4 DEF OpenInv

LEMMA OpenSteps == Inv /\ Inv' /\ OpenInv /\ [Next]_vars => OpenInv'
BY QuietSteps, SyncSteps, HeaderStep, OpenMarkerStep, AppendStep, WriteMarkerStep,
   WriteBackupStep, WriteSnapshotStep, FailureSteps DEF Next

LEMMA OpenInitially == Init => OpenInv
<1> SUFFICES ASSUME Init PROVE OpenInv
  OBVIOUS
<1>1. /\ vol.primary = None /\ vol.backup = None /\ vol.marker = None /\ vol.ledger = None
      /\ dur = vol
  BY DEF Init, NoFiles
<1>2. Compat(vol, vol)
  BY <1>1 DEF Compat
<1>3. Compatible /\ Synced
  BY <1>1, <1>2 DEF Compatible, Synced
<1>4. Counted /\ Started
  BY DEF Init, Counted, Started, Held, Served
<1> QED
  BY <1>3, <1>4 DEF OpenInv

\* Wherever kills and failed writes interrupt open or persist, or else power
\* failures do, the files left behind open again; the only exceptions are a
\* record cut short and an initialization interrupted on two days.
THEOREM InterruptedFilesOpen == Spec => []FilesOpenAgain
<1>1. Inv /\ OpenInv => FilesOpenAgain
  <2> SUFFICES ASSUME Inv, OpenInv PROVE FilesOpenAgain
    OBVIOUS
  <2>1. Calm /\ Whole => CanOpen(vol) \/ InitializedOnTwoDays
    <3>1. vol \in Files
      BY DEF Inv, TypeOK
    <3> QED
      BY <3>1, CompatOpens DEF OpenInv, Compatible, Whole, InitializedOnTwoDays, NoStarts
  <2>2. KilledOpens /\ PowerLossOpens
    BY <2>1 DEF KilledOpens, PowerLossOpens, Calm
  <2> QED
    BY <2>2 DEF Inv, FilesOpenAgain
<1> QED
  BY <1>1, OpenInitially, OpenSteps, Invariant, PTL DEF Spec
=============================================================================
