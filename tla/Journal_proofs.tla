--------------------------- MODULE Journal_proofs ---------------------------
(***************************************************************************)
(* Proofs about Journal, for every sequence of batches, every size limit   *)
(* and any number of segments, kills, failed steps, power failures and     *)
(* clock changes: an acknowledged batch stays whole in one file, what an   *)
(* interruption leaves opens again, and rotation keeps to its bounds.      *)
(*                                                                         *)
(* The key is that a file differs from its synced content only where the   *)
(* next start recovers it (Settled), and that what is synced contains      *)
(* every row of every acknowledged batch (Kept).                           *)
(***************************************************************************)
EXTENDS Journal, FiniteSetTheorems, SequenceTheorems, TLAPS

-----------------------------------------------------------------------------
(* File contents. *)

\* g is f with the first k rows of b behind it.
Extended(f, g, b, k) ==
    /\ g \in Contents /\ g.header = f.header
    /\ Len(g.rows) = Len(f.rows) + k
    /\ \A i \in 1..Len(f.rows) : g.rows[i] = f.rows[i]
    /\ \A i \in 1..k : g.rows[Len(f.rows) + i] = <<b, i>>
    /\ g.corrupt => f.corrupt \/ f.torn

LEMMA RowsTyped ==
    ASSUME NEW f \in Contents
    PROVE  /\ f.rows \in Seq(Batches \X Nat) /\ Len(f.rows) \in Nat
           /\ f.rows = <<>> <=> Len(f.rows) = 0
           /\ \A i \in 1..Len(f.rows) : f.rows[i] \in Batches \X Nat
           /\ f.header \in Headers /\ f.torn \in BOOLEAN /\ f.corrupt \in BOOLEAN
<1>1. f.rows \in Seq(Batches \X Nat) /\ f.header \in Headers
      /\ f.torn \in BOOLEAN /\ f.corrupt \in BOOLEAN
  BY DEF Contents
<1>2. f.rows = <<>> <=> Len(f.rows) = 0
  BY <1>1, EmptySeq
<1> QED
  BY <1>1, <1>2, LenProperties, ElementOfSeq

LEMMA SizesTyped ==
    ASSUME NEW b \in Batches
    PROVE  BatchSizes[b] \in Nat \ {0} /\ b \in Nat \ {0} /\ b <= Len(BatchSizes)
<1>1. BatchSizes \in Seq(Nat \ {0})
  BY BatchAssumption
<1>2. DOMAIN BatchSizes = 1..Len(BatchSizes) /\ Len(BatchSizes) \in Nat
  BY <1>1, LenProperties
<1> QED
  BY <1>1, <1>2, ElementOfSeq DEF Batches

LEMMA BatchRows ==
    ASSUME NEW b \in Batches, NEW k \in 0..BatchSizes[b]
    PROVE  /\ Rows(b) \in Seq(Batches \X Nat) /\ Len(Rows(b)) = BatchSizes[b]
           /\ SubSeq(Rows(b), 1, k) \in Seq(Batches \X Nat) /\ Len(SubSeq(Rows(b), 1, k)) = k
           /\ \A i \in 1..k : SubSeq(Rows(b), 1, k)[i] = <<b, i>>
           /\ \A i \in 1..BatchSizes[b] : Rows(b)[i] = <<b, i>>
<1>1. BatchSizes[b] \in Nat \ {0}
  BY SizesTyped
<1>2. Rows(b) \in [1..BatchSizes[b] -> Batches \X Nat]
  BY <1>1 DEF Rows
<1>3. Rows(b) \in Seq(Batches \X Nat)
  BY <1>1, <1>2, IsASeq
<1>4. Len(Rows(b)) = BatchSizes[b]
  BY <1>1, <1>2, <1>3, LenProperties
<1>5. \A i \in 1..BatchSizes[b] : Rows(b)[i] = <<b, i>>
  BY DEF Rows
<1>6. \A i \in 1..k : Rows(b)[i] \in Batches \X Nat
  BY <1>1, <1>2
<1>7. /\ SubSeq(Rows(b), 1, k) \in Seq(Batches \X Nat)
      /\ Len(SubSeq(Rows(b), 1, k)) = IF 1 <= k THEN k - 1 + 1 ELSE 0
      /\ \A i \in 1..(k - 1 + 1) : SubSeq(Rows(b), 1, k)[i] = Rows(b)[1 + i - 1]
  BY <1>1, <1>6, SubSeqProperties
<1> QED
  BY <1>1, <1>3, <1>4, <1>5, <1>7

LEMMA ConcatRows ==
    ASSUME NEW f \in Contents, NEW s \in Seq(Batches \X Nat)
    PROVE  /\ f.rows \o s \in Seq(Batches \X Nat) /\ Len(f.rows \o s) = Len(f.rows) + Len(s)
           /\ \A i \in 1..Len(f.rows) : (f.rows \o s)[i] = f.rows[i]
           /\ \A i \in 1..Len(s) : (f.rows \o s)[Len(f.rows) + i] = s[i]
<1>1. f.rows \in Seq(Batches \X Nat) /\ Len(f.rows) \in Nat /\ Len(s) \in Nat
  BY RowsTyped, LenProperties
<1>2. /\ f.rows \o s \in Seq(Batches \X Nat) /\ Len(f.rows \o s) = Len(f.rows) + Len(s)
      /\ \A i \in 1..(Len(f.rows) + Len(s)) :
            (f.rows \o s)[i] = IF i <= Len(f.rows) THEN f.rows[i] ELSE s[i - Len(f.rows)]
  BY <1>1, ConcatProperties
<1> QED
  BY <1>1, <1>2

LEMMA WrittenFile ==
    ASSUME NEW f \in Contents, NEW b \in Batches
    PROVE  Extended(f, Written(f, b), b, BatchSizes[b]) /\ ~Written(f, b).torn
<1>1. Len(Rows(b)) = BatchSizes[b] /\ Rows(b) \in Seq(Batches \X Nat)
      /\ \A i \in 1..BatchSizes[b] : Rows(b)[i] = <<b, i>>
  BY BatchRows, SizesTyped
<1>2. /\ f.rows \o Rows(b) \in Seq(Batches \X Nat)
      /\ Len(f.rows \o Rows(b)) = Len(f.rows) + Len(Rows(b))
      /\ \A i \in 1..Len(f.rows) : (f.rows \o Rows(b))[i] = f.rows[i]
      /\ \A i \in 1..Len(Rows(b)) : (f.rows \o Rows(b))[Len(f.rows) + i] = Rows(b)[i]
  BY <1>1, ConcatRows
<1>3. /\ Written(f, b) \in Contents /\ Written(f, b).header = f.header
      /\ Written(f, b).rows = f.rows \o Rows(b) /\ ~Written(f, b).torn
      /\ Written(f, b).corrupt => f.corrupt \/ f.torn
  BY <1>2 DEF Written, Contents
<1> QED
  BY <1>1, <1>2, <1>3 DEF Extended

LEMMA PartialFile ==
    ASSUME NEW f \in Contents, NEW b \in Batches, NEW g \in Partial(f, b)
    PROVE  \E k \in 0..(BatchSizes[b] - 1) : Extended(f, g, b, k)
<1>1. PICK k \in 0..(BatchSizes[b] - 1), t \in BOOLEAN : g = CutAfter(f, b, k, t)
  BY DEF Partial
<1>2. k \in 0..BatchSizes[b]
  BY SizesTyped
<1> DEFINE s == SubSeq(Rows(b), 1, k)
<1>3. s \in Seq(Batches \X Nat) /\ Len(s) = k /\ \A i \in 1..k : s[i] = <<b, i>>
  BY <1>2, BatchRows
<1> DEFINE tt == t \/ (k = 0 /\ f.torn)
           cc == f.corrupt \/ (k > 0 /\ f.torn)
<1>4. g = [f EXCEPT !.rows = f.rows \o s, !.torn = tt, !.corrupt = cc]
  BY <1>1 DEF CutAfter
<1>8. tt \in BOOLEAN /\ cc \in BOOLEAN /\ (cc => f.corrupt \/ f.torn)
  BY RowsTyped
<1> HIDE DEF s, tt, cc
<1>5. /\ f.rows \o s \in Seq(Batches \X Nat) /\ Len(f.rows \o s) = Len(f.rows) + Len(s)
      /\ \A i \in 1..Len(f.rows) : (f.rows \o s)[i] = f.rows[i]
      /\ \A i \in 1..Len(s) : (f.rows \o s)[Len(f.rows) + i] = s[i]
  BY <1>3, ConcatRows
<1>6. /\ g \in Contents /\ g.header = f.header /\ g.rows = f.rows \o s
      /\ g.corrupt => f.corrupt \/ f.torn
  <2>1. /\ DOMAIN f = {"header", "rows", "torn", "corrupt"} /\ f.header \in Headers
        /\ f = [header |-> f.header, rows |-> f.rows, torn |-> f.torn, corrupt |-> f.corrupt]
    BY DEF Contents
  <2>2. g = [header |-> f.header, rows |-> f.rows \o s, torn |-> tt, corrupt |-> cc]
    BY <1>4, <2>1
  <2>3. g \in Contents
    BY <1>5, <1>8, <2>1, <2>2 DEF Contents
  <2> QED
    BY <1>8, <2>2, <2>3
<1>7. Extended(f, g, b, k)
  BY <1>3, <1>5, <1>6 DEF Extended
<1> QED
  BY <1>7

\* g holds the rows of f up to some place.
CutTo(f, g) ==
    /\ g \in Contents
    /\ Len(g.rows) <= Len(f.rows)
    /\ \A i \in 1..Len(g.rows) : g.rows[i] = f.rows[i]

LEMMA BetweenFile ==
    ASSUME NEW d \in Contents, NEW v \in Contents, Len(d.rows) <= Len(v.rows),
           NEW g \in Between(d, v)
    PROVE  /\ CutTo(v, g) /\ Len(d.rows) <= Len(g.rows)
           /\ d.header = v.header => g.header = v.header
           /\ g.corrupt => d.corrupt \/ v.corrupt
           /\ d = v => g = v
<1>1. Len(v.rows) \in Nat /\ Len(d.rows) \in Nat /\ v.rows \in Seq(Batches \X Nat)
      /\ \A i \in 1..Len(v.rows) : v.rows[i] \in Batches \X Nat
  BY RowsTyped
<1>2. CASE d = v
  BY <1>1, <1>2 DEF Between, CutTo
<1>3. CASE d # v
  <2> DEFINE H == IF d.header = v.header THEN {v.header} ELSE Headers
  <2>0. g \in Mixtures(d, v)
    BY <1>3 DEF Between
  <2>1. PICK h \in H, k \in Len(d.rows)..Len(v.rows), t \in BOOLEAN, c \in {d.corrupt, v.corrupt} :
          g = Left(d, v, h, k, t, c)
    BY <2>0 DEF Mixtures
  <2>2. /\ SubSeq(v.rows, 1, k) \in Seq(Batches \X Nat)
        /\ Len(SubSeq(v.rows, 1, k)) = IF 1 <= k THEN k - 1 + 1 ELSE 0
        /\ \A i \in 1..(k - 1 + 1) : SubSeq(v.rows, 1, k)[i] = v.rows[1 + i - 1]
    BY <1>1, SubSeqProperties
  <2>3. h \in Headers /\ c \in BOOLEAN /\ (d.header = v.header => h = v.header)
        /\ (c => d.corrupt \/ v.corrupt)
    BY RowsTyped DEF H
  <2>4. /\ g \in Contents /\ g.header = h /\ g.rows = SubSeq(v.rows, 1, k) /\ g.corrupt = c
    BY <2>1, <2>2, <2>3 DEF Contents, Left
  <2> QED
    BY <1>1, <1>3, <2>2, <2>3, <2>4 DEF CutTo
<1> QED
  BY <1>2, <1>3

LEMMA PlainFiles ==
    /\ EmptyFile \in Contents /\ HeaderOnly \in Contents
    /\ EmptyFile.rows = <<>> /\ ~EmptyFile.torn /\ ~EmptyFile.corrupt /\ EmptyFile.header = "empty"
    /\ HeaderOnly.rows = <<>> /\ ~HeaderOnly.torn /\ ~HeaderOnly.corrupt
    /\ HeaderOnly.header = "full"
    /\ \A h \in Headers : /\ File(h, <<>>, FALSE) \in Contents
                          /\ File(h, <<>>, FALSE).rows = <<>> /\ ~File(h, <<>>, FALSE).torn
                          /\ ~File(h, <<>>, FALSE).corrupt
<1>1. <<>> \in Seq(Batches \X Nat)
  BY EmptySeq
<1>2. \A h \in Headers : /\ File(h, <<>>, FALSE) \in Contents
                         /\ File(h, <<>>, FALSE).rows = <<>> /\ ~File(h, <<>>, FALSE).torn
                         /\ ~File(h, <<>>, FALSE).corrupt /\ File(h, <<>>, FALSE).header = h
  BY <1>1 DEF File, Contents
<1> QED
  BY <1>2 DEF EmptyFile, HeaderOnly, Headers

LEMMA RecoveredFile ==
    ASSUME NEW f \in Contents
    PROVE  /\ recover_trailing_record(f) \in Contents
           /\ recover_trailing_record(f).rows = f.rows
           /\ recover_trailing_record(f).header = "full"
           /\ ~recover_trailing_record(f).torn
           /\ recover_trailing_record(f).corrupt = f.corrupt
BY DEF recover_trailing_record, Contents, Headers

-----------------------------------------------------------------------------
(* The invariant. *)

Creating == {"stage", "publish", "unlink", "segmentSync", "markerRename", "markerSync"}
Steps == {"down", "idle", "header", "parentSync", "write", "sync"} \cup Creating
\* A batch is being appended; the next one may be.
Busy == pc \in {"write", "sync"} \/ (after = "write" /\ pc \in Creating)
Ready == pc = "idle" /\ ~poisoned

\* Where the process can be, what it is then working on, and what only one of
\* the two kinds of output has.
Place ==
    /\ pc \in Steps /\ after \in {"idle", "write"} /\ current \in Names \cup {None}
    /\ pc \in Creating => rotating
    /\ pc \in {"header", "parentSync"} => ~rotating
    /\ ~rotating =>
         /\ after = "idle" /\ current \in {None, 1} /\ (pc # "down" => current = 1)
         /\ volMarker = None /\ durMarker = None /\ volPending = None /\ durPending = None
         /\ begun = <<>>
    /\ Busy => next \in Batches /\ ~poisoned
    /\ Busy \/ pc \notin {"down", "stage", "publish"} =>
         current \in Names /\ vol[current] # None
    /\ buffered # None =>
         /\ ~rotating /\ buffered < next /\ buffered \notin acked
         /\ pc # "down" => poisoned
    /\ rewritten # None => ~rotating /\ rewritten = 1

\* A synced file exists and holds at least the rows that were synced.
Extends == \A n \in Names :
    dur[n] # None => vol[n] # None /\ Len(dur[n].rows) <= Len(vol[n].rows)

\* No row is written before the whole header is synced.
HeaderFirst ==
    /\ \A n \in Names : vol[n] # None /\ vol[n].rows # <<>>
          => dur[n] # None /\ vol[n].header = "full" /\ dur[n].header = "full"
    /\ rotating => \A n \in Names : /\ vol[n] # None => vol[n].header = "full"
                                    /\ dur[n] # None => dur[n].header = "full"
    /\ pc = "header" => vol[1].rows = <<>>
    /\ pc = "parentSync" => vol[1].header = "full"
    /\ pc \in {"write", "sync"} \/ Ready \/ (pc = "idle" /\ ~rotating) =>
         dur[current] # None /\ vol[current].header = "full" /\ dur[current].header = "full"

\* Nothing is written behind half a row, but what the csv writer still held.
Clean ==
    /\ pc \notin {"down", "idle", "stage", "publish"} \/ Ready => ~vol[current].torn
    /\ \A n \in Names : /\ vol[n] # None /\ vol[n].corrupt => n = rewritten
                        /\ dur[n] # None /\ dur[n].corrupt => n = rewritten

\* A segment differs from what is synced of it only while the marker names it,
\* before and after a power failure; a new segment is begun only from segments
\* that are synced and whole.
Settled == rotating =>
    /\ volMarker # None => dur[volMarker] # None
    /\ durMarker # None => dur[durMarker] # None
    /\ \A n \in Names : vol[n] # None /\ (vol[n].torn \/ (dur[n] # None /\ dur[n] # vol[n]))
          => n = volMarker /\ n = durMarker
    /\ pc \in Creating => \A n \in Names :
          vol[n] # None => ~vol[n].torn /\ (dur[n] # None => dur[n] = vol[n])
    /\ pc \in {"write", "sync"} \/ Ready => current = volMarker /\ current = durMarker
    /\ pc = "markerSync" => volMarker = current
    /\ pc \in {"markerRename", "markerSync"} => dur[current] # None
    /\ pc = "write" \/ Ready => dur[current] = vol[current]

\* The staging name is gone, also from the disk, before a row is written.
Staged ==
    /\ volPending \in Names /\ vol[volPending] # None => vol[volPending].rows = <<>>
    /\ durPending \in Names /\ vol[durPending] # None => vol[durPending].rows = <<>>
    /\ pc \in {"markerRename", "markerSync", "write", "sync"} \/ Ready =>
         volPending = None /\ durPending = None
    /\ pc = "segmentSync" => volPending = None
    /\ pc \in {"unlink", "segmentSync", "markerRename", "markerSync"} =>
         vol[current].rows = <<>>

OneBatch(f) == \A i, j \in 1..Len(f.rows) : f.rows[i][1] = f.rows[j][1]
\* The size is counted right, and a segment past the limit holds one batch.
Sized == rotating /\ max_bytes # None =>
    /\ \A n \in Names :
         vol[n] # None => 1 + Len(vol[n].rows) <= max_bytes \/ OneBatch(vol[n])
    /\ pc = "write" \/ Ready => /\ bytes = 1 + Len(vol[current].rows)
                                /\ has_events <=> vol[current].rows # <<>>
    /\ pc = "sync" => bytes + BatchSizes[next] = 1 + Len(vol[current].rows)
    /\ pc = "write" =>
         bytes + BatchSizes[next] <= max_bytes \/ vol[current].rows = <<>>

\* Each date that began a segment is later than those before.
Dated ==
    /\ begun \in Seq(Int)
    /\ \A i, j \in 1..Len(begun) : i < j => begun[i] < begun[j]
    /\ \A i \in 1..Len(begun) : begun[i] <= date

\* Rows of the batch being appended are found at the end of the current file
\* only, and later batches nowhere.
Numbered ==
    /\ \A b \in acked : b < next
    /\ \A n \in Names : vol[n] # None => \A i \in 1..Len(vol[n].rows) :
         \/ vol[n].rows[i][1] < next
         \/ pc = "sync" /\ n = current /\ i > Len(vol[n].rows) - BatchSizes[next]
    /\ pc = "sync" =>
         /\ BatchSizes[next] <= Len(vol[current].rows)
         /\ \A i \in 1..BatchSizes[next] :
              vol[current].rows[Len(vol[current].rows) - BatchSizes[next] + i] = <<next, i>>

\* All rows of b in file n are the synced rows behind the k-th, in order.
Window(n, b, k) ==
    /\ k + BatchSizes[b] <= Len(dur[n].rows)
    /\ \A i \in 1..Len(vol[n].rows) :
         IF i \in (k + 1)..(k + BatchSizes[b]) THEN vol[n].rows[i] = <<b, i - k>>
         ELSE vol[n].rows[i][1] # b
KeptIn(n, b) ==
    /\ dur[n] # None /\ \E k \in Nat : Window(n, b, k)
    /\ \A m \in Names : m # n /\ vol[m] # None =>
         \A i \in 1..Len(vol[m].rows) : vol[m].rows[i][1] # b
\* Every acknowledged batch is synced, whole and in one file.
Kept == \A b \in acked : \E n \in Names : KeptIn(n, b)

Inv ==
    /\ TypeOK /\ Place /\ Extends /\ HeaderFirst /\ Clean /\ Settled /\ Staged /\ Sized
    /\ Dated /\ Numbered /\ Kept

-----------------------------------------------------------------------------
(* Files in a state. *)

LEMMA NamesTyped ==
    /\ Names \subseteq Nat \ {0} /\ 1 \in Names /\ None \notin Names /\ None \notin Int
    /\ Batches = 1..Len(BatchSizes) /\ Len(BatchSizes) \in Nat
    /\ \A b \in Batches : BatchSizes[b] \in Nat \ {0}
<1>1. BatchSizes \in Seq(Nat \ {0})
  BY BatchAssumption
<1>2. Batches = 1..Len(BatchSizes) /\ Len(BatchSizes) \in Nat
  BY <1>1, LenProperties DEF Batches
<1>3. \A b \in Batches : BatchSizes[b] \in Nat \ {0}
  BY SizesTyped
<1> QED
  BY <1>2, <1>3, BoundAssumption, NoneAssumption DEF Names

LEMMA FilesTyped ==
    ASSUME TypeOK
    PROVE  \A n \in Names :
             /\ vol[n] # None => /\ vol[n] \in Contents /\ Len(vol[n].rows) \in Nat
                                 /\ vol[n].rows = <<>> <=> Len(vol[n].rows) = 0
                                 /\ \A i \in 1..Len(vol[n].rows) :
                                      vol[n].rows[i] \in Batches \X Nat
             /\ dur[n] # None => /\ dur[n] \in Contents /\ Len(dur[n].rows) \in Nat
                                 /\ dur[n].rows = <<>> <=> Len(dur[n].rows) = 0
BY RowsTyped DEF TypeOK, Files

LEMMA BatchesTyped ==
    ASSUME TypeOK
    PROVE  /\ next \in Nat /\ \A b \in acked : b \in Batches /\ b \in Nat
           /\ buffered # None => buffered \in Batches /\ buffered \in Nat
           /\ \A b \in Batches : b \in Nat
<1>1. \A b \in Batches : b \in Nat
  BY NamesTyped
<1>2. next \in 1..(Len(BatchSizes) + 1) /\ acked \subseteq Batches /\ buffered \in Batches \cup {None}
  BY DEF TypeOK
<1> QED
  BY <1>1, <1>2

\* What a step that changes files may do, for the acknowledged batches: synced
\* rows stay, and new rows belong to other batches.
Evolves ==
    \A n \in Names :
        /\ dur[n] # None =>
             /\ dur'[n] # None /\ Len(dur[n].rows) <= Len(dur'[n].rows)
             /\ \A i \in 1..Len(dur[n].rows) : vol'[n].rows[i] = vol[n].rows[i]
        /\ vol'[n] # None => \A i \in 1..Len(vol'[n].rows) :
             \/ vol'[n].rows[i][1] \notin acked
             \/ vol[n] # None /\ i <= Len(vol[n].rows) /\ vol'[n].rows[i] = vol[n].rows[i]

LEMMA EvolvesKeeps ==
    ASSUME Inv, TypeOK', Extends', Evolves, acked' = acked
    PROVE  Kept'
<1> SUFFICES ASSUME NEW b \in acked PROVE \E n \in Names : KeptIn(n, b)'
  BY DEF Kept
<1>1. PICK n \in Names : KeptIn(n, b)
  BY DEF Inv, Kept
<1>2. PICK k \in Nat : Window(n, b, k)
  BY <1>1 DEF KeptIn
<1>3. BatchSizes[b] \in Nat \ {0} /\ dur[n] # None /\ vol[n] # None
      /\ Len(dur[n].rows) \in Nat /\ Len(vol[n].rows) \in Nat
      /\ Len(dur[n].rows) <= Len(vol[n].rows)
  BY <1>1, FilesTyped, NamesTyped DEF Inv, TypeOK, KeptIn, Extends
<1>4. /\ dur'[n] # None /\ vol'[n] # None
      /\ Len(dur'[n].rows) \in Nat /\ Len(vol'[n].rows) \in Nat
      /\ Len(dur[n].rows) <= Len(dur'[n].rows) /\ Len(dur'[n].rows) <= Len(vol'[n].rows)
  <2>1. dur'[n] # None /\ vol'[n] # None
    BY <1>3 DEF Evolves, Extends
  <2>2. dur'[n] \in Contents /\ vol'[n] \in Contents
    BY <2>1 DEF TypeOK, Files
  <2> QED
    BY <1>3, <2>1, <2>2, RowsTyped DEF Evolves, Extends
<1>5. Window(n, b, k)'
  <2>1. k + BatchSizes[b] <= Len(dur'[n].rows)
    BY <1>2, <1>3, <1>4 DEF Window
  <2>2. ASSUME NEW i \in 1..Len(vol'[n].rows)
        PROVE  IF i \in (k + 1)..(k + BatchSizes[b]) THEN vol'[n].rows[i] = <<b, i - k>>
               ELSE vol'[n].rows[i][1] # b
    <3>1. CASE i \in (k + 1)..(k + BatchSizes[b])
      <4>1. i \in 1..Len(dur[n].rows) /\ i \in 1..Len(vol[n].rows)
        BY <1>2, <1>3, <3>1 DEF Window
      <4> QED
        BY <1>2, <1>3, <3>1, <4>1 DEF Window, Evolves
    <3>2. CASE i \notin (k + 1)..(k + BatchSizes[b])
      <4>1. CASE vol'[n].rows[i][1] \notin acked
        BY <3>2, <4>1
      <4>2. CASE i <= Len(vol[n].rows) /\ vol'[n].rows[i] = vol[n].rows[i]
        BY <1>2, <1>3, <3>2, <4>2 DEF Window
      <4> QED
        BY <1>4, <4>1, <4>2 DEF Evolves
    <3> QED
      BY <3>1, <3>2
  <2> QED
    BY <2>1, <2>2 DEF Window
<1>6. ASSUME NEW m \in Names, m # n, vol'[m] # None, NEW i \in 1..Len(vol'[m].rows)
      PROVE  vol'[m].rows[i][1] # b
  <2>0. Len(vol'[m].rows) \in Nat
    BY <1>6, RowsTyped DEF TypeOK, Files
  <2>1. CASE vol'[m].rows[i][1] \notin acked
    BY <2>1
  <2>2. CASE vol[m] # None /\ i <= Len(vol[m].rows) /\ vol'[m].rows[i] = vol[m].rows[i]
    <3>1. i \in 1..Len(vol[m].rows)
      BY <2>0, <2>2, FilesTyped DEF Inv
    <3> QED
      BY <1>1, <1>6, <2>2, <3>1 DEF KeptIn
  <2> QED
    BY <1>6, <2>1, <2>2 DEF Evolves
<1> QED
  BY <1>4, <1>5, <1>6 DEF KeptIn

LEMMA NumberedKeeps ==
    ASSUME TypeOK, TypeOK', Place, Numbered, pc' # "sync",
           (next' = next /\ pc # "sync") \/ next' = next + 1,
           \A b \in acked' : b < next',
           \A n \in Names : vol'[n] # None => \A i \in 1..Len(vol'[n].rows) :
               \/ vol'[n].rows[i][1] < next'
               \/ vol[n] # None /\ i <= Len(vol[n].rows) /\ vol'[n].rows[i] = vol[n].rows[i]
    PROVE  Numbered'
<1> SUFFICES ASSUME NEW n \in Names, vol'[n] # None, NEW i \in 1..Len(vol'[n].rows),
                    vol[n] # None, i <= Len(vol[n].rows), vol'[n].rows[i] = vol[n].rows[i]
             PROVE  vol'[n].rows[i][1] < next'
  BY DEF Numbered
<1>1. next \in Nat /\ Len(vol[n].rows) \in Nat /\ Len(vol'[n].rows) \in Nat
      /\ i \in 1..Len(vol[n].rows)
  <2>1. Len(vol[n].rows) \in Nat /\ Len(vol'[n].rows) \in Nat
    BY RowsTyped DEF TypeOK, Files
  <2>2. next \in Nat
    BY NamesTyped DEF TypeOK
  <2> QED
    BY <2>1, <2>2
<1>2. vol[n].rows[i] \in Batches \X Nat
  BY <1>1, FilesTyped
<1>3. CASE vol[n].rows[i][1] < next
  BY <1>1, <1>2, <1>3, NamesTyped
<1>4. CASE pc = "sync" /\ n = current /\ i > Len(vol[n].rows) - BatchSizes[next]
  <2>1. next' = next + 1 /\ BatchSizes[next] \in Nat
    BY <1>4, NamesTyped DEF Place, Busy
  <2> DEFINE j == i - (Len(vol[n].rows) - BatchSizes[next])
  <2>2. j \in 1..BatchSizes[next] /\ i = Len(vol[n].rows) - BatchSizes[next] + j
    BY <1>1, <1>4, <2>1
  <2>3. vol[n].rows[i] = <<next, j>>
    BY <1>4, <2>2 DEF Numbered
  <2> QED
    BY <1>1, <2>1, <2>3
<1> QED
  BY <1>1, <1>3, <1>4 DEF Numbered

\* File c, and no other, has more rows of batch b behind its rows, not synced.
Wrote(c, b) ==
    /\ vol' \in [Names -> Files] /\ vol'[c] \in Contents /\ vol'[c] # None
    /\ \A n \in Names : n # c => vol'[n] = vol[n]
    /\ \A n \in Names : vol'[n] # None <=> vol[n] # None
    /\ Extends' /\ Evolves
    /\ \A n \in Names : vol'[n] # None /\ vol'[n].rows # <<>>
          => dur'[n] # None /\ vol'[n].header = "full" /\ dur'[n].header = "full"
    /\ rotating => \A n \in Names : /\ vol'[n] # None => vol'[n].header = "full"
                                    /\ dur'[n] # None => dur'[n].header = "full"
    /\ \A n \in Names : vol'[n] # None => \A i \in 1..Len(vol'[n].rows) :
          \/ n = c /\ i > Len(vol[c].rows) /\ vol'[n].rows[i][1] = b
          \/ /\ vol[n] # None /\ i <= Len(vol[n].rows)
             /\ vol'[n].rows[i] = vol[n].rows[i]

\* A write to the current file of rows of a batch that is not acknowledged.
LEMMA WriteFrame ==
    ASSUME Inv, NEW c \in Names, NEW b \in Batches, NEW k \in Nat, NEW g,
           vol[c] # None, dur[c] # None, vol[c].header = "full", dur[c].header = "full",
           vol' = [vol EXCEPT ![c] = g], dur' = dur, rotating' = rotating,
           Extended(vol[c], g, b, k), b \notin acked
    PROVE  Wrote(c, b)
<1>0. /\ TypeOK /\ Extends /\ HeaderFirst
  BY DEF Inv
<1>1. vol \in [Names -> Files] /\ g \in Contents /\ g # None /\ g.header = "full"
  BY <1>0, NoneAssumption DEF TypeOK, Extended
<1>2. vol'[c] = g /\ \A n \in Names : n # c => vol'[n] = vol[n]
  BY <1>1
<1>3. vol' \in [Names -> Files]
  BY <1>1 DEF Files
<1>4. /\ Len(vol[c].rows) \in Nat /\ Len(g.rows) \in Nat /\ Len(g.rows) = Len(vol[c].rows) + k
      /\ \A i \in 1..Len(vol[c].rows) : g.rows[i] = vol[c].rows[i]
      /\ \A i \in 1..k : g.rows[Len(vol[c].rows) + i] = <<b, i>>
      /\ Len(dur[c].rows) \in Nat /\ Len(dur[c].rows) <= Len(vol[c].rows)
  BY <1>0, <1>1, FilesTyped, RowsTyped DEF Extended, Extends
<1>5. ASSUME NEW i \in 1..Len(g.rows)
      PROVE  \/ i > Len(vol[c].rows) /\ g.rows[i][1] = b
             \/ i <= Len(vol[c].rows) /\ g.rows[i] = vol[c].rows[i]
  <2>1. CASE i > Len(vol[c].rows)
    <3>1. i - Len(vol[c].rows) \in 1..k /\ i = Len(vol[c].rows) + (i - Len(vol[c].rows))
      BY <1>4, <2>1
    <3>2. g.rows[i] = <<b, i - Len(vol[c].rows)>>
      BY <1>4, <3>1
    <3> QED
      BY <2>1, <3>2
  <2>2. CASE ~(i > Len(vol[c].rows))
    BY <1>4, <2>2
  <2> QED
    BY <2>1, <2>2
<1>6. \A n \in Names : vol[n] # None => Len(vol[n].rows) \in Nat
  BY <1>0, FilesTyped
<1>7. \A n \in Names : vol'[n] # None => \A i \in 1..Len(vol'[n].rows) :
         \/ n = c /\ i > Len(vol[c].rows) /\ vol'[n].rows[i][1] = b
         \/ vol[n] # None /\ i <= Len(vol[n].rows) /\ vol'[n].rows[i] = vol[n].rows[i]
  BY <1>2, <1>5, <1>6
<1>8. Extends'
  BY <1>0, <1>1, <1>2, <1>4 DEF Extends
<1>9. Evolves
  <2>1. \A n \in Names : dur[n] # None =>
            /\ dur'[n] # None /\ Len(dur[n].rows) <= Len(dur'[n].rows)
            /\ \A i \in 1..Len(dur[n].rows) : vol'[n].rows[i] = vol[n].rows[i]
    <3> SUFFICES ASSUME NEW n \in Names, dur[n] # None
                 PROVE  /\ Len(dur[n].rows) \in Nat
                        /\ \A i \in 1..Len(dur[n].rows) : vol'[n].rows[i] = vol[n].rows[i]
      OBVIOUS
    <3>1. Len(dur[n].rows) \in Nat
      BY <1>0, FilesTyped
    <3>2. CASE n = c
      <4>1. \A i \in 1..Len(dur[n].rows) : i \in 1..Len(vol[c].rows)
        BY <1>4, <3>2
      <4> QED
        BY <1>2, <1>4, <3>1, <3>2, <4>1
    <3>3. CASE n # c
      BY <1>2, <3>1, <3>3
    <3> QED
      BY <3>2, <3>3
  <2> QED
    BY <1>7, <2>1 DEF Evolves
<1>10. \A n \in Names : vol'[n] # None /\ vol'[n].rows # <<>>
          => dur'[n] # None /\ vol'[n].header = "full" /\ dur'[n].header = "full"
  BY <1>0, <1>1, <1>2 DEF HeaderFirst
<1>11. rotating => \A n \in Names : /\ vol'[n] # None => vol'[n].header = "full"
                                    /\ dur'[n] # None => dur'[n].header = "full"
  BY <1>0, <1>1, <1>2 DEF HeaderFirst
<1>12. \A n \in Names : vol'[n] # None <=> vol[n] # None
  BY <1>1, <1>2
<1> QED
  BY <1>1, <1>2, <1>3, <1>7, <1>8, <1>9, <1>10, <1>11, <1>12 DEF Wrote

LEMMA WriteSized ==
    ASSUME NEW f \in Contents, NEW b \in Batches, NEW k \in Nat, NEW g, NEW limit \in Nat,
           Extended(f, g, b, k), 1 + Len(f.rows) + k <= limit \/ f.rows = <<>>
    PROVE  1 + Len(g.rows) <= limit \/ OneBatch(g)
<1>1. Len(f.rows) \in Nat /\ Len(g.rows) = Len(f.rows) + k /\ (f.rows = <<>> => Len(f.rows) = 0)
  BY RowsTyped DEF Extended
<1>2. CASE 1 + Len(f.rows) + k <= limit
  BY <1>1, <1>2
<1>3. CASE f.rows = <<>>
  <2>1. Len(f.rows) = 0 /\ Len(g.rows) = k
    BY <1>1, <1>3
  <2>2. \A i \in 1..k : g.rows[0 + i] = <<b, i>>
    BY <2>1 DEF Extended
  <2>3. \A i \in 1..k : g.rows[i][1] = b
    BY <2>2
  <2> QED
    BY <2>1, <2>3 DEF OneBatch
<1> QED
  BY <1>2, <1>3

\* What a write that fails or is cut short leaves.
LEMMA CutShortFile ==
    ASSUME Inv, pc # "down", NEW f \in CutShort
    PROVE  \/ f = None /\ pc \notin {"write", "header"}
           \/ /\ pc = "write" /\ current \in Names /\ vol[current] # None /\ next \in Batches
              /\ \E k \in 0..(BatchSizes[next] - 1) : Extended(vol[current], f, next, k)
           \/ /\ pc = "header" /\ current = 1 /\ ~rotating /\ vol[1] # None
              /\ f \in Contents /\ f.rows = <<>> /\ ~f.corrupt /\ ~f.torn
<1>1. CASE pc = "write"
  <2>1. current \in Names /\ vol[current] # None /\ next \in Batches /\ vol[current] \in Contents
    BY <1>1, FilesTyped DEF Inv, Place, Busy
  <2>2. f \in Partial(vol[current], next)
    BY <1>1 DEF CutShort
  <2> QED
    BY <1>1, <2>1, <2>2, PartialFile
<1>2. CASE pc = "header"
  <2>1. current = 1 /\ ~rotating /\ vol[1] # None
    BY <1>2 DEF Inv, Place
  <2>2. f \in {File(h, <<>>, FALSE) : h \in Headers}
    BY <1>2 DEF CutShort
  <2> QED
    BY <1>2, <2>1, <2>2, PlainFiles
<1>3. CASE pc \notin {"write", "header"}
  BY <1>3 DEF CutShort
<1> QED
  BY <1>1, <1>2, <1>3

\* What an interrupted step makes of the files.
Cut ==
    /\ vol' \in [Names -> Files]
    /\ \A n \in Names : vol'[n] # None <=> vol[n] # None
    /\ Extends' /\ Evolves
    /\ \A n \in Names : vol'[n] # None /\ vol'[n].rows # <<>>
          => dur'[n] # None /\ vol'[n].header = "full" /\ dur'[n].header = "full"
    /\ rotating => \A n \in Names : /\ vol'[n] # None => vol'[n].header = "full"
                                    /\ dur'[n] # None => dur'[n].header = "full"
    /\ \A n \in Names : vol'[n] # None => \A i \in 1..Len(vol'[n].rows) :
          \/ pc = "write" /\ vol'[n].rows[i][1] = next
          \/ /\ vol[n] # None /\ i <= Len(vol[n].rows)
             /\ vol'[n].rows[i] = vol[n].rows[i]
    /\ \A n \in Names : vol'[n] # None /\ vol'[n].corrupt => n = rewritten
    /\ rotating => \A n \in Names :
         vol'[n] # None /\ (vol'[n].torn \/ (dur[n] # None /\ dur[n] # vol'[n]))
           => n = volMarker /\ n = durMarker
    /\ \A n \in Names : vol[n] # None /\ vol'[n].rows # <<>> /\ vol[n].rows = <<>> =>
         n = current /\ pc = "write"
    /\ rotating /\ max_bytes # None => \A n \in Names :
         vol'[n] # None => 1 + Len(vol'[n].rows) <= max_bytes \/ OneBatch(vol'[n])
    /\ pc \in {"write", "sync"} => /\ dur[current] # None /\ vol'[current].header = "full"
                                   /\ dur[current].header = "full"

\* A step of the process fails, or the process is killed in it.
LEMMA CutShortFrame ==
    ASSUME Inv, pc # "down", NEW f \in CutShort, dur' = dur, rotating' = rotating,
           vol' = IF f = None THEN vol ELSE [vol EXCEPT ![current] = f]
    PROVE  Cut
<1>0. /\ TypeOK /\ Place /\ Extends /\ HeaderFirst /\ Clean /\ Settled /\ Staged /\ Sized
      /\ Numbered
  BY DEF Inv
<1>1. \A n \in Names : /\ vol[n] # None => vol[n] \in Contents /\ Len(vol[n].rows) \in Nat
                       /\ dur[n] # None => dur[n] \in Contents /\ Len(dur[n].rows) \in Nat
  BY <1>0, FilesTyped
<1>2. vol \in [Names -> Files] /\ None \notin Contents /\ Names \subseteq Nat
  BY <1>0, NoneAssumption, NamesTyped DEF TypeOK
<1>3. CASE f = None
  <2>1. vol' = vol /\ pc # "write"
    BY <1>2, <1>3, CutShortFile DEF Extended
  <2>2. Extends' /\ Evolves
    BY <1>0, <1>1, <2>1 DEF Extends, Evolves
  <2>3. /\ \A n \in Names : vol'[n] # None /\ vol'[n].rows # <<>>
             => dur'[n] # None /\ vol'[n].header = "full" /\ dur'[n].header = "full"
        /\ rotating => \A n \in Names : /\ vol'[n] # None => vol'[n].header = "full"
                                        /\ dur'[n] # None => dur'[n].header = "full"
        /\ pc \in {"write", "sync"} => /\ dur[current] # None /\ vol'[current].header = "full"
                                       /\ dur[current].header = "full"
    BY <1>0, <2>1 DEF HeaderFirst
  <2>4. \A n \in Names : vol'[n] # None => \A i \in 1..Len(vol'[n].rows) :
            vol[n] # None /\ i <= Len(vol[n].rows) /\ vol'[n].rows[i] = vol[n].rows[i]
    BY <1>1, <2>1
  <2>5. \A n \in Names : vol'[n] # None /\ vol'[n].corrupt => n = rewritten
    BY <1>0, <2>1 DEF Clean
  <2>6. rotating => \A n \in Names :
            vol'[n] # None /\ (vol'[n].torn \/ (dur[n] # None /\ dur[n] # vol'[n]))
              => n = volMarker /\ n = durMarker
    BY <1>0, <2>1 DEF Settled
  <2>7. rotating /\ max_bytes # None => \A n \in Names :
            vol'[n] # None => 1 + Len(vol'[n].rows) <= max_bytes \/ OneBatch(vol'[n])
    BY <1>0, <2>1 DEF Sized
  <2> QED
    BY <1>2, <2>1, <2>2, <2>3, <2>4, <2>5, <2>6, <2>7 DEF Cut
<1>4. CASE f # None /\ pc = "write"
  <2>1. current \in Names /\ vol[current] # None /\ next \in Batches /\ vol[current] \in Contents
        /\ vol' = [vol EXCEPT ![current] = f] /\ next \in Nat
    BY <1>1, <1>4, CutShortFile, NamesTyped
  <2>2. PICK k \in 0..(BatchSizes[next] - 1) : Extended(vol[current], f, next, k)
    BY <1>4, CutShortFile
  <2>3. k \in Nat /\ k <= BatchSizes[next] /\ BatchSizes[next] \in Nat
    BY <2>1, NamesTyped
  <2>4. /\ dur[current] # None /\ vol[current].header = "full" /\ dur[current].header = "full"
        /\ next \notin acked /\ ~vol[current].torn
    BY <1>0, <1>4, <2>1 DEF HeaderFirst, Numbered, Clean
  <2>c. PICK c \in Names : c = current
    BY <2>1
  <2>b. PICK b \in Batches : b = next
    BY <2>1
  <2>h. /\ vol[c] # None /\ dur[c] # None /\ vol[c].header = "full" /\ dur[c].header = "full"
        /\ vol' = [vol EXCEPT ![c] = f] /\ Extended(vol[c], f, b, k) /\ b \notin acked /\ k \in Nat
    BY <2>1, <2>2, <2>3, <2>4, <2>b, <2>c
  <2>w. Wrote(c, b) /\ vol'[c] = f
    BY <1>2, <2>h, WriteFrame
  <2>5. /\ vol' \in [Names -> Files] /\ vol'[c] = f /\ f \in Contents /\ f # None
        /\ \A n \in Names : n # c => vol'[n] = vol[n]
        /\ \A n \in Names : vol'[n] # None <=> vol[n] # None
        /\ Extends' /\ Evolves
        /\ \A n \in Names : vol'[n] # None /\ vol'[n].rows # <<>>
              => dur'[n] # None /\ vol'[n].header = "full" /\ dur'[n].header = "full"
        /\ rotating => \A n \in Names : /\ vol'[n] # None => vol'[n].header = "full"
                                        /\ dur'[n] # None => dur'[n].header = "full"
        /\ \A n \in Names : vol'[n] # None => \A i \in 1..Len(vol'[n].rows) :
              \/ n = c /\ i > Len(vol[c].rows) /\ vol'[n].rows[i][1] = b
              \/ /\ vol[n] # None /\ i <= Len(vol[n].rows)
                 /\ vol'[n].rows[i] = vol[n].rows[i]
    BY <2>w DEF Wrote
  <2>6. \A n \in Names : vol'[n] # None /\ vol'[n].corrupt => n = rewritten
    <3>1. f.corrupt => vol[current].corrupt \/ vol[current].torn
      BY <2>2 DEF Extended
    <3>2. f.corrupt => c = rewritten
      BY <1>0, <2>1, <2>4, <2>c, <3>1 DEF Clean
    <3> QED
      BY <1>0, <2>5, <3>2 DEF Clean
  <2>7. rotating => \A n \in Names :
            vol'[n] # None /\ (vol'[n].torn \/ (dur[n] # None /\ dur[n] # vol'[n]))
              => n = volMarker /\ n = durMarker
    BY <1>0, <1>4, <2>5, <2>c DEF Settled
  <2>8. rotating /\ max_bytes # None => \A n \in Names :
            vol'[n] # None => 1 + Len(vol'[n].rows) <= max_bytes \/ OneBatch(vol'[n])
    <3> SUFFICES ASSUME rotating, max_bytes # None, NEW n \in Names, vol'[n] # None
                 PROVE  1 + Len(vol'[n].rows) <= max_bytes \/ OneBatch(vol'[n])
      OBVIOUS
    <3>1. CASE n # c
      BY <1>0, <2>5, <3>1 DEF Sized
    <3>2. CASE n = c
      <4>1. max_bytes \in Nat /\ bytes \in Nat
        BY <1>0, BatchAssumption DEF TypeOK
      <4>2. /\ bytes = 1 + Len(vol[current].rows)
            /\ bytes + BatchSizes[next] <= max_bytes \/ vol[current].rows = <<>>
        BY <1>0, <1>4 DEF Sized
      <4>3. 1 + Len(vol[current].rows) + k <= max_bytes \/ vol[current].rows = <<>>
        BY <1>1, <2>1, <2>3, <4>1, <4>2
      <4> QED
        BY <2>1, <2>2, <2>3, <2>5, <2>c, <3>2, <4>1, <4>3, WriteSized
    <3> QED
      BY <3>1, <3>2
  <2>9. vol'[current].header = "full"
    BY <2>2, <2>4, <2>5, <2>c DEF Extended
  <2> QED
    BY <1>4, <2>4, <2>5, <2>6, <2>7, <2>8, <2>9, <2>b, <2>c DEF Cut
<1>5. CASE f # None /\ pc = "header"
  <2>1. /\ current = 1 /\ ~rotating /\ vol[1] # None /\ 1 \in Names
        /\ f \in Contents /\ f.rows = <<>> /\ ~f.corrupt /\ ~f.torn /\ Len(f.rows) = 0
        /\ vol[1].rows = <<>> /\ Len(vol[1].rows) = 0
    BY <1>0, <1>5, CutShortFile, NamesTyped, RowsTyped, FilesTyped DEF HeaderFirst
  <2>2. vol'[1] = f /\ \A n \in Names : n # 1 => vol'[n] = vol[n]
    BY <1>2, <1>5, <2>1
  <2>3. vol' \in [Names -> Files] /\ \A n \in Names : vol'[n] # None <=> vol[n] # None
    BY <1>2, <1>5, <2>1, <2>2 DEF Files
  <2>4. Extends'
    BY <1>0, <1>5, <2>1, <2>2 DEF Extends
  <2>5. \A n \in Names : vol'[n] # None => \A i \in 1..Len(vol'[n].rows) :
            vol[n] # None /\ i <= Len(vol[n].rows) /\ vol'[n].rows[i] = vol[n].rows[i]
    BY <1>1, <2>1, <2>2
  <2>6. Evolves
    <3>1. \A n \in Names : dur[n] # None => \A i \in 1..Len(dur[n].rows) : vol'[n].rows[i] = vol[n].rows[i]
      <4>1. dur[1] # None => Len(dur[1].rows) = 0
        BY <1>0, <1>1, <2>1 DEF Extends
      <4> QED
        BY <2>2, <4>1
    <3> QED
      BY <1>1, <2>5, <3>1 DEF Evolves
  <2>7. /\ \A n \in Names : vol'[n] # None /\ vol'[n].rows # <<>>
             => dur'[n] # None /\ vol'[n].header = "full" /\ dur'[n].header = "full"
        /\ \A n \in Names : vol'[n] # None /\ vol'[n].corrupt => n = rewritten
        /\ \A n \in Names : vol[n] # None /\ vol'[n].rows # <<>> => vol[n].rows # <<>>
    BY <1>0, <2>1, <2>2 DEF HeaderFirst, Clean
  <2> QED
    BY <1>5, <2>1, <2>3, <2>4, <2>5, <2>6, <2>7 DEF Cut
<1> QED
  BY <1>2, <1>3, <1>4, <1>5, CutShortFile

\* What a power failure leaves of a file.
LEMMA AfterPowerLossFile ==
    ASSUME Inv, NEW n \in Names, NEW g \in AfterPowerLoss(n)
    PROVE  /\ g # None => vol[n] # None /\ CutTo(vol[n], g)
           /\ dur[n] # None => g # None /\ Len(dur[n].rows) <= Len(g.rows)
           /\ g # None /\ g.rows # <<>> => g.header = "full"
           /\ g # None /\ rotating => g.header = "full"
           /\ g # None /\ g.corrupt => n = rewritten
           /\ g # None /\ rotating /\ g.torn => n = volMarker /\ n = durMarker
<1>0. TypeOK /\ Extends /\ HeaderFirst /\ Clean /\ Settled
  BY DEF Inv
<1>1. /\ vol[n] # None => vol[n] \in Contents /\ Len(vol[n].rows) \in Nat
      /\ dur[n] # None => dur[n] \in Contents /\ Len(dur[n].rows) \in Nat
      /\ vol[n] # None => (vol[n].rows = <<>> <=> Len(vol[n].rows) = 0)
  BY <1>0, FilesTyped
<1>2. ASSUME vol[n] # None PROVE CutTo(vol[n], vol[n])
  BY <1>1, <1>2 DEF CutTo
<1>3. CASE vol[n] = None
  <2>1. dur[n] = None
    BY <1>0, <1>3 DEF Extends
  <2>2. g = None
    BY <1>3, <2>1 DEF AfterPowerLoss
  <2> QED
    BY <2>1, <2>2
<1>4. CASE vol[n] # None /\ dur[n] # None
  <2>1. g \in Between(dur[n], vol[n])
    BY <1>4 DEF AfterPowerLoss
  <2>2. dur[n] \in Contents /\ vol[n] \in Contents /\ Len(dur[n].rows) <= Len(vol[n].rows)
    BY <1>0, <1>1, <1>4 DEF Extends
  <2>3. /\ CutTo(vol[n], g) /\ Len(dur[n].rows) <= Len(g.rows)
        /\ dur[n].header = vol[n].header => g.header = vol[n].header
        /\ g.corrupt => dur[n].corrupt \/ vol[n].corrupt
        /\ dur[n] = vol[n] => g = vol[n]
    BY <2>1, <2>2, BetweenFile
  <2>4. g # None /\ g \in Contents /\ Len(g.rows) \in Nat /\ (g.rows = <<>> <=> Len(g.rows) = 0)
    BY <2>3, RowsTyped, NoneAssumption DEF CutTo
  <2>5. g.rows # <<>> => vol[n].rows # <<>>
    BY <1>1, <1>4, <2>3, <2>4 DEF CutTo
  <2>6. (g.rows # <<>> => g.header = "full") /\ (rotating => g.header = "full")
    BY <1>0, <1>4, <2>3, <2>5 DEF HeaderFirst
  <2>7. g.corrupt => n = rewritten
    BY <1>0, <1>4, <2>3 DEF Clean
  <2>8. rotating /\ g.torn => n = volMarker /\ n = durMarker
    BY <1>0, <1>4, <2>3 DEF Settled
  <2> QED
    BY <1>4, <2>3, <2>4, <2>6, <2>7, <2>8
<1>5. CASE vol[n] # None /\ dur[n] = None
  <2>1. vol[n].rows = <<>> /\ vol[n] \in Contents /\ Len(vol[n].rows) = 0
    BY <1>0, <1>1, <1>5 DEF HeaderFirst
  <2>2. (vol[n].corrupt => n = rewritten) /\ (rotating => vol[n].header = "full")
        /\ (rotating /\ vol[n].torn => n = volMarker /\ n = durMarker)
    BY <1>0, <1>5 DEF Clean, HeaderFirst, Settled
  <2>3. CASE g = None
    BY <1>5, <2>3
  <2>4. CASE g = vol[n] /\ rotating
    BY <1>2, <1>5, <2>1, <2>2, <2>4
  <2>5. CASE ~rotating /\ g \in Between(EmptyFile, vol[n])
    <3>1. EmptyFile \in Contents /\ Len(EmptyFile.rows) = 0 /\ ~EmptyFile.corrupt
      BY PlainFiles, RowsTyped
    <3>2. CutTo(vol[n], g) /\ (g.corrupt => EmptyFile.corrupt \/ vol[n].corrupt)
      BY <2>1, <2>5, <3>1, BetweenFile
    <3>3. g.rows = <<>> /\ Len(g.rows) = 0
      BY <2>1, <3>2, RowsTyped DEF CutTo
    <3> QED
      BY <1>5, <2>2, <2>5, <3>1, <3>2, <3>3
  <2> QED
    BY <1>5, <2>3, <2>4, <2>5 DEF AfterPowerLoss
<1> QED
  BY <1>3, <1>4, <1>5

LEMMA WriteHeaderKeeps == Inv /\ WriteHeader => Inv'
<1> SUFFICES ASSUME Inv, WriteHeader PROVE Inv'
  OBVIOUS
<1>0. /\ TypeOK /\ Place /\ Extends /\ HeaderFirst /\ Clean /\ Settled /\ Staged /\ Sized
      /\ Dated /\ Numbered /\ Kept
  BY DEF Inv
<1>n. /\ Names \subseteq Nat \ {0} /\ 1 \in Names /\ None \notin Names /\ None \notin Int
      /\ Batches = 1..Len(BatchSizes) /\ Len(BatchSizes) \in Nat
      /\ \A b \in Batches : BatchSizes[b] \in Nat \ {0}
  BY NamesTyped
<1>f. \A n \in Names :
             /\ vol[n] # None => /\ vol[n] \in Contents /\ Len(vol[n].rows) \in Nat
                                 /\ vol[n].rows = <<>> <=> Len(vol[n].rows) = 0
                                 /\ \A i \in 1..Len(vol[n].rows) :
                                      vol[n].rows[i] \in Batches \X Nat
             /\ dur[n] # None => /\ dur[n] \in Contents /\ Len(dur[n].rows) \in Nat
                                 /\ dur[n].rows = <<>> <=> Len(dur[n].rows) = 0
  BY <1>0, FilesTyped
<1>w. /\ 1 \in Names /\ current = 1 /\ vol[1] # None /\ vol[1] \in Contents /\ ~rotating
      /\ vol' = [vol EXCEPT ![1] = [vol[1] EXCEPT !.header = "full"]]
      /\ vol'[1] \in Contents /\ vol'[1].header = "full" /\ vol'[1].rows = vol[1].rows
      /\ vol'[1].torn = vol[1].torn /\ vol'[1].corrupt = vol[1].corrupt
      /\ \A n \in Names : n # 1 => vol'[n] = vol[n]
  <2>1. current = 1 /\ vol[1] # None /\ ~rotating /\ vol[1] \in Contents
    BY <1>0, <1>n, <1>f DEF WriteHeader, Place, Busy, Creating
  <2>2. vol \in [Names -> Files]
    BY <1>0 DEF TypeOK
  <2>3. vol' = [vol EXCEPT ![1] = [vol[1] EXCEPT !.header = "full"]]
    BY DEF WriteHeader
  <2>4. vol'[1] = [vol[1] EXCEPT !.header = "full"]
    BY <1>n, <2>2, <2>3
  <2>5. /\ vol'[1] \in Contents /\ vol'[1].header = "full" /\ vol'[1].rows = vol[1].rows
        /\ vol'[1].torn = vol[1].torn /\ vol'[1].corrupt = vol[1].corrupt
    BY <2>1, <2>4 DEF Contents, Headers
  <2> QED
    BY <1>n, <2>1, <2>2, <2>3, <2>5
<1>u. /\ pc = "header" /\ pc' = "parentSync" /\ rotating' = rotating /\ dur' = dur
      /\ volMarker' = volMarker /\ durMarker' = durMarker /\ volPending' = volPending
      /\ durPending' = durPending /\ after' = after /\ current' = current /\ date' = date
      /\ bytes' = bytes /\ has_events' = has_events /\ poisoned' = poisoned
      /\ buffered' = buffered /\ rewritten' = rewritten /\ begun' = begun /\ next' = next
      /\ day' = day /\ acked' = acked
  BY DEF WriteHeader, journal
<1>t. TypeOK'
  <2>1. vol' \in [Names -> Files]
    BY <1>0, <1>w DEF TypeOK, Files
  <2> QED
    BY <1>0, <1>n, <1>u, <1>w, <2>1, NoneAssumption DEF TypeOK, Opening
<1>p. Place'
  BY <1>0, <1>n, <1>f, <1>u, <1>w, NoneAssumption DEF Place, Busy, Creating, Steps
<1>e. Extends'
  BY <1>0, <1>n, <1>f, <1>u, <1>w, NoneAssumption DEF Extends
<1>h. HeaderFirst'
  BY <1>0, <1>n, <1>f, <1>u, <1>w, NoneAssumption DEF HeaderFirst, Ready
<1>c. Clean'
  BY <1>0, <1>n, <1>f DEF WriteHeader, files, journal, bounds, Clean, Place, Busy, Creating, Ready, Settled, Files
<1>s. Settled'
  BY <1>0, <1>n, <1>f DEF WriteHeader, files, journal, bounds, Settled, Place, Busy, Creating, Ready, Extends
<1>g. Staged'
  BY <1>0, <1>n, <1>f DEF WriteHeader, files, journal, bounds, Staged, Place, Busy, Creating, Ready, Extends
<1>z. Sized'
  BY <1>0, <1>n, <1>f DEF WriteHeader, files, journal, bounds, Sized, Place, Busy, Creating, Ready, Staged, OneBatch
<1>d. Dated'
  BY <1>0, <1>n, <1>f DEF WriteHeader, files, journal, bounds, Dated, TypeOK, Place
<1>m. Numbered'
  BY <1>0, <1>t, <1>u, <1>w, NumberedKeeps DEF Numbered, Place
<1>v. Evolves
  BY <1>0, <1>n, <1>f DEF WriteHeader, files, journal, bounds, Evolves, Numbered, Place, Busy, Creating, Extends
<1>k. Kept'
  BY <1>t, <1>e, <1>v, EvolvesKeeps DEF WriteHeader, files, journal, bounds
<1> QED
  BY <1>t, <1>p, <1>e, <1>h, <1>c, <1>s, <1>g, <1>z, <1>d, <1>m, <1>k DEF Inv

LEMMA ParentSyncKeeps == Inv /\ ParentSync => Inv'
<1> SUFFICES ASSUME Inv, ParentSync PROVE Inv'
  OBVIOUS
<1>0. /\ TypeOK /\ Place /\ Extends /\ HeaderFirst /\ Clean /\ Settled /\ Staged /\ Sized
      /\ Dated /\ Numbered /\ Kept
  BY DEF Inv
<1>n. /\ Names \subseteq Nat \ {0} /\ 1 \in Names /\ None \notin Names /\ None \notin Int
      /\ Batches = 1..Len(BatchSizes) /\ Len(BatchSizes) \in Nat
      /\ \A b \in Batches : BatchSizes[b] \in Nat \ {0}
  BY NamesTyped
<1>f. \A n \in Names :
             /\ vol[n] # None => /\ vol[n] \in Contents /\ Len(vol[n].rows) \in Nat
                                 /\ vol[n].rows = <<>> <=> Len(vol[n].rows) = 0
                                 /\ \A i \in 1..Len(vol[n].rows) :
                                      vol[n].rows[i] \in Batches \X Nat
             /\ dur[n] # None => /\ dur[n] \in Contents /\ Len(dur[n].rows) \in Nat
                                 /\ dur[n].rows = <<>> <=> Len(dur[n].rows) = 0
  BY <1>0, FilesTyped
<1>u. /\ pc = "parentSync" /\ pc' = "idle"
      /\ rotating' = rotating /\ vol' = vol /\ volMarker' = volMarker
      /\ durMarker' = durMarker /\ volPending' = volPending /\ durPending' = durPending
      /\ after' = after /\ current' = current /\ date' = date /\ bytes' = bytes
      /\ has_events' = has_events /\ poisoned' = poisoned /\ buffered' = buffered
      /\ rewritten' = rewritten /\ begun' = begun /\ next' = next /\ day' = day
      /\ acked' = acked
  BY <1>0 DEF ParentSync, files, journal, bounds, Place
<1>w. /\ 1 \in Names /\ current = 1 /\ ~rotating /\ vol[1] # None /\ vol[1].header = "full"
      /\ dur'[1] = vol[1] /\ \A n \in Names : n # 1 => dur'[n] = dur[n]
  BY <1>0, <1>n DEF ParentSync, Place, TypeOK, HeaderFirst, Creating, Busy
<1>t. TypeOK'
  BY <1>0, <1>n, <1>f DEF ParentSync, files, journal, bounds, TypeOK, Files, Opening, Place, Busy, Creating, Steps
<1>p. Place'
  BY <1>0, <1>n, <1>f DEF ParentSync, files, journal, bounds, Place, TypeOK, Busy, Creating, Steps, Numbered
<1>e. Extends'
  BY <1>0, <1>n, <1>f DEF ParentSync, files, journal, bounds, Extends, Place, Busy, Creating
<1>h. HeaderFirst'
  BY <1>0, <1>n, <1>f, <1>u, <1>w DEF HeaderFirst, Ready
<1>c. Clean'
  <2>1. \A n \in Names : dur'[n] # None /\ dur'[n].corrupt => n = rewritten'
    <3> SUFFICES ASSUME NEW n \in Names, dur'[n] # None, dur'[n].corrupt PROVE n = rewritten
      BY <1>u
    <3>1. CASE n = 1
      BY <1>0, <1>w, <3>1 DEF Clean
    <3>2. CASE n # 1
      BY <1>0, <1>w, <3>2 DEF Clean
    <3> QED
      BY <3>1, <3>2
  <2>2. ~vol[current].torn
    BY <1>0, <1>u DEF Clean
  <2>3. \A n \in Names : vol'[n] # None /\ vol'[n].corrupt => n = rewritten'
    BY <1>0, <1>u DEF Clean
  <2> QED
    BY <1>u, <2>1, <2>2, <2>3 DEF Clean
<1>s. Settled'
  BY <1>0, <1>n, <1>f DEF ParentSync, files, journal, bounds, Settled, Place, Busy, Creating, Ready, Extends
<1>g. Staged'
  BY <1>0, <1>n, <1>f DEF ParentSync, files, journal, bounds, Staged, Place, Busy, Creating, Ready, Extends
<1>z. Sized'
  BY <1>0, <1>n, <1>f DEF ParentSync, files, journal, bounds, Sized, Place, Busy, Creating, Ready, Staged, OneBatch
<1>d. Dated'
  BY <1>0, <1>n, <1>f DEF ParentSync, files, journal, bounds, Dated, TypeOK, Place
<1>m. Numbered'
  BY <1>0, <1>t, <1>u, <1>w, NumberedKeeps DEF Numbered
<1>v. Evolves
  BY <1>0, <1>n, <1>f DEF ParentSync, files, journal, bounds, Evolves, Numbered, Place, Busy, Creating, Extends
<1>k. Kept'
  BY <1>t, <1>e, <1>v, EvolvesKeeps DEF ParentSync, files, journal, bounds
<1> QED
  BY <1>t, <1>p, <1>e, <1>h, <1>c, <1>s, <1>g, <1>z, <1>d, <1>m, <1>k DEF Inv

LEMMA StageKeeps == Inv /\ Stage => Inv'
<1> SUFFICES ASSUME Inv, Stage PROVE Inv'
  OBVIOUS
<1>0. /\ TypeOK /\ Place /\ Extends /\ HeaderFirst /\ Clean /\ Settled /\ Staged /\ Sized
      /\ Dated /\ Numbered /\ Kept
  BY DEF Inv
<1>n. /\ Names \subseteq Nat \ {0} /\ 1 \in Names /\ None \notin Names /\ None \notin Int
      /\ Batches = 1..Len(BatchSizes) /\ Len(BatchSizes) \in Nat
      /\ \A b \in Batches : BatchSizes[b] \in Nat \ {0}
  BY NamesTyped
<1>f. \A n \in Names :
             /\ vol[n] # None => /\ vol[n] \in Contents /\ Len(vol[n].rows) \in Nat
                                 /\ vol[n].rows = <<>> <=> Len(vol[n].rows) = 0
                                 /\ \A i \in 1..Len(vol[n].rows) :
                                      vol[n].rows[i] \in Batches \X Nat
             /\ dur[n] # None => /\ dur[n] \in Contents /\ Len(dur[n].rows) \in Nat
                                 /\ dur[n].rows = <<>> <=> Len(dur[n].rows) = 0
  BY <1>0, FilesTyped
<1>t. TypeOK'
  BY <1>0, <1>n, <1>f DEF Stage, files, journal, bounds, TypeOK, Files, Opening, Place, Busy, Creating, Steps
<1>p. Place'
  BY <1>0, <1>n, <1>f DEF Stage, files, journal, bounds, Place, TypeOK, Busy, Creating, Steps, Numbered
<1>e. Extends'
  BY <1>0, <1>n, <1>f DEF Stage, files, journal, bounds, Extends, Place, Busy, Creating
<1>h. HeaderFirst'
  BY <1>0, <1>n, <1>f DEF Stage, files, journal, bounds, HeaderFirst, Place, Busy, Creating, Ready, Extends, Settled
<1>c. Clean'
  BY <1>0, <1>n, <1>f DEF Stage, files, journal, bounds, Clean, Place, Busy, Creating, Ready, Settled, Files
<1>s. Settled'
  BY <1>0, <1>n, <1>f DEF Stage, files, journal, bounds, Settled, Place, Busy, Creating, Ready, Extends
<1>g. Staged'
  <2>1. Unlinked \notin Names /\ Unlinked # None
    BY <1>n DEF Unlinked
  <2> QED
    BY <1>0, <2>1 DEF Stage, files, journal, Staged, Ready
<1>z. Sized'
  BY <1>0, <1>n, <1>f DEF Stage, files, journal, bounds, Sized, Place, Busy, Creating, Ready, Staged, OneBatch
<1>d. Dated'
  BY <1>0, <1>n, <1>f DEF Stage, files, journal, bounds, Dated, TypeOK, Place
<1>m. Numbered'
  <2>1. \A b \in acked' : b < next'
    BY <1>0 DEF Stage, Numbered
  <2> QED
    BY <1>0, <1>t, <2>1, NumberedKeeps DEF Stage, files, journal, bounds
<1>v. Evolves
  BY <1>0, <1>n, <1>f DEF Stage, files, journal, bounds, Evolves, Numbered, Place, Busy, Creating, Extends
<1>k. Kept'
  BY <1>t, <1>e, <1>v, EvolvesKeeps DEF Stage, files, journal, bounds
<1> QED
  BY <1>t, <1>p, <1>e, <1>h, <1>c, <1>s, <1>g, <1>z, <1>d, <1>m, <1>k DEF Inv

LEMMA PublishKeeps == Inv /\ Publish => Inv'
<1> SUFFICES ASSUME Inv, Publish PROVE Inv'
  OBVIOUS
<1>0. /\ TypeOK /\ Place /\ Extends /\ HeaderFirst /\ Clean /\ Settled /\ Staged /\ Sized
      /\ Dated /\ Numbered /\ Kept
  BY DEF Inv
<1>n. /\ Names \subseteq Nat \ {0} /\ 1 \in Names /\ None \notin Names /\ None \notin Int
      /\ Batches = 1..Len(BatchSizes) /\ Len(BatchSizes) \in Nat
      /\ \A b \in Batches : BatchSizes[b] \in Nat \ {0}
  BY NamesTyped
<1>f. \A n \in Names :
             /\ vol[n] # None => /\ vol[n] \in Contents /\ Len(vol[n].rows) \in Nat
                                 /\ vol[n].rows = <<>> <=> Len(vol[n].rows) = 0
                                 /\ \A i \in 1..Len(vol[n].rows) :
                                      vol[n].rows[i] \in Batches \X Nat
             /\ dur[n] # None => /\ dur[n] \in Contents /\ Len(dur[n].rows) \in Nat
                                 /\ dur[n].rows = <<>> <=> Len(dur[n].rows) = 0
  BY <1>0, FilesTyped
<1>u. /\ pc = "publish" /\ pc' = "unlink" /\ rotating
      /\ rotating' = rotating /\ dur' = dur /\ volMarker' = volMarker
      /\ durMarker' = durMarker /\ durPending' = durPending /\ after' = after
      /\ date' = date /\ bytes' = bytes /\ has_events' = has_events /\ poisoned' = poisoned
      /\ buffered' = buffered /\ rewritten' = rewritten /\ begun' = begun /\ next' = next
      /\ day' = day /\ acked' = acked
  BY <1>0 DEF Publish, files, journal, bounds, Place, Creating
<1>w. PICK m \in Names : /\ vol[m] = None /\ current' = m /\ volPending' = m
                         /\ vol' = [vol EXCEPT ![m] = HeaderOnly]
  BY DEF Publish
<1>x. /\ vol'[m] = HeaderOnly /\ dur[m] = None /\ m # volMarker /\ m # durMarker
      /\ \A n \in Names : n # m => vol'[n] = vol[n]
  BY <1>0, <1>n, <1>u, <1>w DEF TypeOK, Extends, Settled
<1>y. /\ HeaderOnly.rows = <<>> /\ ~HeaderOnly.torn /\ ~HeaderOnly.corrupt /\ HeaderOnly # None
      /\ HeaderOnly.header = "full" /\ HeaderOnly \in Contents /\ Len(HeaderOnly.rows) = 0
  BY PlainFiles, RowsTyped, NoneAssumption
<1>t. TypeOK'
  BY <1>0, <1>n, <1>f DEF Publish, files, journal, bounds, TypeOK, Files, Opening, Place, Busy, Creating, Steps
<1>p. Place'
  BY <1>0, <1>n, <1>f DEF Publish, files, journal, bounds, Place, TypeOK, Busy, Creating, Steps, Numbered
<1>e. Extends'
  BY <1>0, <1>n, <1>f, <1>u, <1>w, <1>x, <1>y DEF Extends
<1>h. HeaderFirst'
  BY <1>0, <1>n, <1>f, <1>u, <1>w, <1>x, <1>y DEF HeaderFirst, Ready
<1>c. Clean'
  BY <1>0, <1>n, <1>f, <1>u, <1>w, <1>x, <1>y DEF Clean, Ready
<1>s. Settled'
  BY <1>0, <1>n, <1>f, <1>u, <1>w, <1>x, <1>y DEF Settled, Ready, Creating
<1>g. Staged'
  BY <1>0, <1>n, <1>f, <1>u, <1>w, <1>x, <1>y DEF Staged, Ready
<1>z. Sized'
  BY <1>0, <1>n, <1>f, <1>u, <1>w, <1>x, <1>y DEF Sized, Ready, OneBatch
<1>d. Dated'
  BY <1>0, <1>n, <1>f DEF Publish, files, journal, bounds, Dated, TypeOK, Place
<1>m. Numbered'
  <2>1. \A n \in Names : vol'[n] # None => \A i \in 1..Len(vol'[n].rows) :
          vol[n] # None /\ i <= Len(vol[n].rows) /\ vol'[n].rows[i] = vol[n].rows[i]
    BY <1>f, <1>x, <1>y
  <2> QED
    BY <1>0, <1>t, <1>u, <2>1, NumberedKeeps DEF Numbered
<1>v. Evolves
  BY <1>0, <1>n, <1>f, <1>u, <1>w, <1>x, <1>y DEF Evolves, Extends, Numbered
<1>k. Kept'
  BY <1>t, <1>e, <1>v, EvolvesKeeps DEF Publish, files, journal, bounds
<1> QED
  BY <1>t, <1>p, <1>e, <1>h, <1>c, <1>s, <1>g, <1>z, <1>d, <1>m, <1>k DEF Inv

LEMMA UnlinkKeeps == Inv /\ Unlink => Inv'
<1> SUFFICES ASSUME Inv, Unlink PROVE Inv'
  OBVIOUS
<1>0. /\ TypeOK /\ Place /\ Extends /\ HeaderFirst /\ Clean /\ Settled /\ Staged /\ Sized
      /\ Dated /\ Numbered /\ Kept
  BY DEF Inv
<1>n. /\ Names \subseteq Nat \ {0} /\ 1 \in Names /\ None \notin Names /\ None \notin Int
      /\ Batches = 1..Len(BatchSizes) /\ Len(BatchSizes) \in Nat
      /\ \A b \in Batches : BatchSizes[b] \in Nat \ {0}
  BY NamesTyped
<1>f. \A n \in Names :
             /\ vol[n] # None => /\ vol[n] \in Contents /\ Len(vol[n].rows) \in Nat
                                 /\ vol[n].rows = <<>> <=> Len(vol[n].rows) = 0
                                 /\ \A i \in 1..Len(vol[n].rows) :
                                      vol[n].rows[i] \in Batches \X Nat
             /\ dur[n] # None => /\ dur[n] \in Contents /\ Len(dur[n].rows) \in Nat
                                 /\ dur[n].rows = <<>> <=> Len(dur[n].rows) = 0
  BY <1>0, FilesTyped
<1>t. TypeOK'
  BY <1>0, <1>n, <1>f DEF Unlink, files, journal, bounds, TypeOK, Files, Opening, Place, Busy, Creating, Steps
<1>p. Place'
  BY <1>0, <1>n, <1>f DEF Unlink, files, journal, bounds, Place, TypeOK, Busy, Creating, Steps, Numbered
<1>e. Extends'
  BY <1>0, <1>n, <1>f DEF Unlink, files, journal, bounds, Extends, Place, Busy, Creating
<1>h. HeaderFirst'
  BY <1>0, <1>n, <1>f DEF Unlink, files, journal, bounds, HeaderFirst, Place, Busy, Creating, Ready, Extends, Settled
<1>c. Clean'
  BY <1>0, <1>n, <1>f DEF Unlink, files, journal, bounds, Clean, Place, Busy, Creating, Ready, Settled, Files
<1>s. Settled'
  BY <1>0, <1>n, <1>f DEF Unlink, files, journal, bounds, Settled, Place, Busy, Creating, Ready, Extends
<1>g. Staged'
  BY <1>0, <1>n, <1>f DEF Unlink, files, journal, bounds, Staged, Place, Busy, Creating, Ready, Extends
<1>z. Sized'
  BY <1>0, <1>n, <1>f DEF Unlink, files, journal, bounds, Sized, Place, Busy, Creating, Ready, Staged, OneBatch
<1>d. Dated'
  BY <1>0, <1>n, <1>f DEF Unlink, files, journal, bounds, Dated, TypeOK, Place
<1>m. Numbered'
  <2>1. \A b \in acked' : b < next'
    BY <1>0 DEF Unlink, Numbered
  <2> QED
    BY <1>0, <1>t, <2>1, NumberedKeeps DEF Unlink, files, journal, bounds
<1>v. Evolves
  BY <1>0, <1>n, <1>f DEF Unlink, files, journal, bounds, Evolves, Numbered, Place, Busy, Creating, Extends
<1>k. Kept'
  BY <1>t, <1>e, <1>v, EvolvesKeeps DEF Unlink, files, journal, bounds
<1> QED
  BY <1>t, <1>p, <1>e, <1>h, <1>c, <1>s, <1>g, <1>z, <1>d, <1>m, <1>k DEF Inv

LEMMA SegmentDirectorySyncKeeps == Inv /\ SegmentDirectorySync => Inv'
<1> SUFFICES ASSUME Inv, SegmentDirectorySync PROVE Inv'
  OBVIOUS
<1>0. /\ TypeOK /\ Place /\ Extends /\ HeaderFirst /\ Clean /\ Settled /\ Staged /\ Sized
      /\ Dated /\ Numbered /\ Kept
  BY DEF Inv
<1>n. /\ Names \subseteq Nat \ {0} /\ 1 \in Names /\ None \notin Names /\ None \notin Int
      /\ Batches = 1..Len(BatchSizes) /\ Len(BatchSizes) \in Nat
      /\ \A b \in Batches : BatchSizes[b] \in Nat \ {0}
  BY NamesTyped
<1>f. \A n \in Names :
             /\ vol[n] # None => /\ vol[n] \in Contents /\ Len(vol[n].rows) \in Nat
                                 /\ vol[n].rows = <<>> <=> Len(vol[n].rows) = 0
                                 /\ \A i \in 1..Len(vol[n].rows) :
                                      vol[n].rows[i] \in Batches \X Nat
             /\ dur[n] # None => /\ dur[n] \in Contents /\ Len(dur[n].rows) \in Nat
                                 /\ dur[n].rows = <<>> <=> Len(dur[n].rows) = 0
  BY <1>0, FilesTyped
<1>u. /\ pc = "segmentSync" /\ pc' = "markerRename" /\ rotating
      /\ rotating' = rotating /\ vol' = vol /\ volMarker' = volMarker
      /\ volPending' = volPending /\ after' = after /\ current' = current /\ date' = date
      /\ bytes' = bytes /\ has_events' = has_events /\ poisoned' = poisoned
      /\ buffered' = buffered /\ rewritten' = rewritten /\ begun' = begun /\ next' = next
      /\ day' = day /\ acked' = acked
  BY <1>0 DEF SegmentDirectorySync, files, journal, bounds, sync_directory, Place, Creating
<1>w. /\ durMarker' = volMarker /\ durPending' = volPending /\ current \in Names /\ vol[current] # None
      /\ \A n \in Names : dur'[n] = IF dur[n] = None THEN vol[n] ELSE dur[n]
  BY <1>0 DEF SegmentDirectorySync, sync_directory, Place, Creating
<1>t. TypeOK'
  BY <1>0, <1>n, <1>f DEF SegmentDirectorySync, sync_directory, files, journal, bounds, TypeOK, Files, Opening, Place, Busy, Creating, Steps
<1>p. Place'
  BY <1>0, <1>n, <1>f DEF SegmentDirectorySync, sync_directory, files, journal, bounds, Place, TypeOK, Busy, Creating, Steps, Numbered
<1>e. Extends'
  BY <1>0, <1>n, <1>f DEF SegmentDirectorySync, sync_directory, files, journal, bounds, Extends, Place, Busy, Creating
<1>h. HeaderFirst'
  BY <1>0, <1>n, <1>f DEF SegmentDirectorySync, sync_directory, files, journal, bounds, HeaderFirst, Place, Busy, Creating, Ready, Extends, Settled
<1>c. Clean'
  BY <1>0, <1>n, <1>f DEF SegmentDirectorySync, sync_directory, files, journal, bounds, Clean, Place, Busy, Creating, Ready, Settled, Files
<1>s. Settled'
  <2>1. \A n \in Names : vol[n] # None => ~vol[n].torn /\ dur'[n] = vol[n]
    BY <1>0, <1>n, <1>u, <1>w DEF Settled, Creating
  <2>2. dur[volMarker] # None \/ volMarker = None
    BY <1>0, <1>u DEF Settled
  <2>3. volMarker # None => dur'[volMarker] # None
    BY <1>0, <1>w, <2>2 DEF TypeOK
  <2> QED
    BY <1>u, <1>w, <2>1, <2>3, NoneAssumption DEF Settled, Ready, Creating
<1>g. Staged'
  BY <1>0, <1>n, <1>f DEF SegmentDirectorySync, sync_directory, files, journal, bounds, Staged, Place, Busy, Creating, Ready, Extends
<1>z. Sized'
  BY <1>0, <1>n, <1>f DEF SegmentDirectorySync, sync_directory, files, journal, bounds, Sized, Place, Busy, Creating, Ready, Staged, OneBatch
<1>d. Dated'
  BY <1>0, <1>n, <1>f DEF SegmentDirectorySync, sync_directory, files, journal, bounds, Dated, TypeOK, Place
<1>m. Numbered'
  BY <1>0, <1>t, <1>u, NumberedKeeps DEF Numbered
<1>v. Evolves
  BY <1>0, <1>n, <1>f DEF SegmentDirectorySync, sync_directory, files, journal, bounds, Evolves, Numbered, Place, Busy, Creating, Extends
<1>k. Kept'
  BY <1>t, <1>e, <1>v, EvolvesKeeps DEF SegmentDirectorySync, sync_directory, files, journal, bounds
<1> QED
  BY <1>t, <1>p, <1>e, <1>h, <1>c, <1>s, <1>g, <1>z, <1>d, <1>m, <1>k DEF Inv

LEMMA MarkerRenameKeeps == Inv /\ MarkerRename => Inv'
<1> SUFFICES ASSUME Inv, MarkerRename PROVE Inv'
  OBVIOUS
<1>0. /\ TypeOK /\ Place /\ Extends /\ HeaderFirst /\ Clean /\ Settled /\ Staged /\ Sized
      /\ Dated /\ Numbered /\ Kept
  BY DEF Inv
<1>n. /\ Names \subseteq Nat \ {0} /\ 1 \in Names /\ None \notin Names /\ None \notin Int
      /\ Batches = 1..Len(BatchSizes) /\ Len(BatchSizes) \in Nat
      /\ \A b \in Batches : BatchSizes[b] \in Nat \ {0}
  BY NamesTyped
<1>f. \A n \in Names :
             /\ vol[n] # None => /\ vol[n] \in Contents /\ Len(vol[n].rows) \in Nat
                                 /\ vol[n].rows = <<>> <=> Len(vol[n].rows) = 0
                                 /\ \A i \in 1..Len(vol[n].rows) :
                                      vol[n].rows[i] \in Batches \X Nat
             /\ dur[n] # None => /\ dur[n] \in Contents /\ Len(dur[n].rows) \in Nat
                                 /\ dur[n].rows = <<>> <=> Len(dur[n].rows) = 0
  BY <1>0, FilesTyped
<1>t. TypeOK'
  BY <1>0, <1>n, <1>f DEF MarkerRename, files, journal, bounds, TypeOK, Files, Opening, Place, Busy, Creating, Steps
<1>p. Place'
  BY <1>0, <1>n, <1>f DEF MarkerRename, files, journal, bounds, Place, TypeOK, Busy, Creating, Steps, Numbered
<1>e. Extends'
  BY <1>0, <1>n, <1>f DEF MarkerRename, files, journal, bounds, Extends, Place, Busy, Creating
<1>h. HeaderFirst'
  BY <1>0, <1>n, <1>f DEF MarkerRename, files, journal, bounds, HeaderFirst, Place, Busy, Creating, Ready, Extends, Settled
<1>c. Clean'
  BY <1>0, <1>n, <1>f DEF MarkerRename, files, journal, bounds, Clean, Place, Busy, Creating, Ready, Settled, Files
<1>s. Settled'
  BY <1>0, <1>n, <1>f DEF MarkerRename, files, journal, bounds, Settled, Place, Busy, Creating, Ready, Extends
<1>g. Staged'
  BY <1>0, <1>n, <1>f DEF MarkerRename, files, journal, bounds, Staged, Place, Busy, Creating, Ready, Extends
<1>z. Sized'
  BY <1>0, <1>n, <1>f DEF MarkerRename, files, journal, bounds, Sized, Place, Busy, Creating, Ready, Staged, OneBatch
<1>d. Dated'
  BY <1>0, <1>n, <1>f DEF MarkerRename, files, journal, bounds, Dated, TypeOK, Place
<1>m. Numbered'
  <2>1. \A b \in acked' : b < next'
    BY <1>0 DEF MarkerRename, Numbered
  <2> QED
    BY <1>0, <1>t, <2>1, NumberedKeeps DEF MarkerRename, files, journal, bounds
<1>v. Evolves
  BY <1>0, <1>n, <1>f DEF MarkerRename, files, journal, bounds, Evolves, Numbered, Place, Busy, Creating, Extends
<1>k. Kept'
  BY <1>t, <1>e, <1>v, EvolvesKeeps DEF MarkerRename, files, journal, bounds
<1> QED
  BY <1>t, <1>p, <1>e, <1>h, <1>c, <1>s, <1>g, <1>z, <1>d, <1>m, <1>k DEF Inv

LEMMA MarkerDirectorySyncKeeps == Inv /\ MarkerDirectorySync => Inv'
<1> SUFFICES ASSUME Inv, MarkerDirectorySync PROVE Inv'
  OBVIOUS
<1>0. /\ TypeOK /\ Place /\ Extends /\ HeaderFirst /\ Clean /\ Settled /\ Staged /\ Sized
      /\ Dated /\ Numbered /\ Kept
  BY DEF Inv
<1>n. /\ Names \subseteq Nat \ {0} /\ 1 \in Names /\ None \notin Names /\ None \notin Int
      /\ Batches = 1..Len(BatchSizes) /\ Len(BatchSizes) \in Nat
      /\ \A b \in Batches : BatchSizes[b] \in Nat \ {0}
  BY NamesTyped
<1>f. \A n \in Names :
             /\ vol[n] # None => /\ vol[n] \in Contents /\ Len(vol[n].rows) \in Nat
                                 /\ vol[n].rows = <<>> <=> Len(vol[n].rows) = 0
                                 /\ \A i \in 1..Len(vol[n].rows) :
                                      vol[n].rows[i] \in Batches \X Nat
             /\ dur[n] # None => /\ dur[n] \in Contents /\ Len(dur[n].rows) \in Nat
                                 /\ dur[n].rows = <<>> <=> Len(dur[n].rows) = 0
  BY <1>0, FilesTyped
<1>t. TypeOK'
  BY <1>0, <1>n, <1>f DEF MarkerDirectorySync, sync_directory, files, journal, bounds, TypeOK, Files, Opening, Place, Busy, Creating, Steps
<1>p. Place'
  BY <1>0, <1>n, <1>f DEF MarkerDirectorySync, sync_directory, files, journal, bounds, Place, TypeOK, Busy, Creating, Steps, Numbered
<1>e. Extends'
  BY <1>0, <1>n, <1>f DEF MarkerDirectorySync, sync_directory, files, journal, bounds, Extends, Place, Busy, Creating
<1>h. HeaderFirst'
  BY <1>0, <1>n, <1>f DEF MarkerDirectorySync, sync_directory, files, journal, bounds, HeaderFirst, Place, Busy, Creating, Ready, Extends, Settled
<1>c. Clean'
  BY <1>0, <1>n, <1>f DEF MarkerDirectorySync, sync_directory, files, journal, bounds, Clean, Place, Busy, Creating, Ready, Settled, Files
<1>s. Settled'
  BY <1>0, <1>n, <1>f DEF MarkerDirectorySync, sync_directory, files, journal, bounds, Settled, Place, Busy, Creating, Ready, Extends
<1>g. Staged'
  BY <1>0, <1>n, <1>f DEF MarkerDirectorySync, sync_directory, files, journal, bounds, Staged, Place, Busy, Creating, Ready, Extends
<1>z. Sized'
  BY <1>0, <1>n, <1>f DEF MarkerDirectorySync, sync_directory, files, journal, bounds, Sized, Place, Busy, Creating, Ready, Staged, OneBatch
<1>d. Dated'
  BY <1>0, <1>n, <1>f DEF MarkerDirectorySync, sync_directory, files, journal, bounds, Dated, TypeOK, Place
<1>m. Numbered'
  <2>1. /\ pc # "sync" /\ pc' # "sync" /\ vol' = vol /\ next' = next /\ acked' = acked
    BY <1>0 DEF MarkerDirectorySync, sync_directory, Place
  <2> QED
    BY <1>0, <1>t, <2>1, NumberedKeeps DEF Numbered
<1>v. Evolves
  BY <1>0, <1>n, <1>f DEF MarkerDirectorySync, sync_directory, files, journal, bounds, Evolves, Numbered, Place, Busy, Creating, Extends
<1>k. Kept'
  BY <1>t, <1>e, <1>v, EvolvesKeeps DEF MarkerDirectorySync, sync_directory, files, journal, bounds
<1> QED
  BY <1>t, <1>p, <1>e, <1>h, <1>c, <1>s, <1>g, <1>z, <1>d, <1>m, <1>k DEF Inv

LEMMA Append1Keeps == Inv /\ Append1 => Inv'
<1> SUFFICES ASSUME Inv, Append1 PROVE Inv'
  OBVIOUS
<1>0. /\ TypeOK /\ Place /\ Extends /\ HeaderFirst /\ Clean /\ Settled /\ Staged /\ Sized
      /\ Dated /\ Numbered /\ Kept
  BY DEF Inv
<1>n. /\ Names \subseteq Nat \ {0} /\ 1 \in Names /\ None \notin Names /\ None \notin Int
      /\ Batches = 1..Len(BatchSizes) /\ Len(BatchSizes) \in Nat
      /\ \A b \in Batches : BatchSizes[b] \in Nat \ {0}
  BY NamesTyped
<1>f. \A n \in Names :
             /\ vol[n] # None => /\ vol[n] \in Contents /\ Len(vol[n].rows) \in Nat
                                 /\ vol[n].rows = <<>> <=> Len(vol[n].rows) = 0
                                 /\ \A i \in 1..Len(vol[n].rows) :
                                      vol[n].rows[i] \in Batches \X Nat
             /\ dur[n] # None => /\ dur[n] \in Contents /\ Len(dur[n].rows) \in Nat
                                 /\ dur[n].rows = <<>> <=> Len(dur[n].rows) = 0
  BY <1>0, FilesTyped
<1>t. TypeOK'
  BY <1>0, <1>n, <1>f DEF Append1, LaterDate, Oversized, max, files, journal, bounds, TypeOK, Files, Opening, Place, Busy, Creating, Steps
<1>p. Place'
  BY <1>0, <1>n, <1>f DEF Append1, LaterDate, Oversized, max, files, journal, bounds, Place, TypeOK, Busy, Creating, Steps, Numbered
<1>e. Extends'
  BY <1>0, <1>n, <1>f DEF Append1, LaterDate, Oversized, max, files, journal, bounds, Extends, Place, Busy, Creating
<1>h. HeaderFirst'
  BY <1>0, <1>n, <1>f DEF Append1, LaterDate, Oversized, max, files, journal, bounds, HeaderFirst, Place, Busy, Creating, Ready, Extends, Settled
<1>c. Clean'
  BY <1>0, <1>n, <1>f DEF Append1, LaterDate, Oversized, max, files, journal, bounds, Clean, Place, Busy, Creating, Ready, Settled, Files
<1>s. Settled'
  <2>1. pc = "idle" /\ ~poisoned /\ pc' \in {"stage", "write"}
    BY DEF Append1
  <2>2. /\ rotating' = rotating /\ vol' = vol /\ dur' = dur /\ volMarker' = volMarker
        /\ durMarker' = durMarker /\ current' = current
    BY DEF Append1, files
  <2> QED
    <3> SUFFICES ASSUME rotating PROVE Settled'
      BY <2>2 DEF Settled
    <3>1. /\ current = volMarker /\ current = durMarker /\ dur[current] = vol[current]
          /\ ~vol[current].torn /\ current \in Names /\ vol[current] # None
          /\ dur[volMarker] # None /\ volMarker # None
      BY <1>0, <1>n, <2>1 DEF Settled, Ready, Clean, Place
    <3>2. \A n \in Names : vol[n] # None => ~vol[n].torn /\ (dur[n] # None => dur[n] = vol[n])
      BY <1>0, <3>1 DEF Settled
    <3> QED
      BY <1>0, <2>1, <2>2, <3>1, <3>2 DEF Settled, Ready
<1>g. Staged'
  BY <1>0, <1>n, <1>f DEF Append1, LaterDate, Oversized, max, files, journal, bounds, Staged, Place, Busy, Creating, Ready, Extends
<1>z. Sized'
  <2>1. /\ pc = "idle" /\ ~poisoned /\ pc' # "idle" /\ pc' # "sync"
        /\ rotating' = rotating /\ vol' = vol /\ current' = current /\ bytes' = bytes
        /\ next' = next /\ has_events' = has_events
        /\ pc' = "write" => ~Oversized
    BY DEF Append1, files
  <2>2. CASE pc' = "write" /\ rotating /\ max_bytes # None
    <3>1. bytes + BatchSizes[next] <= max_bytes \/ vol[current].rows = <<>>
      <4>1. bytes \in Nat /\ BatchSizes[next] \in Nat /\ max_bytes \in Nat
        BY <1>0, <1>n, <2>2, BatchAssumption DEF Append1, TypeOK
      <4> QED
        BY <1>0, <2>1, <2>2, <4>1 DEF Sized, Ready, Oversized
    <3> QED
      BY <1>0, <2>1, <2>2, <3>1 DEF Sized, Ready, OneBatch
  <2> QED
    BY <1>0, <2>1, <2>2 DEF Sized, Ready, OneBatch
<1>d. Dated'
  BY <1>0, <1>n, <1>f DEF Append1, LaterDate, Oversized, max, files, journal, bounds, Dated, TypeOK, Place
<1>m. Numbered'
  <2>1. \A b \in acked' : b < next'
    BY <1>0 DEF Append1, Numbered
  <2> QED
    BY <1>0, <1>t, <2>1, NumberedKeeps DEF Append1, files, journal, bounds
<1>v. Evolves
  BY <1>0, <1>n, <1>f DEF Append1, LaterDate, Oversized, max, files, journal, bounds, Evolves, Numbered, Place, Busy, Creating, Extends
<1>k. Kept'
  BY <1>t, <1>e, <1>v, EvolvesKeeps DEF Append1, LaterDate, Oversized, max, files, journal, bounds
<1> QED
  BY <1>t, <1>p, <1>e, <1>h, <1>c, <1>s, <1>g, <1>z, <1>d, <1>m, <1>k DEF Inv

LEMMA BatchSyncKeeps == Inv /\ BatchSync => Inv'
<1> SUFFICES ASSUME Inv, BatchSync PROVE Inv'
  OBVIOUS
<1>0. /\ TypeOK /\ Place /\ Extends /\ HeaderFirst /\ Clean /\ Settled /\ Staged /\ Sized
      /\ Dated /\ Numbered /\ Kept
  BY DEF Inv
<1>n. /\ Names \subseteq Nat \ {0} /\ 1 \in Names /\ None \notin Names /\ None \notin Int
      /\ Batches = 1..Len(BatchSizes) /\ Len(BatchSizes) \in Nat
      /\ \A b \in Batches : BatchSizes[b] \in Nat \ {0}
  BY NamesTyped
<1>f. \A n \in Names :
             /\ vol[n] # None => /\ vol[n] \in Contents /\ Len(vol[n].rows) \in Nat
                                 /\ vol[n].rows = <<>> <=> Len(vol[n].rows) = 0
                                 /\ \A i \in 1..Len(vol[n].rows) :
                                      vol[n].rows[i] \in Batches \X Nat
             /\ dur[n] # None => /\ dur[n] \in Contents /\ Len(dur[n].rows) \in Nat
                                 /\ dur[n].rows = <<>> <=> Len(dur[n].rows) = 0
  BY <1>0, FilesTyped
<1>u. /\ pc = "sync" /\ pc' = "idle" /\ next' = next + 1 /\ acked' = acked \cup {next}
      /\ rotating' = rotating /\ vol' = vol /\ volMarker' = volMarker
      /\ durMarker' = durMarker /\ volPending' = volPending /\ durPending' = durPending
      /\ after' = after /\ current' = current /\ date' = date /\ poisoned' = poisoned
      /\ buffered' = buffered /\ rewritten' = rewritten /\ begun' = begun /\ day' = day
  BY DEF BatchSync, files, journal, bounds
<1>w. /\ current \in Names /\ vol[current] # None /\ ~poisoned /\ next \in Batches
      /\ bytes' = bytes + BatchSizes[next] /\ has_events' = TRUE
      /\ dur'[current] = vol[current] /\ \A n \in Names : n # current => dur'[n] = dur[n]
  BY <1>0, <1>n DEF BatchSync, Place, TypeOK, Busy
<1>x. /\ Len(vol[current].rows) \in Nat /\ BatchSizes[next] \in Nat \ {0}
      /\ BatchSizes[next] <= Len(vol[current].rows)
      /\ \A i \in 1..BatchSizes[next] :
           vol[current].rows[Len(vol[current].rows) - BatchSizes[next] + i] = <<next, i>>
  BY <1>0, <1>n, <1>f, <1>u, <1>w DEF Numbered
<1>b. /\ \A b \in Batches : b \in Nat /\ BatchSizes[b] \in Nat \ {0}
      /\ acked \subseteq Batches /\ next \in Nat
  <2>1. \A b \in Batches : b \in Nat
    BY <1>n
  <2>2. acked \subseteq Batches
    BY <1>0 DEF TypeOK
  <2> QED
    BY <1>n, <1>w, <2>1, <2>2
<1>r. \A n \in Names : vol[n] # None => \A i \in 1..Len(vol[n].rows) : vol[n].rows[i][1] \in Nat
  BY <1>b, <1>f
<1>t. TypeOK'
  BY <1>0, <1>n, <1>f DEF BatchSync, files, journal, bounds, TypeOK, Files, Opening, Place, Busy, Creating, Steps
<1>p. Place'
  BY <1>0, <1>n, <1>f DEF BatchSync, files, journal, bounds, Place, TypeOK, Busy, Creating, Steps, Numbered
<1>e. Extends'
  BY <1>0, <1>n, <1>f DEF BatchSync, files, journal, bounds, Extends, Place, Busy, Creating
<1>h. HeaderFirst'
  BY <1>0, <1>n, <1>f DEF BatchSync, files, journal, bounds, HeaderFirst, Place, Busy, Creating, Ready, Extends, Settled
<1>c. Clean'
  <2>1. \A n \in Names : dur'[n] # None /\ dur'[n].corrupt => n = rewritten'
    <3> SUFFICES ASSUME NEW n \in Names, dur'[n] # None, dur'[n].corrupt PROVE n = rewritten
      BY <1>u
    <3>1. CASE n = current
      BY <1>0, <1>w, <3>1 DEF Clean
    <3>2. CASE n # current
      BY <1>0, <1>w, <3>2 DEF Clean
    <3> QED
      BY <3>1, <3>2
  <2>2. ~vol[current].torn
    BY <1>0, <1>u DEF Clean
  <2>3. \A n \in Names : vol'[n] # None /\ vol'[n].corrupt => n = rewritten'
    BY <1>0, <1>u DEF Clean
  <2> QED
    BY <1>u, <2>1, <2>2, <2>3 DEF Clean
<1>s. Settled'
  BY <1>0, <1>n, <1>f, <1>u, <1>w DEF Settled, Ready, Creating
<1>g. Staged'
  BY <1>0, <1>n, <1>f DEF BatchSync, files, journal, bounds, Staged, Place, Busy, Creating, Ready, Extends
<1>z. Sized'
  <2>1. vol[current].rows # <<>>
    BY <1>f, <1>w, <1>x
  <2> QED
    BY <1>0, <1>u, <1>w, <2>1 DEF Sized, Ready, OneBatch
<1>d. Dated'
  BY <1>0, <1>n, <1>f DEF BatchSync, files, journal, bounds, Dated, TypeOK, Place
<1>m. Numbered'
  <2>1. \A b \in acked' : b < next'
    <3>1. next \in Nat /\ \A b \in acked : b \in Nat /\ b < next
      BY <1>0, <1>b DEF Numbered
    <3> QED
      BY <1>u, <3>1
  <2>2. next' = next + 1 /\ pc' # "sync" /\ vol' = vol
    BY <1>u
  <2>3. \A n \in Names : vol'[n] # None => \A i \in 1..Len(vol'[n].rows) :
          vol[n] # None /\ i <= Len(vol[n].rows) /\ vol'[n].rows[i] = vol[n].rows[i]
    BY <1>f, <2>2
  <2> QED
    BY <1>0, <1>t, <2>1, <2>2, <2>3, NumberedKeeps
<1>v. Evolves
  BY <1>0, <1>n, <1>f DEF BatchSync, files, journal, bounds, Evolves, Numbered, Place, Busy, Creating, Extends
<1>k. Kept'
  <2>1. Evolves /\ next \notin acked
    BY <1>0, <1>b, <1>v DEF Numbered
  <2>2. ASSUME NEW b \in acked PROVE \E n \in Names : KeptIn(n, b)'
    <3>1. PICK n \in Names : KeptIn(n, b)
      BY <1>0 DEF Kept
    <3>2. PICK k \in Nat : Window(n, b, k)
      BY <3>1 DEF KeptIn
    <3>3. /\ BatchSizes[b] \in Nat /\ Len(dur[n].rows) <= Len(vol[n].rows)
          /\ Len(dur[n].rows) \in Nat /\ Len(vol[n].rows) \in Nat
          /\ dur[n] # None /\ vol[n] # None
      BY <1>0, <1>b, <1>f, <3>1 DEF Extends, KeptIn
    <3>4. dur'[n] # None /\ k + BatchSizes[b] <= Len(dur'[n].rows)
      <4>1. k + BatchSizes[b] <= Len(dur[n].rows)
        BY <3>2 DEF Window
      <4>2. dur'[n] = vol[n] \/ dur'[n] = dur[n]
        BY <1>w
      <4> QED
        BY <3>3, <4>1, <4>2
    <3>5. Window(n, b, k)'
      BY <1>u, <3>2, <3>4 DEF Window
    <3> QED
      BY <1>u, <3>1, <3>4, <3>5 DEF KeptIn
  <2>3. ASSUME NEW c, NEW b, c = current, b = next PROVE KeptIn(c, b)'
    <3>1. PICK k \in Nat :
            /\ Len(vol[c].rows) = k + BatchSizes[b] /\ BatchSizes[b] \in Nat
            /\ \A i \in 1..BatchSizes[b] : vol[c].rows[k + i] = <<b, i>>
      <4> DEFINE K == Len(vol[c].rows) - BatchSizes[b]
      <4>1. /\ K \in Nat /\ Len(vol[c].rows) = K + BatchSizes[b] /\ BatchSizes[b] \in Nat
            /\ \A l \in 1..BatchSizes[b] : vol[c].rows[K + l] = <<b, l>>
        BY <1>x, <2>3
      <4> HIDE DEF K
      <4> QED
        BY <4>1
    <3>2. ASSUME NEW i \in 1..Len(vol[c].rows)
          PROVE  IF i \in (k + 1)..(k + BatchSizes[b]) THEN vol[c].rows[i] = <<b, i - k>>
                 ELSE vol[c].rows[i][1] # b
      <4>1. CASE i \in (k + 1)..(k + BatchSizes[b])
        <5>1. i - k \in 1..BatchSizes[b] /\ i = k + (i - k)
          BY <3>1, <4>1
        <5> QED
          BY <3>1, <4>1, <5>1
      <4>2. CASE i \notin (k + 1)..(k + BatchSizes[b])
        <5>1. i \in Nat /\ ~(i > Len(vol[c].rows) - BatchSizes[b])
          BY <3>1, <4>2
        <5>2. vol[c].rows[i][1] < b
          BY <1>0, <1>w, <2>3, <5>1 DEF Numbered
        <5>3. vol[c].rows[i][1] \in Nat /\ b \in Nat
          BY <1>b, <1>r, <1>w, <2>3
        <5> QED
          BY <4>2, <5>2, <5>3
      <4> QED
        BY <4>1, <4>2
    <3>3. dur'[c] = vol[c] /\ vol' = vol /\ vol[c] # None /\ dur'[c] # None
      BY <1>u, <1>w, <2>3
    <3>4. Window(c, b, k)'
      <4>1. k + BatchSizes[b] <= Len(dur'[c].rows)
        BY <3>1, <3>3
      <4>2. \A i \in 1..Len(vol'[c].rows) :
              IF i \in (k + 1)..(k + BatchSizes[b]) THEN vol'[c].rows[i] = <<b, i - k>>
              ELSE vol'[c].rows[i][1] # b
        BY <3>2, <3>3
      <4> QED
        BY <4>1, <4>2 DEF Window
    <3>5. ASSUME NEW m \in Names, m # c, vol[m] # None, NEW i \in 1..Len(vol[m].rows)
          PROVE  vol[m].rows[i][1] # b
      <4>1. vol[m].rows[i][1] < b
        BY <1>0, <2>3, <3>5 DEF Numbered
      <4>2. vol[m].rows[i][1] \in Nat /\ b \in Nat
        BY <1>b, <1>r, <2>3, <3>5
      <4> QED
        BY <4>1, <4>2
    <3> QED
      <4>1. \E j \in Nat : Window(c, b, j)'
        BY <3>1, <3>4
      <4>2. \A m \in Names : m # c /\ vol'[m] # None =>
              \A i \in 1..Len(vol'[m].rows) : vol'[m].rows[i][1] # b
        BY <3>3, <3>5
      <4> QED
        BY <3>3, <4>1, <4>2 DEF KeptIn
  <2> QED
    BY <1>u, <1>w, <2>2, <2>3 DEF Kept
<1> QED
  BY <1>t, <1>p, <1>e, <1>h, <1>c, <1>s, <1>g, <1>z, <1>d, <1>m, <1>k DEF Inv

LEMMA DayChangesKeeps == Inv /\ DayChanges => Inv'
<1> SUFFICES ASSUME Inv, DayChanges PROVE Inv'
  OBVIOUS
<1>0. /\ TypeOK /\ Place /\ Extends /\ HeaderFirst /\ Clean /\ Settled /\ Staged /\ Sized
      /\ Dated /\ Numbered /\ Kept
  BY DEF Inv
<1>n. /\ Names \subseteq Nat \ {0} /\ 1 \in Names /\ None \notin Names /\ None \notin Int
      /\ Batches = 1..Len(BatchSizes) /\ Len(BatchSizes) \in Nat
      /\ \A b \in Batches : BatchSizes[b] \in Nat \ {0}
  BY NamesTyped
<1>f. \A n \in Names :
             /\ vol[n] # None => /\ vol[n] \in Contents /\ Len(vol[n].rows) \in Nat
                                 /\ vol[n].rows = <<>> <=> Len(vol[n].rows) = 0
                                 /\ \A i \in 1..Len(vol[n].rows) :
                                      vol[n].rows[i] \in Batches \X Nat
             /\ dur[n] # None => /\ dur[n] \in Contents /\ Len(dur[n].rows) \in Nat
                                 /\ dur[n].rows = <<>> <=> Len(dur[n].rows) = 0
  BY <1>0, FilesTyped
<1>t. TypeOK'
  <2>1. day' \in 0..MaxDay
    BY <1>0, BoundAssumption DEF DayChanges, TypeOK
  <2> QED
    BY <1>0, <2>1 DEF DayChanges, files, journal, TypeOK, Opening
<1>p. Place'
  BY <1>0, <1>n, <1>f DEF DayChanges, files, journal, bounds, Place, TypeOK, Busy, Creating, Steps, Numbered
<1>e. Extends'
  BY <1>0, <1>n, <1>f DEF DayChanges, files, journal, bounds, Extends, Place, Busy, Creating
<1>h. HeaderFirst'
  BY <1>0, <1>n, <1>f DEF DayChanges, files, journal, bounds, HeaderFirst, Place, Busy, Creating, Ready, Extends, Settled
<1>c. Clean'
  BY <1>0, <1>n, <1>f DEF DayChanges, files, journal, bounds, Clean, Place, Busy, Creating, Ready, Settled, Files
<1>s. Settled'
  BY <1>0, <1>n, <1>f DEF DayChanges, files, journal, bounds, Settled, Place, Busy, Creating, Ready, Extends
<1>g. Staged'
  BY <1>0, <1>n, <1>f DEF DayChanges, files, journal, bounds, Staged, Place, Busy, Creating, Ready, Extends
<1>z. Sized'
  BY <1>0, <1>n, <1>f DEF DayChanges, files, journal, bounds, Sized, Place, Busy, Creating, Ready, Staged, OneBatch
<1>d. Dated'
  BY <1>0, <1>n, <1>f DEF DayChanges, files, journal, bounds, Dated, TypeOK, Place
<1>m. Numbered'
  BY <1>0 DEF DayChanges, files, journal, Numbered
<1>v. Evolves
  BY <1>0, <1>n, <1>f DEF DayChanges, files, journal, bounds, Evolves, Numbered, Place, Busy, Creating, Extends
<1>k. Kept'
  BY <1>t, <1>e, <1>v, EvolvesKeeps DEF DayChanges, files, journal, bounds
<1> QED
  BY <1>t, <1>p, <1>e, <1>h, <1>c, <1>s, <1>g, <1>z, <1>d, <1>m, <1>k DEF Inv

LEMMA OpenDirectoryKeeps == Inv /\ OpenDirectory => Inv'
<1> SUFFICES ASSUME Inv, OpenDirectory PROVE Inv'
  OBVIOUS
<1>0. /\ TypeOK /\ Place /\ Extends /\ HeaderFirst /\ Clean /\ Settled /\ Staged /\ Sized
      /\ Dated /\ Numbered /\ Kept
  BY DEF Inv
<1>n. /\ Names \subseteq Nat \ {0} /\ 1 \in Names /\ None \notin Names /\ None \notin Int
      /\ Batches = 1..Len(BatchSizes) /\ Len(BatchSizes) \in Nat
      /\ \A b \in Batches : BatchSizes[b] \in Nat \ {0}
  BY NamesTyped
<1>f. \A n \in Names :
             /\ vol[n] # None => /\ vol[n] \in Contents /\ Len(vol[n].rows) \in Nat
                                 /\ vol[n].rows = <<>> <=> Len(vol[n].rows) = 0
                                 /\ \A i \in 1..Len(vol[n].rows) :
                                      vol[n].rows[i] \in Batches \X Nat
             /\ dur[n] # None => /\ dur[n] \in Contents /\ Len(dur[n].rows) \in Nat
                                 /\ dur[n].rows = <<>> <=> Len(dur[n].rows) = 0
  BY <1>0, FilesTyped
<1>b. /\ next \in Nat /\ \A b \in acked : b \in Batches /\ b \in Nat
      /\ buffered # None => buffered \in Batches /\ buffered \in Nat
      /\ \A b \in Batches : b \in Nat
  BY <1>0, BatchesTyped
<1>u. /\ pc = "down" /\ pc' = "stage" /\ after' = "idle" /\ rotating /\ poisoned' = FALSE
      /\ date' = day /\ begun' = <<day>>
      /\ rotating' = rotating /\ volMarker' = volMarker /\ durMarker' = durMarker
      /\ volPending' = volPending /\ durPending' = durPending /\ current' = current
      /\ bytes' = bytes /\ has_events' = has_events /\ buffered' = buffered
      /\ rewritten' = rewritten /\ next' = next /\ day' = day /\ acked' = acked
  BY DEF OpenDirectory, files, journal, bounds
<1>w. \A n \in Names :
        /\ vol'[n] # None <=> vol[n] # None
        /\ dur'[n] # None <=> dur[n] # None
        /\ vol'[n] # None => /\ vol'[n] \in Contents /\ vol'[n].rows = vol[n].rows
                             /\ vol'[n].header = "full" /\ ~vol'[n].torn
                             /\ vol'[n].corrupt => n = rewritten
        /\ dur'[n] # None => dur'[n] = vol'[n]
  <2>1. \A n \in Names : /\ vol[n] # None => /\ vol[n] \in Contents /\ vol[n].header = "full"
                                             /\ vol[n].corrupt => n = rewritten
                         /\ n # volMarker /\ vol[n] # None =>
                              ~vol[n].torn /\ (dur[n] # None => dur[n] = vol[n])
                         /\ dur[n] # None => vol[n] # None
    BY <1>0, <1>f, <1>u DEF HeaderFirst, Clean, Settled, Extends
  <2>2. CASE volMarker = None
    <3>1. vol' = vol /\ dur' = dur
      BY <2>2 DEF OpenDirectory, recover
    <3> QED
      BY <1>n, <2>1, <2>2, <3>1
  <2>3. CASE volMarker # None
    <3>1. PICK m \in Names : m = volMarker /\ dur[m] # None /\ vol[m] # None
      BY <1>0, <1>u, <2>1, <2>3 DEF TypeOK, Settled
    <3> DEFINE g == recover_trailing_record(vol[m])
    <3>2. vol' = [vol EXCEPT ![m] = g] /\ dur' = [dur EXCEPT ![m] = g]
      BY <2>3, <3>1 DEF OpenDirectory, recover
    <3>3. /\ g \in Contents /\ g.rows = vol[m].rows /\ g.header = "full" /\ ~g.torn
          /\ g.corrupt = vol[m].corrupt /\ g # None
      BY <2>1, <3>1, RecoveredFile, NoneAssumption
    <3> HIDE DEF g
    <3>4. vol'[m] = g /\ dur'[m] = g
          /\ \A n \in Names : n # m => vol'[n] = vol[n] /\ dur'[n] = dur[n]
      BY <1>0, <3>2 DEF TypeOK
    <3> QED
      BY <2>1, <3>1, <3>3, <3>4
  <2> QED
    BY <2>2, <2>3
<1>o. vol' \in [Names -> Files] /\ dur' \in [Names -> Files]
  <2>1. (\E S : vol' \in [Names -> S]) /\ \E S : dur' \in [Names -> S]
    <3>1. vol \in [Names -> Files] /\ dur \in [Names -> Files]
      BY <1>0 DEF TypeOK
    <3>2. CASE volMarker = None
      BY <3>1, <3>2 DEF OpenDirectory, recover
    <3>3. CASE volMarker # None
      <4>1. PICK g : vol' = [vol EXCEPT ![volMarker] = g] /\ dur' = [dur EXCEPT ![volMarker] = g]
        BY <3>3 DEF OpenDirectory, recover
      <4>2. vol' \in [Names -> Files \cup {g}] /\ dur' \in [Names -> Files \cup {g}]
        BY <3>1, <4>1
      <4> QED
        BY <4>2
    <3> QED
      BY <3>2, <3>3
  <2> QED
    BY <1>w, <2>1 DEF Files
<1>t. TypeOK'
  BY <1>0, <1>o, <1>u DEF TypeOK, Opening
<1>p. Place'
  BY <1>0, <1>u DEF Place, Busy, Creating, Steps
<1>e. Extends'
  BY <1>f, <1>w DEF Extends
<1>h. HeaderFirst'
  BY <1>0, <1>u, <1>w DEF HeaderFirst, Ready
<1>c. Clean'
  BY <1>u, <1>w DEF Clean, Ready
<1>s. Settled'
  <2>1. /\ volMarker # None => dur'[volMarker] # None
        /\ durMarker # None => dur'[durMarker] # None
    BY <1>0, <1>u, <1>w DEF Settled, TypeOK
  <2> QED
    BY <1>u, <1>w, <2>1 DEF Settled, Ready, Creating
<1>g. Staged'
  BY <1>0, <1>u, <1>w DEF Staged, Ready
<1>z. Sized'
  BY <1>0, <1>u, <1>w DEF Sized, Ready, OneBatch
<1>d. Dated'
  <2>1. day \in Int
    BY <1>0, BoundAssumption DEF TypeOK
  <2>2. <<day>> \in Seq(Int) /\ Len(<<day>>) = 1 /\ <<day>>[1] = day
    BY <2>1
  <2> QED
    BY <1>u, <2>1, <2>2 DEF Dated
<1>m. Numbered'
  <2>1. \A n \in Names : vol'[n] # None => \A i \in 1..Len(vol'[n].rows) :
            vol[n] # None /\ i <= Len(vol[n].rows) /\ vol'[n].rows[i] = vol[n].rows[i]
    BY <1>f, <1>w
  <2> QED
    BY <1>0, <1>t, <1>u, <2>1, NumberedKeeps DEF Numbered
<1>v. Evolves
  <2>1. \A n \in Names : vol'[n] # None => \A i \in 1..Len(vol'[n].rows) :
            vol[n] # None /\ i <= Len(vol[n].rows) /\ vol'[n].rows[i] = vol[n].rows[i]
    BY <1>f, <1>w
  <2>2. \A n \in Names : dur[n] # None =>
            /\ dur'[n] # None /\ Len(dur[n].rows) <= Len(dur'[n].rows)
            /\ \A i \in 1..Len(dur[n].rows) : vol'[n].rows[i] = vol[n].rows[i]
    BY <1>0, <1>w DEF Extends
  <2> QED
    BY <2>1, <2>2 DEF Evolves
<1>k. Kept'
  BY <1>t, <1>e, <1>v, <1>u, EvolvesKeeps
<1> QED
  BY <1>t, <1>p, <1>e, <1>h, <1>c, <1>s, <1>g, <1>z, <1>d, <1>m, <1>k DEF Inv

LEMMA OpenFileKeeps == Inv /\ OpenFile => Inv'
<1> SUFFICES ASSUME Inv, OpenFile PROVE Inv'
  OBVIOUS
<1>0. /\ TypeOK /\ Place /\ Extends /\ HeaderFirst /\ Clean /\ Settled /\ Staged /\ Sized
      /\ Dated /\ Numbered /\ Kept
  BY DEF Inv
<1>n. /\ Names \subseteq Nat \ {0} /\ 1 \in Names /\ None \notin Names /\ None \notin Int
      /\ Batches = 1..Len(BatchSizes) /\ Len(BatchSizes) \in Nat
      /\ \A b \in Batches : BatchSizes[b] \in Nat \ {0}
  BY NamesTyped
<1>f. \A n \in Names :
             /\ vol[n] # None => /\ vol[n] \in Contents /\ Len(vol[n].rows) \in Nat
                                 /\ vol[n].rows = <<>> <=> Len(vol[n].rows) = 0
                                 /\ \A i \in 1..Len(vol[n].rows) :
                                      vol[n].rows[i] \in Batches \X Nat
             /\ dur[n] # None => /\ dur[n] \in Contents /\ Len(dur[n].rows) \in Nat
                                 /\ dur[n].rows = <<>> <=> Len(dur[n].rows) = 0
  BY <1>0, FilesTyped
<1>b. /\ next \in Nat /\ \A b \in acked : b \in Batches /\ b \in Nat
      /\ buffered # None => buffered \in Batches /\ buffered \in Nat
      /\ \A b \in Batches : b \in Nat
  BY <1>0, BatchesTyped
<1>u. /\ pc = "down" /\ after' = "idle" /\ ~rotating /\ current' = 1 /\ date' = day
      /\ pc' \in {"header", "parentSync"}
      /\ poisoned' = FALSE /\ has_events' = FALSE /\ buffered' = None
      /\ rotating' = rotating /\ dur' = dur /\ volMarker' = volMarker
      /\ durMarker' = durMarker /\ volPending' = volPending /\ durPending' = durPending
      /\ bytes' = bytes /\ rewritten' = rewritten /\ begun' = begun /\ next' = next
      /\ day' = day /\ acked' = acked
  BY DEF OpenFile, files, journal, bounds
<1>w. /\ vol' \in [Names -> Files] /\ \A n \in Names : n # 1 => vol'[n] = vol[n]
      /\ vol'[1] \in Contents /\ vol'[1] # None /\ ~vol'[1].torn
      /\ vol[1] # None => vol'[1].rows = vol[1].rows
      /\ vol[1] = None => vol'[1].rows = <<>> /\ dur[1] = None
      /\ vol'[1].corrupt => vol[1] # None /\ vol[1].corrupt
      /\ pc' = "header" => vol'[1].rows = <<>>
      /\ pc' = "parentSync" => vol'[1].header = "full"
      /\ vol'[1].rows # <<>> => vol'[1].header = "full" /\ dur[1] # None /\ dur[1].header = "full"
  <2>0. vol \in [Names -> Files] /\ (vol[1] = None => dur[1] = None)
    BY <1>0, <1>n DEF TypeOK, Extends
  <2>1. CASE vol[1] = None \/ vol[1].header = "empty"
    <3>1. vol' = [vol EXCEPT ![1] = EmptyFile] /\ pc' = "header"
      BY <2>1 DEF OpenFile
    <3>2. vol[1] # None => vol[1].rows = <<>>
      BY <1>0, <1>n, <2>1 DEF HeaderFirst
    <3>3. vol'[1] = EmptyFile /\ vol' \in [Names -> Files \cup {EmptyFile}]
          /\ \A n \in Names : n # 1 => vol'[n] = vol[n]
      BY <1>n, <2>0, <3>1
    <3> QED
      BY <2>0, <3>1, <3>2, <3>3, PlainFiles, NoneAssumption DEF Files
  <2>2. CASE ~(vol[1] = None \/ vol[1].header = "empty")
    <3> DEFINE g == recover_trailing_record(vol[1])
    <3>1. vol' = [vol EXCEPT ![1] = g] /\ pc' = "parentSync"
      BY <2>2 DEF OpenFile
    <3>2. /\ g \in Contents /\ g.rows = vol[1].rows /\ g.header = "full" /\ ~g.torn
          /\ g.corrupt = vol[1].corrupt /\ g # None
      BY <1>f, <1>n, <2>2, RecoveredFile, NoneAssumption
    <3> HIDE DEF g
    <3>3. vol'[1] = g /\ vol' \in [Names -> Files]
          /\ \A n \in Names : n # 1 => vol'[n] = vol[n]
      BY <1>n, <2>0, <3>1, <3>2 DEF Files
    <3>4. vol[1].rows # <<>> => dur[1] # None /\ dur[1].header = "full"
      BY <1>0, <1>n, <2>2 DEF HeaderFirst
    <3> QED
      BY <2>0, <2>2, <3>1, <3>2, <3>3, <3>4
  <2> QED
    BY <2>1, <2>2
<1>t. TypeOK'
  BY <1>0, <1>n, <1>u, <1>w DEF TypeOK, Opening
<1>p. Place'
  BY <1>0, <1>n, <1>u, <1>w DEF Place, Busy, Creating, Steps
<1>e. Extends'
  <2>1. dur[1] # None => vol[1] # None /\ Len(dur[1].rows) <= Len(vol[1].rows)
    BY <1>0, <1>n DEF Extends
  <2> QED
    BY <1>0, <1>u, <1>w, <2>1 DEF Extends
<1>h. HeaderFirst'
  BY <1>0, <1>u, <1>w DEF HeaderFirst, Ready
<1>c. Clean'
  BY <1>0, <1>n, <1>u, <1>w DEF Clean, Ready
<1>s. Settled'
  BY <1>u DEF Settled
<1>g. Staged'
  BY <1>0, <1>n, <1>u DEF Staged, Ready, Place
<1>z. Sized'
  BY <1>u DEF Sized
<1>d. Dated'
  BY <1>0, <1>n, <1>f DEF OpenFile, files, journal, bounds, Dated, TypeOK, Place
<1>m. Numbered'
  <2>1. \A n \in Names : vol'[n] # None => \A i \in 1..Len(vol'[n].rows) :
            vol[n] # None /\ i <= Len(vol[n].rows) /\ vol'[n].rows[i] = vol[n].rows[i]
    <3>1. vol[1] = None => Len(vol'[1].rows) = 0
      BY <1>w
    <3> QED
      BY <1>f, <1>w, <3>1
  <2> QED
    BY <1>0, <1>t, <1>u, <2>1, NumberedKeeps DEF Numbered
<1>v. Evolves
  <2>1. \A n \in Names : vol'[n] # None => \A i \in 1..Len(vol'[n].rows) :
            vol[n] # None /\ i <= Len(vol[n].rows) /\ vol'[n].rows[i] = vol[n].rows[i]
    <3>1. vol[1] = None => Len(vol'[1].rows) = 0
      BY <1>w
    <3> QED
      BY <1>f, <1>w, <3>1
  <2>2. \A n \in Names : dur[n] # None => dur'[n] # None /\ Len(dur[n].rows) <= Len(dur'[n].rows)
    BY <1>f, <1>u
  <2>3. \A n \in Names : dur[n] # None => \A i \in 1..Len(dur[n].rows) : vol'[n].rows[i] = vol[n].rows[i]
    BY <1>0, <1>w DEF Extends
  <2> QED
    BY <2>1, <2>2, <2>3 DEF Evolves
<1>k. Kept'
  BY <1>t, <1>e, <1>v, <1>u, EvolvesKeeps
<1> QED
  BY <1>t, <1>p, <1>e, <1>h, <1>c, <1>s, <1>g, <1>z, <1>d, <1>m, <1>k DEF Inv

LEMMA StepFailsKeeps == Inv /\ StepFails => Inv'
<1> SUFFICES ASSUME Inv, StepFails PROVE Inv'
  OBVIOUS
<1>0. /\ TypeOK /\ Place /\ Extends /\ HeaderFirst /\ Clean /\ Settled /\ Staged /\ Sized
      /\ Dated /\ Numbered /\ Kept
  BY DEF Inv
<1>n. /\ Names \subseteq Nat \ {0} /\ 1 \in Names /\ None \notin Names /\ None \notin Int
      /\ Batches = 1..Len(BatchSizes) /\ Len(BatchSizes) \in Nat
      /\ \A b \in Batches : BatchSizes[b] \in Nat \ {0}
  BY NamesTyped
<1>f. \A n \in Names :
             /\ vol[n] # None => /\ vol[n] \in Contents /\ Len(vol[n].rows) \in Nat
                                 /\ vol[n].rows = <<>> <=> Len(vol[n].rows) = 0
                                 /\ \A i \in 1..Len(vol[n].rows) :
                                      vol[n].rows[i] \in Batches \X Nat
             /\ dur[n] # None => /\ dur[n] \in Contents /\ Len(dur[n].rows) \in Nat
                                 /\ dur[n].rows = <<>> <=> Len(dur[n].rows) = 0
  BY <1>0, FilesTyped
<1>b. /\ next \in Nat /\ \A b \in acked : b \in Batches /\ b \in Nat
      /\ buffered # None => buffered \in Batches /\ buffered \in Nat
      /\ \A b \in Batches : b \in Nat
  BY <1>0, BatchesTyped
<1>i. PICK f \in CutShort : vol' = IF f = None THEN vol ELSE [vol EXCEPT ![current] = f]
  BY DEF StepFails
<1>u. /\ pc # "down" /\ pc # "idle" /\ pc' \in {"down", "idle"} /\ (pc' = "idle" => poisoned')
      /\ rotating' = rotating /\ dur' = dur /\ volMarker' = volMarker
      /\ durMarker' = durMarker /\ volPending' = volPending /\ durPending' = durPending
      /\ after' = after /\ current' = current /\ date' = date /\ bytes' = bytes
      /\ has_events' = has_events /\ rewritten' = rewritten /\ begun' = begun /\ day' = day
      /\ acked' = acked
  BY DEF StepFails, files, journal, bounds
<1>x. next' = next \/ next' = next + 1
  BY DEF StepFails
<1>w. Cut
  BY <1>i, <1>u, CutShortFrame
<1>t. TypeOK'
  <2>1. vol' \in [Names -> Files] /\ \A n \in Names : vol'[n] # None <=> vol[n] # None
    BY <1>w DEF Cut
  <2>2. pc' = "idle" => current \in Names /\ vol[current] # None
    BY <1>0, <1>u DEF StepFails, TypeOK, Opening
  <2>3. next' \in 1..(Len(BatchSizes) + 1)
    <3>1. next' # next => next \in Batches
      BY <1>0 DEF StepFails, Place, Busy, Opening, Steps, Creating
    <3> QED
      BY <1>0, <1>n, <3>1 DEF StepFails, TypeOK
  <2>4. buffered' \in Batches \cup {None} /\ poisoned' \in BOOLEAN
    BY <1>0 DEF StepFails, TypeOK, Place, Busy, journal
  <2>5. pc' # "down" /\ ~Opening' => current' \in Names /\ vol'[current'] # None
    BY <1>u, <2>1, <2>2
  <2> QED
    BY <1>0, <1>u, <2>1, <2>3, <2>4, <2>5 DEF TypeOK
<1>p. Place'
  <2>1. \A n \in Names : vol'[n] # None <=> vol[n] # None
    BY <1>w DEF Cut
  <2>2. pc' = "idle" => current \in Names /\ vol[current] # None
    BY <1>0, <1>u DEF StepFails, Opening, Place, Steps, Creating, Busy
  <2>3. buffered' # None => ~rotating /\ buffered' < next' /\ buffered' \notin acked
    <3>1. \/ buffered' = buffered
          \/ buffered' = next /\ pc = "write" /\ ~rotating /\ next' = next + 1
      <4>1. buffered' = IF pc = "write" /\ ~rotating THEN next ELSE buffered
        BY DEF StepFails
      <4>2. pc = "write" => next' = next + 1
        BY DEF StepFails, Opening
      <4> QED
        BY <4>1, <4>2
    <3>2. next \in Nat /\ (next' = next \/ next' = next + 1) /\ (buffered # None => buffered \in Nat)
      BY <1>b, <1>x
    <3>3. CASE buffered' = buffered
      BY <1>0, <3>2, <3>3 DEF Place
    <3>4. CASE buffered' = next /\ pc = "write" /\ ~rotating /\ next' = next + 1
      BY <1>0, <3>2, <3>4 DEF Numbered
    <3> QED
      BY <3>1, <3>3, <3>4
  <2> QED
    BY <1>0, <1>n, <1>u, <2>1, <2>2, <2>3 DEF Place, Busy, Creating, Steps
<1>e. Extends'
  BY <1>w DEF Cut
<1>h. HeaderFirst'
  <2>1. /\ \A n \in Names : vol'[n] # None /\ vol'[n].rows # <<>>
             => dur'[n] # None /\ vol'[n].header = "full" /\ dur'[n].header = "full"
        /\ rotating => \A n \in Names : /\ vol'[n] # None => vol'[n].header = "full"
                                        /\ dur'[n] # None => dur'[n].header = "full"
    BY <1>w DEF Cut
  <2>2. pc' = "idle" => /\ poisoned' /\ (~rotating => pc \in {"write", "sync"})
    BY <1>0, <1>u DEF StepFails, Opening, Place, Steps, Creating
  <2>3. pc \in {"write", "sync"} => /\ dur[current] # None /\ vol'[current].header = "full"
                                    /\ dur[current].header = "full"
    BY <1>w DEF Cut
  <2> QED
    BY <1>u, <2>1, <2>2, <2>3 DEF HeaderFirst, Ready
<1>c. Clean'
  <2>1. \A n \in Names : vol'[n] # None /\ vol'[n].corrupt => n = rewritten
    BY <1>w DEF Cut
  <2>2. \A n \in Names : dur[n] # None /\ dur[n].corrupt => n = rewritten
    BY <1>0 DEF Clean
  <2> QED
    BY <1>u, <2>1, <2>2 DEF Clean, Ready
<1>s. Settled'
  <2>1. rotating => \A n \in Names :
            vol'[n] # None /\ (vol'[n].torn \/ (dur[n] # None /\ dur[n] # vol'[n]))
              => n = volMarker /\ n = durMarker
    BY <1>w DEF Cut
  <2>2. rotating => /\ volMarker # None => dur[volMarker] # None
                    /\ durMarker # None => dur[durMarker] # None
    BY <1>0 DEF Settled
  <2> QED
    BY <1>u, <2>1, <2>2 DEF Settled, Ready, Creating
<1>g. Staged'
  <2>1. \A n \in Names : /\ vol'[n] # None <=> vol[n] # None
                         /\ vol[n] # None /\ vol'[n].rows # <<>> /\ vol[n].rows = <<>> =>
                             n = current /\ pc = "write"
    BY <1>w DEF Cut
  <2>2. pc = "write" => volPending = None /\ durPending = None
    BY <1>0 DEF Staged
  <2>3. /\ volPending \in Names /\ vol[volPending] # None => vol[volPending].rows = <<>>
        /\ durPending \in Names /\ vol[durPending] # None => vol[durPending].rows = <<>>
    BY <1>0 DEF Staged
  <2>4. \A p \in Names : vol'[p] # None /\ (p = volPending \/ p = durPending) => vol'[p].rows = <<>>
    BY <1>n, <2>1, <2>2, <2>3
  <2> QED
    BY <1>u, <2>4 DEF Staged, Ready
<1>z. Sized'
  <2>1. rotating /\ max_bytes # None => \A n \in Names :
            vol'[n] # None => 1 + Len(vol'[n].rows) <= max_bytes \/ OneBatch(vol'[n])
    BY <1>w DEF Cut
  <2> QED
    BY <1>u, <2>1 DEF Sized, Ready, OneBatch
<1>d. Dated'
  BY <1>0, <1>n, <1>f DEF StepFails, files, journal, bounds, Dated, TypeOK, Place
<1>m. Numbered'
  <2>1. pc = "sync" \/ pc = "write" => next' = next + 1
    BY DEF StepFails, Opening
  <2>2. next \in Nat /\ next' \in Nat /\ (next' = next \/ next' = next + 1)
    BY <1>b, <1>x
  <2>3. \A b \in acked : b < next /\ b \in Nat
    BY <1>0, <1>b DEF Numbered
  <2>4. \A n \in Names : vol'[n] # None => \A i \in 1..Len(vol'[n].rows) :
            \/ pc = "write" /\ vol'[n].rows[i][1] = next
            \/ vol[n] # None /\ i <= Len(vol[n].rows) /\ vol'[n].rows[i] = vol[n].rows[i]
    BY <1>w DEF Cut
  <2>5. \A n \in Names : vol'[n] # None => \A i \in 1..Len(vol'[n].rows) :
            \/ vol'[n].rows[i][1] < next'
            \/ vol[n] # None /\ i <= Len(vol[n].rows) /\ vol'[n].rows[i] = vol[n].rows[i]
    BY <2>1, <2>2, <2>4
  <2>6. \A b \in acked' : b < next'
    BY <1>u, <2>2, <2>3
  <2>7. (next' = next /\ pc # "sync") \/ next' = next + 1
    BY <2>1, <2>2
  <2> QED
    BY <1>0, <1>t, <1>u, <2>5, <2>6, <2>7, NumberedKeeps
<1>v. Evolves
  BY <1>w DEF Cut
<1>k. Kept'
  BY <1>t, <1>e, <1>v, <1>u, EvolvesKeeps
<1> QED
  BY <1>t, <1>p, <1>e, <1>h, <1>c, <1>s, <1>g, <1>z, <1>d, <1>m, <1>k DEF Inv

LEMMA KillKeeps == Inv /\ Kill => Inv'
<1> SUFFICES ASSUME Inv, Kill PROVE Inv'
  OBVIOUS
<1>0. /\ TypeOK /\ Place /\ Extends /\ HeaderFirst /\ Clean /\ Settled /\ Staged /\ Sized
      /\ Dated /\ Numbered /\ Kept
  BY DEF Inv
<1>n. /\ Names \subseteq Nat \ {0} /\ 1 \in Names /\ None \notin Names /\ None \notin Int
      /\ Batches = 1..Len(BatchSizes) /\ Len(BatchSizes) \in Nat
      /\ \A b \in Batches : BatchSizes[b] \in Nat \ {0}
  BY NamesTyped
<1>f. \A n \in Names :
             /\ vol[n] # None => /\ vol[n] \in Contents /\ Len(vol[n].rows) \in Nat
                                 /\ vol[n].rows = <<>> <=> Len(vol[n].rows) = 0
                                 /\ \A i \in 1..Len(vol[n].rows) :
                                      vol[n].rows[i] \in Batches \X Nat
             /\ dur[n] # None => /\ dur[n] \in Contents /\ Len(dur[n].rows) \in Nat
                                 /\ dur[n].rows = <<>> <=> Len(dur[n].rows) = 0
  BY <1>0, FilesTyped
<1>b. /\ next \in Nat /\ \A b \in acked : b \in Batches /\ b \in Nat
      /\ buffered # None => buffered \in Batches /\ buffered \in Nat
      /\ \A b \in Batches : b \in Nat
  BY <1>0, BatchesTyped
<1>i. PICK f \in CutShort : vol' = IF f = None THEN vol ELSE [vol EXCEPT ![current] = f]
  BY DEF Kill
<1>u. /\ pc # "down" /\ pc' = "down"
      /\ rotating' = rotating /\ dur' = dur /\ volMarker' = volMarker
      /\ durMarker' = durMarker /\ volPending' = volPending /\ durPending' = durPending
      /\ after' = after /\ current' = current /\ date' = date /\ bytes' = bytes
      /\ has_events' = has_events /\ poisoned' = poisoned /\ buffered' = buffered
      /\ rewritten' = rewritten /\ begun' = begun /\ day' = day /\ acked' = acked
  BY DEF Kill, files, journal, bounds
<1>x. next' = next \/ next' = next + 1
  BY DEF Kill
<1>w. Cut
  BY <1>i, <1>u, CutShortFrame
<1>t. TypeOK'
  <2>1. vol' \in [Names -> Files] /\ \A n \in Names : vol'[n] # None <=> vol[n] # None
    BY <1>w DEF Cut
  <2>2. pc' = "idle" => current \in Names /\ vol[current] # None
    BY <1>0, <1>u DEF Kill, TypeOK, Opening
  <2>3. next' \in 1..(Len(BatchSizes) + 1)
    <3>1. next' # next => next \in Batches
      BY <1>0 DEF Kill, Place, Busy, Opening, Steps, Creating
    <3> QED
      BY <1>0, <1>n, <3>1 DEF Kill, TypeOK
  <2>4. buffered' \in Batches \cup {None} /\ poisoned' \in BOOLEAN
    BY <1>0 DEF Kill, TypeOK, Place, Busy, journal
  <2>5. pc' # "down" /\ ~Opening' => current' \in Names /\ vol'[current'] # None
    BY <1>u, <2>1, <2>2
  <2> QED
    BY <1>0, <1>u, <2>1, <2>3, <2>4, <2>5 DEF TypeOK
<1>p. Place'
  <2>1. \A n \in Names : vol'[n] # None <=> vol[n] # None
    BY <1>w DEF Cut
  <2>2. pc' = "idle" => current \in Names /\ vol[current] # None
    BY <1>0, <1>u DEF Kill, Opening, Place, Steps, Creating, Busy
  <2>3. buffered' # None => ~rotating /\ buffered' < next' /\ buffered' \notin acked
    <3>1. \/ buffered' = buffered
          \/ buffered' = next /\ pc = "write" /\ ~rotating /\ next' = next + 1
      BY <1>u
    <3>2. next \in Nat /\ (next' = next \/ next' = next + 1) /\ (buffered # None => buffered \in Nat)
      BY <1>b, <1>x
    <3>3. CASE buffered' = buffered
      BY <1>0, <3>2, <3>3 DEF Place
    <3>4. CASE buffered' = next /\ pc = "write" /\ ~rotating /\ next' = next + 1
      BY <1>0, <3>2, <3>4 DEF Numbered
    <3> QED
      BY <3>1, <3>3, <3>4
  <2> QED
    BY <1>0, <1>n, <1>u, <2>1, <2>2, <2>3 DEF Place, Busy, Creating, Steps
<1>e. Extends'
  BY <1>w DEF Cut
<1>h. HeaderFirst'
  <2>1. /\ \A n \in Names : vol'[n] # None /\ vol'[n].rows # <<>>
             => dur'[n] # None /\ vol'[n].header = "full" /\ dur'[n].header = "full"
        /\ rotating => \A n \in Names : /\ vol'[n] # None => vol'[n].header = "full"
                                        /\ dur'[n] # None => dur'[n].header = "full"
    BY <1>w DEF Cut
  <2>2. pc' = "idle" => /\ poisoned' /\ (~rotating => pc \in {"write", "sync"})
    BY <1>0, <1>u DEF Kill, Opening, Place, Steps, Creating
  <2>3. pc \in {"write", "sync"} => /\ dur[current] # None /\ vol'[current].header = "full"
                                    /\ dur[current].header = "full"
    BY <1>w DEF Cut
  <2> QED
    BY <1>u, <2>1, <2>2, <2>3 DEF HeaderFirst, Ready
<1>c. Clean'
  <2>1. \A n \in Names : vol'[n] # None /\ vol'[n].corrupt => n = rewritten
    BY <1>w DEF Cut
  <2>2. \A n \in Names : dur[n] # None /\ dur[n].corrupt => n = rewritten
    BY <1>0 DEF Clean
  <2> QED
    BY <1>u, <2>1, <2>2 DEF Clean, Ready
<1>s. Settled'
  <2>1. rotating => \A n \in Names :
            vol'[n] # None /\ (vol'[n].torn \/ (dur[n] # None /\ dur[n] # vol'[n]))
              => n = volMarker /\ n = durMarker
    BY <1>w DEF Cut
  <2>2. rotating => /\ volMarker # None => dur[volMarker] # None
                    /\ durMarker # None => dur[durMarker] # None
    BY <1>0 DEF Settled
  <2> QED
    BY <1>u, <2>1, <2>2 DEF Settled, Ready, Creating
<1>g. Staged'
  <2>1. \A n \in Names : /\ vol'[n] # None <=> vol[n] # None
                         /\ vol[n] # None /\ vol'[n].rows # <<>> /\ vol[n].rows = <<>> =>
                             n = current /\ pc = "write"
    BY <1>w DEF Cut
  <2>2. pc = "write" => volPending = None /\ durPending = None
    BY <1>0 DEF Staged
  <2>3. /\ volPending \in Names /\ vol[volPending] # None => vol[volPending].rows = <<>>
        /\ durPending \in Names /\ vol[durPending] # None => vol[durPending].rows = <<>>
    BY <1>0 DEF Staged
  <2>4. \A p \in Names : vol'[p] # None /\ (p = volPending \/ p = durPending) => vol'[p].rows = <<>>
    BY <1>n, <2>1, <2>2, <2>3
  <2> QED
    BY <1>u, <2>4 DEF Staged, Ready
<1>z. Sized'
  <2>1. rotating /\ max_bytes # None => \A n \in Names :
            vol'[n] # None => 1 + Len(vol'[n].rows) <= max_bytes \/ OneBatch(vol'[n])
    BY <1>w DEF Cut
  <2> QED
    BY <1>u, <2>1 DEF Sized, Ready, OneBatch
<1>d. Dated'
  BY <1>0, <1>n, <1>f DEF Kill, files, journal, bounds, Dated, TypeOK, Place
<1>m. Numbered'
  <2>1. pc = "sync" \/ pc = "write" => next' = next + 1
    BY DEF Kill, Opening
  <2>2. next \in Nat /\ next' \in Nat /\ (next' = next \/ next' = next + 1)
    BY <1>b, <1>x
  <2>3. \A b \in acked : b < next /\ b \in Nat
    BY <1>0, <1>b DEF Numbered
  <2>4. \A n \in Names : vol'[n] # None => \A i \in 1..Len(vol'[n].rows) :
            \/ pc = "write" /\ vol'[n].rows[i][1] = next
            \/ vol[n] # None /\ i <= Len(vol[n].rows) /\ vol'[n].rows[i] = vol[n].rows[i]
    BY <1>w DEF Cut
  <2>5. \A n \in Names : vol'[n] # None => \A i \in 1..Len(vol'[n].rows) :
            \/ vol'[n].rows[i][1] < next'
            \/ vol[n] # None /\ i <= Len(vol[n].rows) /\ vol'[n].rows[i] = vol[n].rows[i]
    BY <2>1, <2>2, <2>4
  <2>6. \A b \in acked' : b < next'
    BY <1>u, <2>2, <2>3
  <2>7. (next' = next /\ pc # "sync") \/ next' = next + 1
    BY <2>1, <2>2
  <2> QED
    BY <1>0, <1>t, <1>u, <2>5, <2>6, <2>7, NumberedKeeps
<1>v. Evolves
  BY <1>w DEF Cut
<1>k. Kept'
  BY <1>t, <1>e, <1>v, <1>u, EvolvesKeeps
<1> QED
  BY <1>t, <1>p, <1>e, <1>h, <1>c, <1>s, <1>g, <1>z, <1>d, <1>m, <1>k DEF Inv

LEMMA BatchWriteKeeps == Inv /\ BatchWrite => Inv'
<1> SUFFICES ASSUME Inv, BatchWrite PROVE Inv'
  OBVIOUS
<1>0. /\ TypeOK /\ Place /\ Extends /\ HeaderFirst /\ Clean /\ Settled /\ Staged /\ Sized
      /\ Dated /\ Numbered /\ Kept
  BY DEF Inv
<1>n. /\ Names \subseteq Nat \ {0} /\ 1 \in Names /\ None \notin Names /\ None \notin Int
      /\ Batches = 1..Len(BatchSizes) /\ Len(BatchSizes) \in Nat
      /\ \A b \in Batches : BatchSizes[b] \in Nat \ {0}
  BY NamesTyped
<1>f. \A n \in Names :
             /\ vol[n] # None => /\ vol[n] \in Contents /\ Len(vol[n].rows) \in Nat
                                 /\ vol[n].rows = <<>> <=> Len(vol[n].rows) = 0
                                 /\ \A i \in 1..Len(vol[n].rows) :
                                      vol[n].rows[i] \in Batches \X Nat
             /\ dur[n] # None => /\ dur[n] \in Contents /\ Len(dur[n].rows) \in Nat
                                 /\ dur[n].rows = <<>> <=> Len(dur[n].rows) = 0
  BY <1>0, FilesTyped
<1>b. /\ next \in Nat /\ \A b \in acked : b \in Batches /\ b \in Nat
      /\ buffered # None => buffered \in Batches /\ buffered \in Nat
      /\ \A b \in Batches : b \in Nat
  BY <1>0, BatchesTyped
<1>u. /\ pc = "write" /\ pc' = "sync"
      /\ rotating' = rotating /\ dur' = dur /\ volMarker' = volMarker
      /\ durMarker' = durMarker /\ volPending' = volPending /\ durPending' = durPending
      /\ after' = after /\ current' = current /\ date' = date /\ bytes' = bytes
      /\ has_events' = has_events /\ poisoned' = poisoned /\ buffered' = buffered
      /\ rewritten' = rewritten /\ begun' = begun /\ next' = next /\ day' = day
      /\ acked' = acked
  BY DEF BatchWrite, files, journal, bounds
<1>a. PICK c \in Names : c = current
  BY <1>0 DEF BatchWrite, Place, Busy
<1>l. PICK b \in Batches : b = next
  BY <1>0 DEF BatchWrite, Place, Busy
<1>w. /\ vol[c] # None /\ vol[c] \in Contents /\ BatchSizes[b] \in Nat \ {0} /\ ~poisoned
      /\ dur[c] # None /\ vol[c].header = "full" /\ dur[c].header = "full" /\ ~vol[c].torn
      /\ vol' = [vol EXCEPT ![c] = Written(vol[c], b)] /\ b \notin acked
  BY <1>0, <1>b, <1>a, <1>l, <1>n, <1>f, <1>u DEF BatchWrite, HeaderFirst, Clean, Numbered, Place, Busy
<1>x. Extended(vol[c], Written(vol[c], b), b, BatchSizes[b]) /\ ~Written(vol[c], b).torn
  BY <1>w, WrittenFile
<1>y. Wrote(c, b) /\ vol'[c] = Written(vol[c], b)
  <2>1. Wrote(c, b)
    BY <1>u, <1>w, <1>x, WriteFrame
  <2> QED
    BY <1>0, <1>w, <2>1 DEF TypeOK
<1>o. /\ vol' \in [Names -> Files] /\ vol'[c] \in Contents /\ vol'[c] # None /\ ~vol'[c].torn
      /\ \A n \in Names : n # c => vol'[n] = vol[n]
      /\ \A n \in Names : vol'[n] # None <=> vol[n] # None
      /\ vol'[c].header = "full" /\ (vol'[c].corrupt => vol[c].corrupt)
      /\ Len(vol'[c].rows) = Len(vol[c].rows) + BatchSizes[b]
      /\ \A i \in 1..BatchSizes[b] : vol'[c].rows[Len(vol[c].rows) + i] = <<b, i>>
  BY <1>w, <1>x, <1>y DEF Wrote, Extended
<1>t. TypeOK'
  BY <1>0, <1>u, <1>w, <1>o, <1>a DEF TypeOK, Opening
<1>p. Place'
  BY <1>0, <1>u, <1>w, <1>o, <1>a DEF Place, Busy, Creating, Steps
<1>e. Extends'
  BY <1>y DEF Wrote
<1>h. HeaderFirst'
  <2>1. /\ \A n \in Names : vol'[n] # None /\ vol'[n].rows # <<>>
             => dur'[n] # None /\ vol'[n].header = "full" /\ dur'[n].header = "full"
        /\ rotating => \A n \in Names : /\ vol'[n] # None => vol'[n].header = "full"
                                        /\ dur'[n] # None => dur'[n].header = "full"
    BY <1>y DEF Wrote
  <2> QED
    BY <1>a, <1>u, <1>w, <1>o, <2>1 DEF HeaderFirst, Ready
<1>c. Clean'
  <2>1. \A n \in Names : vol'[n] # None /\ vol'[n].corrupt => n = rewritten
    <3>1. vol[c].corrupt => c = rewritten
      BY <1>0, <1>w DEF Clean
    <3> QED
      BY <1>0, <1>o, <3>1 DEF Clean
  <2>2. \A n \in Names : dur[n] # None /\ dur[n].corrupt => n = rewritten
    BY <1>0 DEF Clean
  <2> QED
    BY <1>a, <1>u, <1>o, <2>1, <2>2 DEF Clean
<1>s. Settled'
  BY <1>0, <1>a, <1>u, <1>o DEF Settled, Ready, Creating
<1>g. Staged'
  BY <1>0, <1>n, <1>u DEF Staged, Ready
<1>z. Sized'
  <2> SUFFICES ASSUME rotating, max_bytes # None
               PROVE  /\ \A n \in Names : vol'[n] # None =>
                            1 + Len(vol'[n].rows) <= max_bytes \/ OneBatch(vol'[n])
                      /\ bytes + BatchSizes[next] = 1 + Len(vol'[current].rows)
    BY <1>u DEF Sized, Ready, OneBatch
  <2>1. max_bytes \in Nat /\ bytes \in Nat /\ Len(vol[c].rows) \in Nat
    BY <1>0, <1>f, <1>w, BatchAssumption DEF TypeOK
  <2>2. /\ bytes = 1 + Len(vol[c].rows)
        /\ bytes + BatchSizes[b] <= max_bytes \/ vol[c].rows = <<>>
    BY <1>0, <1>a, <1>l, <1>u DEF Sized
  <2>3. bytes + BatchSizes[next] = 1 + Len(vol'[current].rows)
    <3>1. Len(vol'[c].rows) = Len(vol[c].rows) + BatchSizes[b] /\ BatchSizes[b] \in Nat
      BY <1>w, <1>o
    <3>2. bytes + BatchSizes[b] = 1 + Len(vol'[c].rows)
      BY <2>1, <2>2, <3>1
    <3> QED
      BY <1>a, <1>l, <3>2
  <2>4. 1 + Len(vol[c].rows) + BatchSizes[b] <= max_bytes \/ vol[c].rows = <<>>
    BY <2>2
  <2>5. 1 + Len(vol'[c].rows) <= max_bytes \/ OneBatch(vol'[c])
    <3>1. BatchSizes[b] \in Nat
      BY <1>w
    <3> QED
      BY <1>w, <1>x, <1>y, <2>1, <2>4, <3>1, WriteSized
  <2>6. \A n \in Names : n # c /\ vol'[n] # None =>
            1 + Len(vol'[n].rows) <= max_bytes \/ OneBatch(vol'[n])
    BY <1>0, <1>o DEF Sized
  <2> QED
    BY <2>3, <2>5, <2>6
<1>d. Dated'
  BY <1>0, <1>n, <1>f DEF BatchWrite, files, journal, bounds, Dated, TypeOK, Place
<1>m. Numbered'
  <2>1. \A n \in Names : vol'[n] # None => \A i \in 1..Len(vol'[n].rows) :
            \/ n = c /\ i > Len(vol[c].rows) /\ vol'[n].rows[i][1] = b
            \/ vol[n] # None /\ i <= Len(vol[n].rows) /\ vol'[n].rows[i] = vol[n].rows[i]
    BY <1>y DEF Wrote
  <2>2. \A n \in Names : vol[n] # None => \A i \in 1..Len(vol[n].rows) : vol[n].rows[i][1] < next
    BY <1>0, <1>u DEF Numbered
  <2>3. /\ Len(vol[c].rows) \in Nat /\ BatchSizes[b] \in Nat
        /\ Len(vol'[c].rows) - BatchSizes[b] = Len(vol[c].rows)
        /\ BatchSizes[b] <= Len(vol'[c].rows)
    BY <1>f, <1>w, <1>o
  <2>4. \A n \in Names : vol'[n] # None => \A i \in 1..Len(vol'[n].rows) :
            \/ vol'[n].rows[i][1] < next
            \/ n = c /\ i > Len(vol'[n].rows) - BatchSizes[b]
    <3> SUFFICES ASSUME NEW n \in Names, vol'[n] # None, NEW i \in 1..Len(vol'[n].rows),
                        vol[n] # None, i <= Len(vol[n].rows), vol'[n].rows[i] = vol[n].rows[i]
                 PROVE  vol'[n].rows[i][1] < next
      BY <2>1, <2>3
    <3>1. i \in 1..Len(vol[n].rows)
      BY <1>f
    <3> QED
      BY <2>2, <3>1
  <2>5. \A i \in 1..BatchSizes[b] : vol'[c].rows[Len(vol'[c].rows) - BatchSizes[b] + i] = <<b, i>>
    BY <1>o, <2>3
  <2>6. \A k \in acked : k < next
    BY <1>0 DEF Numbered
  <2> QED
    BY <1>a, <1>l, <1>u, <2>3, <2>4, <2>5, <2>6 DEF Numbered
<1>v. Evolves
  BY <1>y DEF Wrote
<1>k. Kept'
  BY <1>t, <1>e, <1>v, <1>u, EvolvesKeeps
<1> QED
  BY <1>t, <1>p, <1>e, <1>h, <1>c, <1>s, <1>g, <1>z, <1>d, <1>m, <1>k DEF Inv

LEMMA CloseKeeps == Inv /\ Close => Inv'
<1> SUFFICES ASSUME Inv, Close PROVE Inv'
  OBVIOUS
<1>0. /\ TypeOK /\ Place /\ Extends /\ HeaderFirst /\ Clean /\ Settled /\ Staged /\ Sized
      /\ Dated /\ Numbered /\ Kept
  BY DEF Inv
<1>n. /\ Names \subseteq Nat \ {0} /\ 1 \in Names /\ None \notin Names /\ None \notin Int
      /\ Batches = 1..Len(BatchSizes) /\ Len(BatchSizes) \in Nat
      /\ \A b \in Batches : BatchSizes[b] \in Nat \ {0}
  BY NamesTyped
<1>f. \A n \in Names :
             /\ vol[n] # None => /\ vol[n] \in Contents /\ Len(vol[n].rows) \in Nat
                                 /\ vol[n].rows = <<>> <=> Len(vol[n].rows) = 0
                                 /\ \A i \in 1..Len(vol[n].rows) :
                                      vol[n].rows[i] \in Batches \X Nat
             /\ dur[n] # None => /\ dur[n] \in Contents /\ Len(dur[n].rows) \in Nat
                                 /\ dur[n].rows = <<>> <=> Len(dur[n].rows) = 0
  BY <1>0, FilesTyped
<1>b. /\ next \in Nat /\ \A b \in acked : b \in Batches /\ b \in Nat
      /\ buffered # None => buffered \in Batches /\ buffered \in Nat
      /\ \A b \in Batches : b \in Nat
  BY <1>0, BatchesTyped
<1>u. /\ pc = "idle" /\ pc' = "down" /\ buffered' = None
      /\ rotating' = rotating /\ volMarker' = volMarker /\ durMarker' = durMarker
      /\ volPending' = volPending /\ durPending' = durPending /\ after' = after
      /\ current' = current /\ date' = date /\ bytes' = bytes /\ has_events' = has_events
      /\ poisoned' = poisoned /\ begun' = begun /\ next' = next /\ day' = day
      /\ acked' = acked
  BY DEF Close, files, journal, bounds
<1>a. PICK c \in Names : c = current
  BY <1>0 DEF Close, Place
<1>j. /\ vol[c] # None /\ vol[c] \in Contents /\ (~rotating => c = 1)
      /\ ~rotating => /\ dur[c] # None /\ vol[c].header = "full" /\ dur[c].header = "full"
      /\ ~poisoned => /\ dur[c] # None /\ vol[c].header = "full" /\ dur[c].header = "full"
                      /\ rotating => vol[c] = dur[c]
      /\ buffered # None => poisoned /\ ~rotating /\ buffered < next /\ buffered \notin acked
  BY <1>0, <1>a, <1>f, <1>u DEF Place, HeaderFirst, Ready, Settled
<1>l. /\ dur' \in [Names -> Files] /\ (rotating => dur' = dur) /\ (poisoned => dur' = dur)
      /\ dur'[c] = IF poisoned THEN dur[c] ELSE vol[c]
      /\ \A n \in Names : n # c => dur'[n] = dur[n]
  <2>1. dur' = IF poisoned THEN dur ELSE [dur EXCEPT ![c] = vol[c]]
    BY <1>a DEF Close
  <2>2. dur \in [Names -> Files] /\ vol[c] \in Files
    BY <1>0 DEF TypeOK
  <2> QED
    BY <1>j, <2>1, <2>2
<1>w. /\ vol' \in [Names -> Files] /\ \A n \in Names : n # c => vol'[n] = vol[n]
      /\ vol'[c] # None /\ (rotating => vol' = vol) /\ (~poisoned => vol' = vol)
      /\ Extends' /\ Evolves
      /\ vol'[c].header = vol[c].header
      /\ \A n \in Names : vol'[n] # None /\ vol'[n].rows # <<>>
            => dur'[n] # None /\ vol'[n].header = "full" /\ dur'[n].header = "full"
      /\ \A n \in Names : vol'[n] # None => \A i \in 1..Len(vol'[n].rows) :
            \/ vol'[n].rows[i][1] < next
            \/ vol[n] # None /\ i <= Len(vol[n].rows) /\ vol'[n].rows[i] = vol[n].rows[i]
      /\ vol'[c].corrupt => vol[c].corrupt \/ vol[c].torn
      /\ vol'[c].corrupt => c = rewritten'
      /\ rewritten' \in {rewritten, c} /\ (rotating => rewritten' = rewritten)
  <2>1. CASE buffered = None
    <3>1. vol' = vol /\ rewritten' = rewritten
      BY <2>1 DEF Close, DropWriter
    <3>2. vol \in [Names -> Files] /\ \A n \in Names : n # c => vol'[n] = vol[n]
      BY <1>0, <3>1 DEF TypeOK
    <3>3. Extends'
      BY <1>0, <1>f, <1>j, <1>l, <3>1 DEF Extends
    <3>4. \A n \in Names : dur[n] # None => dur'[n] # None /\ Len(dur[n].rows) <= Len(dur'[n].rows)
      BY <1>0, <1>f, <1>j, <1>l DEF Extends
    <3>5. \A n \in Names : vol'[n] # None => \A i \in 1..Len(vol'[n].rows) :
             vol[n] # None /\ i <= Len(vol[n].rows) /\ vol'[n].rows[i] = vol[n].rows[i]
      BY <1>f, <3>1
    <3>6. Evolves
      BY <3>1, <3>4, <3>5 DEF Evolves
    <3>7. \A n \in Names : vol'[n] # None /\ vol'[n].rows # <<>>
            => dur'[n] # None /\ vol'[n].header = "full" /\ dur'[n].header = "full"
      BY <1>0, <1>j, <1>l, <3>1 DEF HeaderFirst
    <3>8. vol[c].corrupt => c = rewritten
      BY <1>0, <1>j DEF Clean
    <3> QED
      BY <1>j, <3>1, <3>2, <3>3, <3>5, <3>6, <3>7, <3>8
  <2>2. CASE buffered # None
    <3>1. PICK b \in Batches : b = buffered /\ b # None
      BY <1>b, <2>2
    <3>2. b < next /\ b \notin acked /\ poisoned /\ ~rotating /\ dur' = dur /\ c = 1
          /\ dur[c] # None /\ vol[c].header = "full" /\ dur[c].header = "full"
      BY <1>j, <1>l, <2>2, <3>1
    <3>3. PICK g \in Partial(vol[c], b) \cup {Written(vol[c], b)} : vol' = [vol EXCEPT ![c] = g]
      BY <1>a, <3>1 DEF Close, DropWriter
    <3>4. rewritten' = IF vol[c].torn THEN c ELSE rewritten
      BY <1>a, <3>1 DEF Close, DropWriter
    <3>5. PICK k \in Nat : Extended(vol[c], g, b, k)
      <4>1. BatchSizes[b] \in Nat \ {0}
        BY <1>n
      <4>2. CASE g \in Partial(vol[c], b)
        <5>1. PICK k \in 0..(BatchSizes[b] - 1) : Extended(vol[c], g, b, k)
          BY <1>j, <4>2, PartialFile
        <5> QED
          BY <4>1, <5>1
      <4>3. CASE g = Written(vol[c], b)
        BY <1>j, <4>1, <4>3, WrittenFile
      <4> QED
        BY <3>3, <4>2, <4>3
    <3>6. Wrote(c, b)
      BY <1>j, <1>u, <3>2, <3>3, <3>5, WriteFrame
    <3>7. vol'[c] = g
      BY <1>0, <3>3 DEF TypeOK
    <3>8. vol'[c].header = vol[c].header /\ (vol'[c].corrupt => vol[c].corrupt \/ vol[c].torn)
      BY <3>5, <3>7 DEF Extended
    <3>9. vol[c].corrupt => c = rewritten
      BY <1>0, <1>j DEF Clean
    <3>10. vol'[c].corrupt => c = rewritten'
      BY <3>4, <3>8, <3>9
    <3>11. /\ vol' \in [Names -> Files] /\ \A n \in Names : n # c => vol'[n] = vol[n]
           /\ vol'[c] # None /\ Extends' /\ Evolves
           /\ \A n \in Names : vol'[n] # None /\ vol'[n].rows # <<>>
                 => dur'[n] # None /\ vol'[n].header = "full" /\ dur'[n].header = "full"
           /\ \A n \in Names : vol'[n] # None => \A i \in 1..Len(vol'[n].rows) :
                 \/ n = c /\ i > Len(vol[c].rows) /\ vol'[n].rows[i][1] = b
                 \/ vol[n] # None /\ i <= Len(vol[n].rows) /\ vol'[n].rows[i] = vol[n].rows[i]
      BY <3>6 DEF Wrote
    <3> QED
      BY <3>2, <3>4, <3>8, <3>10, <3>11
  <2> QED
    BY <2>1, <2>2
<1>o. \A n \in Names : vol'[n] # None <=> vol[n] # None
  BY <1>j, <1>w
<1>t. TypeOK'
  BY <1>0, <1>l, <1>u, <1>w DEF TypeOK
<1>p. Place'
  BY <1>0, <1>j, <1>n, <1>u, <1>w DEF Place, Busy, Creating, Steps
<1>e. Extends'
  BY <1>w
<1>h. HeaderFirst'
  <2>1. rotating => \A n \in Names : /\ vol'[n] # None => vol'[n].header = "full"
                                     /\ dur'[n] # None => dur'[n].header = "full"
    BY <1>0, <1>l, <1>w DEF HeaderFirst
  <2>2. \A n \in Names : vol'[n] # None /\ vol'[n].rows # <<>>
          => dur'[n] # None /\ vol'[n].header = "full" /\ dur'[n].header = "full"
    BY <1>w
  <2> QED
    BY <1>u, <2>1, <2>2 DEF HeaderFirst, Ready
<1>c. Clean'
  <2>1. rewritten # None => rewritten = 1 /\ ~rotating
    BY <1>0 DEF Place
  <2>2. \A n \in Names : n = rewritten => n = rewritten'
    BY <1>j, <1>n, <1>w, <2>1
  <2>3. \A n \in Names : vol'[n] # None /\ vol'[n].corrupt => n = rewritten'
    BY <1>0, <1>w, <2>2 DEF Clean
  <2>4. vol[c].corrupt => c = rewritten'
    BY <1>0, <1>j, <2>2 DEF Clean
  <2>5. \A n \in Names : dur'[n] # None /\ dur'[n].corrupt => n = rewritten'
    <3>1. ASSUME NEW n \in Names, dur'[n] # None, dur'[n].corrupt PROVE n = rewritten'
      <4>1. CASE n = c /\ ~poisoned
        BY <1>l, <2>4, <3>1, <4>1
      <4>2. CASE ~(n = c /\ ~poisoned)
        BY <1>0, <1>l, <2>2, <3>1, <4>2 DEF Clean
      <4> QED
        BY <4>1, <4>2
    <3> QED
      BY <3>1
  <2> QED
    BY <1>u, <2>3, <2>5 DEF Clean, Ready
<1>s. Settled'
  BY <1>0, <1>l, <1>u, <1>w DEF Settled, Ready, Creating
<1>g. Staged'
  BY <1>0, <1>n, <1>u, <1>w DEF Staged, Ready, Place
<1>z. Sized'
  BY <1>0, <1>u, <1>w DEF Sized, Ready, OneBatch
<1>d. Dated'
  BY <1>0, <1>n, <1>f DEF Close, files, journal, bounds, Dated, TypeOK, Place
<1>m. Numbered'
  <2>1. \A b \in acked : b < next
    BY <1>0 DEF Numbered
  <2>2. \A n \in Names : vol'[n] # None => \A i \in 1..Len(vol'[n].rows) :
            \/ vol'[n].rows[i][1] < next
            \/ vol[n] # None /\ i <= Len(vol[n].rows) /\ vol'[n].rows[i] = vol[n].rows[i]
    BY <1>w
  <2> QED
    BY <1>0, <1>t, <1>u, <2>1, <2>2, NumberedKeeps
<1>v. Evolves
  BY <1>w
<1>k. Kept'
  BY <1>t, <1>e, <1>v, <1>u, EvolvesKeeps
<1> QED
  BY <1>t, <1>p, <1>e, <1>h, <1>c, <1>s, <1>g, <1>z, <1>d, <1>m, <1>k DEF Inv

LEMMA PowerLossKeeps == Inv /\ PowerLoss => Inv'
<1> SUFFICES ASSUME Inv, PowerLoss PROVE Inv'
  OBVIOUS
<1>0. /\ TypeOK /\ Place /\ Extends /\ HeaderFirst /\ Clean /\ Settled /\ Staged /\ Sized
      /\ Dated /\ Numbered /\ Kept
  BY DEF Inv
<1>n. /\ Names \subseteq Nat \ {0} /\ 1 \in Names /\ None \notin Names /\ None \notin Int
      /\ Batches = 1..Len(BatchSizes) /\ Len(BatchSizes) \in Nat
      /\ \A b \in Batches : BatchSizes[b] \in Nat \ {0}
  BY NamesTyped
<1>f. \A n \in Names :
             /\ vol[n] # None => /\ vol[n] \in Contents /\ Len(vol[n].rows) \in Nat
                                 /\ vol[n].rows = <<>> <=> Len(vol[n].rows) = 0
                                 /\ \A i \in 1..Len(vol[n].rows) :
                                      vol[n].rows[i] \in Batches \X Nat
             /\ dur[n] # None => /\ dur[n] \in Contents /\ Len(dur[n].rows) \in Nat
                                 /\ dur[n].rows = <<>> <=> Len(dur[n].rows) = 0
  BY <1>0, FilesTyped
<1>b. /\ next \in Nat /\ \A b \in acked : b \in Batches /\ b \in Nat
      /\ buffered # None => buffered \in Batches /\ buffered \in Nat
      /\ \A b \in Batches : b \in Nat
  BY <1>0, BatchesTyped
<1>u. /\ pc' = "down" /\ dur' = vol'
      /\ rotating' = rotating /\ after' = after /\ current' = current /\ date' = date
      /\ bytes' = bytes /\ has_events' = has_events /\ poisoned' = poisoned
      /\ buffered' = buffered /\ rewritten' = rewritten /\ begun' = begun /\ day' = day
      /\ acked' = acked
  BY DEF PowerLoss, files, journal, bounds
<1>a. /\ volMarker' \in {volMarker, durMarker} /\ durMarker' = volMarker'
      /\ volPending' \in {volPending, durPending} /\ durPending' = volPending'
      /\ next' = next \/ next' = next + 1
      /\ pc = "sync" => next' = next + 1
  BY DEF PowerLoss, Opening
<1>j. \A n \in Names : vol'[n] \in AfterPowerLoss(n)
  BY DEF PowerLoss
<1>w. \A n \in Names :
        /\ vol'[n] # None => vol[n] # None /\ CutTo(vol[n], vol'[n])
        /\ dur[n] # None => vol'[n] # None /\ Len(dur[n].rows) <= Len(vol'[n].rows)
        /\ vol'[n] # None /\ vol'[n].rows # <<>> => vol'[n].header = "full"
        /\ vol'[n] # None /\ rotating => vol'[n].header = "full"
        /\ vol'[n] # None /\ vol'[n].corrupt => n = rewritten
        /\ vol'[n] # None /\ rotating /\ vol'[n].torn => n = volMarker /\ n = durMarker
  BY <1>j, AfterPowerLossFile
<1>o. \A n \in Names : vol'[n] # None =>
        /\ vol'[n] \in Contents /\ Len(vol'[n].rows) \in Nat
        /\ vol'[n].rows = <<>> <=> Len(vol'[n].rows) = 0
        /\ Len(vol'[n].rows) <= Len(vol[n].rows)
        /\ \A i \in 1..Len(vol'[n].rows) : vol'[n].rows[i] = vol[n].rows[i]
  BY <1>w, RowsTyped DEF CutTo
<1>t. TypeOK'
  <2>1. vol' \in [Names -> Files]
    <3>1. \E S : vol' \in [Names -> S]
      BY DEF PowerLoss
    <3> QED
      BY <1>o, <3>1 DEF Files
  <2>2. next' \in 1..(Len(BatchSizes) + 1)
    <3>1. next' # next => next \in Batches
      BY <1>0 DEF PowerLoss, Place, Busy, Opening, Steps, Creating
    <3>2. next \in 1..(Len(BatchSizes) + 1)
      BY <1>0 DEF TypeOK
    <3> QED
      BY <1>a, <1>n, <3>1, <3>2
  <2> QED
    BY <1>0, <1>a, <1>u, <2>1, <2>2 DEF TypeOK
<1>p. Place'
  <2>1. buffered # None => buffered < next'
    BY <1>0, <1>a, <1>b DEF Place
  <2> QED
    BY <1>0, <1>a, <1>u, <2>1 DEF Place, Busy, Creating, Steps
<1>e. Extends'
  BY <1>o, <1>u DEF Extends
<1>h. HeaderFirst'
  BY <1>u, <1>w DEF HeaderFirst, Ready
<1>c. Clean'
  BY <1>u, <1>w DEF Clean, Ready
<1>s. Settled'
  <2> SUFFICES ASSUME rotating
               PROVE  /\ volMarker' # None => vol'[volMarker'] # None
                      /\ \A n \in Names : vol'[n] # None /\ vol'[n].torn => n = volMarker'
    BY <1>a, <1>u DEF Settled, Ready, Creating
  <2>1. volMarker' # None => volMarker' \in Names /\ dur[volMarker'] # None
    BY <1>0, <1>a DEF Settled, TypeOK
  <2> QED
    BY <1>a, <1>w, <2>1
<1>g. Staged'
  <2>1. \A p \in Names : vol'[p] # None /\ p = volPending' => vol'[p].rows = <<>>
    <3>1. \A p \in Names : vol'[p] # None /\ vol[p].rows = <<>> => vol'[p].rows = <<>>
      BY <1>f, <1>o, <1>w
    <3> QED
      BY <1>0, <1>a, <1>w, <3>1 DEF Staged
  <2> QED
    BY <1>a, <1>u, <2>1 DEF Staged, Ready
<1>z. Sized'
  <2> SUFFICES ASSUME rotating, max_bytes # None, NEW n \in Names, vol'[n] # None
               PROVE  1 + Len(vol'[n].rows) <= max_bytes \/ OneBatch(vol'[n])
    BY <1>u DEF Sized, Ready, OneBatch
  <2>1. /\ Len(vol[n].rows) \in Nat /\ Len(vol'[n].rows) \in Nat /\ max_bytes \in Nat
        /\ Len(vol'[n].rows) <= Len(vol[n].rows)
        /\ \A i \in 1..Len(vol'[n].rows) : vol'[n].rows[i] = vol[n].rows[i]
    BY <1>f, <1>o, <1>w, BatchAssumption
  <2>2. 1 + Len(vol[n].rows) <= max_bytes \/ OneBatch(vol[n])
    BY <1>0, <1>w DEF Sized
  <2>3. OneBatch(vol[n]) => OneBatch(vol'[n])
    <3> SUFFICES ASSUME OneBatch(vol[n]),
                        NEW i \in 1..Len(vol'[n].rows), NEW j \in 1..Len(vol'[n].rows)
                 PROVE  vol'[n].rows[i][1] = vol'[n].rows[j][1]
      BY DEF OneBatch
    <3>1. i \in 1..Len(vol[n].rows) /\ j \in 1..Len(vol[n].rows)
      BY <2>1
    <3>2. vol[n].rows[i][1] = vol[n].rows[j][1]
      BY <3>1 DEF OneBatch
    <3>3. vol'[n].rows[i] = vol[n].rows[i] /\ vol'[n].rows[j] = vol[n].rows[j]
      BY <2>1
    <3> QED
      BY <3>2, <3>3
  <2> QED
    BY <2>1, <2>2, <2>3
<1>d. Dated'
  BY <1>0, <1>n, <1>f DEF PowerLoss, files, journal, bounds, Dated, TypeOK, Place
<1>m. Numbered'
  <2>1. \A b \in acked' : b < next'
    BY <1>0, <1>a, <1>b, <1>u DEF Numbered
  <2>2. (next' = next /\ pc # "sync") \/ next' = next + 1
    BY <1>a
  <2>3. \A n \in Names : vol'[n] # None => \A i \in 1..Len(vol'[n].rows) :
            vol[n] # None /\ i <= Len(vol[n].rows) /\ vol'[n].rows[i] = vol[n].rows[i]
    BY <1>f, <1>o, <1>w
  <2> QED
    BY <1>0, <1>t, <1>u, <2>1, <2>2, <2>3, NumberedKeeps
<1>v. Evolves
  <2>1. \A n \in Names : vol'[n] # None => \A i \in 1..Len(vol'[n].rows) :
            vol[n] # None /\ i <= Len(vol[n].rows) /\ vol'[n].rows[i] = vol[n].rows[i]
    BY <1>f, <1>o, <1>w
  <2>2. ASSUME NEW n \in Names, dur[n] # None
        PROVE  /\ dur'[n] # None /\ Len(dur[n].rows) <= Len(dur'[n].rows)
               /\ \A i \in 1..Len(dur[n].rows) : vol'[n].rows[i] = vol[n].rows[i]
    <3>1. /\ vol'[n] # None /\ Len(dur[n].rows) <= Len(vol'[n].rows)
          /\ Len(dur[n].rows) \in Nat /\ Len(vol'[n].rows) \in Nat
      BY <1>f, <1>o, <1>w, <2>2
    <3>2. \A i \in 1..Len(dur[n].rows) : i \in 1..Len(vol'[n].rows)
      BY <3>1
    <3> QED
      BY <1>o, <1>u, <3>1, <3>2
  <2> QED
    BY <2>1, <2>2 DEF Evolves
<1>k. Kept'
  BY <1>t, <1>e, <1>v, <1>u, EvolvesKeeps
<1> QED
  BY <1>t, <1>p, <1>e, <1>h, <1>c, <1>s, <1>g, <1>z, <1>d, <1>m, <1>k DEF Inv

LEMMA StutterKeeps == Inv /\ UNCHANGED vars => Inv'
<1> SUFFICES ASSUME Inv, UNCHANGED vars PROVE Inv'
  OBVIOUS
<1>1. /\ rotating' = rotating /\ vol' = vol /\ dur' = dur /\ volMarker' = volMarker
      /\ durMarker' = durMarker /\ volPending' = volPending /\ durPending' = durPending
      /\ pc' = pc /\ after' = after /\ current' = current /\ date' = date /\ bytes' = bytes
      /\ has_events' = has_events /\ poisoned' = poisoned /\ buffered' = buffered
      /\ rewritten' = rewritten /\ begun' = begun /\ next' = next /\ day' = day /\ acked' = acked
  BY DEF vars, files, journal
<1>2. TypeOK' /\ Place' /\ Extends' /\ HeaderFirst'
  BY <1>1 DEF Inv, TypeOK, Opening, Place, Busy, Extends, HeaderFirst, Ready
<1>3. Clean' /\ Settled' /\ Staged' /\ Sized'
  BY <1>1 DEF Inv, Clean, Settled, Staged, Sized, OneBatch, Ready
<1>4. Dated' /\ Numbered'
  BY <1>1 DEF Inv, Dated, Numbered
<1>5. Kept'
  <2>1. \A n \in Names : vol[n] # None => Len(vol[n].rows) \in Nat
    BY FilesTyped DEF Inv
  <2>2. \A n \in Names : dur[n] # None => vol[n] # None /\ Len(dur[n].rows) \in Nat
                                         /\ Len(dur[n].rows) <= Len(vol[n].rows)
    BY FilesTyped DEF Inv, Extends
  <2>3. Evolves
    BY <1>1, <2>1, <2>2 DEF Evolves
  <2> QED
    BY <1>1, <1>2, <2>3, EvolvesKeeps
<1> QED
  BY <1>2, <1>3, <1>4, <1>5 DEF Inv

LEMMA InitInv == Init => Inv
<1> SUFFICES ASSUME Init PROVE Inv
  OBVIOUS
<1>0. Names \subseteq Nat \ {0} /\ None \notin Names /\ Len(BatchSizes) \in Nat
  BY NamesTyped
<1>1. TypeOK
  <2>1. vol \in [Names -> Files] /\ dur \in [Names -> Files]
    BY DEF Init, Files
  <2>2. 0 \in 0..MaxDay /\ 1 \in 1..(Len(BatchSizes) + 1)
    BY <1>0, BoundAssumption
  <2> QED
    BY <2>1, <2>2 DEF Init, TypeOK
<1>2. Place
  BY DEF Init, Place, Busy, Creating, Steps
<1>3. Extends /\ HeaderFirst /\ Clean
  BY DEF Init, Extends, HeaderFirst, Clean, Ready
<1>4. Settled /\ Staged /\ Sized
  BY <1>0 DEF Init, Settled, Staged, Sized, Ready, Creating
<1>5. Dated
  <2>1. begun = <<>> /\ begun \in Seq(Int) /\ Len(begun) = 0
    BY EmptySeq DEF Init
  <2> QED
    BY <2>1 DEF Dated
<1>6. Numbered /\ Kept
  BY DEF Init, Numbered, Kept
<1> QED
  BY <1>1, <1>2, <1>3, <1>4, <1>5, <1>6 DEF Inv

LEMMA NextKeeps == Inv /\ [Next]_vars => Inv'
BY OpenDirectoryKeeps, OpenFileKeeps, WriteHeaderKeeps, ParentSyncKeeps, StageKeeps, PublishKeeps,
   UnlinkKeeps, SegmentDirectorySyncKeeps, MarkerRenameKeeps, MarkerDirectorySyncKeeps,
   Append1Keeps, BatchWriteKeeps, BatchSyncKeeps, StepFailsKeeps, CloseKeeps, KillKeeps,
   PowerLossKeeps, DayChangesKeeps, StutterKeeps DEF Next

LEMMA Invariance == Spec => []Inv
BY InitInv, NextKeeps, PTL DEF Spec

-----------------------------------------------------------------------------
(* Theorems. *)

\* What the next start relies on (FilesSound): half a row ends the marked
\* segment only, and the staging name is no second name of a segment with
\* events.  Type correctness included.
THEOREM RecoveryCoversFiles == Spec => []FilesSound
<1>1. Inv => FilesSound
  <2> SUFFICES ASSUME Inv PROVE TornOnlyActive /\ StagingHoldsNoEvents
    BY DEF Inv, FilesSound
  <2>1. TornOnlyActive
    BY DEF Inv, Settled, TornOnlyActive
  <2>2. StagingHoldsNoEvents
    BY DEF Inv, Staged, StagingHoldsNoEvents
  <2> QED
    BY <2>1, <2>2
<1> QED
  BY <1>1, Invariance, PTL

\* A batch append_batch acknowledged stays whole, in order and in one file
\* (AckedKept), through every later kill, failed step, power failure, recovery
\* and rotation.
THEOREM AcknowledgedBatchesKept == Spec => []AckedKept
<1>1. Inv => AckedKept
  <2> SUFFICES ASSUME Inv, NEW b \in acked
               PROVE  \E n \in Names :
                        /\ Mentions(n, b) /\ Complete(n, b) /\ (vol[n].corrupt => n = rewritten)
                        /\ \A m \in Names : Mentions(m, b) => m = n
    BY DEF AckedKept
  <2>1. PICK n \in Names : KeptIn(n, b)
    BY DEF Inv, Kept
  <2>2. PICK k \in Nat : Window(n, b, k)
    BY <2>1 DEF KeptIn
  <2>3. /\ dur[n] # None /\ vol[n] # None /\ BatchSizes[b] \in Nat \ {0}
        /\ Len(dur[n].rows) <= Len(vol[n].rows)
        /\ Len(dur[n].rows) \in Nat /\ Len(vol[n].rows) \in Nat
        /\ DOMAIN vol[n].rows = 1..Len(vol[n].rows)
        /\ k + BatchSizes[b] <= Len(vol[n].rows)
    <3>1. dur[n] # None /\ vol[n] # None /\ Len(dur[n].rows) <= Len(vol[n].rows)
      BY <2>1 DEF Inv, KeptIn, Extends
    <3>2. Len(dur[n].rows) \in Nat /\ Len(vol[n].rows) \in Nat /\ vol[n] \in Contents
      BY <3>1, FilesTyped DEF Inv
    <3>3. DOMAIN vol[n].rows = 1..Len(vol[n].rows)
      BY <3>2, RowsTyped, LenProperties
    <3>4. BatchSizes[b] \in Nat \ {0}
      BY NamesTyped DEF Inv, TypeOK
    <3> QED
      BY <2>2, <3>1, <3>2, <3>3, <3>4 DEF Window
  <2>4. Mentions(n, b)
    <3>1. k + 1 \in 1..Len(vol[n].rows) /\ k + 1 \in (k + 1)..(k + BatchSizes[b])
      BY <2>3
    <3>2. vol[n].rows[k + 1] = <<b, (k + 1) - k>>
      BY <2>2, <3>1 DEF Window
    <3>3. vol[n].rows[k + 1] \in Range(vol[n].rows) /\ vol[n].rows[k + 1][1] = b
      BY <2>3, <3>1, <3>2 DEF Range
    <3> QED
      BY <2>3, <3>3 DEF Mentions
  <2>5. Complete(n, b)
    <3>1. k \in 0..Len(vol[n].rows)
      BY <2>3
    <3> QED
      BY <2>2, <2>3, <3>1 DEF Window, Complete
  <2>6. vol[n].corrupt => n = rewritten
    BY <2>3 DEF Inv, Clean
  <2>7. ASSUME NEW m \in Names, Mentions(m, b) PROVE m = n
    <3>1. PICK r \in Range(vol[m].rows) : r[1] = b /\ vol[m] # None
      BY <2>7 DEF Mentions
    <3>2. DOMAIN vol[m].rows = 1..Len(vol[m].rows)
      BY <3>1, FilesTyped, RowsTyped, LenProperties DEF Inv
    <3>3. PICK i \in 1..Len(vol[m].rows) : vol[m].rows[i] = r
      BY <3>1, <3>2 DEF Range
    <3> QED
      BY <2>1, <3>1, <3>3 DEF KeptIn
  <2> QED
    BY <2>4, <2>5, <2>6, <2>7
<1> QED
  BY <1>1, Invariance, PTL

\* What an interruption leaves opens again (OpensAgain), but for one file
\* whose very header was cut short or that has rows behind half a row.
THEOREM InterruptedFilesReopen == Spec => []OpensAgain
<1>1. Inv => OpensAgain
  <2> SUFFICES ASSUME Inv, ~rotating /\ vol[1] # None => vol[1].header # "partial",
                      rewritten = None
               PROVE  CanOpen
    BY DEF OpensAgain
  <2>1. \A n \in Names : vol[n] # None => ~vol[n].corrupt /\ vol[n].header \in Headers
    BY FilesTyped, RowsTyped, NamesTyped DEF Inv, Clean
  <2>2. CASE rotating /\ volMarker # None
    <3>1. volMarker \in Names /\ vol[volMarker] # None /\ vol[volMarker].header = "full"
      BY <2>2 DEF Inv, TypeOK, Settled, Extends, HeaderFirst
    <3> QED
      BY <2>1, <2>2, <3>1 DEF CanOpen, readable
  <2>3. CASE ~rotating
    BY <2>1, <2>3, NamesTyped DEF CanOpen, readable, Headers
  <2> QED
    BY <2>2, <2>3 DEF CanOpen
<1> QED
  BY <1>1, Invariance, PTL

\* A segment exceeds rotate_max_bytes with one large batch only, and no date
\* begins two segments in a process (RotationBounded).
THEOREM RotationKeepsBounds == Spec => []RotationBounded
<1>1. Inv => RotationBounded
  <2> SUFFICES ASSUME Inv PROVE RotationBounded
    OBVIOUS
  <2>1. ASSUME rotating, max_bytes # None, NEW n \in Names, vol[n] # None,
               1 + Len(vol[n].rows) > max_bytes
        PROVE  Cardinality({r[1] : r \in Range(vol[n].rows)}) = 1
    <3>1. /\ Len(vol[n].rows) \in Nat /\ max_bytes \in Nat \ {0}
          /\ DOMAIN vol[n].rows = 1..Len(vol[n].rows)
      BY <2>1, FilesTyped, RowsTyped, LenProperties, BatchAssumption DEF Inv
    <3>2. OneBatch(vol[n])
      BY <2>1, <3>1 DEF Inv, Sized
    <3>3. 1 \in 1..Len(vol[n].rows)
      BY <2>1, <3>1
    <3>4. {r[1] : r \in Range(vol[n].rows)} = {vol[n].rows[1][1]}
      BY <3>1, <3>2, <3>3 DEF OneBatch, Range
    <3> QED
      BY <3>4, FS_Singleton
  <2>2. IsInjective(begun)
    <3>1. /\ DOMAIN begun = 1..Len(begun) /\ Len(begun) \in Nat
          /\ \A i \in 1..Len(begun) : begun[i] \in Int
      BY LenProperties, ElementOfSeq DEF Inv, Dated
    <3>2. \A i, j \in 1..Len(begun) : i < j => begun[i] < begun[j]
      BY DEF Inv, Dated
    <3> SUFFICES ASSUME NEW i \in 1..Len(begun), NEW j \in 1..Len(begun), begun[i] = begun[j]
                 PROVE  i = j
      BY <3>1 DEF IsInjective
    <3>3. ~(i < j) /\ ~(j < i)
      BY <3>1, <3>2
    <3> QED
      BY <3>1, <3>3
  <2> QED
    BY <2>1, <2>2 DEF RotationBounded
<1> QED
  BY <1>1, Invariance, PTL

\* A segment with events that the marker no longer names is never changed,
\* not by a power failure either (ClosedSegmentsKept).
THEOREM ClosedSegmentsNeverChange == Spec => ClosedSegmentsKept
<1> DEFINE Kept1 == \A n \in Names :
        rotating /\ vol[n] # None /\ vol[n].rows # <<>> /\ n # volMarker => vol'[n] = vol[n]
<1>1. Inv /\ [Next]_vars => Kept1 \/ UNCHANGED vars
  <2> SUFFICES ASSUME Inv, Next, NEW n \in Names, rotating, vol[n] # None,
                      vol[n].rows # <<>>, n # volMarker
               PROVE  vol'[n] = vol[n]
    OBVIOUS
  <2>0. /\ vol \in [Names -> Files] /\ dur[n] = vol[n]
        /\ pc \notin {"header", "parentSync"} /\ (pc \in {"write", "sync"} => current # n)
        /\ buffered = None
    BY DEF Inv, TypeOK, HeaderFirst, Settled, Place
  <2>1. CASE OpenDirectory
    BY <2>0, <2>1 DEF OpenDirectory, recover
  <2>2. CASE OpenFile
    BY <2>2 DEF OpenFile
  <2>3. CASE Publish
    BY <2>0, <2>3 DEF Publish
  <2>4. CASE BatchWrite
    BY <2>0, <2>4 DEF BatchWrite
  <2>5. CASE StepFails \/ Kill
    <3>1. PICK f \in CutShort : vol' = IF f = None THEN vol ELSE [vol EXCEPT ![current] = f]
      BY <2>5 DEF StepFails, Kill
    <3>2. pc # "down"
      BY <2>5 DEF StepFails, Kill
    <3>3. f = None \/ pc = "write"
      BY <2>0, <3>2, CutShortFile
    <3> QED
      BY <2>0, <3>1, <3>3
  <2>6. CASE Close
    BY <2>0, <2>6 DEF Close, DropWriter
  <2>7. CASE PowerLoss
    <3>1. vol'[n] \in AfterPowerLoss(n)
      BY <2>7 DEF PowerLoss
    <3> QED
      BY <2>0, <3>1 DEF AfterPowerLoss, Between
  <2>8. CASE WriteHeader \/ ParentSync
    BY <2>0, <2>8 DEF WriteHeader, ParentSync
  <2>9. CASE Stage \/ Unlink \/ MarkerRename \/ Append1 \/ BatchSync \/ DayChanges
    BY <2>9 DEF Stage, Unlink, MarkerRename, Append1, BatchSync, DayChanges, files
  <2>10. CASE SegmentDirectorySync \/ MarkerDirectorySync
    BY <2>10 DEF SegmentDirectorySync, MarkerDirectorySync, sync_directory
  <2> QED
    BY <2>1, <2>2, <2>3, <2>4, <2>5, <2>6, <2>7, <2>8, <2>9, <2>10 DEF Next
<1>2. Inv /\ [Next]_vars => [Kept1]_vars
  BY <1>1
<1> QED
  BY <1>2, Invariance, PTL DEF Spec, ClosedSegmentsKept
=============================================================================
