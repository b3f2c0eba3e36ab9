--------------------------- MODULE Output_proofs ---------------------------
(***************************************************************************)
(* Proofs about Output, for every set of runs, size of batch and range of  *)
(* the counter: the rows are numbered without gaps, but for what the csv   *)
(* writer leaves of a failed batch in a single file, runs are nested, and  *)
(* the console and the tree of active runs agree with the journal.         *)
(*                                                                         *)
(* The counter alone is not inductive: numbers are given away before the   *)
(* write, so what must be kept is that, until a write fails, the counter   *)
(* is the number of rows of the one active session or is exhausted.        *)
(***************************************************************************)
EXTENDS Output, FiniteSetTheorems, SequenceTheorems, TLAPS

-----------------------------------------------------------------------------
(* The inductive invariant, with the journal s and the active runs f as    *)
(* parameters.                                                             *)

\* Nested, row by row.
Nest(s) ==
    /\ \A i \in 1..Len(s) : \E j \in 1..i : s[j].run = s[i].run /\ s[j].what = "started"
    /\ \A i, j \in 1..Len(s) : s[j].run = s[i].run =>
        /\ s[i].what = "started" /\ s[j].what = "started" => i = j
        /\ s[j].what = "finished" => i <= j
        /\ s[j].parent = s[i].parent /\ s[j].root = s[i].root
    /\ \A i \in 1..Len(s) : s[i].parent # None =>
        /\ \E j \in 1..(i - 1) : s[j].run = s[i].parent /\ s[j].what = "started"
        /\ \A j \in 1..Len(s) : s[j].run = s[i].parent /\ s[j].what = "finished" => i < j

\* The root of a row is a run of the journal.
Rooted(s) == \A i \in 1..Len(s) : \E j \in 1..Len(s) : s[j].run = s[i].root

\* The first n rows of s with this root.
OfRoot(s, root, n) == {j \in 1..n : s[j].root = root}
\* The first n rows are numbered without a gap.
Gapless(s, n) == \A i \in 1..n : s[i].seq = Cardinality(OfRoot(s, s[i].root, i))
\* Rows behind those of the console c have greater numbers than these.
Beyond(s, c) == \A i \in (Len(c) + 1)..Len(s) :
                    s[i].seq > Cardinality(OfRoot(c, s[i].root, Len(c)))
Numbers(s, c, all) == Gapless(s, IF all THEN Len(s) ELSE Len(c)) /\ Beyond(s, c)

\* The active runs are those s shows as begun and not ended, with their relations.
Shown(s, f) ==
    /\ \A r \in DOMAIN f : \E j \in 1..Len(s) : s[j].run = r /\ s[j].what = "started"
    /\ \A j \in 1..Len(s) : s[j].run \in DOMAIN f =>
        /\ s[j].what # "finished"
        /\ s[j].parent = f[s[j].run].parent /\ s[j].root = f[s[j].run].root
    /\ \A j \in 1..Len(s) : s[j].run \notin DOMAIN f =>
        \E i \in 1..Len(s) : s[i].run = s[j].run /\ s[i].what = "finished"

\* They form one tree, whose root is its only run without a parent.
OneTree(f) ==
    /\ \A a, b \in DOMAIN f : f[a].root = f[b].root
    /\ \A a \in DOMAIN f : f[a].parent = None => f[a].root = a

\* The counter is exhausted, or the number of rows of the tree.
Counts(s, f, q) ==
    \A r \in DOMAIN f : q = MaxSequence \/ q = Cardinality(OfRoot(s, f[r].root, Len(s)))

Inv ==
    /\ TypeOK /\ IsPrefix(console, journal)
    /\ Nest(journal) /\ Rooted(journal) /\ Numbers(journal, console, rotating)
    /\ ~failed => /\ console = journal /\ Shown(journal, runs)
                  /\ OneTree(runs) /\ Counts(journal, runs, sequence)

-----------------------------------------------------------------------------
(* Sets of numbers, counting and prefixes. *)

LEMMA Smallest ==
    ASSUME NEW X \in SUBSET Nat, X # {}
    PROVE  \E m \in X : \A k \in X : m <= k
<1> DEFINE T == {0..i : i \in X}
<1>1. T \subseteq FiniteSubsetsOf(Nat)
  <2>1. ASSUME NEW i \in X PROVE IsFiniteSet(0..i) /\ 0..i \in SUBSET Nat
    BY <2>1, FS_Interval
  <2> QED
    BY <2>1 DEF FiniteSubsetsOf
<1>2. T # {}
  OBVIOUS
<1>3. PICK x \in T : \A y \in T : ~ (<<y, x>> \in StrictSubsetOrdering(Nat))
  <2> HIDE DEF T
  <2> QED
    BY <1>1, <1>2, WFMin, FS_StrictSubsetOrderingWellFounded
<1>4. PICK m \in X : x = 0..m
  BY <1>3
<1>5. ASSUME NEW k \in X, k < m PROVE FALSE
  <2>1. 0..k \subseteq 0..m /\ 0..k # 0..m /\ 0..k \in SUBSET Nat /\ 0..m \in SUBSET Nat
    <3>1. m \in 0..m /\ m \notin 0..k
      BY <1>5
    <3> QED
      BY <1>5, <3>1
  <2>2. <<0..k, 0..m>> \in StrictSubsetOrdering(Nat)
    BY <2>1 DEF StrictSubsetOrdering
  <2> QED
    BY <1>3, <1>4, <2>2
<1> QED
  BY <1>5

LEMMA Counted ==
    ASSUME NEW s, NEW root, NEW n \in Nat
    PROVE  /\ IsFiniteSet(OfRoot(s, root, n)) /\ Cardinality(OfRoot(s, root, n)) \in Nat
           /\ (\A j \in 1..n : s[j].root # root) => Cardinality(OfRoot(s, root, n)) = 0
<1>1. IsFiniteSet(1..n) /\ OfRoot(s, root, n) \in SUBSET (1..n)
  BY FS_Interval DEF OfRoot
<1>2. IsFiniteSet(OfRoot(s, root, n))
  BY <1>1, FS_Subset
<1>3. (\A j \in 1..n : s[j].root # root) => OfRoot(s, root, n) = {}
  BY DEF OfRoot
<1> QED
  BY <1>2, <1>3, FS_CardinalityType, FS_EmptySet

\* t is s and k more rows of one run.
Grown(s, t, k, r, what, p, o) ==
    /\ t \in Seq(Rows) /\ Len(t) = Len(s) + k
    /\ \A i \in 1..Len(s) : t[i] = s[i]
    /\ \A i \in (Len(s) + 1)..(Len(s) + k) :
        t[i].run = r /\ t[i].what = what /\ t[i].parent = p /\ t[i].root = o

\* They are numbered from q.
Longer(s, t, k, q, r, what, p, o) ==
    /\ t \in Seq(Rows) /\ Len(t) = Len(s) + k
    /\ \A i \in 1..Len(s) : t[i] = s[i]
    /\ \A i \in 1..k : t[Len(s) + i] = Row(q + i, r, what, p, o)

\* Behind the rows of s the rows of the root grow by one a row.
CountsOn(s, t, k, o) ==
    /\ \A x : \A n \in 0..Len(s) : OfRoot(t, x, n) = OfRoot(s, x, n)
    /\ \A i \in 0..k : Cardinality(OfRoot(t, o, Len(s) + i)) =
                       Cardinality(OfRoot(s, o, Len(s))) + i

LEMMA CountedLonger ==
    ASSUME NEW s \in Seq(Rows), NEW t, NEW k \in Nat, NEW q, NEW r, NEW what, NEW p, NEW o,
           Longer(s, t, k, q, r, what, p, o)
    PROVE  CountsOn(s, t, k, o)
<1>1. Len(s) \in Nat
  BY LenProperties
<1>2. \A x : \A n \in 0..Len(s) : OfRoot(t, x, n) = OfRoot(s, x, n)
  BY <1>1 DEF OfRoot, Longer
<1>3. ASSUME NEW i \in 0..k
      PROVE  Cardinality(OfRoot(t, o, Len(s) + i)) = Cardinality(OfRoot(s, o, Len(s))) + i
  <2> DEFINE A == OfRoot(s, o, Len(s))
             B == (Len(s) + 1)..(Len(s) + i)
  <2>1. \A j \in B : t[j].root = o
    <3>1. ASSUME NEW j \in B PROVE t[j].root = o
      <4>1. j - Len(s) \in 1..k /\ Len(s) + (j - Len(s)) = j
        BY <1>1, <1>3
      <4>2. t[j] = Row(q + (j - Len(s)), r, what, p, o)
        BY <4>1 DEF Longer
      <4> QED
        BY <4>2 DEF Row
    <3> QED
      BY <3>1
  <2>2. OfRoot(t, o, Len(s) + i) = A \cup B
    <3>1. \A j : j \in 1..(Len(s) + i) <=> j \in 1..Len(s) \/ j \in B
      BY <1>1, <1>3
    <3>2. \A j \in 1..Len(s) : t[j] = s[j]
      BY DEF Longer
    <3> QED
      BY <2>1, <3>1, <3>2 DEF OfRoot
  <2>3. A \cap B = {}
    BY <1>1 DEF OfRoot
  <2>4. IsFiniteSet(A) /\ Cardinality(A) \in Nat
    BY <1>1, Counted
  <2>5. IsFiniteSet(B) /\ Cardinality(B) = i
    <3>1. Len(s) + 1 \in Int /\ Len(s) + i \in Int /\ i \in Nat
      BY <1>1, <1>3
    <3>2. /\ IsFiniteSet(B)
          /\ Cardinality(B) = IF Len(s) + 1 > Len(s) + i THEN 0
                              ELSE (Len(s) + i) - (Len(s) + 1) + 1
      BY <3>1, FS_Interval
    <3> QED
      BY <1>1, <3>1, <3>2
  <2> HIDE DEF A, B
  <2>6. Cardinality(A \cup B) = Cardinality(A) + Cardinality(B) - Cardinality(A \cap B)
    BY <2>4, <2>5, FS_Union
  <2>7. Cardinality(A \cap B) = 0
    BY <2>3, FS_EmptySet
  <2>8. Cardinality(OfRoot(t, o, Len(s) + i)) = Cardinality(A \cup B)
    BY <2>2, Zenon
  <2>9. Cardinality(OfRoot(s, o, Len(s))) = Cardinality(A)
    BY Zenon DEF A
  <2> QED
    BY <1>3, <2>4, <2>5, <2>6, <2>7, <2>8, <2>9
<1> QED
  BY <1>2, <1>3 DEF CountsOn

LEMMA GrownPrefix ==
    ASSUME NEW c \in Seq(Rows), NEW s \in Seq(Rows), NEW k \in Nat,
           NEW t, NEW r, NEW what, NEW p, NEW o,
           IsPrefix(c, s), Grown(s, t, k, r, what, p, o)
    PROVE  IsPrefix(c, t)
<1>1. Len(c) \in Nat /\ Len(s) \in Nat /\ t \in Seq(Rows) /\ Len(t) = Len(s) + k
      /\ \A i \in 1..Len(s) : t[i] = s[i]
  BY LenProperties DEF Grown
<1>2. Len(c) <= Len(s) /\ SubSeq(c, 1, Len(c)) = SubSeq(s, 1, Len(c))
  BY DEF IsPrefix
<1>3. SubSeq(s, 1, Len(c)) = SubSeq(t, 1, Len(c))
  <2>1. \A i \in 1..Len(c) : s[i] \in Rows /\ t[i] \in Rows
    BY <1>1, <1>2, ElementOfSeq
  <2>2. /\ SubSeq(s, 1, Len(c)) \in Seq(Rows)
        /\ Len(SubSeq(s, 1, Len(c))) = IF 1 <= Len(c) THEN Len(c) - 1 + 1 ELSE 0
        /\ \A i \in 1..(Len(c) - 1 + 1) : SubSeq(s, 1, Len(c))[i] = s[1 + i - 1]
    BY <1>1, <2>1, SubSeqProperties
  <2>3. /\ SubSeq(t, 1, Len(c)) \in Seq(Rows)
        /\ Len(SubSeq(t, 1, Len(c))) = IF 1 <= Len(c) THEN Len(c) - 1 + 1 ELSE 0
        /\ \A i \in 1..(Len(c) - 1 + 1) : SubSeq(t, 1, Len(c))[i] = t[1 + i - 1]
    BY <1>1, <2>1, SubSeqProperties
  <2>4. /\ Len(SubSeq(s, 1, Len(c))) = Len(c) /\ Len(SubSeq(t, 1, Len(c))) = Len(c)
        /\ \A i \in 1..Len(c) : SubSeq(s, 1, Len(c))[i] = SubSeq(t, 1, Len(c))[i]
    BY <1>1, <1>2, <2>2, <2>3
  <2> QED
    BY <2>2, <2>3, <2>4, SeqEqual
<1> QED
  BY <1>1, <1>2, <1>3 DEF IsPrefix

LEMMA PrefixItself ==
    ASSUME NEW s \in Seq(Rows)
    PROVE  IsPrefix(s, s)
BY LenProperties DEF IsPrefix
-----------------------------------------------------------------------------
(* Rows that fit the tree keep the journal in order.                       *)

Tree(f) ==
    /\ DOMAIN f \subseteq RunIds
    /\ \A r \in DOMAIN f : f[r].parent \in DOMAIN f \cup {None} /\ f[r].root \in DOMAIN f

\* The rows are of an active run, or the start of a fresh one under it.
Fits(s, f, q, r, what, p, o) ==
    /\ r \in RunIds /\ o \in RunIds /\ p \in RunIds \cup {None}
    /\ q = Cardinality(OfRoot(s, o, Len(s)))
    /\ \/ /\ r \in DOMAIN f /\ p = f[r].parent /\ o = f[r].root
          /\ \/ what = "result"
             \/ what = "finished" /\ \A a \in DOMAIN f : f[a].parent # r
       \/ /\ what = "started" /\ r \notin DOMAIN f /\ \A j \in 1..Len(s) : s[j].run # r
          /\ \/ p \in DOMAIN f /\ o = f[p].root
             \/ p = None /\ o = r /\ DOMAIN f = {}

\* Each row of t is one of s or one of the new ones.
OldAndNew(s, t, k, q, r, what, p, o) ==
    /\ Len(s) \in Nat /\ Len(t) = Len(s) + k
    /\ \A i \in 1..Len(s) : i \in 1..Len(t) /\ t[i] = s[i]
    /\ \A i \in 1..Len(t) :
        \/ i \in 1..Len(s) /\ t[i] = s[i]
        \/ /\ i \in (Len(s) + 1)..(Len(s) + k) /\ t[i].seq = q + (i - Len(s))
           /\ t[i].run = r /\ t[i].what = what /\ t[i].parent = p /\ t[i].root = o

LEMMA LongerRows ==
    ASSUME NEW s \in Seq(Rows), NEW t, NEW k \in Nat,
           NEW q, NEW r, NEW what, NEW p, NEW o, Longer(s, t, k, q, r, what, p, o)
    PROVE  OldAndNew(s, t, k, q, r, what, p, o) /\ Grown(s, t, k, r, what, p, o)
<1>1. Len(s) \in Nat /\ Len(t) = Len(s) + k
  BY LenProperties DEF Longer
<1>2. \A i \in 1..Len(s) : i \in 1..Len(t) /\ t[i] = s[i]
  BY <1>1 DEF Longer
<1>3. ASSUME NEW i \in 1..Len(t), i > Len(s)
      PROVE  /\ i \in (Len(s) + 1)..(Len(s) + k) /\ t[i].seq = q + (i - Len(s))
             /\ t[i].run = r /\ t[i].what = what /\ t[i].parent = p /\ t[i].root = o
  <2>1. i - Len(s) \in 1..k /\ Len(s) + (i - Len(s)) = i /\ i \in (Len(s) + 1)..(Len(s) + k)
    BY <1>1, <1>3
  <2>2. t[i] = Row(q + (i - Len(s)), r, what, p, o)
    BY <2>1 DEF Longer
  <2> QED
    BY <2>1, <2>2 DEF Row
<1>4. OldAndNew(s, t, k, q, r, what, p, o)
  BY <1>1, <1>2, <1>3 DEF OldAndNew
<1>5. Grown(s, t, k, r, what, p, o)
  <2>1. t \in Seq(Rows)
    BY DEF Longer
  <2>2. \A i \in (Len(s) + 1)..(Len(s) + k) : i \in 1..Len(t) /\ i > Len(s)
    BY <1>1
  <2> QED
    BY <1>1, <1>2, <1>3, <2>1, <2>2 DEF Grown
<1> QED
  BY <1>4, <1>5

LEMMA GrownKept ==
    ASSUME NEW s \in Seq(Rows), NEW f, Tree(f), Nest(s), Rooted(s), Shown(s, f),
           NEW t, NEW k \in Nat, NEW q, NEW r, NEW what, NEW p, NEW o,
           what # "result" => k <= 1,
           Fits(s, f, q, r, what, p, o), Grown(s, t, k, r, what, p, o)
    PROVE  Nest(t) /\ Rooted(t)
<1> DEFINE L == Len(s)
           Old(i) == i \in 1..L /\ t[i] = s[i]
           New(i) == /\ i \in (L + 1)..(L + k)
                     /\ t[i].run = r /\ t[i].what = what /\ t[i].parent = p /\ t[i].root = o
<1>1. L \in Nat /\ Len(t) = L + k
  BY LenProperties DEF Grown
<1>2. \A i \in 1..Len(t) : Old(i) \/ New(i)
  BY <1>1 DEF Grown
<1>3. \A i \in 1..L : i \in 1..Len(t) /\ t[i] = s[i]
  BY <1>1 DEF Grown
<1>4. \/ /\ r \in DOMAIN f /\ p = f[r].parent /\ o = f[r].root /\ what # "started"
         /\ what = "finished" => k <= 1 /\ p # r
      \/ /\ what = "started" /\ k <= 1 /\ \A j \in 1..L : s[j].run # r
         /\ p \in DOMAIN f \/ (p = None /\ o = r)
  BY DEF Fits
<1>5. p # None => p \in DOMAIN f
  BY <1>4 DEF Tree
<1>6. o \in DOMAIN f \/ o = r
  BY DEF Fits, Tree
<1>7. \A a \in DOMAIN f : \E j \in 1..L : t[j].run = a /\ t[j].what = "started"
  BY <1>3 DEF Shown
<1>8. \A j \in 1..L : s[j].run \in DOMAIN f =>
        /\ s[j].what # "finished"
        /\ s[j].parent = f[s[j].run].parent /\ s[j].root = f[s[j].run].root
  BY DEF Shown
<1> HIDE DEF L
<1>9. Nest(t)
  <2>1. ASSUME NEW i \in 1..Len(t)
        PROVE  \E j \in 1..i : t[j].run = t[i].run /\ t[j].what = "started"
    <3>1. CASE Old(i)
      <4>1. PICK j \in 1..i : s[j].run = s[i].run /\ s[j].what = "started"
        BY <3>1 DEF Nest, L
      <4> QED
        BY <1>1, <1>3, <3>1, <4>1
    <3>2. CASE New(i) /\ what = "started"
      BY <1>1, <3>2
    <3>3. CASE New(i) /\ r \in DOMAIN f
      <4>1. PICK j \in 1..L : t[j].run = r /\ t[j].what = "started"
        BY <1>7, <3>3
      <4> QED
        BY <1>1, <3>3, <4>1
    <3> QED
      BY <1>2, <1>4, <3>1, <3>2, <3>3
  <2>2. ASSUME NEW i \in 1..Len(t), NEW j \in 1..Len(t), t[j].run = t[i].run
        PROVE  /\ t[i].what = "started" /\ t[j].what = "started" => i = j
               /\ t[j].what = "finished" => i <= j
               /\ t[j].parent = t[i].parent /\ t[j].root = t[i].root
    <3>1. CASE Old(i) /\ Old(j)
      BY <2>2, <3>1 DEF Nest, L
    <3>2. CASE New(i) /\ New(j)
      BY <1>1, <1>4, <3>2
    <3>3. CASE Old(i) /\ New(j)
      BY <1>1, <1>4, <1>8, <2>2, <3>3
    <3>4. CASE New(i) /\ Old(j)
      BY <1>1, <1>4, <1>8, <2>2, <3>4
    <3> QED
      BY <1>2, <3>1, <3>2, <3>3, <3>4
  <2>3. ASSUME NEW i \in 1..Len(t), t[i].parent # None
        PROVE  \E j \in 1..(i - 1) : t[j].run = t[i].parent /\ t[j].what = "started"
    <3>1. CASE Old(i)
      <4>1. PICK j \in 1..(i - 1) : s[j].run = s[i].parent /\ s[j].what = "started"
        BY <2>3, <3>1 DEF Nest, L
      <4> QED
        BY <1>1, <1>3, <3>1, <4>1
    <3>2. CASE New(i)
      <4>1. PICK j \in 1..L : t[j].run = p /\ t[j].what = "started"
        BY <1>5, <1>7, <2>3, <3>2
      <4> QED
        BY <1>1, <3>2, <4>1
    <3> QED
      BY <1>2, <3>1, <3>2
  <2>4. ASSUME NEW i \in 1..Len(t), t[i].parent # None,
               NEW j \in 1..Len(t), t[j].run = t[i].parent, t[j].what = "finished"
        PROVE  i < j
    <3>1. CASE Old(i) /\ Old(j)
      BY <2>4, <3>1 DEF Nest, L
    <3>2. CASE Old(i) /\ New(j)
      BY <1>1, <3>2
    <3>3. CASE New(i) /\ Old(j)
      BY <1>5, <1>8, <2>4, <3>3
    <3>4. CASE New(i) /\ New(j)
      BY <1>4, <2>4, <3>4
    <3> QED
      BY <1>2, <3>1, <3>2, <3>3, <3>4
  <2> QED
    BY <2>1, <2>2, <2>3, <2>4 DEF Nest
<1>10. Rooted(t)
  <2>1. ASSUME NEW i \in 1..Len(t) PROVE \E j \in 1..Len(t) : t[j].run = t[i].root
    <3>1. CASE Old(i)
      BY <1>3, <3>1 DEF Rooted, L
    <3>2. CASE New(i) /\ o = r
      BY <3>2
    <3>3. CASE New(i) /\ o \in DOMAIN f
      BY <1>3, <1>7, <3>3
    <3> QED
      BY <1>2, <1>6, <3>1, <3>2, <3>3
  <2> QED
    BY <2>1 DEF Rooted
<1> QED
  BY <1>9, <1>10

\* Numbered from the number of rows of their root, the new rows leave no gap.
LEMMA LongerGapless ==
    ASSUME NEW s \in Seq(Rows), Gapless(s, Len(s)),
           NEW t, NEW k \in Nat, NEW q, NEW r, NEW what, NEW p, NEW o,
           q = Cardinality(OfRoot(s, o, Len(s))), Longer(s, t, k, q, r, what, p, o)
    PROVE  Gapless(t, Len(t))
<1> DEFINE L == Len(s)
           Old(i) == i \in 1..L /\ t[i] = s[i]
           New(i) == i \in (L + 1)..(L + k) /\ t[i].seq = q + (i - L) /\ t[i].root = o
<1>1. L \in Nat /\ Len(t) = L + k
  BY LenProperties DEF Longer
<1>2. \A i \in 1..Len(t) : Old(i) \/ New(i)
  <2>1. OldAndNew(s, t, k, q, r, what, p, o)
    BY LongerRows
  <2> QED
    BY <2>1 DEF OldAndNew
<1> HIDE DEF L
<1>3. /\ \A x : \A n \in 0..L : OfRoot(t, x, n) = OfRoot(s, x, n)
      /\ \A i \in 0..k : Cardinality(OfRoot(t, o, L + i)) = q + i
  <2>1. /\ \A x : \A n \in 0..L : OfRoot(t, x, n) = OfRoot(s, x, n)
        /\ \A i \in 0..k : Cardinality(OfRoot(t, o, L + i)) =
                           Cardinality(OfRoot(s, o, L)) + i
    <3>1. CountsOn(s, t, k, o)
      BY CountedLonger
    <3> QED
      BY <3>1 DEF L, CountsOn
  <2>2. q = Cardinality(OfRoot(s, o, L))
    BY DEF L
  <2> QED
    BY <2>1, <2>2
<1>4. ASSUME NEW i \in 1..Len(t) PROVE t[i].seq = Cardinality(OfRoot(t, t[i].root, i))
  <2>1. CASE Old(i)
    <3>1. s[i].seq = Cardinality(OfRoot(s, s[i].root, i))
      BY <2>1 DEF Gapless, L
    <3>2. OfRoot(t, s[i].root, i) = OfRoot(s, s[i].root, i)
      BY <1>1, <1>3, <2>1
    <3>3. Cardinality(OfRoot(t, s[i].root, i)) = Cardinality(OfRoot(s, s[i].root, i))
      BY <3>2, Zenon
    <3> QED
      BY <2>1, <3>1, <3>3
  <2>2. CASE New(i)
    <3>1. i - L \in 0..k /\ L + (i - L) = i
      BY <1>1, <2>2
    <3> QED
      BY <1>3, <2>2, <3>1
  <2> QED
    BY <1>2, <2>1, <2>2
<1> QED
  BY <1>4 DEF Gapless
-----------------------------------------------------------------------------
(* The tree of active runs stays the one the journal shows.                *)

LEMMA TreeCounted ==
    ASSUME NEW s \in Seq(Rows), NEW t, NEW k \in Nat, NEW q, NEW r, NEW what, NEW p, NEW o,
           q = Cardinality(OfRoot(s, o, Len(s))), Longer(s, t, k, q, r, what, p, o),
           NEW g, \A a \in DOMAIN g : g[a].root = o
    PROVE  Counts(t, g, q + k)
<1>1. Cardinality(OfRoot(t, o, Len(s) + k)) = q + k
  <2>1. CountsOn(s, t, k, o)
    BY CountedLonger
  <2> QED
    BY <2>1 DEF CountsOn
<1>2. Len(t) = Len(s) + k
  BY DEF Longer
<1>3. Cardinality(OfRoot(t, o, Len(t))) = q + k
  BY <1>1, <1>2
<1>4. ASSUME NEW a \in DOMAIN g
      PROVE  q + k = Cardinality(OfRoot(t, g[a].root, Len(t)))
  BY <1>3, <1>4
<1> QED
  BY <1>4 DEF Counts

LEMMA ResultShown ==
    ASSUME NEW s \in Seq(Rows), NEW f, Shown(s, f), OneTree(f),
           NEW t, NEW k \in Nat, NEW q, NEW r, NEW p, NEW o,
           Fits(s, f, q, r, "result", p, o), Longer(s, t, k, q, r, "result", p, o)
    PROVE  Shown(t, f) /\ Counts(t, f, q + k)
<1>r. OldAndNew(s, t, k, q, r, "result", p, o)
  BY LongerRows
<1>1. r \in DOMAIN f /\ p = f[r].parent /\ o = f[r].root
  BY DEF Fits
<1>2. \A a \in DOMAIN f : f[a].root = o
  BY <1>1 DEF OneTree
<1>3. Counts(t, f, q + k)
  BY <1>2, TreeCounted DEF Fits
<1>4. Shown(t, f)
  <2>1. \A a \in DOMAIN f : \E j \in 1..Len(t) : t[j].run = a /\ t[j].what = "started"
    BY <1>r DEF Shown, OldAndNew
  <2>2. \A j \in 1..Len(t) : t[j].run \in DOMAIN f =>
          /\ t[j].what # "finished"
          /\ t[j].parent = f[t[j].run].parent /\ t[j].root = f[t[j].run].root
    <3>1. ASSUME NEW j \in 1..Len(s), s[j].run \in DOMAIN f
          PROVE  /\ s[j].what # "finished"
                 /\ s[j].parent = f[s[j].run].parent /\ s[j].root = f[s[j].run].root
      BY <3>1 DEF Shown
    <3> QED
      BY <1>1, <1>r, <3>1 DEF OldAndNew
  <2>3. \A j \in 1..Len(t) : t[j].run \notin DOMAIN f =>
          \E i \in 1..Len(t) : t[i].run = t[j].run /\ t[i].what = "finished"
    <3>1. ASSUME NEW j \in 1..Len(s), s[j].run \notin DOMAIN f
          PROVE  \E i \in 1..Len(s) : s[i].run = s[j].run /\ s[i].what = "finished"
      BY <3>1 DEF Shown
    <3>2. \A j \in 1..Len(t) : t[j].run \notin DOMAIN f => j \in 1..Len(s) /\ t[j] = s[j]
      BY <1>1, <1>r DEF OldAndNew
    <3>3. \A i \in 1..Len(s) : i \in 1..Len(t) /\ t[i] = s[i]
      BY <1>r DEF OldAndNew
    <3>4. ASSUME NEW j \in 1..Len(t), t[j].run \notin DOMAIN f
          PROVE  \E i \in 1..Len(t) : t[i].run = t[j].run /\ t[i].what = "finished"
      <4>1. j \in 1..Len(s) /\ t[j] = s[j]
        BY <3>2, <3>4
      <4>2. PICK i \in 1..Len(s) : s[i].run = s[j].run /\ s[i].what = "finished"
        BY <3>1, <3>4, <4>1
      <4> QED
        BY <3>3, <4>1, <4>2
    <3> QED
      BY <3>4
  <2> QED
    BY <2>1, <2>2, <2>3 DEF Shown
<1> QED
  BY <1>3, <1>4

LEMMA StartShown ==
    ASSUME NEW s \in Seq(Rows), NEW f, Tree(f), Shown(s, f), OneTree(f),
           NEW t, NEW q, NEW r, NEW p, NEW o,
           Fits(s, f, q, r, "started", p, o), Longer(s, t, 1, q, r, "started", p, o),
           NEW g, DOMAIN g = DOMAIN f \cup {r}, g[r].parent = p, g[r].root = o,
           \A a \in DOMAIN f : a # r => g[a] = f[a]
    PROVE  Tree(g) /\ Shown(t, g) /\ OneTree(g) /\ Counts(t, g, q + 1)
<1>r. OldAndNew(s, t, 1, q, r, "started", p, o)
  BY LongerRows
<1>1. /\ r \notin DOMAIN f /\ r \in RunIds /\ \A j \in 1..Len(s) : s[j].run # r
      /\ \/ p \in DOMAIN f /\ o = f[p].root
         \/ p = None /\ o = r /\ DOMAIN f = {}
  BY DEF Fits
<1>2. g[r].parent = p /\ g[r].root = o /\ \A a \in DOMAIN f : g[a] = f[a]
  BY <1>1
<1>3. Tree(g)
  BY <1>1, <1>2 DEF Tree
<1>4. \A a \in DOMAIN g : g[a].root = o
  BY <1>1, <1>2 DEF OneTree
<1>5. OneTree(g)
  <2>1. p \in DOMAIN f => p # None
    BY OutputAssumption DEF Tree
  <2> QED
    BY <1>1, <1>2, <1>4, <2>1 DEF OneTree
<1>6. Counts(t, g, q + 1)
  BY <1>4, TreeCounted DEF Fits
<1>7. Shown(t, g)
  <2>1. \A a \in DOMAIN g : \E j \in 1..Len(t) : t[j].run = a /\ t[j].what = "started"
    <3>1. /\ Len(s) + 1 \in 1..Len(t)
          /\ t[Len(s) + 1].run = r /\ t[Len(s) + 1].what = "started"
      BY <1>r DEF OldAndNew
    <3>2. \A a \in DOMAIN f : \E j \in 1..Len(s) : s[j].run = a /\ s[j].what = "started"
      BY DEF Shown
    <3>3. \A i \in 1..Len(s) : i \in 1..Len(t) /\ t[i] = s[i]
      BY <1>r DEF OldAndNew
    <3> QED
      BY <3>1, <3>2, <3>3
  <2>2. \A j \in 1..Len(t) : t[j].run \in DOMAIN g =>
          /\ t[j].what # "finished"
          /\ t[j].parent = g[t[j].run].parent /\ t[j].root = g[t[j].run].root
    BY <1>1, <1>2, <1>r DEF Shown, OldAndNew
  <2>3. \A j \in 1..Len(t) : t[j].run \notin DOMAIN g =>
          \E i \in 1..Len(t) : t[i].run = t[j].run /\ t[i].what = "finished"
    <3>1. ASSUME NEW j \in 1..Len(t), t[j].run \notin DOMAIN g
          PROVE  \E i \in 1..Len(t) : t[i].run = t[j].run /\ t[i].what = "finished"
      <4>1. j \in 1..Len(s) /\ t[j] = s[j] /\ s[j].run \notin DOMAIN f
        BY <1>r, <3>1 DEF OldAndNew
      <4>2. PICK i \in 1..Len(s) : s[i].run = s[j].run /\ s[i].what = "finished"
        BY <4>1 DEF Shown
      <4> QED
        BY <1>r, <4>1, <4>2 DEF OldAndNew
    <3> QED
      BY <3>1
  <2> QED
    BY <2>1, <2>2, <2>3 DEF Shown
<1> QED
  BY <1>3, <1>5, <1>6, <1>7

\* The root of the tree is its last leaf: of the other active runs the one that
\* started first would have no parent.
LEMMA RootLast ==
    ASSUME NEW s \in Seq(Rows), NEW f, Tree(f), Nest(s), Shown(s, f), OneTree(f),
           NEW r \in DOMAIN f, \A a \in DOMAIN f : f[a].parent # r
    PROVE  \A a \in DOMAIN f : a # r => f[a].root # r
<1> SUFFICES ASSUME NEW a \in DOMAIN f, a # r, f[a].root = r
             PROVE  FALSE
  OBVIOUS
<1> DEFINE X == {j \in 1..Len(s) : s[j].what = "started" /\ s[j].run \in DOMAIN f \ {r}}
<1>1. X \in SUBSET Nat /\ Len(s) \in Nat
  BY LenProperties
<1>2. X # {}
  BY DEF Shown
<1>3. PICK m \in X : \A k \in X : m <= k
  <2> HIDE DEF X
  <2> QED
    BY <1>1, <1>2, Smallest
<1>4. /\ m \in 1..Len(s) /\ s[m].run \in DOMAIN f /\ s[m].run # r
      /\ s[m].parent = f[s[m].run].parent
  BY <1>3 DEF Shown
<1>5. f[s[m].run].root = r
  BY <1>4 DEF OneTree
<1>6. s[m].parent # None
  BY <1>4, <1>5 DEF OneTree
<1>7. s[m].parent \in DOMAIN f \ {r}
  BY <1>4, <1>6 DEF Tree
<1>8. PICK j \in 1..(m - 1) : s[j].run = s[m].parent /\ s[j].what = "started"
  BY <1>4, <1>6 DEF Nest
<1>9. j \in X /\ j < m
  BY <1>1, <1>4, <1>7, <1>8
<1> QED
  BY <1>1, <1>3, <1>9

LEMMA FinishShown ==
    ASSUME NEW s \in Seq(Rows), NEW f, Tree(f), Nest(s), Shown(s, f), OneTree(f),
           NEW t, NEW q, NEW r, NEW p, NEW o,
           Fits(s, f, q, r, "finished", p, o), Longer(s, t, 1, q, r, "finished", p, o),
           NEW g, DOMAIN g = DOMAIN f \ {r}, \A a \in DOMAIN g : g[a] = f[a]
    PROVE  Tree(g) /\ Shown(t, g) /\ OneTree(g) /\ Counts(t, g, q + 1)
<1>r. OldAndNew(s, t, 1, q, r, "finished", p, o)
  BY LongerRows
<1>1. /\ r \in DOMAIN f /\ p = f[r].parent /\ o = f[r].root
      /\ \A a \in DOMAIN f : f[a].parent # r
  BY DEF Fits
<1>2. \A a \in DOMAIN f : a # r => f[a].root # r
  BY <1>1, RootLast
<1>3. Tree(g)
  BY <1>1, <1>2 DEF Tree
<1>4. OneTree(g) /\ \A a \in DOMAIN g : g[a].root = o
  BY <1>1 DEF OneTree
<1>5. Counts(t, g, q + 1)
  BY <1>4, TreeCounted DEF Fits
<1>6. Shown(t, g)
  <2>1. ASSUME NEW a \in DOMAIN g
        PROVE  \E j \in 1..Len(t) : t[j].run = a /\ t[j].what = "started"
    <3>1. PICK j \in 1..Len(s) : s[j].run = a /\ s[j].what = "started"
      BY DEF Shown
    <3> QED
      BY <1>r, <3>1 DEF OldAndNew
  <2>2. \A j \in 1..Len(t) : t[j].run \in DOMAIN g =>
          /\ t[j].what # "finished"
          /\ t[j].parent = g[t[j].run].parent /\ t[j].root = g[t[j].run].root
    BY <1>r DEF Shown, OldAndNew
  <2>3. \A j \in 1..Len(t) : t[j].run \notin DOMAIN g =>
          \E i \in 1..Len(t) : t[i].run = t[j].run /\ t[i].what = "finished"
    <3>1. /\ Len(s) + 1 \in 1..Len(t)
          /\ t[Len(s) + 1].run = r /\ t[Len(s) + 1].what = "finished"
      BY <1>r DEF OldAndNew
    <3>2. ASSUME NEW j \in 1..Len(s), s[j].run \notin DOMAIN f
          PROVE  \E i \in 1..Len(s) : s[i].run = s[j].run /\ s[i].what = "finished"
      BY <3>2 DEF Shown
    <3>3. \A i \in 1..Len(s) : i \in 1..Len(t) /\ t[i] = s[i]
      BY <1>r DEF OldAndNew
    <3>4. \A j \in 1..Len(t) : t[j].run # r => j \in 1..Len(s) /\ t[j] = s[j]
      BY <1>r DEF OldAndNew
    <3>5. ASSUME NEW j \in 1..Len(t), t[j].run \notin DOMAIN g
          PROVE  \E i \in 1..Len(t) : t[i].run = t[j].run /\ t[i].what = "finished"
      <4>1. CASE t[j].run = r
        BY <3>1, <4>1
      <4>2. CASE t[j].run # r
        <5>1. j \in 1..Len(s) /\ t[j] = s[j] /\ s[j].run \notin DOMAIN f
          BY <3>4, <3>5, <4>2
        <5>2. PICK i \in 1..Len(s) : s[i].run = s[j].run /\ s[i].what = "finished"
          BY <3>2, <5>1
        <5> QED
          BY <3>3, <5>1, <5>2
      <4> QED
        BY <4>1, <4>2
    <3> QED
      BY <3>5
  <2> QED
    BY <2>1, <2>2, <2>3 DEF Shown
<1> QED
  BY <1>3, <1>4, <1>5, <1>6
-----------------------------------------------------------------------------
(* publish_batch: what is written and what is not.                         *)

\* The n events are of the run r, and get these relations.
Batch(events, n, r, what, p, o) ==
    /\ n \in Nat \ {0} /\ Len(events) = n /\ DOMAIN events = 1..n
    /\ r \in RunIds /\ p \in RunIds \cup {None} /\ o \in RunIds
    /\ what \in {"started", "result", "finished"} /\ (what # "result" => n = 1)
    /\ \A i \in 1..n : events[i].run = r /\ events[i].what = what
    /\ r \in Active => p = runs[r].parent /\ o = runs[r].root
    /\ r \notin Active => \A i \in 1..n : events[i].parent = p /\ events[i].root = o

LEMMA BatchRows ==
    ASSUME NEW q \in Nat, NEW events, NEW n, NEW r, NEW what, NEW p, NEW o,
           Batch(events, n, r, what, p, o), q + n <= MaxSequence
    PROVE  /\ Numbered(q, events) \in Seq(Rows) /\ Len(Numbered(q, events)) = n
           /\ \A i \in 1..n : Numbered(q, events)[i] = Row(q + i, r, what, p, o)
<1>1. n \in Nat \ {0} /\ DOMAIN events = 1..n /\ MaxSequence \in Nat
  BY OutputAssumption DEF Batch
<1>2. \A i \in 1..n : Numbered(q, events)[i] = Row(q + i, r, what, p, o)
  BY <1>1 DEF Numbered, Batch
<1>3. \A i \in 1..n : Row(q + i, r, what, p, o) \in Rows
  BY <1>1 DEF Row, Rows, Batch
<1>4. Numbered(q, events) \in [1..n -> Rows]
  <2>1. Numbered(q, events) = [i \in 1..n |-> Numbered(q, events)[i]]
    BY <1>1 DEF Numbered
  <2> QED
    BY <1>2, <1>3, <2>1
<1>5. Numbered(q, events) \in Seq(Rows)
  BY <1>1, <1>4, SeqDef
<1>6. Len(Numbered(q, events)) = n
  BY <1>1, <1>4, <1>5, LenProperties
<1> QED
  BY <1>2, <1>5, <1>6

LEMMA JournalGrows ==
    ASSUME journal \in Seq(Rows),
           NEW q \in Nat, NEW events, NEW n, NEW r, NEW what, NEW p, NEW o,
           Batch(events, n, r, what, p, o), q + n <= MaxSequence
    PROVE  /\ Longer(journal, journal \o Numbered(q, events), n, q, r, what, p, o)
           /\ \A k \in 0..n : Longer(journal, journal \o SubSeq(Numbered(q, events), 1, k),
                                     k, q, r, what, p, o)
<1> DEFINE b == Numbered(q, events)
<1>1. b \in Seq(Rows) /\ Len(b) = n /\ \A i \in 1..n : b[i] = Row(q + i, r, what, p, o)
  BY BatchRows
<1>2. n \in Nat /\ Len(journal) \in Nat
  BY LenProperties DEF Batch
<1> HIDE DEF b
<1>3. ASSUME NEW c \in Seq(Rows), NEW k \in 0..n, Len(c) = k, \A i \in 1..k : c[i] = b[i]
      PROVE  Longer(journal, journal \o c, k, q, r, what, p, o)
  <2>1. /\ journal \o c \in Seq(Rows) /\ Len(journal \o c) = Len(journal) + k
        /\ \A i \in 1..Len(journal) + k : (journal \o c)[i] =
               IF i <= Len(journal) THEN journal[i] ELSE c[i - Len(journal)]
    BY <1>3, ConcatProperties
  <2>2. \A i \in 1..Len(journal) : (journal \o c)[i] = journal[i]
    BY <1>2, <2>1
  <2>3. \A i \in 1..k : (journal \o c)[Len(journal) + i] = c[i]
    BY <1>2, <2>1
  <2> QED
    BY <1>1, <1>3, <2>1, <2>2, <2>3 DEF Longer
<1>4. ASSUME NEW k \in 0..n
      PROVE  Longer(journal, journal \o SubSeq(b, 1, k), k, q, r, what, p, o)
  <2>1. \A i \in 1..k : b[i] \in Rows
    BY <1>1, <1>2, ElementOfSeq
  <2>2. /\ SubSeq(b, 1, k) \in Seq(Rows)
        /\ Len(SubSeq(b, 1, k)) = IF 1 <= k THEN k - 1 + 1 ELSE 0
        /\ \A i \in 1..(k - 1 + 1) : SubSeq(b, 1, k)[i] = b[1 + i - 1]
    BY <1>2, <2>1, SubSeqProperties
  <2>3. Len(SubSeq(b, 1, k)) = k /\ \A i \in 1..k : SubSeq(b, 1, k)[i] = b[i]
    BY <1>2, <2>2
  <2> QED
    BY <1>3, <2>2, <2>3
<1>5. Longer(journal, journal \o b, n, q, r, what, p, o)
  BY <1>1, <1>2, <1>3
<1> QED
  BY <1>4, <1>5 DEF b

\* Rows of the batch in any order.
RowsOf(c, q, r, what, p, o) ==
    /\ c \in Seq(Rows)
    /\ \A i \in 1..Len(c) : /\ c[i].seq > q /\ c[i].run = r /\ c[i].what = what
                            /\ c[i].parent = p /\ c[i].root = o

LEMMA PartOfBatch ==
    ASSUME NEW q \in Nat, NEW events, NEW n, NEW r, NEW what, NEW p, NEW o,
           Batch(events, n, r, what, p, o), q + n <= MaxSequence,
           NEW j \in Nat \ {0}, NEW m \in 0..n
    PROVE  /\ RowsOf(SubSeq(Numbered(q, events), j, m), q, r, what, p, o)
           /\ Len(SubSeq(Numbered(q, events), j, m)) = IF j <= m THEN m - j + 1 ELSE 0
<1> DEFINE b == Numbered(q, events)
<1>1. b \in Seq(Rows) /\ Len(b) = n /\ \A i \in 1..n : b[i] = Row(q + i, r, what, p, o)
  BY BatchRows
<1>2. n \in Nat
  BY DEF Batch
<1> HIDE DEF b
<1>3. \A i \in j..m : i \in 1..n /\ b[i] \in Rows
  BY <1>1, <1>2, ElementOfSeq
<1>4. /\ SubSeq(b, j, m) \in Seq(Rows)
      /\ Len(SubSeq(b, j, m)) = IF j <= m THEN m - j + 1 ELSE 0
      /\ \A i \in 1..(m - j + 1) : SubSeq(b, j, m)[i] = b[j + i - 1]
  BY <1>3, SubSeqProperties
<1>5. ASSUME NEW i \in 1..Len(SubSeq(b, j, m))
      PROVE  /\ SubSeq(b, j, m)[i].seq > q
             /\ SubSeq(b, j, m)[i].run = r /\ SubSeq(b, j, m)[i].what = what
             /\ SubSeq(b, j, m)[i].parent = p /\ SubSeq(b, j, m)[i].root = o
  <2>1. i \in 1..(m - j + 1) /\ j + i - 1 \in 1..n
    BY <1>2, <1>4
  <2>2. SubSeq(b, j, m)[i] = Row(q + (j + i - 1), r, what, p, o)
    BY <1>1, <1>4, <2>1
  <2> QED
    BY <2>1, <2>2 DEF Row
<1> QED
  BY <1>4, <1>5 DEF RowsOf, b

LEMMA RowsJoined ==
    ASSUME NEW q, NEW r, NEW what, NEW p, NEW o,
           NEW c, RowsOf(c, q, r, what, p, o), NEW d, RowsOf(d, q, r, what, p, o)
    PROVE  RowsOf(c \o d, q, r, what, p, o) /\ Len(c \o d) = Len(c) + Len(d)
<1>1. c \in Seq(Rows) /\ d \in Seq(Rows) /\ Len(c) \in Nat /\ Len(d) \in Nat
  BY LenProperties DEF RowsOf
<1>2. /\ c \o d \in Seq(Rows) /\ Len(c \o d) = Len(c) + Len(d)
      /\ \A i \in 1..Len(c) + Len(d) :
            (c \o d)[i] = IF i <= Len(c) THEN c[i] ELSE d[i - Len(c)]
  BY <1>1, ConcatProperties
<1>3. \A i \in 1..Len(c \o d) : i \in 1..Len(c) \/ i - Len(c) \in 1..Len(d)
  BY <1>1, <1>2
<1>4. \A i \in 1..Len(c \o d) : \/ \E x \in 1..Len(c) : (c \o d)[i] = c[x]
                               \/ \E x \in 1..Len(d) : (c \o d)[i] = d[x]
  BY <1>1, <1>2, <1>3
<1> QED
  BY <1>2, <1>4 DEF RowsOf

LEMMA RowsGrow ==
    ASSUME journal \in Seq(Rows), NEW q, NEW r, NEW what, NEW p, NEW o,
           NEW c, RowsOf(c, q, r, what, p, o)
    PROVE  /\ Len(c) \in Nat /\ Grown(journal, journal \o c, Len(c), r, what, p, o)
           /\ \A i \in (Len(journal) + 1)..Len(journal \o c) : (journal \o c)[i].seq > q
<1>1. c \in Seq(Rows) /\ Len(c) \in Nat /\ Len(journal) \in Nat
  BY LenProperties DEF RowsOf
<1>2. /\ journal \o c \in Seq(Rows) /\ Len(journal \o c) = Len(journal) + Len(c)
      /\ \A i \in 1..Len(journal) + Len(c) : (journal \o c)[i] =
            IF i <= Len(journal) THEN journal[i] ELSE c[i - Len(journal)]
  BY <1>1, ConcatProperties
<1>3. \A i \in 1..Len(journal) : (journal \o c)[i] = journal[i]
  BY <1>1, <1>2
<1>4. \A i \in (Len(journal) + 1)..(Len(journal) + Len(c)) :
        i - Len(journal) \in 1..Len(c) /\ (journal \o c)[i] = c[i - Len(journal)]
  BY <1>1, <1>2
<1> QED
  BY <1>1, <1>2, <1>3, <1>4 DEF RowsOf, Grown

\* The rows are in the journal and offered to the console.
Wrote(q, n, r, what, p, o) ==
    /\ ~failed /\ failed' = failed /\ q + n <= MaxSequence /\ sequence' = q + n
    /\ Longer(journal, journal', n, q, r, what, p, o)
    /\ console = journal => console' = journal'

\* Some rows reached the journal, in a single file perhaps twice, and it failed.
Leftover(q, r, what, p, o) ==
    \E k \in Nat :
        /\ Grown(journal, journal', k, r, what, p, o) /\ (what # "result" => k <= 1)
        /\ \A i \in (Len(journal) + 1)..Len(journal') : journal'[i].seq > q
        /\ rotating => Longer(journal, journal', k, q, r, what, p, o)

\* That, or nothing was written.
DidNotWrite(q, n, r, what, p, o) ==
    /\ console' = console
    /\ \/ /\ ~failed /\ failed' = TRUE /\ q + n <= MaxSequence /\ sequence' = q + n
          /\ Leftover(q, r, what, p, o)
       \/ /\ failed' = failed /\ journal' = journal
          /\ (failed /\ sequence' = q) \/ sequence' = MaxSequence

LEMMA LeftBehind ==
    ASSUME journal \in Seq(Rows),
           NEW q \in Nat, NEW events, NEW n, NEW r, NEW what, NEW p, NEW o,
           Batch(events, n, r, what, p, o), q + n <= MaxSequence,
           LeavesBehind(Numbered(q, events))
    PROVE  Leftover(q, r, what, p, o)
<1> DEFINE b == Numbered(q, events)
<1>1. Len(b) = n /\ b \in Seq(Rows) /\ n \in Nat /\ (what # "result" => n = 1)
  <2>1. Len(b) = n /\ b \in Seq(Rows)
    BY BatchRows
  <2> QED
    BY <2>1 DEF Batch
<1>2. PICK k \in 0..n :
        \/ journal' = journal \o SubSeq(b, 1, k)
        \/ /\ ~rotating /\ k < n
           /\ \E j \in 1..(k + 2), m \in 0..n :
                journal' = journal \o SubSeq(b, 1, k) \o SubSeq(b, j, m)
  BY <1>1 DEF LeavesBehind
<1>3. RowsOf(SubSeq(b, 1, k), q, r, what, p, o) /\ Len(SubSeq(b, 1, k)) = k
  BY <1>1, PartOfBatch
<1>4. CASE journal' = journal \o SubSeq(b, 1, k)
  <2>1. Longer(journal, journal', k, q, r, what, p, o)
    BY <1>4, JournalGrows
  <2>2. /\ Grown(journal, journal', k, r, what, p, o)
        /\ \A i \in (Len(journal) + 1)..Len(journal') : journal'[i].seq > q
    BY <1>3, <1>4, RowsGrow
  <2>3. k \in Nat /\ (what # "result" => k <= 1)
    BY <1>1
  <2> QED
    BY <2>1, <2>2, <2>3 DEF Leftover
<1>5. ASSUME ~rotating, k < n, NEW j \in 1..(k + 2), NEW m \in 0..n,
             journal' = journal \o SubSeq(b, 1, k) \o SubSeq(b, j, m)
      PROVE  Leftover(q, r, what, p, o)
  <2> DEFINE c == SubSeq(b, 1, k)
             d == SubSeq(b, j, m)
  <2>1. /\ RowsOf(d, q, r, what, p, o)
        /\ Len(d) = IF j <= m THEN m - j + 1 ELSE 0
    BY <1>1, <1>5, PartOfBatch
  <2>2. RowsOf(c, q, r, what, p, o) /\ Len(c) = k
    BY <1>3
  <2>3. journal' = journal \o (c \o d)
    <3>1. c \in Seq(Rows) /\ d \in Seq(Rows)
      BY <2>1, <2>2 DEF RowsOf
    <3>2. journal' = (journal \o c) \o d
      BY <1>5
    <3> HIDE DEF c, d
    <3> QED
      BY <3>1, <3>2, ConcatAssociative
  <2> HIDE DEF c, d
  <2>4. RowsOf(c \o d, q, r, what, p, o) /\ Len(c \o d) = Len(c) + Len(d)
    BY <2>1, <2>2, RowsJoined
  <2>5. /\ Len(c \o d) \in Nat /\ Grown(journal, journal', Len(c \o d), r, what, p, o)
        /\ \A i \in (Len(journal) + 1)..Len(journal') : journal'[i].seq > q
    BY <2>3, <2>4, RowsGrow
  <2>6. what # "result" => Len(c \o d) <= 1
    BY <1>1, <1>5, <2>1, <2>2, <2>4
  <2> QED
    BY <1>5, <2>5, <2>6 DEF Leftover
<1> QED
  BY <1>2, <1>4, <1>5

LEMMA Publishing ==
    ASSUME journal \in Seq(Rows), failed \in BOOLEAN,
           NEW q \in Nat, NEW events, NEW n, NEW r, NEW what, NEW p, NEW o,
           Batch(events, n, r, what, p, o)
    PROVE  /\ Published(q, events) => Wrote(q, n, r, what, p, o)
           /\ PublishFails(q, events) => DidNotWrite(q, n, r, what, p, o)
<1>0. Len(events) = n /\ n \in Nat
  BY DEF Batch
<1>1. ASSUME Published(q, events) PROVE Wrote(q, n, r, what, p, o)
  <2>1. q + n <= MaxSequence
    BY <1>0, <1>1 DEF Published
  <2>2. Longer(journal, journal \o Numbered(q, events), n, q, r, what, p, o)
    BY <2>1, JournalGrows
  <2>3. journal' = journal \o Numbered(q, events) /\ console' = console \o Numbered(q, events)
        /\ ~failed /\ failed' = failed /\ sequence' = q + n
    BY <1>0, <1>1 DEF Published
  <2> QED
    BY <2>1, <2>2, <2>3 DEF Wrote
<1>2. ASSUME AppendFails(q, events) PROVE DidNotWrite(q, n, r, what, p, o)
  <2>1. q + n <= MaxSequence /\ ~failed /\ failed' = TRUE /\ sequence' = q + n /\ console' = console
    BY <1>0, <1>2 DEF AppendFails
  <2>2. Leftover(q, r, what, p, o)
    BY <1>0, <1>2, <2>1, LeftBehind DEF AppendFails
  <2> QED
    BY <2>1, <2>2 DEF DidNotWrite
<1>3. ASSUME Exhausted(q, events) \/ FailedBefore(q) PROVE DidNotWrite(q, n, r, what, p, o)
  BY <1>3 DEF Exhausted, FailedBefore, DidNotWrite
<1> QED
  BY <1>1, <1>2, <1>3 DEF PublishFails

-----------------------------------------------------------------------------
(* The invariant.                                                          *)

LEMMA InvTree == Inv => Tree(runs) /\ journal \in Seq(Rows) /\ failed \in BOOLEAN
                        /\ sequence \in Nat /\ sequence <= MaxSequence
BY OutputAssumption DEF Inv, TypeOK, Tree, Active

\* After a complete write the tree decides whether the invariant holds.
LEMMA WroteInv ==
    ASSUME Inv, NEW q \in Nat, NEW n \in Nat \ {0}, NEW r, NEW what, NEW p, NEW o,
           what # "result" => n = 1,
           Fits(journal, runs, q, r, what, p, o), Wrote(q, n, r, what, p, o),
           closing' \in RunIds \cup {None}, rotating' = rotating, Tree(runs'),
           Shown(journal', runs'), OneTree(runs'), Counts(journal', runs', q + n)
    PROVE  Inv'
<1>1. /\ ~failed /\ failed' = failed /\ failed \in BOOLEAN /\ sequence' = q + n /\ q + n <= MaxSequence
      /\ Longer(journal, journal', n, q, r, what, p, o)
      /\ console' = journal' /\ journal' \in Seq(Rows)
  BY InvTree DEF Wrote, Inv, Longer
<1>2. Tree(runs) /\ Nest(journal) /\ Rooted(journal) /\ Gapless(journal, Len(journal))
      /\ Shown(journal, runs) /\ journal \in Seq(Rows) /\ rotating \in BOOLEAN
  BY <1>1, InvTree DEF Inv, Numbers, TypeOK
<1>3. Nest(journal') /\ Rooted(journal') /\ Numbers(journal', console', rotating')
  <2>1. Grown(journal, journal', n, r, what, p, o)
    BY <1>1, <1>2, LongerRows
  <2>2. Nest(journal') /\ Rooted(journal')
    BY <1>2, <2>1, GrownKept
  <2>3. q = Cardinality(OfRoot(journal, o, Len(journal)))
    BY DEF Fits
  <2>4. Gapless(journal', Len(journal'))
    BY <1>1, <1>2, <2>3, LongerGapless
  <2>5. Beyond(journal', console')
    BY <1>1, LenProperties DEF Beyond
  <2> QED
    BY <1>1, <2>2, <2>4, <2>5 DEF Numbers
<1>4. TypeOK'
  <2>1. sequence' \in 0..MaxSequence
    BY <1>1, OutputAssumption
  <2>2. /\ Active' \subseteq RunIds
        /\ \A a \in Active' :
             runs'[a].parent \in Active' \cup {None} /\ runs'[a].root \in Active'
    BY DEF Tree, Active
  <2>3. /\ rotating' \in BOOLEAN /\ failed' \in BOOLEAN
        /\ journal' \in Seq(Rows) /\ console' \in Seq(Rows)
    BY <1>1, <1>2
  <2> QED
    BY <2>1, <2>2, <2>3 DEF TypeOK
<1>5. IsPrefix(console, journal)'
  BY <1>1, PrefixItself
<1>6. Counts(journal', runs', sequence')
  BY <1>1
<1> QED
  BY <1>1, <1>3, <1>4, <1>5, <1>6 DEF Inv

\* The rows a failed batch leaves have greater numbers than those acknowledged.
LEMMA LeftoverNumbers ==
    ASSUME journal \in Seq(Rows), console = journal, console' = console, rotating' = rotating,
           Gapless(journal, Len(journal)),
           NEW q, NEW k \in Nat, NEW r, NEW what, NEW p, NEW o,
           q = Cardinality(OfRoot(journal, o, Len(journal))),
           Grown(journal, journal', k, r, what, p, o),
           \A i \in (Len(journal) + 1)..Len(journal') : journal'[i].seq > q,
           rotating => Longer(journal, journal', k, q, r, what, p, o)
    PROVE  Numbers(journal', console', rotating')
<1>1. /\ Len(journal) \in Nat /\ Len(journal') = Len(journal) + k
      /\ \A i \in 1..Len(journal) : journal'[i] = journal[i]
      /\ \A i \in (Len(journal) + 1)..Len(journal') : journal'[i].root = o
  BY LenProperties DEF Grown
<1>2. Beyond(journal', console')
  <2>1. ASSUME NEW i \in (Len(journal) + 1)..Len(journal')
        PROVE  journal'[i].seq > Cardinality(OfRoot(journal, journal'[i].root, Len(journal)))
    <3>1. journal'[i].root = o /\ journal'[i].seq > q
      BY <1>1, <2>1
    <3>2. q = Cardinality(OfRoot(journal, journal'[i].root, Len(journal)))
      BY <3>1, Zenon
    <3> QED
      BY <3>1, <3>2
  <2>2. console' = journal
    OBVIOUS
  <2> QED
    BY <2>1, <2>2 DEF Beyond
<1>3. rotating => Gapless(journal', Len(journal'))
  BY LongerGapless
<1>4. Gapless(journal', Len(journal))
  <2>1. ASSUME NEW i \in 1..Len(journal)
        PROVE  journal'[i].seq = Cardinality(OfRoot(journal', journal'[i].root, i))
    <3>1. OfRoot(journal', journal[i].root, i) = OfRoot(journal, journal[i].root, i)
      BY <1>1 DEF OfRoot
    <3>2. journal[i].seq = Cardinality(OfRoot(journal, journal[i].root, i))
      BY DEF Gapless
    <3> QED
      BY <1>1, <3>1, <3>2
  <2> QED
    BY <2>1 DEF Gapless
<1> QED
  BY <1>2, <1>3, <1>4 DEF Numbers

LEMMA DidNotWriteInv ==
    ASSUME Inv, NEW q \in Nat, NEW n \in Nat \ {0}, NEW r, NEW what, NEW p, NEW o,
           what # "result" => n = 1, q <= MaxSequence,
           ~failed /\ q + n <= MaxSequence => Fits(journal, runs, q, r, what, p, o),
           DidNotWrite(q, n, r, what, p, o),
           closing' \in RunIds \cup {None}, rotating' = rotating, runs' = runs
    PROVE  Inv'
<1>1. TypeOK /\ Tree(runs) /\ Nest(journal) /\ Rooted(journal)
      /\ Numbers(journal, console, rotating)
      /\ IsPrefix(console, journal) /\ journal \in Seq(Rows) /\ console \in Seq(Rows)
      /\ MaxSequence \in Nat /\ console' = console
  BY InvTree, OutputAssumption DEF Inv, TypeOK, DidNotWrite
<1>2. ASSUME ~failed, failed' = TRUE, q + n <= MaxSequence, sequence' = q + n,
             Leftover(q, r, what, p, o)
      PROVE  Inv'
  <2>1. Fits(journal, runs, q, r, what, p, o) /\ Shown(journal, runs) /\ console = journal
    BY <1>2 DEF Inv
  <2>2. PICK k \in Nat :
          /\ Grown(journal, journal', k, r, what, p, o) /\ (what # "result" => k <= 1)
          /\ \A i \in (Len(journal) + 1)..Len(journal') : journal'[i].seq > q
          /\ rotating => Longer(journal, journal', k, q, r, what, p, o)
    BY <1>2 DEF Leftover
  <2>3. Nest(journal') /\ Rooted(journal')
    BY <1>1, <2>1, <2>2, GrownKept
  <2>4. Numbers(journal', console', rotating')
    <3>1. q = Cardinality(OfRoot(journal, o, Len(journal)))
      BY <2>1 DEF Fits
    <3>2. Gapless(journal, Len(journal))
      BY <1>1, <2>1 DEF Numbers
    <3> QED
      BY <1>1, <2>1, <2>2, <3>1, <3>2, LeftoverNumbers
  <2>5. IsPrefix(console', journal')
    BY <1>1, <2>2, GrownPrefix
  <2>6. TypeOK'
    BY <1>1, <1>2, <2>2 DEF TypeOK, Grown, Active
  <2> QED
    BY <1>2, <2>3, <2>4, <2>5, <2>6 DEF Inv
<1>3. ASSUME failed' = failed, journal' = journal,
             (failed /\ sequence' = q) \/ sequence' = MaxSequence
      PROVE  Inv'
  <2>1. TypeOK'
    BY <1>1, <1>3 DEF TypeOK, Active
  <2>2. ~failed => Counts(journal, runs, sequence')
    BY <1>3 DEF Counts
  <2> QED
    BY <1>1, <1>3, <2>1, <2>2 DEF Inv
<1> QED
  BY <1>2, <1>3 DEF DidNotWrite
-----------------------------------------------------------------------------
(* The actions.                                                            *)

\* A result, or the finish of a leaf, fits unless the counter is exhausted.
LEMMA ActiveFits ==
    ASSUME Inv, ~failed, NEW n \in Nat \ {0}, sequence + n <= MaxSequence,
           NEW r \in Active, NEW what,
           what = "result" \/ (what = "finished" /\ Leaf(r))
    PROVE  Fits(journal, runs, sequence, r, what, runs[r].parent, runs[r].root)
<1>1. Tree(runs) /\ Counts(journal, runs, sequence) /\ sequence \in Nat /\ MaxSequence \in Nat
  BY InvTree, OutputAssumption DEF Inv
<1>2. sequence # MaxSequence
  BY <1>1
<1>3. sequence = Cardinality(OfRoot(journal, runs[r].root, Len(journal)))
  BY <1>1, <1>2 DEF Counts, Active
<1> QED
  BY <1>1, <1>3 DEF Fits, Tree, Active, Leaf

LEMMA FreshRun ==
    ASSUME Inv, NEW r, r \notin Used
    PROVE  r \notin DOMAIN runs /\ \A j \in 1..Len(journal) : journal[j].run # r
<1>1. DOMAIN journal = 1..Len(journal)
  BY InvTree, LenProperties
<1> QED
  BY <1>1 DEF Used, Active

LEMMA PublishBatchInv ==
    ASSUME Inv, NEW r, NEW n \in 1..MaxBatch, publish_batch(r, n)
    PROVE  Inv'
<1> DEFINE events == [i \in 1..n |-> Event(r, "result", None, r)]
           p == runs[r].parent
           o == runs[r].root
<1>1. /\ r \in Active /\ runs' = runs /\ closing' = closing /\ rotating' = rotating
      /\ Published(sequence, events) \/ PublishFails(sequence, events)
  BY DEF publish_batch
<1>2. n \in Nat \ {0} /\ sequence \in Nat /\ sequence <= MaxSequence
  BY OutputAssumption, InvTree
<1>3. Batch(events, n, r, "result", p, o)
  <2>1. Len(events) = n /\ DOMAIN events = 1..n
    <3>1. events \in [1..n -> {Event(r, "result", None, r)}]
      OBVIOUS
    <3>2. events \in Seq({Event(r, "result", None, r)})
      BY <1>2, <3>1, SeqDef
    <3> QED
      BY <1>2, <3>1, <3>2, LenProperties
  <2>2. r \in RunIds /\ p \in RunIds \cup {None} /\ o \in RunIds
    BY <1>1, InvTree DEF Tree, Active
  <2>3. \A i \in 1..n : events[i].run = r /\ events[i].what = "result"
    BY DEF Event
  <2> QED
    BY <1>1, <1>2, <2>1, <2>2, <2>3 DEF Batch
<1> HIDE DEF events
<1>4. \/ Wrote(sequence, n, r, "result", p, o)
      \/ DidNotWrite(sequence, n, r, "result", p, o)
  BY <1>1, <1>2, <1>3, Publishing, InvTree
<1>5. ~failed /\ sequence + n <= MaxSequence => Fits(journal, runs, sequence, r, "result", p, o)
  BY <1>1, <1>2, ActiveFits
<1>6. closing' \in RunIds \cup {None}
  BY <1>1 DEF Inv, TypeOK
<1> HIDE DEF p, o
<1>7. CASE DidNotWrite(sequence, n, r, "result", p, o)
  BY <1>1, <1>2, <1>5, <1>6, <1>7, DidNotWriteInv
<1>8. CASE Wrote(sequence, n, r, "result", p, o)
  <2>1. /\ Fits(journal, runs, sequence, r, "result", p, o) /\ Shown(journal, runs)
        /\ Longer(journal, journal', n, sequence, r, "result", p, o)
        /\ OneTree(runs) /\ Tree(runs) /\ journal \in Seq(Rows)
    BY <1>5, <1>8, InvTree DEF Wrote, Inv
  <2>2. Shown(journal', runs) /\ Counts(journal', runs, sequence + n)
    BY <1>2, <2>1, ResultShown
  <2> QED
    BY <1>1, <1>2, <1>6, <1>8, <2>1, <2>2, WroteInv
<1> QED
  BY <1>4, <1>7, <1>8

LEMMA FinishInv ==
    ASSUME Inv, NEW r, Finish(r), closing' \in RunIds \cup {None}, rotating' = rotating
    PROVE  Inv'
<1> DEFINE events == <<Event(r, "finished", None, r)>>
           p == runs[r].parent
           o == runs[r].root
<1>1. /\ r \in Active /\ Leaf(r)
      /\ \/ Published(sequence, events) /\ runs' = Without(r)
         \/ PublishFails(sequence, events) /\ runs' = runs
  BY DEF Finish
<1>2. sequence \in Nat /\ sequence <= MaxSequence
  BY InvTree
<1>3. Batch(events, 1, r, "finished", p, o)
  <2>1. r \in RunIds /\ p \in RunIds \cup {None} /\ o \in RunIds
    BY <1>1, InvTree DEF Tree, Active
  <2>2. events[1].run = r /\ events[1].what = "finished"
    BY DEF Event
  <2>3. Len(events) = 1 /\ DOMAIN events = 1..1
    OBVIOUS
  <2> QED
    BY <1>1, <2>1, <2>2, <2>3 DEF Batch
<1> HIDE DEF events
<1>4. ~failed /\ sequence + 1 <= MaxSequence
        => Fits(journal, runs, sequence, r, "finished", p, o)
  BY <1>1, <1>2, ActiveFits
<1> HIDE DEF p, o
<1>5. CASE PublishFails(sequence, events) /\ runs' = runs
  <2>1. DidNotWrite(sequence, 1, r, "finished", p, o)
    BY <1>2, <1>3, <1>5, Publishing, InvTree
  <2> QED
    BY <1>2, <1>4, <1>5, <2>1, DidNotWriteInv
<1>6. CASE Published(sequence, events) /\ runs' = Without(r)
  <2>1. Wrote(sequence, 1, r, "finished", p, o)
    BY <1>2, <1>3, <1>6, Publishing, InvTree
  <2>2. /\ Fits(journal, runs, sequence, r, "finished", p, o) /\ Shown(journal, runs)
        /\ Longer(journal, journal', 1, sequence, r, "finished", p, o)
        /\ OneTree(runs) /\ Tree(runs) /\ Nest(journal) /\ journal \in Seq(Rows)
    BY <1>4, <2>1, InvTree DEF Wrote, Inv
  <2>3. DOMAIN runs' = DOMAIN runs \ {r} /\ \A a \in DOMAIN runs' : runs'[a] = runs[a]
    BY <1>6 DEF Without, Active
  <2>4. Tree(runs') /\ Shown(journal', runs') /\ OneTree(runs')
        /\ Counts(journal', runs', sequence + 1)
    BY <2>2, <2>3, FinishShown
  <2> QED
    BY <1>2, <2>1, <2>2, <2>4, WroteInv
<1> QED
  BY <1>1, <1>5, <1>6

LEMMA BeginRunInv ==
    ASSUME Inv, NEW q \in Nat, q <= MaxSequence, NEW r \in RunIds, r \notin Used,
           NEW p, NEW o, begin_run(q, r, p, o), closing' = closing, rotating' = rotating,
           ~failed /\ q + 1 <= MaxSequence => Fits(journal, runs, q, r, "started", p, o),
           p \in RunIds \cup {None}, o \in RunIds
    PROVE  Inv'
<1> DEFINE events == <<Event(r, "started", p, o)>>
<1>1. \/ Published(q, events) /\ runs' = With(r, p, o)
      \/ PublishFails(q, events) /\ runs' = runs
  BY DEF begin_run
<1>2. r \notin Active /\ closing' \in RunIds \cup {None}
  BY FreshRun DEF Active, Inv, TypeOK
<1>3. Batch(events, 1, r, "started", p, o)
  <2>1. /\ events[1].run = r /\ events[1].what = "started"
        /\ events[1].parent = p /\ events[1].root = o
    BY DEF Event
  <2>2. Len(events) = 1 /\ DOMAIN events = 1..1
    OBVIOUS
  <2> QED
    BY <1>2, <2>1, <2>2 DEF Batch
<1> HIDE DEF events
<1>4. CASE PublishFails(q, events) /\ runs' = runs
  <2>1. DidNotWrite(q, 1, r, "started", p, o)
    BY <1>3, <1>4, Publishing, InvTree
  <2> QED
    BY <1>2, <1>4, <2>1, DidNotWriteInv
<1>5. CASE Published(q, events) /\ runs' = With(r, p, o)
  <2>1. Wrote(q, 1, r, "started", p, o)
    BY <1>3, <1>5, Publishing, InvTree
  <2>2. /\ Fits(journal, runs, q, r, "started", p, o) /\ Shown(journal, runs)
        /\ Longer(journal, journal', 1, q, r, "started", p, o)
        /\ OneTree(runs) /\ Tree(runs) /\ journal \in Seq(Rows)
    BY <2>1, InvTree DEF Wrote, Inv
  <2>3. /\ DOMAIN runs' = DOMAIN runs \cup {r} 
        /\ runs'[r].parent = p /\ runs'[r].root = o
        /\ \A a \in DOMAIN runs : a # r => runs'[a] = runs[a]
    BY <1>5 DEF With, Active
  <2>4. Tree(runs') /\ Shown(journal', runs') /\ OneTree(runs')
        /\ Counts(journal', runs', q + 1)
    BY <2>2, <2>3, StartShown
  <2> QED
    BY <1>2, <2>1, <2>2, <2>4, WroteInv
<1> QED
  BY <1>1, <1>4, <1>5

LEMMA StartSessionInv ==
    ASSUME Inv, NEW r \in RunIds, start_session(r)
    PROVE  Inv'
<1>1. Active = {} /\ r \notin Used /\ begin_run(0, r, None, r)
      /\ closing' = closing /\ rotating' = rotating
  BY DEF start_session
<1>2. ~failed => Fits(journal, runs, 0, r, "started", None, r)
  <2>1. r \notin DOMAIN runs /\ \A j \in 1..Len(journal) : journal[j].run # r
    BY <1>1, FreshRun
  <2>2. \A j \in 1..Len(journal) : journal[j].root # r
    BY <2>1 DEF Inv, Rooted
  <2>3. Len(journal) \in Nat
    BY InvTree, LenProperties
  <2>4. Cardinality(OfRoot(journal, r, Len(journal))) = 0
    BY <2>2, <2>3, Counted
  <2> QED
    BY <1>1, <2>1, <2>4 DEF Fits, Active
<1> QED
  BY <1>1, <1>2, BeginRunInv, OutputAssumption

LEMMA StartRunInv ==
    ASSUME Inv, NEW r \in RunIds, NEW parent, start_run(r, parent)
    PROVE  Inv'
<1>1. /\ parent \in Active /\ r \notin Used /\ closing' = closing /\ rotating' = rotating
      /\ begin_run(sequence, r, parent, runs[parent].root)
  BY DEF start_run
<1>2. Tree(runs) /\ sequence \in Nat /\ sequence <= MaxSequence /\ MaxSequence \in Nat
  BY InvTree, OutputAssumption
<1>3. parent \in RunIds /\ runs[parent].root \in RunIds
  BY <1>1, <1>2 DEF Tree, Active
<1>4. ~failed /\ sequence + 1 <= MaxSequence
        => Fits(journal, runs, sequence, r, "started", parent, runs[parent].root)
  <2> SUFFICES ASSUME ~failed, sequence + 1 <= MaxSequence
               PROVE  Fits(journal, runs, sequence, r, "started", parent, runs[parent].root)
    OBVIOUS
  <2>1. r \notin DOMAIN runs /\ \A j \in 1..Len(journal) : journal[j].run # r
    BY <1>1, FreshRun
  <2>2. sequence = Cardinality(OfRoot(journal, runs[parent].root, Len(journal)))
    BY <1>1, <1>2 DEF Inv, Counts, Active
  <2> QED
    BY <1>1, <1>3, <2>1, <2>2 DEF Fits, Active
<1> QED
  BY <1>1, <1>2, <1>3, <1>4, BeginRunInv

LEMMA CloseNextInv == Inv /\ CloseNext => Inv'
<1> SUFFICES ASSUME Inv, CloseNext PROVE Inv'
  OBVIOUS
<1>1. PICK r \in Active :
        /\ Finish(r)
        /\ closing' = IF r \in DOMAIN runs' \/ r = closing THEN None ELSE closing
  BY DEF CloseNext
<1>2. closing' \in RunIds \cup {None} /\ rotating' = rotating
  BY <1>1 DEF Inv, TypeOK, CloseNext
<1> QED
  BY <1>1, <1>2, FinishInv

LEMMA FinishRunInv ==
    ASSUME Inv, NEW r, finish_run(r)
    PROVE  Inv'
<1>1. Finish(r) /\ closing' \in RunIds \cup {None} /\ rotating' = rotating
  BY DEF finish_run, Inv, TypeOK
<1> QED
  BY <1>1, FinishInv

\* Only the session being closed changes, or nothing.
LEMMA OutputsKept ==
    ASSUME Inv, UNCHANGED <<rotating, sequence, failed, runs, journal, console>>,
           closing' \in RunIds \cup {None}
    PROVE  Inv'
<1>1. TypeOK'
  BY DEF Inv, TypeOK, Active
<1> QED
  BY <1>1 DEF Inv

LEMMA Initially == Init => Inv
<1> SUFFICES ASSUME Init PROVE Inv
  OBVIOUS
<1>1. /\ rotating \in BOOLEAN /\ sequence = 0 /\ failed = FALSE /\ closing = None /\ journal = <<>> /\ console = <<>>
      /\ DOMAIN runs = {} /\ Len(journal) = 0
  BY EmptySeq DEF Init
<1>2. TypeOK
  <2>1. sequence \in 0..MaxSequence
    BY <1>1, OutputAssumption
  <2>2. journal \in Seq(Rows) /\ console \in Seq(Rows)
    BY <1>1, EmptySeq
  <2>3. Active = {}
    BY <1>1 DEF Active
  <2> QED
    BY <1>1, <2>1, <2>2, <2>3 DEF TypeOK
<1>3. IsPrefix(console, journal)
  BY <1>1, <1>2, PrefixItself DEF TypeOK
<1>4. Nest(journal) /\ Rooted(journal) /\ Numbers(journal, console, rotating)
  BY <1>1 DEF Nest, Rooted, Numbers, Gapless, Beyond
<1>5. Shown(journal, runs) /\ OneTree(runs) /\ Counts(journal, runs, sequence)
  BY <1>1 DEF Shown, OneTree, Counts
<1> QED
  BY <1>1, <1>2, <1>3, <1>4, <1>5 DEF Inv

LEMMA Steps == Inv /\ [Next]_vars => Inv'
<1> SUFFICES ASSUME Inv, [Next]_vars PROVE Inv'
  OBVIOUS
<1>1. CASE UNCHANGED vars
  BY <1>1, OutputsKept DEF vars, Inv, TypeOK
<1>2. CASE Next
  <2>1. ASSUME NEW r \in RunIds, start_session(r) PROVE Inv'
    BY <2>1, StartSessionInv
  <2>2. ASSUME NEW r \in RunIds, finish_run(r) PROVE Inv'
    BY <2>2, FinishRunInv
  <2>3. ASSUME NEW r \in RunIds, finish_session(r) PROVE Inv'
    BY <2>3, OutputsKept DEF finish_session
  <2>4. ASSUME NEW r \in RunIds, NEW parent \in RunIds, start_run(r, parent) PROVE Inv'
    BY <2>4, StartRunInv
  <2>5. ASSUME NEW r \in RunIds, NEW n \in 1..MaxBatch, publish_batch(r, n) PROVE Inv'
    BY <2>5, PublishBatchInv
  <2>6. CASE CloseNext
    BY <2>6, CloseNextInv
  <2> QED
    BY <1>2, <2>1, <2>2, <2>3, <2>4, <2>5, <2>6 DEF Next
<1> QED
  BY <1>1, <1>2

LEMMA Invariant == Spec => []Inv
<1>1. Init => Inv
  BY Initially
<1>2. Inv /\ [Next]_vars => Inv'
  BY Steps
<1> QED
  BY <1>1, <1>2, PTL DEF Spec

-----------------------------------------------------------------------------
(* What follows.                                                           *)

LEMMA InvGapless == Inv => NumberedWithoutGap
<1> SUFFICES ASSUME Inv, NEW i \in DOMAIN journal
             PROVE  IF rotating \/ i <= Len(console)
                    THEN journal[i].seq =
                           Cardinality({j \in 1..i : journal[j].root = journal[i].root})
                    ELSE journal[i].seq >
                           Cardinality({j \in 1..Len(console) : console[j].root = journal[i].root})
  BY DEF NumberedWithoutGap
<1>1. i \in 1..Len(journal) /\ Len(journal) \in Nat /\ Len(console) \in Nat
  BY InvTree, LenProperties DEF Inv, TypeOK
<1>2. Gapless(journal, IF rotating THEN Len(journal) ELSE Len(console)) /\ Beyond(journal, console)
  BY DEF Inv, Numbers
<1>3. CASE rotating \/ i <= Len(console)
  BY <1>1, <1>2, <1>3 DEF Gapless, OfRoot
<1>4. CASE ~(rotating \/ i <= Len(console))
  BY <1>1, <1>2, <1>4 DEF Beyond, OfRoot
<1> QED
  BY <1>3, <1>4

LEMMA InvNested == Inv => Nested
<1> SUFFICES ASSUME Inv, NEW i \in DOMAIN journal
             PROVE  LET e == journal[i] IN
                    /\ \E s \in At(e.run, "started") : s <= i /\ At(e.run, "started") = {s}
                    /\ \A f \in At(e.run, "finished") : i <= f
                    /\ e.parent # None =>
                        /\ \E s \in At(e.parent, "started") : s < i
                        /\ \A f \in At(e.parent, "finished") : i < f
                    /\ \A j \in DOMAIN journal : journal[j].run = e.run =>
                            journal[j].parent = e.parent /\ journal[j].root = e.root
  BY DEF Nested
<1>1. DOMAIN journal = 1..Len(journal) /\ Len(journal) \in Nat /\ Nest(journal)
  BY InvTree, LenProperties DEF Inv
<1>2. \E s \in At(journal[i].run, "started") : s <= i /\ At(journal[i].run, "started") = {s}
  <2>1. PICK s \in 1..i : journal[s].run = journal[i].run /\ journal[s].what = "started"
    BY <1>1 DEF Nest
  <2>2. s \in 1..Len(journal)
    BY <1>1
  <2>3. \A j \in 1..Len(journal) :
          journal[j].run = journal[i].run /\ journal[j].what = "started" => j = s
    BY <1>1, <2>1, <2>2 DEF Nest
  <2> QED
    BY <1>1, <2>1, <2>2, <2>3 DEF At
<1>3. \A f \in At(journal[i].run, "finished") : i <= f
  BY <1>1 DEF Nest, At
<1>4. ASSUME journal[i].parent # None
      PROVE  /\ \E s \in At(journal[i].parent, "started") : s < i
             /\ \A f \in At(journal[i].parent, "finished") : i < f
  <2>1. PICK s \in 1..(i - 1) :
          journal[s].run = journal[i].parent /\ journal[s].what = "started"
    BY <1>1, <1>4 DEF Nest
  <2>2. s \in 1..Len(journal) /\ s < i
    BY <1>1
  <2>3. \A f \in At(journal[i].parent, "finished") : i < f
    BY <1>1, <1>4 DEF Nest, At
  <2> QED
    BY <1>1, <2>1, <2>2, <2>3 DEF At
<1>5. \A j \in DOMAIN journal : journal[j].run = journal[i].run =>
        journal[j].parent = journal[i].parent /\ journal[j].root = journal[i].root
  BY <1>1 DEF Nest
<1> QED
  BY <1>2, <1>3, <1>4, <1>5

LEMMA InvAgrees == Inv => AgreesWithJournal
<1> SUFFICES ASSUME Inv PROVE AgreesWithJournal
  OBVIOUS
<1>1. DOMAIN journal = 1..Len(journal) /\ Len(journal) \in Nat /\ Tree(runs)
  BY InvTree, LenProperties
<1>2. ASSUME ~failed
      PROVE  Active = {r \in RunIds : At(r, "started") # {} /\ At(r, "finished") = {}}
  <2>1. Shown(journal, runs) /\ Nest(journal)
    BY <1>2 DEF Inv
  <2>2. ASSUME NEW r \in Active
        PROVE  r \in RunIds /\ At(r, "started") # {} /\ At(r, "finished") = {}
    BY <1>1, <2>1 DEF Tree, Active, Shown, At
  <2>3. ASSUME NEW r \in RunIds, At(r, "started") # {}, At(r, "finished") = {}
        PROVE  r \in Active
    <3>1. PICK j \in 1..Len(journal) : journal[j].run = r
      BY <1>1, <2>3 DEF At
    <3>2. \A i \in 1..Len(journal) : ~(journal[i].run = r /\ journal[i].what = "finished")
      BY <1>1, <2>3 DEF At
    <3> QED
      BY <2>1, <3>1, <3>2 DEF Active, Shown
  <2> QED
    BY <2>2, <2>3
<1> QED
  BY <1>2 DEF Inv, AgreesWithJournal

\* The rows of a session are numbered 1, 2, 3 ... in the order of the journal,
\* whatever write fails and wherever the counter ends: in a rotating journal all
\* of them, in a single file those that were acknowledged.  What the csv writer
\* leaves of a failed batch in a single file, twice perhaps, has other numbers.
THEOREM RowsNumbered == Spec => []NumberedWithoutGap
BY Invariant, InvGapless, PTL

\* Each run's rows lie between its start and its finish, and between its
\* parent's: begin_run and Finish write the start before and the finish after
\* everything else, and only leaves finish.
THEOREM RunsNested == Spec => []Nested
BY Invariant, InvNested, PTL

\* The console is never ahead of the journal, and until a write fails the tree
\* of active runs is the one the journal shows.
THEOREM ConsoleAgrees == Spec => []AgreesWithJournal
BY Invariant, InvAgrees, PTL
=============================================================================
