--------------------------- MODULE Monitor_proofs ---------------------------
(***************************************************************************)
(* Proofs about Monitor, for any interfaces, any back-off bounds and any   *)
(* number of opportunities: the loop is type correct, and a planned test   *)
(* never puts its interface more than one ahead.                           *)
(*                                                                         *)
(* A test holds its choice while rounds, ticks and time go by, so the      *)
(* invariant carries the reason of the choice along with it (Chosen).      *)
(***************************************************************************)
EXTENDS Monitor, SequenceTheorems, FiniteSetTheorems, TLAPS

\* A ping round is in flight in some steps only, and is counted.
RoundCounted ==
    /\ unfinished = IF active = None THEN 0 ELSE 1
    /\ pc \in {"loop", "poll", "wait", "stopped"} => active = None
    /\ pc = "round" => active # None

\* The interface under test had no more tests than those passed over for it.
Chosen ==
    /\ pc = "attempt" => selected \in Names
    /\ pc = "attempt" => \A j \in rivals : attempts[selected] <= attempts[j]

Inv == TypeOK /\ RoundCounted /\ Chosen

-----------------------------------------------------------------------------
(* Interfaces. *)

LEMMA PowerNatural == ASSUME NEW n \in Nat PROVE 2 ^ n \in Nat
<1>1. IsFiniteSet(1..n) /\ Cardinality(1..n) = n
  BY FS_Interval
<1>2. IsFiniteSet(SUBSET (1..n)) /\ Cardinality(SUBSET (1..n)) = 2 ^ n
  BY <1>1, FS_SUBSET
<1> QED
  BY <1>2, FS_CardinalityType

Runtime == [latest_success : BOOLEAN, degraded : BOOLEAN, available : BOOLEAN,
            wait : 0..MaxDelay, backoff_step : 0..MaxStep]

LEMMA NewRuntimeTyped == NewRuntime \in Runtime
BY BoundAssumption DEF NewRuntime, Runtime

LEMMA AvailableTyped ==
    ASSUME NEW r \in Runtime
    PROVE  mark_available(r) \in Runtime
<1>1. 0 \in 0..MaxDelay /\ 0 \in 0..MaxStep
  BY BoundAssumption
<1> QED
  BY <1>1 DEF mark_available, Runtime

LEMMA FailedTyped ==
    ASSUME NEW r \in Runtime
    PROVE  mark_failed(r) \in Runtime
<1> DEFINE delay == min(2 ^ min(r.backoff_step, MaxStep), MaxDelay)
           step == min(r.backoff_step + 1, MaxStep)
<1>1. r.backoff_step \in Nat /\ MaxStep \in Nat /\ MaxDelay \in Nat
  BY BoundAssumption DEF Runtime
<1>2. min(r.backoff_step, MaxStep) \in Nat
  BY <1>1 DEF min
<1>3. 2 ^ min(r.backoff_step, MaxStep) \in Nat
  BY <1>2, PowerNatural
<1>4. delay \in 0..MaxDelay /\ step \in 0..MaxStep
  BY <1>1, <1>3 DEF min
<1>5. mark_failed(r) = [r EXCEPT !.available = FALSE, !.latest_success = FALSE,
                                 !.wait = delay, !.backoff_step = step]
  BY DEF mark_failed
<1> HIDE DEF delay, step
<1> QED
  BY <1>4, <1>5 DEF Runtime

LEMMA OrderTyped ==
    /\ Len(Order) \in Nat \ {0} /\ DOMAIN Order = 1..Len(Order)
    /\ \A k \in DOMAIN Order : Order[k] \in Names
<1>1. Order \in Seq(Names) /\ Order # <<>>
  BY NameAssumption
<1>2. Len(Order) \in Nat \ {0} /\ DOMAIN Order = 1..Len(Order)
  BY <1>1, EmptySeq, LenProperties
<1> QED
  BY <1>1, <1>2, ElementOfSeq

LEMMA NextInterfaceTyped ==
    ASSUME NEW n \in DOMAIN Order
    PROVE  (n % Len(Order)) + 1 \in DOMAIN Order
<1>1. n \in Nat /\ Len(Order) \in Nat \ {0} /\ DOMAIN Order = 1..Len(Order)
  BY OrderTyped
<1>2. n % Len(Order) \in 0..(Len(Order) - 1)
  BY <1>1
<1> QED
  BY <1>1, <1>2

\* The interfaces with one of them marked.
LEMMA MarkedTyped ==
    ASSUME interfaces \in [Names -> Runtime], NEW i \in Names
    PROVE  /\ [interfaces EXCEPT ![i] = mark_available(@)] \in [Names -> Runtime]
           /\ [interfaces EXCEPT ![i] = mark_failed(@)] \in [Names -> Runtime]
BY AvailableTyped, FailedTyped

-----------------------------------------------------------------------------
(* Choosing an interface. *)

\* What a choice leaves for the test to rely on.
LEMMA PlannedChoice ==
    ASSUME Inv, SelectPlanned
    PROVE  /\ interfaces' \in [Names -> Runtime]
           /\ selected' \in Names \cup {None} /\ rivals' \subseteq Names
           /\ selected' # None => \A j \in rivals' : attempts[selected'] <= attempts[j]
<1>1. PICK s \in Eligible \cup {None} :
        LET failed == IF s = None THEN Eligible ELSE {j \in Eligible : Before(j, s)}
        IN  /\ selected' = s
            /\ interfaces' = [i \in Names |->
                    IF i \in failed THEN mark_failed(interfaces[i])
                    ELSE IF i = s THEN mark_available(interfaces[i]) ELSE interfaces[i]]
            /\ rivals' = Eligible \ failed
  BY DEF SelectPlanned
<1>2. interfaces \in [Names -> Runtime] /\ Eligible \subseteq Names
      /\ attempts \in [Names -> Nat]
  BY DEF Inv, TypeOK, Runtime, Eligible
<1>3. interfaces' \in [Names -> Runtime]
  BY <1>1, <1>2, AvailableTyped, FailedTyped
<1>4. ASSUME s # None, NEW j \in Eligible, ~Before(j, s)
      PROVE  attempts[s] <= attempts[j]
  BY <1>2, <1>4 DEF Before
<1> QED
  BY <1>1, <1>2, <1>3, <1>4

LEMMA RequestedChoice ==
    ASSUME Inv, NEW i \in Names \cup {Foreign}, SelectRequested(i)
    PROVE  /\ interfaces' \in [Names -> Runtime]
           /\ selected' \in Names \cup {None} /\ rivals' = {}
<1>1. interfaces \in [Names -> Runtime]
  BY DEF Inv, TypeOK, Runtime
<1>2. CASE i \in Names
  BY <1>1, <1>2, MarkedTyped DEF SelectRequested
<1>3. CASE i \notin Names
  BY <1>1, <1>3 DEF SelectRequested
<1> QED
  BY <1>2, <1>3

-----------------------------------------------------------------------------
(* The steps. *)

\* Steps that only move the loop on, outside a test.
LEMMA MovesOn ==
    ASSUME Inv, pc' \in {"loop", "poll", "wait", "stopped", "failed"}, shutdown' \in BOOLEAN,
           pc' # "failed" => active = None,
           UNCHANGED <<next_interface, active, unfinished, interfaces, fairness,
                       selected, rivals, offers>>
    PROVE  Inv'
BY DEF Inv, TypeOK, RoundCounted, Chosen, fairness

LEMMA PollInv == Inv /\ Poll => Inv'
<1> SUFFICES ASSUME Inv, Poll PROVE Inv'
  OBVIOUS
<1>1. pc = "poll" /\ active = None
      /\ UNCHANGED <<shutdown, next_interface, active, unfinished, fairness>>
  BY DEF Poll, Inv, RoundCounted
<1>2. CASE pc' = "wait" /\ UNCHANGED <<interfaces, selected, rivals, offers>>
  BY <1>1, <1>2, MovesOn DEF Inv, TypeOK
<1>3. CASE /\ offers < MaxOffers /\ offers' = offers + 1
           /\ SelectPlanned \/ \E i \in Names \cup {Foreign} : SelectRequested(i)
           /\ pc' = IF selected' = None THEN "loop" ELSE "attempt"
  <2>1. /\ interfaces' \in [Names -> Runtime]
        /\ selected' \in Names \cup {None} /\ rivals' \subseteq Names
        /\ selected' # None => \A j \in rivals' : attempts[selected'] <= attempts[j]
    BY <1>3, PlannedChoice, RequestedChoice
  <2>2. offers' \in 0..MaxOffers
    BY <1>3, BoundAssumption DEF Inv, TypeOK
  <2>3. TypeOK'
    BY <1>1, <1>3, <2>1, <2>2 DEF Inv, TypeOK, Runtime, fairness
  <2>4. RoundCounted'
    BY <1>1, <1>3 DEF Inv, RoundCounted
  <2>5. Chosen'
    BY <1>1, <1>3, <2>1 DEF Chosen, fairness
  <2> QED
    BY <2>3, <2>4, <2>5 DEF Inv
<1> QED
  BY <1>2, <1>3 DEF Poll

LEMMA TickRoundInv == Inv /\ TickRound => Inv'
<1> SUFFICES ASSUME Inv, TickRound PROVE Inv'
  OBVIOUS
<1> DEFINE i == Order[next_interface]
<1>1. /\ pc = "wait" /\ active = None /\ unfinished = 0
      /\ next_interface' = (next_interface % Len(Order)) + 1
      /\ UNCHANGED <<shutdown, fairness, selected, rivals, offers>>
  BY DEF TickRound, Inv, RoundCounted
<1>2. i \in Names /\ i # None /\ next_interface' \in DOMAIN Order
  BY <1>1, OrderTyped, NextInterfaceTyped, NameAssumption DEF Inv, TypeOK
<1>3. interfaces \in [Names -> Runtime]
  BY DEF Inv, TypeOK, Runtime
<1>4. \/ pc' = "loop" /\ UNCHANGED <<interfaces, active, unfinished>>
      \/ /\ pc' = "round" /\ active' = i /\ unfinished' = unfinished + 1
         /\ interfaces' = [interfaces EXCEPT ![i] = mark_available(@)]
      \/ /\ pc' = "loop" /\ UNCHANGED <<active, unfinished>>
         /\ interfaces' = [interfaces EXCEPT ![i] = mark_failed(@)]
  BY DEF TickRound
<1> HIDE DEF i
<1>5. interfaces' \in [Names -> Runtime]
  BY <1>2, <1>3, <1>4, MarkedTyped
<1>6. TypeOK'
  BY <1>1, <1>2, <1>4, <1>5 DEF Inv, TypeOK, Runtime, fairness
<1>7. RoundCounted'
  BY <1>1, <1>2, <1>4 DEF RoundCounted
<1>8. Chosen'
  BY <1>4 DEF Chosen
<1> QED
  BY <1>6, <1>7, <1>8 DEF Inv

LEMMA CompletedInv ==
    ASSUME Inv, pc = "round", pc' \in {"loop", "stopped"}, complete_interface_round,
           UNCHANGED <<shutdown, next_interface, fairness, selected, rivals, offers>>
    PROVE  Inv'
<1>1. active \in Names /\ unfinished = 1 /\ active' = None /\ unfinished' = 0
  BY DEF Inv, TypeOK, RoundCounted, complete_interface_round
<1>2. interfaces' \in [Names -> Runtime]
  <2>1. PICK ok \in BOOLEAN, bad \in BOOLEAN :
          interfaces' = [interfaces EXCEPT ![active].latest_success = ok,
                                           ![active].degraded = bad]
    BY DEF complete_interface_round
  <2>2. interfaces \in [Names -> Runtime]
    BY DEF Inv, TypeOK, Runtime
  <2> QED
    BY <1>1, <2>1, <2>2 DEF Runtime
<1>3. TypeOK'
  BY <1>1, <1>2 DEF Inv, TypeOK, Runtime, fairness
<1> QED
  BY <1>1, <1>3 DEF Inv, RoundCounted, Chosen

LEMMA LoadedRoundInv == Inv /\ (LoadedTick \/ LoadedRoundCompletes) => Inv'
<1> SUFFICES ASSUME Inv, LoadedTick \/ LoadedRoundCompletes PROVE Inv'
  OBVIOUS
<1>1. /\ pc = "attempt" /\ selected \in Names /\ selected # None
      /\ UNCHANGED <<pc, shutdown, next_interface, interfaces, fairness, selected, rivals, offers>>
  BY NameAssumption DEF LoadedTick, LoadedRoundCompletes, Inv, Chosen
<1>2. \/ active' = selected /\ unfinished' = 1
      \/ active' = None /\ unfinished' = 0
  BY DEF LoadedTick, LoadedRoundCompletes, Inv, RoundCounted
<1>3. TypeOK'
  BY <1>1, <1>2 DEF Inv, TypeOK, fairness
<1>4. RoundCounted'
  BY <1>1, <1>2 DEF RoundCounted
<1>5. Chosen'
  BY <1>1 DEF Inv, Chosen, fairness
<1> QED
  BY <1>3, <1>4, <1>5 DEF Inv

LEMMA AttemptReturnsInv == Inv /\ AttemptReturns => Inv'
<1> SUFFICES ASSUME Inv, AttemptReturns PROVE Inv'
  OBVIOUS
<1>1. /\ pc = "attempt" /\ pc' = "loop" /\ active' = None /\ unfinished' = 0
      /\ selected' = None /\ rivals' = {} /\ selected \in Names
      /\ UNCHANGED <<shutdown, next_interface, interfaces, offers>>
  BY DEF AttemptReturns, Inv, RoundCounted, Chosen
<1>2. turn' \in Nat /\ attempts' \in [Names -> Nat] /\ last_turn' \in [Names -> Nat]
  BY <1>1 DEF AttemptReturns, record_attempt, Inv, TypeOK
<1>3. TypeOK'
  BY <1>1, <1>2 DEF Inv, TypeOK
<1> QED
  BY <1>1, <1>3 DEF Inv, RoundCounted, Chosen

LEMMA ElapseInv == Inv /\ Elapse => Inv'
<1> SUFFICES ASSUME Inv, Elapse PROVE Inv'
  OBVIOUS
<1>1. UNCHANGED <<pc, shutdown, next_interface, active, unfinished, fairness,
                  selected, rivals, offers>>
  BY DEF Elapse
<1>2. interfaces \in [Names -> Runtime]
  BY DEF Inv, TypeOK, Runtime
<1>3. \A i \in Names : interfaces[i].wait > 0 =>
        [interfaces[i] EXCEPT !.wait = @ - 1] \in Runtime
  BY <1>2, BoundAssumption DEF Runtime
<1>4. interfaces' \in [Names -> Runtime]
  BY <1>2, <1>3 DEF Elapse
<1>5. TypeOK'
  BY <1>1, <1>4 DEF Inv, TypeOK, Runtime, fairness
<1> QED
  BY <1>1, <1>5 DEF Inv, RoundCounted, Chosen, fairness

LEMMA Initially == Init => Inv
<1> SUFFICES ASSUME Init PROVE Inv
  OBVIOUS
<1>1. interfaces \in [Names -> Runtime] /\ next_interface \in DOMAIN Order
  BY NewRuntimeTyped, OrderTyped DEF Init
<1>2. /\ attempts \in [Names -> Nat] /\ last_turn \in [Names -> Nat] /\ turn \in Nat
      /\ unfinished \in 0..1 /\ offers \in 0..MaxOffers
  BY BoundAssumption DEF Init
<1>3. TypeOK
  BY <1>1, <1>2 DEF Init, TypeOK, Runtime
<1> QED
  BY <1>3 DEF Init, Inv, RoundCounted, Chosen

LEMMA Steps == Inv /\ [Next]_vars => Inv'
<1> SUFFICES ASSUME Inv, [Next]_vars PROVE Inv'
  OBVIOUS
<1>1. CASE LoopHead \/ WaitCancelled \/ Fail
  <2>1. /\ pc' \in {"poll", "stopped", "failed"} /\ (pc' # "failed" => active = None)
        /\ UNCHANGED <<shutdown, next_interface, active, unfinished, interfaces, fairness,
                       selected, rivals, offers>>
    BY <1>1 DEF LoopHead, WaitCancelled, Fail, Inv, RoundCounted
  <2> QED
    BY <2>1, MovesOn DEF Inv, TypeOK
<1>2. CASE RoundCompletes \/ RoundCancelled
  BY <1>2, CompletedInv DEF RoundCompletes, RoundCancelled
<1>3. CASE Shutdown
  BY <1>3 DEF Shutdown, Inv, TypeOK, RoundCounted, Chosen, fairness
<1>4. CASE UNCHANGED vars
  BY <1>4 DEF vars, Inv, TypeOK, RoundCounted, Chosen, fairness
<1> QED
  BY <1>1, <1>2, <1>3, <1>4, PollInv, TickRoundInv, LoadedRoundInv, AttemptReturnsInv,
     ElapseInv DEF Next

LEMMA Invariant == Spec => []Inv
BY Initially, Steps, PTL DEF Spec

-----------------------------------------------------------------------------
(* The theorems. *)

\* The loop, its interfaces and its selector keep their types: the back-off
\* step and the delay stay within their caps, at most one round is unfinished.
THEOREM TypeCorrect == Spec => []TypeOK
BY Invariant, PTL DEF Inv

\* A planned test never puts its interface more than one test ahead of an
\* interface that could have had it (FairInterfaceSelector::ordered_names).
THEOREM PlannedTestsFair == Spec => PlannedWithinOne
<1>1. Inv /\ [Next]_vars =>
        [attempts' # attempts => \A j \in rivals : attempts'[selected] <= attempts'[j] + 1]_vars
  <2> SUFFICES ASSUME Inv, Next, attempts' # attempts, NEW j \in rivals
               PROVE  attempts'[selected] <= attempts'[j] + 1
    OBVIOUS
  <2>1. AttemptReturns
    BY DEF Next, LoopHead, Poll, WaitCancelled, TickRound, RoundCompletes, RoundCancelled,
           LoadedTick, LoadedRoundCompletes, Shutdown, Elapse, Fail, fairness
  <2>2. attempts' = [attempts EXCEPT ![selected] = @ + 1] /\ pc = "attempt"
    BY <2>1 DEF AttemptReturns, record_attempt
  <2>3. /\ selected \in Names /\ j \in Names /\ attempts \in [Names -> Nat]
        /\ attempts[selected] <= attempts[j]
    BY <2>2 DEF Inv, TypeOK, Chosen
  <2> QED
    BY <2>2, <2>3
<1> QED
  BY <1>1, Invariant, PTL DEF Spec, PlannedWithinOne
=============================================================================
