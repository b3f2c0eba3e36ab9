--------------------------- MODULE Attempt_proofs ---------------------------
(***************************************************************************)
(* Proofs about Attempt, for every number of targets and addresses, every  *)
(* time-out and every value of the counters: connections need a reserved   *)
(* start and no refusal, results are retained, the upload is bounded, and  *)
(* the outcome and the first limit of the report are sound.                *)
(*                                                                         *)
(* The invariant describes a running attempt: all its failures so far are  *)
(* quiet (they let it go on), those since the current direction began are  *)
(* terminal for that direction, and what is measured is the latest of what *)
(* was received.  What a report says then follows at the step that ends    *)
(* the attempt.                                                            *)
(***************************************************************************)
EXTENDS Attempt, SequenceTheorems, TLAPS

-----------------------------------------------------------------------------
(* The inductive invariant. *)

Running == at \notin {"resolve", "done"}

\* IsLimit, with the provider kind as a parameter.
Limit(kind, f) ==
    \/ f.outcome = "rate_limited" \/ f.http_status = 429
    \/ f.stage = "locate" /\ kind = "mlab" /\ f.http_status \in {204, 503}
    \/ f.stage = "websocket_handshake" /\ kind = "direct" /\ f.http_status = 503

\* A failure that lets the attempt go on.
Quiet(kind, f) ==
    /\ f.stage # "cleanup" /\ f.disposition \in {"terminal", "next"}
    /\ f.outcome \in {"error", "no_capacity"}
    /\ kind = "mlab" => ~Limit(kind, f)

AllQuiet(kind, fs, n) == \A i \in 1..n : Quiet(kind, fs[i])
Refused(fs, k) == \E i \in 1..Len(fs) : fs[i].http_status = 503 /\ fs[i].request_id[1] = k
Explains(fs, dir) == \E i \in 1..Len(fs) : fs[i].direction = dir

\* Where the attempt is: its start is reserved, and its active request is one
\* of the current candidate and direction, contacted once DNS has answered.
Placed ==
    /\ at = "resolve" =>
         /\ failures = <<>> /\ contacted = {} /\ admission = "untracked"
         /\ candidate = 0 /\ active.direction = None
    /\ Running =>
         /\ admission = "reserved" /\ candidate \in 1..candidates
         /\ active.direction \in Directions /\ active.request_id \in Requests
         /\ active.request_id[1] = candidate /\ active.request_id[2] = active.direction
    /\ Running /\ at # "dns" => active.request_id \in contacted
    /\ at \in Directions => active.direction = at
    /\ at # "done" /\ active.direction # "upload" => \A id \in contacted : id[2] = "download"
    /\ at # "done" /\ active.stage = "cleanup" => at = "upload"

\* What the failures of a running attempt say.
Explained ==
    Running =>
        /\ AllQuiet(provider_kind, failures, Len(failures))
        /\ \A i \in (failures_before + 1)..Len(failures) :
             failures[i].disposition = "terminal" /\ failures[i].direction = active.direction
        /\ \A k \in 1..(candidate - 1) : Refused(failures, k)
        /\ active.direction = "upload" => download # None \/ Explains(failures, "download")

\* m is the report that the valid ones leave.
Latest(m, reports) ==
    /\ (m = None) = (reports = {})
    /\ m # None => /\ m \in reports
                   /\ \A r \in reports : ~(r.elapsed > m.elapsed /\ r.bytes >= m.bytes)

UploadResult(id, m) ==
    IF m = None THEN None ELSE [request_id |-> id, bytes |-> m.bytes, elapsed |-> m.elapsed]

\* What has been measured.
DownloadKept == downloaded # None => download # None /\ download.request_id = downloaded
Results ==
    /\ at # "done" /\ active.direction # "upload" => download = None /\ downloaded = None
    /\ DownloadKept
    /\ at \notin {"upload", "done"} => upload = None /\ valid = {}
    /\ at = "upload" => /\ upload = UploadResult(active.request_id, transfer.measurement)
                        /\ Latest(transfer.measurement, valid)

\* The timers of the upload.
InTime(t, a, time, began) ==
    /\ t.started <= time /\ time <= t.deadline
    /\ ~t.closing => t.deadline = t.started + UploadDuration /\ a.stage = "upload"
    /\ t.closing => /\ a.stage = "cleanup" /\ a.since = began /\ began \in Nat
                    /\ began <= t.started + UploadDuration
                    /\ t.deadline = began + CloseTimeout
Timed == at = "upload" => InTime(transfer, active, now, cleanup_began)

\* The report of an attempt that is over: only its last failure is not quiet.
Final ==
    at = "done" =>
        /\ OutcomeSound /\ ResultsRetained
        /\ AllQuiet(provider_kind, failures, Len(failures) - 1)
        /\ failures # <<>> /\ Last(failures).stage = "cleanup" =>
             Last(failures).since = cleanup_began

Inv == TypeOK /\ Placed /\ Explained /\ Results /\ Timed /\ Final

-----------------------------------------------------------------------------
(* Failures. *)

\* t is s and the failure f.
Longer(s, t, f) ==
    /\ t \in Seq(RequestFailures) /\ Len(t) = Len(s) + 1 /\ t # <<>>
    /\ \A i \in 1..Len(s) : t[i] = s[i]
    /\ t[Len(s) + 1] = f /\ Last(t) = f

LEMMA AppendLonger ==
    ASSUME NEW s \in Seq(RequestFailures), NEW f \in RequestFailures
    PROVE  Longer(s, Append(s, f), f) /\ Len(s) \in Nat
<1>1. /\ Append(s, f) \in Seq(RequestFailures) /\ Append(s, f) # <<>>
      /\ Len(Append(s, f)) = Len(s) + 1
      /\ \A i \in 1..Len(s) : Append(s, f)[i] = s[i]
      /\ Append(s, f)[Len(s) + 1] = f /\ Len(s) \in Nat
  BY AppendProperties, LenProperties
<1>2. Last(Append(s, f)) = f
  BY <1>1 DEF Last
<1> QED
  BY <1>1, <1>2 DEF Longer

\* A failure of the active request.
Owned(f) ==
    /\ f \in RequestFailures /\ f.direction = active.direction
    /\ f.request_id = active.request_id

Built(f, stage, o, d, status, retry) ==
    /\ Owned(f) /\ f.stage = stage /\ f.outcome = o /\ f.disposition = d
    /\ f.http_status = status /\ f.retry_at = retry /\ f.since = active.since

LEMMA FailureOwned ==
    ASSUME active \in Actives, NEW stage \in Stages, NEW o \in FailureOutcomes,
           NEW d \in {"terminal", "next", "provider"}, NEW status \in {None, 204, 429, 500, 503},
           NEW retry \in Nat \cup {None}
    PROVE  Built(Failure(stage, o, d, status, retry), stage, o, d, status, retry)
BY DEF Built, Failure, Owned, RequestFailures, Actives

LEMMA SimpleOwned ==
    ASSUME active \in Actives, NEW stage \in Stages
    PROVE  LET f == simple(stage) IN
           /\ Owned(f) /\ f.stage = stage /\ f.outcome = "error"
           /\ f.disposition = "terminal" /\ f.http_status = None /\ f.since = active.since
           /\ \A kind : stage # "cleanup" => Quiet(kind, f)
<1>1. /\ Owned(simple(stage)) /\ simple(stage).stage = stage /\ simple(stage).outcome = "error"
      /\ simple(stage).disposition = "terminal" /\ simple(stage).http_status = None
      /\ simple(stage).since = active.since
  BY DEF simple, Failure, Owned, RequestFailures, Actives, FailureOutcomes
<1>2. None \notin {204, 429, 503}
  BY AttemptAssumption
<1> HIDE DEF simple
<1>3. \A kind : stage # "cleanup" => Quiet(kind, simple(stage))
  BY <1>1, <1>2 DEF Quiet, Limit
<1> QED
  BY <1>1, <1>3

\* The handshake's answer 503 of M-Lab lets the next candidate be tried, its
\* answer 429 nothing; any other answer ends the direction.
LEMMA StatusOwned ==
    ASSUME TypeOK, NEW status \in {429, 500, 503}, NEW retry \in Nat \cup {None}
    PROVE  LET f == StatusFailure(status, retry) IN
           /\ Owned(f) /\ f.stage = "websocket_handshake" /\ f.http_status = status
           /\ \/ f.disposition = "provider" /\ f.outcome = "rate_limited"
              \/ f.disposition = "next" /\ status = 503 /\ f.outcome = "no_capacity"
                 /\ Quiet(provider_kind, f)
              \/ f.disposition = "terminal" /\ Quiet(provider_kind, f)
<1> DEFINE class == classify_handshake_status(status)
           f == StatusFailure(status, retry)
<1>1. provider_kind \in {"mlab", "direct"} /\ active \in Actives
  BY AttemptAssumption DEF TypeOK
<1>2. \/ status = 429 /\ class = <<"rate_limited", "provider">>
      \/ status = 503 /\ provider_kind = "mlab" /\ class = <<"no_capacity", "next">>
      \/ status = 503 /\ provider_kind = "direct" /\ class = <<"no_capacity", "terminal">>
      \/ status = 500 /\ class = <<"error", "terminal">>
  BY <1>1 DEF classify_handshake_status
<1>3. class[1] \in FailureOutcomes /\ class[2] \in {"terminal", "next", "provider"}
  BY <1>2 DEF FailureOutcomes
<1>4. f = Failure("websocket_handshake", class[1], class[2], status, retry)
  BY DEF StatusFailure
<1> HIDE DEF class, f
<1>5. /\ Owned(f) /\ f.stage = "websocket_handshake" /\ f.http_status = status
      /\ f.outcome = class[1] /\ f.disposition = class[2]
  <2>1. Built(f, "websocket_handshake", class[1], class[2], status, retry)
    BY <1>1, <1>3, <1>4, FailureOwned DEF Stages
  <2> QED
    BY <2>1 DEF Built
<1>6. \/ f.disposition = "provider" /\ f.outcome = "rate_limited"
      \/ f.disposition = "next" /\ status = 503 /\ f.outcome = "no_capacity"
         /\ Quiet(provider_kind, f)
      \/ f.disposition = "terminal" /\ Quiet(provider_kind, f)
  BY <1>2, <1>5 DEF Quiet, Limit
<1> QED
  BY <1>5, <1>6 DEF f

LEMMA InvTyped ==
    ASSUME Inv
    PROVE  /\ failures \in Seq(RequestFailures) /\ active \in Actives /\ Len(failures) \in Nat
           /\ DOMAIN failures = 1..Len(failures) /\ now \in Nat
           /\ \A i \in 1..Len(failures) : failures[i] \in RequestFailures
<1>1. failures \in Seq(RequestFailures) /\ active \in Actives /\ now \in Nat
  BY DEF Inv, TypeOK
<1> QED
  BY <1>1, LenProperties, ElementOfSeq

-----------------------------------------------------------------------------
(* The resolution.                                                         *)

LEMMA RefusedQuiet ==
    ASSUME active \in Actives, NEW fs \in RefusedRecords
    PROVE  /\ fs \in Seq(RequestFailures) /\ Len(fs) \in 0..1
           /\ AllQuiet(provider_kind, fs, Len(fs))
<1>1. CASE fs = <<>>
  BY <1>1, EmptySeq DEF AllQuiet
<1>2. ASSUME NEW d \in {"next", "terminal"}, fs = <<Failure("locate", "error", d, None, None)>>
      PROVE  /\ fs \in Seq(RequestFailures) /\ Len(fs) \in 0..1
             /\ AllQuiet(provider_kind, fs, Len(fs))
  <2> DEFINE f == Failure("locate", "error", d, None, None)
  <2>1. /\ f \in RequestFailures /\ f.stage = "locate" /\ f.outcome = "error"
        /\ f.disposition = d /\ f.http_status = None
    BY DEF Failure, RequestFailures, Actives, FailureOutcomes, Stages
  <2>2. None \notin {204, 429, 503}
    BY AttemptAssumption
  <2> HIDE DEF f
  <2>3. Quiet(provider_kind, f)
    BY <2>1, <2>2 DEF Quiet, Limit
  <2>4. fs = <<f>>
    BY <1>2 DEF f
  <2>5. fs \in Seq(RequestFailures) /\ Len(fs) = 1 /\ fs[1] = f
    BY <2>1, <2>4
  <2> QED
    BY <2>3, <2>5 DEF AllQuiet
<1> QED
  BY <1>1, <1>2 DEF RefusedRecords

\* The resolution ends the attempt: nothing was contacted or measured.
LEMMA EndsUnresolved ==
    ASSUME Inv, at = "resolve", NEW fs \in RefusedRecords, NEW f \in RequestFailures,
           f.stage # "cleanup", f.outcome \in {"error", "no_capacity", "rate_limited"},
           failures' = Append(fs, f), at' = "done", outcome' = f.outcome,
           candidates' \in 0..MaxCandidates, candidate' = candidate,
           admission' \in {"untracked", "refused"},
           UNCHANGED <<provider_kind, now, addresses, active, download, upload,
                       failures_before, received, transfer, history>>
    PROVE  Inv'
<1>1. /\ fs \in Seq(RequestFailures) /\ Len(fs) \in 0..1
      /\ AllQuiet(provider_kind, fs, Len(fs)) /\ Longer(fs, failures', f)
  BY RefusedQuiet, AppendLonger, InvTyped
<1>2. /\ failures' \in Seq(RequestFailures) /\ Len(failures') = Len(fs) + 1
      /\ Last(failures') = f /\ failures' # <<>> /\ \A i \in 1..Len(fs) : failures'[i] = fs[i]
  BY <1>1 DEF Longer
<1>3. /\ TypeOK /\ candidate = 0 /\ contacted = {} /\ download = None /\ downloaded = None
      /\ upload = None /\ valid = {} /\ failures = <<>> /\ failures_before = 0
      /\ transfer = None
  <2>1. /\ TypeOK /\ candidate = 0 /\ contacted = {} /\ active.direction = None
        /\ upload = None /\ valid = {} /\ failures = <<>>
    BY DEF Inv, Placed, Results
  <2>2. download = None /\ downloaded = None
    BY <2>1, NoneAssumption DEF Inv, Results, Directions
  <2>3. failures_before = 0 /\ transfer = None
    BY <2>1, EmptySeq DEF TypeOK
  <2> QED
    BY <2>1, <2>2, <2>3
<1>4. TypeOK'
  <2>1. outcome' \in Outcomes /\ outcome' # None
    BY NoneAssumption DEF Outcomes, FailureOutcomes
  <2>2. candidate' \in 0..candidates' /\ failures_before' \in 0..Len(failures')
    BY <1>1, <1>2, <1>3
  <2> QED
    BY <1>2, <1>3, <2>1, <2>2 DEF TypeOK, history
<1>5. Placed' /\ Explained' /\ Timed'
  BY DEF Placed, Explained, Timed, Running, Directions
<1>6. Results'
  BY <1>3 DEF Results, DownloadKept, history
<1>7. Final'
  <2>1. OutcomeSound'
    BY <1>2, <1>3 DEF OutcomeSound, history
  <2>2. ResultsRetained'
    BY <1>3 DEF ResultsRetained, history
  <2>3. AllQuiet(provider_kind', failures', Len(failures') - 1)
    BY <1>1, <1>2 DEF AllQuiet
  <2> QED
    BY <1>2, <2>1, <2>2, <2>3 DEF Final
<1> QED
  BY <1>4, <1>5, <1>6, <1>7 DEF Inv

\* A direction begins, after the resolution or after another direction.
LEMMA Begins ==
    ASSUME Inv, NEW c \in 1..candidates', NEW dir \in Directions, Begin(c, dir),
           candidates' \in 0..MaxCandidates, addresses' \in 0..MaxAddresses,
           failures' \in Seq(RequestFailures), AllQuiet(provider_kind, failures', Len(failures')),
           \A k \in 1..(c - 1) : Refused(failures', k),
           admission' = "reserved", transfer' = None, upload' = None, valid = {}, outcome = None,
           download' \in Downloads \cup {None}, downloaded' \in Requests \cup {None},
           received' \in BOOLEAN, \A id \in contacted : id[2] = "download",
           dir = "download" => download' = None /\ downloaded' = None,
           dir = "upload" => download' # None \/ Explains(failures', "download"),
           DownloadKept',
           UNCHANGED <<provider_kind, now, contacted, valid, cleanup_began>>
    PROVE  Inv'
<1>1. /\ active' = [stage |-> "dns", direction |-> dir, request_id |-> <<c, dir, 1>>,
                    since |-> now]
      /\ failures_before' = Len(failures') /\ candidate' = c /\ at' = "dns"
      /\ outcome' = None
  BY DEF Begin
<1>2. c \in 1..MaxCandidates /\ <<c, dir, 1>> \in Requests /\ MaxCandidates \in Nat
  BY AttemptAssumption DEF Requests
<1>3. TypeOK'
  <2>1. active' \in Actives
    BY <1>1, <1>2, InvTyped DEF Actives, Stages
  <2>2. failures_before' \in 0..Len(failures') /\ candidate' \in 0..candidates'
    BY <1>1, LenProperties
  <2> QED
    BY <1>1, <2>1, <2>2 DEF TypeOK, Inv
<1>4. Placed'
  BY <1>1, <1>2 DEF Placed, Running, Directions
<1>5. Explained'
  <2>1. (failures_before' + 1)..Len(failures') = {}
    BY <1>1, LenProperties
  <2> QED
    BY <1>1, <2>1 DEF Explained
<1>6. Results'
  BY <1>1 DEF Results, Directions
<1>7. Timed' /\ Final'
  BY <1>1 DEF Timed, Final
<1> QED
  BY <1>3, <1>4, <1>5, <1>6, <1>7 DEF Inv

-----------------------------------------------------------------------------
(* The end of a direction.                                                 *)

LEMMA InvRunning ==
    ASSUME Inv, Running
    PROVE  /\ AllQuiet(provider_kind, failures, Len(failures))
           /\ \A i \in (failures_before + 1)..Len(failures) :
                failures[i].disposition = "terminal" /\ failures[i].direction = active.direction
           /\ \A k \in 1..(candidate - 1) : Refused(failures, k)
           /\ failures_before \in 0..Len(failures) /\ candidate \in 1..candidates
           /\ candidates \in 0..MaxCandidates /\ admission = "reserved" /\ outcome = None
           /\ active.request_id \in Requests /\ active.request_id[1] = candidate
           /\ active.request_id[2] = active.direction
           /\ contacted \in SUBSET Requests
BY DEF Inv, TypeOK, Placed, Explained, Running

\* The last word of a direction: nothing lets the direction, the candidate or
\* the attempt go on that is not quiet.
LastWord(f) ==
    /\ Owned(f)
    /\ \/ Quiet(provider_kind, f) /\ f.disposition = "terminal"
       \/ /\ Quiet(provider_kind, f) /\ f.disposition = "next"
          /\ f.http_status = 503 /\ f.outcome = "no_capacity"
       \/ f.disposition = "provider" /\ f.outcome = "rate_limited" /\ f.stage # "cleanup"
       \/ /\ f.stage = "cleanup" /\ f.since = cleanup_began /\ active.direction = "upload"
          /\ f.disposition = "terminal" /\ f.outcome = "error"

\* A direction that ends without a measurement has a failure of its own.
Grown(fs, measured) ==
    \/ fs = failures /\ (measured = None => failures_before < Len(failures))
    \/ \E f : Longer(failures, fs, f) /\ LastWord(f)

LEMMA GrownReport ==
    ASSUME Inv, Running, NEW fs, NEW measured, Grown(fs, measured)
    PROVE  /\ fs \in Seq(RequestFailures) /\ Len(fs) \in Nat /\ Len(failures) <= Len(fs)
           /\ DOMAIN fs = 1..Len(fs) /\ (fs # <<>> => Len(fs) > 0)
           /\ \A i \in 1..Len(failures) : fs[i] = failures[i]
           /\ AllQuiet(provider_kind, fs, Len(fs) - 1)
           /\ \A k \in 1..(candidate - 1) : Refused(fs, k)
           /\ Explains(failures, "download") => Explains(fs, "download")
           /\ fs # <<>> => /\ Last(fs) = fs[Len(fs)]
                           /\ \/ Quiet(provider_kind, Last(fs))
                              \/ LastWord(Last(fs)) /\ Longer(failures, fs, Last(fs))
           /\ measured = None => Explains(fs, active.direction) /\ fs # <<>>
<1>1. /\ failures \in Seq(RequestFailures) /\ Len(failures) \in Nat
      /\ AllQuiet(provider_kind, failures, Len(failures))
      /\ \A k \in 1..(candidate - 1) : Refused(failures, k)
      /\ failures_before \in 0..Len(failures)
      /\ \A i \in (failures_before + 1)..Len(failures) :
           failures[i].direction = active.direction
  BY InvRunning, InvTyped
<1>2. /\ fs \in Seq(RequestFailures) /\ Len(failures) <= Len(fs)
      /\ \A i \in 1..Len(failures) : fs[i] = failures[i]
  BY <1>1 DEF Grown, Longer
<1>3. Len(fs) \in Nat /\ DOMAIN fs = 1..Len(fs) /\ (fs # <<>> => Len(fs) > 0)
  BY <1>2, LenProperties, EmptySeq
<1>4. fs # <<>> => Last(fs) = fs[Len(fs)]
  BY DEF Last
<1>5. \A k \in 1..(candidate - 1) : Refused(fs, k)
  <2>1. ASSUME NEW k \in 1..(candidate - 1) PROVE Refused(fs, k)
    <3>1. PICK i \in 1..Len(failures) :
            failures[i].http_status = 503 /\ failures[i].request_id[1] = k
      BY <1>1 DEF Refused
    <3> QED
      BY <1>1, <1>2, <1>3, <3>1 DEF Refused
  <2> QED
    BY <2>1
<1>6. Explains(failures, "download") => Explains(fs, "download")
  BY <1>1, <1>2, <1>3 DEF Explains
<1>7. CASE fs = failures /\ (measured = None => failures_before < Len(failures))
  <2>1. AllQuiet(provider_kind, fs, Len(fs) - 1)
    BY <1>1, <1>7 DEF AllQuiet
  <2>2. fs # <<>> => Quiet(provider_kind, Last(fs))
    BY <1>1, <1>3, <1>4, <1>7 DEF AllQuiet
  <2>3. ASSUME measured = None PROVE Explains(fs, active.direction) /\ fs # <<>>
    <3>1. Len(failures) \in 1..Len(failures) /\ Len(failures) \in (failures_before + 1)..Len(failures)
      BY <1>1, <1>7, <2>3
    <3>2. failures[Len(failures)].direction = active.direction
      BY <1>1, <3>1
    <3>3. failures # <<>>
      BY <3>1, EmptySeq
    <3> QED
      BY <1>7, <3>1, <3>2, <3>3 DEF Explains
  <2> QED
    BY <1>2, <1>3, <1>4, <1>5, <1>6, <2>1, <2>2, <2>3
<1>8. ASSUME NEW f, Longer(failures, fs, f), LastWord(f)
      PROVE  /\ AllQuiet(provider_kind, fs, Len(fs) - 1)
             /\ fs # <<>> /\ Last(fs) = f
             /\ Explains(fs, active.direction)
  <2>1. /\ Len(fs) = Len(failures) + 1 /\ fs[Len(failures) + 1] = f /\ fs # <<>> /\ Last(fs) = f
        /\ Len(failures) + 1 \in 1..Len(fs)
    BY <1>1, <1>8 DEF Longer
  <2>2. AllQuiet(provider_kind, fs, Len(fs) - 1)
    BY <1>1, <1>2, <2>1 DEF AllQuiet
  <2>3. Explains(fs, active.direction)
    BY <1>8, <2>1 DEF Explains, LastWord, Owned
  <2> QED
    BY <2>1, <2>2, <2>3
<1> QED
  BY <1>2, <1>3, <1>4, <1>5, <1>6, <1>7, <1>8 DEF Grown

LEMMA AfterDownloadInv ==
    ASSUME Inv, Running, active.direction = "download", NEW fs,
           NEW measured \in Downloads \cup {None}, Grown(fs, measured),
           measured # None => measured.request_id = active.request_id,
           downloaded' = (IF measured = None THEN downloaded ELSE active.request_id),
           AfterDownload(fs, measured), addresses' \in 0..MaxAddresses, received' \in BOOLEAN,
           transfer' = None,
           UNCHANGED <<provider_kind, now, candidates, admission, contacted, valid, cleanup_began>>
    PROVE  Inv'
<1>1. failures' = fs /\ download' = measured /\ upload' = upload
  BY DEF AfterDownload
<1>2. /\ TypeOK /\ candidate \in 1..candidates /\ candidates \in 0..MaxCandidates
      /\ admission = "reserved" /\ outcome = None /\ at \notin {"upload", "done", "resolve"}
      /\ active.request_id \in Requests /\ active.request_id[1] = candidate
      /\ contacted \in SUBSET Requests
  BY InvRunning DEF Inv, Placed, Running, Directions
<1>3. /\ upload = None /\ valid = {} /\ download = None /\ downloaded = None
      /\ \A id \in contacted : id[2] = "download"
  BY <1>2 DEF Inv, Results, Placed
<1>4. /\ downloaded' \in Requests \cup {None} /\ download' \in Downloads \cup {None}
      /\ DownloadKept' /\ (measured = None => downloaded' = None)
  BY <1>1, <1>2, <1>3 DEF DownloadKept
<1>5. /\ fs \in Seq(RequestFailures) /\ Len(fs) \in Nat /\ (fs # <<>> => Len(fs) > 0)
      /\ DOMAIN fs = 1..Len(fs) /\ AllQuiet(provider_kind, fs, Len(fs) - 1)
      /\ \A k \in 1..(candidate - 1) : Refused(fs, k)
      /\ fs # <<>> => /\ Last(fs) = fs[Len(fs)]
                      /\ \/ Quiet(provider_kind, Last(fs))
                         \/ LastWord(Last(fs)) /\ Longer(failures, fs, Last(fs))
      /\ measured = None => Explains(fs, "download") /\ fs # <<>>
  BY GrownReport
<1>6. ASSUME ~provider_stop_outcome(fs) PROVE AllQuiet(provider_kind, fs, Len(fs))
  <2>1. fs # <<>> => Quiet(provider_kind, Last(fs))
    BY <1>5, <1>6 DEF provider_stop_outcome, LastWord
  <2> QED
    BY <1>5, <2>1 DEF AllQuiet
\* What every way to end the attempt here has in common.
<1>7. ASSUME NEW o \in FailureOutcomes, Over(o), fs # <<>>, Last(fs).outcome = o,
             Last(fs).stage # "cleanup", Explains(fs, "download"), o # "error",
             o = "no_capacity" => download' = None /\ \A k \in 1..candidates : Refused(fs, k)
      PROVE  Inv'
  <2>1. /\ at' = "done" /\ outcome' = o /\ candidate' = candidate
        /\ active' = active /\ failures_before' = failures_before
    BY <1>7 DEF Over, Finish
  <2>2. o \in Outcomes /\ o # None /\ o \notin {"success", "partial"}
    BY NoneAssumption DEF Outcomes, FailureOutcomes
  <2>3. TypeOK'
    <3>1. failures_before' \in 0..Len(failures')
      BY <1>1, <1>5, <2>1, GrownReport, InvRunning
    <3> QED
      BY <1>1, <1>2, <1>4, <1>5, <2>1, <2>2, <3>1 DEF TypeOK
  <2>4. Placed' /\ Explained' /\ Timed'
    BY <2>1 DEF Placed, Explained, Timed, Running, Directions
  <2>5. Results'
    BY <1>4, <2>1 DEF Results
  <2>6. OutcomeSound'
    <3>1. DOMAIN failures' = 1..Len(failures') /\ failures' = fs
      BY <1>1, <1>5
    <3>2. Has("download")'
      BY <1>7, <3>1 DEF Has, Explains
    <3>3. \A id \in contacted' : id[2] = "download"
      BY <1>3
    <3>4. o = "no_capacity" =>
            /\ download' = None /\ upload' = None
            /\ \A k \in 1..candidates' : \E i \in DOMAIN failures' :
                 failures'[i].http_status = 503 /\ failures'[i].request_id[1] = k
      BY <1>1, <1>3, <1>7, <3>1 DEF Refused
    <3> QED
      BY <1>7, <2>1, <2>2, <3>1, <3>2, <3>3, <3>4 DEF OutcomeSound
  <2>7. ResultsRetained'
    BY <1>1, <1>3, <1>4 DEF ResultsRetained, DownloadKept
  <2>8. Final'
    BY <1>1, <1>5, <1>7, <2>6, <2>7 DEF Final
  <2> QED
    BY <2>3, <2>4, <2>5, <2>8 DEF Inv
<1>8. CASE provider_stop_outcome(fs)
  <2>1. fs # <<>> /\ Last(fs).disposition = "provider" /\ Over(Last(fs).outcome)
    BY <1>8 DEF AfterDownload, provider_stop_outcome
  <2>2. LastWord(Last(fs)) /\ Longer(failures, fs, Last(fs))
    BY <1>5, <2>1 DEF Quiet
  <2>3. Last(fs).outcome = "rate_limited" /\ Last(fs).stage # "cleanup"
        /\ Last(fs).direction = "download"
    BY <2>1, <2>2 DEF LastWord, Quiet, Owned
  <2>4. Explains(fs, "download")
    BY <1>5, <2>1, <2>3 DEF Explains
  <2> QED
    BY <1>7, <2>1, <2>3, <2>4 DEF FailureOutcomes
<1>9. CASE ~provider_stop_outcome(fs) /\ fs # <<>> /\ TryNext(fs, measured)
  <2>1. /\ measured = None /\ Last(fs).disposition = "next"
        /\ \/ candidate < candidates /\ Begin(candidate + 1, "download")
           \/ candidate = candidates /\ Over("no_capacity")
    BY <1>9 DEF AfterDownload, TryNext
  <2>2. Longer(failures, fs, Last(fs)) /\ LastWord(Last(fs))
    <3>1. ASSUME fs = failures, failures_before < Len(failures) PROVE FALSE
      <4>1. failures[Len(failures)].disposition = "terminal"
        BY <3>1, InvRunning, InvTyped
      <4> QED
        BY <1>5, <1>9, <2>1, <3>1, <4>1
    <3>2. ASSUME NEW f, Longer(failures, fs, f), LastWord(f)
          PROVE  Longer(failures, fs, Last(fs)) /\ LastWord(Last(fs))
      BY <3>2 DEF Longer
    <3> QED
      BY <2>1, <3>1, <3>2 DEF Grown
  <2>3. /\ Last(fs).http_status = 503 /\ Last(fs).outcome = "no_capacity"
        /\ Last(fs).request_id[1] = candidate /\ Last(fs).stage # "cleanup"
    BY <1>2, <2>1, <2>2 DEF LastWord, Owned, Quiet
  <2>4. \A k \in 1..candidate : Refused(fs, k)
    <3>1. Refused(fs, candidate)
      BY <1>5, <1>9, <2>3 DEF Refused
    <3> QED
      BY <1>2, <1>5, <3>1
  <2>5. CASE candidate < candidates /\ Begin(candidate + 1, "download")
    <3>1. candidate + 1 \in 1..candidates' /\ \A k \in 1..(candidate + 1 - 1) : Refused(fs, k)
      BY <1>2, <2>4, <2>5
    <3> DEFINE c == candidate + 1
    <3>2. Begin(c, "download") /\ c \in 1..candidates' /\ \A k \in 1..(c - 1) : Refused(failures', k)
      <4>1. Begin(c, "download")
        BY <2>5
      <4>2. c \in 1..candidates'
        BY <3>1
      <4>3. ASSUME NEW k \in 1..(c - 1) PROVE Refused(failures', k)
        <5>1. k \in 1..candidate
          BY <1>2
        <5>2. Refused(fs, k)
          BY <2>4, <5>1
        <5> QED
          BY <1>1, <5>2
      <4> QED
        BY <4>1, <4>2, <4>3
    <3>3. "download" \in Directions /\ "download" # "upload"
      BY DEF Directions
    <3> HIDE DEF c
    <3>4. /\ failures' \in Seq(RequestFailures)
          /\ AllQuiet(provider_kind, failures', Len(failures'))
          /\ download' = None /\ downloaded' = None /\ upload' = None
      BY <1>1, <1>3, <1>4, <1>5, <1>6, <1>9, <2>1
    <3> QED
      BY <1>2, <1>3, <1>4, <3>2, <3>3, <3>4, Begins
  <2>6. CASE candidate = candidates /\ Over("no_capacity")
    BY <1>1, <1>5, <1>7, <1>9, <2>1, <2>3, <2>4, <2>6 DEF FailureOutcomes
  <2> QED
    BY <2>1, <2>5, <2>6
<1>10. CASE ~provider_stop_outcome(fs) /\ ~(fs # <<>> /\ TryNext(fs, measured))
  <2>1. Begin(candidate, "upload")
    BY <1>10 DEF AfterDownload
  <2>2. "upload" \in Directions /\ "upload" # "download"
    BY DEF Directions
  <2>3. /\ failures' \in Seq(RequestFailures)
        /\ AllQuiet(provider_kind, failures', Len(failures'))
        /\ \A k \in 1..(candidate - 1) : Refused(failures', k)
        /\ upload' = None /\ candidate \in 1..candidates'
        /\ download' # None \/ Explains(failures', "download")
    BY <1>1, <1>2, <1>3, <1>5, <1>6, <1>10
  <2> QED
    BY <1>2, <1>3, <1>4, <2>1, <2>2, <2>3, Begins
<1> QED
  BY <1>8, <1>9, <1>10

LEMMA AfterUploadInv ==
    ASSUME Inv, Running, active.direction = "upload", NEW fs,
           NEW m \in Reports \cup {None}, NEW measured,
           measured = UploadResult(active.request_id, m), Grown(fs, measured), Latest(m, valid),
           m # None => active.request_id \in contacted,
           AfterUpload(fs, measured), addresses' \in 0..MaxAddresses, received' \in BOOLEAN,
           transfer' = None,
           UNCHANGED <<provider_kind, now, candidates, admission, contacted, valid, downloaded,
                       cleanup_began>>
    PROVE  Inv'
<1>1. failures' = fs /\ upload' = measured /\ download' = download
  BY DEF AfterUpload
<1>2. /\ TypeOK /\ candidate \in 1..candidates /\ candidates \in 0..MaxCandidates
      /\ admission = "reserved" /\ outcome = None
      /\ active.request_id \in Requests /\ active.request_id[2] = "upload"
      /\ contacted \in SUBSET Requests
  BY InvRunning DEF Inv
<1>3. DownloadKept /\ (download # None \/ Explains(failures, "download"))
  BY DEF Inv, Results, Explained
<1>4. /\ fs \in Seq(RequestFailures) /\ Len(fs) \in Nat /\ (fs # <<>> => Len(fs) > 0)
      /\ DOMAIN fs = 1..Len(fs) /\ AllQuiet(provider_kind, fs, Len(fs) - 1)
      /\ Explains(failures, "download") => Explains(fs, "download")
      /\ fs # <<>> => /\ Last(fs) = fs[Len(fs)]
                      /\ \/ Quiet(provider_kind, Last(fs))
                         \/ LastWord(Last(fs)) /\ Longer(failures, fs, Last(fs))
      /\ measured = None => Explains(fs, "upload") /\ fs # <<>>
  BY GrownReport
<1>5. measured \in Uploads \cup {None} /\ (measured = None <=> m = None)
  <2>1. CASE m = None
    BY <2>1 DEF UploadResult
  <2>2. CASE m # None
    <3>1. measured \in Uploads
      BY <1>2, <2>2 DEF UploadResult, Uploads, Reports
    <3> QED
      BY <2>2, <3>1, NoneAssumption
  <2> QED
    BY <2>1, <2>2
<1>6. \/ provider_stop_outcome(fs) /\ Over(Last(fs).outcome)
      \/ ~provider_stop_outcome(fs) /\ Over(Measured(download, measured))
  BY DEF AfterUpload
<1>7. PICK o : Over(o) /\ \/ provider_stop_outcome(fs) /\ o = Last(fs).outcome
                          \/ ~provider_stop_outcome(fs) /\ o = Measured(download, measured)
  BY <1>6
<1>8. /\ at' = "done" /\ outcome' = o /\ candidate' = candidate
      /\ active' = active /\ failures_before' = failures_before
  BY <1>7 DEF Over, Finish
<1>9. \/ fs # <<>> /\ o = "rate_limited" /\ Last(fs).outcome = o
      \/ o = "success" /\ download # None /\ measured # None
      \/ o = "partial" /\ (download = None) # (measured = None)
      \/ o = "error" /\ download = None /\ measured = None
  <2>1. CASE provider_stop_outcome(fs)
    <3>1. fs # <<>> /\ Last(fs).disposition = "provider" /\ o = Last(fs).outcome
      BY <1>7, <2>1 DEF provider_stop_outcome
    <3> QED
      BY <1>4, <3>1 DEF LastWord, Quiet
  <2>2. CASE ~provider_stop_outcome(fs)
    BY <1>7, <2>2 DEF Measured
  <2> QED
    BY <2>1, <2>2
<1>10. o \in Outcomes /\ o # None
  BY <1>9, NoneAssumption DEF Outcomes, FailureOutcomes
<1>11. Len(failures) <= Len(fs)
  BY GrownReport
<1>12. TypeOK'
  <2>1. failures_before' \in 0..Len(failures')
    BY <1>1, <1>4, <1>8, <1>11, InvRunning
  <2> QED
    BY <1>1, <1>2, <1>4, <1>5, <1>8, <1>10, <2>1 DEF TypeOK
<1>13. Placed' /\ Explained' /\ Timed'
  BY <1>8 DEF Placed, Explained, Timed, Running, Directions
<1>14. Results'
  BY <1>1, <1>3, <1>8 DEF Results, DownloadKept
<1>15. OutcomeSound'
  <2>1. DOMAIN failures' = 1..Len(failures') /\ failures' = fs
    BY <1>1, <1>4
  <2>2. o # "success" => fs # <<>> /\ Last(fs).outcome \in {o, "error", "no_capacity"}
    <3>1. ASSUME o # "success" PROVE fs # <<>>
      <4>1. CASE measured = None
        BY <1>4, <4>1
      <4>2. CASE download = None
        BY <1>3, <1>4, <4>2, EmptySeq DEF Explains
      <4> QED
        BY <1>9, <3>1, <4>1, <4>2
    <3>2. CASE o = "rate_limited"
      BY <1>9, <3>2
    <3>3. ASSUME o # "success", o # "rate_limited"
          PROVE  Last(fs).outcome \in {"error", "no_capacity"}
      <4>1. fs # <<>> /\ ~provider_stop_outcome(fs)
        <5>1. provider_stop_outcome(fs) => o = "rate_limited"
          BY <1>4, <1>7 DEF provider_stop_outcome, LastWord, Quiet
        <5> QED
          BY <3>1, <3>3, <5>1
      <4>2. Last(fs).disposition # "provider"
        BY <4>1 DEF provider_stop_outcome
      <4> QED
        BY <1>4, <4>1, <4>2 DEF LastWord, Quiet
    <3> QED
      BY <3>1, <3>2, <3>3
  <2>3. ASSUME NEW id \in contacted'
        PROVE  \/ id[2] = "download" /\ download' # None
               \/ id[2] = "upload" /\ upload' # None
               \/ Has(id[2])'
    <3>1. id[2] \in {"download", "upload"}
      BY <1>2 DEF Requests, Directions
    <3>2. CASE id[2] = "download"
      BY <1>1, <1>3, <1>4, <2>1, <3>2 DEF Has, Explains
    <3>3. CASE id[2] = "upload"
      BY <1>1, <1>4, <2>1, <3>3 DEF Has, Explains
    <3> QED
      BY <3>1, <3>2, <3>3
  <2>4. /\ outcome' = "success" => download' # None /\ upload' # None
        /\ outcome' = "partial" => (download' = None) # (upload' = None)
        /\ outcome' = "error" => download' = None /\ upload' = None
        /\ outcome' # "no_capacity"
    BY <1>1, <1>8, <1>9
  <2> QED
    BY <1>8, <2>1, <2>2, <2>3, <2>4 DEF OutcomeSound
<1>16. ResultsRetained'
  <2>1. downloaded' # None => download' # None /\ download'.request_id = downloaded'
    BY <1>1, <1>3 DEF DownloadKept
  <2>2. (upload' = None) = (valid' = {})
    BY <1>1, <1>5 DEF Latest
  <2>3. ASSUME upload' # None
        PROVE  /\ upload'.request_id \in contacted' /\ upload'.request_id[2] = "upload"
               /\ [bytes |-> upload'.bytes, elapsed |-> upload'.elapsed] \in valid'
               /\ \A r \in valid' : ~(r.elapsed > upload'.elapsed /\ r.bytes >= upload'.bytes)
    <3>1. m # None /\ m \in Reports
      BY <1>1, <1>5, <2>3
    <3>2. upload' = [request_id |-> active.request_id, bytes |-> m.bytes, elapsed |-> m.elapsed]
      BY <1>1, <3>1 DEF UploadResult
    <3>3. [bytes |-> m.bytes, elapsed |-> m.elapsed] = m
      BY <3>1 DEF Reports
    <3>4. m \in valid /\ \A r \in valid : ~(r.elapsed > m.elapsed /\ r.bytes >= m.bytes)
      BY <3>1 DEF Latest
    <3> QED
      BY <1>2, <3>1, <3>2, <3>3, <3>4
  <2> QED
    BY <2>1, <2>2, <2>3 DEF ResultsRetained
<1>17. Final'
  <2>1. fs # <<>> /\ Last(fs).stage = "cleanup" => Last(fs).since = cleanup_began
    BY <1>4 DEF LastWord, Quiet
  <2> QED
    BY <1>1, <1>4, <1>15, <1>16, <2>1 DEF Final
<1> QED
  BY <1>12, <1>13, <1>14, <1>17 DEF Inv

-----------------------------------------------------------------------------
(* The actions of the resolution and of setting a connection up.           *)

LEMMA LocateFailsInv == Inv /\ LocateFails => Inv'
<1> SUFFICES ASSUME Inv, LocateFails PROVE Inv'
  OBVIOUS
<1> DEFINE f == simple("locate")
<1>1. f \in RequestFailures /\ f.stage = "locate" /\ f.outcome = "error"
  BY SimpleOwned, InvTyped DEF Owned, Stages
<1> HIDE DEF f
<1>2. /\ at = "resolve" /\ failures' = Append(<<>>, f) /\ at' = "done" /\ outcome' = f.outcome
      /\ UNCHANGED <<active, failures_before, candidate, candidates, admission, provider_kind,
                     now, addresses, download, upload, received, transfer, history>>
  BY DEF LocateFails, Resolving, Awaiting, ResolutionEnds, Over, Finish, f
<1>3. <<>> \in RefusedRecords /\ candidates' \in 0..MaxCandidates /\ admission = "untracked"
  BY <1>2 DEF RefusedRecords, Inv, TypeOK, Placed
<1> QED
  BY <1>1, <1>2, <1>3, EndsUnresolved

LEMMA LocateStatusInv == Inv /\ LocateStatus => Inv'
<1> SUFFICES ASSUME Inv, LocateStatus PROVE Inv'
  OBVIOUS
<1>1. PICK status \in {204, 429, 500, 503}, delay \in Delays \cup {None} :
        ResolutionEnds(<<>>, Failure("locate",
                           LocateOutcome(status, IF delay = None THEN None ELSE now + delay),
                           "provider", status, IF delay = None THEN None ELSE now + delay))
  BY DEF LocateStatus
<1> DEFINE retry_at == IF delay = None THEN None ELSE now + delay
           o == LocateOutcome(status, retry_at)
           f == Failure("locate", o, "provider", status, retry_at)
<1>2. retry_at \in Nat \cup {None}
  BY AttemptAssumption, InvTyped
<1>3. o \in {"no_capacity", "rate_limited", "error"} /\ o \in FailureOutcomes
  BY DEF LocateOutcome, FailureOutcomes
<1>4. ResolutionEnds(<<>>, f)
  BY <1>1
<1> HIDE DEF retry_at, o
<1>5. Built(f, "locate", o, "provider", status, retry_at)
  BY <1>2, <1>3, FailureOwned, InvTyped DEF Stages
<1>6. f \in RequestFailures /\ f.stage = "locate" /\ f.outcome = o
  BY <1>5 DEF Built, Owned
<1> HIDE DEF f
<1>7. /\ at = "resolve" /\ failures' = Append(<<>>, f) /\ at' = "done" /\ outcome' = f.outcome
      /\ UNCHANGED <<active, failures_before, candidate, candidates, admission, provider_kind,
                     now, addresses, download, upload, received, transfer, history>>
  BY <1>4 DEF LocateStatus, Resolving, Awaiting, ResolutionEnds, Over, Finish
<1>8. <<>> \in RefusedRecords /\ candidates' \in 0..MaxCandidates /\ admission = "untracked"
  BY <1>7 DEF RefusedRecords, Inv, TypeOK, Placed
<1> QED
  BY <1>3, <1>6, <1>7, <1>8, EndsUnresolved

LEMMA NoUsableTargetInv == Inv /\ NoUsableTarget => Inv'
<1> SUFFICES ASSUME Inv, NoUsableTarget PROVE Inv'
  OBVIOUS
<1> DEFINE f == simple("locate")
<1>1. f \in RequestFailures /\ f.stage = "locate" /\ f.outcome = "error"
  BY SimpleOwned, InvTyped DEF Owned, Stages
<1>2. PICK fs \in RefusedRecords : ResolutionEnds(fs, f)
  BY DEF NoUsableTarget
<1> HIDE DEF f
<1>3. /\ at = "resolve" /\ failures' = Append(fs, f) /\ at' = "done" /\ outcome' = f.outcome
      /\ UNCHANGED <<active, failures_before, candidate, candidates, admission, provider_kind,
                     now, addresses, download, upload, received, transfer, history>>
  BY <1>2 DEF NoUsableTarget, Resolving, Awaiting, ResolutionEnds, Over, Finish
<1>4. candidates' \in 0..MaxCandidates /\ admission = "untracked"
  BY <1>3 DEF Inv, TypeOK, Placed
<1> QED
  BY <1>1, <1>3, <1>4, EndsUnresolved

LEMMA ReserveInv == Inv /\ Reserve => Inv'
<1> SUFFICES ASSUME Inv, Reserve PROVE Inv'
  OBVIOUS
<1>1. /\ at = "resolve"
      /\ UNCHANGED <<provider_kind, now, addresses, download, upload, received, transfer, history>>
  BY DEF Reserve, Resolving, Awaiting
<1> DEFINE f == [simple("connect") EXCEPT !.since = now]
<1>2. PICK n \in IF provider_kind = "mlab" THEN 1..MaxCandidates ELSE {1},
           fs \in IF provider_kind = "mlab" THEN RefusedRecords ELSE {<<>>} :
        /\ candidates' = n
        /\ \/ admission' = "reserved" /\ failures' = fs /\ Begin(1, "download")
           \/ admission' = "refused" /\ failures' = Append(fs, f) /\ Over("error")
  BY DEF Reserve
<1>3. n \in 1..MaxCandidates /\ MaxCandidates \in Nat /\ candidates' \in 0..MaxCandidates
      /\ fs \in RefusedRecords /\ 1 \in 1..candidates'
  BY <1>2, AttemptAssumption DEF RefusedRecords
<1>4. /\ f \in RequestFailures /\ f.stage = "connect" /\ f.outcome = "error"
  <2>1. /\ simple("connect") \in RequestFailures /\ simple("connect").stage = "connect"
        /\ simple("connect").outcome = "error"
    BY SimpleOwned, InvTyped DEF Owned, Stages
  <2>2. now \in Nat
    BY InvTyped
  <2> HIDE DEF simple
  <2> QED
    BY <2>1, <2>2 DEF RequestFailures
<1> HIDE DEF f
<1>5. CASE admission' = "refused" /\ failures' = Append(fs, f) /\ Over("error")
  <2>1. /\ at' = "done" /\ outcome' = f.outcome
        /\ UNCHANGED <<active, failures_before, candidate>>
    BY <1>4, <1>5 DEF Over, Finish
  <2> QED
    BY <1>1, <1>3, <1>4, <1>5, <2>1, EndsUnresolved
<1>6. CASE admission' = "reserved" /\ failures' = fs /\ Begin(1, "download")
  <2>1. /\ contacted = {} /\ active.direction = None /\ upload = None /\ valid = {}
        /\ transfer = None /\ outcome = None /\ TypeOK
    BY <1>1 DEF Inv, Placed, Results, TypeOK
  <2>2. download = None /\ downloaded = None /\ DownloadKept
    BY <1>1, <2>1, NoneAssumption DEF Inv, Results, Directions
  <2>3. /\ fs \in Seq(RequestFailures) /\ AllQuiet(provider_kind, fs, Len(fs))
        /\ \A k \in 1..(1 - 1) : Refused(failures', k)
    BY <1>3, RefusedQuiet, InvTyped
  <2>4. "download" \in Directions /\ "download" # "upload"
    BY DEF Directions
  <2>5. DownloadKept'
    BY <1>1, <2>2 DEF DownloadKept, history
  <2>6. /\ addresses' \in 0..MaxAddresses /\ received' \in BOOLEAN /\ transfer' = None
        /\ upload' = None /\ download' = None /\ downloaded' = None
        /\ UNCHANGED <<provider_kind, now, contacted, valid, cleanup_began>>
    BY <1>1, <2>1, <2>2 DEF history, TypeOK
  <2> QED
    BY <1>3, <1>6, <2>1, <2>2, <2>3, <2>4, <2>5, <2>6, Begins
<1> QED
  BY <1>2, <1>5, <1>6

\* A failure ends a direction that is not transferring an upload.
LEMMA DirectionFailsInv ==
    ASSUME Inv, Running, at # "upload", NEW f, LastWord(f), f.stage # "cleanup",
           DirectionFails(Append(failures, f)), addresses' = addresses,
           UNCHANGED <<provider_kind, now, candidates, received, admission, valid, downloaded,
                       cleanup_began, transfer, contacted>>
    PROVE  Inv'
<1> DEFINE fs == Append(failures, f)
<1>1. Longer(failures, fs, f)
  BY AppendLonger, InvTyped DEF LastWord, Owned
<1>2. Grown(fs, None)
  BY <1>1 DEF Grown
<1>3. /\ addresses' \in 0..MaxAddresses /\ received' \in BOOLEAN /\ transfer' = None
      /\ valid = {} /\ active.direction \in Directions
  BY DEF Inv, TypeOK, Results, Running, Placed
<1> HIDE DEF fs
<1>4. CASE active.direction = "download"
  <2>1. AfterDownload(fs, None)
    BY <1>4 DEF DirectionFails, fs
  <2> QED
    BY <1>2, <1>3, <1>4, <2>1, AfterDownloadInv
<1>5. CASE active.direction = "upload"
  <2>1. AfterUpload(fs, None)
    BY <1>5 DEF DirectionFails, fs
  <2>2. Latest(None, valid) /\ UploadResult(active.request_id, None) = None
    BY <1>3 DEF Latest, UploadResult
  <2> QED
    BY <1>2, <1>3, <1>5, <2>1, <2>2, AfterUploadInv
<1> QED
  BY <1>3, <1>4, <1>5 DEF Directions

\* A step that goes on with the direction and adds no failure.
LEMMA StillRunning ==
    ASSUME Inv, Running, Running', active'.direction = active.direction,
           UNCHANGED <<provider_kind, failures, failures_before, candidate, download>>
    PROVE  Explained' /\ Final'
BY DEF Inv, Explained, Final, Running

\* Every connection is one of the current candidate and direction.
LEMMA ConnectInv ==
    ASSUME Inv, at \in {"dns", "connect", "tls", "handshake"}, NEW k \in Nat \ {0}, Connect(k),
           addresses' \in 0..MaxAddresses,
           \/ failures' = failures
           \/ \E f : /\ Longer(failures, failures', f) /\ Owned(f)
                     /\ f.disposition = "terminal" /\ Quiet(provider_kind, f),
           UNCHANGED <<provider_kind, now, candidate, candidates, download, upload,
                       failures_before, received, transfer, admission, outcome, valid,
                       downloaded, cleanup_began>>
    PROVE  Inv'
<1> DEFINE id == <<candidate, active.direction, k>>
<1>1. /\ active' = [active EXCEPT !.stage = "connect", !.since = now, !.request_id = id]
      /\ contacted' = contacted \cup {id} /\ at' = "connect"
  BY DEF Connect
<1>2. /\ Running /\ TypeOK /\ active \in Actives /\ now \in Nat /\ candidate \in 1..candidates
      /\ candidates \in 0..MaxCandidates /\ active.direction \in Directions
      /\ contacted \in SUBSET Requests /\ admission = "reserved"
  BY InvRunning, InvTyped DEF Running, Inv, Placed
<1>3. candidate \in 1..MaxCandidates
  BY <1>2, AttemptAssumption
<1>4. id \in Requests /\ id[1] = candidate /\ id[2] = active.direction
  BY <1>2, <1>3 DEF Requests
<1> HIDE DEF id
<1>5. /\ active' \in Actives /\ active'.request_id = id /\ active'.stage = "connect"
      /\ active'.direction = active.direction
  BY <1>1, <1>2, <1>4 DEF Actives, Stages
<1>6. /\ failures \in Seq(RequestFailures) /\ failures' \in Seq(RequestFailures)
      /\ Len(failures) \in Nat /\ Len(failures) <= Len(failures') /\ Len(failures') \in Nat
      /\ \A i \in 1..Len(failures) : failures'[i] = failures[i]
      /\ \A i \in 1..Len(failures') : i \notin 1..Len(failures) =>
            /\ failures'[i].disposition = "terminal" /\ Quiet(provider_kind, failures'[i])
            /\ failures'[i].direction = active.direction
  <2>1. CASE failures' = failures
    BY <2>1, InvTyped
  <2>2. ASSUME NEW f, Longer(failures, failures', f), Owned(f), f.disposition = "terminal",
               Quiet(provider_kind, f)
        PROVE  /\ failures' \in Seq(RequestFailures) /\ Len(failures) <= Len(failures')
               /\ Len(failures') \in Nat /\ \A i \in 1..Len(failures) : failures'[i] = failures[i]
               /\ \A i \in 1..Len(failures') : i \notin 1..Len(failures) =>
                     /\ failures'[i].disposition = "terminal" /\ Quiet(provider_kind, failures'[i])
                     /\ failures'[i].direction = active.direction
    <3>1. /\ failures' \in Seq(RequestFailures) /\ Len(failures') = Len(failures) + 1
          /\ \A i \in 1..Len(failures) : failures'[i] = failures[i]
          /\ failures'[Len(failures) + 1] = f /\ Len(failures) \in Nat
      BY <2>2, InvTyped DEF Longer
    <3>2. ASSUME NEW i \in 1..Len(failures'), i \notin 1..Len(failures) PROVE failures'[i] = f
      BY <3>1, <3>2
    <3> QED
      BY <2>2, <3>1, <3>2 DEF Owned
  <2> QED
    BY <2>1, <2>2, InvTyped
<1>7. TypeOK'
  <2>1. failures_before' \in 0..Len(failures')
    BY <1>2, <1>6, InvRunning
  <2>2. contacted' \in SUBSET Requests
    BY <1>1, <1>2, <1>4
  <2>3. transfer' = None /\ outcome' = None
    BY <1>2 DEF TypeOK
  <2> QED
    BY <1>1, <1>2, <1>5, <1>6, <2>1, <2>2, <2>3 DEF TypeOK
<1>8. Placed'
  <2>1. id \in contacted'
    BY <1>1
  <2>2. ASSUME active'.direction # "upload", NEW c \in contacted' PROVE c[2] = "download"
    <3>1. CASE c = id
      BY <1>2, <1>4, <1>5, <2>2, <3>1 DEF Directions
    <3>2. CASE c \in contacted
      BY <1>2, <1>5, <2>2, <3>2 DEF Inv, Placed, Running
    <3> QED
      BY <1>1, <3>1, <3>2
  <2> QED
    BY <1>1, <1>2, <1>4, <1>5, <2>1, <2>2 DEF Placed, Running, Directions
<1>9. Explained'
  <2>1. AllQuiet(provider_kind', failures', Len(failures'))
    BY <1>2, <1>6, InvRunning DEF AllQuiet
  <2>2. ASSUME NEW i \in (failures_before' + 1)..Len(failures')
        PROVE  failures'[i].disposition = "terminal" /\ failures'[i].direction = active'.direction
    <3>1. i \in 1..Len(failures') /\ (i \in 1..Len(failures) => i \in (failures_before + 1)..Len(failures))
      BY <1>2, <1>6, InvRunning
    <3> QED
      BY <1>2, <1>5, <1>6, <3>1, InvRunning
  <2>3. ASSUME NEW j \in 1..(candidate' - 1) PROVE Refused(failures', j)
    <3>1. PICK i \in 1..Len(failures) :
            failures[i].http_status = 503 /\ failures[i].request_id[1] = j
      BY <1>2, InvRunning DEF Refused
    <3> QED
      BY <1>6, <3>1 DEF Refused
  <2>4. active'.direction = "upload" => download' # None \/ Explains(failures', "download")
    BY <1>2, <1>5, <1>6 DEF Inv, Explained, Explains
  <2> QED
    BY <2>1, <2>2, <2>3, <2>4 DEF Explained
<1>10. Results'
  BY <1>1, <1>2, <1>5 DEF Inv, Results, DownloadKept, Running
<1>11. Timed' /\ Final'
  BY <1>1 DEF Timed, Final
<1> QED
  BY <1>7, <1>8, <1>9, <1>10, <1>11 DEF Inv

LEMMA DnsAnswersInv == Inv /\ DnsAnswers => Inv'
<1> SUFFICES ASSUME Inv, DnsAnswers PROVE Inv'
  OBVIOUS
<1>1. PICK n \in 1..MaxAddresses : addresses' = n - 1
  BY DEF DnsAnswers
<1>2. /\ at \in {"dns", "connect", "tls", "handshake"} /\ Connect(1) /\ failures' = failures
      /\ UNCHANGED <<provider_kind, now, candidate, candidates, download, upload,
                     failures_before, received, transfer, admission, outcome, valid,
                     downloaded, cleanup_began>>
  BY DEF DnsAnswers, Connecting, Awaiting
<1>3. addresses' \in 0..MaxAddresses /\ 1 \in Nat \ {0}
  BY <1>1, AttemptAssumption
<1> QED
  BY <1>2, <1>3, ConnectInv

\* A stage of setting a connection up fails at this address.
LEMMA AddressFailsInv ==
    ASSUME Inv, NEW a \in {"connect", "tls", "handshake"},
           NEW stage \in {"connect", "tls", "websocket_handshake"},
           Connecting(a), AddressFails(simple(stage)), UNCHANGED transfer
    PROVE  Inv'
<1> DEFINE f == simple(stage)
<1>1. /\ Owned(f) /\ f.stage = stage /\ f.disposition = "terminal" /\ Quiet(provider_kind, f)
  BY SimpleOwned, InvTyped DEF Stages
<1>2. AddressFails(f)
  OBVIOUS
<1> HIDE DEF f
<1>3. /\ at = a /\ Running /\ at # "upload"
      /\ UNCHANGED <<provider_kind, now, candidates, received, admission, valid, downloaded,
                     cleanup_began, transfer>>
  BY DEF Connecting, Awaiting, Running
<1>4. CASE /\ addresses > 0 /\ addresses' = addresses - 1 /\ failures' = Append(failures, f)
           /\ Connect(active.request_id[3] + 1)
           /\ UNCHANGED <<candidate, download, upload, failures_before, outcome>>
  <2>1. Longer(failures, failures', f)
    BY <1>1, <1>4, AppendLonger, InvTyped DEF Owned
  <2>2. active.request_id[3] + 1 \in Nat \ {0}
    BY <1>3, InvRunning DEF Requests
  <2>3. addresses' \in 0..MaxAddresses
    BY <1>4, AttemptAssumption DEF Inv, TypeOK
  <2>4. at \in {"dns", "connect", "tls", "handshake"}
    BY <1>3
  <2> QED
    BY <1>1, <1>3, <1>4, <2>1, <2>2, <2>3, <2>4, ConnectInv
<1>5. CASE /\ addresses = 0 /\ DirectionFails(Append(failures, f))
           /\ UNCHANGED <<addresses, contacted>>
  <2>1. LastWord(f) /\ f.stage # "cleanup"
    BY <1>1 DEF LastWord
  <2> QED
    BY <1>3, <1>5, <2>1, DirectionFailsInv
<1> QED
  BY <1>2, <1>4, <1>5 DEF AddressFails

LEMMA SetupFailsInv == Inv /\ (ConnectFails \/ TlsFails \/ HandshakeFails) => Inv'
BY AddressFailsInv DEF ConnectFails, TlsFails, HandshakeFails

LEMMA DirectionEndsInv == Inv /\ (DnsFails \/ HandshakeRefused \/ HandshakeStatus) => Inv'
<1> SUFFICES ASSUME Inv, DnsFails \/ HandshakeRefused \/ HandshakeStatus PROVE Inv'
  OBVIOUS
<1>1. /\ Running /\ at # "upload" /\ addresses' = addresses
      /\ UNCHANGED <<provider_kind, now, candidates, received, admission, valid, downloaded,
                     cleanup_began, transfer, contacted>>
  BY DEF DnsFails, HandshakeRefused, HandshakeStatus, Connecting, Awaiting, Running
<1>2. ASSUME NEW stage \in {"dns", "websocket_handshake"},
             DirectionFails(Append(failures, simple(stage)))
      PROVE  Inv'
  <2>1. LastWord(simple(stage)) /\ simple(stage).stage # "cleanup"
    BY SimpleOwned, InvTyped DEF Stages, LastWord
  <2> QED
    BY <1>1, <1>2, <2>1, DirectionFailsInv
<1>3. ASSUME NEW status \in {429, 500, 503}, NEW delay \in Delays \cup {None},
             DirectionFails(Append(failures, StatusFailure(status,
                                             IF delay = None THEN None ELSE now + delay)))
      PROVE  Inv'
  <2> DEFINE retry_at == IF delay = None THEN None ELSE now + delay
             f == StatusFailure(status, retry_at)
  <2>1. retry_at \in Nat \cup {None} /\ TypeOK /\ DirectionFails(Append(failures, f))
    BY <1>3, AttemptAssumption, InvTyped DEF Inv
  <2> HIDE DEF retry_at
  <2>2. /\ Owned(f) /\ f.stage = "websocket_handshake" /\ f.http_status = status
        /\ \/ f.disposition = "provider" /\ f.outcome = "rate_limited"
           \/ f.disposition = "next" /\ status = 503 /\ f.outcome = "no_capacity"
              /\ Quiet(provider_kind, f)
           \/ f.disposition = "terminal" /\ Quiet(provider_kind, f)
    BY <2>1, StatusOwned
  <2> HIDE DEF f
  <2>3. LastWord(f) /\ f.stage # "cleanup"
    BY <2>2 DEF LastWord
  <2> QED
    BY <1>1, <2>1, <2>3, DirectionFailsInv
<1> QED
  BY <1>2, <1>3 DEF DnsFails, HandshakeRefused, HandshakeStatus

LEMMA SetUpInv == Inv /\ (Connected \/ Wrapped) => Inv'
<1> SUFFICES ASSUME Inv, Connected \/ Wrapped PROVE Inv'
  OBVIOUS
<1>1. PICK stage \in {"tls", "websocket_handshake"} : begin_stage(stage)
  BY DEF Connected, Wrapped, SetUp
<1>2. /\ at \in {"connect", "tls"} /\ at' \in {"tls", "handshake"}
      /\ UNCHANGED <<provider_kind, now, candidate, candidates, addresses, failures, download,
                     upload, failures_before, received, transfer, admission, outcome, history>>
  BY DEF Connected, Wrapped, SetUp, Connecting, Awaiting, history
<1>3. /\ active' \in Actives /\ active'.direction = active.direction
      /\ active'.request_id = active.request_id /\ active'.stage = stage
  BY <1>1, InvTyped DEF begin_stage, Actives, Stages
<1>4. Running /\ Running' /\ transfer' = None /\ outcome' = None
  BY <1>2 DEF Running, Inv, TypeOK
<1>5. Explained' /\ Final'
  BY <1>2, <1>3, <1>4, StillRunning
<1>6. TypeOK'
  BY <1>2, <1>3, <1>4 DEF Inv, TypeOK, history
<1>7. Placed'
  BY <1>2, <1>3, <1>4 DEF Inv, Placed, Running, history, Directions
<1>8. Results' /\ Timed'
  BY <1>2, <1>3 DEF Inv, Results, DownloadKept, Timed, history
<1> QED
  BY <1>5, <1>6, <1>7, <1>8 DEF Inv

LEMMA HandshakeDoneInv == Inv /\ HandshakeDone => Inv'
<1> SUFFICES ASSUME Inv, HandshakeDone PROVE Inv'
  OBVIOUS
<1>1. /\ at = "handshake" /\ at' = active.direction /\ begin_stage(active.direction)
      /\ received' = FALSE
      /\ UNCHANGED <<provider_kind, now, candidate, candidates, addresses, failures, download,
                     upload, failures_before, admission, outcome, history>>
  BY DEF HandshakeDone, Awaiting, place
<1>2. active.direction \in Directions
  BY <1>1 DEF Inv, Placed, Running
<1>3. /\ active' \in Actives /\ active'.direction = active.direction
      /\ active'.request_id = active.request_id /\ active'.stage = active.direction
  BY <1>1, <1>2, InvTyped DEF begin_stage, Actives, Stages, Directions
<1>4. Running /\ Running' /\ outcome' = None
  BY <1>1, <1>2 DEF Running, Inv, TypeOK, Directions
<1>5. Explained' /\ Final'
  BY <1>1, <1>3, <1>4, StillRunning
<1>6. /\ upload = None /\ valid = {} /\ valid' = {} /\ now \in Nat
  BY <1>1 DEF Inv, Results, TypeOK, history
<1>7. \/ at' = "download" /\ transfer' = None
      \/ /\ at' = "upload"
         /\ transfer' = [closing |-> FALSE, flushing |-> FALSE, close_queued |-> FALSE,
                         peer_closed |-> FALSE, measurement |-> None,
                         deadline |-> now + UploadDuration, started |-> now]
  BY <1>1, <1>2 DEF HandshakeDone, Directions
<1>8. /\ transfer' \in Transfers \cup {None} /\ (transfer' # None) = (at' = "upload")
  <2>1. CASE at' = "download" /\ transfer' = None
    BY <2>1
  <2>2. CASE at' # "download"
    <3>1. now + UploadDuration \in Nat
      BY <1>6, AttemptAssumption
    <3> DEFINE t == [closing |-> FALSE, flushing |-> FALSE, close_queued |-> FALSE,
                     peer_closed |-> FALSE, measurement |-> None,
                     deadline |-> now + UploadDuration, started |-> now]
    <3>2. t \in Transfers
      BY <1>6, <3>1 DEF Transfers
    <3>3. at' = "upload" /\ transfer' = t
      BY <1>7, <2>2
    <3> HIDE DEF t
    <3> QED
      BY <3>2, <3>3, NoneAssumption
  <2> QED
    BY <1>7, <2>1, <2>2
<1>9. TypeOK'
  BY <1>1, <1>2, <1>3, <1>4, <1>8 DEF Inv, TypeOK, history, Directions
<1>10. Placed'
  BY <1>1, <1>2, <1>3, <1>4 DEF Inv, Placed, Running, history, Directions
<1>11. Results'
  <2>1. at' = "upload" => /\ transfer'.measurement = None
                          /\ Latest(transfer'.measurement, valid')
                          /\ UploadResult(active'.request_id, transfer'.measurement) = None
    BY <1>6, <1>7 DEF Latest, UploadResult
  <2> QED
    BY <1>1, <1>3, <1>6, <2>1 DEF Inv, Results, DownloadKept, history
<1>12. Timed'
  BY <1>1, <1>2, <1>3, <1>6, <1>7, AttemptAssumption DEF Timed, InTime
<1> QED
  BY <1>5, <1>9, <1>10, <1>11, <1>12 DEF Inv

-----------------------------------------------------------------------------
(* The actions of the download.                                            *)

LEMMA DownloadBytesInv == Inv /\ DownloadBytes => Inv'
<1> SUFFICES ASSUME Inv, DownloadBytes PROVE Inv'
  OBVIOUS
<1>1. /\ at = "download" /\ received' = TRUE
      /\ UNCHANGED <<provider_kind, now, at, candidate, candidates, addresses, active, failures,
                     download, upload, failures_before, transfer, admission, outcome, contacted,
                     valid, downloaded, cleanup_began>>
  BY DEF DownloadBytes, Downloading, Awaiting, progress
<1>2. TypeOK' /\ Placed' /\ Results' /\ Timed'
  BY <1>1 DEF Inv, TypeOK, Placed, Running, Results, DownloadKept, Timed
<1>3. Explained' /\ Final'
  BY <1>1, StillRunning DEF Running
<1> QED
  BY <1>2, <1>3 DEF Inv

LEMMA DownloadEndsInv == Inv /\ DownloadEnds => Inv'
<1> SUFFICES ASSUME Inv, DownloadEnds PROVE Inv'
  OBVIOUS
<1> DEFINE f == simple("download")
           measured == IF received THEN [request_id |-> active.request_id] ELSE None
           Fs(error) == IF error THEN Append(failures, f) ELSE failures
           All(close, error) ==
             IF Len(Fs(error)) = failures_before /\ (~received \/ ~close)
             THEN Append(Fs(error), f) ELSE Fs(error)
<1>1. PICK close \in BOOLEAN, error \in BOOLEAN :
        /\ AfterDownload(All(close, error), measured)
        /\ downloaded' = IF received THEN active.request_id ELSE downloaded
  BY DEF DownloadEnds
<1>2. /\ at = "download" /\ Running /\ received' = received
      /\ UNCHANGED <<provider_kind, now, candidates, addresses, transfer, admission, contacted,
                     valid, cleanup_began>>
  BY DEF DownloadEnds, Downloading, Awaiting, Running
<1>3. /\ active.direction = "download" /\ active.request_id \in Requests
      /\ failures_before \in 0..Len(failures) /\ Len(failures) \in Nat
      /\ received \in BOOLEAN /\ addresses \in 0..MaxAddresses /\ transfer = None
  BY <1>2, InvRunning, InvTyped DEF Inv, Placed, TypeOK, Directions
<1>4. LastWord(f) /\ Longer(failures, Append(failures, f), f)
  <2>1. /\ Owned(f) /\ f.stage = "download" /\ f.disposition = "terminal"
        /\ Quiet(provider_kind, f)
    BY SimpleOwned, InvTyped DEF Stages
  <2> HIDE DEF f
  <2> QED
    BY <2>1, AppendLonger, InvTyped DEF LastWord, Owned
<1> HIDE DEF f
<1>5. Len(Append(failures, f)) = Len(failures) + 1
  BY <1>4 DEF Longer
<1>6. \/ All(close, error) = Append(failures, f)
      \/ All(close, error) = failures /\ (~received => failures_before < Len(failures))
  BY <1>3, <1>5
<1> DEFINE fs == All(close, error)
<1> HIDE DEF fs
<1>7. /\ measured \in Downloads \cup {None} /\ (measured = None <=> ~received)
      /\ measured # None => measured.request_id = active.request_id
  <2>1. received => measured \in Downloads /\ measured.request_id = active.request_id
    BY <1>3 DEF Downloads
  <2> QED
    BY <2>1, NoneAssumption
<1> HIDE DEF measured
<1>8. AfterDownload(fs, measured)
  BY <1>1 DEF fs
<1>9. Grown(fs, measured)
  <2>1. \/ fs = Append(failures, f)
        \/ fs = failures /\ (~received => failures_before < Len(failures))
    BY <1>6 DEF fs
  <2> QED
    BY <1>4, <1>7, <2>1 DEF Grown
<1>10. downloaded' = IF measured = None THEN downloaded ELSE active.request_id
  BY <1>1, <1>7
<1>11. addresses' \in 0..MaxAddresses /\ received' \in BOOLEAN /\ transfer' = None
  BY <1>2, <1>3
<1> QED
  BY <1>2, <1>3, <1>7, <1>8, <1>9, <1>10, <1>11, AfterDownloadInv

-----------------------------------------------------------------------------
(* The actions of the upload.                                              *)

LEMMA Transferring ==
    ASSUME Inv, Uploading
    PROVE  /\ at = "upload" /\ Running /\ active.direction = "upload" /\ transfer \in Transfers
           /\ active \in Actives /\ active.request_id \in Requests
           /\ active.request_id \in contacted /\ outcome = None
           /\ now \in Nat /\ InTime(transfer, active, now, cleanup_began)
           /\ upload = UploadResult(active.request_id, transfer.measurement)
           /\ Latest(transfer.measurement, valid)
           /\ UNCHANGED <<provider_kind, now, candidates, addresses, received, admission,
                          contacted, downloaded>>
<1>1. /\ at = "upload"
      /\ UNCHANGED <<provider_kind, now, candidates, addresses, received, admission,
                     contacted, downloaded>>
  BY DEF Uploading, Awaiting
<1>2. Running /\ "upload" \in Directions
  BY <1>1 DEF Running, Directions
<1>3. TypeOK /\ Placed /\ Results /\ Timed
  BY DEF Inv
<1> QED
  BY <1>1, <1>2, <1>3 DEF TypeOK, Placed, Results, Timed

LEMMA Resulting ==
    ASSUME NEW id \in Requests, NEW m \in Reports \cup {None}
    PROVE  UploadResult(id, m) \in Uploads \cup {None}
BY DEF UploadResult, Uploads, Reports

\* The transfer goes on: its state, the active stage and the measurement fit.
LEMMA TransferGoesOn ==
    ASSUME Inv, Uploading, Stays, transfer' \in Transfers, active' \in Actives,
           active'.direction = active.direction, active'.request_id = active.request_id,
           upload' = UploadResult(active.request_id, transfer'.measurement),
           valid' \in SUBSET Reports, Latest(transfer'.measurement, valid'),
           cleanup_began' \in Nat \cup {None}, InTime(transfer', active', now, cleanup_began')
    PROVE  Inv'
<1>1. /\ at = "upload" /\ Running /\ active.request_id \in Requests
      /\ UNCHANGED <<provider_kind, now, candidates, addresses, received, admission,
                     contacted, downloaded>>
  BY Transferring
<1>2. UNCHANGED <<candidate, at, failures, download, failures_before, outcome>>
  BY DEF Stays
<1>3. Running' /\ transfer' # None
  BY <1>1, <1>2, NoneAssumption DEF Running
<1>4. Explained' /\ Final'
  BY <1>1, <1>2, <1>3, StillRunning
<1>5. upload' \in Uploads \cup {None}
  <2>1. transfer'.measurement \in Reports \cup {None}
    BY DEF Transfers
  <2> QED
    BY <1>1, <2>1, Resulting
<1>6. TypeOK'
  BY <1>1, <1>2, <1>3, <1>5 DEF Inv, TypeOK
<1>7. Placed'
  BY <1>1, <1>2, <1>3 DEF Inv, Placed, Running
<1>8. Results'
  BY <1>1, <1>2 DEF Inv, Results, DownloadKept
<1>9. Timed'
  BY <1>1, <1>2 DEF Timed
<1> QED
  BY <1>4, <1>6, <1>7, <1>8, <1>9 DEF Inv

\* The active window ends: the transfer t, which agrees with the current one
\* on all the observers see, begins to close.
LEMMA CloseInv ==
    ASSUME Inv, Uploading, ~transfer.closing, NEW t \in Transfers, ~t.closing,
           t.measurement = transfer.measurement, t.started = transfer.started,
           t.deadline = transfer.deadline, Close(t), Stays, valid' = valid
    PROVE  Inv'
<1>1. /\ active \in Actives /\ now \in Nat /\ InTime(transfer, active, now, cleanup_began)
      /\ upload = UploadResult(active.request_id, transfer.measurement)
      /\ Latest(transfer.measurement, valid) /\ now \in Nat /\ valid \in SUBSET Reports
  BY Transferring DEF Inv, TypeOK
<1>2. /\ transfer' = [t EXCEPT !.closing = TRUE, !.deadline = now + CloseTimeout]
      /\ Observed(t.measurement, "cleanup") /\ cleanup_began' = now
  BY DEF Close
<1>3. /\ transfer' \in Transfers /\ transfer'.closing = TRUE
      /\ transfer'.deadline = now + CloseTimeout /\ transfer'.started = transfer.started
      /\ transfer'.measurement = transfer.measurement
  <2>1. now + CloseTimeout \in Nat
    BY <1>1, AttemptAssumption
  <2> QED
    BY <1>2, <2>1 DEF Transfers
<1>4. active.stage # "cleanup"
  BY <1>1 DEF InTime
<1>5. begin_stage("cleanup") /\ upload' = UploadResult(active.request_id, transfer.measurement)
  BY <1>2, <1>4 DEF Observed, UploadResult
<1>6. /\ active' \in Actives /\ active'.direction = active.direction /\ active'.stage = "cleanup"
      /\ active'.request_id = active.request_id /\ active'.since = now
  BY <1>1, <1>5 DEF begin_stage, Actives, Stages
<1>7. InTime(transfer', active', now, cleanup_began')
  <2>1. transfer.started <= now /\ now <= transfer.started + UploadDuration
    BY <1>1 DEF InTime
  <2>2. transfer.started \in Nat /\ CloseTimeout \in Nat
    BY Transferring, AttemptAssumption DEF Transfers
  <2> QED
    BY <1>1, <1>2, <1>3, <1>6, <2>1, <2>2 DEF InTime
<1> QED
  BY <1>1, <1>2, <1>3, <1>5, <1>6, <1>7, TransferGoesOn

\* The transfer ends: what it measured becomes the result.
LEMMA UploadOverInv ==
    ASSUME Inv, Uploading, NEW error \in BOOLEAN, UploadOver(error),
           UNCHANGED <<valid, cleanup_began>>
    PROVE  Inv'
<1> DEFINE g == simple(active.stage)
           h == [simple("upload") EXCEPT !.since = transfer.started]
           m == transfer.measurement
           fs == IF error THEN Append(failures, g) ELSE failures
           all == IF m = None /\ Len(fs) = failures_before THEN Append(fs, h) ELSE fs
           measured == IF m = None THEN None
                       ELSE [request_id |-> active.request_id, bytes |-> m.bytes,
                             elapsed |-> m.elapsed]
<1>1. AfterUpload(all, measured) /\ transfer' = None
  BY DEF UploadOver
<1>2. /\ at = "upload" /\ Running /\ active.direction = "upload" /\ transfer \in Transfers
      /\ active \in Actives /\ active.request_id \in contacted /\ now \in Nat
      /\ InTime(transfer, active, now, cleanup_began) /\ Latest(transfer.measurement, valid)
      /\ UNCHANGED <<provider_kind, now, candidates, addresses, received, admission,
                     contacted, downloaded>>
  BY Transferring
<1>3. m \in Reports \cup {None} /\ measured = UploadResult(active.request_id, m)
  BY <1>2 DEF Transfers, UploadResult
<1>4. active.stage \in {"upload", "cleanup"} /\ transfer.started \in Nat
  BY <1>2 DEF InTime, Transfers
<1>5. LastWord(g)
  <2>1. /\ Owned(g) /\ g.stage = active.stage /\ g.outcome = "error"
        /\ g.disposition = "terminal" /\ g.since = active.since
        /\ active.stage # "cleanup" => Quiet(provider_kind, g)
    BY <1>2, <1>4, SimpleOwned DEF Stages
  <2> HIDE DEF g
  <2>2. active.stage = "cleanup" => active.since = cleanup_began
    BY <1>2 DEF InTime, Transfers
  <2> QED
    BY <1>2, <2>1, <2>2 DEF LastWord
<1>6. LastWord(h)
  <2> DEFINE s == simple("upload")
  <2>1. Owned(s) /\ s.stage = "upload" /\ s.disposition = "terminal" /\ Quiet(provider_kind, s)
    BY <1>2, SimpleOwned DEF Stages
  <2>2. h = [s EXCEPT !.since = transfer.started]
    OBVIOUS
  <2> HIDE DEF s, h
  <2>3. /\ h \in RequestFailures /\ h.stage = s.stage /\ h.disposition = s.disposition
        /\ h.direction = s.direction /\ h.request_id = s.request_id /\ h.outcome = s.outcome
        /\ h.http_status = s.http_status
    BY <1>4, <2>1, <2>2 DEF Owned, RequestFailures
  <2> QED
    BY <2>1, <2>3 DEF LastWord, Owned, Quiet, Limit
<1> HIDE DEF g, h
<1>7. Longer(failures, Append(failures, g), g) /\ Longer(failures, Append(failures, h), h)
  BY <1>5, <1>6, AppendLonger, InvTyped DEF LastWord, Owned
<1>8. /\ Len(Append(failures, g)) = Len(failures) + 1 /\ failures_before \in 0..Len(failures)
      /\ Len(failures) \in Nat
  BY <1>2, <1>7, InvRunning, InvTyped DEF Longer
<1>9. \/ all = Append(failures, g) \/ all = Append(failures, h)
      \/ all = failures /\ (m = None => failures_before < Len(failures))
  BY <1>8
<1>10. measured = None => m = None
  <2>1. m # None => measured \in Uploads
    BY <1>2, <1>3, InvRunning DEF Uploads, Reports
  <2> QED
    BY <2>1, NoneAssumption
<1> DEFINE everything == all
           result == measured
<1> HIDE DEF everything, result
<1>11. Grown(everything, result)
  BY <1>5, <1>6, <1>7, <1>9, <1>10 DEF Grown, everything, result
<1>12. AfterUpload(everything, result) /\ result = UploadResult(active.request_id, m)
  BY <1>1, <1>3 DEF everything, result
<1>13. addresses' \in 0..MaxAddresses /\ received' \in BOOLEAN
  BY <1>2 DEF Inv, TypeOK
<1> HIDE DEF m
<1>14. Latest(m, valid)
  BY <1>2 DEF m
<1> QED
  BY <1>1, <1>2, <1>3, <1>11, <1>12, <1>13, <1>14, AfterUploadInv

LEMMA UploadDeadlineInv == Inv /\ UploadDeadline => Inv'
<1> SUFFICES ASSUME Inv, UploadDeadline PROVE Inv'
  OBVIOUS
<1>1. Uploading /\ valid' = valid /\ transfer \in Transfers
  BY Transferring DEF UploadDeadline
<1>2. CASE ~transfer.closing /\ Close(transfer) /\ Stays
  BY <1>1, <1>2, CloseInv
<1>3. CASE transfer.closing /\ UploadOver(TRUE) /\ UNCHANGED cleanup_began
  BY <1>1, <1>3, UploadOverInv
<1> QED
  BY <1>2, <1>3 DEF UploadDeadline

LEMMA UploadEndsInv == Inv /\ (UploadEof \/ UploadBreaks) => Inv'
<1> SUFFICES ASSUME Inv, UploadEof \/ UploadBreaks PROVE Inv'
  OBVIOUS
<1>1. /\ Uploading /\ UNCHANGED <<valid, cleanup_began>>
      /\ UploadOver(~transfer.peer_closed) \/ UploadOver(TRUE)
  BY DEF UploadEof, UploadBreaks, Polled
<1>2. (~transfer.peer_closed) \in BOOLEAN
  OBVIOUS
<1> QED
  BY <1>1, <1>2, UploadOverInv

\* A report that advances is the latest; one that does not is superseded.
LEMMA AdvancesKeepsLatest ==
    ASSUME NEW m \in Reports \cup {None}, NEW S \in SUBSET Reports, Latest(m, S), NEW r \in Reports
    PROVE  Latest(IF Advances(r, m) THEN r ELSE m, S \cup {r})
<1>1. ASSUME NEW x \in Reports PROVE x.bytes \in Nat /\ x.elapsed \in Nat
  BY AttemptAssumption DEF Reports
<1>2. r # None /\ S \cup {r} # {}
  BY NoneAssumption
<1>3. CASE m = None
  <2>1. Advances(r, m) /\ S = {}
    BY <1>3 DEF Advances, Latest
  <2> QED
    BY <1>1, <1>2, <2>1 DEF Latest
<1>4. CASE m # None
  <2>1. /\ m \in S /\ m \in Reports
        /\ \A x \in S : ~(x.elapsed > m.elapsed /\ x.bytes >= m.bytes)
    BY <1>4 DEF Latest
  <2>2. CASE Advances(r, m)
    <3>1. r.elapsed > m.elapsed /\ r.bytes >= m.bytes
      BY <1>4, <2>2 DEF Advances
    <3>2. ASSUME NEW x \in S \cup {r} PROVE ~(x.elapsed > r.elapsed /\ x.bytes >= r.bytes)
      <4>1. x \in Reports /\ (x \in S => ~(x.elapsed > m.elapsed /\ x.bytes >= m.bytes))
        BY <2>1
      <4>2. /\ x.bytes \in Nat /\ x.elapsed \in Nat /\ r.bytes \in Nat /\ r.elapsed \in Nat
            /\ m.bytes \in Nat /\ m.elapsed \in Nat
        BY <1>1, <2>1, <4>1
      <4> QED
        BY <3>1, <4>1, <4>2
    <3> QED
      BY <1>2, <2>2, <3>2 DEF Latest
  <2>3. CASE ~Advances(r, m)
    <3>1. ~(r.elapsed > m.elapsed /\ r.bytes >= m.bytes)
      BY <2>3 DEF Advances
    <3>2. \A x \in S \cup {r} : ~(x.elapsed > m.elapsed /\ x.bytes >= m.bytes)
      BY <2>1, <3>1
    <3> QED
      BY <1>2, <1>4, <2>1, <2>3, <3>2 DEF Latest
  <2> QED
    BY <2>2, <2>3
<1> QED
  BY <1>3, <1>4

LEMMA UploadTextInv == Inv /\ UploadText => Inv'
<1> SUFFICES ASSUME Inv, UploadText PROVE Inv'
  OBVIOUS
<1>1. PICK r \in Reports \cup {None} :
        LET m == IF r # None /\ Advances(r, transfer.measurement)
                 THEN r ELSE transfer.measurement
        IN  /\ transfer' = [transfer EXCEPT !.measurement = m]
            /\ Observed(m, IF transfer.closing THEN "cleanup" ELSE "upload")
            /\ valid' = IF r = None THEN valid ELSE valid \cup {r}
  BY DEF UploadText
<1> DEFINE m == IF r # None /\ Advances(r, transfer.measurement)
                THEN r ELSE transfer.measurement
<1>2. Uploading /\ Stays /\ cleanup_began' = cleanup_began
  BY DEF UploadText, Polled
<1>3. /\ at = "upload" /\ transfer \in Transfers /\ active \in Actives /\ now \in Nat
      /\ InTime(transfer, active, now, cleanup_began) /\ Latest(transfer.measurement, valid)
      /\ valid \in SUBSET Reports /\ cleanup_began \in Nat \cup {None}
  BY <1>2, Transferring DEF Inv, TypeOK
<1>4. transfer.measurement \in Reports \cup {None} /\ m \in Reports \cup {None}
  BY <1>3 DEF Transfers
<1>5. valid' \in SUBSET Reports
  BY <1>1, <1>3
<1>6. Latest(m, valid')
  <2>1. CASE r = None
    BY <1>1, <1>3, <2>1
  <2>2. CASE r # None
    <3>1. r \in Reports /\ valid' = valid \cup {r}
          /\ m = IF Advances(r, transfer.measurement) THEN r ELSE transfer.measurement
      BY <1>1, <2>2
    <3> HIDE DEF m
    <3> QED
      BY <1>3, <1>4, <3>1, AdvancesKeepsLatest
  <2> QED
    BY <2>1, <2>2
<1>7. /\ transfer' = [transfer EXCEPT !.measurement = m]
      /\ Observed(m, IF transfer.closing THEN "cleanup" ELSE "upload")
  BY <1>1
<1> HIDE DEF m
<1>8. /\ transfer' \in Transfers /\ transfer'.measurement = m
      /\ transfer'.closing = transfer.closing /\ transfer'.started = transfer.started
      /\ transfer'.deadline = transfer.deadline
  BY <1>3, <1>4, <1>7 DEF Transfers
<1>9. active.stage = IF transfer.closing THEN "cleanup" ELSE "upload"
  BY <1>3 DEF InTime
<1>10. active' = active /\ upload' = UploadResult(active.request_id, m)
  BY <1>7, <1>9 DEF Observed, UploadResult
<1>11. InTime(transfer', active', now, cleanup_began')
  BY <1>2, <1>3, <1>8, <1>10 DEF InTime
<1> QED
  BY <1>2, <1>3, <1>5, <1>6, <1>8, <1>10, <1>11, TransferGoesOn

\* A step of the socket that changes neither timers nor measurement.
LEMMA SocketInv ==
    ASSUME Inv, Uploading, Stays, transfer' \in Transfers,
           transfer'.closing = transfer.closing, transfer'.measurement = transfer.measurement,
           transfer'.deadline = transfer.deadline, transfer'.started = transfer.started,
           UNCHANGED <<active, upload, valid, cleanup_began>>
    PROVE  Inv'
<1>1. /\ active \in Actives /\ InTime(transfer, active, now, cleanup_began)
      /\ upload = UploadResult(active.request_id, transfer.measurement)
      /\ Latest(transfer.measurement, valid)
  BY Transferring
<1>2. valid' \in SUBSET Reports /\ cleanup_began' \in Nat \cup {None}
  BY DEF Inv, TypeOK
<1>3. InTime(transfer', active', now, cleanup_began') /\ Latest(transfer'.measurement, valid')
  BY <1>1 DEF InTime
<1>4. upload' = UploadResult(active.request_id, transfer'.measurement)
  BY <1>1
<1> QED
  BY <1>1, <1>2, <1>3, <1>4, TransferGoesOn

LEMMA SocketStepsInv == Inv /\ (UploadAccepted \/ UploadFlushed) => Inv'
<1> SUFFICES ASSUME Inv, UploadAccepted \/ UploadFlushed PROVE Inv'
  OBVIOUS
<1>1. Uploading /\ Stays /\ UNCHANGED <<active, upload, valid, cleanup_began>>
  BY DEF UploadAccepted, UploadFlushed, Polled
<1>2. transfer \in Transfers
  BY <1>1, Transferring
<1>3. /\ transfer' \in Transfers
      /\ transfer'.closing = transfer.closing /\ transfer'.measurement = transfer.measurement
      /\ transfer'.deadline = transfer.deadline /\ transfer'.started = transfer.started
  BY <1>2 DEF UploadAccepted, UploadFlushed, Transfers
<1> QED
  BY <1>1, <1>3, SocketInv

LEMMA UploadPeerClosesInv == Inv /\ UploadPeerCloses => Inv'
<1> SUFFICES ASSUME Inv, UploadPeerCloses PROVE Inv'
  OBVIOUS
<1> DEFINE t == [transfer EXCEPT !.peer_closed = TRUE, !.close_queued = TRUE, !.flushing = TRUE]
<1>1. Uploading /\ Stays /\ valid' = valid
  BY DEF UploadPeerCloses, Polled
<1>2. transfer \in Transfers
  BY <1>1, Transferring
<1>3. /\ t \in Transfers /\ t.closing = transfer.closing /\ t.measurement = transfer.measurement
      /\ t.deadline = transfer.deadline /\ t.started = transfer.started
  BY <1>2 DEF Transfers
<1>4. IF transfer.closing THEN transfer' = t /\ UNCHANGED <<active, upload, cleanup_began>>
      ELSE Close(t)
  BY DEF UploadPeerCloses
<1> HIDE DEF t
<1>5. CASE transfer.closing
  BY <1>1, <1>3, <1>4, <1>5, SocketInv
<1>6. CASE ~transfer.closing
  BY <1>1, <1>3, <1>4, <1>6, CloseInv
<1> QED
  BY <1>5, <1>6

-----------------------------------------------------------------------------
(* Interruption and the clock.                                             *)

LEMMA TickInv == Inv /\ Tick => Inv'
<1> SUFFICES ASSUME Inv, Tick PROVE Inv'
  OBVIOUS
<1>1. /\ at = "upload" /\ now < transfer.deadline /\ now' = now + 1 /\ Running
      /\ UNCHANGED <<provider_kind, at, candidate, candidates, addresses, active, failures,
                     download, upload, failures_before, received, transfer, admission, outcome,
                     contacted, valid, downloaded, cleanup_began>>
  BY DEF Tick, Running, place, progress, history
<1>2. now \in Nat /\ transfer \in Transfers /\ InTime(transfer, active, now, cleanup_began)
  BY <1>1, NoneAssumption DEF Inv, TypeOK, Timed
<1>3. Explained' /\ Final'
  BY <1>1, StillRunning DEF Running
<1>4. TypeOK' /\ Placed' /\ Results'
  BY <1>1, <1>2 DEF Inv, TypeOK, Placed, Running, Results, DownloadKept
<1>5. Timed'
  <2>1. transfer.started \in Nat /\ transfer.deadline \in Nat
    BY <1>2 DEF Transfers
  <2> QED
    BY <1>1, <1>2, <2>1 DEF Timed, InTime
<1> QED
  BY <1>3, <1>4, <1>5 DEF Inv

\* What an upload keeps of its reports is what the report promises.
LEMMA ResultOfLatest ==
    ASSUME NEW id \in Requests, id[2] = "upload", id \in contacted,
           NEW m \in Reports \cup {None}, Latest(m, valid), upload = UploadResult(id, m),
           DownloadKept
    PROVE  ResultsRetained
<1>1. CASE m = None
  BY <1>1 DEF UploadResult, Latest, ResultsRetained, DownloadKept
<1>2. CASE m # None
  <2>1. /\ upload = [request_id |-> id, bytes |-> m.bytes, elapsed |-> m.elapsed]
        /\ m \in Reports
    BY <1>2 DEF UploadResult
  <2>2. [bytes |-> m.bytes, elapsed |-> m.elapsed] = m
    BY <2>1 DEF Reports
  <2>3. upload # None
    <3>1. upload \in Uploads
      BY <2>1 DEF Uploads, Reports
    <3> QED
      BY <3>1, NoneAssumption
  <2>4. m \in valid /\ \A r \in valid : ~(r.elapsed > m.elapsed /\ r.bytes >= m.bytes)
    BY <1>2 DEF Latest
  <2> QED
    BY <2>1, <2>2, <2>3, <2>4 DEF ResultsRetained, DownloadKept, Latest
<1> QED
  BY <1>1, <1>2

LEMMA Retained == ASSUME Inv PROVE ResultsRetained
<1>1. Results /\ Final /\ TypeOK /\ Placed /\ DownloadKept
  BY DEF Inv, Results
<1>2. CASE at = "done"
  BY <1>1, <1>2 DEF Final
<1>3. CASE at \notin {"upload", "done"}
  BY <1>1, <1>3 DEF Results, ResultsRetained, DownloadKept
<1>4. CASE at = "upload"
  <2> DEFINE m == transfer.measurement
  <2>1. /\ upload = UploadResult(active.request_id, m) /\ Latest(m, valid)
        /\ transfer \in Transfers /\ active.request_id \in contacted
        /\ active.request_id \in Requests /\ active.request_id[2] = "upload"
    BY <1>1, <1>4, NoneAssumption DEF Results, TypeOK, Placed, Running, Directions
  <2>2. m \in Reports \cup {None}
    BY <2>1 DEF Transfers
  <2> HIDE DEF m
  <2> QED
    BY <1>1, <2>1, <2>2, ResultOfLatest
<1> QED
  BY <1>2, <1>3, <1>4

LEMMA InterruptInv == Inv /\ Interrupt => Inv'
<1> SUFFICES ASSUME Inv, Interrupt PROVE Inv'
  OBVIOUS
<1>1. PICK o \in {"cancelled", "timeout"} :
        /\ failures' = Append(failures, Failure(active.stage, o, "terminal", None, None))
        /\ Finish(o)
  BY DEF Interrupt
<1>2. /\ at # "done" /\ at' = "done" /\ outcome' = o /\ transfer' = None
      /\ UNCHANGED <<provider_kind, now, candidate, candidates, addresses, active, download,
                     upload, failures_before, received, admission, contacted, valid, downloaded,
                     cleanup_began>>
  BY <1>1 DEF Interrupt, Finish, place, history
<1> DEFINE f == Failure(active.stage, o, "terminal", None, None)
<1>3. /\ f \in RequestFailures /\ f.stage = active.stage /\ f.outcome = o
      /\ f.direction = active.direction /\ f.since = active.since
  <2>1. /\ active \in Actives /\ active.stage \in Stages /\ o \in FailureOutcomes
    BY InvTyped DEF Actives, FailureOutcomes
  <2> QED
    BY <2>1 DEF f, Failure, Actives, RequestFailures
<1> HIDE DEF f
<1>4. Longer(failures, failures', f)
  BY <1>1, <1>3, AppendLonger, InvTyped DEF f
<1>5. /\ failures' \in Seq(RequestFailures) /\ Len(failures') = Len(failures) + 1
      /\ Len(failures) \in Nat /\ failures' # <<>> /\ Last(failures') = f
      /\ \A i \in 1..Len(failures) : failures'[i] = failures[i]
      /\ failures'[Len(failures) + 1] = f /\ DOMAIN failures' = 1..Len(failures')
  BY <1>4, InvTyped, LenProperties DEF Longer
<1>6. TypeOK /\ Placed /\ Explained /\ Results /\ Timed
  BY DEF Inv
<1>7. o \in Outcomes /\ o # None /\ o \notin {"success", "partial", "error", "no_capacity"}
  BY NoneAssumption DEF Outcomes, FailureOutcomes
<1>8. TypeOK'
  <2>1. failures_before' \in 0..Len(failures')
    BY <1>2, <1>5, <1>6 DEF TypeOK
  <2> QED
    BY <1>2, <1>5, <1>6, <1>7, <2>1 DEF TypeOK
<1>9. Placed' /\ Explained' /\ Timed'
  BY <1>2 DEF Placed, Explained, Timed, Running, Directions
<1>10. Results'
  BY <1>2, <1>6 DEF Results, DownloadKept
<1>11. AllQuiet(provider_kind', failures', Len(failures') - 1)
  <2>1. AllQuiet(provider_kind, failures, Len(failures))
    <3>1. CASE at = "resolve"
      BY <1>6, <3>1, EmptySeq DEF Placed, AllQuiet
    <3>2. CASE at # "resolve"
      BY <1>2, <1>6, <3>2 DEF Explained, Running
    <3> QED
      BY <3>1, <3>2
  <2> QED
    BY <1>2, <1>5, <2>1 DEF AllQuiet
<1>12. Last(failures').stage = "cleanup" => Last(failures').since = cleanup_began'
  BY <1>2, <1>3, <1>5, <1>6, NoneAssumption DEF Placed, Timed, InTime, TypeOK, Transfers
<1>13. ResultsRetained'
  <2>1. ResultsRetained
    BY <1>2, Retained
  <2> QED
    BY <1>2, <2>1 DEF ResultsRetained
<1>14. OutcomeSound'
  <2>1. ASSUME NEW id \in contacted'
        PROVE  \/ id[2] = "download" /\ download' # None
               \/ id[2] = "upload" /\ upload' # None
               \/ Has(id[2])'
    <3>1. Running /\ id \in contacted /\ id \in Requests
      BY <1>2, <1>6, <2>1 DEF Running, Placed, TypeOK
    <3>2. id[2] \in {"download", "upload"} /\ active.direction \in {"download", "upload"}
      BY <1>6, <3>1 DEF Requests, Directions, Placed
    <3>3. CASE id[2] = active.direction
      <4>1. Len(failures) + 1 \in DOMAIN failures'
        BY <1>5
      <4> QED
        BY <1>3, <1>5, <3>3, <4>1 DEF Has
    <3>4. CASE id[2] = "download" /\ active.direction = "upload"
      <4>1. download # None \/ Explains(failures, "download")
        BY <1>6, <3>1, <3>4 DEF Explained
      <4> QED
        BY <1>2, <1>5, <3>4, <4>1 DEF Explains, Has
    <3>5. ~(id[2] = "upload" /\ active.direction = "download")
      BY <1>2, <1>6, <3>1 DEF Placed
    <3> QED
      BY <3>2, <3>3, <3>4, <3>5
  <2> QED
    BY <1>2, <1>3, <1>5, <1>7, <2>1 DEF OutcomeSound
<1>15. Final'
  BY <1>11, <1>12, <1>13, <1>14 DEF Final
<1> QED
  BY <1>8, <1>9, <1>10, <1>15 DEF Inv

-----------------------------------------------------------------------------
(* The theorems.                                                           *)

LEMMA Initially == Init => Inv
<1> SUFFICES ASSUME Init PROVE Inv
  OBVIOUS
<1>1. /\ provider_kind \in Kinds /\ now = 0 /\ at = "resolve" /\ candidates = 0 /\ candidate = 0
      /\ addresses = 0 /\ failures = <<>> /\ download = None /\ upload = None
      /\ failures_before = 0 /\ received = FALSE /\ transfer = None
      /\ admission = "untracked" /\ outcome = None
      /\ contacted = {} /\ valid = {} /\ downloaded = None /\ cleanup_began = None
  BY DEF Init
<1>2. /\ active \in Actives /\ active.direction = None /\ active.stage \in {"locate", "dns"}
  BY DEF Init, Actives, Stages
<1>3. TypeOK
  <2>1. candidate \in 0..candidates /\ candidates \in 0..MaxCandidates
    BY <1>1, AttemptAssumption
  <2>2. addresses \in 0..MaxAddresses
    BY <1>1, AttemptAssumption
  <2>3. failures \in Seq(RequestFailures) /\ failures_before \in 0..Len(failures)
    BY <1>1, EmptySeq
  <2> QED
    BY <1>1, <1>2, <2>1, <2>2, <2>3 DEF TypeOK
<1>4. Placed /\ Explained /\ Timed /\ Final
  BY <1>1, <1>2 DEF Placed, Explained, Timed, Final, Running, Directions
<1>5. Results
  BY <1>1 DEF Results, DownloadKept
<1> QED
  BY <1>3, <1>4, <1>5 DEF Inv

LEMMA Stuttering == Inv /\ UNCHANGED vars => Inv'
<1> SUFFICES ASSUME Inv, UNCHANGED vars PROVE Inv'
  OBVIOUS
<1>1. UNCHANGED <<provider_kind, now, at, candidates, candidate, addresses, active, failures,
                  download, upload, failures_before, received, transfer, admission, outcome,
                  contacted, valid, downloaded, cleanup_began>>
  BY DEF vars, place, progress, history
<1>2. TypeOK' /\ Placed' /\ Explained' /\ Results' /\ Timed'
  BY <1>1 DEF Inv, TypeOK, Placed, Running, Explained, Results, DownloadKept, Timed
<1>3. Final'
  BY <1>1 DEF Inv, Final, OutcomeSound, Has, ResultsRetained
<1> QED
  BY <1>2, <1>3 DEF Inv

LEMMA Steps == Inv /\ [Next]_vars => Inv'
BY LocateFailsInv, LocateStatusInv, NoUsableTargetInv, ReserveInv, DnsAnswersInv, SetupFailsInv,
   DirectionEndsInv, SetUpInv, HandshakeDoneInv, DownloadBytesInv, DownloadEndsInv,
   UploadDeadlineInv, UploadTextInv, UploadPeerClosesInv, UploadEndsInv, SocketStepsInv,
   TickInv, InterruptInv, Stuttering
DEF Next

LEMMA Invariant == Spec => []Inv
BY Initially, Steps, PTL DEF Spec

\* The types, and that a transfer exists exactly while the upload runs.
THEOREM TypeCorrect == Spec => []TypeOK
<1>1. Inv => TypeOK
  BY DEF Inv
<1> QED
  BY <1>1, Invariant, PTL

\* Nothing measured is lost (AttemptProgress): the delivered download and the
\* latest valid report of the upload stay in the report, whatever fails or
\* interrupts the attempt afterwards.
THEOREM MeasurementsStay == Spec => []ResultsRetained
<1>1. Inv => ResultsRetained
  BY Retained
<1> QED
  BY <1>1, Invariant, PTL

\* The upload keeps to its two timers (transfer_upload), and what its cleanup
\* leaves behind is dated with the beginning of the cleanup.
THEOREM UploadInTime == Spec => []UploadBounded
<1>1. Inv => UploadBounded
  <2> SUFFICES ASSUME Inv PROVE UploadBounded
    OBVIOUS
  <2>1. ASSUME at = "upload"
        PROVE  /\ now <= transfer.started + UploadDuration + CloseTimeout
               /\ ~transfer.closing => now <= transfer.started + UploadDuration
    <3>1. /\ InTime(transfer, active, now, cleanup_began) /\ transfer \in Transfers
          /\ now \in Nat
      BY <2>1, NoneAssumption DEF Inv, Timed, TypeOK
    <3>2. transfer.started \in Nat /\ transfer.deadline \in Nat
      BY <3>1 DEF Transfers
    <3>3. UploadDuration \in Nat /\ CloseTimeout \in Nat
      BY AttemptAssumption
    <3> QED
      BY <3>1, <3>2, <3>3 DEF InTime, Transfers
  <2>2. ASSUME NEW i \in DOMAIN failures, failures[i].stage = "cleanup"
        PROVE  failures[i].since = cleanup_began
    <3>1. i \in 1..Len(failures) /\ Len(failures) \in Nat
      BY <2>2, InvTyped
    <3>2. at = "done"
      <4>1. at # "resolve"
        BY <2>2, EmptySeq, <3>1 DEF Inv, Placed
      <4>2. ~Running
        BY <2>2, <3>1 DEF Inv, Explained, AllQuiet, Quiet
      <4> QED
        BY <4>1, <4>2 DEF Running
    <3>3. AllQuiet(provider_kind, failures, Len(failures) - 1)
          /\ (failures # <<>> /\ Last(failures).stage = "cleanup" =>
               Last(failures).since = cleanup_began)
      BY <3>2 DEF Inv, Final
    <3>4. i = Len(failures)
      BY <2>2, <3>1, <3>3 DEF AllQuiet, Quiet
    <3>5. Last(failures) = failures[i] /\ failures # <<>>
      BY <3>1, <3>4, EmptySeq DEF Last
    <3> QED
      BY <2>2, <3>3, <3>5
  <2> QED
    BY <2>1, <2>2 DEF UploadBounded
<1> QED
  BY <1>1, Invariant, PTL

\* The outcome agrees with the report, and every direction that opened a
\* connection is in it (run_candidates, overall_outcome).
THEOREM OutcomeAgrees == Spec => []OutcomeSound
<1>1. Inv => OutcomeSound
  BY DEF Inv, Final, OutcomeSound
<1> QED
  BY <1>1, Invariant, PTL

\* With M-Lab only the last failure of a report can be a limit, so that the
\* first one rate_limit_from_report finds is the only one.
THEOREM LimitsKept == Spec => []LimitRetained
<1>1. Inv => LimitRetained
  <2> SUFFICES ASSUME Inv, at = "done", provider_kind = "mlab", NEW i \in Limits,
                      failures[i].retry_at # None
               PROVE  \E first \in Limits :
                        /\ \A j \in Limits : first <= j
                        /\ failures[first].retry_at # None
                        /\ failures[first].retry_at >= failures[i].retry_at
    BY DEF LimitRetained
  <2>1. ASSUME NEW j \in Limits PROVE j = Len(failures) /\ j \in Nat
    <3>1. j \in 1..Len(failures) /\ Len(failures) \in Nat /\ Limit(provider_kind, failures[j])
      BY InvTyped DEF Limits, IsLimit, Limit
    <3>2. AllQuiet(provider_kind, failures, Len(failures) - 1)
      BY DEF Inv, Final
    <3>3. j \notin 1..(Len(failures) - 1)
      BY <3>1, <3>2 DEF AllQuiet, Quiet
    <3> QED
      BY <3>1, <3>3
  <2>2. failures[i].retry_at \in Nat
    <3>1. i \in 1..Len(failures)
      BY InvTyped DEF Limits
    <3> QED
      BY <3>1, InvTyped DEF RequestFailures
  <2>3. \A j \in Limits : i <= j
    BY <2>1
  <2>4. failures[i].retry_at >= failures[i].retry_at
    BY <2>2
  <2> QED
    BY <2>3, <2>4
<1> QED
  BY <1>1, Invariant, PTL

\* A connection is opened only after admission and never after a refusal for
\* the whole provider: the failures before it are quiet, and the one a step to
\* the next address adds is of this address only.
THEOREM ContactsAllowed == Spec => ContactAllowed
<1> DEFINE Allowed == contacted' # contacted =>
                        /\ admission' = "reserved"
                        /\ \A i \in DOMAIN failures' : failures'[i].disposition # "provider"
<1>1. Inv /\ [Next]_vars => Allowed
  <2> SUFFICES ASSUME Inv, [Next]_vars, contacted' # contacted
               PROVE  /\ admission' = "reserved"
                      /\ \A i \in DOMAIN failures' : failures'[i].disposition # "provider"
    OBVIOUS
  <2>1. DnsAnswers \/ ConnectFails \/ TlsFails \/ HandshakeFails
    BY DEF Next, vars, history, LocateFails, LocateStatus, NoUsableTarget, Reserve, Resolving,
       DnsFails, SetUp, Connected, Wrapped, HandshakeRefused, HandshakeStatus, HandshakeDone,
       DownloadBytes, DownloadEnds, Downloading, Uploading, Polled, UploadDeadline, UploadText,
       UploadPeerCloses, UploadEof, UploadBreaks, UploadAccepted, UploadFlushed, Interrupt, Tick
  <2>2. Running /\ Running' /\ Inv' /\ at' = "connect"
    <3>1. at \in {"dns", "connect", "tls", "handshake"}
      BY <2>1 DEF DnsAnswers, ConnectFails, TlsFails, HandshakeFails, Connecting, Awaiting
    <3>2. at' = "connect"
      BY <2>1 DEF DnsAnswers, ConnectFails, TlsFails, HandshakeFails, AddressFails, Connect
    <3> QED
      BY <3>1, <3>2, Steps DEF Running
  <2>3. /\ admission' = "reserved" /\ AllQuiet(provider_kind', failures', Len(failures'))
        /\ failures' \in Seq(RequestFailures)
    BY <2>2 DEF Inv, TypeOK, Placed, Explained
  <2>4. DOMAIN failures' = 1..Len(failures')
    BY <2>3, LenProperties
  <2> QED
    BY <2>3, <2>4 DEF AllQuiet, Quiet
<1>2. Spec => [][Allowed]_vars
  <2>1. Inv /\ [Next]_vars => [Allowed]_vars
    BY <1>1
  <2> HIDE DEF Allowed
  <2> QED
    BY <2>1, Invariant, PTL DEF Spec
<1> QED
  BY <1>2 DEF ContactAllowed
=============================================================================
