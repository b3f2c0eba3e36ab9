------------------------------ MODULE Attempt ------------------------------
(***************************************************************************)
(* One NDT7 attempt of src/src/bandwidth.rs, from endpoint resolution      *)
(* (src/src/provider.rs) to its report.                                    *)
(*                                                                         *)
(* measure_bandwidth_with_network_and_gate_observed races the attempt      *)
(* against shutdown and the whole-test time-out in a biased select.  An    *)
(* action is what happens between two awaits.  A request is identified by  *)
(* the candidate, direction and address it was made for: the code draws a  *)
(* fresh RequestId for each.                                               *)
(*                                                                         *)
(* The clock `now' ticks while the upload runs, whose two timers it        *)
(* drives; a timer that is due is served before anything else, as the      *)
(* biased select does.  Setting up takes no ticks: how long it lasts       *)
(* matters only to the whole-test time-out, which may fire at any await.   *)
(***************************************************************************)
EXTENDS Integers, Sequences, SequencesExt, FiniteSets

CONSTANTS
    None,
    Kinds,             \* provider kinds to consider, of {"mlab", "direct"}
    MaxCandidates,     \* bound: targets Locate returns
    MaxAddresses,      \* addresses a name resolves to (MAX_RESOLVED_ADDRESSES)
    UploadDuration,    \* UPLOAD_DURATION
    CloseTimeout,      \* UPLOAD_CLOSE_TIMEOUT
    Delays,            \* Retry-After delays a response may carry
    Counters           \* values of BytesReceived and of ElapsedTime

VARIABLES
    provider_kind, now,
    at,                \* what the attempt awaits
    candidates, candidate, addresses,   \* targets, the current one, addresses left
    active, failures, download, upload, \* AttemptProgress
    failures_before,   \* of run_download and run_upload
    received,          \* the download has measurement bytes
    transfer,          \* locals of transfer_upload, or None
    admission, outcome,
    contacted,         \* history: requests that opened a connection
    valid,             \* history: valid upload reports received
    downloaded,        \* history: request of a download that delivered
    cleanup_began      \* history: when the upload's active window ended

place == <<candidates, candidate, addresses>>
progress == <<active, failures, download, upload>>
history == <<contacted, valid, downloaded, cleanup_began>>
vars == <<provider_kind, now, at, place, progress, failures_before, received,
          transfer, admission, outcome, history>>

ASSUME AttemptAssumption ==
    /\ Kinds \subseteq {"mlab", "direct"}
    /\ {MaxCandidates, MaxAddresses, UploadDuration, CloseTimeout} \subseteq Nat \ {0}
    /\ Delays \subseteq Nat /\ Counters \subseteq Nat \ {0} /\ None \notin Nat

Stages == {"locate", "dns", "connect", "tls", "websocket_handshake", "download", "upload",
           "cleanup"}
Directions == {"download", "upload"}
FailureOutcomes == {"error", "no_capacity", "rate_limited", "cancelled", "timeout"}
Outcomes == FailureOutcomes \cup {"success", "partial"}

\* A connection: candidate, direction and address.
Requests == (1..MaxCandidates) \X Directions \X (Nat \ {0})
Reports == [bytes : Counters, elapsed : Counters]
Downloads == [request_id : Requests]
Uploads == [request_id : Requests, bytes : Counters, elapsed : Counters]

Actives == [stage : Stages, direction : Directions \cup {None},
            request_id : Requests \cup {None}, since : Nat]
RequestFailures ==
    [stage : Stages, direction : Directions \cup {None}, request_id : Requests \cup {None},
     since : Nat, outcome : FailureOutcomes, disposition : {"terminal", "next", "provider"},
     http_status : {None, 204, 429, 500, 503}, retry_at : Nat \cup {None}]
Transfers ==
    [closing : BOOLEAN, flushing : BOOLEAN, close_queued : BOOLEAN, peer_closed : BOOLEAN,
     measurement : Reports \cup {None}, deadline : Nat, started : Nat]

ASSUME NoneAssumption ==
    /\ None \notin Outcomes /\ None \notin Directions /\ None \notin Requests
    /\ None \notin Reports /\ None \notin Downloads /\ None \notin Uploads
    /\ None \notin Transfers

-----------------------------------------------------------------------------
(* Failures. *)

\* A RequestFailure of the active request.
Failure(stage, out, disposition, status, retry_at) ==
    [stage |-> stage, direction |-> active.direction, request_id |-> active.request_id,
     since |-> active.since, outcome |-> out, disposition |-> disposition,
     http_status |-> status, retry_at |-> retry_at]

simple(stage) == Failure(stage, "error", "terminal", None, None)

\* Outcome and disposition of an HTTP answer to the WebSocket handshake.
classify_handshake_status(status) ==
    CASE status = 429 -> <<"rate_limited", "provider">>
      [] status = 503 /\ provider_kind = "mlab" -> <<"no_capacity", "next">>
      [] status = 503 /\ provider_kind = "direct" -> <<"no_capacity", "terminal">>
      [] OTHER -> <<"error", "terminal">>

\* Outcome of a Locate answer other than 200.
LocateOutcome(status, retry_at) ==
    CASE status = 204 -> "no_capacity"
      [] status = 429 \/ (status = 503 /\ retry_at # None) -> "rate_limited"
      [] OTHER -> "error"

\* Mutant: only the outcome that is called so is a limit.
StopOutcomeByName(fs) == fs # <<>> /\ Last(fs).outcome = "no_capacity"
provider_stop_outcome(fs) == fs # <<>> /\ Last(fs).disposition = "provider"

-----------------------------------------------------------------------------
(* run_candidates: what follows a direction. *)

Awaiting(a) == at = a
Finish(o) == at' = "done" /\ outcome' = o

\* connect_websocket selects the direction and its request before DNS.
Begin(c, direction) ==
    /\ active' = [stage |-> "dns", direction |-> direction,
                  request_id |-> <<c, direction, 1>>, since |-> now]
    /\ failures_before' = Len(failures') /\ candidate' = c /\ at' = "dns"
    /\ UNCHANGED outcome

Over(o) == Finish(o) /\ UNCHANGED <<active, failures_before, candidate>>

\* Mutant: a target that refused earlier is still taken for the current one.
TryNextStale(fs, measured) == Last(fs).disposition = "next"
TryNext(fs, measured) == measured = None /\ Last(fs).disposition = "next"

AfterDownload(fs, measured) ==
    /\ failures' = fs /\ download' = measured /\ UNCHANGED upload
    /\ IF provider_stop_outcome(fs) THEN Over(Last(fs).outcome)
       ELSE IF fs # <<>> /\ TryNext(fs, measured)
            THEN \/ candidate < candidates /\ Begin(candidate + 1, "download")
                 \/ candidate = candidates /\ Over("no_capacity")
            ELSE Begin(candidate, "upload")

\* The outcome by what was measured.
Measured(d, u) ==
    CASE d # None /\ u # None -> "success"
      [] d = None /\ u = None -> "error"
      [] OTHER -> "partial"

AfterUpload(fs, measured) ==
    /\ failures' = fs /\ upload' = measured /\ UNCHANGED download
    /\ Over(IF provider_stop_outcome(fs) THEN Last(fs).outcome ELSE Measured(download, measured))

\* The direction ends without a measurement.
DirectionFails(fs) ==
    IF active.direction = "download" THEN AfterDownload(fs, None) ELSE AfterUpload(fs, None)

-----------------------------------------------------------------------------
(* Endpoint resolution and admission. *)

Resolving == Awaiting("resolve") /\ UNCHANGED <<provider_kind, now, addresses,
                                                download, upload, received, transfer, history>>

\* The resolution ends with a terminal failure.
ResolutionEnds(fs, terminal) ==
    /\ failures' = Append(fs, terminal) /\ Over(terminal.outcome)
    /\ UNCHANGED <<candidates, admission>>

\* No consent, a client that cannot be built, a request that fails, a body
\* that cannot be read.
LocateFails ==
    /\ Resolving /\ provider_kind = "mlab" /\ ResolutionEnds(<<>>, simple("locate"))

LocateStatus ==
    /\ Resolving /\ provider_kind = "mlab"
    /\ \E status \in {204, 429, 500, 503}, delay \in Delays \cup {None} :
         LET retry_at == IF delay = None THEN None ELSE now + delay
         IN  ResolutionEnds(<<>>, Failure("locate", LocateOutcome(status, retry_at), "provider",
                                          status, retry_at))

\* The records parse_locate_candidates refuses: a missing URL lets the next
\* target be tried, an invalid one does not.
RefusedRecords == {<<>>} \cup {<<Failure("locate", "error", d, None, None)>> :
                                 d \in {"next", "terminal"}}

NoUsableTarget ==
    /\ Resolving /\ provider_kind = "mlab"
    /\ \E fs \in RefusedRecords : ResolutionEnds(fs, simple("locate"))

\* The start is reserved before the first connection.  The gate may refuse.
Reserve ==
    /\ Resolving
    /\ \E n \in IF provider_kind = "mlab" THEN 1..MaxCandidates ELSE {1},
          fs \in IF provider_kind = "mlab" THEN RefusedRecords ELSE {<<>>} :
         /\ candidates' = n
         /\ \/ /\ admission' = "reserved" /\ failures' = fs /\ Begin(1, "download")
            \/ /\ admission' = "refused"
               /\ failures' = Append(fs, [simple("connect") EXCEPT !.since = now])
               /\ Over("error")

-----------------------------------------------------------------------------
(* connect_websocket. *)

Connecting(a) == /\ Awaiting(a)
                 /\ UNCHANGED <<provider_kind, now, candidates, received, admission,
                                valid, downloaded, cleanup_began>>

begin_stage(stage) == active' = [active EXCEPT !.stage = stage, !.since = now]

\* A connection to the k-th address of the name.
Connect(k) ==
    LET id == <<candidate, active.direction, k>>
    IN  /\ active' = [active EXCEPT !.stage = "connect", !.since = now, !.request_id = id]
        /\ contacted' = contacted \cup {id} /\ at' = "connect"

DnsFails ==
    /\ Connecting("dns") /\ DirectionFails(Append(failures, simple("dns")))
    /\ UNCHANGED <<addresses, transfer, contacted>>

DnsAnswers ==
    /\ Connecting("dns")
    /\ \E n \in 1..MaxAddresses : addresses' = n - 1
    /\ Connect(1)
    /\ UNCHANGED <<candidate, failures, download, upload, failures_before, transfer, outcome>>

\* A failure of this address only: the next one is tried.
AddressFails(f) ==
    \/ /\ addresses > 0 /\ addresses' = addresses - 1 /\ failures' = Append(failures, f)
       /\ Connect(active.request_id[3] + 1)
       /\ UNCHANGED <<candidate, download, upload, failures_before, outcome>>
    \/ /\ addresses = 0 /\ DirectionFails(Append(failures, f))
       /\ UNCHANGED <<addresses, contacted>>

ConnectFails == Connecting("connect") /\ AddressFails(simple("connect")) /\ UNCHANGED transfer

\* The next stage of setting the connection up.
SetUp(from, to, stage) ==
    /\ Connecting(from) /\ at' = to /\ begin_stage(stage)
    /\ UNCHANGED <<candidate, addresses, failures, download, upload, failures_before, transfer,
                   outcome, contacted>>

Connected == SetUp("connect", "tls", "tls")
TlsFails == Connecting("tls") /\ AddressFails(simple("tls")) /\ UNCHANGED transfer
Wrapped == SetUp("tls", "handshake", "websocket_handshake")

\* An error on the way, without an HTTP answer.
HandshakeFails ==
    /\ Connecting("handshake") /\ AddressFails(simple("websocket_handshake"))
    /\ UNCHANGED transfer

\* The request cannot be built, or the server selects another subprotocol.
HandshakeRefused ==
    /\ Connecting("handshake")
    /\ DirectionFails(Append(failures, simple("websocket_handshake")))
    /\ UNCHANGED <<addresses, transfer, contacted>>

StatusFailure(status, retry_at) ==
    LET class == classify_handshake_status(status)
    IN  Failure("websocket_handshake", class[1], class[2], status, retry_at)

\* Mutant: an HTTP answer is taken for a failure of the address.
HandshakeStatusNextAddress ==
    /\ Connecting("handshake")
    /\ \E status \in {429, 500, 503}, delay \in Delays \cup {None} :
         AddressFails(StatusFailure(status, IF delay = None THEN None ELSE now + delay))
    /\ UNCHANGED transfer
\* The server answers the handshake with an HTTP status.
HandshakeStatus ==
    /\ Connecting("handshake")
    /\ \E status \in {429, 500, 503}, delay \in Delays \cup {None} :
         DirectionFails(Append(failures, StatusFailure(status,
                                             IF delay = None THEN None ELSE now + delay)))
    /\ UNCHANGED <<addresses, transfer, contacted>>

\* The download starts to count, or the upload gets its first deadline.
HandshakeDone ==
    /\ Awaiting("handshake") /\ at' = active.direction /\ begin_stage(active.direction)
    /\ received' = FALSE
    /\ transfer' = IF active.direction = "download" THEN None
                   ELSE [closing |-> FALSE, flushing |-> FALSE, close_queued |-> FALSE,
                         peer_closed |-> FALSE, measurement |-> None,
                         deadline |-> now + UploadDuration, started |-> now]
    /\ UNCHANGED <<provider_kind, now, place, failures, download, upload,
                   failures_before, admission, outcome, history>>

-----------------------------------------------------------------------------
(* run_download. *)

Downloading == /\ Awaiting("download")
               /\ UNCHANGED <<provider_kind, now, candidates, addresses, transfer,
                              admission, contacted, valid, cleanup_began>>

DownloadBytes ==
    /\ Downloading /\ ~received /\ received' = TRUE
    /\ UNCHANGED <<candidate, at, progress, failures_before, outcome, downloaded>>

\* A Close, the end of the stream, or a transport error.  What has been
\* received counts in every case; a direction without a failure of its own
\* gets one when it has no bytes or no Close.
DownloadEnds ==
    /\ Downloading
    /\ \E close, error \in BOOLEAN :
         LET fs == IF error THEN Append(failures, simple("download")) ELSE failures
             unexplained == Len(fs) = failures_before /\ (~received \/ ~close)
             all == IF unexplained THEN Append(fs, simple("download")) ELSE fs
             measured == IF received THEN [request_id |-> active.request_id] ELSE None
         IN  /\ ~(close /\ error)
             /\ AfterDownload(all, measured)
             /\ downloaded' = IF received THEN active.request_id ELSE downloaded
    /\ UNCHANGED received

-----------------------------------------------------------------------------
(* run_upload and transfer_upload. *)

Uploading == /\ Awaiting("upload")
             /\ UNCHANGED <<provider_kind, now, candidates, addresses, received,
                            admission, contacted, downloaded>>

\* The socket is polled only while the timer is not due.
Polled == Uploading /\ now < transfer.deadline

\* The closure run_upload hands to transfer_upload.
Observed(measurement, stage) ==
    /\ IF active.stage = stage THEN UNCHANGED active ELSE begin_stage(stage)
    /\ upload' = IF measurement = None THEN None
                 ELSE [request_id |-> active.request_id, bytes |-> measurement.bytes,
                       elapsed |-> measurement.elapsed]

Stays == UNCHANGED <<candidate, at, failures, download, failures_before, outcome>>

\* The active window is over: at its deadline or with the peer's Close.
Close(t) ==
    /\ transfer' = [t EXCEPT !.closing = TRUE, !.deadline = now + CloseTimeout]
    /\ Observed(t.measurement, "cleanup")
    /\ cleanup_began' = now

\* The transfer ends.  An upload without a measurement and without any
\* failure since before its connection is a failure of the active transfer.
UploadOver(error) ==
    LET fs == IF error THEN Append(failures, simple(active.stage)) ELSE failures
        unexplained == transfer.measurement = None /\ Len(fs) = failures_before
        all == IF unexplained
               THEN Append(fs, [simple("upload") EXCEPT !.since = transfer.started]) ELSE fs
        m == transfer.measurement
    IN  /\ AfterUpload(all, IF m = None THEN None
                            ELSE [request_id |-> active.request_id, bytes |-> m.bytes,
                                  elapsed |-> m.elapsed])
        /\ transfer' = None

UploadDeadline ==
    /\ Uploading /\ now >= transfer.deadline
    /\ \/ ~transfer.closing /\ Close(transfer) /\ Stays
       \/ transfer.closing /\ UploadOver(TRUE) /\ UNCHANGED cleanup_began
    /\ UNCHANGED valid

\* Mutant: a report with more bytes replaces one of a later time.
RegressingBytes(next, previous) == previous = None \/ next.bytes >= previous.bytes
\* A report replaces the one before if time advanced and bytes did not fall.
Advances(next, previous) ==
    previous = None \/ (next.elapsed > previous.elapsed /\ next.bytes >= previous.bytes)

\* A text message: a valid server report, or anything else.
UploadText ==
    /\ Polled /\ ~transfer.peer_closed /\ Stays
    /\ \E r \in Reports \cup {None} :
         LET m == IF r # None /\ Advances(r, transfer.measurement)
                  THEN r ELSE transfer.measurement
         IN  /\ transfer' = [transfer EXCEPT !.measurement = m]
             /\ Observed(m, IF transfer.closing THEN "cleanup" ELSE "upload")
             /\ valid' = IF r = None THEN valid ELSE valid \cup {r}
    /\ UNCHANGED cleanup_began

\* Mutant: the peer's Close always allows another CLOSE_TIMEOUT.
UploadPeerClosesAgain ==
    /\ Polled /\ ~transfer.peer_closed /\ Stays
    /\ Close([transfer EXCEPT !.peer_closed = TRUE, !.close_queued = TRUE, !.flushing = TRUE])
    /\ UNCHANGED valid
UploadPeerCloses ==
    /\ Polled /\ ~transfer.peer_closed /\ Stays
    /\ LET t == [transfer EXCEPT !.peer_closed = TRUE, !.close_queued = TRUE, !.flushing = TRUE]
       IN  IF transfer.closing
           THEN transfer' = t /\ UNCHANGED <<active, upload, cleanup_began>>
           ELSE Close(t)
    /\ UNCHANGED valid

\* The stream ends, which is an error unless the peer had closed, or breaks.
UploadEof ==
    /\ Polled /\ UploadOver(~transfer.peer_closed) /\ UNCHANGED <<valid, cleanup_began>>
UploadBreaks ==
    /\ Polled /\ UploadOver(TRUE) /\ UNCHANGED <<valid, cleanup_began>>

\* A bulk frame, or the Close once the window is over, is accepted by the
\* socket; the next is offered only when it has been flushed.
UploadAccepted ==
    /\ Polled /\ ~transfer.flushing /\ ~transfer.close_queued
    /\ transfer' = [transfer EXCEPT !.flushing = TRUE, !.close_queued = transfer.closing]
    /\ Stays /\ UNCHANGED <<active, upload, valid, cleanup_began>>
UploadFlushed ==
    /\ Polled /\ transfer.flushing
    /\ transfer' = [transfer EXCEPT !.flushing = FALSE]
    /\ Stays /\ UNCHANGED <<active, upload, valid, cleanup_began>>

-----------------------------------------------------------------------------
(* Shutdown, whole-test time-out and the upload's clock. *)

\* AttemptProgress::interrupt: the select looks at shutdown and at the time-out
\* before it polls the attempt.
Interrupt ==
    /\ at # "done"
    /\ \E o \in {"cancelled", "timeout"} :
         /\ failures' = Append(failures, Failure(active.stage, o, "terminal", None, None))
         /\ Finish(o)
    /\ transfer' = None
    /\ UNCHANGED <<provider_kind, now, place, active, download, upload,
                   failures_before, received, admission, history>>

Tick == /\ at = "upload" /\ now < transfer.deadline /\ now' = now + 1
        /\ UNCHANGED <<provider_kind, at, place, progress, failures_before, received,
                       transfer, admission, outcome, history>>

Init ==
    /\ provider_kind \in Kinds /\ now = 0 /\ at = "resolve"
    /\ candidates = 0 /\ candidate = 0 /\ addresses = 0
    /\ active = [stage |-> IF provider_kind = "mlab" THEN "locate" ELSE "dns",
                 direction |-> None, request_id |-> None, since |-> 0]
    /\ failures = <<>> /\ download = None /\ upload = None
    /\ failures_before = 0 /\ received = FALSE /\ transfer = None
    /\ admission = "untracked" /\ outcome = None
    /\ contacted = {} /\ valid = {} /\ downloaded = None /\ cleanup_began = None

Next ==
    \/ LocateFails \/ LocateStatus \/ NoUsableTarget \/ Reserve
    \/ DnsFails \/ DnsAnswers \/ ConnectFails \/ Connected \/ TlsFails \/ Wrapped
    \/ HandshakeFails \/ HandshakeRefused \/ HandshakeStatus \/ HandshakeDone
    \/ DownloadBytes \/ DownloadEnds
    \/ UploadDeadline \/ UploadText \/ UploadPeerCloses \/ UploadEof \/ UploadBreaks
    \/ UploadAccepted \/ UploadFlushed
    \/ Interrupt \/ Tick

Spec == Init /\ [][Next]_vars

-----------------------------------------------------------------------------
(* Properties. *)

\* Type invariant; a transfer exists exactly while the upload runs.
TypeOK ==
    /\ provider_kind \in Kinds /\ now \in Nat
    /\ at \in {"resolve", "dns", "connect", "tls", "handshake", "download", "upload", "done"}
    /\ candidate \in 0..candidates /\ candidates \in 0..MaxCandidates
    /\ addresses \in 0..MaxAddresses /\ failures_before \in 0..Len(failures)
    /\ active \in Actives /\ failures \in Seq(RequestFailures)
    /\ download \in Downloads \cup {None} /\ upload \in Uploads \cup {None}
    /\ received \in BOOLEAN
    /\ transfer \in Transfers \cup {None} /\ (transfer # None) = (at = "upload")
    /\ admission \in {"untracked", "reserved", "refused"}
    /\ outcome \in Outcomes \cup {None} /\ (outcome # None) = (at = "done")
    /\ contacted \in SUBSET Requests /\ valid \in SUBSET Reports
    /\ downloaded \in Requests \cup {None} /\ cleanup_began \in Nat \cup {None}

\* A connection is opened only with a reserved start and never after a
\* provider-wide refusal, whatever address, direction or target comes next
\* (measure_bandwidth_with_network_and_gate_observed, run_candidates).
ContactAllowed ==
    [][contacted' # contacted =>
        /\ admission' = "reserved"
        /\ \A i \in DOMAIN failures' : failures'[i].disposition # "provider"]_vars

\* What has been measured stays and belongs to the request that measured it:
\* a delivered download, and of the valid upload reports one that no other
\* supersedes, through failures, interruption and the other direction.
ResultsRetained ==
    /\ downloaded # None => download # None /\ download.request_id = downloaded
    /\ (upload = None) = (valid = {})
    /\ upload # None =>
         /\ upload.request_id \in contacted /\ upload.request_id[2] = "upload"
         /\ [bytes |-> upload.bytes, elapsed |-> upload.elapsed] \in valid
         /\ \A r \in valid : ~(r.elapsed > upload.elapsed /\ r.bytes >= upload.bytes)

\* An upload sends for UPLOAD_DURATION and closes within CLOSE_TIMEOUT,
\* whatever reports and Closes arrive when (transfer_upload); a failure of the
\* closing, or an interruption during it, carries the time at which it began,
\* which no later report moves.
UploadBounded ==
    /\ at = "upload" =>
         /\ now <= transfer.started + UploadDuration + CloseTimeout
         /\ ~transfer.closing => now <= transfer.started + UploadDuration
    /\ \A i \in DOMAIN failures :
         failures[i].stage = "cleanup" => failures[i].since = cleanup_began

Has(dir) == \E i \in DOMAIN failures : failures[i].direction = dir

\* The outcome says what the report holds: both, one or no measurement, and a
\* direction that was begun and is missing has a failure of its own.
OutcomeSound ==
    at = "done" =>
        /\ outcome = "success" => download # None /\ upload # None
        /\ outcome = "partial" => (download = None) # (upload = None)
        /\ outcome \in {"error", "no_capacity"} => download = None /\ upload = None
        /\ outcome = "no_capacity" /\ admission = "reserved" =>
             \A k \in 1..candidates : \E i \in DOMAIN failures :
                failures[i].http_status = 503 /\ failures[i].request_id[1] = k
        /\ outcome # "success" =>
             failures # <<>> /\ Last(failures).outcome \in {outcome, "error", "no_capacity"}
        /\ \A id \in contacted : \/ id[2] = "download" /\ download # None
                                 \/ id[2] = "upload" /\ upload # None
                                 \/ Has(id[2])

\* rate_limit_from_report: the failures the scheduler takes for a limit.
IsLimit(f) ==
    \/ f.outcome = "rate_limited" \/ f.http_status = 429
    \/ f.stage = "locate" /\ provider_kind = "mlab" /\ f.http_status \in {204, 503}
    \/ f.stage = "websocket_handshake" /\ provider_kind = "direct" /\ f.http_status = 503
Limits == {i \in DOMAIN failures : IsLimit(failures[i])}

\* M-Lab: every deadline the provider sent with a limit is the one
\* finish_attempt reads from the report, or lies before it, so that none is
\* lost behind an earlier refusal (docs/scheduling.md:64-67: "Provider-wide
\* limits are retained in scheduler state").  With a direct server a 503 is
\* terminal only: the upload is tried and its own limit comes second.
LimitRetained ==
    at = "done" /\ provider_kind = "mlab" =>
        \A i \in Limits : failures[i].retry_at # None =>
            \E first \in Limits :
                /\ \A j \in Limits : first <= j
                /\ failures[first].retry_at # None
                /\ failures[first].retry_at >= failures[i].retry_at

\* Every upload that opened a connection is in the report, with a failure of
\* its own or the measurement (docs/data-format.md:259-260: "an upload without
\* a valid server measurement is also a transfer failure even if the
\* connection closes cleanly").
UploadsAccounted ==
    at = "done" =>
        \A id \in contacted : id[2] = "upload" =>
            \/ \E i \in DOMAIN failures : failures[i].request_id = id
            \/ upload # None /\ upload.request_id = id
=============================================================================
