------------------------- MODULE KsefDispatchProofs -------------------------
(***************************************************************************)
(* Theorems about KsefDispatch for any sets of invoices, requests and      *)
(* workers, any number of submissions and of attempts.                     *)
(***************************************************************************)
EXTENDS KsefDispatch, TLAPS

(***************************************************************************)
(* What a request, a poll job and a worker know about the rest.            *)
(***************************************************************************)
\* A request in flight is about an invoice; between KSeF's answer and the
\* commit it alone knows the reference, for which no poll job exists yet.
RequestsOK ==
  /\ \A t \in Requests :
       /\ request[t].at # "idle" => request[t].inv \in Invoices /\ request[t].xml \in Versions
       /\ request[t].at \in {"inserted", "sending", "sent", "failed", "reloaded"} =>
            request[t].op \in {"approve", "retry"}
       /\ request[t].at # "idle" /\ request[t].op = "retry" =>
            invoice[request[t].inv].approved /\ payload[request[t].inv] # None
       /\ request[t].at = "sent" =>
            /\ request[t].ref \in Refs
            /\ ksef[request[t].ref] # None
            /\ ksef[request[t].ref].inv = request[t].inv
            /\ mode = "mock" => ksef[request[t].ref].verdict = "accepted"
            /\ pollJob[request[t].ref].status = "NONE"
  /\ \A t, u \in Requests :
       request[t].at = "sent" /\ request[u].at = "sent" /\ t # u =>
         request[t].ref # request[u].ref

\* A poll job refers to a document KSeF has, and only one that may still be
\* taken waits.
JobsOK ==
  \A r \in Refs :
    /\ pollJob[r].status # "NONE" => ksef[r] # None
    /\ pollJob[r].status = "NONE" => pollJob[r].attempts = 0
    /\ pollJob[r].status = "NEW" => pollJob[r].attempts < MaxAttempts

\* The jobs a worker holds: claimed, not yet committed.
Holds(w, r) == r \in worker[w].batch \/ worker[w].result[r] # "none"

\* Held jobs are PROCESSING and held by one worker; only a polling worker has
\* results and changes.
HeldOK ==
  /\ \A w \in Workers, r \in Refs :
       /\ Holds(w, r) => pollJob[r].status = "PROCESSING" /\ worker[w].at # "idle"
       /\ worker[w].result[r] # "none" => worker[w].at = "polling"
       /\ worker[w].result[r] = "pending" => pollJob[r].attempts < MaxAttempts
  /\ \A v, w \in Workers, r \in Refs : Holds(v, r) /\ Holds(w, r) => v = w

\* A change to invoice i that repeats what KSeF said.
FromKsef(write, i) ==
  /\ write.status \in {None, "ACCEPTED", "REJECTED"}
  /\ write.number # NoRef =>
       /\ ksef[write.number] # None
       /\ ksef[write.number].inv = i
       /\ ksef[write.number].verdict = "accepted"
  /\ write.status = "ACCEPTED" => write.number # NoRef
  /\ write.status = "REJECTED" =>
       \E r \in Refs : ksef[r] # None /\ ksef[r].inv = i /\ ksef[r].verdict = "rejected"

\* What a worker's session is about to write comes from KSeF.
WritesOK == \A w \in Workers, i \in Invoices : FromKsef(worker[w].write[i], i)

\* An invoice still SENT under the reference of a held job was SENT in the
\* worker's snapshot; and what was accepted is on file or about to be.
SnapshotOK ==
  \A w \in Workers, r \in Refs :
    /\ /\ worker[w].at = "polling" /\ Holds(w, r)
       /\ invoice[ksef[r].inv].status = "SENT" /\ invoice[ksef[r].inv].ref = r
       => worker[w].seen[ksef[r].inv] = "SENT"
    /\ worker[w].result[r] = "accepted" =>
         /\ \/ worker[w].write[ksef[r].inv].number # NoRef
            \/ invoice[ksef[r].inv].number # NoRef
         /\ invoice[ksef[r].inv].status = "SENT" /\ invoice[ksef[r].inv].ref = r =>
              worker[w].write[ksef[r].inv].status # None

\* What the committed invoices say.
InvoicesOK == SentIsPolled /\ VerdictIsKsefs /\ DoneJobDelivered /\ QueuedCanBeRetried

IInv ==
  /\ TypeOK
  /\ RequestsOK
  /\ JobsOK
  /\ HeldOK
  /\ WritesOK
  /\ SnapshotOK
  /\ InvoicesOK
  /\ SendsAreExclusive

-----------------------------------------------------------------------------

\* The initial states satisfy the invariant.
LEMMA InitOK == Init => IInv
<1> SUFFICES ASSUME Init PROVE IInv
  OBVIOUS
<1> USE BoundsAssumption, ModesAssumption, NoneAssumption
<1>1. TypeOK
  <2>1. invoice \in [Invoices -> InvoiceRow]
    BY DEF Init, InvoiceRow, KsefStatus, NoRef
  <2>2. pollJob \in [Refs -> PollRow] /\ ksef \in [Refs -> Submission \cup {None}]
    BY DEF Init, PollRow, PollStatus, NoPoll
  <2>3. request \in [Requests -> RequestState]
    BY DEF Init, RequestState, Idle, NoRef
  <2>4. IdleWorker \in WorkerState
    BY DEF WorkerState, IdleWorker, PendingWrite, NoWrite, NoRef, KsefStatus
  <2> QED
    BY <2>1, <2>2, <2>3, <2>4 DEF Init, TypeOK
<1>2. RequestsOK /\ JobsOK /\ SendsAreExclusive
  BY DEF Init, RequestsOK, JobsOK, SendsAreExclusive, OwnsRow, Idle, NoPoll
<1>3. \A w \in Workers, r \in Refs : ~Holds(w, r) /\ worker[w].result[r] = "none"
  BY DEF Init, Holds, IdleWorker
<1>4. \A w \in Workers, i \in Invoices : worker[w].write[i] = NoWrite
  BY DEF Init, IdleWorker
<1>5. HeldOK /\ WritesOK /\ SnapshotOK
  BY <1>3, <1>4 DEF HeldOK, WritesOK, FromKsef, SnapshotOK, NoWrite, NoRef, KsefStatus
<1>6. InvoicesOK
  BY DEF Init, InvoicesOK, SentIsPolled, VerdictIsKsefs, DoneJobDelivered, QueuedCanBeRetried,
     NoPoll, NoRef
<1> QED
  BY <1>1, <1>2, <1>5, <1>6 DEF IInv

-----------------------------------------------------------------------------
(***************************************************************************)
(* Steps of a request.                                                     *)
(***************************************************************************)
\* A request that moves on keeps its type.
LEMMA RequestMoves ==
  ASSUME TypeOK, NEW t \in Requests,
         NEW a \in {"inserted", "sending", "sent", "failed", "reloaded"},
         NEW s \in KsefStatus \cup {None}, NEW r \in Refs \cup {NoRef}
  PROVE  /\ [request EXCEPT ![t].at = a] \in [Requests -> RequestState]
         /\ [request EXCEPT ![t].at = a, ![t].seen = s] \in [Requests -> RequestState]
         /\ [request EXCEPT ![t].at = a, ![t].ref = r] \in [Requests -> RequestState]
<1> USE DEF TypeOK, RequestState
<1>1. request[t] \in RequestState
  OBVIOUS
<1>2. [request[t] EXCEPT !.at = a] \in RequestState
  BY <1>1
<1>3. [request[t] EXCEPT !.at = a, !.seen = s] \in RequestState
  BY <1>1
<1>4. [request[t] EXCEPT !.at = a, !.ref = r] \in RequestState
  BY <1>1
<1> QED
  BY <1>2, <1>3, <1>4

\* What a request does in its own session leaves jobs, workers and committed
\* rows as they are.
LEMMA RequestAlone ==
  ASSUME IInv, UNCHANGED <<mode, invoice, payload, sendJobs, pollJob, ksef, worker>>
  PROVE  JobsOK' /\ HeldOK' /\ WritesOK' /\ SnapshotOK' /\ InvoicesOK'
BY DEF IInv, JobsOK, HeldOK, Holds, WritesOK, FromKsef, SnapshotOK, InvoicesOK, SentIsPolled,
   VerdictIsKsefs, DoneJobDelivered, QueuedCanBeRetried

\* Beginning an approval claims nothing.
LEMMA BeginApproveOK ==
  ASSUME NEW t \in Requests, NEW i \in Invoices, IInv, BeginApprove(t, i)
  PROVE  IInv'
<1> USE BoundsAssumption, NoneAssumption DEF IInv, TypeOK, RequestState, Idle
<1>1. TypeOK'
  <2>1. request' \in [Requests -> RequestState]
    BY DEF BeginApprove, RequestsOK, InvoiceRow
  <2> QED
    BY <2>1 DEF BeginApprove
<1>2. RequestsOK'
  BY DEF BeginApprove, RequestsOK, InvoiceRow
<1>3. SendsAreExclusive'
  BY DEF BeginApprove, SendsAreExclusive, OwnsRow, CanOwn, CanShare
<1>4. UNCHANGED <<mode, invoice, payload, sendJobs, pollJob, ksef, worker>>
  BY DEF BeginApprove
<1> QED
  BY <1>1, <1>2, <1>3, <1>4, RequestAlone

\* A retry begins with an approved invoice that has a payload.
LEMMA BeginRetryOK ==
  ASSUME NEW t \in Requests, NEW i \in Invoices, IInv, BeginRetry(t, i)
  PROVE  IInv'
<1> USE BoundsAssumption, NoneAssumption DEF IInv, TypeOK, RequestState, Idle
<1>1. TypeOK'
  <2>1. request' \in [Requests -> RequestState]
    BY DEF BeginRetry, RequestsOK, InvoiceRow
  <2> QED
    BY <2>1 DEF BeginRetry
<1>2. RequestsOK'
  BY DEF BeginRetry, RequestsOK, InvoiceRow
<1>3. SendsAreExclusive'
  BY DEF BeginRetry, SendsAreExclusive, OwnsRow, CanOwn, CanShare
<1>4. UNCHANGED <<mode, invoice, payload, sendJobs, pollJob, ksef, worker>>
  BY DEF BeginRetry
<1> QED
  BY <1>1, <1>2, <1>3, <1>4, RequestAlone

\* Beginning an edit claims nothing.
LEMMA BeginEditOK ==
  ASSUME NEW t \in Requests, NEW i \in Invoices, NEW v \in Versions, IInv, BeginEdit(t, i, v)
  PROVE  IInv'
<1> USE BoundsAssumption, NoneAssumption DEF IInv, TypeOK, RequestState, Idle
<1>1. TypeOK'
  <2>1. request' \in [Requests -> RequestState]
    BY DEF BeginEdit, RequestsOK, InvoiceRow
  <2> QED
    BY <2>1 DEF BeginEdit
<1>2. RequestsOK'
  BY DEF BeginEdit, RequestsOK, InvoiceRow
<1>3. SendsAreExclusive'
  BY DEF BeginEdit, SendsAreExclusive, OwnsRow, CanOwn, CanShare
<1>4. UNCHANGED <<mode, invoice, payload, sendJobs, pollJob, ksef, worker>>
  BY DEF BeginEdit
<1> QED
  BY <1>1, <1>2, <1>3, <1>4, RequestAlone

\* The flush takes the row only when nobody else has it.
LEMMA FlushApprovalOK ==
  ASSUME NEW t \in Requests, IInv, FlushApproval(t)
  PROVE  IInv'
<1> USE BoundsAssumption, NoneAssumption DEF IInv, TypeOK, RequestState, Idle
<1>1. TypeOK'
  <2>1. request' \in [Requests -> RequestState]
    BY RequestMoves DEF FlushApproval, RequestsOK, InvoiceRow
  <2> QED
    BY <2>1 DEF FlushApproval
<1>2. RequestsOK'
  BY DEF FlushApproval, RequestsOK, InvoiceRow
<1>3. SendsAreExclusive'
  BY DEF FlushApproval, SendsAreExclusive, OwnsRow, CanOwn, CanShare
<1>4. UNCHANGED <<mode, invoice, payload, sendJobs, pollJob, ksef, worker>>
  BY DEF FlushApproval
<1> QED
  BY <1>1, <1>2, <1>3, <1>4, RequestAlone

\* Inserting the job row owns nothing.
LEMMA InsertRetryJobOK ==
  ASSUME NEW t \in Requests, IInv, InsertRetryJob(t)
  PROVE  IInv'
<1> USE BoundsAssumption, NoneAssumption DEF IInv, TypeOK, RequestState, Idle
<1>1. TypeOK'
  <2>1. request' \in [Requests -> RequestState]
    BY RequestMoves DEF InsertRetryJob, RequestsOK, InvoiceRow
  <2> QED
    BY <2>1 DEF InsertRetryJob
<1>2. RequestsOK'
  BY DEF InsertRetryJob, RequestsOK, InvoiceRow
<1>3. SendsAreExclusive'
  BY DEF InsertRetryJob, SendsAreExclusive, OwnsRow, CanOwn, CanShare
<1>4. UNCHANGED <<mode, invoice, payload, sendJobs, pollJob, ksef, worker>>
  BY DEF InsertRetryJob
<1> QED
  BY <1>1, <1>2, <1>3, <1>4, RequestAlone

\* Marking the invoice takes the row only when nobody else has it.
LEMMA MarkSentOK ==
  ASSUME NEW t \in Requests, IInv, MarkSent(t)
  PROVE  IInv'
<1> USE BoundsAssumption, NoneAssumption DEF IInv, TypeOK, RequestState, Idle
<1>1. TypeOK'
  <2>1. request' \in [Requests -> RequestState]
    BY RequestMoves DEF MarkSent, RequestsOK, InvoiceRow
  <2> QED
    BY <2>1 DEF MarkSent
<1>2. RequestsOK'
  BY DEF MarkSent, RequestsOK, InvoiceRow
<1>3. SendsAreExclusive'
  BY DEF MarkSent, SendsAreExclusive, OwnsRow, CanOwn, CanShare
<1>4. UNCHANGED <<mode, invoice, payload, sendJobs, pollJob, ksef, worker>>
  BY DEF MarkSent
<1> QED
  BY <1>1, <1>2, <1>3, <1>4, RequestAlone

\* A request that does not get the row fails.
LEMMA LockErrorOK ==
  ASSUME NEW t \in Requests, IInv, LockError(t)
  PROVE  IInv'
<1> USE BoundsAssumption, NoneAssumption DEF IInv, TypeOK, RequestState, Idle
<1>1. TypeOK'
  <2>1. request' \in [Requests -> RequestState]
    BY RequestMoves DEF LockError, RequestsOK, InvoiceRow
  <2> QED
    BY <2>1 DEF LockError
<1>2. RequestsOK'
  BY DEF LockError, RequestsOK, InvoiceRow
<1>3. SendsAreExclusive'
  BY DEF LockError, SendsAreExclusive, OwnsRow, CanOwn, CanShare
<1>4. UNCHANGED <<mode, invoice, payload, sendJobs, pollJob, ksef, worker>>
  BY DEF LockError
<1> QED
  BY <1>1, <1>2, <1>3, <1>4, RequestAlone

\* A send that fails gives up the row.
LEMMA SendRaisesOK ==
  ASSUME NEW t \in Requests, IInv, SendRaises(t)
  PROVE  IInv'
<1> USE BoundsAssumption, NoneAssumption DEF IInv, TypeOK, RequestState, Idle
<1>1. TypeOK'
  <2>1. request' \in [Requests -> RequestState]
    BY RequestMoves DEF SendRaises, RequestsOK, InvoiceRow
  <2> QED
    BY <2>1 DEF SendRaises
<1>2. RequestsOK'
  BY DEF SendRaises, RequestsOK, InvoiceRow
<1>3. SendsAreExclusive'
  BY DEF SendRaises, SendsAreExclusive, OwnsRow, CanOwn, CanShare
<1>4. UNCHANGED <<mode, invoice, payload, sendJobs, pollJob, ksef, worker>>
  BY DEF SendRaises
<1> QED
  BY <1>1, <1>2, <1>3, <1>4, RequestAlone

\* The second load reads a committed status.
LEMMA ReloadOK ==
  ASSUME NEW t \in Requests, IInv, Reload(t)
  PROVE  IInv'
<1> USE BoundsAssumption, NoneAssumption DEF IInv, TypeOK, RequestState, Idle
<1>1. TypeOK'
  <2>1. request' \in [Requests -> RequestState]
    <3>1. request[t].inv \in Invoices
      BY DEF Reload, RequestsOK
    <3>2. invoice[request[t].inv].status \in KsefStatus
      BY <3>1 DEF InvoiceRow
    <3> QED
      BY <3>2, RequestMoves DEF Reload
  <2> QED
    BY <2>1 DEF Reload
<1>2. RequestsOK'
  BY DEF Reload, RequestsOK, InvoiceRow
<1>3. SendsAreExclusive'
  BY DEF Reload, SendsAreExclusive, OwnsRow, CanOwn, CanShare
<1>4. UNCHANGED <<mode, invoice, payload, sendJobs, pollJob, ksef, worker>>
  BY DEF Reload
<1> QED
  BY <1>1, <1>2, <1>3, <1>4, RequestAlone

\* A request that dies keeps nothing.
LEMMA AbortRequestOK ==
  ASSUME NEW t \in Requests, IInv, AbortRequest(t)
  PROVE  IInv'
<1> USE BoundsAssumption, NoneAssumption DEF IInv, TypeOK, RequestState, Idle
<1>1. TypeOK'
  <2>1. request' \in [Requests -> RequestState]
    BY DEF AbortRequest, RequestsOK, InvoiceRow
  <2> QED
    BY <2>1 DEF AbortRequest
<1>2. RequestsOK'
  BY DEF AbortRequest, RequestsOK, InvoiceRow
<1>3. SendsAreExclusive'
  BY DEF AbortRequest, SendsAreExclusive, OwnsRow, CanOwn, CanShare
<1>4. UNCHANGED <<mode, invoice, payload, sendJobs, pollJob, ksef, worker>>
  BY DEF AbortRequest
<1> QED
  BY <1>1, <1>2, <1>3, <1>4, RequestAlone

\* What KSeF has once received it keeps, and what it has decided it does not
\* take back.
KsefKeeps ==
  \A r \in Refs : ksef[r] # None =>
    /\ ksef'[r] # None
    /\ ksef'[r].inv = ksef[r].inv
    /\ ksef[r].verdict # "pending" => ksef'[r].verdict = ksef[r].verdict

\* A step in which only KSeF changes, and keeps what it has, leaves everything
\* said of jobs, workers and committed rows true.
LEMMA KsefAlone ==
  ASSUME IInv, KsefKeeps, UNCHANGED <<mode, invoice, payload, sendJobs, pollJob, worker>>
  PROVE  JobsOK' /\ HeldOK' /\ WritesOK' /\ SnapshotOK' /\ InvoicesOK'
<1> USE DEF IInv, TypeOK, KsefKeeps
<1>1. JobsOK' /\ HeldOK'
  BY DEF JobsOK, HeldOK, Holds
<1>2. WritesOK'
  <2> SUFFICES ASSUME NEW w \in Workers, NEW i \in Invoices
               PROVE  WritesOK!(w, i)'
    BY DEF WritesOK
  <2>1. worker[w].write[i].number \in Refs \cup {NoRef}
    BY DEF WorkerState, PendingWrite
  <2> QED
    BY <2>1 DEF WritesOK, FromKsef
<1>3. SnapshotOK'
  <2>1. \A w \in Workers, r \in Refs : Holds(w, r) => ksef'[r].inv = ksef[r].inv
    BY DEF HeldOK, JobsOK
  <2> QED
    BY <2>1 DEF SnapshotOK, Holds
<1>4. SentIsPolled' /\ QueuedCanBeRetried'
  BY DEF InvoicesOK, SentIsPolled, QueuedCanBeRetried, InvoiceRow
<1>5. VerdictIsKsefs'
  BY DEF InvoicesOK, VerdictIsKsefs, InvoiceRow
<1>6. DoneJobDelivered'
  BY DEF InvoicesOK, DoneJobDelivered, JobsOK
<1> QED
  BY <1>1, <1>2, <1>3, <1>4, <1>5, <1>6 DEF InvoicesOK

\* A document KSeF receives gets a reference nobody has used.
LEMMA ReceivedKept ==
  ASSUME IInv, NEW t \in Requests, NEW r \in Refs,
         NEW verdict \in {"pending", "accepted"},
         request[t].at = "sending", Received(r, t, verdict)
  PROVE  /\ KsefKeeps
         /\ ksef' \in [Refs -> Submission \cup {None}]
         /\ ksef[r] = None /\ ksef'[r] # None
         /\ ksef'[r].inv = request[t].inv /\ ksef'[r].verdict = verdict
<1> USE NoneAssumption DEF IInv, TypeOK, Received
<1>1. request[t].inv \in Invoices /\ request[t].xml \in Versions
  BY DEF RequestsOK
<1>2. [inv |-> request[t].inv, xml |-> request[t].xml, verdict |-> verdict] \in Submission
  BY <1>1 DEF Submission
<1> QED
  BY <1>2 DEF KsefKeeps

\* KSeF answers with a reference of its own for this request.
LEMMA SendReturnsOK ==
  ASSUME NEW t \in Requests, IInv, SendReturns(t)
  PROVE  IInv'
<1> USE BoundsAssumption, NoneAssumption DEF IInv
<1> DEFINE verdict == IF mode = "mock" THEN "accepted" ELSE "pending"
<1>1. PICK r \in Refs : /\ Received(r, t, verdict)
                        /\ request' = [request EXCEPT ![t].at = "sent", ![t].ref = r]
  BY DEF SendReturns
<1>2. verdict \in {"pending", "accepted"}
  OBVIOUS
<1> HIDE DEF verdict
<1>3. /\ KsefKeeps
      /\ ksef' \in [Refs -> Submission \cup {None}]
      /\ ksef[r] = None /\ ksef'[r] # None
      /\ ksef'[r].inv = request[t].inv /\ ksef'[r].verdict = verdict
  BY <1>1, <1>2, ReceivedKept DEF SendReturns
<1>4. TypeOK'
  BY <1>1, <1>3, RequestMoves DEF SendReturns, TypeOK
<1>5. RequestsOK'
  <2>1. pollJob[r].status = "NONE"
    BY <1>3 DEF JobsOK
  <2>2. \A u \in Requests : request[u].at = "sent" => request[u].ref # r
    BY <1>3 DEF RequestsOK
  <2> QED
    BY <1>1, <1>3, <2>1, <2>2 DEF RequestsOK, SendReturns, TypeOK, RequestState, KsefKeeps, verdict
<1>6. SendsAreExclusive'
  BY <1>1 DEF SendReturns, SendsAreExclusive, OwnsRow, TypeOK, RequestState
<1> QED
  BY <1>3, <1>4, <1>5, <1>6, KsefAlone DEF SendReturns

\* An answer that gets lost leaves KSeF with the document.
LEMMA AnswerLostOK ==
  ASSUME NEW t \in Requests, IInv, AnswerLost(t)
  PROVE  IInv'
<1> USE BoundsAssumption, NoneAssumption DEF IInv
<1>1. PICK r \in Refs : Received(r, t, "pending")
  BY DEF AnswerLost
<1>2. KsefKeeps /\ ksef' \in [Refs -> Submission \cup {None}]
  BY <1>1, ReceivedKept DEF AnswerLost
<1>3. TypeOK'
  BY <1>2, RequestMoves DEF AnswerLost, TypeOK
<1>4. RequestsOK'
  BY <1>2 DEF RequestsOK, AnswerLost, TypeOK, RequestState, KsefKeeps
<1>5. SendsAreExclusive'
  BY DEF AnswerLost, SendsAreExclusive, OwnsRow, TypeOK, RequestState
<1> QED
  BY <1>2, <1>3, <1>4, <1>5, KsefAlone DEF AnswerLost

\* KSeF decides once.
LEMMA DecideOK ==
  ASSUME NEW r \in Refs, IInv, Decide(r)
  PROVE  IInv'
<1> USE BoundsAssumption, NoneAssumption DEF IInv
<1>1. PICK v \in {"accepted", "rejected"} : ksef' = [ksef EXCEPT ![r].verdict = v]
  BY DEF Decide
<1>2. [ksef[r] EXCEPT !.verdict = v] \in Submission
  BY DEF Decide, TypeOK, Submission
<1>3. KsefKeeps /\ ksef' \in [Refs -> Submission \cup {None}]
  BY <1>1, <1>2 DEF Decide, TypeOK, KsefKeeps, Submission
<1>4. TypeOK'
  BY <1>3 DEF Decide, TypeOK
<1>5. RequestsOK' /\ SendsAreExclusive'
  BY <1>3 DEF RequestsOK, Decide, KsefKeeps, SendsAreExclusive, OwnsRow
<1> QED
  BY <1>3, <1>4, <1>5, KsefAlone DEF Decide

\* An edit touches nothing but the content.
LEMMA CommitEditOK ==
  ASSUME NEW t \in Requests, IInv, CommitEdit(t)
  PROVE  IInv'
<1> USE BoundsAssumption, NoneAssumption DEF IInv
<1> DEFINE i == request[t].inv
<1>1. i \in Invoices /\ request[t].xml \in Versions
  BY DEF CommitEdit, RequestsOK
<1>2. request' \in [Requests -> RequestState]
  BY DEF CommitEdit, TypeOK, RequestState, Idle
<1>3. invoice' \in [Invoices -> InvoiceRow]
  <2>1. [invoice[i] EXCEPT !.content = request[t].xml] \in InvoiceRow
    BY <1>1 DEF TypeOK, InvoiceRow
  <2> QED
    BY <1>1, <2>1 DEF CommitEdit, TypeOK
<1>4. TypeOK'
  BY <1>2, <1>3 DEF CommitEdit, TypeOK
<1>5. \A k \in Invoices :
        /\ invoice'[k].approved = invoice[k].approved
        /\ invoice'[k].status = invoice[k].status
        /\ invoice'[k].ref = invoice[k].ref
        /\ invoice'[k].number = invoice[k].number
  BY <1>1 DEF CommitEdit, TypeOK, InvoiceRow
<1>6. RequestsOK'
  BY <1>5 DEF CommitEdit, RequestsOK, TypeOK, Idle
<1>7. JobsOK' /\ HeldOK' /\ WritesOK'
  BY DEF CommitEdit, JobsOK, HeldOK, Holds, WritesOK, FromKsef
<1>8. \A r \in Refs : ksef[r] # None => ksef[r].inv \in Invoices
  BY DEF TypeOK, Submission
<1>9. SnapshotOK'
  BY <1>5, <1>8 DEF CommitEdit, SnapshotOK, Holds, HeldOK, JobsOK
<1>10. InvoicesOK'
  BY <1>5, <1>8 DEF CommitEdit, InvoicesOK, SentIsPolled, VerdictIsKsefs, DoneJobDelivered,
     QueuedCanBeRetried, JobsOK
<1>11. SendsAreExclusive'
  BY DEF CommitEdit, SendsAreExclusive, OwnsRow, TypeOK, Idle
<1> QED
  BY <1>4, <1>6, <1>7, <1>9, <1>10, <1>11

\* The commit of a send publishes the reference together with its poll job.
LEMMA CommitSendOK ==
  ASSUME NEW t \in Requests, IInv, CommitSend(t)
  PROVE  IInv'
<1> USE BoundsAssumption, ModesAssumption, NoneAssumption DEF IInv
<1>1. PICK i \in Invoices, r \in Refs :
        /\ i = request[t].inv /\ r = request[t].ref
        /\ request[t].xml \in Versions /\ r # NoRef
        /\ ksef[r] # None /\ ksef[r].inv = i
        /\ mode = "mock" => ksef[r].verdict = "accepted"
        /\ pollJob[r].status = "NONE"
  BY DEF CommitSend, RequestsOK, Refs, NoRef
<1>2. /\ invoice'[i].approved = TRUE
      /\ invoice'[i].status = IF mode = "mock" THEN "ACCEPTED" ELSE "SENT"
      /\ invoice'[i].ref = r
      /\ invoice'[i].number = IF mode = "mock" THEN r ELSE invoice[i].number
      /\ \A k \in Invoices \ {i} : invoice'[k] = invoice[k]
  BY <1>1 DEF CommitSend, TypeOK, InvoiceRow
<1>3. /\ payload'[i] \in Versions \/ (request[t].op # "approve" /\ payload' = payload)
      /\ \A k \in Invoices \ {i} : payload'[k] = payload[k]
  BY <1>1 DEF CommitSend, TypeOK
<1>4. /\ mode = "live" => pollJob'[r] = [status |-> "NEW", attempts |-> 0]
      /\ \A q \in Refs \ {r} : pollJob'[q] = pollJob[q]
      /\ mode # "live" => pollJob' = pollJob
  BY <1>1 DEF CommitSend, TypeOK
<1>5. mode \in {"mock", "live"}
  BY DEF TypeOK
<1>6. TypeOK'
  <2>1. invoice' \in [Invoices -> InvoiceRow]
    <3>1. \A s \in KsefStatus, n \in Refs \cup {NoRef} :
            [invoice[i] EXCEPT !.approved = TRUE, !.status = s, !.ref = r, !.number = n] \in InvoiceRow
      <4>1. invoice[i] \in InvoiceRow
        BY DEF TypeOK
      <4> QED
        BY <4>1 DEF InvoiceRow
    <3>2. invoice[i].number \in Refs \cup {NoRef}
      BY <1>1 DEF TypeOK, InvoiceRow
    <3>3. [invoice[i] EXCEPT !.approved = TRUE,
                             !.status = IF mode = "mock" THEN "ACCEPTED" ELSE "SENT",
                             !.ref = r,
                             !.number = IF mode = "mock" THEN r ELSE @] \in InvoiceRow
      BY <1>1, <3>1, <3>2 DEF KsefStatus
    <3> QED
      BY <1>1, <3>3 DEF CommitSend, TypeOK
  <2>2. pollJob' \in [Refs -> PollRow]
    BY <1>1 DEF CommitSend, TypeOK, PollRow, PollStatus
  <2>3. request' \in [Requests -> RequestState]
    BY DEF CommitSend, TypeOK, RequestState, Idle
  <2>4. payload' \in [Invoices -> Versions \cup {None}]
    BY <1>1 DEF CommitSend, TypeOK
  <2>5. sendJobs' \in [Invoices -> SUBSET {"DONE", "FAILED"}]
    BY <1>1 DEF CommitSend, TypeOK
  <2> QED
    BY <2>1, <2>2, <2>3, <2>4, <2>5 DEF CommitSend, TypeOK
<1>7. RequestsOK'
  <2>1. /\ request' = [request EXCEPT ![t] = Idle]
        /\ mode' = mode /\ ksef' = ksef
    BY DEF CommitSend
  <2>2. \A u \in Requests \ {t} : request[u].at = "sent" => request[u].ref # r
    BY <1>1 DEF CommitSend, RequestsOK
  <2>3. \A k \in Invoices : /\ invoice[k].approved => invoice'[k].approved
                            /\ payload[k] # None => payload'[k] # None
    BY <1>2, <1>3
  <2>4. \A u \in Requests : u # t => request'[u] = request[u]
    BY <2>1 DEF TypeOK
  <2>5. request'[t] = Idle
    BY <2>1 DEF TypeOK
  <2> QED
    BY <2>1, <2>2, <2>3, <2>4, <2>5, <1>4 DEF RequestsOK, Idle
<1>8. JobsOK'
  BY <1>1, <1>4 DEF CommitSend, JobsOK
<1>9. \A w \in Workers : ~Holds(w, r)
  BY <1>1 DEF HeldOK
<1>10. HeldOK' /\ WritesOK'
  BY <1>4, <1>9 DEF CommitSend, HeldOK, Holds, WritesOK, FromKsef
<1>11. \A q \in Refs : ksef[q] # None => ksef[q].inv \in Invoices
  BY DEF TypeOK, Submission
<1>12. SnapshotOK'
  <2> SUFFICES ASSUME NEW w \in Workers, NEW q \in Refs, Holds(w, q)
               PROVE  SnapshotOK!(w, q)'
    BY DEF SnapshotOK, Holds, CommitSend
  <2>1. q # r /\ ksef[q].inv \in Invoices
    BY <1>9, <1>11 DEF HeldOK, JobsOK
  <2>2. CASE ksef[q].inv # i
    <3>1. invoice'[ksef[q].inv] = invoice[ksef[q].inv] /\ worker' = worker /\ ksef' = ksef
      BY <1>2, <2>1, <2>2 DEF CommitSend
    <3> QED
      BY <2>1, <3>1 DEF SnapshotOK, Holds
  <2>3. CASE ksef[q].inv = i
    <3>1. invoice'[i].ref # q
      BY <1>2, <2>1
    <3>2. invoice[i].number # NoRef => invoice'[i].number # NoRef
      BY <1>1, <1>2
    <3> QED
      BY <2>3, <3>1, <3>2 DEF SnapshotOK, Holds, CommitSend
  <2> QED
    BY <2>2, <2>3
<1>13. ksef' = ksef
  BY DEF CommitSend
<1>14. SentIsPolled'
  <2>1. ASSUME NEW k \in Invoices \ {i} PROVE SentIsPolled!(k)'
    <3>1. invoice[k].status = "SENT" /\ invoice[k].ref = r => pollJob[r].status # "NONE"
      BY <2>1 DEF InvoicesOK, SentIsPolled
    <3>2. invoice[k].ref \in Refs \cup {NoRef}
      BY <2>1 DEF TypeOK, InvoiceRow
    <3> QED
      BY <1>1, <1>2, <1>4, <1>13, <2>1, <3>1, <3>2 DEF InvoicesOK, SentIsPolled
  <2>2. SentIsPolled!(i)'
    BY <1>1, <1>2, <1>4, <1>5, <1>13
  <2> QED
    BY <2>1, <2>2 DEF SentIsPolled
<1>15. VerdictIsKsefs'
  <2>1. ASSUME NEW k \in Invoices \ {i} PROVE VerdictIsKsefs!(k)'
    BY <1>2, <1>13, <2>1 DEF InvoicesOK, VerdictIsKsefs
  <2>2. VerdictIsKsefs!(i)'
    BY <1>1, <1>2, <1>5, <1>13 DEF InvoicesOK, VerdictIsKsefs
  <2> QED
    BY <2>1, <2>2 DEF VerdictIsKsefs
<1>16. DoneJobDelivered'
  <2>1. \A k \in Invoices : invoice[k].number # NoRef => invoice'[k].number # NoRef
    BY <1>1, <1>2
  <2>2. \A q \in Refs : pollJob'[q].status = "DONE" => pollJob[q].status = "DONE"
    BY <1>4, <1>5
  <2>3. \A q \in Refs : pollJob[q].status = "DONE" => ksef[q].inv \in Invoices
    BY <1>11 DEF JobsOK
  <2> QED
    BY <1>13, <2>1, <2>2, <2>3 DEF InvoicesOK, DoneJobDelivered
<1>17. QueuedCanBeRetried'
  <2>1. \A k \in Invoices \ {i} : sendJobs'[k] = sendJobs[k]
    BY <1>1 DEF CommitSend, TypeOK
  <2> QED
    BY <1>1, <1>2, <1>3, <2>1 DEF InvoicesOK, QueuedCanBeRetried
<1>18. SendsAreExclusive'
  BY DEF CommitSend, SendsAreExclusive, OwnsRow, TypeOK, Idle
<1> QED
  BY <1>6, <1>7, <1>8, <1>10, <1>12, <1>14, <1>15, <1>16, <1>17, <1>18 DEF InvoicesOK

\* The except block leaves a QUEUED invoice approved, with its payload and a
\* failed send.
LEMMA CommitFailureOK ==
  ASSUME NEW t \in Requests, IInv, CommitFailure(t)
  PROVE  IInv'
<1> USE BoundsAssumption, NoneAssumption DEF IInv
<1>1. PICK i \in Invoices :
        /\ i = request[t].inv
        /\ request[t].xml \in Versions
        /\ request[t].op \in {"approve", "retry"}
        /\ request[t].op = "retry" => invoice[i].approved /\ payload[i] # None
  BY DEF CommitFailure, RequestsOK
<1>2. /\ mode' = mode /\ ksef' = ksef /\ worker' = worker /\ pollJob' = pollJob
      /\ request' = [request EXCEPT ![t] = Idle]
  BY DEF CommitFailure
<1>3. /\ invoice'[i].approved = TRUE
      /\ invoice'[i].status \in {invoice[i].status, "QUEUED"}
      /\ invoice'[i].ref = invoice[i].ref
      /\ invoice'[i].number = invoice[i].number
      /\ \A k \in Invoices \ {i} : invoice'[k] = invoice[k]
  BY <1>1 DEF CommitFailure, TypeOK, InvoiceRow
<1>4. payload'[i] # None /\ \A k \in Invoices \ {i} : payload'[k] = payload[k]
  BY <1>1 DEF CommitFailure, TypeOK
<1>5. "FAILED" \in sendJobs'[i] /\ \A k \in Invoices \ {i} : sendJobs'[k] = sendJobs[k]
  BY <1>1 DEF CommitFailure, TypeOK
<1>6. TypeOK'
  <2>1. invoice' \in [Invoices -> InvoiceRow]
    <3>1. invoice[i] \in InvoiceRow /\ "QUEUED" \in KsefStatus
      BY DEF TypeOK, KsefStatus
    <3>2. [invoice[i] EXCEPT !.approved = request[t].op = "approve" \/ @,
             !.status = IF request[t].seen = "QUEUED" THEN @ ELSE "QUEUED"] \in InvoiceRow
      BY <3>1 DEF InvoiceRow
    <3> QED
      BY <1>1, <3>2 DEF CommitFailure, TypeOK
  <2>2. request' \in [Requests -> RequestState]
    BY <1>2 DEF TypeOK, RequestState, Idle
  <2>3. payload' \in [Invoices -> Versions \cup {None}]
    BY <1>1 DEF CommitFailure, TypeOK
  <2>4. sendJobs' \in [Invoices -> SUBSET {"DONE", "FAILED"}]
    BY <1>1 DEF CommitFailure, TypeOK
  <2> QED
    BY <2>1, <2>2, <2>3, <2>4 DEF CommitFailure, TypeOK
<1>7. RequestsOK'
  <2>1. \A k \in Invoices : /\ invoice[k].approved => invoice'[k].approved
                            /\ payload[k] # None => payload'[k] # None
    BY <1>3, <1>4
  <2>2. request'[t] = Idle /\ \A u \in Requests : u # t => request'[u] = request[u]
    BY <1>2 DEF TypeOK
  <2> QED
    BY <1>2, <2>1, <2>2 DEF RequestsOK, Idle
<1>8. JobsOK' /\ HeldOK' /\ WritesOK'
  BY <1>2 DEF JobsOK, HeldOK, Holds, WritesOK, FromKsef
<1>9. \A k \in Invoices :
        /\ invoice'[k].status = "SENT" => invoice[k].status = "SENT"
        /\ invoice'[k].ref = invoice[k].ref
        /\ invoice'[k].number = invoice[k].number
  BY <1>3
<1>10. \A q \in Refs : ksef[q] # None => ksef[q].inv \in Invoices
  BY DEF TypeOK, Submission
<1>11. SnapshotOK'
  <2>1. \A w \in Workers, q \in Refs : Holds(w, q) => ksef[q].inv \in Invoices
    BY <1>10 DEF HeldOK, JobsOK
  <2> QED
    BY <1>2, <1>9, <2>1 DEF SnapshotOK, Holds
<1>12. SentIsPolled'
  BY <1>2, <1>9 DEF InvoicesOK, SentIsPolled
<1>13. VerdictIsKsefs'
  BY <1>2, <1>3 DEF InvoicesOK, VerdictIsKsefs
<1>14. DoneJobDelivered'
  BY <1>2, <1>9, <1>10 DEF InvoicesOK, DoneJobDelivered, JobsOK
<1>15. QueuedCanBeRetried'
  BY <1>3, <1>4, <1>5 DEF InvoicesOK, QueuedCanBeRetried
<1>16. SendsAreExclusive'
  BY <1>2 DEF SendsAreExclusive, OwnsRow, TypeOK, Idle
<1> QED
  BY <1>6, <1>7, <1>8, <1>11, <1>12, <1>13, <1>14, <1>15, <1>16 DEF InvoicesOK

-----------------------------------------------------------------------------
(***************************************************************************)
(* Steps of a worker.                                                      *)
(***************************************************************************)
\* What a worker does in its own session leaves requests, jobs and committed
\* rows as they are.
LEMMA WorkerAlone ==
  ASSUME IInv, UNCHANGED <<mode, invoice, payload, sendJobs, pollJob, ksef, request>>
  PROVE  RequestsOK' /\ JobsOK' /\ InvoicesOK' /\ SendsAreExclusive'
BY DEF IInv, RequestsOK, JobsOK, InvoicesOK, SentIsPolled, VerdictIsKsefs, DoneJobDelivered,
   QueuedCanBeRetried, SendsAreExclusive, OwnsRow

\* A claim takes NEW jobs, which nobody holds.
LEMMA ClaimOK ==
  ASSUME NEW w \in Workers, NEW due \in SUBSET Refs, IInv, Claim(w, due)
  PROVE  IInv'
<1> USE BoundsAssumption, NoneAssumption DEF IInv
<1>1. /\ mode' = mode /\ invoice' = invoice /\ payload' = payload /\ ksef' = ksef
      /\ sendJobs' = sendJobs /\ request' = request /\ aborts' = aborts
  BY DEF Claim
<1>2. /\ worker[w].at = "idle"
      /\ \A r \in due : pollJob[r].status = "NEW" /\ pollJob[r].attempts < MaxAttempts
  BY DEF Claim, JobsOK
<1>3. \A r \in Refs :
        /\ r \in due => /\ pollJob'[r].status = "PROCESSING"
                        /\ pollJob'[r].attempts = pollJob[r].attempts + 1
        /\ r \notin due => pollJob'[r] = pollJob[r]
  BY DEF Claim
<1>4. /\ worker' \in [Workers -> WorkerState]
      /\ worker'[w].at = "claimed" /\ worker'[w].batch = due
      /\ worker'[w].result = worker[w].result /\ worker'[w].write = worker[w].write
      /\ \A v \in Workers \ {w} : worker'[v] = worker[v]
  <2> DEFINE q == [worker[w] EXCEPT !.at = "claimed", !.batch = due]
  <2>1. /\ q \in WorkerState /\ q.at = "claimed" /\ q.batch = due
        /\ q.result = worker[w].result /\ q.write = worker[w].write
    BY DEF TypeOK, WorkerState
  <2>2. worker' = [worker EXCEPT ![w] = q]
    BY DEF Claim
  <2> HIDE DEF q
  <2> QED
    BY <2>1, <2>2 DEF TypeOK
<1>5. TypeOK'
  <2>1. pollJob' \in [Refs -> PollRow]
    <3>1. \A r \in due : pollJob[r].attempts + 1 \in 0..MaxAttempts
      BY <1>2 DEF TypeOK, PollRow
    <3>2. \A r \in due : [status |-> "PROCESSING", attempts |-> pollJob[r].attempts + 1] \in PollRow
      BY <3>1 DEF PollRow, PollStatus
    <3> QED
      BY <3>2 DEF Claim, TypeOK
  <2> QED
    BY <1>1, <1>4, <2>1 DEF TypeOK
<1>6. \A r \in Refs : worker[w].result[r] = "none"
  BY <1>2 DEF HeldOK, Holds
<1>7. /\ \A r \in Refs : Holds(w, r)' <=> r \in due
      /\ \A v \in Workers \ {w}, r \in Refs : Holds(v, r)' <=> Holds(v, r)
      /\ \A v \in Workers, r \in Refs : Holds(v, r) => r \notin due
  BY <1>2, <1>4, <1>6 DEF Holds, HeldOK
<1>8. RequestsOK'
  BY <1>1, <1>2, <1>3 DEF RequestsOK
<1>9. JobsOK'
  BY <1>1, <1>2, <1>3 DEF JobsOK
<1>10. HeldOK'
  <2>1. \A v \in Workers, r \in Refs :
          Holds(v, r)' => pollJob'[r].status = "PROCESSING" /\ worker'[v].at # "idle"
    BY <1>3, <1>4, <1>7 DEF HeldOK
  <2>2. \A v \in Workers, r \in Refs : worker'[v].result[r] # "none" => worker'[v].at = "polling"
    BY <1>4, <1>6 DEF HeldOK
  <2>3. \A v \in Workers, r \in Refs :
          worker'[v].result[r] = "pending" => pollJob'[r].attempts < MaxAttempts
    BY <1>3, <1>4, <1>6, <1>7 DEF HeldOK, Holds
  <2>4. \A u, v \in Workers, r \in Refs : Holds(u, r)' /\ Holds(v, r)' => u = v
    BY <1>7 DEF HeldOK
  <2> QED
    BY <2>1, <2>2, <2>3, <2>4 DEF HeldOK
<1>11. WritesOK'
  BY <1>1, <1>4 DEF WritesOK, FromKsef
<1>12. SnapshotOK'
  BY <1>1, <1>4, <1>6, <1>7 DEF SnapshotOK
<1>13. SentIsPolled'
  BY <1>1, <1>2, <1>3 DEF InvoicesOK, SentIsPolled, TypeOK, InvoiceRow
<1>14. VerdictIsKsefs' /\ QueuedCanBeRetried'
  BY <1>1 DEF InvoicesOK, VerdictIsKsefs, QueuedCanBeRetried
<1>15. DoneJobDelivered'
  BY <1>1, <1>3 DEF InvoicesOK, DoneJobDelivered
<1>16. SendsAreExclusive'
  BY <1>1 DEF SendsAreExclusive, OwnsRow
<1> QED
  BY <1>5, <1>8, <1>9, <1>10, <1>11, <1>12, <1>13, <1>14, <1>15, <1>16 DEF InvoicesOK

\* The snapshot is taken after the claim.
LEMMA BeginPollingOK ==
  ASSUME NEW w \in Workers, IInv, BeginPolling(w)
  PROVE  IInv'
<1> USE BoundsAssumption, NoneAssumption DEF IInv
<1>1. UNCHANGED <<mode, invoice, payload, sendJobs, pollJob, ksef, request, aborts>>
  BY DEF BeginPolling
<1>2. worker[w].at = "claimed"
  BY DEF BeginPolling
<1>3. /\ worker' \in [Workers -> WorkerState]
      /\ worker'[w].at = "polling" /\ worker'[w].batch = worker[w].batch
      /\ worker'[w].result = worker[w].result /\ worker'[w].write = worker[w].write
      /\ \A i \in Invoices : worker'[w].seen[i] = invoice[i].status
      /\ \A v \in Workers \ {w} : worker'[v] = worker[v]
  <2> DEFINE s == [i \in Invoices |-> invoice[i].status]
             q == [worker[w] EXCEPT !.at = "polling", !.seen = s]
  <2>1. s \in [Invoices -> KsefStatus] /\ \A i \in Invoices : s[i] = invoice[i].status
    BY DEF TypeOK, InvoiceRow
  <2>2. worker' = [worker EXCEPT ![w] = q]
    BY DEF BeginPolling
  <2> HIDE DEF s
  <2>3. /\ q \in WorkerState /\ q.at = "polling" /\ q.batch = worker[w].batch /\ q.seen = s
        /\ q.result = worker[w].result /\ q.write = worker[w].write
    <3>1. worker[w] \in WorkerState
      BY DEF TypeOK
    <3> QED
      BY <2>1, <3>1 DEF WorkerState
  <2> HIDE DEF q
  <2> QED
    BY <2>1, <2>2, <2>3 DEF TypeOK
<1>4. TypeOK'
  BY <1>1, <1>3 DEF TypeOK
<1>5. \A r \in Refs : worker[w].result[r] = "none"
  BY <1>2 DEF HeldOK
<1>6. \A v \in Workers, r \in Refs : Holds(v, r)' <=> Holds(v, r)
  BY <1>2, <1>3 DEF Holds
<1>7. HeldOK'
  BY <1>1, <1>2, <1>3, <1>5, <1>6 DEF HeldOK
<1>8. WritesOK'
  BY <1>1, <1>2, <1>3 DEF WritesOK, FromKsef
<1>9. SnapshotOK'
  <2>1. \A v \in Workers, r \in Refs : Holds(v, r) => ksef[r].inv \in Invoices
    BY DEF HeldOK, JobsOK, TypeOK, Submission
  <2> QED
    BY <1>1, <1>2, <1>3, <1>5, <1>6, <2>1 DEF SnapshotOK
<1> QED
  BY <1>1, <1>4, <1>7, <1>8, <1>9, WorkerAlone

\* One job is polled: it moves from the batch to the results, and the changes
\* of the session grow by what KSeF said of it.
LEMMA OnePolled ==
  ASSUME IInv, UNCHANGED <<mode, invoice, payload, sendJobs, pollJob, ksef, request, aborts>>,
         NEW w \in Workers, NEW r \in Refs, IsNext(w, r),
         NEW q \in WorkerState, worker' = [worker EXCEPT ![w] = q],
         q.at = worker[w].at, q.batch = worker[w].batch \ {r}, q.seen = worker[w].seen,
         q.result[r] \in {"accepted", "rejected", "pending"},
         \A p \in Refs \ {r} : q.result[p] = worker[w].result[p],
         q.result[r] = "pending" => pollJob[r].attempts < MaxAttempts,
         \A i \in Invoices :
           /\ FromKsef(q.write[i], i)
           /\ worker[w].write[i].number # NoRef => q.write[i].number # NoRef
           /\ worker[w].write[i].status # None /\ worker[w].seen[i] = "SENT" =>
                q.write[i].status # None,
         q.result[r] = "accepted" =>
           /\ q.write[ksef[r].inv].number # NoRef
           /\ worker[w].seen[ksef[r].inv] = "SENT" => q.write[ksef[r].inv].status # None
  PROVE  IInv'
<1> USE BoundsAssumption, NoneAssumption DEF IInv
<1>1. /\ worker' \in [Workers -> WorkerState]
      /\ worker'[w] = q
      /\ \A v \in Workers \ {w} : worker'[v] = worker[v]
  BY DEF TypeOK
<1>2. TypeOK'
  BY <1>1 DEF TypeOK
<1>3. worker[w].at = "polling" /\ r \in worker[w].batch
  BY DEF IsNext
<1>4. \A v \in Workers, p \in Refs : Holds(v, p)' <=> Holds(v, p)
  BY <1>1, <1>3 DEF Holds
<1>5. HeldOK'
  <2>1. \A v \in Workers, p \in Refs :
          Holds(v, p)' => pollJob'[p].status = "PROCESSING" /\ worker'[v].at # "idle"
    BY <1>1, <1>4 DEF HeldOK
  <2>2. \A v \in Workers, p \in Refs : worker'[v].result[p] # "none" => worker'[v].at = "polling"
    BY <1>1, <1>3 DEF HeldOK
  <2>3. \A v \in Workers, p \in Refs :
          worker'[v].result[p] = "pending" => pollJob'[p].attempts < MaxAttempts
    BY <1>1 DEF HeldOK
  <2>4. \A u, v \in Workers, p \in Refs : Holds(u, p)' /\ Holds(v, p)' => u = v
    BY <1>4 DEF HeldOK
  <2> QED
    BY <2>1, <2>2, <2>3, <2>4 DEF HeldOK
<1>6. WritesOK'
  BY <1>1 DEF WritesOK, FromKsef
<1>7. SnapshotOK'
  <2> SUFFICES ASSUME NEW v \in Workers, NEW p \in Refs, Holds(v, p)
               PROVE  SnapshotOK!(v, p)'
    BY <1>4 DEF SnapshotOK, Holds
  <2>1. ksef[p].inv \in Invoices
    BY DEF HeldOK, JobsOK, TypeOK, Submission
  <2>2. CASE v # w
    BY <1>1, <1>4, <2>2 DEF SnapshotOK
  <2>3. CASE v = w /\ p # r
    BY <1>1, <1>3, <1>4, <2>1, <2>3 DEF SnapshotOK
  <2>4. CASE v = w /\ p = r
    BY <1>1, <1>3, <1>4, <2>1, <2>4 DEF SnapshotOK
  <2> QED
    BY <2>2, <2>3, <2>4
<1> QED
  BY <1>2, <1>5, <1>6, <1>7, WorkerAlone

\* An accepted document gives its invoice its number.
LEMMA PollAcceptedOK ==
  ASSUME NEW w \in Workers, NEW r \in Refs, IInv, PollAccepted(w, r)
  PROVE  IInv'
<1> USE BoundsAssumption, NoneAssumption DEF IInv
<1>1. IsNext(w, r) /\ worker[w].at = "polling" /\ Holds(w, r) /\ ksef[r].verdict = "accepted"
  BY DEF PollAccepted, IsNext, Holds
<1>2. PICK i \in Invoices : i = ksef[r].inv /\ ksef[r] # None
  BY <1>1 DEF HeldOK, JobsOK, TypeOK, Submission
<1> DEFINE new == [status |-> Assigned(w, i, "ACCEPTED"), number |-> r]
           res == [worker[w].result EXCEPT ![r] = "accepted"]
           wri == [worker[w].write EXCEPT ![i] = new]
           q == [worker[w] EXCEPT !.batch = @ \ {r}, !.result = res, !.write = wri]
<1>3. /\ new \in PendingWrite /\ new.number = r /\ r # NoRef
      /\ new.status \in {None, "ACCEPTED"}
      /\ worker[w].seen[i] = "SENT" => new.status # None
  BY DEF PendingWrite, Assigned, KsefStatus, Refs, NoRef
<1>4. worker' = [worker EXCEPT ![w] = q]
  BY <1>2 DEF PollAccepted
<1> HIDE DEF new
<1>5. worker[w] \in WorkerState
  BY DEF TypeOK
<1>6. /\ res \in [Refs -> {"none", "accepted", "rejected", "pending"}]
      /\ res[r] = "accepted" /\ \A p \in Refs \ {r} : res[p] = worker[w].result[p]
  BY <1>5 DEF WorkerState
<1>7. /\ wri \in [Invoices -> PendingWrite]
      /\ wri[i] = new /\ \A k \in Invoices \ {i} : wri[k] = worker[w].write[k]
  BY <1>3, <1>5 DEF WorkerState
<1> HIDE DEF res, wri
<1>8. /\ q \in WorkerState /\ q.at = worker[w].at /\ q.batch = worker[w].batch \ {r}
      /\ q.seen = worker[w].seen /\ q.result = res /\ q.write = wri
  BY <1>5, <1>6, <1>7 DEF WorkerState
<1> HIDE DEF q
<1>9. FromKsef(new, i)
  BY <1>1, <1>2, <1>3 DEF FromKsef, KsefStatus
<1>10. \A k \in Invoices :
         /\ FromKsef(q.write[k], k)
         /\ worker[w].write[k].number # NoRef => q.write[k].number # NoRef
         /\ worker[w].write[k].status # None /\ worker[w].seen[k] = "SENT" =>
              q.write[k].status # None
  BY <1>3, <1>7, <1>8, <1>9 DEF WritesOK
<1>11. /\ q.result[r] = "accepted"
       /\ \A p \in Refs \ {r} : q.result[p] = worker[w].result[p]
       /\ q.write[ksef[r].inv].number # NoRef
       /\ worker[w].seen[ksef[r].inv] = "SENT" => q.write[ksef[r].inv].status # None
  BY <1>2, <1>3, <1>6, <1>7, <1>8
<1>12. UNCHANGED <<mode, invoice, payload, sendJobs, pollJob, ksef, request, aborts>>
  BY DEF PollAccepted
<1> QED
  BY <1>1, <1>4, <1>8, <1>10, <1>11, <1>12, OnePolled

\* A pending document changes nothing; it was not the last attempt.
LEMMA PollPendingOK ==
  ASSUME NEW w \in Workers, NEW r \in Refs, IInv, PollPending(w, r)
  PROVE  IInv'
<1> USE BoundsAssumption, NoneAssumption DEF IInv
<1> DEFINE res == [worker[w].result EXCEPT ![r] = "pending"]
           q == [worker[w] EXCEPT !.batch = @ \ {r}, !.result = res]
<1>1. worker' = [worker EXCEPT ![w] = q]
  BY DEF PollPending
<1>2. worker[w] \in WorkerState
  BY DEF TypeOK
<1>3. /\ res \in [Refs -> {"none", "accepted", "rejected", "pending"}]
      /\ res[r] = "pending" /\ \A p \in Refs \ {r} : res[p] = worker[w].result[p]
  BY <1>2 DEF WorkerState
<1> HIDE DEF res
<1>4. /\ q \in WorkerState /\ q.at = worker[w].at /\ q.batch = worker[w].batch \ {r}
      /\ q.seen = worker[w].seen /\ q.result = res /\ q.write = worker[w].write
  BY <1>2, <1>3 DEF WorkerState
<1> HIDE DEF q
<1>5. /\ q.result[r] = "pending"
      /\ \A p \in Refs \ {r} : q.result[p] = worker[w].result[p]
      /\ IsNext(w, r) /\ pollJob[r].attempts < MaxAttempts
      /\ \A i \in Invoices :
           /\ FromKsef(q.write[i], i)
           /\ worker[w].write[i].number # NoRef => q.write[i].number # NoRef
           /\ worker[w].write[i].status # None /\ worker[w].seen[i] = "SENT" =>
                q.write[i].status # None
  BY <1>3, <1>4 DEF PollPending, Asks, WritesOK
<1>6. UNCHANGED <<mode, invoice, payload, sendJobs, pollJob, ksef, request, aborts>>
  BY DEF PollPending
<1>7. /\ q.result[r] \in {"accepted", "rejected", "pending"}
      /\ q.result[r] = "pending" => pollJob[r].attempts < MaxAttempts
      /\ q.result[r] = "accepted" =>
           /\ q.write[ksef[r].inv].number # NoRef
           /\ worker[w].seen[ksef[r].inv] = "SENT" => q.write[ksef[r].inv].status # None
  BY <1>5
<1> QED
  BY <1>1, <1>4, <1>5, <1>6, <1>7, OnePolled

\* Whatever raises, the job counts as rejected and the changes are kept.
LEMMA PollRaisesOK ==
  ASSUME NEW w \in Workers, NEW r \in Refs, IInv,
         NEW write \in [Invoices -> PendingWrite], PollRaises(w, r, write),
         \A i \in Invoices :
           /\ FromKsef(write[i], i)
           /\ worker[w].write[i].number # NoRef => write[i].number # NoRef
           /\ worker[w].write[i].status # None /\ worker[w].seen[i] = "SENT" =>
                write[i].status # None
  PROVE  IInv'
<1> USE BoundsAssumption, NoneAssumption DEF IInv
<1>1. IsNext(w, r) /\ ksef[r].inv \in Invoices
  BY DEF PollRaises, IsNext, HeldOK, Holds, JobsOK, TypeOK, Submission
<1> DEFINE res == [worker[w].result EXCEPT ![r] = "rejected"]
           lck == worker[w].locked \cup Dirty(write) \cup {ksef[r].inv}
           q == [worker[w] EXCEPT !.batch = @ \ {r}, !.result = res, !.write = write,
                                  !.locked = lck]
<1>2. worker' = [worker EXCEPT ![w] = q]
  BY DEF PollRaises
<1>3. worker[w] \in WorkerState
  BY DEF TypeOK
<1>4. /\ res \in [Refs -> {"none", "accepted", "rejected", "pending"}]
      /\ res[r] = "rejected" /\ \A p \in Refs \ {r} : res[p] = worker[w].result[p]
  BY <1>3 DEF WorkerState
<1>5. lck \in SUBSET Invoices
  BY <1>1, <1>3 DEF WorkerState, Dirty
<1> HIDE DEF res, lck
<1>6. /\ q \in WorkerState /\ q.at = worker[w].at /\ q.batch = worker[w].batch \ {r}
      /\ q.seen = worker[w].seen /\ q.result = res /\ q.write = write
  BY <1>3, <1>4, <1>5 DEF WorkerState
<1> HIDE DEF q
<1>7. q.result[r] = "rejected" /\ \A p \in Refs \ {r} : q.result[p] = worker[w].result[p]
  BY <1>4, <1>6
<1>9. \A i \in Invoices :
        /\ FromKsef(q.write[i], i)
        /\ worker[w].write[i].number # NoRef => q.write[i].number # NoRef
        /\ worker[w].write[i].status # None /\ worker[w].seen[i] = "SENT" =>
             q.write[i].status # None
  BY <1>6
<1>8. UNCHANGED <<mode, invoice, payload, sendJobs, pollJob, ksef, request, aborts>>
  BY DEF PollRaises
<1>10. /\ q.result[r] \in {"accepted", "rejected", "pending"}
       /\ q.result[r] = "pending" => pollJob[r].attempts < MaxAttempts
       /\ q.result[r] = "accepted" =>
             /\ q.write[ksef[r].inv].number # NoRef
             /\ worker[w].seen[ksef[r].inv] = "SENT" => q.write[ksef[r].inv].status # None
  BY <1>7
<1> QED
  BY <1>1, <1>2, <1>6, <1>7, <1>8, <1>9, <1>10, OnePolled

\* KSeF's refusal makes its invoice REJECTED.
LEMMA PollRejectedOK ==
  ASSUME NEW w \in Workers, NEW r \in Refs, IInv, PollRejected(w, r)
  PROVE  IInv'
<1> USE BoundsAssumption, NoneAssumption DEF IInv
<1>1. PICK i \in Invoices : i = ksef[r].inv /\ ksef[r] # None /\ ksef[r].verdict = "rejected"
  BY DEF PollRejected, IsNext, HeldOK, Holds, JobsOK, TypeOK, Submission
<1> DEFINE s == Assigned(w, i, "REJECTED")
           old == worker[w].write[i]
           write == [worker[w].write EXCEPT ![i].status = s]
<1>2. /\ s \in {None, "REJECTED"} /\ None \notin {"ACCEPTED", "REJECTED"}
      /\ worker[w].seen[i] = "SENT" => s # None
  BY DEF Assigned, KsefStatus
<1> HIDE DEF s
<1>3. worker[w].write \in [Invoices -> PendingWrite]
  BY DEF TypeOK, WorkerState
<1>4. /\ write \in [Invoices -> PendingWrite]
      /\ write[i].status = s /\ write[i].number = old.number
      /\ \A k \in Invoices \ {i} : write[k] = worker[w].write[k]
  BY <1>2, <1>3 DEF PendingWrite, KsefStatus
<1>5. PollRaises(w, r, write)
  BY <1>1 DEF PollRejected, s
<1> HIDE DEF write
<1>6. FromKsef(write[i], i)
  BY <1>1, <1>2, <1>4 DEF WritesOK, FromKsef
<1> QED
  BY <1>2, <1>4, <1>5, <1>6, PollRaisesOK DEF WritesOK

\* A failure of the polling itself says nothing about the invoice.
LEMMA PollFailsOK ==
  ASSUME NEW w \in Workers, NEW r \in Refs, IInv, PollFails(w, r)
  PROVE  IInv'
<1>1. worker[w].write \in [Invoices -> PendingWrite]
  BY DEF IInv, TypeOK, WorkerState
<1> QED
  BY <1>1, PollRaisesOK DEF PollFails, IInv, WritesOK

\* The commit of one result writes what the session changed, all of which came
\* from KSeF, and ends the job it is about.
LEMMA FinishJobOK ==
  ASSUME NEW w \in Workers, NEW r \in Refs, IInv, FinishJob(w, r)
  PROVE  IInv'
<1> USE BoundsAssumption, NoneAssumption DEF IInv
<1> DEFINE W == worker[w]
           Ends(p) == p = r \/ W.result[p] = "pending"
<1>1. /\ W \in WorkerState /\ W.at = "polling" /\ W.batch = {} /\ W.result[r] # "none"
      /\ UNCHANGED <<mode, payload, sendJobs, ksef, request, aborts>>
  BY DEF FinishJob, Finished, TypeOK
<1>2. \A i \in Invoices :
        /\ FromKsef(W.write[i], i)
        /\ W.write[i] \in PendingWrite
        /\ invoice[i] \in InvoiceRow
  BY <1>1 DEF WritesOK, TypeOK, WorkerState
<1>3. \A i \in Invoices :
        /\ invoice'[i].approved = invoice[i].approved
        /\ invoice'[i].ref = invoice[i].ref
        /\ invoice'[i].content = invoice[i].content
        /\ invoice'[i].status = IF W.write[i].status = None THEN invoice[i].status
                                                            ELSE W.write[i].status
        /\ invoice'[i].number = IF W.write[i].number = NoRef THEN invoice[i].number
                                                             ELSE W.write[i].number
  BY <1>2 DEF FinishJob, InvoiceRow
<1>4. \A p \in Refs :
        /\ ~Ends(p) => pollJob'[p] = pollJob[p]
        /\ Ends(p) => /\ pollJob'[p].status = JobStatusOf(W.result[p])
                      /\ pollJob'[p].attempts = pollJob[p].attempts
                      /\ pollJob[p].status = "PROCESSING"
                      /\ W.result[p] \in {"accepted", "rejected", "pending"}
                      /\ W.result[p] = "pending" => pollJob[p].attempts < MaxAttempts
  <2>1. \A p \in Refs : Ends(p) => W.result[p] \in {"accepted", "rejected", "pending"}
    BY <1>1 DEF WorkerState
  <2>2. \A p \in Refs : Ends(p) => /\ pollJob[p].status = "PROCESSING"
                                   /\ W.result[p] = "pending" => pollJob[p].attempts < MaxAttempts
    BY <2>1 DEF HeldOK, Holds
  <2>3. \A p \in Refs :
          pollJob'[p] = IF Ends(p) THEN [pollJob[p] EXCEPT !.status = JobStatusOf(W.result[p])]
                                   ELSE pollJob[p]
    BY <1>1, <2>1 DEF FinishJob, Finished
  <2>4. \A p \in Refs : pollJob[p] \in PollRow
    BY DEF TypeOK
  <2> HIDE DEF Ends
  <2> QED
    BY <2>1, <2>2, <2>3, <2>4 DEF PollRow
<1>5. /\ worker' \in [Workers -> WorkerState]
      /\ worker'[w].at = "polling" /\ worker'[w].batch = {} /\ worker'[w].seen = W.seen
      /\ \A p \in Refs : worker'[w].result[p] = IF Ends(p) THEN "none" ELSE W.result[p]
      /\ \A i \in Invoices : worker'[w].write[i] = NoWrite
      /\ \A v \in Workers \ {w} : worker'[v] = worker[v]
  <2> DEFINE res == [p \in Refs |-> IF Ends(p) THEN "none" ELSE W.result[p]]
             wri == [i \in Invoices |-> NoWrite]
             q == [W EXCEPT !.result = res, !.write = wri, !.locked = {}]
  <2>1. worker' = [worker EXCEPT ![w] = q]
    BY DEF FinishJob
  <2>2. /\ res \in [Refs -> {"none", "accepted", "rejected", "pending"}]
        /\ \A p \in Refs : res[p] = IF Ends(p) THEN "none" ELSE W.result[p]
    BY <1>1 DEF WorkerState
  <2>3. wri \in [Invoices -> PendingWrite] /\ \A i \in Invoices : wri[i] = NoWrite
    BY DEF PendingWrite, NoWrite
  <2> HIDE DEF res, wri
  <2>4. /\ q \in WorkerState /\ q.at = W.at /\ q.batch = W.batch /\ q.seen = W.seen
        /\ q.result = res /\ q.write = wri
    BY <1>1, <2>2, <2>3 DEF WorkerState
  <2> HIDE DEF q
  <2> QED
    BY <1>1, <2>1, <2>2, <2>3, <2>4 DEF TypeOK
<1> HIDE DEF Ends
<1>6. TypeOK'
  <2>1. invoice' \in [Invoices -> InvoiceRow]
    <3>1. \A i \in Invoices :
            [invoice[i] EXCEPT
              !.status = IF W.write[i].status = None THEN @ ELSE W.write[i].status,
              !.number = IF W.write[i].number = NoRef THEN @ ELSE W.write[i].number] \in InvoiceRow
      BY <1>2 DEF InvoiceRow, PendingWrite
    <3> QED
      BY <3>1 DEF FinishJob
  <2>2. pollJob' \in [Refs -> PollRow]
    <3>1. \A p \in Refs : W.result[p] \in {"accepted", "rejected", "pending"} =>
            [pollJob[p] EXCEPT !.status = JobStatusOf(W.result[p])] \in PollRow
      BY DEF TypeOK, PollRow, PollStatus, JobStatusOf
    <3>2. \A p \in Refs : p \in Finished(w) => W.result[p] \in {"accepted", "rejected", "pending"}
      BY <1>1 DEF Finished, WorkerState
    <3> QED
      BY <3>1, <3>2 DEF FinishJob, TypeOK
  <2> QED
    BY <1>1, <1>5, <2>1, <2>2 DEF TypeOK
<1>7. RequestsOK'
  BY <1>1, <1>3, <1>4 DEF RequestsOK
<1>8. JobsOK'
  BY <1>1, <1>4 DEF JobsOK, JobStatusOf
<1>9. /\ \A p \in Refs : Holds(w, p)' => Holds(w, p) /\ ~Ends(p)
      /\ \A v \in Workers \ {w}, p \in Refs : (Holds(v, p)' <=> Holds(v, p)) /\ (Holds(v, p) => ~Ends(p))
  <2>1. \A p \in Refs : Ends(p) => Holds(w, p)
    BY <1>1 DEF Ends, Holds
  <2> QED
    BY <1>1, <1>5, <2>1 DEF Holds, HeldOK
<1>10. HeldOK'
  <2>1. \A v \in Workers, p \in Refs :
          Holds(v, p)' => pollJob'[p].status = "PROCESSING" /\ worker'[v].at # "idle"
    BY <1>4, <1>5, <1>9 DEF HeldOK
  <2>2. \A v \in Workers, p \in Refs : worker'[v].result[p] # "none" => worker'[v].at = "polling"
    BY <1>5 DEF HeldOK
  <2>3. \A v \in Workers, p \in Refs :
          worker'[v].result[p] = "pending" => pollJob'[p].attempts < MaxAttempts
    BY <1>4, <1>5 DEF HeldOK, Ends
  <2>4. \A u, v \in Workers, p \in Refs : Holds(u, p)' /\ Holds(v, p)' => u = v
    BY <1>9 DEF HeldOK
  <2> QED
    BY <2>1, <2>2, <2>3, <2>4 DEF HeldOK
<1>11. WritesOK'
  <2>1. \A i \in Invoices : FromKsef(NoWrite, i)
    BY DEF FromKsef, NoWrite, NoRef, KsefStatus
  <2> QED
    BY <1>1, <1>5, <2>1 DEF WritesOK, FromKsef
<1>12. /\ \A p \in Refs, v \in Workers : Holds(v, p) => ksef[p].inv \in Invoices
       /\ \A i \in Invoices :
            /\ invoice'[i].status = "SENT" => invoice[i].status = "SENT" /\ W.write[i].status = None
            /\ invoice[i].number # NoRef => invoice'[i].number # NoRef
            /\ W.write[i].number # NoRef => invoice'[i].number # NoRef
  <2>1. \A p \in Refs, v \in Workers : Holds(v, p) => ksef[p].inv \in Invoices
    BY DEF HeldOK, JobsOK, TypeOK, Submission
  <2> QED
    BY <1>2, <1>3, <2>1 DEF FromKsef
<1>13. SnapshotOK'
  <2> SUFFICES ASSUME NEW v \in Workers, NEW p \in Refs, Holds(v, p)'
               PROVE  SnapshotOK!(v, p)'
    BY DEF SnapshotOK, Holds
  <2>1. Holds(v, p) /\ ksef[p].inv \in Invoices
    BY <1>9, <1>12
  <2>2. CASE v # w
    BY <1>1, <1>3, <1>5, <1>12, <2>1, <2>2 DEF SnapshotOK, Holds
  <2>3. CASE v = w
    BY <1>1, <1>3, <1>5, <1>12, <2>1, <2>3 DEF SnapshotOK, Holds
  <2> QED
    BY <2>2, <2>3
<1>14. SentIsPolled'
  <2> SUFFICES ASSUME NEW i \in Invoices, invoice'[i].status = "SENT"
               PROVE  SentIsPolled!(i)'
    BY DEF SentIsPolled
  <2> DEFINE p == invoice[i].ref
  <2>1. /\ p \in Refs /\ p # NoRef /\ ksef[p] # None /\ ksef[p].inv = i
        /\ pollJob[p].status \in {"NEW", "PROCESSING", "FAILED"}
        /\ invoice'[i].ref = p
    BY <1>2, <1>3, <1>12 DEF InvoicesOK, SentIsPolled, InvoiceRow
  <2>2. W.result[p] # "accepted"
    BY <1>12, <2>1 DEF SnapshotOK
  <2>3. pollJob'[p].status \in {"NEW", "PROCESSING", "FAILED"}
    BY <1>4, <2>1, <2>2 DEF JobStatusOf
  <2> QED
    BY <1>1, <2>1, <2>3
<1>15. VerdictIsKsefs'
  <2> SUFFICES ASSUME NEW i \in Invoices PROVE VerdictIsKsefs!(i)'
    BY DEF VerdictIsKsefs
  <2>1. /\ FromKsef(W.write[i], i) /\ VerdictIsKsefs!(i) /\ ksef' = ksef
    BY <1>1, <1>2 DEF InvoicesOK, VerdictIsKsefs
  <2> QED
    BY <1>3, <1>12, <2>1 DEF FromKsef
<1>16. DoneJobDelivered'
  <2> SUFFICES ASSUME NEW p \in Refs, pollJob'[p].status = "DONE"
               PROVE  invoice'[ksef[p].inv].number # NoRef
    BY <1>1 DEF DoneJobDelivered
  <2>1. ksef[p].inv \in Invoices
    BY <1>4 DEF JobsOK, TypeOK, Submission
  <2>2. CASE Ends(p)
    <3>1. W.result[p] = "accepted"
      BY <1>4, <2>2 DEF JobStatusOf
    <3> QED
      BY <1>12, <2>1, <3>1 DEF SnapshotOK
  <2>3. CASE ~Ends(p)
    BY <1>4, <1>12, <2>1, <2>3 DEF InvoicesOK, DoneJobDelivered
  <2> QED
    BY <2>2, <2>3
<1>17. QueuedCanBeRetried'
  BY <1>1, <1>2, <1>3 DEF InvoicesOK, QueuedCanBeRetried, FromKsef
<1>18. SendsAreExclusive'
  BY <1>1 DEF SendsAreExclusive, OwnsRow
<1> QED
  BY <1>6, <1>7, <1>8, <1>10, <1>11, <1>13, <1>14, <1>15, <1>16, <1>17, <1>18 DEF InvoicesOK

\* A worker at rest, and one that dies, holds nothing and has nothing to write.
LEMMA WorkerRests ==
  ASSUME NEW w \in Workers, IInv, EndTick(w) \/ AbortWorker(w)
  PROVE  IInv'
<1> USE BoundsAssumption, NoneAssumption DEF IInv
<1>1. UNCHANGED <<mode, invoice, payload, sendJobs, pollJob, ksef, request>>
  BY DEF EndTick, AbortWorker
<1>2. aborts' \in 0..MaxAborts
  BY DEF EndTick, AbortWorker, TypeOK
<1>3. IdleWorker \in WorkerState
  BY DEF WorkerState, IdleWorker, PendingWrite, NoWrite, NoRef, KsefStatus
<1>4. /\ worker' \in [Workers -> WorkerState]
      /\ worker'[w] = IdleWorker
      /\ \A v \in Workers \ {w} : worker'[v] = worker[v]
  BY <1>3 DEF EndTick, AbortWorker, TypeOK
<1>5. TypeOK'
  BY <1>1, <1>2, <1>4 DEF TypeOK
<1>6. /\ \A r \in Refs : worker'[w].result[r] = "none" /\ ~Holds(w, r)'
      /\ \A i \in Invoices : FromKsef(worker'[w].write[i], i)
      /\ \A v \in Workers \ {w}, r \in Refs : Holds(v, r)' <=> Holds(v, r)
  BY <1>4 DEF IdleWorker, Holds, FromKsef, NoWrite, NoRef, KsefStatus
<1>7. HeldOK'
  BY <1>1, <1>4, <1>6 DEF HeldOK
<1>8. WritesOK'
  BY <1>1, <1>4, <1>6 DEF WritesOK, FromKsef
<1>9. SnapshotOK'
  BY <1>1, <1>4, <1>6 DEF SnapshotOK
<1> QED
  BY <1>1, <1>5, <1>7, <1>8, <1>9, WorkerAlone

-----------------------------------------------------------------------------
\* Every step keeps the invariant.
LEMMA NextOK == IInv /\ [Next]_vars => IInv'
<1> SUFFICES ASSUME IInv, [Next]_vars PROVE IInv'
  OBVIOUS
<1>1. CASE UNCHANGED vars
  <2>1. TypeOK' /\ RequestsOK' /\ SendsAreExclusive'
    BY <1>1 DEF vars, IInv, TypeOK, RequestsOK, SendsAreExclusive, OwnsRow
  <2> QED
    BY <1>1, <2>1, RequestAlone DEF vars, IInv
<1>2. ASSUME NEW t \in Requests, NEW i \in Invoices, BeginApprove(t, i) \/ BeginRetry(t, i)
      PROVE  IInv'
  BY <1>2, BeginApproveOK, BeginRetryOK
<1>3. ASSUME NEW t \in Requests, NEW i \in Invoices, NEW v \in Versions, BeginEdit(t, i, v)
      PROVE  IInv'
  BY <1>3, BeginEditOK
<1>4. ASSUME NEW t \in Requests, RequestStep(t) PROVE IInv'
  BY <1>4, CommitEditOK, FlushApprovalOK, InsertRetryJobOK, MarkSentOK, LockErrorOK,
     SendReturnsOK, AnswerLostOK, SendRaisesOK, CommitSendOK, ReloadOK, CommitFailureOK
     DEF RequestStep
<1>5. ASSUME NEW t \in Requests, AbortRequest(t) PROVE IInv'
  BY <1>5, AbortRequestOK
<1>6. ASSUME NEW w \in Workers, NEW due \in SUBSET Refs, Claim(w, due) PROVE IInv'
  BY <1>6, ClaimOK
<1>7. ASSUME NEW w \in Workers, PollStep(w) PROVE IInv'
  BY <1>7, BeginPollingOK, PollAcceptedOK, PollPendingOK, PollRejectedOK, PollFailsOK,
     FinishJobOK, WorkerRests DEF PollStep
<1>8. ASSUME NEW w \in Workers, AbortWorker(w) PROVE IInv'
  BY <1>8, WorkerRests
<1>9. ASSUME NEW r \in Refs, Decide(r) PROVE IInv'
  BY <1>9, DecideOK
<1> QED
  BY <1>1, <1>2, <1>3, <1>4, <1>5, <1>6, <1>7, <1>8, <1>9 DEF Next

\* The inductive invariant holds in every behaviour.
THEOREM Inductive == Spec => []IInv
<1>1. IInv /\ [Next]_vars => IInv'
  BY NextOK
<1> QED
  BY InitOK, <1>1, PTL DEF Spec

\* Every variable keeps its type; in particular no poll job is taken more than
\* MaxAttempts times.
THEOREM TypeCorrect == Spec => []TypeOK
<1>1. IInv => TypeOK
  BY DEF IInv
<1> QED
  BY <1>1, Inductive, PTL

\* Whatever requests overlap, one invoice is in one send call at a time.
THEOREM SendsExclusive == Spec => []SendsAreExclusive
<1>1. IInv => SendsAreExclusive
  BY DEF IInv
<1> QED
  BY <1>1, Inductive, PTL

\* A SENT invoice always has a poll job of its own reference that has not ended
\* in success.
THEOREM SentPolled == Spec => []SentIsPolled
<1>1. IInv => SentIsPolled
  BY DEF IInv, InvoicesOK
<1> QED
  BY <1>1, Inductive, PTL

\* An invoice carries no number and no refusal but KSeF's own.
THEOREM VerdictsAreKsefs == Spec => []VerdictIsKsefs
<1>1. IInv => VerdictIsKsefs
  BY DEF IInv, InvoicesOK
<1> QED
  BY <1>1, Inductive, PTL

\* No poll job is DONE before the number it brought is on the invoice.
THEOREM DoneDelivered == Spec => []DoneJobDelivered
<1>1. IInv => DoneJobDelivered
  BY DEF IInv, InvoicesOK
<1> QED
  BY <1>1, Inductive, PTL

\* The guards of a retry never strand a QUEUED invoice.
THEOREM QueuedRetriable == Spec => []QueuedCanBeRetried
<1>1. IInv => QueuedCanBeRetried
  BY DEF IInv, InvoicesOK
<1> QED
  BY <1>1, Inductive, PTL

-----------------------------------------------------------------------------
(***************************************************************************)
(* The poll jobs implement JobLifecycle.                                   *)
(***************************************************************************)
\* Every step moves each poll job as JobLifecycle allows, or leaves it alone.
LEMMA StepSimulated == IInv /\ TypeOK' /\ [Next]_vars => [Lifecycle!Next]_pollJob
<1> SUFFICES ASSUME IInv, TypeOK', [Next]_vars
             PROVE  \A r \in Refs : Lifecycle!Step(r) \/ UNCHANGED pollJob[r]
  BY DEF TypeOK, Lifecycle!Next, PollRow, PollStatus, Lifecycle!JobRow, Lifecycle!JobStatus
<1> USE BoundsAssumption, NoneAssumption DEF IInv, Lifecycle!Step, Lifecycle!Moves
<1>1. CASE UNCHANGED pollJob
  BY <1>1
<1>2. ASSUME NEW t \in Requests, CommitSend(t), NEW r \in Refs
      PROVE  Lifecycle!Step(r) \/ UNCHANGED pollJob[r]
  <2>1. request[t].ref \in Refs /\ pollJob[request[t].ref].status = "NONE"
    BY <1>2 DEF CommitSend, RequestsOK
  <2> QED
    BY <1>2, <2>1 DEF CommitSend, TypeOK, Lifecycle!Enqueue
<1>3. ASSUME NEW w \in Workers, NEW due \in SUBSET Refs, Claim(w, due), NEW r \in Refs
      PROVE  Lifecycle!Step(r) \/ UNCHANGED pollJob[r]
  BY <1>3 DEF Claim, JobsOK, Lifecycle!Take
<1>4. ASSUME NEW w \in Workers, NEW f \in Refs, FinishJob(w, f), NEW r \in Refs
      PROVE  Lifecycle!Step(r) \/ UNCHANGED pollJob[r]
  <2> DEFINE ended == worker[w].result[r]
  <2>1. CASE ~(r = f \/ (r \in Finished(w) /\ ended = "pending"))
    BY <1>4, <2>1 DEF FinishJob
  <2>2. CASE r = f \/ (r \in Finished(w) /\ ended = "pending")
    <3>1. ended \in {"accepted", "rejected", "pending"}
      <4>1. ended # "none"
        BY <1>4, <2>2 DEF FinishJob, Finished
      <4>2. ended \in {"none", "accepted", "rejected", "pending"}
        BY DEF TypeOK, WorkerState
      <4> QED
        BY <4>1, <4>2
    <3>2. pollJob[r].status = "PROCESSING" /\ (ended = "pending" => pollJob[r].attempts < MaxAttempts)
      BY <3>1 DEF HeldOK, Holds
    <3>3. pollJob'[r] = [pollJob[r] EXCEPT !.status = JobStatusOf(ended)]
      BY <1>4, <2>2 DEF FinishJob
    <3>4. /\ pollJob'[r].status = JobStatusOf(ended)
          /\ pollJob'[r].attempts = pollJob[r].attempts
      BY <3>3 DEF TypeOK, PollRow
    <3> QED
      BY <3>1, <3>2, <3>4 DEF JobStatusOf, Lifecycle!PutBack, Lifecycle!Finish, Lifecycle!GiveUp
  <2> QED
    BY <2>1, <2>2
<1>5. ASSUME NEW t \in Requests, RequestStep(t), ~CommitSend(t)
      PROVE  UNCHANGED pollJob
  BY <1>5 DEF RequestStep, CommitEdit, FlushApproval, InsertRetryJob, MarkSent, LockError,
     SendReturns, AnswerLost, SendRaises, Reload, CommitFailure
<1>6. ASSUME NEW w \in Workers, PollStep(w), \A r \in Refs : ~FinishJob(w, r)
      PROVE  UNCHANGED pollJob
  BY <1>6 DEF PollStep, BeginPolling, PollAccepted, PollPending, PollRejected, PollFails,
     PollRaises, EndTick
<1>7. ASSUME NEW t \in Requests,
             \/ AbortRequest(t)
             \/ \E i \in Invoices : BeginApprove(t, i) \/ BeginRetry(t, i)
             \/ \E i \in Invoices, v \in Versions : BeginEdit(t, i, v)
      PROVE  UNCHANGED pollJob
  BY <1>7 DEF AbortRequest, BeginApprove, BeginRetry, BeginEdit
<1>8. /\ \A w \in Workers : AbortWorker(w) => UNCHANGED pollJob
      /\ \A r \in Refs : Decide(r) => UNCHANGED pollJob
  BY DEF AbortWorker, Decide
<1> QED
  BY <1>1, <1>2, <1>3, <1>4, <1>5, <1>6, <1>7, <1>8 DEF Next, RequestStep, PollStep, vars

\* Every poll job goes through the life JobLifecycle describes.
THEOREM PollJobsImplementLifecycle == Spec => ImplementsLifecycle
<1>1. Init => Lifecycle!Init
  BY DEF Init, NoPoll, Lifecycle!Init
<1>2. IInv => TypeOK
  BY DEF IInv
<1> QED
  BY <1>1, <1>2, Inductive, StepSimulated, PTL DEF Spec, ImplementsLifecycle, Lifecycle!Spec

-----------------------------------------------------------------------------
(***************************************************************************)
(* What the guards promise while no two requests overlap on one invoice,   *)
(* whatever the other invoices, the workers and KSeF do meanwhile.         *)
(***************************************************************************)
\* No two web threads are serving a request about one invoice.
OneRequestPerInvoice ==
  \A t, u \in Requests :
    /\ request[t].at # "idle" /\ request[u].at # "idle"
    /\ request[t].inv = request[u].inv
    => t = u

\* No send of the invoice has been committed.
Unsent == {"DRAFT", "QUEUED"}

\* A draft is exactly an invoice that is not approved, and was never sent; a
\* reference on file is one KSeF has given.
DraftsOK ==
  \A i \in Invoices :
    /\ ~invoice[i].approved <=> invoice[i].status = "DRAFT"
    /\ ~invoice[i].approved => invoice[i].ref = NoRef
    /\ invoice[i].ref # NoRef => ksef[invoice[i].ref] # None

\* What a request q has loaded is still what the row says: the snapshot is not
\* stale when it is used.
Current(q) ==
  /\ q.op \in {"approve", "retry", "edit"}
  /\ q.op # "retry" => ~invoice[q.inv].approved
  /\ q.op = "approve" => q.xml = invoice[q.inv].content
  /\ q.op = "retry" => invoice[q.inv].status = "QUEUED" /\ q.xml = payload[q.inv]
  /\ q.at = "sent" => ksef[q.ref].xml = q.xml
  /\ q.at = "reloaded" => q.seen = invoice[q.inv].status

LoadedOK == \A t \in Requests : request[t].at # "idle" => Current(request[t])

\* A poll job is about the reference its invoice carries, so an invoice has at
\* most one; while it waits, the invoice is SENT.
PollsOK ==
  \A r \in Refs : pollJob[r].status # "NONE" =>
    LET row == invoice[ksef[r].inv] IN
    /\ row.ref = r
    /\ row.status \notin Unsent
    /\ pollJob[r].status = "NEW" => row.status = "SENT"

\* A job whose turn is to come, or which is still pending, is of a SENT invoice.
TurnsOK ==
  \A w \in Workers, r \in Refs :
    r \in worker[w].batch \/ worker[w].result[r] = "pending" =>
      invoice[ksef[r].inv].status = "SENT"

\* A job that waits its turn has no result yet.
PolledOnce == \A w \in Workers, r \in Refs : r \in worker[w].batch => worker[w].result[r] = "none"

\* A worker changes only SENT invoices, and only those whose job it has polled.
FreshOK ==
  \A w \in Workers, i \in Invoices : worker[w].write[i] # NoWrite =>
    /\ invoice[i].status = "SENT"
    /\ worker[w].result[invoice[i].ref] \in {"accepted", "rejected"}

SerialOK ==
  /\ SentIsOnFile
  /\ DraftsOK
  /\ LoadedOK
  /\ PollsOK
  /\ TurnsOK
  /\ PolledOnce
  /\ FreshOK

\* The initial states satisfy the invariant.
LEMMA SerialInit == Init => SerialOK
<1> SUFFICES ASSUME Init PROVE SerialOK
  OBVIOUS
<1>1. SentIsOnFile /\ DraftsOK /\ LoadedOK /\ PollsOK
  BY DEF Init, SentIsOnFile, DraftsOK, LoadedOK, PollsOK, Idle, NoPoll
<1>2. TurnsOK /\ PolledOnce /\ FreshOK
  BY DEF Init, TurnsOK, PolledOnce, FreshOK, IdleWorker
<1> QED
  BY <1>1, <1>2 DEF SerialOK

\* A request that only begins, waits, takes a lock, fails or dies reads what is
\* on file and changes nothing there.
LEMMA SerialQuiet ==
  ASSUME IInv, SerialOK, NEW t \in Requests,
         \/ \E i \in Invoices : BeginApprove(t, i) \/ BeginRetry(t, i)
         \/ \E i \in Invoices, v \in Versions : BeginEdit(t, i, v)
         \/ FlushApproval(t) \/ InsertRetryJob(t) \/ MarkSent(t) \/ LockError(t)
         \/ SendRaises(t) \/ Reload(t) \/ AbortRequest(t)
  PROVE  SerialOK'
<1> USE DEF IInv, TypeOK, SerialOK
<1>1. UNCHANGED <<mode, invoice, payload, sendJobs, pollJob, ksef, worker>>
  BY DEF BeginApprove, BeginRetry, BeginEdit, FlushApproval, InsertRetryJob, MarkSent, LockError,
     SendRaises, Reload, AbortRequest
<1>2. SentIsOnFile' /\ DraftsOK' /\ PollsOK' /\ TurnsOK' /\ PolledOnce' /\ FreshOK'
  BY <1>1 DEF SentIsOnFile, DraftsOK, PollsOK, TurnsOK, PolledOnce, FreshOK
<1>3. \A u \in Requests \ {t} : request'[u] = request[u]
  BY DEF BeginApprove, BeginRetry, BeginEdit, FlushApproval, InsertRetryJob, MarkSent, LockError,
     SendRaises, Reload, AbortRequest
<1>4. ASSUME NEW i \in Invoices, BeginApprove(t, i) \/ BeginRetry(t, i)
      PROVE  Current(request'[t])
  <2>1. CASE BeginApprove(t, i)
    BY <2>1 DEF Current, BeginApprove, Idle
  <2>2. CASE BeginRetry(t, i)
    BY <2>2 DEF Current, BeginRetry, Idle
  <2> QED
    BY <1>4, <2>1, <2>2
<1>5. ASSUME NEW i \in Invoices, NEW v \in Versions, BeginEdit(t, i, v)
      PROVE  Current(request'[t])
  BY <1>5 DEF Current, BeginEdit, Idle
<1>6. ASSUME FlushApproval(t) \/ InsertRetryJob(t) \/ MarkSent(t) \/ LockError(t) \/ SendRaises(t)
      PROVE  Current(request'[t])
  <2>1. Current(request[t])
    BY <1>6 DEF LoadedOK, FlushApproval, InsertRetryJob, MarkSent, LockError, SendRaises
  <2>2. PICK a \in {"inserted", "sending", "failed"} : request' = [request EXCEPT ![t].at = a]
    BY <1>6 DEF FlushApproval, InsertRetryJob, MarkSent, LockError, SendRaises
  <2> QED
    BY <2>1, <2>2 DEF Current, RequestState
<1>7. ASSUME Reload(t) PROVE Current(request'[t])
  <2>1. Current(request[t])
    BY <1>7 DEF LoadedOK, Reload
  <2> QED
    BY <1>7, <2>1 DEF Current, RequestState, Reload
<1>8. ASSUME AbortRequest(t) PROVE request'[t].at = "idle"
  BY <1>8 DEF AbortRequest, Idle
<1>9. request'[t].at # "idle" => Current(request'[t])
  BY <1>4, <1>5, <1>6, <1>7, <1>8
<1>10. LoadedOK'
  BY <1>1, <1>3, <1>9 DEF LoadedOK, Current
<1> QED
  BY <1>2, <1>10

\* KSeF keeps what a document said.
LEMMA SerialKsef ==
  ASSUME IInv, SerialOK, KsefKeeps,
         \A r \in Refs : ksef[r] # None => ksef'[r].xml = ksef[r].xml,
         UNCHANGED <<mode, invoice, payload, sendJobs, pollJob, worker>>
  PROVE  SentIsOnFile' /\ DraftsOK' /\ PollsOK' /\ TurnsOK' /\ PolledOnce' /\ FreshOK'
<1> USE DEF IInv, TypeOK, SerialOK, KsefKeeps
<1>1. SentIsOnFile' /\ DraftsOK'
  BY DEF SentIsOnFile, DraftsOK, InvoiceRow
<1>2. PollsOK'
  BY DEF PollsOK, JobsOK
<1>3. TurnsOK'
  <2>1. \A w \in Workers, r \in Refs : Holds(w, r) => ksef'[r].inv = ksef[r].inv
    BY DEF HeldOK, JobsOK
  <2> QED
    BY <2>1 DEF TurnsOK, Holds
<1>4. PolledOnce' /\ FreshOK'
  BY DEF PolledOnce, FreshOK
<1> QED
  BY <1>1, <1>2, <1>3, <1>4

\* A document KSeF receives, and its decision, leave the others as they are.
LEMMA SerialSends ==
  ASSUME IInv, SerialOK, NEW t \in Requests, SendReturns(t) \/ AnswerLost(t)
  PROVE  SerialOK'
<1> USE DEF IInv, TypeOK, SerialOK
<1> DEFINE verdict == IF mode = "mock" THEN "accepted" ELSE "pending"
<1>1. /\ UNCHANGED <<mode, invoice, payload, sendJobs, pollJob, worker>>
      /\ request[t].at = "sending"
  BY DEF SendReturns, AnswerLost
<1>2. PICK r \in Refs :
        /\ Received(r, t, verdict)
        /\ \/ request' = [request EXCEPT ![t].at = "sent", ![t].ref = r]
           \/ request' = [request EXCEPT ![t].at = "failed"]
  BY DEF SendReturns, AnswerLost
<1>3. verdict \in {"pending", "accepted"}
  OBVIOUS
<1> HIDE DEF verdict
<1>4. KsefKeeps
  BY <1>1, <1>2, <1>3, ReceivedKept
<1>5. /\ \A q \in Refs : ksef[q] # None => ksef'[q].xml = ksef[q].xml
      /\ ksef'[r].xml = request[t].xml
  BY <1>2 DEF Received
<1>6. LoadedOK'
  <2> SUFFICES ASSUME NEW u \in Requests, request'[u].at # "idle"
               PROVE  Current(request[u])'
    BY DEF LoadedOK
  <2>1. request[u].at # "idle" /\ Current(request[u])
    BY <1>1, <1>2 DEF LoadedOK
  <2>2. request[u].at = "sent" => ksef'[request[u].ref].xml = ksef[request[u].ref].xml
    BY <1>5 DEF RequestsOK
  <2>3. CASE u # t
    BY <1>1, <1>2, <2>1, <2>2, <2>3 DEF Current
  <2>4. CASE u = t
    BY <1>1, <1>2, <1>5, <2>1, <2>4 DEF Current, RequestState
  <2> QED
    BY <2>3, <2>4
<1> QED
  BY <1>1, <1>4, <1>5, <1>6, SerialKsef

LEMMA SerialDecide ==
  ASSUME IInv, SerialOK, NEW r \in Refs, Decide(r)
  PROVE  SerialOK'
<1> USE NoneAssumption DEF IInv, TypeOK, SerialOK
<1>1. PICK v \in {"accepted", "rejected"} : ksef' = [ksef EXCEPT ![r].verdict = v]
  BY DEF Decide
<1>2. KsefKeeps
  BY <1>1 DEF Decide, KsefKeeps, Submission
<1>3. \A q \in Refs : ksef[q] # None => ksef'[q].xml = ksef[q].xml
  BY <1>1 DEF Submission
<1>4. LoadedOK'
  BY <1>3 DEF LoadedOK, Current, Decide, RequestsOK
<1> QED
  BY <1>2, <1>3, <1>4, SerialKsef DEF Decide

\* The invoice of a request is not sent yet: no poll job is about it, and no
\* worker has its row.
LEMMA NotSentYet ==
  ASSUME IInv, SerialOK, NEW t \in Requests, request[t].at # "idle"
  PROVE  LET i == request[t].inv IN
         /\ i \in Invoices
         /\ invoice[i].status \in Unsent
         /\ \A r \in Refs : pollJob[r].status # "NONE" => ksef[r].inv # i
         /\ \A w \in Workers, r \in Refs : Holds(w, r) => ksef[r].inv # i
         /\ \A w \in Workers : worker[w].write[i] = NoWrite
<1> DEFINE i == request[t].inv
<1>1. i \in Invoices /\ Current(request[t])
  BY DEF IInv, RequestsOK, SerialOK, LoadedOK
<1>2. invoice[i].status \in Unsent
  BY <1>1 DEF Current, SerialOK, DraftsOK, Unsent
<1>3. \A r \in Refs : pollJob[r].status # "NONE" => ksef[r].inv # i
  BY <1>2 DEF SerialOK, PollsOK
<1>4. \A w \in Workers, r \in Refs : Holds(w, r) => ksef[r].inv # i
  BY <1>3 DEF IInv, HeldOK
<1>5. \A w \in Workers : worker[w].write[i] = NoWrite
  BY <1>1, <1>2 DEF SerialOK, FreshOK, Unsent
<1> QED
  BY <1>1, <1>2, <1>3, <1>4, <1>5

\* A request that commits its own invoice leaves what the other requests have
\* loaded, and what the workers hold, as it was.
LEMMA CommitApart ==
  ASSUME IInv, SerialOK, OneRequestPerInvoice, NEW t \in Requests, request[t].at # "idle",
         request' = [request EXCEPT ![t] = Idle], UNCHANGED <<ksef, worker>>,
         \A j \in Invoices \ {request[t].inv} : invoice'[j] = invoice[j] /\ payload'[j] = payload[j]
  PROVE  LoadedOK' /\ TurnsOK' /\ PolledOnce' /\ FreshOK'
<1> DEFINE i == request[t].inv
<1> USE DEF IInv, TypeOK, SerialOK
<1>1. LoadedOK'
  <2> SUFFICES ASSUME NEW u \in Requests, request'[u].at # "idle"
               PROVE  Current(request[u])'
    BY DEF LoadedOK
  <2>1. u # t /\ request'[u] = request[u]
    BY DEF Idle
  <2>2. request[u].inv \in Invoices \ {i} /\ Current(request[u])
    BY <2>1 DEF OneRequestPerInvoice, RequestsOK, LoadedOK
  <2> QED
    BY <2>1, <2>2 DEF Current
<1>2. TurnsOK'
  <2> SUFFICES ASSUME NEW w \in Workers, NEW r \in Refs,
                      r \in worker[w].batch \/ worker[w].result[r] = "pending"
               PROVE  invoice'[ksef[r].inv].status = "SENT"
    BY DEF TurnsOK
  <2>1. Holds(w, r)
    BY DEF Holds
  <2>2. ksef[r].inv \in Invoices \ {i}
    BY <2>1, NotSentYet DEF HeldOK, JobsOK, Submission
  <2> QED
    BY <2>2 DEF TurnsOK
<1>3. FreshOK'
  <2> SUFFICES ASSUME NEW w \in Workers, NEW j \in Invoices, worker[w].write[j] # NoWrite
               PROVE  /\ invoice'[j].status = "SENT"
                      /\ worker[w].result[invoice'[j].ref] \in {"accepted", "rejected"}
    BY DEF FreshOK
  <2>1. j # i
    BY NotSentYet
  <2> QED
    BY <2>1 DEF FreshOK
<1>4. PolledOnce'
  BY DEF PolledOnce
<1> QED
  BY <1>1, <1>2, <1>3, <1>4

\* An edit is of a draft, of which nothing is on file.
LEMMA SerialCommitEdit ==
  ASSUME IInv, SerialOK, OneRequestPerInvoice, NEW t \in Requests, CommitEdit(t)
  PROVE  SerialOK'
<1> DEFINE i == request[t].inv
<1> USE DEF IInv, TypeOK, SerialOK
<1>1. /\ i \in Invoices /\ ~invoice[i].approved /\ invoice[i].ref = NoRef
      /\ request[t].at # "idle"
  BY DEF CommitEdit, RequestsOK, LoadedOK, Current, DraftsOK
<1>2. /\ \A j \in Invoices \ {i} : invoice'[j] = invoice[j]
      /\ invoice'[i] = [invoice[i] EXCEPT !.content = request[t].xml]
      /\ UNCHANGED <<payload, pollJob, ksef, worker>>
  BY <1>1 DEF CommitEdit
<1>3. \A j \in Invoices : /\ invoice'[j].approved = invoice[j].approved
                          /\ invoice'[j].status = invoice[j].status
                          /\ invoice'[j].ref = invoice[j].ref
                          /\ j # i => invoice'[j].content = invoice[j].content
  BY <1>2 DEF InvoiceRow
<1>4. SentIsOnFile' /\ DraftsOK'
  BY <1>1, <1>2, <1>3 DEF SentIsOnFile, DraftsOK
<1>5. PollsOK'
  BY <1>2, <1>3 DEF PollsOK, JobsOK, Submission
<1>6. LoadedOK' /\ TurnsOK' /\ PolledOnce' /\ FreshOK'
  BY <1>1, <1>2, CommitApart DEF CommitEdit
<1> QED
  BY <1>4, <1>5, <1>6

\* A send commits an invoice that had no reference of which a job is left.
LEMMA SerialCommitSend ==
  ASSUME IInv, SerialOK, OneRequestPerInvoice, NEW t \in Requests, CommitSend(t)
  PROVE  SerialOK'
<1> DEFINE i == request[t].inv
           r == request[t].ref
<1> USE BoundsAssumption, NoneAssumption DEF IInv, TypeOK, SerialOK
<1>1. /\ i \in Invoices /\ r \in Refs /\ request[t].at # "idle"
      /\ request[t].op \in {"approve", "retry"}
      /\ ksef[r] # None /\ ksef[r].inv = i /\ ksef[r].xml = request[t].xml
  BY DEF CommitSend, RequestsOK, LoadedOK, Current
<1>2. request[t].xml = invoice[i].content /\ (request[t].op = "retry" => payload[i] = request[t].xml)
  <2>1. CASE request[t].op = "approve"
    BY <1>1, <2>1 DEF LoadedOK, Current
  <2>2. CASE request[t].op = "retry"
    <3>1. invoice[i].approved /\ payload[i] = request[t].xml
      BY <1>1, <2>2 DEF LoadedOK, Current, RequestsOK
    <3> QED
      BY <1>1, <3>1 DEF SentIsOnFile
  <2> QED
    BY <1>1, <2>1, <2>2
<1>3. /\ \A j \in Invoices \ {i} : invoice'[j] = invoice[j] /\ payload'[j] = payload[j]
      /\ invoice'[i].approved
      /\ invoice'[i].status \in {"SENT", "ACCEPTED"}
      /\ mode = "live" => invoice'[i].status = "SENT"
      /\ invoice'[i].ref = r
      /\ invoice'[i].content = invoice[i].content
      /\ payload'[i] = request[t].xml
      /\ UNCHANGED <<mode, ksef, worker>>
  BY <1>1, <1>2 DEF CommitSend, InvoiceRow
<1>4. \A q \in Refs : \/ q # r /\ pollJob'[q] = pollJob[q]
                      \/ q = r /\ mode = "live"
                      \/ q = r /\ pollJob'[q].status = "NONE"
  BY <1>1 DEF CommitSend, RequestsOK
<1>5. SentIsOnFile' /\ DraftsOK'
  <2>1. \A j \in Invoices \ {i} : SentIsOnFile!(j)' /\ DraftsOK!(j)'
    BY <1>3 DEF SentIsOnFile, DraftsOK
  <2>2. payload'[i] = invoice'[i].content /\ ksef'[invoice'[i].ref].xml = invoice'[i].content
    BY <1>1, <1>2, <1>3
  <2>3. /\ invoice'[i].approved /\ invoice'[i].status # "DRAFT"
        /\ ksef'[invoice'[i].ref] # None
    BY <1>1, <1>3
  <2> QED
    BY <2>1, <2>2, <2>3 DEF SentIsOnFile, DraftsOK
<1>6. PollsOK'
  <2> SUFFICES ASSUME NEW q \in Refs, pollJob'[q].status # "NONE"
               PROVE  PollsOK!(q)'
    BY DEF PollsOK
  <2>1. CASE q = r
    BY <1>1, <1>3, <1>4, <2>1 DEF Unsent
  <2>2. CASE q # r
    <3>1. pollJob'[q] = pollJob[q]
      BY <1>4, <2>2
    <3>2. ksef[q].inv \in Invoices \ {i}
      BY <1>1, <3>1, NotSentYet DEF JobsOK, Submission
    <3> QED
      BY <1>3, <3>1, <3>2 DEF PollsOK
  <2> QED
    BY <2>1, <2>2
<1>7. LoadedOK' /\ TurnsOK' /\ PolledOnce' /\ FreshOK'
  BY <1>1, <1>3, CommitApart DEF CommitSend
<1> QED
  BY <1>5, <1>6, <1>7

\* A failed send leaves the invoice QUEUED, with the payload of its content.
LEMMA SerialCommitFailure ==
  ASSUME IInv, SerialOK, OneRequestPerInvoice, NEW t \in Requests, CommitFailure(t)
  PROVE  SerialOK' /\ invoice'[request[t].inv].status = "QUEUED"
<1> DEFINE i == request[t].inv
<1> USE BoundsAssumption, NoneAssumption DEF IInv, TypeOK, SerialOK
<1>1. /\ i \in Invoices /\ request[t].at # "idle"
      /\ request[t].op \in {"approve", "retry"}
      /\ request[t].seen = invoice[i].status
  BY DEF CommitFailure, RequestsOK, LoadedOK, Current
<1>2. /\ request[t].op = "approve" => request[t].xml = invoice[i].content
      /\ request[t].op = "retry" => invoice[i].approved /\ payload[i] = invoice[i].content
  BY <1>1 DEF LoadedOK, Current, RequestsOK, SentIsOnFile
<1>3. /\ \A j \in Invoices \ {i} : invoice'[j] = invoice[j] /\ payload'[j] = payload[j]
      /\ invoice'[i].approved
      /\ invoice'[i].status = "QUEUED"
      /\ invoice'[i].ref = invoice[i].ref
      /\ invoice'[i].content = invoice[i].content
      /\ payload'[i] = invoice[i].content
      /\ UNCHANGED <<mode, ksef, pollJob, worker>>
  BY <1>1, <1>2 DEF CommitFailure, InvoiceRow
<1>4. SentIsOnFile' /\ DraftsOK'
  BY <1>1, <1>3 DEF SentIsOnFile, DraftsOK
<1>5. PollsOK'
  <2> SUFFICES ASSUME NEW q \in Refs, pollJob[q].status # "NONE"
               PROVE  PollsOK!(q)'
    BY <1>3 DEF PollsOK
  <2>1. ksef[q].inv \in Invoices \ {i}
    BY <1>1, NotSentYet DEF JobsOK, Submission
  <2> QED
    BY <1>3, <2>1 DEF PollsOK
<1>6. LoadedOK' /\ TurnsOK' /\ PolledOnce' /\ FreshOK'
  BY <1>1, <1>3, CommitApart DEF CommitFailure
<1> QED
  BY <1>3, <1>4, <1>5, <1>6

\* A worker claims only jobs of SENT invoices.
LEMMA SerialClaim ==
  ASSUME IInv, SerialOK, NEW w \in Workers, NEW due \in SUBSET Refs, Claim(w, due)
  PROVE  SerialOK'
<1> USE DEF IInv, TypeOK, SerialOK
<1>1. /\ UNCHANGED <<mode, invoice, payload, ksef, request>>
      /\ \A v \in Workers, i \in Invoices : worker'[v].write[i] = worker[v].write[i]
      /\ \A v \in Workers, r \in Refs : worker'[v].result[r] = worker[v].result[r]
      /\ \A v \in Workers \ {w} : worker'[v] = worker[v]
      /\ worker'[w].batch = due
  BY DEF Claim, WorkerState
<1>2. \A r \in Refs : IF r \in due THEN pollJob[r].status = "NEW" /\ pollJob'[r].status = "PROCESSING"
                                   ELSE pollJob'[r] = pollJob[r]
  BY DEF Claim
<1>3. SentIsOnFile' /\ DraftsOK' /\ LoadedOK'
  BY <1>1 DEF SentIsOnFile, DraftsOK, LoadedOK, Current
<1>4. PollsOK'
  BY <1>1, <1>2 DEF PollsOK
<1>5. TurnsOK' /\ PolledOnce'
  <2>1. \A r \in Refs : worker[w].result[r] = "none"
    BY DEF Claim, HeldOK
  <2> QED
    BY <1>1, <1>2, <2>1 DEF TurnsOK, PollsOK, PolledOnce
<1>6. FreshOK'
  <2>1. \A i \in Invoices : invoice[i].status = "SENT" => invoice[i].ref \in Refs
    BY DEF InvoicesOK, SentIsPolled, InvoiceRow
  <2> QED
    BY <1>1, <2>1 DEF FreshOK
<1> QED
  BY <1>3, <1>4, <1>5, <1>6

\* A worker that reads its snapshot, ends its tick or dies holds no more than
\* before and has nothing new to write.
LEMMA SerialWorker ==
  ASSUME IInv, SerialOK, NEW w \in Workers, BeginPolling(w) \/ EndTick(w) \/ AbortWorker(w)
  PROVE  SerialOK'
<1> USE DEF IInv, TypeOK, SerialOK
<1>1. /\ UNCHANGED <<mode, invoice, payload, pollJob, ksef, request>>
      /\ \A v \in Workers \ {w} : worker'[v] = worker[v]
  BY DEF BeginPolling, EndTick, AbortWorker
<1>2. \/ /\ worker'[w].batch = worker[w].batch /\ worker'[w].result = worker[w].result
         /\ worker'[w].write = worker[w].write
      \/ /\ worker'[w].batch = {} /\ \A r \in Refs : worker'[w].result[r] = "none"
         /\ \A i \in Invoices : worker'[w].write[i] = NoWrite
  <2>1. CASE BeginPolling(w)
    BY <2>1 DEF BeginPolling, WorkerState
  <2>2. CASE EndTick(w) \/ AbortWorker(w)
    BY <2>2 DEF EndTick, AbortWorker, IdleWorker
  <2> QED
    BY <2>1, <2>2
<1>3. SentIsOnFile' /\ DraftsOK' /\ LoadedOK' /\ PollsOK'
  BY <1>1 DEF SentIsOnFile, DraftsOK, LoadedOK, Current, PollsOK
<1>4. TurnsOK' /\ PolledOnce'
  BY <1>1, <1>2 DEF TurnsOK, PolledOnce
<1>5. FreshOK'
  BY <1>1, <1>2 DEF FreshOK
<1> QED
  BY <1>3, <1>4, <1>5

\* A poll leaves at most one more change, to the invoice of its job.
LEMMA SerialPolled ==
  ASSUME IInv, SerialOK, NEW w \in Workers, NEW r \in Refs, IsNext(w, r),
         UNCHANGED <<mode, invoice, payload, pollJob, ksef, request>>,
         \A v \in Workers \ {w} : worker'[v] = worker[v],
         worker'[w].batch = worker[w].batch \ {r},
         NEW result \in {"accepted", "rejected", "pending"},
         worker'[w].result = [worker[w].result EXCEPT ![r] = result],
         \A i \in Invoices \ {ksef[r].inv} : worker'[w].write[i] = worker[w].write[i],
         result = "pending" => worker'[w].write = worker[w].write
  PROVE  SerialOK'
<1> USE DEF IInv, TypeOK, SerialOK
<1>1. /\ r \in worker[w].batch /\ worker[w].result \in [Refs -> {"none", "accepted", "rejected", "pending"}]
      /\ ksef[r].inv \in Invoices
      /\ invoice[ksef[r].inv].status = "SENT" /\ invoice[ksef[r].inv].ref = r
  BY DEF IsNext, WorkerState, TurnsOK, HeldOK, Holds, JobsOK, Submission, PollsOK
<1>2. SentIsOnFile' /\ DraftsOK' /\ LoadedOK' /\ PollsOK'
  BY DEF SentIsOnFile, DraftsOK, LoadedOK, Current, PollsOK
<1>3. TurnsOK' /\ PolledOnce'
  BY <1>1 DEF TurnsOK, PolledOnce
<1>4. worker[w].write[ksef[r].inv] = NoWrite
  BY <1>1 DEF PolledOnce, FreshOK
<1>5. FreshOK'
  <2> SUFFICES ASSUME NEW v \in Workers, NEW i \in Invoices, worker'[v].write[i] # NoWrite
               PROVE  FreshOK!(v, i)'
    BY DEF FreshOK
  <2>1. CASE v # w
    BY <2>1 DEF FreshOK
  <2>2. CASE v = w /\ i # ksef[r].inv
    <3>1. invoice[i].status = "SENT" /\ worker[w].result[invoice[i].ref] \in {"accepted", "rejected"}
      BY <2>2 DEF FreshOK
    <3>2. invoice[i].ref # r
      BY <1>1, <2>2, <3>1 DEF InvoicesOK, SentIsPolled
    <3>3. worker'[w].result[invoice[i].ref] = worker[w].result[invoice[i].ref]
      <4>1. invoice[i].ref \in Refs
        BY <3>1 DEF InvoicesOK, SentIsPolled, InvoiceRow
      <4> QED
        BY <1>1, <3>2, <4>1
    <3> QED
      BY <2>2, <3>1, <3>3
  <2>3. CASE v = w /\ i = ksef[r].inv
    BY <1>1, <1>4, <2>3
  <2> QED
    BY <2>1, <2>2, <2>3
<1> QED
  BY <1>2, <1>3, <1>5

\* Whatever KSeF says of a document, the change is to the invoice of its job.
LEMMA SerialPoll ==
  ASSUME IInv, SerialOK, NEW w \in Workers, NEW r \in Refs,
         PollAccepted(w, r) \/ PollPending(w, r) \/ PollRejected(w, r) \/ PollFails(w, r)
  PROVE  SerialOK'
<1> USE DEF IInv, TypeOK
<1>1. /\ IsNext(w, r)
      /\ UNCHANGED <<mode, invoice, payload, pollJob, ksef, request>>
      /\ \A v \in Workers \ {w} : worker'[v] = worker[v]
  BY DEF PollAccepted, PollPending, PollRejected, PollFails, PollRaises
<1>2. CASE PollAccepted(w, r)
  <2>1. /\ worker'[w].batch = worker[w].batch \ {r}
        /\ worker'[w].result = [worker[w].result EXCEPT ![r] = "accepted"]
        /\ \A i \in Invoices \ {ksef[r].inv} : worker'[w].write[i] = worker[w].write[i]
    BY <1>2 DEF PollAccepted, WorkerState
  <2> QED
    BY <1>1, <2>1, SerialPolled
<1>3. CASE PollPending(w, r)
  <2>1. /\ worker'[w].batch = worker[w].batch \ {r}
        /\ worker'[w].result = [worker[w].result EXCEPT ![r] = "pending"]
        /\ worker'[w].write = worker[w].write
    BY <1>3 DEF PollPending, WorkerState
  <2> QED
    BY <1>1, <2>1, SerialPolled
<1>4. ASSUME NEW write, PollRaises(w, r, write),
             \A i \in Invoices \ {ksef[r].inv} : write[i] = worker[w].write[i]
      PROVE  SerialOK'
  <2>1. /\ worker'[w].batch = worker[w].batch \ {r}
        /\ worker'[w].result = [worker[w].result EXCEPT ![r] = "rejected"]
        /\ \A i \in Invoices \ {ksef[r].inv} : worker'[w].write[i] = worker[w].write[i]
    BY <1>4 DEF PollRaises, WorkerState
  <2> QED
    BY <1>1, <2>1, SerialPolled
<1>5. CASE PollRejected(w, r)
  <2>1. \A i \in Invoices \ {ksef[r].inv} :
          [worker[w].write EXCEPT ![ksef[r].inv].status = Assigned(w, ksef[r].inv, "REJECTED")][i]
            = worker[w].write[i]
    BY DEF WorkerState
  <2> QED
    BY <1>4, <1>5, <2>1 DEF PollRejected
<1>6. CASE PollFails(w, r)
  BY <1>4, <1>6 DEF PollFails
<1> QED
  BY <1>2, <1>3, <1>5, <1>6

\* What a worker commits turns SENT invoices into decided ones, each by its own
\* job, and puts back only jobs of invoices that stay SENT.
LEMMA SerialFinish ==
  ASSUME IInv, SerialOK, NEW w \in Workers, NEW r \in Refs, FinishJob(w, r)
  PROVE  /\ SerialOK'
         /\ \A i \in Invoices : /\ invoice'[i].content = invoice[i].content
                                /\ \/ invoice'[i].status = invoice[i].status
                                   \/ /\ invoice[i].status = "SENT"
                                      /\ invoice'[i].status \in {"ACCEPTED", "REJECTED"}
<1> DEFINE W == worker[w]
           Back(q) == W.result[q] = "pending"
<1> USE DEF IInv, TypeOK, SerialOK
<1>1. /\ UNCHANGED <<mode, payload, sendJobs, ksef, request>>
      /\ W.batch = {} /\ W.result[r] # "none"
  BY DEF FinishJob, Finished
<1>2. \A i \in Invoices :
        /\ invoice'[i].approved = invoice[i].approved
        /\ invoice'[i].ref = invoice[i].ref
        /\ invoice'[i].content = invoice[i].content
        /\ invoice'[i].status = IF W.write[i].status = None THEN invoice[i].status
                                                            ELSE W.write[i].status
  BY DEF FinishJob, InvoiceRow
<1>3. \A i \in Invoices :
        \/ W.write[i] = NoWrite /\ invoice'[i].status = invoice[i].status
        \/ /\ invoice[i].status = "SENT"
           /\ invoice'[i].status \in {"SENT", "ACCEPTED", "REJECTED"}
           /\ W.result[invoice[i].ref] \in {"accepted", "rejected"}
           /\ invoice[i].ref \in Refs
  <2> SUFFICES ASSUME NEW i \in Invoices, W.write[i] # NoWrite
               PROVE  /\ invoice[i].status = "SENT"
                      /\ invoice'[i].status \in {"SENT", "ACCEPTED", "REJECTED"}
                      /\ W.result[invoice[i].ref] \in {"accepted", "rejected"}
                      /\ invoice[i].ref \in Refs
    BY <1>2 DEF NoWrite
  <2>1. invoice[i].status = "SENT" /\ W.result[invoice[i].ref] \in {"accepted", "rejected"}
    BY DEF FreshOK
  <2>2. invoice[i].ref \in Refs
    BY <2>1 DEF InvoicesOK, SentIsPolled, InvoiceRow
  <2>3. W.write[i].status \in {None, "ACCEPTED", "REJECTED"}
    BY DEF WritesOK, FromKsef
  <2> QED
    BY <1>2, <2>1, <2>2, <2>3
<1>4. /\ \A v \in Workers \ {w} : worker'[v] = worker[v]
      /\ worker'[w].batch = {}
      /\ \A i \in Invoices : worker'[w].write[i] = NoWrite
      /\ \A q \in Refs : worker'[w].result[q] # "pending"
  BY <1>1 DEF FinishJob, WorkerState
<1>5. \A q \in Refs :
        /\ pollJob'[q].status # "NONE" => pollJob[q].status # "NONE"
        /\ pollJob'[q].status = "NEW" => pollJob[q].status = "NEW" \/ Back(q)
  <2> SUFFICES ASSUME NEW q \in Refs
               PROVE  \/ pollJob'[q] = pollJob[q]
                      \/ /\ pollJob[q].status # "NONE"
                         /\ pollJob'[q].status = "NEW" => Back(q)
    OBVIOUS
  <2>1. CASE ~(q = r \/ Back(q))
    BY <2>1 DEF FinishJob
  <2>2. CASE q = r \/ Back(q)
    <3>1. W.result[q] \in {"accepted", "rejected", "pending"}
      BY <1>1, <2>2 DEF WorkerState
    <3>2. pollJob[q].status = "PROCESSING"
      BY <3>1 DEF HeldOK, Holds
    <3>3. pollJob'[q].status = JobStatusOf(W.result[q])
      BY <1>1, <2>2, <3>1 DEF FinishJob, Finished, PollRow
    <3> QED
      BY <3>1, <3>2, <3>3 DEF JobStatusOf
  <2> QED
    BY <2>1, <2>2
<1>6. SentIsOnFile' /\ DraftsOK'
  BY <1>1, <1>2, <1>3 DEF SentIsOnFile, DraftsOK
<1>7. LoadedOK'
  <2> SUFFICES ASSUME NEW u \in Requests, request[u].at # "idle" PROVE Current(request[u])'
    BY <1>1 DEF LoadedOK
  <2>1. /\ request[u].inv \in Invoices /\ Current(request[u])
        /\ invoice'[request[u].inv].status = invoice[request[u].inv].status
    BY <1>3, NotSentYet DEF LoadedOK, Unsent
  <2> QED
    BY <1>1, <1>2, <2>1 DEF Current
\* A row this worker writes is of a job it holds with a result.
<1>8. \A v \in Workers, q \in Refs : Holds(v, q) /\ (v # w \/ Back(q)) =>
        /\ ksef[q].inv \in Invoices
        /\ invoice[ksef[q].inv].status = "SENT" => invoice'[ksef[q].inv].status = "SENT"
  <2> SUFFICES ASSUME NEW v \in Workers, NEW q \in Refs, Holds(v, q), v # w \/ Back(q)
               PROVE  /\ ksef[q].inv \in Invoices
                      /\ W.write[ksef[q].inv] = NoWrite
    BY <1>2 DEF NoWrite
  <2>1. ksef[q].inv \in Invoices /\ invoice[ksef[q].inv].ref = q
    BY DEF HeldOK, JobsOK, Submission, PollsOK
  <2>2. ~(W.result[q] \in {"accepted", "rejected"})
    BY DEF HeldOK, Holds
  <2> QED
    BY <1>3, <2>1, <2>2
<1>9. PollsOK'
  <2> SUFFICES ASSUME NEW q \in Refs, pollJob'[q].status # "NONE" PROVE PollsOK!(q)'
    BY DEF PollsOK
  <2>1. pollJob[q].status # "NONE" /\ ksef[q].inv \in Invoices
    BY <1>5 DEF JobsOK, Submission
  <2>2. invoice'[ksef[q].inv].ref = q /\ invoice'[ksef[q].inv].status \notin Unsent
    BY <1>2, <1>3, <2>1 DEF PollsOK, Unsent
  <2>3. ASSUME pollJob'[q].status = "NEW" PROVE invoice'[ksef[q].inv].status = "SENT"
    <3>1. CASE Back(q)
      BY <1>8, <3>1 DEF TurnsOK, Holds
    <3>2. CASE pollJob[q].status = "NEW"
      <4>1. invoice[ksef[q].inv].status = "SENT" /\ invoice[ksef[q].inv].ref = q
        BY <2>1, <3>2 DEF PollsOK
      <4>2. W.result[q] = "none"
        BY <3>2 DEF HeldOK, Holds
      <4> QED
        BY <1>3, <2>1, <4>1, <4>2
    <3> QED
      BY <1>5, <2>3, <3>1, <3>2
  <2> QED
    BY <1>1, <2>2, <2>3
<1>10. TurnsOK' /\ PolledOnce'
  BY <1>1, <1>4, <1>8 DEF TurnsOK, PolledOnce, Holds
<1>11. FreshOK'
  <2> SUFFICES ASSUME NEW v \in Workers, NEW i \in Invoices, worker'[v].write[i] # NoWrite
               PROVE  FreshOK!(v, i)'
    BY DEF FreshOK
  <2>1. v # w /\ worker'[v] = worker[v]
    BY <1>4
  <2>2. /\ invoice[i].status = "SENT" /\ invoice[i].ref \in Refs
        /\ ksef[invoice[i].ref].inv = i
        /\ worker[v].result[invoice[i].ref] \in {"accepted", "rejected"}
    BY <2>1 DEF FreshOK, InvoicesOK, SentIsPolled, InvoiceRow
  <2>3. invoice'[i].status = "SENT"
    BY <1>8, <2>1, <2>2 DEF Holds
  <2> QED
    BY <1>2, <2>1, <2>2, <2>3
<1> QED
  BY <1>2, <1>3, <1>6, <1>7, <1>9, <1>10, <1>11

-----------------------------------------------------------------------------
\* Every step keeps the serial invariant and moves the statuses forward.
LEMMA SerialStep ==
  ASSUME IInv, SerialOK, OneRequestPerInvoice, [Next]_vars
  PROVE  SerialOK'
<1>1. CASE UNCHANGED vars
  BY <1>1 DEF vars, SerialOK, SentIsOnFile, DraftsOK, LoadedOK, Current, PollsOK, TurnsOK,
     PolledOnce, FreshOK
<1>2. ASSUME NEW t \in Requests,
             \/ \E i \in Invoices : BeginApprove(t, i) \/ BeginRetry(t, i)
             \/ \E i \in Invoices, v \in Versions : BeginEdit(t, i, v)
             \/ AbortRequest(t)
      PROVE  SerialOK'
  BY <1>2, SerialQuiet
<1>3. ASSUME NEW t \in Requests, RequestStep(t) PROVE SerialOK'
  BY <1>3, SerialQuiet, SerialSends, SerialCommitEdit, SerialCommitSend, SerialCommitFailure
     DEF RequestStep
<1>4. ASSUME NEW w \in Workers,
             (\E due \in SUBSET Refs : Claim(w, due)) \/ PollStep(w) \/ AbortWorker(w)
      PROVE  SerialOK'
  BY <1>4, SerialClaim, SerialWorker, SerialPoll, SerialFinish DEF PollStep
<1>5. ASSUME NEW r \in Refs, Decide(r) PROVE SerialOK'
  BY <1>5, SerialDecide
<1> QED
  BY <1>1, <1>2, <1>3, <1>4, <1>5 DEF Next

\* A step that changes a status, or the content of an invoice.
LEMMA StatusSteps ==
  ASSUME IInv, SerialOK, [Next]_vars
  PROVE  \/ UNCHANGED invoice
         \/ \E t \in Requests : CommitEdit(t) \/ CommitSend(t) \/ CommitFailure(t)
         \/ \E w \in Workers, r \in Refs : FinishJob(w, r)
<1>1. CASE UNCHANGED vars
  BY <1>1 DEF vars
<1>2. ASSUME NEW t \in Requests,
             \/ \E i \in Invoices : BeginApprove(t, i) \/ BeginRetry(t, i)
             \/ \E i \in Invoices, v \in Versions : BeginEdit(t, i, v)
             \/ AbortRequest(t)
      PROVE  UNCHANGED invoice
  BY <1>2 DEF BeginApprove, BeginRetry, BeginEdit, AbortRequest
<1>3. ASSUME NEW t \in Requests, RequestStep(t)
      PROVE  UNCHANGED invoice \/ CommitEdit(t) \/ CommitSend(t) \/ CommitFailure(t)
  BY <1>3 DEF RequestStep, FlushApproval, InsertRetryJob, MarkSent, LockError, SendReturns,
     AnswerLost, SendRaises, Reload
<1>4. ASSUME NEW w \in Workers,
             (\E due \in SUBSET Refs : Claim(w, due)) \/ PollStep(w) \/ AbortWorker(w)
      PROVE  UNCHANGED invoice \/ \E r \in Refs : FinishJob(w, r)
  BY <1>4 DEF Claim, PollStep, BeginPolling, PollAccepted, PollPending, PollRejected, PollFails,
     PollRaises, EndTick, AbortWorker
<1>5. ASSUME NEW r \in Refs, Decide(r) PROVE UNCHANGED invoice
  BY <1>5 DEF Decide
<1> QED
  BY <1>1, <1>2, <1>3, <1>4, <1>5 DEF Next

\* Where the status of invoice i may go, and when its content may change.
Onward(i) ==
  /\ invoice'[i].status # invoice[i].status =>
       StatusRank(invoice'[i].status) > StatusRank(invoice[i].status)
  /\ invoice[i].approved => invoice'[i].content = invoice[i].content

\* Statuses move forward, and only drafts are edited.
LEMMA SerialForward ==
  ASSUME IInv, SerialOK, OneRequestPerInvoice, [Next]_vars, NEW i \in Invoices
  PROVE  Onward(i)
<1> USE DEF IInv, TypeOK, SerialOK
<1>1. CASE UNCHANGED invoice
  BY <1>1 DEF Onward
<1>2. ASSUME NEW w \in Workers, NEW r \in Refs, FinishJob(w, r) PROVE Onward(i)
  BY <1>2, SerialFinish DEF StatusRank, Onward
<1>3. ASSUME NEW t \in Requests, CommitEdit(t) \/ CommitSend(t) \/ CommitFailure(t)
      PROVE  Onward(i)
  <2>1. /\ request[t].at # "idle"
        /\ request[t].inv \in Invoices
        /\ Current(request[t])
    BY <1>3 DEF CommitEdit, CommitSend, CommitFailure, RequestsOK, LoadedOK
  <2>2. invoice[request[t].inv].status \in Unsent
    BY <2>1, NotSentYet
  <2>3. CASE i # request[t].inv
    BY <1>3, <2>1, <2>3 DEF CommitEdit, CommitSend, CommitFailure, Onward
  <2>4. CASE i = request[t].inv /\ CommitEdit(t)
    BY <2>1, <2>4 DEF CommitEdit, Current, InvoiceRow, Onward
  <2>5. CASE i = request[t].inv /\ CommitSend(t)
    <3>1. invoice'[i].status \in {"SENT", "ACCEPTED"} /\ invoice'[i].content = invoice[i].content
      BY <2>1, <2>5 DEF CommitSend, InvoiceRow
    <3> QED
      BY <2>2, <2>5, <3>1 DEF Unsent, StatusRank, Onward
  <2>6. CASE i = request[t].inv /\ CommitFailure(t)
    <3>1. invoice'[i].status = "QUEUED"
      BY <2>6, SerialCommitFailure
    <3>2. invoice'[i].content = invoice[i].content
      BY <2>1, <2>6 DEF CommitFailure, InvoiceRow
    <3> QED
      BY <2>2, <2>6, <3>1, <3>2 DEF Unsent, StatusRank, Onward
  <2> QED
    BY <1>3, <2>3, <2>4, <2>5, <2>6
<1> QED
  BY <1>1, <1>2, <1>3, StatusSteps

\* A single request thread never meets another one: the hypothesis of the
\* theorems below is the situation of the run serial.
LEMMA OneThreadIsSerial ==
  ASSUME \A t, u \in Requests : t = u
  PROVE  Spec => []OneRequestPerInvoice
<1>1. OneRequestPerInvoice
  BY DEF OneRequestPerInvoice
<1> QED
  BY <1>1, PTL

\* The serial invariant holds as long as no two requests overlap on an invoice.
THEOREM SerialInductive == Spec /\ []OneRequestPerInvoice => []SerialOK
<1>1. IInv /\ SerialOK /\ OneRequestPerInvoice /\ [Next]_vars => SerialOK'
  BY SerialStep
<1> QED
  BY SerialInit, <1>1, Inductive, PTL DEF Spec

\* While no two requests overlap on one invoice, what KSeF received under an
\* invoice's reference, the payload on file and the invoice say the same,
\* whatever fails, dies or is lost on the way.
THEOREM FileAgrees == Spec /\ []OneRequestPerInvoice => []SentIsOnFile
<1>1. SerialOK => SentIsOnFile
  BY DEF SerialOK
<1> QED
  BY <1>1, SerialInductive, PTL

\* While no two requests overlap on one invoice, its status only moves along
\* DRAFT, QUEUED, SENT, ACCEPTED or REJECTED: no worker takes it back.
THEOREM StatusForward == Spec /\ []OneRequestPerInvoice => StatusMovesForward
<1>1. IInv /\ SerialOK /\ OneRequestPerInvoice /\ [Next]_vars =>
        [\A i \in Invoices :
           invoice'[i].status # invoice[i].status =>
             StatusRank(invoice'[i].status) > StatusRank(invoice[i].status)]_vars
  BY SerialForward DEF Onward
<1> QED
  BY <1>1, SerialInductive, Inductive, PTL DEF Spec, StatusMovesForward

\* While no two requests overlap on one invoice, an approved invoice is not
\* edited: the lock-free guard of update_invoice is enough then.
THEOREM ApprovedNotEdited == Spec /\ []OneRequestPerInvoice => NoEditAfterApproval
<1>1. IInv /\ SerialOK /\ OneRequestPerInvoice /\ [Next]_vars =>
        [\A i \in Invoices :
           invoice[i].approved => invoice'[i].content = invoice[i].content]_vars
  BY SerialForward DEF Onward
<1> QED
  BY <1>1, SerialInductive, Inductive, PTL DEF Spec, NoEditAfterApproval

=============================================================================
