---------------------------- MODULE KsefDispatch ----------------------------
(***************************************************************************)
(* How a sales invoice reaches KSeF, the national e-invoice system.        *)
(*                                                                         *)
(* A web request approves a draft and sends its XML within one database    *)
(* transaction, or repeats a send that failed.  In live mode the commit    *)
(* leaves a POLL_KSEF_STATUS job behind, and the scheduler's workers poll  *)
(* KSeF until it has decided.  Every request is split where the database   *)
(* or the network can let another actor in: loading the invoice without a  *)
(* lock, the flush that takes the row lock, the HTTP call made while the   *)
(* lock is held, the commit, and, after an exception, the rollback, the    *)
(* second load and the second commit.                                      *)
(*                                                                         *)
(* The database is InnoDB at REPEATABLE READ: plain SELECTs read a         *)
(* snapshot and lock nothing, UPDATE takes the row's exclusive lock until  *)
(* the transaction ends, and inserting a child row takes a shared lock on  *)
(* the parent.  The ORM writes only the columns whose value it changed.    *)
(***************************************************************************)
EXTENDS Naturals

CONSTANTS
  Invoices,        \* ids of SALE invoices
  Requests,        \* web server threads, each serving one request at a time
  Workers,         \* scheduler processes: the daemon, and run_worker_once.py
  Versions,        \* what an invoice says: its header, parties, lines, totals
  None,            \* absence of a row, a lock, a payload or a change
  Modes,           \* the values of settings.ksef_mode to start from
  MaxAttempts,     \* integration_job.max_attempts
  MaxSubmissions,  \* bound: documents KSeF receives
  MaxAborts        \* bound: requests and workers that die

ASSUME BoundsAssumption ==
  /\ MaxAttempts \in Nat \ {0}
  /\ MaxSubmissions \in Nat
  /\ MaxAborts \in Nat

ASSUME ModesAssumption == Modes \subseteq {"mock", "live"}

(***************************************************************************)
(* A reference number stands for invoice_ref with its session_ref, and in  *)
(* invoice.ksef_number for the number KSeF assigned to that submission.    *)
(* NoRef is SQL NULL.                                                      *)
(***************************************************************************)
Refs == 1..MaxSubmissions
NoRef == 0

KsefStatus == {"DRAFT", "QUEUED", "SENT", "ACCEPTED", "REJECTED"}
PollStatus == {"NONE", "NEW", "PROCESSING", "DONE", "FAILED"}

VARIABLES
  mode,         \* settings.ksef_mode, read once per process
  invoice,      \* the committed row of each invoice
  payload,      \* its latest committed KSEF_XML payload
  sendJobs,     \* the statuses of its committed SEND_TO_KSEF rows
  pollJob,      \* the POLL_KSEF_STATUS row of each submission
  ksef,         \* external: what KSeF holds under each reference
  request,      \* what each web thread is doing
  worker,       \* what each scheduler process is doing
  aborts        \* how many requests and workers have died

vars == <<mode, invoice, payload, sendJobs, pollJob, ksef, request, worker, aborts>>

InvoiceRow == [approved: BOOLEAN, status: KsefStatus, ref: Refs \cup {NoRef},
               number: Refs \cup {NoRef}, content: Versions]

PollRow == [status: PollStatus, attempts: 0..MaxAttempts]

Submission == [inv: Invoices, xml: Versions,
               verdict: {"pending", "accepted", "rejected"}]

ASSUME NoneAssumption ==
  /\ None \notin Invoices
  /\ None \notin Versions
  /\ None \notin KsefStatus
  /\ None \notin Submission

RequestState ==
  [at: {"idle", "loaded", "inserted", "sending", "sent", "failed", "reloaded"},
   op: {"none", "approve", "retry", "edit"},
   inv: Invoices \cup {None},
   xml: Versions \cup {None},
   seen: KsefStatus \cup {None},
   ref: Refs \cup {NoRef}]

Idle == [at |-> "idle", op |-> "none", inv |-> None, xml |-> None,
         seen |-> None, ref |-> NoRef]

\* A column the session has changed but not committed; None: unchanged.
PendingWrite == [status: KsefStatus \cup {None}, number: Refs \cup {NoRef}]

NoWrite == [status |-> None, number |-> NoRef]

WorkerState ==
  [at: {"idle", "claimed", "polling"},
   batch: SUBSET Refs,                              \* jobs not yet polled
   result: [Refs -> {"none", "accepted", "rejected", "pending"}],
   seen: [Invoices -> KsefStatus],                  \* the snapshot's statuses
   write: [Invoices -> PendingWrite],               \* the session's dirty rows
   locked: SUBSET Invoices]                         \* rows flushed so far

IdleWorker ==
  [at |-> "idle", batch |-> {}, result |-> [r \in Refs |-> "none"],
   seen |-> [i \in Invoices |-> "DRAFT"],
   write |-> [i \in Invoices |-> NoWrite], locked |-> {}]

NoPoll == [status |-> "NONE", attempts |-> 0]

Init ==
  /\ mode \in Modes
  /\ invoice \in [Invoices -> [approved: {FALSE}, status: {"DRAFT"}, ref: {NoRef},
                               number: {NoRef}, content: Versions]]
  /\ payload = [i \in Invoices |-> None]
  /\ sendJobs = [i \in Invoices |-> {}]
  /\ pollJob = [r \in Refs |-> NoPoll]
  /\ ksef = [r \in Refs |-> None]
  /\ request = [t \in Requests |-> Idle]
  /\ worker = [w \in Workers |-> IdleWorker]
  /\ aborts = 0

-----------------------------------------------------------------------------
(***************************************************************************)
(* Row locks.  A request owns the exclusive lock of its invoice from the   *)
(* flush that updates the row to the end of the transaction, and a shared  *)
(* one once a retry has inserted its job row.  A worker owns the rows its  *)
(* session has flushed.                                                    *)
(***************************************************************************)
OwnsRow(t, i) == request[t].inv = i /\ request[t].at \in {"sending", "sent"}

SharesRow(t, i) == request[t].inv = i /\ request[t].at = "inserted"

\* Nobody but request t holds row i exclusively: t may share it.
CanShare(t, i) ==
  /\ \A u \in Requests \ {t} : ~OwnsRow(u, i)
  /\ \A w \in Workers : i \notin worker[w].locked

\* Nobody but request t holds row i at all: t may own it.
CanOwn(t, i) == CanShare(t, i) /\ \A u \in Requests \ {t} : ~SharesRow(u, i)

\* Worker w may own row i.
WorkerCanOwn(w, i) ==
  /\ \A u \in Requests : ~OwnsRow(u, i) /\ ~SharesRow(u, i)
  /\ \A v \in Workers \ {w} : i \notin worker[v].locked

-----------------------------------------------------------------------------
(***************************************************************************)
(* Requests.  Each begins with InvoiceService.get_invoice and its guards,  *)
(* all against a snapshot that the later steps do not read again.          *)
(***************************************************************************)
BeginApprove(t, i) ==
  /\ request[t].at = "idle"
  /\ ~invoice[i].approved
  /\ request' = [request EXCEPT ![t] =
       [Idle EXCEPT !.at = "loaded", !.op = "approve", !.inv = i,
                    !.xml = invoice[i].content]]
  /\ UNCHANGED <<mode, invoice, payload, sendJobs, pollJob, ksef, worker, aborts>>

\* Mutant: a retry offered for an invoice in any status.
BeginRetryAnyStatus(t, i) ==
  /\ request[t].at = "idle"
  /\ invoice[i].approved
  /\ payload[i] # None
  /\ request' = [request EXCEPT ![t] =
       [Idle EXCEPT !.at = "loaded", !.op = "retry", !.inv = i, !.xml = payload[i]]]
  /\ UNCHANGED <<mode, invoice, payload, sendJobs, pollJob, ksef, worker, aborts>>

BeginRetry(t, i) ==
  /\ request[t].at = "idle"
  /\ invoice[i].approved
  /\ invoice[i].status = "QUEUED"
  /\ payload[i] # None
  /\ request' = [request EXCEPT ![t] =
       [Idle EXCEPT !.at = "loaded", !.op = "retry", !.inv = i, !.xml = payload[i]]]
  /\ UNCHANGED <<mode, invoice, payload, sendJobs, pollJob, ksef, worker, aborts>>

\* Mutant: update_invoice without its approved_at guard.
BeginEditApproved(t, i, v) ==
  /\ request[t].at = "idle"
  /\ v # invoice[i].content
  /\ request' = [request EXCEPT ![t] =
       [Idle EXCEPT !.at = "loaded", !.op = "edit", !.inv = i, !.xml = v]]
  /\ UNCHANGED <<mode, invoice, payload, sendJobs, pollJob, ksef, worker, aborts>>

\* An edit that changes nothing is left out.
BeginEdit(t, i, v) ==
  /\ request[t].at = "idle"
  /\ ~invoice[i].approved
  /\ v # invoice[i].content
  /\ request' = [request EXCEPT ![t] =
       [Idle EXCEPT !.at = "loaded", !.op = "edit", !.inv = i, !.xml = v]]
  /\ UNCHANGED <<mode, invoice, payload, sendJobs, pollJob, ksef, worker, aborts>>

\* update_invoice writes the new content and commits.
CommitEdit(t) ==
  /\ request[t].at = "loaded" /\ request[t].op = "edit"
  /\ CanOwn(t, request[t].inv)
  /\ invoice' = [invoice EXCEPT ![request[t].inv].content = request[t].xml]
  /\ request' = [request EXCEPT ![t] = Idle]
  /\ UNCHANGED <<mode, payload, sendJobs, pollJob, ksef, worker, aborts>>

(***************************************************************************)
(* approve_invoice flushes the approval, which updates the row, and        *)
(* process_send_to_ksef_job marks it SENT: nobody can read either before   *)
(* the commit, and the row stays locked from here on.                      *)
(***************************************************************************)
FlushApproval(t) ==
  /\ request[t].at = "loaded" /\ request[t].op = "approve"
  /\ CanOwn(t, request[t].inv)
  /\ request' = [request EXCEPT ![t].at = "sending"]
  /\ UNCHANGED <<mode, invoice, payload, sendJobs, pollJob, ksef, worker, aborts>>

\* retry_ksef_send inserts its job row, which only shares the invoice's row.
InsertRetryJob(t) ==
  /\ request[t].at = "loaded" /\ request[t].op = "retry"
  /\ CanShare(t, request[t].inv)
  /\ request' = [request EXCEPT ![t].at = "inserted"]
  /\ UNCHANGED <<mode, invoice, payload, sendJobs, pollJob, ksef, worker, aborts>>

\* Mutant: the invoice is marked SENT but not flushed, so no lock is taken.
MarkSentUnflushed(t) ==
  /\ request[t].at = "inserted"
  /\ request' = [request EXCEPT ![t].at = "sending"]
  /\ UNCHANGED <<mode, invoice, payload, sendJobs, pollJob, ksef, worker, aborts>>

\* process_send_to_ksef_job then marks the invoice SENT and flushes.
MarkSent(t) ==
  /\ request[t].at = "inserted"
  /\ CanOwn(t, request[t].inv)
  /\ request' = [request EXCEPT ![t].at = "sending"]
  /\ UNCHANGED <<mode, invoice, payload, sendJobs, pollJob, ksef, worker, aborts>>

\* Mutant: the wait for the row neither fails nor times out.
LockWait(t) == t \notin Requests /\ UNCHANGED vars

\* Two requests that share the row both want to own it: InnoDB picks a
\* victim, or the wait times out.  The flush raises inside the try block.
LockError(t) ==
  /\ request[t].at = "inserted"
  /\ ~CanOwn(t, request[t].inv)
  /\ request' = [request EXCEPT ![t].at = "failed"]
  /\ UNCHANGED <<mode, invoice, payload, sendJobs, pollJob, ksef, worker, aborts>>

-----------------------------------------------------------------------------
(***************************************************************************)
(* The call to KSeF, made while the row is locked.  In live mode it may    *)
(* return, fail before KSeF has the document, or fail after KSeF has it    *)
(* (a lost answer, or _close_session raising).  The mock client stands for *)
(* a KSeF that accepts on the spot.                                        *)
(***************************************************************************)
Received(r, t, verdict) ==
  /\ ksef[r] = None
  /\ \A q \in Refs : q < r => ksef[q] # None
  /\ ksef' = [ksef EXCEPT ![r] =
       [inv |-> request[t].inv, xml |-> request[t].xml, verdict |-> verdict]]

SendReturns(t) ==
  /\ request[t].at = "sending"
  /\ \E r \in Refs :
       /\ Received(r, t, IF mode = "mock" THEN "accepted" ELSE "pending")
       /\ request' = [request EXCEPT ![t].at = "sent", ![t].ref = r]
  /\ UNCHANGED <<mode, invoice, payload, sendJobs, pollJob, worker, aborts>>

AnswerLost(t) ==
  /\ request[t].at = "sending" /\ mode = "live"
  /\ \E r \in Refs : Received(r, t, "pending")
  /\ request' = [request EXCEPT ![t].at = "failed"]
  /\ UNCHANGED <<mode, invoice, payload, sendJobs, pollJob, worker, aborts>>

SendRaises(t) ==
  /\ request[t].at = "sending" /\ mode = "live"
  /\ request' = [request EXCEPT ![t].at = "failed"]
  /\ UNCHANGED <<mode, invoice, payload, sendJobs, pollJob, ksef, worker, aborts>>

\* Mutant: the poll job is left to a later transaction.
CommitSendUnpolled(t) ==
  LET i == request[t].inv IN
  /\ request[t].at = "sent"
  /\ invoice' = [invoice EXCEPT
       ![i].approved = TRUE,
       ![i].status = IF mode = "mock" THEN "ACCEPTED" ELSE "SENT",
       ![i].ref = request[t].ref,
       ![i].number = IF mode = "mock" THEN request[t].ref ELSE @]
  /\ payload' = [payload EXCEPT ![i] = IF request[t].op = "approve" THEN request[t].xml ELSE @]
  /\ sendJobs' = [sendJobs EXCEPT ![i] = @ \cup {"DONE"}]
  /\ request' = [request EXCEPT ![t] = Idle]
  /\ UNCHANGED <<mode, pollJob, ksef, worker, aborts>>

(***************************************************************************)
(* The commit publishes at once the approval, the payload, the SEND_TO_KSEF *)
(* row as DONE, the reference, and in live mode the POLL_KSEF_STATUS row.  *)
(***************************************************************************)
CommitSend(t) ==
  LET i == request[t].inv
      r == request[t].ref
  IN
  /\ request[t].at = "sent"
  /\ invoice' = [invoice EXCEPT
       ![i].approved = TRUE,
       ![i].status = IF mode = "mock" THEN "ACCEPTED" ELSE "SENT",
       ![i].ref = r,
       ![i].number = IF mode = "mock" THEN r ELSE @]
  /\ payload' = [payload EXCEPT ![i] = IF request[t].op = "approve" THEN request[t].xml ELSE @]
  /\ sendJobs' = [sendJobs EXCEPT ![i] = @ \cup {"DONE"}]
  /\ pollJob' = IF mode = "live"
                THEN [pollJob EXCEPT ![r] = [status |-> "NEW", attempts |-> 0]]
                ELSE pollJob
  /\ request' = [request EXCEPT ![t] = Idle]
  /\ UNCHANGED <<mode, ksef, worker, aborts>>

\* After db.rollback() the except block loads the invoice again.
Reload(t) ==
  /\ request[t].at = "failed"
  /\ request' = [request EXCEPT ![t].at = "reloaded",
                                ![t].seen = invoice[request[t].inv].status]
  /\ UNCHANGED <<mode, invoice, payload, sendJobs, pollJob, ksef, worker, aborts>>

\* Mutant: the payload lost in the rollback is not stored again.
CommitFailureNoPayload(t) ==
  LET i == request[t].inv IN
  /\ request[t].at = "reloaded"
  /\ CanOwn(t, i)
  /\ invoice' = [invoice EXCEPT
       ![i].approved = request[t].op = "approve" \/ @,
       ![i].status = IF request[t].seen = "QUEUED" THEN @ ELSE "QUEUED"]
  /\ sendJobs' = [sendJobs EXCEPT ![i] = @ \cup {"FAILED"}]
  /\ request' = [request EXCEPT ![t] = Idle]
  /\ UNCHANGED <<mode, payload, pollJob, ksef, worker, aborts>>

(***************************************************************************)
(* The except block commits the invoice as QUEUED and the SEND_TO_KSEF row *)
(* as FAILED.  approve_invoice stores the approval and the payload again;  *)
(* retry_ksef_send updates the row only if the status it reloaded differs. *)
(***************************************************************************)
CommitFailure(t) ==
  LET i == request[t].inv
      approving == request[t].op = "approve"
      updates == approving \/ request[t].seen # "QUEUED"
  IN
  /\ request[t].at = "reloaded"
  /\ IF updates THEN CanOwn(t, i) ELSE CanShare(t, i)
  /\ invoice' = [invoice EXCEPT
       ![i].approved = approving \/ @,
       ![i].status = IF request[t].seen = "QUEUED" THEN @ ELSE "QUEUED"]
  /\ payload' = [payload EXCEPT ![i] = IF approving THEN request[t].xml ELSE @]
  /\ sendJobs' = [sendJobs EXCEPT ![i] = @ \cup {"FAILED"}]
  /\ request' = [request EXCEPT ![t] = Idle]
  /\ UNCHANGED <<mode, pollJob, ksef, worker, aborts>>

\* The thread dies, a lock wait outside the try block times out or a commit
\* fails: the transaction is rolled back, and KSeF keeps what it was sent.
AbortRequest(t) ==
  /\ request[t].at # "idle"
  /\ aborts < MaxAborts
  /\ aborts' = aborts + 1
  /\ request' = [request EXCEPT ![t] = Idle]
  /\ UNCHANGED <<mode, invoice, payload, sendJobs, pollJob, ksef, worker>>

-----------------------------------------------------------------------------
(***************************************************************************)
(* Workers.                                                                *)
(***************************************************************************)

\* _claim_all_jobs takes the NEW jobs whose scheduled_at has passed: `due` is
\* that set, any part of the NEW ones, since the backoff may hold some back.
Claim(w, due) ==
  /\ worker[w].at = "idle"
  /\ due # {}
  /\ \A r \in due : pollJob[r].status = "NEW"
  /\ pollJob' = [r \in Refs |->
       IF r \in due THEN [status |-> "PROCESSING", attempts |-> pollJob[r].attempts + 1]
                    ELSE pollJob[r]]
  /\ worker' = [worker EXCEPT ![w].at = "claimed", ![w].batch = due]
  /\ UNCHANGED <<mode, invoice, payload, sendJobs, ksef, request, aborts>>

\* The transaction in which the batch is polled takes its snapshot.
BeginPolling(w) ==
  /\ worker[w].at = "claimed"
  /\ worker' = [worker EXCEPT ![w].at = "polling",
                              ![w].seen = [i \in Invoices |-> invoice[i].status]]
  /\ UNCHANGED <<mode, invoice, payload, sendJobs, pollJob, ksef, request, aborts>>

\* The job process_poll_ksef_status_batch turns to next: in order of id.
IsNext(w, r) ==
  /\ worker[w].at = "polling"
  /\ r \in worker[w].batch
  /\ \A q \in worker[w].batch : r <= q

\* What assigning `status` to the loaded invoice i leaves to be written: the
\* ORM skips a column that already has the value it read or flushed.
Assigned(w, i, status) ==
  LET flushed == i \in worker[w].locked /\ worker[w].write[i].status # None
  IN  IF worker[w].seen[i] = status /\ ~flushed THEN None ELSE status

\* Mutant: the last attempt still asks KSeF.
AsksOnceMore(r) == pollJob[r].attempts <= MaxAttempts

\* KSeF is not asked at the last attempt.
Asks(r) == pollJob[r].attempts < MaxAttempts

PollAccepted(w, r) ==
  LET i == ksef[r].inv IN
  /\ IsNext(w, r) /\ Asks(r)
  /\ ksef[r].verdict = "accepted"
  /\ worker' = [worker EXCEPT
       ![w].batch = @ \ {r},
       ![w].result[r] = "accepted",
       ![w].write[i] = [status |-> Assigned(w, i, "ACCEPTED"), number |-> r]]
  /\ UNCHANGED <<mode, invoice, payload, sendJobs, pollJob, ksef, request, aborts>>

PollPending(w, r) ==
  /\ IsNext(w, r) /\ Asks(r)
  /\ ksef[r].verdict = "pending"
  /\ worker' = [worker EXCEPT ![w].batch = @ \ {r}, ![w].result[r] = "pending"]
  /\ UNCHANGED <<mode, invoice, payload, sendJobs, pollJob, ksef, request, aborts>>

(***************************************************************************)
(* Any exception ends as "rejected": KSeF's refusal, which also sets the   *)
(* invoice REJECTED, but equally a network error or the last attempt,      *)
(* which leave the invoice as it is.  The handler then flushes the         *)
(* session, and so locks every row changed so far and the job's own        *)
(* invoice (the event row it adds refers to it; modelled as exclusive).    *)
(***************************************************************************)
Dirty(write) == {i \in Invoices : write[i] # NoWrite}

PollRaises(w, r, write) ==
  LET rows == Dirty(write) \cup {ksef[r].inv} IN
  /\ IsNext(w, r)
  /\ \A i \in rows : WorkerCanOwn(w, i)
  /\ worker' = [worker EXCEPT ![w].batch = @ \ {r},
                              ![w].result[r] = "rejected",
                              ![w].write = write,
                              ![w].locked = @ \cup rows]
  /\ UNCHANGED <<mode, invoice, payload, sendJobs, pollJob, ksef, request, aborts>>

PollRejected(w, r) ==
  /\ IsNext(w, r) /\ Asks(r)
  /\ ksef[r].verdict = "rejected"
  /\ PollRaises(w, r, [worker[w].write EXCEPT
                         ![ksef[r].inv].status = Assigned(w, ksef[r].inv, "REJECTED")])

\* Mutant: the handler rolls the batch's session back.
PollFailsWithRollback(w, r) == PollRaises(w, r, [i \in Invoices |-> NoWrite])

\* Mutant: any exception marks the invoice REJECTED.
PollFailsAsRefusal(w, r) ==
  /\ IsNext(w, r)
  /\ PollRaises(w, r, [worker[w].write EXCEPT ![ksef[r].inv].status = "REJECTED"])

\* ValueError at the last attempt, or httpx raising before an answer.
PollFails(w, r) == PollRaises(w, r, worker[w].write)

\* The jobs whose result is known but not yet committed.
Finished(w) == {r \in Refs : worker[w].result[r] # "none"}

\* Mutant: a pending job is not put back.
JobStatusKeepPending(result) ==
  CASE result = "accepted" -> "DONE"
    [] result = "rejected" -> "FAILED"
    [] result = "pending"  -> "PROCESSING"

JobStatusOf(result) ==
  CASE result = "accepted" -> "DONE"
    [] result = "rejected" -> "FAILED"
    [] result = "pending"  -> "NEW"

(***************************************************************************)
(* process_all_jobs gives each job its status and commits after each.  The *)
(* session is shared, so the first commit also writes every invoice the    *)
(* batch has changed and every job that goes back to NEW.                  *)
(***************************************************************************)
FinishJob(w, r) ==
  LET changed == Dirty(worker[w].write) IN
  /\ worker[w].at = "polling" /\ worker[w].batch = {}
  /\ r \in Finished(w) /\ \A q \in Finished(w) : r <= q
  /\ \A i \in changed : WorkerCanOwn(w, i)
  /\ invoice' = [i \in Invoices |->
       [invoice[i] EXCEPT
          !.status = IF worker[w].write[i].status = None THEN @ ELSE worker[w].write[i].status,
          !.number = IF worker[w].write[i].number = NoRef THEN @ ELSE worker[w].write[i].number]]
  /\ pollJob' = [q \in Refs |->
       IF q = r \/ (q \in Finished(w) /\ worker[w].result[q] = "pending")
       THEN [pollJob[q] EXCEPT !.status = JobStatusOf(worker[w].result[q])]
       ELSE pollJob[q]]
  /\ worker' = [worker EXCEPT
       ![w].result = [q \in Refs |->
          IF q = r \/ worker[w].result[q] = "pending" THEN "none" ELSE worker[w].result[q]],
       ![w].write = [i \in Invoices |-> NoWrite],
       ![w].locked = {}]
  /\ UNCHANGED <<mode, payload, sendJobs, ksef, request, aborts>>

EndTick(w) ==
  /\ worker[w].at = "polling" /\ worker[w].batch = {} /\ Finished(w) = {}
  /\ worker' = [worker EXCEPT ![w] = IdleWorker]
  /\ UNCHANGED <<mode, invoice, payload, sendJobs, pollJob, ksef, request, aborts>>

\* The process dies, or an exception leaves process_all_jobs: the session is
\* rolled back and nobody releases the jobs it has claimed.
AbortWorker(w) ==
  /\ worker[w].at # "idle"
  /\ aborts < MaxAborts
  /\ aborts' = aborts + 1
  /\ worker' = [worker EXCEPT ![w] = IdleWorker]
  /\ UNCHANGED <<mode, invoice, payload, sendJobs, pollJob, ksef, request>>

\* External: KSeF accepts or refuses a document it has received.
Decide(r) ==
  /\ ksef[r] # None /\ ksef[r].verdict = "pending"
  /\ \E v \in {"accepted", "rejected"} : ksef' = [ksef EXCEPT ![r].verdict = v]
  /\ UNCHANGED <<mode, invoice, payload, sendJobs, pollJob, request, worker, aborts>>

-----------------------------------------------------------------------------
RequestStep(t) ==
  \/ CommitEdit(t)
  \/ FlushApproval(t)
  \/ InsertRetryJob(t)
  \/ MarkSent(t)
  \/ LockError(t)
  \/ SendReturns(t)
  \/ AnswerLost(t)
  \/ SendRaises(t)
  \/ CommitSend(t)
  \/ Reload(t)
  \/ CommitFailure(t)

PollStep(w) ==
  \/ BeginPolling(w)
  \/ \E r \in Refs :
       \/ PollAccepted(w, r)
       \/ PollPending(w, r)
       \/ PollRejected(w, r)
       \/ PollFails(w, r)
       \/ FinishJob(w, r)
  \/ EndTick(w)

Next ==
  \/ \E t \in Requests :
       \/ \E i \in Invoices : BeginApprove(t, i)
       \/ \E i \in Invoices : BeginRetry(t, i)
       \/ \E i \in Invoices, v \in Versions : BeginEdit(t, i, v)
       \/ RequestStep(t)
       \/ AbortRequest(t)
  \/ \E w \in Workers :
       \/ \E due \in SUBSET Refs : Claim(w, due)
       \/ PollStep(w)
       \/ AbortWorker(w)
  \/ \E r \in Refs : Decide(r)

(***************************************************************************)
(* A request that has begun and a worker in a tick run on, and whoever     *)
(* waits for a row gets it although others keep coming, since InnoDB       *)
(* queues the waiters: strong fairness.  KSeF decides: weak fairness.  A   *)
(* NEW job may find the workers busy or its backoff pending, but the       *)
(* interval trigger fires for ever and the backoff is at most 300 s:       *)
(* strong fairness.  Users owe nothing.                                    *)
(***************************************************************************)
Fairness ==
  /\ \A t \in Requests : SF_vars(RequestStep(t))
  /\ \A w \in Workers : SF_vars(PollStep(w))
  /\ \A r \in Refs :
       /\ WF_vars(Decide(r))
       /\ SF_vars(\E w \in Workers, due \in SUBSET Refs : r \in due /\ Claim(w, due))

Spec == Init /\ [][Next]_vars

FairSpec == Spec /\ Fairness

-----------------------------------------------------------------------------
(***************************************************************************)
(* Invariants, whatever the requests and workers interleave.               *)
(***************************************************************************)
TypeOK ==
  /\ mode \in Modes
  /\ invoice \in [Invoices -> InvoiceRow]
  /\ payload \in [Invoices -> Versions \cup {None}]
  /\ sendJobs \in [Invoices -> SUBSET {"DONE", "FAILED"}]
  /\ pollJob \in [Refs -> PollRow]
  /\ ksef \in [Refs -> Submission \cup {None}]
  /\ request \in [Requests -> RequestState]
  /\ worker \in [Workers -> WorkerState]
  /\ aborts \in 0..MaxAborts

\* No two requests are inside KSeF's send call, or between its answer and the
\* commit, for one invoice: the flush before the call is what serialises the
\* sends (invoice_service.py:290, ksef_service.py:69).
SendsAreExclusive ==
  \A t, u \in Requests, i \in Invoices : OwnsRow(t, i) /\ OwnsRow(u, i) => t = u

\* An invoice is SENT only with a reference that KSeF knows for it and a poll
\* job of that reference which has not ended in success: whatever overlaps, a
\* SENT invoice is never without its job and never outlives its acceptance.
SentIsPolled ==
  \A i \in Invoices : invoice[i].status = "SENT" =>
    LET r == invoice[i].ref IN
    /\ r # NoRef
    /\ ksef[r] # None /\ ksef[r].inv = i
    /\ pollJob[r].status \in {"NEW", "PROCESSING", "FAILED"}

\* The KSeF number of an invoice is one KSeF assigned to a document of that
\* very invoice, and REJECTED is recorded only if KSeF refused one of them.
VerdictIsKsefs ==
  \A i \in Invoices :
    /\ invoice[i].number # NoRef =>
         ksef[invoice[i].number] # None
         /\ ksef[invoice[i].number].inv = i
         /\ ksef[invoice[i].number].verdict = "accepted"
    /\ invoice[i].status = "ACCEPTED" => invoice[i].number # NoRef
    /\ invoice[i].status = "REJECTED" =>
         \E r \in Refs : ksef[r] # None /\ ksef[r].inv = i /\ ksef[r].verdict = "rejected"

\* A poll job is DONE only once the invoice carries a KSeF number, although
\* jobs are committed one by one and the worker may die between two commits.
DoneJobDelivered ==
  \A r \in Refs : pollJob[r].status = "DONE" => invoice[ksef[r].inv].number # NoRef

\* A QUEUED invoice has a failed send behind it and the payload that
\* retry_ksef_send will ask for, so the guards of a retry cannot strand it.
QueuedCanBeRetried ==
  \A i \in Invoices : invoice[i].status = "QUEUED" =>
    /\ invoice[i].approved
    /\ payload[i] # None
    /\ "FAILED" \in sendJobs[i]

\* The poll jobs keep the promise of JobLifecycle, giving up early included.
Lifecycle == INSTANCE JobLifecycle WITH
  Jobs <- Refs, EarlyFailing <- Refs, job <- pollJob

ImplementsLifecycle == Lifecycle!Spec

-----------------------------------------------------------------------------
(***************************************************************************)
(* Properties of one request at a time: what the guards promise a user.    *)
(***************************************************************************)
StatusRank(s) ==
  CASE s = "DRAFT" -> 0 [] s = "QUEUED" -> 1 [] s = "SENT" -> 2
    [] s \in {"ACCEPTED", "REJECTED"} -> 3

\* ksef_status_code only moves along DRAFT, QUEUED, SENT, ACCEPTED/REJECTED.
StatusMovesForward ==
  [][\A i \in Invoices :
       invoice'[i].status # invoice[i].status =>
         StatusRank(invoice'[i].status) > StatusRank(invoice[i].status)]_vars

\* What KSeF received under the invoice's reference, the payload on file and
\* the invoice itself say the same.
SentIsOnFile ==
  \A i \in Invoices :
    /\ invoice[i].approved => payload[i] = invoice[i].content
    /\ invoice[i].ref # NoRef => ksef[invoice[i].ref].xml = invoice[i].content

\* An approved invoice is not edited any more.
NoEditAfterApproval ==
  [][\A i \in Invoices :
       invoice[i].approved => invoice'[i].content = invoice[i].content]_vars

-----------------------------------------------------------------------------
(***************************************************************************)
(* Liveness, as long as nobody dies.                                       *)
(***************************************************************************)
SomebodyDied == aborts # 0

\* Users do not keep overlapping requests on an invoice for ever.
UsersPause == []<>(\A t \in Requests : request[t].at = "idle")

\* A poll job ends, whatever KSeF and the network answer: max_attempts bounds
\* the polling, and no row lock keeps the batch from committing.
PollingEnds ==
  UsersPause =>
    \A r \in Refs : pollJob[r].status = "NEW" ~>
                      pollJob[r].status \in {"DONE", "FAILED"} \/ SomebodyDied

\* A request ends, although requests share and then claim one row and wait
\* for each other and for the workers.
RequestsEnd ==
  \A t \in Requests : request[t].at # "idle" ~> request[t].at = "idle"

\* README.md:140: in live mode polling goes on until ACCEPTED or REJECTED.
PolledUntilDecided ==
  \A i \in Invoices : invoice[i].status = "SENT" ~>
                        invoice[i].status \in {"ACCEPTED", "REJECTED"} \/ SomebodyDied

=============================================================================
