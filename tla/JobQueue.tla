------------------------------ MODULE JobQueue ------------------------------
(***************************************************************************)
(* The integration_job table and the scheduler processes that work on it:  *)
(* the daemon of app/workers/scheduler.py and scripts/run_worker_once.py,  *)
(* which may tick at the same time.  One tick claims every job that is     *)
(* due, executes them one by one, and at its end polls KSeF for the        *)
(* POLL_KSEF_STATUS jobs among them as one batch on one session.           *)
(***************************************************************************)
EXTENDS Naturals, FiniteSets

CONSTANTS
  Jobs,            \* ids of integration_job rows
  PollJobs,        \* those of type POLL_KSEF_STATUS
  Workers,         \* scheduler processes
  NoJob,           \* not a job
  MaxAttempts,     \* integration_job.max_attempts
  MaxAborts        \* bound: ticks that die and bookkeeping that fails

ASSUME QueueAssumption ==
  /\ PollJobs \subseteq Jobs
  /\ NoJob \notin Jobs
  /\ MaxAttempts \in Nat \ {0}
  /\ MaxAborts \in Nat

VARIABLES
  job,       \* the committed rows: status and attempts
  effects,   \* external: how often the job's work has been done outside
  worker,    \* what each process is doing
  aborts     \* how many ticks have died or failed to record a result

vars == <<job, effects, worker, aborts>>

JobStatus == {"NONE", "NEW", "PROCESSING", "DONE", "FAILED"}

JobRow == [status: JobStatus, attempts: 0..MaxAttempts]

(***************************************************************************)
(* A tick: it selects the due rows for update, commits the claim, then     *)
(* executes.  `mine` are the claimed jobs whose outcome is not committed;  *)
(* `polled` maps the polled ones to the outcome waiting to be committed.   *)
(***************************************************************************)
Outcome == {"none", "accepted", "rejected", "pending"}

WorkerState ==
  [at: {"idle", "selected", "running", "executing", "raised"},
   mine: SUBSET Jobs,
   current: Jobs \cup {NoJob},
   polled: [Jobs -> Outcome]]

Idle == [at |-> "idle", mine |-> {}, current |-> NoJob, polled |-> [j \in Jobs |-> "none"]]

Init ==
  /\ job = [j \in Jobs |-> [status |-> "NONE", attempts |-> 0]]
  /\ effects = [j \in Jobs |-> 0]
  /\ worker = [w \in Workers |-> Idle]
  /\ aborts = 0

\* Any handler that adds an IntegrationJob row with status NEW.
Enqueue(j) ==
  /\ job[j].status = "NONE"
  /\ job' = [job EXCEPT ![j].status = "NEW"]
  /\ UNCHANGED <<effects, worker, aborts>>

-----------------------------------------------------------------------------
\* Mutant: a plain SELECT.
LockedByNobody(j) == j \notin Jobs

\* Rows that another process has selected and not yet committed are locked.
Locked(j) == \E w \in Workers : worker[w].at = "selected" /\ j \in worker[w].mine

\* SELECT ... FOR UPDATE SKIP LOCKED.  `due` are the NEW rows whose
\* scheduled_at has passed; the backoff may hold any of them back.
Select(w, due) ==
  /\ worker[w].at = "idle"
  /\ due # {}
  /\ \A j \in due : job[j].status = "NEW" /\ ~Locked(j)
  /\ worker' = [worker EXCEPT ![w].at = "selected", ![w].mine = due]
  /\ UNCHANGED <<job, effects, aborts>>

\* Mutant: an attempt that is not counted.
CommitClaimUncounted(w) ==
  /\ worker[w].at = "selected"
  /\ job' = [j \in Jobs |->
       IF j \in worker[w].mine THEN [job[j] EXCEPT !.status = "PROCESSING"] ELSE job[j]]
  /\ worker' = [worker EXCEPT ![w].at = "running"]
  /\ UNCHANGED <<effects, aborts>>

CommitClaim(w) ==
  /\ worker[w].at = "selected"
  /\ job' = [j \in Jobs |->
       IF j \in worker[w].mine
       THEN [status |-> "PROCESSING", attempts |-> job[j].attempts + 1]
       ELSE job[j]]
  /\ worker' = [worker EXCEPT ![w].at = "running"]
  /\ UNCHANGED <<effects, aborts>>

-----------------------------------------------------------------------------
(***************************************************************************)
(* Jobs of every type but POLL_KSEF_STATUS are executed one after another. *)
(***************************************************************************)
Start(w, j) ==
  /\ worker[w].at = "running"
  /\ j \in worker[w].mine \ PollJobs
  /\ worker' = [worker EXCEPT ![w].at = "executing", ![w].current = j]
  /\ UNCHANGED <<job, effects, aborts>>

\* The job w is through with, and the row that says so.
Leaves(w) == [worker EXCEPT ![w].at = "running",
                            ![w].mine = @ \ {worker[w].current},
                            ![w].current = NoJob]

Records(j, status) == [job EXCEPT ![j].status = status]

Succeed(w) ==
  LET j == worker[w].current IN
  /\ worker[w].at = "executing"
  /\ job' = Records(j, "DONE")
  /\ effects' = [effects EXCEPT ![j] = @ + 1]
  /\ worker' = Leaves(w)
  /\ UNCHANGED aborts

\* The exception may come before or after the work was done outside: an
\* e-mail cannot be rolled back.
Raise(w) ==
  /\ worker[w].at = "executing"
  /\ \E done \in 0..1 : effects' = [effects EXCEPT ![worker[w].current] = @ + done]
  /\ worker' = [worker EXCEPT ![w].at = "raised"]
  /\ UNCHANGED <<job, aborts>>

\* Mutant: every failure is final.
FailJobEarly(w) ==
  /\ worker[w].at = "raised"
  /\ job' = Records(worker[w].current, "FAILED")
  /\ worker' = Leaves(w)
  /\ UNCHANGED <<effects, aborts>>

FailJob(w) ==
  LET j == worker[w].current IN
  /\ worker[w].at = "raised"
  /\ job[j].attempts >= MaxAttempts
  /\ job' = Records(j, "FAILED")
  /\ worker' = Leaves(w)
  /\ UNCHANGED <<effects, aborts>>

\* Mutant: attempts compared with <= instead of <.
RescheduleJobOnceMore(w) ==
  /\ worker[w].at = "raised"
  /\ job[worker[w].current].attempts <= MaxAttempts
  /\ job' = Records(worker[w].current, "NEW")
  /\ worker' = Leaves(w)
  /\ UNCHANGED <<effects, aborts>>

RescheduleJob(w) ==
  LET j == worker[w].current IN
  /\ worker[w].at = "raised"
  /\ job[j].attempts < MaxAttempts
  /\ job' = Records(j, "NEW")
  /\ worker' = Leaves(w)
  /\ UNCHANGED <<effects, aborts>>

\* Recording the failure fails too: rolled back, logged nowhere, next job.
FailureNotRecorded(w) ==
  /\ worker[w].at = "raised"
  /\ aborts < MaxAborts
  /\ aborts' = aborts + 1
  /\ worker' = Leaves(w)
  /\ UNCHANGED <<job, effects>>

-----------------------------------------------------------------------------
(***************************************************************************)
(* The poll batch, after every other job of the tick.                      *)
(***************************************************************************)
Polled(w) == {j \in Jobs : worker[w].polled[j] # "none"}

PollOne(w, j, outcome) ==
  /\ worker[w].at = "running"
  /\ worker[w].mine \subseteq PollJobs
  /\ j \in worker[w].mine \ Polled(w)
  /\ worker' = [worker EXCEPT ![w].polled[j] = outcome]
  /\ UNCHANGED <<job, aborts>>

\* KSeF is asked except at the last attempt.
PollAnswered(w, j) ==
  /\ job[j].attempts < MaxAttempts
  /\ \E outcome \in {"accepted", "rejected", "pending"} : PollOne(w, j, outcome)
  /\ effects' = [effects EXCEPT ![j] = @ + 1]

\* Any exception counts as a rejection.
PollRaises(w, j) == PollOne(w, j, "rejected") /\ UNCHANGED effects

\* Mutant: a pending job is not put back.
StatusKeepPending(outcome) ==
  CASE outcome = "accepted" -> "DONE"
    [] outcome = "rejected" -> "FAILED"
    [] outcome = "pending"  -> "PROCESSING"

StatusOf(outcome) ==
  CASE outcome = "accepted" -> "DONE"
    [] outcome = "rejected" -> "FAILED"
    [] outcome = "pending"  -> "NEW"

\* One commit per polled job; the first also writes the pending ones.
CommitPolled(w, j) ==
  LET written == {j} \cup {k \in Polled(w) : worker[w].polled[k] = "pending"} IN
  /\ worker[w].at = "running"
  /\ worker[w].mine # {} /\ worker[w].mine \subseteq Polled(w)
  /\ j \in Polled(w)
  /\ job' = [k \in Jobs |->
       IF k \in written THEN [job[k] EXCEPT !.status = StatusOf(worker[w].polled[k])]
                        ELSE job[k]]
  /\ worker' = [worker EXCEPT
       ![w].mine = @ \ written,
       ![w].polled = [k \in Jobs |-> IF k \in written THEN "none" ELSE worker[w].polled[k]]]
  /\ UNCHANGED <<effects, aborts>>

EndTick(w) ==
  /\ worker[w].at = "running" /\ worker[w].mine = {}
  /\ worker' = [worker EXCEPT ![w] = Idle]
  /\ UNCHANGED <<job, effects, aborts>>

\* The process dies, or an exception leaves process_all_jobs.  What it had
\* claimed stays PROCESSING: nothing reads locked_at.
Abort(w) ==
  /\ worker[w].at # "idle"
  /\ aborts < MaxAborts
  /\ aborts' = aborts + 1
  /\ worker' = [worker EXCEPT ![w] = Idle]
  /\ UNCHANGED <<job, effects>>

-----------------------------------------------------------------------------
Tick(w) ==
  \/ CommitClaim(w)
  \/ Succeed(w)
  \/ Raise(w)
  \/ FailJob(w)
  \/ RescheduleJob(w)
  \/ \E j \in Jobs :
       \/ Start(w, j)
       \/ PollAnswered(w, j)
       \/ PollRaises(w, j)
       \/ CommitPolled(w, j)
  \/ EndTick(w)

Next ==
  \/ \E j \in Jobs : Enqueue(j)
  \/ \E w \in Workers :
       \/ \E due \in SUBSET Jobs : Select(w, due)
       \/ Tick(w)
       \/ FailureNotRecorded(w)
       \/ Abort(w)

(***************************************************************************)
(* A tick that has begun runs to its end: weak fairness.  A NEW job may be *)
(* held back by its backoff or find the processes busy, but ticks recur    *)
(* for ever and the backoff is at most 300 s: strong fairness.             *)
(***************************************************************************)
Fairness ==
  /\ \A w \in Workers : WF_vars(Tick(w))
  /\ \A j \in Jobs : SF_vars(\E w \in Workers, due \in SUBSET Jobs : j \in due /\ Select(w, due))

Spec == Init /\ [][Next]_vars

FairSpec == Spec /\ Fairness

-----------------------------------------------------------------------------
TypeOK ==
  /\ job \in [Jobs -> JobRow]
  /\ effects \in [Jobs -> 0..MaxAttempts]
  /\ worker \in [Workers -> WorkerState]
  /\ aborts \in 0..MaxAborts

\* No job is in the hands of two processes, although a process selects, commits
\* and later puts jobs back while another is selecting.
ClaimsAreExclusive ==
  \A v, w \in Workers : v # w => worker[v].mine \cap worker[w].mine = {}

\* While nobody has died, a PROCESSING job is in the hands of some process: no
\* path through a tick forgets a job it has claimed.
NobodyForgotten ==
  aborts = 0 =>
    \A j \in Jobs : job[j].status = "PROCESSING" =>
      \E w \in Workers : worker[w].at # "selected" /\ j \in worker[w].mine

\* A job's work is done at most once per attempt, so never more than
\* MaxAttempts times however often ticks die, and at least once if it is DONE.
WorkIsBounded ==
  \A j \in Jobs :
    /\ effects[j] <= job[j].attempts
    /\ job[j].status = "DONE" => effects[j] > 0

\* The table keeps the promise of JobLifecycle.
Lifecycle == INSTANCE JobLifecycle WITH EarlyFailing <- PollJobs

ImplementsLifecycle == Lifecycle!Spec

\* Every job ends, unless a process died with it.
JobsEnd ==
  \A j \in Jobs : job[j].status = "NEW" ~> job[j].status \in {"DONE", "FAILED"} \/ aborts # 0

=============================================================================
