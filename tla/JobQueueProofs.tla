--------------------------- MODULE JobQueueProofs ---------------------------
(***************************************************************************)
(* Theorems about JobQueue for any sets of jobs and processes.             *)
(***************************************************************************)
EXTENDS JobQueue, TLAPS

(***************************************************************************)
(* What a process holds, and what the rows it holds say.                   *)
(***************************************************************************)
\* Only a job that may still be taken waits; what was never queued is fresh.
WaitingOK ==
  \A j \in Jobs :
    /\ job[j].status = "NEW" => job[j].attempts < MaxAttempts
    /\ job[j].status = "NONE" => job[j].attempts = 0

\* A selected row is NEW until the claim is committed, a claimed one is
\* PROCESSING until its outcome is, and a process at rest holds none.
HeldOK ==
  \A w \in Workers :
    /\ worker[w].at = "idle" => worker[w].mine = {}
    /\ \A j \in worker[w].mine :
         job[j].status = IF worker[w].at = "selected" THEN "NEW" ELSE "PROCESSING"
    /\ worker[w].at \in {"executing", "raised"} =>
         worker[w].current \in worker[w].mine \ PollJobs

\* A polled job is held, and goes back to NEW only below its last attempt.
PolledOK ==
  \A w \in Workers, j \in Jobs :
    worker[w].polled[j] # "none" =>
      /\ worker[w].at = "running"
      /\ j \in worker[w].mine
      /\ worker[w].mine \subseteq PollJobs
      /\ worker[w].polled[j] = "pending" => job[j].attempts < MaxAttempts

\* The work of a held job has been done less often than it has been taken,
\* unless it is being done or has just been done.
WorkOK ==
  /\ \A j \in Jobs :
       /\ effects[j] <= job[j].attempts
       /\ job[j].status = "DONE" => effects[j] > 0
  /\ \A w \in Workers, j \in Jobs :
       /\ j \in worker[w].mine /\ worker[w].polled[j] = "none" =>
            \/ worker[w].at = "selected"
            \/ worker[w].at = "raised" /\ j = worker[w].current
            \/ effects[j] < job[j].attempts
       /\ worker[w].polled[j] = "accepted" => effects[j] > 0

IInv == TypeOK /\ WaitingOK /\ HeldOK /\ PolledOK /\ WorkOK /\ ClaimsAreExclusive

-----------------------------------------------------------------------------
\* The empty table with idle processes satisfies the invariant.
LEMMA InitOK == Init => IInv
BY QueueAssumption DEF Init, IInv, TypeOK, WaitingOK, HeldOK, PolledOK, WorkOK, ClaimsAreExclusive,
   JobRow, JobStatus, WorkerState, Outcome, Idle

\* A new row holds up nobody.
LEMMA EnqueueOK ==
  ASSUME NEW j \in Jobs, IInv, Enqueue(j)
  PROVE  IInv'
<1> USE QueueAssumption DEF IInv, TypeOK, JobRow, JobStatus, WorkerState, Outcome
<1>1. TypeOK'
  BY DEF Enqueue, WaitingOK, HeldOK, PolledOK, WorkOK
<1>2. WaitingOK'
  BY DEF Enqueue, WaitingOK, HeldOK, PolledOK
<1>3. HeldOK'
  BY DEF Enqueue, HeldOK, PolledOK, ClaimsAreExclusive
<1>4. PolledOK'
  BY DEF Enqueue, HeldOK, PolledOK, ClaimsAreExclusive
<1>5. ClaimsAreExclusive'
  BY DEF Enqueue, HeldOK, ClaimsAreExclusive
<1>6. WorkOK'
  BY DEF Enqueue, WorkOK, HeldOK, PolledOK, WaitingOK, ClaimsAreExclusive
<1> QED
  BY <1>1, <1>2, <1>3, <1>4, <1>5, <1>6

\* The rows selected are NEW and unlocked, so no other process holds them.
LEMMA SelectOK ==
  ASSUME NEW w \in Workers, NEW due \in SUBSET Jobs, IInv, Select(w, due)
  PROVE  IInv'
<1> USE QueueAssumption DEF IInv, TypeOK, JobRow, JobStatus, WorkerState, Outcome
<1>1. TypeOK'
  BY DEF Select, Locked, WaitingOK, HeldOK, PolledOK, WorkOK
<1>2. WaitingOK'
  BY DEF Select, Locked, WaitingOK, HeldOK, PolledOK
<1>3. HeldOK'
  BY DEF Select, Locked, HeldOK, PolledOK, ClaimsAreExclusive
<1>4. PolledOK'
  BY DEF Select, Locked, HeldOK, PolledOK, ClaimsAreExclusive
<1>5. ClaimsAreExclusive'
  BY DEF Select, Locked, HeldOK, ClaimsAreExclusive
<1>6. WorkOK'
  BY DEF Select, Locked, WorkOK, HeldOK, PolledOK, WaitingOK, ClaimsAreExclusive
<1> QED
  BY <1>1, <1>2, <1>3, <1>4, <1>5, <1>6

\* The claimed rows belong to nobody else, so nobody else's rows change.
LEMMA CommitClaimOK ==
  ASSUME NEW w \in Workers, IInv, CommitClaim(w)
  PROVE  IInv'
<1> USE QueueAssumption DEF IInv, TypeOK, JobRow, JobStatus, WorkerState, Outcome
<1>1. TypeOK'
  <2>1. \A j \in Jobs : job'[j] \in JobRow
    BY DEF CommitClaim, WaitingOK, HeldOK
  <2>2. job' \in [Jobs -> JobRow]
    BY <2>1 DEF CommitClaim
  <2>3. worker' \in [Workers -> WorkerState]
    BY DEF CommitClaim
  <2> QED
    BY <2>2, <2>3 DEF CommitClaim
<1>2. WaitingOK'
  BY DEF CommitClaim, WaitingOK, HeldOK, PolledOK
<1>3. HeldOK'
  BY DEF CommitClaim, HeldOK, PolledOK, ClaimsAreExclusive
<1>4. PolledOK'
  BY DEF CommitClaim, HeldOK, PolledOK, ClaimsAreExclusive
<1>5. ClaimsAreExclusive'
  BY DEF CommitClaim, HeldOK, ClaimsAreExclusive
<1>6. WorkOK'
  BY DEF CommitClaim, WorkOK, HeldOK, PolledOK, WaitingOK, ClaimsAreExclusive
<1> QED
  BY <1>1, <1>2, <1>3, <1>4, <1>5, <1>6

\* Starting a job changes no row.
LEMMA StartOK ==
  ASSUME NEW w \in Workers, NEW j \in Jobs, IInv, Start(w, j)
  PROVE  IInv'
<1> USE QueueAssumption DEF IInv, TypeOK, JobRow, JobStatus, WorkerState, Outcome
<1>1. TypeOK'
  <2>1. worker' \in [Workers -> WorkerState]
    BY DEF Start
  <2> QED
    BY <2>1 DEF Start
<1>2. WaitingOK'
  BY DEF Start, WaitingOK, HeldOK, PolledOK
<1>3. HeldOK'
  BY DEF Start, HeldOK, PolledOK, ClaimsAreExclusive
<1>4. PolledOK'
  BY DEF Start, HeldOK, PolledOK, ClaimsAreExclusive
<1>5. ClaimsAreExclusive'
  BY DEF Start, HeldOK, ClaimsAreExclusive
<1>6. WorkOK'
  BY DEF Start, WorkOK, HeldOK, PolledOK, WaitingOK, ClaimsAreExclusive
<1> QED
  BY <1>1, <1>2, <1>3, <1>4, <1>5, <1>6

\* The finished job was this process's own.
LEMMA SucceedOK ==
  ASSUME NEW w \in Workers, IInv, Succeed(w)
  PROVE  IInv'
<1> USE QueueAssumption DEF IInv, TypeOK, JobRow, JobStatus, WorkerState, Outcome
<1>1. TypeOK'
  BY DEF Succeed, Leaves, Records, WaitingOK, HeldOK, PolledOK, WorkOK
<1>2. WaitingOK'
  BY DEF Succeed, Leaves, Records, WaitingOK, HeldOK, PolledOK
<1>3. HeldOK'
  BY DEF Succeed, Leaves, Records, HeldOK, PolledOK, ClaimsAreExclusive
<1>4. PolledOK'
  BY DEF Succeed, Leaves, Records, HeldOK, PolledOK, ClaimsAreExclusive
<1>5. ClaimsAreExclusive'
  BY DEF Succeed, Leaves, Records, HeldOK, ClaimsAreExclusive
<1>6. WorkOK'
  BY DEF Succeed, Leaves, Records, WorkOK, HeldOK, PolledOK, WaitingOK, ClaimsAreExclusive
<1> QED
  BY <1>1, <1>2, <1>3, <1>4, <1>5, <1>6

\* The work may have been done, the row has not changed.
LEMMA RaiseOK ==
  ASSUME NEW w \in Workers, IInv, Raise(w)
  PROVE  IInv'
<1> USE QueueAssumption DEF IInv, TypeOK, JobRow, JobStatus, WorkerState, Outcome
<1>1. TypeOK'
  <2>1. worker[w].current \in worker[w].mine /\ worker[w].at = "executing" /\ worker[w].current \notin PollJobs
    BY DEF Raise, HeldOK
  <2>2. effects[worker[w].current] < MaxAttempts
    BY <2>1 DEF WorkOK, PolledOK
  <2>3. effects' \in [Jobs -> 0..MaxAttempts]
    BY <2>1, <2>2 DEF Raise
  <2>4. worker' \in [Workers -> WorkerState]
    BY DEF Raise
  <2> QED
    BY <2>3, <2>4 DEF Raise
<1>2. WaitingOK'
  BY DEF Raise, WaitingOK, HeldOK, PolledOK
<1>3. HeldOK'
  BY DEF Raise, HeldOK, PolledOK, ClaimsAreExclusive
<1>4. PolledOK'
  BY DEF Raise, HeldOK, PolledOK, ClaimsAreExclusive
<1>5. ClaimsAreExclusive'
  BY DEF Raise, HeldOK, ClaimsAreExclusive
<1>6. WorkOK'
  BY DEF Raise, WorkOK, HeldOK, PolledOK, WaitingOK, ClaimsAreExclusive
<1> QED
  BY <1>1, <1>2, <1>3, <1>4, <1>5, <1>6

\* A job given up leaves the process that held it, and nobody else.
LEMMA FailJobOK ==
  ASSUME NEW w \in Workers, IInv, FailJob(w)
  PROVE  IInv'
<1> USE QueueAssumption DEF IInv, TypeOK, JobRow, JobStatus, WorkerState, Outcome
<1>1. TypeOK'
  <2>1. worker[w].current \in Jobs
    BY DEF FailJob, HeldOK
  <2>2. job' \in [Jobs -> JobRow]
    BY <2>1 DEF FailJob, Records
  <2>3. worker' \in [Workers -> WorkerState]
    BY <2>1 DEF FailJob, Leaves, HeldOK
  <2> QED
    BY <2>2, <2>3 DEF FailJob
<1>2. WaitingOK'
  BY DEF FailJob, Leaves, Records, WaitingOK, HeldOK, PolledOK
<1>3. HeldOK'
  BY DEF FailJob, Leaves, Records, HeldOK, PolledOK, ClaimsAreExclusive
<1>4. PolledOK'
  BY DEF FailJob, Leaves, Records, HeldOK, PolledOK, ClaimsAreExclusive
<1>5. ClaimsAreExclusive'
  BY DEF FailJob, Leaves, Records, HeldOK, ClaimsAreExclusive
<1>6. WorkOK'
  BY DEF FailJob, Leaves, Records, WorkOK, HeldOK, PolledOK, WaitingOK, ClaimsAreExclusive
<1> QED
  BY <1>1, <1>2, <1>3, <1>4, <1>5, <1>6

\* The job goes back to NEW below its last attempt.
LEMMA RescheduleJobOK ==
  ASSUME NEW w \in Workers, IInv, RescheduleJob(w)
  PROVE  IInv'
<1> USE QueueAssumption DEF IInv, TypeOK, JobRow, JobStatus, WorkerState, Outcome
<1>1. TypeOK'
  <2>1. worker[w].current \in Jobs
    BY DEF RescheduleJob, HeldOK
  <2>2. job' \in [Jobs -> JobRow]
    BY <2>1 DEF RescheduleJob, Records
  <2>3. worker' \in [Workers -> WorkerState]
    BY <2>1 DEF RescheduleJob, Leaves, HeldOK
  <2> QED
    BY <2>2, <2>3 DEF RescheduleJob
<1>2. WaitingOK'
  BY DEF RescheduleJob, Leaves, Records, WaitingOK, HeldOK, PolledOK
<1>3. HeldOK'
  BY DEF RescheduleJob, Leaves, Records, HeldOK, PolledOK, ClaimsAreExclusive
<1>4. PolledOK'
  BY DEF RescheduleJob, Leaves, Records, HeldOK, PolledOK, ClaimsAreExclusive
<1>5. ClaimsAreExclusive'
  BY DEF RescheduleJob, Leaves, Records, HeldOK, ClaimsAreExclusive
<1>6. WorkOK'
  BY DEF RescheduleJob, Leaves, Records, WorkOK, HeldOK, PolledOK, WaitingOK, ClaimsAreExclusive
<1> QED
  BY <1>1, <1>2, <1>3, <1>4, <1>5, <1>6

\* A job whose failure is not recorded stays PROCESSING, in nobody's hands.
LEMMA FailureNotRecordedOK ==
  ASSUME NEW w \in Workers, IInv, FailureNotRecorded(w)
  PROVE  IInv'
<1> USE QueueAssumption DEF IInv, TypeOK, JobRow, JobStatus, WorkerState, Outcome
<1>1. TypeOK'
  BY DEF FailureNotRecorded, Leaves, WaitingOK, HeldOK, PolledOK, WorkOK
<1>2. WaitingOK'
  BY DEF FailureNotRecorded, Leaves, WaitingOK, HeldOK, PolledOK
<1>3. HeldOK'
  BY DEF FailureNotRecorded, Leaves, HeldOK, PolledOK, ClaimsAreExclusive
<1>4. PolledOK'
  BY DEF FailureNotRecorded, Leaves, HeldOK, PolledOK, ClaimsAreExclusive
<1>5. ClaimsAreExclusive'
  BY DEF FailureNotRecorded, Leaves, HeldOK, ClaimsAreExclusive
<1>6. WorkOK'
  BY DEF FailureNotRecorded, Leaves, WorkOK, HeldOK, PolledOK, WaitingOK, ClaimsAreExclusive
<1> QED
  BY <1>1, <1>2, <1>3, <1>4, <1>5, <1>6

\* KSeF is asked below the last attempt only, so one more question is within bounds.
LEMMA PollAnsweredOK ==
  ASSUME NEW w \in Workers, NEW j \in Jobs, IInv, PollAnswered(w, j)
  PROVE  IInv'
<1> USE QueueAssumption DEF IInv, TypeOK, JobRow, JobStatus, WorkerState, Outcome
<1>1. TypeOK'
  <2>1. effects[j] < MaxAttempts
    BY DEF PollAnswered, PollOne, Polled, WorkOK
  <2>2. effects' \in [Jobs -> 0..MaxAttempts]
    BY <2>1 DEF PollAnswered
  <2>3. PICK outcome \in {"accepted", "rejected", "pending"} : PollOne(w, j, outcome)
    BY DEF PollAnswered
  <2>4. worker' \in [Workers -> WorkerState]
    BY <2>3 DEF PollOne
  <2> QED
    BY <2>2, <2>3, <2>4 DEF PollOne
<1>2. WaitingOK'
  BY DEF PollAnswered, PollOne, Polled, WaitingOK, HeldOK, PolledOK
<1>3. HeldOK'
  BY DEF PollAnswered, PollOne, Polled, HeldOK, PolledOK, ClaimsAreExclusive
<1>4. PolledOK'
  BY DEF PollAnswered, PollOne, Polled, HeldOK, PolledOK, ClaimsAreExclusive
<1>5. ClaimsAreExclusive'
  BY DEF PollAnswered, PollOne, Polled, HeldOK, ClaimsAreExclusive
<1>6. WorkOK'
  BY DEF PollAnswered, PollOne, Polled, WorkOK, HeldOK, PolledOK, WaitingOK, ClaimsAreExclusive
<1> QED
  BY <1>1, <1>2, <1>3, <1>4, <1>5, <1>6

\* An exception records a rejection and changes no row yet.
LEMMA PollRaisesOK ==
  ASSUME NEW w \in Workers, NEW j \in Jobs, IInv, PollRaises(w, j)
  PROVE  IInv'
<1> USE QueueAssumption DEF IInv, TypeOK, JobRow, JobStatus, WorkerState, Outcome
<1>1. TypeOK'
  <2>1. worker' \in [Workers -> WorkerState]
    BY DEF PollRaises, PollOne
  <2> QED
    BY <2>1 DEF PollRaises, PollOne
<1>2. WaitingOK'
  BY DEF PollRaises, PollOne, Polled, WaitingOK, HeldOK, PolledOK
<1>3. HeldOK'
  BY DEF PollRaises, PollOne, Polled, HeldOK, PolledOK, ClaimsAreExclusive
<1>4. PolledOK'
  BY DEF PollRaises, PollOne, Polled, HeldOK, PolledOK, ClaimsAreExclusive
<1>5. ClaimsAreExclusive'
  BY DEF PollRaises, PollOne, Polled, HeldOK, ClaimsAreExclusive
<1>6. WorkOK'
  BY DEF PollRaises, PollOne, Polled, WorkOK, HeldOK, PolledOK, WaitingOK, ClaimsAreExclusive
<1> QED
  BY <1>1, <1>2, <1>3, <1>4, <1>5, <1>6

\* The rows written are held by this process, and only those below their last attempt wait again.
LEMMA CommitPolledOK ==
  ASSUME NEW w \in Workers, NEW j \in Jobs, IInv, CommitPolled(w, j)
  PROVE  IInv'
<1> USE QueueAssumption DEF IInv, TypeOK, JobRow, JobStatus, WorkerState, Outcome
<1>1. TypeOK'
  <2>1. \A k \in Jobs : job'[k] \in JobRow
    BY DEF CommitPolled, Polled, StatusOf
  <2>2. job' \in [Jobs -> JobRow]
    BY <2>1 DEF CommitPolled
  <2>3. worker' \in [Workers -> WorkerState]
    <3> DEFINE written == {j} \cup {k \in Polled(w) : worker[w].polled[k] = "pending"}
               kept == [k \in Jobs |-> IF k \in written THEN "none" ELSE worker[w].polled[k]]
    <3>1. worker[w] \in WorkerState
      OBVIOUS
    <3>2. kept \in [Jobs -> Outcome]
      BY <3>1
    <3>3. worker[w].mine \ written \in SUBSET Jobs
      BY <3>1
    <3>4. worker' = [worker EXCEPT ![w].mine = worker[w].mine \ written, ![w].polled = kept]
      BY DEF CommitPolled
    <3> HIDE DEF written, kept
    <3> QED
      BY <3>1, <3>2, <3>3, <3>4
  <2> QED
    BY <2>2, <2>3 DEF CommitPolled
<1>2. WaitingOK'
  BY DEF CommitPolled, Polled, StatusOf, WaitingOK, HeldOK, PolledOK
<1>3. HeldOK'
  BY DEF CommitPolled, Polled, StatusOf, HeldOK, PolledOK, ClaimsAreExclusive
<1>4. PolledOK'
  BY DEF CommitPolled, Polled, StatusOf, HeldOK, PolledOK, ClaimsAreExclusive
<1>5. ClaimsAreExclusive'
  BY DEF CommitPolled, Polled, StatusOf, HeldOK, ClaimsAreExclusive
<1>6. WorkOK'
  BY DEF CommitPolled, Polled, StatusOf, WorkOK, HeldOK, PolledOK, WaitingOK, ClaimsAreExclusive
<1> QED
  BY <1>1, <1>2, <1>3, <1>4, <1>5, <1>6

\* The tick ends when nothing is held.
LEMMA EndTickOK ==
  ASSUME NEW w \in Workers, IInv, EndTick(w)
  PROVE  IInv'
<1> USE QueueAssumption DEF IInv, TypeOK, JobRow, JobStatus, WorkerState, Outcome
<1>1. TypeOK'
  BY DEF EndTick, Idle, WaitingOK, HeldOK, PolledOK, WorkOK
<1>2. WaitingOK'
  BY DEF EndTick, Idle, WaitingOK, HeldOK, PolledOK
<1>3. HeldOK'
  BY DEF EndTick, Idle, HeldOK, PolledOK, ClaimsAreExclusive
<1>4. PolledOK'
  BY DEF EndTick, Idle, HeldOK, PolledOK, ClaimsAreExclusive
<1>5. ClaimsAreExclusive'
  BY DEF EndTick, Idle, HeldOK, ClaimsAreExclusive
<1>6. WorkOK'
  BY DEF EndTick, Idle, WorkOK, HeldOK, PolledOK, WaitingOK, ClaimsAreExclusive
<1> QED
  BY <1>1, <1>2, <1>3, <1>4, <1>5, <1>6

\* A process that dies drops what it held; the rows stay as they are.
LEMMA AbortOK ==
  ASSUME NEW w \in Workers, IInv, Abort(w)
  PROVE  IInv'
<1> USE QueueAssumption DEF IInv, TypeOK, JobRow, JobStatus, WorkerState, Outcome
<1>1. TypeOK'
  BY DEF Abort, Idle, WaitingOK, HeldOK, PolledOK, WorkOK
<1>2. WaitingOK'
  BY DEF Abort, Idle, WaitingOK, HeldOK, PolledOK
<1>3. HeldOK'
  BY DEF Abort, Idle, HeldOK, PolledOK, ClaimsAreExclusive
<1>4. PolledOK'
  BY DEF Abort, Idle, HeldOK, PolledOK, ClaimsAreExclusive
<1>5. ClaimsAreExclusive'
  BY DEF Abort, Idle, HeldOK, ClaimsAreExclusive
<1>6. WorkOK'
  BY DEF Abort, Idle, WorkOK, HeldOK, PolledOK, WaitingOK, ClaimsAreExclusive
<1> QED
  BY <1>1, <1>2, <1>3, <1>4, <1>5, <1>6

-----------------------------------------------------------------------------
\* Every step of the queue keeps the invariant.
LEMMA NextOK == IInv /\ [Next]_vars => IInv'
<1> SUFFICES ASSUME IInv, [Next]_vars PROVE IInv'
  OBVIOUS
<1>1. CASE UNCHANGED vars
  BY <1>1 DEF vars, IInv, TypeOK, WaitingOK, HeldOK, PolledOK, WorkOK, ClaimsAreExclusive
<1>2. ASSUME NEW j \in Jobs, Enqueue(j) PROVE IInv'
  BY <1>2, EnqueueOK
<1>3. ASSUME NEW w \in Workers, NEW due \in SUBSET Jobs, Select(w, due) PROVE IInv'
  BY <1>3, SelectOK
<1>4. ASSUME NEW w \in Workers, Tick(w) PROVE IInv'
  BY <1>4, CommitClaimOK, StartOK, SucceedOK, RaiseOK, FailJobOK, RescheduleJobOK,
     PollAnsweredOK, PollRaisesOK, CommitPolledOK, EndTickOK DEF Tick
<1>5. ASSUME NEW w \in Workers, FailureNotRecorded(w) PROVE IInv'
  BY <1>5, FailureNotRecordedOK
<1>6. ASSUME NEW w \in Workers, Abort(w) PROVE IInv'
  BY <1>6, AbortOK
<1> QED
  BY <1>1, <1>2, <1>3, <1>4, <1>5, <1>6 DEF Next

\* The inductive invariant holds in every behaviour of the queue.
THEOREM Inductive == Spec => []IInv
<1>1. IInv /\ [Next]_vars => IInv'
  BY NextOK
<1> QED
  BY InitOK, <1>1, PTL DEF Spec

\* The rows and the processes keep their types: in particular no job is ever
\* taken more than MaxAttempts times.
THEOREM TypeCorrect == Spec => []TypeOK
<1>1. IInv => TypeOK
  BY DEF IInv
<1> QED
  BY <1>1, Inductive, PTL

\* However many processes tick at once, no job is in the hands of two of them.
THEOREM ClaimsExclusive == Spec => []ClaimsAreExclusive
<1>1. IInv => ClaimsAreExclusive
  BY DEF IInv
<1> QED
  BY <1>1, Inductive, PTL

\* The work of a job is done at most once per attempt, and at least once when
\* the job is DONE, whoever dies and whatever fails.
THEOREM WorkBounded == Spec => []WorkIsBounded
<1>1. IInv => WorkIsBounded
  BY DEF IInv, WorkOK, WorkIsBounded
<1> QED
  BY <1>1, Inductive, PTL

-----------------------------------------------------------------------------
(***************************************************************************)
(* The queue implements JobLifecycle, its table being the abstract one.    *)
(***************************************************************************)
\* A commit that leaves one row alone, or moves it as JobLifecycle allows, and
\* leaves the others alone, is a step of JobLifecycle.
LEMMA OneRowMoves ==
  ASSUME TypeOK', NEW j \in Jobs, Lifecycle!Step(j),
         \A k \in Jobs \ {j} : job'[k] = job[k]
  PROVE  Lifecycle!Next
BY DEF Lifecycle!Next, TypeOK, JobRow, JobStatus, Lifecycle!JobRow, Lifecycle!JobStatus

\* Every step of the queue is a step of JobLifecycle or leaves the table alone:
\* rows are taken below their last attempt, and only polling fails early.
LEMMA StepSimulated == IInv /\ TypeOK' /\ [Next]_vars => [Lifecycle!Next]_job
<1> SUFFICES ASSUME IInv, TypeOK', [Next]_vars PROVE [Lifecycle!Next]_job
  OBVIOUS
<1> USE QueueAssumption DEF IInv, TypeOK, JobRow, JobStatus, WorkerState,
        Lifecycle!Step, Lifecycle!Moves
<1>1. CASE UNCHANGED job
  BY <1>1
<1>2. ASSUME NEW j \in Jobs, Enqueue(j) PROVE Lifecycle!Next
  <2>1. Lifecycle!Step(j)
    BY <1>2 DEF Enqueue, WaitingOK, Lifecycle!Enqueue
  <2>2. \A k \in Jobs \ {j} : job'[k] = job[k]
    BY <1>2 DEF Enqueue
  <2> QED
    BY <2>1, <2>2, OneRowMoves
<1>3. ASSUME NEW w \in Workers, CommitClaim(w) PROVE Lifecycle!Next
  <2>1. ASSUME NEW j \in Jobs PROVE Lifecycle!Step(j) \/ UNCHANGED job[j]
    BY <1>3 DEF CommitClaim, WaitingOK, HeldOK, Lifecycle!Take
  <2> QED
    BY <2>1 DEF Lifecycle!Next, Lifecycle!JobRow, Lifecycle!JobStatus
<1>4. ASSUME NEW w \in Workers, Succeed(w) \/ FailJob(w) \/ RescheduleJob(w)
      PROVE  Lifecycle!Next
  <2> DEFINE j == worker[w].current
  <2>1. j \in Jobs /\ job[j].status = "PROCESSING"
    BY <1>4 DEF Succeed, FailJob, RescheduleJob, HeldOK
  <2>2. \A k \in Jobs \ {j} : job'[k] = job[k]
    BY <1>4, <2>1 DEF Succeed, FailJob, RescheduleJob, Records
  <2>3. Succeed(w) => Lifecycle!Step(j)
    BY <2>1 DEF Succeed, Records, Lifecycle!Finish
  <2>4. FailJob(w) => Lifecycle!Step(j)
    <3>1. \A n \in 0..MaxAttempts : n >= MaxAttempts => n = MaxAttempts
      OBVIOUS
    <3>2. FailJob(w) => job[j].attempts >= MaxAttempts
      BY DEF FailJob
    <3>3. job[j].attempts \in 0..MaxAttempts
      BY <2>1
    <3>4. FailJob(w) => job[j].attempts = MaxAttempts
      BY <3>1, <3>2, <3>3
    <3> QED
      BY <2>1, <3>4 DEF FailJob, Records, Lifecycle!GiveUp
  <2>5. RescheduleJob(w) => Lifecycle!Step(j)
    BY <2>1 DEF RescheduleJob, Records, Lifecycle!PutBack
  <2> QED
    BY <1>4, <2>1, <2>2, <2>3, <2>4, <2>5, OneRowMoves
<1>5. ASSUME NEW w \in Workers, NEW i \in Jobs, CommitPolled(w, i) PROVE Lifecycle!Next
  <2>1. ASSUME NEW j \in Jobs, job'[j] # job[j]
        PROVE  /\ j \in Polled(w)
               /\ job'[j] = [job[j] EXCEPT !.status = StatusOf(worker[w].polled[j])]
    BY <1>5, <2>1 DEF CommitPolled, Polled
  <2>2. ASSUME NEW j \in Jobs PROVE Lifecycle!Step(j) \/ UNCHANGED job[j]
    <3>1. CASE job'[j] = job[j]
      BY <3>1
    <3>2. CASE job'[j] # job[j]
      <4>1. /\ job[j].status = "PROCESSING" /\ j \in PollJobs
            /\ worker[w].polled[j] \in {"accepted", "rejected", "pending"}
            /\ worker[w].polled[j] = "pending" => job[j].attempts < MaxAttempts
        BY <2>1, <3>2 DEF Polled, Outcome, HeldOK, PolledOK
      <4>2. /\ job'[j].status = StatusOf(worker[w].polled[j])
            /\ job'[j].attempts = job[j].attempts
        BY <2>1, <3>2
      <4> QED
        BY <4>1, <4>2 DEF StatusOf, Lifecycle!PutBack, Lifecycle!Finish, Lifecycle!GiveUp
    <3> QED
      BY <3>1, <3>2
  <2> QED
    BY <2>2 DEF Lifecycle!Next, Lifecycle!JobRow, Lifecycle!JobStatus
<1>6. ASSUME NEW w \in Workers, NEW j \in Jobs,
             Start(w, j) \/ PollAnswered(w, j) \/ PollRaises(w, j)
      PROVE  UNCHANGED job
  BY <1>6 DEF Start, PollAnswered, PollRaises, PollOne
<1>7. ASSUME NEW w \in Workers,
             \/ \E due \in SUBSET Jobs : Select(w, due)
             \/ Raise(w) \/ FailureNotRecorded(w) \/ EndTick(w) \/ Abort(w)
      PROVE  UNCHANGED job
  BY <1>7 DEF Select, Raise, FailureNotRecorded, EndTick, Abort
<1> QED
  BY <1>1, <1>2, <1>3, <1>4, <1>5, <1>6, <1>7 DEF Next, Tick, vars

\* Whatever the processes do together, one job's row goes through the life
\* JobLifecycle describes, at most MaxAttempts times.
THEOREM QueueImplementsLifecycle == Spec => ImplementsLifecycle
<1>1. Init => Lifecycle!Init
  BY DEF Init, Lifecycle!Init
<1>2. IInv => TypeOK
  BY DEF IInv
<1> QED
  BY <1>1, <1>2, Inductive, StepSimulated, PTL DEF Spec, ImplementsLifecycle, Lifecycle!Spec

-----------------------------------------------------------------------------
\* A step neither lets go of a PROCESSING job nor takes one without holding it.
LEMMA NobodyForgottenKept == IInv /\ NobodyForgotten /\ [Next]_vars => NobodyForgotten'
<1> SUFFICES ASSUME IInv, NobodyForgotten, [Next]_vars, aborts' = 0,
                    NEW j \in Jobs, job'[j].status = "PROCESSING"
             PROVE  \E w \in Workers : worker'[w].at # "selected" /\ j \in worker'[w].mine
  BY DEF NobodyForgotten
<1> USE QueueAssumption DEF IInv, TypeOK, JobRow, JobStatus, WorkerState, Outcome
<1>1. aborts = 0
  <2>1. aborts' = aborts \/ aborts' = aborts + 1
    <3>1. \A w \in Workers : Tick(w) => UNCHANGED aborts
      BY DEF Tick, CommitClaim, Start, Succeed, Raise, FailJob, RescheduleJob,
         PollAnswered, PollRaises, PollOne, CommitPolled, EndTick
    <3> QED
      BY <3>1 DEF Next, vars, Enqueue, Select, FailureNotRecorded, Abort
  <2> QED
    BY <2>1
<1>2. ASSUME job[j].status = "PROCESSING"
      PROVE  \E w \in Workers : worker[w].at # "selected" /\ j \in worker[w].mine
  BY <1>1, <1>2 DEF NobodyForgotten
<1>3. CASE UNCHANGED vars
  BY <1>2, <1>3 DEF vars
<1>4. ASSUME NEW i \in Jobs, Enqueue(i)
      PROVE  \E w \in Workers : worker'[w].at # "selected" /\ j \in worker'[w].mine
  BY <1>2, <1>4 DEF Enqueue
<1>5. ASSUME NEW v \in Workers, NEW due \in SUBSET Jobs, Select(v, due)
      PROVE  \E w \in Workers : worker'[w].at # "selected" /\ j \in worker'[w].mine
  BY <1>2, <1>5 DEF Select, HeldOK
<1>6. ASSUME NEW v \in Workers, FailureNotRecorded(v) \/ Abort(v)
      PROVE  FALSE
  BY <1>1, <1>6 DEF FailureNotRecorded, Abort
<1>7. ASSUME NEW v \in Workers, CommitClaim(v)
      PROVE  \E w \in Workers : worker'[w].at # "selected" /\ j \in worker'[w].mine
  BY <1>2, <1>7 DEF CommitClaim
<1>8. ASSUME NEW v \in Workers, Succeed(v) \/ FailJob(v) \/ RescheduleJob(v)
      PROVE  \E w \in Workers : worker'[w].at # "selected" /\ j \in worker'[w].mine
  <2>1. j # worker[v].current /\ job[j].status = "PROCESSING"
    BY <1>8 DEF Succeed, FailJob, RescheduleJob, Records, HeldOK
  <2>2. PICK w \in Workers : worker[w].at # "selected" /\ j \in worker[w].mine
    BY <1>2, <2>1
  <2>3. worker' = Leaves(v)
    BY <1>8 DEF Succeed, FailJob, RescheduleJob
  <2>4. worker'[w].at # "selected" /\ j \in worker'[w].mine
    BY <2>1, <2>2, <2>3 DEF Leaves
  <2> QED
    BY <2>4
<1>9. ASSUME NEW v \in Workers, NEW i \in Jobs, Start(v, i) \/ PollRaises(v, i)
      PROVE  \E w \in Workers : worker'[w].at # "selected" /\ j \in worker'[w].mine
  <2>1. PICK w \in Workers : worker[w].at # "selected" /\ j \in worker[w].mine
    BY <1>2, <1>9 DEF Start, PollRaises, PollOne
  <2>2. Start(v, i) => worker'[w].at # "selected" /\ j \in worker'[w].mine
    BY <2>1 DEF Start
  <2>3. PollRaises(v, i) => worker'[w].at # "selected" /\ j \in worker'[w].mine
    BY <2>1 DEF PollRaises, PollOne
  <2> QED
    BY <1>9, <2>2, <2>3
<1>10. ASSUME NEW v \in Workers, NEW i \in Jobs, PollAnswered(v, i)
       PROVE  \E w \in Workers : worker'[w].at # "selected" /\ j \in worker'[w].mine
  <2>1. PICK outcome \in {"accepted", "rejected", "pending"} : PollOne(v, i, outcome)
    BY <1>10 DEF PollAnswered
  <2> QED
    BY <1>2, <2>1 DEF PollOne
<1>11. ASSUME NEW v \in Workers, NEW i \in Jobs, CommitPolled(v, i)
       PROVE  \E w \in Workers : worker'[w].at # "selected" /\ j \in worker'[w].mine
  <2> DEFINE written == {i} \cup {k \in Polled(v) : worker[v].polled[k] = "pending"}
  <2>1. j \notin written
    BY <1>11 DEF CommitPolled, Polled, StatusOf
  <2>2. job[j].status = "PROCESSING"
    BY <1>11, <2>1 DEF CommitPolled
  <2>3. PICK w \in Workers : worker[w].at # "selected" /\ j \in worker[w].mine
    BY <1>2, <2>2
  <2>4. CASE w # v
    BY <1>11, <2>3, <2>4 DEF CommitPolled
  <2>5. CASE w = v
    <3>1. worker' = [worker EXCEPT ![v].mine = @ \ written,
            ![v].polled = [k \in Jobs |-> IF k \in written THEN "none" ELSE worker[v].polled[k]]]
      BY <1>11 DEF CommitPolled
    <3>2. worker'[v].at = worker[v].at /\ worker'[v].mine = worker[v].mine \ written
      BY <3>1
    <3> QED
      BY <2>1, <2>3, <2>5, <3>2
  <2> QED
    BY <2>4, <2>5
<1>12. ASSUME NEW v \in Workers, Raise(v)
       PROVE  \E w \in Workers : worker'[w].at # "selected" /\ j \in worker'[w].mine
  <2>1. PICK w \in Workers : worker[w].at # "selected" /\ j \in worker[w].mine
    BY <1>2, <1>12 DEF Raise
  <2>2. worker'[w].at # "selected" /\ worker'[w].mine = worker[w].mine
    BY <1>12, <2>1 DEF Raise
  <2> QED
    BY <2>1, <2>2
<1>13. ASSUME NEW v \in Workers, EndTick(v)
       PROVE  \E w \in Workers : worker'[w].at # "selected" /\ j \in worker'[w].mine
  BY <1>2, <1>13 DEF EndTick
<1> QED
  BY <1>3, <1>4, <1>5, <1>6, <1>7, <1>8, <1>9, <1>10, <1>11, <1>12, <1>13 DEF Next, Tick

\* As long as no process has died, a PROCESSING job is in some process's hands.
THEOREM NobodyIsForgotten == Spec => []NobodyForgotten
<1>1. Init => NobodyForgotten
  BY DEF Init, NobodyForgotten
<1> QED
  BY <1>1, NobodyForgottenKept, Inductive, PTL DEF Spec

=============================================================================
