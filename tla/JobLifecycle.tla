---------------------------- MODULE JobLifecycle ----------------------------
(***************************************************************************)
(* What the integration_job table promises about one job, whoever works on *)
(* it: a job is taken at most MaxAttempts times, goes back to NEW only if  *)
(* it may be taken again, and never leaves DONE or FAILED.  A job fails    *)
(* before its attempts are spent only if its type gives up early.  Several *)
(* jobs may move in one step, because one commit may cover several rows.   *)
(***************************************************************************)
EXTENDS Naturals

CONSTANTS
  Jobs,
  EarlyFailing,    \* the jobs that an error may fail before the last attempt
  MaxAttempts      \* integration_job.max_attempts

VARIABLE job

JobStatus == {"NONE", "NEW", "PROCESSING", "DONE", "FAILED"}

JobRow == [status: JobStatus, attempts: 0..MaxAttempts]

Init == job \in [Jobs -> [status: {"NONE", "NEW"}, attempts: {0}]]

Moves(j, from, to) == job[j].status = from /\ job'[j].status = to

Enqueue(j) == Moves(j, "NONE", "NEW") /\ job'[j].attempts = 0

Take(j) ==
  /\ Moves(j, "NEW", "PROCESSING")
  /\ job[j].attempts < MaxAttempts
  /\ job'[j].attempts = job[j].attempts + 1

PutBack(j) ==
  /\ Moves(j, "PROCESSING", "NEW")
  /\ job[j].attempts < MaxAttempts
  /\ job'[j].attempts = job[j].attempts

Finish(j) == Moves(j, "PROCESSING", "DONE") /\ job'[j].attempts = job[j].attempts

GiveUp(j) ==
  /\ Moves(j, "PROCESSING", "FAILED")
  /\ j \in EarlyFailing \/ job[j].attempts = MaxAttempts
  /\ job'[j].attempts = job[j].attempts

Step(j) == Enqueue(j) \/ Take(j) \/ PutBack(j) \/ Finish(j) \/ GiveUp(j)

Next ==
  /\ job' \in [Jobs -> JobRow]
  /\ \A j \in Jobs : Step(j) \/ UNCHANGED job[j]

Spec == Init /\ [][Next]_job

=============================================================================
