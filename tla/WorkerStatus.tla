----------------------------- MODULE WorkerStatus -----------------------------
(***************************************************************************)
(* What the scheduler tells of itself.  Two threads of one process, the    *)
(* tick and the heartbeat, share the dictionary scheduler_state without a  *)
(* lock and write the same worker_heartbeat row, which the widget of the   *)
(* interface reads.                                                        *)
(***************************************************************************)
EXTENDS Naturals

VARIABLES
  memory,    \* scheduler_state: the phase and whether current_jobs is empty
  finished,  \* last_job_finished_at: unset, less than 15 seconds ago or older
  row,       \* the committed worker_heartbeat row
  fresh,     \* its last_heartbeat_at is recent
  tick,      \* where process_all_jobs is
  heart,     \* where _heartbeat_tick is
  write,     \* the row each thread has loaded and what it will commit
  lost,      \* history: a tick ended in an index error, with jobs claimed
  raced      \* history: the heartbeat has acted on a phase that was out of date

statusVars == <<memory, finished, row, fresh, tick, heart, write, lost, raced>>

Threads == {"tick", "heart"}

Phase == {"idle", "processing", "cooldown"}

Listing == {"none", "listed"}

StatusRow == [status: {"missing", "ACTIVE", "IDLE"}, phase: Phase, jobs: Listing]

NoStatusRow == [status |-> "missing", phase |-> "idle", jobs |-> "none"]

NoWrite == [open |-> FALSE, saw |-> NoStatusRow, set |-> NoStatusRow]

TickAt == {"off", "claimed", "phased", "running", "cooling", "ending"}

HeartAt == {"off", "resting", "emptying"}

Ages == {"never", "recent", "old"}

StatusInit ==
  /\ memory = [phase |-> "idle", jobs |-> "none"]
  /\ finished = "never"
  /\ row = NoStatusRow
  /\ fresh = FALSE
  /\ tick = "off"
  /\ heart = "off"
  /\ write = [th \in Threads |-> NoWrite]
  /\ lost = FALSE
  /\ raced = FALSE

-----------------------------------------------------------------------------
(***************************************************************************)
(* _write_heartbeat: the row is loaded, then the columns that differ are   *)
(* committed.  A failure is logged and forgotten.                          *)
(***************************************************************************)
Opens(th, status, phase, jobs) ==
  /\ ~write[th].open
  /\ write' = [write EXCEPT ![th] =
       [open |-> TRUE, saw |-> row, set |-> [status |-> status, phase |-> phase, jobs |-> jobs]]]

CommitsColumn(now, saw, set) == IF set = saw THEN now ELSE set

CommitStatus(th) ==
  LET w == write[th] IN
  /\ w.open
  /\ w.saw.status = "missing" => row.status = "missing"
  /\ row' = [status |-> CommitsColumn(row.status, w.saw.status, w.set.status),
             phase |-> CommitsColumn(row.phase, w.saw.phase, w.set.phase),
             jobs |-> CommitsColumn(row.jobs, w.saw.jobs, w.set.jobs)]
  /\ fresh' = TRUE
  /\ write' = [write EXCEPT ![th] = NoWrite]
  /\ UNCHANGED <<memory, finished, tick, heart, lost, raced>>

\* Both threads insert the first row, or the database fails.
StatusNotWritten(th) ==
  /\ write[th].open
  /\ write' = [write EXCEPT ![th] = NoWrite]
  /\ UNCHANGED <<memory, finished, row, fresh, tick, heart, lost, raced>>

-----------------------------------------------------------------------------
(***************************************************************************)
(* The tick.  `held` jobs are PROCESSING from the claim on.                *)
(***************************************************************************)
BeginTick ==
  /\ tick = "off"
  /\ ~write["tick"].open
  /\ tick' = "claimed"
  /\ UNCHANGED <<memory, finished, row, fresh, heart, write, lost, raced>>

SetPhase ==
  /\ tick = "claimed"
  /\ memory' = [memory EXCEPT !.phase = "processing"]
  /\ tick' = "phased"
  /\ UNCHANGED <<finished, row, fresh, heart, write, lost, raced>>

HeartIsResting ==
  heart \in {"resting", "emptying"} \/ write["heart"].set.jobs # write["heart"].saw.jobs

ListJobs ==
  /\ tick = "phased"
  /\ memory' = [memory EXCEPT !.jobs = "listed"]
  /\ Opens("tick", "ACTIVE", "processing", "listed")
  /\ tick' = "running"
  /\ raced' = (raced \/ HeartIsResting)
  /\ UNCHANGED <<finished, row, fresh, heart, lost>>

\* A task sets its entry of current_jobs, and writes the list, before and after.
RunTask ==
  /\ tick = "running"
  /\ memory.jobs = "listed"
  /\ Opens("tick", "ACTIVE", "processing", memory.jobs)
  /\ UNCHANGED <<memory, finished, row, fresh, tick, heart, lost, raced>>

TaskMissesEntry ==
  /\ tick = "running"
  /\ ~write["tick"].open
  /\ memory.jobs = "none"
  /\ tick' = "off"
  /\ lost' = TRUE
  /\ UNCHANGED <<memory, finished, row, fresh, heart, write, raced>>

\* An exception from the poll batch or the database.
TickRaises ==
  /\ tick \in {"claimed", "running"}
  /\ ~write["tick"].open
  /\ tick' = "off"
  /\ UNCHANGED <<memory, finished, row, fresh, heart, write, lost, raced>>

\* The phase is set before the time from which the 15 seconds count.
SetCooldown ==
  /\ tick = "running"
  /\ ~write["tick"].open
  /\ memory' = [memory EXCEPT !.phase = "cooldown"]
  /\ tick' = "cooling"
  /\ UNCHANGED <<finished, row, fresh, heart, write, lost, raced>>

EndTick ==
  /\ tick = "cooling"
  /\ finished' = "recent"
  /\ Opens("tick", "IDLE", "cooldown", memory.jobs)
  /\ tick' = "ending"
  /\ UNCHANGED <<memory, row, fresh, heart, lost, raced>>

TickEnded ==
  /\ tick = "ending"
  /\ ~write["tick"].open
  /\ tick' = "off"
  /\ UNCHANGED <<memory, finished, row, fresh, heart, write, lost, raced>>

-----------------------------------------------------------------------------
(***************************************************************************)
(* The heartbeat.                                                          *)
(***************************************************************************)
\* Mutant: the phase is not looked at.
RestDueAnyPhase == finished = "old"

RestDue == memory.phase = "cooldown" /\ finished = "old"

BeginRest ==
  /\ heart = "off"
  /\ ~write["heart"].open
  /\ RestDue
  /\ heart' = "resting"
  /\ raced' = (raced \/ tick \in {"cooling", "ending"})
  /\ UNCHANGED <<memory, finished, row, fresh, tick, write, lost>>

SetIdle ==
  /\ heart = "resting"
  /\ memory' = [memory EXCEPT !.phase = "idle"]
  /\ heart' = "emptying"
  /\ UNCHANGED <<finished, row, fresh, tick, write, lost, raced>>

EmptyJobs ==
  /\ heart = "emptying"
  /\ memory' = [memory EXCEPT !.jobs = "none"]
  /\ Opens("heart", "IDLE", "idle", "none")
  /\ heart' = "off"
  /\ UNCHANGED <<finished, row, fresh, tick, lost, raced>>

\* A plain heartbeat says IDLE, whatever the tick is doing, and leaves the
\* phase and the list of the row alone.
Beat ==
  /\ heart = "off"
  /\ ~RestDue
  /\ Opens("heart", "IDLE", row.phase, row.jobs)
  /\ UNCHANGED <<memory, finished, row, fresh, tick, heart, lost, raced>>

FifteenSecondsPass ==
  /\ finished = "recent"
  /\ finished' = "old"
  /\ UNCHANGED <<memory, row, fresh, tick, heart, write, lost, raced>>

HeartbeatGrowsOld ==
  /\ fresh
  /\ fresh' = FALSE
  /\ UNCHANGED <<memory, finished, row, tick, heart, write, lost, raced>>

StatusNext ==
  \/ \E th \in Threads : CommitStatus(th) \/ StatusNotWritten(th)
  \/ BeginTick
  \/ SetPhase
  \/ ListJobs
  \/ RunTask
  \/ TaskMissesEntry
  \/ TickRaises
  \/ SetCooldown
  \/ EndTick
  \/ TickEnded
  \/ BeginRest
  \/ SetIdle
  \/ EmptyJobs
  \/ Beat
  \/ FifteenSecondsPass
  \/ HeartbeatGrowsOld

StatusSpec == StatusInit /\ [][StatusNext]_statusVars

-----------------------------------------------------------------------------
\* What the widget makes of the row.
Widget ==
  CASE ~fresh -> [phase |-> "idle", jobs |-> "none"]
    [] fresh /\ row.status = "ACTIVE" -> [phase |-> "processing", jobs |-> row.jobs]
    [] fresh /\ row.status = "IDLE" /\ row.phase = "cooldown" -> [phase |-> "cooldown", jobs |-> row.jobs]
    [] OTHER -> [phase |-> "idle", jobs |-> "none"]

\* The dictionary, the row and the threads have their types.
StatusTypeOK ==
  /\ memory \in [phase: Phase, jobs: Listing]
  /\ finished \in Ages
  /\ {fresh, lost, raced} \subseteq BOOLEAN
  /\ row \in StatusRow
  /\ tick \in TickAt
  /\ heart \in HeartAt
  /\ write \in [Threads -> [open: BOOLEAN, saw: StatusRow, set: StatusRow]]

\* The heartbeat empties current_jobs under a tick, which then dies of an index
\* error and leaves its claimed jobs PROCESSING (scheduler.py:287, 408), and the
\* widget shows a cooldown without results, only when the heartbeat looked at
\* the phase before a tick changed it and acted after, or when it caught the new
\* phase with the old time or overtook the tick's last write (382, 385).
GapsAreRaced ==
  /\ lost => raced
  /\ Widget.phase = "cooldown" /\ Widget.jobs = "none" => raced

=============================================================================
