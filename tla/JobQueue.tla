------------------------------ MODULE JobQueue ------------------------------
(***************************************************************************)
(* The SQLite-backed job queue of shopsage/workers/job_queue.py.           *)
(*                                                                         *)
(* A row of the table "jobs" is shared by every JobQueue object opened on  *)
(* the database file (an Instance) and by every worker thread started on   *)
(* them (a Thread).  process_next is three steps of a thread: the SELECT   *)
(* that picks a row (Select), the UPDATE that marks it running (Claim),    *)
(* and the handler call with the final UPDATE (HandlerReturns,             *)
(* HandlerRaises, NoHandler).  SQLite makes each statement atomic; it does *)
(* not hold a lock between the SELECT and the UPDATE.                      *)
(*                                                                         *)
(* Time is abstracted: a row is either due (scheduled_at <= now) or not,   *)
(* and completed_at is null, recent, or older than the purge horizon.      *)
(***************************************************************************)
EXTENDS Integers, FiniteSets

CONSTANTS
  JobId,        \* the uuid4 identifiers that jobs get, never reused
  Thread,       \* worker threads
  Instance,     \* JobQueue objects: one per process, or more
  InstanceOf,   \* the JobQueue object a thread was started on
  JobType,      \* the keys of _handlers
  Priority,     \* the priorities callers pass
  RetryLimit,   \* the values of max_retries callers pass
  Faults,       \* the faults this instance of the model may show
  MaxAttempts,  \* bound on the executions counted for one job
  NoJob         \* "no job": what a thread holds between two jobs

ASSUME InstanceOfType == InstanceOf \in [Thread -> Instance]
ASSUME PriorityType   == Priority \subseteq Int
ASSUME RetryLimitType == RetryLimit \subseteq Nat
ASSUME JobTypeType    == JobType # {}
ASSUME NoJobFresh     == NoJob \notin JobId

(***************************************************************************)
(* Faults: "db", a statement raises sqlite3.Error (the file is locked or   *)
(* unavailable); "crash", the process dies; "stop", stop_worker is called. *)
(***************************************************************************)
ASSUME FaultsType     == Faults \subseteq {"db", "crash", "stop"}

VARIABLES
  jobs,      \* the rows, one per JobId; status "unused" or "purged" is no row
  arrivals,  \* how many rows were inserted: the logical clock of created_at
  handlers,  \* _handlers of each instance: the job types it can run
  running,   \* _running of each instance
  pc,        \* where each thread is in _worker_loop and process_next
  held,      \* the local copy "job = dict(row)" of each thread
  attempts   \* history: how often a worker marked the job running

vars == <<jobs, arrivals, handlers, running, pc, held, attempts>>

Live    == {"pending", "running", "completed", "failed", "cancelled"}
Status  == Live \cup {"unused", "purged"}
Final   == {"completed", "failed", "cancelled"}

Row == [status: Status, job_type: JobType, priority: Int,
        max_retries: Nat, retry_count: Nat, due: BOOLEAN,
        created: Nat, completed_at: {"null", "recent", "old"}]

\* The place of a row that is not in the table.
NoRow == [status |-> "unused", job_type |-> CHOOSE ty \in JobType : TRUE,
          priority |-> 0, max_retries |-> 0, retry_count |-> 0, due |-> FALSE,
          created |-> 0, completed_at |-> "null"]

HeldNothing == [id |-> NoJob, row |-> NoRow]

TypeOK ==
  /\ jobs \in [JobId -> Row]
  /\ arrivals \in Nat
  /\ handlers \in [Instance -> SUBSET JobType]
  /\ running \in [Instance -> BOOLEAN]
  /\ pc \in [Thread -> {"stopped", "polling", "selected", "executing"}]
  /\ held \in [Thread -> [id: JobId \cup {NoJob}, row: Row]]
  /\ attempts \in [JobId -> Nat]

Init ==
  /\ jobs = [j \in JobId |-> NoRow]
  /\ arrivals = 0
  /\ handlers = [i \in Instance |-> {}]
  /\ running = [i \in Instance |-> FALSE]
  /\ pc = [t \in Thread |-> "stopped"]
  /\ held = [t \in Thread |-> HeldNothing]
  /\ attempts = [j \in JobId |-> 0]

-----------------------------------------------------------------------------
(* Statements of the queue against the table. *)

HasRow(j) == jobs[j].status \in Live

\* UPDATE jobs SET ... WHERE id = j: nothing happens when the row is gone.
Update(j, row) == IF HasRow(j) THEN [jobs EXCEPT ![j] = row] ELSE jobs

\* sqlite3.Error is raised, caught and logged by the method: no row changes.
StatementFails == "db" \in Faults /\ jobs' = jobs

\* WHERE status = 'pending' AND scheduled_at <= now
Eligible_Failed == {j \in JobId : /\ jobs[j].status \in {"pending", "failed"}
                                 /\ jobs[j].due}
Eligible == {j \in JobId : jobs[j].status = "pending" /\ jobs[j].due}

\* ORDER BY priority DESC, created_at ASC
Before_NewestFirst(j, k) ==
  \/ jobs[j].priority > jobs[k].priority
  \/ /\ jobs[j].priority = jobs[k].priority
     /\ jobs[j].created > jobs[k].created

Before(j, k) ==
  \/ jobs[j].priority > jobs[k].priority
  \/ /\ jobs[j].priority = jobs[k].priority
     /\ jobs[j].created < jobs[k].created

NextJobs == {j \in Eligible : \A k \in Eligible \ {j} : Before(j, k)}

(* The methods that close a job, each one UPDATE by id with no look at the *)
(* status the row has by now.  Next to a definition, under its name with a *)
(* suffix, stands the seeded bug that a property below must reject.        *)
CompleteJob_Misspelt(j) ==
  jobs' = Update(j, [jobs[j] EXCEPT !.status = "complete"])

CompleteJob(j) ==
  \/ jobs' = Update(j, [jobs[j] EXCEPT !.status = "completed",
                                       !.completed_at = "recent"])
  \/ StatementFails

FailJob_Skipped(j) == jobs' = jobs

FailJob(j) ==
  \/ jobs' = Update(j, [jobs[j] EXCEPT !.status = "failed",
                                       !.completed_at = "recent"])
  \/ StatementFails

\* The backoff is positive, so the retried row is not due at once.
RetryJob(j, count) ==
  \/ jobs' = Update(j, [jobs[j] EXCEPT !.status = "pending",
                                       !.retry_count = count,
                                       !.due = FALSE])
  \/ StatementFails

-----------------------------------------------------------------------------
(* Callers of the queue. *)

RegisterHandler(i, ty) ==
  /\ handlers' = [handlers EXCEPT ![i] = @ \cup {ty}]
  /\ UNCHANGED <<jobs, arrivals, running, pc, held, attempts>>

\* A positive delay_seconds puts scheduled_at in the future.
Enqueue(j, ty, prio, limit, delayed) ==
  /\ jobs[j].status = "unused"
  /\ jobs' = [jobs EXCEPT ![j] =
                [NoRow EXCEPT !.status = "pending", !.job_type = ty,
                              !.priority = prio, !.max_retries = limit,
                              !.due = ~delayed, !.created = arrivals]]
  /\ arrivals' = arrivals + 1
  /\ UNCHANGED <<handlers, running, pc, held, attempts>>

\* AND status = 'pending'
Cancellable_Any(j) == HasRow(j)
Cancellable(j)     == jobs[j].status = "pending"

CancelJob(j) ==
  /\ Cancellable(j)
  /\ jobs' = [jobs EXCEPT ![j].status = "cancelled"]
  /\ UNCHANGED <<arrivals, handlers, running, pc, held, attempts>>

\* DELETE ... WHERE status IN ('completed', 'cancelled') AND completed_at < cutoff
Purgeable(j) == /\ jobs[j].status \in {"completed", "cancelled"}
                /\ jobs[j].completed_at = "old"

PurgeCompleted ==
  /\ \E j \in JobId : Purgeable(j)
  /\ jobs' = [j \in JobId |-> IF Purgeable(j)
                              THEN [NoRow EXCEPT !.status = "purged"]
                              ELSE jobs[j]]
  /\ UNCHANGED <<arrivals, handlers, running, pc, held, attempts>>

-----------------------------------------------------------------------------
(* The passing of time. *)

BecomeDue(j) ==
  /\ jobs[j].status = "pending"
  /\ ~jobs[j].due
  /\ jobs' = [jobs EXCEPT ![j].due = TRUE]
  /\ UNCHANGED <<arrivals, handlers, running, pc, held, attempts>>

Age(j) ==
  /\ jobs[j].completed_at = "recent"
  /\ jobs' = [jobs EXCEPT ![j].completed_at = "old"]
  /\ UNCHANGED <<arrivals, handlers, running, pc, held, attempts>>

-----------------------------------------------------------------------------
(* The worker thread. *)

Polls(t) == pc[t] = "polling" /\ running[InstanceOf[t]]

\* No eligible row: process_next returns False and the thread sleeps.
PollEmpty(t) ==
  /\ Polls(t)
  /\ Eligible = {}
  /\ UNCHANGED vars

Select(t) ==
  /\ Polls(t)
  /\ \E j \in NextJobs :
       held' = [held EXCEPT ![t] = [id |-> j, row |-> jobs[j]]]
  /\ pc' = [pc EXCEPT ![t] = "selected"]
  /\ UNCHANGED <<jobs, arrivals, handlers, running, attempts>>

\* The bound MaxAttempts stops the count, never a real worker.
Claim(t) ==
  LET j == held[t].id IN
  /\ pc[t] = "selected"
  /\ attempts[j] < MaxAttempts
  /\ jobs' = Update(j, [jobs[j] EXCEPT !.status = "running"])
  /\ pc' = [pc EXCEPT ![t] = "executing"]
  /\ attempts' = [attempts EXCEPT ![j] = @ + 1]
  /\ UNCHANGED <<arrivals, handlers, running, held>>

\* "Fetch error": the row is left as it is and process_next returns False.
ClaimFails(t) ==
  /\ pc[t] = "selected"
  /\ StatementFails
  /\ pc' = [pc EXCEPT ![t] = "polling"]
  /\ held' = [held EXCEPT ![t] = HeldNothing]
  /\ UNCHANGED <<arrivals, handlers, running, attempts>>

\* process_next returns True, whatever became of its last UPDATE.
Executing(t)  == pc[t] = "executing"
HasHandler(t) == held[t].row.job_type \in handlers[InstanceOf[t]]

Release(t) ==
  /\ pc' = [pc EXCEPT ![t] = "polling"]
  /\ held' = [held EXCEPT ![t] = HeldNothing]
  /\ UNCHANGED <<arrivals, handlers, running, attempts>>

NoHandler(t) ==
  /\ Executing(t)
  /\ ~HasHandler(t)
  /\ FailJob(held[t].id)
  /\ Release(t)

HandlerReturns(t) ==
  /\ Executing(t)
  /\ HasHandler(t)
  /\ CompleteJob(held[t].id)
  /\ Release(t)

\* if retry_count < job["max_retries"]
RetriesLeft_Inclusive(count, limit) == count <= limit
RetriesLeft_OneLess(count, limit)   == count + 1 < limit
RetriesLeft(count, limit)           == count < limit

\* retry_count is computed from the copy read by the SELECT.
HandlerRaises(t) ==
  LET j     == held[t].id
      count == held[t].row.retry_count + 1
  IN
  /\ Executing(t)
  /\ HasHandler(t)
  /\ IF RetriesLeft(count, held[t].row.max_retries)
     THEN RetryJob(j, count)
     ELSE FailJob(j)
  /\ Release(t)

-----------------------------------------------------------------------------
(* Starting, stopping and losing workers. *)

StartWorker(i) ==
  /\ ~running[i]
  /\ running' = [running EXCEPT ![i] = TRUE]
  /\ \E t \in Thread : /\ InstanceOf[t] = i
                        /\ pc[t] = "stopped"
                        /\ pc' = [pc EXCEPT ![t] = "polling"]
  /\ UNCHANGED <<jobs, arrivals, handlers, held, attempts>>

\* join(timeout=5) gives up on a thread that is busy: it goes on by itself.
StopWorker(i) ==
  /\ "stop" \in Faults
  /\ running[i]
  /\ running' = [running EXCEPT ![i] = FALSE]
  /\ UNCHANGED <<jobs, arrivals, handlers, pc, held, attempts>>

\* while self._running is false at the top of the loop.
LoopExits(t) ==
  /\ pc[t] = "polling"
  /\ ~running[InstanceOf[t]]
  /\ pc' = [pc EXCEPT ![t] = "stopped"]
  /\ UNCHANGED <<jobs, arrivals, handlers, running, held, attempts>>

\* The process dies with its threads (daemon=True); the file stays.
Crash(i) ==
  /\ "crash" \in Faults
  /\ running' = [running EXCEPT ![i] = FALSE]
  /\ handlers' = [handlers EXCEPT ![i] = {}]
  /\ pc' = [t \in Thread |-> IF InstanceOf[t] = i THEN "stopped" ELSE pc[t]]
  /\ held' = [t \in Thread |-> IF InstanceOf[t] = i THEN HeldNothing ELSE held[t]]
  /\ UNCHANGED <<jobs, arrivals, attempts>>

-----------------------------------------------------------------------------
Call ==
  \/ \E i \in Instance, ty \in JobType : RegisterHandler(i, ty)
  \/ \E j \in JobId, ty \in JobType, prio \in Priority, limit \in RetryLimit,
        delayed \in BOOLEAN : Enqueue(j, ty, prio, limit, delayed)
  \/ \E j \in JobId : CancelJob(j)
  \/ PurgeCompleted

Time == \E j \in JobId : BecomeDue(j) \/ Age(j)

Step(t) ==
  \/ PollEmpty(t)
  \/ Select(t)
  \/ Claim(t)
  \/ ClaimFails(t)
  \/ NoHandler(t)
  \/ HandlerReturns(t)
  \/ HandlerRaises(t)
  \/ LoopExits(t)

Control == \E i \in Instance : StartWorker(i) \/ StopWorker(i) \/ Crash(i)

Next ==
  \/ Call
  \/ Time
  \/ \E t \in Thread : Step(t)
  \/ Control

Spec == Init /\ [][Next]_vars

(***************************************************************************)
(* A started thread is scheduled by the interpreter, a handler eventually  *)
(* returns or raises, and time passes.  Nothing is assumed of callers.     *)
(***************************************************************************)
Fairness ==
  /\ \A t \in Thread : WF_vars(Step(t))
  /\ \A j \in JobId : WF_vars(BecomeDue(j))

-----------------------------------------------------------------------------
(* What the queue guarantees whatever the number of workers. *)

\* retry_count never uses up max_retries: a job that has no attempt left is
\* failed, not put back, even when several workers write from stale copies
\* of its row (process_next compares the copy's retry_count + 1).
RetryBudget ==
  \A j \in JobId : \/ jobs[j].retry_count = 0
                   \/ jobs[j].retry_count < jobs[j].max_retries

\* Without a crash and without a failing statement no job is lost: a row that
\* says "running" is being executed by some worker, however the workers'
\* unguarded UPDATEs interleave.
RunningIsHeld ==
  Faults \cap {"crash", "db"} = {} =>
    \A j \in JobId : jobs[j].status = "running" =>
      \E t \in Thread : Executing(t) /\ held[t].id = j

-----------------------------------------------------------------------------
(* What it guarantees when the file has a single worker thread. *)

OneWorker == \A s, t \in Thread : s = t

AttemptLimit(j) == IF jobs[j].max_retries = 0 THEN 1 ELSE jobs[j].max_retries

\* A job is executed at most max_retries times (and once when that is 0), over
\* every crash, restart, failed statement and cancellation.
AttemptsBounded ==
  \A j \in JobId : HasRow(j) => attempts[j] <= AttemptLimit(j)

\* "Jobs should fail permanently after max retries." (tests/test_job_queue.py)
\* A completed or failed job never becomes anything else; purging removes it.
FinishedIsFinal ==
  [][\A j \in JobId : jobs[j].status \in {"completed", "failed"} =>
        jobs'[j].status \in {jobs[j].status, "purged"}]_vars

FailsNow(t) ==
  /\ Executing(t)
  /\ HasHandler(t)
  /\ jobs[held[t].id].status # "failed"
  /\ jobs'[held[t].id].status = "failed"

\* A job whose handler is registered is failed only once its attempts are
\* spent: no early failure from a stale or repeated retry_count.
NoEarlyFailure ==
  [][\A t \in Thread : FailsNow(t) =>
        attempts[held[t].id] >= jobs[held[t].id].max_retries]_vars

\* "Cancel a pending job." (cancel_job): once it returned True, the job does
\* not run.
CancelledStaysCancelled ==
  [][\A j \in JobId : jobs[j].status = "cancelled" =>
        jobs'[j].status \in {"cancelled", "purged"}]_vars

-----------------------------------------------------------------------------
(* Inductive strengthenings, for the proofs. *)

\* A thread between two steps of process_next holds a job that was enqueued,
\* with the max_retries of its row for as long as the row exists.
Busy(t) == pc[t] \in {"selected", "executing"}

HeldJobs ==
  \A t \in Thread : Busy(t) =>
    /\ held[t].id \in JobId
    /\ jobs[held[t].id].status # "unused"
    /\ HasRow(held[t].id) =>
         held[t].row.max_retries = jobs[held[t].id].max_retries

RetryBudgetInv == TypeOK /\ HeldJobs /\ RetryBudget

\* With one worker the number of executions can be read off the row, and a
\* job that was not finished was never finished.
RowsCount ==
  \A j \in JobId :
    /\ jobs[j].status = "unused" => attempts[j] = 0
    /\ jobs[j].status \in {"pending", "cancelled"} =>
         attempts[j] = jobs[j].retry_count
    /\ jobs[j].status \in {"running", "completed", "failed"} =>
         attempts[j] = jobs[j].retry_count + 1
    /\ jobs[j].status \in {"pending", "cancelled", "running"} =>
         jobs[j].completed_at = "null"

\* The worker's copy is the row, except that a cancellation may have come
\* between the SELECT and the UPDATE.
CopyIsFresh ==
  \A t \in Thread :
    /\ pc[t] = "selected" =>
         jobs[held[t].id].status \in {"pending", "cancelled"}
    /\ pc[t] = "executing" => jobs[held[t].id].status = "running"
    /\ Busy(t) => held[t].row.retry_count = jobs[held[t].id].retry_count

OneWorkerInv == RetryBudgetInv /\ RowsCount /\ CopyIsFresh

=============================================================================
