--------------------------- MODULE JobQueue_proofs ---------------------------
(***************************************************************************)
(* Proofs about the job queue: type correctness and the retry budget for   *)
(* any number of workers; bounded attempts, final results and the          *)
(* refinement of JobLifecycle for a single worker.                         *)
(***************************************************************************)
EXTENDS JobQueueLifecycle, TLAPS

-----------------------------------------------------------------------------
(* Rows. *)

LEMMA NoRowType == NoRow \in Row
<1>1. (CHOOSE ty \in JobType : TRUE) \in JobType
  BY JobTypeType
<1>2. QED
  BY <1>1 DEF NoRow, Row, Status, Live

\* The effect of a closing method: the statement fails or finds no row, or it
\* writes these fields and leaves max_retries alone.
Writes(j, status, count) ==
  \/ jobs' = jobs
  \/ /\ HasRow(j)
     /\ \E row \in Row : /\ jobs' = [jobs EXCEPT ![j] = row]
                         /\ row.status = status
                         /\ row.retry_count = count
                         /\ row.max_retries = jobs[j].max_retries
                         /\ status = "pending" => row.completed_at = jobs[j].completed_at

LEMMA CompleteWrites ==
  ASSUME TypeOK, NEW j \in JobId, CompleteJob(j)
  PROVE  Writes(j, "completed", jobs[j].retry_count)
<1> DEFINE row == [jobs[j] EXCEPT !.status = "completed", !.completed_at = "recent"]
<1>1. jobs[j] \in Row
  BY DEF TypeOK
<1>2. /\ row \in Row /\ row.status = "completed"
      /\ row.retry_count = jobs[j].retry_count /\ row.max_retries = jobs[j].max_retries
  BY <1>1 DEF Row, Status, Live
<1>3. jobs' = Update(j, row) \/ jobs' = jobs
  BY DEF CompleteJob, StatementFails
<1> HIDE DEF row
<1>4. QED
  BY <1>2, <1>3 DEF Update, Writes

LEMMA FailWrites ==
  ASSUME TypeOK, NEW j \in JobId, FailJob(j)
  PROVE  Writes(j, "failed", jobs[j].retry_count)
<1> DEFINE row == [jobs[j] EXCEPT !.status = "failed", !.completed_at = "recent"]
<1>1. jobs[j] \in Row
  BY DEF TypeOK
<1>2. /\ row \in Row /\ row.status = "failed"
      /\ row.retry_count = jobs[j].retry_count /\ row.max_retries = jobs[j].max_retries
  BY <1>1 DEF Row, Status, Live
<1>3. jobs' = Update(j, row) \/ jobs' = jobs
  BY DEF FailJob, StatementFails
<1> HIDE DEF row
<1>4. QED
  BY <1>2, <1>3 DEF Update, Writes

LEMMA RetryWrites ==
  ASSUME TypeOK, NEW j \in JobId, NEW n \in Nat, RetryJob(j, n)
  PROVE  Writes(j, "pending", n)
<1> DEFINE row == [jobs[j] EXCEPT !.status = "pending", !.retry_count = n, !.due = FALSE]
<1>1. jobs[j] \in Row
  BY DEF TypeOK
<1>2. /\ row \in Row /\ row.status = "pending" /\ row.retry_count = n
      /\ row.max_retries = jobs[j].max_retries /\ row.completed_at = jobs[j].completed_at
  BY <1>1 DEF Row, Status, Live
<1>3. jobs' = Update(j, row) \/ jobs' = jobs
  BY DEF RetryJob, StatementFails
<1> HIDE DEF row
<1>4. QED
  BY <1>2, <1>3 DEF Update, Writes

\* The UPDATE of Claim, likewise.
LEMMA ClaimWrites ==
  ASSUME TypeOK, NEW t \in Thread, held[t].id \in JobId, Claim(t)
  PROVE  LET j == held[t].id IN
         IF HasRow(j)
         THEN \E row \in Row : /\ jobs' = [jobs EXCEPT ![j] = row]
                               /\ row.status = "running"
                               /\ row.retry_count = jobs[j].retry_count
                               /\ row.max_retries = jobs[j].max_retries
                               /\ row.completed_at = jobs[j].completed_at
         ELSE jobs' = jobs
<1> DEFINE j   == held[t].id
           row == [jobs[j] EXCEPT !.status = "running"]
<1>1. jobs[j] \in Row
  BY DEF TypeOK
<1>2. jobs' = Update(j, row)
  BY DEF Claim
<1> HIDE DEF j
<1>3. /\ row \in Row /\ row.status = "running"
      /\ row.retry_count = jobs[j].retry_count /\ row.max_retries = jobs[j].max_retries
      /\ row.completed_at = jobs[j].completed_at
  BY <1>1 DEF Row, Status, Live
<1> HIDE DEF row
<1>4. IF HasRow(j) THEN jobs' = [jobs EXCEPT ![j] = row] ELSE jobs' = jobs
  BY <1>2 DEF Update
<1>5. QED
  BY <1>3, <1>4 DEF j

LEMMA WritesType ==
  ASSUME TypeOK, NEW j \in JobId, NEW status, NEW n, Writes(j, status, n)
  PROVE  jobs' \in [JobId -> Row]
BY DEF TypeOK, Writes

-----------------------------------------------------------------------------
(* Type correctness, together with the facts on the jobs that threads hold: *)
(* a busy thread's id is a job, so its statements are well defined.         *)

TypeInv == TypeOK /\ HeldJobs

LEMMA TypeInit == Init => TypeInv
<1> SUFFICES ASSUME Init PROVE TypeInv
  OBVIOUS
<1>1. NoRow \in Row
  BY NoRowType
<1>2. TypeOK
  BY <1>1 DEF Init, TypeOK, HeldNothing
<1>3. HeldJobs
  BY DEF Init, HeldJobs, Busy
<1>4. QED
  BY <1>2, <1>3 DEF TypeInv

\* Rows never return to "unused", never reappear, and keep their max_retries.
RowsPersist ==
  \A j \in JobId : jobs[j].status # "unused" =>
    /\ jobs'[j].status # "unused"
    /\ jobs'[j].status \in Live =>
         /\ jobs[j].status \in Live
         /\ jobs'[j].max_retries = jobs[j].max_retries

\* A step that gives no thread a new job.
NoNewHolder ==
  \A t \in Thread : pc'[t] \in {"selected", "executing"} =>
                     Busy(t) /\ held'[t] = held[t]

LEMMA HeldJobsStable ==
  ASSUME TypeInv, RowsPersist, NoNewHolder
  PROVE  HeldJobs'
BY DEF TypeInv, HeldJobs, RowsPersist, NoNewHolder, Busy, HasRow

\* A statement that leaves the row in the table.
LEMMA WritesPersist ==
  ASSUME TypeOK, NEW j \in JobId, NEW status \in Live, NEW n, Writes(j, status, n)
  PROVE  RowsPersist
BY DEF TypeOK, Writes, RowsPersist, HasRow, Live

LEMMA TypeCall == TypeInv /\ Call => TypeInv'
<1> SUFFICES ASSUME TypeInv, Call PROVE TypeInv'
  OBVIOUS
<1> USE DEF TypeInv
<1>1. CASE \E i \in Instance, ty \in JobType : RegisterHandler(i, ty)
  BY <1>1 DEF RegisterHandler, TypeOK, HeldJobs, Busy, HasRow
<1>2. ASSUME NEW j \in JobId, NEW ty \in JobType, NEW prio \in Priority,
             NEW limit \in RetryLimit, NEW delayed \in BOOLEAN,
             Enqueue(j, ty, prio, limit, delayed)
      PROVE  TypeInv'
  <2> DEFINE row == [NoRow EXCEPT !.status = "pending", !.job_type = ty,
                                  !.priority = prio, !.max_retries = limit,
                                  !.due = ~delayed, !.created = arrivals]
  <2>1. row \in Row
    <3>1. prio \in Int /\ limit \in Nat /\ arrivals \in Nat
      BY PriorityType, RetryLimitType DEF TypeOK
    <3>2. (~delayed) \in BOOLEAN
      OBVIOUS
    <3>3. QED
      BY <3>1, <3>2, NoRowType DEF Row, Status, Live
  <2>2. jobs' = [jobs EXCEPT ![j] = row]
    BY <1>2 DEF Enqueue
  <2> HIDE DEF row
  <2>3. TypeOK'
    BY <1>2, <2>1, <2>2 DEF Enqueue, TypeOK
  <2>4. RowsPersist
    BY <1>2, <2>2 DEF Enqueue, TypeOK, RowsPersist
  <2>5. NoNewHolder
    BY <1>2 DEF Enqueue, NoNewHolder, Busy
  <2>6. QED
    BY <2>3, <2>4, <2>5, HeldJobsStable
<1>3. ASSUME NEW j \in JobId, CancelJob(j)
      PROVE  TypeInv'
  <2>1. TypeOK'
    BY <1>3 DEF CancelJob, Cancellable, TypeOK, Row, Status, Live
  <2>2. RowsPersist
    BY <1>3 DEF CancelJob, Cancellable, TypeOK, Row, RowsPersist, Live
  <2>3. NoNewHolder
    BY <1>3 DEF CancelJob, Cancellable, NoNewHolder, Busy
  <2>4. QED
    BY <2>1, <2>2, <2>3, HeldJobsStable
<1>4. CASE PurgeCompleted
  <2>1. [NoRow EXCEPT !.status = "purged"] \in Row
    BY NoRowType DEF Row, Status
  <2>2. [NoRow EXCEPT !.status = "purged"].status = "purged"
    BY DEF NoRow
  <2>3. TypeOK'
    BY <1>4, <2>1 DEF PurgeCompleted, TypeOK
  <2>4. RowsPersist
    BY <1>4, <2>2 DEF PurgeCompleted, TypeOK, RowsPersist, Live
  <2>5. NoNewHolder
    BY <1>4 DEF PurgeCompleted, NoNewHolder, Busy
  <2>6. QED
    BY <2>3, <2>4, <2>5, HeldJobsStable
<1>5. QED
  BY <1>1, <1>2, <1>3, <1>4 DEF Call

\* Time changes nothing of a row but due and completed_at.
LEMMA TimeRow ==
  ASSUME TypeOK, NEW j \in JobId, BecomeDue(j) \/ Age(j)
  PROVE  \E row \in Row :
           /\ jobs' = [jobs EXCEPT ![j] = row]
           /\ row.status = jobs[j].status
           /\ row.max_retries = jobs[j].max_retries
           /\ row.retry_count = jobs[j].retry_count
           /\ row.completed_at = jobs[j].completed_at \/ jobs[j].completed_at # "null"
<1> DEFINE ready == [jobs[j] EXCEPT !.due = TRUE]
           older == [jobs[j] EXCEPT !.completed_at = "old"]
<1>1. jobs[j] \in Row
  BY DEF TypeOK
<1>2. /\ ready \in Row /\ ready.status = jobs[j].status
      /\ ready.max_retries = jobs[j].max_retries
      /\ ready.retry_count = jobs[j].retry_count
      /\ ready.completed_at = jobs[j].completed_at
  BY <1>1 DEF Row
<1>3. /\ older \in Row /\ older.status = jobs[j].status
      /\ older.max_retries = jobs[j].max_retries
      /\ older.retry_count = jobs[j].retry_count
  BY <1>1 DEF Row
<1>4. CASE BecomeDue(j)
  <2>1. jobs' = [jobs EXCEPT ![j] = ready]
    BY <1>4 DEF BecomeDue
  <2> HIDE DEF ready
  <2>2. QED
    BY <1>2, <2>1
<1>5. CASE Age(j)
  <2>1. jobs' = [jobs EXCEPT ![j] = older] /\ jobs[j].completed_at # "null"
    BY <1>5 DEF Age
  <2> HIDE DEF older
  <2>2. QED
    BY <1>3, <2>1
<1>6. QED
  BY <1>4, <1>5

LEMMA TypeTime == TypeInv /\ Time => TypeInv'
<1> SUFFICES ASSUME TypeInv, NEW j \in JobId, BecomeDue(j) \/ Age(j)
             PROVE TypeInv'
  BY DEF Time
<1>1. PICK row \in Row : /\ jobs' = [jobs EXCEPT ![j] = row]
                         /\ row.status = jobs[j].status
                         /\ row.max_retries = jobs[j].max_retries
  BY TimeRow DEF TypeInv
<1>2. TypeOK'
  BY <1>1 DEF BecomeDue, Age, TypeInv, TypeOK
<1>3. RowsPersist
  BY <1>1 DEF TypeInv, TypeOK, RowsPersist
<1>4. NoNewHolder
  BY DEF BecomeDue, Age, NoNewHolder, Busy
<1>5. QED
  BY <1>2, <1>3, <1>4, HeldJobsStable DEF TypeInv

LEMMA TypeStep ==
  ASSUME TypeInv, NEW t \in Thread, Step(t)
  PROVE  TypeInv'
<1> USE DEF TypeInv
<1>1. CASE PollEmpty(t)
  BY <1>1 DEF PollEmpty, vars, TypeOK, HeldJobs, Busy, HasRow
<1>2. CASE Select(t)
  <2>1. PICK j \in NextJobs : held' = [held EXCEPT ![t] = [id |-> j, row |-> jobs[j]]]
    BY <1>2 DEF Select
  <2>2. j \in JobId /\ jobs[j].status = "pending" /\ jobs[j] \in Row
    BY <2>1 DEF NextJobs, Eligible, TypeOK
  <2>3. TypeOK'
    BY <1>2, <2>1, <2>2 DEF Select, TypeOK
  <2>4. HeldJobs'
    BY <1>2, <2>1, <2>2 DEF Select, TypeOK, HeldJobs, Busy, HasRow
  <2>5. QED
    BY <2>3, <2>4
<1>3. CASE Claim(t)
  <2>1. held[t].id \in JobId
    BY <1>3 DEF Claim, HeldJobs, Busy
  <2>2. TypeOK'
    <3>1. jobs' \in [JobId -> Row]
      BY <1>3, <2>1, ClaimWrites DEF TypeOK
    <3>2. /\ pc' = [pc EXCEPT ![t] = "executing"]
          /\ attempts' = [attempts EXCEPT ![held[t].id] = @ + 1]
          /\ UNCHANGED <<arrivals, handlers, running, held>>
      BY <1>3 DEF Claim
    <3>3. QED
      BY <2>1, <3>1, <3>2 DEF TypeOK
  <2>3. RowsPersist
    BY <1>3, <2>1, ClaimWrites DEF TypeOK, RowsPersist, HasRow, Live
  <2>4. NoNewHolder
    BY <1>3 DEF Claim, TypeOK, NoNewHolder, Busy
  <2>5. QED
    BY <2>2, <2>3, <2>4, HeldJobsStable
<1>4. CASE ClaimFails(t)
  <2>1. TypeOK'
    BY <1>4, NoRowType DEF ClaimFails, StatementFails, TypeOK, HeldNothing
  <2>2. NoNewHolder /\ RowsPersist
    BY <1>4 DEF ClaimFails, StatementFails, TypeOK, NoNewHolder, Busy, RowsPersist
  <2>3. QED
    BY <2>1, <2>2, HeldJobsStable
<1>5. CASE NoHandler(t) \/ HandlerReturns(t) \/ HandlerRaises(t)
  <2> DEFINE j == held[t].id
             n == held[t].row.retry_count + 1
  <2>1. j \in JobId /\ n \in Nat
    BY <1>5 DEF NoHandler, HandlerReturns, HandlerRaises, Executing, HeldJobs, Busy, TypeOK, Row
  <2>2. CompleteJob(j) \/ FailJob(j) \/ RetryJob(j, n)
    BY <1>5 DEF NoHandler, HandlerReturns, HandlerRaises
  <2>3. jobs' \in [JobId -> Row] /\ RowsPersist
    BY <2>1, <2>2, CompleteWrites, FailWrites, RetryWrites, WritesType, WritesPersist
       DEF Live
  <2>4. Release(t)
    BY <1>5 DEF NoHandler, HandlerReturns, HandlerRaises
  <2>5. TypeOK'
    BY <2>3, <2>4, NoRowType DEF Release, TypeOK, HeldNothing
  <2>6. NoNewHolder
    BY <2>4 DEF Release, TypeOK, NoNewHolder, Busy
  <2>7. QED
    BY <2>3, <2>5, <2>6, HeldJobsStable
<1>6. CASE LoopExits(t)
  <2>1. TypeOK'
    BY <1>6 DEF LoopExits, TypeOK
  <2>2. NoNewHolder /\ RowsPersist
    BY <1>6 DEF LoopExits, TypeOK, NoNewHolder, Busy, RowsPersist
  <2>3. QED
    BY <2>1, <2>2, HeldJobsStable
<1>7. QED
  BY <1>1, <1>2, <1>3, <1>4, <1>5, <1>6 DEF Step

LEMMA TypeControl == TypeInv /\ Control => TypeInv'
<1> SUFFICES ASSUME TypeInv, NEW i \in Instance,
                    StartWorker(i) \/ StopWorker(i) \/ Crash(i)
             PROVE TypeInv'
  BY DEF Control
<1> USE DEF TypeInv
<1>1. RowsPersist
  BY DEF StartWorker, StopWorker, Crash, RowsPersist
<1>2. CASE StartWorker(i)
  <2>1. TypeOK' /\ NoNewHolder
    BY <1>2 DEF StartWorker, TypeOK, NoNewHolder, Busy
  <2>2. QED
    BY <1>1, <2>1, HeldJobsStable
<1>3. CASE StopWorker(i)
  <2>1. TypeOK' /\ NoNewHolder
    BY <1>3 DEF StopWorker, TypeOK, NoNewHolder, Busy
  <2>2. QED
    BY <1>1, <2>1, HeldJobsStable
<1>4. CASE Crash(i)
  <2>1. HeldNothing \in [id: JobId \cup {NoJob}, row: Row]
    BY NoRowType DEF HeldNothing
  <2>2. TypeOK'
    BY <1>4, <2>1 DEF Crash, TypeOK
  <2>3. NoNewHolder
    BY <1>4 DEF Crash, TypeOK, NoNewHolder, Busy
  <2>4. QED
    BY <1>1, <2>2, <2>3, HeldJobsStable
<1>5. QED
  BY <1>2, <1>3, <1>4

LEMMA TypeStutter == TypeInv /\ UNCHANGED vars => TypeInv'
BY DEF TypeInv, TypeOK, HeldJobs, Busy, HasRow, vars

LEMMA TypeNext == TypeInv /\ [Next]_vars => TypeInv'
BY TypeCall, TypeTime, TypeStep, TypeControl, TypeStutter DEF Next

\* The rows, the threads and the copies they hold keep their types.
THEOREM TypeCorrect == Spec => []TypeOK
<1>1. TypeInv => TypeOK
  BY DEF TypeInv
<1>2. QED
  BY <1>1, TypeInit, TypeNext, PTL DEF Spec

-----------------------------------------------------------------------------
(* The retry budget. *)

\* A row that is kept as it was, or rewritten with no retries.
BudgetKept ==
  \A j \in JobId : \/ jobs'[j].retry_count = 0
                   \/ /\ jobs'[j].retry_count = jobs[j].retry_count
                      /\ jobs'[j].max_retries = jobs[j].max_retries

LEMMA BudgetStable == RetryBudget /\ BudgetKept => RetryBudget'
BY DEF RetryBudget, BudgetKept

LEMMA NoRowRetries ==
  /\ NoRow.retry_count = 0
  /\ [NoRow EXCEPT !.status = "purged"].retry_count = 0
BY DEF NoRow

LEMMA BudgetCall == TypeOK /\ Call => BudgetKept
<1> SUFFICES ASSUME TypeOK, Call PROVE BudgetKept
  OBVIOUS
<1>1. CASE \E i \in Instance, ty \in JobType : RegisterHandler(i, ty)
  BY <1>1 DEF RegisterHandler, BudgetKept
<1>2. ASSUME NEW j \in JobId, NEW ty \in JobType, NEW prio \in Priority,
             NEW limit \in RetryLimit, NEW delayed \in BOOLEAN,
             Enqueue(j, ty, prio, limit, delayed)
      PROVE  BudgetKept
  <2> DEFINE row == [NoRow EXCEPT !.status = "pending", !.job_type = ty,
                                  !.priority = prio, !.max_retries = limit,
                                  !.due = ~delayed, !.created = arrivals]
  <2>1. row.retry_count = 0
    BY DEF NoRow
  <2>2. jobs' = [jobs EXCEPT ![j] = row]
    BY <1>2 DEF Enqueue
  <2> HIDE DEF row
  <2>3. QED
    BY <2>1, <2>2 DEF TypeOK, BudgetKept
<1>3. ASSUME NEW j \in JobId, CancelJob(j)
      PROVE  BudgetKept
  BY <1>3 DEF CancelJob, Cancellable, TypeOK, Row, BudgetKept
<1>4. CASE PurgeCompleted
  BY <1>4, NoRowRetries DEF PurgeCompleted, TypeOK, BudgetKept
<1>5. QED
  BY <1>1, <1>2, <1>3, <1>4 DEF Call

LEMMA BudgetTime == TypeOK /\ Time => BudgetKept
<1> SUFFICES ASSUME TypeOK, NEW j \in JobId, BecomeDue(j) \/ Age(j)
             PROVE BudgetKept
  BY DEF Time
<1>1. QED
  BY TimeRow DEF TypeOK, BudgetKept

LEMMA BudgetClose ==
  ASSUME TypeOK, NEW j \in JobId, CompleteJob(j) \/ FailJob(j)
  PROVE  BudgetKept
BY CompleteWrites, FailWrites DEF Writes, TypeOK, BudgetKept

\* The only statement that writes a retry_count, after the comparison with the
\* max_retries of the worker's copy, which is that of the row.
LEMMA BudgetRaise ==
  ASSUME RetryBudgetInv, NEW t \in Thread, HandlerRaises(t)
  PROVE  RetryBudget'
<1> DEFINE j == held[t].id
           n == held[t].row.retry_count + 1
<1>1. /\ j \in JobId /\ n \in Nat
      /\ HasRow(j) => held[t].row.max_retries = jobs[j].max_retries
  BY DEF RetryBudgetInv, TypeOK, HeldJobs, Busy, HandlerRaises, Executing, Row
<1>2. CASE FailJob(j)
  BY <1>1, <1>2, BudgetClose, BudgetStable DEF RetryBudgetInv
<1>3. CASE RetryJob(j, n) /\ n < held[t].row.max_retries
  <2>1. TypeOK /\ RetryBudget
    BY DEF RetryBudgetInv
  <2>2. Writes(j, "pending", n)
    BY <1>1, <1>3, <2>1, RetryWrites
  <2>3. HasRow(j) => n < jobs[j].max_retries
    BY <1>1, <1>3
  <2> HIDE DEF j, n
  <2>4. QED
    BY <1>1, <2>1, <2>2, <2>3 DEF Writes, RetryBudget, TypeOK
<1>4. QED
  BY <1>2, <1>3 DEF HandlerRaises, RetriesLeft

LEMMA BudgetStep ==
  ASSUME RetryBudgetInv, NEW t \in Thread, Step(t)
  PROVE  RetryBudget'
<1> USE DEF RetryBudgetInv
<1>1. CASE jobs' = jobs
  BY <1>1 DEF RetryBudget
<1>2. CASE Claim(t)
  <2>1. held[t].id \in JobId
    BY <1>2 DEF Claim, HeldJobs, Busy
  <2>2. BudgetKept
    BY <1>2, <2>1, ClaimWrites DEF TypeOK, BudgetKept
  <2>3. QED
    BY <2>2, BudgetStable
<1>3. CASE NoHandler(t) \/ HandlerReturns(t)
  <2>1. held[t].id \in JobId
    BY <1>3 DEF NoHandler, HandlerReturns, Executing, HeldJobs, Busy
  <2>2. QED
    BY <1>3, <2>1, BudgetClose, BudgetStable DEF NoHandler, HandlerReturns
<1>4. CASE HandlerRaises(t)
  BY <1>4, BudgetRaise
<1>5. QED
  BY <1>1, <1>2, <1>3, <1>4
     DEF Step, PollEmpty, vars, Select, ClaimFails, StatementFails, LoopExits

LEMMA BudgetNext == RetryBudgetInv /\ [Next]_vars => RetryBudgetInv'
<1> SUFFICES ASSUME RetryBudgetInv, [Next]_vars PROVE RetryBudgetInv'
  OBVIOUS
<1>1. TypeOK' /\ HeldJobs'
  BY TypeNext DEF RetryBudgetInv, TypeInv
<1>2. RetryBudget'
  <2>1. CASE Call
    BY <2>1, BudgetCall, BudgetStable DEF RetryBudgetInv
  <2>2. CASE Time
    BY <2>2, BudgetTime, BudgetStable DEF RetryBudgetInv
  <2>3. ASSUME NEW t \in Thread, Step(t) PROVE RetryBudget'
    BY <2>3, BudgetStep
  <2>4. CASE jobs' = jobs
    BY <2>4 DEF RetryBudgetInv, RetryBudget
  <2>5. QED
    BY <2>1, <2>2, <2>3, <2>4
       DEF Next, Control, StartWorker, StopWorker, Crash, vars
<1>3. QED
  BY <1>1, <1>2 DEF RetryBudgetInv

\* However many workers write the same row from stale copies, its retry_count
\* stays below its max_retries.
THEOREM RetryBudgetHolds == Spec => []RetryBudget
<1>1. Init => RetryBudgetInv
  <2>1. Init => RetryBudget
    BY NoRowRetries DEF Init, RetryBudget
  <2>2. QED
    BY <2>1, TypeInit DEF TypeInv, RetryBudgetInv
<1>2. RetryBudgetInv => RetryBudget
  BY DEF RetryBudgetInv
<1>3. QED
  BY <1>1, <1>2, BudgetNext, PTL DEF Spec

-----------------------------------------------------------------------------
(* No running row without a worker. *)

Faultless == Faults \cap {"crash", "db"} = {}

Holds(t, j) == Executing(t) /\ held[t].id = j

AllHeld == \A j \in JobId : jobs[j].status = "running" => \E t \in Thread : Holds(t, j)

HeldInv == TypeInv /\ AllHeld

\* Rows that say "running" said so before, and whoever was executing still is.
LEMMA HeldStable ==
  ASSUME AllHeld,
         \A j \in JobId : jobs'[j].status = "running" =>
           /\ jobs[j].status = "running"
           /\ \A t \in Thread : Holds(t, j) => Holds(t, j)'
  PROVE  AllHeld'
BY DEF AllHeld

LEMMA HeldCall == HeldInv /\ Call => AllHeld'
<1> SUFFICES ASSUME HeldInv, Call PROVE AllHeld'
  OBVIOUS
<1> USE DEF HeldInv, TypeInv
<1>1. pc' = pc /\ held' = held
  BY DEF Call, RegisterHandler, Enqueue, CancelJob, PurgeCompleted
<1>2. ASSUME NEW j \in JobId, jobs'[j].status = "running"
      PROVE  jobs[j].status = "running"
  <2>1. CASE \E i \in Instance, ty \in JobType : RegisterHandler(i, ty)
    BY <1>2, <2>1 DEF RegisterHandler
  <2>2. ASSUME NEW k \in JobId, NEW ty \in JobType, NEW prio \in Priority,
               NEW limit \in RetryLimit, NEW delayed \in BOOLEAN,
               Enqueue(k, ty, prio, limit, delayed)
        PROVE  jobs[j].status = "running"
    <3>1. jobs'[k].status = "pending" /\ (j # k => jobs'[j] = jobs[j])
      BY <2>2 DEF Enqueue, TypeOK, NoRow
    <3> QED
      BY <1>2, <3>1
  <2>3. ASSUME NEW k \in JobId, CancelJob(k) PROVE jobs[j].status = "running"
    <3>1. jobs'[k].status = "cancelled" /\ (j # k => jobs'[j] = jobs[j])
      BY <2>3 DEF CancelJob, TypeOK, Row
    <3> QED
      BY <1>2, <3>1
  <2>4. CASE PurgeCompleted
    <3>1. [NoRow EXCEPT !.status = "purged"].status = "purged"
      BY DEF NoRow
    <3> QED
      BY <1>2, <2>4, <3>1 DEF PurgeCompleted
  <2> QED
    BY <2>1, <2>2, <2>3, <2>4 DEF Call
<1> QED
  BY <1>1, <1>2, HeldStable DEF Holds, Executing

\* Where no statement fails, a closing method takes the row out of "running".
LEMMA CloseLeaves ==
  ASSUME Faultless, TypeOK, NEW k \in JobId, NEW n \in Nat,
         CompleteJob(k) \/ FailJob(k) \/ RetryJob(k, n)
  PROVE  /\ jobs'[k].status # "running"
         /\ \A j \in JobId : j # k => jobs'[j] = jobs[j]
<1> DEFINE done  == [jobs[k] EXCEPT !.status = "completed", !.completed_at = "recent"]
           lost  == [jobs[k] EXCEPT !.status = "failed", !.completed_at = "recent"]
           again == [jobs[k] EXCEPT !.status = "pending", !.retry_count = n, !.due = FALSE]
<1>1. jobs[k] \in Row
  BY DEF TypeOK
<1>2. done.status = "completed" /\ lost.status = "failed" /\ again.status = "pending"
  BY <1>1 DEF Row
<1>3. ~StatementFails
  BY DEF Faultless, StatementFails
<1>4. jobs' = Update(k, done) \/ jobs' = Update(k, lost) \/ jobs' = Update(k, again)
  BY <1>3 DEF CompleteJob, FailJob, RetryJob
<1> HIDE DEF done, lost, again
<1>5. QED
  BY <1>2, <1>4 DEF Update, HasRow, TypeOK, Live

\* A thread that has nothing to do with a running row leaves it alone; the one that
\* executes it writes another status, the only failure excepted being a failing statement.
LEMMA HeldStep ==
  ASSUME Faultless, HeldInv, NEW t \in Thread, Step(t)
  PROVE  AllHeld'
<1> USE DEF HeldInv, TypeInv
<1>1. ASSUME NEW u \in Thread, u # t PROVE pc'[u] = pc[u] /\ held'[u] = held[u]
  BY <1>1 DEF Step, PollEmpty, Select, Claim, ClaimFails, NoHandler, HandlerReturns,
     HandlerRaises, Release, LoopExits, vars, TypeOK
<1>2. CASE jobs' = jobs /\ ~Executing(t)
  BY <1>1, <1>2 DEF AllHeld, Holds, Executing
<1>3. CASE Claim(t)
  <2> DEFINE k == held[t].id
  <2>1. k \in JobId /\ pc'[t] = "executing" /\ held'[t].id = k
    BY <1>3 DEF Claim, HeldJobs, Busy, TypeOK
  <2>2. \A j \in JobId : j # k => jobs'[j] = jobs[j]
    BY <1>3, <2>1, ClaimWrites DEF TypeOK
  <2>3. ~Executing(t)
    BY <1>3 DEF Claim, Executing
  <2>4. ASSUME NEW j \in JobId, jobs'[j].status = "running", j # k
        PROVE  \E u \in Thread : Holds(u, j)'
    <3>1. jobs[j].status = "running"
      BY <2>2, <2>4
    <3>2. PICK u \in Thread : Holds(u, j)
      BY <3>1 DEF AllHeld
    <3>3. u # t
      BY <2>3, <3>2 DEF Holds
    <3> QED
      BY <1>1, <3>2, <3>3 DEF Holds, Executing
  <2> HIDE DEF k
  <2> QED
    BY <2>1, <2>4 DEF AllHeld, Holds, Executing
<1>4. CASE NoHandler(t) \/ HandlerReturns(t) \/ HandlerRaises(t)
  <2> DEFINE k == held[t].id
             n == held[t].row.retry_count + 1
  <2>1. TypeOK /\ Executing(t)
    BY <1>4 DEF NoHandler, HandlerReturns, HandlerRaises
  <2>2. k \in JobId /\ n \in Nat
    BY <2>1 DEF HeldJobs, Busy, Executing, TypeOK, Row
  <2>3. CompleteJob(k) \/ FailJob(k) \/ RetryJob(k, n)
    BY <1>4 DEF NoHandler, HandlerReturns, HandlerRaises
  <2> HIDE DEF k, n
  <2>4. jobs'[k].status # "running" /\ \A j \in JobId : j # k => jobs'[j] = jobs[j]
    BY <2>1, <2>2, <2>3, CloseLeaves
  <2>5. ASSUME NEW j \in JobId, jobs'[j].status = "running"
        PROVE  \E u \in Thread : Holds(u, j)'
    <3>1. j # k /\ jobs[j].status = "running"
      BY <2>4, <2>5
    <3>2. PICK u \in Thread : Holds(u, j)
      BY <3>1 DEF AllHeld
    <3>3. u # t
      BY <3>1, <3>2 DEF Holds, k
    <3> QED
      BY <1>1, <3>2, <3>3 DEF Holds, Executing
  <2> QED
    BY <2>5 DEF AllHeld
<1> QED
  BY <1>2, <1>3, <1>4
     DEF Step, PollEmpty, Polls, vars, Select, ClaimFails, StatementFails, LoopExits, Executing

LEMMA HeldNext == Faultless => (HeldInv /\ [Next]_vars => HeldInv')
<1> SUFFICES ASSUME Faultless, HeldInv, [Next]_vars PROVE AllHeld'
  BY TypeNext DEF HeldInv
<1>1. CASE Call
  BY <1>1, HeldCall
<1>2. ASSUME NEW j \in JobId, BecomeDue(j) \/ Age(j) PROVE AllHeld'
  <2>1. \A k \in JobId : jobs'[k].status = jobs[k].status
    BY <1>2, TimeRow DEF HeldInv, TypeInv, TypeOK
  <2>2. pc' = pc /\ held' = held
    BY <1>2 DEF BecomeDue, Age
  <2> QED
    BY <2>1, <2>2, HeldStable DEF HeldInv, Holds, Executing
<1>3. ASSUME NEW t \in Thread, Step(t) PROVE AllHeld'
  BY <1>3, HeldStep
<1>4. CASE Control
  <2>1. jobs' = jobs /\ \A t \in Thread : Executing(t) => pc'[t] = pc[t] /\ held'[t] = held[t]
    BY <1>4 DEF Control, StartWorker, StopWorker, Crash, Faultless, Executing, HeldInv, TypeInv, TypeOK
  <2> QED
    BY <2>1, HeldStable DEF HeldInv, Holds, Executing
<1>5. CASE UNCHANGED vars
  BY <1>5, HeldStable DEF vars, HeldInv, Holds, Executing
<1> QED
  BY <1>1, <1>2, <1>3, <1>4, <1>5 DEF Next, Time

\* Without a crash and without a failing statement every row that says "running" is being
\* executed, for any number of workers that write it unguarded (process_next).
THEOREM RunningAreHeld == Spec => []RunningIsHeld
<1>1. CASE Faultless
  <2>1. Init => HeldInv
    <3>1. Init => AllHeld
      BY DEF Init, AllHeld, NoRow
    <3> QED
      BY <3>1, TypeInit DEF HeldInv
  <2>2. HeldInv /\ [Next]_vars => HeldInv'
    BY <1>1, HeldNext
  <2>3. HeldInv => RunningIsHeld
    BY DEF HeldInv, AllHeld, Holds, RunningIsHeld
  <2> QED
    BY <2>1, <2>2, <2>3, PTL DEF Spec
<1>2. CASE ~Faultless
  <2>1. RunningIsHeld
    BY <1>2 DEF RunningIsHeld, Faultless
  <2> QED
    BY <2>1, PTL
<1> QED
  BY <1>1, <1>2

-----------------------------------------------------------------------------
(* A single worker: the inductive invariant. *)

CountInv == RowsCount /\ CopyIsFresh

\* A step that rewrites only fields that the invariant does not read, gives no
\* thread a job, and counts no execution.
LEMMA CountStable ==
  ASSUME OneWorkerInv, NoNewHolder, attempts' = attempts, pc' = pc,
         \A j \in JobId : /\ jobs'[j].status = jobs[j].status
                          /\ jobs'[j].retry_count = jobs[j].retry_count
                          /\ \/ jobs'[j].completed_at = jobs[j].completed_at
                             \/ jobs[j].completed_at # "null"
  PROVE  CountInv'
BY DEF OneWorkerInv, RetryBudgetInv, HeldJobs, CountInv, RowsCount, CopyIsFresh,
       NoNewHolder, Busy

LEMMA CountCall == OneWorkerInv /\ Call => CountInv'
<1> SUFFICES ASSUME OneWorkerInv, Call PROVE CountInv'
  OBVIOUS
<1> USE DEF OneWorkerInv, RetryBudgetInv
<1>1. CASE \E i \in Instance, ty \in JobType : RegisterHandler(i, ty)
  BY <1>1 DEF RegisterHandler, CountInv, RowsCount, CopyIsFresh, Busy
<1>2. ASSUME NEW j \in JobId, NEW ty \in JobType, NEW prio \in Priority,
             NEW limit \in RetryLimit, NEW delayed \in BOOLEAN,
             Enqueue(j, ty, prio, limit, delayed)
      PROVE  CountInv'
  <2> DEFINE row == [NoRow EXCEPT !.status = "pending", !.job_type = ty,
                                  !.priority = prio, !.max_retries = limit,
                                  !.due = ~delayed, !.created = arrivals]
  <2>1. /\ row.status = "pending" /\ row.retry_count = 0
        /\ row.completed_at = "null"
    BY DEF NoRow
  <2>2. /\ jobs' = [jobs EXCEPT ![j] = row] /\ jobs[j].status = "unused"
        /\ pc' = pc /\ held' = held /\ attempts' = attempts
    BY <1>2 DEF Enqueue
  <2> HIDE DEF row
  <2>3. RowsCount'
    BY <2>1, <2>2 DEF TypeOK, RowsCount
  <2>4. CopyIsFresh'
    BY <2>1, <2>2 DEF TypeOK, CopyIsFresh, HeldJobs, Busy
  <2>5. QED
    BY <2>3, <2>4 DEF CountInv
<1>3. ASSUME NEW j \in JobId, CancelJob(j)
      PROVE  CountInv'
  <2>1. /\ jobs[j].status = "pending" /\ pc' = pc /\ held' = held /\ attempts' = attempts
        /\ jobs' = [jobs EXCEPT ![j].status = "cancelled"]
    BY <1>3 DEF CancelJob, Cancellable
  <2>2. \A k \in JobId : /\ jobs'[k].retry_count = jobs[k].retry_count
                         /\ jobs'[k].completed_at = jobs[k].completed_at
                         /\ k # j => jobs'[k].status = jobs[k].status
    BY <2>1 DEF TypeOK, Row
  <2>3. jobs'[j].status = "cancelled"
    BY <2>1 DEF TypeOK, Row
  <2>4. RowsCount'
    BY <2>1, <2>2, <2>3 DEF RowsCount
  <2>5. CopyIsFresh'
    BY <2>1, <2>2, <2>3 DEF CopyIsFresh, HeldJobs, Busy
  <2>6. QED
    BY <2>4, <2>5 DEF CountInv
<1>4. CASE PurgeCompleted
  <2>1. [NoRow EXCEPT !.status = "purged"].status = "purged"
    BY DEF NoRow
  <2>2. \A j \in JobId : \/ jobs'[j] = jobs[j]
                         \/ jobs'[j].status = "purged" /\ Purgeable(j)
    BY <1>4, <2>1 DEF PurgeCompleted
  <2>3. pc' = pc /\ held' = held /\ attempts' = attempts
    BY <1>4 DEF PurgeCompleted
  <2>4. RowsCount'
    BY <2>2, <2>3 DEF RowsCount
  <2>5. CopyIsFresh'
    BY <2>2, <2>3 DEF CopyIsFresh, HeldJobs, Busy, Purgeable, RowsCount
  <2>6. QED
    BY <2>4, <2>5 DEF CountInv
<1>5. QED
  BY <1>1, <1>2, <1>3, <1>4 DEF Call

LEMMA CountTime == OneWorkerInv /\ Time => CountInv'
<1> SUFFICES ASSUME OneWorkerInv, NEW j \in JobId, BecomeDue(j) \/ Age(j)
             PROVE CountInv'
  BY DEF Time
<1>1. NoNewHolder /\ attempts' = attempts /\ pc' = pc
  BY DEF BecomeDue, Age, NoNewHolder, Busy
<1>2. QED
  BY <1>1, TimeRow, CountStable DEF OneWorkerInv, RetryBudgetInv, TypeOK

\* The end of an execution by the only worker: its row is "running", so the
\* statement finds it, and no other thread holds a copy of it.
LEMMA CountClose ==
  ASSUME OneWorkerInv, OneWorker, NEW t \in Thread,
         NoHandler(t) \/ HandlerReturns(t) \/ HandlerRaises(t)
  PROVE  CountInv'
<1> USE DEF OneWorkerInv, RetryBudgetInv
<1> DEFINE j == held[t].id
           n == held[t].row.retry_count + 1
<1>1. /\ j \in JobId /\ n \in Nat /\ jobs[j].status = "running"
      /\ n = jobs[j].retry_count + 1
  BY DEF NoHandler, HandlerReturns, HandlerRaises, Executing, HeldJobs, Busy,
         CopyIsFresh, TypeOK, Row
<1>2. \/ Writes(j, "completed", jobs[j].retry_count)
      \/ Writes(j, "failed", jobs[j].retry_count)
      \/ Writes(j, "pending", n)
  BY <1>1, CompleteWrites, FailWrites, RetryWrites
     DEF NoHandler, HandlerReturns, HandlerRaises
<1>3. Release(t)
  BY DEF NoHandler, HandlerReturns, HandlerRaises
<1> HIDE DEF j, n
<1>4. RowsCount'
  BY <1>1, <1>2, <1>3 DEF Release, Writes, RowsCount, TypeOK
<1>5. CopyIsFresh'
  BY <1>3 DEF OneWorker, Release, CopyIsFresh, Busy, TypeOK
<1>6. QED
  BY <1>4, <1>5 DEF CountInv

LEMMA CountStep ==
  ASSUME OneWorkerInv, OneWorker, NEW t \in Thread, Step(t)
  PROVE  CountInv'
<1> USE DEF OneWorkerInv, RetryBudgetInv
<1>1. CASE PollEmpty(t)
  BY <1>1 DEF PollEmpty, vars, CountInv, RowsCount, CopyIsFresh, Busy
<1>2. CASE Select(t)
  <2>1. PICK j \in NextJobs : held' = [held EXCEPT ![t] = [id |-> j, row |-> jobs[j]]]
    BY <1>2 DEF Select
  <2>2. j \in JobId /\ jobs[j].status = "pending"
    BY <2>1 DEF NextJobs, Eligible
  <2>3. /\ pc' = [pc EXCEPT ![t] = "selected"]
        /\ jobs' = jobs /\ attempts' = attempts
    BY <1>2 DEF Select
  <2>4. RowsCount'
    BY <2>3 DEF RowsCount
  <2>5. CopyIsFresh'
    BY <2>1, <2>2, <2>3 DEF OneWorker, CopyIsFresh, Busy, TypeOK
  <2>6. QED
    BY <2>4, <2>5 DEF CountInv
<1>3. CASE Claim(t)
  <2> DEFINE j == held[t].id
  <2>1. /\ j \in JobId
        /\ jobs[j].status \in {"pending", "cancelled"}
        /\ held[t].row.retry_count = jobs[j].retry_count
    BY <1>3 DEF Claim, HeldJobs, Busy, CopyIsFresh
  <2>2. PICK row \in Row : /\ jobs' = [jobs EXCEPT ![j] = row]
                           /\ row.status = "running"
                           /\ row.retry_count = jobs[j].retry_count
                           /\ row.completed_at = jobs[j].completed_at
    BY <1>3, <2>1, ClaimWrites DEF HasRow, Live
  <2>3. /\ pc' = [pc EXCEPT ![t] = "executing"] /\ held' = held
        /\ attempts' = [attempts EXCEPT ![j] = @ + 1]
    BY <1>3 DEF Claim
  <2>4. CopyIsFresh'
    BY <2>1, <2>2, <2>3 DEF OneWorker, CopyIsFresh, Busy, TypeOK
  <2> HIDE DEF j
  <2>5. RowsCount'
    BY <2>1, <2>2, <2>3 DEF RowsCount, TypeOK, Row
  <2>6. QED
    BY <2>4, <2>5 DEF CountInv
<1>4. CASE ClaimFails(t) \/ LoopExits(t)
  <2>1. jobs' = jobs /\ attempts' = attempts
    BY <1>4 DEF ClaimFails, StatementFails, LoopExits
  <2>2. RowsCount'
    BY <2>1 DEF RowsCount
  <2>3. CopyIsFresh'
    BY <1>4 DEF OneWorker, ClaimFails, LoopExits, CopyIsFresh, Busy, TypeOK
  <2>4. QED
    BY <2>2, <2>3 DEF CountInv
<1>5. CASE NoHandler(t) \/ HandlerReturns(t) \/ HandlerRaises(t)
  BY <1>5, CountClose
<1>6. QED
  BY <1>1, <1>2, <1>3, <1>4, <1>5 DEF Step

LEMMA CountControl == OneWorkerInv /\ Control => CountInv'
<1> SUFFICES ASSUME OneWorkerInv, NEW i \in Instance,
                    StartWorker(i) \/ StopWorker(i) \/ Crash(i)
             PROVE CountInv'
  BY DEF Control
<1>1. jobs' = jobs /\ attempts' = attempts
  BY DEF StartWorker, StopWorker, Crash
<1>2. RowsCount'
  BY <1>1 DEF OneWorkerInv, RowsCount
<1>3. \A t \in Thread : Busy(t)' => /\ pc'[t] = pc[t] /\ held'[t] = held[t]
  BY DEF StartWorker, StopWorker, Crash, Busy, OneWorkerInv, RetryBudgetInv, TypeOK
<1>4. CopyIsFresh'
  BY <1>1, <1>3 DEF OneWorkerInv, CopyIsFresh, Busy
<1>5. QED
  BY <1>2, <1>4 DEF CountInv

LEMMA OneWorkerNext ==
  OneWorker => (OneWorkerInv /\ [Next]_vars => OneWorkerInv')
<1> SUFFICES ASSUME OneWorker, OneWorkerInv, [Next]_vars PROVE OneWorkerInv'
  OBVIOUS
<1>1. RetryBudgetInv'
  BY BudgetNext DEF OneWorkerInv
<1>2. CountInv'
  <2>1. CASE UNCHANGED vars
    BY <2>1 DEF vars, OneWorkerInv, CountInv, RowsCount, CopyIsFresh, Busy
  <2>2. QED
    BY <2>1, CountCall, CountTime, CountStep, CountControl DEF Next
<1>3. QED
  BY <1>1, <1>2 DEF OneWorkerInv, CountInv

LEMMA OneWorkerInit == Init => OneWorkerInv
<1> SUFFICES ASSUME Init PROVE OneWorkerInv
  OBVIOUS
<1>1. TypeOK /\ HeldJobs
  BY TypeInit DEF TypeInv
<1>2. RetryBudget /\ RowsCount /\ CopyIsFresh
  BY DEF Init, NoRow, RetryBudget, RowsCount, CopyIsFresh, Busy
<1>3. QED
  BY <1>1, <1>2 DEF OneWorkerInv, RetryBudgetInv

LEMMA OneWorkerAlways ==
  ASSUME OneWorker
  PROVE  Spec => []OneWorkerInv
<1>1. OneWorkerInv /\ [Next]_vars => OneWorkerInv'
  BY OneWorkerNext
<1>2. QED
  BY <1>1, OneWorkerInit, PTL DEF Spec

\* With one worker a job is executed at most max_retries times, or once.
THEOREM AttemptsAreBounded ==
  ASSUME OneWorker
  PROVE  Spec => []AttemptsBounded
<1>1. OneWorkerInv => AttemptsBounded
  BY DEF OneWorkerInv, RetryBudgetInv, TypeOK, Row, RetryBudget, RowsCount,
         AttemptsBounded, AttemptLimit, HasRow, Live
<1>2. QED
  BY <1>1, OneWorkerAlways, PTL

-----------------------------------------------------------------------------
(* A single worker: what a step does to the stages of the jobs. *)

\* Only the row of the job the worker holds can leave "running".
LEMMA WorkerRow ==
  ASSUME OneWorkerInv, NEW t \in Thread, Step(t), NEW k \in JobId,
         jobs'[k].status # jobs[k].status
  PROVE  /\ held[t].id = k
         /\ \/ Claim(t) /\ jobs[k].status \in {"pending", "cancelled"}
            \/ Executing(t) /\ jobs[k].status = "running"
<1> USE DEF OneWorkerInv, RetryBudgetInv
<1> DEFINE j == held[t].id
           n == held[t].row.retry_count + 1
<1>1. CASE jobs' = jobs
  BY <1>1
<1>2. CASE Claim(t)
  <2>1. /\ j \in JobId
        /\ jobs[j].status \in {"pending", "cancelled"}
    BY <1>2 DEF Claim, HeldJobs, Busy, CopyIsFresh
  <2>2. PICK row \in Row : jobs' = [jobs EXCEPT ![j] = row]
    BY <1>2, <2>1, ClaimWrites DEF HasRow, Live
  <2>3. QED
    BY <1>2, <2>1, <2>2 DEF TypeOK
<1>3. CASE NoHandler(t) \/ HandlerReturns(t) \/ HandlerRaises(t)
  <2>1. /\ j \in JobId /\ n \in Nat /\ jobs[j].status = "running" /\ Executing(t)
    BY <1>3 DEF NoHandler, HandlerReturns, HandlerRaises, Executing, HeldJobs, Busy,
                CopyIsFresh, TypeOK, Row
  <2>2. \/ Writes(j, "completed", jobs[j].retry_count)
        \/ Writes(j, "failed", jobs[j].retry_count)
        \/ Writes(j, "pending", n)
    BY <1>3, <2>1, CompleteWrites, FailWrites, RetryWrites
       DEF NoHandler, HandlerReturns, HandlerRaises
  <2> HIDE DEF j, n
  <2>3. k = j
    BY <2>2 DEF Writes, TypeOK
  <2>4. QED
    BY <2>1, <2>3 DEF j
<1>4. QED
  BY <1>1, <1>2, <1>3
     DEF Step, PollEmpty, vars, Select, ClaimFails, StatementFails, LoopExits

\* With one worker a completed or failed job stays so until it is purged.
THEOREM FinishedAreFinal ==
  ASSUME OneWorker
  PROVE  Spec => FinishedIsFinal
<1>1. OneWorkerInv /\ [Next]_vars =>
        [\A j \in JobId : jobs[j].status \in {"completed", "failed"} =>
           jobs'[j].status \in {jobs[j].status, "purged"}]_vars
  <2> SUFFICES ASSUME OneWorkerInv, Next, NEW k \in JobId,
                      jobs[k].status \in {"completed", "failed"}
               PROVE  jobs'[k].status \in {jobs[k].status, "purged"}
    OBVIOUS
  <2> USE DEF OneWorkerInv, RetryBudgetInv
  <2>1. CASE Call
    <3>1. CASE \E i \in Instance, ty \in JobType : RegisterHandler(i, ty)
      BY <3>1 DEF RegisterHandler
    <3>2. ASSUME NEW j \in JobId, NEW ty \in JobType, NEW prio \in Priority,
                 NEW limit \in RetryLimit, NEW delayed \in BOOLEAN,
                 Enqueue(j, ty, prio, limit, delayed)
          PROVE  jobs'[k].status \in {jobs[k].status, "purged"}
      <4>1. j # k
        BY <3>2 DEF Enqueue
      <4>2. QED
        BY <3>2, <4>1 DEF Enqueue, TypeOK
    <3>3. ASSUME NEW j \in JobId, CancelJob(j)
          PROVE  jobs'[k].status \in {jobs[k].status, "purged"}
      BY <3>3 DEF CancelJob, Cancellable, TypeOK
    <3>4. CASE PurgeCompleted
      <4>1. [NoRow EXCEPT !.status = "purged"].status = "purged"
        BY DEF NoRow
      <4>2. QED
        BY <3>4, <4>1 DEF PurgeCompleted
    <3>5. QED
      BY <2>1, <3>1, <3>2, <3>3, <3>4 DEF Call
  <2>2. CASE Time
    BY <2>2, TimeRow DEF Time, TypeOK
  <2>3. ASSUME NEW t \in Thread, Step(t)
        PROVE  jobs'[k].status \in {jobs[k].status, "purged"}
    BY <2>3, WorkerRow
  <2>4. CASE Control
    BY <2>4 DEF Control, StartWorker, StopWorker, Crash
  <2>5. QED
    BY <2>1, <2>2, <2>3, <2>4 DEF Next
<1>2. QED
  BY <1>1, OneWorkerAlways, PTL DEF Spec, FinishedIsFinal

-----------------------------------------------------------------------------
(* A single worker: no early failure. *)

\* With one worker a job that has its handler fails only with its attempts spent, also
\* when its row was read before a crash or a failing statement (process_next).
THEOREM NoneFailsEarly ==
  ASSUME OneWorker
  PROVE  Spec => NoEarlyFailure
<1>1. ASSUME OneWorkerInv, Next, NEW t \in Thread, FailsNow(t)
      PROVE  attempts[held[t].id] >= jobs[held[t].id].max_retries
  <2> USE <1>1 DEF OneWorkerInv, RetryBudgetInv, FailsNow
  <2> DEFINE j == held[t].id
             n == held[t].row.retry_count + 1
  <2>1. /\ j \in JobId /\ n \in Nat /\ jobs[j].status = "running"
        /\ n = attempts[j] /\ held[t].row.max_retries = jobs[j].max_retries
        /\ jobs[j].max_retries \in Nat
    BY DEF Executing, HeldJobs, Busy, CopyIsFresh, RowsCount, HasRow, Live, TypeOK, Row
  <2>2. ~Call
    <3>1. ASSUME NEW k \in JobId, NEW ty \in JobType, NEW prio \in Priority,
                 NEW limit \in RetryLimit, NEW delayed \in BOOLEAN,
                 Enqueue(k, ty, prio, limit, delayed)
          PROVE  FALSE
      BY <2>1, <3>1 DEF Enqueue, TypeOK
    <3>2. ASSUME NEW k \in JobId, CancelJob(k) PROVE FALSE
      BY <2>1, <3>2 DEF CancelJob, Cancellable, TypeOK
    <3>3. ASSUME PurgeCompleted PROVE FALSE
      BY <2>1, <3>3 DEF PurgeCompleted, Purgeable
    <3> QED
      BY <3>1, <3>2, <3>3 DEF Call, RegisterHandler
  <2>3. ~Time
    BY <2>1, TimeRow DEF Time, TypeOK
  <2>4. ~Control
    BY DEF Control, StartWorker, StopWorker, Crash
  <2>5. Step(t)
    BY <2>2, <2>3, <2>4 DEF Next, OneWorker
  <2>6. HandlerReturns(t) \/ HandlerRaises(t)
    BY <2>5 DEF Step, PollEmpty, Polls, Select, Claim, ClaimFails, NoHandler, LoopExits, Executing
  <2>7. ~Writes(j, "completed", jobs[j].retry_count) /\ ~Writes(j, "pending", n)
    BY <2>1 DEF Writes, TypeOK
  <2>8. HandlerRaises(t) /\ ~RetriesLeft(n, held[t].row.max_retries)
    BY <2>1, <2>6, <2>7, CompleteWrites, RetryWrites DEF HandlerReturns, HandlerRaises
  <2> QED
    BY <2>1, <2>8 DEF RetriesLeft
<1>2. OneWorkerInv /\ [Next]_vars =>
        [\A t \in Thread : FailsNow(t) =>
           attempts[held[t].id] >= jobs[held[t].id].max_retries]_vars
  BY <1>1
<1> QED
  BY <1>2, OneWorkerAlways, PTL DEF Spec, NoEarlyFailure

-----------------------------------------------------------------------------
(* A single worker implements JobLifecycle. *)

\* The stage of a job as a function of the rows, the threads and their copies, so
\* that a fact about it serves before and after a step.
StageIn(rows, at, copy, j) ==
  IF \E t \in Thread : at[t] = "selected" /\ copy[t].id = j THEN "taken"
  ELSE IF \E t \in Thread : at[t] = "executing" /\ copy[t].id = j THEN "running"
  ELSE IF rows[j].status = "running" THEN "lost"
  ELSE rows[j].status

LEMMA StageIs ==
  ASSUME NEW j \in JobId
  PROVE  /\ StageOf(j) = StageIn(jobs, pc, held, j)
         /\ StageOf(j)' = StageIn(jobs', pc', held', j)
BY DEF StageOf, StageIn, Selected, Executing

\* With one thread the quantifiers go.
LEMMA StageWith ==
  ASSUME OneWorker, NEW t \in Thread, NEW rows, NEW at, NEW copy, NEW j
  PROVE  StageIn(rows, at, copy, j) =
           IF at[t] = "selected" /\ copy[t].id = j THEN "taken"
           ELSE IF at[t] = "executing" /\ copy[t].id = j THEN "running"
           ELSE IF rows[j].status = "running" THEN "lost"
           ELSE rows[j].status
BY DEF OneWorker, StageIn

\* Of a job that no thread holds the stage is what its row says.
LEMMA StageIdle ==
  ASSUME NEW rows, NEW at, NEW copy, NEW j,
         \A t \in Thread : at[t] \in {"selected", "executing"} => copy[t].id # j
  PROVE  StageIn(rows, at, copy, j) =
           IF rows[j].status = "running" THEN "lost" ELSE rows[j].status
BY DEF StageIn

Moves(j, from, to) ==
  /\ StageOf(j) = from
  /\ \A k \in JobId : StageOf(k)' = IF k = j THEN to ELSE StageOf(k)

Steady     == \A k \in JobId : StageOf(k)' = StageOf(k)
SameLimits == \A k \in JobId : jobs'[k].max_retries = jobs[k].max_retries

LEMMA MoveIs ==
  ASSUME NEW j \in JobId, NEW from, NEW to, Moves(j, from, to)
  PROVE  Lifecycle!Move(j, from, to)
BY DEF Moves, Lifecycle!Move

LEMMA LimitsAre ==
  ASSUME SameLimits
  PROVE  [k \in JobId |-> jobs'[k].max_retries] = [k \in JobId |-> jobs[k].max_retries]
BY DEF SameLimits

LifecycleStep == Lifecycle!Next \/ UNCHANGED Lifecycle!lifecycle

LEMMA SteadyStep ==
  ASSUME Steady, SameLimits, attempts' = attempts
  PROVE  LifecycleStep
BY LimitsAre DEF Steady, LifecycleStep, Lifecycle!lifecycle

\* The moves of one job that change neither limits nor counts.
LEMMA MoveStep ==
  ASSUME NEW j \in JobId, NEW from, NEW to, Moves(j, from, to), SameLimits,
         attempts' = attempts,
         \/ from = "pending" /\ to \in {"taken", "cancelled"}
         \/ from = "taken" /\ to \in {"pending", "cancelled"}
         \/ from = "running" /\ to \in {"completed", "failed", "lost"}
         \/ /\ from = "running" /\ to = "pending"
            /\ attempts[j] < jobs[j].max_retries /\ jobs[j].max_retries \in Nat
            /\ attempts[j] \in Nat
  PROVE  LifecycleStep
<1>1. Lifecycle!Move(j, from, to)
  BY MoveIs
<1>2. [k \in JobId |-> jobs'[k].max_retries] = [k \in JobId |-> jobs[k].max_retries]
  BY LimitsAre
<1>3. CASE from = "pending" /\ to = "taken"
  BY <1>1, <1>2, <1>3 DEF LifecycleStep, Lifecycle!Next, Lifecycle!Take
<1>4. CASE from = "pending" /\ to = "cancelled"
  BY <1>1, <1>2, <1>4 DEF LifecycleStep, Lifecycle!Next, Lifecycle!Withdraw
<1>5. CASE from = "taken" /\ to \in {"pending", "cancelled"}
  BY <1>1, <1>2, <1>5 DEF LifecycleStep, Lifecycle!Next, Lifecycle!PutBack
<1>6. CASE from = "running" /\ to \in {"completed", "failed"}
  BY <1>1, <1>2, <1>6 DEF LifecycleStep, Lifecycle!Next, Lifecycle!Finish
<1>7. CASE from = "running" /\ to = "lost"
  BY <1>1, <1>2, <1>7 DEF LifecycleStep, Lifecycle!Next, Lifecycle!Lose
<1>8. CASE from = "running" /\ to = "pending"
  <2>1. Lifecycle!MaxTries(j) = jobs[j].max_retries
    BY <1>8 DEF Lifecycle!MaxTries
  <2> QED
    BY <1>1, <1>2, <1>8, <2>1 DEF LifecycleStep, Lifecycle!Next, Lifecycle!Retry
<1>9. QED
  BY <1>3, <1>4, <1>5, <1>6, <1>7, <1>8

\* Callers: a new job is submitted, a pending one is withdrawn unless a worker has
\* taken it, and only jobs that no worker holds are purged.
LEMMA LifecycleCall == OneWorker /\ OneWorkerInv /\ Call => LifecycleStep
<1> SUFFICES ASSUME OneWorker, OneWorkerInv, Call PROVE LifecycleStep
  OBVIOUS
<1> USE DEF OneWorkerInv, RetryBudgetInv
<1>1. pc' = pc /\ held' = held /\ attempts' = attempts
  BY DEF Call, RegisterHandler, Enqueue, CancelJob, PurgeCompleted
<1>2. CASE \E i \in Instance, ty \in JobType : RegisterHandler(i, ty)
  <2>1. jobs' = jobs
    BY <1>2 DEF RegisterHandler
  <2> QED
    BY <1>1, <2>1, StageIs, SteadyStep DEF Steady, SameLimits
<1>3. ASSUME NEW j \in JobId, NEW ty \in JobType, NEW prio \in Priority,
             NEW limit \in RetryLimit, NEW delayed \in BOOLEAN,
             Enqueue(j, ty, prio, limit, delayed)
      PROVE  LifecycleStep
  <2> DEFINE row == [NoRow EXCEPT !.status = "pending", !.job_type = ty,
                                  !.priority = prio, !.max_retries = limit,
                                  !.due = ~delayed, !.created = arrivals]
  <2>1. row.status = "pending" /\ row.max_retries = limit /\ limit \in Nat
    BY RetryLimitType DEF NoRow
  <2>2. jobs' = [jobs EXCEPT ![j] = row] /\ jobs[j].status = "unused"
    BY <1>3 DEF Enqueue
  <2> HIDE DEF row
  <2>3. jobs'[j].status = "pending" /\ jobs'[j].max_retries = limit
    BY <2>1, <2>2 DEF TypeOK
  <2>4. \A k \in JobId : k # j => jobs'[k] = jobs[k]
    BY <2>2 DEF TypeOK
  <2>5. \A t \in Thread : pc[t] \in {"selected", "executing"} => held[t].id # j
    BY <2>2 DEF HeldJobs, Busy
  <2>6. StageOf(j) = "unused" /\ StageOf(j)' = "pending"
    <3>1. StageIn(jobs, pc, held, j) = "unused"
      BY <2>2, <2>5, StageIdle
    <3>2. StageIn(jobs', pc, held, j) = "pending"
      BY <2>3, <2>5, StageIdle
    <3> QED
      BY <1>1, <3>1, <3>2, StageIs
  <2>7. \A k \in JobId : k # j => StageOf(k)' = StageOf(k)
    BY <1>1, <2>4, StageIs DEF StageIn
  <2>8. Lifecycle!Move(j, "unused", "pending")
    BY <2>6, <2>7, MoveIs DEF Moves
  <2>9. [k \in JobId |-> jobs'[k].max_retries] =
          [[k \in JobId |-> jobs[k].max_retries] EXCEPT ![j] = jobs'[j].max_retries]
    BY <2>4
  <2> QED
    BY <1>1, <2>1, <2>3, <2>8, <2>9 DEF LifecycleStep, Lifecycle!Next, Lifecycle!Submit
<1>4. ASSUME NEW j \in JobId, CancelJob(j) PROVE LifecycleStep
  <2>1. /\ jobs[j].status = "pending" /\ jobs'[j].status = "cancelled"
        /\ \A k \in JobId : k # j => jobs'[k] = jobs[k]
    BY <1>4 DEF CancelJob, Cancellable, TypeOK, Row
  <2>2. SameLimits
    BY <1>4 DEF CancelJob, TypeOK, Row, SameLimits
  <2>3. \A k \in JobId : k # j => StageOf(k)' = StageOf(k)
    BY <1>1, <2>1, StageIs DEF StageIn
  <2>4. CASE \E t \in Thread : pc[t] = "selected" /\ held[t].id = j
    <3>1. StageOf(j)' = StageOf(j)
      BY <1>1, <2>4, StageIs DEF StageIn
    <3> QED
      BY <1>1, <2>2, <2>3, <3>1, SteadyStep DEF Steady
  <2>5. CASE ~ \E t \in Thread : pc[t] = "selected" /\ held[t].id = j
    <3>1. \A t \in Thread : pc[t] \in {"selected", "executing"} => held[t].id # j
      BY <2>1, <2>5 DEF CopyIsFresh
    <3>2. StageIn(jobs, pc, held, j) = "pending" /\ StageIn(jobs', pc, held, j) = "cancelled"
      BY <2>1, <3>1, StageIdle
    <3>3. Moves(j, "pending", "cancelled")
      BY <1>1, <2>3, <3>2, StageIs DEF Moves
    <3> QED
      BY <1>1, <2>2, <3>3, MoveStep
  <2> QED
    BY <2>4, <2>5
<1>5. CASE PurgeCompleted
  <2> DEFINE S == {j \in JobId : Purgeable(j)}
  <2>1. [NoRow EXCEPT !.status = "purged"].status = "purged"
        /\ [NoRow EXCEPT !.status = "purged"].max_retries = 0
    BY DEF NoRow
  <2>2. \A k \in JobId : IF k \in S THEN jobs'[k].status = "purged" /\ jobs'[k].max_retries = 0
                                    ELSE jobs'[k] = jobs[k]
    BY <1>5, <2>1 DEF PurgeCompleted
  <2>3. ASSUME NEW k \in S
        PROVE  StageOf(k) \in {"completed", "cancelled"} /\ StageOf(k)' = "purged"
    <3>1. jobs[k].status \in {"completed", "cancelled"} /\ jobs[k].completed_at # "null"
      BY DEF Purgeable
    <3>2. \A t \in Thread : pc[t] \in {"selected", "executing"} => held[t].id # k
      BY <3>1 DEF CopyIsFresh, RowsCount
    <3>3. StageIn(jobs, pc, held, k) = jobs[k].status /\ StageIn(jobs', pc, held, k) = "purged"
      BY <2>2, <3>1, <3>2, StageIdle
    <3> QED
      BY <1>1, <3>1, <3>3, StageIs
  <2>4. \A k \in JobId : StageOf(k)' = IF k \in S THEN "purged" ELSE StageOf(k)
    <3>1. \A k \in JobId : k \notin S => StageOf(k)' = StageOf(k)
      BY <1>1, <2>2, StageIs DEF StageIn
    <3> QED
      BY <2>3, <3>1
  <2>5. [j \in JobId |-> StageOf(j)'] =
          [j \in JobId |-> IF j \in S THEN "purged" ELSE [k \in JobId |-> StageOf(k)][j]]
    BY <2>4
  <2>6. [j \in JobId |-> jobs'[j].max_retries] =
          [j \in JobId |-> IF j \in S THEN 0 ELSE [k \in JobId |-> jobs[k].max_retries][j]]
    BY <2>2
  <2>7. S \in SUBSET {j \in JobId : [k \in JobId |-> StageOf(k)][j] \in {"completed", "cancelled"}}
    BY <2>3
  <2> HIDE DEF S
  <2>8. Lifecycle!Purge
    BY <1>1, <2>5, <2>6, <2>7 DEF Lifecycle!Purge
  <2> QED
    BY <2>8 DEF LifecycleStep, Lifecycle!Next
<1>6. QED
  BY <1>2, <1>3, <1>4, <1>5 DEF Call

LEMMA LifecycleTime == OneWorkerInv /\ Time => LifecycleStep
<1> SUFFICES ASSUME OneWorkerInv, NEW j \in JobId, BecomeDue(j) \/ Age(j)
             PROVE LifecycleStep
  BY DEF Time
<1>1. \A k \in JobId : jobs'[k].status = jobs[k].status /\ jobs'[k].max_retries = jobs[k].max_retries
  BY TimeRow DEF OneWorkerInv, RetryBudgetInv, TypeOK
<1>2. pc' = pc /\ held' = held /\ attempts' = attempts
  BY DEF BecomeDue, Age
<1>3. Steady
  BY <1>1, <1>2, StageIs DEF Steady, StageIn
<1> QED
  BY <1>1, <1>2, <1>3, SteadyStep DEF SameLimits

\* process_next's SELECT takes a pending job; its UPDATE starts it, with an attempt
\* left because the row's retry_count is the number of executions so far.
LEMMA LifecycleFetch ==
  ASSUME OneWorker, OneWorkerInv, NEW t \in Thread, Select(t) \/ Claim(t) \/ ClaimFails(t)
  PROVE  LifecycleStep
<1> USE DEF OneWorkerInv, RetryBudgetInv
<1>1. CASE Select(t)
  <2>1. PICK j \in NextJobs : held' = [held EXCEPT ![t] = [id |-> j, row |-> jobs[j]]]
    BY <1>1 DEF Select
  <2>2. j \in JobId /\ jobs[j].status = "pending"
    BY <2>1 DEF NextJobs, Eligible
  <2>3. pc[t] = "polling" /\ pc'[t] = "selected" /\ held'[t].id = j
    BY <1>1, <2>1 DEF Select, Polls, TypeOK
  <2>4. jobs' = jobs /\ attempts' = attempts
    BY <1>1 DEF Select
  <2>5. StageOf(j) = "pending"
    BY <2>2, <2>3, StageIs, StageWith
  <2>6. \A k \in JobId : StageOf(k)' = IF k = j THEN "taken" ELSE StageOf(k)
    BY <2>2, <2>3, <2>4, StageIs, StageWith
  <2> QED
    BY <2>2, <2>4, <2>5, <2>6, MoveStep DEF Moves, SameLimits
<1>2. CASE Claim(t)
  <2> DEFINE j == held[t].id
  <2>1. /\ j \in JobId /\ pc[t] = "selected"
        /\ jobs[j].status \in {"pending", "cancelled"}
    BY <1>2 DEF Claim, HeldJobs, Busy, CopyIsFresh
  <2>2. PICK row \in Row : /\ jobs' = [jobs EXCEPT ![j] = row]
                           /\ row.status = "running"
                           /\ row.max_retries = jobs[j].max_retries
    BY <1>2, <2>1, ClaimWrites DEF HasRow, Live
  <2>3. /\ pc'[t] = "executing" /\ held' = held
        /\ attempts' = [attempts EXCEPT ![j] = @ + 1]
    BY <1>2 DEF Claim, TypeOK
  <2>4. attempts[j] < Lifecycle!MaxTries(j)
    <3>1. attempts[j] = jobs[j].retry_count /\ jobs[j].retry_count \in Nat /\ jobs[j].max_retries \in Nat
      BY <2>1 DEF RowsCount, TypeOK, Row
    <3>2. jobs[j].retry_count = 0 \/ jobs[j].retry_count < jobs[j].max_retries
      BY <2>1 DEF RetryBudget
    <3>3. Lifecycle!MaxTries(j) = IF jobs[j].max_retries = 0 THEN 1 ELSE jobs[j].max_retries
      BY <2>1 DEF Lifecycle!MaxTries
    <3> QED
      BY <3>1, <3>2, <3>3
  <2> HIDE DEF j
  <2>5. SameLimits /\ jobs'[j].status = "running" /\ \A k \in JobId : k # j => jobs'[k] = jobs[k]
    BY <2>1, <2>2 DEF SameLimits, TypeOK
  <2>6. StageOf(j) = "taken"
    BY <2>1, StageIs, StageWith DEF j
  <2>7. held[t].id = j
    BY DEF j
  <2>8. \A k \in JobId : StageOf(k)' = IF k = j THEN "running" ELSE StageOf(k)
    BY <2>1, <2>3, <2>5, <2>7, StageIs, StageWith
  <2>9. Lifecycle!Move(j, "taken", "running")
    BY <2>1, <2>6, <2>8, MoveIs DEF Moves
  <2> QED
    BY <2>1, <2>3, <2>4, <2>5, <2>9, LimitsAre DEF LifecycleStep, Lifecycle!Next, Lifecycle!Start
<1>3. CASE ClaimFails(t)
  <2> DEFINE j == held[t].id
  <2>1. /\ j \in JobId /\ pc[t] = "selected"
        /\ jobs[j].status \in {"pending", "cancelled"}
    BY <1>3 DEF ClaimFails, HeldJobs, Busy, CopyIsFresh
  <2>2. pc'[t] = "polling" /\ jobs' = jobs /\ attempts' = attempts
    BY <1>3 DEF ClaimFails, StatementFails, TypeOK
  <2>3. StageOf(j) = "taken"
    BY <2>1, StageIs, StageWith
  <2>4. held[t].id = j
    OBVIOUS
  <2> HIDE DEF j
  <2>5. \A k \in JobId : StageOf(k)' = IF k = j THEN jobs[j].status ELSE StageOf(k)
    BY <2>1, <2>2, <2>4, StageIs, StageWith
  <2> QED
    BY <2>1, <2>2, <2>3, <2>5, MoveStep DEF Moves, SameLimits
<1>4. QED
  BY <1>1, <1>2, <1>3

\* The end of an execution finishes the job, puts it back, or, when its statement
\* fails, leaves a row that says "running" with no worker.
LEMMA LifecycleClose ==
  ASSUME OneWorker, OneWorkerInv, NEW t \in Thread,
         NoHandler(t) \/ HandlerReturns(t) \/ HandlerRaises(t)
  PROVE  LifecycleStep
<1> USE DEF OneWorkerInv, RetryBudgetInv
<1> DEFINE j == held[t].id
           n == held[t].row.retry_count + 1
<1>1. /\ j \in JobId /\ n \in Nat /\ jobs[j].status = "running" /\ pc[t] = "executing"
      /\ n = attempts[j] /\ held[t].row.max_retries = jobs[j].max_retries
      /\ jobs[j].max_retries \in Nat
  BY DEF NoHandler, HandlerReturns, HandlerRaises, Executing, HeldJobs, Busy,
         CopyIsFresh, RowsCount, HasRow, Live, TypeOK, Row
<1>2. \/ Writes(j, "completed", jobs[j].retry_count)
      \/ Writes(j, "failed", jobs[j].retry_count)
      \/ Writes(j, "pending", n) /\ n < jobs[j].max_retries
  BY <1>1, CompleteWrites, FailWrites, RetryWrites
     DEF NoHandler, HandlerReturns, HandlerRaises, RetriesLeft
<1>3. pc'[t] = "polling" /\ attempts' = attempts
  BY DEF NoHandler, HandlerReturns, HandlerRaises, Release, TypeOK
<1>4. StageOf(j) = "running"
  BY <1>1, StageIs, StageWith
<1>5. held[t].id = j
  OBVIOUS
<1> HIDE DEF j, n
<1>6. /\ SameLimits /\ \A k \in JobId : k # j => jobs'[k].status = jobs[k].status
      /\ \/ jobs'[j].status = "running"
         \/ jobs'[j].status \in {"completed", "failed"}
         \/ jobs'[j].status = "pending" /\ n < jobs[j].max_retries
  BY <1>1, <1>2 DEF Writes, SameLimits, TypeOK
<1>7. \A k \in JobId : StageOf(k)' = IF k = j THEN IF jobs'[j].status = "running"
                                               THEN "lost" ELSE jobs'[j].status
                                     ELSE StageOf(k)
  BY <1>1, <1>3, <1>5, <1>6, StageIs, StageWith
<1>8. CASE jobs'[j].status = "running"
  BY <1>1, <1>3, <1>4, <1>6, <1>7, <1>8, MoveStep DEF Moves
<1>9. CASE jobs'[j].status \in {"completed", "failed"}
  BY <1>1, <1>3, <1>4, <1>6, <1>7, <1>9, MoveStep DEF Moves
<1>10. CASE jobs'[j].status = "pending" /\ n < jobs[j].max_retries
  BY <1>1, <1>3, <1>4, <1>6, <1>7, <1>10, MoveStep DEF Moves
<1>11. QED
  BY <1>6, <1>8, <1>9, <1>10

LEMMA LifecycleWorker ==
  ASSUME OneWorker, OneWorkerInv, NEW t \in Thread, Step(t)
  PROVE  LifecycleStep
<1>1. CASE PollEmpty(t) \/ LoopExits(t)
  <2>1. /\ jobs' = jobs /\ held' = held /\ attempts' = attempts
        /\ pc'[t] = pc[t] \/ {pc[t], pc'[t]} \subseteq {"polling", "stopped"}
    BY <1>1 DEF PollEmpty, LoopExits, vars, OneWorkerInv, RetryBudgetInv, TypeOK
  <2>2. Steady
    BY <2>1, StageIs, StageWith DEF Steady
  <2> QED
    BY <2>1, <2>2, SteadyStep DEF SameLimits
<1>2. QED
  BY <1>1, LifecycleFetch, LifecycleClose DEF Step

\* A crash gives a taken job back and loses a running one.
LEMMA LifecycleControl == OneWorker /\ OneWorkerInv /\ Control => LifecycleStep
<1> SUFFICES ASSUME OneWorker, OneWorkerInv, NEW i \in Instance,
                    StartWorker(i) \/ StopWorker(i) \/ Crash(i)
             PROVE LifecycleStep
  BY DEF Control
<1> USE DEF OneWorkerInv, RetryBudgetInv
<1>1. jobs' = jobs /\ attempts' = attempts /\ SameLimits
  BY DEF StartWorker, StopWorker, Crash, SameLimits
<1>2. CASE \E t \in Thread : Busy(t) /\ ~Busy(t)'
  <2>1. PICK t \in Thread : Busy(t) /\ ~Busy(t)'
    BY <1>2
  <2> DEFINE j == held[t].id
  <2>2. j \in JobId /\ pc'[t] \notin {"selected", "executing"} /\ held[t].id = j
    BY <2>1 DEF Busy, HeldJobs
  <2>3. \/ pc[t] = "selected" /\ jobs[j].status \in {"pending", "cancelled"}
        \/ pc[t] = "executing" /\ jobs[j].status = "running"
    BY <2>1 DEF Busy, CopyIsFresh
  <2> HIDE DEF j
  <2>4. StageOf(j) = IF pc[t] = "selected" THEN "taken" ELSE "running"
    BY <2>2, <2>3, StageIs, StageWith
  <2>5. \A k \in JobId : StageOf(k)' = IF k = j THEN IF pc[t] = "selected"
                                                 THEN jobs[j].status ELSE "lost"
                                       ELSE StageOf(k)
    BY <1>1, <2>2, <2>3, StageIs, StageWith
  <2>6. CASE pc[t] = "selected"
    BY <1>1, <2>2, <2>3, <2>4, <2>5, <2>6, MoveStep DEF Moves
  <2>7. CASE pc[t] = "executing"
    BY <1>1, <2>2, <2>3, <2>4, <2>5, <2>7, MoveStep DEF Moves
  <2> QED
    BY <2>3, <2>6, <2>7
<1>3. CASE \A t \in Thread : Busy(t) => Busy(t)'
  <2>1. \A t \in Thread : /\ Busy(t) => pc'[t] = pc[t] /\ held'[t] = held[t]
                          /\ ~Busy(t) => ~Busy(t)'
    BY <1>3 DEF StartWorker, StopWorker, Crash, Busy, TypeOK
  <2>2. \A t \in Thread, s \in {"selected", "executing"}, k \in JobId :
          (pc'[t] = s /\ held'[t].id = k) <=> (pc[t] = s /\ held[t].id = k)
    BY <2>1 DEF Busy
  <2>3. Steady
    BY <1>1, <2>2, StageIs DEF Steady, StageIn
  <2> QED
    BY <1>1, <2>3, SteadyStep
<1>4. QED
  BY <1>2, <1>3

\* With one worker every behaviour of the queue, crashes, failing statements, restarts
\* and cancellations included, is a behaviour of JobLifecycle.
THEOREM QueueImplementsLifecycle ==
  ASSUME OneWorker
  PROVE  Spec => ImplementsLifecycle
<1>1. Init => Lifecycle!Init
  <2> SUFFICES ASSUME Init PROVE Lifecycle!Init
    OBVIOUS
  <2>1. NoRow.status = "unused" /\ NoRow.max_retries = 0
    BY DEF NoRow
  <2>2. \A j \in JobId : StageOf(j) = "unused" /\ jobs[j].max_retries = 0
    BY <2>1 DEF Init, StageOf, Selected, Executing
  <2> QED
    BY <2>2 DEF Init, Lifecycle!Init
<1>2. OneWorkerInv /\ [Next]_vars => [Lifecycle!Next]_(Lifecycle!lifecycle)
  <2> SUFFICES ASSUME OneWorkerInv, [Next]_vars PROVE LifecycleStep
    BY DEF LifecycleStep
  <2>1. CASE UNCHANGED vars
    BY <2>1, StageIs, SteadyStep DEF vars, Steady, SameLimits
  <2> QED
    BY <2>1, LifecycleCall, LifecycleTime, LifecycleWorker, LifecycleControl DEF Next
<1>3. QED
  BY <1>1, <1>2, OneWorkerAlways, PTL DEF Spec, ImplementsLifecycle, Lifecycle!Spec

=============================================================================
