------------------------------ MODULE JobStream ------------------------------
(***************************************************************************)
(* The job queue under an endless stream of jobs.  JobQueue gives every    *)
(* job a uuid that is never used again; here a purged row's place in JobId *)
(* may stand for the next uuid, so that callers can go on submitting for   *)
(* ever although the instance is finite.  The state graph with the endless *)
(* stream is the one on which starvation can be seen.                      *)
(***************************************************************************)
EXTENDS JobQueue

\* job_id = str(uuid.uuid4()).  created_at is compared only within the table, so the
\* remaining rows are numbered anew and the count of arrivals stays bounded.
InTable  == {j \in JobId : HasRow(j)}
Place(j) == Cardinality({k \in InTable : jobs[k].created < jobs[j].created})

NewId(j) ==
  /\ jobs[j].status = "purged"
  /\ \A t \in Thread : held[t].id # j
  /\ jobs' = [k \in JobId |-> IF k = j THEN NoRow
                              ELSE IF HasRow(k) THEN [jobs[k] EXCEPT !.created = Place(k)]
                              ELSE jobs[k]]
  /\ arrivals' = Cardinality(InTable)
  /\ attempts' = [attempts EXCEPT ![j] = 0]
  /\ UNCHANGED <<handlers, running, pc, held>>

StreamNext == Next \/ \E j \in JobId : NewId(j)

\* The handlers are registered before the first worker is started.
StreamInit ==
  /\ jobs = [j \in JobId |-> NoRow]
  /\ arrivals = 0
  /\ handlers = [i \in Instance |-> JobType]
  /\ running = [i \in Instance |-> FALSE]
  /\ pc = [t \in Thread |-> "stopped"]
  /\ held = [t \in Thread |-> HeldNothing]
  /\ attempts = [j \in JobId |-> 0]

StreamSpec == StreamInit /\ [][StreamNext]_vars /\ Fairness

-----------------------------------------------------------------------------
\* A worker takes k although j is due as well, because k's priority is higher.
Overtakes(k, j) ==
  /\ {j, k} \subseteq Eligible
  /\ jobs[k].priority > jobs[j].priority
  /\ \E t \in Thread : Select(t) /\ held'[t].id = k

\* ORDER BY priority DESC, created_at ASC: while a worker runs, a job of the lower
\* priority may starve, but only by jobs of higher priority taken before it over and
\* over again.  Jobs of its own priority, the backoff of retried ones, and a second
\* worker that claims from a stale copy only delay it.
PendingJobsFinish ==
  \A j \in JobId :
    \/ (jobs[j].status = "pending" /\ \E t \in Thread : Polls(t))
         ~> (jobs[j].status \in Final \cup {"purged"})
    \/ []<><<\E k \in JobId : Overtakes(k, j)>>_vars
=============================================================================
