------------------------- MODULE JobQueueLifecycle -------------------------
(***************************************************************************)
(* The job queue with a single worker implements JobLifecycle.             *)
(***************************************************************************)
EXTENDS JobQueue

Selected(t) == pc[t] = "selected"

\* The stage of a job: what its worker is doing with it, else what its row
\* says.  A row that says "running" with no worker at it is a lost job.
StageOf(j) ==
  IF \E t \in Thread : Selected(t) /\ held[t].id = j THEN "taken"
  ELSE IF \E t \in Thread : Executing(t) /\ held[t].id = j THEN "running"
  ELSE IF jobs[j].status = "running" THEN "lost"
  ELSE jobs[j].status

Lifecycle == INSTANCE JobLifecycle WITH
  state <- [j \in JobId |-> StageOf(j)],
  limit <- [j \in JobId |-> jobs[j].max_retries],
  tries <- attempts

\* Every behaviour of the queue with one worker, whatever crashes, restarts,
\* failing statements and cancellations it meets, is one of JobLifecycle: no
\* job is executed after it finished, or more often than max_retries allows.
ImplementsLifecycle == Lifecycle!Spec

=============================================================================
