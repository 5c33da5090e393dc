----------------------------- MODULE MCJobQueue -----------------------------
(* Values for the constants of JobQueue, for TLC. *)
EXTENDS JobQueueLifecycle, JobStream, TLC

CONSTANTS j1, j2, t1, t2, i1, i2, email, sync

\* All threads belong to one queue object / each thread to its own process.
SameInstance == [t \in Thread |-> i1]
OwnInstance  == (t1 :> i1) @@ (t2 :> i2)

=============================================================================
