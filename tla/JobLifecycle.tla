---------------------------- MODULE JobLifecycle ----------------------------
(***************************************************************************)
(* What a submitter may rely on, without rows, threads or statements: the  *)
(* life of each job as shopsage/workers/job_queue.py promises it in its    *)
(* docstrings ("pending -> running -> completed | failed | cancelled",     *)
(* "Max retry attempts on failure").  A job is first taken by a worker,    *)
(* then started; a cancellation that comes once the job is taken is too    *)
(* late to be honoured, and a job may be lost with its worker.             *)
(***************************************************************************)
EXTENDS Integers

CONSTANT JobId

VARIABLES
  state,    \* the stage of each job
  limit,    \* max_retries of each submitted job
  tries     \* executions of each job so far

lifecycle == <<state, limit, tries>>

Stage == {"unused", "pending", "taken", "running", "lost",
          "completed", "failed", "cancelled", "purged"}

MaxTries(j) == IF limit[j] = 0 THEN 1 ELSE limit[j]

Init ==
  /\ state = [j \in JobId |-> "unused"]
  /\ limit = [j \in JobId |-> 0]
  /\ tries = [j \in JobId |-> 0]

Move(j, from, to) ==
  /\ state[j] = from
  /\ state' = [state EXCEPT ![j] = to]

Submit(j) ==
  /\ Move(j, "unused", "pending")
  /\ limit'[j] \in Nat
  /\ limit' = [limit EXCEPT ![j] = limit'[j]]
  /\ UNCHANGED tries

Withdraw(j) ==
  /\ Move(j, "pending", "cancelled")
  /\ UNCHANGED <<limit, tries>>

Take(j) ==
  /\ Move(j, "pending", "taken")
  /\ UNCHANGED <<limit, tries>>

\* The worker gave the job up before starting it.
PutBack(j) ==
  /\ \E to \in {"pending", "cancelled"} : Move(j, "taken", to)
  /\ UNCHANGED <<limit, tries>>

Start(j) ==
  /\ tries[j] < MaxTries(j)
  /\ Move(j, "taken", "running")
  /\ tries' = [tries EXCEPT ![j] = @ + 1]
  /\ UNCHANGED limit

Finish(j) ==
  /\ \E to \in {"completed", "failed"} : Move(j, "running", to)
  /\ UNCHANGED <<limit, tries>>

Retry(j) ==
  /\ tries[j] < MaxTries(j)
  /\ Move(j, "running", "pending")
  /\ UNCHANGED <<limit, tries>>

Lose(j) ==
  /\ Move(j, "running", "lost")
  /\ UNCHANGED <<limit, tries>>

\* Purging forgets every job it removes at once.
Purge ==
  \E S \in SUBSET {j \in JobId : state[j] \in {"completed", "cancelled"}} :
    /\ state' = [j \in JobId |-> IF j \in S THEN "purged" ELSE state[j]]
    /\ limit' = [j \in JobId |-> IF j \in S THEN 0 ELSE limit[j]]
    /\ UNCHANGED tries

Next ==
  \/ Purge
  \/ \E j \in JobId :
       \/ Submit(j)  \/ Withdraw(j) \/ Take(j)  \/ PutBack(j)
       \/ Start(j)   \/ Finish(j)   \/ Retry(j) \/ Lose(j)

Spec == Init /\ [][Next]_lifecycle

=============================================================================
