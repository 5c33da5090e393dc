---------------------------- MODULE TaskScheduler ----------------------------
(***************************************************************************)
(* The recurring-task scheduler of shopsage/workers/scheduler.py, one      *)
(* process: the dict _tasks and the threads that run _scheduler_loop.      *)
(* Enqueued jobs are handed to the job queue (JobQueue!Enqueue) and are    *)
(* not followed further.                                                   *)
(*                                                                         *)
(* Time advances by Tick.  Instead of clock values the model keeps ages:   *)
(* age[n] is the time since the stamp in last_run, since[t] the time since *)
(* thread t read "now" for its current pass.  Both stop counting where     *)
(* more makes no difference (Horizon, MaxPass).  A definition whose name   *)
(* has a suffix is a seeded bug that a property below must reject.         *)
(***************************************************************************)
EXTENDS Integers, Sequences, SequencesExt, Functions

CONSTANTS
  Task,       \* task names
  Thread,     \* scheduler threads
  Interval,   \* interval_seconds of each task, in ticks
  MaxPass,    \* bound: ticks that one pass over the tasks may take
  Faults,     \* "db": enqueue may raise; "crash", "stop", "register"
  Never       \* last_run is None

ASSUME TaskType     == IsFiniteSet(Task) /\ Task # {}
ASSUME IntervalType == Interval \in [Task -> Nat \ {0}]
ASSUME MaxPassType  == MaxPass \in Nat
ASSUME NeverFresh   == Never \notin Int

VARIABLES
  order,     \* the keys of _tasks in insertion order
  enabled,   \* task.enabled
  age,       \* time since task.last_run
  running,   \* _running
  pc,        \* each thread: stopped, top of the loop, in a pass, enqueueing
  since,     \* time since the thread's "now"
  size,      \* length of _tasks when the thread's iteration began
  done,      \* tasks its iteration has passed
  cur,       \* the task it is enqueueing
  mine,      \* is that task object still the one in _tasks?
  gap        \* history: time since the task object was last enqueued

vars == <<order, enabled, age, running, pc, since, size, done, cur, mine, gap>>
thread == <<pc, since, size, done, cur, mine>>

Horizon(n) == Interval[n] + MaxPass
Listed     == {order[i] : i \in DOMAIN order}

TypeOK ==
  /\ order \in Seq(Task) /\ IsInjective(order)
  /\ enabled \in [Task -> BOOLEAN]
  /\ \A n \in Task : age[n] \in 0 .. Horizon(n) \cup {Never}
  /\ running \in BOOLEAN
  /\ pc \in [Thread -> {"stopped", "top", "pass", "enqueue"}]
  /\ since \in [Thread -> 0 .. MaxPass]
  /\ size \in [Thread -> Nat]
  /\ done \in [Thread -> SUBSET Task]
  /\ cur \in [Thread -> Task]
  /\ mine \in [Thread -> BOOLEAN]
  /\ \A n \in Task : gap[n] \in 0 .. Horizon(n) \cup {Never}

Init ==
  /\ order \in {SetToSeq(Task), Reverse(SetToSeq(Task))}
  /\ enabled = [n \in Task |-> TRUE]
  /\ age = [n \in Task |-> Never]
  /\ running = FALSE
  /\ pc = [t \in Thread |-> "stopped"]
  /\ since = [t \in Thread |-> 0]
  /\ size = [t \in Thread |-> 0]
  /\ done = [t \in Thread |-> {}]
  /\ cur = [t \in Thread |-> CHOOSE n \in Task : TRUE]
  /\ mine = [t \in Thread |-> FALSE]
  /\ gap = [n \in Task |-> Never]

-----------------------------------------------------------------------------
(* Callers. *)

\* An existing key of the dict keeps its place, a new one goes to the end.
AddKey(n) == IF n \in Listed THEN order ELSE Append(order, n)

\* A new ScheduledTask object: last_run is None, enabled is True.
Register(n) ==
  /\ "register" \in Faults
  /\ order' = AddKey(n)
  /\ enabled' = [enabled EXCEPT ![n] = TRUE]
  /\ age' = [age EXCEPT ![n] = Never]
  /\ done' = IF n \in Listed THEN done ELSE [t \in Thread |-> done[t] \ {n}]
  /\ mine' = [t \in Thread |-> mine[t] /\ cur[t] # n]
  /\ gap' = [gap EXCEPT ![n] = Never]
  /\ UNCHANGED <<running, pc, since, size, cur>>

Unregister(n) ==
  /\ "register" \in Faults
  /\ \E i \in DOMAIN order : order[i] = n /\ order' = RemoveAt(order, i)
  /\ mine' = [t \in Thread |-> mine[t] /\ cur[t] # n]
  /\ UNCHANGED <<enabled, age, running, pc, since, size, done, cur, gap>>

SetEnabled(n, on) ==
  /\ n \in Listed
  /\ enabled' = [enabled EXCEPT ![n] = on]
  /\ UNCHANGED <<order, age, running, thread, gap>>

Start ==
  /\ ~running
  /\ running' = TRUE
  /\ \E t \in Thread : pc[t] = "stopped" /\ pc' = [pc EXCEPT ![t] = "top"]
  /\ UNCHANGED <<order, enabled, age, since, size, done, cur, mine, gap>>

\* join(timeout=5) does not wait for a thread that sleeps check_interval.
Stop ==
  /\ "stop" \in Faults
  /\ running
  /\ running' = FALSE
  /\ UNCHANGED <<order, enabled, age, thread, gap>>

\* The process dies; the new one registers the same tasks again.
Crash ==
  /\ "crash" \in Faults
  /\ running' = FALSE
  /\ pc' = [t \in Thread |-> "stopped"]
  /\ age' = [n \in Task |-> Never]
  /\ enabled' = [n \in Task |-> TRUE]
  /\ gap' = [n \in Task |-> Never]
  /\ UNCHANGED <<order, since, size, done, cur, mine>>

-----------------------------------------------------------------------------
(* One thread in _scheduler_loop. *)

LoopExits(t) ==
  /\ pc[t] = "top"
  /\ ~running
  /\ pc' = [pc EXCEPT ![t] = "stopped"]
  /\ UNCHANGED <<order, enabled, age, running, since, size, done, cur, mine, gap>>

\* now = datetime.now(timezone.utc)
BeginPass(t) ==
  /\ pc[t] = "top"
  /\ running
  /\ pc' = [pc EXCEPT ![t] = "pass"]
  /\ since' = [since EXCEPT ![t] = 0]
  /\ size' = [size EXCEPT ![t] = Len(order)]
  /\ done' = [done EXCEPT ![t] = {}]
  /\ UNCHANGED <<order, enabled, age, running, cur, mine, gap>>

\* The places in the dict of the tasks that the iteration has still to look at.
Remaining(t) == {i \in DOMAIN order : order[i] \notin done[t]}

\* The pass is over, or the dict changed size under it (RuntimeError).
EndPass(t) ==
  /\ pc[t] = "pass"
  /\ Remaining(t) = {} \/ Len(order) # size[t]
  /\ pc' = [pc EXCEPT ![t] = "top"]
  /\ since' = [since EXCEPT ![t] = 0]
  /\ UNCHANGED <<order, enabled, age, running, size, done, cur, mine, gap>>

\* last_run is None, or now >= last_run + interval.
IsDue_Once(n, t)  == age[n] = Never
IsDue_Early(n, t) == age[n] = Never \/ age[n] - since[t] >= Interval[n] - 1
IsDue(n, t)       == age[n] = Never \/ age[n] - since[t] >= Interval[n]

Selects(n, t) == enabled[n] /\ IsDue(n, t)

Look(t) ==
  /\ pc[t] = "pass"
  /\ Len(order) = size[t]
  /\ \E i \in Remaining(t) :
       /\ \A j \in Remaining(t) : i <= j
       /\ IF Selects(order[i], t)
          THEN /\ pc' = [pc EXCEPT ![t] = "enqueue"]
               /\ cur' = [cur EXCEPT ![t] = order[i]]
               /\ mine' = [mine EXCEPT ![t] = TRUE]
               /\ UNCHANGED done
          ELSE /\ done' = [done EXCEPT ![t] = @ \cup {order[i]}]
               /\ UNCHANGED <<pc, cur, mine>>
  /\ UNCHANGED <<order, enabled, age, running, since, size, gap>>

\* The stamp is the "now" of the pass, not the time of the enqueue.
Stamp(n, t) == age' = IF mine[t] THEN [age EXCEPT ![n] = since[t]] ELSE age

EnqueueTask(t) ==
  LET n == cur[t] IN
  /\ pc[t] = "enqueue"
  /\ Stamp(n, t)
  /\ gap' = IF mine[t] THEN [gap EXCEPT ![n] = 0] ELSE gap
  /\ done' = [done EXCEPT ![t] = @ \cup {n}]
  /\ pc' = [pc EXCEPT ![t] = "pass"]
  /\ UNCHANGED <<order, enabled, running, since, size, cur, mine>>

\* The exception leaves the for loop: the rest of the pass is skipped.
EnqueueRaises(t) ==
  /\ pc[t] = "enqueue"
  /\ "db" \in Faults
  /\ pc' = [pc EXCEPT ![t] = "top"]
  /\ since' = [since EXCEPT ![t] = 0]
  /\ UNCHANGED <<order, enabled, age, running, size, done, cur, mine, gap>>

-----------------------------------------------------------------------------
Older(a, n) == IF a = Never \/ a = Horizon(n) THEN a ELSE a + 1
InPass(t)   == pc[t] \in {"pass", "enqueue"}

Tick ==
  /\ \A t \in Thread : InPass(t) => since[t] < MaxPass
  /\ age' = [n \in Task |-> Older(age[n], n)]
  /\ gap' = [n \in Task |-> Older(gap[n], n)]
  /\ since' = [t \in Thread |-> IF InPass(t) THEN since[t] + 1 ELSE since[t]]
  /\ UNCHANGED <<order, enabled, running, pc, size, done, cur, mine>>

Step(t) == \/ LoopExits(t) \/ BeginPass(t) \/ EndPass(t) \/ Look(t)
           \/ EnqueueTask(t) \/ EnqueueRaises(t)

Next ==
  \/ \E n \in Task : \/ Register(n) \/ Unregister(n)
                     \/ \E on \in BOOLEAN : SetEnabled(n, on)
  \/ Start \/ Stop \/ Crash
  \/ \E t \in Thread : Step(t)
  \/ Tick

Spec == Init /\ [][Next]_vars

\* Threads that are started are scheduled, and time passes.
FairSpec == Spec /\ WF_vars(Tick) /\ \A t \in Thread : WF_vars(Step(t))

-----------------------------------------------------------------------------
\* "interval_seconds: How often to run (in seconds)" (register): between two
\* enqueues of one task object passes its interval, less the time a pass may
\* take, because the stamp is that of the pass and not of the enqueue; whatever
\* enqueues fail and whatever is stopped, registered or removed meanwhile.
IntervalRespected ==
  [][\A t \in Thread : LET n == cur[t] IN
       (EnqueueTask(t) /\ mine[t] /\ gap[n] # Never)
         => gap[n] >= Interval[n] - MaxPass]_vars

\* "Each task is enqueued into the JobQueue at its scheduled interval." (class
\* docstring): a task that stays registered and enabled while the scheduler
\* runs is enqueued again and again, whatever the other tasks do, when from some
\* time on no task is registered or removed and the database answers.
RecentlyEnqueued(n) == gap[n] = 0
Quiet == /\ <>[][\A n \in Task : ~Register(n) /\ ~Unregister(n)]_vars
         /\ <>[][\A t \in Thread : ~EnqueueRaises(t)]_vars

TasksRecur ==
  \A n \in Task :
    (<>[](n \in Listed /\ enabled[n] /\ running) /\ Quiet) => []<>RecentlyEnqueued(n)

=============================================================================
