------------------------------- MODULE Webhooks -------------------------------
(***************************************************************************)
(* Webhook registrations (shopsage/webhooks/webhook_store.py), their       *)
(* delivery (webhooks/dispatcher.py) and the Celery task that runs a       *)
(* delivery (workers/tasks.py).  A dispatch is one event to be delivered;  *)
(* its deliveries to several hooks interleave at their awaits.  Between a  *)
(* receiver's answer and its log entry there is no await, so an attempt    *)
(* and its log are one step.  Celery and the receivers are external.       *)
(***************************************************************************)
EXTENDS Integers, FiniteSets

CONSTANTS
  Hook,            \* registered endpoints
  Dispatch,        \* events to deliver
  Wants,           \* the events each endpoint was registered for
  MaxAttempts,     \* MAX_RETRIES of the dispatcher: attempts for one hook
  MaxTaskRetries,  \* max_retries of the Celery task
  Faults           \* "db": the store may fail; "down": receivers may fail; "crash"

ASSUME DispatchType == IsFiniteSet(Dispatch)
ASSUME WantsType    == Wants \in [Hook -> SUBSET Dispatch]
ASSUME AttemptsType == MaxAttempts \in Nat \ {0} /\ MaxTaskRetries \in Nat

VARIABLES
  hook,      \* the table: state, delivery_count, failure_count
  stage,     \* each dispatch: new, queued, running, done, failed, lost
  retries,   \* self.request.retries of its task
  subs,      \* the hooks that were subscribed when it began
  at,        \* delivery to each hook: none, post, wait, ok, failed
  attempt,   \* attempts made for it
  acked,     \* history: 2xx answers of each hook to each dispatch
  refused,   \* history: attempts that failed, by hook
  missed     \* history: hooks of which a log entry was lost

vars == <<hook, stage, retries, subs, at, attempt, acked, refused, missed>>

Unsent == [h \in Hook |-> "none"]
Zero   == [h \in Hook |-> 0]
Most   == Cardinality(Dispatch) * MaxAttempts

TypeOK ==
  /\ hook \in [Hook -> [state : {"absent", "active", "inactive"},
                        delivered : 0 .. Cardinality(Dispatch), failures : 0 .. Most]]
  /\ stage \in [Dispatch -> {"new", "queued", "running", "done", "failed", "lost"}]
  /\ retries \in [Dispatch -> 0 .. MaxTaskRetries]
  /\ subs \in [Dispatch -> SUBSET Hook]
  /\ at \in [Dispatch -> [Hook -> {"none", "post", "wait", "ok", "failed"}]]
  /\ attempt \in [Dispatch -> [Hook -> 0 .. MaxAttempts]]
  /\ acked \in [Dispatch -> [Hook -> 0 .. MaxAttempts]]
  /\ refused \in [Hook -> 0 .. Most]
  /\ missed \subseteq Hook

Init ==
  /\ hook = [h \in Hook |-> [state |-> "absent", delivered |-> 0, failures |-> 0]]
  /\ stage = [d \in Dispatch |-> "new"]
  /\ retries = [d \in Dispatch |-> 0]
  /\ subs = [d \in Dispatch |-> {}]
  /\ at = [d \in Dispatch |-> Unsent]
  /\ attempt = [d \in Dispatch |-> Zero]
  /\ acked = [d \in Dispatch |-> Zero]
  /\ refused = Zero
  /\ missed = {}

-----------------------------------------------------------------------------
(* Tenants. *)

Register(h) ==
  /\ hook[h].state = "absent"
  /\ hook' = [hook EXCEPT ![h].state = "active"]
  /\ UNCHANGED <<stage, retries, subs, at, attempt, acked, refused, missed>>

Deactivate(h) ==
  /\ hook[h].state # "absent"
  /\ hook' = [hook EXCEPT ![h].state = "inactive"]
  /\ UNCHANGED <<stage, retries, subs, at, attempt, acked, refused, missed>>

-----------------------------------------------------------------------------
(* The Celery task. *)

Submit(d) ==
  /\ stage[d] = "new"
  /\ stage' = [stage EXCEPT ![d] = "queued"]
  /\ UNCHANGED <<hook, retries, subs, at, attempt, acked, refused, missed>>

Subscribers(d) == {h \in Hook : hook[h].state = "active" /\ d \in Wants[h]}

\* get_subscribers answers [] when its query fails.
Begin(d) ==
  /\ stage[d] = "queued"
  /\ \E S \in {Subscribers(d)} \cup (IF "db" \in Faults THEN {{}} ELSE {}) :
       /\ subs' = [subs EXCEPT ![d] = S]
       /\ at' = [at EXCEPT ![d] = [h \in Hook |-> IF h \in S THEN "post" ELSE "none"]]
  /\ attempt' = [attempt EXCEPT ![d] = Zero]
  /\ stage' = [stage EXCEPT ![d] = "running"]
  /\ UNCHANGED <<hook, retries, acked, refused, missed>>

\* raise self.retry(...)
Retry(d) ==
  /\ IF retries[d] < MaxTaskRetries
     THEN /\ stage' = [stage EXCEPT ![d] = "queued"]
          /\ retries' = [retries EXCEPT ![d] = @ + 1]
     ELSE /\ stage' = [stage EXCEPT ![d] = "failed"]
          /\ UNCHANGED retries
  /\ UNCHANGED <<hook, subs, at, attempt, acked, refused, missed>>

\* The constructor of the store raises: nothing has been sent yet.
StoreUnavailable(d) ==
  /\ "db" \in Faults
  /\ stage[d] = "queued"
  /\ Retry(d)

\* A worker that dies loses the task: Celery has acknowledged it before running
\* it.  An answer may have come that is not yet logged.
Crash(d) ==
  /\ "crash" \in Faults
  /\ stage[d] = "running"
  /\ stage' = [stage EXCEPT ![d] = "lost"]
  /\ \/ UNCHANGED <<acked, missed>>
     \/ \E h \in Hook : /\ at[d][h] = "post"
                       /\ acked' = [acked EXCEPT ![d][h] = @ + 1]
                       /\ missed' = missed \cup {h}
  /\ UNCHANGED <<hook, retries, subs, at, attempt, refused>>

-----------------------------------------------------------------------------
(* One delivery. *)

\* 200 <= status_code < 300, as counted and as acted upon.
Success_Counted(outcome) == outcome \in {"2xx", "refused"}
Success(outcome)         == outcome = "2xx"

\* The entry and the counter are one transaction; a failure of it is swallowed.
LogDelivery(h, outcome) ==
  \/ /\ hook' = IF Success(outcome) THEN [hook EXCEPT ![h].delivered = @ + 1]
                                    ELSE [hook EXCEPT ![h].failures = @ + 1]
     /\ UNCHANGED missed
  \/ "db" \in Faults /\ missed' = missed \cup {h} /\ UNCHANGED hook

MoreAttempts(d, h) == attempt[d][h] + 1 < MaxAttempts

Count(d, h) == attempt' = [attempt EXCEPT ![d][h] = @ + 1]

Answered(d, h) ==
  /\ stage[d] = "running"
  /\ at[d][h] = "post"
  /\ LogDelivery(h, "2xx")
  /\ at' = [at EXCEPT ![d][h] = "ok"]
  /\ Count(d, h)
  /\ acked' = [acked EXCEPT ![d][h] = @ + 1]
  /\ UNCHANGED <<stage, retries, subs, refused>>

\* Another status, or an exception: a timeout, a refused connection.
AttemptFails(d, h) ==
  /\ "down" \in Faults
  /\ stage[d] = "running"
  /\ at[d][h] = "post"
  /\ LogDelivery(h, "refused")
  /\ at' = [at EXCEPT ![d][h] = IF MoreAttempts(d, h) THEN "wait" ELSE "failed"]
  /\ Count(d, h)
  /\ refused' = [refused EXCEPT ![h] = @ + 1]
  /\ UNCHANGED <<stage, retries, subs, acked>>

BackoffOver(d, h) ==
  /\ stage[d] = "running"
  /\ at[d][h] = "wait"
  /\ at' = [at EXCEPT ![d][h] = "post"]
  /\ UNCHANGED <<hook, stage, retries, subs, attempt, acked, refused, missed>>

\* gather has all results and raises none of them.
Delivered(d) == {h \in Hook : at[d][h] = "ok"}

Finished_AllOk(d) == Delivered(d) = subs[d]
Finished(d)       == \A h \in subs[d] : at[d][h] \in {"ok", "failed"}

\* dispatch drops the results: the task succeeds whatever was delivered.
Done(d) ==
  /\ stage' = [stage EXCEPT ![d] = "done"]
  /\ UNCHANGED <<hook, retries, subs, at, attempt, acked, refused, missed>>
Complete_RetryAll(d) == IF Delivered(d) = subs[d] THEN Done(d) ELSE Retry(d)
Complete(d)          == Done(d)

End(d) ==
  /\ stage[d] = "running"
  /\ Finished(d)
  /\ Complete(d)

-----------------------------------------------------------------------------
Deliver(d, h) == Answered(d, h) \/ AttemptFails(d, h) \/ BackoffOver(d, h)
Run(d)        == Begin(d) \/ StoreUnavailable(d) \/ End(d) \/ \E h \in Hook : Deliver(d, h)

Next ==
  \/ \E h \in Hook : Register(h) \/ Deactivate(h)
  \/ \E d \in Dispatch : Submit(d) \/ Run(d) \/ Crash(d)

Spec == Init /\ [][Next]_vars

\* Celery runs the tasks it has, and a task's event loop its deliveries.
FairSpec == Spec /\ \A d \in Dispatch : WF_vars(Run(d))

-----------------------------------------------------------------------------
\* An event that a receiver has acknowledged (the dispatcher got its 2xx) is not
\* sent to it again, over all attempts of a delivery and all runs of its task,
\* crashes included (_deliver, dispatch_webhook_task).
AckedOnce == \A d \in Dispatch, h \in Hook : acked[d][h] <= 1

\* The 2xx answers of a hook, numbered for each event.
Acks(h) == UNION {{d} \X (1 .. acked[d][h]) : d \in Dispatch}

\* delivery_count and failure_count agree with what receivers answered, however
\* deliveries of several events to one hook interleave, until a log entry is lost
\* to a database error or a crash (log_delivery).
CountersMatchAnswers ==
  \A h \in Hook \ missed :
    /\ hook[h].delivered = Cardinality(Acks(h))
    /\ hook[h].failures = refused[h]

\* "Retry policy: 3 attempts" (dispatcher): a delivery to an endpoint that never
\* answers comes to an end, and with it the dispatch.
DispatchEnds == \A d \in Dispatch : stage[d] = "queued" ~> stage[d] \in {"done", "failed", "lost"}
=============================================================================
