------------------------------ MODULE Onboarding ------------------------------
(***************************************************************************)
(* OnboardingManager (onboarding/manager.py): registrations with a status, *)
(* their checklist and their log.  A method draws its time stamp, takes    *)
(* the lock of its process, reads, and writes in one transaction.  Other   *)
(* processes come between any two of these.  The tenant id is a hash of    *)
(* the e-mail, so a tenant stands for both.                                *)
(***************************************************************************)
EXTENDS Naturals, FiniteSets, Sequences

CONSTANTS Proc, Tenant, Tier, Step, Verify, None,
          MaxTime   \* bound: no method begins after it

VARIABLES
  now,    \* the clock
  reg,    \* tenant_registrations: [plan, status] or None
  done,   \* onboarding_checklist: the completed steps; None: no rows
  log,    \* onboarding_events of each tenant by id: [what, detail, at] and since, the
          \* rows there were when its method drew the stamp `at`
  op      \* what each process is about to do, and whether it has read

vars == <<now, reg, done, log, op>>

Free     == [what |-> "none", tenant |-> None, arg |-> None, at |-> 0, since |-> 0, read |-> FALSE]
Known(t) == reg[t] # None

Init ==
  /\ now = 0
  /\ reg = [t \in Tenant |-> None]
  /\ done = [t \in Tenant |-> None]
  /\ log = [t \in Tenant |-> <<>>]
  /\ op = [p \in Proc |-> Free]

\* The arguments of each method.
Argument == [register |-> Tier, change |-> Tier, complete |-> Step, activate |-> {None}, suspend |-> {None}]
Writers  == {"suspend", "complete"}   \* those that read nothing and begin with the UPDATE

\* now = time.time(), before the lock.  Two processes may draw the same.
Begin(p, what, t, arg) ==
  /\ op[p] = Free /\ now < MaxTime
  /\ op' = [op EXCEPT ![p] = [what |-> what, tenant |-> t, arg |-> arg, at |-> now,
                              since |-> Len(log[t]), read |-> what \in Writers]]
  /\ now' \in {now, now + 1}
  /\ UNCHANGED <<reg, done, log>>

\* The SELECT of register_tenant, activate_tenant and change_plan: a known e-mail, an
\* unknown tenant and a tenant that is active already are answered at once.
Select(p) ==
  /\ op[p] # Free /\ ~op[p].read
  /\ LET who == op[p].tenant
         goesOn == CASE op[p].what = "register" -> ~Known(who)
                     [] op[p].what = "activate" -> Known(who) /\ reg[who].status # "active"
                     [] op[p].what = "change"   -> Known(who)
     IN  op' = [op EXCEPT ![p] = IF goesOn THEN [@ EXCEPT !.read = TRUE] ELSE Free]
  /\ UNCHANGED <<now, reg, done, log>>

\* The INSERT of the event, with the stamp drawn at the beginning.
Log(p, t, what, detail) ==
  log' = [log EXCEPT ![t] = Append(@, [what |-> what, detail |-> detail,
                                       at |-> op[p].at, since |-> op[p].since])]

\* The row, the checklist and the event; an e-mail registered meanwhile is a violated
\* UNIQUE constraint: everything is rolled back and the answer is 500.
Insert_Replacing(p, t) ==
  /\ reg' = [reg EXCEPT ![t] = [plan |-> op[p].arg, status |-> "pending"]]
  /\ done' = [done EXCEPT ![t] = {}]
  /\ Log(p, t, "registered", op[p].arg)
Insert(p, t) ==
  IF Known(t) THEN UNCHANGED <<reg, done, log>>
  ELSE /\ reg' = [reg EXCEPT ![t] = [plan |-> op[p].arg, status |-> "pending"]]
       /\ done' = [done EXCEPT ![t] = {}]
       /\ Log(p, t, "registered", op[p].arg)

Activate(p, t) ==
  /\ reg' = [reg EXCEPT ![t].status = "active"]
  /\ done' = [done EXCEPT ![t] = @ \cup {Verify}]
  /\ Log(p, t, "activated", None)

ChangePlan(p, t) ==
  /\ reg' = [reg EXCEPT ![t].plan = op[p].arg]
  /\ Log(p, t, "plan_changed", op[p].arg)
  /\ UNCHANGED done

\* The UPDATEs that may find no row, and then nothing is logged.
Suspend(p, t) ==
  IF ~Known(t) THEN UNCHANGED <<reg, done, log>>
  ELSE /\ reg' = [reg EXCEPT ![t].status = "suspended"]
       /\ Log(p, t, "suspended", None)
       /\ UNCHANGED done

CompleteStep(p, t) ==
  IF ~Known(t) \/ op[p].arg \in done[t] THEN UNCHANGED <<reg, done, log>>
  ELSE /\ done' = [done EXCEPT ![t] = @ \cup {op[p].arg}]
       /\ Log(p, t, "step_completed", op[p].arg)
       /\ UNCHANGED reg

\* The transaction, which may fail and then changes nothing.  It takes longer than the
\* clock's resolution.
Write(p) ==
  /\ op[p].read
  /\ LET who == op[p].tenant IN
     \/ CASE op[p].what = "register" -> Insert(p, who)
          [] op[p].what = "activate" -> Activate(p, who)
          [] op[p].what = "change"   -> ChangePlan(p, who)
          [] op[p].what = "suspend"  -> Suspend(p, who)
          [] op[p].what = "complete" -> CompleteStep(p, who)
     \/ UNCHANGED <<reg, done, log>>
  /\ op' = [op EXCEPT ![p] = Free]
  /\ now' = now + 1

Next == \E p \in Proc :
  \/ Select(p) \/ Write(p)
  \/ \E what \in DOMAIN Argument, t \in Tenant :
       \E arg \in Argument[what] : Begin(p, what, t, arg)

-----------------------------------------------------------------------------
(* Reads: get_checklist, what get_progress says remains, get_events: the ids of at most *)
(* `limit` rows, those of the greatest stamps; any of those that tie comes first.       *)

GetChecklist(t) == [s \in Step |-> s \in done[t]]
Remaining(t)    == {s \in Step : ~GetChecklist(t)[s]}
GetEvents(t, limit) ==
  {i \in DOMAIN log[t] : Cardinality({j \in DOMAIN log[t] : log[t][j].at > log[t][i].at}) < limit}

TypeOK ==
  /\ reg \in [Tenant -> [plan : Tier, status : {"pending", "active", "suspended"}] \cup {None}]
  /\ \A t \in Tenant : done[t] = None \/ done[t] \subseteq Step
  /\ \A t \in Tenant : \A i \in DOMAIN log[t] : log[t][i].at <= now

\* The events of certain kinds, and the status an event leaves.
Events(t, kinds) == {i \in DOMAIN log[t] : log[t][i].what \in kinds}
StatusAfter(e)   == CASE e.what = "registered" -> "pending" [] e.what = "activated" -> "active"
                      [] e.what = "suspended" -> "suspended"
OfStatus == {"registered", "activated", "suspended"}
OfPlan   == {"registered", "plan_changed"}

\* Row i was written last of those kinds.  Another of them that get_events may show before
\* it was written while the method of row i was under way.
WrittenLast(t, i, kinds) ==
  /\ i \in Events(t, kinds)
  /\ \A j \in Events(t, kinds) :
       /\ j <= i
       /\ (\A limit \in 1 .. Len(log[t]) : i \in GetEvents(t, limit) => j \in GetEvents(t, limit))
            => j > log[t][i].since

\* However requests in several processes interleave, the log of a tenant has one
\* registration, written first; the rows written last tell the tenant's status and plan
\* and get_events shows them before any other of their kind but those of methods they
\* overlapped; a step is completed once at most and then no longer remains; and an active
\* tenant has its e-mail verified.
LogTellsTheState ==
  \A t \in Tenant :
    IF Known(t)
    THEN /\ Events(t, {"registered"}) = {1}
         /\ \E i \in DOMAIN log[t] : WrittenLast(t, i, OfStatus) /\ reg[t].status = StatusAfter(log[t][i])
         /\ \E i \in DOMAIN log[t] : WrittenLast(t, i, OfPlan) /\ reg[t].plan = log[t][i].detail
         /\ \A i \in Events(t, {"step_completed"}) :
              /\ log[t][i].detail \notin Remaining(t)
              /\ \A j \in Events(t, {"step_completed"}) : log[t][i].detail = log[t][j].detail => i = j
         /\ reg[t].status = "active" => Verify \notin Remaining(t)
    ELSE log[t] = <<>> /\ done[t] = None
=============================================================================
