----------------------------- MODULE Notifications -----------------------------
(***************************************************************************)
(* NotificationCenter (notifications/notification_center.py) and the       *)
(* handlers of the event bus that write to it (events/handlers.py).  A     *)
(* handler makes up to two writes, the audit entry first, each a           *)
(* transaction whose error ends the handler; the bus catches it.           *)
(***************************************************************************)
EXTENDS Naturals, FiniteSets

CONSTANTS Proc, Note, Tenant, System, None,
          Percent,    \* usage_percentage of the events
          Days,       \* purge_old
          MaxTime     \* bound: the clock stops here

VARIABLES
  notes,     \* notifications: id -> [tenant, kind, priority, read, at] or None
  audited,   \* audit_log: what the handlers of each process have recorded, by id
  handler,   \* the notification each process is about to write
  now,
  unread     \* history: ids created and not marked read by their tenant

vars == <<notes, audited, handler, now, unread>>

Idle == [at |-> "idle"]
Row(n) == notes[n] # None

Init ==
  /\ notes = [n \in Note |-> None] /\ audited = {} /\ unread = {} /\ now = 0
  /\ handler = [p \in Proc |-> Idle]

Tick == now < MaxTime /\ now' = now + 1 /\ UNCHANGED <<notes, audited, handler, unread>>

\* An id is drawn once; n names the row that the handler will write, if any.
Fresh(n) == ~Row(n) /\ n \notin audited \cup unread /\ \A p \in Proc : handler[p] # Idle => handler[p].id # n
Go(p, n, at, t, kind, priority) ==
  /\ handler[p] = Idle /\ Fresh(n)
  /\ handler' = [handler EXCEPT ![p] = [at |-> at, id |-> n, tenant |-> t, kind |-> kind, priority |-> priority]]
  /\ UNCHANGED <<notes, audited, now, unread>>

Receiver(t) == IF t = None THEN System ELSE t

OnPriceAlert(p, n, t) ==
  \E big \in BOOLEAN : Go(p, n, "create", Receiver(t), "price_alert", IF big THEN "warning" ELSE "info")

\* Below 75 percent nothing is written.
UsagePriority(pct) == IF pct >= 90 THEN "critical" ELSE IF pct >= 75 THEN "warning" ELSE "none"
OnBillingThreshold(p, n, t, pct) ==
  /\ UsagePriority(pct) # "none"
  /\ Go(p, n, "create", t, "billing", UsagePriority(pct))

\* The audit entry first; the welcome for a new tenant only.
OnTenantEvent(p, n, t, action) ==
  Go(p, n, "audit", t, action, "info")

OnSecurityEvent(p, n, t, severity) ==
  Go(p, n, "audit", Receiver(t), IF severity = "critical" THEN "alert" ELSE "noted", "critical")

OnHealthDegraded(p, n, status) ==
  Go(p, n, "create", System, "health", IF status = "degraded" THEN "warning" ELSE "critical")

Notifies(kind) == kind \notin {"updated", "deactivated", "noted"}

RecordAudit(p) ==
  /\ handler[p].at = "audit"
  /\ audited' = audited \cup {handler[p].id}
  /\ handler' = [handler EXCEPT ![p] = IF Notifies(handler[p].kind) THEN [@ EXCEPT !.at = "create"] ELSE Idle]
  /\ UNCHANGED <<notes, now, unread>>

Create(p) ==
  /\ handler[p].at = "create"
  /\ notes' = [notes EXCEPT ![handler[p].id] =
       [tenant |-> handler[p].tenant, kind |-> handler[p].kind, priority |-> handler[p].priority,
        read |-> FALSE, at |-> now]]
  /\ unread' = unread \cup {handler[p].id}
  /\ handler' = [handler EXCEPT ![p] = Idle]
  /\ UNCHANGED <<audited, now>>

\* An error of either write, or the death of the process.
Fail(p) ==
  /\ handler[p] # Idle
  /\ handler' = [handler EXCEPT ![p] = Idle]
  /\ UNCHANGED <<notes, audited, now, unread>>

Of(t) == {n \in Note : Row(n) /\ notes[n].tenant = t}

Mark(S) ==
  /\ notes' = [n \in Note |-> IF n \in S THEN [notes[n] EXCEPT !.read = TRUE] ELSE notes[n]]
  /\ unread' = unread \ S
  /\ UNCHANGED <<audited, handler, now>>

\* The id and the tenant have to agree.
MarkRead(n, t) == Mark({n} \cap Of(t))
MarkAllRead(t) == Mark(Of(t))

PurgeOld_Unread ==
  /\ notes' = [n \in Note |-> IF Row(n) /\ notes[n].at + Days < now THEN None ELSE notes[n]]
  /\ UNCHANGED <<audited, handler, now, unread>>
PurgeOld ==
  /\ notes' = [n \in Note |-> IF Row(n) /\ notes[n].at + Days < now /\ notes[n].read THEN None ELSE notes[n]]
  /\ UNCHANGED <<audited, handler, now, unread>>

Next ==
  \/ Tick \/ PurgeOld
  \/ \E t \in Tenant \cup {System} : MarkAllRead(t) \/ \E n \in Note : MarkRead(n, t)
  \/ \E p \in Proc : RecordAudit(p) \/ Create(p) \/ Fail(p)
  \/ \E p \in Proc, n \in Note, t \in Tenant :
       \/ OnPriceAlert(p, n, t) \/ OnPriceAlert(p, n, None)
       \/ \E pct \in Percent : OnBillingThreshold(p, n, t, pct)
       \/ \E action \in {"created", "updated", "deactivated"} : OnTenantEvent(p, n, t, action)
       \/ \E severity \in {"warning", "critical"} : OnSecurityEvent(p, n, t, severity)
       \/ \E status \in {"degraded", "down"} : OnHealthDegraded(p, n, status)

Spec == Init /\ [][Next]_vars

-----------------------------------------------------------------------------
\* ORDER BY created_at DESC LIMIT: of the rows that tie for the last places any may come.
Page(S, limit) == {n \in S : Cardinality({m \in S : notes[m].at > notes[n].at}) < limit}
Unread(t)      == {n \in Of(t) : ~notes[n].read}

GetAll(t, limit)    == Page(Of(t), limit)
GetUnread(t, limit) == Page(Unread(t), limit)
GetUnreadCount(t)   == Cardinality(Unread(t))

\* What a tenant has not read is there until it reads it, however old it is and whatever
\* other tenants mark: it is counted, and shown to who asks for as many as are counted.  A
\* welcome or a security alert that anybody sees is in the audit log.
NothingUnreadIsLost ==
  /\ \A n \in unread : Row(n) /\ n \in GetUnread(notes[n].tenant, GetUnreadCount(notes[n].tenant))
  /\ \A t \in Tenant \cup {System} : GetUnreadCount(t) = Cardinality(unread \cap Of(t))
  /\ \A n \in Note : Row(n) /\ notes[n].kind \in {"created", "alert"} => n \in audited
  /\ \A n \in Note : Row(n) => Notifies(notes[n].kind)
=============================================================================
