------------------------------- MODULE TenantApi -------------------------------
(***************************************************************************)
(* The authenticated API (router/api_router.py): AccessKeys, FeatureFlags  *)
(* and the audit log put together.  Each process serves one request at a   *)
(* time: verify_api_key (auth/api_key.py) reads the tenant, counts the     *)
(* use, and hands the row it has read to the endpoint, which checks the    *)
(* plan in that row, works on the stores and writes to the audit log, each *)
(* in a transaction of its own.  Processes interleave between those.  The  *)
(* endpoints never look at the clock and nothing they do calls             *)
(* validate_key: both stand still here, and move in AccessKeys by itself.  *)
(***************************************************************************)
EXTENDS AccessKeys

CONSTANTS
  Proc,         \* gunicorn workers
  Admin,        \* the enterprise tenant that exists from the start
  MaxRequests   \* bound: authenticated requests

VARIABLES
  overrides, cache, changedBy,   \* of FeatureFlags
  audit,      \* rows of audit_log: what was done, to which resource
  req,        \* the request in each process: where it is, whose, the plan it has read
  served,     \* history: requests let in
  late,       \* history: endpoints run for a tenant that was no longer active
  lost        \* history: changes whose request died or failed before its audit entry

Flags == INSTANCE FeatureFlags WITH Customer <- Tenant, Unset <- None,
                                    Required <- "pro", Default <- TRUE

apiVars == <<audit, req, served, late, lost>>
flagVars == <<overrides, cache, changedBy>>
vars == <<tenants, now, keyVars, flagVars, apiVars>>

NoEntry  == [what |-> "none", on |-> None]
Rest     == [at |-> "rest", tenant |-> None, plan |-> "free", entry |-> NoEntry]
Entry(w, r) == [what |-> w, on |-> r]

Init ==
  /\ tenants = [t \in Tenant |-> IF t = Admin
       THEN [plan |-> "enterprise", active |-> TRUE, usage |-> 0] ELSE None]
  /\ keys = [k \in Key |-> None]
  /\ val = [v \in Validator |-> Idle]
  /\ promised = [k \in Key |-> None]
  /\ now = 0
  /\ Flags!FlagInit
  /\ audit = {}
  /\ req = [p \in Proc |-> Rest]
  /\ served = 0
  /\ late = [t \in Tenant |-> 0]
  /\ lost = {}

-----------------------------------------------------------------------------
(* verify_api_key: the tenants table alone decides; then the use is counted. *)

Authenticate_AnyRow(p, c) ==
  /\ req[p] = Rest /\ served < MaxRequests
  /\ \E t \in {x \in Tenant \cap {c} : Row(tenants[x])} :
       req' = [req EXCEPT ![p] = [Rest EXCEPT !.at = "count", !.tenant = t, !.plan = tenants[t].plan]]
  /\ served' = served + 1
  /\ UNCHANGED <<tenants, now, keyVars, flagVars, audit, late, lost>>
Authenticate(p, c) ==
  /\ req[p] = Rest /\ served < MaxRequests
  /\ \E t \in GetTenantByKey(c) :
       req' = [req EXCEPT ![p] = [Rest EXCEPT !.at = "count", !.tenant = t, !.plan = tenants[t].plan]]
  /\ served' = served + 1
  /\ UNCHANGED <<tenants, now, keyVars, flagVars, audit, late, lost>>

\* An error of increment_usage is logged and the request goes on.
CountUse(p) ==
  /\ req[p].at = "count"
  /\ IncrementUsage(req[p].tenant) \/ UNCHANGED tenants
  /\ req' = [req EXCEPT ![p].at = "body"]
  /\ UNCHANGED <<now, keyVars, flagVars, audit, served, late, lost>>

-----------------------------------------------------------------------------
(* The endpoints. *)

Enter(p) ==
  /\ req[p].at = "body"
  /\ late' = IF tenants[req[p].tenant].active THEN late
             ELSE [late EXCEPT ![req[p].tenant] = @ + 1]
  /\ UNCHANGED <<now, val, audit, served, lost>>

Enterprise(p) == req[p].plan = "enterprise"
ToAudit(p, w, r) == req' = [req EXCEPT ![p].at = "audit", ![p].entry = Entry(w, r)]
Reply(p)         == req' = [req EXCEPT ![p] = Rest]

PostTenant(p, t, plan) ==
  /\ Enter(p) /\ Enterprise(p)
  /\ InsertTenant(t, plan)
  /\ ToAudit(p, "create tenant", t)
  /\ UNCHANGED <<keys, promised, flagVars>>

PatchPlan(p, t, plan) ==
  /\ Enter(p) /\ Enterprise(p)
  /\ UpdateTenantPlan(t, plan)
  /\ ToAudit(p, "update tenant", t)
  /\ UNCHANGED <<keys, promised, flagVars>>

DeleteTenant(p, t) ==
  /\ Enter(p) /\ Enterprise(p)
  /\ DeactivateTenant(t)
  /\ ToAudit(p, "delete tenant", t)
  /\ UNCHANGED <<keys, promised, flagVars>>

PostKey(p, k, life) ==
  /\ Enter(p)
  /\ CreateKey(k, req[p].tenant, LifetimeEnd(life))
  /\ ToAudit(p, "create api_key", k)
  /\ UNCHANGED <<tenants, promised, flagVars>>

\* rotate_key commits the new expiry of the old row, and then inserts the new one.
RotateKey(p, old) ==
  /\ Enter(p)
  /\ ExpireOld(old, req[p].tenant)
  /\ Promise(old, req[p].tenant)
  /\ req' = [req EXCEPT ![p].at = "rotate", ![p].entry = Entry("rotate api_key", old)]
  /\ UNCHANGED <<tenants, flagVars>>

RotateInsert(p, k) ==
  /\ req[p].at = "rotate"
  /\ CreateKey(k, req[p].tenant, None)
  /\ req' = [req EXCEPT ![p].at = "audit"]
  /\ UNCHANGED <<tenants, now, val, promised, flagVars, audit, served, late, lost>>

DeleteKey_Unrecorded(p, k) ==
  /\ Enter(p)
  /\ RevokeKey(k, req[p].tenant)
  /\ Reply(p)
  /\ UNCHANGED <<tenants, flagVars>>
\* A key of another tenant, or none, is answered with 404 and leaves no entry.
DeleteKey(p, k) ==
  /\ Enter(p)
  /\ RevokeKey(k, req[p].tenant)
  /\ IF k \in ListKeys(req[p].tenant) THEN ToAudit(p, "revoke api_key", k) ELSE Reply(p)
  /\ UNCHANGED <<tenants, flagVars>>

\* set_tenant_override swallows its errors: the entry is written even then.
PutOverride(p, t, value) ==
  /\ Enter(p) /\ Enterprise(p)
  /\ Flags!SetTenantOverride(p, t, value)
  /\ ToAudit(p, "update feature_flag", t)
  /\ UNCHANGED <<tenants, keys, promised>>

GetFeatures(p) ==
  /\ Enter(p)
  /\ Flags!GetTenantFlags(p, req[p].tenant)
  /\ Reply(p)
  /\ UNCHANGED <<tenants, keys, promised>>

\* POST /chat: refused by the limiter, or answered by the agent; what it appends to the
\* analytics, errors swallowed, is left out.
PostChat(p) ==
  /\ Enter(p)
  /\ Reply(p)
  /\ UNCHANGED <<tenants, keys, promised, flagVars>>

\* Endpoints that only read, and those that answer 403 or 404.
ReadOrRefuse(p) ==
  /\ Enter(p)
  /\ Reply(p)
  /\ UNCHANGED <<tenants, keys, promised, flagVars>>

Record(p) ==
  /\ req[p].at = "audit"
  /\ audit' = audit \cup {req[p].entry}
  /\ Reply(p)
  /\ UNCHANGED <<tenants, now, keyVars, flagVars, served, late, lost>>

\* A statement raises and the answer is 500, or the process dies and comes back.
Fail(p) ==
  /\ req[p].at # "rest"
  /\ lost' = IF req[p].at \in {"rotate", "audit"} THEN lost \cup {req[p].entry} ELSE lost
  /\ Reply(p)
  /\ Flags!FlagRestart(p) \/ (req[p].at # "count" /\ UNCHANGED flagVars)
  /\ UNCHANGED <<tenants, now, keyVars, audit, served, late>>

-----------------------------------------------------------------------------

Serve(p) ==
  \/ CountUse(p) \/ GetFeatures(p) \/ PostChat(p) \/ ReadOrRefuse(p) \/ Record(p) \/ Fail(p)
  \/ \E c \in Tenant \cup Key : Authenticate(p, c)
  \/ \E t \in Tenant : \/ DeleteTenant(p, t)
                       \/ \E plan \in Plan : PostTenant(p, t, plan) \/ PatchPlan(p, t, plan)
                       \/ \E b \in BOOLEAN : PutOverride(p, t, b)
  \/ \E k \in Key : \/ RotateKey(p, k) \/ RotateInsert(p, k) \/ DeleteKey(p, k)
                    \/ \E life \in Lifetimes : PostKey(p, k, life)

Next == \E p \in Proc : Serve(p)

Spec == Init /\ [][Next]_vars

-----------------------------------------------------------------------------

TypeOK ==
  /\ TablesTyped
  /\ Flags!FlagsTyped
  /\ audit \subseteq [what : STRING, on : Tenant \cup Key]
  /\ served \in 0 .. MaxRequests
  /\ late \in [Tenant -> 0 .. MaxRequests]

\* Deactivating a tenant ends its access at once but for requests already let in: at
\* most one in each process other than the one that deactivated it.
AccessEndsSoon == \A t \in Tenant : late[t] < Cardinality(Proc)

\* Who did what can be read from the log: behind every tenant that was created or
\* deactivated, and every key that is off without having expired, there is an entry,
\* unless the request that made the change is still at it or failed in between.
Accounted(w, r) == Entry(w, r) \in audit \cup lost \cup {req[p].entry : p \in Proc}
ChangesAreAudited ==
  /\ \A t \in Tenant \ {Admin} : Row(tenants[t]) => Accounted("create tenant", t)
  /\ \A t \in Tenant : Row(tenants[t]) /\ ~tenants[t].active => Accounted("delete tenant", t)
  /\ \A k \in Key : Row(keys[k]) /\ ~keys[k].active /\ keys[k].expires = None
       => Accounted("revoke api_key", k)

OwnChangesAreSeen == Flags!OwnChangesAreSeen
=============================================================================
