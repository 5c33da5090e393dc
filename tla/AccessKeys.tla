------------------------------ MODULE AccessKeys ------------------------------
(***************************************************************************)
(* The tables behind authentication: tenants (auth/tenant_store.py), whose *)
(* api_key column is what verify_api_key compares, and api_keys            *)
(* (auth/key_manager.py), with expiry, rotation and validation.  Each      *)
(* statement is a transaction of its own: rotate_key is two of them,       *)
(* validate_key a SELECT and, later, an UPDATE.  A row that does not exist *)
(* is None; an id is drawn once and never used again.                      *)
(***************************************************************************)
EXTENDS Integers, FiniteSets

CONSTANTS
  Tenant,     \* tenant ids; the key of the tenants table is named by its tenant
  Key,        \* ids of rows of api_keys; the raw key is named by its row
  Validator,  \* callers of validate_key
  None,
  Lifetimes,  \* expires_in_days of create_key; None: the key never expires
  Grace,      \* grace_period_hours
  MaxTime,    \* bound: the clock stops here
  MaxUses     \* bound: usage_count of a key stops growing here

VARIABLES
  tenants,    \* tenant id -> [plan, active, usage] or None
  keys,       \* key id -> [tenant, active, expires, used] or None
  val,        \* what each validator has read
  now,        \* datetime.now
  promised    \* history: until when a key rotated while it was good should work

keyVars == <<keys, val, promised>>

Plan == {"free", "pro", "enterprise"}
Time == 0 .. MaxTime + Grace

Row(r) == r # None
Idle   == [at |-> "idle", key |-> None]

-----------------------------------------------------------------------------
(* TenantStore *)

\* The tenant whose row has this api_key and is active.
GetTenantByKey(c) ==
  IF c \in Tenant /\ Row(tenants[c]) /\ tenants[c].active THEN {c} ELSE {}

InsertTenant(t, plan) ==
  /\ tenants[t] = None
  /\ tenants' = [tenants EXCEPT ![t] = [plan |-> plan, active |-> TRUE, usage |-> 0]]

\* An UPDATE that finds no row is a success all the same.
UpdateTenantPlan(t, plan) ==
  tenants' = IF Row(tenants[t]) THEN [tenants EXCEPT ![t].plan = plan] ELSE tenants

DeactivateTenant(t) ==
  tenants' = IF Row(tenants[t]) THEN [tenants EXCEPT ![t].active = FALSE] ELSE tenants

IncrementUsage(t) ==
  tenants' = IF Row(tenants[t]) THEN [tenants EXCEPT ![t].usage = @ + 1] ELSE tenants

-----------------------------------------------------------------------------
(* APIKeyManager *)

NewKey(t, e) == [tenant |-> t, active |-> TRUE, expires |-> e, used |-> 0]

Good(k)    == Row(keys[k]) /\ keys[k].active
              /\ (keys[k].expires = None \/ keys[k].expires >= now)
\* A validation has found the key expired and has not yet switched it off.
Doomed(k)  == \E v \in Validator : val[v] = [at |-> "expire", key |-> k]

CreateKey(k, t, e) ==
  /\ keys[k] = None
  /\ keys' = [keys EXCEPT ![k] = NewKey(t, e)]

LifetimeEnd(life) == IF life = None THEN None ELSE now + life

\* The first transaction of rotate_key: any row of the tenant gets the new expiry,
\* an inactive or an expired one too.
ExpireOld_AtOnce(k, t) ==
  keys' = IF Row(keys[k]) /\ keys[k].tenant = t
          THEN [keys EXCEPT ![k].expires = now - 1] ELSE keys
ExpireOld(k, t) ==
  keys' = IF Row(keys[k]) /\ keys[k].tenant = t
          THEN [keys EXCEPT ![k].expires = now + Grace] ELSE keys

Promise(k, t) ==
  promised' = IF Good(k) /\ keys[k].tenant = t /\ ~Doomed(k)
              THEN [promised EXCEPT ![k] = now + Grace] ELSE promised

RevokeKey(k, t) ==
  /\ keys' = IF Row(keys[k]) /\ keys[k].tenant = t
             THEN [keys EXCEPT ![k].active = FALSE] ELSE keys
  /\ promised' = IF Row(keys[k]) /\ keys[k].tenant = t
                 THEN [promised EXCEPT ![k] = None] ELSE promised

\* validate_key: the SELECT of the active row, and the comparison with the clock.
ValidateRead(v, k) ==
  /\ val[v] = Idle
  /\ Row(keys[k]) /\ keys[k].active
  /\ val' = [val EXCEPT ![v] =
       [at |-> IF keys[k].expires # None /\ keys[k].expires < now THEN "expire" ELSE "use",
        key |-> k]]
  /\ UNCHANGED <<keys, promised>>

\* Then an UPDATE by id, whatever the row has become; or an error, and nothing.
ValidateWrite(v) ==
  /\ val[v].at \in {"expire", "use"}
  /\ LET k == val[v].key IN
     \/ keys' = [keys EXCEPT ![k].active = @ /\ val[v].at = "use",
                             ![k].used = IF val[v].at = "use" /\ @ < MaxUses THEN @ + 1 ELSE @]
     \/ UNCHANGED keys
  /\ val' = [val EXCEPT ![v] = Idle]
  /\ UNCHANGED promised

\* list_keys and get_active_count
ListKeys(t)   == {k \in Key : Row(keys[k]) /\ keys[k].tenant = t}
ActiveKeys(t) == {k \in ListKeys(t) : keys[k].active}

-----------------------------------------------------------------------------
(* The key manager by itself: any number of callers, each at any transaction. *)

KeyInit ==
  /\ tenants = [t \in Tenant |-> None]
  /\ keys = [k \in Key |-> None]
  /\ val = [v \in Validator |-> Idle]
  /\ promised = [k \in Key |-> None]
  /\ now = 0

\* create_key, or the second transaction of rotate_key (with no expiry).
Create(k, t, life) ==
  /\ CreateKey(k, t, LifetimeEnd(life))
  /\ UNCHANGED <<val, promised>>

Rotate(k, t) ==
  /\ ExpireOld(k, t)
  /\ Promise(k, t)
  /\ UNCHANGED val

Revoke(k, t) ==
  /\ RevokeKey(k, t)
  /\ UNCHANGED val

KeyNext ==
  \/ /\ \/ \E k \in Key, t \in Tenant :
            \/ Rotate(k, t) \/ Revoke(k, t) \/ \E life \in Lifetimes : Create(k, t, life)
        \/ \E v \in Validator : ValidateWrite(v) \/ \E k \in Key : ValidateRead(v, k)
     /\ UNCHANGED <<tenants, now>>
  \/ /\ now < MaxTime
     /\ now' = now + 1
     /\ UNCHANGED <<tenants, keyVars>>

KeySpec == KeyInit /\ [][KeyNext]_<<tenants, now, keyVars>>

TablesTyped ==
  /\ tenants \in [Tenant -> [plan : Plan, active : BOOLEAN, usage : Nat] \cup {None}]
  /\ keys \in [Key -> [tenant : Tenant, active : BOOLEAN, expires : Time \cup {None},
                       used : 0 .. MaxUses] \cup {None}]
  /\ val \in [Validator -> [at : {"idle", "expire", "use"}, key : Key \cup {None}]]
  /\ promised \in [Key -> Time \cup {None}]
  /\ now \in 0 .. MaxTime

\* A key that was in force when rotate_key gave it its grace period stays active to
\* the end of it, unless it is revoked or a validation that had found it expired
\* before (an earlier rotation revived it) is still about to switch it off.
GraceIsKept ==
  \A k \in Key : promised[k] # None /\ now <= promised[k] => k \in ActiveKeys(keys[k].tenant)
=============================================================================
