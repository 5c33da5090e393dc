------------------------------- MODULE Retention -------------------------------
(***************************************************************************)
(* RetentionPolicyManager (retention/policy_manager.py): policies for      *)
(* categories, global ones and those of a tenant, and the log of           *)
(* enforcements, which the code only simulates.  Each SELECT reads what is *)
(* committed then: get_policy is two of them when the tenant has no row,   *)
(* and the event is written by a later transaction.  enforce_all takes the *)
(* categories one by one.                                                  *)
(***************************************************************************)
EXTENDS Naturals, Sequences, Functions

CONSTANTS Proc, Tenant, Global, Action, None,
          Builtin,     \* DataCategory, in the order of the enumeration
          Custom,      \* categories that only set_policy knows
          MaxEvents    \* bound: events

VARIABLES
  policies,   \* retention_policies: category -> owner -> [action, enabled] or None
  events,     \* length of retention_events; what a row says is in op when it is written
  op,         \* enforcement in each process
  seen        \* history: decisions that were in force since its get_policy began

vars == <<policies, events, op, seen>>

Owner    == Tenant \cup {Global}
Category == Range(Builtin) \cup Custom
Policy   == [action : Action, enabled : BOOLEAN]
Idle     == [at |-> "idle"]

\* __init__ seeds an enabled global policy for every built-in category.
EnsureDefaults ==
  \E a \in Action :
    policies = [c \in Category |-> [o \in Owner |->
      IF o = Global /\ c \in Range(Builtin) THEN [action |-> a, enabled |-> TRUE] ELSE None]]

Init ==
  /\ EnsureDefaults
  /\ events = 0
  /\ op = [p \in Proc |-> Idle]
  /\ seen = [p \in Proc |-> {}]

\* get_policy in one step: the tenant's row, else the global one.
Effective(pol, c, o) == IF pol[c][o] # None THEN pol[c][o] ELSE pol[c][Global]

\* What enforce does with a policy.
Decision(row, dry) ==
  IF row = None \/ ~row.enabled THEN [action |-> "none", status |-> "skipped"]
  ELSE [action |-> IF dry THEN "dry_run" ELSE row.action, status |-> "success"]

InForce(pol, x) ==
  {Decision(Effective(pol, x.cat, x.owner), x.dry)}
    \cup (IF x.at = "global" THEN {Decision(pol[x.cat][Global], x.dry)} ELSE {})
Witness == seen' = [p \in Proc |-> IF op[p].at \in {"own", "global"}
                                   THEN seen[p] \cup InForce(policies', op[p]) ELSE seen[p]]

SetPolicy(c, o, row) ==
  /\ policies' = [policies EXCEPT ![c][o] = row]
  /\ Witness
  /\ UNCHANGED <<events, op>>

\* Global policies are not deleted.
DeletePolicy(c, o) ==
  /\ o # Global
  /\ policies' = [policies EXCEPT ![c][o] = None]
  /\ Witness
  /\ UNCHANGED <<events, op>>

Begin(p, cats, o, dry) ==
  LET new == [at |-> "own", cat |-> Head(cats), owner |-> o, dry |-> dry, rest |-> Tail(cats)]
  IN /\ op' = [op EXCEPT ![p] = new]
     /\ seen' = [seen EXCEPT ![p] = InForce(policies, new)]

\* enforce of one category, or enforce_all.
Enforce(p, cats, o, dry) ==
  /\ op[p] = Idle /\ events + Len(cats) <= MaxEvents
  /\ Begin(p, cats, o, dry)
  /\ UNCHANGED <<policies, events>>

Decide(p, row) ==
  op' = [op EXCEPT ![p] = [at |-> "record", cat |-> op[p].cat, owner |-> op[p].owner,
                           dry |-> op[p].dry, rest |-> op[p].rest,
                           decision |-> Decision(row, op[p].dry)]]

\* get_policy, first SELECT: skipped without a tenant.
ReadOwn_Skipped(p) ==
  /\ op[p].at = "own"
  /\ op' = [op EXCEPT ![p].at = "global"]
  /\ UNCHANGED <<policies, events, seen>>
ReadOwn(p) ==
  /\ op[p].at = "own"
  /\ LET row == policies[op[p].cat][op[p].owner] IN
     IF op[p].owner # Global /\ row # None THEN Decide(p, row)
     ELSE op' = [op EXCEPT ![p].at = "global"]
  /\ UNCHANGED <<policies, events, seen>>

ReadGlobal(p) ==
  /\ op[p].at = "global"
  /\ Decide(p, policies[op[p].cat][Global])
  /\ UNCHANGED <<policies, events, seen>>

\* _record_event, and the next category; an error ends the request.
RecordEvent(p) ==
  /\ op[p].at = "record"
  /\ \/ /\ events < MaxEvents
        /\ events' = events + 1
        /\ IF op[p].rest = <<>>
           THEN op' = [op EXCEPT ![p] = Idle] /\ seen' = [seen EXCEPT ![p] = {}]
           ELSE Begin(p, op[p].rest, op[p].owner, op[p].dry)
     \/ /\ op' = [op EXCEPT ![p] = Idle] /\ seen' = [seen EXCEPT ![p] = {}]
        /\ UNCHANGED events
  /\ UNCHANGED policies

Next ==
  \/ \E c \in Category, o \in Owner : DeletePolicy(c, o) \/ \E row \in Policy : SetPolicy(c, o, row)
  \/ \E p \in Proc :
       \/ ReadOwn(p) \/ ReadGlobal(p) \/ RecordEvent(p)
       \/ \E o \in Owner, dry \in BOOLEAN, cats \in {Builtin} \cup {<<c>> : c \in Category} :
            Enforce(p, cats, o, dry)

\* compliance_report: the rows it looks at, the categories covered, and those that are not.
ListPolicies(o) == IF o = Global THEN Owner ELSE {Global, o}
Covered(o)   == {c \in Category : \E q \in ListPolicies(o) : policies[c][q] # None /\ policies[c][q].enabled}
Uncovered(o) == Range(Builtin) \ Covered(o)
-----------------------------------------------------------------------------
\* An enforcement is recorded as what a policy in force since it began says, or, when the tenant
\* gets a row of its own between the two SELECTs, what a global policy said since.
\* No built-in category is ever without a policy, and the compliance report calls
\* uncovered only what an enforcement would skip.
EnforcementsFollowPolicies ==
  /\ \A p \in Proc : op[p].at = "record" => op[p].decision \in seen[p]
  /\ \A o \in Owner : \A c \in Uncovered(o) :
       policies[c][Global] # None /\ Decision(Effective(policies, c, o), FALSE).status = "skipped"
=============================================================================
