----------------------------- MODULE FeatureFlags -----------------------------
(***************************************************************************)
(* FeatureFlagStore (auth/feature_flags.py): one built-in flag with a plan *)
(* gate, the table of tenant overrides, and the cache of overrides that    *)
(* each process keeps.  An override that is not there is not cached.  The  *)
(* endpoints run on the loop of their process, so each method is one step  *)
(* there; other processes share the table only.                            *)
(***************************************************************************)
EXTENDS Naturals

CONSTANTS Proc, Customer, Unset,
          Required,     \* PLAN_GATED_FLAGS[flag]
          Default       \* its row in feature_flags, loaded at start-up

VARIABLES
  overrides,   \* tenant_flags: tenant -> BOOLEAN or Unset
  cache,       \* _cache of each process
  changedBy    \* history: the process that last changed the override of a tenant

flagVars == <<overrides, cache, changedBy>>

Rank(plan) == CASE plan = "free" -> 0 [] plan = "pro" -> 1 [] plan = "enterprise" -> 2

FlagInit ==
  /\ \E b \in {TRUE, Unset} : overrides = [t \in Customer |-> b]
  /\ cache = [p \in Proc |-> [t \in Customer |-> Unset]]
  /\ changedBy = [t \in Customer |-> Unset]

\* _get_tenant_override: the cache, then the table; what the table has is cached.
Override(p, t) == IF cache[p][t] # Unset THEN cache[p][t] ELSE overrides[t]
Cached(p, t)   == [cache EXCEPT ![p][t] = Override(p, t)]

\* is_enabled: the override, then the plan gate, then the default.
Resolve_GateFirst(override, plan) ==
  Rank(plan) >= Rank(Required) /\ (IF override # Unset THEN override ELSE Default)
Resolve(override, plan) ==
  IF override # Unset THEN override
  ELSE Rank(plan) >= Rank(Required) /\ Default

Answer(p, t, plan) == Resolve(Override(p, t), plan)

\* get_tenant_flags, whose only effect is on the cache.
GetTenantFlags(p, t) ==
  /\ cache' = Cached(p, t)
  /\ UNCHANGED <<overrides, changedBy>>

Invalidate_Not(p, t) == cache
Invalidate(p, t)     == [cache EXCEPT ![p][t] = Unset]

\* set_tenant_override and remove_tenant_override (Unset): the table first, then the
\* cache of this process.  An error of the table is logged and swallowed.
SetTenantOverride(p, t, value) ==
  \/ /\ overrides' = [overrides EXCEPT ![t] = value]
     /\ cache' = Invalidate(p, t)
     /\ changedBy' = [changedBy EXCEPT ![t] = p]
  \/ UNCHANGED flagVars

\* A process that starts again has an empty cache.
FlagRestart(p) ==
  /\ cache' = [cache EXCEPT ![p] = [t \in Customer |-> Unset]]
  /\ UNCHANGED <<overrides, changedBy>>

FlagsTyped ==
  /\ overrides \in [Customer -> BOOLEAN \cup {Unset}]
  /\ cache \in [Proc -> [Customer -> BOOLEAN \cup {Unset}]]
  /\ changedBy \in [Customer -> Proc \cup {Unset}]

\* What a process answers is what the table and the plan say, for as long as no other
\* process has made the last change to the override: a stale cache never outlives a
\* change that its own process makes.
OwnChangesAreSeen ==
  \A p \in Proc, t \in Customer : changedBy[t] \in {p, Unset} =>
    \A plan \in {"free", "pro", "enterprise"} :
      Answer(p, t, plan) = CASE overrides[t] # Unset -> overrides[t]
                             [] overrides[t] = Unset /\ plan = "free" -> Required = "free" /\ Default
                             [] OTHER -> (plan = "enterprise" \/ Required # "enterprise") /\ Default
=============================================================================
