----------------------------- MODULE DynamicConfig -----------------------------
(***************************************************************************)
(* DynamicConfig (config_dynamic.py): one table of global values and of    *)
(* overrides for a tenant, and in each process a cache of all the global   *)
(* values, loaded at start-up and again after each global set of its own.  *)
(* A stored value that cannot be cast to its stored type (Bad) makes every *)
(* load raise: set has committed by then, and a process cannot start.      *)
(***************************************************************************)
EXTENDS FiniteSets

CONSTANTS Proc, Name, Value, Bad, Unset, Down

VARIABLES
  rows,      \* dynamic_config with no tenant: name -> value
  own,       \* the overrides of one tenant
  cached,    \* _cache of each process; Down: it could not be constructed
  behind     \* history: the names that changed since each process last loaded

vars == <<rows, own, cached, behind>>

Stored   == Value \cup {Bad, Unset}
Nothing  == [n \in Name |-> Unset]
Loads    == \A n \in Name : rows[n] # Bad
LoadsNow == \A n \in Name : rows'[n] # Bad
Up(p)    == cached[p] # Down

\* The defaults are seeded for some names; set may add others.
Init ==
  /\ \E S \in SUBSET Name, v \in Value : rows = [n \in Name |-> IF n \in S THEN v ELSE Unset]
  /\ own = Nothing
  /\ cached = [p \in Proc |-> rows]
  /\ behind = [p \in Proc |-> {}]

Loaded_One(p, n) == [cached EXCEPT ![p][n] = rows'[n]]
Loaded(p, n)     == [cached EXCEPT ![p] = rows']

\* set without a tenant.  The row is committed; then the cache is loaded, unless the
\* query fails (swallowed) or a row does not cast (raised: 500).
SetGlobal(p, n, v) ==
  /\ Up(p)
  /\ rows' = [rows EXCEPT ![n] = v]
  /\ \/ /\ LoadsNow
        /\ cached' = Loaded(p, n)
        /\ behind' = [q \in Proc |-> IF q = p THEN {} ELSE behind[q] \cup {n}]
     \/ /\ behind' = [q \in Proc |-> behind[q] \cup {n}]
        /\ UNCHANGED cached
  /\ UNCHANGED own

\* With a tenant: nothing is cached of it.
SetTenant(p, n, v) ==
  /\ Up(p)
  /\ own' = [own EXCEPT ![n] = v]
  /\ UNCHANGED <<rows, cached, behind>>

\* delete: overrides only.
Delete(p, n) ==
  /\ Up(p)
  /\ own' = [own EXCEPT ![n] = Unset]
  /\ UNCHANGED <<rows, cached, behind>>

\* A process starts again; when the query of the load fails, its cache is empty.
Restart(p) ==
  /\ \/ Loads  /\ cached' = [cached EXCEPT ![p] = rows] /\ behind' = [behind EXCEPT ![p] = {}]
     \/ Loads  /\ cached' = [cached EXCEPT ![p] = Nothing] /\ behind' = [behind EXCEPT ![p] = Name]
     \/ ~Loads /\ cached' = [cached EXCEPT ![p] = Down] /\ behind' = [behind EXCEPT ![p] = {}]
  /\ UNCHANGED <<rows, own>>

Next == \E p \in Proc :
  \/ Restart(p)
  \/ \E n \in Name : \/ Delete(p, n)
                     \/ \E v \in Value \cup {Bad} : SetGlobal(p, n, v) \/ SetTenant(p, n, v)

Spec == Init /\ [][Next]_vars

\* get: the tenant's override from the table, else the cached global value.
Get(p, n, tenant) == IF tenant /\ own[n] # Unset THEN own[n] ELSE cached[p][n]

TypeOK ==
  /\ rows \in [Name -> Stored] /\ own \in [Name -> Stored]
  /\ cached \in [Proc -> [Name -> Stored] \cup {Down}]
  /\ behind \in [Proc -> SUBSET Name]

\* A process answers with the stored value of every name that nobody has changed since
\* its last load, and its own successful set is a load of everything: what others had
\* changed before is seen from then on.
ConfigIsCurrent ==
  \A p \in Proc : Up(p) => \A n \in Name \ behind[p] : Get(p, n, FALSE) = rows[n]
=============================================================================
