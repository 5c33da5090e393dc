------------------------------- MODULE MCStores -------------------------------
(* A small instance of every part. *)
EXTENDS Stores

CONSTANTS a, b, c, t, x, y, z

MCUntil   == [keys |-> 3, board |-> 3, wish |-> 2, lru |-> 2, ip |-> 5, win |-> 5, note |-> 2]
MCSpace   == [k \in {x, y, z} |-> IF k = z THEN 2 ELSE 1]
MCType    == [p \in {a, b, c} |-> IF p = c THEN 2 ELSE 1]
MCBuiltin == <<"conversations", "search_history">>
MCCharge  == {[calls |-> 2, runs |-> 1]}
MCDays    == <<2, 1>>
MCPricing == [free |-> [base |-> 0, calls |-> 1, perCall |-> 0, runs |-> 1, perRun |-> 0],
              pro  |-> [base |-> 5, calls |-> 1, perCall |-> 1, runs |-> 1, perRun |-> 2]]

MCSaved   == {[brands |-> {}, budget |-> None, notes |-> None], [brands |-> {x, y}, budget |-> None, notes |-> None]}
  \cup {[brands |-> {v}, budget |-> None, notes |-> None] : v \in {x, y}}
  \cup {[brands |-> {}, budget |-> v, notes |-> None] : v \in {x, y}}
  \cup {[brands |-> {}, budget |-> None, notes |-> v] : v \in {x, y}}
  \cup {[brands |-> {v}, budget |-> v, notes |-> v] : v \in {x, y}}

\* One key of the endpoints is z, one user of the key manager is t.
Sym == Permutations({a, b}) \cup Permutations({x, y})
=============================================================================
