------------------------------- MODULE TTLCache -------------------------------
(***************************************************************************)
(* TTLCache (cache/ttl_cache.py): a bounded cache with expiry.  Every      *)
(* method holds the lock, so each is one step whatever the threads; set    *)
(* reads the clock before it takes the lock.  The order of _store is the   *)
(* order of use: get and set move an entry to the end, a full cache loses  *)
(* its first entry, expired or not.                                        *)
(***************************************************************************)
EXTENDS Naturals, Sequences, FiniteSets, Functions

CONSTANTS Thread, Key, None,
          Space,         \* the namespace of each key: ns_key
          MaxSize, TTL,
          Every,         \* sets between two clean-ups
          MaxTime        \* bound: the clock stops here

VARIABLES
  store,     \* _store, oldest use first: [key, expires]
  pending,   \* the entry each thread has made and not yet stored
  now,
  sets,      \* _stats["sets"] modulo Every
  used       \* history: keys in the order of their last use, the evicted ones too

vars == <<store, pending, now, sets, used>>

Init ==
  /\ store = <<>> /\ now = 0 /\ sets = 0
  /\ pending = [t \in Thread |-> None]
  /\ used = <<>>

KeysOf(s)     == {s[i].key : i \in DOMAIN s}
Keys          == KeysOf(store)
Entry(k)      == CHOOSE e \in Range(store) : e.key = k
Expired(e)    == now > e.expires

\* What s has in T, in its order.
Only(s, T) ==
  LET I == {i \in DOMAIN s : s[i] \in T}
  IN [n \in 1 .. Cardinality(I) |-> s[CHOOSE i \in I : Cardinality({j \in I : j < i}) = n - 1]]

Without(s, k) == Only(s, {e \in Range(s) : e.key # k})
LastUse(k)    == Append(Only(used, Key \ {k}), k)

\* The entries that are deleted or found expired, not evicted.
Drop(K) ==
  /\ store' = Only(store, {e \in Range(store) : e.key \notin K})
  /\ used' = Only(used, Key \ K)
  /\ UNCHANGED <<pending, now, sets>>

Tick == now < MaxTime /\ now' = now + 1 /\ UNCHANGED <<store, pending, sets, used>>

\* get (and exists): an expired entry is dropped, a hit moves to the end.
Hit_Unmoved(k) == store' = store /\ used' = LastUse(k)
Hit(k) == store' = Append(Without(store, k), Entry(k)) /\ used' = LastUse(k)

Get(k) ==
  /\ k \in Keys
  /\ IF Expired(Entry(k)) THEN Drop({k}) ELSE Hit(k) /\ UNCHANGED <<pending, now, sets>>

\* set, before the lock.
MakeEntry(t, k, ttl) ==
  /\ pending[t] = None
  /\ pending' = [pending EXCEPT ![t] = [key |-> k, expires |-> now + ttl]]
  /\ UNCHANGED <<store, now, sets, used>>

EvictIfNeeded(s)  == IF Len(s) >= MaxSize THEN SubSeq(s, Len(s) - MaxSize + 2, Len(s)) ELSE s
CleanupExpired(s) == Only(s, {e \in Range(s) : ~Expired(e)})

\* set, with the lock: an entry of the key is replaced without an eviction.
StoreEntry(t) ==
  /\ pending[t] # None
  /\ LET e == pending[t]
         s == Append(IF e.key \in Keys THEN Without(store, e.key) ELSE EvictIfNeeded(store), e)
         kept == IF (sets + 1) % Every = 0 THEN CleanupExpired(s) ELSE s
     IN store' = kept /\ used' = Only(LastUse(e.key), Key \ (KeysOf(s) \ KeysOf(kept)))
  /\ sets' = (sets + 1) % Every
  /\ pending' = [pending EXCEPT ![t] = None]
  /\ UNCHANGED now

Delete(k)              == k \in Keys /\ Drop({k})
InvalidateNamespace(n) == Drop({k \in Keys : Space[k] = n})
Clear                  == Drop(Keys)

Next ==
  \/ Tick \/ Clear
  \/ \E k \in Key : Get(k) \/ Delete(k) \/ \E t \in Thread, ttl \in {0, TTL} : MakeEntry(t, k, ttl)
  \/ \E t \in Thread : StoreEntry(t)
  \/ \E n \in Range(Space) : InvalidateNamespace(n)

-----------------------------------------------------------------------------
\* The cache holds at most MaxSize entries, and they are, in order, those of the keys
\* used last among all that have been set and neither deleted nor found expired: an
\* eviction has always taken the least recently used.
HoldsTheLastUsed ==
  /\ Len(store) <= MaxSize
  /\ [i \in DOMAIN store |-> store[i].key] = SubSeq(used, Len(used) - Len(store) + 1, Len(used))
=============================================================================
