------------------------------ MODULE PriceCache ------------------------------
(***************************************************************************)
(* fetch_prices (shopsage/tool/price_scraper.py) and the cache it uses     *)
(* (shopsage/cache/redis_backend.py, distributed_cache.py).                *)
(*                                                                         *)
(* The callers are coroutines of one event loop ("loop"), for which get    *)
(* and set are atomic, or threads of the agent's tools ("threads"), which  *)
(* interleave at every operation on the two dicts of the in-memory cache,  *)
(* there being no lock.  Under "redis" json.dumps fails on the list of     *)
(* StoreResult objects: set swallows that, and get never finds anything.   *)
(***************************************************************************)
EXTENDS Integers, Sequences, SequencesExt, Functions

CONSTANTS
  Caller,     \* calls of fetch_prices at a time
  Query,      \* normalised queries
  TTL,        \* SCRAPER_CACHE_TTL, in ticks
  MaxScrape,  \* bound: ticks that the stores take
  MaxSize,    \* max_size of the cache
  Modes,      \* the ways to run it: "loop", "threads", "redis"
  MaxTime,    \* bound: ticks
  None        \* no entry, no result

ASSUME TimesType == {TTL, MaxScrape, MaxTime} \subseteq Nat
ASSUME QueryType == Query # {}
ASSUME SizeType  == MaxSize \in Nat \ {0}
ASSUME NoneType  == None \notin Nat \cup Query

VARIABLES
  mode,     \* how the callers run
  now,      \* time.monotonic()
  local,    \* _local: entries in the order in which their keys were inserted
  expiry,   \* _local_expiry: a time, or None
  call,     \* each caller: where it is, its query, result and victim
  clearing, \* clear has emptied _local and not yet _local_expiry
  stored    \* history: when a result was last given to set, and not evicted since

vars == <<mode, now, local, expiry, call, clearing, stored>>

Time  == 0 .. MaxTime
Stage == {"idle", "look", "check", "read", "del", "del2", "scrape", "put", "date", "full", "raised"}

TypeOK ==
  /\ mode \in Modes
  /\ now \in Time
  /\ local \in Seq([query : Query, at : Time]) /\ IsInjective([i \in DOMAIN local |-> local[i].query])
  /\ expiry \in [Query -> (0 .. MaxTime + TTL) \cup {None}]
  /\ call \in [Caller -> [stage : Stage, query : Query, victim : Query, at : Time \cup {None}]]
  /\ clearing \in BOOLEAN
  /\ stored \in [Query -> Time \cup {None}]

NewCall(q) == [stage |-> "idle", query |-> q, victim |-> q, at |-> None]

Init ==
  /\ mode \in Modes
  /\ now = 0
  /\ local = <<>>
  /\ expiry = [q \in Query |-> None]
  /\ call = [c \in Caller |-> NewCall(CHOOSE q \in Query : TRUE)]
  /\ clearing = FALSE
  /\ stored = [q \in Query |-> None]

-----------------------------------------------------------------------------
Held   == {local[i].query : i \in DOMAIN local}
Inside == {c \in Caller : call[c].stage \notin {"idle", "scrape", "raised"}}

\* c is at a stage and may go on: a coroutine is not interrupted inside get or set.
At(c, stage)   == call[c].stage = stage /\ (mode = "loop" => Inside \subseteq {c} /\ ~clearing)
Scrapes(c)     == call' = [call EXCEPT ![c].stage = "scrape", ![c].at = now]
Goes(c, stage) == call' = [call EXCEPT ![c].stage = stage]

SetValue(q, v) ==
  local' = IF q \notin Held THEN Append(local, [query |-> q, at |-> v])
           ELSE [i \in DOMAIN local |-> IF local[i].query = q THEN [local[i] EXCEPT !.at = v] ELSE local[i]]

\* del self._local[key], del self._local_expiry[key]: of an expired entry in get,
\* of the oldest in set.  KeyError when another thread has been there.
DelValue(c) ==
  LET q == call[c].victim IN
  /\ At(c, "del")
  /\ \/ \E i \in DOMAIN local : local[i].query = q /\ local' = RemoveAt(local, i) /\ Goes(c, "del2")
     \/ q \notin Held /\ UNCHANGED local /\ Goes(c, "raised")
  /\ stored' = IF call[c].at = None THEN stored ELSE [stored EXCEPT ![q] = None]
  /\ UNCHANGED <<mode, clearing, now, expiry>>

DelTime_Not(q) == UNCHANGED expiry
DelTime(q)     == expiry' = [expiry EXCEPT ![q] = None]

\* get goes on to the stores, set is done.
DelExpiry(c) ==
  LET q == call[c].victim IN
  /\ At(c, "del2")
  /\ DelTime(q)
  /\ IF expiry[q] = None THEN Goes(c, "raised")
     ELSE IF call[c].at = None THEN Scrapes(c) ELSE Goes(c, "idle")
  /\ UNCHANGED <<mode, clearing, now, local, stored>>

-----------------------------------------------------------------------------
(* get *)

Fetch(c, q) ==
  /\ call[c].stage = "idle"
  /\ mode = "loop" => Inside = {} /\ ~clearing
  /\ call' = [call EXCEPT ![c] = [NewCall(q) EXCEPT !.stage = "look"]]
  /\ UNCHANGED <<mode, clearing, now, local, expiry, stored>>

\* if key in self._local
Look(c) ==
  /\ At(c, "look")
  /\ IF call[c].query \in Held THEN Goes(c, "check") ELSE Scrapes(c)
  /\ UNCHANGED <<mode, clearing, now, local, expiry, stored>>

\* time.monotonic() > self._local_expiry.get(key, 0)
Expired_Late(q)  == expiry[q] = None \/ now > expiry[q] + 1
Expired_AtEnd(q) == expiry[q] = None \/ now >= expiry[q]
Expired(q)       == expiry[q] = None \/ now > expiry[q]

Check(c) ==
  /\ At(c, "check")
  /\ Goes(c, IF Expired(call[c].query) THEN "del" ELSE "read")
  /\ UNCHANGED <<mode, clearing, now, local, expiry, stored>>

\* The answer of fetch_prices: at is when it was scraped.
Answer(c, at) == call' = [call EXCEPT ![c].stage = "idle", ![c].at = at]

Read(c) ==
  /\ At(c, "read")
  /\ \/ \E i \in DOMAIN local : local[i].query = call[c].query /\ Answer(c, local[i].at)
     \/ call[c].query \notin Held /\ Goes(c, "raised")
  /\ UNCHANGED <<mode, clearing, now, local, expiry, stored>>

-----------------------------------------------------------------------------
(* set, after the stores have answered *)

Scraped(c) ==
  /\ call[c].stage = "scrape"
  /\ mode = "loop" => Inside = {} /\ ~clearing
  /\ Goes(c, IF mode = "redis" THEN "idle" ELSE "put")
  /\ stored' = IF mode = "redis" THEN [stored EXCEPT ![call[c].query] = now] ELSE stored
  /\ UNCHANGED <<mode, clearing, now, local, expiry>>

Put(c) ==
  /\ At(c, "put")
  /\ SetValue(call[c].query, call[c].at)
  /\ Goes(c, "date")
  /\ UNCHANGED <<mode, clearing, now, expiry, stored>>

Date(c) ==
  /\ At(c, "date")
  /\ expiry' = [expiry EXCEPT ![call[c].query] = now + TTL]
  /\ stored' = [stored EXCEPT ![call[c].query] = now]
  /\ Goes(c, "full")
  /\ UNCHANGED <<mode, clearing, now, local>>

TooMany     == Len(local) > MaxSize

Full(c) ==
  /\ At(c, "full")
  /\ IF TooMany THEN call' = [call EXCEPT ![c].stage = "del", ![c].victim = Head(local).query]
                ELSE Goes(c, "idle")
  /\ UNCHANGED <<mode, clearing, now, local, expiry, stored>>

\* The exception reaches whoever called fetch_prices.
Raise(c) ==
  /\ call[c].stage = "raised"
  /\ Goes(c, "idle")
  /\ UNCHANGED <<mode, clearing, now, local, expiry, stored>>

-----------------------------------------------------------------------------
\* cache.clear(), by the cache_cleanup task of the scheduler
Clear ==
  /\ ~clearing
  /\ mode = "loop" => Inside = {}
  /\ local' = <<>>
  /\ clearing' = TRUE
  /\ stored' = [q \in Query |-> None]
  /\ UNCHANGED <<mode, now, expiry, call>>

ClearExpiry ==
  /\ clearing
  /\ expiry' = [q \in Query |-> None]
  /\ clearing' = FALSE
  /\ UNCHANGED <<mode, now, local, call, stored>>

\* get and set take no time, and a scrape takes at most MaxScrape.
Tick ==
  /\ now < MaxTime
  /\ Inside = {} /\ ~clearing
  /\ \A c \in Caller : call[c].stage = "scrape" => now < call[c].at + MaxScrape
  /\ now' = now + 1
  /\ UNCHANGED <<mode, clearing, local, expiry, call, stored>>

Get(c) == Look(c) \/ Check(c) \/ Read(c)
Set(c) == Scraped(c) \/ Put(c) \/ Date(c) \/ Full(c)
Del(c) == DelValue(c) \/ DelExpiry(c)

Next ==
  \/ \E c \in Caller : Get(c) \/ Set(c) \/ Del(c) \/ Raise(c) \/ \E q \in Query : Fetch(c, q)
  \/ Clear \/ ClearExpiry \/ Tick

Spec == Init /\ [][Next]_vars

-----------------------------------------------------------------------------
\* An answer taken from the cache was scraped at most TTL and the time of a
\* scrape ago, also when a slow scrape overwrites a newer result or threads
\* interleave inside get, set and clear (RedisCache.get).
AnswersAreFresh ==
  [][\A c \in Caller : (call[c].stage = "read" /\ call'[c].stage = "idle")
        => now - call'[c].at <= TTL + MaxScrape]_vars

\* "Fetch prices from all stores in parallel with caching." (fetch_prices): the
\* stores are not asked for a query whose result was given to the cache at most
\* TTL ago, and neither evicted nor cleared since.
Fresh(q) == stored[q] # None /\ now - stored[q] <= TTL
NoRepeat == \A c \in Caller : (call[c].stage # "scrape" /\ call'[c].stage = "scrape") => ~Fresh(call[c].query)

RepeatsAreCached       == [][NoRepeat]_vars
RepeatsAreCachedInLoop == [][mode = "loop" => NoRepeat]_vars

\* Coroutines of one loop, whatever they fetch and however their scrapes overlap,
\* leave at most max_size entries, and a time for each of them and for nothing else.
CacheIsTidy ==
  (mode = "loop" /\ Inside = {} /\ ~clearing) =>
    Len(local) <= MaxSize /\ Held = {q \in Query : expiry[q] # None}
=============================================================================
