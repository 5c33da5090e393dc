----------------------------- MODULE RateLimiter -----------------------------
(***************************************************************************)
(* The sliding-window rate limiter of shopsage/auth/redis_rate_limiter.py  *)
(* for one API key, used by the worker processes of the server.  With      *)
(* backend "memory" every process counts in its own list; with "redis" all *)
(* processes count in one sorted set.                                      *)
(*                                                                         *)
(* Tick is the resolution of time.time(): a process reads the clock at     *)
(* most once in a tick.  The model keeps ages instead of clock values, the *)
(* age of a time stamp being the ticks since then.  A definition whose     *)
(* name has a suffix is a seeded bug that a property below must reject.    *)
(***************************************************************************)
EXTENDS Integers, FiniteSets

CONSTANTS
  Proc,      \* worker processes
  IdOf,      \* id(self) of the limiter object in each process
  Tier,      \* tiers that requests of the key come with
  Limit,     \* TIER_LIMITS
  Window,    \* WINDOW_SECONDS, in ticks
  Grace,     \* the "+ 5" of the key's expiry, in ticks
  MaxLag,    \* bound: ticks between reading the clock and Redis' answer
  Backends,  \* what the server may be configured with: "memory", "redis"
  Faults     \* "error": Redis calls may raise; "crash": a process may die

ASSUME WindowType == Window \in Nat \ {0} /\ Grace \in Nat /\ MaxLag \in Nat
ASSUME LimitType  == Limit \in [Tier -> Nat]
ASSUME IdType     == IdOf \in [Proc -> Proc]

VARIABLES
  backend,   \* redis_client is None, or not: fixed when the server starts
  zset,      \* the sorted set: members "<now>:<id>", as records [id, age]
  ttl,       \* ticks until the key of the sorted set expires
  bucket,    \* _local_buckets[api_key] of each process, as a set of ages
  pc,        \* idle, sent (clock read, pipeline not executed), over (zrem due)
  lag,       \* ticks since the process read its "now"
  asked,     \* has the process read the clock in this tick?
  admitted,  \* history: stamps of the requests that were allowed since the reset
  ties,      \* history: stamps of the requests whose member was not new
  seen       \* history: which of the Faults have happened

vars == <<backend, zset, ttl, bucket, pc, lag, asked, admitted, ties, seen>>

\* Twice the window and the grace: the key has expired before a stamp is older.
Age     == 0 .. 2 * Window + Grace + MaxLag

\* A stamp of this age is newer than window_start = now - WINDOW_SECONDS.
InWindow_Long(a, now)  == a - now <= Window
InWindow(a, now)       == a - now < Window

TypeOK ==
  /\ backend \in Backends
  /\ zset \subseteq [id : Proc, age : Age]
  /\ ttl \in 0 .. Window + Grace
  /\ bucket \in [Proc -> SUBSET (0 .. Window)]
  /\ pc \in [Proc -> {"idle", "sent", "over"}]
  /\ lag \in [Proc -> 0 .. MaxLag]
  /\ asked \in [Proc -> BOOLEAN]
  /\ admitted \cup ties \subseteq [proc : Proc, age : Age]
  /\ seen \subseteq Faults

Init ==
  /\ backend \in Backends
  /\ zset = {}
  /\ ttl = 0
  /\ bucket = [p \in Proc |-> {}]
  /\ pc = [p \in Proc |-> "idle"]
  /\ lag = [p \in Proc |-> 0]
  /\ asked = [p \in Proc |-> FALSE]
  /\ admitted = {}
  /\ ties = {}
  /\ seen = {}

Fault(f) == f \in Faults /\ seen' = seen \cup {f}

Allow(p) == admitted' = admitted \cup {[proc |-> p, age |-> lag[p]]}
Idle(p)  == /\ pc' = [pc EXCEPT ![p] = "idle"]
            /\ lag' = [lag EXCEPT ![p] = 0]

-----------------------------------------------------------------------------
(* In memory: one process runs the whole check without interruption. *)

Recent(p) == {a \in bucket[p] : InWindow(a, 0)}

Room_OneMore(n, t) == n <= Limit[t]
Room(n, t)         == n < Limit[t]

CheckLocal(p, t) ==
  /\ backend = "memory"
  /\ ~asked[p]
  /\ asked' = [asked EXCEPT ![p] = TRUE]
  /\ IF Room(Cardinality(Recent(p)), t)
     THEN /\ bucket' = [bucket EXCEPT ![p] = Recent(p) \cup {0}]
          /\ Allow(p)
     ELSE /\ bucket' = [bucket EXCEPT ![p] = Recent(p)]
          /\ UNCHANGED admitted
  /\ UNCHANGED <<backend, zset, ttl, pc, lag, ties, seen>>

-----------------------------------------------------------------------------
(* With Redis: the clock, one transaction, and a separate removal. *)

\* now = time.time().  The tier of the request matters only to Pipeline.
ReadClock(p) ==
  /\ backend = "redis"
  /\ pc[p] = "idle"
  /\ ~asked[p]
  /\ asked' = [asked EXCEPT ![p] = TRUE]
  /\ pc' = [pc EXCEPT ![p] = "sent"]
  /\ UNCHANGED <<backend, zset, ttl, bucket, lag, admitted, ties, seen>>

\* zremrangebyscore(key, "-inf", window_start)
Pruned(p) == {m \in zset : InWindow(m.age, lag[p])}

Member(p) == [id |-> IdOf[p], age |-> lag[p]]

\* Members that zadd would not add again, or that a zrem under way will remove: those of
\* requests with the same id(self) and clock value.
Claimed == zset \cup {Member(p) : p \in {q \in Proc : pc[q] = "over"}}

\* The MULTI block: prune, count, add, expire.
Execute(p) ==
  /\ zset' = Pruned(p) \cup {Member(p)}
  /\ ttl' = Window + Grace

Pipeline(p, t) ==
  /\ pc[p] = "sent"
  /\ Execute(p)
  /\ ties' = IF Member(p) \in Claimed THEN ties \cup {[proc |-> p, age |-> lag[p]]} ELSE ties
  /\ IF Room(Cardinality(Pruned(p)), t)
     THEN Allow(p) /\ Idle(p)
     ELSE pc' = [pc EXCEPT ![p] = "over"] /\ UNCHANGED <<lag, admitted>>
  /\ UNCHANGED <<backend, bucket, asked, seen>>

\* The request over the limit takes its entry back.
RemoveEntry_Skipped(p) == zset
RemoveEntry(p)         == zset \ {Member(p)}

Reject(p) ==
  /\ pc[p] = "over"
  /\ zset' = RemoveEntry(p)
  /\ Idle(p)
  /\ UNCHANGED <<backend, ttl, bucket, asked, admitted, ties, seen>>

\* Any exception lets the request pass; the transaction may have been executed
\* before the answer was lost, and the removal may not have been.
FailOpen(p) ==
  /\ Fault("error")
  /\ \/ pc[p] = "sent" /\ (Execute(p) \/ UNCHANGED <<zset, ttl>>)
     \/ pc[p] = "over" /\ zset' \in {zset, RemoveEntry(p)} /\ UNCHANGED ttl
  /\ Allow(p)
  /\ Idle(p)
  /\ UNCHANGED <<backend, bucket, asked, ties>>

-----------------------------------------------------------------------------
\* get_usage prunes as well.
GetUsage(p) ==
  /\ pc[p] = "idle"
  /\ IF backend = "redis"
     THEN zset' = Pruned(p) /\ UNCHANGED bucket
     ELSE bucket' = [bucket EXCEPT ![p] = Recent(p)] /\ UNCHANGED zset
  /\ UNCHANGED <<backend, ttl, pc, lag, asked, admitted, ties, seen>>

\* reset clears the sorted set and the lists of this process only.
Reset(p) ==
  /\ pc[p] = "idle"
  /\ bucket' = [bucket EXCEPT ![p] = {}]
  /\ \/ /\ backend = "redis"
        /\ zset' = {} /\ ttl' = 0 /\ admitted' = {}
        /\ UNCHANGED seen
     \/ /\ backend = "redis" /\ Fault("error")
        /\ UNCHANGED <<zset, ttl, admitted>>
     \/ /\ backend = "memory"
        /\ admitted' = {r \in admitted : r.proc # p}
        /\ UNCHANGED <<zset, ttl, seen>>
  /\ UNCHANGED <<backend, pc, lag, asked, ties>>

\* A process dies and is replaced; its request is never answered.
Crash(p) ==
  /\ Fault("crash")
  /\ Idle(p)
  /\ bucket' = [bucket EXCEPT ![p] = {}]
  /\ UNCHANGED <<backend, zset, ttl, asked, admitted, ties>>

-----------------------------------------------------------------------------
Older(S) == {[m EXCEPT !.age = @ + 1] : m \in S}

Tick ==
  /\ \A p \in Proc : pc[p] # "idle" => lag[p] < MaxLag
  /\ lag' = [p \in Proc |-> IF pc[p] = "idle" THEN 0 ELSE lag[p] + 1]
  /\ ttl' = IF ttl = 0 THEN 0 ELSE ttl - 1
  /\ zset' = IF ttl' = 0 THEN {} ELSE Older(zset)
  /\ bucket' = [p \in Proc |-> {a + 1 : a \in {b \in bucket[p] : b < Window}}]
  /\ admitted' = {r \in Older(admitted) : r.age < Window + MaxLag}
  /\ ties' = {r \in Older(ties) : r.age < Window}
  /\ asked' = [p \in Proc |-> FALSE]
  /\ UNCHANGED <<backend, pc, seen>>

Check(p) == \/ \E t \in Tier : CheckLocal(p, t) \/ Pipeline(p, t)
            \/ ReadClock(p) \/ Reject(p) \/ FailOpen(p)

Next ==
  \/ \E p \in Proc : Check(p) \/ GetUsage(p) \/ Reset(p) \/ Crash(p)
  \/ Tick

Spec == Init /\ [][Next]_vars

-----------------------------------------------------------------------------
\* The requests allowed in the last d ticks, by all processes or, without Redis,
\* by process p.
AllowedIn(p, d) ==
  {r \in admitted : r.age < d /\ (backend = "memory" => r.proc = p)}

\* "precise sliding-window counting that works correctly across multiple
\* application processes" (module docstring): a request that is allowed is, with
\* those allowed in the window before it, within the limit of its tier, as long
\* as Redis answers and, without Redis, the process lives.  Members name the limiter
\* object and the clock, and forked processes share the object's id, so two requests
\* may have one member between them: each tie lets at most one request more through.
CountsKept ==
  IF backend = "redis" THEN "error" \notin seen ELSE "crash" \notin seen
Allows(p, t) == (CheckLocal(p, t) \/ Pipeline(p, t)) /\ admitted' # admitted
TiesIn(d)    == {r \in ties : r.age < d}

LimitRespected ==
  [][\A p \in Proc, t \in Tier : (Allows(p, t) /\ CountsKept) =>
       Cardinality(AllowedIn(p, Window)') <= Limit[t] + Cardinality(TiesIn(Window)')]_vars

\* "Add the new request if under limit" (class docstring): a request is turned
\* away only when the limit is used up by requests that were allowed, and by
\* those of other processes that are being turned away at this moment.
Blocks(p, t) == \/ Pipeline(p, t) /\ pc'[p] = "over"
                \/ CheckLocal(p, t) /\ UNCHANGED admitted

BlockedOnlyWhenFull ==
  [][\A p \in Proc, t \in Tier :
       (Blocks(p, t) /\ (backend = "redis" => "crash" \notin seen)) =>
       Cardinality(AllowedIn(p, Window + lag[p]))
         + Cardinality({q \in Proc \ {p} : pc[q] = "over"}) >= Limit[t]]_vars

\* "members are unique request IDs" (class docstring): a request that is turned
\* away costs nothing.  What is in the sorted set was put there by a request
\* that was allowed or by one that is about to take its entry back, whatever
\* Redis calls raised, unless a process died in between.
EntriesJustified ==
  "crash" \notin seen =>
    \A m \in zset : m.age < Window =>
      \E p \in Proc : \/ m = Member(p) /\ pc[p] = "over"
                      \/ m.id = IdOf[p] /\ [proc |-> p, age |-> m.age] \in admitted
=============================================================================
