----------------------------- MODULE WindowLimiter -----------------------------
(***************************************************************************)
(* The in-process RateLimiter (auth/rate_limiter.py) for one key and tier: *)
(* a deque of time stamps behind a lock.  is_allowed and get_usage read    *)
(* the clock before they take the lock, so a thread may come to the bucket *)
(* with an older time than the thread before it.                           *)
(***************************************************************************)
EXTENDS Naturals, Sequences, FiniteSets

CONSTANTS Thread, None,
          Limit, Window,        \* TIER_LIMITS[tier], WINDOW_SECONDS
          MaxTime, MaxGranted   \* bounds: clock, requests granted

VARIABLES
  bucket,    \* _buckets[api_key]
  call,      \* the call of each thread: [what, now] or None
  now,
  granted    \* history: the stamps granted since the last reset, in order

vars == <<bucket, call, now, granted>>

Init ==
  /\ bucket = <<>> /\ granted = <<>> /\ now = 0
  /\ call = [t \in Thread |-> None]

Tick == now < MaxTime /\ now' = now + 1 /\ UNCHANGED <<bucket, call, granted>>

ReadClock(t, what) ==
  /\ call[t] = None
  /\ call' = [call EXCEPT ![t] = [what |-> what, now |-> now]]
  /\ UNCHANGED <<bucket, now, granted>>

\* Stale stamps go from the left, up to the first that is not stale.
Evicted(t) ==
  LET fresh == {i \in DOMAIN bucket : bucket[i] + Window >= call[t].now}
  IN IF fresh = {} THEN <<>>
     ELSE SubSeq(bucket, CHOOSE i \in fresh : \A j \in fresh : i <= j, Len(bucket))

IsAllowed_Inclusive(t) ==
  /\ call[t] # None /\ call[t].what = "is_allowed" /\ Len(granted) < MaxGranted
  /\ IF Len(Evicted(t)) > Limit
     THEN bucket' = Evicted(t) /\ UNCHANGED granted
     ELSE /\ bucket' = Append(Evicted(t), call[t].now)
          /\ granted' = Append(granted, call[t].now)
  /\ call' = [call EXCEPT ![t] = None]
  /\ UNCHANGED now
IsAllowed(t) ==
  /\ call[t] # None /\ call[t].what = "is_allowed" /\ Len(granted) < MaxGranted
  /\ IF Len(Evicted(t)) >= Limit
     THEN bucket' = Evicted(t) /\ UNCHANGED granted
     ELSE /\ bucket' = Append(Evicted(t), call[t].now)
          /\ granted' = Append(granted, call[t].now)
  /\ call' = [call EXCEPT ![t] = None]
  /\ UNCHANGED now

GetUsage(t) ==
  /\ call[t] # None /\ call[t].what = "get_usage"
  /\ bucket' = Evicted(t)
  /\ call' = [call EXCEPT ![t] = None]
  /\ UNCHANGED <<now, granted>>

\* reset takes no time and forgets what was granted.
Reset ==
  /\ bucket' = <<>> /\ granted' = <<>>
  /\ UNCHANGED <<call, now>>

Next ==
  \/ Tick \/ Reset
  \/ \E t \in Thread : \/ IsAllowed(t) \/ GetUsage(t)
                       \/ \E what \in {"is_allowed", "get_usage"} : ReadClock(t, what)

-----------------------------------------------------------------------------
Within(t) == Cardinality({i \in DOMAIN granted : granted[i] <= t /\ granted[i] + Window >= t})

\* In no window does a key get more than its limit, but for one request of each thread
\* that came to the bucket with an old time.
WindowHolds == \A t \in 0 .. MaxTime : Within(t) <= Limit + Cardinality(Thread) - 1
=============================================================================
