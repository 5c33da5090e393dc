------------------------------- MODULE IpBlocker -------------------------------
(***************************************************************************)
(* AbusiveIPBlockerMiddleware (security/abusive_ip_blocker.py) for the     *)
(* requests of one address: strikes in a Redis counter that expires, and a *)
(* block key.  incr, expire and setex are separate calls; between them     *)
(* other requests run, in this process or another, a call fails (which is  *)
(* swallowed) or the process dies.  A key is gone once its time has come.  *)
(***************************************************************************)
EXTENDS Naturals

CONSTANTS Request, None,
          Threshold, Window, BlockDuration,
          MaxTime, MaxStrikes   \* bounds: the clock, the counter

VARIABLES
  strikes,   \* strikes_ip: [n, expires] or None
  block,     \* block_ip: when it expires, or None
  req,       \* where each request is
  now,
  first,     \* history: when the present counter was begun
  late,      \* history: its expiry was lost, or set later than its first strike
  basis      \* history: what the block was decided on: [count, span, late]

vars == <<strikes, block, req, now, first, late, basis>>

Idle == [at |-> "idle"]
At(r, where) == req' = [req EXCEPT ![r] = where]

Init ==
  /\ strikes = None /\ block = None /\ now = 0
  /\ req = [r \in Request |-> Idle]
  /\ first = 0 /\ late = FALSE /\ basis = None

\* Redis drops the keys that are due; an expiry still to be set becomes late.
Tick ==
  /\ now < MaxTime
  /\ now' = now + 1
  /\ strikes' = IF strikes # None /\ strikes.expires = now' THEN None ELSE strikes
  /\ block' = IF block = now' THEN None ELSE block
  /\ basis' = IF block = now' THEN None ELSE basis
  /\ late' = (late \/ \E r \in Request : req[r].at = "expire")
  /\ UNCHANGED <<req, first>>

\* dispatch: a blocked address is refused, if Redis answers.
Dispatch(r) ==
  /\ req[r] = Idle
  /\ \E answers \in BOOLEAN : answers => block = None
  /\ At(r, [at |-> "served"])
  /\ UNCHANGED <<strikes, block, now, first, late, basis>>

\* The answer: 401, 403 or 429 is a strike, anything else is not.
RecordStrike(r) ==
  /\ req[r].at = "served"
  /\ \/ At(r, Idle) /\ UNCHANGED <<strikes, first, late>>
     \/ LET n == IF strikes = None THEN 1 ELSE strikes.n + 1
        IN /\ n <= MaxStrikes
           /\ strikes' = [n |-> n, expires |-> IF n = 1 THEN None ELSE strikes.expires]
           /\ first' = IF n = 1 THEN now ELSE first
           /\ late' = IF n = 1 THEN FALSE ELSE late
           /\ At(r, [at |-> IF n = 1 THEN "expire" ELSE "judge", n |-> n,
                   span |-> now - first', late |-> late'])
  /\ UNCHANGED <<block, now, basis>>

\* expire: on the first strike only, and only if the key is still there.
Expire_Never(r) ==
  /\ req[r].at = "expire"
  /\ At(r, [req[r] EXCEPT !.at = "judge"])
  /\ UNCHANGED <<strikes, block, now, first, late, basis>>
Expire(r) ==
  /\ req[r].at = "expire"
  /\ strikes' = IF strikes = None THEN None ELSE [strikes EXCEPT !.expires = now + Window]
  /\ At(r, [req[r] EXCEPT !.at = "judge"])
  /\ UNCHANGED <<block, now, first, late, basis>>

\* setex: at the threshold and at every strike beyond it.
Judge(r) ==
  /\ req[r].at = "judge"
  /\ IF req[r].n >= Threshold
     THEN /\ block' = now + BlockDuration
          /\ basis' = [count |-> req[r].n, span |-> req[r].span, late |-> req[r].late]
     ELSE UNCHANGED <<block, basis>>
  /\ At(r, Idle)
  /\ UNCHANGED <<strikes, now, first, late>>

\* A call to Redis fails, or the process dies, at any of the three.
Fail(r) ==
  /\ req[r] # Idle
  /\ late' = (late \/ req[r].at = "expire")
  /\ At(r, Idle)
  /\ UNCHANGED <<strikes, block, now, first, basis>>

Next ==
  \/ Tick
  \/ \E r \in Request : \/ Dispatch(r) \/ RecordStrike(r) \/ Expire(r)
                        \/ Judge(r) \/ Fail(r)

Spec == Init /\ [][Next]_vars

-----------------------------------------------------------------------------
\* An address is blocked for at least Threshold strikes, and for strikes within one
\* window, unless the expiry of the counter was lost or came late.
BlockIsDeserved ==
  block # None => basis.count >= Threshold /\ (basis.late \/ basis.span < Window)
=============================================================================
