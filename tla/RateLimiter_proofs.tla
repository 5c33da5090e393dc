------------------------- MODULE RateLimiter_proofs -------------------------
(***************************************************************************)
(* Proofs about the rate limiter for any number of processes and tiers and *)
(* any limits, window and delay, with either back end, whether the limiter *)
(* objects share an id or not.                                             *)
(***************************************************************************)
EXTENDS RateLimiter, FiniteSetTheorems, TLAPS

-----------------------------------------------------------------------------
(* Types, without the bounds on ages that the properties do not need. *)

Types ==
  /\ zset \subseteq [id : Proc, age : Nat]
  /\ ttl \in Nat
  /\ pc \in [Proc -> {"idle", "sent", "over"}]
  /\ lag \in [Proc -> Nat]
  /\ bucket \in [Proc -> SUBSET (0 .. Window)]
  /\ asked \in [Proc -> BOOLEAN]
  /\ admitted \subseteq [proc : Proc, age : Nat]
  /\ ties \subseteq [proc : Proc, age : Nat]

Request == [proc : Proc, age : Nat]

\* Older and Tick build records with EXCEPT; these are the records they build.
LEMMA OlderEntries ==
  ASSUME NEW S, S \subseteq [id : Proc, age : Nat]
  PROVE  Older(S) = {[id |-> m.id, age |-> m.age + 1] : m \in S}
<1>1. \A m \in S : [m EXCEPT !.age = @ + 1] = [id |-> m.id, age |-> m.age + 1]
  OBVIOUS
<1>2. QED
  BY <1>1 DEF Older

LEMMA OlderRequests ==
  ASSUME NEW S, S \subseteq Request
  PROVE  Older(S) = {[proc |-> r.proc, age |-> r.age + 1] : r \in S}
<1>1. \A r \in S : [r EXCEPT !.age = @ + 1] = [proc |-> r.proc, age |-> r.age + 1]
  BY DEF Request
<1>2. QED
  BY <1>1 DEF Older, Request

\* Passing time keeps a set finite.
LEMMA OlderFinite ==
  ASSUME NEW S, IsFiniteSet(S)
  PROVE  IsFiniteSet(Older(S))
<1> DEFINE f == [m \in S |-> [m EXCEPT !.age = @ + 1]]
<1>1. f \in Surjection(S, Older(S))
  BY DEF Surjection, Older
<1>2. QED
  BY <1>1, FS_Surjection

LEMMA TypesInit == Init => Types
BY DEF Init, Types

LEMMA TypesStep ==
  ASSUME Types, [Next]_vars
  PROVE  Types'
<1> USE IdType, LimitType, WindowType DEF Types
<1>1. \A p \in Proc : Recent(p) \subseteq 0 .. Window /\ 0 \in 0 .. Window
  BY DEF Recent
<1>2. ASSUME NEW p \in Proc, NEW t \in Tier, CheckLocal(p, t)
      PROVE  Types'
  BY <1>1, <1>2 DEF CheckLocal, Allow
<1>3. ASSUME NEW p \in Proc, ReadClock(p)
      PROVE  Types'
  BY <1>3 DEF ReadClock
<1>4. ASSUME NEW p \in Proc
      PROVE  /\ Pruned(p) \subseteq [id : Proc, age : Nat]
             /\ Member(p) \in [id : Proc, age : Nat]
  BY DEF Pruned, Member
<1>5. ASSUME NEW p \in Proc, NEW t \in Tier, Pipeline(p, t)
      PROVE  Types'
  BY <1>4, <1>5 DEF Pipeline, Execute, Allow, Idle
<1>6. ASSUME NEW p \in Proc, Reject(p)
      PROVE  Types'
  BY <1>6 DEF Reject, RemoveEntry, Idle
<1>7. ASSUME NEW p \in Proc, FailOpen(p)
      PROVE  Types'
  <2>1. zset' \subseteq [id : Proc, age : Nat] /\ ttl' \in Nat
    BY <1>4, <1>7 DEF FailOpen, Execute, RemoveEntry
  <2>2. QED
    BY <1>7, <2>1 DEF FailOpen, Allow, Idle
<1>8. ASSUME NEW p \in Proc, GetUsage(p)
      PROVE  Types'
  BY <1>1, <1>4, <1>8 DEF GetUsage
<1>9. ASSUME NEW p \in Proc, Reset(p)
      PROVE  Types'
  BY <1>9 DEF Reset
<1>10. ASSUME NEW p \in Proc, Crash(p)
      PROVE  Types'
  BY <1>10 DEF Crash, Idle, Fault
<1>11. ASSUME Tick
       PROVE  Types'
  <2>1. /\ Older(zset) \subseteq [id : Proc, age : Nat]
        /\ Older(admitted) \subseteq Request
        /\ Older(ties) \subseteq Request
    BY OlderEntries, OlderRequests DEF Request
  <2>2. QED
    BY <1>11, <2>1 DEF Tick, Request
<1>12. CASE UNCHANGED vars
  BY <1>12 DEF vars
<1>13. QED
  BY <1>2, <1>3, <1>5, <1>6, <1>7, <1>8, <1>9, <1>10, <1>11, <1>12 DEF Next, Check

-----------------------------------------------------------------------------
(* Everything that is counted is finite, even with infinitely many processes. *)

Over == {q \in Proc : pc[q] = "over"}

FiniteInv ==
  IsFiniteSet(zset) /\ IsFiniteSet(admitted) /\ IsFiniteSet(ties) /\ IsFiniteSet(Over)

LEMMA FiniteInit == Init => FiniteInv
<1> SUFFICES ASSUME Init PROVE FiniteInv
  OBVIOUS
<1>1. zset = {} /\ admitted = {} /\ ties = {} /\ Over = {}
  BY DEF Init, Over
<1> QED
  BY <1>1, FS_EmptySet DEF FiniteInv

LEMMA FiniteStep ==
  ASSUME Types, FiniteInv, [Next]_vars
  PROVE  FiniteInv'
<1>1. ASSUME NEW S, IsFiniteSet(S), NEW x, NEW R, R \subseteq S \cup {x}
      PROVE  IsFiniteSet(R)
  BY <1>1, FS_AddElement, FS_Subset
<1>2. ASSUME NEW S, IsFiniteSet(S), NEW R, R \subseteq S
      PROVE  IsFiniteSet(R)
  BY <1>2, FS_Subset
<1>3. IsFiniteSet(zset')
  <2>1. CASE \E p \in Proc : zset' \subseteq zset \cup {Member(p)}
    BY <1>1, <2>1 DEF FiniteInv
  <2>2. CASE zset' \subseteq zset
    BY <1>2, <2>2 DEF FiniteInv
  <2>3. CASE zset' \subseteq Older(zset)
    <3>1. IsFiniteSet(Older(zset))
      BY OlderFinite DEF FiniteInv
    <3> QED
      BY <1>2, <2>3, <3>1
  <2> QED
    BY <2>1, <2>2, <2>3
       DEF Next, Check, CheckLocal, ReadClock, Pipeline, Execute, Pruned, Reject, RemoveEntry, FailOpen,
           GetUsage, Reset, Crash, Tick, vars
<1>4. IsFiniteSet(admitted')
  <2>1. CASE \E p \in Proc : admitted' \subseteq admitted \cup {[proc |-> p, age |-> lag[p]]}
    BY <1>1, <2>1 DEF FiniteInv
  <2>2. CASE admitted' \subseteq admitted
    BY <1>2, <2>2 DEF FiniteInv
  <2>3. CASE admitted' \subseteq Older(admitted)
    <3>1. IsFiniteSet(Older(admitted))
      BY OlderFinite DEF FiniteInv
    <3> QED
      BY <1>2, <2>3, <3>1
  <2> QED
    BY <2>1, <2>2, <2>3
       DEF Next, Check, CheckLocal, ReadClock, Pipeline, Allow, Reject, FailOpen,
           GetUsage, Reset, Crash, Tick, vars
<1>5. IsFiniteSet(Over')
  <2>1. CASE \E p \in Proc : Over' \subseteq Over \cup {p}
    BY <1>1, <2>1 DEF FiniteInv
  <2>2. CASE pc' = pc
    BY <2>2 DEF FiniteInv, Over
  <2>3. ASSUME NEW p \in Proc, \A q \in Proc \ {p} : pc'[q] = pc[q]
        PROVE  Over' \subseteq Over \cup {p}
    BY <2>3 DEF Over
  <2>4. ASSUME NEW p \in Proc, NEW s, pc' = [pc EXCEPT ![p] = s]
        PROVE  \A q \in Proc \ {p} : pc'[q] = pc[q]
    BY <2>4 DEF Types
  <2> QED
    BY <2>1, <2>2, <2>3, <2>4
       DEF Next, Check, CheckLocal, ReadClock, Pipeline, Idle, Reject, FailOpen,
           GetUsage, Reset, Crash, Tick, vars
<1>6. IsFiniteSet(ties')
  <2>1. CASE \E p \in Proc : ties' \subseteq ties \cup {[proc |-> p, age |-> lag[p]]}
    BY <1>1, <2>1 DEF FiniteInv
  <2>2. CASE ties' = ties
    BY <2>2 DEF FiniteInv
  <2>3. CASE ties' \subseteq Older(ties)
    <3>1. IsFiniteSet(Older(ties))
      BY OlderFinite DEF FiniteInv
    <3> QED
      BY <1>2, <2>3, <3>1
  <2> QED
    BY <2>1, <2>2, <2>3
       DEF Next, Check, CheckLocal, ReadClock, Pipeline, Reject, FailOpen,
           GetUsage, Reset, Crash, Tick, vars
<1>7. QED
  BY <1>3, <1>4, <1>5, <1>6 DEF FiniteInv

-----------------------------------------------------------------------------
(* Counting.  Of every kind, the requests or entries younger than k.          *)

Young(S, k)  == {m \in S : m.age < k}
OverIn(k)    == {p \in Over : lag[p] < k}
Removing(k)  == {Member(p) : p \in OverIn(k)}
Counted(k)   == Young(zset, k) \cup Removing(k)

\* Each member, in the set or about to be removed, stands for one request that was allowed
\* or is over the limit, and every further one is a tie.
Tally(k) ==
  Cardinality(Young(admitted, k)) + Cardinality(OverIn(k))
    <= Cardinality(Young(ties, k)) + Cardinality(Counted(k))
Removals(k) ==
  Cardinality(OverIn(k)) <= Cardinality(Young(ties, k)) + Cardinality(Removing(k))

\* The key outlives what it holds: it expires when its youngest entry has left
\* the window.
KeyOutlives == \A m \in zset : ttl + m.age >= Window + Grace

\* The stamp of a request that is being checked is newer than those of its process's ties.
TieStamps ==
  \A p \in Proc : \A r \in ties : r.proc = p =>
    /\ pc[p] = "sent" => r.age > lag[p]
    /\ ~asked[p] => r.age > 0

\* A request that was stamped in this tick is the one its process asked for.
ClockRead ==
  \A p \in Proc : /\ pc[p] = "idle" => lag[p] = 0
                  /\ pc[p] # "idle" /\ lag[p] = 0 => asked[p]

SetInv ==
  /\ Types
  /\ FiniteInv
  /\ KeyOutlives
  /\ TieStamps
  /\ ClockRead
  /\ \A k \in 0 .. Window : Tally(k) /\ Removals(k)

\* What the counts are made of is finite, so the counts are numbers.
LEMMA FiniteCounts ==
  ASSUME FiniteInv, NEW k
  PROVE  /\ IsFiniteSet(Young(admitted, k)) /\ Cardinality(Young(admitted, k)) \in Nat
         /\ IsFiniteSet(Young(ties, k)) /\ Cardinality(Young(ties, k)) \in Nat
         /\ IsFiniteSet(Young(zset, k)) /\ Cardinality(Young(zset, k)) \in Nat
         /\ IsFiniteSet(OverIn(k)) /\ Cardinality(OverIn(k)) \in Nat
         /\ IsFiniteSet(Removing(k)) /\ Cardinality(Removing(k)) \in Nat
         /\ Cardinality(Removing(k)) <= Cardinality(OverIn(k))
         /\ IsFiniteSet(Counted(k)) /\ Cardinality(Counted(k)) \in Nat
         /\ Cardinality(Counted(k)) <= Cardinality(Young(zset, k)) + Cardinality(Removing(k))
<1>1. /\ IsFiniteSet(Young(admitted, k)) /\ IsFiniteSet(Young(ties, k))
      /\ IsFiniteSet(Young(zset, k)) /\ IsFiniteSet(OverIn(k))
  BY FS_Subset DEF FiniteInv, Young, OverIn
<1>2. IsFiniteSet(Removing(k)) /\ Cardinality(Removing(k)) <= Cardinality(OverIn(k))
  <2> DEFINE f == [p \in OverIn(k) |-> Member(p)]
  <2>1. f \in Surjection(OverIn(k), Removing(k))
    BY DEF Surjection, Removing
  <2> QED
    BY <1>1, <2>1, FS_Surjection
<1>3. /\ IsFiniteSet(Counted(k))
      /\ Cardinality(Counted(k)) = Cardinality(Young(zset, k)) + Cardinality(Removing(k))
                                     - Cardinality(Young(zset, k) \cap Removing(k))
  BY <1>1, <1>2, FS_Union DEF Counted
<1>4. Cardinality(Young(zset, k) \cap Removing(k)) \in Nat
  BY <1>1, FS_Subset, FS_CardinalityType
<1> QED
  BY <1>1, <1>2, <1>3, <1>4, FS_CardinalityType

\* A set that has one element more, at least, or at most one less.
LEMMA OneMore ==
  ASSUME NEW S, NEW x, IsFiniteSet(S)
  PROVE  /\ IsFiniteSet(S \cup {x}) /\ Cardinality(S \cup {x}) \in Nat
         /\ Cardinality(S \cup {x}) <= Cardinality(S) + 1
         /\ x \notin S => Cardinality(S \cup {x}) = Cardinality(S) + 1
<1> DEFINE T == S \cup {x}
<1>1. IsFiniteSet(T) /\ Cardinality(T) = IF x \in S THEN Cardinality(S) ELSE Cardinality(S) + 1
  BY FS_AddElement
<1>2. Cardinality(S) \in Nat
  BY FS_CardinalityType
<1> HIDE DEF T
<1>3. /\ IsFiniteSet(T) /\ Cardinality(T) \in Nat
      /\ Cardinality(T) <= Cardinality(S) + 1
      /\ x \notin S => Cardinality(T) = Cardinality(S) + 1
  BY <1>1, <1>2
<1> QED
  BY <1>3 DEF T

LEMMA OneLess ==
  ASSUME NEW S, NEW T, NEW x, IsFiniteSet(S), IsFiniteSet(T), S \ {x} \subseteq T
  PROVE  Cardinality(S) <= Cardinality(T) + 1
<1>1. S \subseteq T \cup {x}
  OBVIOUS
<1>2. IsFiniteSet(T \cup {x}) /\ Cardinality(T \cup {x}) \in Nat /\ Cardinality(T \cup {x}) <= Cardinality(T) + 1
  BY OneMore
<1>3. Cardinality(S) <= Cardinality(T \cup {x})
  BY <1>1, <1>2, FS_Subset
<1> QED
  BY <1>2, <1>3, FS_CardinalityType

LEMMA SetInit == Init => SetInv
<1> SUFFICES ASSUME Init PROVE SetInv
  OBVIOUS
<1>1. Types /\ FiniteInv
  BY TypesInit, FiniteInit
<1>2. KeyOutlives /\ TieStamps /\ ClockRead
  BY DEF Init, KeyOutlives, TieStamps, ClockRead
<1>3. ASSUME NEW k \in 0 .. Window
      PROVE  Tally(k) /\ Removals(k)
  <2>1. /\ Young(admitted, k) = {} /\ OverIn(k) = {} /\ Young(ties, k) = {}
        /\ Counted(k) = {} /\ Removing(k) = {}
    BY DEF Init, Young, Over, OverIn, Counted, Removing
  <2> QED
    BY <2>1, FS_EmptySet DEF Tally, Removals
<1> QED
  BY <1>1, <1>2, <1>3 DEF SetInv

\* The transaction adds a member and a request, or a tie and a request.
LEMMA PipelineCounts ==
  ASSUME SetInv, NEW p \in Proc, NEW t \in Tier, Pipeline(p, t), NEW k \in 0 .. Window
  PROVE  Tally(k)' /\ Removals(k)'
<1> USE WindowType, IdType DEF SetInv, Types
<1> DEFINE r == [proc |-> p, age |-> lag[p]]
           m == Member(p)
<1>1. FiniteInv'
  BY FiniteStep DEF Next, Check
<1>2. /\ zset' = Pruned(p) \cup {m}
      /\ ties' = IF m \in Claimed THEN ties \cup {r} ELSE ties
      /\ \/ admitted' = admitted \cup {r} /\ pc' = [pc EXCEPT ![p] = "idle"] /\ lag' = [lag EXCEPT ![p] = 0]
         \/ admitted' = admitted /\ pc' = [pc EXCEPT ![p] = "over"] /\ lag' = lag
      /\ pc[p] = "sent"
  BY DEF Pipeline, Execute, Allow, Idle
<1>3. m = [id |-> IdOf[p], age |-> lag[p]] /\ m.age = lag[p] /\ lag[p] \in Nat /\ k \in Nat /\ k <= Window
  BY DEF Member
<1>4. Young(Pruned(p), k) = Young(zset, k)
  BY <1>3 DEF Young, Pruned, InWindow
<1>5. Young(zset', k) = Young(zset, k) \cup Young({m}, k)
  BY <1>2, <1>4 DEF Young
<1>6. \A q \in Proc \ {p} : Member(q)' = Member(q) /\ pc'[q] = pc[q] /\ lag'[q] = lag[q]
  BY <1>2 DEF Member
<1>7. p \notin Over /\ p \notin OverIn(k)
  BY <1>2 DEF Over, OverIn
<1>8. CASE lag[p] >= k
  <2>1. Young({m}, k) = {} /\ Young(admitted', k) = Young(admitted, k) /\ Young(ties', k) = Young(ties, k)
    BY <1>2, <1>3, <1>8 DEF Young
  <2>2. OverIn(k)' = OverIn(k) /\ Removing(k)' = Removing(k)
    <3>1. p \notin OverIn(k)'
      BY <1>2, <1>8 DEF OverIn, Over
    <3>2. OverIn(k)' = OverIn(k)
      BY <1>6, <1>7, <3>1 DEF OverIn, Over
    <3>3. \A q \in OverIn(k) : Member(q)' = Member(q)
      BY <1>6, <1>7 DEF OverIn, Over
    <3> QED
      BY <3>2, <3>3 DEF Removing
  <2>3. Counted(k)' = Counted(k)
    BY <1>5, <2>1, <2>2 DEF Counted
  <2> QED
    BY <2>1, <2>2, <2>3 DEF Tally, Removals
<1>9. CASE lag[p] < k
  <2>1. Young({m}, k) = {m} /\ Young({r}, k) = {r}
    BY <1>3, <1>9 DEF Young
  <2>2. m \in Claimed <=> m \in Counted(k)
    <3>1. \A q \in Over : Member(q) = m => q \in OverIn(k)
      BY <1>3, <1>9 DEF Member, Over, OverIn
    <3> QED
      BY <1>3, <1>9, <3>1 DEF Claimed, Counted, Young, Removing, Over, OverIn
  <2>3. r \notin Young(ties, k)
    BY <1>2 DEF TieStamps, Young
  <2>4. Young(ties', k) = IF m \in Counted(k) THEN Young(ties, k) \cup {r} ELSE Young(ties, k)
    BY <1>2, <2>1, <2>2 DEF Young
  <2>5. /\ Cardinality(Young(ties, k)) <= Cardinality(Young(ties', k))
        /\ m \in Counted(k) => Cardinality(Young(ties', k)) = Cardinality(Young(ties, k)) + 1
    <3>1. m \in Counted(k) => Cardinality(Young(ties', k)) = Cardinality(Young(ties, k)) + 1
      BY <2>3, <2>4, FiniteCounts, OneMore
    <3>2. m \notin Counted(k) => Cardinality(Young(ties', k)) = Cardinality(Young(ties, k))
      BY <2>4
    <3> QED
      BY <3>1, <3>2, FiniteCounts
  <2>6. CASE admitted' = admitted \cup {r} /\ pc' = [pc EXCEPT ![p] = "idle"] /\ lag' = [lag EXCEPT ![p] = 0]
    <3>1. OverIn(k)' = OverIn(k)
      BY <1>7, <2>6 DEF OverIn, Over
    <3>2. \A q \in OverIn(k) : Member(q)' = Member(q)
      BY <1>6, <1>7 DEF OverIn, Over
    <3>3. Removing(k)' = Removing(k)
      BY <3>1, <3>2 DEF Removing
    <3>4. Counted(k)' = Counted(k) \cup {m}
      BY <1>5, <2>1, <3>3 DEF Counted
    <3>5. Young(admitted', k) = Young(admitted, k) \cup {r}
      BY <2>1, <2>6 DEF Young
    <3>6. /\ Cardinality(Young(admitted', k)) <= Cardinality(Young(admitted, k)) + 1
          /\ Cardinality(Young(admitted', k)) \in Nat
      BY <3>5, FiniteCounts, OneMore
    <3>7. m \notin Counted(k) => Cardinality(Counted(k)') = Cardinality(Counted(k)) + 1
      BY <3>4, FiniteCounts, OneMore
    <3>8. m \in Counted(k) => Cardinality(Counted(k)') = Cardinality(Counted(k))
      <4>1. m \in Counted(k) => Counted(k)' = Counted(k)
        BY <3>4
      <4> QED
        BY <4>1
    <3>9. Cardinality(Young(ties', k)) \in Nat /\ Cardinality(Young(ties, k)) \in Nat
      BY <1>1, <2>4, OneMore, FiniteCounts
    <3>10. m \notin Counted(k) => Cardinality(Young(ties', k)) = Cardinality(Young(ties, k))
      BY <2>4
    <3>11. Tally(k)'
      <4>1. Tally(k)
        OBVIOUS
      <4> QED
        BY <2>5, <3>1, <3>6, <3>7, <3>8, <3>9, <3>10, <4>1, FiniteCounts DEF Tally
    <3>12. Removals(k)'
      <4>1. Removals(k)
        OBVIOUS
      <4> QED
        BY <2>5, <3>1, <3>3, <3>9, <4>1, FiniteCounts DEF Removals
    <3> QED
      BY <3>11, <3>12
  <2>7. CASE admitted' = admitted /\ pc' = [pc EXCEPT ![p] = "over"] /\ lag' = lag
    <3>1. OverIn(k)' = OverIn(k) \cup {p}
      BY <1>9, <2>7 DEF OverIn, Over
    <3>2. \A q \in Proc : Member(q)' = Member(q)
      BY <2>7 DEF Member
    <3>3. Removing(k)' = Removing(k) \cup {m}
      <4>1. Removing(k)' = {Member(q)' : q \in OverIn(k) \cup {p}}
        BY <3>1 DEF Removing
      <4>2. Removing(k)' = {Member(q) : q \in OverIn(k) \cup {p}}
        BY <3>2, <4>1 DEF OverIn, Over
      <4> QED
        BY <4>2 DEF Removing
    <3>4. Counted(k)' = Counted(k) \cup {m}
      BY <1>5, <2>1, <3>3 DEF Counted
    <3>5. Cardinality(OverIn(k)') = Cardinality(OverIn(k)) + 1
      BY <1>7, <3>1, FiniteCounts, OneMore
    <3>6. m \notin Counted(k) => /\ Cardinality(Counted(k)') = Cardinality(Counted(k)) + 1
                                 /\ Cardinality(Removing(k)') = Cardinality(Removing(k)) + 1
      <4>1. m \notin Counted(k) => m \notin Removing(k)
        BY DEF Counted
      <4> QED
        BY <3>3, <3>4, <4>1, FiniteCounts, OneMore
    <3>7. m \in Counted(k) => /\ Cardinality(Counted(k)') = Cardinality(Counted(k))
                              /\ Cardinality(Removing(k)) <= Cardinality(Removing(k)')
      <4>1. m \in Counted(k) => Counted(k)' = Counted(k)
        BY <3>4
      <4>2. IsFiniteSet(Removing(k)') /\ Removing(k) \subseteq Removing(k)'
        <5>1. IsFiniteSet(Removing(k)) /\ IsFiniteSet({m})
          BY FiniteCounts, FS_Singleton
        <5>2. IsFiniteSet(Removing(k) \cup {m})
          BY <5>1, FS_Union
        <5> QED
          BY <3>3, <5>2
      <4>3. Cardinality(Removing(k)) <= Cardinality(Removing(k)')
        BY <4>2, FS_Subset
      <4> QED
        BY <4>1, <4>3
    <3>8. Cardinality(Removing(k)') \in Nat
      BY <3>3, FiniteCounts, OneMore
    <3>9. Cardinality(Young(ties', k)) \in Nat /\ Cardinality(Young(ties, k)) \in Nat
      BY <1>1, <2>4, OneMore, FiniteCounts
    <3>10. m \notin Counted(k) => Cardinality(Young(ties', k)) = Cardinality(Young(ties, k))
      BY <2>4
    <3>11. Tally(k)'
      <4>1. Tally(k) /\ Young(admitted', k) = Young(admitted, k)
        BY <2>7
      <4> QED
        BY <2>5, <3>5, <3>6, <3>7, <3>9, <3>10, <4>1, FiniteCounts DEF Tally
    <3>12. Removals(k)'
      <4>1. Removals(k)
        OBVIOUS
      <4> QED
        BY <2>5, <3>5, <3>6, <3>7, <3>8, <3>9, <3>10, <4>1, FiniteCounts DEF Removals
    <3> QED
      BY <3>11, <3>12
  <2> QED
    BY <1>2, <2>6, <2>7
<1> QED
  BY <1>3, <1>8, <1>9

\* A request over the limit that takes its entry back, or dies, leaves with one member at
\* most, which may have been that of others as well.
LEMMA LeaveCounts ==
  ASSUME SetInv, NEW p \in Proc, NEW k \in 0 .. Window,
         pc' = [pc EXCEPT ![p] = "idle"], lag' = [lag EXCEPT ![p] = 0],
         UNCHANGED <<admitted, ties>>, FiniteInv',
         \/ pc[p] = "over" /\ zset \ {Member(p)} \subseteq zset'
         \/ pc[p] # "over" /\ zset \subseteq zset'
  PROVE  Tally(k)' /\ Removals(k)'
<1> USE DEF SetInv, Types
<1>1. OverIn(k)' = OverIn(k) \ {p}
  BY DEF OverIn, Over
<1>2. \A q \in OverIn(k)' : Member(q)' = Member(q)
  BY <1>1 DEF Member, OverIn, Over
<1>3. Removing(k)' = {Member(q) : q \in OverIn(k) \ {p}}
  BY <1>1, <1>2 DEF Removing
<1>4. Young(admitted', k) = Young(admitted, k) /\ Young(ties', k) = Young(ties, k)
  OBVIOUS
<1>5. FiniteInv /\ Tally(k) /\ Removals(k)
  OBVIOUS
<1>6. /\ Cardinality(Counted(k)') \in Nat /\ IsFiniteSet(Counted(k)')
      /\ Cardinality(Removing(k)') \in Nat /\ IsFiniteSet(Removing(k)')
  <2>1. Removing(k)' \subseteq Removing(k)
    BY <1>3 DEF Removing
  <2>2. IsFiniteSet(Removing(k)')
    BY <1>5, <2>1, FiniteCounts, FS_Subset
  <2>3. IsFiniteSet(Young(zset', k))
    BY FS_Subset DEF FiniteInv, Young
  <2>4. IsFiniteSet(Counted(k)')
    BY <2>2, <2>3, FS_Union DEF Counted
  <2> QED
    BY <2>2, <2>4, FS_CardinalityType
<1>7. CASE p \in OverIn(k)
  <2>1. Cardinality(OverIn(k)) = Cardinality(OverIn(k)') + 1
    <3>1. Cardinality(OverIn(k)') = Cardinality(OverIn(k)) - 1
      BY <1>1, <1>5, <1>7, FiniteCounts, FS_RemoveElement
    <3> QED
      BY <1>5, <3>1, FiniteCounts
  <2>2. Removing(k) \ {Member(p)} \subseteq Removing(k)'
    BY <1>3 DEF Removing
  <2>3. Young(zset, k) \ {Member(p)} \subseteq Young(zset', k)
    BY DEF Young
  <2>4. Counted(k) \ {Member(p)} \subseteq Counted(k)'
    BY <2>2, <2>3 DEF Counted
  <2>5. Cardinality(Counted(k)) <= Cardinality(Counted(k)') + 1
    BY <1>5, <1>6, <2>4, FiniteCounts, OneLess
  <2>6. Cardinality(Removing(k)) <= Cardinality(Removing(k)') + 1
    BY <1>5, <1>6, <2>2, FiniteCounts, OneLess
  <2>7. Cardinality(OverIn(k)') \in Nat
    BY <1>1, <1>5, FiniteCounts, FS_RemoveElement, FS_CardinalityType
  <2> QED
    BY <1>4, <1>5, <1>6, <2>1, <2>5, <2>6, <2>7, FiniteCounts DEF Tally, Removals
<1>8. CASE p \notin OverIn(k)
  <2>1. OverIn(k)' = OverIn(k) /\ Removing(k)' = Removing(k)
    BY <1>1, <1>3, <1>8 DEF Removing
  <2>2. Young(zset, k) \subseteq Young(zset', k)
    BY <1>8 DEF Young, OverIn, Over, Member
  <2>3. Counted(k) \subseteq Counted(k)'
    BY <2>1, <2>2 DEF Counted
  <2>4. Cardinality(Counted(k)) <= Cardinality(Counted(k)')
    BY <1>6, <2>3, FS_Subset
  <2> QED
    BY <1>4, <1>5, <1>6, <2>1, <2>4, FiniteCounts DEF Tally, Removals
<1> QED
  BY <1>7, <1>8

\* Passing time changes no number.
LEMMA OlderCount ==
  ASSUME NEW S, IsFiniteSet(S), S \subseteq [id : Proc, age : Nat] \/ S \subseteq Request
  PROVE  IsFiniteSet(Older(S)) /\ Cardinality(Older(S)) = Cardinality(S)
<1> DEFINE f == [m \in S |-> [m EXCEPT !.age = @ + 1]]
<1>1. f \in Surjection(S, Older(S))
  BY DEF Surjection, Older
<1>2. \A m, n \in S : f[m] = f[n] => m = n
  <2> SUFFICES ASSUME NEW m \in S, NEW n \in S, f[m] = f[n]
               PROVE  m = n
    OBVIOUS
  <2>1. [m EXCEPT !.age = m.age + 1] = [n EXCEPT !.age = n.age + 1]
    OBVIOUS
  <2> HIDE DEF f
  <2>2. CASE S \subseteq [id : Proc, age : Nat]
    <3>1. m \in [id : Proc, age : Nat] /\ n \in [id : Proc, age : Nat]
      BY <2>2
    <3>2. m.id = n.id /\ m.age + 1 = n.age + 1
      BY <2>1, <3>1
    <3> QED
      BY <3>1, <3>2
  <2>3. CASE S \subseteq Request
    <3>1. m \in [proc : Proc, age : Nat] /\ n \in [proc : Proc, age : Nat]
      BY <2>3 DEF Request
    <3>2. m.proc = n.proc /\ m.age + 1 = n.age + 1
      BY <2>1, <3>1
    <3> QED
      BY <3>1, <3>2
  <2> QED
    BY <2>2, <2>3
<1>3. f \in Injection(S, Older(S))
  BY <1>1, <1>2 DEF Surjection, Injection, IsInjective
<1> HIDE DEF f
<1>4. ExistsBijection(S, Older(S))
  BY <1>1, <1>3 DEF ExistsBijection, Bijection
<1> QED
  BY <1>4, FS_Bijection

LEMMA TickCounts ==
  ASSUME SetInv, Tick, NEW k \in 0 .. Window
  PROVE  Tally(k)' /\ Removals(k)'
<1> USE WindowType, IdType DEF SetInv, Types
<1>1. /\ Older(zset) = {[id |-> m.id, age |-> m.age + 1] : m \in zset}
      /\ Older(admitted) = {[proc |-> r.proc, age |-> r.age + 1] : r \in admitted}
      /\ Older(ties) = {[proc |-> r.proc, age |-> r.age + 1] : r \in ties}
  BY OlderEntries, OlderRequests DEF Request
<1>2. /\ ttl' = IF ttl = 0 THEN 0 ELSE ttl - 1
      /\ zset' = IF ttl' = 0 THEN {} ELSE Older(zset)
      /\ admitted' = {r \in Older(admitted) : r.age < Window + MaxLag}
      /\ ties' = {r \in Older(ties) : r.age < Window}
      /\ lag' = [p \in Proc |-> IF pc[p] = "idle" THEN 0 ELSE lag[p] + 1]
      /\ pc' = pc
  BY DEF Tick
<1>3. CASE k = 0
  <2>1. /\ \A r \in admitted' : r.age \in Nat
        /\ \A r \in ties' : r.age \in Nat
        /\ \A r \in zset' : r.age \in Nat
        /\ \A p \in Proc : lag'[p] \in Nat
    BY <1>1, <1>2
  <2>2. /\ Young(admitted', k) = {} /\ OverIn(k)' = {} /\ Young(ties', k) = {}
        /\ Counted(k)' = {} /\ Removing(k)' = {}
    BY <1>3, <2>1 DEF Young, Over, OverIn, Counted, Removing
  <2> QED
    BY <2>2, FS_EmptySet DEF Tally, Removals
<1>4. CASE k # 0
  <2> DEFINE j == k - 1
  <2>1. j \in 0 .. Window /\ j \in Nat /\ k = j + 1 /\ j < Window
    BY <1>4
  <2> HIDE DEF j
  <2>2. Tally(j) /\ Removals(j)
    BY <2>1
  <2>3. Young(admitted', k) = Older(Young(admitted, j))
    <3>1. Older(Young(admitted, j)) = {[proc |-> r.proc, age |-> r.age + 1] : r \in Young(admitted, j)}
      BY OlderRequests DEF Young, Request
    <3>2. \A r \in Young(admitted, j) : r.age + 1 < k /\ r.age + 1 < Window + MaxLag
      BY <2>1 DEF Young
    <3>3. \A r \in admitted : r.age + 1 < k => r \in Young(admitted, j)
      BY <2>1 DEF Young
    <3> QED
      BY <1>1, <1>2, <3>1, <3>2, <3>3 DEF Young
  <2>4. Young(ties', k) = Older(Young(ties, j))
    <3>1. Older(Young(ties, j)) = {[proc |-> r.proc, age |-> r.age + 1] : r \in Young(ties, j)}
      BY OlderRequests DEF Young, Request
    <3>2. \A r \in Young(ties, j) : r.age + 1 < k /\ r.age + 1 < Window
      BY <2>1 DEF Young
    <3>3. \A r \in ties : r.age + 1 < k => r \in Young(ties, j)
      BY <2>1 DEF Young
    <3> QED
      BY <1>1, <1>2, <3>1, <3>2, <3>3 DEF Young
  <2>5. OverIn(k)' = OverIn(j)
    BY <1>2, <2>1 DEF OverIn, Over
  <2>6. Removing(k)' = Older(Removing(j))
    <3>1. \A p \in OverIn(j) : Member(p)' = [id |-> Member(p).id, age |-> Member(p).age + 1]
      BY <1>2 DEF OverIn, Over, Member
    <3>2. Removing(j) \subseteq [id : Proc, age : Nat]
      BY DEF Removing, OverIn, Over, Member
    <3>3. Older(Removing(j)) = {[id |-> m.id, age |-> m.age + 1] : m \in Removing(j)}
      BY <3>2, OlderEntries
    <3> QED
      BY <2>5, <3>1, <3>3 DEF Removing
  <2>7. Young(zset', k) = Older(Young(zset, j))
    <3>1. Older(Young(zset, j)) = {[id |-> m.id, age |-> m.age + 1] : m \in Young(zset, j)}
      BY OlderEntries DEF Young
    <3>2. CASE ttl' = 0
      <4>1. ttl <= 1
        BY <1>2, <3>2
      <4>2. \A m \in zset : m.age >= j
        BY <2>1, <4>1 DEF KeyOutlives
      <4>3. Young(zset, j) = {}
        BY <2>1, <4>2 DEF Young
      <4> QED
        BY <1>2, <3>1, <3>2, <4>3 DEF Young
    <3>3. CASE ttl' # 0
      <4>1. \A m \in zset : m.age + 1 < k <=> m.age < j
        BY <2>1
      <4> QED
        BY <1>1, <1>2, <3>1, <3>3, <4>1 DEF Young
    <3> QED
      BY <3>2, <3>3
  <2>8. Counted(k)' = Older(Counted(j))
    BY <2>6, <2>7 DEF Counted, Older
  <2>9. /\ Young(admitted, j) \subseteq Request /\ Young(ties, j) \subseteq Request
        /\ Removing(j) \subseteq [id : Proc, age : Nat] /\ Counted(j) \subseteq [id : Proc, age : Nat]
    BY DEF Young, Request, Removing, Counted, OverIn, Over, Member
  <2>10. /\ Cardinality(Young(admitted', k)) = Cardinality(Young(admitted, j))
         /\ Cardinality(Young(ties', k)) = Cardinality(Young(ties, j))
         /\ Cardinality(Removing(k)') = Cardinality(Removing(j))
         /\ Cardinality(Counted(k)') = Cardinality(Counted(j))
    BY <2>3, <2>4, <2>6, <2>8, <2>9, FiniteCounts, OlderCount
  <2> QED
    BY <2>2, <2>5, <2>10 DEF Tally, Removals
<1> QED
  BY <1>3, <1>4

LEMMA SetStep ==
  ASSUME backend = "redis", "error" \notin seen', SetInv, [Next]_vars
  PROVE  SetInv'
<1> USE WindowType, IdType DEF SetInv, Types
<1>1. Types' /\ FiniteInv'
  BY TypesStep, FiniteStep
<1>2. ASSUME NEW p \in Proc, ReadClock(p)
      PROVE  SetInv'
  <2>1. /\ pc[p] = "idle" /\ ~asked[p]
        /\ asked' = [asked EXCEPT ![p] = TRUE]
        /\ pc' = [pc EXCEPT ![p] = "sent"]
        /\ UNCHANGED <<zset, ttl, lag, admitted, ties>>
    BY <1>2 DEF ReadClock
  <2>2. KeyOutlives' /\ TieStamps' /\ ClockRead'
    BY <2>1 DEF KeyOutlives, TieStamps, ClockRead
  <2>3. Over' = Over
    BY <2>1 DEF Over
  <2>4. ASSUME NEW k \in 0 .. Window
        PROVE  Tally(k)' /\ Removals(k)'
    <3>1. OverIn(k)' = OverIn(k) /\ Removing(k)' = Removing(k)
      BY <2>1, <2>3 DEF OverIn, Removing, Member
    <3>2. Counted(k)' = Counted(k)
      BY <2>1, <3>1 DEF Counted
    <3> QED
      BY <2>1, <3>1, <3>2 DEF Tally, Removals
  <2> QED
    BY <1>1, <2>2, <2>4
<1>3. ASSUME NEW p \in Proc, NEW t \in Tier, Pipeline(p, t)
      PROVE  SetInv'
  <2>1. /\ Pruned(p) \subseteq zset
        /\ zset' = Pruned(p) \cup {Member(p)}
        /\ ttl' = Window + Grace
        /\ asked' = asked
        /\ pc[p] = "sent"
        /\ ties' \subseteq ties \cup {[proc |-> p, age |-> lag[p]]}
        /\ \/ pc' = [pc EXCEPT ![p] = "idle"] /\ lag' = [lag EXCEPT ![p] = 0]
           \/ pc' = [pc EXCEPT ![p] = "over"] /\ lag' = lag
    BY <1>3 DEF Pipeline, Execute, Pruned, Idle
  <2>2. KeyOutlives'
    BY <2>1 DEF KeyOutlives, Member
  <2>3. ClockRead'
    BY <2>1 DEF ClockRead
  <2>4. TieStamps'
    <3> SUFFICES ASSUME NEW q \in Proc, NEW r \in ties', r.proc = q
                 PROVE  /\ pc'[q] = "sent" => r.age > lag'[q]
                        /\ ~asked'[q] => r.age > 0
      BY DEF TieStamps
    <3>1. CASE r \in ties
      BY <2>1, <3>1 DEF TieStamps
    <3>2. CASE r \notin ties
      <4>1. r = [proc |-> p, age |-> lag[p]] /\ q = p
        BY <2>1, <3>2
      <4>2. lag[p] = 0 => asked[p]
        BY <2>1 DEF ClockRead
      <4> QED
        BY <2>1, <4>1, <4>2
    <3> QED
      BY <3>1, <3>2
  <2> QED
    BY <1>1, <1>3, <2>2, <2>3, <2>4, PipelineCounts
<1>4. ASSUME NEW p \in Proc, Reject(p) \/ Crash(p)
      PROVE  SetInv'
  <2>1. /\ pc' = [pc EXCEPT ![p] = "idle"]
        /\ lag' = [lag EXCEPT ![p] = 0]
        /\ UNCHANGED <<ttl, asked, admitted, ties>>
        /\ zset' \subseteq zset
        /\ \/ pc[p] = "over" /\ zset \ {Member(p)} \subseteq zset'
           \/ pc[p] # "over" /\ zset \subseteq zset'
    BY <1>4 DEF Reject, Crash, RemoveEntry, Idle
  <2>2. KeyOutlives' /\ TieStamps' /\ ClockRead'
    BY <2>1 DEF KeyOutlives, TieStamps, ClockRead
  <2>3. \A k \in 0 .. Window : Tally(k)' /\ Removals(k)'
    BY <1>1, <2>1, LeaveCounts
  <2> QED
    BY <1>1, <2>2, <2>3
<1>5. ASSUME NEW p \in Proc, FailOpen(p)
      PROVE  SetInv'
  BY <1>5 DEF FailOpen, Fault
<1>6. ASSUME NEW p \in Proc, GetUsage(p)
      PROVE  SetInv'
  <2>1. /\ zset' = Pruned(p) /\ pc[p] = "idle"
        /\ UNCHANGED <<ttl, pc, lag, asked, admitted, ties>>
    BY <1>6 DEF GetUsage
  <2>2. Pruned(p) \subseteq zset
    BY DEF Pruned
  <2>3. KeyOutlives' /\ TieStamps' /\ ClockRead'
    BY <2>1, <2>2 DEF KeyOutlives, TieStamps, ClockRead
  <2>4. ASSUME NEW k \in 0 .. Window
        PROVE  Tally(k)' /\ Removals(k)'
    <3>1. OverIn(k)' = OverIn(k) /\ Removing(k)' = Removing(k)
      BY <2>1 DEF Over, OverIn, Removing, Member
    <3>2. lag[p] = 0
      BY <2>1 DEF ClockRead
    <3>3. Young(zset', k) = Young(zset, k)
      BY <2>1, <3>2 DEF Young, Pruned, InWindow
    <3>4. Counted(k)' = Counted(k)
      BY <3>1, <3>3 DEF Counted
    <3> QED
      BY <2>1, <3>1, <3>4 DEF Tally, Removals
  <2> QED
    BY <1>1, <2>3, <2>4
<1>7. ASSUME NEW p \in Proc, Reset(p)
      PROVE  SetInv'
  <2>1. /\ zset' = {} /\ admitted' = {}
        /\ UNCHANGED <<pc, lag, asked, ties>>
    BY <1>7 DEF Reset, Fault
  <2>2. KeyOutlives' /\ TieStamps' /\ ClockRead'
    BY <2>1 DEF KeyOutlives, TieStamps, ClockRead
  <2>3. ASSUME NEW k \in 0 .. Window
        PROVE  Tally(k)' /\ Removals(k)'
    <3>1. OverIn(k)' = OverIn(k) /\ Removing(k)' = Removing(k)
      BY <2>1 DEF Over, OverIn, Removing, Member
    <3>2. Young(admitted', k) = {} /\ Counted(k)' = Removing(k)
      BY <2>1, <3>1 DEF Young, Counted
    <3>3. Young(ties', k) = Young(ties, k)
      BY <2>1
    <3>4. Cardinality(OverIn(k)) <= Cardinality(Young(ties, k)) + Cardinality(Removing(k))
      BY DEF Removals
    <3>5. Removals(k)'
      BY <3>1, <3>3, <3>4 DEF Removals
    <3>6. /\ Cardinality(Young(admitted', k)) = 0
          /\ Cardinality(OverIn(k)) \in Nat
      BY <3>2, FS_EmptySet, FiniteCounts
    <3>7. Tally(k)'
      BY <3>1, <3>2, <3>3, <3>4, <3>6 DEF Tally
    <3> QED
      BY <3>5, <3>7
  <2> QED
    BY <1>1, <2>2, <2>3
<1>8. CASE Tick
  <2>1. Older(zset) = {[id |-> m.id, age |-> m.age + 1] : m \in zset}
    BY OlderEntries
  <2>2. Older(ties) = {[proc |-> r.proc, age |-> r.age + 1] : r \in ties}
    BY OlderRequests DEF Request
  <2>3. /\ ttl' = IF ttl = 0 THEN 0 ELSE ttl - 1
        /\ zset' = IF ttl' = 0 THEN {} ELSE Older(zset)
        /\ ties' \subseteq Older(ties)
        /\ lag' = [p \in Proc |-> IF pc[p] = "idle" THEN 0 ELSE lag[p] + 1]
        /\ asked' = [p \in Proc |-> FALSE]
        /\ pc' = pc
    BY <1>8 DEF Tick
  <2>4. KeyOutlives' /\ ClockRead'
    BY <2>1, <2>3 DEF KeyOutlives, ClockRead
  <2>5. TieStamps'
    <3> SUFFICES ASSUME NEW p \in Proc, NEW r \in ties', r.proc = p
                 PROVE  /\ pc'[p] = "sent" => r.age > lag'[p]
                        /\ r.age > 0
      BY DEF TieStamps
    <3>1. PICK o \in ties : r = [proc |-> o.proc, age |-> o.age + 1]
      BY <2>2, <2>3
    <3>2. pc[p] = "sent" => o.age > lag[p]
      BY <3>1 DEF TieStamps
    <3> QED
      BY <2>3, <3>1, <3>2
  <2> QED
    BY <1>1, <1>8, <2>4, <2>5, TickCounts
<1>9. CASE UNCHANGED vars
  <2>1. KeyOutlives' /\ TieStamps' /\ ClockRead'
    BY <1>9 DEF vars, KeyOutlives, TieStamps, ClockRead
  <2>2. \A k : OverIn(k)' = OverIn(k) /\ Removing(k)' = Removing(k)
    BY <1>9 DEF vars, Over, OverIn, Removing, Member
  <2>3. \A k : Counted(k)' = Counted(k)
    BY <1>9, <2>2 DEF vars, Counted
  <2> QED
    BY <1>1, <1>9, <2>1, <2>2, <2>3 DEF vars, Tally, Removals
<1> QED
  BY <1>2, <1>3, <1>4, <1>5, <1>6, <1>7, <1>8, <1>9 DEF Next, Check, CheckLocal

-----------------------------------------------------------------------------
(* Without Redis the list of a process holds every request it was allowed. *)

ListInv ==
  /\ Types
  /\ \A p \in Proc : pc[p] = "idle" /\ lag[p] = 0
  /\ \A r \in admitted : r.age < Window => r.age \in bucket[r.proc]

LEMMA ListInit == Init => ListInv
BY TypesInit DEF Init, ListInv

LEMMA ListStep ==
  ASSUME backend = "memory", "crash" \notin seen', ListInv, [Next]_vars
  PROVE  ListInv'
<1> USE WindowType DEF ListInv, Types
<1>1. Types'
  BY TypesStep
<1>2. ASSUME NEW p \in Proc, NEW t \in Tier, CheckLocal(p, t)
      PROVE  ListInv'
  <2>1. /\ UNCHANGED <<pc, lag>>
        /\ \/ /\ bucket' = [bucket EXCEPT ![p] = Recent(p) \cup {0}]
              /\ admitted' = admitted \cup {[proc |-> p, age |-> 0]}
           \/ /\ bucket' = [bucket EXCEPT ![p] = Recent(p)]
              /\ admitted' = admitted
    BY <1>2 DEF CheckLocal, Allow
  <2>2. \A a \in bucket[p] : a < Window => a \in Recent(p)
    BY DEF Recent, InWindow
  <2>3. QED
    BY <1>1, <2>1, <2>2
<1>3. ASSUME NEW p \in Proc, GetUsage(p)
      PROVE  ListInv'
  <2>1. /\ UNCHANGED <<pc, lag, admitted>>
        /\ bucket' = [bucket EXCEPT ![p] = Recent(p)]
    BY <1>3 DEF GetUsage
  <2>2. \A a \in bucket[p] : a < Window => a \in Recent(p)
    BY DEF Recent, InWindow
  <2>3. QED
    BY <1>1, <2>1, <2>2
<1>4. ASSUME NEW p \in Proc, Reset(p)
      PROVE  ListInv'
  <2>1. /\ UNCHANGED <<pc, lag>>
        /\ admitted' = {r \in admitted : r.proc # p}
        /\ bucket' = [bucket EXCEPT ![p] = {}]
    BY <1>4 DEF Reset
  <2>2. QED
    BY <1>1, <2>1
<1>5. CASE Tick
  <2>1. /\ UNCHANGED pc
        /\ \A p \in Proc : lag'[p] = 0
        /\ bucket' = [p \in Proc |-> {a + 1 : a \in {b \in bucket[p] : b < Window}}]
        /\ admitted' \subseteq Older(admitted)
    BY <1>5 DEF Tick
  <2>2. ASSUME NEW r \in admitted', r.age < Window
        PROVE  r.age \in bucket'[r.proc]
    <3>1. PICK o \in admitted : r = [proc |-> o.proc, age |-> o.age + 1]
      BY <2>1, OlderRequests DEF Request
    <3>2. o.age \in bucket[o.proc] /\ o.age < Window /\ o.proc \in Proc
      BY <2>2, <3>1
    <3>3. QED
      BY <2>1, <3>1, <3>2
  <2>3. QED
    BY <1>1, <2>1, <2>2
<1>6. CASE UNCHANGED vars
  BY <1>6 DEF vars
<1>7. QED
  BY <1>2, <1>3, <1>4, <1>5, <1>6
     DEF Next, Check, ReadClock, Pipeline, Reject, FailOpen, Crash, Fault

-----------------------------------------------------------------------------
(* The theorem: what was counted, and the request itself, stand for all the     *)
(* requests allowed in the window.                                             *)

\* A request is let through when the set, which stands for what was allowed but for ties,
\* has room for it.
LEMMA SetFits ==
  ASSUME backend = "redis", SetInv, SetInv', NEW p \in Proc, NEW t \in Tier, Pipeline(p, t),
         admitted' # admitted
  PROVE  Cardinality(AllowedIn(p, Window)') <= Limit[t] + Cardinality(TiesIn(Window)')
<1> USE WindowType, LimitType, IdType DEF SetInv, Types
<1>1. /\ zset' = Pruned(p) \cup {Member(p)}
      /\ Cardinality(Pruned(p)) < Limit[t]
      /\ backend' = "redis"
  BY DEF Pipeline, Execute, Room
<1>2. AllowedIn(p, Window)' = Young(admitted', Window) /\ TiesIn(Window)' = Young(ties', Window)
  BY <1>1 DEF AllowedIn, TiesIn, Young
<1>3. IsFiniteSet(Pruned(p)) /\ Cardinality(Pruned(p)) \in Nat
  BY FS_Subset, FS_CardinalityType DEF Pruned, FiniteInv
<1>4. /\ Cardinality(zset') \in Nat
      /\ Cardinality(zset') <= Cardinality(Pruned(p)) + 1
  BY <1>1, <1>3, OneMore
<1>5. /\ IsFiniteSet(Young(zset', Window)) /\ Cardinality(Young(zset', Window)) \in Nat
      /\ Cardinality(Young(zset', Window)) <= Cardinality(zset')
  BY FS_Subset, FS_CardinalityType DEF FiniteInv, Young
<1>6. /\ IsFiniteSet(OverIn(Window)') /\ IsFiniteSet(Young(admitted', Window)) /\ IsFiniteSet(Young(ties', Window))
  BY FS_Subset DEF FiniteInv, Young, OverIn
<1>7. /\ IsFiniteSet(Removing(Window)')
      /\ Cardinality(Removing(Window)') <= Cardinality(OverIn(Window)')
  <2> DEFINE f == [q \in OverIn(Window)' |-> Member(q)']
  <2>1. f \in Surjection(OverIn(Window)', Removing(Window)')
    BY DEF Surjection, Removing
  <2> QED
    BY <1>6, <2>1, FS_Surjection
<1>8. /\ IsFiniteSet(Counted(Window)')
      /\ Cardinality(Counted(Window)') = Cardinality(Young(zset', Window)) + Cardinality(Removing(Window)')
                                           - Cardinality(Young(zset', Window) \cap Removing(Window)')
  BY <1>5, <1>7, FS_Union DEF Counted
<1>9. Cardinality(Young(zset', Window) \cap Removing(Window)') \in Nat
  BY <1>5, FS_Subset, FS_CardinalityType
<1>10. Tally(Window)'
  OBVIOUS
<1>11. Cardinality(Young(admitted', Window)) + Cardinality(OverIn(Window)')
         <= Cardinality(Young(ties', Window)) + Cardinality(Counted(Window)')
  BY <1>10 DEF Tally
<1>12. /\ Cardinality(Young(admitted', Window)) \in Nat /\ Cardinality(OverIn(Window)') \in Nat
       /\ Cardinality(Young(ties', Window)) \in Nat /\ Cardinality(Removing(Window)') \in Nat
       /\ Cardinality(Counted(Window)') \in Nat /\ Limit[t] \in Nat
  BY <1>6, <1>7, <1>8, FS_CardinalityType
<1>13. Cardinality(Young(admitted', Window)) <= Limit[t] + Cardinality(Young(ties', Window))
  BY <1>1, <1>3, <1>4, <1>5, <1>7, <1>8, <1>9, <1>11, <1>12
<1> QED
  BY <1>2, <1>13

LEMMA ListFits ==
  ASSUME backend = "memory", ListInv, ListInv', NEW p \in Proc, NEW t \in Tier,
         CheckLocal(p, t), admitted' # admitted
  PROVE  Cardinality(AllowedIn(p, Window)') <= Limit[t]
<1> USE WindowType, LimitType DEF ListInv, Types
<1> DEFINE allowed == AllowedIn(p, Window)'
           list == Recent(p) \cup {0}
           f == [r \in allowed |-> r.age]
<1>1. /\ Cardinality(Recent(p)) < Limit[t]
      /\ bucket' = [bucket EXCEPT ![p] = list]
      /\ backend' = "memory"
  BY DEF CheckLocal, Room
<1>2. IsFiniteSet(Recent(p)) /\ Cardinality(Recent(p)) \in Nat
  <2>1. IsFiniteSet(0 .. Window)
    BY FS_Interval
  <2>2. Recent(p) \in SUBSET (0 .. Window)
    BY DEF Recent
  <2>3. QED
    BY <2>1, <2>2, FS_Subset, FS_CardinalityType
<1>3. /\ IsFiniteSet(list)
      /\ Cardinality(list) <= Cardinality(Recent(p)) + 1
      /\ Cardinality(list) \in Nat
  <2>1. /\ IsFiniteSet(list)
        /\ Cardinality(list) = IF 0 \in Recent(p) THEN Cardinality(Recent(p))
                                                ELSE Cardinality(Recent(p)) + 1
    BY <1>2, FS_AddElement
  <2> HIDE DEF list
  <2>2. QED
    BY <1>2, <2>1
<1>4. \A r \in allowed : r \in Request /\ r.proc = p /\ r.age \in list
  BY <1>1 DEF AllowedIn, Request
<1>5. f \in Injection(allowed, list)
  BY <1>4 DEF Injection, IsInjective, Request
<1> HIDE DEF allowed, list, f
<1>6. IsFiniteSet(allowed) /\ Cardinality(allowed) <= Cardinality(list)
  BY <1>3, <1>5, FS_Injection
<1>7. Cardinality(allowed) \in Nat
  BY <1>6, FS_CardinalityType
<1>8. Limit[t] \in Nat
  OBVIOUS
<1>9. Cardinality(allowed) <= Limit[t]
  BY <1>1, <1>2, <1>3, <1>6, <1>7, <1>8
<1>10. QED
  BY <1>9 DEF allowed

LimitInv ==
  /\ Types /\ FiniteInv
  /\ backend = "redis" /\ "error" \notin seen => SetInv
  /\ backend # "redis" /\ "crash" \notin seen => backend = "memory" /\ ListInv

\* A key is allowed no more requests in a window than the limit of its tier, and one
\* for each tie of members, over all processes with Redis and in each process without:
\* LimitRespected for both back ends of redis_rate_limiter.py, whatever ids the
\* limiter objects of the processes have.
THEOREM LimitHolds ==
  ASSUME Backends \subseteq {"memory", "redis"}
  PROVE  Spec => LimitRespected
<1>1. Init => LimitInv
  BY SetInit, ListInit, TypesInit, FiniteInit DEF Init, LimitInv
<1>2. ASSUME [Next]_vars
      PROVE  backend' = backend /\ seen \subseteq seen'
  BY <1>2 DEF Next, Check, CheckLocal, ReadClock, Pipeline, Reject, FailOpen, GetUsage,
              Reset, Crash, Tick, Fault, vars
<1>3. LimitInv /\ [Next]_vars => LimitInv'
  <2> SUFFICES ASSUME LimitInv, [Next]_vars PROVE LimitInv'
    OBVIOUS
  <2>1. Types' /\ FiniteInv'
    BY TypesStep, FiniteStep DEF LimitInv
  <2>2. CASE backend = "redis" /\ "error" \notin seen'
    BY <1>2, <2>1, <2>2, SetStep DEF LimitInv
  <2>3. CASE backend # "redis" /\ "crash" \notin seen'
    BY <1>2, <2>1, <2>3, ListStep DEF LimitInv
  <2>4. QED
    BY <1>2, <2>1, <2>2, <2>3 DEF LimitInv
<1>4. ASSUME LimitInv, LimitInv', [Next]_vars
      PROVE  [\A p \in Proc, t \in Tier : (Allows(p, t) /\ CountsKept) =>
                Cardinality(AllowedIn(p, Window)') <= Limit[t] + Cardinality(TiesIn(Window)')]_vars
  <2> SUFFICES ASSUME NEW p \in Proc, NEW t \in Tier, Allows(p, t), CountsKept
               PROVE  Cardinality(AllowedIn(p, Window)') <= Limit[t] + Cardinality(TiesIn(Window)')
    OBVIOUS
  <2>1. seen' = seen /\ backend' = backend
    BY DEF Allows, CheckLocal, Pipeline
  <2>2. CASE backend = "redis"
    <3>1. SetInv /\ SetInv'
      BY <1>4, <2>1, <2>2 DEF LimitInv, CountsKept
    <3>2. Pipeline(p, t) /\ admitted' # admitted
      BY <2>2 DEF Allows, CheckLocal
    <3>3. QED
      BY <2>2, <3>1, <3>2, SetFits
  <2>3. CASE backend # "redis"
    <3>1. backend = "memory" /\ ListInv /\ ListInv'
      BY <1>4, <2>1, <2>3 DEF LimitInv, CountsKept
    <3>2. CheckLocal(p, t) /\ admitted' # admitted
      BY <3>1 DEF Allows, Pipeline, ListInv
    <3>3. Cardinality(AllowedIn(p, Window)') <= Limit[t]
      BY <3>1, <3>2, ListFits
    <3>4. IsFiniteSet(TiesIn(Window)') /\ IsFiniteSet(AllowedIn(p, Window)')
      BY <1>4, FS_Subset DEF LimitInv, FiniteInv, TiesIn, AllowedIn
    <3>5. Cardinality(TiesIn(Window)') \in Nat /\ Cardinality(AllowedIn(p, Window)') \in Nat /\ Limit[t] \in Nat
      BY <3>4, FS_CardinalityType, LimitType
    <3>6. QED
      BY <3>3, <3>5
  <2>4. QED
    BY <2>2, <2>3
<1>5. QED
  BY <1>1, <1>3, <1>4, PTL DEF Spec, LimitRespected

-----------------------------------------------------------------------------
(* Ties come from shared ids alone.                                            *)

OwnId == \A p, q \in Proc : IdOf[p] = IdOf[q] => p = q

\* A request that has not been sent to Redis yet is newer than what its process sent.
Newest ==
  \A p \in Proc : \A m \in zset : m.id = IdOf[p] =>
    /\ pc[p] = "sent" => m.age > lag[p]
    /\ ~asked[p] => m.age > 0

NoTieInv == Types /\ ClockRead /\ Newest /\ ties = {}

LEMMA NoTieStep ==
  ASSUME OwnId, NoTieInv, [Next]_vars
  PROVE  NoTieInv'
<1> USE WindowType, IdType DEF NoTieInv, Types
<1>1. Types'
  BY TypesStep
<1>2. ASSUME NEW p \in Proc, NEW t \in Tier, CheckLocal(p, t)
      PROVE  NoTieInv'
  BY <1>1, <1>2 DEF CheckLocal, ClockRead, Newest
<1>3. ASSUME NEW p \in Proc, ReadClock(p)
      PROVE  NoTieInv'
  <2>1. pc[p] = "idle" /\ ~asked[p] /\ lag[p] = 0
    BY <1>3 DEF ReadClock, ClockRead
  <2> QED
    BY <1>1, <1>3, <2>1 DEF ReadClock, ClockRead, Newest
<1>4. ASSUME NEW p \in Proc, pc[p] = "sent" \/ pc[p] = "over",
             zset' \subseteq zset \cup {Member(p)},
             asked' = asked,
             \/ pc' = [pc EXCEPT ![p] = "idle"] /\ lag' = [lag EXCEPT ![p] = 0]
             \/ pc' = [pc EXCEPT ![p] = "over"] /\ lag' = lag
      PROVE  ClockRead' /\ Newest'
  <2>1. Member(p) = [id |-> IdOf[p], age |-> lag[p]] /\ (lag[p] = 0 => asked[p])
    BY <1>4 DEF Member, ClockRead
  <2>2. ClockRead'
    BY <1>4 DEF ClockRead
  <2>3. Newest'
    <3> SUFFICES ASSUME NEW q \in Proc, NEW m \in zset', m.id = IdOf[q]
                 PROVE  /\ pc'[q] = "sent" => m.age > lag'[q]
                        /\ ~asked'[q] => m.age > 0
      BY DEF Newest
    <3>1. CASE m \in zset
      BY <1>4, <3>1 DEF Newest
    <3>2. CASE m \notin zset
      <4>1. m = Member(p) /\ q = p
        BY <1>4, <2>1, <3>2 DEF OwnId
      <4> QED
        BY <1>4, <2>1, <4>1
    <3> QED
      BY <3>1, <3>2
  <2> QED
    BY <2>2, <2>3
<1>5. ASSUME NEW p \in Proc, NEW t \in Tier, Pipeline(p, t)
      PROVE  NoTieInv'
  <2>1. pc[p] = "sent" /\ asked' = asked /\ zset' \subseteq zset \cup {Member(p)}
    BY <1>5 DEF Pipeline, Execute, Pruned
  <2>2. \/ pc' = [pc EXCEPT ![p] = "idle"] /\ lag' = [lag EXCEPT ![p] = 0]
        \/ pc' = [pc EXCEPT ![p] = "over"] /\ lag' = lag
    BY <1>5 DEF Pipeline, Idle
  <2>3. Member(p) \notin Claimed
    <3>1. Member(p) \notin zset
      BY <2>1 DEF Newest, Member
    <3>2. \A q \in Proc : pc[q] = "over" => Member(q) # Member(p)
      BY <2>1 DEF Member, OwnId
    <3> QED
      BY <3>1, <3>2 DEF Claimed
  <2>4. ties' = {}
    BY <1>5, <2>3 DEF Pipeline
  <2> QED
    BY <1>1, <1>4, <2>1, <2>2, <2>4
<1>6. ASSUME NEW p \in Proc, Reject(p) \/ FailOpen(p)
      PROVE  NoTieInv'
  <2>1. /\ pc[p] = "sent" \/ pc[p] = "over"
        /\ zset' \subseteq zset \cup {Member(p)}
        /\ asked' = asked /\ ties' = ties
        /\ pc' = [pc EXCEPT ![p] = "idle"] /\ lag' = [lag EXCEPT ![p] = 0]
    BY <1>6 DEF Reject, FailOpen, RemoveEntry, Execute, Pruned, Idle
  <2> QED
    BY <1>1, <1>4, <2>1
<1>7. ASSUME NEW p \in Proc, GetUsage(p) \/ Reset(p)
      PROVE  NoTieInv'
  <2>1. zset' \subseteq zset /\ UNCHANGED <<pc, lag, asked, ties>>
    BY <1>7 DEF GetUsage, Reset, Pruned
  <2> QED
    BY <1>1, <2>1 DEF ClockRead, Newest
<1>8. ASSUME NEW p \in Proc, Crash(p)
      PROVE  NoTieInv'
  BY <1>1, <1>8 DEF Crash, Idle, ClockRead, Newest
<1>9. CASE Tick
  <2>1. Older(zset) = {[id |-> m.id, age |-> m.age + 1] : m \in zset}
    BY OlderEntries
  <2>2. /\ zset' \subseteq Older(zset)
        /\ ties' = {}
        /\ lag' = [p \in Proc |-> IF pc[p] = "idle" THEN 0 ELSE lag[p] + 1]
        /\ asked' = [p \in Proc |-> FALSE]
        /\ pc' = pc
    BY <1>9 DEF Tick, Older
  <2>3. ClockRead'
    BY <2>2 DEF ClockRead
  <2>4. Newest'
    <3> SUFFICES ASSUME NEW p \in Proc, NEW m \in zset', m.id = IdOf[p]
                 PROVE  /\ pc'[p] = "sent" => m.age > lag'[p]
                        /\ m.age > 0
      BY DEF Newest
    <3>1. PICK o \in zset : m = [id |-> o.id, age |-> o.age + 1]
      BY <2>1, <2>2
    <3>2. pc[p] = "sent" => o.age > lag[p]
      BY <3>1 DEF Newest
    <3> QED
      BY <2>2, <3>1, <3>2
  <2> QED
    BY <1>1, <2>2, <2>3, <2>4
<1>10. CASE UNCHANGED vars
  BY <1>1, <1>10 DEF vars, ClockRead, Newest
<1> QED
  BY <1>2, <1>3, <1>5, <1>6, <1>7, <1>8, <1>9, <1>10 DEF Next, Check

\* Where the limiter objects have different ids, as without preload_app, no two requests
\* have one member (redis_rate_limiter.py:117), so the bound of LimitHolds is the limit.
THEOREM OwnIdsNeverTie ==
  ASSUME OwnId
  PROVE  Spec => [](ties = {})
<1>1. Init => NoTieInv
  BY TypesInit DEF Init, NoTieInv, ClockRead, Newest
<1>2. NoTieInv /\ [Next]_vars => NoTieInv'
  BY NoTieStep
<1>3. NoTieInv => ties = {}
  BY DEF NoTieInv
<1> QED
  BY <1>1, <1>2, <1>3, PTL DEF Spec

-----------------------------------------------------------------------------
(* What the sorted set holds, whatever calls raise and whatever the ids are. *)

NoSetInMemory == backend # "redis" => zset = {} /\ \A p \in Proc : pc[p] = "idle"

\* One entry: it belongs to a request being rejected or to an allowed one.
Justified(m) ==
  \E p \in Proc : \/ m = Member(p) /\ pc[p] = "over"
                  \/ m.id = IdOf[p] /\ [proc |-> p, age |-> m.age] \in admitted

\* This holds of every entry that a late transaction may still count.
AllJustified ==
  "crash" \notin seen => \A m \in zset : m.age < Window + MaxLag => Justified(m)

JustifiedInv == Types /\ NoSetInMemory /\ AllJustified

LEMMA JustifiedInit == Init => JustifiedInv
<1> SUFFICES ASSUME Init PROVE JustifiedInv
  OBVIOUS
<1>1. Types
  BY TypesInit
<1>2. AllJustified /\ NoSetInMemory
  BY DEF Init, AllJustified, NoSetInMemory
<1>3. QED
  BY <1>1, <1>2 DEF JustifiedInv

\* An entry stays justified when only p moves, unless p drops its own claim.
LEMMA OthersJustified ==
  ASSUME Types, NEW m, NEW p \in Proc, Justified(m),
         admitted \subseteq admitted',
         \A q \in Proc \ {p} : pc'[q] = pc[q] /\ lag'[q] = lag[q],
         m = Member(p) /\ pc[p] = "over" => Justified(m)'
  PROVE  Justified(m)'
<1>1. PICK q \in Proc : \/ m = Member(q) /\ pc[q] = "over"
                        \/ m.id = IdOf[q] /\ [proc |-> q, age |-> m.age] \in admitted
  BY DEF Justified
<1>2. CASE q = p
  BY <1>1, <1>2 DEF Justified
<1>3. CASE q # p
  BY <1>1, <1>3 DEF Justified, Member
<1>4. QED
  BY <1>2, <1>3

LEMMA JustifiedStep ==
  ASSUME JustifiedInv, [Next]_vars
  PROVE  JustifiedInv'
<1> USE WindowType, IdType DEF JustifiedInv, Types
<1>1. Types'
  BY TypesStep
<1>2. NoSetInMemory'
  BY DEF NoSetInMemory, Next, Check, CheckLocal, ReadClock, Pipeline, Reject, FailOpen,
         GetUsage, Reset, Crash, Idle, Tick, Older, vars
<1> SUFFICES ASSUME "crash" \notin seen', NEW m \in zset', m.age < Window + MaxLag
             PROVE  Justified(m)'
  BY <1>1, <1>2 DEF AllJustified
<1>3. seen \subseteq seen'
  BY DEF Next, Check, CheckLocal, ReadClock, Pipeline, Reject, FailOpen, GetUsage,
         Reset, Crash, Tick, Fault, vars
<1>4. \A e \in zset : e.age < Window + MaxLag => Justified(e)
  BY <1>3 DEF AllJustified
<1>5. ASSUME NEW p \in Proc, NEW t \in Tier, CheckLocal(p, t)
      PROVE  Justified(m)'
  BY <1>5, <1>4 DEF CheckLocal, NoSetInMemory
<1>6. ASSUME NEW p \in Proc, ReadClock(p)
      PROVE  Justified(m)'
  <2>1. /\ pc[p] = "idle" /\ UNCHANGED <<zset, lag, admitted>>
        /\ pc' = [pc EXCEPT ![p] = "sent"]
    BY <1>6 DEF ReadClock
  <2>2. Justified(m) /\ \A q \in Proc \ {p} : pc'[q] = pc[q] /\ lag'[q] = lag[q]
    BY <1>4, <2>1
  <2>3. QED
    BY <2>1, <2>2, OthersJustified
<1>7. ASSUME NEW p \in Proc, NEW t \in Tier, Pipeline(p, t)
      PROVE  Justified(m)'
  <2>1. /\ m \in zset \/ m = Member(p)
        /\ pc[p] = "sent"
        /\ \A q \in Proc \ {p} : pc'[q] = pc[q] /\ lag'[q] = lag[q]
        /\ admitted \subseteq admitted'
    BY <1>7 DEF Pipeline, Execute, Pruned, Allow, Idle
  <2>2. \/ [proc |-> p, age |-> lag[p]] \in admitted'
        \/ pc'[p] = "over" /\ lag'[p] = lag[p]
    BY <1>7 DEF Pipeline, Allow
  <2>3. CASE m = Member(p)
    BY <2>2, <2>3 DEF Justified, Member
  <2>4. CASE m \in zset
    BY <1>4, <2>1, <2>4, OthersJustified
  <2>5. QED
    BY <2>1, <2>3, <2>4
<1>8. ASSUME NEW p \in Proc, Reject(p)
      PROVE  Justified(m)'
  <2>1. /\ m \in zset /\ m # Member(p)
        /\ \A q \in Proc \ {p} : pc'[q] = pc[q] /\ lag'[q] = lag[q]
        /\ admitted' = admitted
    BY <1>8 DEF Reject, RemoveEntry, Idle
  <2>2. QED
    BY <1>4, <2>1, OthersJustified
<1>9. ASSUME NEW p \in Proc, FailOpen(p)
      PROVE  Justified(m)'
  <2>1. /\ m \in zset \/ m = Member(p)
        /\ \A q \in Proc \ {p} : pc'[q] = pc[q] /\ lag'[q] = lag[q]
        /\ admitted' = admitted \cup {[proc |-> p, age |-> lag[p]]}
    BY <1>9 DEF FailOpen, Execute, RemoveEntry, Pruned, Allow, Idle
  <2>2. Member(p) = m => Justified(m)'
    BY <2>1 DEF Justified, Member
  <2>3. QED
    BY <1>4, <2>1, <2>2, OthersJustified
<1>10. ASSUME NEW p \in Proc, GetUsage(p)
      PROVE  Justified(m)'
  <2>1. m \in zset /\ UNCHANGED <<pc, lag, admitted>>
    BY <1>10 DEF GetUsage, Pruned
  <2>2. QED
    BY <1>4, <2>1 DEF Justified, Member
<1>11. ASSUME NEW p \in Proc, Reset(p)
      PROVE  Justified(m)'
  <2>1. m \in zset /\ UNCHANGED <<pc, lag, admitted>>
    BY <1>11 DEF Reset, NoSetInMemory
  <2>2. QED
    BY <1>4, <2>1 DEF Justified, Member
<1>12. ASSUME NEW p \in Proc, Crash(p)
      PROVE  Justified(m)'
  BY <1>12 DEF Crash, Fault
<1>13. ASSUME Tick
       PROVE  Justified(m)'
  <2>1. PICK o \in zset : m = [id |-> o.id, age |-> o.age + 1]
    BY <1>13, OlderEntries DEF Tick
  <2>2. o \in [id : Proc, age : Nat] /\ o.age + 1 < Window + MaxLag /\ o.age < Window + MaxLag
    BY <2>1
  <2>3. PICK p \in Proc : \/ o = Member(p) /\ pc[p] = "over"
                          \/ o.id = IdOf[p] /\ [proc |-> p, age |-> o.age] \in admitted
    BY <1>4, <2>2 DEF Justified
  <2>4. CASE o = Member(p) /\ pc[p] = "over"
    <3>1. lag'[p] = lag[p] + 1 /\ pc'[p] = "over"
      BY <1>13, <2>4 DEF Tick
    <3>2. m = Member(p)'
      BY <2>1, <2>4, <3>1 DEF Member
    <3>3. QED
      BY <3>1, <3>2 DEF Justified
  <2>5. CASE o.id = IdOf[p] /\ [proc |-> p, age |-> o.age] \in admitted
    <3>1. [proc |-> p, age |-> o.age + 1] \in Older(admitted)
      BY <2>5, OlderRequests DEF Request
    <3>2. [proc |-> p, age |-> m.age] \in admitted'
      BY <1>13, <2>1, <2>2, <3>1 DEF Tick
    <3>3. QED
      BY <2>1, <2>5, <3>2 DEF Justified
  <2>6. QED
    BY <2>3, <2>4, <2>5
<1>14. CASE UNCHANGED vars
  BY <1>4, <1>14 DEF vars, Justified, Member
<1>15. QED
  BY <1>5, <1>6, <1>7, <1>8, <1>9, <1>10, <1>11, <1>12, <1>13, <1>14 DEF Next, Check

\* A rejected or failed request leaves nothing behind: EntriesJustified for the
\* zadd, zrem and except branches of _check_redis.
THEOREM EntriesAreJustified ==
  Spec => []EntriesJustified
<1>1. Init => JustifiedInv
  BY JustifiedInit
<1>2. JustifiedInv /\ [Next]_vars => JustifiedInv'
  BY JustifiedStep
<1>3. JustifiedInv => EntriesJustified
  <2> SUFFICES ASSUME JustifiedInv, "crash" \notin seen, NEW m \in zset, m.age < Window
               PROVE  Justified(m)
    BY DEF EntriesJustified, Justified
  <2>1. m.age \in Nat
    BY DEF JustifiedInv, Types
  <2>2. m.age < Window + MaxLag
    BY <2>1, WindowType
  <2> QED
    BY <2>2 DEF JustifiedInv, AllJustified
<1>4. QED
  BY <1>1, <1>2, <1>3, PTL DEF Spec

-----------------------------------------------------------------------------
(* Nobody is turned away below the limit: what was counted maps one to one to   *)
(* the requests that were allowed and to those that are being turned away.      *)

LagInv == \A p \in Proc : lag[p] <= MaxLag /\ (pc[p] = "idle" => lag[p] = 0)

\* Without Redis: what a process has in its list it was allowed, before this tick
\* unless it has asked in this tick.
ListJustified ==
  backend = "memory" =>
    /\ \A p \in Proc : \A a \in bucket[p] : a < Window => [proc |-> p, age |-> a] \in admitted
    /\ \A r \in admitted : ~asked[r.proc] => r.age > 0

BlockInv == JustifiedInv /\ FiniteInv /\ LagInv /\ ListJustified

LEMMA BlockInit == Init => BlockInv
<1> SUFFICES ASSUME Init PROVE BlockInv
  OBVIOUS
<1>1. JustifiedInv
  BY JustifiedInit
<1>2. FiniteInv
  BY FiniteInit
<1>3. LagInv /\ ListJustified
  BY WindowType DEF Init, LagInv, ListJustified
<1>4. QED
  BY <1>1, <1>2, <1>3 DEF BlockInv

LEMMA LagStep ==
  ASSUME Types, LagInv, [Next]_vars
  PROVE  LagInv'
<1> USE WindowType DEF Types, LagInv
<1>1. CASE Tick
  BY <1>1 DEF Tick
<1>2. ASSUME NEW p \in Proc, Idle(p)
      PROVE  LagInv'
  BY <1>2 DEF Idle
<1>3. CASE lag' = lag /\ \A q \in Proc : pc'[q] = "idle" => pc[q] = "idle"
  BY <1>3
<1>4. QED
  BY <1>1, <1>2, <1>3 DEF Next, Check, CheckLocal, ReadClock, Pipeline, Reject, FailOpen,
     GetUsage, Reset, Crash, vars

LEMMA ListJustifiedStep ==
  ASSUME JustifiedInv, LagInv, ListJustified, backend = "memory", [Next]_vars
  PROVE  ListJustified'
<1> USE WindowType DEF JustifiedInv, Types
<1>1. \A q \in Proc : pc[q] = "idle" /\ lag[q] = 0
  BY DEF NoSetInMemory, LagInv
<1>2. ASSUME NEW p \in Proc, NEW t \in Tier, CheckLocal(p, t)
      PROVE  ListJustified'
  <2>1. /\ asked' = [asked EXCEPT ![p] = TRUE]
        /\ \/ /\ bucket' = [bucket EXCEPT ![p] = Recent(p) \cup {0}]
              /\ admitted' = admitted \cup {[proc |-> p, age |-> 0]}
           \/ /\ bucket' = [bucket EXCEPT ![p] = Recent(p)]
              /\ admitted' = admitted
    BY <1>1, <1>2 DEF CheckLocal, Allow
  <2>2. Recent(p) \subseteq bucket[p]
    BY DEF Recent
  <2> QED
    BY <2>1, <2>2 DEF ListJustified
<1>3. ASSUME NEW p \in Proc, GetUsage(p)
      PROVE  ListJustified'
  <2>1. UNCHANGED <<asked, admitted>> /\ bucket' = [bucket EXCEPT ![p] = Recent(p)]
    BY <1>3 DEF GetUsage
  <2>2. Recent(p) \subseteq bucket[p]
    BY DEF Recent
  <2> QED
    BY <2>1, <2>2 DEF ListJustified
<1>4. ASSUME NEW p \in Proc, Reset(p)
      PROVE  ListJustified'
  <2>1. /\ asked' = asked /\ admitted' = {r \in admitted : r.proc # p}
        /\ bucket' = [bucket EXCEPT ![p] = {}]
    BY <1>4 DEF Reset
  <2> QED
    BY <2>1 DEF ListJustified
<1>5. ASSUME NEW p \in Proc, Crash(p)
      PROVE  ListJustified'
  <2>1. UNCHANGED <<asked, admitted>> /\ bucket' = [bucket EXCEPT ![p] = {}]
    BY <1>5 DEF Crash
  <2> QED
    BY <2>1 DEF ListJustified
<1>6. CASE Tick
  <2>1. /\ bucket' = [p \in Proc |-> {a + 1 : a \in {b \in bucket[p] : b < Window}}]
        /\ admitted' = {r \in Older(admitted) : r.age < Window + MaxLag}
    BY <1>6 DEF Tick
  <2>2. Older(admitted) = {[proc |-> r.proc, age |-> r.age + 1] : r \in admitted}
    BY OlderRequests DEF Request
  <2>3. ASSUME NEW p \in Proc, NEW a \in bucket'[p], a < Window
        PROVE  [proc |-> p, age |-> a] \in admitted'
    <3>1. PICK b \in bucket[p] : a = b + 1 /\ b \in 0 .. Window
      BY <2>1
    <3>2. [proc |-> p, age |-> b] \in admitted
      BY <2>3, <3>1 DEF ListJustified
    <3>3. [proc |-> p, age |-> b + 1] \in Older(admitted)
      BY <2>2, <3>2
    <3> QED
      BY <2>1, <2>3, <3>1, <3>3
  <2>4. \A r \in admitted' : r.age > 0
    BY <2>1, <2>2
  <2> QED
    BY <2>3, <2>4 DEF ListJustified
<1>7. CASE UNCHANGED vars
  BY <1>7 DEF vars, ListJustified
<1>8. QED
  BY <1>1, <1>2, <1>3, <1>4, <1>5, <1>6, <1>7
     DEF Next, Check, ReadClock, Pipeline, Reject, FailOpen

LEMMA BlockStep == BlockInv /\ [Next]_vars => BlockInv'
<1> SUFFICES ASSUME BlockInv, [Next]_vars PROVE BlockInv'
  OBVIOUS
<1>1. JustifiedInv' /\ FiniteInv' /\ LagInv'
  BY JustifiedStep, FiniteStep, LagStep DEF BlockInv, JustifiedInv
<1>2. backend' = backend
  BY DEF Next, Check, CheckLocal, ReadClock, Pipeline, Reject, FailOpen, GetUsage,
         Reset, Crash, Tick, vars
<1>3. ListJustified'
  <2>1. CASE backend = "memory"
    BY <2>1, ListJustifiedStep DEF BlockInv
  <2>2. CASE backend # "memory"
    BY <1>2, <2>2 DEF ListJustified
  <2> QED
    BY <2>1, <2>2
<1>4. QED
  BY <1>1, <1>3 DEF BlockInv

\* Disjoint finite sets, as tagged copies of them would be, have the sum of their sizes.
LEMMA TwoSets ==
  ASSUME NEW A, NEW B, IsFiniteSet(A), IsFiniteSet(B), A \cap B = {}
  PROVE  IsFiniteSet(A \cup B) /\ Cardinality(A \cup B) = Cardinality(A) + Cardinality(B)
<1>1. Cardinality(A \cap B) = 0
  BY FS_EmptySet
<1>2. QED
  BY <1>1, FS_Union, FS_CardinalityType

\* What Redis counts: an entry is that of an allowed request, or else of a process that
\* is taking it back.
LEMMA SetFull ==
  ASSUME BlockInv, "crash" \notin seen, NEW p \in Proc, pc[p] = "sent"
  PROVE  Cardinality(Pruned(p)) <=
           Cardinality(AllowedIn(p, Window + lag[p])) + Cardinality(Over \ {p})
<1> DEFINE allowed == AllowedIn(p, Window + lag[p])
           late    == Over \ {p}
           both    == (allowed \X {0}) \cup (late \X {1})
           holder(m) == CHOOSE h \in both :
                          \/ h[2] = 0 /\ m = [id |-> IdOf[h[1].proc], age |-> h[1].age]
                          \/ h[2] = 1 /\ m = Member(h[1])
           f == [m \in Pruned(p) |-> holder(m)]
<1>1. backend = "redis" /\ Types
  BY DEF BlockInv, JustifiedInv, NoSetInMemory
<1>2. ASSUME NEW m \in Pruned(p)
      PROVE  \E h \in both : \/ h[2] = 0 /\ m = [id |-> IdOf[h[1].proc], age |-> h[1].age]
                             \/ h[2] = 1 /\ m = Member(h[1])
  <2>1. m \in [id : Proc, age : Nat] /\ m \in zset /\ m.age - lag[p] < Window
    BY <1>1 DEF Pruned, InWindow, Types
  <2>2. lag[p] \in Nat /\ lag[p] <= MaxLag /\ Window \in Nat /\ MaxLag \in Nat
    BY <1>1, WindowType DEF BlockInv, LagInv, Types
  <2>3. Justified(m)
    BY <2>1, <2>2 DEF BlockInv, JustifiedInv, AllJustified
  <2>4. PICK q \in Proc : \/ m = Member(q) /\ pc[q] = "over"
                          \/ m.id = IdOf[q] /\ [proc |-> q, age |-> m.age] \in admitted
    BY <2>3 DEF Justified
  <2>5. CASE m = Member(q) /\ pc[q] = "over"
    <3>1. <<q, 1>> \in both
      BY <2>5 DEF Over
    <3> QED
      BY <2>5, <3>1
  <2>6. CASE m.id = IdOf[q] /\ [proc |-> q, age |-> m.age] \in admitted
    <3>1. <<[proc |-> q, age |-> m.age], 0>> \in both
      BY <1>1, <2>1, <2>2, <2>6 DEF AllowedIn
    <3> QED
      BY <2>1, <2>6, <3>1
  <2> QED
    BY <2>4, <2>5, <2>6
<1>3. \A m \in Pruned(p) : /\ holder(m) \in both
                           /\ \/ holder(m)[2] = 0 /\ m = [id |-> IdOf[holder(m)[1].proc], age |-> holder(m)[1].age]
                              \/ holder(m)[2] = 1 /\ m = Member(holder(m)[1])
  BY <1>2
<1> HIDE DEF holder, both
<1>4. \A m, n \in Pruned(p) : holder(m) = holder(n) => m = n
  <2> SUFFICES ASSUME NEW m \in Pruned(p), NEW n \in Pruned(p), holder(m) = holder(n)
               PROVE  m = n
    OBVIOUS
  <2>1. CASE holder(m)[2] = 0
    BY <1>3, <2>1
  <2>2. CASE holder(m)[2] # 0
    BY <1>3, <2>2
  <2> QED
    BY <2>1, <2>2
<1>5. f \in Injection(Pruned(p), both)
  BY <1>3, <1>4 DEF Injection, IsInjective
<1>6. IsFiniteSet(allowed) /\ IsFiniteSet(late)
  BY FS_Subset DEF AllowedIn, BlockInv, FiniteInv
<1> HIDE DEF allowed, late, f
<1>7. /\ IsFiniteSet(allowed \X {0}) /\ Cardinality(allowed \X {0}) = Cardinality(allowed)
      /\ IsFiniteSet(late \X {1}) /\ Cardinality(late \X {1}) = Cardinality(late)
  <2>1. ASSUME NEW S, IsFiniteSet(S), NEW k
        PROVE  IsFiniteSet(S \X {k}) /\ Cardinality(S \X {k}) = Cardinality(S)
    <3> DEFINE g == [x \in S |-> <<x, k>>]
    <3>1. g \in [S -> S \X {k}] /\ \A x \in S : g[x] = <<x, k>>
      OBVIOUS
    <3>2. \A t \in S \X {k} : t[1] \in S /\ t = <<t[1], k>>
      OBVIOUS
    <3> HIDE DEF g
    <3>3. \A x, y \in S : g[x] = g[y] => x = y
      BY <3>1
    <3>4. \A t \in S \X {k} : \E x \in S : g[x] = t
      BY <3>1, <3>2
    <3>5. g \in Injection(S, S \X {k})
      BY <3>1, <3>3 DEF Injection, IsInjective
    <3>6. g \in Surjection(S, S \X {k})
      BY <3>1, <3>4 DEF Surjection
    <3>7. ExistsBijection(S, S \X {k})
      BY <3>5, <3>6 DEF ExistsBijection, Bijection
    <3> QED
      BY <2>1, <3>7, FS_Bijection
  <2> QED
    BY <1>6, <2>1
<1>8. (allowed \X {0}) \cap (late \X {1}) = {}
  OBVIOUS
<1>9. IsFiniteSet(both) /\ Cardinality(both) = Cardinality(allowed) + Cardinality(late)
  BY <1>7, <1>8, TwoSets DEF both
<1>10. Cardinality(Pruned(p)) <= Cardinality(both)
  BY <1>5, <1>9, FS_Injection
<1>11. QED
  BY <1>9, <1>10 DEF allowed, late

\* What a process counts in its list it was allowed.
LEMMA ListFull ==
  ASSUME BlockInv, backend = "memory", NEW p \in Proc
  PROVE  Cardinality(Recent(p)) <= Cardinality(AllowedIn(p, Window + lag[p]))
<1> DEFINE allowed == AllowedIn(p, Window + lag[p])
           f == [a \in Recent(p) |-> [proc |-> p, age |-> a]]
<1>1. lag[p] \in Nat /\ Window \in Nat /\ bucket[p] \subseteq 0 .. Window
  BY WindowType DEF BlockInv, JustifiedInv, Types
<1>2. \A a \in Recent(p) : a < Window /\ [proc |-> p, age |-> a] \in admitted
  BY <1>1 DEF Recent, InWindow, BlockInv, ListJustified
<1>3. \A a \in Recent(p) : a \in Nat /\ a < Window + lag[p]
  <2> SUFFICES ASSUME NEW a \in Recent(p) PROVE a \in Nat /\ a < Window + lag[p]
    OBVIOUS
  <2>1. a \in 0 .. Window
    BY <1>1 DEF Recent
  <2>2. \A x, w, l \in Nat : x < w => x < w + l
    OBVIOUS
  <2>3. a \in Nat
    BY <1>1, <2>1
  <2>4. a < Window
    BY <1>2, Zenon
  <2> QED
    BY <1>1, <2>2, <2>3, <2>4
<1>4. f \in Injection(Recent(p), allowed)
  <2>1. \A a \in Recent(p) : f[a] \in allowed
    BY <1>2, <1>3 DEF AllowedIn
  <2>2. \A a, b \in Recent(p) : f[a] = f[b] => a = b
    <3> SUFFICES ASSUME NEW a \in Recent(p), NEW b \in Recent(p), f[a] = f[b]
                 PROVE  a = b
      OBVIOUS
    <3>1. f[a].age = a /\ f[b].age = b
      OBVIOUS
    <3> QED
      BY <3>1
  <2>3. f \in [Recent(p) -> allowed]
    BY <2>1
  <2> HIDE DEF f, allowed
  <2> QED
    BY <2>2, <2>3 DEF Injection, IsInjective
<1>5. IsFiniteSet(allowed)
  BY FS_Subset DEF AllowedIn, BlockInv, FiniteInv
<1>6. QED
  BY <1>4, <1>5, FS_Injection

\* A request is turned away only when the limit is used up by requests that were
\* allowed and, with Redis, by those that are being turned away (_check_redis and
\* _check_local), whatever calls raise and even when processes share an id.
THEOREM BlocksOnlyWhenFull ==
  Spec => BlockedOnlyWhenFull
<1>1. BlockInv /\ [Next]_vars =>
        [\A p \in Proc, t \in Tier :
           (Blocks(p, t) /\ (backend = "redis" => "crash" \notin seen)) =>
           Cardinality(AllowedIn(p, Window + lag[p]))
             + Cardinality({q \in Proc \ {p} : pc[q] = "over"}) >= Limit[t]]_vars
  <2> SUFFICES ASSUME BlockInv, NEW p \in Proc, NEW t \in Tier, Blocks(p, t),
                      backend = "redis" => "crash" \notin seen
               PROVE  Cardinality(AllowedIn(p, Window + lag[p]))
                        + Cardinality({q \in Proc \ {p} : pc[q] = "over"}) >= Limit[t]
    OBVIOUS
  <2>1. {q \in Proc \ {p} : pc[q] = "over"} = Over \ {p}
    BY DEF Over
  <2>2. Limit[t] \in Nat
    BY LimitType
  <2>3. /\ Cardinality(AllowedIn(p, Window + lag[p])) \in Nat
        /\ Cardinality(Over \ {p}) \in Nat
    BY FS_Subset, FS_CardinalityType DEF AllowedIn, BlockInv, FiniteInv
  <2>4. CASE Pipeline(p, t) /\ pc'[p] = "over"
    <3>1. pc[p] = "sent" /\ "crash" \notin seen
      BY <2>4 DEF Pipeline, BlockInv, JustifiedInv, NoSetInMemory
    <3>2. ~Room(Cardinality(Pruned(p)), t)
      BY <2>4, <3>1 DEF Pipeline, Idle, BlockInv, JustifiedInv, Types
    <3>3. Cardinality(Pruned(p)) \in Nat
      BY FS_Subset, FS_CardinalityType DEF Pruned, BlockInv, FiniteInv
    <3>4. Cardinality(Pruned(p)) <=
            Cardinality(AllowedIn(p, Window + lag[p])) + Cardinality(Over \ {p})
      BY <3>1, SetFull
    <3>5. Cardinality(Pruned(p)) >= Limit[t]
      BY <2>2, <3>2, <3>3 DEF Room
    <3>6. Cardinality(AllowedIn(p, Window + lag[p])) + Cardinality(Over \ {p}) >= Limit[t]
      BY <2>2, <2>3, <3>3, <3>4, <3>5
    <3> QED
      BY <2>1, <3>6
  <2>5. CASE CheckLocal(p, t) /\ UNCHANGED admitted
    <3>1. backend = "memory" /\ ~asked[p] /\ pc[p] = "idle" /\ lag[p] = 0
      BY <2>5 DEF CheckLocal, BlockInv, JustifiedInv, NoSetInMemory, LagInv
    <3>2. [proc |-> p, age |-> 0] \notin admitted
      BY <3>1 DEF BlockInv, ListJustified
    <3>3. ~Room(Cardinality(Recent(p)), t)
      BY <2>5, <3>1, <3>2 DEF CheckLocal, Allow
    <3>4. Cardinality(Recent(p)) \in Nat
      <4>1. IsFiniteSet(0 .. Window) /\ Recent(p) \subseteq 0 .. Window
        BY FS_Interval, WindowType DEF Recent, BlockInv, JustifiedInv, Types
      <4> QED
        BY <4>1, FS_Subset, FS_CardinalityType
    <3>5. Cardinality(Recent(p)) <= Cardinality(AllowedIn(p, Window + lag[p]))
      BY <3>1, ListFull
    <3>6. Cardinality(Recent(p)) >= Limit[t]
      BY <2>2, <3>3, <3>4 DEF Room
    <3>7. Cardinality(AllowedIn(p, Window + lag[p])) + Cardinality(Over \ {p}) >= Limit[t]
      BY <2>2, <2>3, <3>4, <3>5, <3>6
    <3> QED
      BY <2>1, <3>7
  <2> QED
    BY <2>4, <2>5 DEF Blocks
<1>2. QED
  BY <1>1, BlockInit, BlockStep, PTL DEF Spec, BlockedOnlyWhenFull
=============================================================================
