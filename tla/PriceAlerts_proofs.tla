--------------------------- MODULE PriceAlerts_proofs ---------------------------
(***************************************************************************)
(* Proofs about the price-watch workers, for any server processes, watches *)
(* and queries, any batch size and number of retries, and whatever fails   *)
(* (PriceAlerts).                                                          *)
(***************************************************************************)
EXTENDS PriceAlerts, WellFoundedInduction, TLAPS

Place  == {"none", "fetch", "update", "read", "notify", "done"}
Fields == {"state", "query", "offer", "lowest", "triggered"}

Shapes ==
  /\ DOMAIN row = Watch /\ \A w \in Watch : DOMAIN row[w] = Fields /\ row[w].query \in Query
  /\ DOMAIN phase = Proc
  /\ DOMAIN snap = Proc /\ \A p \in Proc : DOMAIN snap[p] \subseteq Watch
  /\ todo \in [Proc -> SUBSET Query]
  /\ at \in [Proc -> [Query -> Place]]
  /\ tries \in [Proc -> [Query -> Nat]]
  /\ left \in [Proc -> [Query -> SUBSET Watch]]
  /\ told \in [Proc -> [Watch -> Nat]]
  /\ updated \in [Proc -> SUBSET Watch]
  /\ skipped \in [Proc -> SUBSET Query]

Known(w)   == row[w].state # "absent"
Watches(q) == {w \in Watch : row[w].query = q}

\* What a worker still has to do about a watch, or has done.
Cared(p, w) ==
  \/ row[w].query \in todo[p] \/ at[p][row[w].query] = "fetch" \/ w \in left[p][row[w].query]
  \/ w \in updated[p] \/ row[w].query \in skipped[p]

\* A watch is in a cycle, and announced, when it is there; outside a cycle nothing is.
WorkerOK(p) ==
  /\ phase[p] # "cycle" => at[p] = NoTask /\ \A w \in Watch : told[p][w] = 0
  /\ \A w \in DOMAIN snap[p] : Known(w) /\ Cared(p, w)
  /\ \A w \in Watch : told[p][w] > 0 => Known(w)

\* A task has told of a watch at most once in each attempt before, and of one that it
\* does not have before it any more once in this one too.
Ahead(p, q, w) == at[p][q] = "fetch" \/ w \in left[p][q]
TaskOK(p, q) ==
  /\ \A w \in left[p][q] : row[w].query = q /\ Known(w)
  /\ at[p][q] \in {"none", "done"} => left[p][q] = {} \/ q \in skipped[p]
  /\ at[p][q] \in {"read", "notify"} => left[p][q] # {}
  /\ at[p][q] = "notify" => Current(p, q) \in updated[p]
  /\ q \in todo[p] => at[p][q] = "none" /\ \A w \in Watches(q) : told[p][w] = 0
  /\ \A w \in Watches(q) :
       /\ told[p][w] <= 1 + tries[p][q]
       /\ Ahead(p, q, w) => told[p][w] <= tries[p][q]

AlertInv ==
  /\ Shapes
  /\ \A p \in Proc : WorkerOK(p)
  /\ \A p \in Proc, q \in Query : TaskOK(p, q)

\* What an assignment to one entry of a variable keeps.
LEMMA OneEntry ==
  ASSUME NEW S, NEW f \in [Proc -> [Query -> S]], NEW p \in Proc, NEW q \in Query, NEW v \in S
  PROVE  [f EXCEPT ![p][q] = v] \in [Proc -> [Query -> S]]
OBVIOUS

LEMMA TaskMoves ==
  ASSUME AlertInv, NEW p \in Proc, NEW q \in Query, NEW place \in Place,
         at' = [at EXCEPT ![p][q] = place]
  PROVE  /\ at' \in [Proc -> [Query -> Place]] /\ at'[p][q] = place
         /\ \A r \in Query \ {q} : at'[p][r] = at[p][r]
<1>1. at \in [Proc -> [Query -> Place]]
  BY DEF AlertInv, Shapes
<1> QED
  BY <1>1, OneEntry

LEMMA OneMoreSkipped ==
  ASSUME AlertInv, NEW p \in Proc, NEW q \in Query, skipped' = [skipped EXCEPT ![p] = @ \cup {q}]
  PROVE  /\ skipped' \in [Proc -> SUBSET Query]
         /\ skipped[p] \subseteq skipped'[p] /\ q \in skipped'[p]
<1>1. skipped \in [Proc -> SUBSET Query]
  BY DEF AlertInv, Shapes
<1> QED
  BY <1>1

LEMMA OneMoreTry ==
  ASSUME AlertInv, NEW p \in Proc, NEW q \in Query, tries' = [tries EXCEPT ![p][q] = @ + 1]
  PROVE  /\ tries' \in [Proc -> [Query -> Nat]] /\ tries'[p][q] = tries[p][q] + 1
         /\ \A r \in Query \ {q} : tries'[p][r] = tries[p][r]
<1>1. tries \in [Proc -> [Query -> Nat]]
  BY DEF AlertInv, Shapes
<1>2. tries[p][q] + 1 \in Nat
  BY <1>1
<1> QED
  BY <1>1, <1>2, OneEntry

LEMMA OneLessLeft ==
  ASSUME AlertInv, NEW p \in Proc, NEW q \in Query, NEW c,
         left' = [left EXCEPT ![p][q] = @ \ {c}]
  PROVE  /\ left' \in [Proc -> [Query -> SUBSET Watch]] /\ left'[p][q] = left[p][q] \ {c}
         /\ \A r \in Query \ {q} : left'[p][r] = left[p][r]
<1>1. left \in [Proc -> [Query -> SUBSET Watch]]
  BY DEF AlertInv, Shapes
<1>2. left[p][q] \ {c} \in SUBSET Watch
  BY <1>1
<1> QED
  BY <1>1, <1>2, OneEntry

-----------------------------------------------------------------------------
\* A set of numbers that is not empty has a least one.
LEMMA LeastNumber ==
  ASSUME NEW L, L \subseteq Nat, L # {}
  PROVE  \E x \in L : \A y \in L : x <= y
<1>1. PICK x \in L : \A y \in L : ~ (<<y, x>> \in OpToRel(<, Nat))
  BY NatLessThanWellFounded, WFMin
<1>2. ASSUME NEW y \in L PROVE x <= y
  <2>1. x \in Nat /\ y \in Nat
    OBVIOUS
  <2>2. ~ (y < x)
    BY <1>1, <2>1 DEF OpToRel
  <2>3. \A a, b \in Nat : ~ (b < a) => a <= b
    OBVIOUS
  <2> QED
    BY <2>1, <2>2, <2>3
<1> QED
  BY <1>2

\* Of the watches a task has left there is a first.
LEMMA FirstIsLeft ==
  ASSUME AlertInv, NEW p \in Proc, NEW q \in Query, left[p][q] # {}
  PROVE  Current(p, q) \in left[p][q]
<1>1. left[p][q] \subseteq Watch /\ Watch \subseteq Nat
  BY WatchType DEF AlertInv, Shapes
<1>2. \E x \in left[p][q] : \A y \in left[p][q] : x <= y
  BY <1>1, LeastNumber
<1> QED
  BY <1>2 DEF Current

\* Queries are given once, and watches are not forgotten.
RowsStay ==
  /\ \A w \in Watch : row'[w].query = row[w].query
  /\ \A w \in Watch : Known(w) => Known(w)'

LEMMA TaskStays ==
  ASSUME AlertInv, RowsStay, NEW p \in Proc, NEW q \in Query,
         at'[p][q] = at[p][q], left'[p][q] = left[p][q], tries'[p][q] = tries[p][q],
         \A w \in Watches(q) : told'[p][w] = told[p][w],
         updated[p] \subseteq updated'[p], skipped[p] \subseteq skipped'[p],
         q \in todo'[p] => q \in todo[p]
  PROVE  TaskOK(p, q)'
<1>1. TaskOK(p, q) /\ left[p][q] \subseteq Watch
  BY DEF AlertInv, Shapes
<1>2. Current(p, q)' = Current(p, q)
  BY DEF Current
<1>3. Watches(q)' = Watches(q) /\ \A w \in Watches(q) : w \in Watch
  BY DEF RowsStay, Watches
<1>4. \A w \in left[p][q] : row'[w].query = q /\ Known(w)'
  BY <1>1 DEF TaskOK, RowsStay
<1>5. \A w \in Watch : Ahead(p, q, w)' <=> Ahead(p, q, w)
  BY DEF Ahead
<1> QED
  BY <1>1, <1>2, <1>3, <1>4, <1>5 DEF TaskOK

LEMMA WorkerStays ==
  ASSUME AlertInv, RowsStay, NEW p \in Proc, phase'[p] = phase[p], at'[p] = at[p], snap'[p] = snap[p],
         told'[p] = told[p], left'[p] = left[p], todo'[p] = todo[p],
         updated'[p] = updated[p], skipped'[p] = skipped[p]
  PROVE  WorkerOK(p)'
<1>1. WorkerOK(p) /\ DOMAIN snap[p] \subseteq Watch
  BY DEF AlertInv, Shapes
<1>2. \A w \in DOMAIN snap[p] : Cared(p, w)'
  BY <1>1 DEF WorkerOK, Cared, RowsStay
<1> QED
  BY <1>1, <1>2 DEF WorkerOK, RowsStay

\* The other processes of a step of p.
Others(p) ==
  \A s \in Proc \ {p} :
    /\ phase'[s] = phase[s] /\ snap'[s] = snap[s] /\ todo'[s] = todo[s] /\ at'[s] = at[s]
    /\ tries'[s] = tries[s] /\ left'[s] = left[s] /\ told'[s] = told[s]
    /\ updated'[s] = updated[s] /\ skipped'[s] = skipped[s]

LEMMA OneWorkerMoves ==
  ASSUME AlertInv, RowsStay, Shapes', NEW p \in Proc, Others(p),
         WorkerOK(p)', \A q \in Query : TaskOK(p, q)'
  PROVE  AlertInv'
<1>1. ASSUME NEW s \in Proc, s # p PROVE WorkerOK(s)' /\ \A q \in Query : TaskOK(s, q)'
  BY <1>1, WorkerStays, TaskStays DEF Others
<1> QED
  BY <1>1 DEF AlertInv

-----------------------------------------------------------------------------
LEMMA AlertStarts == Init => AlertInv
<1> SUFFICES ASSUME Init PROVE AlertInv
  OBVIOUS
<1>1. NoRow.query \in Query /\ DOMAIN NoRow = Fields
  BY QueryType DEF NoRow, Fields
<1>2. DOMAIN <<>> = {}
  OBVIOUS
<1>3. Shapes
  BY <1>1, <1>2 DEF Init, Shapes, NoTask, Place
<1>4. ASSUME NEW p \in Proc PROVE WorkerOK(p)
  BY <1>2 DEF Init, WorkerOK
<1>5. ASSUME NEW p \in Proc, NEW q \in Query PROVE TaskOK(p, q)
  BY DEF Init, TaskOK, NoTask, Watches, Ahead
<1> QED
  BY <1>3, <1>4, <1>5 DEF AlertInv

\* A new watch is in no cycle: no task has told of it.
LEMMA AlertCreate ==
  ASSUME AlertInv, NEW w \in Watch, NEW q \in Query, CreateWatch(w, q)
  PROVE  AlertInv'
<1>1. /\ row[w].state = "absent" /\ row' = [row EXCEPT ![w].state = "active", ![w].query = q]
      /\ UNCHANGED <<phase, snap, todo, at, tries, left, told, updated, skipped>>
  BY DEF CreateWatch, worker, history
<1>2. /\ DOMAIN row' = Watch /\ row'[w].query = q /\ row'[w].state = "active"
      /\ DOMAIN row'[w] = Fields /\ \A v \in Watch \ {w} : row'[v] = row[v]
  BY <1>1 DEF AlertInv, Shapes, Fields
<1>3. Shapes'
  BY <1>1, <1>2 DEF AlertInv, Shapes
<1>4. ASSUME NEW p \in Proc PROVE WorkerOK(p)'
  <2>1. WorkerOK(p) /\ w \notin DOMAIN snap[p] /\ DOMAIN snap[p] \subseteq Watch
    BY <1>1 DEF AlertInv, Shapes, WorkerOK, Known
  <2>2. \A v \in DOMAIN snap[p] : Known(v)' /\ Cared(p, v)'
    BY <1>1, <1>2, <2>1 DEF WorkerOK, Known, Cared
  <2>3. \A v \in Watch : Known(v) => Known(v)'
    BY <1>2 DEF Known
  <2> QED
    BY <1>1, <2>1, <2>2, <2>3 DEF WorkerOK
<1>5. ASSUME NEW p \in Proc, NEW r \in Query PROVE TaskOK(p, r)'
  <2>1. TaskOK(p, r) /\ WorkerOK(p) /\ told[p][w] \in Nat /\ tries[p][r] \in Nat /\ left[p][r] \subseteq Watch
    BY DEF AlertInv, Shapes
  <2>2. told[p][w] = 0 /\ w \notin left[p][r]
    BY <1>1, <2>1 DEF WorkerOK, TaskOK, Known
  <2>3. \A v \in left[p][r] : row'[v].query = r /\ Known(v)'
    BY <1>2, <2>1, <2>2 DEF TaskOK, Known
  <2>4. \A v \in Watches(r)' : v \in Watches(r) \/ v = w
    BY <1>2 DEF Watches
  <2>5. Current(p, r)' = Current(p, r)
    BY <1>1 DEF Current
  <2>6. \A v : Ahead(p, r, v)' <=> Ahead(p, r, v)
    BY <1>1 DEF Ahead
  <2>7. told[p][w] <= tries[p][r] /\ told[p][w] <= 1 + tries[p][r]
    BY <2>1, <2>2
  <2> QED
    BY <1>1, <2>1, <2>2, <2>3, <2>4, <2>5, <2>6, <2>7 DEF TaskOK
<1> QED
  BY <1>3, <1>4, <1>5 DEF AlertInv

LEMMA AlertDeactivate ==
  ASSUME AlertInv, NEW w \in Watch, DeactivateWatch(w)
  PROVE  AlertInv'
<1>1. /\ row' = [row EXCEPT ![w].state = "inactive"]
      /\ UNCHANGED <<phase, snap, todo, at, tries, left, told, updated, skipped>>
  BY DEF DeactivateWatch, worker, history
<1>2. /\ DOMAIN row' = Watch /\ \A v \in Watch : row'[v].query = row[v].query /\ DOMAIN row'[v] = Fields
      /\ row'[w].state = "inactive" /\ \A v \in Watch \ {w} : row'[v] = row[v]
  BY <1>1 DEF AlertInv, Shapes, Fields
<1>3. Shapes' /\ RowsStay
  BY <1>1, <1>2 DEF AlertInv, Shapes, RowsStay, Known
<1> QED
  BY <1>1, <1>3, WorkerStays, TaskStays DEF AlertInv

-----------------------------------------------------------------------------
(* The worker's loop. *)

\* Everything of a cycle is forgotten at its end.
LEMMA AlertForgets ==
  ASSUME AlertInv, NEW p \in Proc, NEW to \in {"off", "asleep"},
         phase' = [phase EXCEPT ![p] = to], Forget(p)
  PROVE  AlertInv'
<1> USE DEF AlertInv, Shapes
<1>1. DOMAIN <<>> = {}
  OBVIOUS
<1>2. /\ phase'[p] = to /\ snap'[p] = <<>> /\ at'[p] = NoTask /\ told'[p] = [w \in Watch |-> 0]
      /\ tries'[p] = [q \in Query |-> 0] /\ left'[p] = [q \in Query |-> {}] /\ todo'[p] = {}
  BY DEF Forget
<1>3. Others(p)
  BY DEF Forget, Others
<1>4. DOMAIN phase' = Proc /\ DOMAIN snap' = Proc /\ \A s \in Proc : DOMAIN snap'[s] \subseteq Watch
  BY <1>1, <1>2, <1>3 DEF Forget, Others
<1>5. /\ row' = row /\ todo' \in [Proc -> SUBSET Query] /\ at' \in [Proc -> [Query -> Place]]
      /\ tries' \in [Proc -> [Query -> Nat]] /\ left' \in [Proc -> [Query -> SUBSET Watch]]
  BY DEF Forget, NoTask, Place
<1>6. /\ told' \in [Proc -> [Watch -> Nat]]
      /\ updated' \in [Proc -> SUBSET Watch] /\ skipped' \in [Proc -> SUBSET Query]
  BY DEF Forget
<1>7. Shapes' /\ RowsStay
  BY <1>4, <1>5, <1>6 DEF RowsStay, Known
<1> USE DEF NoTask
<1>8. WorkerOK(p)'
  BY <1>1, <1>2 DEF WorkerOK
<1>9. \A q \in Query : TaskOK(p, q)'
  BY <1>2 DEF TaskOK, Watches, Ahead
<1> HIDE DEF AlertInv, Shapes
<1> QED
  BY <1>3, <1>7, <1>8, <1>9, OneWorkerMoves

LEMMA AlertBegins ==
  ASSUME AlertInv, NEW p \in Proc, BeginCycle(p)
  PROVE  AlertInv'
<1> USE DEF AlertInv, Shapes
<1>1. /\ phase[p] = "asleep" /\ phase' = [phase EXCEPT ![p] = "cycle"]
      /\ snap' = [snap EXCEPT ![p] = [w \in Active |-> row[w].offer]]
      /\ todo' = [todo EXCEPT ![p] = {row[w].query : w \in Active}]
      /\ UNCHANGED <<row, at, tries, left, told, updated, skipped>>
  BY DEF BeginCycle, history
<1>2. Active \subseteq Watch /\ \A w \in Active : Known(w) /\ row[w].query \in Query
  BY DEF Active, Known
<1>3. DOMAIN snap'[p] = Active /\ todo'[p] = {row[w].query : w \in Active} /\ phase'[p] = "cycle"
  BY <1>1
<1>4. Others(p)
  BY <1>1 DEF Others
<1>5. Shapes' /\ RowsStay
  <2>1. todo' \in [Proc -> SUBSET Query]
    BY <1>1, <1>2
  <2>2. DOMAIN snap' = Proc /\ \A s \in Proc : DOMAIN snap'[s] \subseteq Watch
    BY <1>1, <1>2, <1>3
  <2> QED
    BY <1>1, <2>1, <2>2 DEF RowsStay, Known
<1>6. at[p] = NoTask /\ \A w \in Watch : told[p][w] = 0
  BY <1>1 DEF WorkerOK
<1>7. WorkerOK(p)'
  BY <1>1, <1>2, <1>3, <1>6 DEF WorkerOK, Known, Cared
<1>8. ASSUME NEW q \in Query PROVE TaskOK(p, q)'
  <2>1. TaskOK(p, q) /\ at[p][q] = "none"
    BY <1>6 DEF NoTask
  <2>2. Current(p, q)' = Current(p, q) /\ Watches(q)' = Watches(q) /\ Watches(q) \subseteq Watch
    BY <1>1 DEF Current, Watches
  <2>3. \A w \in left[p][q] : Known(w)' <=> Known(w)
    BY <1>1 DEF Known
  <2>4. \A w \in Watch : Ahead(p, q, w)' <=> Ahead(p, q, w)
    BY <1>1 DEF Ahead
  <2> HIDE DEF AlertInv, Shapes
  <2> QED
    BY <1>1, <1>6, <2>1, <2>2, <2>3, <2>4 DEF TaskOK
<1> HIDE DEF AlertInv, Shapes
<1> QED
  BY <1>4, <1>5, <1>7, <1>8, OneWorkerMoves

LEMMA AlertBatches ==
  ASSUME AlertInv, NEW p \in Proc, NextBatch(p)
  PROVE  AlertInv'
<1> USE DEF AlertInv, Shapes
<1>1. BatchDone(p) /\ UNCHANGED <<row, phase, snap, tries, left, told, updated, skipped>>
  BY DEF NextBatch, history
<1> PICK B \in Batch(p) :
      /\ todo' = [todo EXCEPT ![p] = Remaining(p, B)]
      /\ at' = [at EXCEPT ![p] = [q \in Query |-> IF q \in B THEN "fetch" ELSE "none"]]
  BY DEF NextBatch
<1>2. B \subseteq todo[p] /\ todo[p] \subseteq Query
  BY DEF Batch
<1>3. todo'[p] = todo[p] \ B /\ \A q \in Query : at'[p][q] = IF q \in B THEN "fetch" ELSE "none"
  BY DEF Remaining
<1>4. Others(p)
  BY <1>1 DEF Others
<1>5. todo' \in [Proc -> SUBSET Query] /\ at' \in [Proc -> [Query -> Place]]
  BY <1>2 DEF Remaining, Place
<1>6. Shapes' /\ RowsStay
  BY <1>1, <1>5 DEF RowsStay, Known
<1>7. WorkerOK(p)'
  <2>1. WorkerOK(p) /\ phase[p] = "cycle"
    BY DEF NextBatch
  <2>2. \A w \in DOMAIN snap[p] : Cared(p, w)'
    <3> SUFFICES ASSUME NEW w \in DOMAIN snap[p] PROVE Cared(p, w)'
      OBVIOUS
    <3>1. Cared(p, w) /\ row[w].query \in Query /\ at[p][row[w].query] # "fetch"
      BY <1>1, <2>1 DEF WorkerOK, BatchDone
    <3>2. row[w].query \in todo[p] => row[w].query \in todo'[p] \/ at'[p][row[w].query] = "fetch"
      BY <1>2, <1>3
    <3> HIDE DEF AlertInv, Shapes
    <3> QED
      BY <1>1, <3>1, <3>2 DEF Cared
  <2> HIDE DEF AlertInv, Shapes
  <2> QED
    BY <1>1, <2>1, <2>2 DEF WorkerOK, Known
<1>8. ASSUME NEW q \in Query PROVE TaskOK(p, q)'
  <2>1. TaskOK(p, q) /\ at[p][q] \in {"none", "done"} /\ tries[p][q] \in Nat /\ left[p][q] \subseteq Watch
    BY <1>1 DEF BatchDone
  <2>2. Watches(q)' = Watches(q) /\ Watches(q) \subseteq Watch
    BY <1>1 DEF Watches
  <2>3. \A w \in left[p][q] : Known(w)' <=> Known(w)
    BY <1>1 DEF Known
  <2>4. CASE q \in B
    <3>1. at'[p][q] = "fetch" /\ q \in todo[p] /\ q \notin todo'[p]
      BY <1>2, <1>3, <2>4
    <3>2. \A w \in Watches(q) : told[p][w] = 0
      BY <2>1, <3>1 DEF TaskOK
    <3> HIDE DEF AlertInv, Shapes
    <3> QED
      BY <1>1, <2>1, <2>2, <2>3, <3>1, <3>2 DEF TaskOK
  <2>5. CASE q \notin B
    <3>1. at'[p][q] = "none" /\ (q \in todo'[p] => q \in todo[p])
      BY <1>3, <2>5
    <3>2. \A w \in Watch : Ahead(p, q, w)' <=> Ahead(p, q, w)
      BY <1>1, <2>1, <3>1 DEF Ahead
    <3> HIDE DEF AlertInv, Shapes
    <3> QED
      BY <1>1, <2>1, <2>2, <2>3, <3>1, <3>2 DEF TaskOK
  <2> QED
    BY <2>4, <2>5
<1> HIDE DEF AlertInv, Shapes
<1> QED
  BY <1>4, <1>6, <1>7, <1>8, OneWorkerMoves

-----------------------------------------------------------------------------
(* One task of a batch. *)

\* A step of task q of worker p: the other tasks of the worker are where they were.
LEMMA OneTaskMoves ==
  ASSUME AlertInv, NEW p \in Proc, NEW q \in Query,
         RowsStay, Shapes', Others(p), phase[p] = "cycle",
         UNCHANGED <<phase, snap, todo>>,
         updated[p] \subseteq updated'[p], skipped[p] \subseteq skipped'[p],
         \A r \in Query \ {q} : at'[p][r] = at[p][r] /\ left'[p][r] = left[p][r] /\ tries'[p][r] = tries[p][r],
         \A w \in Watch : told'[p][w] # told[p][w] => w \in Watches(q) /\ Known(w),
         \A w \in Watches(q) : w \in DOMAIN snap[p] /\ (at[p][q] = "fetch" \/ w \in left[p][q]) =>
           at'[p][q] = "fetch" \/ w \in left'[p][q] \/ w \in updated'[p] \/ q \in skipped'[p],
         TaskOK(p, q)'
  PROVE  AlertInv'
<1>1. ASSUME NEW r \in Query, r # q PROVE TaskOK(p, r)'
  <2>1. \A w \in Watches(r) : told'[p][w] = told[p][w]
    BY <1>1 DEF Watches
  <2> QED
    BY <1>1, <2>1, TaskStays
<1>2. WorkerOK(p) /\ DOMAIN snap[p] \subseteq Watch /\ told[p] \in [Watch -> Nat]
      /\ \A w \in Watch : row[w].query \in Query
  BY DEF AlertInv, Shapes
<1>3. \A w \in Watch : told'[p][w] > 0 => Known(w)'
  BY <1>2 DEF WorkerOK, RowsStay
<1>4. ASSUME NEW w \in DOMAIN snap[p] PROVE Known(w)' /\ Cared(p, w)'
  <2>1. Known(w)' /\ Cared(p, w) /\ w \in Watch /\ row'[w].query = row[w].query /\ row[w].query \in Query
    BY <1>2 DEF WorkerOK, RowsStay
  <2>2. CASE row[w].query = q
    BY <2>1, <2>2 DEF Cared, Watches
  <2>3. CASE row[w].query # q
    BY <2>1, <2>3 DEF Cared
  <2> QED
    BY <2>1, <2>2, <2>3
<1>5. WorkerOK(p)'
  BY <1>3, <1>4 DEF WorkerOK
<1> QED
  BY <1>1, <1>5, OneWorkerMoves

\* A task runs in a cycle only.
LEMMA TaskRuns ==
  ASSUME AlertInv, NEW p \in Proc, NEW q \in Query, at[p][q] # "none"
  PROVE  phase[p] = "cycle"
BY DEF AlertInv, WorkerOK, NoTask

LEMMA AlertFetches ==
  ASSUME AlertInv, NEW p \in Proc, NEW q \in Query, Fetch(p, q)
  PROVE  AlertInv'
<1> USE DEF AlertInv, Shapes
<1>1. /\ at[p][q] = "fetch" /\ left' = [left EXCEPT ![p][q] = Group(p, q)]
      /\ UNCHANGED <<row, phase, snap, todo, tries, told, updated>>
  BY DEF Fetch
<1>2. \/ at' = [at EXCEPT ![p][q] = "done"] /\ skipped' = [skipped EXCEPT ![p] = @ \cup {q}]
      \/ at' = [at EXCEPT ![p][q] = "update"] /\ UNCHANGED skipped
  BY DEF Fetch, Goes
<1>3. Group(p, q) \subseteq Watch /\ \A w \in Group(p, q) : w \in DOMAIN snap[p] /\ row[w].query = q
  BY DEF Group
<1>4. /\ left' \in [Proc -> [Query -> SUBSET Watch]] /\ at' \in [Proc -> [Query -> Place]]
      /\ skipped' \in [Proc -> SUBSET Query]
  <2>1. left' \in [Proc -> [Query -> SUBSET Watch]]
    BY <1>1, <1>3
  <2>2. at' \in [Proc -> [Query -> Place]]
    <3> HIDE DEF AlertInv, Shapes
    <3> QED
      BY <1>2, TaskMoves DEF Place
  <2>3. skipped \in [Proc -> SUBSET Query]
    OBVIOUS
  <2>4. skipped' \in [Proc -> SUBSET Query]
    <3> HIDE DEF AlertInv, Shapes
    <3> QED
      BY <1>2, <2>3, OneMoreSkipped
  <2> QED
    BY <2>1, <2>2, <2>4
<1>5. Shapes' /\ RowsStay
  BY <1>1, <1>4 DEF RowsStay, Known
<1>6. Others(p)
  BY <1>1, <1>2 DEF Others
<1>7. /\ left'[p][q] = Group(p, q) /\ skipped[p] \subseteq skipped'[p]
      /\ at'[p][q] = "update" \/ (at'[p][q] = "done" /\ q \in skipped'[p])
      /\ \A r \in Query \ {q} : at'[p][r] = at[p][r] /\ left'[p][r] = left[p][r] /\ tries'[p][r] = tries[p][r]
  BY <1>1, <1>2
<1>8. TaskOK(p, q)'
  <2>1. TaskOK(p, q) /\ tries[p][q] \in Nat /\ \A w \in Watch : told[p][w] \in Nat
    OBVIOUS
  <2>2. \A w \in Group(p, q) : Known(w)' /\ row'[w].query = q
    BY <1>1, <1>3 DEF WorkerOK, Known
  <2>3. Watches(q)' = Watches(q) /\ q \notin todo'[p]
    BY <1>1, <2>1 DEF Watches, TaskOK
  <2>4. \A w \in Watches(q) : told'[p][w] <= tries'[p][q] /\ told'[p][w] <= 1 + tries'[p][q]
    BY <1>1, <2>1 DEF TaskOK, Ahead, Watches
  <2> HIDE DEF AlertInv, Shapes
  <2> QED
    BY <1>7, <2>2, <2>3, <2>4 DEF TaskOK
<1>9. \A w \in Watches(q) : w \in DOMAIN snap[p] => w \in left'[p][q]
  BY <1>7 DEF Watches, Group
<1> HIDE DEF AlertInv, Shapes
<1> QED
  BY <1>1, <1>5, <1>6, <1>7, <1>8, <1>9, OneTaskMoves, TaskRuns

\* A group that is tried again, or given up.
LEMMA AlertRaises ==
  ASSUME AlertInv, NEW p \in Proc, NEW q \in Query, Raises(p, q)
  PROVE  AlertInv'
<1> USE DEF AlertInv, Shapes
<1>1. /\ at[p][q] \in {"fetch", "update", "read"} /\ left' = [left EXCEPT ![p][q] = {}]
      /\ UNCHANGED <<row, phase, snap, todo, told, updated>>
  BY DEF Raises
<1>2. \/ /\ at' = [at EXCEPT ![p][q] = "fetch"] /\ tries' = [tries EXCEPT ![p][q] = @ + 1] /\ UNCHANGED skipped
      \/ /\ at' = [at EXCEPT ![p][q] = "done"] /\ skipped' = [skipped EXCEPT ![p] = @ \cup {q}]
         /\ UNCHANGED tries
  BY DEF Raises, Goes
<1>3. /\ left' \in [Proc -> [Query -> SUBSET Watch]] /\ at' \in [Proc -> [Query -> Place]]
      /\ skipped' \in [Proc -> SUBSET Query] /\ tries' \in [Proc -> [Query -> Nat]]
  <2>1. left' \in [Proc -> [Query -> SUBSET Watch]]
    BY <1>1
  <2>2. skipped \in [Proc -> SUBSET Query] /\ tries \in [Proc -> [Query -> Nat]]
    OBVIOUS
  <2> HIDE DEF AlertInv, Shapes
  <2>3. at' \in [Proc -> [Query -> Place]]
    BY <1>2, TaskMoves DEF Place
  <2>4. skipped' \in [Proc -> SUBSET Query]
    BY <1>2, <2>2, OneMoreSkipped
  <2>5. tries' \in [Proc -> [Query -> Nat]]
    BY <1>2, <2>2, OneMoreTry
  <2> QED
    BY <2>1, <2>3, <2>4, <2>5
<1>4. Shapes' /\ RowsStay
  BY <1>1, <1>3 DEF RowsStay, Known
<1>5. Others(p)
  BY <1>1, <1>2 DEF Others
<1>6. /\ left'[p][q] = {} /\ skipped[p] \subseteq skipped'[p]
      /\ \/ at'[p][q] = "fetch" /\ tries'[p][q] = tries[p][q] + 1
         \/ at'[p][q] = "done" /\ q \in skipped'[p] /\ tries'[p][q] = tries[p][q]
      /\ \A r \in Query \ {q} : at'[p][r] = at[p][r] /\ left'[p][r] = left[p][r] /\ tries'[p][r] = tries[p][r]
  BY <1>1, <1>2
<1>7. TaskOK(p, q)'
  <2>1. TaskOK(p, q) /\ tries[p][q] \in Nat /\ \A w \in Watch : told[p][w] \in Nat
    OBVIOUS
  <2>2. Watches(q)' = Watches(q) /\ q \notin todo'[p] /\ Watches(q) \subseteq Watch
    BY <1>1, <2>1 DEF Watches, TaskOK
  <2>3. \A w \in Watches(q) : told[p][w] <= 1 + tries[p][q]
    BY <2>1 DEF TaskOK
  <2> HIDE DEF AlertInv, Shapes
  <2>4. \A w \in Watches(q) : /\ told'[p][w] <= 1 + tries'[p][q]
                              /\ at'[p][q] = "fetch" => told'[p][w] <= tries'[p][q]
    BY <1>1, <1>6, <2>1, <2>2, <2>3
  <2>5. \A w : Ahead(p, q, w)' => at'[p][q] = "fetch"
    BY <1>6 DEF Ahead
  <2>6. \A w \in Watches(q)' : /\ told'[p][w] <= 1 + tries'[p][q]
                               /\ Ahead(p, q, w)' => told'[p][w] <= tries'[p][q]
    BY <2>2, <2>4, <2>5
  <2>7. at'[p][q] \in {"fetch", "done"} /\ (at'[p][q] = "done" => q \in skipped'[p])
    BY <1>6
  <2>8. \A w \in left'[p][q] : row'[w].query = q /\ Known(w)'
    BY <1>6
  <2> QED
    BY <1>6, <2>2, <2>6, <2>7, <2>8 DEF TaskOK
<1> HIDE DEF AlertInv, Shapes
<1> QED
  BY <1>1, <1>4, <1>5, <1>6, <1>7, OneTaskMoves, TaskRuns

\* The steps of update_price and of the alert move the task, perhaps past its first watch.
LEMMA AlertReads ==
  ASSUME AlertInv, NEW p \in Proc, NEW q \in Query, ReadRow(p, q) \/ Succeeds(p, q)
  PROVE  AlertInv'
<1> USE DEF AlertInv, Shapes
<1>1. /\ at[p][q] = "update" /\ UNCHANGED <<row, phase, snap, todo, tries, left, told, updated, skipped>>
      /\ \/ at' = [at EXCEPT ![p][q] = "read"] /\ left[p][q] # {}
         \/ at' = [at EXCEPT ![p][q] = "done"] /\ left[p][q] = {}
  BY DEF ReadRow, Succeeds, Goes, history
<1>2. at' \in [Proc -> [Query -> Place]]
  <2> HIDE DEF AlertInv, Shapes
  <2> QED
    BY <1>1, TaskMoves DEF Place
<1>3. Shapes' /\ RowsStay
  BY <1>1, <1>2 DEF RowsStay, Known
<1>4. Others(p)
  BY <1>1 DEF Others
<1>5. /\ \/ at'[p][q] = "read" /\ left[p][q] # {}
         \/ at'[p][q] = "done" /\ left[p][q] = {}
      /\ \A r \in Query \ {q} : at'[p][r] = at[p][r]
  BY <1>1
<1>6. TaskOK(p, q)'
  <2>1. TaskOK(p, q)
    OBVIOUS
  <2>2. Watches(q)' = Watches(q) /\ q \notin todo'[p]
    BY <1>1, <2>1 DEF Watches, TaskOK
  <2>3. \A w : Ahead(p, q, w)' => Ahead(p, q, w)
    BY <1>1, <1>5 DEF Ahead
  <2>4. \A w \in left[p][q] : Known(w)' <=> Known(w)
    BY <1>1 DEF Known
  <2> HIDE DEF AlertInv, Shapes
  <2> QED
    BY <1>1, <1>5, <2>1, <2>2, <2>3, <2>4 DEF TaskOK
<1>7. at[p][q] # "fetch" /\ left' = left
  BY <1>1
<1> HIDE DEF AlertInv, Shapes
<1> QED
  BY <1>1, <1>3, <1>4, <1>5, <1>6, <1>7, OneTaskMoves, TaskRuns

\* The watch whose row is written is updated, and stays first while it is announced.
LEMMA AlertWrites ==
  ASSUME AlertInv, NEW p \in Proc, NEW q \in Query, WriteRow(p, q)
  PROVE  AlertInv'
<1> DEFINE c == Current(p, q)
           o == offer[p][q]
<1> USE DEF AlertInv, Shapes
<1>1. /\ at[p][q] = "read" /\ updated' = [updated EXCEPT ![p] = @ \cup {c}]
      /\ row' = [row EXCEPT ![c].offer = o, ![c].lowest = Lower(o, low[p]), ![c].triggered = Triggers(c, o)]
      /\ UNCHANGED <<phase, snap, todo, tries, told, skipped>>
      /\ \/ at' = [at EXCEPT ![p][q] = "notify"] /\ UNCHANGED left
         \/ at' = [at EXCEPT ![p][q] = "update"] /\ left' = [left EXCEPT ![p][q] = @ \ {c}]
  BY DEF WriteRow, Goes, Rest
<1>2. TaskOK(p, q) /\ left[p][q] \subseteq Watch
  OBVIOUS
<1>3. c \in left[p][q] /\ c \in Watch
  <2> HIDE DEF AlertInv, Shapes
  <2> QED
    BY <1>1, <1>2, FirstIsLeft DEF TaskOK
<1> HIDE DEF c
<1>4. /\ DOMAIN row' = Watch
      /\ \A w \in Watch : /\ DOMAIN row'[w] = Fields
                          /\ row'[w].query = row[w].query /\ row'[w].state = row[w].state
  BY <1>1, <1>3 DEF Fields
<1>5. at' \in [Proc -> [Query -> Place]]
  <2> HIDE DEF AlertInv, Shapes
  <2> QED
    BY <1>1, TaskMoves DEF Place
<1>6. left' \in [Proc -> [Query -> SUBSET Watch]]
  <2>1. left \in [Proc -> [Query -> SUBSET Watch]]
    OBVIOUS
  <2> HIDE DEF AlertInv, Shapes
  <2>2. CASE left' = [left EXCEPT ![p][q] = @ \ {c}]
    BY <2>2, OneLessLeft
  <2> QED
    BY <1>1, <2>1, <2>2
<1>7. updated' \in [Proc -> SUBSET Watch]
  BY <1>1, <1>3
<1>8. Shapes' /\ RowsStay
  BY <1>1, <1>4, <1>5, <1>6, <1>7 DEF RowsStay, Known
<1>9. Others(p)
  BY <1>1 DEF Others
<1>10. /\ c \in updated'[p] /\ updated[p] \subseteq updated'[p]
       /\ \/ at'[p][q] = "notify" /\ left'[p][q] = left[p][q]
          \/ at'[p][q] = "update" /\ left'[p][q] = left[p][q] \ {c}
       /\ \A r \in Query \ {q} : at'[p][r] = at[p][r] /\ left'[p][r] = left[p][r]
  BY <1>1
<1>11. TaskOK(p, q)'
  <2>1. Watches(q)' = Watches(q) /\ q \notin todo'[p]
    BY <1>1, <1>2, <1>4 DEF Watches, TaskOK
  <2>2. \A w : Ahead(p, q, w)' => Ahead(p, q, w)
    BY <1>10 DEF Ahead
  <2>3. \A w \in left[p][q] : row'[w].query = row[w].query /\ (Known(w)' <=> Known(w))
    BY <1>2, <1>4 DEF Known
  <2>4. left'[p][q] = left[p][q] => Current(p, q)' = c
    BY DEF Current, c
  <2>5. left'[p][q] \subseteq left[p][q]
    BY <1>10
  <2> HIDE DEF AlertInv, Shapes
  <2> QED
    BY <1>1, <1>2, <1>3, <1>10, <2>1, <2>2, <2>3, <2>4, <2>5 DEF TaskOK
<1>12. \A w \in left[p][q] : w \in left'[p][q] \/ w \in updated'[p]
  BY <1>10
<1> HIDE DEF AlertInv, Shapes
<1> QED
  BY <1>1, <1>8, <1>9, <1>10, <1>11, <1>12, OneTaskMoves, TaskRuns

\* The watch that is announced is not before the task any more.
LEMMA AlertNotifies ==
  ASSUME AlertInv, NEW p \in Proc, NEW q \in Query, Notify(p, q)
  PROVE  AlertInv'
<1> DEFINE c == Current(p, q)
<1> USE DEF AlertInv, Shapes
<1>1. /\ at[p][q] = "notify" /\ at' = [at EXCEPT ![p][q] = "update"]
      /\ left' = [left EXCEPT ![p][q] = @ \ {c}]
      /\ told' = [told EXCEPT ![p][c] = IF @ = MaxRetries + 2 THEN @ ELSE @ + 1]
      /\ UNCHANGED <<row, phase, snap, todo, tries, updated, skipped>>
  BY DEF Notify, Goes, AfterAlert, Rest
<1>2. TaskOK(p, q) /\ left[p][q] \subseteq Watch
  OBVIOUS
<1>3. c \in left[p][q] /\ c \in Watch
  <2> HIDE DEF AlertInv, Shapes
  <2> QED
    BY <1>1, <1>2, FirstIsLeft DEF TaskOK
<1>4. c \in updated[p] /\ row[c].query = q /\ Known(c)
  BY <1>1, <1>2, <1>3 DEF TaskOK
<1> HIDE DEF c
<1>5. at' \in [Proc -> [Query -> Place]]
  <2> HIDE DEF AlertInv, Shapes
  <2> QED
    BY <1>1, TaskMoves DEF Place
<1>6. left' \in [Proc -> [Query -> SUBSET Watch]]
  BY <1>1
<1>7. told' \in [Proc -> [Watch -> Nat]]
  BY <1>1, <1>3
<1>8. Shapes' /\ RowsStay
  BY <1>1, <1>5, <1>6, <1>7 DEF RowsStay, Known
<1>9. Others(p)
  BY <1>1 DEF Others
<1>10. /\ at'[p][q] = "update" /\ left'[p][q] = left[p][q] \ {c}
       /\ \A r \in Query \ {q} : at'[p][r] = at[p][r] /\ left'[p][r] = left[p][r]
  BY <1>1
<1>11. \A w \in Watch : IF w = c THEN told'[p][w] \in Nat /\ told'[p][w] <= told[p][w] + 1
                                  ELSE told'[p][w] = told[p][w]
  BY <1>1, <1>3
<1>12. TaskOK(p, q)'
  <2>1. Watches(q)' = Watches(q) /\ q \notin todo'[p] /\ Watches(q) \subseteq Watch
    BY <1>1, <1>2 DEF Watches, TaskOK
  <2>2. tries[p][q] \in Nat /\ told[p][c] \in Nat /\ tries' = tries
    BY <1>1, <1>3
  <2>3. told[p][c] <= tries[p][q]
    BY <1>2, <1>3, <1>4 DEF TaskOK, Watches, Ahead
  <2>4. told'[p][c] <= 1 + tries[p][q]
    BY <1>3, <1>11, <2>2, <2>3
  <2>5. \A w : Ahead(p, q, w)' => Ahead(p, q, w) /\ w # c
    BY <1>1, <1>10 DEF Ahead
  <2>6. \A w \in left[p][q] : row'[w].query = row[w].query /\ (Known(w)' <=> Known(w))
    BY <1>1 DEF Known
  <2>7. \A w \in Watches(q) : /\ told'[p][w] <= 1 + tries[p][q]
                              /\ Ahead(p, q, w)' => told'[p][w] <= tries[p][q]
    BY <1>2, <1>11, <2>1, <2>4, <2>5 DEF TaskOK
  <2> HIDE DEF AlertInv, Shapes
  <2>8. \A w \in Watches(q)' : /\ told'[p][w] <= 1 + tries'[p][q]
                               /\ Ahead(p, q, w)' => told'[p][w] <= tries'[p][q]
    BY <2>1, <2>2, <2>7
  <2>9. \A w \in left'[p][q] : row'[w].query = q /\ Known(w)'
    BY <1>2, <1>10, <2>6 DEF TaskOK
  <2>10. at'[p][q] = "update" /\ q \notin todo'[p]
    BY <1>10, <2>1
  <2> QED
    BY <2>8, <2>9, <2>10 DEF TaskOK
<1>13. \A w \in left[p][q] : w \in left'[p][q] \/ w \in updated'[p]
  BY <1>1, <1>4, <1>10
<1>14. \A w \in Watch : told'[p][w] # told[p][w] => w \in Watches(q) /\ Known(w)
  BY <1>3, <1>4, <1>11 DEF Watches
<1> HIDE DEF AlertInv, Shapes
<1> QED
  BY <1>1, <1>8, <1>9, <1>10, <1>12, <1>13, <1>14, OneTaskMoves, TaskRuns

LEMMA AlertSteps == AlertInv /\ [Next]_vars => AlertInv'
<1> SUFFICES ASSUME AlertInv, [Next]_vars PROVE AlertInv'
  OBVIOUS
<1>1. ASSUME NEW w \in Watch, DeactivateWatch(w) \/ \E q \in Query : CreateWatch(w, q) PROVE AlertInv'
  BY <1>1, AlertCreate, AlertDeactivate
<1>2. CASE UNCHANGED <<row, phase, worker, history>>
  <2>1. UNCHANGED <<row, phase, snap, todo, at, tries, left, told, updated, skipped>>
    BY <1>2 DEF worker, history
  <2>2. Shapes' /\ RowsStay
    BY <2>1 DEF AlertInv, Shapes, RowsStay, Known
  <2> QED
    BY <2>1, <2>2, WorkerStays, TaskStays DEF AlertInv
<1>3. ASSUME NEW p \in Proc, Start(p) PROVE AlertInv'
  <2>1. /\ UNCHANGED <<row, snap, todo, at, tries, left, told, updated, skipped>>
        /\ phase[p] = "off" /\ phase' = [phase EXCEPT ![p] = "asleep"]
    BY <1>3 DEF Start, worker, history
  <2>2. Shapes' /\ RowsStay /\ Others(p)
    BY <2>1 DEF AlertInv, Shapes, RowsStay, Known, Others
  <2>3. WorkerOK(p)'
    BY <2>1 DEF AlertInv, Shapes, WorkerOK, Known, Cared
  <2> QED
    BY <2>1, <2>2, <2>3, OneWorkerMoves, TaskStays
<1>4. ASSUME NEW p \in Proc, Stop(p) \/ Crash(p) \/ EndCycle(p) PROVE AlertInv'
  BY <1>4, AlertForgets DEF Stop, Crash, EndCycle
<1>5. ASSUME NEW p \in Proc, BeginCycle(p) \/ NextBatch(p) PROVE AlertInv'
  BY <1>5, AlertBegins, AlertBatches
<1>6. ASSUME NEW p \in Proc, NEW q \in Query, CheckQuery(p, q) \/ Raises(p, q) PROVE AlertInv'
  BY <1>6, AlertFetches, AlertRaises, AlertReads, AlertWrites, AlertNotifies DEF CheckQuery
<1>7. CASE UNCHANGED vars
  BY <1>2, <1>7 DEF vars
<1> QED
  BY <1>1, <1>2, <1>3, <1>4, <1>5, <1>6, <1>7 DEF Next, CheckCycle, StoresChange

\* A watch is announced at most once in a cycle, and once more for each time its group
\* was tried again (_check_query), for any processes, watches, queries and retries.
THEOREM AlertedOnceAnAttempt == Spec => []OneAlertPerAttempt
<1>1. AlertInv => OneAlertPerAttempt
  BY DEF AlertInv, Shapes, TaskOK, Watches, OneAlertPerAttempt
<1> QED
  BY <1>1, AlertStarts, AlertSteps, PTL DEF Spec

\* When a cycle ends, every watch that was active when it began has been updated, or its
\* query had no offer or was given up (_check_cycle), for any size of the batches and
\* whatever watches are created and removed meanwhile.
THEOREM EveryWatchIsChecked == Spec => EveryWatchChecked
<1> DEFINE Checked == \A p \in Proc : EndCycle(p) =>
                        \A w \in DOMAIN snap[p] : w \in updated[p] \/ row[w].query \in skipped[p]
<1>1. AlertInv => Checked
  <2> SUFFICES ASSUME AlertInv, NEW p \in Proc, EndCycle(p), NEW w \in DOMAIN snap[p]
               PROVE  w \in updated[p] \/ row[w].query \in skipped[p]
    OBVIOUS
  <2>1. Cared(p, w) /\ row[w].query \in Query
    BY DEF AlertInv, Shapes, WorkerOK
  <2>2. row[w].query \notin todo[p] /\ at[p][row[w].query] \in {"none", "done"}
    BY <2>1 DEF EndCycle, BatchDone
  <2>3. left[p][row[w].query] = {} \/ row[w].query \in skipped[p]
    BY <2>1, <2>2 DEF AlertInv, TaskOK
  <2> QED
    BY <2>1, <2>2, <2>3 DEF Cared
<1>2. AlertInv /\ [Next]_vars => [Checked]_vars
  BY <1>1
<1> QED
  BY <1>2, AlertStarts, AlertSteps, PTL DEF Spec, EveryWatchChecked
=============================================================================
