----------------------------- MODULE PriceAlerts -----------------------------
(***************************************************************************)
(* Price watches (shopsage/monetise/deal_alerts.py), the tools that create *)
(* and remove them (tool/deal_alert_tool.py) and the worker that checks    *)
(* them (workers/price_checker.py).  Every server process runs a worker of *)
(* its own as an asyncio task, and all share one SQLite table.             *)
(*                                                                         *)
(* The tasks of a process interleave where they await.  A call of          *)
(* update_price does not await, but it is two statements, and another      *)
(* process can come in between.  An offer stands for a price, the store    *)
(* and the link that go with it, and is written as the price.              *)
(***************************************************************************)
EXTENDS Integers, FiniteSets, Functions

CONSTANTS
  Proc,        \* server processes
  Watch,       \* ids of price_watches, given in increasing order
  Query,       \* normalised product queries
  Target,      \* the target price of each watch
  Offer,       \* best offers a scrape may return
  BatchSize,   \* BATCH_SIZE
  MaxRetries,  \* MAX_RETRIES
  Faults,      \* "db", "scrape": these calls may raise; "stop", "crash"
  None         \* no price, no offer

ASSUME WatchType == Watch \subseteq Nat /\ IsFiniteSet(Watch) /\ Target \in [Watch -> Nat]
ASSUME QueryType == Query # {} /\ IsFiniteSet(Query)
ASSUME OfferType == Offer \subseteq Nat /\ None \notin Nat
ASSUME BatchType == BatchSize \in Nat \ {0} /\ MaxRetries \in Nat

VARIABLES
  row,       \* the table: state, query, current offer, lowest price, triggered flag
  market,    \* what the stores ask for each query now
  phase,     \* each worker: off, asleep between cycles, in a cycle
  snap,      \* the active watches its cycle began with, and their link then
  todo,      \* queries of the cycle not yet in a batch
  at,        \* each task of a batch: none, fetch, update, read, notify, done
  tries,     \* its failed attempts
  offer,     \* the offer it found
  left,      \* its watches not yet updated
  low,       \* lowest price that the process has read and not yet written
  told,      \* history: alerts sent in this cycle
  updated,   \* history: watches updated in this cycle
  skipped    \* history: queries of this cycle without an offer or given up

worker  == <<snap, todo, at, tries, offer, left, low>>
history == <<told, updated, skipped>>
vars    == <<row, market, phase, worker, history>>

Price == Offer \cup {None}

TypeOK ==
  /\ row \in [Watch -> [state : {"absent", "active", "inactive"}, query : Query,
                        offer : Price, lowest : Price, triggered : BOOLEAN]]
  /\ market \in [Query -> Price]
  /\ phase \in [Proc -> {"off", "asleep", "cycle"}]
  /\ \A p \in Proc : DOMAIN snap[p] \subseteq Watch /\ Range(snap[p]) \subseteq Price
  /\ todo \in [Proc -> SUBSET Query]
  /\ at \in [Proc -> [Query -> {"none", "fetch", "update", "read", "notify", "done"}]]
  /\ tries \in [Proc -> [Query -> 0 .. MaxRetries]]
  /\ offer \in [Proc -> [Query -> Price]]
  /\ left \in [Proc -> [Query -> SUBSET Watch]]
  /\ low \in [Proc -> Price]
  /\ told \in [Proc -> [Watch -> 0 .. MaxRetries + 2]]
  /\ updated \in [Proc -> SUBSET Watch]
  /\ skipped \in [Proc -> SUBSET Query]

NoRow  == [state |-> "absent", query |-> CHOOSE q \in Query : TRUE,
           offer |-> None, lowest |-> None, triggered |-> FALSE]
NoTask == [q \in Query |-> "none"]

Init ==
  /\ row = [w \in Watch |-> NoRow]
  /\ market \in [Query -> Price]
  /\ phase = [p \in Proc |-> "off"]
  /\ snap = [p \in Proc |-> <<>>]
  /\ todo = [p \in Proc |-> {}]
  /\ at = [p \in Proc |-> NoTask]
  /\ tries = [p \in Proc |-> [q \in Query |-> 0]]
  /\ offer = [p \in Proc |-> [q \in Query |-> None]]
  /\ left = [p \in Proc |-> [q \in Query |-> {}]]
  /\ low = [p \in Proc |-> None]
  /\ told = [p \in Proc |-> [w \in Watch |-> 0]]
  /\ updated = [p \in Proc |-> {}]
  /\ skipped = [p \in Proc |-> {}]

\* No task of the process is between the two statements of update_price.
Free(p) == \A q \in Query : at[p][q] # "read"

\* The process of a request handler; its worker may be doing anything else.
Handler == \E p \in Proc : Free(p)

-----------------------------------------------------------------------------
(* Users, through the tools of the agent, and the stores. *)

CreateWatch(w, q) ==
  /\ Handler
  /\ row[w].state = "absent"
  /\ \A v \in Watch : v < w => row[v].state # "absent"
  /\ row' = [row EXCEPT ![w].state = "active", ![w].query = q]
  /\ UNCHANGED <<market, phase, worker, history>>

DeactivateWatch(w) ==
  /\ Handler
  /\ row[w].state # "absent"
  /\ row' = [row EXCEPT ![w].state = "inactive"]
  /\ UNCHANGED <<market, phase, worker, history>>

StoresChange(q) ==
  /\ market' \in {[market EXCEPT ![q] = o] : o \in Price}
  /\ UNCHANGED <<row, phase, worker, history>>

-----------------------------------------------------------------------------
(* The worker's loop. *)

Start(p) ==
  /\ phase[p] = "off"
  /\ phase' = [phase EXCEPT ![p] = "asleep"]
  /\ UNCHANGED <<row, market, worker, history>>

\* The local variables of a cycle are gone when it ends in any way.
Forget(p) ==
  /\ snap' = [snap EXCEPT ![p] = <<>>]
  /\ todo' = [todo EXCEPT ![p] = {}]
  /\ at' = [at EXCEPT ![p] = NoTask]
  /\ tries' = [tries EXCEPT ![p] = [q \in Query |-> 0]]
  /\ offer' = [offer EXCEPT ![p] = [q \in Query |-> None]]
  /\ left' = [left EXCEPT ![p] = [q \in Query |-> {}]]
  /\ low' = [low EXCEPT ![p] = None]
  /\ told' = [told EXCEPT ![p] = [w \in Watch |-> 0]]
  /\ updated' = [updated EXCEPT ![p] = {}]
  /\ skipped' = [skipped EXCEPT ![p] = {}]
  /\ UNCHANGED <<row, market>>

\* stop cancels the task, which is waiting somewhere, and awaits its end.
Stop(p) ==
  /\ "stop" \in Faults
  /\ Free(p)
  /\ phase[p] # "off"
  /\ phase' = [phase EXCEPT ![p] = "off"]
  /\ Forget(p)

Crash(p) ==
  /\ "crash" \in Faults
  /\ phase' = [phase EXCEPT ![p] = "off"]
  /\ Forget(p)

Active == {w \in Watch : row[w].state = "active"}

BeginCycle(p) ==
  /\ phase[p] = "asleep"
  /\ Active # {}
  /\ phase' = [phase EXCEPT ![p] = "cycle"]
  /\ snap' = [snap EXCEPT ![p] = [w \in Active |-> row[w].offer]]
  /\ todo' = [todo EXCEPT ![p] = {row[w].query : w \in Active}]
  /\ UNCHANGED <<row, market, at, tries, offer, left, low, history>>

BatchDone(p) == \A q \in Query : at[p][q] \in {"none", "done"}

\* queries[i : i + BATCH_SIZE]: the batches are as large as they can be.
Batch(p) == {B \in SUBSET todo[p] :
               IF Cardinality(todo[p]) <= BatchSize THEN B = todo[p]
               ELSE Cardinality(B) = BatchSize}

Remaining_TooFew(p, B) == IF Cardinality(todo[p]) <= BatchSize + 1 THEN {} ELSE todo[p] \ B
Remaining(p, B)        == todo[p] \ B

NextBatch(p) ==
  /\ phase[p] = "cycle"
  /\ BatchDone(p)
  /\ todo[p] # {}
  /\ \E B \in Batch(p) :
       /\ todo' = [todo EXCEPT ![p] = Remaining(p, B)]
       /\ at' = [at EXCEPT ![p] = [q \in Query |-> IF q \in B THEN "fetch" ELSE "none"]]
  /\ UNCHANGED <<row, market, phase, snap, tries, offer, left, low, history>>

EndCycle(p) ==
  /\ phase[p] = "cycle"
  /\ BatchDone(p)
  /\ todo[p] = {}
  /\ phase' = [phase EXCEPT ![p] = "asleep"]
  /\ Forget(p)

-----------------------------------------------------------------------------
(* One task of a batch: _check_query. *)

Goes(p, q, place) == at' = [at EXCEPT ![p][q] = place]
Group(p, q)       == {w \in DOMAIN snap[p] : row[w].query = q}

\* fetch_prices, and the least of the valid results.
Fetch(p, q) ==
  /\ at[p][q] = "fetch"
  /\ Free(p)
  /\ offer' = [offer EXCEPT ![p][q] = market[q]]
  /\ left' = [left EXCEPT ![p][q] = Group(p, q)]
  /\ IF market[q] = None
     THEN Goes(p, q, "done") /\ skipped' = [skipped EXCEPT ![p] = @ \cup {q}]
     ELSE Goes(p, q, "update") /\ UNCHANGED skipped
  /\ UNCHANGED <<row, market, phase, snap, todo, tries, low, told, updated>>

\* except Exception: the whole group is tried again, up to MAX_RETRIES times.
MayRetry(p, q) == tries[p][q] < MaxRetries

Raises(p, q) ==
  /\ \/ at[p][q] = "fetch" /\ Free(p) /\ "scrape" \in Faults
     \/ at[p][q] = "update" /\ Free(p) /\ left[p][q] # {} /\ "db" \in Faults
     \/ at[p][q] = "read" /\ "db" \in Faults
  /\ IF MayRetry(p, q)
     THEN /\ Goes(p, q, "fetch")
          /\ tries' = [tries EXCEPT ![p][q] = @ + 1]
          /\ UNCHANGED skipped
     ELSE /\ Goes(p, q, "done")
          /\ skipped' = [skipped EXCEPT ![p] = @ \cup {q}]
          /\ UNCHANGED tries
  /\ low' = [low EXCEPT ![p] = None]
  /\ offer' = [offer EXCEPT ![p][q] = None]
  /\ left' = [left EXCEPT ![p][q] = {}]
  /\ UNCHANGED <<row, market, phase, snap, todo, told, updated>>

Current(p, q) == CHOOSE w \in left[p][q] : \A v \in left[p][q] : w <= v
Rest(p, q)    == left' = [left EXCEPT ![p][q] = @ \ {Current(p, q)}]

\* The SELECT of update_price.
ReadRow(p, q) ==
  /\ at[p][q] = "update"
  /\ Free(p)
  /\ left[p][q] # {}
  /\ low' = [low EXCEPT ![p] = row[Current(p, q)].lowest]
  /\ Goes(p, q, "read")
  /\ UNCHANGED <<row, market, phase, snap, todo, tries, offer, left, history>>

Lower(new, old) == IF old = None \/ new < old THEN new ELSE old

Triggers_Below(w, o) == o < Target[w]
Triggers(w, o)       == o <= Target[w]

\* The UPDATE of update_price: of the row, whatever its state is by now.
WriteRow(p, q) ==
  LET w == Current(p, q)
      o == offer[p][q]
  IN
  /\ at[p][q] = "read"
  /\ row' = [row EXCEPT ![w].offer = o, ![w].lowest = Lower(o, low[p]),
                        ![w].triggered = Triggers(w, o)]
  /\ updated' = [updated EXCEPT ![p] = @ \cup {w}]
  /\ low' = [low EXCEPT ![p] = None]
  /\ IF Triggers(w, o) THEN Goes(p, q, "notify") /\ UNCHANGED left
                       ELSE Goes(p, q, "update") /\ Rest(p, q)
  /\ UNCHANGED <<market, phase, snap, todo, tries, offer, told, skipped>>

\* _send_notification: the price and store of the offer, the link of the
\* snapshot.  It raises nothing.
AfterAlert_Repeat(p, q) == UNCHANGED left
AfterAlert(p, q)        == Rest(p, q)

Notify(p, q) ==
  /\ at[p][q] = "notify"
  /\ Free(p)
  /\ told' = [told EXCEPT ![p][Current(p, q)] = IF @ = MaxRetries + 2 THEN @ ELSE @ + 1]
  /\ Goes(p, q, "update")
  /\ AfterAlert(p, q)
  /\ UNCHANGED <<row, market, phase, snap, todo, tries, offer, low, updated, skipped>>

Succeeds(p, q) ==
  /\ at[p][q] = "update"
  /\ Free(p)
  /\ left[p][q] = {}
  /\ Goes(p, q, "done")
  /\ offer' = [offer EXCEPT ![p][q] = None]
  /\ UNCHANGED <<row, market, phase, snap, todo, tries, left, low, history>>

-----------------------------------------------------------------------------
CheckQuery(p, q) == \/ Fetch(p, q) \/ ReadRow(p, q) \/ WriteRow(p, q)
                    \/ Notify(p, q) \/ Succeeds(p, q)
CheckCycle(p) == \/ BeginCycle(p) \/ NextBatch(p) \/ EndCycle(p)
                 \/ \E q \in Query : CheckQuery(p, q)

Next ==
  \/ \E w \in Watch : (\E q \in Query : CreateWatch(w, q)) \/ DeactivateWatch(w)
  \/ \E q \in Query : StoresChange(q)
  \/ \E p \in Proc : \/ Start(p) \/ Stop(p) \/ Crash(p) \/ CheckCycle(p)
                     \/ \E q \in Query : Raises(p, q)

Spec == Init /\ [][Next]_vars

\* The event loop runs the worker's tasks, and the server starts the worker.
FairSpec == Spec /\ \A p \in Proc : WF_vars(Start(p)) /\ WF_vars(CheckCycle(p))

-----------------------------------------------------------------------------
\* "_check_cycle() - iterates all active watches" (class docstring): when a cycle
\* ends, every watch that was active when it began has been updated, or its
\* query had no offer or failed in every attempt.
EveryWatchChecked ==
  [][\A p \in Proc : EndCycle(p) =>
       \A w \in DOMAIN snap[p] : w \in updated[p] \/ row[w].query \in skipped[p]]_vars

\* A watch is announced at most once in a cycle of one worker, and once more for
\* each time its group was tried again after an error.
OneAlertPerAttempt == \A p \in Proc, w \in Watch : told[p][w] <= 1 + tries[p][row[w].query]

\* "I'll keep watching this product. You'll be notified when the price drops"
\* (set_price_alert): while a watch is active, the worker runs and the offer stays at
\* its target or below, alerts are sent again and again once calls stop raising.
Deal(w)     == row[w].state = "active" /\ market[row[w].query] # None /\ market[row[w].query] <= Target[w]
Alerting(w) == \E p \in Proc : LET q == row[w].query IN at[p][q] = "notify" /\ Current(p, q) = w
Quiet       == <>[][\A p \in Proc, q \in Query : ~Raises(p, q)]_vars

AlertsKeepComing ==
  \A w \in Watch :
    (<>[](Deal(w) /\ \A p \in Proc : phase[p] # "off") /\ Quiet) => []<>Alerting(w)

\* "store: Store with the best price. url: Product URL" (send_price_alert): the
\* link of an alert belongs to the offer that it announces.
LinkMatchesOffer ==
  [][\A p \in Proc, q \in Query : Notify(p, q) => snap[p][Current(p, q)] = offer[p][q]]_vars
=============================================================================
