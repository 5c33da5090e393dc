------------------------------- MODULE EventBus -------------------------------
(***************************************************************************)
(* The in-process event bus of shopsage/events/event_bus.py: publish as    *)
(* coroutines of one event loop, and emit_sync with and without a loop.    *)
(*                                                                         *)
(* A coroutine runs alone (turn) until a handler it awaits suspends;       *)
(* synchronous handlers never do.  Events are numbered in the order in     *)
(* which publish and emit_sync were called.                                *)
(***************************************************************************)
EXTENDS Integers, Sequences, SequencesExt, FiniteSets, FiniteSetsExt, Functions

CONSTANTS
  Handler,     \* handler functions
  Async,       \* those that are coroutine functions
  Failing,     \* those that raise
  Leaving,     \* those that unsubscribe from the event's type when called
  Type,        \* event types
  All,         \* the wildcard "*"
  Pairs,       \* the subscriptions the program makes: a type or "*", a handler
  Modes,       \* how events are sent: "publish", "emit" (a loop runs), "noloop"
  MaxEvents,   \* bound: events sent
  MaxSubs,     \* bound: subscriptions there are at a time
  MaxHistory,  \* max_history
  None         \* no coroutine has the turn

ASSUME HandlerSets == Async \cup Failing \cup Leaving \subseteq Handler
ASSUME PairsType   == Pairs \subseteq (Type \cup {All}) \X Handler
ASSUME Bounds      == MaxEvents \in Nat /\ MaxSubs \in Nat /\ MaxHistory \in Nat \ {0}
ASSUME Names       == All \notin Type /\ None \notin Nat

VARIABLES
  handlers,  \* _handlers: a list for each type and for "*"
  sent,      \* the events sent so far, each with its progress
  turn,      \* the event whose coroutine is running
  record,    \* _history
  heard      \* history: the events each handler was called with, in order

vars == <<handlers, sent, turn, record, heard>>

Id       == DOMAIN sent
At(n, s) == n \in Id /\ sent[n].stage = s

Event == [type : Type, mode : Modes,
          stage : {"ready", "running", "waiting", "thread", "done"},
          rest : Seq(Handler),   \* handlers its coroutine has still to call
          next : Nat \ {0},      \* index of the thread's loop over the live list
          due : Seq(Handler)]    \* history: the handlers subscribed when it began

TypeOK ==
  /\ handlers \in [Type \cup {All} -> Seq(Handler)]
  /\ sent \in Seq(Event) /\ Len(sent) <= MaxEvents
  /\ turn \in Id \cup {None}
  /\ record \in Seq(Id) /\ Len(record) <= MaxHistory
  /\ heard \in [Handler -> Seq(Id)]
  /\ \A e \in Id : sent[e].stage = "running" <=> turn = e

Init ==
  /\ handlers = [k \in Type \cup {All} |-> <<>>]
  /\ sent = <<>>
  /\ turn = None
  /\ record = <<>>
  /\ heard = [h \in Handler |-> <<>>]

-----------------------------------------------------------------------------
(* Subscriptions: a handler subscribed twice is in the list twice. *)

Subscriptions == MapThenSumSet(LAMBDA k : Len(handlers[k]), DOMAIN handlers)

Subscribe(k, h) ==
  /\ Subscriptions < MaxSubs
  /\ handlers' = [handlers EXCEPT ![k] = Append(@, h)]
  /\ UNCHANGED <<sent, turn, record, heard>>

\* handlers.remove(handler)
Without(k, h) == [handlers EXCEPT ![k] = RemoveFirst(@, h)]

Unsubscribe(k, h) ==
  /\ Contains(handlers[k], h)
  /\ handlers' = Without(k, h)
  /\ UNCHANGED <<sent, turn, record, heard>>

-----------------------------------------------------------------------------
(* Sending. *)

Matching_TypeOnly(t) == handlers[t]
Matching(t)          == handlers[t] \o handlers[All]

\* publish up to its loop: an event without handlers is dropped.
TakenUp(e) ==
  LET hs == Matching(e.type) IN
  [e EXCEPT !.stage = IF hs = <<>> THEN "done" ELSE "running", !.rest = hs,
            !.due = handlers[e.type] \o handlers[All]]

NewEvent(t, m) ==
  [type |-> t, mode |-> m, stage |-> "ready", rest |-> <<>>, next |-> 1, due |-> <<>>]

TurnTo(e, n) == turn' = IF e.stage = "running" THEN n ELSE None

\* await bus.publish(event), by a request handler
Publish(t) ==
  LET e == TakenUp(NewEvent(t, "publish")) IN
  /\ "publish" \in Modes
  /\ Len(sent) < MaxEvents
  /\ turn = None
  /\ sent' = Append(sent, e)
  /\ TurnTo(e, Len(sent'))
  /\ UNCHANGED <<handlers, record, heard>>

\* emit_sync while a loop runs, perhaps called by a handler
Emit(t) ==
  /\ "emit" \in Modes
  /\ Len(sent) < MaxEvents
  /\ sent' = Append(sent, NewEvent(t, "emit"))
  /\ UNCHANGED <<handlers, turn, record, heard>>

\* The loop begins its tasks in the order in which they were made.
FirstReady(n) == \A m \in Id : sent[m].stage = "ready" => n <= m

TakeUp(n) ==
  LET e == TakenUp(sent[n]) IN
  /\ At(n, "ready")
  /\ FirstReady(n)
  /\ turn = None
  /\ sent' = [sent EXCEPT ![n] = e]
  /\ TurnTo(e, n)
  /\ UNCHANGED <<handlers, record, heard>>

\* emit_sync without a loop: the calling thread goes over the live list
EmitNoLoop(t) ==
  /\ "noloop" \in Modes
  /\ Len(sent) < MaxEvents
  /\ sent' = Append(sent, [NewEvent(t, "noloop") EXCEPT !.stage = "thread", !.due = Matching(t)])
  /\ UNCHANGED <<handlers, turn, record, heard>>

-----------------------------------------------------------------------------
(* Calling handlers. *)

Hears(h, n)  == heard' = [heard EXCEPT ![h] = Append(@, n)]
Leaves(h, t) == handlers' = IF h \in Leaving THEN Without(t, h) ELSE handlers

\* What the loop still has to do after a handler has returned or raised.
Continue_Abort(h, rest) == IF h \in Failing THEN <<>> ELSE rest
Continue(h, rest)       == rest

\* A coroutine that suspends gives the turn away.
GiveTurn_Keep == turn
GiveTurn      == None

Call(n) ==
  LET h == Head(sent[n].rest) IN
  /\ At(n, "running")
  /\ sent[n].rest # <<>>
  /\ Hears(h, n)
  /\ Leaves(h, sent[n].type)
  /\ \E suspends \in BOOLEAN :
       /\ suspends => h \in Async
       /\ sent' = [sent EXCEPT ![n].rest = Continue(h, Tail(@)),
                               ![n].stage = IF suspends THEN "waiting" ELSE "running"]
       /\ turn' = IF suspends THEN GiveTurn ELSE n
  /\ UNCHANGED record

Resume(n) ==
  /\ At(n, "waiting")
  /\ turn = None
  /\ sent' = [sent EXCEPT ![n].stage = "running"]
  /\ turn' = n
  /\ UNCHANGED <<handlers, record, heard>>

Recent(s) == IF Len(s) > MaxHistory THEN Tail(s) ELSE s

Finish(n) ==
  /\ At(n, "running")
  /\ sent[n].rest = <<>>
  /\ sent' = [sent EXCEPT ![n].stage = "done"]
  /\ turn' = None
  /\ record' = Recent(Append(record, n))
  /\ UNCHANGED <<handlers, heard>>

\* One turn of the thread's loop: a coroutine function only makes a coroutine.
ThreadCall(n) ==
  LET t == sent[n].type
      h == handlers[t][sent[n].next]
  IN
  /\ At(n, "thread")
  /\ sent[n].next <= Len(handlers[t])
  /\ IF h \in Async THEN UNCHANGED <<heard, handlers>> ELSE Hears(h, n) /\ Leaves(h, t)
  /\ sent' = [sent EXCEPT ![n].next = @ + 1]
  /\ UNCHANGED <<turn, record>>

ThreadEnd(n) ==
  /\ At(n, "thread")
  /\ sent[n].next > Len(handlers[sent[n].type])
  /\ sent' = [sent EXCEPT ![n].stage = "done"]
  /\ UNCHANGED <<handlers, turn, record, heard>>

-----------------------------------------------------------------------------
Loop(n) == TakeUp(n) \/ Call(n) \/ Resume(n) \/ Finish(n) \/ ThreadCall(n) \/ ThreadEnd(n)

Next ==
  \/ \E s \in Pairs : Subscribe(s[1], s[2]) \/ Unsubscribe(s[1], s[2])
  \/ \E t \in Type : Publish(t) \/ Emit(t) \/ EmitNoLoop(t)
  \/ \E n \in 1 .. MaxEvents : Loop(n)

Spec == Init /\ [][Next]_vars

\* The loop runs every task that can run, and handlers come back.
FairSpec == Spec /\ \A n \in 1 .. MaxEvents : SF_vars(Loop(n))

-----------------------------------------------------------------------------
Times(x, s) == Cardinality({i \in DOMAIN s : s[i] = x})

\* "Errors in one handler don't block others" (module docstring): when a published
\* event is done, every handler that was subscribed when it began has been called,
\* once for each subscription, whichever handlers raised, suspended or left.
EveryHandlerCalled ==
  \A n \in Id : (sent[n].stage = "done" /\ sent[n].mode # "noloop") =>
    \A h \in Handler : Times(n, heard[h]) = Times(h, sent[n].due)

\* "Events are processed in-order per type" (module docstring): a handler is
\* called with the events of a type in the order in which they were sent.
InOrderPerType ==
  \A h \in Handler : \A i, j \in DOMAIN heard[h] :
    (i < j /\ sent[heard[h][i]].type = sent[heard[h][j]].type) => heard[h][i] <= heard[h][j]

\* An event that the loop dispatches is dispatched to the end, while handlers come back,
\* whatever is subscribed meanwhile.  This says nothing of a thread without a loop: it goes
\* over the live list, and a handler that subscribes whenever it is called keeps it for ever.
EventsAreProcessed ==
  \A n \in 1 .. MaxEvents : (n \in Id /\ sent[n].mode # "noloop") ~> At(n, "done")
=============================================================================
