---------------------------- MODULE EventBus_proofs ----------------------------
(***************************************************************************)
(* Proofs about the event bus, for any handlers, types and subscriptions,  *)
(* any number of events and size of the history (EventBus).                *)
(***************************************************************************)
EXTENDS EventBus, FiniteSetTheorems, SequenceTheorems, WellFoundedInduction, TLAPS

-----------------------------------------------------------------------------
(* How often a value is in a sequence. *)

Indices(x, s) == {i \in DOMAIN s : s[i] = x}

LEMMA TimesIsNumber ==
  ASSUME NEW S, NEW s \in Seq(S), NEW x
  PROVE  IsFiniteSet(Indices(x, s)) /\ Times(x, s) = Cardinality(Indices(x, s)) /\ Times(x, s) \in Nat
<1>1. IsFiniteSet(1 .. Len(s)) /\ Indices(x, s) \subseteq 1 .. Len(s)
  <2>1. Len(s) \in Nat /\ DOMAIN s = 1 .. Len(s)
    BY LenProperties
  <2> QED
    BY <2>1, FS_Interval DEF Indices
<1>2. IsFiniteSet(Indices(x, s))
  BY <1>1, FS_Subset
<1> QED
  BY <1>2, FS_CardinalityType DEF Times, Indices

LEMMA TimesOfEmpty ==
  ASSUME NEW x PROVE Times(x, <<>>) = 0
<1>1. DOMAIN <<>> = {}
  OBVIOUS
<1>2. {i \in DOMAIN <<>> : <<>>[i] = x} = {}
  BY <1>1
<1> QED
  BY <1>2, FS_EmptySet DEF Times

\* One more at the end.
LEMMA TimesOfAppend ==
  ASSUME NEW S, NEW s \in Seq(S), NEW y \in S, NEW x
  PROVE  Times(x, Append(s, y)) = Times(x, s) + (IF y = x THEN 1 ELSE 0)
<1> DEFINE a == Append(s, y)
           n == Len(s) + 1
<1>1. /\ Len(s) \in Nat /\ DOMAIN s = 1 .. Len(s) /\ a \in Seq(S) /\ DOMAIN a = 1 .. n
      /\ \A i \in 1 .. Len(s) : a[i] = s[i]
      /\ a[n] = y
  BY AppendProperties, LenProperties
<1>2. IsFiniteSet(Indices(x, s)) /\ Times(x, s) = Cardinality(Indices(x, s)) /\ Times(x, s) \in Nat
  BY TimesIsNumber
<1>3. Times(x, a) = Cardinality(Indices(x, a))
  BY <1>1, TimesIsNumber
<1> HIDE DEF a
<1>4. 1 .. n = (1 .. Len(s)) \cup {n} /\ n \notin 1 .. Len(s)
  BY <1>1
<1> HIDE DEF n
<1>5. CASE y = x
  <2>1. Indices(x, a) = Indices(x, s) \cup {n} /\ n \notin Indices(x, s)
    BY <1>1, <1>4, <1>5 DEF Indices
  <2> QED
    BY <1>2, <1>3, <1>5, <2>1, FS_AddElement DEF a
<1>6. CASE y # x
  <2>1. Indices(x, a) = Indices(x, s)
    BY <1>1, <1>4, <1>6 DEF Indices
  <2> QED
    BY <1>2, <1>3, <1>6, <2>1 DEF a
<1> QED
  BY <1>5, <1>6

\* One less at the head.
LEMMA TimesOfTail ==
  ASSUME NEW S, NEW s \in Seq(S), s # <<>>, NEW x
  PROVE  Times(x, s) = Times(x, Tail(s)) + (IF Head(s) = x THEN 1 ELSE 0)
<1> DEFINE t == Tail(s)
           J == {i \in 2 .. Len(s) : s[i] = x}
           f == [i \in Indices(x, t) |-> i + 1]
<1>1. /\ Len(s) \in Nat \ {0} /\ DOMAIN s = 1 .. Len(s) /\ t \in Seq(S) /\ DOMAIN t = 1 .. Len(s) - 1
      /\ \A i \in 1 .. Len(s) - 1 : t[i] = s[i + 1]
      /\ Head(s) = s[1]
  BY EmptySeq, HeadTailProperties, LenProperties
<1>2. IsFiniteSet(Indices(x, t)) /\ Times(x, t) = Cardinality(Indices(x, t)) /\ Times(x, t) \in Nat
  BY <1>1, TimesIsNumber
<1>3. Times(x, s) = Cardinality(Indices(x, s))
  BY TimesIsNumber
<1> HIDE DEF t
<1>4. f \in Bijection(Indices(x, t), J)
  <2>1. \A i \in Indices(x, t) : i \in 1 .. Len(s) - 1 /\ f[i] = i + 1 /\ f[i] \in J
    BY <1>1 DEF Indices
  <2>2. \A i, j \in Indices(x, t) : f[i] = f[j] => i = j
    BY <1>1, <2>1
  <2>3. \A j \in J : j - 1 \in Indices(x, t) /\ f[j - 1] = j
    BY <1>1, <2>1 DEF Indices
  <2>4. f \in [Indices(x, t) -> J] /\ DOMAIN f = Indices(x, t)
    BY <2>1
  <2> HIDE DEF f, J
  <2> QED
    BY <2>2, <2>3, <2>4 DEF Bijection, Injection, Surjection, IsInjective
<1>5. IsFiniteSet(J) /\ Cardinality(J) = Times(x, t)
  BY <1>2, <1>4, FS_Bijection DEF ExistsBijection
<1>6. 1 .. Len(s) = (2 .. Len(s)) \cup {1} /\ 1 \notin 2 .. Len(s)
  BY <1>1
<1>7. CASE Head(s) = x
  <2>1. Indices(x, s) = J \cup {1} /\ 1 \notin J
    BY <1>1, <1>6, <1>7 DEF Indices
  <2> HIDE DEF J
  <2> QED
    BY <1>3, <1>5, <1>7, <2>1, FS_AddElement DEF t
<1>8. CASE Head(s) # x
  <2>1. Indices(x, s) = J
    BY <1>1, <1>6, <1>8 DEF Indices
  <2> HIDE DEF J
  <2> QED
    BY <1>2, <1>3, <1>5, <1>8, <2>1 DEF t
<1> QED
  BY <1>7, <1>8
-----------------------------------------------------------------------------
(* The invariant. *)

Shapes ==
  /\ handlers \in [Type \cup {All} -> Seq(Handler)]
  /\ sent \in Seq(Event)
  /\ heard \in [Handler -> Seq(Nat)]

\* What the loop has called for an event and what it has still to call make what was
\* subscribed when it began; an event that has not begun has called nothing.
Progress(n) ==
  LET e == sent[n] IN
  IF e.mode = "noloop" THEN e.stage \in {"thread", "done"}
  ELSE /\ e.stage # "thread"
       /\ e.stage = "done" => e.rest = <<>>
       /\ IF e.stage = "ready" THEN \A h \in Handler : Times(n, heard[h]) = 0
          ELSE \A h \in Handler : Times(n, heard[h]) + Times(h, e.rest) = Times(h, e.due)

BusInv ==
  /\ Shapes
  /\ \A n \in Id : Progress(n)
  /\ \A n \in Nat \ Id, h \in Handler : Times(n, heard[h]) = 0

LEMMA IdsAreNumbers ==
  ASSUME Shapes
  PROVE  /\ Len(sent) \in Nat /\ Id = 1 .. Len(sent) /\ Id \subseteq Nat
         /\ \A n \in Id : sent[n] \in Event
<1>1. Len(sent) \in Nat /\ DOMAIN sent = 1 .. Len(sent)
  BY LenProperties DEF Shapes
<1> QED
  BY <1>1, ElementOfSeq DEF Shapes, Id

\* list.remove leaves a list.
LEMMA RemovedIsList ==
  ASSUME NEW S, NEW s \in Seq(S), NEW x
  PROVE  RemoveFirst(s, x) \in Seq(S)
<1> DEFINE I == {i \in 1 .. Len(s) : s[i] = x}
<1>1. CASE \E i \in 1 .. Len(s) : s[i] = x
  <2>1. Len(s) \in Nat /\ \A j \in 1 .. Len(s) : s[j] \in S
    BY LenProperties, ElementOfSeq
  <2>2. I # {} /\ I \subseteq Nat
    BY <1>1, <2>1
  <2>3. \E i \in I : \A j \in I : i <= j
    <3>1. PICK i \in I : \A j \in I : ~ (<<j, i>> \in OpToRel(<, Nat))
      BY <2>2, WFMin, NatLessThanWellFounded
    <3>2. \A j \in I : ~ (j < i)
      BY <2>2, <3>1 DEF OpToRel
    <3> QED
      BY <2>2, <3>2
  <2> DEFINE m == Min(I)
  <2>4. m \in 1 .. Len(s)
    BY <2>3 DEF Min
  <2>5. RemoveFirst(s, x) = SubSeq(s, 1, m - 1) \o SubSeq(s, m + 1, Len(s))
    BY <1>1, <2>2 DEF RemoveFirst, RemoveAt, SelectInSeq
  <2> HIDE DEF m
  <2>6. SubSeq(s, 1, m - 1) \in Seq(S)
    <3>1. \A j \in 1 .. m - 1 : s[j] \in S
      BY <2>1, <2>4
    <3> QED
      BY <2>1, <2>4, <3>1, SubSeqProperties
  <2>7. SubSeq(s, m + 1, Len(s)) \in Seq(S)
    <3>1. \A j \in m + 1 .. Len(s) : s[j] \in S
      BY <2>1, <2>4
    <3> QED
      BY <2>1, <2>4, <3>1, SubSeqProperties
  <2> QED
    BY <2>5, <2>6, <2>7, ConcatProperties
<1> QED
  BY <1>1 DEF RemoveFirst

LEMMA ListsStay ==
  ASSUME Shapes, NEW k \in Type \cup {All}, NEW h
  PROVE  /\ Without(k, h) \in [Type \cup {All} -> Seq(Handler)]
         /\ h \in Handler => [handlers EXCEPT ![k] = Append(@, h)] \in [Type \cup {All} -> Seq(Handler)]
<1>1. handlers \in [Type \cup {All} -> Seq(Handler)] /\ handlers[k] \in Seq(Handler)
  BY DEF Shapes
<1>2. RemoveFirst(handlers[k], h) \in Seq(Handler)
  BY <1>1, RemovedIsList
<1>3. h \in Handler => Append(handlers[k], h) \in Seq(Handler)
  BY <1>1, AppendProperties
<1> QED
  BY <1>1, <1>2, <1>3 DEF Without

\* An event that begins has all its handlers before it.
LEMMA BeginsWithAll ==
  ASSUME Shapes, NEW e \in Event, e.mode # "noloop"
  PROVE  LET f == TakenUp(e) IN
         /\ f \in Event /\ f.mode = e.mode
         /\ f.stage \in {"done", "running"} /\ (f.stage = "done" => f.rest = <<>>)
         /\ f.due = f.rest
<1> DEFINE hs == handlers[e.type] \o handlers[All]
<1>1. handlers[e.type] \in Seq(Handler) /\ handlers[All] \in Seq(Handler)
  BY DEF Shapes, Event
<1>2. hs \in Seq(Handler)
  BY <1>1, ConcatProperties
<1>3. TakenUp(e) = [e EXCEPT !.stage = IF hs = <<>> THEN "done" ELSE "running", !.rest = hs, !.due = hs]
  BY DEF TakenUp, Matching
<1> HIDE DEF hs
<1> QED
  BY <1>2, <1>3 DEF Event

-----------------------------------------------------------------------------
(* Steps: an event is added, an event moves without a call, a handler is called. *)

LEMMA EventAdded ==
  ASSUME BusInv, NEW e \in Event, sent' = Append(sent, e), UNCHANGED <<handlers, heard>>,
         IF e.mode = "noloop" THEN e.stage = "thread"
         ELSE /\ e.stage \in {"ready", "running", "done"}
              /\ e.stage = "done" => e.rest = <<>>
              /\ e.due = e.rest
  PROVE  BusInv'
<1>1. Shapes /\ Len(sent) \in Nat /\ Id = 1 .. Len(sent)
  BY IdsAreNumbers DEF BusInv
<1> PICK m \in Nat : m = Len(sent) + 1
  BY <1>1
<1>2. /\ sent' \in Seq(Event) /\ Len(sent') = m
      /\ \A i \in 1 .. Len(sent) : sent'[i] = sent[i]
      /\ sent'[m] = e
  BY <1>1, AppendProperties DEF Shapes
<1>3. Shapes' /\ Id' = 1 .. m
  BY <1>1, <1>2, LenProperties DEF Shapes, Id
<1>4. \A h \in Handler : Times(m, heard[h]) = 0
  BY <1>1 DEF BusInv
<1>5. Progress(m)'
  <2>1. CASE e.mode = "noloop"
    BY <1>2, <2>1 DEF Progress
  <2>2. CASE e.mode # "noloop"
    <3>1. \A h \in Handler : Times(h, e.rest) \in Nat
      BY TimesIsNumber DEF Event
    <3>2. \A h \in Handler : /\ Times(m, heard[h]) = 0
                             /\ Times(m, heard[h]) + Times(h, e.rest) = Times(h, e.due)
      BY <1>4, <2>2, <3>1
    <3> QED
      BY <1>2, <2>2, <3>2 DEF Progress
  <2> QED
    BY <2>1, <2>2
<1>6. \A n \in Id : Progress(n)'
  BY <1>1, <1>2 DEF BusInv, Progress
<1>7. \A n \in Id' : n = m \/ n \in Id
  BY <1>1, <1>3
<1>8. \A n \in Nat \ Id' : n \in Nat \ Id
  BY <1>1, <1>3
<1>9. \A n \in Nat \ Id', h \in Handler : Times(n, heard'[h]) = 0
  BY <1>8 DEF BusInv
<1> QED
  BY <1>3, <1>5, <1>6, <1>7, <1>9 DEF BusInv

\* One event changes.
LEMMA EventChanges ==
  ASSUME BusInv, NEW n \in Id, NEW e \in Event, sent' = [sent EXCEPT ![n] = e]
  PROVE  /\ sent' \in Seq(Event) /\ Id' = Id /\ sent'[n] = e
         /\ \A m \in Id \ {n} : sent'[m] = sent[m]
<1>1. Shapes /\ Id = 1 .. Len(sent) /\ sent \in Seq(Event)
  BY IdsAreNumbers DEF BusInv, Shapes
<1> QED
  BY <1>1, ExceptSeq DEF Id

LEMMA EventMoves ==
  ASSUME BusInv, NEW n \in Id, NEW e \in Event, sent' = [sent EXCEPT ![n] = e],
         UNCHANGED <<handlers, heard>>, Progress(n)'
  PROVE  BusInv'
<1>1. /\ sent' \in Seq(Event) /\ Id' = Id /\ sent'[n] = e
      /\ \A m \in Id \ {n} : sent'[m] = sent[m]
  BY EventChanges
<1>2. Shapes'
  BY <1>1 DEF BusInv, Shapes
<1>3. ASSUME NEW m \in Id PROVE Progress(m)'
  <2>1. CASE m # n
    BY <1>1, <2>1 DEF BusInv, Progress
  <2> QED
    BY <2>1
<1> QED
  BY <1>1, <1>2, <1>3 DEF BusInv

\* A handler is called with an event.
LEMMA HandlerHears ==
  ASSUME BusInv, NEW n \in Id, NEW h \in Handler, Hears(h, n)
  PROVE  /\ heard' \in [Handler -> Seq(Nat)]
         /\ \A g \in Handler, m \in Nat :
              Times(m, heard'[g]) = Times(m, heard[g]) + (IF m = n /\ g = h THEN 1 ELSE 0)
<1>1. heard \in [Handler -> Seq(Nat)] /\ n \in Nat /\ heard' = [heard EXCEPT ![h] = Append(@, n)]
  BY IdsAreNumbers DEF BusInv, Shapes, Hears
<1>2. Append(heard[h], n) \in Seq(Nat)
  BY <1>1, AppendProperties
<1>3. heard' \in [Handler -> Seq(Nat)]
  BY <1>1, <1>2
<1>4. ASSUME NEW g \in Handler, NEW m \in Nat
      PROVE  Times(m, heard'[g]) = Times(m, heard[g]) + (IF m = n /\ g = h THEN 1 ELSE 0)
  <2>1. CASE g = h
    <3>1. heard'[g] = Append(heard[h], n) /\ heard[h] \in Seq(Nat)
      BY <1>1, <2>1
    <3>2. Times(m, Append(heard[h], n)) = Times(m, heard[h]) + (IF n = m THEN 1 ELSE 0)
      BY <1>1, <3>1, TimesOfAppend
    <3> QED
      BY <2>1, <3>1, <3>2
  <2>2. CASE g # h
    <3>1. heard'[g] = heard[g] /\ heard[g] \in Seq(Nat)
      BY <1>1, <2>2
    <3>2. Times(m, heard[g]) \in Nat
      BY <3>1, TimesIsNumber
    <3> QED
      BY <2>2, <3>1, <3>2
  <2> QED
    BY <2>1, <2>2
<1> QED
  BY <1>3, <1>4

LEMMA BusStarts == Init => BusInv
<1> SUFFICES ASSUME Init PROVE BusInv
  OBVIOUS
<1>1. <<>> \in Seq(Handler) /\ <<>> \in Seq(Event) /\ <<>> \in Seq(Nat)
  BY EmptySeq
<1>2. DOMAIN <<>> = {}
  OBVIOUS
<1>3. Shapes
  BY <1>1 DEF Init, Shapes
<1>4. Id = {}
  BY <1>2 DEF Init, Id
<1>5. \A n \in Nat, h \in Handler : Times(n, heard[h]) = 0
  BY TimesOfEmpty DEF Init
<1> QED
  BY <1>3, <1>4, <1>5 DEF BusInv

LEMMA BusSubscribes ==
  ASSUME BusInv, NEW s \in Pairs, Subscribe(s[1], s[2]) \/ Unsubscribe(s[1], s[2])
  PROVE  BusInv'
<1>1. s[1] \in Type \cup {All} /\ s[2] \in Handler /\ Shapes
  BY PairsType DEF BusInv
<1>2. UNCHANGED <<sent, heard>> /\ handlers' \in [Type \cup {All} -> Seq(Handler)]
  <2>1. /\ UNCHANGED <<sent, heard>>
        /\ \/ handlers' = [handlers EXCEPT ![s[1]] = Append(@, s[2])]
           \/ handlers' = Without(s[1], s[2])
    BY DEF Subscribe, Unsubscribe
  <2>2. /\ Without(s[1], s[2]) \in [Type \cup {All} -> Seq(Handler)]
        /\ [handlers EXCEPT ![s[1]] = Append(@, s[2])] \in [Type \cup {All} -> Seq(Handler)]
    BY <1>1, ListsStay
  <2> QED
    BY <2>1, <2>2
<1>3. Shapes' /\ Id' = Id
  BY <1>1, <1>2 DEF Shapes, Id
<1> QED
  BY <1>2, <1>3 DEF BusInv, Progress

LEMMA BusSends ==
  ASSUME BusInv, NEW t \in Type, Publish(t) \/ Emit(t) \/ EmitNoLoop(t)
  PROVE  BusInv'
<1>1. Shapes /\ <<>> \in Seq(Handler)
  BY EmptySeq DEF BusInv
<1>2. ASSUME NEW m \in Modes
      PROVE  /\ NewEvent(t, m) \in Event /\ NewEvent(t, m).mode = m /\ NewEvent(t, m).stage = "ready"
             /\ NewEvent(t, m).rest = NewEvent(t, m).due
  BY <1>1 DEF NewEvent, Event
<1>3. CASE Publish(t)
  <2> DEFINE e == NewEvent(t, "publish")
             f == TakenUp(e)
  <2>1. "publish" \in Modes /\ sent' = Append(sent, f) /\ UNCHANGED <<handlers, heard>>
    BY <1>3 DEF Publish
  <2>2. e \in Event /\ e.mode = "publish"
    BY <1>2, <2>1
  <2> HIDE DEF e
  <2>3. f \in Event /\ f.mode = "publish" /\ f.stage \in {"done", "running"}
        /\ (f.stage = "done" => f.rest = <<>>) /\ f.due = f.rest
    BY <1>1, <2>2, BeginsWithAll
  <2> HIDE DEF f
  <2>4. PICK g \in Event : g = f
    BY <2>3
  <2> QED
    BY <2>1, <2>3, <2>4, EventAdded
<1>4. CASE Emit(t)
  <2>1. "emit" \in Modes /\ sent' = Append(sent, NewEvent(t, "emit")) /\ UNCHANGED <<handlers, heard>>
    BY <1>4 DEF Emit
  <2> QED
    BY <1>2, <2>1, EventAdded
<1>5. CASE EmitNoLoop(t)
  <2> DEFINE e == [NewEvent(t, "noloop") EXCEPT !.stage = "thread", !.due = Matching(t)]
  <2>1. "noloop" \in Modes /\ sent' = Append(sent, e) /\ UNCHANGED <<handlers, heard>>
    BY <1>5 DEF EmitNoLoop
  <2>2. Matching(t) \in Seq(Handler)
    BY <1>1, ConcatProperties DEF Shapes, Matching
  <2>3. NewEvent(t, "noloop") \in Event /\ NewEvent(t, "noloop").mode = "noloop"
    BY <1>2, <2>1
  <2>4. e \in Event /\ e.mode = "noloop" /\ e.stage = "thread"
    BY <2>2, <2>3 DEF Event
  <2> HIDE DEF e
  <2>5. PICK g \in Event : g = e
    BY <2>4
  <2> QED
    BY <2>1, <2>4, <2>5, EventAdded
<1> QED
  BY <1>3, <1>4, <1>5

LEMMA BusTakesUp ==
  ASSUME BusInv, NEW n, TakeUp(n)
  PROVE  BusInv'
<1> DEFINE f == TakenUp(sent[n])
<1>1. /\ n \in Id /\ sent[n].stage = "ready" /\ sent' = [sent EXCEPT ![n] = f]
      /\ UNCHANGED <<handlers, heard>>
  BY DEF TakeUp, At
<1>2. Shapes /\ sent[n] \in Event /\ Progress(n) /\ n \in Nat
  BY <1>1, IdsAreNumbers DEF BusInv
<1>3. sent[n].mode # "noloop" /\ \A h \in Handler : Times(n, heard[h]) = 0
  BY <1>1, <1>2 DEF Progress
<1>4. f \in Event /\ f.mode = sent[n].mode /\ f.stage \in {"done", "running"}
      /\ (f.stage = "done" => f.rest = <<>>) /\ f.due = f.rest
  BY <1>2, <1>3, BeginsWithAll
<1> HIDE DEF f
<1>5. PICK g \in Event : g = f
  BY <1>4
<1>6. sent'[n] = g /\ heard' = heard
  BY <1>1, <1>5, EventChanges
<1>7. \A h \in Handler : Times(h, g.rest) \in Nat
  BY TimesIsNumber DEF Event
<1>8. \A h \in Handler : Times(n, heard[h]) + Times(h, g.rest) = Times(h, g.due)
  BY <1>3, <1>4, <1>5, <1>7
<1>9. Progress(n)'
  BY <1>3, <1>4, <1>5, <1>6, <1>8 DEF Progress
<1> QED
  BY <1>1, <1>5, <1>9, EventMoves

\* Steps of a coroutine or a thread that call no handler.
LEMMA BusMoves ==
  ASSUME BusInv, NEW n, Resume(n) \/ Finish(n) \/ ThreadEnd(n)
  PROVE  BusInv'
<1>1. /\ n \in Id /\ sent[n].stage \in {"waiting", "running", "thread"} /\ UNCHANGED <<handlers, heard>>
      /\ \/ sent[n].stage = "waiting" /\ sent' = [sent EXCEPT ![n].stage = "running"]
         \/ /\ sent[n].stage = "running" => sent[n].rest = <<>>
            /\ sent[n].stage # "waiting"
            /\ sent' = [sent EXCEPT ![n].stage = "done"]
  BY DEF Resume, Finish, ThreadEnd, At
<1>2. Shapes /\ sent[n] \in Event /\ Progress(n) /\ n \in Nat
  BY <1>1, IdsAreNumbers DEF BusInv
<1>3. PICK e \in Event :
        /\ sent' = [sent EXCEPT ![n] = e]
        /\ e.mode = sent[n].mode /\ e.rest = sent[n].rest /\ e.due = sent[n].due
        /\ \/ sent[n].stage = "waiting" /\ e.stage = "running"
           \/ /\ sent[n].stage = "running" => sent[n].rest = <<>>
              /\ sent[n].stage # "waiting"
              /\ e.stage = "done"
  <2>1. CASE sent[n].stage = "waiting" /\ sent' = [sent EXCEPT ![n].stage = "running"]
    <3>1. [sent[n] EXCEPT !.stage = "running"] \in Event
      BY <1>2 DEF Event
    <3> QED
      BY <1>2, <2>1, <3>1 DEF Event
  <2>2. CASE sent' = [sent EXCEPT ![n].stage = "done"] /\ sent[n].stage # "waiting"
    <3>1. [sent[n] EXCEPT !.stage = "done"] \in Event
      BY <1>2 DEF Event
    <3> QED
      BY <1>1, <1>2, <2>2, <3>1 DEF Event
  <2> QED
    BY <1>1, <2>1, <2>2
<1>4. sent'[n] = e /\ heard' = heard
  BY <1>1, <1>3, EventChanges
<1>5. Progress(n)'
  BY <1>1, <1>2, <1>3, <1>4 DEF Progress
<1> QED
  BY <1>1, <1>3, <1>5, EventMoves

\* What the list of a type is after a call that may leave it.
LEMMA BusLeaves ==
  ASSUME Shapes, NEW h \in Handler, NEW t \in Type, Leaves(h, t)
  PROVE  handlers' \in [Type \cup {All} -> Seq(Handler)]
BY ListsStay DEF Leaves, Shapes

LEMMA BusCalls ==
  ASSUME BusInv, NEW n, Call(n)
  PROVE  BusInv'
<1> DEFINE h == Head(sent[n].rest)
<1>1. /\ n \in Id /\ sent[n].stage = "running" /\ sent[n].rest # <<>>
      /\ Hears(h, n) /\ Leaves(h, sent[n].type)
      /\ \E stage \in {"waiting", "running"} :
           sent' = [sent EXCEPT ![n].rest = Tail(@), ![n].stage = stage]
  BY DEF Call, At, Continue
<1>2. Shapes /\ sent[n] \in Event /\ Progress(n) /\ n \in Nat
  BY <1>1, IdsAreNumbers DEF BusInv
<1>3. sent[n].rest \in Seq(Handler) /\ sent[n].type \in Type
  BY <1>2 DEF Event
<1>4. h \in Handler /\ Tail(sent[n].rest) \in Seq(Handler)
  BY <1>1, <1>3, HeadTailProperties
<1>5. \A g \in Handler : /\ Times(g, sent[n].rest) = Times(g, Tail(sent[n].rest)) + (IF h = g THEN 1 ELSE 0)
                         /\ Times(g, Tail(sent[n].rest)) \in Nat
  BY <1>1, <1>3, <1>4, TimesOfTail, TimesIsNumber
<1> HIDE DEF h
<1>6. PICK e \in Event :
        /\ sent' = [sent EXCEPT ![n] = e]
        /\ e.mode = sent[n].mode /\ e.rest = Tail(sent[n].rest) /\ e.due = sent[n].due
        /\ e.stage \in {"waiting", "running"}
  <2>1. PICK stage \in {"waiting", "running"} : sent' = [sent EXCEPT ![n].rest = Tail(@), ![n].stage = stage]
    BY <1>1
  <2> DEFINE e == [sent[n] EXCEPT !.rest = Tail(sent[n].rest), !.stage = stage]
  <2>2. e \in Event /\ e.mode = sent[n].mode /\ e.rest = Tail(sent[n].rest)
        /\ e.due = sent[n].due /\ e.stage = stage
    BY <1>2, <1>4 DEF Event
  <2>3. sent' = [sent EXCEPT ![n] = e]
    BY <2>1
  <2> HIDE DEF e
  <2> QED
    BY <2>2, <2>3
<1>7. /\ sent' \in Seq(Event) /\ Id' = Id /\ sent'[n] = e
      /\ \A m \in Id \ {n} : sent'[m] = sent[m]
  BY <1>1, <1>6, EventChanges
<1>8. /\ heard' \in [Handler -> Seq(Nat)]
      /\ \A g \in Handler, m \in Nat :
           Times(m, heard'[g]) = Times(m, heard[g]) + (IF m = n /\ g = h THEN 1 ELSE 0)
  BY <1>1, <1>4, HandlerHears
<1>9. Shapes'
  BY <1>1, <1>2, <1>3, <1>4, <1>7, <1>8, BusLeaves DEF Shapes
<1>10. \A g \in Handler, m \in Nat : Times(m, heard[g]) \in Nat
  BY <1>2, TimesIsNumber DEF Shapes
<1>11. \A g \in Handler, m \in Nat : m # n => Times(m, heard'[g]) = Times(m, heard[g])
  BY <1>8, <1>10
<1>12. Id \subseteq Nat
  BY <1>2, IdsAreNumbers
<1>13. ASSUME NEW m \in Id PROVE Progress(m)'
  <2>1. CASE m # n
    <3>1. Progress(m) /\ sent'[m] = sent[m] /\ \A g \in Handler : Times(m, heard'[g]) = Times(m, heard[g])
      BY <1>7, <1>11, <1>12, <2>1 DEF BusInv
    <3> QED
      BY <3>1 DEF Progress
  <2>2. CASE m = n
    <3>1. \/ sent[n].mode = "noloop" /\ sent[n].stage \in {"thread", "done"}
          \/ /\ sent[n].mode # "noloop"
             /\ \A g \in Handler : Times(n, heard[g]) + Times(g, sent[n].rest) = Times(g, sent[n].due)
      BY <1>1, <1>2 DEF Progress
    <3>2. \A g \in Handler : Times(n, heard'[g]) = Times(n, heard[g]) + (IF g = h THEN 1 ELSE 0)
      BY <1>2, <1>8
    <3>3. \A g \in Handler : Times(n, heard'[g]) + Times(g, Tail(sent[n].rest))
                               = Times(n, heard[g]) + Times(g, sent[n].rest)
      BY <1>2, <1>5, <1>10, <3>2
    <3>4. sent[n].mode # "noloop"
      BY <1>1, <3>1
    <3>5. \A g \in Handler : Times(n, heard'[g]) + Times(g, e.rest) = Times(g, e.due)
      BY <1>6, <3>1, <3>3, <3>4
    <3> QED
      BY <1>6, <1>7, <2>2, <3>4, <3>5 DEF Progress
  <2> QED
    BY <2>1, <2>2
<1>14. \A m \in Nat \ Id', g \in Handler : Times(m, heard'[g]) = 0
  BY <1>1, <1>7, <1>11 DEF BusInv
<1> QED
  BY <1>7, <1>9, <1>13, <1>14 DEF BusInv

\* The loop of a thread calls handlers for an event of its own only.
LEMMA BusThreadCalls ==
  ASSUME BusInv, NEW n, ThreadCall(n)
  PROVE  BusInv'
<1> DEFINE t == sent[n].type
           h == handlers[t][sent[n].next]
<1>1. /\ n \in Id /\ sent[n].stage = "thread" /\ sent[n].next <= Len(handlers[t])
      /\ \/ UNCHANGED <<heard, handlers>>
         \/ Hears(h, n) /\ Leaves(h, t)
      /\ sent' = [sent EXCEPT ![n].next = @ + 1]
  BY DEF ThreadCall, At
<1>2. Shapes /\ sent[n] \in Event /\ Progress(n) /\ n \in Nat
  BY <1>1, IdsAreNumbers DEF BusInv
<1>3. t \in Type /\ sent[n].next \in Nat \ {0} /\ sent[n].mode = "noloop"
  BY <1>1, <1>2 DEF Event, Progress
<1>4. handlers[t] \in Seq(Handler)
  BY <1>2, <1>3 DEF Shapes
<1>5. h \in Handler
  BY <1>1, <1>3, <1>4, LenProperties, ElementOfSeq
<1> HIDE DEF h
<1>6. PICK e \in Event : /\ sent' = [sent EXCEPT ![n] = e]
                         /\ e.mode = sent[n].mode /\ e.stage = sent[n].stage
  <2> DEFINE e == [sent[n] EXCEPT !.next = sent[n].next + 1]
  <2>1. sent[n].next + 1 \in Nat \ {0}
    BY <1>3
  <2>2. e \in Event /\ e.mode = sent[n].mode /\ e.stage = sent[n].stage
    BY <1>2, <2>1 DEF Event
  <2>3. sent' = [sent EXCEPT ![n] = e]
    BY <1>1
  <2> HIDE DEF e
  <2> QED
    BY <2>2, <2>3
<1>7. /\ sent' \in Seq(Event) /\ Id' = Id /\ sent'[n] = e
      /\ \A m \in Id \ {n} : sent'[m] = sent[m]
  BY <1>1, <1>6, EventChanges
<1>8. /\ heard' \in [Handler -> Seq(Nat)] /\ handlers' \in [Type \cup {All} -> Seq(Handler)]
      /\ \A g \in Handler, m \in Nat : m # n => Times(m, heard'[g]) = Times(m, heard[g])
  <2>1. CASE UNCHANGED <<heard, handlers>>
    BY <1>2, <2>1 DEF Shapes
  <2>2. CASE Hears(h, n) /\ Leaves(h, t)
    <3>1. \A g \in Handler, m \in Nat : Times(m, heard[g]) \in Nat
      BY <1>2, TimesIsNumber DEF Shapes
    <3>2. /\ heard' \in [Handler -> Seq(Nat)]
          /\ \A g \in Handler, m \in Nat :
               Times(m, heard'[g]) = Times(m, heard[g]) + (IF m = n /\ g = h THEN 1 ELSE 0)
      BY <1>1, <1>5, <2>2, HandlerHears
    <3>3. handlers' \in [Type \cup {All} -> Seq(Handler)]
      BY <1>2, <1>3, <1>5, <2>2, BusLeaves
    <3> QED
      BY <3>1, <3>2, <3>3
  <2> QED
    BY <1>1, <2>1, <2>2
<1>9. Shapes'
  BY <1>7, <1>8 DEF Shapes
<1>10. Id \subseteq Nat
  BY <1>2, IdsAreNumbers
<1>11. ASSUME NEW m \in Id PROVE Progress(m)'
  <2>1. CASE m # n
    <3>1. Progress(m) /\ sent'[m] = sent[m] /\ \A g \in Handler : Times(m, heard'[g]) = Times(m, heard[g])
      BY <1>7, <1>8, <1>10, <2>1 DEF BusInv
    <3> QED
      BY <3>1 DEF Progress
  <2>2. CASE m = n
    BY <1>1, <1>3, <1>6, <1>7, <2>2 DEF Progress
  <2> QED
    BY <2>1, <2>2
<1>12. \A m \in Nat \ Id', g \in Handler : Times(m, heard'[g]) = 0
  BY <1>1, <1>7, <1>8 DEF BusInv
<1> QED
  BY <1>7, <1>9, <1>11, <1>12 DEF BusInv

LEMMA BusSteps == BusInv /\ [Next]_vars => BusInv'
<1> SUFFICES ASSUME BusInv, [Next]_vars PROVE BusInv'
  OBVIOUS
<1>1. CASE UNCHANGED vars
  BY <1>1 DEF vars, BusInv, Shapes, Id, Progress
<1>2. ASSUME NEW n, Loop(n) PROVE BusInv'
  BY <1>2, BusTakesUp, BusCalls, BusMoves, BusThreadCalls DEF Loop
<1> QED
  BY <1>1, <1>2, BusSubscribes, BusSends DEF Next

\* When a published event is done, every handler that was subscribed when it began has
\* been called once for each subscription, whichever handlers raised, suspended or left
\* (publish): for any handlers and subscriptions, and any number of events.
THEOREM HandlersAreCalled == Spec => []EveryHandlerCalled
<1>1. BusInv => EveryHandlerCalled
  <2> SUFFICES ASSUME BusInv, NEW n \in Id, sent[n].stage = "done", sent[n].mode # "noloop", NEW h \in Handler
               PROVE  Times(n, heard[h]) = Times(h, sent[n].due)
    BY DEF EveryHandlerCalled
  <2>1. sent[n].rest = <<>> /\ Times(n, heard[h]) + Times(h, sent[n].rest) = Times(h, sent[n].due)
    BY DEF BusInv, Progress
  <2>2. Times(h, sent[n].rest) = 0
    BY <2>1, TimesOfEmpty
  <2>3. heard[h] \in Seq(Nat)
    BY DEF BusInv, Shapes
  <2>4. Times(n, heard[h]) \in Nat
    BY <2>3, TimesIsNumber
  <2> QED
    BY <2>1, <2>2, <2>4
<1> QED
  BY <1>1, BusStarts, BusSteps, PTL DEF Spec
=============================================================================
