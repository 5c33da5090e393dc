---------------------------- MODULE Webhooks_proofs ----------------------------
(***************************************************************************)
(* Proofs about deliveries, for any endpoints, events and numbers of       *)
(* attempts and retries, and whatever fails (Webhooks).                    *)
(***************************************************************************)
EXTENDS Webhooks, FiniteSetTheorems, TLAPS

-----------------------------------------------------------------------------
(* One answer. *)

Shapes ==
  /\ DOMAIN stage = Dispatch /\ DOMAIN at = Dispatch
  /\ \A d \in Dispatch : DOMAIN at[d] = Hook
  /\ acked \in [Dispatch -> [Hook -> Nat]]

\* Nothing is sent before the task runs its delivery, a delivery that has not come to an
\* answer has none, and it ends with its first.
AnsweredOnce(d, h) ==
  /\ acked[d][h] <= 1
  /\ stage[d] \in {"new", "queued"} => acked[d][h] = 0
  /\ stage[d] = "running" /\ at[d][h] # "ok" => acked[d][h] = 0

AckInv ==
  /\ Shapes
  /\ \A d \in Dispatch, h \in Hook : AnsweredOnce(d, h)

\* A step that leaves the answers alone and does not take an event back.
LEMMA NotAnswered ==
  ASSUME AckInv, Shapes', acked' = acked,
         \A d \in Dispatch :
           /\ stage'[d] \in {"new", "queued"} => stage[d] \in {"new", "queued"}
           /\ stage'[d] = "running" =>
                \/ stage[d] = "queued"
                \/ stage[d] = "running" /\ \A h \in Hook : at[d][h] = "ok" => at'[d][h] = "ok"
  PROVE  AckInv'
BY DEF AckInv, AnsweredOnce

LEMMA AckBegins ==
  ASSUME AckInv, NEW d \in Dispatch, Submit(d) \/ StoreUnavailable(d) \/ Begin(d) \/ End(d)
  PROVE  AckInv'
<1>1. CASE Submit(d) \/ StoreUnavailable(d) \/ End(d)
  <2>1. /\ UNCHANGED <<at, acked>> /\ DOMAIN stage' = Dispatch
        /\ \A e \in Dispatch : e # d => stage'[e] = stage[e]
        /\ \/ stage[d] \in {"new", "queued"} /\ stage'[d] \in {"queued", "failed"}
           \/ stage'[d] = "done"
    BY <1>1 DEF Submit, StoreUnavailable, Retry, End, Complete, Done, AckInv, Shapes
  <2> QED
    BY <2>1, NotAnswered DEF AckInv, Shapes
<1>2. CASE Begin(d)
  <2>1. /\ stage[d] = "queued" /\ stage' = [stage EXCEPT ![d] = "running"] /\ UNCHANGED acked
        /\ \E S : at' = [at EXCEPT ![d] = [h \in Hook |-> IF h \in S THEN "post" ELSE "none"]]
    BY <1>2 DEF Begin
  <2>2. /\ DOMAIN at' = Dispatch /\ DOMAIN at'[d] = Hook
        /\ \A e \in Dispatch : e # d => at'[e] = at[e] /\ stage'[e] = stage[e]
    BY <2>1 DEF AckInv, Shapes
  <2>3. Shapes'
    BY <2>1, <2>2 DEF AckInv, Shapes
  <2> QED
    BY <2>1, <2>2, <2>3, NotAnswered DEF AckInv, Shapes
<1> QED
  BY <1>1, <1>2

\* The place of a delivery is another one; the others are where they were.
LEMMA OnePlace ==
  ASSUME AckInv, NEW d \in Dispatch, NEW h \in Hook, NEW place, at' = [at EXCEPT ![d][h] = place]
  PROVE  /\ DOMAIN at' = Dispatch /\ (\A e \in Dispatch : DOMAIN at'[e] = Hook) /\ at'[d][h] = place
         /\ \A e \in Dispatch, g \in Hook : e # d \/ g # h => at'[e][g] = at[e][g]
BY DEF AckInv, Shapes

LEMMA OneMore ==
  ASSUME AckInv, NEW d \in Dispatch, NEW h \in Hook, acked' = [acked EXCEPT ![d][h] = @ + 1]
  PROVE  /\ acked' \in [Dispatch -> [Hook -> Nat]] /\ acked'[d][h] = acked[d][h] + 1
         /\ \A e \in Dispatch, g \in Hook : e # d \/ g # h => acked'[e][g] = acked[e][g]
BY DEF AckInv, Shapes

\* An answer comes to a delivery that has none.
LEMMA AckAnswered ==
  ASSUME AckInv, NEW d \in Dispatch, NEW h \in Hook, Answered(d, h)
  PROVE  AckInv'
<1>1. /\ stage[d] = "running" /\ at[d][h] = "post" /\ stage' = stage
      /\ at' = [at EXCEPT ![d][h] = "ok"] /\ acked' = [acked EXCEPT ![d][h] = @ + 1]
  BY DEF Answered
<1>2. acked[d][h] = 0
  BY <1>1 DEF AckInv, AnsweredOnce
<1>3. Shapes'
  BY <1>1, OnePlace, OneMore DEF AckInv, Shapes
<1>4. ASSUME NEW e \in Dispatch, NEW g \in Hook PROVE AnsweredOnce(e, g)'
  <2>1. CASE e = d /\ g = h
    <3>1. at'[d][h] = "ok"
      BY <1>1, OnePlace
    <3>2. acked'[d][h] = acked[d][h] + 1
      BY <1>1, OneMore
    <3> QED
      BY <1>1, <1>2, <2>1, <3>1, <3>2 DEF AnsweredOnce
  <2>2. CASE e # d \/ g # h
    <3>1. acked'[e][g] = acked[e][g] /\ at'[e][g] = at[e][g]
      BY <1>1, <2>2, OnePlace, OneMore
    <3> QED
      BY <1>1, <3>1 DEF AckInv, AnsweredOnce
  <2> QED
    BY <2>1, <2>2
<1> QED
  BY <1>3, <1>4 DEF AckInv

LEMMA AckUnanswered ==
  ASSUME AckInv, NEW d \in Dispatch, NEW h \in Hook, AttemptFails(d, h) \/ BackoffOver(d, h)
  PROVE  AckInv'
<1>1. at[d][h] # "ok" /\ UNCHANGED <<stage, acked>>
  BY DEF AttemptFails, BackoffOver
<1> PICK place : at' = [at EXCEPT ![d][h] = place]
  BY DEF AttemptFails, BackoffOver
<1>2. /\ DOMAIN at' = Dispatch /\ (\A e \in Dispatch : DOMAIN at'[e] = Hook)
      /\ \A e \in Dispatch, g \in Hook : e # d \/ g # h => at'[e][g] = at[e][g]
  BY OnePlace
<1>3. Shapes'
  BY <1>1, <1>2 DEF AckInv, Shapes
<1> QED
  BY <1>1, <1>2, <1>3, NotAnswered DEF AckInv, Shapes

\* A worker that dies may leave one answer that it has not logged; nothing follows it.
LEMMA AckCrash ==
  ASSUME AckInv, NEW d \in Dispatch, Crash(d)
  PROVE  AckInv'
<1>1. stage[d] = "running" /\ stage' = [stage EXCEPT ![d] = "lost"] /\ at' = at
  BY DEF Crash
<1>2. CASE acked' = acked
  <2>1. Shapes'
    BY <1>1, <1>2 DEF AckInv, Shapes
  <2> QED
    BY <1>1, <1>2, <2>1, NotAnswered DEF AckInv, Shapes
<1>3. ASSUME NEW h \in Hook, at[d][h] = "post", acked' = [acked EXCEPT ![d][h] = @ + 1] PROVE AckInv'
  <2>1. acked[d][h] = 0
    BY <1>1, <1>3 DEF AckInv, AnsweredOnce
  <2>2. Shapes'
    BY <1>1, <1>3, OneMore DEF AckInv, Shapes
  <2>3. ASSUME NEW e \in Dispatch, NEW g \in Hook PROVE AnsweredOnce(e, g)'
    <3>1. CASE e = d /\ g = h
      BY <1>1, <1>3, <2>1, <3>1, OneMore DEF AckInv, Shapes, AnsweredOnce
    <3>2. CASE e # d \/ g # h
      <4>1. acked'[e][g] = acked[e][g]
        BY <1>3, <3>2, OneMore
      <4> QED
        BY <1>1, <4>1 DEF AckInv, Shapes, AnsweredOnce
    <3> QED
      BY <3>1, <3>2
  <2> QED
    BY <2>2, <2>3 DEF AckInv
<1> QED
  BY <1>2, <1>3 DEF Crash

\* An event that a receiver has acknowledged is not sent to it again, whatever fails and
\* however often its task is run (_deliver, dispatch_webhook_task).
THEOREM AcknowledgedOnce == Spec => []AckedOnce
<1>1. Init => AckInv
  BY DEF Init, AckInv, Shapes, AnsweredOnce, Unsent, Zero
<1>2. AckInv /\ [Next]_vars => AckInv'
  <2> SUFFICES ASSUME AckInv, [Next]_vars PROVE AckInv'
    OBVIOUS
  <2>1. ASSUME NEW h \in Hook, Register(h) \/ Deactivate(h) PROVE AckInv'
    BY <2>1 DEF Register, Deactivate, AckInv, Shapes, AnsweredOnce
  <2>2. ASSUME NEW d \in Dispatch, Submit(d) \/ StoreUnavailable(d) \/ Begin(d) \/ End(d) PROVE AckInv'
    BY <2>2, AckBegins
  <2>3. ASSUME NEW d \in Dispatch, NEW h \in Hook, Deliver(d, h) PROVE AckInv'
    BY <2>3, AckAnswered, AckUnanswered DEF Deliver
  <2>4. ASSUME NEW d \in Dispatch, Crash(d) PROVE AckInv'
    BY <2>4, AckCrash
  <2>5. CASE UNCHANGED vars
    BY <2>5 DEF vars, AckInv, Shapes, AnsweredOnce
  <2> QED
    BY <2>1, <2>2, <2>3, <2>4, <2>5 DEF Next, Run
<1>3. AckInv => AckedOnce
  BY DEF AckInv, AnsweredOnce, AckedOnce
<1> QED
  BY <1>1, <1>2, <1>3, PTL DEF Spec

-----------------------------------------------------------------------------
(* The counters. *)

Row == [state : {"absent", "active", "inactive"}, delivered : Nat, failures : Nat]

CountInv ==
  /\ hook \in [Hook -> Row]
  /\ acked \in [Dispatch -> [Hook -> Nat]]
  /\ refused \in [Hook -> Nat]
  /\ \A h \in Hook : IsFiniteSet(Acks(h))
  /\ CountersMatchAnswers

\* A hook whose row and whose answers stay as they are, or which has lost an entry.
LEMMA CountsStay ==
  ASSUME CountInv, hook' \in [Hook -> Row], acked' \in [Dispatch -> [Hook -> Nat]], refused' \in [Hook -> Nat],
         \A h \in Hook : IsFiniteSet(Acks(h)'),
         missed \subseteq missed',
         \A h \in Hook \ missed' :
           /\ hook'[h].delivered = hook[h].delivered /\ hook'[h].failures = hook[h].failures
           /\ refused'[h] = refused[h] /\ \A d \in Dispatch : acked'[d][h] = acked[d][h]
  PROVE  CountInv'
<1>1. ASSUME NEW h \in Hook \ missed' PROVE Acks(h)' = Acks(h)
  BY DEF Acks
<1> QED
  BY <1>1 DEF CountInv, CountersMatchAnswers

LEMMA HookCounts ==
  ASSUME CountInv, NEW h \in Hook
  PROVE  /\ [hook EXCEPT ![h].delivered = @ + 1] \in [Hook -> Row]
         /\ [hook EXCEPT ![h].failures = @ + 1] \in [Hook -> Row]
         /\ \A state \in {"active", "inactive"} : [hook EXCEPT ![h].state = state] \in [Hook -> Row]
<1>1. hook[h] \in Row
  BY DEF CountInv
<1>2. hook[h].delivered + 1 \in Nat /\ hook[h].failures + 1 \in Nat
  BY <1>1 DEF Row
<1>3. /\ [hook[h] EXCEPT !.delivered = hook[h].delivered + 1] \in Row
      /\ [hook[h] EXCEPT !.failures = hook[h].failures + 1] \in Row
      /\ \A state \in {"active", "inactive"} : [hook[h] EXCEPT !.state = state] \in Row
  BY <1>1, <1>2 DEF Row
<1> QED
  BY <1>3 DEF CountInv

LEMMA RegistrationCounts ==
  ASSUME CountInv, NEW h \in Hook, Register(h) \/ Deactivate(h)
  PROVE  CountInv'
<1> PICK state \in {"active", "inactive"} :
      hook' = [hook EXCEPT ![h].state = state] /\ UNCHANGED <<acked, refused, missed>>
  BY DEF Register, Deactivate
<1>1. hook' \in [Hook -> Row]
  BY HookCounts
<1>2. \A g \in Hook : hook'[g].delivered = hook[g].delivered /\ hook'[g].failures = hook[g].failures
  BY DEF CountInv, Row
<1>3. \A g \in Hook : Acks(g)' = Acks(g)
  BY DEF Acks
<1> QED
  BY <1>1, <1>2, <1>3, CountsStay DEF CountInv

\* One more answer of a hook to an event.
LEMMA OneMoreAck ==
  ASSUME CountInv, NEW d \in Dispatch, NEW h \in Hook, acked' = [acked EXCEPT ![d][h] = @ + 1]
  PROVE  /\ acked' \in [Dispatch -> [Hook -> Nat]]
         /\ IsFiniteSet(Acks(h)') /\ Cardinality(Acks(h)') = Cardinality(Acks(h)) + 1
         /\ \A g \in Hook \ {h} : Acks(g)' = Acks(g)
<1> DEFINE n == acked[d][h]
<1>1. n \in Nat /\ n + 1 \in Nat /\ acked' \in [Dispatch -> [Hook -> Nat]]
  BY DEF CountInv
<1>2. acked'[d][h] = n + 1 /\ \A e \in Dispatch, g \in Hook : e # d \/ g # h => acked'[e][g] = acked[e][g]
  BY DEF CountInv
<1>3. Acks(h)' = Acks(h) \cup {<<d, n + 1>>} /\ <<d, n + 1>> \notin Acks(h)
  <2>1. \A a : a \in Acks(h) <=> \E e \in Dispatch : \E i \in 1 .. acked[e][h] : a = <<e, i>>
    <3>1. ASSUME NEW e \in Dispatch, NEW a
          PROVE  a \in {e} \X (1 .. acked[e][h]) <=> \E i \in 1 .. acked[e][h] : a = <<e, i>>
      OBVIOUS
    <3>2. ASSUME NEW a PROVE a \in Acks(h) <=> \E e \in Dispatch : a \in {e} \X (1 .. acked[e][h])
      BY Zenon DEF Acks
    <3> QED
      BY <3>1, <3>2
  <2>2. \A a : a \in Acks(h)' <=> \E e \in Dispatch : \E i \in 1 .. acked'[e][h] : a = <<e, i>>
    BY DEF Acks
  <2>3. 1 .. n + 1 = (1 .. n) \cup {n + 1} /\ n + 1 \notin 1 .. n
    BY <1>1
  <2>4. <<d, n + 1>> \notin Acks(h)
    BY <2>1, <2>3
  <2>5. ASSUME NEW a \in Acks(h)' PROVE a \in Acks(h) \cup {<<d, n + 1>>}
    BY <1>2, <2>1, <2>2, <2>3
  <2>6. ASSUME NEW a \in Acks(h) \cup {<<d, n + 1>>} PROVE a \in Acks(h)'
    BY <1>2, <2>1, <2>2, <2>3
  <2> QED
    BY <2>4, <2>5, <2>6
<1>4. IsFiniteSet(Acks(h)') /\ Cardinality(Acks(h)') = Cardinality(Acks(h)) + 1
  BY <1>3, FS_AddElement DEF CountInv
<1>5. \A g \in Hook \ {h} : Acks(g)' = Acks(g)
  BY <1>2 DEF Acks
<1> QED
  BY <1>1, <1>4, <1>5

\* An answer is counted unless its entry is lost.
LEMMA AnswerCounts ==
  ASSUME CountInv, NEW d \in Dispatch, NEW h \in Hook, Answered(d, h)
  PROVE  CountInv'
<1>1. acked' = [acked EXCEPT ![d][h] = @ + 1] /\ refused' = refused
  BY DEF Answered
<1>2. /\ acked' \in [Dispatch -> [Hook -> Nat]]
      /\ Cardinality(Acks(h)') = Cardinality(Acks(h)) + 1
      /\ \A g \in Hook \ {h} : Acks(g)' = Acks(g)
      /\ \A g \in Hook : IsFiniteSet(Acks(g)')
  <2>1. \A g \in Hook : g = h \/ Acks(g)' = Acks(g)
    BY <1>1, OneMoreAck
  <2> QED
    BY <1>1, <2>1, OneMoreAck DEF CountInv
<1>3. CASE hook' = [hook EXCEPT ![h].delivered = @ + 1] /\ missed' = missed
  <2>1. hook' \in [Hook -> Row]
    BY <1>3, HookCounts
  <2>2. ASSUME NEW g \in Hook \ missed PROVE hook'[g].delivered = Cardinality(Acks(g)') /\ hook'[g].failures = refused'[g]
    <3>1. hook[g].delivered = Cardinality(Acks(g)) /\ hook[g].failures = refused[g] /\ hook[g] \in Row
      BY DEF CountInv, CountersMatchAnswers
    <3>2. hook'[g].failures = hook[g].failures /\ hook'[g].delivered = IF g = h THEN hook[g].delivered + 1 ELSE hook[g].delivered
      BY <1>3, <3>1 DEF CountInv, Row
    <3> QED
      BY <1>1, <1>2, <3>1, <3>2
  <2> QED
    BY <1>1, <1>2, <1>3, <2>1, <2>2 DEF CountInv, CountersMatchAnswers
<1>4. CASE hook' = hook /\ missed' = missed \cup {h}
  <2>1. ASSUME NEW g \in Hook \ missed' PROVE hook'[g].delivered = Cardinality(Acks(g)') /\ hook'[g].failures = refused'[g]
    BY <1>1, <1>2, <1>4 DEF CountInv, CountersMatchAnswers
  <2> QED
    BY <1>1, <1>2, <1>4, <2>1 DEF CountInv, CountersMatchAnswers
<1> QED
  BY <1>3, <1>4 DEF Answered, LogDelivery, Success

LEMMA FailureCounts ==
  ASSUME CountInv, NEW d \in Dispatch, NEW h \in Hook, AttemptFails(d, h)
  PROVE  CountInv'
<1>1. refused' = [refused EXCEPT ![h] = @ + 1] /\ acked' = acked
  BY DEF AttemptFails
<1>2. refused' \in [Hook -> Nat]
  BY <1>1 DEF CountInv
<1>3. CASE hook' = [hook EXCEPT ![h].failures = @ + 1] /\ missed' = missed
  <2>1. hook' \in [Hook -> Row]
    BY <1>3, HookCounts
  <2>2. ASSUME NEW g \in Hook \ missed
        PROVE  hook'[g].delivered = hook[g].delivered /\ hook'[g].failures = refused'[g]
    BY <1>1, <1>3, <2>2 DEF CountInv, CountersMatchAnswers, Row
  <2> QED
    BY <1>1, <1>2, <1>3, <2>1, <2>2 DEF CountInv, CountersMatchAnswers, Acks
<1>4. CASE hook' = hook /\ missed' = missed \cup {h}
  <2>1. \A g \in Hook : Acks(g)' = Acks(g)
    BY <1>1 DEF Acks
  <2> QED
    BY <1>1, <1>2, <1>4, <2>1, CountsStay DEF CountInv
<1> QED
  BY <1>3, <1>4 DEF AttemptFails, LogDelivery, Success

\* A worker that dies may leave an answer that is not logged: then the entry is lost.
LEMMA CrashCounts ==
  ASSUME CountInv, NEW d \in Dispatch, Crash(d)
  PROVE  CountInv'
<1>1. hook' = hook /\ refused' = refused
  BY DEF Crash
<1>2. CASE UNCHANGED <<acked, missed>>
  <2>1. \A h \in Hook : Acks(h)' = Acks(h)
    BY <1>2 DEF Acks
  <2> QED
    BY <1>1, <1>2, <2>1 DEF CountInv, CountersMatchAnswers
<1>3. ASSUME NEW h \in Hook, acked' = [acked EXCEPT ![d][h] = @ + 1], missed' = missed \cup {h} PROVE CountInv'
  <2>1. acked' \in [Dispatch -> [Hook -> Nat]] /\ \A g \in Hook : IsFiniteSet(Acks(g)')
    <3>1. \A g \in Hook : g = h \/ Acks(g)' = Acks(g)
      BY <1>3, OneMoreAck
    <3> QED
      BY <1>3, <3>1, OneMoreAck DEF CountInv
  <2>2. \A e \in Dispatch, g \in Hook : g # h => acked'[e][g] = acked[e][g]
    BY <1>3 DEF CountInv
  <2> QED
    BY <1>1, <1>3, <2>1, <2>2, CountsStay DEF CountInv
<1> QED
  BY <1>2, <1>3 DEF Crash

\* delivery_count is the number of 2xx answers of the endpoint to all events and
\* failure_count that of its failed attempts, until a log entry is lost (log_delivery),
\* for any endpoints and events and however their deliveries interleave.
THEOREM CountersAgree == Spec => []CountersMatchAnswers
<1>1. Init => CountInv
  <2> SUFFICES ASSUME Init PROVE CountInv
    OBVIOUS
  <2>1. \A h \in Hook : Acks(h) = {}
    <3>1. \A d \in Dispatch, h \in Hook : acked[d][h] = 0
      BY DEF Init, Zero
    <3> QED
      BY <3>1 DEF Acks
  <2>2. \A h \in Hook : IsFiniteSet(Acks(h)) /\ Cardinality(Acks(h)) = 0
    BY <2>1, FS_EmptySet
  <2> QED
    BY <2>2 DEF Init, CountInv, CountersMatchAnswers, Row, Zero
<1>2. CountInv /\ [Next]_vars => CountInv'
  <2> SUFFICES ASSUME CountInv, [Next]_vars PROVE CountInv'
    OBVIOUS
  <2>1. ASSUME NEW h \in Hook, Register(h) \/ Deactivate(h) PROVE CountInv'
    BY <2>1, RegistrationCounts
  <2>2. CASE UNCHANGED <<hook, acked, refused, missed>>
    BY <2>2 DEF CountInv, CountersMatchAnswers, Acks
  <2>3. ASSUME NEW d \in Dispatch, Submit(d) \/ StoreUnavailable(d) \/ Begin(d) \/ End(d)
        PROVE  UNCHANGED <<hook, acked, refused, missed>>
    BY <2>3 DEF Submit, StoreUnavailable, Retry, Begin, End, Complete, Done
  <2>4. ASSUME NEW d \in Dispatch, NEW h \in Hook, Deliver(d, h) PROVE CountInv'
    BY <2>2, <2>4, AnswerCounts, FailureCounts DEF Deliver, BackoffOver
  <2>5. ASSUME NEW d \in Dispatch, Crash(d) PROVE CountInv'
    BY <2>5, CrashCounts
  <2>6. CASE UNCHANGED vars
    BY <2>2, <2>6 DEF vars
  <2> QED
    BY <2>1, <2>2, <2>3, <2>4, <2>5, <2>6 DEF Next, Run
<1>3. CountInv => CountersMatchAnswers
  BY DEF CountInv
<1> QED
  BY <1>1, <1>2, <1>3, PTL DEF Spec
=============================================================================
