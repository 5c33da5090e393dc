------------------------- MODULE TaskScheduler_proofs -------------------------
(***************************************************************************)
(* Proofs about the scheduler loop, for any tasks, intervals and length of *)
(* a pass, and whatever fails (TaskScheduler).                             *)
(***************************************************************************)
EXTENDS TaskScheduler, FiniteSetTheorems, SequenceTheorems, TLAPS

\* One thread runs the loop at a time: start returns when _running is set.  (A start
\* between stop and the end of the old thread breaks it, and the theorem with it.)
OneLoop == \A s, t \in Thread : s = t

Places == {"stopped", "top", "pass", "enqueue"}

Shapes ==
  /\ order \in Seq(Task)
  /\ pc \in [Thread -> Places]
  /\ since \in [Thread -> 0 .. MaxPass]
  /\ cur \in [Thread -> Task]
  /\ mine \in [Thread -> BOOLEAN]
  /\ DOMAIN age = Task /\ DOMAIN gap = Task

\* The stamp and the true time of the last enqueue are MaxPass apart at most.
ClocksAgree(n) ==
  \/ age[n] = Never /\ gap[n] = Never
  \/ /\ age[n] \in 0 .. Horizon(n) /\ gap[n] \in 0 .. Horizon(n)
     /\ age[n] <= gap[n] + MaxPass

\* A task that a thread is about to enqueue is still due.
StillDue(t) == (pc[t] = "enqueue" /\ mine[t]) => IsDue(cur[t], t)

PassInv ==
  /\ Shapes
  /\ \A n \in Task : ClocksAgree(n)
  /\ \A t \in Thread : StillDue(t)

USE IntervalType, MaxPassType, NeverFresh

-----------------------------------------------------------------------------
\* Removing an element of a sequence leaves a sequence.
LEMMA RemovalStays ==
  ASSUME NEW S, NEW s \in Seq(S), NEW i \in DOMAIN s
  PROVE  RemoveAt(s, i) \in Seq(S)
<1>1. Len(s) \in Nat /\ i \in 1 .. Len(s) /\ \A j \in 1 .. Len(s) : s[j] \in S
  BY LenProperties, ElementOfSeq
<1>2. SubSeq(s, 1, i - 1) \in Seq(S)
  <2>1. \A j \in 1 .. i - 1 : s[j] \in S
    BY <1>1
  <2> QED
    BY <1>1, <2>1, SubSeqProperties
<1>3. SubSeq(s, i + 1, Len(s)) \in Seq(S)
  <2>1. \A j \in i + 1 .. Len(s) : s[j] \in S
    BY <1>1
  <2> QED
    BY <1>1, <2>1, SubSeqProperties
<1> QED
  BY <1>2, <1>3, ConcatProperties DEF RemoveAt

\* The tasks that the program registers come in one order or the reverse.
LEMMA OrderStarts ==
  ASSUME Init PROVE order \in Seq(Task)
<1> DEFINE N == Cardinality(Task)
           s == SetToSeq(Task)
<1>1. N \in Nat /\ s \in [1 .. N -> Task]
  BY TaskType, FS_CardinalityType DEF SetToSeq, ExistsBijection, Bijection, Injection
<1> HIDE DEF N, s
<1>2. s \in Seq(Task) /\ Len(s) = N
  BY <1>1
<1>3. Reverse(s) \in Seq(Task)
  <2>1. \A i \in 1 .. N : (N - i) + 1 \in 1 .. N
    BY <1>1
  <2>2. [i \in 1 .. N |-> s[(N - i) + 1]] \in [1 .. N -> Task]
    BY <1>1, <2>1
  <2> QED
    BY <1>1, <1>2, <2>2 DEF Reverse
<1> QED
  BY <1>2, <1>3 DEF Init, s

LEMMA PassStarts == Init => PassInv
<1> SUFFICES ASSUME Init PROVE PassInv
  OBVIOUS
<1>1. Shapes
  <2>1. order \in Seq(Task)
    BY OrderStarts
  <2>2. (CHOOSE n \in Task : TRUE) \in Task
    BY TaskType
  <2>3. 0 \in 0 .. MaxPass
    OBVIOUS
  <2>4. cur \in [Thread -> Task]
    BY <2>2 DEF Init
  <2>5. since \in [Thread -> 0 .. MaxPass]
    BY <2>3 DEF Init
  <2> QED
    BY <2>1, <2>4, <2>5 DEF Init, Shapes, Places
<1> QED
  BY <1>1 DEF Init, PassInv, ClocksAgree, StillDue

-----------------------------------------------------------------------------
(* Steps. *)

\* A step that stamps nothing keeps the clocks, and what a thread does not begin to
\* enqueue stays due.
LEMMA NothingStamped ==
  ASSUME PassInv, Shapes', UNCHANGED <<age, gap>>,
         NEW t \in Thread, (pc'[t] = "enqueue" /\ mine'[t]) =>
           pc[t] = "enqueue" /\ mine[t] /\ cur'[t] = cur[t] /\ since'[t] = since[t]
  PROVE  StillDue(t)' /\ \A n \in Task : ClocksAgree(n)'
<1>1. StillDue(t) /\ \A n \in Task : ClocksAgree(n)
  BY DEF PassInv
<1>2. StillDue(t)'
  BY <1>1 DEF StillDue, IsDue
<1>3. \A n \in Task : ClocksAgree(n)'
  BY <1>1 DEF ClocksAgree
<1> QED
  BY <1>2, <1>3

LEMMA CallersStep ==
  ASSUME PassInv, NEW n \in Task,
         Register(n) \/ Unregister(n) \/ (\E on \in BOOLEAN : SetEnabled(n, on)) \/ Start \/ Stop \/ Crash
  PROVE  PassInv'
<1> USE DEF PassInv
<1>1. CASE Register(n)
  <2>1. Shapes'
    BY <1>1, AppendProperties DEF Register, Shapes, AddKey
  <2>2. ASSUME NEW m \in Task PROVE ClocksAgree(m)'
    <3>1. CASE m = n
      BY <1>1, <3>1 DEF Register, Shapes, ClocksAgree
    <3>2. CASE m # n
      BY <1>1, <3>2 DEF Register, Shapes, ClocksAgree
    <3> QED
      BY <3>1, <3>2
  <2>3. ASSUME NEW t \in Thread PROVE StillDue(t)'
    BY <1>1 DEF Register, Shapes, StillDue, IsDue
  <2> QED
    BY <2>1, <2>2, <2>3
<1>2. CASE Unregister(n)
  <2>1. Shapes'
    BY <1>2, RemovalStays DEF Unregister, Shapes
  <2>2. ASSUME NEW t \in Thread PROVE mine'[t] => mine[t]
    BY <1>2 DEF Unregister, Shapes
  <2> QED
    BY <1>2, <2>1, <2>2, NothingStamped DEF Unregister, ClocksAgree
<1>3. ASSUME NEW on \in BOOLEAN, SetEnabled(n, on) PROVE PassInv'
  BY <1>3 DEF SetEnabled, thread, Shapes, ClocksAgree, StillDue, IsDue
<1>4. CASE Start
  <2>1. Shapes'
    BY <1>4 DEF Start, Shapes, Places
  <2>2. ASSUME NEW t \in Thread PROVE pc'[t] = "enqueue" => pc[t] = "enqueue"
    BY <1>4 DEF Start, Shapes
  <2> QED
    BY <1>4, <2>1, <2>2, NothingStamped DEF Start, ClocksAgree
<1>5. CASE Stop
  BY <1>5 DEF Stop, thread, Shapes, ClocksAgree, StillDue, IsDue
<1>6. CASE Crash
  BY <1>6 DEF Crash, Shapes, Places, ClocksAgree, StillDue
<1> QED
  BY <1>1, <1>2, <1>3, <1>4, <1>5, <1>6

\* The steps of a thread that move it in its loop.
LEMMA LoopSteps ==
  ASSUME PassInv, NEW t \in Thread,
         LoopExits(t) \/ BeginPass(t) \/ EndPass(t) \/ EnqueueRaises(t)
  PROVE  PassInv'
<1>1. Shapes
  BY DEF PassInv
<1>2. /\ UNCHANGED <<order, age, gap, cur, mine>>
      /\ \E place \in Places \ {"enqueue"} : pc' = [pc EXCEPT ![t] = place]
      /\ since' = since \/ since' = [since EXCEPT ![t] = 0]
  BY DEF LoopExits, BeginPass, EndPass, EnqueueRaises, Places
<1>3. Shapes'
  <2>1. pc' \in [Thread -> Places]
    BY <1>1, <1>2 DEF Shapes
  <2>2. since' \in [Thread -> 0 .. MaxPass]
    <3>1. since \in [Thread -> 0 .. MaxPass] /\ 0 \in 0 .. MaxPass
      BY <1>1 DEF Shapes
    <3> QED
      BY <1>2, <3>1
  <2> QED
    BY <1>1, <1>2, <2>1, <2>2 DEF Shapes
<1>4. ASSUME NEW s \in Thread
      PROVE  pc'[s] = "enqueue" => pc[s] = "enqueue" /\ since'[s] = since[s]
  BY <1>1, <1>2 DEF Shapes
<1>5. \A s \in Thread : StillDue(s)' /\ \A n \in Task : ClocksAgree(n)'
  BY <1>2, <1>3, <1>4, NothingStamped
<1>6. \A n \in Task : ClocksAgree(n)'
  BY <1>5
<1> QED
  BY <1>3, <1>5, <1>6 DEF PassInv

\* A thread begins to enqueue only what is due.
LEMMA LookSteps ==
  ASSUME PassInv, NEW t \in Thread, Look(t)
  PROVE  PassInv'
<1>1. Shapes
  BY DEF PassInv
<1>2. PICK i \in Remaining(t) :
        IF Selects(order[i], t)
        THEN /\ pc' = [pc EXCEPT ![t] = "enqueue"]
             /\ cur' = [cur EXCEPT ![t] = order[i]]
             /\ mine' = [mine EXCEPT ![t] = TRUE]
        ELSE UNCHANGED <<pc, cur, mine>>
  BY DEF Look
<1>3. UNCHANGED <<order, age, gap, since>>
  BY DEF Look
<1>4. order[i] \in Task
  BY <1>1, LenProperties, ElementOfSeq DEF Shapes, Remaining
<1>5. Shapes'
  BY <1>1, <1>2, <1>3, <1>4 DEF Shapes, Places
<1>6. ASSUME NEW n \in Task PROVE ClocksAgree(n)'
  BY <1>3 DEF PassInv, ClocksAgree
<1>7. ASSUME NEW s \in Thread PROVE StillDue(s)'
  <2>1. StillDue(s)
    BY DEF PassInv
  <2>2. CASE s = t /\ Selects(order[i], t)
    BY <1>1, <1>2, <1>3, <2>2 DEF StillDue, Selects, IsDue, Shapes
  <2>3. CASE s # t \/ ~Selects(order[i], t)
    BY <1>1, <1>2, <1>3, <2>1, <2>3 DEF StillDue, IsDue, Shapes
  <2> QED
    BY <2>2, <2>3
<1> QED
  BY <1>5, <1>6, <1>7 DEF PassInv

\* The stamp is as old as the pass is long, and no other thread had the task in hand.
LEMMA EnqueueSteps ==
  ASSUME OneLoop, PassInv, NEW t \in Thread, EnqueueTask(t)
  PROVE  PassInv'
<1>1. Shapes
  BY DEF PassInv
<1>2. /\ pc' = [pc EXCEPT ![t] = "pass"] /\ UNCHANGED <<order, since, cur, mine>>
      /\ \/ mine[t] /\ age' = [age EXCEPT ![cur[t]] = since[t]] /\ gap' = [gap EXCEPT ![cur[t]] = 0]
         \/ UNCHANGED <<age, gap>>
  BY DEF EnqueueTask, Stamp
<1>3. Shapes'
  BY <1>1, <1>2 DEF Shapes, Places
<1>4. \A s \in Thread : StillDue(s)'
  <2>1. \A s \in Thread : pc'[s] # "enqueue"
    BY <1>1, <1>2 DEF OneLoop, Shapes
  <2> QED
    BY <2>1 DEF StillDue
<1>5. ASSUME NEW n \in Task PROVE ClocksAgree(n)'
  <2>1. ClocksAgree(n)
    BY DEF PassInv
  <2>2. CASE age'[n] = age[n] /\ gap'[n] = gap[n]
    BY <2>1, <2>2 DEF ClocksAgree
  <2>3. CASE age'[n] = since[t] /\ gap'[n] = 0
    <3>1. since[t] \in 0 .. MaxPass /\ Interval[n] \in Nat
      BY <1>1 DEF Shapes
    <3> QED
      BY <2>3, <3>1 DEF ClocksAgree, Horizon
  <2> QED
    BY <1>1, <1>2, <2>2, <2>3 DEF Shapes
<1> QED
  BY <1>3, <1>4, <1>5 DEF PassInv

\* Time passes for the stamp, the enqueue and the pass alike.
LEMMA TimePasses ==
  ASSUME PassInv, Tick
  PROVE  PassInv'
<1>1. Shapes
  BY DEF PassInv
<1>2. /\ UNCHANGED <<order, pc, cur, mine>>
      /\ age' = [n \in Task |-> Older(age[n], n)] /\ gap' = [n \in Task |-> Older(gap[n], n)]
      /\ \A t \in Thread : InPass(t) => since[t] < MaxPass
      /\ since' = [t \in Thread |-> IF InPass(t) THEN since[t] + 1 ELSE since[t]]
  BY DEF Tick
<1>3. since' \in [Thread -> 0 .. MaxPass]
  <2>1. ASSUME NEW t \in Thread PROVE since'[t] \in 0 .. MaxPass
    BY <1>1, <1>2 DEF Shapes
  <2> QED
    BY <1>2, <2>1
<1>4. Shapes'
  BY <1>1, <1>2, <1>3 DEF Shapes
<1>5. ASSUME NEW n \in Task PROVE ClocksAgree(n)'
  <2>1. ClocksAgree(n) /\ Horizon(n) \in Nat /\ Never \notin 0 .. Horizon(n)
    BY DEF PassInv, Horizon
  <2>2. age'[n] = Older(age[n], n) /\ gap'[n] = Older(gap[n], n)
    BY <1>2
  <2> QED
    BY <2>1, <2>2 DEF ClocksAgree, Older
<1>6. ASSUME NEW t \in Thread PROVE StillDue(t)'
  <2> DEFINE n == cur[t]
  <2>1. SUFFICES ASSUME pc'[t] = "enqueue", mine'[t] PROVE IsDue(n, t)'
    BY <1>2 DEF StillDue
  <2>2. n \in Task /\ IsDue(n, t) /\ InPass(t)
    BY <1>1, <1>2, <2>1 DEF PassInv, StillDue, Shapes, InPass
  <2>3. ClocksAgree(n) /\ Interval[n] \in Nat /\ since[t] \in 0 .. MaxPass /\ since[t] < MaxPass
    BY <1>1, <1>2, <2>2 DEF PassInv, Shapes
  <2>4. cur' = cur /\ since'[t] = since[t] + 1 /\ age'[n] = Older(age[n], n)
    BY <1>2, <2>2
  <2> HIDE DEF n
  <2>5. age[n] = Never => age'[n] = Never
    BY <2>4 DEF Older
  <2>6. CASE age[n] # Never
    <3>1. age[n] \in Nat /\ age[n] - since[t] >= Interval[n]
      BY <2>2, <2>3, <2>6 DEF IsDue, ClocksAgree, Horizon
    <3>2. age'[n] \in Nat /\ age'[n] - (since[t] + 1) >= Interval[n]
      BY <2>3, <2>4, <2>6, <3>1 DEF Older, Horizon
    <3> QED
      BY <2>4, <3>2 DEF IsDue, n
  <2> QED
    BY <2>4, <2>5, <2>6 DEF IsDue, n
<1> QED
  BY <1>4, <1>5, <1>6 DEF PassInv

LEMMA PassSteps == OneLoop /\ PassInv /\ [Next]_vars => PassInv'
<1> SUFFICES ASSUME OneLoop, PassInv, [Next]_vars PROVE PassInv'
  OBVIOUS
<1>1. CASE UNCHANGED vars
  BY <1>1 DEF vars, PassInv, Shapes, ClocksAgree, StillDue, IsDue
<1>2. ASSUME NEW n \in Task, Register(n) \/ Unregister(n) \/ (\E on \in BOOLEAN : SetEnabled(n, on))
      PROVE  PassInv'
  BY <1>2, CallersStep
<1>3. CASE Start \/ Stop \/ Crash
  BY <1>3, CallersStep, TaskType
<1>4. ASSUME NEW t \in Thread, Step(t) PROVE PassInv'
  BY <1>4, LoopSteps, LookSteps, EnqueueSteps DEF Step
<1> QED
  BY <1>1, <1>2, <1>3, <1>4, TimePasses DEF Next

\* Between two enqueues of one task object passes its interval, less the time that a
\* pass may take (_scheduler_loop stamps the "now" of the pass): for any tasks and
\* intervals, whatever enqueues fail and whatever is stopped, registered or removed.
THEOREM IntervalIsRespected ==
  ASSUME OneLoop
  PROVE  Spec => IntervalRespected
<1> DEFINE Late == \A t \in Thread : LET n == cur[t] IN
                     (EnqueueTask(t) /\ mine[t] /\ gap[n] # Never) => gap[n] >= Interval[n] - MaxPass
<1>1. PassInv => Late
  <2> SUFFICES ASSUME PassInv, NEW t \in Thread, EnqueueTask(t), mine[t], gap[cur[t]] # Never
               PROVE  gap[cur[t]] >= Interval[cur[t]] - MaxPass
    OBVIOUS
  <2>1. cur[t] \in Task /\ IsDue(cur[t], t) /\ since[t] \in 0 .. MaxPass
    BY DEF EnqueueTask, PassInv, Shapes, StillDue
  <2>2. ClocksAgree(cur[t]) /\ Interval[cur[t]] \in Nat
    BY <2>1 DEF PassInv
  <2> QED
    BY <2>1, <2>2 DEF IsDue, ClocksAgree, Horizon
<1>2. PassInv /\ [Next]_vars => [Late]_vars
  BY <1>1
<1> QED
  BY <1>2, PassStarts, PassSteps, PTL DEF Spec, IntervalRespected
=============================================================================
