-------------------------- MODULE PriceCache_proofs --------------------------
(***************************************************************************)
(* Proofs about the price cache for any callers and queries, any TTL,      *)
(* scrape time and size, in every mode, threads included.                  *)
(***************************************************************************)
EXTENDS PriceCache, SequenceTheorems, TLAPS

Entry  == [query : Query, at : Nat]
Record == [stage : Stage, query : Query, victim : Query, at : Nat \cup {None}]

Types ==
  /\ now \in Nat
  /\ local \in Seq(Entry)
  /\ expiry \in [Query -> Nat \cup {None}]
  /\ call \in [Caller -> Record]

\* A value of q, if there is one, was scraped at most age ago.
Young(q, age) == \A i \in DOMAIN local : local[i].query = q => now <= local[i].at + age

\* No time lies further ahead than TTL, nor further from the scrape of the value
\* beside it than a scrape and a TTL.  This is what survives the interleavings:
\* a time may belong to another value than the one it was computed for.
TimesNear ==
  /\ \A q \in Query : expiry[q] # None => expiry[q] <= now + TTL
  /\ \A i \in DOMAIN local : LET q == local[i].query IN
       expiry[q] # None => expiry[q] <= local[i].at + MaxScrape + TTL

\* A call knows as much about the value it stores or reads.
Knows(c) ==
  /\ call[c].stage \in {"scrape", "put"} => call[c].at # None /\ now <= call[c].at + MaxScrape
  /\ call[c].stage = "date" => Young(call[c].query, MaxScrape)
  /\ call[c].stage = "read" => Young(call[c].query, MaxScrape + TTL)

CallsKnow == \A c \in Caller : Knows(c)

Inv == Types /\ TimesNear /\ CallsKnow

-----------------------------------------------------------------------------
\* Deleting an entry leaves entries that were there.
LEMMA Removed ==
  ASSUME NEW E, NEW s \in Seq(E), NEW i \in DOMAIN s
  PROVE  /\ RemoveAt(s, i) \in Seq(E)
         /\ DOMAIN RemoveAt(s, i) = 1 .. Len(s) - 1
         /\ \A j \in 1 .. Len(s) - 1 : RemoveAt(s, i)[j] = s[IF j < i THEN j ELSE j + 1]
         /\ \A j \in DOMAIN RemoveAt(s, i) : \E k \in DOMAIN s : RemoveAt(s, i)[j] = s[k]
<1> DEFINE a == SubSeq(s, 1, i - 1)
           b == SubSeq(s, i + 1, Len(s))
<1>1. i \in 1 .. Len(s) /\ Len(s) \in Nat
  OBVIOUS
<1>2. a \in Seq(E) /\ Len(a) = i - 1 /\ \A j \in 1 .. i - 1 : a[j] = s[j]
  BY <1>1
<1>3. b \in Seq(E) /\ Len(b) = Len(s) - i /\ \A j \in 1 .. Len(s) - i : b[j] = s[i + j]
  BY <1>1
<1>4. RemoveAt(s, i) = a \o b
  BY DEF RemoveAt
<1> HIDE DEF a, b
<1>5. a \o b \in Seq(E) /\ DOMAIN (a \o b) = 1 .. Len(s) - 1
  BY <1>1, <1>2, <1>3
<1>6. ASSUME NEW j \in 1 .. Len(s) - 1
      PROVE  (a \o b)[j] = s[IF j < i THEN j ELSE j + 1]
  <2>1. Len(a) \in Nat /\ Len(b) \in Nat /\ j \in 1 .. Len(a) + Len(b)
    BY <1>1, <1>2, <1>3
  <2>2. (a \o b)[j] = IF j <= Len(a) THEN a[j] ELSE b[j - Len(a)]
    BY <1>2, <1>3, <2>1, ConcatProperties
  <2>3. CASE j < i
    <3>1. (a \o b)[j] = a[j] /\ a[j] = s[j]
      BY <1>1, <1>2, <2>2, <2>3
    <3>2. QED
      BY <2>3, <3>1
  <2>4. CASE ~(j < i)
    <3>1. (a \o b)[j] = b[j - (i - 1)]
      BY <1>1, <1>2, <2>2, <2>4
    <3>2. j - (i - 1) \in 1 .. Len(s) - i /\ i + (j - (i - 1)) = j + 1
      BY <1>1, <2>4
    <3>3. b[j - (i - 1)] = s[i + (j - (i - 1))]
      BY <1>3, <3>2
    <3>4. QED
      BY <2>4, <3>1, <3>2, <3>3
  <2>5. QED
    BY <2>3, <2>4
<1>7. \A j \in 1 .. Len(s) - 1 : (IF j < i THEN j ELSE j + 1) \in DOMAIN s
  BY <1>1
<1>8. QED
  BY <1>4, <1>5, <1>6, <1>7

LEMMA InvInit == Init => Inv
<1> SUFFICES ASSUME Init
             PROVE  Inv
  OBVIOUS
<1>1. PICK q \in Query : q = CHOOSE r \in Query : TRUE
  BY QueryType
<1>2. Types
  BY <1>1 DEF Init, Types, NewCall, Entry, Record, Stage
<1>3. TimesNear
  BY DEF Init, TimesNear
<1>4. CallsKnow
  BY DEF Init, CallsKnow, Knows, NewCall
<1>5. QED
  BY <1>2, <1>3, <1>4 DEF Inv

\* Other calls know what they knew when no value is put and no time passes.
LEMMA OthersKnow ==
  ASSUME Types, CallsKnow, now' = now, NEW c \in Caller,
         \A d \in Caller \ {c} : call'[d] = call[d],
         \A i \in DOMAIN local' : \E j \in DOMAIN local : local'[i] = local[j]
  PROVE  \A d \in Caller \ {c} : Knows(d)'
<1>1. \A q, a : Young(q, a) => Young(q, a)'
  BY DEF Young
<1>2. QED
  BY <1>1 DEF CallsKnow, Knows

\* A step of a call that changes neither the dicts nor the time.
LEMMA CallMoves ==
  ASSUME Inv, UNCHANGED <<now, local, expiry>>, NEW c \in Caller, NEW r \in Record,
         call' = [call EXCEPT ![c] = r], Knows(c)'
  PROVE  Inv'
<1>1. Types'
  BY DEF Inv, Types
<1>2. TimesNear'
  BY DEF Inv, TimesNear
<1>3. \A d \in Caller \ {c} : Knows(d)'
  BY OthersKnow DEF Inv, Types
<1>4. QED
  BY <1>1, <1>2, <1>3 DEF Inv, CallsKnow

LEMMA FetchStep ==
  ASSUME Inv, NEW c \in Caller, NEW q \in Query, Fetch(c, q)
  PROVE  Inv'
<1> DEFINE r == [NewCall(q) EXCEPT !.stage = "look"]
<1>1. r = [stage |-> "look", query |-> q, victim |-> q, at |-> None]
  BY DEF NewCall
<1>2. r \in Record
  BY <1>1 DEF Record, Stage
<1>3. call' = [call EXCEPT ![c] = r] /\ UNCHANGED <<now, local, expiry>>
  BY DEF Fetch
<1>4. call'[c] = r
  BY <1>3 DEF Inv, Types
<1>5. Knows(c)'
  BY <1>1, <1>4 DEF Knows
<1>6. QED
  BY <1>2, <1>3, <1>5, CallMoves

\* A step that takes a call to a stage at which it knows nothing.
LEMMA StageStep ==
  ASSUME Inv, NEW c \in Caller, NEW s \in Stage \ {"scrape", "put", "date", "read"},
         Goes(c, s), UNCHANGED <<now, local, expiry>>
  PROVE  Inv'
<1> DEFINE r == [call[c] EXCEPT !.stage = s]
<1>1. call[c] \in Record
  BY DEF Inv, Types
<1>2. r \in Record /\ r.stage = s
  BY <1>1 DEF Record
<1>3. call' = [call EXCEPT ![c] = r]
  BY DEF Goes
<1>4. call'[c] = r
  BY <1>3 DEF Inv, Types
<1>5. Knows(c)'
  BY <1>2, <1>4 DEF Knows
<1>6. QED
  BY <1>2, <1>3, <1>5, CallMoves

\* The stores are asked: the result is as old as the question.
LEMMA ScrapesStep ==
  ASSUME Inv, NEW c \in Caller, Scrapes(c), now' = now
  PROVE  /\ call' \in [Caller -> Record]
         /\ \A d \in Caller \ {c} : call'[d] = call[d]
         /\ Knows(c)'
<1> DEFINE r == [call[c] EXCEPT !.stage = "scrape", !.at = now]
<1>1. call[c] \in Record /\ now \in Nat /\ MaxScrape \in Nat
  BY TimesType DEF Inv, Types
<1>2. r \in Record /\ r.stage = "scrape" /\ r.at = now
  BY <1>1 DEF Record, Stage
<1>3. call' = [call EXCEPT ![c] = r]
  BY DEF Scrapes
<1>4. call' \in [Caller -> Record] /\ call'[c] = r /\ \A d \in Caller \ {c} : call'[d] = call[d]
  BY <1>2, <1>3 DEF Inv, Types
<1>5. now # None
  BY <1>1, NoneType
<1>6. Knows(c)'
  BY <1>1, <1>2, <1>4, <1>5 DEF Knows
<1>7. QED
  BY <1>4, <1>6

LEMMA LookStep ==
  ASSUME Inv, NEW c \in Caller, Look(c)
  PROVE  Inv'
<1>1. CASE Goes(c, "check")
  BY <1>1, StageStep DEF Look, Stage
<1>2. CASE Scrapes(c)
  <2>1. UNCHANGED <<now, local, expiry>>
    BY DEF Look
  <2>2. /\ call' \in [Caller -> Record]
        /\ \A d \in Caller \ {c} : call'[d] = call[d]
        /\ Knows(c)'
    BY <1>2, <2>1, ScrapesStep
  <2>3. \A d \in Caller \ {c} : Knows(d)'
    BY <2>1, <2>2, OthersKnow DEF Inv
  <2>4. QED
    BY <2>1, <2>2, <2>3 DEF Inv, Types, TimesNear, CallsKnow
<1>3. QED
  BY <1>1, <1>2 DEF Look

LEMMA CheckStep ==
  ASSUME Inv, NEW c \in Caller, Check(c)
  PROVE  Inv'
<1> DEFINE q == call[c].query
           r == [call[c] EXCEPT !.stage = "read"]
<1>1. CASE Expired(q)
  BY <1>1, StageStep DEF Check, Stage
<1>2. CASE ~Expired(q)
  <2>1. call[c] \in Record /\ q \in Query
    BY DEF Inv, Types, Record
  <2>2. r \in Record /\ r.stage = "read" /\ r.query = q
    BY <2>1 DEF Record, Stage
  <2>3. call' = [call EXCEPT ![c] = r] /\ UNCHANGED <<now, local, expiry>>
    BY <1>2 DEF Check, Goes
  <2>4. call'[c] = r
    BY <2>3 DEF Inv, Types
  <2>5. expiry[q] # None /\ now <= expiry[q] /\ expiry[q] \in Nat /\ now \in Nat
    BY <1>2, <2>1 DEF Inv, Types, Expired
  <2>6. ASSUME NEW i \in DOMAIN local, local[i].query = q
        PROVE  now <= local[i].at + (MaxScrape + TTL)
    <3>1. expiry[q] <= local[i].at + MaxScrape + TTL
      BY <2>5, <2>6 DEF Inv, TimesNear
    <3>2. local[i] \in Entry
      BY DEF Inv, Types
    <3>3. local[i].at \in Nat /\ MaxScrape \in Nat /\ TTL \in Nat
      BY <3>2, TimesType DEF Entry
    <3>4. QED
      BY <2>5, <3>1, <3>3
  <2>7. call'[c].stage = "read" /\ call'[c].query = q
    BY <2>2, <2>4
  <2>8. \A i \in DOMAIN local' : local'[i].query = call'[c].query => now' <= local'[i].at + (MaxScrape + TTL)
    BY <2>3, <2>6, <2>7
  <2>9. Knows(c)'
    BY <2>7, <2>8 DEF Knows, Young
  <2>10. QED
    BY <2>2, <2>3, <2>9, CallMoves
<1>3. QED
  BY <1>1, <1>2

\* The answer is a number, which a record of a call may hold.
LEMMA ReadStep ==
  ASSUME Inv, NEW c \in Caller, Read(c)
  PROVE  Inv'
<1>1. CASE Goes(c, "raised")
  BY <1>1, StageStep DEF Read, Stage
<1>2. ASSUME NEW i \in DOMAIN local, Answer(c, local[i].at)
      PROVE  Inv'
  <2> DEFINE r == [call[c] EXCEPT !.stage = "idle", !.at = local[i].at]
  <2>1. call[c] \in Record /\ local[i] \in Entry
    BY DEF Inv, Types
  <2>2. local[i].at \in Nat
    BY <2>1 DEF Entry
  <2>3. r \in Record /\ r.stage = "idle"
    BY <2>1, <2>2 DEF Record, Stage
  <2>4. call' = [call EXCEPT ![c] = r] /\ UNCHANGED <<now, local, expiry>>
    BY <1>2 DEF Read, Answer
  <2>5. call'[c] = r
    BY <2>4 DEF Inv, Types
  <2>6. Knows(c)'
    BY <2>3, <2>5 DEF Knows
  <2>7. QED
    BY <2>3, <2>4, <2>6, CallMoves
<1>3. QED
  BY <1>1, <1>2 DEF Read

LEMMA ScrapedStep ==
  ASSUME Inv, NEW c \in Caller, Scraped(c)
  PROVE  Inv'
<1> DEFINE r == [call[c] EXCEPT !.stage = "put"]
<1>1. CASE mode = "redis"
  BY <1>1, StageStep DEF Scraped, Stage
<1>2. CASE mode # "redis"
  <2>1. call[c] \in Record /\ call[c].stage = "scrape"
    BY DEF Inv, Types, Scraped
  <2>2. r \in Record /\ r.stage = "put" /\ r.at = call[c].at
    BY <2>1 DEF Record, Stage
  <2>3. call' = [call EXCEPT ![c] = r] /\ UNCHANGED <<now, local, expiry>>
    BY <1>2 DEF Scraped, Goes
  <2>4. call'[c].stage = "put" /\ call'[c].at = call[c].at
    BY <2>2, <2>3 DEF Inv, Types
  <2>5. Knows(c)
    BY DEF Inv, CallsKnow
  <2>6. Knows(c)'
    BY <2>1, <2>3, <2>4, <2>5 DEF Knows
  <2>7. QED
    BY <2>2, <2>3, <2>6, CallMoves
<1>3. QED
  BY <1>1, <1>2

LEMMA FullStep ==
  ASSUME Inv, NEW c \in Caller, Full(c)
  PROVE  Inv'
<1>1. CASE Goes(c, "idle")
  BY <1>1, StageStep DEF Full, Stage
<1>2. CASE TooMany
  <2> DEFINE v == Head(local).query
             r == [call[c] EXCEPT !.stage = "del", !.victim = v]
  <2>1. local \in Seq(Entry) /\ local # <<>>
    BY <1>2, SizeType DEF Inv, Types, TooMany
  <2>2. v \in Query
    <3>1. Head(local) \in Entry
      BY <2>1, HeadTailProperties
    <3>2. QED
      BY <3>1 DEF Entry
  <2>3. call[c] \in Record
    BY DEF Inv, Types
  <2>4. r \in Record /\ r.stage = "del"
    BY <2>2, <2>3 DEF Record, Stage
  <2>5. call' = [call EXCEPT ![c] = r] /\ UNCHANGED <<now, local, expiry>>
    BY <1>2 DEF Full
  <2>6. call'[c] = r
    BY <2>5 DEF Inv, Types
  <2>7. Knows(c)'
    BY <2>4, <2>6 DEF Knows
  <2>8. QED
    BY <2>4, <2>5, <2>7, CallMoves
<1>3. QED
  BY <1>1, <1>2 DEF Full

LEMMA RaiseStep ==
  ASSUME Inv, NEW c \in Caller, Raise(c)
  PROVE  Inv'
BY StageStep DEF Raise, Stage

-----------------------------------------------------------------------------
\* A set puts one value, in place of the values of its query.
LEMMA ValuePut ==
  ASSUME local \in Seq(Entry), NEW q \in Query, NEW v \in Nat, SetValue(q, v)
  PROVE  /\ local' \in Seq(Entry)
         /\ \A i \in DOMAIN local' : \/ local'[i].query = q /\ local'[i].at = v
                                     \/ local'[i].query # q /\ \E j \in DOMAIN local : local'[i] = local[j]
<1> DEFINE e == [query |-> q, at |-> v]
<1>1. e \in Entry /\ e.query = q /\ e.at = v
  BY DEF Entry
<1>2. CASE q \notin Held
  <2>1. local' = Append(local, e)
    BY <1>2 DEF SetValue
  <2>2. local' \in Seq(Entry) /\ Len(local') = Len(local) + 1 /\ local'[Len(local) + 1] = e
    BY <1>1, <2>1, AppendProperties
  <2>3. \A i \in 1 .. Len(local) : local'[i] = local[i]
    BY <1>1, <2>1, AppendProperties
  <2>4. \A i \in DOMAIN local : local[i].query # q
    BY <1>2 DEF Held
  <2>5. DOMAIN local' = 1 .. Len(local) + 1 /\ DOMAIN local = 1 .. Len(local) /\ Len(local) \in Nat
    BY <2>2
  <2>6. \A i \in DOMAIN local' : i \in DOMAIN local \/ i = Len(local) + 1
    BY <2>5
  <2> HIDE DEF e
  <2>7. QED
    BY <1>1, <2>2, <2>3, <2>4, <2>5, <2>6
<1>3. CASE q \in Held
  <2>1. local' = [i \in DOMAIN local |-> IF local[i].query = q THEN [local[i] EXCEPT !.at = v] ELSE local[i]]
    BY <1>3 DEF SetValue
  <2>2. \A i \in DOMAIN local : local[i] \in Entry
    OBVIOUS
  <2>3. \A i \in DOMAIN local : local[i].query = q =>
          /\ [local[i] EXCEPT !.at = v] \in Entry
          /\ [local[i] EXCEPT !.at = v].query = q /\ [local[i] EXCEPT !.at = v].at = v
    BY <2>2 DEF Entry
  <2>4. DOMAIN local = 1 .. Len(local) /\ Len(local) \in Nat
    OBVIOUS
  <2>5. \A i \in DOMAIN local : local'[i] \in Entry
    BY <2>1, <2>2, <2>3
  <2>6. local' \in Seq(Entry)
    BY <2>1, <2>4, <2>5
  <2>7. QED
    BY <2>1, <2>3, <2>6
<1>4. QED
  BY <1>2, <1>3

LEMMA PutStep ==
  ASSUME Inv, NEW c \in Caller, Put(c)
  PROVE  Inv'
<1> DEFINE q == call[c].query
           v == call[c].at
           r == [call[c] EXCEPT !.stage = "date"]
<1>1. call[c] \in Record /\ call[c].stage = "put" /\ q \in Query
  BY DEF Inv, Types, Put, At, Record
<1>2. v \in Nat /\ now <= v + MaxScrape
  BY <1>1 DEF Inv, CallsKnow, Knows, Record
<1>3. now \in Nat /\ TTL \in Nat /\ MaxScrape \in Nat
  BY TimesType DEF Inv, Types
<1>4. /\ local' \in Seq(Entry)
      /\ \A i \in DOMAIN local' : \/ local'[i].query = q /\ local'[i].at = v
                                  \/ local'[i].query # q /\ \E j \in DOMAIN local : local'[i] = local[j]
  BY <1>1, <1>2, ValuePut DEF Inv, Types, Put
<1>5. r \in Record /\ r.stage = "date" /\ r.query = q
  BY <1>1 DEF Record, Stage
<1>6. call' = [call EXCEPT ![c] = r] /\ UNCHANGED <<now, expiry>>
  BY DEF Put, Goes
<1>7. call' \in [Caller -> Record] /\ call'[c].stage = "date" /\ call'[c].query = q
      /\ \A d \in Caller \ {c} : call'[d] = call[d]
  BY <1>5, <1>6 DEF Inv, Types
<1>8. Types'
  BY <1>4, <1>6, <1>7 DEF Inv, Types
<1>9. TimesNear'
  <2>1. ASSUME NEW i \in DOMAIN local', expiry[local'[i].query] # None
        PROVE  expiry[local'[i].query] <= local'[i].at + MaxScrape + TTL
    <3>1. CASE local'[i].query = q /\ local'[i].at = v
      <4>1. expiry[q] \in Nat /\ expiry[q] <= now + TTL
        BY <1>1, <2>1, <3>1 DEF Inv, Types, TimesNear
      <4>2. QED
        BY <1>2, <1>3, <3>1, <4>1
    <3>2. CASE \E j \in DOMAIN local : local'[i] = local[j]
      BY <2>1, <3>2 DEF Inv, TimesNear
    <3>3. QED
      BY <1>4, <3>1, <3>2
  <2>2. QED
    BY <1>6, <2>1 DEF Inv, TimesNear
<1>10. ASSUME NEW x, NEW a \in Nat, a >= MaxScrape, Young(x, a)
       PROVE  \A i \in DOMAIN local' : local'[i].query = x => now' <= local'[i].at + a
  BY <1>2, <1>3, <1>4, <1>6, <1>10 DEF Young
<1>11. Knows(c)'
  BY <1>2, <1>4, <1>6, <1>7 DEF Knows, Young
<1>12. ASSUME NEW d \in Caller \ {c}
       PROVE  Knows(d)'
  <2>1. Knows(d) /\ call'[d] = call[d]
    BY <1>7 DEF Inv, CallsKnow
  <2>2. MaxScrape + TTL \in Nat /\ MaxScrape + TTL >= MaxScrape /\ MaxScrape >= MaxScrape
    BY <1>3
  <2>3. QED
    BY <1>3, <1>6, <1>10, <2>1, <2>2 DEF Knows, Young
<1>13. QED
  BY <1>8, <1>9, <1>11, <1>12 DEF Inv, CallsKnow

LEMMA DateStep ==
  ASSUME Inv, NEW c \in Caller, Date(c)
  PROVE  Inv'
<1> DEFINE q == call[c].query
           r == [call[c] EXCEPT !.stage = "full"]
<1>1. call[c] \in Record /\ call[c].stage = "date" /\ q \in Query
  BY DEF Inv, Types, Date, At, Record
<1>2. now \in Nat /\ TTL \in Nat /\ MaxScrape \in Nat
  BY TimesType DEF Inv, Types
<1>3. UNCHANGED <<now, local>> /\ expiry' = [expiry EXCEPT ![q] = now + TTL]
  BY DEF Date
<1>4. r \in Record /\ r.stage = "full"
  BY <1>1 DEF Record, Stage
<1>5. call' = [call EXCEPT ![c] = r]
  BY DEF Date, Goes
<1>6. call' \in [Caller -> Record] /\ call'[c].stage = "full" /\ \A d \in Caller \ {c} : call'[d] = call[d]
  BY <1>4, <1>5 DEF Inv, Types
<1>7. expiry' \in [Query -> Nat \cup {None}] /\ expiry'[q] = now + TTL
      /\ \A x \in Query \ {q} : expiry'[x] = expiry[x]
  BY <1>1, <1>2, <1>3 DEF Inv, Types
<1>8. Types'
  BY <1>3, <1>6, <1>7 DEF Inv, Types
<1>9. TimesNear'
  <2>1. ASSUME NEW i \in DOMAIN local, expiry'[local[i].query] # None
        PROVE  expiry'[local[i].query] <= local[i].at + MaxScrape + TTL
    <3>1. local[i] \in Entry
      BY DEF Inv, Types
    <3>2. local[i].at \in Nat /\ local[i].query \in Query
      BY <3>1 DEF Entry
    <3>3. CASE local[i].query = q
      <4>1. now <= local[i].at + MaxScrape
        BY <1>1, <3>3 DEF Inv, CallsKnow, Knows, Young
      <4>2. QED
        BY <1>2, <1>7, <3>2, <3>3, <4>1
    <3>4. CASE local[i].query # q
      BY <1>7, <2>1, <3>2, <3>4 DEF Inv, TimesNear
    <3>5. QED
      BY <3>3, <3>4
  <2>2. \A x \in Query : expiry'[x] # None => expiry'[x] <= now + TTL
    BY <1>2, <1>7 DEF Inv, TimesNear
  <2>3. QED
    BY <1>3, <2>1, <2>2 DEF TimesNear
<1>10. \A d \in Caller \ {c} : Knows(d)'
  BY <1>3, <1>6, OthersKnow DEF Inv
<1>11. Knows(c)'
  BY <1>6 DEF Knows
<1>12. QED
  BY <1>8, <1>9, <1>10, <1>11 DEF Inv, CallsKnow

\* Entries and times that go away leave the rest as it was.
LEMMA FewerEntries ==
  ASSUME Inv, now' = now, local' \in Seq(Entry), expiry' \in [Query -> Nat \cup {None}],
         \A i \in DOMAIN local' : \E j \in DOMAIN local : local'[i] = local[j],
         \A q \in Query : expiry'[q] \in {expiry[q], None}
  PROVE  /\ TimesNear'
         /\ \A d \in Caller : call'[d] = call[d] => Knows(d)'
<1>1. TimesNear'
  <2>1. ASSUME NEW i \in DOMAIN local', expiry'[local'[i].query] # None
        PROVE  expiry'[local'[i].query] <= local'[i].at + MaxScrape + TTL
    <3>1. PICK j \in DOMAIN local : local'[i] = local[j]
      OBVIOUS
    <3>2. local[j] \in Entry
      BY DEF Inv, Types
    <3>3. local[j].query \in Query
      BY <3>2 DEF Entry
    <3>4. expiry'[local[j].query] = expiry[local[j].query]
      BY <2>1, <3>1, <3>3
    <3>5. QED
      BY <2>1, <3>1, <3>4 DEF Inv, TimesNear
  <2>2. \A q \in Query : expiry'[q] # None => expiry'[q] <= now + TTL
    BY DEF Inv, TimesNear
  <2>3. QED
    BY <2>1, <2>2 DEF TimesNear
<1>2. ASSUME NEW d \in Caller, call'[d] = call[d]
      PROVE  Knows(d)'
  <2>1. Knows(d)
    BY DEF Inv, CallsKnow
  <2>2. QED
    BY <1>2, <2>1 DEF Knows, Young
<1>3. QED
  BY <1>1, <1>2

LEMMA DelValueStep ==
  ASSUME Inv, NEW c \in Caller, DelValue(c)
  PROVE  Inv'
<1> DEFINE q == call[c].victim
           r == [call[c] EXCEPT !.stage = "del2"]
<1>1. CASE UNCHANGED local /\ Goes(c, "raised")
  BY <1>1, StageStep DEF DelValue, Stage
<1>2. ASSUME NEW i \in DOMAIN local, local' = RemoveAt(local, i), Goes(c, "del2")
      PROVE  Inv'
  <2>1. local \in Seq(Entry) /\ call[c] \in Record
    BY DEF Inv, Types
  <2>2. /\ local' \in Seq(Entry)
        /\ \A j \in DOMAIN local' : \E k \in DOMAIN local : local'[j] = local[k]
    BY <1>2, <2>1, Removed
  <2>3. r \in Record /\ r.stage = "del2"
    BY <2>1 DEF Record, Stage
  <2>4. call' = [call EXCEPT ![c] = r] /\ UNCHANGED <<now, expiry>>
    BY <1>2 DEF DelValue, Goes
  <2>5. call' \in [Caller -> Record] /\ call'[c].stage = "del2" /\ \A d \in Caller \ {c} : call'[d] = call[d]
    BY <2>3, <2>4 DEF Inv, Types
  <2>6. Types'
    BY <2>2, <2>4, <2>5 DEF Inv, Types
  <2>7. TimesNear' /\ \A d \in Caller : call'[d] = call[d] => Knows(d)'
    BY <2>2, <2>4, FewerEntries DEF Inv, Types
  <2>8. Knows(c)'
    BY <2>5 DEF Knows
  <2>9. QED
    BY <2>5, <2>6, <2>7, <2>8 DEF Inv, CallsKnow
<1>3. QED
  BY <1>1, <1>2 DEF DelValue

LEMMA DelExpiryStep ==
  ASSUME Inv, NEW c \in Caller, DelExpiry(c)
  PROVE  Inv'
<1> DEFINE q == call[c].victim
<1>1. UNCHANGED <<now, local>> /\ expiry' = [expiry EXCEPT ![q] = None]
  BY DEF DelExpiry, DelTime
<1>2. expiry' \in [Query -> Nat \cup {None}] /\ \A x \in Query : expiry'[x] \in {expiry[x], None}
  BY <1>1 DEF Inv, Types
<1>3. TimesNear' /\ \A d \in Caller : call'[d] = call[d] => Knows(d)'
  BY <1>1, <1>2, FewerEntries DEF Inv, Types
<1>4. /\ call' \in [Caller -> Record]
      /\ \A d \in Caller \ {c} : call'[d] = call[d]
      /\ Knows(c)'
  <2>1. CASE Scrapes(c)
    BY <1>1, <2>1, ScrapesStep
  <2>2. ASSUME NEW s \in {"raised", "idle"}, Goes(c, s)
        PROVE  /\ call' \in [Caller -> Record]
               /\ \A d \in Caller \ {c} : call'[d] = call[d]
               /\ Knows(c)'
    <3> DEFINE r == [call[c] EXCEPT !.stage = s]
    <3>1. call[c] \in Record
      BY DEF Inv, Types
    <3>2. r \in Record /\ r.stage = s
      BY <3>1 DEF Record, Stage
    <3>3. call' = [call EXCEPT ![c] = r]
      BY <2>2 DEF Goes
    <3>4. call' \in [Caller -> Record] /\ call'[c].stage = s /\ \A d \in Caller \ {c} : call'[d] = call[d]
      BY <3>2, <3>3 DEF Inv, Types
    <3>5. QED
      BY <3>4 DEF Knows
  <2>3. QED
    BY <2>1, <2>2 DEF DelExpiry
<1>5. QED
  BY <1>1, <1>2, <1>3, <1>4 DEF Inv, Types, CallsKnow

LEMMA ClearStep == Inv /\ (Clear \/ ClearExpiry) => Inv'
<1> SUFFICES ASSUME Inv, Clear \/ ClearExpiry
             PROVE  Inv'
  OBVIOUS
<1>1. UNCHANGED <<now, call>>
  BY DEF Clear, ClearExpiry
<1>2. local' \in Seq(Entry) /\ \A i \in DOMAIN local' : \E j \in DOMAIN local : local'[i] = local[j]
  <2>1. local' = <<>> \/ local' = local
    BY DEF Clear, ClearExpiry
  <2>2. <<>> \in Seq(Entry) /\ DOMAIN <<>> = {}
    OBVIOUS
  <2>3. local \in Seq(Entry)
    BY DEF Inv, Types
  <2>4. QED
    BY <2>1, <2>2, <2>3
<1>3. expiry' \in [Query -> Nat \cup {None}] /\ \A q \in Query : expiry'[q] \in {expiry[q], None}
  BY DEF Clear, ClearExpiry, Inv, Types
<1>4. TimesNear' /\ \A d \in Caller : call'[d] = call[d] => Knows(d)'
  BY <1>1, <1>2, <1>3, FewerEntries
<1>5. QED
  BY <1>1, <1>2, <1>3, <1>4 DEF Inv, Types, CallsKnow

\* Time passes when no call is inside get or set.
LEMMA TickStep == Inv /\ Tick => Inv'
<1> SUFFICES ASSUME Inv, Tick
             PROVE  Inv'
  OBVIOUS
<1>1. now \in Nat /\ now' = now + 1 /\ UNCHANGED <<local, expiry, call>> /\ MaxScrape \in Nat /\ TTL \in Nat
  BY TimesType DEF Inv, Types, Tick
<1>2. Types'
  BY <1>1 DEF Inv, Types
<1>3. \A q \in Query : expiry[q] # None => expiry[q] <= now + 1 + TTL
  <2>1. ASSUME NEW q \in Query, expiry[q] # None
        PROVE  expiry[q] <= now + 1 + TTL
    <3>1. expiry[q] \in Nat /\ expiry[q] <= now + TTL
      BY <2>1 DEF Inv, Types, TimesNear
    <3>2. QED
      BY <1>1, <3>1
  <2>2. QED
    BY <2>1
<1>4. TimesNear'
  BY <1>1, <1>3 DEF Inv, TimesNear
<1>5. ASSUME NEW c \in Caller
      PROVE  Knows(c)'
  <2>1. call[c].stage \in {"idle", "scrape", "raised"} /\ call[c] \in Record
    BY DEF Tick, Inside, Inv, Types
  <2>2. call[c].stage = "scrape" => call[c].at # None /\ now < call[c].at + MaxScrape
    BY DEF Tick, Inv, CallsKnow, Knows
  <2>3. call[c].at # None => call[c].at \in Nat
    BY <2>1 DEF Record
  <2>4. QED
    BY <1>1, <2>1, <2>2, <2>3 DEF Knows
<1>6. QED
  BY <1>2, <1>4, <1>5 DEF Inv, CallsKnow

-----------------------------------------------------------------------------
LEMMA InvStep == Inv /\ [Next]_vars => Inv'
<1> SUFFICES ASSUME Inv, [Next]_vars
             PROVE  Inv'
  OBVIOUS
<1>1. ASSUME NEW c \in Caller, Get(c) \/ Set(c) \/ Del(c) \/ Raise(c)
      PROVE  Inv'
  BY <1>1, LookStep, CheckStep, ReadStep, ScrapedStep, PutStep, DateStep, FullStep,
     DelValueStep, DelExpiryStep, RaiseStep DEF Get, Set, Del
<1>2. ASSUME NEW c \in Caller, NEW q \in Query, Fetch(c, q)
      PROVE  Inv'
  BY <1>2, FetchStep
<1>3. CASE Clear \/ ClearExpiry
  BY <1>3, ClearStep
<1>4. CASE Tick
  BY <1>4, TickStep
<1>5. CASE UNCHANGED vars
  BY <1>5 DEF vars, Inv, Types, TimesNear, CallsKnow, Knows, Young
<1>6. QED
  BY <1>1, <1>2, <1>3, <1>4, <1>5 DEF Next

\* Every answer taken from the cache was scraped at most TTL and the time of a
\* scrape ago, for any number of threads (RedisCache.get, RedisCache.set).
THEOREM AnswersStayFresh == Spec => AnswersAreFresh
<1> DEFINE A == \A c \in Caller : (call[c].stage = "read" /\ call'[c].stage = "idle")
                   => now - call'[c].at <= TTL + MaxScrape
<1>1. Inv /\ [Next]_vars => A
  <2> SUFFICES ASSUME Inv, [Next]_vars, NEW c \in Caller,
                      call[c].stage = "read", call'[c].stage = "idle"
               PROVE  now - call'[c].at <= TTL + MaxScrape
    OBVIOUS
  <2>1. Read(c)
    <3>1. call'[c] # call[c]
      OBVIOUS
    <3>2. call \in [Caller -> Record]
      BY DEF Inv, Types
    <3>3. ASSUME NEW d \in Caller, Get(d) \/ Set(d) \/ Del(d) \/ Raise(d)
          PROVE  d = c
      BY <3>1, <3>2, <3>3 DEF Get, Look, Check, Read, Set, Scraped, Put, Date, Full,
         Del, DelValue, DelExpiry, Raise, Goes, Scrapes, Answer
    <3>4. ASSUME NEW d \in Caller, NEW q \in Query, Fetch(d, q)
          PROVE  FALSE
      BY <3>1, <3>2, <3>4 DEF Fetch
    <3>5. ~(Clear \/ ClearExpiry \/ Tick \/ UNCHANGED vars)
      BY <3>1 DEF Clear, ClearExpiry, Tick, vars
    <3>6. Get(c) \/ Set(c) \/ Del(c) \/ Raise(c)
      BY <3>3, <3>4, <3>5 DEF Next
    <3>7. QED
      BY <3>6 DEF Get, Look, Check, Set, Scraped, Put, Date, Full, Del, DelValue, DelExpiry, Raise, At
  <2>2. PICK i \in DOMAIN local : local[i].query = call[c].query /\ Answer(c, local[i].at)
    <3>1. call'[c].stage # "raised"
      OBVIOUS
    <3>2. ~Goes(c, "raised")
      BY <3>1 DEF Goes, Inv, Types, Record
    <3>3. QED
      BY <2>1, <3>2 DEF Read
  <2>3. call'[c].at = local[i].at
    BY <2>2 DEF Answer, Inv, Types, Record
  <2>4. now <= local[i].at + (MaxScrape + TTL)
    BY <2>2 DEF Inv, CallsKnow, Knows, Young
  <2>5. local[i] \in Entry
    BY DEF Inv, Types
  <2>6. local[i].at \in Nat /\ now \in Nat /\ MaxScrape \in Nat /\ TTL \in Nat
    BY <2>5, TimesType DEF Entry, Inv, Types
  <2>7. QED
    BY <2>3, <2>4, <2>6
<1>2. QED
  BY <1>1, InvInit, InvStep, PTL DEF Spec, AnswersAreFresh

-----------------------------------------------------------------------------
(* The callers of one loop. *)

Dated  == {q \in Query : expiry[q] # None}
Tidy   == Len(local) <= MaxSize /\ Held = Dated
Unique == \A i, j \in DOMAIN local : local[i].query = local[j].query => i = j

\* What is so of the dicts while c, and nobody else, is inside get or set.
Stands(c) ==
  LET r == call[c] IN
  /\ r.stage \in {"look", "check", "read"} => Tidy /\ r.at = None /\ r.victim = r.query
  /\ r.stage = "check" => r.query \in Held
  /\ r.stage = "put" => Tidy /\ r.at # None
  /\ r.stage = "date" => Len(local) <= MaxSize + 1 /\ Held = Dated \cup {r.query} /\ r.at # None
  /\ r.stage = "full" => Len(local) <= MaxSize + 1 /\ Held = Dated /\ r.at # None
  /\ r.stage = "del" =>
       /\ Held = Dated /\ r.victim \in Held
       /\ IF r.at = None THEN Len(local) <= MaxSize /\ r.victim = r.query /\ ~Fresh(r.victim)
                         ELSE Len(local) <= MaxSize + 1
  /\ r.stage = "del2" =>
       /\ Len(local) <= MaxSize /\ Held = Dated \ {r.victim} /\ ~Fresh(r.victim)
       /\ r.at = None => r.victim = r.query

\* A result that was stored at most TTL ago is there, with its time.
FreshKept == \A q \in Query : Fresh(q) => q \in Held /\ expiry[q] = stored[q] + TTL

LoopTypes == stored \in [Query -> Nat \cup {None}] /\ clearing \in BOOLEAN

LoopInv ==
  /\ LoopTypes
  /\ Unique
  /\ FreshKept
  /\ \A c, d \in Inside : c = d
  /\ clearing => Inside = {} /\ local = <<>> /\ \A q \in Query : stored[q] = None
  /\ (Inside = {} /\ ~clearing) => Tidy
  /\ \A c \in Inside : Stands(c)

Outside == {"idle", "scrape", "raised"}

LEMMA LoopInit == Init => LoopInv
<1> SUFFICES ASSUME Init PROVE LoopInv
  OBVIOUS
<1>1. Inside = {} /\ ~clearing
  BY DEF Init, Inside, NewCall
<1>2. Len(local) = 0 /\ Held = {} /\ Dated = {}
  BY DEF Init, Held, Dated
<1>3. Tidy
  BY <1>2, SizeType DEF Tidy
<1>4. LoopTypes /\ Unique /\ FreshKept
  <2>1. LoopTypes /\ FreshKept
    BY DEF Init, LoopTypes, FreshKept, Fresh
  <2>2. local = <<>> /\ DOMAIN <<>> = {}
    BY DEF Init
  <2> QED
    BY <2>1, <2>2 DEF Unique
<1>5. QED
  BY <1>1, <1>3, <1>4 DEF LoopInv

\* The caller that is inside makes a step: it goes on inside, or leaves the dicts tidy.
LEMMA LoopCall ==
  ASSUME NEW c \in Caller, Inside \subseteq {c}, ~clearing', LoopTypes', Unique', FreshKept',
         \A d \in Caller \ {c} : call'[d] = call[d],
         call'[c].stage \in Outside => Tidy',
         call'[c].stage \notin Outside => Stands(c)'
  PROVE  LoopInv'
<1>1. Inside' \subseteq {c} /\ (Inside' = {} => call'[c].stage \in Outside)
      /\ (c \in Inside' => call'[c].stage \notin Outside)
  BY DEF Inside, Outside
<1>2. QED
  BY <1>1 DEF LoopInv

LEMMA GoesTo ==
  ASSUME Inv, NEW c \in Caller, NEW s, Goes(c, s)
  PROVE  /\ call'[c].stage = s /\ call'[c].query = call[c].query
         /\ call'[c].victim = call[c].victim /\ call'[c].at = call[c].at
         /\ \A d \in Caller \ {c} : call'[d] = call[d]
<1>1. call[c] \in Record /\ call \in [Caller -> Record]
  BY DEF Inv, Types
<1>2. call' = [call EXCEPT ![c] = [call[c] EXCEPT !.stage = s]]
  BY DEF Goes
<1>3. call'[c] = [call[c] EXCEPT !.stage = s] /\ \A d \in Caller \ {c} : call'[d] = call[d]
  BY <1>1, <1>2
<1>4. QED
  BY <1>1, <1>3 DEF Record

LEMMA ScrapesTo ==
  ASSUME Inv, NEW c \in Caller, Scrapes(c)
  PROVE  call'[c].stage = "scrape" /\ \A d \in Caller \ {c} : call'[d] = call[d]
<1>1. call[c] \in Record /\ call \in [Caller -> Record]
  BY DEF Inv, Types
<1>2. call' = [call EXCEPT ![c] = [call[c] EXCEPT !.stage = "scrape", !.at = now]]
  BY DEF Scrapes
<1>3. call'[c] = [call[c] EXCEPT !.stage = "scrape", !.at = now] /\ \A d \in Caller \ {c} : call'[d] = call[d]
  BY <1>1, <1>2
<1>4. QED
  BY <1>1, <1>3 DEF Record

DictsSame == UNCHANGED <<now, clearing, local, expiry, stored>>

LEMMA SameFacts ==
  ASSUME LoopInv, DictsSame
  PROVE  /\ LoopTypes' /\ Unique' /\ FreshKept'
         /\ Held' = Held /\ Dated' = Dated /\ Len(local') = Len(local) /\ clearing' = clearing
         /\ \A q \in Query : Fresh(q)' <=> Fresh(q)
BY DEF DictsSame, LoopInv, LoopTypes, Unique, FreshKept, Held, Dated, Fresh

\* Steps of get.
LEMMA LoopGet ==
  ASSUME Inv, LoopInv, mode = "loop", NEW c \in Caller, Get(c)
  PROVE  LoopInv'
<1>1. Inside \subseteq {c} /\ ~clearing /\ DictsSame /\ c \in Inside
  BY DEF Get, Look, Check, Read, At, DictsSame, Inside
<1>2. Stands(c)
  BY <1>1 DEF LoopInv
<1>3. call[c].query \in Query /\ call[c].at \in Nat \cup {None}
  BY DEF Inv, Types, Record
<1>4. LoopTypes' /\ Unique' /\ FreshKept' /\ ~clearing'
  BY <1>1, SameFacts
<1>5. Tidy /\ Tidy'
  BY <1>1, <1>2, SameFacts DEF Get, Look, Check, Read, At, Stands, Tidy
<1>6. CASE Look(c)
  <2>1. CASE call[c].query \in Held
    <3>1. Goes(c, "check") /\ call[c].stage = "look"
      BY <1>6, <2>1 DEF Look, At
    <3>2. call'[c].stage = "check" /\ call'[c].query = call[c].query
          /\ call'[c].victim = call[c].victim /\ call'[c].at = call[c].at
          /\ \A d \in Caller \ {c} : call'[d] = call[d]
      BY <3>1, GoesTo
    <3>3. Stands(c)'
      BY <1>1, <1>2, <1>5, <2>1, <3>1, <3>2, SameFacts DEF Stands
    <3> QED
      BY <1>1, <1>4, <1>5, <3>2, <3>3, LoopCall
  <2>2. CASE call[c].query \notin Held
    <3>1. Scrapes(c)
      BY <1>6, <2>2 DEF Look
    <3> QED
      BY <1>1, <1>4, <1>5, <3>1, ScrapesTo, LoopCall DEF Outside
  <2> QED
    BY <2>1, <2>2
<1>7. CASE Check(c)
  <2>1. call[c].stage = "check"
    BY <1>7 DEF Check, At
  <2>2. CASE Expired(call[c].query)
    <3>1. Goes(c, "del")
      BY <1>7, <2>2 DEF Check
    <3>2. call'[c].stage = "del" /\ call'[c].query = call[c].query
          /\ call'[c].victim = call[c].victim /\ call'[c].at = call[c].at
          /\ \A d \in Caller \ {c} : call'[d] = call[d]
      BY <3>1, GoesTo
    <3>3. ~Fresh(call[c].query)
      <4>1. now \in Nat /\ TTL \in Nat /\ (TTL # None) /\ stored[call[c].query] \in Nat \cup {None}
        BY <1>3, TimesType, NoneType DEF Inv, Types, LoopInv, LoopTypes
      <4>2. Fresh(call[c].query) => expiry[call[c].query] = stored[call[c].query] + TTL
        BY <1>3 DEF LoopInv, FreshKept
      <4> QED
        BY <2>2, <4>1, <4>2, NoneType DEF Fresh, Expired
    <3>4. Stands(c)'
      BY <1>1, <1>2, <1>3, <1>5, <2>1, <3>2, <3>3, SameFacts DEF Stands, Tidy
    <3> QED
      BY <1>1, <1>4, <1>5, <3>2, <3>4, LoopCall
  <2>3. CASE ~Expired(call[c].query)
    <3>1. Goes(c, "read")
      BY <1>7, <2>3 DEF Check
    <3>2. call'[c].stage = "read" /\ call'[c].query = call[c].query
          /\ call'[c].victim = call[c].victim /\ call'[c].at = call[c].at
          /\ \A d \in Caller \ {c} : call'[d] = call[d]
      BY <3>1, GoesTo
    <3>3. Stands(c)'
      BY <1>2, <1>5, <2>1, <3>2 DEF Stands
    <3> QED
      BY <1>1, <1>4, <1>5, <3>2, <3>3, LoopCall
  <2> QED
    BY <2>2, <2>3
<1>8. CASE Read(c)
  <2>1. ASSUME NEW i \in DOMAIN local, Answer(c, local[i].at)
        PROVE  call'[c].stage = "idle" /\ \A d \in Caller \ {c} : call'[d] = call[d]
    <3>1. call[c] \in Record /\ call \in [Caller -> Record]
      BY DEF Inv, Types
    <3>2. call'[c] = [call[c] EXCEPT !.stage = "idle", !.at = local[i].at]
          /\ \A d \in Caller \ {c} : call'[d] = call[d]
      BY <2>1, <3>1 DEF Answer
    <3> QED
      BY <3>1, <3>2 DEF Record
  <2>2. call'[c].stage \in {"idle", "raised"} /\ \A d \in Caller \ {c} : call'[d] = call[d]
    BY <1>8, <2>1, GoesTo DEF Read
  <2> QED
    BY <1>1, <1>4, <1>5, <2>2, LoopCall DEF Outside
<1>9. QED
  BY <1>6, <1>7, <1>8 DEF Get

\* Steps from and to the outside of get and set.
LEMMA LoopFetch ==
  ASSUME Inv, LoopInv, mode = "loop", NEW c \in Caller, NEW q \in Query, Fetch(c, q)
  PROVE  LoopInv'
<1>1. Inside = {} /\ ~clearing /\ DictsSame
  BY DEF Fetch, DictsSame
<1>2. /\ call'[c] = [NewCall(q) EXCEPT !.stage = "look"]
      /\ \A d \in Caller \ {c} : call'[d] = call[d]
  BY DEF Fetch, Inv, Types
<1>3. call'[c].stage = "look" /\ call'[c].query = q /\ call'[c].victim = q /\ call'[c].at = None
  BY <1>2 DEF NewCall
<1>4. Tidy' /\ LoopTypes' /\ Unique' /\ FreshKept' /\ ~clearing'
  BY <1>1, SameFacts DEF LoopInv, Tidy
<1>5. Stands(c)'
  BY <1>3, <1>4 DEF Stands
<1>6. QED
  BY <1>1, <1>2, <1>3, <1>4, <1>5, LoopCall DEF Outside

LEMMA LoopScraped ==
  ASSUME Inv, LoopInv, mode = "loop", NEW c \in Caller, Scraped(c)
  PROVE  LoopInv'
<1>1. Inside = {} /\ ~clearing /\ DictsSame /\ Goes(c, "put") /\ call[c].stage = "scrape"
  BY DEF Scraped, DictsSame
<1>2. call'[c].stage = "put" /\ call'[c].at = call[c].at /\ \A d \in Caller \ {c} : call'[d] = call[d]
  BY <1>1, GoesTo
<1>3. call[c].at # None
  BY <1>1 DEF Inv, CallsKnow, Knows
<1>4. Tidy' /\ LoopTypes' /\ Unique' /\ FreshKept' /\ ~clearing'
  BY <1>1, SameFacts DEF LoopInv, Tidy
<1>5. Stands(c)'
  BY <1>2, <1>3, <1>4 DEF Stands
<1>6. QED
  BY <1>1, <1>2, <1>4, <1>5, LoopCall DEF Outside

LEMMA LoopRaise ==
  ASSUME Inv, LoopInv, NEW c \in Caller, Raise(c)
  PROVE  LoopInv'
<1>1. DictsSame /\ Goes(c, "idle") /\ call[c].stage = "raised"
  BY DEF Raise, DictsSame
<1>2. call'[c].stage = "idle" /\ \A d \in Caller \ {c} : call'[d] = call[d]
  BY <1>1, GoesTo
<1>3. Inside' = Inside /\ c \notin Inside
  BY <1>1, <1>2 DEF Inside
<1>4. ASSUME NEW d \in Inside PROVE Stands(d)'
  <2>1. Stands(d)
    BY DEF LoopInv
  <2>2. call'[d] = call[d] /\ call[d].victim \in Query
    BY <1>2, <1>3 DEF Inside, Inv, Types, Record
  <2> QED
    BY <1>1, <2>1, <2>2, SameFacts DEF Stands, Tidy
<1>5. LoopTypes' /\ Unique' /\ FreshKept' /\ clearing' = clearing /\ (Tidy => Tidy')
  BY <1>1, SameFacts DEF Tidy
<1>6. local' = local /\ stored' = stored
  BY <1>1 DEF DictsSame
<1>7. QED
  <2>1. \A x, y \in Inside' : x = y
    BY <1>3 DEF LoopInv
  <2>2. clearing' => Inside' = {} /\ local' = <<>> /\ \A q \in Query : stored'[q] = None
    BY <1>3, <1>5, <1>6 DEF LoopInv
  <2>3. (Inside' = {} /\ ~clearing') => Tidy'
    BY <1>3, <1>5 DEF LoopInv
  <2>4. \A x \in Inside' : Stands(x)'
    BY <1>3, <1>4
  <2> QED
    BY <1>5, <2>1, <2>2, <2>3, <2>4 DEF LoopInv

\* A set leaves one entry for its query, and adds at most one.
LEMMA PutKeys ==
  ASSUME local \in Seq(Entry), Unique, NEW q \in Query, NEW v \in Nat, SetValue(q, v)
  PROVE  Unique' /\ Held' = Held \cup {q} /\ Len(local') <= Len(local) + 1
<1> DEFINE e == [query |-> q, at |-> v]
<1>1. e \in Entry /\ e.query = q
  BY DEF Entry
<1>2. DOMAIN local = 1 .. Len(local) /\ Len(local) \in Nat
  OBVIOUS
<1>3. CASE q \notin Held
  <2>1. local' = Append(local, e)
    BY <1>3 DEF SetValue
  <2>2. /\ Len(local') = Len(local) + 1 /\ DOMAIN local' = 1 .. Len(local) + 1
        /\ local'[Len(local) + 1] = e /\ \A i \in 1 .. Len(local) : local'[i] = local[i]
    BY <1>1, <2>1, AppendProperties
  <2>3. \A i \in DOMAIN local : local[i].query # q
    BY <1>3 DEF Held
  <2>4. \A i \in DOMAIN local' : i \in DOMAIN local \/ i = Len(local) + 1
    BY <1>2, <2>2
  <2> HIDE DEF e
  <2>5. Unique'
    BY <1>1, <1>2, <2>2, <2>3, <2>4 DEF Unique
  <2>6. Held' = Held \cup {q}
    <3>1. Len(local) + 1 \in DOMAIN local' /\ DOMAIN local \subseteq DOMAIN local'
      BY <1>2, <2>2
    <3> QED
      BY <1>1, <1>2, <2>2, <2>4, <3>1 DEF Held
  <2> QED
    BY <1>2, <2>2, <2>5, <2>6
<1>4. CASE q \in Held
  <2>1. local' = [i \in DOMAIN local |-> IF local[i].query = q THEN [local[i] EXCEPT !.at = v] ELSE local[i]]
    BY <1>4 DEF SetValue
  <2>2. \A i \in DOMAIN local : local[i] \in Entry
    OBVIOUS
  <2>3. \A i \in DOMAIN local : [local[i] EXCEPT !.at = v].query = local[i].query
    BY <2>2 DEF Entry
  <2>4. DOMAIN local' = DOMAIN local /\ \A i \in DOMAIN local : local'[i].query = local[i].query
    BY <2>1, <2>3
  <2>5. Len(local') = Len(local)
    BY <1>2, <2>4
  <2>6. Unique' /\ Held' = Held
    BY <2>4 DEF Unique, Held
  <2> QED
    BY <1>2, <1>4, <2>5, <2>6
<1>5. QED
  BY <1>3, <1>4

\* A deletion takes one query away.
LEMMA RemovedKeys ==
  ASSUME local \in Seq(Entry), Unique, NEW i \in DOMAIN local, local' = RemoveAt(local, i)
  PROVE  Unique' /\ Held' = Held \ {local[i].query} /\ Len(local') = Len(local) - 1
<1>1. PICK n \in Nat : DOMAIN local = 1 .. n + 1 /\ n = Len(local) - 1
  BY i \in 1 .. Len(local)
<1>2. PICK from : from = [j \in 1 .. n |-> IF j < i THEN j ELSE j + 1]
  OBVIOUS
<1>3. /\ \A j \in 1 .. n : from[j] \in DOMAIN local \ {i}
      /\ \A j, k \in 1 .. n : from[j] = from[k] => j = k
      /\ \A k \in DOMAIN local \ {i} : \E j \in 1 .. n : from[j] = k
  <2>1. ASSUME NEW k \in DOMAIN local \ {i}
        PROVE  \E j \in 1 .. n : from[j] = k
    <3>1. CASE k < i
      BY <1>1, <1>2, <3>1
    <3>2. CASE ~(k < i)
      <4>1. k - 1 \in 1 .. n /\ from[k - 1] = k
        BY <1>1, <1>2, <3>2
      <4> QED
        BY <4>1
    <3> QED
      BY <3>1, <3>2
  <2> QED
    BY <1>1, <1>2, <2>1
<1>4. local' \in Seq(Entry) /\ DOMAIN local' = 1 .. n /\ \A j \in 1 .. n : local'[j] = local[from[j]]
  BY <1>1, <1>2, Removed
<1>5. Unique'
  BY <1>3, <1>4 DEF Unique
<1>6. Held' = Held \ {local[i].query}
  <2>1. ASSUME NEW j \in DOMAIN local'
        PROVE  local'[j].query \in Held \ {local[i].query}
    <3>1. local'[j] = local[from[j]] /\ from[j] \in DOMAIN local \ {i}
      BY <1>3, <1>4
    <3> QED
      BY <3>1 DEF Unique, Held
  <2>2. ASSUME NEW k \in DOMAIN local, local[k].query # local[i].query
        PROVE  \E j \in DOMAIN local' : local'[j].query = local[k].query
    <3>1. PICK j \in 1 .. n : from[j] = k
      BY <1>3, <2>2
    <3> QED
      BY <1>4, <3>1
  <2> QED
    BY <2>1, <2>2 DEF Held
<1>7. Len(local') = n
  <2>1. \A m, k \in Nat : 1 .. m = 1 .. k => m = k
    OBVIOUS
  <2>2. Len(local') \in Nat /\ DOMAIN local' = 1 .. Len(local')
    BY <1>4
  <2> QED
    BY <1>4, <2>1, <2>2
<1>8. QED
  BY <1>1, <1>5, <1>6, <1>7

\* Steps of set.
LEMMA LoopSet ==
  ASSUME Inv, LoopInv, mode = "loop", NEW c \in Caller, Put(c) \/ Date(c) \/ Full(c)
  PROVE  LoopInv'
<1> DEFINE q == call[c].query
<1>1. Inside \subseteq {c} /\ ~clearing /\ clearing' = clearing /\ now' = now /\ c \in Inside
  BY DEF Put, Date, Full, At, Inside
<1>2. Stands(c)
  BY <1>1 DEF LoopInv
<1>3. /\ call[c] \in Record /\ q \in Query /\ local \in Seq(Entry) /\ Unique /\ FreshKept /\ LoopTypes
      /\ Len(local) \in Nat /\ MaxSize \in Nat /\ now \in Nat
  BY SizeType DEF Inv, Types, Record, LoopInv
<1>4. CASE Put(c)
  <2>1. call[c].stage = "put" /\ SetValue(q, call[c].at) /\ Goes(c, "date")
        /\ UNCHANGED <<expiry, stored>>
    BY <1>4 DEF Put, At
  <2>2. call[c].at \in Nat /\ call[c].at # None /\ Tidy
    BY <1>2, <1>3, <2>1 DEF Stands, Record
  <2>3. Unique' /\ Held' = Held \cup {q} /\ Len(local') <= Len(local) + 1 /\ local' \in Seq(Entry)
    BY <1>3, <2>1, <2>2, PutKeys, ValuePut
  <2>4. call'[c].stage = "date" /\ call'[c].query = q /\ call'[c].at = call[c].at
        /\ \A d \in Caller \ {c} : call'[d] = call[d]
    BY <2>1, GoesTo
  <2>5. FreshKept'
    BY <1>1, <1>3, <2>1, <2>3 DEF FreshKept, Fresh
  <2>6. Stands(c)'
    <3>1. Len(local') \in Nat /\ Len(local') <= MaxSize + 1
      BY <1>3, <2>2, <2>3 DEF Tidy
    <3>2. Dated' = Dated
      BY <2>1 DEF Dated
    <3> QED
      BY <2>2, <2>3, <2>4, <3>1, <3>2 DEF Stands, Tidy
  <2> QED
    BY <1>1, <1>3, <2>1, <2>3, <2>4, <2>5, <2>6, LoopCall DEF LoopTypes, Outside
<1>5. CASE Date(c)
  <2>1. /\ call[c].stage = "date" /\ Goes(c, "full") /\ local' = local
        /\ expiry' = [expiry EXCEPT ![q] = now + TTL] /\ stored' = [stored EXCEPT ![q] = now]
    BY <1>5 DEF Date, At
  <2>2. /\ expiry'[q] = now + TTL /\ stored'[q] = now /\ stored' \in [Query -> Nat \cup {None}]
        /\ \A x \in Query \ {q} : expiry'[x] = expiry[x] /\ stored'[x] = stored[x]
    BY <1>3, <2>1 DEF Inv, Types, LoopTypes
  <2>3. now + TTL # None
    BY <1>3, TimesType, NoneType
  <2>4. Dated' = Dated \cup {q} /\ Held' = Held /\ q \in Held
    BY <1>2, <1>3, <2>1, <2>2, <2>3 DEF Dated, Held, Stands
  <2>5. call'[c].stage = "full" /\ call'[c].at = call[c].at
        /\ \A d \in Caller \ {c} : call'[d] = call[d]
    BY <2>1, GoesTo
  <2>6. FreshKept'
    BY <1>1, <1>3, <2>2, <2>4 DEF FreshKept, Fresh
  <2>7. Stands(c)'
    BY <1>2, <2>1, <2>4, <2>5 DEF Stands
  <2> QED
    BY <1>1, <1>3, <2>1, <2>2, <2>5, <2>6, <2>7, LoopCall DEF LoopTypes, Unique, Outside
<1>6. CASE Full(c)
  <2>1. DictsSame /\ call[c].stage = "full"
    BY <1>6 DEF Full, At, DictsSame
  <2>2. LoopTypes' /\ Unique' /\ FreshKept' /\ ~clearing'
    BY <1>1, <2>1, SameFacts
  <2>3. CASE TooMany
    <3> DEFINE v == Head(local).query
    <3>1. local # <<>> /\ 1 \in DOMAIN local /\ Head(local) = local[1]
      BY <1>3, <2>3 DEF TooMany
    <3>2. v \in Held
      BY <3>1 DEF Held
    <3>3. call' = [call EXCEPT ![c] = [call[c] EXCEPT !.stage = "del", !.victim = v]]
      BY <1>6, <2>3 DEF Full
    <3>4. call'[c] = [call[c] EXCEPT !.stage = "del", !.victim = v]
          /\ \A d \in Caller \ {c} : call'[d] = call[d]
      BY <3>3 DEF Inv, Types
    <3>5. call'[c].stage = "del" /\ call'[c].victim = v /\ call'[c].at = call[c].at
      BY <1>3, <3>4 DEF Record
    <3>6. Stands(c)'
      BY <1>2, <2>1, <3>2, <3>5, SameFacts DEF Stands
    <3> QED
      BY <1>1, <2>2, <3>4, <3>5, <3>6, LoopCall DEF Outside
  <2>4. CASE ~TooMany
    <3>1. Goes(c, "idle")
      BY <1>6, <2>4 DEF Full
    <3>2. Tidy'
      BY <1>2, <1>3, <2>1, <2>4, SameFacts DEF Stands, Tidy, TooMany
    <3> QED
      BY <1>1, <2>2, <3>1, <3>2, GoesTo, LoopCall DEF Outside
  <2> QED
    BY <2>3, <2>4
<1>7. QED
  BY <1>4, <1>5, <1>6

\* The two deletions, of an expired entry in get and of the oldest in set.
LEMMA LoopDel ==
  ASSUME Inv, LoopInv, mode = "loop", NEW c \in Caller, Del(c)
  PROVE  LoopInv'
<1> DEFINE q == call[c].victim
<1>1. Inside \subseteq {c} /\ ~clearing /\ clearing' = clearing /\ now' = now /\ c \in Inside
  BY DEF Del, DelValue, DelExpiry, At, Inside
<1>2. Stands(c)
  BY <1>1 DEF LoopInv
<1>3. /\ call[c] \in Record /\ q \in Query /\ local \in Seq(Entry) /\ Unique /\ FreshKept
      /\ stored \in [Query -> Nat \cup {None}] /\ clearing \in BOOLEAN
      /\ Len(local) \in Nat /\ MaxSize \in Nat
  BY SizeType DEF Inv, Types, Record, LoopInv, LoopTypes
<1>4. CASE DelValue(c)
  <2>1. /\ call[c].stage = "del" /\ expiry' = expiry
        /\ stored' = IF call[c].at = None THEN stored ELSE [stored EXCEPT ![q] = None]
    BY <1>4 DEF DelValue, At
  <2>2. /\ Held = Dated /\ q \in Held /\ Len(local) <= MaxSize + 1
        /\ call[c].at = None => q = call[c].query /\ ~Fresh(q)
    BY <1>2, <1>3, <2>1 DEF Stands
  <2>3. PICK i \in DOMAIN local : local[i].query = q /\ local' = RemoveAt(local, i) /\ Goes(c, "del2")
    <3>1. \/ \E i \in DOMAIN local : local[i].query = q /\ local' = RemoveAt(local, i) /\ Goes(c, "del2")
          \/ q \notin Held
      BY <1>4, Zenon DEF DelValue
    <3> QED
      BY <2>2, <3>1
  <2>4. Unique' /\ Held' = Held \ {q} /\ Len(local') = Len(local) - 1
    BY <1>3, <2>3, RemovedKeys
  <2>5. call'[c].stage = "del2" /\ call'[c].query = call[c].query
        /\ call'[c].victim = q /\ call'[c].at = call[c].at
        /\ \A d \in Caller \ {c} : call'[d] = call[d]
    BY <2>3, GoesTo
  <2>6. /\ stored' \in [Query -> Nat \cup {None}]
        /\ \A x \in Query \ {q} : stored'[x] = stored[x]
        /\ \/ stored'[q] = None
           \/ ~Fresh(q) /\ stored'[q] = stored[q]
    <3>1. CASE call[c].at = None
      BY <1>3, <2>1, <2>2, <3>1
    <3>2. CASE call[c].at # None
      BY <1>3, <2>1, <3>2
    <3> QED
      BY <3>1, <3>2
  <2>7. stored'[q] # None => now' - stored'[q] > TTL
    <3>1. CASE stored'[q] = None
      BY <3>1
    <3>2. CASE ~Fresh(q) /\ stored'[q] = stored[q] /\ stored'[q] # None
      <4>1. now \in Nat /\ stored[q] \in Nat /\ TTL \in Nat
        BY <1>3, <3>2, TimesType DEF Inv, Types
      <4> QED
        BY <1>1, <3>2, <4>1 DEF Fresh
    <3> QED
      BY <2>6, <3>1, <3>2
  <2>8. stored'[q] # None => ~(now' - stored'[q] <= TTL)
    <3>1. stored'[q] # None => stored'[q] \in Nat
      BY <1>3, <2>6
    <3>2. now' \in Nat /\ TTL \in Nat
      BY <1>1, TimesType DEF Inv, Types
    <3> QED
      BY <2>7, <3>1, <3>2
  <2>9. FreshKept'
    BY <1>1, <1>3, <2>1, <2>4, <2>6, <2>8 DEF FreshKept, Fresh
  <2>10. Dated' = Dated /\ Len(local') <= MaxSize
    <3>1. Dated' = Dated
      BY <2>1 DEF Dated
    <3> QED
      BY <1>3, <2>2, <2>4, <3>1
  <2>11. Stands(c)'
    <3>1. call'[c].victim = q /\ ~(stored'[q] # None /\ now' - stored'[q] <= TTL)
      BY <2>5, <2>8
    <3>2. ~Fresh(call[c].victim)'
      BY <3>1 DEF Fresh
    <3> QED
      BY <2>2, <2>4, <2>5, <2>10, <3>2 DEF Stands
  <2> QED
    BY <1>1, <1>3, <2>4, <2>5, <2>6, <2>9, <2>11, LoopCall DEF LoopTypes, Outside
<1>5. CASE DelExpiry(c)
  <2>1. call[c].stage = "del2" /\ local' = local /\ stored' = stored
        /\ expiry' = [expiry EXCEPT ![q] = None]
    BY <1>5 DEF DelExpiry, DelTime, At
  <2>2. Held = Dated \ {q} /\ Len(local) <= MaxSize /\ ~Fresh(q)
    BY <1>2, <2>1 DEF Stands
  <2>3. expiry'[q] = None /\ \A x \in Query \ {q} : expiry'[x] = expiry[x]
    BY <1>3, <2>1 DEF Inv, Types
  <2>4. Dated' = Dated \ {q} /\ Held' = Held
    BY <2>1, <2>3 DEF Dated, Held
  <2>5. Tidy'
    BY <2>1, <2>2, <2>4 DEF Tidy
  <2>6. FreshKept'
    BY <1>1, <1>3, <2>1, <2>2, <2>3, <2>4 DEF FreshKept, Fresh
  <2>7. call'[c].stage \in Outside /\ \A d \in Caller \ {c} : call'[d] = call[d]
    BY <1>5, GoesTo, ScrapesTo DEF DelExpiry, Outside
  <2> QED
    BY <1>1, <1>3, <2>1, <2>5, <2>6, <2>7, LoopCall DEF LoopTypes, Unique
<1>6. QED
  BY <1>4, <1>5 DEF Del

LEMMA LoopClear == Inv /\ LoopInv /\ mode = "loop" /\ (Clear \/ ClearExpiry) => LoopInv'
<1> SUFFICES ASSUME Inv, LoopInv, mode = "loop", Clear \/ ClearExpiry PROVE LoopInv'
  OBVIOUS
<1>1. Inside = {} /\ Inside' = {}
  BY DEF Clear, ClearExpiry, Inside, LoopInv
<1>2. local' = <<>> /\ \A q \in Query : stored'[q] = None
  BY DEF Clear, ClearExpiry, LoopInv
<1>3. LoopTypes'
  BY DEF Clear, ClearExpiry, LoopInv, LoopTypes
<1>4. Unique' /\ Held' = {} /\ Len(local') = 0 /\ FreshKept'
  <2>1. DOMAIN <<>> = {} /\ Len(<<>>) = 0
    OBVIOUS
  <2> QED
    BY <1>2, <2>1 DEF Unique, Held, FreshKept, Fresh
<1>5. ~clearing' => Tidy'
  <2>1. ~clearing' => Dated' = {}
    BY DEF Clear, ClearExpiry, Dated
  <2> QED
    BY <1>4, <2>1, SizeType DEF Tidy
<1>6. QED
  BY <1>1, <1>2, <1>3, <1>4, <1>5 DEF LoopInv

\* What is kept may become stale, but nothing becomes fresh with time.
LEMMA LoopTick == Inv /\ LoopInv /\ Tick => LoopInv'
<1> SUFFICES ASSUME Inv, LoopInv, Tick PROVE LoopInv'
  OBVIOUS
<1>1. Inside = {} /\ ~clearing /\ now' = now + 1 /\ UNCHANGED <<clearing, local, expiry, call, stored>>
  BY DEF Tick
<1>2. Inside' = {} /\ Held' = Held /\ Dated' = Dated
  BY <1>1 DEF Inside, Held, Dated
<1>3. Tidy' /\ Unique' /\ LoopTypes'
  BY <1>1, <1>2 DEF LoopInv, Tidy, Unique, LoopTypes
<1>4. \A q \in Query : Fresh(q)' => Fresh(q)
  BY <1>1, TimesType DEF Fresh, Inv, Types, LoopInv, LoopTypes
<1>5. FreshKept'
  BY <1>1, <1>2, <1>4 DEF LoopInv, FreshKept
<1>6. QED
  BY <1>1, <1>2, <1>3, <1>5 DEF LoopInv

LEMMA LoopNext == Inv /\ LoopInv /\ mode = "loop" /\ [Next]_vars => LoopInv'
<1> SUFFICES ASSUME Inv, LoopInv, mode = "loop", [Next]_vars PROVE LoopInv'
  OBVIOUS
<1>1. CASE UNCHANGED vars
  <2>1. DictsSame /\ call' = call /\ Inside' = Inside
    BY <1>1 DEF vars, DictsSame, Inside
  <2>2. \A d \in Inside : Stands(d)'
    <3>1. \A q \in Query : Fresh(q)' <=> Fresh(q)
      BY <2>1, SameFacts
    <3>2. \A d \in Inside : Stands(d) /\ call[d].victim \in Query
      BY DEF LoopInv, Inside, Inv, Types, Record
    <3> QED
      BY <2>1, <3>1, <3>2, SameFacts DEF Stands, Tidy
  <2> QED
    BY <2>1, <2>2, SameFacts DEF LoopInv, Tidy, DictsSame
<1>2. CASE Next
  BY <1>2, LoopGet, LoopSet, LoopScraped, LoopDel, LoopRaise, LoopFetch, LoopClear, LoopTick DEF Next, Set
<1>3. QED
  BY <1>1, <1>2

LoopOnly == mode = "loop" => LoopInv

LEMMA LoopAlways == Spec => [](Inv /\ LoopOnly)
<1>1. Init => LoopOnly
  BY LoopInit DEF LoopOnly
<1>2. Inv /\ LoopOnly /\ [Next]_vars => LoopOnly'
  <2>1. [Next]_vars => mode' = mode
    BY DEF Next, vars, Get, Look, Check, Read, Set, Scraped, Put, Date, Full, Del, DelValue, DelExpiry,
       Raise, Fetch, Clear, ClearExpiry, Tick
  <2> QED
    BY <2>1, LoopNext DEF LoopOnly
<1>3. QED
  BY <1>1, <1>2, InvInit, InvStep, PTL DEF Spec

\* Between two calls of coroutines the cache holds at most max_size entries, each with
\* its time, and no other times (RedisCache.get, set and clear).
THEOREM CacheStaysTidy == Spec => []CacheIsTidy
<1>1. Inv /\ LoopOnly => CacheIsTidy
  BY DEF LoopOnly, LoopInv, CacheIsTidy, Tidy, Dated
<1>2. QED
  BY <1>1, LoopAlways, PTL

\* Coroutines do not ask the stores for what the cache was given at most TTL ago.
THEOREM RepeatsStayCached == Spec => RepeatsAreCachedInLoop
<1> DEFINE A == mode = "loop" => NoRepeat
<1>1. Inv /\ LoopOnly /\ [Next]_vars => A
  <2> SUFFICES ASSUME Inv, LoopInv, mode = "loop", [Next]_vars, NEW c \in Caller,
                      call[c].stage # "scrape", call'[c].stage = "scrape"
               PROVE  ~Fresh(call[c].query)
    BY DEF LoopOnly, NoRepeat
  <2>1. call' # call /\ call[c] # call'[c]
    OBVIOUS
  <2>2. PICK d \in Caller : Get(d) \/ Set(d) \/ Del(d) \/ Raise(d) \/ \E q \in Query : Fetch(d, q)
    BY <2>1 DEF Next, vars, Clear, ClearExpiry, Tick
  <2>3. d = c
    <3>1. \A s \in Stage : Goes(d, s) => \A e \in Caller \ {d} : call'[e] = call[e]
      BY DEF Goes, Inv, Types
    <3>2. Scrapes(d) => \A e \in Caller \ {d} : call'[e] = call[e]
      BY DEF Scrapes, Inv, Types
    <3>3. \A e \in Caller \ {d} : call'[e] = call[e]
      BY <2>2, <3>1, <3>2 DEF Get, Look, Check, Read, Answer, Set, Scraped, Put, Date, Full, Del, DelValue,
         DelExpiry, Raise, Fetch, Inv, Types, Stage
    <3> QED
      BY <2>1, <3>3
  <2>4. ASSUME NEW s \in Stage \ {"scrape"} PROVE ~Goes(c, s)
    BY <2>4, GoesTo
  <2>5. Look(c) \/ DelExpiry(c)
    <3>1. ~(Check(c) \/ Set(c) \/ DelValue(c) \/ Raise(c))
      BY <2>4 DEF Check, Set, Scraped, Put, Date, Full, DelValue, Raise, Stage, Inv, Types, Record
    <3>2. ~Read(c)
      BY <2>4 DEF Read, Answer, Stage, Inv, Types, Record
    <3>3. \A q \in Query : ~Fetch(c, q)
      BY DEF Fetch, NewCall, Inv, Types
    <3> QED
      BY <2>2, <2>3, <3>1, <3>2, <3>3 DEF Get, Del
  <2>6. c \in Inside /\ Stands(c)
    BY <2>5 DEF Look, DelExpiry, At, Inside, LoopInv
  <2>7. call[c].query \in Query
    BY DEF Inv, Types, Record
  <2>8. CASE Look(c)
    <3>1. call[c].query \notin Held
      BY <2>4, <2>8 DEF Look, Stage
    <3> QED
      BY <2>7, <3>1 DEF LoopInv, FreshKept
  <2>9. CASE DelExpiry(c)
    <3>1. call[c].at = None /\ call[c].stage = "del2"
      BY <2>4, <2>9 DEF DelExpiry, At, Stage
    <3> QED
      BY <2>6, <3>1 DEF Stands
  <2> QED
    BY <2>5, <2>8, <2>9
<1>2. QED
  BY <1>1, LoopAlways, PTL DEF Spec, RepeatsAreCachedInLoop
=============================================================================
