----------------------------- MODULE Conversations -----------------------------
(***************************************************************************)
(* ConversationStore and SearchTracker behind POST /chat (app.py): the     *)
(* question, the answer and the query are saved one after the other, each  *)
(* in a transaction of its own whose errors are swallowed.  A process      *)
(* serves one chat at a time; other processes and DELETE /history come in  *)
(* between.  A message is stamped before its INSERT; stamps are distinct.  *)
(***************************************************************************)
EXTENDS Naturals, Sequences, FiniteSets

CONSTANTS Proc, Session,
          MaxTurns      \* bound: chats

VARIABLES
  messages,   \* conversations: [session, role, turn, at]
  queries,    \* search_queries: [session, turn]
  chat,       \* what each process is saving
  clock,      \* the next stamp
  turns,      \* chats begun
  lost        \* history: turns of which a message failed, was cut off or was deleted

vars == <<messages, queries, chat, clock, turns, lost>>

Idle == [at |-> "idle"]

Init ==
  /\ messages = {} /\ queries = {} /\ lost = {}
  /\ chat = [p \in Proc |-> Idle]
  /\ clock = 0 /\ turns = 0

\* The answer is there; save_exchange begins: the question is stamped.
Chat(p, s) ==
  /\ chat[p] = Idle /\ turns < MaxTurns
  /\ turns' = turns + 1 /\ clock' = clock + 1
  /\ chat' = [chat EXCEPT ![p] = [at |-> "user", session |-> s, turn |-> turns', stamp |-> clock]]
  /\ UNCHANGED <<messages, queries, lost>>

Message_Swapped(p, role) ==
  [session |-> chat[p].session, role |-> IF role = "user" THEN "assistant" ELSE "user",
   turn |-> chat[p].turn, at |-> chat[p].stamp]
Message(p, role) == [session |-> chat[p].session, role |-> role,
                     turn |-> chat[p].turn, at |-> chat[p].stamp]

\* save_message: inserted, or an error that is logged.
SaveMessage(p, role) ==
  \/ messages' = messages \cup {Message(p, role)} /\ UNCHANGED lost
  \/ lost' = lost \cup {chat[p].turn} /\ UNCHANGED messages

\* Then the answer is stamped.
SaveUser(p) ==
  /\ chat[p].at = "user"
  /\ SaveMessage(p, "user")
  /\ chat' = [chat EXCEPT ![p].at = "assistant", ![p].stamp = clock]
  /\ clock' = clock + 1
  /\ UNCHANGED <<queries, turns>>

SaveAssistant(p) ==
  /\ chat[p].at = "assistant"
  /\ SaveMessage(p, "assistant")
  /\ chat' = [chat EXCEPT ![p].at = "track"]
  /\ UNCHANGED <<queries, clock, turns>>

\* track: recorded, or an error that is logged.
Track(p) ==
  /\ chat[p].at = "track"
  /\ queries' \in {queries, queries \cup {[session |-> chat[p].session, turn |-> chat[p].turn]}}
  /\ chat' = [chat EXCEPT ![p] = Idle]
  /\ UNCHANGED <<messages, clock, turns, lost>>

Crash(p) ==
  /\ chat[p] # Idle
  /\ chat' = [chat EXCEPT ![p] = Idle]
  /\ lost' = IF chat[p].at = "track" THEN lost ELSE lost \cup {chat[p].turn}
  /\ UNCHANGED <<messages, queries, clock, turns>>

\* delete_session deletes what is committed; the chat under way saves the rest.
DeleteSession(s) ==
  LET gone == {m \in messages : m.session = s}
  IN /\ messages' = messages \ gone
     /\ lost' = lost \cup {m.turn : m \in gone}
     /\ UNCHANGED <<queries, chat, clock, turns>>

Next ==
  \/ \E p \in Proc : \/ SaveUser(p) \/ SaveAssistant(p) \/ Track(p) \/ Crash(p)
                     \/ \E s \in Session : Chat(p, s)
  \/ \E s \in Session : DeleteSession(s)

-----------------------------------------------------------------------------
(* Reads: ORDER BY timestamp, LIMIT. *)

Rank(rows, m) == Cardinality({x \in rows : x.at < m.at})
Oldest(rows)  == [i \in 1 .. Cardinality(rows) |-> CHOOSE m \in rows : Rank(rows, m) = i - 1]
Newest(rows)  == [i \in 1 .. Cardinality(rows) |-> CHOOSE m \in rows : Rank(rows, m) = Cardinality(rows) - i]

Rows(s) == Oldest({m \in messages : m.session = s})
Page(q, limit, offset) == SubSeq(q, offset + 1, IF offset + limit < Len(q) THEN offset + limit ELSE Len(q))

GetHistory(s, limit, offset) == Page(Rows(s), limit, offset)

SearchHistory(s, turn, limit) ==
  Page(Newest({m \in messages : m.session = s /\ m.turn = turn}), limit, 0)

GetSessionStats(s) == LET r == Rows(s) IN
  [count |-> Len(r), first |-> IF r = <<>> THEN 0 ELSE r[1].at, last |-> IF r = <<>> THEN 0 ELSE r[Len(r)].at]

ListSessions == {[session |-> s, stats |-> GetSessionStats(s)] : s \in {m.session : m \in messages}}

GetSearchVolume == [total |-> Cardinality(queries), sessions |-> Cardinality({q.session : q \in queries})]
-----------------------------------------------------------------------------

\* In a conversation a question comes before its answer, and one is without the other
\* only if its save failed, was cut off or was deleted, or the answer is still to be
\* saved; a query is tracked only after its exchange.  The statistics agree with pages.
ExchangesAreWhole ==
  /\ \A s \in Session : LET h == Rows(s) IN
       /\ \A i, j \in DOMAIN h : h[i].turn = h[j].turn /\ h[i].role = "user" /\ h[j].role = "assistant" => i < j
       /\ \A i \in DOMAIN h : h[i].turn \notin lost =>
            LET whole == SearchHistory(s, h[i].turn, 2) IN
            \/ Len(whole) = 2 /\ whole[1].role = "assistant"
            \/ \E p \in Proc : chat[p].at = "assistant" /\ chat[p].turn = h[i].turn
       /\ GetHistory(s, 2, 0) \o GetHistory(s, 2 * MaxTurns, 2) = h
  /\ \A q \in queries : q.turn \notin lost => Len(SearchHistory(q.session, q.turn, 2)) = 2
  /\ \A x \in ListSessions : x.stats.count > 0 /\ x.stats.first <= x.stats.last
  /\ GetSearchVolume.total <= turns /\ GetSearchVolume.sessions <= Cardinality(Session)
=============================================================================
