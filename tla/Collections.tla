------------------------------ MODULE Collections ------------------------------
(***************************************************************************)
(* CollectionStore (collections/store.py) behind the endpoints under       *)
(* /api/collections.  The time of a change is read before the lock and the *)
(* transaction.  SQLite does not enforce the FOREIGN KEY (no PRAGMA): an   *)
(* item may be added to a collection that is not there.  Ids are drawn at  *)
(* random and never drawn twice.                                           *)
(***************************************************************************)
EXTENDS Naturals, FiniteSets

CONSTANTS Proc, Coll, Item, None,
          MaxTime   \* bound: the clock stops here

VARIABLES
  collections,   \* collection -> updated_at or None
  items,         \* collection_items: item -> [coll, at] or None
  op,            \* the change each process has stamped and not yet committed
  now,
  drawn,         \* ids drawn
  gone,          \* history: collections deleted
  orphans,       \* history: items added when their collection was gone
  crossed        \* history: collections of which two changes were under way at once

vars == <<collections, items, op, now, drawn, gone, orphans, crossed>>

Idle == [what |-> "idle"]

Init ==
  /\ collections = [c \in Coll |-> None]
  /\ items = [i \in Item |-> None]
  /\ op = [p \in Proc |-> Idle]
  /\ now = 0 /\ drawn = {}
  /\ gone = {} /\ orphans = {} /\ crossed = {}

Exists(c) == collections[c] # None
In(c)     == {i \in Item : items[i] # None /\ items[i].coll = c}

Tick == /\ now < MaxTime /\ now' = now + 1
        /\ UNCHANGED <<collections, items, op, drawn, gone, orphans, crossed>>

\* create_collection and add_item draw an id and read the clock.  A client knows the
\* id of a collection when the collection is, or was, there.
Stamp(p, what, id, c) ==
  /\ op[p] = Idle /\ id \notin drawn
  /\ what = "create" \/ Exists(c) \/ c \in gone
  /\ crossed' = crossed \cup {op[q].coll : q \in {r \in Proc : op[r] # Idle /\ op[r].coll = c}}
  /\ drawn' = drawn \cup {id}
  /\ op' = [op EXCEPT ![p] = [what |-> what, id |-> id, coll |-> c, at |-> now]]
  /\ UNCHANGED <<collections, items, now, gone, orphans>>

CreateCollection(p) ==
  /\ op[p].what = "create"
  /\ collections' = [collections EXCEPT ![op[p].id] = op[p].at]
  /\ op' = [op EXCEPT ![p] = Idle]
  /\ UNCHANGED <<items, now, drawn, gone, orphans, crossed>>

Touched(c, t) == IF Exists(c) THEN [collections EXCEPT ![c] = t] ELSE collections

AddItem(p) ==
  /\ op[p].what = "add"
  /\ items' = [items EXCEPT ![op[p].id] = [coll |-> op[p].coll, at |-> op[p].at]]
  /\ collections' = Touched(op[p].coll, op[p].at)
  /\ orphans' = IF Exists(op[p].coll) THEN orphans ELSE orphans \cup {op[p].id}
  /\ op' = [op EXCEPT ![p] = Idle]
  /\ UNCHANGED <<now, drawn, gone, crossed>>

\* The item is removed from that collection only; the clock is read in the transaction.
RemoveItem(i, c) ==
  /\ i \in In(c)
  /\ items' = [items EXCEPT ![i] = None]
  /\ collections' = Touched(c, now)
  /\ UNCHANGED <<op, now, drawn, gone, orphans, crossed>>

\* Both DELETEs are one transaction.
DeleteCollection_RowOnly(c) ==
  /\ collections' = [collections EXCEPT ![c] = None]
  /\ gone' = IF Exists(c) THEN gone \cup {c} ELSE gone
  /\ UNCHANGED <<items, op, now, drawn, orphans, crossed>>
DeleteCollection(c) ==
  /\ items' = [i \in Item |-> IF i \in In(c) THEN None ELSE items[i]]
  /\ collections' = [collections EXCEPT ![c] = None]
  /\ gone' = IF Exists(c) THEN gone \cup {c} ELSE gone
  /\ UNCHANGED <<op, now, drawn, orphans, crossed>>

\* An error of SQLite: nothing is committed.
Fail(p) ==
  /\ op[p] # Idle
  /\ op' = [op EXCEPT ![p] = Idle]
  /\ UNCHANGED <<collections, items, now, drawn, gone, orphans, crossed>>

Next ==
  \/ Tick
  \/ \E p \in Proc :
       \/ CreateCollection(p) \/ AddItem(p) \/ Fail(p)
       \/ \E c \in Coll : Stamp(p, "create", c, c) \/ \E i \in Item : Stamp(p, "add", i, c)
  \/ \E c \in Coll : DeleteCollection(c) \/ \E i \in Item : RemoveItem(i, c)

-----------------------------------------------------------------------------
\* list_collections: the collections, each with the number of its items, and
\* get_collection: its items.
ListCollections  == [c \in {x \in Coll : Exists(x)} |-> Cardinality(In(c))]
GetCollection(c) == IF Exists(c) THEN In(c) ELSE {}

\* A collection takes its items with it: the only items without a collection are those
\* a client added to one that was gone, and no collection shows them.  A collection is
\* listed as updated no earlier than its newest item was added, unless two changes of
\* it were under way at once.
CollectionsAreWhole ==
  /\ \A i \in Item : items[i] # None => (i \in orphans <=> ~Exists(items[i].coll))
  /\ \A c \in DOMAIN ListCollections :
       /\ ListCollections[c] = Cardinality(GetCollection(c))
       /\ c \notin crossed => \A i \in GetCollection(c) : items[i].at <= collections[c]
=============================================================================
