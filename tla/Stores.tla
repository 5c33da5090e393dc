-------------------------------- MODULE Stores --------------------------------
(***************************************************************************)
(* The stores of the application and the small stateful parts beside them. *)
(* They share no state, so they are put together as a sum: the initial     *)
(* state says which of them is live, and only that one takes steps.  Each  *)
(* is an instance whose variables, and the constants not given here, are   *)
(* those of the same name below.                                           *)
(***************************************************************************)
EXTENDS PriceCache

CONSTANTS
  Proc, Thread, Request, Validator,      \* those who call: processes, threads
  Until,                                 \* bound: the last tick of each part's clock
  Tenant, Key, Lifetimes, Grace, MaxUses,                       \* AccessKeys
  Customer, Admin, ApiKey, MaxRequests,                         \* TenantApi
  Name, Value, Bad, Down,                                       \* DynamicConfig
  Tier, Step, Verify,                                           \* Onboarding
  Enforcer, Global, Action, Custom, Builtin, MaxEvents,         \* Retention
  Session, MaxTurns,                                            \* Conversations
  Brand, Budget, Text, Saved, MaxMerges,                        \* Profiles
  Coll, Item,                                                   \* Collections
  LruKey, Space, Every, LruSize, Life,                           \* TTLCache
  Threshold, BlockDuration, MaxStrikes,                         \* IpBlocker
  Window, Limit, MaxGranted,                                    \* WindowLimiter
  Plugin, Type, RunType,                                        \* Plugins
  Note, System, Percent, Days,                                  \* Notifications
  Month, Day, DaysInMonth, Thousand, MaxRecords, Charge, Pricing   \* Billing

VARIABLES
  live,                                                         \* which part it is
  tenants, keys, val, promised,                                 \* AccessKeys
  overrides, cache, changedBy, audit, served,                   \* TenantApi
  rows, own, cached, behind,                                    \* DynamicConfig
  reg, done, log,                                               \* Onboarding
  policies, events, seen,                                       \* Retention
  messages, queries, chat, clock, turns,                        \* Conversations
  row, merge, begun, kept,                                      \* Profiles
  collections, items, drawn, gone, orphans, crossed,            \* Collections
  store, pending, sets, used,                                   \* TTLCache
  strikes, block, first, basis,                                 \* IpBlocker
  bucket, asking, granted,                                      \* WindowLimiter
  enabled, byType, order, run, present, shrunk,                 \* Plugins
  notes, audited, handler, unread,                              \* Notifications
  today, plan, usage, records, metered, answer,                 \* Billing
  op, req, late, lost                                           \* of several parts

Keys == INSTANCE AccessKeys WITH MaxTime <- Until["keys"]

\* The key manager's clock and its validations stand still behind the endpoints.
Api == INSTANCE TenantApi WITH
  Tenant <- Customer, Key <- ApiKey, Validator <- {}, Lifetimes <- {None}, MaxTime <- 0, MaxUses <- 0

Config == INSTANCE DynamicConfig WITH Unset <- None

Board == INSTANCE Onboarding WITH MaxTime <- Until["board"]

Keep == INSTANCE Retention WITH Proc <- Enforcer

Talk == INSTANCE Conversations

Taste == INSTANCE Profiles

Wish == INSTANCE Collections WITH MaxTime <- Until["wish"]

Lru == INSTANCE TTLCache WITH
  Key <- LruKey, MaxSize <- LruSize, TTL <- Life, MaxTime <- Until["lru"]

Ip == INSTANCE IpBlocker WITH MaxTime <- Until["ip"]

Win == INSTANCE WindowLimiter WITH MaxTime <- Until["win"], call <- asking

Plug == INSTANCE Plugins

Inbox == INSTANCE Notifications WITH MaxTime <- Until["note"]

Bills == INSTANCE Billing

-----------------------------------------------------------------------------

cacheVars == <<mode, local, expiry, call, clearing, stored>>
keyVars   == <<tenants, keys, val, promised>>
apiVars   == <<overrides, cache, changedBy, audit, served>>
configVars == <<rows, own, cached, behind>>
boardVars == <<reg, done, log>>
keepVars  == <<policies, events, seen>>
talkVars  == <<messages, queries, chat, clock, turns>>
tasteVars == <<row, merge, begun, kept>>
wishVars  == <<collections, items, drawn, gone, orphans, crossed>>
lruVars   == <<store, pending, sets, used>>
ipVars    == <<strikes, block, first, basis>>
winVars   == <<bucket, asking, granted>>
plugVars  == <<enabled, byType, order, run, present, shrunk>>
noteVars  == <<notes, audited, handler, unread>>
billVars  == <<today, plan, usage, records, metered, answer>>

partVars == <<live, now, op, req, late, lost, cacheVars, keyVars, apiVars, configVars, boardVars,
              keepVars, talkVars, tasteVars, wishVars, lruVars, ipVars, winVars, plugVars,
              noteVars, billVars>>

Clocked == {"cache", "keys", "api", "board", "wish", "lru", "ip", "win", "note"}

\* The variables of the parts that are not live have no value, but for the price cache's,
\* which have their first.
Blank(p) ==
  /\ p \notin {"keys", "api"} => tenants = None /\ keys = None /\ val = None /\ promised = None
  /\ p # "api" => overrides = None /\ cache = None /\ changedBy = None /\ audit = None /\ served = None
  /\ p # "config" => rows = None /\ own = None /\ cached = None /\ behind = None
  /\ p # "board" => reg = None /\ done = None /\ log = None
  /\ p # "keep" => policies = None /\ events = None /\ seen = None
  /\ p # "talk" => messages = None /\ queries = None /\ chat = None /\ clock = None /\ turns = None
  /\ p # "taste" => row = None /\ merge = None /\ begun = None /\ kept = None
  /\ p # "wish" => /\ collections = None /\ items = None /\ drawn = None
                   /\ gone = None /\ orphans = None /\ crossed = None
  /\ p # "lru" => store = None /\ pending = None /\ sets = None /\ used = None
  /\ p # "ip" => strikes = None /\ block = None /\ first = None /\ basis = None
  /\ p # "win" => bucket = None /\ asking = None /\ granted = None
  /\ p # "plug" => /\ enabled = None /\ byType = None /\ order = None
                   /\ run = None /\ present = None /\ shrunk = None
  /\ p # "note" => notes = None /\ audited = None /\ handler = None /\ unread = None
  /\ p # "bills" => /\ today = None /\ plan = None /\ usage = None
                    /\ records = None /\ metered = None /\ answer = None
  /\ p \notin {"board", "keep", "wish"} => op = None
  /\ p \notin {"api", "ip", "bills"} => req = None
  /\ p \notin {"api", "ip"} => late = None
  /\ p \notin {"api", "talk"} => lost = None

PartInit ==
  /\ live \in {"cache", "keys", "api", "config", "board", "keep", "talk", "taste", "wish", "lru",
               "ip", "win", "plug", "note", "bills"}
  /\ Init
  /\ live # "cache" => mode = "loop"
  /\ live = "keys"   => Keys!KeyInit
  /\ live = "api"    => Api!Init
  /\ live = "config" => Config!Init
  /\ live = "board"  => Board!Init
  /\ live = "keep"   => Keep!Init
  /\ live = "talk"   => Talk!Init
  /\ live = "taste"  => Taste!Init
  /\ live = "wish"   => Wish!Init
  /\ live = "lru"    => Lru!Init
  /\ live = "ip"     => Ip!Init
  /\ live = "win"    => Win!Init
  /\ live = "plug"   => Plug!Init
  /\ live = "note"   => Inbox!Init
  /\ live = "bills"  => Bills!Init
  /\ Blank(live)

\* Part p takes a step and the others rest.
Alone(p) ==
  /\ live = p /\ UNCHANGED live
  /\ p # "cache"  => UNCHANGED cacheVars
  /\ p \notin {"keys", "api"} => UNCHANGED keyVars
  /\ p # "api"    => UNCHANGED apiVars
  /\ p # "config" => UNCHANGED configVars
  /\ p # "board"  => UNCHANGED boardVars
  /\ p # "keep"   => UNCHANGED keepVars
  /\ p # "talk"   => UNCHANGED talkVars
  /\ p # "taste"  => UNCHANGED tasteVars
  /\ p # "wish"   => UNCHANGED wishVars
  /\ p # "lru"    => UNCHANGED lruVars
  /\ p # "ip"     => UNCHANGED ipVars
  /\ p # "win"    => UNCHANGED winVars
  /\ p # "plug"   => UNCHANGED plugVars
  /\ p # "note"   => UNCHANGED noteVars
  /\ p # "bills"  => UNCHANGED billVars
  /\ p \notin Clocked => UNCHANGED now
  /\ p \notin {"board", "keep", "wish"} => UNCHANGED op
  /\ p \notin {"api", "ip", "bills"} => UNCHANGED req
  /\ p \notin {"api", "ip"} => UNCHANGED late
  /\ p \notin {"api", "talk"} => UNCHANGED lost

CacheNext  == Alone("cache")  /\ Next
KeysNext   == Alone("keys")   /\ Keys!KeyNext
ApiNext    == Alone("api")    /\ Api!Next
ConfigNext == Alone("config") /\ Config!Next
BoardNext  == Alone("board")  /\ Board!Next
KeepNext   == Alone("keep")   /\ Keep!Next
TalkNext   == Alone("talk")   /\ Talk!Next
TasteNext  == Alone("taste")  /\ Taste!Next
WishNext   == Alone("wish")   /\ Wish!Next
LruNext    == Alone("lru")    /\ Lru!Next
IpNext     == Alone("ip")     /\ Ip!Next
WinNext    == Alone("win")    /\ Win!Next
PlugNext   == Alone("plug")   /\ Plug!Next
NoteNext   == Alone("note")   /\ Inbox!Next
BillsNext  == Alone("bills")  /\ Bills!Next

PartNext ==
  \/ CacheNext \/ KeysNext \/ ApiNext \/ ConfigNext \/ BoardNext \/ KeepNext
  \/ TalkNext \/ TasteNext \/ WishNext \/ LruNext \/ IpNext \/ WinNext
  \/ PlugNext \/ NoteNext \/ BillsNext

PartSpec == PartInit /\ [][PartNext]_partVars

-----------------------------------------------------------------------------

\* A key rotated while in force stays good for its grace period (key_manager.rotate_key).
GraceIsKept == live = "keys" => Keys!GraceIsKept

\* A deactivated tenant is out but for requests already let in (verify_api_key).
AccessEndsSoon == live = "api" => Api!AccessEndsSoon

\* Changes are in the audit log unless their request failed half-way (api_router.py).
ChangesAreAudited == live = "api" => Api!ChangesAreAudited

\* A process sees its own changes of feature flags at once (auth/feature_flags.py).
OwnChangesAreSeen == live = "api" => Api!OwnChangesAreSeen

\* A process answers with the stored configuration but for what others changed since its
\* last load (config_dynamic.set, get).
ConfigIsCurrent == live = "config" => Config!ConfigIsCurrent

\* A tenant's registration, checklist and event log agree (onboarding/manager.py).
LogTellsTheState == live = "board" => Board!LogTellsTheState

\* An enforcement records a decision that some policy in force since it began gives
\* (retention/policy_manager.enforce).
EnforcementsFollowPolicies == live = "keep" => Keep!EnforcementsFollowPolicies

\* A stored exchange has its question before its answer, both or it is known to be cut
\* (conversation_store.save_exchange, search_tracker.track).
ExchangesAreWhole == live = "talk" => Talk!ExchangesAreWhole

\* A preference saved for a user is lost only to an overlapping merge or a deletion
\* (preference_tool.save, user_profile.merge).
PreferencesAreKept == live = "taste" => Taste!PreferencesAreKept

\* Collections, their items and their time of update agree (collections/store.py).
CollectionsAreWhole == live = "wish" => Wish!CollectionsAreWhole

\* The LRU cache holds the keys used last (cache/ttl_cache.py).
HoldsTheLastUsed == live = "lru" => Lru!HoldsTheLastUsed

\* An address is blocked only for strikes enough and recent enough, unless its counter
\* lost its expiry (abusive_ip_blocker.record_strike).
BlockIsDeserved == live = "ip" => Ip!BlockIsDeserved

\* The sliding window grants at most its limit, and one for each other thread that read
\* the clock before it had the lock (auth/rate_limiter.is_allowed).
WindowHolds == live = "win" => Win!WindowHolds

\* The registry's tables agree and a run executes what stays enabled in its order
\* (plugins/manager.py).
RegistryIsWhole == live = "plug" => Plug!RegistryIsWhole

\* No notification is purged or lost before its tenant has read it
\* (notification_center.purge_old, events/handlers.py).
NothingUnreadIsLost == live = "note" => Inbox!NothingUnreadIsLost

\* A bill's parts add up and charge for the month's usage alone (billing_engine.get_bill).
BillsAddUp == live = "bills" => Bills!BillsAddUp
=============================================================================
