----------------------------- MODULE Stores_proofs -----------------------------
(***************************************************************************)
(* Proofs about the stores, for any values of the constants of each part:  *)
(* any processes, tenants, keys, names and bounds, whatever fails.  Each   *)
(* part has an inductive invariant of its own, which its steps keep; that  *)
(* the other parts' steps do not touch it is LiveSteps.                    *)
(***************************************************************************)
EXTENDS Stores, FiniteSetTheorems, SequenceTheorems, WellFoundedInduction, TLAPS

-----------------------------------------------------------------------------
(* The sum: the part that is live begins as its specification says and takes the *)
(* steps that its specification allows.                                          *)

LEMMA LiveSteps ==
  ASSUME [PartNext]_partVars
  PROVE  /\ live' = live
         /\ live = "keys"   => [Keys!KeyNext]_<<tenants, now, Keys!keyVars>>
         /\ live = "api"    => [Api!Next]_Api!vars
         /\ live = "config" => [Config!Next]_Config!vars
         /\ live = "board"  => [Board!Next]_Board!vars
         /\ live = "keep"   => [Keep!Next]_Keep!vars
         /\ live = "taste"  => [Taste!Next]_Taste!vars
         /\ live = "wish"   => [Wish!Next]_Wish!vars
         /\ live = "ip"     => [Ip!Next]_Ip!vars
         /\ live = "win"    => [Win!Next]_Win!vars
         /\ live = "note"   => [Inbox!Next]_Inbox!vars
         /\ live = "bills"  => [Bills!Next]_Bills!vars
         /\ live = "plug"   => [Plug!Next]_Plug!vars
         /\ live = "talk"   => [Talk!Next]_Talk!vars
         /\ live = "lru"    => [Lru!Next]_Lru!vars
<1>1. CASE PartNext
  BY <1>1 DEF PartNext, CacheNext, KeysNext, ApiNext, ConfigNext, BoardNext, KeepNext, TalkNext,
     TasteNext, WishNext, LruNext, IpNext, WinNext, PlugNext, NoteNext, BillsNext, Alone
<1>2. CASE UNCHANGED partVars
  BY <1>2 DEF partVars, keyVars, apiVars, configVars, boardVars, keepVars, tasteVars, wishVars, ipVars,
     winVars, noteVars, billVars, plugVars, talkVars, lruVars, Keys!keyVars, Api!vars, Api!keyVars, Api!flagVars, Api!apiVars, Config!vars,
     Board!vars, Keep!vars, Taste!vars, Wish!vars, Ip!vars, Win!vars, Inbox!vars, Bills!vars,
     Plug!vars, Talk!vars, Lru!vars
<1> QED
  BY <1>1, <1>2

LEMMA LiveStarts ==
  ASSUME PartInit
  PROVE  /\ live = "keys"   => Keys!KeyInit
         /\ live = "api"    => Api!Init
         /\ live = "config" => Config!Init
         /\ live = "board"  => Board!Init
         /\ live = "keep"   => Keep!Init
         /\ live = "taste"  => Taste!Init
         /\ live = "wish"   => Wish!Init
         /\ live = "ip"     => Ip!Init
         /\ live = "win"    => Win!Init
         /\ live = "note"   => Inbox!Init
         /\ live = "bills"  => Bills!Init
         /\ live = "plug"   => Plug!Init
         /\ live = "talk"   => Talk!Init
         /\ live = "lru"    => Lru!Init
BY DEF PartInit

-----------------------------------------------------------------------------
(* AccessKeys *)

Moment == Nat \cup {None}
KeyRow == [tenant : Tenant, active : BOOLEAN, expires : Moment, used : Nat]

KeyParameters ==
  /\ Grace \in Nat /\ None \notin Int /\ None \notin KeyRow
  /\ Lifetimes \subseteq Nat \cup {None}

KeyTypes ==
  /\ now \in Nat
  /\ keys \in [Key -> KeyRow \cup {None}]
  /\ DOMAIN val = Validator
  /\ promised \in [Key -> Moment]

\* While a promise lasts the key is there and active, expires no sooner, and no validation
\* is about to switch it off; no promise goes beyond a grace period from now.
PromiseKept(k) ==
  promised[k] # None =>
    /\ promised[k] <= now + Grace
    /\ now <= promised[k] =>
         /\ keys[k] # None /\ keys[k].active
         /\ keys[k].expires = None \/ promised[k] <= keys[k].expires
         /\ ~Keys!Doomed(k)

\* A validation under way has read a row, and rows stay.
HasRead(v) == val[v] = Keys!Idle \/ (val[v] \in [at : {"expire", "use"}, key : Key] /\ keys[val[v].key] # None)

KeyInv ==
  /\ KeyTypes
  /\ \A v \in Validator : HasRead(v)
  /\ \A k \in Key : PromiseKept(k)

LiveKeyInv == live = "keys" => KeyInv

-----------------------------------------------------------------------------
\* A key whose row, promise and validations stay as they are keeps its promise.
LEMMA PromiseUntouched ==
  ASSUME KeyInv, NEW k \in Key, now' = now, keys'[k] = keys[k], promised'[k] = promised[k],
         Keys!Doomed(k)' => Keys!Doomed(k)
  PROVE  PromiseKept(k)'
BY DEF KeyInv, PromiseKept

\* Rows stay, so what a validation has read does.
LEMMA ReadsStay ==
  ASSUME KeyInv, val' = val, \A k \in Key : keys[k] # None => keys'[k] # None
  PROVE  \A v \in Validator : HasRead(v)'
<1> SUFFICES ASSUME NEW v \in Validator PROVE HasRead(v)'
  OBVIOUS
<1>1. HasRead(v)
  BY DEF KeyInv
<1>2. CASE val[v] = Keys!Idle
  BY <1>2 DEF HasRead
<1>3. CASE val[v] \in [at : {"expire", "use"}, key : Key] /\ keys[val[v].key] # None
  <2>1. val[v].key \in Key
    BY <1>3
  <2> QED
    BY <1>3, <2>1 DEF HasRead
<1> QED
  BY <1>1, <1>2, <1>3 DEF HasRead

\* An id is drawn once, so no promise is about it.
LEMMA KeyCreateHolds ==
  ASSUME KeyParameters, KeyInv, NEW k \in Key, NEW t \in Tenant, NEW life \in Lifetimes,
         Keys!Create(k, t, life), now' = now
  PROVE  KeyInv'
<1>1. /\ keys[k] = None /\ keys' = [keys EXCEPT ![k] = Keys!NewKey(t, Keys!LifetimeEnd(life))]
      /\ UNCHANGED <<val, promised>>
  BY DEF Keys!Create, Keys!CreateKey
<1>2. Keys!LifetimeEnd(life) \in Moment
  BY DEF Keys!LifetimeEnd, Moment, KeyParameters, KeyInv, KeyTypes
<1>3. Keys!NewKey(t, Keys!LifetimeEnd(life)) \in KeyRow
  BY <1>2 DEF Keys!NewKey, KeyRow
<1>4. KeyTypes'
  BY <1>1, <1>3 DEF KeyInv, KeyTypes
<1>5. ASSUME NEW x \in Key PROVE PromiseKept(x)'
  <2>1. CASE x = k
    BY <1>1, <2>1 DEF KeyInv, PromiseKept
  <2>2. CASE x # k
    BY <1>1, <2>2, PromiseUntouched DEF KeyInv, KeyTypes, Keys!Doomed
  <2> QED
    BY <2>1, <2>2
<1>6. Keys!NewKey(t, Keys!LifetimeEnd(life)) # None
  BY <1>3 DEF KeyParameters
<1>7. \A v \in Validator : HasRead(v)'
  BY <1>1, <1>6, ReadsStay DEF KeyInv, KeyTypes
<1> QED
  BY <1>4, <1>5, <1>7 DEF KeyInv

\* A rotation moves the expiry no nearer than any promise, and promises only what holds.
LEMMA KeyRotateHolds ==
  ASSUME KeyParameters, KeyInv, NEW k \in Key, NEW t \in Tenant, Keys!Rotate(k, t), now' = now
  PROVE  KeyInv'
<1>1. CASE Keys!Row(keys[k]) /\ keys[k].tenant = t
  <2>1. /\ keys' = [keys EXCEPT ![k].expires = now + Grace] /\ UNCHANGED val
        /\ promised' = IF Keys!Good(k) /\ ~Keys!Doomed(k)
                       THEN [promised EXCEPT ![k] = now + Grace] ELSE promised
    BY <1>1 DEF Keys!Rotate, Keys!ExpireOld, Keys!Promise
  <2>2. now \in Nat /\ now + Grace \in Nat /\ now + Grace # None
    BY DEF KeyInv, KeyTypes, KeyParameters
  <2>3. keys[k] \in KeyRow
    BY <1>1 DEF KeyInv, KeyTypes, Keys!Row
  <2>4. /\ [keys[k] EXCEPT !.expires = now + Grace] \in KeyRow
        /\ keys'[k] = [keys[k] EXCEPT !.expires = now + Grace]
    BY <2>1, <2>2, <2>3 DEF KeyInv, KeyTypes, KeyRow, Moment
  <2>5. keys'[k] # None /\ keys'[k].active = keys[k].active /\ keys'[k].expires = now + Grace
    BY <2>3, <2>4 DEF KeyRow, KeyParameters
  <2>6. KeyTypes'
    BY <2>1, <2>2, <2>4 DEF KeyInv, KeyTypes, Moment
  <2>7. Keys!Doomed(k)' <=> Keys!Doomed(k)
    BY <2>1 DEF Keys!Doomed
  <2>8. PromiseKept(k)'
    <3>1. CASE Keys!Good(k) /\ ~Keys!Doomed(k)
      <4>1. promised'[k] = now + Grace /\ keys[k].active
        BY <2>1, <3>1 DEF KeyInv, KeyTypes, Keys!Good
      <4> QED
        BY <2>2, <2>5, <2>7, <3>1, <4>1 DEF PromiseKept
    <3>2. CASE ~(Keys!Good(k) /\ ~Keys!Doomed(k))
      <4>1. promised'[k] = promised[k]
        BY <2>1, <3>2
      <4> QED
        BY <2>2, <2>5, <2>7, <4>1 DEF KeyInv, PromiseKept
    <3> QED
      BY <3>1, <3>2
  <2>9. ASSUME NEW x \in Key, x # k PROVE PromiseKept(x)'
    <3>1. keys'[x] = keys[x] /\ promised'[x] = promised[x] /\ (Keys!Doomed(x)' => Keys!Doomed(x))
      BY <2>1, <2>9 DEF KeyInv, KeyTypes, Keys!Doomed
    <3> QED
      BY <3>1, PromiseUntouched
  <2>10. \A v \in Validator : HasRead(v)'
    BY <2>1, <2>5, ReadsStay DEF KeyInv, KeyTypes
  <2> QED
    BY <2>6, <2>8, <2>9, <2>10 DEF KeyInv
<1>2. CASE ~(Keys!Row(keys[k]) /\ keys[k].tenant = t)
  <2>1. UNCHANGED <<keys, val, promised>>
    BY <1>2 DEF Keys!Rotate, Keys!ExpireOld, Keys!Promise, Keys!Good
  <2> QED
    BY <2>1 DEF KeyInv, KeyTypes, PromiseKept, Keys!Doomed, HasRead
<1> QED
  BY <1>1, <1>2

LEMMA KeyRevokeHolds ==
  ASSUME KeyParameters, KeyInv, NEW k \in Key, NEW t \in Tenant, Keys!Revoke(k, t), now' = now
  PROVE  KeyInv'
<1>1. CASE Keys!Row(keys[k]) /\ keys[k].tenant = t
  <2>1. /\ keys' = [keys EXCEPT ![k].active = FALSE] /\ UNCHANGED val
        /\ promised' = [promised EXCEPT ![k] = None]
    BY <1>1 DEF Keys!Revoke, Keys!RevokeKey
  <2>2. keys[k] \in KeyRow
    BY <1>1 DEF KeyInv, KeyTypes, Keys!Row
  <2>3. [keys[k] EXCEPT !.active = FALSE] \in KeyRow
    BY <2>2 DEF KeyRow
  <2>4. KeyTypes'
    BY <2>1, <2>3 DEF KeyInv, KeyTypes, Moment
  <2>5. ASSUME NEW x \in Key PROVE PromiseKept(x)'
    <3>1. CASE x = k
      BY <2>1, <3>1 DEF KeyInv, KeyTypes, PromiseKept
    <3>2. CASE x # k
      <4>1. keys'[x] = keys[x] /\ promised'[x] = promised[x] /\ (Keys!Doomed(x)' => Keys!Doomed(x))
        BY <2>1, <3>2 DEF KeyInv, KeyTypes, Keys!Doomed
      <4> QED
        BY <4>1, PromiseUntouched
    <3> QED
      BY <3>1, <3>2
  <2>6. keys'[k] # None
    BY <2>1, <2>2, <2>3 DEF KeyInv, KeyTypes, KeyParameters
  <2>7. \A v \in Validator : HasRead(v)'
    BY <2>1, <2>6, ReadsStay DEF KeyInv, KeyTypes
  <2> QED
    BY <2>4, <2>5, <2>7 DEF KeyInv
<1>2. CASE ~(Keys!Row(keys[k]) /\ keys[k].tenant = t)
  <2>1. UNCHANGED <<keys, val, promised>>
    BY <1>2 DEF Keys!Revoke, Keys!RevokeKey
  <2> QED
    BY <2>1 DEF KeyInv, KeyTypes, PromiseKept, Keys!Doomed, HasRead
<1> QED
  BY <1>1, <1>2

\* A validation dooms only a key that has expired, which no promise allows.
LEMMA KeyReadHolds ==
  ASSUME KeyParameters, KeyInv, NEW v \in Validator, NEW k \in Key, Keys!ValidateRead(v, k), now' = now
  PROVE  KeyInv'
<1> DEFINE due == keys[k].expires # None /\ keys[k].expires < now
           next == [at |-> IF due THEN "expire" ELSE "use", key |-> k]
<1>1. val' = [val EXCEPT ![v] = next] /\ UNCHANGED <<keys, promised>> /\ keys[k] # None
  BY DEF Keys!ValidateRead, Keys!Row
<1>2. KeyTypes'
  BY <1>1 DEF KeyInv, KeyTypes
<1>3. ASSUME NEW x \in Key, x # k \/ ~due PROVE Keys!Doomed(x)' => Keys!Doomed(x)
  <2> SUFFICES ASSUME NEW u \in Validator, val'[u] = [at |-> "expire", key |-> x] PROVE Keys!Doomed(x)
    BY DEF Keys!Doomed
  <2>1. next # [at |-> "expire", key |-> x]
    <3>1. next.key = k /\ [at |-> "expire", key |-> x].key = x
      OBVIOUS
    <3>2. ~due => next.at = "use"
      OBVIOUS
    <3> QED
      BY <1>3, <3>1, <3>2
  <2>2. u # v
    BY <1>1, <2>1 DEF KeyInv, KeyTypes
  <2> QED
    BY <1>1, <2>2 DEF Keys!Doomed, KeyInv, KeyTypes
<1>4. ASSUME NEW x \in Key PROVE PromiseKept(x)'
  <2>1. CASE x # k \/ ~due
    BY <1>1, <1>3, <2>1, PromiseUntouched
  <2>2. CASE x = k /\ due
    <3>1. keys[k].expires \in Nat /\ promised[k] \in Moment /\ now \in Nat
      BY <1>1, <2>2 DEF KeyInv, KeyTypes, KeyRow, Moment
    <3>2. promised[k] # None => ~(now <= promised[k])
      BY <2>2, <3>1 DEF KeyInv, PromiseKept, Moment
    <3> QED
      BY <1>1, <2>2, <3>2 DEF KeyInv, PromiseKept
  <2> QED
    BY <2>1, <2>2
<1>5. ASSUME NEW u \in Validator PROVE HasRead(u)'
  <2>1. CASE u = v
    BY <1>1, <2>1 DEF KeyInv, KeyTypes, HasRead
  <2>2. CASE u # v
    BY <1>1, <2>2 DEF KeyInv, KeyTypes, HasRead
  <2> QED
    BY <2>1, <2>2
<1> QED
  BY <1>2, <1>4, <1>5 DEF KeyInv

\* A key that no validation has doomed is not switched off by one.
LEMMA KeyWriteHolds ==
  ASSUME KeyParameters, KeyInv, NEW v \in Validator, Keys!ValidateWrite(v), now' = now
  PROVE  KeyInv'
<1> DEFINE k == val[v].key
<1>1. val' = [val EXCEPT ![v] = Keys!Idle] /\ UNCHANGED promised /\ val[v].at \in {"expire", "use"}
  BY DEF Keys!ValidateWrite
<1>2. ASSUME NEW x PROVE Keys!Doomed(x)' => Keys!Doomed(x)
  <2>1. Keys!Idle # [at |-> "expire", key |-> x]
    <3>1. Keys!Idle.at = "idle"
      BY DEF Keys!Idle
    <3> QED
      BY <3>1
  <2> QED
    BY <1>1, <2>1 DEF Keys!Doomed, KeyInv, KeyTypes
<1>3. val[v] \in [at : {"expire", "use"}, key : Key] /\ k \in Key /\ keys[k] \in KeyRow
  <2>1. val[v] # Keys!Idle
    <3>1. Keys!Idle.at = "idle"
      BY DEF Keys!Idle
    <3> QED
      BY <1>1, <3>1
  <2>2. val[v] \in [at : {"expire", "use"}, key : Key] /\ keys[k] # None
    BY <2>1 DEF KeyInv, HasRead
  <2> QED
    BY <2>2 DEF KeyInv, KeyTypes
<1> DEFINE line == [keys[k] EXCEPT !.active = @ /\ val[v].at = "use",
                                  !.used = IF val[v].at = "use" /\ @ < MaxUses THEN @ + 1 ELSE @]
<1>4. \/ keys' = keys
      \/ /\ line \in KeyRow /\ line.expires = keys[k].expires
         /\ line.active = (keys[k].active /\ val[v].at = "use")
         /\ keys' = [keys EXCEPT ![k] = line]
  <2>1. CASE keys' = [keys EXCEPT ![k].active = @ /\ val[v].at = "use",
                                  ![k].used = IF val[v].at = "use" /\ @ < MaxUses THEN @ + 1 ELSE @]
    <3>1. keys' = [keys EXCEPT ![k] = line]
      BY <1>3, <2>1 DEF KeyInv, KeyTypes, KeyRow
    <3> DEFINE act == keys[k].active /\ val[v].at = "use"
               use == IF val[v].at = "use" /\ keys[k].used < MaxUses
                      THEN keys[k].used + 1 ELSE keys[k].used
    <3>2. keys[k].used \in Nat /\ act \in BOOLEAN
      BY <1>3 DEF KeyRow
    <3>3. use \in Nat
      BY <3>2
    <3>4. line = [keys[k] EXCEPT !.active = act, !.used = use]
      OBVIOUS
    <3> HIDE DEF act, use, line
    <3>5. line \in KeyRow /\ line.expires = keys[k].expires /\ line.active = act
      BY <1>3, <3>2, <3>3, <3>4 DEF KeyRow
    <3>6. line.active = (keys[k].active /\ val[v].at = "use")
      BY <3>5 DEF act
    <3> QED
      BY <3>1, <3>5, <3>6
  <2> QED
    BY <2>1 DEF Keys!ValidateWrite
<1>5. KeyTypes'
  BY <1>1, <1>3, <1>4 DEF KeyInv, KeyTypes
<1>6. \A x \in Key : keys[x] # None => keys'[x] # None
  BY <1>3, <1>4 DEF KeyInv, KeyTypes, KeyParameters
<1>7. ASSUME NEW u \in Validator PROVE HasRead(u)'
  <2>1. CASE u = v
    BY <1>1, <2>1 DEF KeyInv, KeyTypes, HasRead
  <2>2. CASE u # v
    <3>1. val'[u] = val[u] /\ HasRead(u)
      BY <1>1, <2>2 DEF KeyInv, KeyTypes
    <3> QED
      BY <1>6, <3>1 DEF HasRead, Keys!Idle
  <2> QED
    BY <2>1, <2>2
<1>8. ASSUME NEW x \in Key PROVE PromiseKept(x)'
  <2>1. CASE keys'[x] = keys[x]
    BY <1>1, <1>2, <2>1, PromiseUntouched
  <2>2. CASE keys'[x] # keys[x]
    <3>1. x = k /\ keys'[k] = line
      BY <1>3, <1>4, <2>2 DEF KeyInv, KeyTypes
    <3>2. keys'[k] # None /\ keys'[k].expires = keys[k].expires
          /\ keys'[k].active = (keys[k].active /\ val[v].at = "use")
      BY <1>4, <2>2, <3>1 DEF KeyParameters
    <3>3. ~Keys!Doomed(k) => val[v].at = "use"
      <4>1. val[v].at = "expire" => val[v] = [at |-> "expire", key |-> k]
        BY <1>3
      <4> QED
        BY <1>1, <4>1 DEF Keys!Doomed
    <3> QED
      BY <1>1, <1>2, <3>1, <3>2, <3>3 DEF KeyInv, PromiseKept
  <2> QED
    BY <2>1, <2>2
<1> QED
  BY <1>5, <1>7, <1>8 DEF KeyInv

\* Time only shortens promises.
LEMMA KeyTimeHolds ==
  ASSUME KeyParameters, KeyInv, now' = now + 1, UNCHANGED Keys!keyVars
  PROVE  KeyInv'
<1>1. UNCHANGED <<keys, val, promised>> /\ now \in Nat
  BY DEF Keys!keyVars, KeyInv, KeyTypes
<1>2. KeyTypes' /\ \A v \in Validator : HasRead(v)'
  BY <1>1 DEF KeyInv, KeyTypes, HasRead
<1>3. ASSUME NEW k \in Key PROVE PromiseKept(k)'
  <2>1. Keys!Doomed(k)' <=> Keys!Doomed(k)
    BY <1>1 DEF Keys!Doomed
  <2>2. promised[k] \in Moment
    BY DEF KeyInv, KeyTypes
  <2> QED
    BY <1>1, <2>1, <2>2 DEF KeyInv, PromiseKept, Moment, KeyParameters
<1> QED
  BY <1>2, <1>3 DEF KeyInv

\* A key that was in force when rotate_key gave it its grace period stays active to the
\* end of it, unless it is revoked or was doomed before (key_manager.rotate_key,
\* validate_key), for any number of keys, tenants and validations.
THEOREM GraceKept ==
  ASSUME KeyParameters
  PROVE  PartSpec => []GraceIsKept
<1>1. Keys!KeyInit => KeyInv
  <2> SUFFICES ASSUME Keys!KeyInit PROVE KeyInv
    OBVIOUS
  <2>1. KeyTypes
    BY DEF Keys!KeyInit, KeyTypes, Moment
  <2>2. \A v \in Validator : HasRead(v)
    BY DEF Keys!KeyInit, HasRead
  <2>3. \A k \in Key : PromiseKept(k)
    BY DEF Keys!KeyInit, PromiseKept
  <2> QED
    BY <2>1, <2>2, <2>3 DEF KeyInv
<1>2. KeyInv /\ [Keys!KeyNext]_<<tenants, now, Keys!keyVars>> => KeyInv'
  <2> SUFFICES ASSUME KeyInv, [Keys!KeyNext]_<<tenants, now, Keys!keyVars>> PROVE KeyInv'
    OBVIOUS
  <2>1. ASSUME NEW k \in Key, NEW t \in Tenant, Keys!Rotate(k, t), now' = now PROVE KeyInv'
    BY <2>1, KeyRotateHolds
  <2>2. ASSUME NEW k \in Key, NEW t \in Tenant, Keys!Revoke(k, t), now' = now PROVE KeyInv'
    BY <2>2, KeyRevokeHolds
  <2>3. ASSUME NEW k \in Key, NEW t \in Tenant, NEW life \in Lifetimes, Keys!Create(k, t, life), now' = now
        PROVE  KeyInv'
    BY <2>3, KeyCreateHolds
  <2>4. ASSUME NEW v \in Validator, Keys!ValidateWrite(v), now' = now PROVE KeyInv'
    BY <2>4, KeyWriteHolds
  <2>5. ASSUME NEW v \in Validator, NEW k \in Key, Keys!ValidateRead(v, k), now' = now PROVE KeyInv'
    BY <2>5, KeyReadHolds
  <2>6. CASE now' = now + 1 /\ UNCHANGED Keys!keyVars
    BY <2>6, KeyTimeHolds
  <2>7. CASE UNCHANGED <<tenants, now, Keys!keyVars>>
    BY <2>7 DEF Keys!keyVars, KeyInv, KeyTypes, HasRead, PromiseKept, Keys!Doomed
  <2> QED
    BY <2>1, <2>2, <2>3, <2>4, <2>5, <2>6, <2>7 DEF Keys!KeyNext
<1>3. KeyInv => Keys!GraceIsKept
  <2> SUFFICES ASSUME KeyInv, NEW k \in Key, promised[k] # None, now <= promised[k]
               PROVE  k \in Keys!ActiveKeys(keys[k].tenant)
    BY DEF Keys!GraceIsKept
  <2> QED
    BY DEF KeyInv, PromiseKept, Keys!ActiveKeys, Keys!ListKeys, Keys!Row
<1>4. PartInit => LiveKeyInv
  BY <1>1, LiveStarts DEF LiveKeyInv
<1>5. LiveKeyInv /\ [PartNext]_partVars => LiveKeyInv'
  BY <1>2, LiveSteps DEF LiveKeyInv
<1>6. LiveKeyInv => GraceIsKept
  BY <1>3 DEF LiveKeyInv, GraceIsKept
<1> QED
  BY <1>4, <1>5, <1>6, PTL DEF PartSpec

-----------------------------------------------------------------------------
(* DynamicConfig *)

\* What the steps rely on: the tables are functions of the names.  The caches are those
\* of TypeOK, less the values, which do not matter.
ConfigShapes ==
  /\ rows \in [Name -> Config!Stored]
  /\ DOMAIN cached = Proc
  /\ behind \in [Proc -> SUBSET Name]

ConfigInv == ConfigShapes /\ Config!ConfigIsCurrent

LiveConfigInv == live = "config" => ConfigInv

\* A process that has just loaded answers with every stored value.
LEMMA LoadSees ==
  ASSUME ConfigInv, NEW p \in Proc, NEW n \in Name, NEW v \in Value \cup {Bad}, Config!SetGlobal(p, n, v)
  PROVE  ConfigInv'
<1>1. ConfigShapes'
  BY DEF ConfigInv, ConfigShapes, Config!SetGlobal, Config!Loaded, Config!Stored
<1>2. ASSUME NEW q \in Proc, cached'[q] # Down, NEW m \in Name, m \notin behind'[q]
      PROVE  cached'[q][m] = rows'[m]
  <2>1. CASE cached' = Config!Loaded(p, n) /\ behind' = [r \in Proc |-> IF r = p THEN {} ELSE behind[r] \cup {n}]
    <3>1. CASE q = p
      BY <2>1, <3>1 DEF ConfigInv, ConfigShapes, Config!Loaded
    <3>2. CASE q # p
      <4>1. cached'[q] = cached[q] /\ m \notin behind[q] /\ m # n
        BY <1>2, <2>1, <3>2 DEF ConfigInv, ConfigShapes, Config!Loaded
      <4>2. rows'[m] = rows[m]
        BY <4>1 DEF ConfigInv, ConfigShapes, Config!SetGlobal
      <4> QED
        BY <1>2, <4>1, <4>2 DEF ConfigInv, Config!ConfigIsCurrent, Config!Get, Config!Up
    <3> QED
      BY <3>1, <3>2
  <2>2. CASE cached' = cached /\ behind' = [r \in Proc |-> behind[r] \cup {n}]
    <3>1. m \notin behind[q] /\ m # n
      BY <1>2, <2>2
    <3>2. rows'[m] = rows[m]
      BY <3>1 DEF ConfigInv, ConfigShapes, Config!SetGlobal
    <3> QED
      BY <1>2, <2>2, <3>1, <3>2 DEF ConfigInv, Config!ConfigIsCurrent, Config!Get, Config!Up
  <2> QED
    BY <2>1, <2>2 DEF Config!SetGlobal
<1> QED
  BY <1>1, <1>2 DEF ConfigInv, Config!ConfigIsCurrent, Config!Get, Config!Up

\* A process that starts again has loaded everything, or knows that it has nothing, or
\* does not run.
LEMMA RestartSees ==
  ASSUME ConfigInv, NEW p \in Proc, Config!Restart(p)
  PROVE  ConfigInv'
<1>1. rows' = rows
  BY DEF Config!Restart
<1>2. ConfigShapes'
  BY DEF ConfigInv, ConfigShapes, Config!Restart
<1>3. ASSUME NEW q \in Proc, cached'[q] # Down, NEW m \in Name, m \notin behind'[q]
      PROVE  cached'[q][m] = rows'[m]
  <2>1. CASE q = p
    BY <1>1, <1>3, <2>1 DEF ConfigInv, ConfigShapes, Config!Restart
  <2>2. CASE q # p
    <3>1. cached'[q] = cached[q] /\ m \notin behind[q]
      BY <1>3, <2>2 DEF ConfigInv, ConfigShapes, Config!Restart
    <3> QED
      BY <1>1, <1>3, <3>1 DEF ConfigInv, Config!ConfigIsCurrent, Config!Get, Config!Up
  <2> QED
    BY <2>1, <2>2
<1> QED
  BY <1>2, <1>3 DEF ConfigInv, Config!ConfigIsCurrent, Config!Get, Config!Up

\* A tenant's own values are not cached: changing them disturbs nothing.
LEMMA ConfigUnmoved ==
  ASSUME ConfigInv, UNCHANGED <<rows, cached, behind>>
  PROVE  ConfigInv'
BY DEF ConfigInv, ConfigShapes, Config!ConfigIsCurrent, Config!Get, Config!Up

\* A process answers with the stored value of every name that nobody has changed since
\* its last load (config_dynamic.get), for any number of processes and names.
THEOREM ConfigStaysCurrent == PartSpec => []ConfigIsCurrent
<1>1. Config!Init => ConfigInv
  BY DEF Config!Init, ConfigInv, ConfigShapes, Config!ConfigIsCurrent, Config!Get, Config!Up, Config!Stored, Config!Nothing
<1>2. ConfigInv /\ [Config!Next]_Config!vars => ConfigInv'
  <2> SUFFICES ASSUME ConfigInv, [Config!Next]_Config!vars PROVE ConfigInv'
    OBVIOUS
  <2>1. ASSUME NEW p \in Proc, Config!Restart(p) PROVE ConfigInv'
    BY <2>1, RestartSees
  <2>2. ASSUME NEW p \in Proc, NEW n \in Name, Config!Delete(p, n) PROVE ConfigInv'
    BY <2>2, ConfigUnmoved DEF Config!Delete
  <2>3. ASSUME NEW p \in Proc, NEW n \in Name, NEW v \in Value \cup {Bad}, Config!SetGlobal(p, n, v)
        PROVE  ConfigInv'
    BY <2>3, LoadSees
  <2>4. ASSUME NEW p \in Proc, NEW n \in Name, NEW v \in Value \cup {Bad}, Config!SetTenant(p, n, v)
        PROVE  ConfigInv'
    BY <2>4, ConfigUnmoved DEF Config!SetTenant
  <2>5. CASE UNCHANGED Config!vars
    BY <2>5, ConfigUnmoved DEF Config!vars
  <2> QED
    BY <2>1, <2>2, <2>3, <2>4, <2>5 DEF Config!Next
<1>3. ConfigInv => Config!ConfigIsCurrent
  BY DEF ConfigInv
<1>4. PartInit => LiveConfigInv
  BY <1>1, LiveStarts DEF LiveConfigInv
<1>5. LiveConfigInv /\ [PartNext]_partVars => LiveConfigInv'
  BY <1>2, LiveSteps DEF LiveConfigInv
<1>6. LiveConfigInv => ConfigIsCurrent
  BY <1>3 DEF LiveConfigInv, ConfigIsCurrent
<1> QED
  BY <1>4, <1>5, <1>6, PTL DEF PartSpec

-----------------------------------------------------------------------------
(* Profiles *)

\* What is saved is profiles, and no profile is None.
ProfilesDiffer == Saved \subseteq Taste!Profile /\ None \notin Taste!Profile

\* A merge under way is about to write what it read, with what is new.
MergeSound(m) ==
  /\ m.at = "write"
  /\ m.read \in Taste!Profile /\ m.new \in Taste!Profile
  /\ m.profile = Taste!Merged(m.read, m.new)

TasteInv ==
  /\ row \in Taste!Profile \cup {None} /\ kept \in Taste!Profile
  /\ DOMAIN merge = Proc
  /\ \A p \in Proc : merge[p] = Taste!Idle \/ MergeSound(merge[p])
  /\ Taste!PreferencesAreKept

LiveTasteInv == live = "taste" => TasteInv

-----------------------------------------------------------------------------
LEMMA CoalesceTakes ==
  ASSUME NEW v, NEW w
  PROVE  /\ v # None => Taste!Coalesce(v, w) = v
         /\ v = None => Taste!Coalesce(v, w) = w
BY DEF Taste!Coalesce

LEMMA MergeFields ==
  ASSUME NEW old \in Taste!Profile, NEW new \in Taste!Profile
  PROVE  /\ Taste!Merged(old, new) \in Taste!Profile
         /\ Taste!Merged(old, new).brands = old.brands \cup new.brands
         /\ Taste!Merged(old, new).budget = Taste!Coalesce(new.budget, old.budget)
         /\ Taste!Merged(old, new).notes = Taste!Coalesce(new.notes, old.notes)
<1>1. /\ old.brands \in SUBSET Brand /\ new.brands \in SUBSET Brand
      /\ old.budget \in Budget \cup {None} /\ new.budget \in Budget \cup {None}
      /\ old.notes \in Text \cup {None} /\ new.notes \in Text \cup {None}
  BY DEF Taste!Profile
<1>2. /\ Taste!Coalesce(new.budget, old.budget) \in Budget \cup {None}
      /\ Taste!Coalesce(new.notes, old.notes) \in Text \cup {None}
  BY <1>1 DEF Taste!Coalesce
<1> QED
  BY <1>1, <1>2 DEF Taste!Merged, Taste!Profile

\* A row that is there is read, and else an empty profile.
LEMMA ProfileRead ==
  ASSUME row \in Taste!Profile \cup {None}
  PROVE  Taste!GetProfile \in Taste!Profile
BY DEF Taste!GetProfile, Taste!Empty, Taste!Profile

\* The upsert writes the profile, but for a budget it does not have.
LEMMA UpsertFields ==
  ASSUME row \in Taste!Profile \cup {None}, NEW new \in Taste!Profile
  PROVE  /\ Taste!Upserted(new) \in Taste!Profile
         /\ Taste!Upserted(new).brands = new.brands /\ Taste!Upserted(new).notes = new.notes
         /\ Taste!Upserted(new).budget = Taste!Coalesce(new.budget, Taste!GetProfile.budget)
<1>1. Taste!GetProfile.budget \in Budget \cup {None} /\ new.budget \in Budget \cup {None}
  BY ProfileRead DEF Taste!Profile
<1>2. Taste!Coalesce(new.budget, Taste!GetProfile.budget) \in Budget \cup {None}
  BY <1>1 DEF Taste!Coalesce
<1> QED
  BY <1>2 DEF Taste!Upserted, Taste!Profile

LEMMA TasteInitHolds == Taste!Init => TasteInv
BY DEF Taste!Init, TasteInv, Taste!PreferencesAreKept, Taste!Empty, Taste!Profile

LEMMA ReadKeeps ==
  ASSUME TasteInv, NEW p \in Proc, NEW new \in Taste!Profile, Taste!ReadAndMerge(p, new)
  PROVE  TasteInv'
<1>1. UNCHANGED <<row, kept>> /\ DOMAIN merge' = Proc
  BY DEF TasteInv, Taste!ReadAndMerge
<1>2. ASSUME NEW q \in Proc PROVE merge'[q] = Taste!Idle \/ MergeSound(merge'[q])
  <2>1. CASE q = p
    <3>1. merge'[p] = [at |-> "write", new |-> new, read |-> Taste!GetProfile, profile |-> Taste!Merged(Taste!GetProfile, new)]
      BY DEF TasteInv, Taste!ReadAndMerge
    <3> QED
      BY <2>1, <3>1, ProfileRead DEF TasteInv, MergeSound
  <2>2. CASE q # p
    BY <2>2 DEF TasteInv, Taste!ReadAndMerge
  <2> QED
    BY <2>1, <2>2
<1> QED
  BY <1>1, <1>2 DEF TasteInv, Taste!PreferencesAreKept, Taste!GetProfile

LEMMA UpsertHolds ==
  ASSUME ProfilesDiffer, TasteInv, NEW p \in Proc, Taste!UpsertProfile(p)
  PROVE  TasteInv'
<1> DEFINE m == merge[p]
           left == Taste!Left(m)
<1>1. MergeSound(m) /\ row' = Taste!Upserted(m.profile)
  BY DEF TasteInv, Taste!UpsertProfile, Taste!Idle
<1>2. m.read \in Taste!Profile /\ m.new \in Taste!Profile /\ kept \in Taste!Profile /\ m.profile = Taste!Merged(m.read, m.new)
  BY <1>1 DEF MergeSound, TasteInv
<1>3. /\ m.profile \in Taste!Profile
      /\ m.profile.brands = m.read.brands \cup m.new.brands
      /\ m.profile.budget = Taste!Coalesce(m.new.budget, m.read.budget)
      /\ m.profile.notes = Taste!Coalesce(m.new.notes, m.read.notes)
  BY <1>2, MergeFields
<1>4. /\ row' \in Taste!Profile
      /\ row'.brands = m.profile.brands /\ row'.notes = m.profile.notes
      /\ row'.budget = Taste!Coalesce(m.profile.budget, Taste!GetProfile.budget)
  BY <1>1, <1>3, UpsertFields DEF TasteInv
<1>5. Taste!GetProfile' = row'
  BY <1>4 DEF Taste!GetProfile, ProfilesDiffer
<1>6. /\ left.brands = kept.brands \cap m.read.brands
      /\ left.budget = IF m.read.budget \in {kept.budget, None} THEN kept.budget ELSE None
      /\ left.notes = IF m.read.notes = kept.notes THEN kept.notes ELSE None
  BY DEF Taste!Left
<1>7. kept' = [brands |-> left.brands \cup m.new.brands, budget |-> Taste!Coalesce(m.new.budget, left.budget),
               notes |-> Taste!Coalesce(m.new.notes, left.notes)]
  BY DEF Taste!UpsertProfile
<1>8. DOMAIN merge' = Proc /\ \A q \in Proc : merge'[q] = Taste!Idle \/ MergeSound(merge'[q])
  BY DEF TasteInv, Taste!UpsertProfile
<1> HIDE DEF m, left
<1>9. kept' \in Taste!Profile
  BY <1>2, <1>6, <1>7 DEF Taste!Profile, Taste!Coalesce
<1>10. kept'.brands \subseteq row'.brands
  BY <1>3, <1>4, <1>6, <1>7
<1>11. ASSUME kept'.budget # None PROVE row'.budget = kept'.budget
  <2>1. CASE m.new.budget # None
    BY <1>3, <1>4, <1>7, <2>1, CoalesceTakes
  <2>2. CASE m.new.budget = None
    <3>1. kept'.budget = kept.budget /\ m.read.budget \in {kept.budget, None} /\ kept.budget # None
      BY <1>6, <1>7, <1>11, <2>2, CoalesceTakes
    <3>2. Taste!GetProfile.budget = kept.budget
      BY <3>1 DEF TasteInv, Taste!PreferencesAreKept
    <3> QED
      BY <1>3, <1>4, <2>2, <3>1, <3>2, CoalesceTakes
  <2> QED
    BY <2>1, <2>2
<1>12. ASSUME kept'.notes # None PROVE row'.notes = kept'.notes
  BY <1>3, <1>4, <1>6, <1>7, <1>12, CoalesceTakes
<1> QED
  BY <1>4, <1>5, <1>8, <1>9, <1>10, <1>11, <1>12 DEF TasteInv, Taste!PreferencesAreKept

\* A preference saved for the user stays in the profile, and a scalar with the value saved
\* last, until the profile is deleted or a merge writes that had read the profile before
\* (user_profile.merge_preferences).
THEOREM PreferencesStay ==
  ASSUME ProfilesDiffer
  PROVE  PartSpec => []PreferencesAreKept
<1>1. TasteInv /\ [Taste!Next]_Taste!vars => TasteInv'
  <2> SUFFICES ASSUME TasteInv, [Taste!Next]_Taste!vars PROVE TasteInv'
    OBVIOUS
  <2>1. CASE Taste!DeleteProfile
    BY <2>1 DEF Taste!DeleteProfile, TasteInv, Taste!PreferencesAreKept, Taste!Empty, Taste!Profile
  <2>2. ASSUME NEW p \in Proc, NEW new \in Saved, Taste!ReadAndMerge(p, new) PROVE TasteInv'
    BY <2>2, ReadKeeps DEF ProfilesDiffer
  <2>3. ASSUME NEW p \in Proc, Taste!UpsertProfile(p) PROVE TasteInv'
    BY <2>3, UpsertHolds
  <2>4. ASSUME NEW p \in Proc, Taste!FailMerge(p) PROVE TasteInv'
    BY <2>4 DEF Taste!FailMerge, TasteInv, Taste!PreferencesAreKept, Taste!GetProfile
  <2>5. CASE UNCHANGED Taste!vars
    BY <2>5 DEF Taste!vars, TasteInv, Taste!PreferencesAreKept, Taste!GetProfile
  <2> QED
    BY <2>1, <2>2, <2>3, <2>4, <2>5 DEF Taste!Next
<1>2. TasteInv => Taste!PreferencesAreKept
  BY DEF TasteInv
<1>4. PartInit => LiveTasteInv
  BY TasteInitHolds, LiveStarts DEF LiveTasteInv
<1>5. LiveTasteInv /\ [PartNext]_partVars => LiveTasteInv'
  BY <1>1, LiveSteps DEF LiveTasteInv
<1>6. LiveTasteInv => PreferencesAreKept
  BY <1>2 DEF LiveTasteInv, PreferencesAreKept
<1> QED
  BY <1>4, <1>5, <1>6, PTL DEF PartSpec

-----------------------------------------------------------------------------
(* IpBlocker *)

IpParameters == Window \in Nat \ {0} /\ None \notin Nat

Counter == [n : Nat, expires : Nat \cup {None}]
Struck  == [at : {"expire", "judge"}, n : Nat, span : Int, late : BOOLEAN]

IpTypes ==
  /\ now \in Nat /\ first \in Nat /\ late \in BOOLEAN
  /\ strikes \in Counter \cup {None}
  /\ DOMAIN req = Request
  /\ \A r \in Request : req[r] \in {Ip!Idle, [at |-> "served"]} \cup Struck

ToExpire == \E r \in Request : req[r].at = "expire"

\* While nothing was late: an expiry still to be set is set at the time of the first
\* strike; a counter without expiry is one whose expiry is still to be set; and one with
\* an expiry is gone before a window has passed since its first strike.
ExpiresInTime ==
  ~late =>
    /\ ToExpire => now = first
    /\ strikes # None /\ strikes.expires = None => ToExpire
    /\ strikes # None /\ strikes.expires # None =>
         now < strikes.expires /\ strikes.expires <= first + Window

\* A strike on its way to be judged was counted within a window of the first.
StrikesCounted == \A r \in Request :
  req[r].at \in {"expire", "judge"} => req[r].late \/ req[r].span < Window

IpInv == IpTypes /\ ExpiresInTime /\ StrikesCounted /\ Ip!BlockIsDeserved

LiveIpInv == live = "ip" => IpInv

-----------------------------------------------------------------------------

LEMMA IpInitHolds == Ip!Init => IpInv
<1> SUFFICES ASSUME Ip!Init PROVE IpInv
  OBVIOUS
<1>1. DOMAIN req = Request /\ \A r \in Request : req[r] = Ip!Idle
  BY DEF Ip!Init
<1>2. \A r \in Request : req[r].at = "idle"
  <2>1. Ip!Idle.at = "idle"
    BY DEF Ip!Idle
  <2> QED
    BY <1>1, <2>1
<1>3. IpTypes
  BY <1>1 DEF Ip!Init, IpTypes
<1>4. ExpiresInTime
  BY <1>2 DEF Ip!Init, ExpiresInTime, ToExpire
<1> QED
  BY <1>2, <1>3, <1>4 DEF Ip!Init, IpInv, StrikesCounted, Ip!BlockIsDeserved

LEMMA IpTickHolds ==
  ASSUME IpParameters, IpInv, Ip!Tick
  PROVE  IpInv'
<1>1. IpTypes'
  BY DEF IpInv, IpTypes, Ip!Tick
<1>2. ExpiresInTime'
  <2> SUFFICES ASSUME ~late' PROVE ExpiresInTime'
    BY DEF ExpiresInTime
  <2>1. ~late /\ ~ToExpire /\ ~ToExpire'
    BY DEF Ip!Tick, ToExpire, IpInv, IpTypes
  <2>2. strikes # None => strikes.expires \in Nat /\ now < strikes.expires /\ strikes.expires <= first + Window
    BY <2>1 DEF IpInv, ExpiresInTime, IpTypes, Counter
  <2>3. strikes' # None => strikes' = strikes /\ strikes # None /\ strikes.expires # now + 1
    BY DEF Ip!Tick
  <2>4. strikes' # None => strikes'.expires # None /\ now' < strikes'.expires /\ strikes'.expires <= first' + Window
    BY <2>2, <2>3 DEF Ip!Tick, IpInv, IpTypes, IpParameters
  <2> QED
    BY <2>1, <2>4 DEF ExpiresInTime
<1>3. StrikesCounted'
  BY DEF IpInv, StrikesCounted, Ip!Tick
<1>4. Ip!BlockIsDeserved'
  BY DEF IpInv, Ip!BlockIsDeserved, Ip!Tick
<1> QED
  BY <1>1, <1>2, <1>3, <1>4 DEF IpInv

LEMMA IpDispatchHolds ==
  ASSUME IpInv, NEW r \in Request, Ip!Dispatch(r)
  PROVE  IpInv'
<1>1. IpTypes'
  BY DEF IpInv, IpTypes, Ip!Dispatch, Ip!At
<1>2. \A q \in Request : req'[q].at \in {"expire", "judge"} <=> req[q].at \in {"expire", "judge"}
  BY DEF IpInv, IpTypes, Ip!Dispatch, Ip!At, Ip!Idle
<1>3. \A q \in Request : req'[q].at \in {"expire", "judge"} => req'[q] = req[q]
  BY DEF IpInv, IpTypes, Ip!Dispatch, Ip!At, Ip!Idle
<1>4. ToExpire' <=> ToExpire
  BY <1>2, <1>3 DEF ToExpire
<1>5. UNCHANGED <<strikes, block, now, first, late, basis>>
  BY DEF Ip!Dispatch
<1> QED
  BY <1>1, <1>2, <1>3, <1>4, <1>5 DEF IpInv, ExpiresInTime, StrikesCounted, Ip!BlockIsDeserved

\* The first strike makes a counter; one more is counted while the counter lives.
LEMMA IpStrikeHolds ==
  ASSUME IpParameters, IpInv, NEW r \in Request, Ip!RecordStrike(r)
  PROVE  IpInv'
<1>1. CASE Ip!At(r, Ip!Idle) /\ UNCHANGED <<strikes, first, late>>
  <2>1. IpTypes'
    BY <1>1 DEF IpInv, IpTypes, Ip!RecordStrike, Ip!At
  <2>2. \A q \in Request : req'[q].at \in {"expire", "judge"} => req'[q] = req[q]
    BY <1>1 DEF IpInv, IpTypes, Ip!At, Ip!Idle
  <2>3. \A q \in Request : req[q].at = "expire" => req'[q] = req[q]
    BY <1>1 DEF IpInv, IpTypes, Ip!RecordStrike, Ip!At
  <2>4. ToExpire' <=> ToExpire
    BY <2>2, <2>3 DEF ToExpire
  <2> QED
    BY <1>1, <2>1, <2>2, <2>4 DEF IpInv, ExpiresInTime, StrikesCounted, Ip!BlockIsDeserved, Ip!RecordStrike
<1>2. CASE ~(Ip!At(r, Ip!Idle) /\ UNCHANGED <<strikes, first, late>>)
  <2> DEFINE n == IF strikes = None THEN 1 ELSE strikes.n + 1
             next == [at |-> IF n = 1 THEN "expire" ELSE "judge", n |-> n,
                      span |-> now - first', late |-> late']
  <2>1. /\ strikes' = [n |-> n, expires |-> IF n = 1 THEN None ELSE strikes.expires]
        /\ first' = IF n = 1 THEN now ELSE first
        /\ late' = IF n = 1 THEN FALSE ELSE late
        /\ req' = [req EXCEPT ![r] = next]
        /\ UNCHANGED <<block, now, basis>>
        /\ req[r].at = "served"
    BY <1>2 DEF Ip!RecordStrike, Ip!At
  <2>2. n \in Nat /\ (n # 1 => strikes # None /\ strikes \in Counter)
    BY DEF IpInv, IpTypes, Counter
  <2>3. first' \in Nat /\ late' \in BOOLEAN /\ next \in Struck
    <3>1. now \in Nat /\ first \in Nat /\ late \in BOOLEAN
      BY DEF IpInv, IpTypes
    <3>2. first' \in Nat
      BY <2>1, <3>1
    <3>3. late' \in BOOLEAN
      BY <2>1, <3>1
    <3>4. now - first' \in Int
      BY <3>1, <3>2
    <3> QED
      BY <2>2, <3>2, <3>3, <3>4 DEF Struck
  <2>4. strikes' \in Counter
    BY <2>1, <2>2 DEF Counter
  <2>5. IpTypes'
    BY <2>1, <2>3, <2>4 DEF IpInv, IpTypes
  <2>6. next.late \/ next.span < Window
    <3>1. CASE n = 1
      BY <2>1, <3>1 DEF IpInv, IpTypes, IpParameters
    <3>2. CASE n # 1 /\ ~late
      <4>1. strikes.expires = None => now = first
        BY <2>2, <3>2 DEF IpInv, ExpiresInTime
      <4>2. strikes.expires # None => strikes.expires \in Nat /\ now < strikes.expires /\ strikes.expires <= first + Window
        BY <2>2, <3>2 DEF IpInv, ExpiresInTime, Counter
      <4> QED
        BY <2>1, <3>2, <4>1, <4>2 DEF IpInv, IpTypes, IpParameters
    <3>3. CASE n # 1 /\ late
      BY <2>1, <3>3
    <3> QED
      BY <3>1, <3>2, <3>3 DEF IpInv, IpTypes
  <2>7. StrikesCounted'
    BY <2>1, <2>6 DEF IpInv, IpTypes, StrikesCounted
  <2>8. ExpiresInTime'
    <3>1. CASE n = 1
      <4>1. req'[r].at = "expire" /\ ToExpire'
        BY <2>1, <3>1 DEF IpInv, IpTypes, ToExpire
      <4> QED
        BY <2>1, <3>1, <4>1 DEF ExpiresInTime
    <3>2. CASE n # 1
      <4>1. \A q \in Request : req'[q].at = "expire" <=> req[q].at = "expire"
        BY <2>1, <3>2 DEF IpInv, IpTypes
      <4>2. ToExpire' <=> ToExpire
        BY <4>1 DEF ToExpire
      <4>3. strikes'.expires = strikes.expires /\ strikes # None /\ UNCHANGED <<first, late, now>>
        BY <2>1, <2>2, <3>2
      <4> QED
        BY <4>2, <4>3 DEF IpInv, ExpiresInTime
    <3> QED
      BY <3>1, <3>2
  <2> QED
    BY <2>1, <2>5, <2>7, <2>8 DEF IpInv, Ip!BlockIsDeserved
<1> QED
  BY <1>1, <1>2

\* In time the expiry falls a window after the first strike.
LEMMA IpExpireHolds ==
  ASSUME IpParameters, IpInv, NEW r \in Request, Ip!Expire(r)
  PROVE  IpInv'
<1>1. /\ req[r].at = "expire" /\ req[r] \in Struck
      /\ req' = [req EXCEPT ![r] = [req[r] EXCEPT !.at = "judge"]]
      /\ UNCHANGED <<block, now, first, late, basis>>
  BY DEF Ip!Expire, Ip!At, IpInv, IpTypes, Ip!Idle
<1>2. strikes' # None => strikes # None /\ strikes' = [strikes EXCEPT !.expires = now + Window]
  BY DEF Ip!Expire
<1>3. [req[r] EXCEPT !.at = "judge"] \in Struck
  BY <1>1 DEF Struck
<1>4. strikes' \in Counter \cup {None}
  BY DEF Ip!Expire, IpInv, IpTypes, Counter, IpParameters
<1>5. IpTypes'
  BY <1>1, <1>3, <1>4 DEF IpInv, IpTypes
<1>6. StrikesCounted'
  <2>1. req'[r].late = req[r].late /\ req'[r].span = req[r].span
    BY <1>1 DEF IpInv, IpTypes, Struck
  <2> QED
    BY <1>1, <2>1 DEF IpInv, IpTypes, StrikesCounted
<1>7. ExpiresInTime'
  <2>1. ~late => now = first
    BY <1>1 DEF IpInv, ExpiresInTime, ToExpire
  <2>2. ToExpire' => ToExpire
    BY <1>1 DEF ToExpire
  <2>3. strikes' # None => strikes'.expires = now + Window
    BY <1>2 DEF IpInv, IpTypes, Counter
  <2> QED
    BY <1>1, <2>1, <2>2, <2>3 DEF IpInv, IpTypes, ExpiresInTime, IpParameters
<1> QED
  BY <1>1, <1>5, <1>6, <1>7 DEF IpInv, Ip!BlockIsDeserved

\* What is judged was counted in time, and nothing else blocks.
LEMMA IpJudgeHolds ==
  ASSUME IpInv, NEW r \in Request, Ip!Judge(r)
  PROVE  IpInv'
<1>1. req[r].at = "judge" /\ req' = [req EXCEPT ![r] = Ip!Idle] /\ UNCHANGED <<strikes, now, first, late>>
  BY DEF Ip!Judge, Ip!At
<1>2. IpTypes' /\ StrikesCounted'
  BY <1>1 DEF IpInv, IpTypes, StrikesCounted, Ip!Idle
<1>3. \A q \in Request : req'[q].at = "expire" <=> req[q].at = "expire"
  BY <1>1 DEF IpInv, IpTypes, Ip!Idle
<1>4. ToExpire' <=> ToExpire
  BY <1>3 DEF ToExpire
<1>5. Ip!BlockIsDeserved'
  BY <1>1 DEF IpInv, Ip!Judge, StrikesCounted, Ip!BlockIsDeserved
<1> QED
  BY <1>1, <1>2, <1>4, <1>5 DEF IpInv, ExpiresInTime

\* A request that ends before its expiry was set makes the counter late.
LEMMA IpFailHolds ==
  ASSUME IpInv, NEW r \in Request, Ip!Fail(r)
  PROVE  IpInv'
<1>1. /\ req' = [req EXCEPT ![r] = Ip!Idle] /\ UNCHANGED <<strikes, block, now, first, basis>>
      /\ late' = (late \/ req[r].at = "expire")
  BY DEF Ip!Fail, Ip!At
<1>2. IpTypes' /\ StrikesCounted'
  BY <1>1 DEF IpInv, IpTypes, StrikesCounted, Ip!Idle
<1>3. ~late' => (ToExpire' <=> ToExpire) /\ ~late
  <2>1. ASSUME ~late' PROVE \A q \in Request : req'[q].at = "expire" <=> req[q].at = "expire"
    BY <1>1, <2>1 DEF IpInv, IpTypes, Ip!Idle
  <2> QED
    BY <1>1, <2>1 DEF ToExpire
<1> QED
  BY <1>1, <1>2, <1>3 DEF IpInv, ExpiresInTime, Ip!BlockIsDeserved

\* An address is blocked for at least Threshold strikes, and for strikes within one
\* window, unless the expiry of the counter was lost or came late
\* (abusive_ip_blocker._record_strike), for any number of requests.
THEOREM BlocksAreDeserved ==
  ASSUME IpParameters
  PROVE  PartSpec => []BlockIsDeserved
<1>1. IpInv /\ [Ip!Next]_Ip!vars => IpInv'
  <2> SUFFICES ASSUME IpInv, [Ip!Next]_Ip!vars PROVE IpInv'
    OBVIOUS
  <2>1. CASE Ip!Tick
    BY <2>1, IpTickHolds
  <2>2. ASSUME NEW r \in Request, Ip!Dispatch(r) \/ Ip!RecordStrike(r) \/ Ip!Expire(r) \/ Ip!Judge(r) \/ Ip!Fail(r)
        PROVE  IpInv'
    BY <2>2, IpDispatchHolds, IpStrikeHolds, IpExpireHolds, IpJudgeHolds, IpFailHolds
  <2>3. CASE UNCHANGED Ip!vars
    BY <2>3 DEF Ip!vars, IpInv, IpTypes, ExpiresInTime, ToExpire, StrikesCounted, Ip!BlockIsDeserved
  <2> QED
    BY <2>1, <2>2, <2>3 DEF Ip!Next
<1>2. IpInv => Ip!BlockIsDeserved
  BY DEF IpInv
<1>4. PartInit => LiveIpInv
  BY IpInitHolds, LiveStarts DEF LiveIpInv
<1>5. LiveIpInv /\ [PartNext]_partVars => LiveIpInv'
  BY <1>1, LiveSteps DEF LiveIpInv
<1>6. LiveIpInv => BlockIsDeserved
  BY <1>2 DEF LiveIpInv, BlockIsDeserved
<1> QED
  BY <1>4, <1>5, <1>6, PTL DEF PartSpec

-----------------------------------------------------------------------------
(* WindowLimiter *)

\* There is a thread, no call is None, and the others are numbers.
WinParameters ==
  /\ IsFiniteSet(Thread) /\ Thread # {}
  /\ Limit \in Nat /\ Window \in Nat /\ Until["win"] \in Nat
  /\ \A n \in Nat : None # [what |-> "is_allowed", now |-> n] /\ None # [what |-> "get_usage", now |-> n]

Calling == {[what |-> w, now |-> n] : w \in {"is_allowed", "get_usage"}, n \in Nat}

\* The bucket is the newest part of what was granted; nobody's time is to come.
WinTypes ==
  /\ now \in Nat
  /\ bucket \in Seq(Nat) /\ granted \in Seq(Nat)
  /\ asking \in [Thread -> Calling \cup {None}]
  /\ \A t \in Thread : asking[t] # None => asking[t].now <= now
  /\ Len(bucket) <= Len(granted)
  /\ \A i \in DOMAIN bucket : bucket[i] = granted[Len(granted) - Len(bucket) + i]

\* What was granted in the window that ends at time m, and who comes with a time that
\* is no later than m.
InWindow(m) == {i \in DOMAIN granted : granted[i] <= m /\ granted[i] + Window >= m}
Behind(m)   == {t \in Thread : asking[t] # None /\ asking[t].now <= m}

\* Either all of the window is in the bucket, or its end is past: then only those who
\* are behind can add to it.
AllHeld(m) ==
  /\ \A i \in InWindow(m) : i > Len(granted) - Len(bucket)
  /\ Cardinality(InWindow(m)) <= Limit
Past(m) ==
  /\ m < now
  /\ Cardinality(InWindow(m)) + Cardinality(Behind(m)) <= Limit + Cardinality(Thread) - 1

WinInv == WinTypes /\ \A m \in Nat : AllHeld(m) \/ Past(m)

LiveWinInv == live = "win" => WinInv

\* What is left of a bucket: its newest part, from the first stamp that is fresh.
LEMMA FreshEnd ==
  ASSUME WinParameters, WinTypes, NEW t \in Thread, asking[t] # None
  PROVE  /\ Win!Evicted(t) \in Seq(Nat) /\ Len(Win!Evicted(t)) <= Len(bucket)
         /\ \A i \in DOMAIN Win!Evicted(t) : Win!Evicted(t)[i] = bucket[Len(bucket) - Len(Win!Evicted(t)) + i]
         /\ \A i \in DOMAIN bucket : i <= Len(bucket) - Len(Win!Evicted(t)) => bucket[i] + Window < asking[t].now
<1> DEFINE fresh == {i \in DOMAIN bucket : bucket[i] + Window >= asking[t].now}
           k == CHOOSE i \in fresh : \A j \in fresh : i <= j
<1>1. /\ bucket \in Seq(Nat) /\ Len(bucket) \in Nat /\ DOMAIN bucket = 1 .. Len(bucket)
      /\ asking[t].now \in Nat /\ Window \in Nat
  BY SMTT(30) DEF WinTypes, WinParameters, Calling
<1>2. \A i \in 1 .. Len(bucket) : bucket[i] \in Nat
  BY <1>1
<1>3. CASE fresh = {}
  <2>1. Win!Evicted(t) = <<>>
    BY <1>3 DEF Win!Evicted
  <2>2. Len(<<>>) = 0 /\ DOMAIN <<>> = {} /\ <<>> \in Seq(Nat)
    OBVIOUS
  <2>3. \A i \in DOMAIN bucket : bucket[i] + Window < asking[t].now
    BY <1>1, <1>2, <1>3
  <2> QED
    BY <1>1, <2>1, <2>2, <2>3
<1>4. CASE fresh # {}
  <2>1. Win!Evicted(t) = SubSeq(bucket, k, Len(bucket))
    BY <1>4 DEF Win!Evicted
  <2>2. fresh \subseteq Nat
    BY <1>1
  <2>3. k \in fresh /\ \A j \in fresh : k <= j
    <3> HIDE DEF fresh
    <3>1. \E i \in fresh : \A j \in fresh : i <= j
      <4>1. PICK i \in fresh : \A j \in fresh : ~ (<<j, i>> \in OpToRel(<, Nat))
        BY <1>4, <2>2, NatLessThanWellFounded, WFMin
      <4>2. ASSUME NEW j \in fresh PROVE i <= j
        <5>0. i \in Nat /\ j \in Nat
          BY <2>2
        <5>1. i \in Nat /\ j \in Nat /\ ~ (<<j, i>> \in OpToRel(<, Nat))
          BY <2>2, <4>1
        <5>2. j < i => <<j, i>> \in OpToRel(<, Nat)
          BY <5>1 DEF OpToRel
        <5>3. ~ (j < i)
          BY <5>1, <5>2
        <5> QED
          BY <5>0, <5>3
      <4> QED
        BY <4>2
    <3> QED
      BY <3>1
  <2>4. k \in 1 .. Len(bucket) /\ \A i \in DOMAIN bucket : i < k => bucket[i] + Window < asking[t].now
    <3>1. k \in 1 .. Len(bucket)
      BY <1>1, <2>3
    <3>2. ASSUME NEW i \in 1 .. Len(bucket), i < k PROVE bucket[i] + Window < asking[t].now
      <4>1. i \notin fresh
        <5> HIDE DEF k, fresh
        <5> QED
          BY <2>3, <3>1, <3>2
      <4> QED
        BY <1>1, <1>2, <4>1
    <3> QED
      BY <1>1, <3>1, <3>2
  <2> HIDE DEF k, fresh
  <2>5. /\ SubSeq(bucket, k, Len(bucket)) \in Seq(Nat)
        /\ Len(SubSeq(bucket, k, Len(bucket))) = Len(bucket) - k + 1
        /\ \A i \in 1 .. Len(bucket) - k + 1 : SubSeq(bucket, k, Len(bucket))[i] = bucket[k + i - 1]
    BY <1>1, <2>4
  <2>6. DOMAIN Win!Evicted(t) = 1 .. Len(bucket) - k + 1
    BY <1>1, <2>1, <2>4, <2>5
  <2>7. ASSUME NEW i \in DOMAIN Win!Evicted(t) PROVE Len(bucket) - (Len(bucket) - k + 1) + i = k + i - 1
    BY <1>1, <2>4, <2>6, <2>7
  <2>8. Len(Win!Evicted(t)) = Len(bucket) - k + 1
    BY <2>1, <2>5
  <2>9. \A i \in DOMAIN Win!Evicted(t) : Win!Evicted(t)[i] = bucket[Len(bucket) - Len(Win!Evicted(t)) + i]
    BY <2>1, <2>5, <2>6, <2>7, <2>8
  <2>10. \A i \in DOMAIN bucket : i <= Len(bucket) - Len(Win!Evicted(t)) => bucket[i] + Window < asking[t].now
    BY <1>1, <2>4, <2>8
  <2> QED
    BY <1>1, <2>1, <2>4, <2>5, <2>8, <2>9, <2>10
<1> QED
  BY <1>3, <1>4

LEMMA WindowsAreFinite ==
  ASSUME WinParameters, WinTypes, NEW m \in Nat
  PROVE  /\ IsFiniteSet(InWindow(m)) /\ Cardinality(InWindow(m)) \in Nat
         /\ IsFiniteSet(Behind(m)) /\ Cardinality(Behind(m)) \in Nat
         /\ Cardinality(Thread) \in Nat \ {0} /\ Cardinality(Behind(m)) <= Cardinality(Thread)
<1>1. IsFiniteSet(DOMAIN granted)
  <2>1. Len(granted) \in Nat /\ DOMAIN granted = 1 .. Len(granted)
    BY DEF WinTypes
  <2> QED
    BY <2>1, FS_Interval
<1>2. InWindow(m) \in SUBSET DOMAIN granted /\ Behind(m) \in SUBSET Thread
  BY DEF InWindow, Behind
<1>3. IsFiniteSet(Thread) /\ Thread # {}
  BY DEF WinParameters
<1> QED
  BY <1>1, <1>2, <1>3, FS_Subset, FS_CardinalityType, FS_EmptySet

\* A call that is done, whether it was granted or not.
LEMMA CallsEndWell ==
  ASSUME WinParameters, WinInv, NEW t \in Thread, asking[t] # None, NEW m \in Nat, now' = now,
         asking' = [asking EXCEPT ![t] = None]
  PROVE  Behind(m)' = Behind(m) \ {t}
BY DEF WinInv, WinTypes, Behind

\* What each thread has left when one of them is done: one less can be behind.
LEMMA OneIsBehindNoMore ==
  ASSUME WinParameters, WinInv, NEW t \in Thread, asking[t] # None, NEW m \in Nat, now' = now,
         asking' = [asking EXCEPT ![t] = None]
  PROVE  /\ IsFiniteSet(Behind(m)') /\ Cardinality(Behind(m)') \in Nat
         /\ Cardinality(Behind(m)') <= Cardinality(Thread) - 1
         /\ asking[t].now <= m  => Cardinality(Behind(m)') = Cardinality(Behind(m)) - 1
         /\ asking[t].now > m   => Cardinality(Behind(m)') = Cardinality(Behind(m))
<1>1. Behind(m)' = Behind(m) \ {t}
  BY CallsEndWell
<1>2. WinTypes
  BY DEF WinInv
<1>3. IsFiniteSet(Behind(m)) /\ IsFiniteSet(Thread) /\ Cardinality(Thread) \in Nat
  BY <1>2, WindowsAreFinite DEF WinParameters
<1>4. Behind(m) \ {t} \in SUBSET (Thread \ {t})
  BY DEF Behind
<1>5. Cardinality(Thread \ {t}) = Cardinality(Thread) - 1 /\ IsFiniteSet(Thread \ {t})
  BY <1>3, FS_RemoveElement
<1>6. /\ IsFiniteSet(Behind(m) \ {t}) /\ Cardinality(Behind(m) \ {t}) <= Cardinality(Thread) - 1
      /\ Cardinality(Behind(m) \ {t}) \in Nat
  BY <1>4, <1>5, FS_Subset, FS_CardinalityType
<1>7. Cardinality(Behind(m) \ {t}) = IF t \in Behind(m) THEN Cardinality(Behind(m)) - 1 ELSE Cardinality(Behind(m))
  BY <1>3, FS_RemoveElement
<1>8. asking[t].now \in Nat
  BY <1>2 DEF WinTypes, Calling
<1>9. t \in Behind(m) <=> asking[t].now <= m
  BY DEF Behind
<1> QED
  BY <1>1, <1>6, <1>7, <1>8, <1>9

\* Who drops a stamp of a window came after its end.
LEMMA DropsAreLate ==
  ASSUME WinParameters, WinInv, NEW t \in Thread, asking[t] # None, NEW m \in Nat,
         NEW i \in InWindow(m), i > Len(granted) - Len(bucket), i <= Len(granted) - Len(Win!Evicted(t))
  PROVE  m < asking[t].now /\ m < now
<1>1. WinTypes
  BY DEF WinInv
<1>2. /\ Len(bucket) \in Nat /\ Len(granted) \in Nat /\ DOMAIN bucket = 1 .. Len(bucket)
      /\ DOMAIN granted = 1 .. Len(granted) /\ \A j \in DOMAIN granted : granted[j] \in Nat
      /\ Window \in Nat /\ now \in Nat /\ asking[t].now \in Nat /\ asking[t].now <= now
  <2>1. bucket \in Seq(Nat) /\ granted \in Seq(Nat) /\ now \in Nat /\ asking[t].now <= now /\ asking[t] \in Calling
    BY <1>1 DEF WinTypes
  <2>2. asking[t].now \in Nat /\ Window \in Nat
    BY <2>1 DEF Calling, WinParameters
  <2>3. \A j \in DOMAIN granted : granted[j] \in Nat
    BY <2>1
  <2>4. /\ Len(bucket) \in Nat /\ Len(granted) \in Nat /\ DOMAIN bucket = 1 .. Len(bucket)
        /\ DOMAIN granted = 1 .. Len(granted)
    BY <2>1
  <2> QED
    BY <2>1, <2>2, <2>3, <2>4
<1>3. Len(Win!Evicted(t)) \in Nat /\ Len(Win!Evicted(t)) <= Len(bucket)
  BY <1>1, FreshEnd
<1>4. i \in 1 .. Len(granted) /\ granted[i] + Window >= m
  BY <1>2 DEF InWindow
<1>5. PICK j \in Int : j = i - (Len(granted) - Len(bucket))
  BY <1>2, <1>4
<1>6. j \in 1 .. Len(bucket) /\ j <= Len(bucket) - Len(Win!Evicted(t)) /\ Len(granted) - Len(bucket) + j = i
  BY <1>2, <1>3, <1>4, <1>5
<1>7. bucket[j] + Window < asking[t].now
  BY <1>1, <1>2, <1>6, FreshEnd
<1>8. bucket[j] = granted[i]
  BY <1>1, <1>2, <1>6 DEF WinTypes
<1> QED
  BY <1>2, <1>4, <1>7, <1>8

\* The stale stamps are dropped and the call is done.
LEMMA WinEvicts ==
  ASSUME WinParameters, WinInv, NEW t \in Thread, asking[t] # None, now' = now, granted' = granted,
         bucket' = Win!Evicted(t), asking' = [asking EXCEPT ![t] = None]
  PROVE  WinInv'
<1>1. WinTypes
  BY DEF WinInv
<1>2. /\ Win!Evicted(t) \in Seq(Nat) /\ Len(Win!Evicted(t)) <= Len(bucket)
      /\ \A i \in DOMAIN Win!Evicted(t) : Win!Evicted(t)[i] = bucket[Len(bucket) - Len(Win!Evicted(t)) + i]
  BY <1>1, FreshEnd
<1>3. /\ Len(bucket) \in Nat /\ Len(granted) \in Nat /\ Len(bucket) <= Len(granted)
      /\ DOMAIN bucket = 1 .. Len(bucket) /\ DOMAIN granted = 1 .. Len(granted)
      /\ \A j \in DOMAIN bucket : bucket[j] = granted[Len(granted) - Len(bucket) + j]
  BY <1>1 DEF WinTypes
<1>4. Len(Win!Evicted(t)) \in Nat /\ DOMAIN Win!Evicted(t) = 1 .. Len(Win!Evicted(t))
  BY <1>2
<1>5. WinTypes'
  <2>1. ASSUME NEW i \in DOMAIN bucket' PROVE bucket'[i] = granted'[Len(granted') - Len(bucket') + i]
    <3>1. i \in 1 .. Len(Win!Evicted(t))
      BY <1>4, <2>1
    <3>2. PICK j \in Nat : j = Len(bucket) - Len(Win!Evicted(t)) + i
      BY <1>2, <1>3, <1>4, <3>1
    <3>3. j \in 1 .. Len(bucket)
      BY <1>2, <1>3, <1>4, <3>1, <3>2
    <3>4. Len(granted) - Len(bucket) + j = Len(granted) - Len(Win!Evicted(t)) + i
      BY <1>3, <1>4, <3>1, <3>2
    <3>5. Win!Evicted(t)[i] = bucket[j] /\ bucket[j] = granted[Len(granted) - Len(bucket) + j]
      BY <1>2, <1>3, <1>4, <3>1, <3>2, <3>3
    <3> QED
      BY <3>4, <3>5
  <2>2. now' \in Nat /\ bucket' \in Seq(Nat) /\ granted' \in Seq(Nat) /\ Len(bucket') <= Len(granted')
    BY <1>1, <1>2, <1>3, <1>4 DEF WinTypes
  <2>3. asking' \in [Thread -> Calling \cup {None}] /\ \A x \in Thread : asking'[x] # None => asking'[x].now <= now'
    BY <1>1 DEF WinTypes
  <2> QED
    BY <2>1, <2>2, <2>3 DEF WinTypes
<1>6. ASSUME NEW m \in Nat PROVE (AllHeld(m) \/ Past(m))'
  <2>1. InWindow(m)' = InWindow(m)
    BY DEF InWindow
  <2>2. /\ Cardinality(InWindow(m)) \in Nat /\ Cardinality(Thread) \in Nat /\ Limit \in Nat
        /\ Cardinality(Behind(m)) \in Nat
    BY <1>1, WindowsAreFinite DEF WinParameters
  <2>3. /\ Cardinality(Behind(m)') \in Nat /\ Cardinality(Behind(m)') <= Cardinality(Thread) - 1
        /\ Cardinality(Behind(m)') <= Cardinality(Behind(m))
    <3>1. asking[t].now \in Nat
      BY <1>1 DEF WinTypes, Calling
    <3>2. asking[t].now <= m \/ asking[t].now > m
      BY <3>1
    <3>3. /\ Cardinality(Behind(m)') \in Nat /\ Cardinality(Behind(m)') <= Cardinality(Thread) - 1
          /\ asking[t].now <= m  => Cardinality(Behind(m)') = Cardinality(Behind(m)) - 1
          /\ asking[t].now > m   => Cardinality(Behind(m)') = Cardinality(Behind(m))
      BY OneIsBehindNoMore
    <3> QED
      BY <2>2, <3>2, <3>3
  <2>4. CASE AllHeld(m)
    <3>1. CASE \A i \in InWindow(m) : i > Len(granted) - Len(Win!Evicted(t))
      BY <2>1, <2>4, <3>1 DEF AllHeld
    <3>2. CASE \E i \in InWindow(m) : ~(i > Len(granted) - Len(Win!Evicted(t)))
      <4>1. PICK i \in InWindow(m) : ~(i > Len(granted) - Len(Win!Evicted(t)))
        BY <3>2
      <4>2. i \in Nat
        BY <1>3 DEF InWindow
      <4>3. i <= Len(granted) - Len(Win!Evicted(t)) /\ i > Len(granted) - Len(bucket)
        BY <1>3, <1>4, <2>4, <4>1, <4>2 DEF AllHeld
      <4>4. m < now
        BY <4>3, DropsAreLate
      <4> QED
        BY <2>1, <2>2, <2>3, <2>4, <4>4 DEF AllHeld, Past
    <3> QED
      BY <3>1, <3>2
  <2>5. CASE Past(m)
    BY <2>1, <2>2, <2>3, <2>5 DEF Past
  <2> QED
    BY <1>6, <2>4, <2>5 DEF WinInv
<1> QED
  BY <1>5, <1>6 DEF WinInv

\* Where an entry is in a sequence and in its ends.
LEMMA EndPlaces ==
  ASSUME NEW lg \in Nat, NEW lb \in Nat, NEW ll \in Nat, ll <= lb, lb <= lg, NEW i \in 1 .. ll
  PROVE  /\ lb - ll + i \in 1 .. lb /\ lg - lb + (lb - ll + i) = lg - ll + i
         /\ lg - ll + i \in 1 .. lg
OBVIOUS

\* A call that is granted: its stamp comes after what is left.
LEMMA WinGrants ==
  ASSUME WinParameters, WinInv, NEW t \in Thread, asking[t] # None, now' = now,
         Len(Win!Evicted(t)) < Limit, bucket' = Append(Win!Evicted(t), asking[t].now),
         granted' = Append(granted, asking[t].now), asking' = [asking EXCEPT ![t] = None]
  PROVE  WinInv'
<1> DEFINE c == asking[t].now
           left == Win!Evicted(t)
<1>1. WinTypes
  BY DEF WinInv
<1>2. left \in Seq(Nat) /\ Len(left) <= Len(bucket) /\ \A i \in DOMAIN left : left[i] = bucket[Len(bucket) - Len(left) + i]
  BY <1>1, FreshEnd
<1>3. /\ bucket \in Seq(Nat) /\ granted \in Seq(Nat) /\ Len(bucket) <= Len(granted)
      /\ \A j \in DOMAIN bucket : bucket[j] = granted[Len(granted) - Len(bucket) + j]
      /\ now \in Nat /\ c <= now
  BY <1>1 DEF WinTypes
<1>4. c \in Nat /\ Window \in Nat /\ Limit \in Nat
  BY <1>1 DEF WinTypes, Calling, WinParameters
<1> HIDE DEF c, left
<1>5. /\ Len(left) \in Nat /\ DOMAIN left = 1 .. Len(left)
      /\ Len(bucket) \in Nat /\ DOMAIN bucket = 1 .. Len(bucket)
      /\ Len(granted) \in Nat /\ DOMAIN granted = 1 .. Len(granted)
  BY <1>2, <1>3
<1>6. bucket' = Append(left, c) /\ granted' = Append(granted, c) /\ Len(left) < Limit
  BY DEF c, left
<1>7. /\ bucket' \in Seq(Nat) /\ Len(bucket') = Len(left) + 1 /\ DOMAIN bucket' = 1 .. Len(left) + 1
      /\ bucket'[Len(left) + 1] = c /\ \A i \in 1 .. Len(left) : bucket'[i] = left[i]
  BY <1>2, <1>4, <1>5, <1>6
<1>8. /\ granted' \in Seq(Nat) /\ Len(granted') = Len(granted) + 1 /\ DOMAIN granted' = 1 .. Len(granted) + 1
      /\ granted'[Len(granted) + 1] = c /\ \A i \in 1 .. Len(granted) : granted'[i] = granted[i]
  BY <1>3, <1>4, <1>5, <1>6
<1>9. WinTypes'
  <2>1. ASSUME NEW i \in 1 .. Len(left) + 1 PROVE bucket'[i] = granted'[Len(granted') - Len(bucket') + i]
    <3>1. CASE i = Len(left) + 1
      <4>1. Len(granted') - Len(bucket') + i = Len(granted) + 1
        BY <1>5, <1>7, <1>8, <3>1
      <4> QED
        BY <1>7, <1>8, <3>1, <4>1
    <3>2. CASE i # Len(left) + 1
      <4>1. i \in 1 .. Len(left)
        BY <1>5, <3>2
      <4>a. Len(bucket) - Len(left) + i \in 1 .. Len(bucket)
        BY <1>2, <1>3, <1>5, <4>1, EndPlaces
      <4>b. Len(bucket) - Len(left) + i \in Nat
        BY <1>5, <4>a
      <4>2. PICK j \in Nat : j = Len(bucket) - Len(left) + i
        BY <4>b
      <4>3. j \in 1 .. Len(bucket) /\ Len(granted) - Len(bucket) + j = Len(granted) - Len(left) + i
        BY <1>2, <1>3, <1>5, <4>1, <4>2, EndPlaces
      <4>4. bucket'[i] = granted[Len(granted) - Len(left) + i]
        BY <1>2, <1>3, <1>5, <1>7, <4>1, <4>2, <4>3
      <4>5. Len(granted') - Len(bucket') + i = Len(granted) - Len(left) + i
        BY <1>5, <1>7, <1>8, <4>1
      <4>6. Len(granted) - Len(left) + i \in 1 .. Len(granted)
        BY <1>2, <1>3, <1>5, <4>1, EndPlaces
      <4> QED
        BY <1>8, <4>4, <4>5, <4>6
    <3> QED
      BY <3>1, <3>2
  <2>2. now' \in Nat /\ Len(bucket') <= Len(granted')
    BY <1>2, <1>3, <1>5, <1>7, <1>8
  <2>3. asking' \in [Thread -> Calling \cup {None}] /\ \A x \in Thread : asking'[x] # None => asking'[x].now <= now'
    BY <1>1 DEF WinTypes
  <2> QED
    BY <1>7, <1>8, <2>1, <2>2, <2>3 DEF WinTypes
<1>10. ASSUME NEW m \in Nat PROVE (AllHeld(m) \/ Past(m))'
  <2>1. /\ Cardinality(InWindow(m)) \in Nat /\ Cardinality(Thread) \in Nat /\ Cardinality(Behind(m)) \in Nat
        /\ IsFiniteSet(InWindow(m))
    BY <1>1, WindowsAreFinite
  <2>2. /\ Cardinality(Behind(m)') \in Nat /\ Cardinality(Behind(m)') <= Cardinality(Thread) - 1
        /\ c <= m => Cardinality(Behind(m)') = Cardinality(Behind(m)) - 1
        /\ c > m  => Cardinality(Behind(m)') = Cardinality(Behind(m))
    BY OneIsBehindNoMore DEF c
  <2>3. InWindow(m)' = IF c <= m /\ c + Window >= m THEN InWindow(m) \cup {Len(granted) + 1} ELSE InWindow(m)
    <3>1. InWindow(m)' = {i \in 1 .. Len(granted) + 1 : granted'[i] <= m /\ granted'[i] + Window >= m}
      BY <1>8 DEF InWindow
    <3>2. InWindow(m) = {i \in 1 .. Len(granted) : granted[i] <= m /\ granted[i] + Window >= m}
      BY <1>5 DEF InWindow
    <3>3. \A i : i \in 1 .. Len(granted) + 1 <=> i \in 1 .. Len(granted) \/ i = Len(granted) + 1
      BY <1>5
    <3>4. \A i \in 1 .. Len(granted) : i # Len(granted) + 1
      BY <1>5
    <3> QED
      BY <1>8, <3>1, <3>2, <3>3, <3>4
  <2>4. Cardinality(InWindow(m)') \in Nat /\ Cardinality(InWindow(m)') <= Cardinality(InWindow(m)) + 1
    <3>1. /\ Cardinality(InWindow(m) \cup {Len(granted) + 1}) \in Nat
          /\ Cardinality(InWindow(m) \cup {Len(granted) + 1}) <= Cardinality(InWindow(m)) + 1
      <4> DEFINE S == InWindow(m)
                 T == S \cup {Len(granted) + 1}
      <4> HIDE DEF S
      <4>1. Cardinality(T) = IF Len(granted) + 1 \in S THEN Cardinality(S) ELSE Cardinality(S) + 1
        BY <2>1, FS_AddElement DEF S
      <4>2. Cardinality(S) \in Nat
        BY <2>1 DEF S
      <4> HIDE DEF T
      <4>3. Cardinality(T) \in Nat /\ Cardinality(T) <= Cardinality(S) + 1
        BY <4>1, <4>2
      <4> QED
        BY <4>3 DEF T, S
    <3> QED
      BY <2>1, <2>3, <3>1
  <2>5. CASE AllHeld(m) /\ \A i \in InWindow(m) : i > Len(granted) - Len(left)
    <3>1. \A i \in InWindow(m)' : i \in 1 .. Len(granted) + 1 /\ i > Len(granted') - Len(bucket')
      <4>1. \A i \in InWindow(m) : i \in 1 .. Len(granted) + 1
        BY <1>5 DEF InWindow
      <4>2. Len(granted') - Len(bucket') = Len(granted) - Len(left)
        BY <1>5, <1>7, <1>8
      <4>3. Len(granted) + 1 > Len(granted) - Len(left) /\ Len(granted) + 1 \in 1 .. Len(granted) + 1
        BY <1>5
      <4> QED
        BY <2>3, <2>5, <4>1, <4>2, <4>3
    <3>2. InWindow(m)' \in SUBSET (Len(granted) - Len(left) + 1 .. Len(granted) + 1)
      <4>1. \A i \in 1 .. Len(granted) + 1 : i > Len(granted') - Len(bucket') => i \in Len(granted) - Len(left) + 1 .. Len(granted) + 1
        BY <1>5, <1>7, <1>8
      <4> QED
        BY <3>1, <4>1
    <3>3. /\ Len(granted) - Len(left) + 1 \in Int /\ Len(granted) + 1 \in Int
          /\ ~(Len(granted) - Len(left) + 1 > Len(granted) + 1)
          /\ (Len(granted) + 1) - (Len(granted) - Len(left) + 1) + 1 = Len(left) + 1
      BY <1>5
    <3>4. /\ IsFiniteSet(Len(granted) - Len(left) + 1 .. Len(granted) + 1)
          /\ Cardinality(Len(granted) - Len(left) + 1 .. Len(granted) + 1) = Len(left) + 1
      BY <3>3, FS_Interval
    <3>5. Cardinality(InWindow(m)') <= Len(left) + 1
      BY <3>2, <3>4, FS_Subset
    <3>6. Cardinality(InWindow(m)') <= Limit
      BY <1>4, <1>5, <1>6, <2>4, <3>5
    <3> QED
      BY <3>1, <3>6 DEF AllHeld
  <2>6. CASE AllHeld(m) /\ ~ \A i \in InWindow(m) : i > Len(granted) - Len(left)
    <3>1. PICK i \in InWindow(m) : ~(i > Len(granted) - Len(left))
      BY <2>6
    <3>2. i \in Nat
      BY <1>5 DEF InWindow
    <3>3. i <= Len(granted) - Len(left) /\ i > Len(granted) - Len(bucket)
      BY <1>5, <2>6, <3>1, <3>2 DEF AllHeld
    <3>4. m < c /\ m < now
      BY <3>3, DropsAreLate DEF c, left
    <3>5. InWindow(m)' = InWindow(m)
      BY <1>4, <2>3, <3>4
    <3> QED
      BY <1>4, <2>1, <2>2, <2>6, <3>4, <3>5 DEF AllHeld, Past
  <2>7. CASE Past(m)
    <3>1. CASE c <= m
      BY <1>4, <2>1, <2>2, <2>4, <2>7, <3>1, SMTT(30) DEF Past
    <3>2. CASE c > m
      <4>1. InWindow(m)' = InWindow(m)
        BY <1>4, <2>3, <3>2
      <4> QED
        BY <1>4, <2>1, <2>2, <2>7, <3>2, <4>1 DEF Past
    <3> QED
      BY <1>4, <3>1, <3>2
  <2> QED
    BY <2>5, <2>6, <2>7 DEF WinInv
<1> QED
  BY <1>9, <1>10 DEF WinInv

\* A thread reads the clock.
LEMMA WinReads ==
  ASSUME WinParameters, WinInv, NEW t \in Thread, NEW w \in {"is_allowed", "get_usage"}, Win!ReadClock(t, w)
  PROVE  WinInv'
<1>1. /\ asking[t] = None /\ now' = now /\ bucket' = bucket /\ granted' = granted
      /\ asking' = [asking EXCEPT ![t] = [what |-> w, now |-> now]]
  BY DEF Win!ReadClock
<1>2. WinTypes /\ now \in Nat
  BY DEF WinInv, WinTypes
<1>3. [what |-> w, now |-> now] \in Calling
  BY <1>2 DEF Calling
<1>4. WinTypes'
  <2>1. asking' \in [Thread -> Calling \cup {None}]
    BY <1>1, <1>2, <1>3 DEF WinTypes
  <2>2. \A x \in Thread : asking'[x] # None => asking'[x].now <= now'
    BY <1>1, <1>2 DEF WinTypes
  <2> QED
    BY <1>1, <1>2, <2>1, <2>2 DEF WinTypes
<1>5. ASSUME NEW m \in Nat PROVE (AllHeld(m) \/ Past(m))'
  <2>1. InWindow(m)' = InWindow(m)
    BY <1>1 DEF InWindow
  <2>2. CASE AllHeld(m)
    BY <1>1, <2>1, <2>2 DEF AllHeld
  <2>3. CASE Past(m)
    <3>1. ~(now <= m)
      BY <1>2, <2>3 DEF Past
    <3>2. Behind(m)' = Behind(m)
      BY <1>1, <1>2, <3>1 DEF Behind, WinTypes
    <3> QED
      BY <1>1, <2>1, <2>3, <3>2 DEF Past
  <2> QED
    BY <2>2, <2>3 DEF WinInv
<1> QED
  BY <1>4, <1>5 DEF WinInv

LEMMA WinStepHolds ==
  ASSUME WinParameters, WinInv, [Win!Next]_Win!vars
  PROVE  WinInv'
<1>1. CASE Win!Tick
  <2>1. now \in Nat
    BY DEF WinInv, WinTypes
  <2>2. now' = now + 1 /\ bucket' = bucket /\ granted' = granted /\ asking' = asking
    BY <1>1 DEF Win!Tick
  <2>3. WinTypes'
    <3>1. \A x \in Thread : asking[x] # None => asking[x].now \in Nat /\ asking[x].now <= now
      BY SMTT(30) DEF WinInv, WinTypes, Calling
    <3>2. \A x \in Thread : asking'[x] # None => asking'[x].now <= now'
      BY <2>1, <2>2, <3>1
    <3> QED
      BY <2>1, <2>2, <3>2 DEF WinInv, WinTypes
  <2>4. ASSUME NEW m \in Nat PROVE (AllHeld(m) \/ Past(m))'
    <3>1. InWindow(m)' = InWindow(m) /\ Behind(m)' = Behind(m)
      BY <2>2 DEF InWindow, Behind
    <3>2. m < now => m < now'
      BY <2>1, <2>2
    <3> QED
      BY <2>2, <3>1, <3>2 DEF WinInv, AllHeld, Past
  <2> QED
    BY <2>3, <2>4 DEF WinInv
<1>2. CASE Win!Reset
  <2>1. bucket' = <<>> /\ granted' = <<>> /\ now' = now /\ asking' = asking
    BY <1>2 DEF Win!Reset
  <2>2. DOMAIN <<>> = {} /\ Len(<<>>) = 0 /\ <<>> \in Seq(Nat)
    OBVIOUS
  <2>3. WinTypes'
    BY <2>1, <2>2 DEF WinInv, WinTypes
  <2>4. ASSUME NEW m \in Nat PROVE AllHeld(m)'
    <3>1. InWindow(m)' = {}
      BY <2>1, <2>2 DEF InWindow
    <3> QED
      BY <3>1, FS_EmptySet DEF AllHeld, WinParameters
  <2> QED
    BY <2>3, <2>4 DEF WinInv
<1>3. ASSUME NEW t \in Thread, Win!IsAllowed(t) PROVE WinInv'
  <2>1. asking[t] # None /\ now' = now /\ asking' = [asking EXCEPT ![t] = None]
    BY <1>3 DEF Win!IsAllowed
  <2>2. WinTypes
    BY DEF WinInv
  <2>3. Len(Win!Evicted(t)) \in Nat /\ Limit \in Nat
    BY <2>1, <2>2, FreshEnd DEF WinParameters
  <2>4. CASE Len(Win!Evicted(t)) >= Limit
    <3>1. bucket' = Win!Evicted(t) /\ granted' = granted
      BY <1>3, <2>4 DEF Win!IsAllowed
    <3> QED
      BY <2>1, <3>1, WinEvicts
  <2>5. CASE ~(Len(Win!Evicted(t)) >= Limit)
    <3>1. bucket' = Append(Win!Evicted(t), asking[t].now) /\ granted' = Append(granted, asking[t].now)
      BY <1>3, <2>5 DEF Win!IsAllowed
    <3>2. Len(Win!Evicted(t)) < Limit
      BY <2>3, <2>5
    <3> QED
      BY <2>1, <3>1, <3>2, WinGrants
  <2> QED
    BY <2>4, <2>5
<1>4. ASSUME NEW t \in Thread, Win!GetUsage(t) PROVE WinInv'
  BY <1>4, WinEvicts DEF Win!GetUsage
<1>5. CASE UNCHANGED Win!vars
  <2>1. bucket' = bucket /\ granted' = granted /\ now' = now /\ asking' = asking
    BY <1>5 DEF Win!vars
  <2> QED
    BY <2>1 DEF WinInv, WinTypes, AllHeld, Past, InWindow, Behind
<1> QED
  BY <1>1, <1>2, <1>3, <1>4, <1>5, WinReads DEF Win!Next

LEMMA WinInitHolds ==
  ASSUME WinParameters, Win!Init PROVE WinInv
<1>1. bucket = <<>> /\ granted = <<>> /\ now = 0 /\ asking = [t \in Thread |-> None]
  BY DEF Win!Init
<1>2. DOMAIN <<>> = {} /\ Len(<<>>) = 0 /\ <<>> \in Seq(Nat)
  OBVIOUS
<1>3. WinTypes
  BY <1>1, <1>2 DEF WinTypes
<1>4. ASSUME NEW m \in Nat PROVE AllHeld(m)
  <2>1. InWindow(m) = {}
    BY <1>1, <1>2 DEF InWindow
  <2> QED
    BY <2>1, FS_EmptySet DEF AllHeld, WinParameters
<1> QED
  BY <1>3, <1>4 DEF WinInv

LEMMA WinFollows ==
  ASSUME WinParameters, WinInv PROVE Win!WindowHolds
<1>1. WinTypes
  BY DEF WinInv
<1> SUFFICES ASSUME NEW m \in Nat PROVE Win!Within(m) <= Limit + Cardinality(Thread) - 1
  <2>1. 0 .. Until["win"] \subseteq Nat
    BY DEF WinParameters
  <2>2. Win!Cardinality(Thread) = Cardinality(Thread)
    BY DEF Win!Cardinality, Cardinality
  <2> QED
    BY <2>1, <2>2 DEF Win!WindowHolds
<1>2. Win!Within(m) = Cardinality(InWindow(m))
  BY DEF Win!Within, InWindow, Win!Cardinality, Cardinality
<1>3. /\ Cardinality(InWindow(m)) \in Nat /\ Cardinality(Behind(m)) \in Nat /\ Cardinality(Thread) \in Nat \ {0}
      /\ Limit \in Nat
  BY <1>1, WindowsAreFinite DEF WinParameters
<1>4. CASE AllHeld(m)
  BY <1>2, <1>3, <1>4 DEF AllHeld
<1>5. CASE Past(m)
  BY <1>2, <1>3, <1>5 DEF Past
<1> QED
  BY <1>4, <1>5 DEF WinInv

\* In no window does a key get more than its limit, but for one request of each other
\* thread that comes to the bucket with an old time (rate_limiter.is_allowed), for any
\* number of threads, any limit and window.
THEOREM WindowsHold ==
  ASSUME WinParameters
  PROVE  PartSpec => []WindowHolds
<1>1. PartInit => LiveWinInv
  BY WinInitHolds, LiveStarts DEF LiveWinInv
<1>2. LiveWinInv /\ [PartNext]_partVars => LiveWinInv'
  BY WinStepHolds, LiveSteps DEF LiveWinInv
<1>3. LiveWinInv => WindowHolds
  BY WinFollows DEF LiveWinInv, WindowHolds
<1> QED
  BY <1>1, <1>2, <1>3, PTL DEF PartSpec

-----------------------------------------------------------------------------
(* Notifications *)

Mailbox    == Tenant \cup {System}
Kind     == {"price_alert", "billing", "health", "created", "updated", "deactivated", "alert", "noted"}
Priority == {"info", "warning", "critical"}
Message  == [tenant : Mailbox, kind : Kind, priority : Priority, read : BOOLEAN, at : Nat]
Job      == [at : {"audit", "create"}, id : Note, tenant : Mailbox, kind : Kind, priority : Priority]

\* There are finitely many ids, and no row is None.
NotesDiffer == IsFiniteSet(Note) /\ None \notin Message

NoteTypes ==
  /\ now \in Nat
  /\ notes \in [Note -> Message \cup {None}]
  /\ unread \subseteq Note
  /\ DOMAIN handler = Proc
  /\ \A p \in Proc : handler[p] = Inbox!Idle \/ handler[p] \in Job

OnRecord(kind) == kind \in {"created", "alert"}

\* The rows that say so are the unread ones, and the audit entry came first.
RowOK(n) ==
  /\ n \in unread <=> Inbox!Row(n) /\ ~notes[n].read
  /\ Inbox!Row(n) => Inbox!Notifies(notes[n].kind) /\ (OnRecord(notes[n].kind) => n \in audited)

\* A notification about to be written has its audit entry and is one to be written.
JobOK(j) == j.at = "create" => Inbox!Notifies(j.kind) /\ (OnRecord(j.kind) => j.id \in audited)

NoteInv ==
  /\ NoteTypes
  /\ \A n \in Note : RowOK(n)
  /\ \A p \in Proc : handler[p] \in Job => JobOK(handler[p])

LiveNoteInv == live = "note" => NoteInv

-----------------------------------------------------------------------------
\* A handler that begins, whichever it is: it is about to write what needs no audit
\* entry, or the audit entry itself.
LEMMA NoteBeginHolds ==
  ASSUME NoteInv, NEW p \in Proc, NEW n \in Note, NEW t \in Mailbox, NEW kind \in Kind,
         NEW priority \in Priority, NEW at \in {"audit", "create"},
         at = "create" => Inbox!Notifies(kind) /\ ~OnRecord(kind),
         Inbox!Go(p, n, at, t, kind, priority)
  PROVE  NoteInv'
<1> DEFINE job == [at |-> at, id |-> n, tenant |-> t, kind |-> kind, priority |-> priority]
<1>1. handler' = [handler EXCEPT ![p] = job] /\ UNCHANGED <<notes, audited, now, unread>>
  BY DEF Inbox!Go
<1>2. job \in Job /\ JobOK(job)
  BY DEF Job, JobOK
<1>3. \A j \in Job : JobOK(j)' <=> JobOK(j)
  BY <1>1 DEF JobOK
<1>4. DOMAIN handler' = Proc /\ \A q \in Proc : handler'[q] = IF q = p THEN job ELSE handler[q]
  BY <1>1 DEF NoteInv, NoteTypes
<1>5. NoteTypes'
  BY <1>1, <1>2, <1>4 DEF NoteInv, NoteTypes
<1>6. ASSUME NEW q \in Proc, handler'[q] \in Job PROVE JobOK(handler[q])'
  BY <1>1, <1>2, <1>4, <1>6 DEF NoteInv, JobOK
<1>7. \A m \in Note : RowOK(m)'
  BY <1>1 DEF NoteInv, RowOK, Inbox!Row
<1> QED
  BY <1>5, <1>6, <1>7 DEF NoteInv

LEMMA HandlersBegin ==
  ASSUME NoteInv, NEW p \in Proc, NEW n \in Note, NEW t \in Tenant,
         \/ Inbox!OnPriceAlert(p, n, t) \/ Inbox!OnPriceAlert(p, n, None)
         \/ \E pct \in Percent : Inbox!OnBillingThreshold(p, n, t, pct)
         \/ \E action \in {"created", "updated", "deactivated"} : Inbox!OnTenantEvent(p, n, t, action)
         \/ \E severity \in {"warning", "critical"} : Inbox!OnSecurityEvent(p, n, t, severity)
         \/ \E status \in {"degraded", "down"} : Inbox!OnHealthDegraded(p, n, status)
  PROVE  NoteInv'
<1>1. t \in Mailbox /\ System \in Mailbox /\ Inbox!Receiver(t) \in Mailbox /\ Inbox!Receiver(None) \in Mailbox
  BY DEF Mailbox, Inbox!Receiver
<1>2. \A kind \in {"price_alert", "billing", "health"} : Inbox!Notifies(kind) /\ ~OnRecord(kind)
  BY DEF Inbox!Notifies, OnRecord
<1>3. ASSUME NEW to \in Mailbox, NEW priority \in Priority, Inbox!Go(p, n, "create", to, "price_alert", priority)
      PROVE  NoteInv'
  BY <1>2, <1>3, NoteBeginHolds DEF Kind
<1>4. ASSUME NEW priority \in Priority, Inbox!Go(p, n, "create", t, "billing", priority)
      PROVE  NoteInv'
  BY <1>1, <1>2, <1>4, NoteBeginHolds DEF Kind
<1>5. ASSUME NEW to \in Mailbox, NEW kind \in Kind, NEW priority \in Priority,
             Inbox!Go(p, n, "audit", to, kind, priority)
      PROVE  NoteInv'
  BY <1>5, NoteBeginHolds
<1>6. ASSUME NEW priority \in Priority, Inbox!Go(p, n, "create", System, "health", priority)
      PROVE  NoteInv'
  BY <1>1, <1>2, <1>6, NoteBeginHolds DEF Kind
<1>7. CASE Inbox!OnPriceAlert(p, n, t) \/ Inbox!OnPriceAlert(p, n, None)
  BY <1>1, <1>3, <1>7 DEF Inbox!OnPriceAlert, Kind, Priority
<1>8. CASE \E pct \in Percent : Inbox!OnBillingThreshold(p, n, t, pct)
  BY <1>4, <1>8 DEF Inbox!OnBillingThreshold, Inbox!UsagePriority, Kind, Priority
<1>9. CASE \E action \in {"created", "updated", "deactivated"} : Inbox!OnTenantEvent(p, n, t, action)
  BY <1>1, <1>5, <1>9 DEF Inbox!OnTenantEvent, Kind, Priority
<1>10. CASE \E severity \in {"warning", "critical"} : Inbox!OnSecurityEvent(p, n, t, severity)
  BY <1>1, <1>5, <1>10 DEF Inbox!OnSecurityEvent, Kind, Priority
<1>11. CASE \E status \in {"degraded", "down"} : Inbox!OnHealthDegraded(p, n, status)
  BY <1>6, <1>11 DEF Inbox!OnHealthDegraded, Kind, Priority
<1> QED
  BY <1>7, <1>8, <1>9, <1>10, <1>11

\* The audit entry is there before the notification is turned to.
LEMMA NoteRecordHolds ==
  ASSUME NoteInv, NEW p \in Proc, Inbox!RecordAudit(p)
  PROVE  NoteInv'
<1> DEFINE j == handler[p]
           next == IF Inbox!Notifies(j.kind) THEN [j EXCEPT !.at = "create"] ELSE Inbox!Idle
<1>1. j \in Job /\ j.at = "audit"
  BY DEF Inbox!RecordAudit, NoteInv, NoteTypes, Inbox!Idle
<1>2. /\ audited' = audited \cup {j.id} /\ handler' = [handler EXCEPT ![p] = next]
      /\ UNCHANGED <<notes, now, unread>>
  BY DEF Inbox!RecordAudit
<1>3. next = Inbox!Idle \/ (next \in Job /\ next.id = j.id /\ next.kind = j.kind /\ Inbox!Notifies(j.kind))
  BY <1>1 DEF Job
<1>4. NoteTypes'
  BY <1>2, <1>3 DEF NoteInv, NoteTypes
<1>5. \A m \in Note : RowOK(m)'
  BY <1>2 DEF NoteInv, RowOK, Inbox!Row
<1>6. ASSUME NEW q \in Proc, handler'[q] \in Job PROVE JobOK(handler[q])'
  <2>1. CASE q = p /\ next # Inbox!Idle
    BY <1>2, <1>3, <2>1 DEF NoteInv, NoteTypes, JobOK
  <2>2. CASE q = p /\ next = Inbox!Idle
    BY <1>2, <1>6, <2>2 DEF NoteInv, NoteTypes, JobOK, Inbox!Idle
  <2>3. CASE q # p
    BY <1>2, <1>6, <2>3 DEF NoteInv, NoteTypes, JobOK
  <2> QED
    BY <2>1, <2>2, <2>3
<1> QED
  BY <1>4, <1>5, <1>6 DEF NoteInv

LEMMA NoteCreateHolds ==
  ASSUME NotesDiffer, NoteInv, NEW p \in Proc, Inbox!Create(p)
  PROVE  NoteInv'
<1> DEFINE j == handler[p]
           m == [tenant |-> j.tenant, kind |-> j.kind, priority |-> j.priority,
                 read |-> FALSE, at |-> now]
<1>1. j \in Job /\ JobOK(j) /\ j.at = "create"
  BY DEF Inbox!Create, NoteInv, NoteTypes, Inbox!Idle
<1>2. /\ notes' = [notes EXCEPT ![j.id] = m] /\ unread' = unread \cup {j.id}
      /\ handler' = [handler EXCEPT ![p] = Inbox!Idle] /\ UNCHANGED <<audited, now>>
  BY DEF Inbox!Create
<1>3. m \in Message /\ m # None /\ j.id \in Note
  <2>1. j.tenant \in Mailbox /\ j.kind \in Kind /\ j.priority \in Priority /\ j.id \in Note
    BY <1>1 DEF Job
  <2>2. now \in Nat
    BY DEF NoteInv, NoteTypes
  <2>3. m \in Message
    BY <2>1, <2>2 DEF Message
  <2> QED
    BY <2>1, <2>3 DEF NotesDiffer
<1>4. NoteTypes'
  BY <1>2, <1>3 DEF NoteInv, NoteTypes
<1>5. ASSUME NEW n \in Note PROVE RowOK(n)'
  <2>1. CASE n = j.id
    BY <1>1, <1>2, <1>3, <2>1 DEF NoteInv, NoteTypes, RowOK, Inbox!Row, JobOK
  <2>2. CASE n # j.id
    BY <1>2, <2>2 DEF NoteInv, NoteTypes, RowOK, Inbox!Row
  <2> QED
    BY <2>1, <2>2
<1>6. ASSUME NEW q \in Proc, handler'[q] \in Job PROVE JobOK(handler[q])'
  BY <1>2, <1>6 DEF NoteInv, NoteTypes, JobOK, Inbox!Idle
<1> QED
  BY <1>4, <1>5, <1>6 DEF NoteInv

LEMMA NoteFailHolds ==
  ASSUME NoteInv, NEW p \in Proc, Inbox!Fail(p)
  PROVE  NoteInv'
<1>1. handler' = [handler EXCEPT ![p] = Inbox!Idle] /\ UNCHANGED <<notes, audited, now, unread>>
  BY DEF Inbox!Fail
<1>2. NoteTypes' /\ \A n \in Note : RowOK(n)'
  BY <1>1 DEF NoteInv, NoteTypes, RowOK, Inbox!Row
<1>3. ASSUME NEW q \in Proc, handler'[q] \in Job PROVE JobOK(handler[q])'
  BY <1>1, <1>3 DEF NoteInv, NoteTypes, JobOK, Inbox!Idle
<1> QED
  BY <1>2, <1>3 DEF NoteInv

\* Marking rows takes exactly those from the unread ones.
LEMMA NoteMarkHolds ==
  ASSUME NotesDiffer, NoteInv, NEW S \in SUBSET Note, \A n \in S : Inbox!Row(n), Inbox!Mark(S)
  PROVE  NoteInv'
<1>1. /\ notes' = [n \in Note |-> IF n \in S THEN [notes[n] EXCEPT !.read = TRUE] ELSE notes[n]]
      /\ unread' = unread \ S /\ UNCHANGED <<audited, handler, now>>
  BY DEF Inbox!Mark
<1>2. ASSUME NEW n \in S
      PROVE  /\ notes'[n] \in Message /\ notes'[n].read = TRUE
             /\ notes'[n].kind = notes[n].kind /\ notes'[n] # None
  <2>1. notes[n] \in Message
    BY <1>2 DEF NoteInv, NoteTypes, Inbox!Row
  <2> QED
    BY <1>1, <2>1 DEF Message, NotesDiffer
<1>3. NoteTypes'
  BY <1>1, <1>2 DEF NoteInv, NoteTypes
<1>4. ASSUME NEW n \in Note PROVE RowOK(n)'
  <2>1. CASE n \in S
    BY <1>1, <1>2, <2>1 DEF NoteInv, RowOK, Inbox!Row
  <2>2. CASE n \notin S
    BY <1>1, <2>2 DEF NoteInv, RowOK, Inbox!Row
  <2> QED
    BY <2>1, <2>2
<1>5. \A q \in Proc : handler'[q] \in Job => JobOK(handler[q])'
  BY <1>1 DEF NoteInv, JobOK
<1> QED
  BY <1>3, <1>4, <1>5 DEF NoteInv

\* Purging takes rows that were read.
LEMMA NotePurgeHolds ==
  ASSUME NoteInv, Inbox!PurgeOld
  PROVE  NoteInv'
<1>1. /\ \A n \in Note : notes'[n] = notes[n] \/ (notes'[n] = None /\ Inbox!Row(n) /\ notes[n].read)
      /\ DOMAIN notes' = Note /\ UNCHANGED <<audited, handler, now, unread>>
  BY DEF Inbox!PurgeOld
<1>2. NoteTypes'
  BY DEF Inbox!PurgeOld, NoteInv, NoteTypes
<1>3. \A n \in Note : RowOK(n)'
  BY <1>1 DEF NoteInv, RowOK, Inbox!Row
<1>4. \A q \in Proc : handler'[q] \in Job => JobOK(handler[q])'
  BY <1>1 DEF NoteInv, JobOK
<1> QED
  BY <1>2, <1>3, <1>4 DEF NoteInv

\* Of finitely many rows, a page of as many has each: fewer are newer than it.
LEMMA PageHasAll ==
  ASSUME NoteInv, IsFiniteSet(Note), NEW S \in SUBSET Note, \A m \in S : Inbox!Row(m), NEW n \in S
  PROVE  n \in Inbox!Page(S, Inbox!Cardinality(S))
<1> DEFINE newer == {m \in S : notes[m].at > notes[n].at}
<1>1. notes[n].at \in Nat
  BY DEF NoteInv, NoteTypes, Message, Inbox!Row
<1>2. newer \subseteq S \ {n}
  BY <1>1
<1>3. IsFiniteSet(S) /\ IsFiniteSet(S \ {n}) /\ IsFiniteSet(newer)
  BY <1>2, FS_Subset
<1>4. Cardinality(newer) <= Cardinality(S \ {n})
  BY <1>2, <1>3, FS_Subset
<1>5. Cardinality(S \ {n}) = Cardinality(S) - 1 /\ Cardinality(S) \in Nat /\ Cardinality(newer) \in Nat
  BY <1>3, FS_RemoveElement, FS_CardinalityType
<1>6. Cardinality(newer) < Cardinality(S)
  <2> HIDE DEF newer
  <2> QED
    BY <1>4, <1>5
<1> QED
  BY <1>6 DEF Inbox!Page, Inbox!Cardinality, Cardinality

LEMMA UnreadFollows == ASSUME NotesDiffer PROVE NoteInv => Inbox!NothingUnreadIsLost
<1> SUFFICES ASSUME NoteInv PROVE Inbox!NothingUnreadIsLost
  OBVIOUS
<1>1. ASSUME NEW t \in Tenant \cup {System} PROVE Inbox!Unread(t) = unread \cap Inbox!Of(t)
  BY DEF NoteInv, NoteTypes, RowOK, Inbox!Unread, Inbox!Of
<1>2. ASSUME NEW n \in unread
      PROVE  Inbox!Row(n) /\ n \in Inbox!GetUnread(notes[n].tenant, Inbox!GetUnreadCount(notes[n].tenant))
  <2>1. n \in Note /\ Inbox!Row(n) /\ ~notes[n].read
    BY <1>2 DEF NoteInv, NoteTypes, RowOK
  <2> DEFINE S == Inbox!Unread(notes[n].tenant)
  <2>2. n \in S /\ S \in SUBSET Note /\ \A m \in S : Inbox!Row(m)
    BY <2>1 DEF Inbox!Unread, Inbox!Of
  <2>3. n \in Inbox!Page(S, Inbox!Cardinality(S))
    <3> HIDE DEF S
    <3> QED
      BY <2>2, PageHasAll DEF NotesDiffer
  <2> QED
    BY <2>1, <2>3 DEF Inbox!GetUnread, Inbox!GetUnreadCount
<1>3. \A t \in Tenant \cup {System} : Inbox!GetUnreadCount(t) = Inbox!Cardinality(unread \cap Inbox!Of(t))
  BY <1>1 DEF Inbox!GetUnreadCount
<1> QED
  BY <1>2, <1>3 DEF NoteInv, RowOK, OnRecord, Inbox!NothingUnreadIsLost

\* What a tenant has not read is there, counted and shown until it reads it, and a welcome
\* or a security alert that anybody sees is in the audit log (notification_center.purge_old,
\* events/handlers.py), for any number of processes, tenants and notifications.
THEOREM NothingUnreadLost ==
  ASSUME NotesDiffer
  PROVE  PartSpec => []NothingUnreadIsLost
<1>1. Inbox!Init => NoteInv
  <2> SUFFICES ASSUME Inbox!Init PROVE NoteInv
    OBVIOUS
  <2>1. \A p \in Proc : handler[p] = Inbox!Idle /\ handler[p] \notin Job
    BY DEF Inbox!Init, Inbox!Idle, Job
  <2> QED
    BY <2>1 DEF Inbox!Init, NoteInv, NoteTypes, RowOK, Inbox!Row
<1>2. NoteInv /\ [Inbox!Next]_Inbox!vars => NoteInv'
  <2> SUFFICES ASSUME NoteInv, [Inbox!Next]_Inbox!vars PROVE NoteInv'
    OBVIOUS
  <2>1. CASE Inbox!Tick
    BY <2>1 DEF Inbox!Tick, NoteInv, NoteTypes, RowOK, Inbox!Row, JobOK
  <2>2. CASE Inbox!PurgeOld
    BY <2>2, NotePurgeHolds
  <2>3. ASSUME NEW t \in Tenant \cup {System}, Inbox!MarkAllRead(t) PROVE NoteInv'
    BY <2>3, NoteMarkHolds DEF Inbox!MarkAllRead, Inbox!Of
  <2>4. ASSUME NEW t \in Tenant \cup {System}, NEW n \in Note, Inbox!MarkRead(n, t) PROVE NoteInv'
    BY <2>4, NoteMarkHolds DEF Inbox!MarkRead, Inbox!Of
  <2>5. ASSUME NEW p \in Proc, Inbox!RecordAudit(p) \/ Inbox!Create(p) \/ Inbox!Fail(p) PROVE NoteInv'
    BY <2>5, NoteRecordHolds, NoteCreateHolds, NoteFailHolds
  <2>6. CASE \E p \in Proc, n \in Note, t \in Tenant :
               \/ Inbox!OnPriceAlert(p, n, t) \/ Inbox!OnPriceAlert(p, n, None)
               \/ \E pct \in Percent : Inbox!OnBillingThreshold(p, n, t, pct)
               \/ \E action \in {"created", "updated", "deactivated"} : Inbox!OnTenantEvent(p, n, t, action)
               \/ \E severity \in {"warning", "critical"} : Inbox!OnSecurityEvent(p, n, t, severity)
               \/ \E status \in {"degraded", "down"} : Inbox!OnHealthDegraded(p, n, status)
    BY <2>6, HandlersBegin
  <2>7. CASE UNCHANGED Inbox!vars
    BY <2>7 DEF Inbox!vars, NoteInv, NoteTypes, RowOK, Inbox!Row, JobOK
  <2> QED
    BY <2>1, <2>2, <2>3, <2>4, <2>5, <2>6, <2>7 DEF Inbox!Next
<1>4. PartInit => LiveNoteInv
  BY <1>1, LiveStarts DEF LiveNoteInv
<1>5. LiveNoteInv /\ [PartNext]_partVars => LiveNoteInv'
  BY <1>2, LiveSteps DEF LiveNoteInv
<1>6. LiveNoteInv => NothingUnreadIsLost
  BY UnreadFollows DEF LiveNoteInv, NothingUnreadIsLost
<1> QED
  BY <1>4, <1>5, <1>6, PTL DEF PartSpec

-----------------------------------------------------------------------------
(* Retention *)

\* No policy is None.
PoliciesDiffer == None \notin Keep!Policy

\* What is in force is seen, and so is what has been decided.
SeenOK(p) ==
  /\ "at" \in DOMAIN op[p]
  /\ op[p].at \in {"own", "global"} => Keep!InForce(policies, op[p]) \subseteq seen[p]
  /\ op[p].at = "record" => op[p].decision \in seen[p]

\* Every built-in category keeps its global policy.
KeepInv ==
  /\ policies \in [Keep!Category -> [Keep!Owner -> Keep!Policy \cup {None}]]
  /\ \A c \in Keep!Range(Builtin) : policies[c][Global] # None
  /\ DOMAIN op = Enforcer /\ DOMAIN seen = Enforcer
  /\ \A p \in Enforcer : SeenOK(p)

LiveKeepInv == live = "keep" => KeepInv

-----------------------------------------------------------------------------
\* Whatever the policies become, the enforcements under way see them.
LEMMA WitnessSees ==
  ASSUME KeepInv, Keep!Witness, op' = op
  PROVE  DOMAIN op' = Enforcer /\ DOMAIN seen' = Enforcer /\ \A p \in Enforcer : SeenOK(p)'
<1>1. seen' = [p \in Enforcer |-> IF op[p].at \in {"own", "global"}
                                  THEN seen[p] \cup Keep!InForce(policies', op[p]) ELSE seen[p]]
  BY DEF Keep!Witness
<1>2. ASSUME NEW p \in Enforcer PROVE SeenOK(p)'
  <2>1. seen'[p] = IF op[p].at \in {"own", "global"}
                   THEN seen[p] \cup Keep!InForce(policies', op[p]) ELSE seen[p]
    BY <1>1
  <2>2. Keep!InForce(policies', op[p]) = Keep!InForce(policies, op[p])'
    BY DEF Keep!InForce, Keep!Decision, Keep!Effective
  <2> QED
    BY <2>1, <2>2 DEF KeepInv, SeenOK
<1> QED
  BY <1>1, <1>2 DEF KeepInv

LEMMA SetHolds ==
  ASSUME PoliciesDiffer, KeepInv, NEW c \in Keep!Category, NEW o \in Keep!Owner,
         \/ \E x \in Keep!Policy : Keep!SetPolicy(c, o, x)
         \/ Keep!DeletePolicy(c, o)
  PROVE  KeepInv'
<1>1. PICK x \in Keep!Policy \cup {None} :
        /\ policies' = [policies EXCEPT ![c][o] = x] /\ (o = Global => x # None)
        /\ Keep!Witness /\ op' = op
  BY DEF Keep!SetPolicy, Keep!DeletePolicy, PoliciesDiffer
<1>2. policies \in [Keep!Category -> [Keep!Owner -> Keep!Policy \cup {None}]]
  BY DEF KeepInv
<1>3. policies' \in [Keep!Category -> [Keep!Owner -> Keep!Policy \cup {None}]]
  BY <1>1, <1>2
<1>4. ASSUME NEW d \in Keep!Range(Builtin) PROVE policies'[d][Global] # None
  <2>1. d \in Keep!Category /\ Global \in Keep!Owner /\ policies[d][Global] # None
    BY DEF Keep!Category, Keep!Owner, KeepInv
  <2> QED
    BY <1>1, <1>2, <2>1
<1> QED
  BY <1>1, <1>3, <1>4, WitnessSees DEF KeepInv

\* An enforcement that begins sees what is in force.
LEMMA BeginHolds ==
  ASSUME KeepInv, NEW p \in Enforcer, NEW cats, NEW o, NEW dry, policies' = policies, Keep!Begin(p, cats, o, dry)
  PROVE  KeepInv'
<1> DEFINE new == [at |-> "own", cat |-> Keep!Head(cats), owner |-> o, dry |-> dry, rest |-> Keep!Tail(cats)]
<1>1. op' = [op EXCEPT ![p] = new] /\ seen' = [seen EXCEPT ![p] = Keep!InForce(policies, new)]
  BY DEF Keep!Begin
<1>2. "at" \in DOMAIN new /\ new.at = "own"
  OBVIOUS
<1> HIDE DEF new
<1>3. ASSUME NEW q \in Enforcer PROVE SeenOK(q)'
  <2>1. CASE q = p
    <3>1. op'[q] = new /\ seen'[q] = Keep!InForce(policies, new)
      BY <1>1, <2>1 DEF KeepInv
    <3>2. Keep!InForce(policies, op[q])' = Keep!InForce(policies, new)
      BY <3>1 DEF Keep!InForce, Keep!Decision, Keep!Effective
    <3> QED
      BY <1>2, <3>1, <3>2 DEF SeenOK
  <2>2. CASE q # p
    BY <1>1, <2>2 DEF KeepInv, SeenOK, Keep!InForce, Keep!Decision, Keep!Effective
  <2> QED
    BY <2>1, <2>2
<1> QED
  BY <1>1, <1>3 DEF KeepInv

\* An enforcement that goes on as x, with what it has seen.
LEMMA GoesOnHolds ==
  ASSUME KeepInv, NEW p \in Enforcer, NEW x, "at" \in DOMAIN x, op' = [op EXCEPT ![p] = x],
         policies' = policies, DOMAIN seen' = Enforcer, \A q \in Enforcer \ {p} : seen'[q] = seen[q],
         x.at \in {"own", "global"} => Keep!InForce(policies, x) \subseteq seen'[p],
         x.at = "record" => x.decision \in seen'[p]
  PROVE  KeepInv'
<1>1. ASSUME NEW q \in Enforcer PROVE SeenOK(q)'
  <2>1. CASE q = p
    <3>1. op'[q] = x
      BY <2>1 DEF KeepInv
    <3>2. Keep!InForce(policies, op[q])' = Keep!InForce(policies, x)
      BY <3>1 DEF Keep!InForce, Keep!Decision, Keep!Effective
    <3> QED
      BY <2>1, <3>1, <3>2 DEF SeenOK
  <2>2. CASE q # p
    BY <2>2 DEF KeepInv, SeenOK, Keep!InForce, Keep!Decision, Keep!Effective
  <2> QED
    BY <2>1, <2>2
<1> QED
  BY <1>1 DEF KeepInv

LEMMA ReadOwnHolds ==
  ASSUME KeepInv, NEW p \in Enforcer, Keep!ReadOwn(p)
  PROVE  KeepInv'
<1> DEFINE c == op[p].cat
           o == op[p].owner
           mine == policies[c][o]
           decided == [at |-> "record", cat |-> c, owner |-> o, dry |-> op[p].dry, rest |-> op[p].rest,
                       decision |-> Keep!Decision(mine, op[p].dry)]
           next == [op[p] EXCEPT !.at = "global"]
<1>1. op[p].at = "own" /\ policies' = policies /\ seen' = seen
  BY DEF Keep!ReadOwn
<1>2. "at" \in DOMAIN op[p] /\ Keep!InForce(policies, op[p]) \subseteq seen[p] /\ DOMAIN seen = Enforcer
  BY <1>1 DEF KeepInv, SeenOK
<1>3. Keep!Decision(Keep!Effective(policies, c, o), op[p].dry) \in seen[p]
  BY <1>2 DEF Keep!InForce
<1>4. CASE o # Global /\ mine # None
  <2>1. op' = [op EXCEPT ![p] = decided]
    BY <1>4 DEF Keep!ReadOwn, Keep!Decide
  <2>2. Keep!Effective(policies, c, o) = mine
    BY <1>4 DEF Keep!Effective
  <2>3. "at" \in DOMAIN decided /\ decided.at = "record" /\ decided.decision \in seen[p]
    BY <1>3, <2>2
  <2> HIDE DEF decided
  <2> QED
    BY <1>1, <1>2, <2>1, <2>3, GoesOnHolds
<1>5. CASE o = Global \/ mine = None
  <2>1. op' = [op EXCEPT ![p].at = "global"]
    BY <1>5 DEF Keep!ReadOwn
  <2>2. op' = [op EXCEPT ![p] = next]
    BY <2>1
  <2>3. Keep!Effective(policies, c, o) = policies[c][Global]
    BY <1>5 DEF Keep!Effective
  <2>4. "at" \in DOMAIN next /\ next.at = "global" /\ next.cat = c /\ next.owner = o /\ next.dry = op[p].dry
    BY <1>2
  <2> HIDE DEF next
  <2>5. Keep!InForce(policies, next) \subseteq seen[p]
    BY <1>3, <2>3, <2>4 DEF Keep!InForce
  <2> QED
    BY <1>1, <1>2, <2>2, <2>4, <2>5, GoesOnHolds
<1> QED
  BY <1>4, <1>5

LEMMA ReadGlobalHolds ==
  ASSUME KeepInv, NEW p \in Enforcer, Keep!ReadGlobal(p)
  PROVE  KeepInv'
<1> DEFINE d == Keep!Decision(policies[op[p].cat][Global], op[p].dry)
           decided == [at |-> "record", cat |-> op[p].cat, owner |-> op[p].owner, dry |-> op[p].dry,
                       rest |-> op[p].rest, decision |-> d]
<1>1. /\ op[p].at = "global" /\ policies' = policies /\ seen' = seen
      /\ op' = [op EXCEPT ![p] = decided]
  BY DEF Keep!ReadGlobal, Keep!Decide
<1>2. Keep!InForce(policies, op[p]) \subseteq seen[p] /\ DOMAIN seen = Enforcer
  BY <1>1 DEF KeepInv, SeenOK
<1>3. d \in seen[p]
  BY <1>1, <1>2 DEF Keep!InForce
<1> HIDE DEF d
<1>4. "at" \in DOMAIN decided /\ decided.at = "record" /\ decided.decision \in seen[p]
  BY <1>3
<1> HIDE DEF decided
<1> QED
  BY <1>1, <1>2, <1>4, GoesOnHolds

LEMMA RecordHolds ==
  ASSUME KeepInv, NEW p \in Enforcer, Keep!RecordEvent(p)
  PROVE  KeepInv'
<1>1. policies' = policies
  BY DEF Keep!RecordEvent
<1>2. CASE Keep!Begin(p, op[p].rest, op[p].owner, op[p].dry)
  BY <1>1, <1>2, BeginHolds
<1>3. CASE op' = [op EXCEPT ![p] = Keep!Idle] /\ seen' = [seen EXCEPT ![p] = {}]
  <2>1. "at" \in DOMAIN Keep!Idle /\ Keep!Idle.at = "idle"
    BY DEF Keep!Idle
  <2>2. DOMAIN seen' = Enforcer /\ \A q \in Enforcer \ {p} : seen'[q] = seen[q]
    BY <1>3 DEF KeepInv
  <2> QED
    BY <1>1, <1>3, <2>1, <2>2, GoesOnHolds
<1> QED
  BY <1>2, <1>3 DEF Keep!RecordEvent

\* What the report calls uncovered has its global policy, switched off like the tenant's.
LEMMA PoliciesFollow == KeepInv => Keep!EnforcementsFollowPolicies
<1> SUFFICES ASSUME KeepInv PROVE Keep!EnforcementsFollowPolicies
  OBVIOUS
<1>1. ASSUME NEW o \in Keep!Owner, NEW c \in Keep!Uncovered(o)
      PROVE  /\ policies[c][Global] # None
             /\ Keep!Decision(Keep!Effective(policies, c, o), FALSE).status = "skipped"
  <2>1. c \in Keep!Range(Builtin) /\ c \notin Keep!Covered(o) /\ c \in Keep!Category
    BY DEF Keep!Uncovered, Keep!Category
  <2>2. \A q \in Keep!ListPolicies(o) : policies[c][q] = None \/ ~policies[c][q].enabled
    BY <2>1 DEF Keep!Covered
  <2>3. o \in Keep!ListPolicies(o) /\ Global \in Keep!ListPolicies(o)
    BY DEF Keep!ListPolicies, Keep!Owner
  <2>4. policies[c][Global] # None
    BY <2>1 DEF KeepInv
  <2>5. Keep!Effective(policies, c, o) = None \/ ~Keep!Effective(policies, c, o).enabled
    BY <2>2, <2>3 DEF Keep!Effective
  <2> QED
    BY <2>4, <2>5 DEF Keep!Decision
<1>2. \A p \in Enforcer : op[p].at = "record" => op[p].decision \in seen[p]
  BY DEF KeepInv, SeenOK
<1> QED
  BY <1>1, <1>2 DEF Keep!EnforcementsFollowPolicies

\* An enforcement records what some policy in force since it began says, and what the
\* compliance report calls uncovered is what an enforcement would skip
\* (retention/policy_manager.py), for any number of processes, tenants and categories,
\* whoever changes the policies meanwhile.
THEOREM EnforcementsFollow ==
  ASSUME PoliciesDiffer
  PROVE  PartSpec => []EnforcementsFollowPolicies
<1>1. Keep!Init => KeepInv
  <2> SUFFICES ASSUME Keep!Init PROVE KeepInv
    OBVIOUS
  <2>1. PICK a1 \in Action : policies = [c \in Keep!Category |-> [o \in Keep!Owner |->
          IF o = Global /\ c \in Keep!Range(Builtin) THEN [action |-> a1, enabled |-> TRUE] ELSE None]]
    BY DEF Keep!Init, Keep!EnsureDefaults
  <2>2. [action |-> a1, enabled |-> TRUE] \in Keep!Policy /\ [action |-> a1, enabled |-> TRUE] # None
    <3>1. [action |-> a1, enabled |-> TRUE] \in Keep!Policy
      BY DEF Keep!Policy
    <3> QED
      BY <3>1 DEF PoliciesDiffer
  <2>3. policies \in [Keep!Category -> [Keep!Owner -> Keep!Policy \cup {None}]]
    BY <2>1, <2>2
  <2>4. \A c \in Keep!Range(Builtin) : policies[c][Global] # None
    BY <2>1, <2>2 DEF Keep!Category, Keep!Owner
  <2>5. "at" \in DOMAIN Keep!Idle /\ Keep!Idle.at = "idle"
    BY DEF Keep!Idle
  <2>6. \A p \in Enforcer : SeenOK(p)
    BY <2>5 DEF Keep!Init, SeenOK
  <2> QED
    BY <2>3, <2>4, <2>6 DEF Keep!Init, KeepInv
<1>2. KeepInv /\ [Keep!Next]_Keep!vars => KeepInv'
  <2> SUFFICES ASSUME KeepInv, [Keep!Next]_Keep!vars PROVE KeepInv'
    OBVIOUS
  <2>1. ASSUME NEW c \in Keep!Category, NEW o \in Keep!Owner,
               Keep!DeletePolicy(c, o) \/ \E x \in Keep!Policy : Keep!SetPolicy(c, o, x)
        PROVE  KeepInv'
    BY <2>1, SetHolds
  <2>2. ASSUME NEW p \in Enforcer, Keep!ReadOwn(p) \/ Keep!ReadGlobal(p) \/ Keep!RecordEvent(p) PROVE KeepInv'
    BY <2>2, ReadOwnHolds, ReadGlobalHolds, RecordHolds
  <2>3. ASSUME NEW p \in Enforcer, NEW cats, NEW o, NEW dry, Keep!Enforce(p, cats, o, dry) PROVE KeepInv'
    BY <2>3, BeginHolds DEF Keep!Enforce
  <2>4. CASE UNCHANGED Keep!vars
    BY <2>4 DEF Keep!vars, KeepInv, SeenOK, Keep!InForce, Keep!Decision, Keep!Effective
  <2> QED
    BY <2>1, <2>2, <2>3, <2>4 DEF Keep!Next
<1>3. PartInit => LiveKeepInv
  BY <1>1, LiveStarts DEF LiveKeepInv
<1>4. LiveKeepInv /\ [PartNext]_partVars => LiveKeepInv'
  BY <1>2, LiveSteps DEF LiveKeepInv
<1>5. LiveKeepInv => EnforcementsFollowPolicies
  BY PoliciesFollow DEF LiveKeepInv, EnforcementsFollowPolicies
<1> QED
  BY <1>3, <1>4, <1>5, PTL DEF PartSpec

-----------------------------------------------------------------------------
(* Onboarding *)

Registration == [plan : Tier, status : {"pending", "active", "suspended"}]
Detail       == Tier \cup Step \cup {None}
Happening    == [what : {"registered", "activated", "plan_changed", "suspended", "step_completed"},
                 detail : Detail, at : Nat, since : Nat]
Intent       == [what : {"register", "activate", "change", "suspend", "complete"}, tenant : Tenant,
                 arg : Detail, at : Nat, since : Nat, read : BOOLEAN]

\* No registration is None.
BoardParameters == None \notin Registration

BoardTypes ==
  /\ now \in Nat
  /\ reg \in [Tenant -> Registration \cup {None}]
  /\ DOMAIN done = Tenant
  /\ log \in [Tenant -> Seq(Happening)]
  /\ DOMAIN op = Proc

\* The first n entries have stamps before that one.
Earlier(t, n, at) == \A j \in DOMAIN log[t] : j <= n => log[t][j].at < at

\* What is under way has its argument and a stamp that comes after those of all entries
\* there were when it was drawn; an activation or a change of plan that has read is of a
\* tenant that is registered.
IntentOK(p) ==
  \/ op[p] = Board!Free
  \/ /\ op[p] \in Intent /\ op[p].arg \in Board!Argument[op[p].what]
     /\ op[p].at <= now /\ op[p].since <= Len(log[op[p].tenant]) /\ Earlier(op[p].tenant, op[p].since, op[p].at)
     /\ op[p].what \in {"activate", "change"} /\ op[p].read => Board!Known(op[p].tenant)

\* Entry i is the last of those kinds.
IsLast(t, i, kinds) ==
  /\ log[t][i].what \in kinds
  /\ \A j \in DOMAIN log[t] : j > i => log[t][j].what \notin kinds

StampOK(t, i) ==
  /\ log[t][i].at < now /\ log[t][i].since < i
  /\ Earlier(t, log[t][i].since, log[t][i].at)

StatusTold(t) ==
  \E i \in DOMAIN log[t] : IsLast(t, i, Board!OfStatus) /\ reg[t].status = Board!StatusAfter(log[t][i])
PlanTold(t) ==
  \E i \in DOMAIN log[t] : IsLast(t, i, Board!OfPlan) /\ reg[t].plan = log[t][i].detail
StepsTold(t) ==
  \A i \in DOMAIN log[t] : log[t][i].what = "step_completed" =>
    /\ log[t][i].detail \in done[t]
    /\ \A j \in DOMAIN log[t] : log[t][j].what = "step_completed" /\ log[t][j].detail = log[t][i].detail => j = i

LogOK(t) ==
  IF reg[t] = None THEN log[t] = <<>> /\ done[t] = None
  ELSE /\ \A i \in DOMAIN log[t] : (log[t][i].what = "registered" <=> i = 1) /\ StampOK(t, i)
       /\ StatusTold(t) /\ PlanTold(t) /\ StepsTold(t)
       /\ reg[t].status = "active" => Verify \in done[t]

BoardInv ==
  /\ BoardTypes
  /\ \A p \in Proc : IntentOK(p)
  /\ \A t \in Tenant : LogOK(t)

LiveBoardInv == live = "board" => BoardInv

\* A step that keeps the logs true: registrations stay, and logs only grow.
Tells ==
  /\ now' \in Nat /\ now' >= now
  /\ reg' \in [Tenant -> Registration \cup {None}] /\ DOMAIN done' = Tenant
  /\ log' \in [Tenant -> Seq(Happening)]
  /\ \A x \in Tenant : /\ LogOK(x)' /\ (reg[x] # None => reg'[x] # None)
                       /\ Len(log'[x]) >= Len(log[x])
                       /\ \A j \in DOMAIN log'[x] : j <= Len(log[x]) => log'[x][j] = log[x][j]

-----------------------------------------------------------------------------
\* An entry comes after those that are there.
LEMMA LogGrows ==
  ASSUME BoardInv, NEW t \in Tenant, NEW e \in Happening, log' = [log EXCEPT ![t] = Append(@, e)]
  PROVE  /\ log' \in [Tenant -> Seq(Happening)]
         /\ \A x \in Tenant : x # t => log'[x] = log[x]
         /\ Len(log[t]) \in Nat /\ DOMAIN log[t] = 1 .. Len(log[t]) /\ DOMAIN log'[t] = 1 .. Len(log[t]) + 1
         /\ Len(log'[t]) = Len(log[t]) + 1 /\ log'[t][Len(log[t]) + 1] = e
         /\ \A i \in DOMAIN log[t] : log'[t][i] = log[t][i]
<1>1. log \in [Tenant -> Seq(Happening)]
  BY DEF BoardInv, BoardTypes
<1>2. log[t] \in Seq(Happening)
  BY <1>1
<1>3. /\ Append(log[t], e) \in Seq(Happening) /\ Len(Append(log[t], e)) = Len(log[t]) + 1
      /\ Len(log[t]) \in Nat /\ DOMAIN log[t] = 1 .. Len(log[t])
      /\ DOMAIN Append(log[t], e) = 1 .. Len(log[t]) + 1
      /\ Append(log[t], e)[Len(log[t]) + 1] = e
      /\ \A i \in 1 .. Len(log[t]) : Append(log[t], e)[i] = log[t][i]
  BY <1>2
<1>4. log'[t] = Append(log[t], e) /\ \A x \in Tenant : x # t => log'[x] = log[x]
  BY <1>1
<1>5. log' \in [Tenant -> Seq(Happening)]
  BY <1>1, <1>3
<1> QED
  BY <1>3, <1>4, <1>5

\* An entry of none of those kinds leaves the last of them; one of them is the last.
LEMMA LastStays ==
  ASSUME BoardInv, NEW t \in Tenant, NEW n \in Nat, NEW kinds, NEW i \in DOMAIN log[t], IsLast(t, i, kinds),
         DOMAIN log[t] = 1 .. n, DOMAIN log'[t] = 1 .. n + 1, log'[t][n + 1].what \notin kinds,
         \A j \in DOMAIN log[t] : log'[t][j] = log[t][j]
  PROVE  i \in DOMAIN log'[t] /\ log'[t][i] = log[t][i] /\ IsLast(t, i, kinds)'
<1>1. i \in 1 .. n + 1 /\ log'[t][i] = log[t][i]
  OBVIOUS
<1>2. ASSUME NEW j \in 1 .. n + 1, j > i PROVE log'[t][j].what \notin kinds
  <2>1. CASE j = n + 1
    BY <2>1
  <2>2. CASE j # n + 1
    <3>1. j \in DOMAIN log[t]
      BY <2>2
    <3> QED
      BY <1>2, <3>1 DEF IsLast
  <2> QED
    BY <2>1, <2>2
<1> QED
  BY <1>1, <1>2 DEF IsLast

LEMMA LastComes ==
  ASSUME NEW t, NEW n \in Nat, NEW kinds, DOMAIN log'[t] = 1 .. n + 1, log'[t][n + 1].what \in kinds
  PROVE  n + 1 \in DOMAIN log'[t] /\ IsLast(t, n + 1, kinds)'
<1>1. \A j \in 1 .. n + 1 : ~(j > n + 1)
  OBVIOUS
<1> QED
  BY <1>1 DEF IsLast

\* Tenants whose row, checklist and log stay keep what they say.
LEMMA OthersTell ==
  ASSUME BoardInv, NEW t \in Tenant, reg'[t] = reg[t], done'[t] = done[t], log'[t] = log[t], now' \in Nat, now' >= now
  PROVE  LogOK(t)'
<1>1. LogOK(t) /\ now \in Nat /\ log[t] \in Seq(Happening)
  BY DEF BoardInv, BoardTypes
<1>2. ASSUME NEW i \in DOMAIN log[t], StampOK(t, i) PROVE StampOK(t, i)'
  <2>1. log[t][i] \in Happening
    BY <1>1
  <2>2. log[t][i].at \in Nat
    BY <2>1 DEF Happening
  <2> QED
    BY <1>1, <1>2, <2>2 DEF StampOK, Earlier
<1> QED
  BY <1>1, <1>2 DEF LogOK, StatusTold, PlanTold, StepsTold, IsLast

\* A change of a registered tenant, with its entry.
LEMMA ChangeTells ==
  ASSUME BoardParameters, BoardInv, NEW t \in Tenant, reg[t] # None,
         NEW e \in Happening, e.what # "registered", log' = [log EXCEPT ![t] = Append(@, e)],
         e.at <= now, e.since <= Len(log[t]), Earlier(t, e.since, e.at), now' = now + 1,
         reg' \in [Tenant -> Registration \cup {None}], DOMAIN done' = Tenant, reg'[t] # None,
         \A x \in Tenant \ {t} : reg'[x] = reg[x] /\ done'[x] = done[x],
         reg'[t].status = (IF e.what \in Board!OfStatus THEN Board!StatusAfter(e) ELSE reg[t].status),
         reg'[t].plan = (IF e.what \in Board!OfPlan THEN e.detail ELSE reg[t].plan),
         done[t] \subseteq done'[t], e.what = "step_completed" => e.detail \in done'[t] /\ e.detail \notin done[t],
         reg'[t].status = "active" => Verify \in done'[t] \/ reg[t].status = "active"
  PROVE  Tells
<1>0. now \in Nat /\ now' \in Nat /\ now' >= now /\ now < now'
  BY DEF BoardInv, BoardTypes
<1>a. Len(log[t]) \in Nat
  BY LogGrows
<1>b. PICK n \in Nat : n = Len(log[t])
  BY <1>a
<1>1. /\ log' \in [Tenant -> Seq(Happening)]
      /\ \A x \in Tenant : x # t => log'[x] = log[x]
      /\ n \in Nat /\ DOMAIN log[t] = 1 .. n /\ DOMAIN log'[t] = 1 .. n + 1 /\ Len(log'[t]) = n + 1
      /\ log'[t][n + 1] = e
      /\ \A i \in DOMAIN log[t] : log'[t][i] = log[t][i]
  BY <1>b, LogGrows
<1>2. LogOK(t)
  BY DEF BoardInv
<1>3. ASSUME NEW i \in 1 .. n + 1, i # n + 1 PROVE i \in DOMAIN log[t] /\ log'[t][i] = log[t][i]
  BY <1>1, <1>3
<1>4. \A i \in DOMAIN log'[t] : log'[t][i].what = "registered" <=> i = 1
  <2>1. \A i \in DOMAIN log[t] : log[t][i].what = "registered" <=> i = 1
    BY <1>2 DEF LogOK
  <2>2. 1 \in DOMAIN log[t]
    <3>1. PICK i \in DOMAIN log[t] : TRUE
      BY <1>2 DEF LogOK, StatusTold
    <3> QED
      BY <1>1, <3>1
  <2>3. ASSUME NEW i \in 1 .. n + 1 PROVE log'[t][i].what = "registered" <=> i = 1
    <3>1. CASE i = n + 1
      <4>1. i # 1
        BY <1>1, <2>2, <3>1
      <4> QED
        BY <1>1, <3>1, <4>1
    <3>2. CASE i # n + 1
      BY <1>3, <2>1, <3>2
    <3> QED
      BY <3>1, <3>2
  <2> QED
    BY <1>1, <2>3
<1>5. StatusTold(t)'
  <2>1. CASE e.what \in Board!OfStatus
    <3>1. n + 1 \in DOMAIN log'[t] /\ IsLast(t, n + 1, Board!OfStatus)'
      BY <1>1, <2>1, LastComes
    <3>2. reg'[t].status = Board!StatusAfter(log'[t][n + 1])
      BY <1>1, <2>1
    <3> QED
      BY <3>1, <3>2 DEF StatusTold, Board!StatusAfter
  <2>2. CASE e.what \notin Board!OfStatus
    <3>1. PICK i \in DOMAIN log[t] : IsLast(t, i, Board!OfStatus) /\ reg[t].status = Board!StatusAfter(log[t][i])
      BY <1>2 DEF LogOK, StatusTold
    <3>2. i \in DOMAIN log'[t] /\ log'[t][i] = log[t][i] /\ IsLast(t, i, Board!OfStatus)'
      BY <1>1, <2>2, <3>1, LastStays
    <3>3. reg'[t].status = Board!StatusAfter(log'[t][i])
      BY <2>2, <3>1, <3>2
    <3> QED
      BY <3>2, <3>3 DEF StatusTold, Board!StatusAfter
  <2> QED
    BY <2>1, <2>2
<1>6. PlanTold(t)'
  <2>1. CASE e.what \in Board!OfPlan
    <3>1. n + 1 \in DOMAIN log'[t] /\ IsLast(t, n + 1, Board!OfPlan)'
      BY <1>1, <2>1, LastComes
    <3> QED
      BY <1>1, <2>1, <3>1 DEF PlanTold
  <2>2. CASE e.what \notin Board!OfPlan
    <3>1. PICK i \in DOMAIN log[t] : IsLast(t, i, Board!OfPlan) /\ reg[t].plan = log[t][i].detail
      BY <1>2 DEF LogOK, PlanTold
    <3>2. i \in DOMAIN log'[t] /\ log'[t][i] = log[t][i] /\ IsLast(t, i, Board!OfPlan)'
      BY <1>1, <2>2, <3>1, LastStays
    <3> QED
      BY <2>2, <3>1, <3>2 DEF PlanTold
  <2> QED
    BY <2>1, <2>2
<1>7. StepsTold(t)'
  <2>1. StepsTold(t)
    BY <1>2 DEF LogOK
  <2>2. ASSUME NEW i \in 1 .. n + 1, log'[t][i].what = "step_completed" PROVE log'[t][i].detail \in done'[t]
    BY <1>1, <1>3, <2>1, <2>2 DEF StepsTold
  <2>3. ASSUME NEW i \in 1 .. n + 1, NEW j \in 1 .. n + 1, log'[t][i].what = "step_completed",
               log'[t][j].what = "step_completed", log'[t][j].detail = log'[t][i].detail
        PROVE  j = i
    <3>1. CASE i = n + 1 /\ j # n + 1
      BY <1>1, <1>3, <2>1, <2>3, <3>1 DEF StepsTold
    <3>2. CASE i # n + 1 /\ j = n + 1
      BY <1>1, <1>3, <2>1, <2>3, <3>2 DEF StepsTold
    <3>3. CASE i # n + 1 /\ j # n + 1
      BY <1>3, <2>1, <2>3, <3>3 DEF StepsTold
    <3> QED
      BY <3>1, <3>2, <3>3
  <2> QED
    BY <1>1, <2>2, <2>3 DEF StepsTold
<1>8. reg'[t].status = "active" => Verify \in done'[t]
  BY <1>2 DEF LogOK
<1>11. ASSUME NEW i \in DOMAIN log'[t] PROVE StampOK(t, i)'
  <2>1. ASSUME NEW k \in Nat, NEW at \in Nat, k <= n, Earlier(t, k, at) PROVE Earlier(t, k, at)'
    <3>1. ASSUME NEW j \in 1 .. n + 1, j <= k PROVE log'[t][j].at < at
      <4>1. j \in DOMAIN log[t] /\ log'[t][j] = log[t][j]
        BY <1>1, <2>1, <3>1
      <4> QED
        BY <2>1, <3>1, <4>1 DEF Earlier
    <3> QED
      BY <1>1, <3>1 DEF Earlier
  <2>2. CASE i = n + 1
    <3>1. e.at \in Nat /\ e.since \in Nat /\ e.since <= n /\ e.at < now'
      BY <1>0, <1>b DEF Happening
    <3>2. Earlier(t, e.since, e.at)'
      <4>1. PICK k \in Nat, at \in Nat : k = e.since /\ at = e.at
        BY <3>1
      <4>2. Earlier(t, k, at)'
        BY <2>1, <3>1, <4>1
      <4> QED
        BY <1>1, <4>1, <4>2 DEF Earlier
    <3>3. log'[t][i] = e
      BY <1>1, <2>2
    <3> QED
      BY <2>2, <3>1, <3>2, <3>3 DEF StampOK, Earlier
  <2>3. CASE i # n + 1
    <3>1. i \in DOMAIN log[t] /\ log'[t][i] = log[t][i] /\ i \in 1 .. n
      BY <1>1, <1>3, <2>3
    <3>2. StampOK(t, i)
      BY <1>2, <3>1 DEF LogOK
    <3>3. log[t][i] \in Happening
      BY <3>1 DEF BoardInv, BoardTypes
    <3>4. PICK k \in Nat, at \in Nat : k = log[t][i].since /\ at = log[t][i].at
      BY <3>3 DEF Happening
    <3>5. k < i /\ at < now /\ k <= n /\ Earlier(t, k, at)
      BY <3>1, <3>2, <3>4 DEF StampOK, Earlier
    <3>6. Earlier(t, k, at)'
      BY <2>1, <3>5
    <3>7. at < now'
      BY <1>0, <3>5
    <3> QED
      BY <3>1, <3>4, <3>5, <3>6, <3>7 DEF StampOK, Earlier
  <2> QED
    BY <2>2, <2>3
<1>9. LogOK(t)'
  BY <1>4, <1>5, <1>6, <1>7, <1>8, <1>11 DEF LogOK
<1>10. \A x \in Tenant \ {t} : LogOK(x)'
  BY <1>0, <1>1, OthersTell
<1>12. ASSUME NEW x \in Tenant
       PROVE  /\ Len(log'[x]) >= Len(log[x])
              /\ \A j \in DOMAIN log'[x] : j <= Len(log[x]) => log'[x][j] = log[x][j]
  <2>1. CASE x = t
    BY <1>1, <1>b, <2>1
  <2>2. CASE x # t
    <3>1. Len(log[x]) \in Nat
      BY DEF BoardInv, BoardTypes
    <3> QED
      BY <1>1, <2>2, <3>1
  <2> QED
    BY <2>1, <2>2
<1>13. \A x \in Tenant : reg[x] # None => reg'[x] # None
  OBVIOUS
<1> QED
  BY <1>0, <1>1, <1>9, <1>10, <1>12, <1>13 DEF Tells

\* A registration, with its entry, where there was nothing.
LEMMA RegistrationTells ==
  ASSUME BoardParameters, BoardInv, NEW t \in Tenant, reg[t] = None,
         NEW e \in Happening, e.what = "registered", e.detail \in Tier,
         e.at <= now, e.since <= Len(log[t]), now' = now + 1,
         reg' = [reg EXCEPT ![t] = [plan |-> e.detail, status |-> "pending"]], done' = [done EXCEPT ![t] = {}],
         log' = [log EXCEPT ![t] = Append(@, e)]
  PROVE  Tells
<1> DEFINE new == [plan |-> e.detail, status |-> "pending"]
<1>0. now \in Nat /\ now' \in Nat /\ now' >= now /\ now < now'
  BY DEF BoardInv, BoardTypes
<1>1. e.at \in Nat /\ e.since \in Nat
  BY DEF Happening
<1>2. new \in Registration /\ new.plan = e.detail /\ new.status = "pending"
  BY DEF Registration
<1>3. new # None
  BY <1>2 DEF BoardParameters
<1>4. log[t] = <<>> /\ Len(log[t]) = 0
  BY DEF BoardInv, LogOK
<1> HIDE DEF new
<1>5. /\ log' \in [Tenant -> Seq(Happening)]
      /\ \A x \in Tenant : x # t => log'[x] = log[x]
      /\ DOMAIN log'[t] = 1 .. Len(log[t]) + 1 /\ log'[t][Len(log[t]) + 1] = e
      /\ Len(log'[t]) = Len(log[t]) + 1
  BY LogGrows
<1>6. DOMAIN log'[t] = {1} /\ log'[t][1] = e /\ Len(log'[t]) = 1
  BY <1>4, <1>5
<1>7. /\ reg' \in [Tenant -> Registration \cup {None}] /\ reg'[t] = new
      /\ \A x \in Tenant \ {t} : reg'[x] = reg[x]
  BY <1>2 DEF BoardInv, BoardTypes, new
<1>8. DOMAIN done' = Tenant /\ \A x \in Tenant \ {t} : done'[x] = done[x]
  BY DEF BoardInv, BoardTypes
<1>9. LogOK(t)'
  <2>1. Board!StatusAfter(log'[t][1]) = "pending"
    BY <1>6 DEF Board!StatusAfter
  <2>2. IsLast(t, 1, Board!OfStatus)' /\ IsLast(t, 1, Board!OfPlan)'
    BY <1>6 DEF IsLast, Board!OfStatus, Board!OfPlan
  <2>3. StatusTold(t)'
    BY <1>2, <1>6, <1>7, <2>1, <2>2 DEF StatusTold, Board!StatusAfter, Board!OfStatus
  <2>4. PlanTold(t)'
    BY <1>2, <1>6, <1>7, <2>2 DEF PlanTold, Board!OfPlan
  <2>5. StepsTold(t)'
    BY <1>6 DEF StepsTold
  <2>6. StampOK(t, 1)'
    <3>1. e.since = 0 /\ e.at < now'
      BY <1>0, <1>1, <1>4
    <3> QED
      BY <1>6, <3>1 DEF StampOK, Earlier
  <2> QED
    BY <1>2, <1>3, <1>6, <1>7, <2>3, <2>4, <2>5, <2>6 DEF LogOK
<1>10. \A x \in Tenant \ {t} : LogOK(x)'
  BY <1>0, <1>5, <1>7, <1>8, OthersTell
<1>11. ASSUME NEW x \in Tenant
       PROVE  /\ Len(log'[x]) >= Len(log[x])
              /\ \A j \in DOMAIN log'[x] : j <= Len(log[x]) => log'[x][j] = log[x][j]
  <2>1. CASE x = t
    BY <1>4, <1>6, <2>1
  <2>2. CASE x # t
    <3>1. Len(log[x]) \in Nat
      BY DEF BoardInv, BoardTypes
    <3> QED
      BY <1>5, <2>2, <3>1
  <2> QED
    BY <2>1, <2>2
<1>12. \A x \in Tenant : reg[x] # None => reg'[x] # None
  BY <1>3, <1>7
<1> QED
  BY <1>0, <1>5, <1>7, <1>8, <1>9, <1>10, <1>11, <1>12 DEF Tells

\* A step that writes nothing, whatever the clock does.
LEMMA NothingTells ==
  ASSUME BoardInv, UNCHANGED <<reg, done, log>>, now' \in Nat, now' >= now
  PROVE  Tells
<1>1. reg' = reg /\ done' = done /\ log' = log
  OBVIOUS
<1>2. \A x \in Tenant : LogOK(x)'
  BY <1>1, OthersTell
<1>3. \A x \in Tenant : Len(log[x]) \in Nat
  BY DEF BoardInv, BoardTypes
<1> QED
  BY <1>1, <1>2, <1>3 DEF Tells, BoardInv, BoardTypes

\* What a process means to do stays good while logs grow.
LEMMA IntentsStay ==
  ASSUME BoardInv, Tells, NEW p \in Proc, op'[p] = op[p]
  PROVE  IntentOK(p)'
<1> SUFFICES ASSUME op[p] # Board!Free PROVE IntentOK(p)'
  BY DEF IntentOK, Board!Free
<1> DEFINE t == op[p].tenant
<1>1. /\ op[p] \in Intent /\ op[p].arg \in Board!Argument[op[p].what]
      /\ op[p].at <= now /\ op[p].since <= Len(log[t]) /\ Earlier(t, op[p].since, op[p].at)
      /\ op[p].what \in {"activate", "change"} /\ op[p].read => Board!Known(t)
  BY DEF BoardInv, IntentOK
<1>2. t \in Tenant /\ op[p].since \in Nat /\ op[p].at \in Nat /\ now \in Nat /\ now' \in Nat /\ now <= now'
  BY <1>1 DEF Intent, BoardInv, BoardTypes, Tells
<1>3. /\ log[t] \in Seq(Happening) /\ log'[t] \in Seq(Happening) /\ Len(log'[t]) >= Len(log[t])
      /\ \A j \in DOMAIN log'[t] : j <= Len(log[t]) => log'[t][j] = log[t][j]
  BY <1>2 DEF BoardInv, BoardTypes, Tells
<1> HIDE DEF t
<1>4. /\ Len(log[t]) \in Nat /\ Len(log'[t]) \in Nat
      /\ DOMAIN log[t] = 1 .. Len(log[t]) /\ DOMAIN log'[t] = 1 .. Len(log'[t])
  BY <1>3
<1>5. ASSUME NEW j \in DOMAIN log'[t], j <= op[p].since PROVE log'[t][j].at < op[p].at
  <2>1. j \in DOMAIN log[t] /\ log'[t][j] = log[t][j]
    BY <1>1, <1>2, <1>3, <1>4, <1>5
  <2> QED
    BY <1>1, <1>5, <2>1 DEF Earlier
<1>6. op[p].at <= now' /\ op[p].since <= Len(log'[t])
  BY <1>1, <1>2, <1>3, <1>4
<1>7. Board!Known(t) => reg'[t] # None
  BY <1>2 DEF Tells, Board!Known
<1> QED
  BY <1>1, <1>5, <1>6, <1>7 DEF IntentOK, Earlier, Board!Known, Board!Argument, t

\* The UPDATE of a registration's status, and of its plan.
LEMMA Updates ==
  ASSUME BoardParameters, BoardInv, NEW t \in Tenant, reg[t] # None
  PROVE  /\ \A s \in {"pending", "active", "suspended"} :
              LET r == [reg EXCEPT ![t].status = s] IN
              /\ r \in [Tenant -> Registration \cup {None}] /\ r[t] # None
              /\ r[t].status = s /\ r[t].plan = reg[t].plan /\ \A x \in Tenant \ {t} : r[x] = reg[x]
         /\ \A tier \in Tier :
              LET r == [reg EXCEPT ![t].plan = tier] IN
              /\ r \in [Tenant -> Registration \cup {None}] /\ r[t] # None
              /\ r[t].status = reg[t].status /\ r[t].plan = tier /\ \A x \in Tenant \ {t} : r[x] = reg[x]
<1>1. reg \in [Tenant -> Registration \cup {None}] /\ reg[t] \in Registration
  BY DEF BoardInv, BoardTypes
<1>2. ASSUME NEW s \in {"pending", "active", "suspended"}
      PROVE  LET r == [reg[t] EXCEPT !.status = s] IN
             r \in Registration /\ r.status = s /\ r.plan = reg[t].plan
  BY <1>1 DEF Registration
<1>3. ASSUME NEW tier \in Tier
      PROVE  LET r == [reg[t] EXCEPT !.plan = tier] IN
             r \in Registration /\ r.status = reg[t].status /\ r.plan = tier
  BY <1>1 DEF Registration
<1>4. ASSUME NEW r \in Registration
      PROVE  /\ [reg EXCEPT ![t] = r] \in [Tenant -> Registration \cup {None}] /\ r # None
             /\ [reg EXCEPT ![t] = r][t] = r /\ \A x \in Tenant \ {t} : [reg EXCEPT ![t] = r][x] = reg[x]
  BY <1>1 DEF BoardParameters
<1>5. ASSUME NEW s \in {"pending", "active", "suspended"}
      PROVE  LET r == [reg EXCEPT ![t].status = s] IN
             /\ r \in [Tenant -> Registration \cup {None}] /\ r[t] # None
             /\ r[t].status = s /\ r[t].plan = reg[t].plan /\ \A x \in Tenant \ {t} : r[x] = reg[x]
  <2>1. [reg EXCEPT ![t].status = s] = [reg EXCEPT ![t] = [reg[t] EXCEPT !.status = s]]
    OBVIOUS
  <2> QED
    BY <1>2, <1>4, <2>1
<1>6. ASSUME NEW tier \in Tier
      PROVE  LET r == [reg EXCEPT ![t].plan = tier] IN
             /\ r \in [Tenant -> Registration \cup {None}] /\ r[t] # None
             /\ r[t].status = reg[t].status /\ r[t].plan = tier /\ \A x \in Tenant \ {t} : r[x] = reg[x]
  <2>1. [reg EXCEPT ![t].plan = tier] = [reg EXCEPT ![t] = [reg[t] EXCEPT !.plan = tier]]
    OBVIOUS
  <2> QED
    BY <1>3, <1>4, <2>1
<1> QED
  BY <1>5, <1>6

\* The stamp of what a process means to do, as its entry has it.
StampFits(p, t) == op[p].at <= now /\ op[p].since <= Len(log[t]) /\ Earlier(t, op[p].since, op[p].at)

\* An entry is an event.
LEMMA EventsHappen ==
  ASSUME NEW p, NEW t, op[p] \in Intent, StampFits(p, t),
         NEW what \in {"registered", "activated", "plan_changed", "suspended", "step_completed"},
         NEW detail \in Detail, Board!Log(p, t, what, detail)
  PROVE  \E e \in Happening :
           /\ log' = [log EXCEPT ![t] = Append(@, e)] /\ e.what = what /\ e.detail = detail
           /\ e.at <= now /\ e.since <= Len(log[t]) /\ Earlier(t, e.since, e.at)
<1> DEFINE e == [what |-> what, detail |-> detail, at |-> op[p].at, since |-> op[p].since]
<1>1. e \in Happening
  BY DEF Intent, Happening
<1>2. e.what = what /\ e.detail = detail /\ e.at = op[p].at /\ e.since = op[p].since
  OBVIOUS
<1>3. log' = [log EXCEPT ![t] = Append(@, e)]
  BY DEF Board!Log
<1> HIDE DEF e
<1> QED
  BY <1>1, <1>2, <1>3 DEF StampFits, Earlier

\* What each write leaves of the log.
LEMMA InsertTells ==
  ASSUME BoardParameters, BoardInv, NEW t \in Tenant, NEW p, op[p] \in Intent, StampFits(p, t),
         op[p].arg \in Tier, now' = now + 1, Board!Insert(p, t)
  PROVE  Tells
<1>0. now' \in Nat /\ now' >= now
  BY DEF BoardInv, BoardTypes
<1>1. CASE Board!Known(t)
  BY <1>0, <1>1, NothingTells DEF Board!Insert
<1>2. CASE ~Board!Known(t)
  <2>1. PICK e \in Happening :
          /\ log' = [log EXCEPT ![t] = Append(@, e)] /\ e.what = "registered" /\ e.detail = op[p].arg
          /\ e.at <= now /\ e.since <= Len(log[t]) /\ Earlier(t, e.since, e.at)
    BY <1>2, EventsHappen DEF Board!Insert, Detail
  <2> QED
    BY <1>2, <2>1, RegistrationTells DEF Board!Insert, Board!Known
<1> QED
  BY <1>1, <1>2

LEMMA ActivationsTell ==
  ASSUME BoardParameters, BoardInv, NEW t \in Tenant, NEW p, op[p] \in Intent, StampFits(p, t),
         reg[t] # None, now' = now + 1, Board!Activate(p, t)
  PROVE  Tells
<1>1. PICK e \in Happening :
        /\ log' = [log EXCEPT ![t] = Append(@, e)] /\ e.what = "activated" /\ e.detail = None
        /\ e.at <= now /\ e.since <= Len(log[t]) /\ Earlier(t, e.since, e.at)
  BY EventsHappen DEF Board!Activate, Detail
<1>2. Board!StatusAfter(e) = "active" /\ e.what \in Board!OfStatus /\ e.what \notin Board!OfPlan
  BY <1>1 DEF Board!StatusAfter, Board!OfStatus, Board!OfPlan
<1>3. /\ reg' \in [Tenant -> Registration \cup {None}] /\ reg'[t] # None
      /\ reg'[t].status = "active" /\ reg'[t].plan = reg[t].plan /\ \A x \in Tenant \ {t} : reg'[x] = reg[x]
  BY Updates DEF Board!Activate
<1>4. /\ DOMAIN done' = Tenant /\ done[t] \subseteq done'[t] /\ Verify \in done'[t]
      /\ \A x \in Tenant \ {t} : done'[x] = done[x]
  BY DEF Board!Activate, BoardInv, BoardTypes
<1> QED
  BY <1>1, <1>2, <1>3, <1>4, ChangeTells

LEMMA PlanChangesTell ==
  ASSUME BoardParameters, BoardInv, NEW t \in Tenant, NEW p, op[p] \in Intent, StampFits(p, t),
         reg[t] # None, op[p].arg \in Tier, now' = now + 1, Board!ChangePlan(p, t)
  PROVE  Tells
<1>1. PICK e \in Happening :
        /\ log' = [log EXCEPT ![t] = Append(@, e)] /\ e.what = "plan_changed" /\ e.detail = op[p].arg
        /\ e.at <= now /\ e.since <= Len(log[t]) /\ Earlier(t, e.since, e.at)
  BY EventsHappen DEF Board!ChangePlan, Detail
<1>2. e.what \notin Board!OfStatus /\ e.what \in Board!OfPlan
  BY <1>1 DEF Board!OfStatus, Board!OfPlan
<1>3. /\ reg' \in [Tenant -> Registration \cup {None}] /\ reg'[t] # None
      /\ reg'[t].status = reg[t].status /\ reg'[t].plan = e.detail /\ \A x \in Tenant \ {t} : reg'[x] = reg[x]
  <2>1. PICK tier \in Tier : tier = op[p].arg
    OBVIOUS
  <2>2. reg' = [reg EXCEPT ![t].plan = tier]
    BY <2>1 DEF Board!ChangePlan
  <2>3. LET r == [reg EXCEPT ![t].plan = tier] IN
        /\ r \in [Tenant -> Registration \cup {None}] /\ r[t] # None
        /\ r[t].status = reg[t].status /\ r[t].plan = tier /\ \A x \in Tenant \ {t} : r[x] = reg[x]
    BY Updates, ZenonT(40)
  <2> QED
    BY <1>1, <2>1, <2>2, <2>3
<1>4. DOMAIN done' = Tenant /\ done' = done
  BY DEF Board!ChangePlan, BoardInv, BoardTypes
<1> QED
  BY <1>1, <1>2, <1>3, <1>4, ChangeTells

LEMMA SuspensionsTell ==
  ASSUME BoardParameters, BoardInv, NEW t \in Tenant, NEW p, op[p] \in Intent, StampFits(p, t),
         now' = now + 1, Board!Suspend(p, t)
  PROVE  Tells
<1>0. now' \in Nat /\ now' >= now
  BY DEF BoardInv, BoardTypes
<1>1. CASE ~Board!Known(t)
  BY <1>0, <1>1, NothingTells DEF Board!Suspend
<1>2. CASE Board!Known(t)
  <2>1. PICK e \in Happening :
          /\ log' = [log EXCEPT ![t] = Append(@, e)] /\ e.what = "suspended" /\ e.detail = None
          /\ e.at <= now /\ e.since <= Len(log[t]) /\ Earlier(t, e.since, e.at)
    BY <1>2, EventsHappen DEF Board!Suspend, Detail
  <2>2. Board!StatusAfter(e) = "suspended" /\ e.what \in Board!OfStatus /\ e.what \notin Board!OfPlan
    BY <2>1 DEF Board!StatusAfter, Board!OfStatus, Board!OfPlan
  <2>3. /\ reg' \in [Tenant -> Registration \cup {None}] /\ reg'[t] # None /\ reg[t] # None
        /\ reg'[t].status = "suspended" /\ reg'[t].plan = reg[t].plan /\ \A x \in Tenant \ {t} : reg'[x] = reg[x]
    <3>1. reg' = [reg EXCEPT ![t].status = "suspended"] /\ reg[t] # None
      BY <1>2 DEF Board!Suspend, Board!Known
    <3>2. LET r == [reg EXCEPT ![t].status = "suspended"] IN
          /\ r \in [Tenant -> Registration \cup {None}] /\ r[t] # None
          /\ r[t].status = "suspended" /\ r[t].plan = reg[t].plan /\ \A x \in Tenant \ {t} : r[x] = reg[x]
      BY <3>1, Updates
    <3> QED
      BY <3>1, <3>2
  <2>4. DOMAIN done' = Tenant /\ done' = done
    BY <1>2 DEF Board!Suspend, BoardInv, BoardTypes
  <2> QED
    BY <2>1, <2>2, <2>3, <2>4, ChangeTells
<1> QED
  BY <1>1, <1>2

LEMMA CompletionsTell ==
  ASSUME BoardParameters, BoardInv, NEW t \in Tenant, NEW p, op[p] \in Intent, StampFits(p, t),
         op[p].arg \in Step, now' = now + 1, Board!CompleteStep(p, t)
  PROVE  Tells
<1>0. now' \in Nat /\ now' >= now
  BY DEF BoardInv, BoardTypes
<1>1. CASE ~Board!Known(t) \/ op[p].arg \in done[t]
  BY <1>0, <1>1, NothingTells DEF Board!CompleteStep
<1>2. CASE ~(~Board!Known(t) \/ op[p].arg \in done[t])
  <2>1. PICK e \in Happening :
          /\ log' = [log EXCEPT ![t] = Append(@, e)] /\ e.what = "step_completed" /\ e.detail = op[p].arg
          /\ e.at <= now /\ e.since <= Len(log[t]) /\ Earlier(t, e.since, e.at)
    BY <1>2, EventsHappen DEF Board!CompleteStep, Detail
  <2>2. e.what \notin Board!OfStatus /\ e.what \notin Board!OfPlan
    BY <2>1 DEF Board!OfStatus, Board!OfPlan
  <2>3. reg' = reg /\ reg[t] # None /\ reg' \in [Tenant -> Registration \cup {None}] /\ reg'[t] # None
    BY <1>2 DEF Board!CompleteStep, Board!Known, BoardInv, BoardTypes
  <2>4. /\ DOMAIN done' = Tenant /\ done[t] \subseteq done'[t] /\ op[p].arg \in done'[t] /\ op[p].arg \notin done[t]
        /\ \A x \in Tenant \ {t} : done'[x] = done[x]
    BY <1>2 DEF Board!CompleteStep, BoardInv, BoardTypes
  <2> QED
    BY <2>1, <2>2, <2>3, <2>4, ChangeTells
<1> QED
  BY <1>1, <1>2

-----------------------------------------------------------------------------
\* A process draws its stamp.
LEMMA BeginsHold ==
  ASSUME BoardInv, NEW p \in Proc, NEW what \in DOMAIN Board!Argument, NEW t \in Tenant,
         NEW arg \in Board!Argument[what], Board!Begin(p, what, t, arg)
  PROVE  BoardInv'
<1> DEFINE j == [what |-> what, tenant |-> t, arg |-> arg, at |-> now, since |-> Len(log[t]),
                 read |-> what \in Board!Writers]
<1>1. op' = [op EXCEPT ![p] = j] /\ reg' = reg /\ done' = done /\ log' = log /\ now' \in {now, now + 1}
  BY DEF Board!Begin
<1>2. now \in Nat /\ now' \in Nat /\ now' >= now /\ now <= now' /\ Len(log[t]) \in Nat /\ log[t] \in Seq(Happening)
  BY <1>1 DEF BoardInv, BoardTypes
<1>3. Tells
  BY <1>1, <1>2, NothingTells
<1>4. what \in {"register", "activate", "change", "suspend", "complete"}
  BY DEF Board!Argument
<1>5. arg \in Detail
  <2>1. Board!Argument[what] \in {Tier, Step, {None}}
    BY <1>4 DEF Board!Argument
  <2> QED
    BY <2>1 DEF Detail
<1>6. j \in Intent
  BY <1>2, <1>4, <1>5 DEF Intent
<1>7. Earlier(t, Len(log[t]), now)
  <2>1. LogOK(t)
    BY DEF BoardInv
  <2>2. CASE reg[t] = None
    BY <2>1, <2>2 DEF LogOK, Earlier
  <2>3. CASE reg[t] # None
    BY <2>1, <2>3 DEF LogOK, StampOK, Earlier
  <2> QED
    BY <2>2, <2>3
<1>8. ASSUME NEW q \in Proc PROVE IntentOK(q)'
  <2>1. CASE q = p
    <3>1. PICK k \in Intent, n \in Nat, at \in Nat :
            /\ op'[q] = k /\ n = Len(log[t]) /\ at = now
            /\ k.what = what /\ k.tenant = t /\ k.arg = arg /\ k.at = at /\ k.since = n
            /\ (k.read <=> what \in Board!Writers)
      BY <1>1, <1>2, <1>6, <2>1 DEF BoardInv, BoardTypes
    <3>2. ~(what \in {"activate", "change"} /\ k.read)
      BY <3>1 DEF Board!Writers
    <3>3. n <= Len(log'[t]) /\ at <= now' /\ Earlier(t, n, at)'
      BY <1>1, <1>2, <1>7, <3>1 DEF Earlier
    <3> QED
      BY <3>1, <3>2, <3>3 DEF IntentOK, Earlier, Board!Argument
  <2>2. CASE q # p
    <3>1. op'[q] = op[q]
      BY <1>1, <2>2 DEF BoardInv, BoardTypes
    <3> QED
      BY <1>3, <3>1, IntentsStay
  <2> QED
    BY <2>1, <2>2
<1> QED
  BY <1>1, <1>3, <1>8 DEF BoardInv, BoardTypes, Tells

\* A process reads, and goes on or is done.
LEMMA SelectsHold ==
  ASSUME BoardInv, NEW p \in Proc, Board!Select(p)
  PROVE  BoardInv'
<1>1. reg' = reg /\ done' = done /\ log' = log /\ now' = now /\ op[p] # Board!Free /\ DOMAIN op' = Proc
  BY DEF Board!Select, BoardInv, BoardTypes
<1>2. now' \in Nat /\ now' >= now
  BY <1>1 DEF BoardInv, BoardTypes
<1>3. Tells
  BY <1>1, <1>2, NothingTells
<1>4. /\ op[p] \in Intent /\ op[p].arg \in Board!Argument[op[p].what] /\ StampFits(p, op[p].tenant)
  BY <1>1 DEF BoardInv, IntentOK, StampFits
<1>5. ASSUME NEW q \in Proc PROVE IntentOK(q)'
  <2>1. CASE q # p
    <3>1. op'[q] = op[q]
      BY <2>1 DEF Board!Select, BoardInv, BoardTypes
    <3> QED
      BY <1>3, <3>1, IntentsStay
  <2>2. CASE q = p /\ op'[q] = Board!Free
    BY <2>2 DEF IntentOK, Board!Free
  <2>3. CASE q = p /\ op'[q] # Board!Free
    <3>1. op'[q] = [op[p] EXCEPT !.read = TRUE] /\ (op[p].what \in {"activate", "change"} => Board!Known(op[p].tenant))
      BY <2>2, <2>3 DEF Board!Select, BoardInv, BoardTypes
    <3>2. /\ op'[q] \in Intent /\ op'[q].what = op[p].what /\ op'[q].tenant = op[p].tenant /\ op'[q].arg = op[p].arg
          /\ op'[q].at = op[p].at /\ op'[q].since = op[p].since
      BY <1>4, <3>1 DEF Intent
    <3> QED
      BY <1>1, <1>4, <3>1, <3>2 DEF IntentOK, StampFits, Earlier, Board!Known, Board!Argument
  <2> QED
    BY <2>1, <2>2, <2>3
<1> QED
  BY <1>1, <1>3, <1>5 DEF BoardInv, BoardTypes, Tells

\* A process writes, or fails to.
LEMMA WritesHold ==
  ASSUME BoardParameters, BoardInv, NEW p \in Proc, Board!Write(p)
  PROVE  BoardInv'
<1>1. op[p] # Board!Free /\ op[p].read /\ now' = now + 1 /\ op' = [op EXCEPT ![p] = Board!Free]
  BY DEF Board!Write, Board!Free
<1>2. /\ op[p] \in Intent /\ op[p].arg \in Board!Argument[op[p].what]
      /\ op[p].what \in {"activate", "change"} => Board!Known(op[p].tenant)
  BY <1>1 DEF BoardInv, IntentOK
<1>3. PICK t \in Tenant : t = op[p].tenant
  BY <1>2 DEF Intent
<1>4. StampFits(p, t)
  BY <1>1, <1>3 DEF BoardInv, IntentOK, StampFits
<1>5. /\ op[p].what \in {"register", "change"} => op[p].arg \in Tier
      /\ op[p].what = "complete" => op[p].arg \in Step
  BY <1>2 DEF Board!Argument
<1>6. Tells
  <2>1. CASE UNCHANGED <<reg, done, log>>
    <3>1. now' \in Nat /\ now' >= now
      BY <1>1 DEF BoardInv, BoardTypes
    <3> QED
      BY <2>1, <3>1, NothingTells
  <2>2. CASE ~UNCHANGED <<reg, done, log>>
    <3>1. /\ op[p].what = "register" => Board!Insert(p, t)
          /\ op[p].what = "activate" => Board!Activate(p, t)
          /\ op[p].what = "change"   => Board!ChangePlan(p, t)
          /\ op[p].what = "suspend"  => Board!Suspend(p, t)
          /\ op[p].what = "complete" => Board!CompleteStep(p, t)
      BY <1>3, <2>2 DEF Board!Write
    <3>2. op[p].what \in {"register", "activate", "change", "suspend", "complete"}
      BY <1>2 DEF Intent
    <3>3. CASE op[p].what = "register"
      BY <1>1, <1>2, <1>4, <1>5, <3>1, <3>3, InsertTells
    <3>4. CASE op[p].what = "activate"
      BY <1>1, <1>2, <1>3, <1>4, <3>1, <3>4, ActivationsTell DEF Board!Known
    <3>5. CASE op[p].what = "change"
      BY <1>1, <1>2, <1>3, <1>4, <1>5, <3>1, <3>5, PlanChangesTell DEF Board!Known
    <3>6. CASE op[p].what = "suspend"
      BY <1>1, <1>2, <1>4, <3>1, <3>6, SuspensionsTell
    <3>7. CASE op[p].what = "complete"
      BY <1>1, <1>2, <1>4, <1>5, <3>1, <3>7, CompletionsTell
    <3> QED
      BY <3>2, <3>3, <3>4, <3>5, <3>6, <3>7
  <2> QED
    BY <2>1, <2>2
<1>7. ASSUME NEW q \in Proc PROVE IntentOK(q)'
  <2>1. CASE q = p
    <3>1. op'[q] = Board!Free
      BY <1>1, <2>1 DEF BoardInv, BoardTypes
    <3> QED
      BY <3>1 DEF IntentOK, Board!Free
  <2>2. CASE q # p
    <3>1. op'[q] = op[q]
      BY <1>1, <2>2 DEF BoardInv, BoardTypes
    <3> QED
      BY <1>6, <3>1, IntentsStay
  <2> QED
    BY <2>1, <2>2
<1> QED
  BY <1>1, <1>6, <1>7 DEF BoardInv, BoardTypes, Tells

LEMMA BoardInitHolds ==
  ASSUME BoardParameters, Board!Init PROVE BoardInv
<1>1. \A t \in Tenant : reg[t] = None /\ done[t] = None /\ log[t] = <<>>
  BY DEF Board!Init
<1>2. <<>> \in Seq(Happening)
  OBVIOUS
<1>3. BoardTypes
  BY <1>1, <1>2 DEF Board!Init, BoardTypes
<1> QED
  BY <1>1, <1>3 DEF BoardInv, LogOK, IntentOK, Board!Init

LEMMA BoardStepHolds ==
  ASSUME BoardParameters, BoardInv, [Board!Next]_Board!vars PROVE BoardInv'
<1>1. CASE Board!Next
  BY <1>1, SelectsHold, WritesHold, BeginsHold DEF Board!Next
<1>2. CASE UNCHANGED Board!vars
  <2>1. reg' = reg /\ done' = done /\ log' = log /\ op' = op /\ now' = now
    BY <1>2 DEF Board!vars
  <2>2. now' \in Nat /\ now' >= now
    BY <2>1 DEF BoardInv, BoardTypes
  <2>3. Tells
    BY <2>1, <2>2, NothingTells
  <2>4. \A q \in Proc : IntentOK(q)'
    BY <2>1, <2>3, IntentsStay
  <2> QED
    BY <2>1, <2>3, <2>4 DEF BoardInv, BoardTypes, Tells
<1> QED
  BY <1>1, <1>2

-----------------------------------------------------------------------------
\* An entry with an earlier stamp is not on every page that the other is on.
LEMMA PagesTell ==
  ASSUME BoardInv, NEW t \in Tenant, NEW i \in DOMAIN log[t], NEW j \in DOMAIN log[t], log[t][j].at < log[t][i].at
  PROVE  \E limit \in 1 .. Len(log[t]) : i \in Board!GetEvents(t, limit) /\ j \notin Board!GetEvents(t, limit)
<1> DEFINE after(k) == {h \in DOMAIN log[t] : log[t][h].at > log[t][k].at}
<1>1. log[t] \in Seq(Happening)
  BY DEF BoardInv, BoardTypes
<1>2. PICK n \in Nat : n = Len(log[t]) /\ DOMAIN log[t] = 1 .. n
  BY <1>1
<1>3. \A h \in DOMAIN log[t] : log[t][h].at \in Nat
  <2>1. \A h \in DOMAIN log[t] : log[t][h] \in Happening
    BY <1>1
  <2> QED
    BY <2>1 DEF Happening
<1>4. IsFiniteSet(1 .. n) /\ Cardinality(1 .. n) = n
  BY FS_Interval
<1>5. after(i) \subseteq (1 .. n) \ {i} /\ after(i) \subseteq after(j) \ {i} /\ i \in after(j) /\ after(j) \subseteq 1 .. n
  BY <1>2, <1>3
<1>6. IsFiniteSet(after(j)) /\ IsFiniteSet(after(i)) /\ IsFiniteSet(after(j) \ {i}) /\ IsFiniteSet((1 .. n) \ {i})
  BY <1>4, <1>5, FS_Subset
<1>7. /\ Cardinality(after(i)) <= Cardinality((1 .. n) \ {i}) /\ Cardinality((1 .. n) \ {i}) = n - 1
      /\ Cardinality(after(i)) <= Cardinality(after(j) \ {i}) /\ Cardinality(after(j) \ {i}) = Cardinality(after(j)) - 1
      /\ Cardinality(after(i)) \in Nat /\ Cardinality(after(j)) \in Nat
  BY <1>2, <1>4, <1>5, <1>6, FS_Subset, FS_RemoveElement, FS_CardinalityType
<1>8. PICK c \in Nat, d \in Nat : c = Cardinality(after(i)) /\ d = Cardinality(after(j)) /\ c <= n - 1 /\ c <= d - 1
  BY <1>7
<1>9. \A k \in DOMAIN log[t] : \A limit : k \in Board!GetEvents(t, limit) <=> Cardinality(after(k)) < limit
  BY DEF Board!GetEvents, Board!Cardinality, Cardinality
<1> HIDE DEF after
<1>10. c + 1 \in 1 .. Len(log[t]) /\ c < c + 1 /\ ~(d < c + 1)
  BY <1>2, <1>8
<1> QED
  BY <1>8, <1>9, <1>10

LEMMA LastIsWrittenLast ==
  ASSUME BoardInv, NEW t \in Tenant, reg[t] # None, NEW kinds, NEW i \in DOMAIN log[t], IsLast(t, i, kinds)
  PROVE  Board!WrittenLast(t, i, kinds)
<1>1. DOMAIN log[t] \subseteq Nat /\ log[t][i].since \in Nat
  <2>1. log[t] \in Seq(Happening)
    BY DEF BoardInv, BoardTypes
  <2>2. log[t][i] \in Happening /\ DOMAIN log[t] = 1 .. Len(log[t]) /\ Len(log[t]) \in Nat
    BY <2>1
  <2> QED
    BY <2>2 DEF Happening
<1>2. i \in Board!Events(t, kinds)
  BY DEF IsLast, Board!Events
<1>3. ASSUME NEW j \in Board!Events(t, kinds) PROVE j \in DOMAIN log[t] /\ j <= i
  BY <1>1, <1>3 DEF IsLast, Board!Events
<1>4. ASSUME NEW j \in Board!Events(t, kinds),
             \A limit \in 1 .. Len(log[t]) : i \in Board!GetEvents(t, limit) => j \in Board!GetEvents(t, limit)
      PROVE  j > log[t][i].since
  <2> SUFFICES ASSUME j <= log[t][i].since PROVE FALSE
    BY <1>1, <1>3
  <2>1. j \in DOMAIN log[t]
    BY <1>3
  <2>2. log[t][j].at < log[t][i].at
    BY <2>1 DEF BoardInv, LogOK, StampOK, Earlier
  <2> QED
    BY <1>4, <2>1, <2>2, PagesTell
<1> QED
  BY <1>2, <1>3, <1>4 DEF Board!WrittenLast

LEMMA BoardFollows ==
  ASSUME BoardParameters, BoardInv PROVE Board!LogTellsTheState
<1> SUFFICES ASSUME NEW t \in Tenant
             PROVE  IF Board!Known(t)
                    THEN /\ Board!Events(t, {"registered"}) = {1}
                         /\ \E i \in DOMAIN log[t] :
                              Board!WrittenLast(t, i, Board!OfStatus) /\ reg[t].status = Board!StatusAfter(log[t][i])
                         /\ \E i \in DOMAIN log[t] :
                              Board!WrittenLast(t, i, Board!OfPlan) /\ reg[t].plan = log[t][i].detail
                         /\ \A i \in Board!Events(t, {"step_completed"}) :
                              /\ log[t][i].detail \notin Board!Remaining(t)
                              /\ \A j \in Board!Events(t, {"step_completed"}) :
                                   log[t][i].detail = log[t][j].detail => i = j
                         /\ reg[t].status = "active" => Verify \notin Board!Remaining(t)
                    ELSE log[t] = <<>> /\ done[t] = None
  BY DEF Board!LogTellsTheState
<1>1. LogOK(t)
  BY DEF BoardInv
<1>2. CASE ~Board!Known(t)
  BY <1>1, <1>2 DEF LogOK, Board!Known
<1>3. CASE Board!Known(t)
  <2>1. /\ \A i \in DOMAIN log[t] : log[t][i].what = "registered" <=> i = 1
        /\ StatusTold(t) /\ PlanTold(t) /\ StepsTold(t)
        /\ reg[t].status = "active" => Verify \in done[t]
        /\ reg[t] # None
    BY <1>1, <1>3 DEF LogOK, Board!Known
  <2>2. \A s : s \in done[t] => s \notin Board!Remaining(t)
    BY DEF Board!Remaining, Board!GetChecklist
  <2>3. \E i \in DOMAIN log[t] : Board!WrittenLast(t, i, Board!OfStatus) /\ reg[t].status = Board!StatusAfter(log[t][i])
    BY <2>1, LastIsWrittenLast DEF StatusTold
  <2>4. \E i \in DOMAIN log[t] : Board!WrittenLast(t, i, Board!OfPlan) /\ reg[t].plan = log[t][i].detail
    BY <2>1, LastIsWrittenLast DEF PlanTold
  <2>5. Board!Events(t, {"registered"}) = {1}
    <3>1. 1 \in DOMAIN log[t]
      <4>1. PICK i \in DOMAIN log[t] : TRUE
        BY <2>1 DEF StatusTold
      <4>2. log[t] \in Seq(Happening)
        BY DEF BoardInv, BoardTypes
      <4> QED
        BY <4>1, <4>2
    <3> QED
      BY <2>1, <3>1 DEF Board!Events
  <2>6. ASSUME NEW i \in Board!Events(t, {"step_completed"})
        PROVE  /\ log[t][i].detail \notin Board!Remaining(t)
               /\ \A j \in Board!Events(t, {"step_completed"}) : log[t][i].detail = log[t][j].detail => i = j
    BY <2>1, <2>2 DEF StepsTold, Board!Events
  <2>7. reg[t].status = "active" => Verify \notin Board!Remaining(t)
    BY <2>1, <2>2
  <2> QED
    BY <1>3, <2>3, <2>4, <2>5, <2>6, <2>7
<1> QED
  BY <1>2, <1>3

\* However requests in several processes interleave, the log of a tenant tells its state
\* (Onboarding's LogTellsTheState): one registration, first; the rows written last are the
\* status and the plan, and get_events shows before them only rows of methods they
\* overlapped; a step is completed once at most.
THEOREM LogStaysTrue ==
  ASSUME BoardParameters
  PROVE  PartSpec => []LogTellsTheState
<1>1. ASSUME BoardInv, [Board!Next]_Board!vars PROVE BoardInv'
  BY <1>1, BoardStepHolds
<1>2. BoardInv => Board!LogTellsTheState
  BY BoardFollows
<1>4. PartInit => LiveBoardInv
  BY BoardInitHolds, LiveStarts DEF LiveBoardInv
<1>5. LiveBoardInv /\ [PartNext]_partVars => LiveBoardInv'
  BY <1>1, LiveSteps DEF LiveBoardInv
<1>6. LiveBoardInv => LogTellsTheState
  BY <1>2 DEF LiveBoardInv, LogTellsTheState
<1> QED
  BY <1>4, <1>5, <1>6, PTL DEF PartSpec

-----------------------------------------------------------------------------
(* Collections *)

Added    == [coll : Coll, at : Nat]
Change == [what : {"create", "add"}, id : Coll \cup Item, coll : Coll, at : Nat]

\* No time and no row is None.
WishParameters == None \notin Nat /\ None \notin Added

Known(c) == Wish!Exists(c) \/ c \in gone

WishTypes ==
  /\ now \in Nat
  /\ collections \in [Coll -> Nat \cup {None}]
  /\ items \in [Item -> Added \cup {None}]
  /\ DOMAIN op = Proc
  /\ \A p \in Proc : op[p] = Wish!Idle \/ op[p] \in Change

\* Nothing is stamped with a time to come.
NothingAhead ==
  /\ \A c \in Coll : Wish!Exists(c) => collections[c] <= now
  /\ \A i \in Item : items[i] # None => items[i].at <= now
  /\ \A p \in Proc : op[p] \in Change => op[p].at <= now

\* What is or was there had its id drawn, and items are of collections that are or were.
IdsDrawn ==
  /\ \A c \in Coll : Known(c) => c \in drawn
  /\ orphans \subseteq drawn
  /\ \A i \in Item : items[i] # None => Known(items[i].coll)

\* A change under way has an id of its own, of a collection not made yet or of an item of
\* one that is or was; alone on its collection it is later than what is in it.
ChangeOK(p) ==
  op[p] \in Change =>
    /\ op[p].id \in drawn /\ op[p].id \notin orphans
    /\ op[p].what = "create" => op[p].id = op[p].coll /\ ~Known(op[p].coll)
    /\ op[p].what = "add" =>
         /\ op[p].id \in Item /\ Known(op[p].coll)
         /\ op[p].coll \notin crossed => \A i \in Wish!In(op[p].coll) : items[i].at <= op[p].at
    /\ \A q \in Proc \ {p} :
         op[q] \in Change => /\ op[q].id # op[p].id
                             /\ op[q].coll = op[p].coll => op[p].coll \in crossed

ItemOK(i) ==
  items[i] # None =>
    /\ i \in orphans <=> ~Wish!Exists(items[i].coll)
    /\ Wish!Exists(items[i].coll) /\ items[i].coll \notin crossed =>
         items[i].at <= collections[items[i].coll]

WishInv ==
  /\ WishTypes /\ NothingAhead /\ IdsDrawn
  /\ \A p \in Proc : ChangeOK(p)
  /\ \A i \in Item : ItemOK(i)

LiveWishInv == live = "wish" => WishInv

-----------------------------------------------------------------------------
LEMMA WishInitHolds == Wish!Init => WishInv
<1> SUFFICES ASSUME Wish!Init PROVE WishInv
  OBVIOUS
<1>1. \A p \in Proc : op[p] = Wish!Idle /\ op[p] \notin Change
  BY DEF Wish!Init, Wish!Idle, Change
<1>2. \A c \in Coll : ~Wish!Exists(c) /\ ~Known(c)
  BY DEF Wish!Init, Wish!Exists, Known
<1>3. \A i \in Item : items[i] = None
  BY DEF Wish!Init
<1>4. WishTypes
  BY <1>1 DEF Wish!Init, WishTypes
<1>5. NothingAhead /\ IdsDrawn
  BY <1>1, <1>2, <1>3 DEF Wish!Init, NothingAhead, IdsDrawn
<1> QED
  BY <1>1, <1>3, <1>4, <1>5 DEF WishInv, ChangeOK, ItemOK

LEMMA WishTickHolds ==
  ASSUME WishInv, Wish!Tick
  PROVE  WishInv'
<1>1. now' = now + 1 /\ now \in Nat /\ UNCHANGED <<collections, items, op, drawn, gone, orphans, crossed>>
  BY DEF Wish!Tick, WishInv, WishTypes
<1>2. WishTypes'
  BY <1>1 DEF WishInv, WishTypes
<1>3. NothingAhead'
  <2>1. \A c \in Coll : Wish!Exists(c) => collections[c] \in Nat
    BY DEF WishInv, WishTypes, Wish!Exists
  <2>2. \A i \in Item : items[i] # None => items[i].at \in Nat
    BY DEF WishInv, WishTypes, Added
  <2>3. \A p \in Proc : op[p] \in Change => op[p].at \in Nat
    BY DEF Change
  <2> QED
    BY <1>1, <2>1, <2>2, <2>3 DEF WishInv, NothingAhead, Wish!Exists
<1>4. IdsDrawn'
  BY <1>1 DEF WishInv, IdsDrawn, Known, Wish!Exists
<1>5. \A p \in Proc : ChangeOK(p)'
  BY <1>1 DEF WishInv, ChangeOK, Known, Wish!Exists, Wish!In
<1>6. \A i \in Item : ItemOK(i)'
  BY <1>1 DEF WishInv, ItemOK, Wish!Exists
<1> QED
  BY <1>2, <1>3, <1>4, <1>5, <1>6 DEF WishInv

\* A change that ends, committed or not, leaves the others as they were.
LEMMA OthersChange ==
  ASSUME WishInv, NEW p \in Proc, op' = [op EXCEPT ![p] = Wish!Idle]
  PROVE  /\ DOMAIN op' = Proc
         /\ \A q \in Proc : op'[q] = Wish!Idle \/ op'[q] \in Change
         /\ \A q \in Proc : op'[q] \in Change => op'[q] = op[q] /\ q # p
<1>1. Wish!Idle \notin Change
  BY DEF Wish!Idle, Change
<1> QED
  BY <1>1 DEF WishInv, WishTypes

LEMMA WishFailHolds ==
  ASSUME WishInv, NEW p \in Proc, Wish!Fail(p)
  PROVE  WishInv'
<1>1. /\ op' = [op EXCEPT ![p] = Wish!Idle]
      /\ UNCHANGED <<collections, items, now, drawn, gone, orphans, crossed>>
  BY DEF Wish!Fail
<1>2. WishTypes'
  BY <1>1, OthersChange DEF WishInv, WishTypes
<1>3. NothingAhead'
  BY <1>1, OthersChange DEF WishInv, NothingAhead, Wish!Exists
<1>4. IdsDrawn'
  BY <1>1 DEF WishInv, IdsDrawn, Known, Wish!Exists
<1>5. ASSUME NEW q \in Proc PROVE ChangeOK(q)'
  <2>1. ChangeOK(q) /\ \A r \in Proc : op'[r] \in Change => op'[r] = op[r]
    BY <1>1, OthersChange DEF WishInv
  <2>2. \A k \in Coll : (Known(k)' <=> Known(k)) /\ Wish!In(k)' = Wish!In(k)
    BY <1>1 DEF Known, Wish!Exists, Wish!In
  <2>3. op[q] \in Change => op[q].coll \in Coll
    BY DEF Change
  <2> QED
    BY <1>1, <2>1, <2>2, <2>3 DEF ChangeOK
<1>6. \A i \in Item : ItemOK(i)'
  BY <1>1 DEF WishInv, ItemOK, Wish!Exists
<1> QED
  BY <1>2, <1>3, <1>4, <1>5, <1>6 DEF WishInv

\* An id is drawn for a change: it is no other change's, and of nothing that is there.
LEMMA WishStampHolds ==
  ASSUME WishInv, NEW p \in Proc, NEW c \in Coll, NEW what \in {"create", "add"}, NEW id \in Coll \cup Item,
         what = "create" => id = c, what = "add" => id \in Item, Wish!Stamp(p, what, id, c)
  PROVE  WishInv'
<1> DEFINE job == [what |-> what, id |-> id, coll |-> c, at |-> now]
<1>1. /\ op[p] = Wish!Idle /\ id \notin drawn /\ (what = "add" => Known(c))
      /\ crossed' = crossed \cup {op[q].coll : q \in {r \in Proc : op[r] # Wish!Idle /\ op[r].coll = c}}
      /\ drawn' = drawn \cup {id} /\ op' = [op EXCEPT ![p] = job]
      /\ UNCHANGED <<collections, items, now, gone, orphans>>
  BY DEF Wish!Stamp, Known
<1>2. now \in Nat /\ job \in Change /\ Wish!Idle \notin Change
  BY DEF WishInv, WishTypes, Change, Wish!Idle
<1>3. crossed \subseteq crossed' /\ \A q \in Proc : op[q] \in Change /\ op[q].coll = c => c \in crossed'
  <2>1. crossed \subseteq crossed'
    BY <1>1
  <2>2. ASSUME NEW q \in Proc, op[q] \in Change, op[q].coll = c PROVE c \in crossed'
    <3>1. q \in {r \in Proc : op[r] # Wish!Idle /\ op[r].coll = c}
      BY <1>2, <2>2
    <3>2. op[q].coll \in crossed'
      BY <1>1, <3>1
    <3> QED
      BY <2>2, <3>2
  <2> QED
    BY <2>1, <2>2
<1>4. DOMAIN op' = Proc /\ \A q \in Proc : op'[q] = IF q = p THEN job ELSE op[q]
  BY <1>1 DEF WishInv, WishTypes
<1> HIDE DEF job
<1>5. WishTypes'
  BY <1>1, <1>2, <1>4 DEF WishInv, WishTypes
<1>6. job.at = now /\ job.id = id /\ job.what = what /\ job.coll = c
  BY DEF job
<1>7. NothingAhead'
  <2>1. now <= now
    BY <1>2
  <2> QED
    BY <1>1, <1>4, <1>6, <2>1 DEF WishInv, NothingAhead, Wish!Exists
<1>8. IdsDrawn'
  BY <1>1 DEF WishInv, IdsDrawn, Known, Wish!Exists
<1>9. \A k \in Coll : Known(k)' <=> Known(k)
  BY <1>1 DEF Known, Wish!Exists
<1>10. \A k \in Coll : Wish!In(k)' = Wish!In(k)
  BY <1>1 DEF Wish!In
<1>11. ChangeOK(p)'
  <2>1. id \in drawn' /\ id \notin orphans'
    BY <1>1 DEF WishInv, IdsDrawn
  <2>2. what = "create" => ~Known(c)'
    BY <1>1, <1>9 DEF WishInv, IdsDrawn
  <2>3. \A i \in Wish!In(c)' : items'[i].at <= now
    BY <1>1, <1>10 DEF WishInv, NothingAhead, Wish!In
  <2>4. \A q \in Proc \ {p} : op[q] \in Change => op[q].id # id
    BY <1>1 DEF WishInv, ChangeOK
  <2> QED
    BY <1>1, <1>3, <1>4, <1>6, <1>9, <2>1, <2>2, <2>3, <2>4 DEF ChangeOK
<1>12. ASSUME NEW q \in Proc \ {p} PROVE ChangeOK(q)'
  <2> SUFFICES ASSUME op[q] \in Change PROVE ChangeOK(q)'
    BY <1>4 DEF ChangeOK
  <2>1. ChangeOK(q) /\ op'[q] = op[q] /\ op[q].coll \in Coll
    BY <1>4 DEF WishInv, Change
  <2>2. op[q].id \in drawn' /\ op[q].id \notin orphans' /\ op[q].id # id
    BY <1>1, <2>1 DEF ChangeOK
  <2>3. ASSUME NEW r \in Proc \ {q}, op'[r] \in Change
        PROVE  op'[r].id # op[q].id /\ (op'[r].coll = op[q].coll => op[q].coll \in crossed')
    <3>1. CASE r = p
      BY <1>3, <1>4, <1>6, <2>2, <3>1
    <3>2. CASE r # p
      BY <1>3, <1>4, <2>1, <2>3, <3>2 DEF ChangeOK
    <3> QED
      BY <3>1, <3>2
  <2>4. op[q].what = "add" =>
          /\ op[q].id \in Item /\ Known(op[q].coll)'
          /\ op[q].coll \notin crossed' => \A i \in Wish!In(op[q].coll)' : items'[i].at <= op[q].at
    BY <1>1, <1>3, <1>9, <1>10, <2>1 DEF ChangeOK
  <2>5. op[q].what = "create" => op[q].id = op[q].coll /\ ~Known(op[q].coll)'
    BY <1>9, <2>1 DEF ChangeOK
  <2> QED
    BY <2>1, <2>2, <2>3, <2>4, <2>5 DEF ChangeOK
<1>13. \A i \in Item : ItemOK(i)'
  BY <1>1, <1>3 DEF WishInv, ItemOK, Wish!Exists
<1> QED
  BY <1>5, <1>7, <1>8, <1>11, <1>12, <1>13 DEF WishInv

\* A collection is made where there was none, and nothing is in it.
LEMMA WishCreateHolds ==
  ASSUME WishParameters, WishInv, NEW p \in Proc, Wish!CreateCollection(p)
  PROVE  WishInv'
<1> DEFINE c == op[p].coll
           t == op[p].at
<1>1. op[p] \in Change /\ op[p].what = "create" /\ ChangeOK(p)
  BY DEF Wish!CreateCollection, WishInv, WishTypes, Wish!Idle
<1>2. c \in Coll /\ t \in Nat /\ t <= now /\ c = op[p].id /\ ~Known(c) /\ c \in drawn
  BY <1>1 DEF WishInv, Change, ChangeOK, NothingAhead
<1>3. /\ collections' = [collections EXCEPT ![c] = t] /\ op' = [op EXCEPT ![p] = Wish!Idle]
      /\ UNCHANGED <<items, now, drawn, gone, orphans, crossed>>
  BY <1>2 DEF Wish!CreateCollection
<1>4. \A k \in Coll : collections'[k] = IF k = c THEN t ELSE collections[k]
  BY <1>3 DEF WishInv, WishTypes
<1> HIDE DEF c, t
<1>5. t # None
  BY <1>2 DEF WishParameters
<1>6. \A k \in Coll : /\ k # c => (Wish!Exists(k)' <=> Wish!Exists(k)) /\ (Known(k)' <=> Known(k))
                      /\ Known(k) => Known(k)'
  BY <1>3, <1>4, <1>5 DEF Wish!Exists, Known
<1>7. \A i \in Item : items[i] # None => items[i].coll \in Coll /\ items[i].coll # c
  BY <1>2 DEF WishInv, WishTypes, Added, IdsDrawn
<1>8. WishTypes'
  <2>1. collections' \in [Coll -> Nat \cup {None}]
    BY <1>2, <1>3 DEF WishInv, WishTypes
  <2> QED
    BY <1>3, <2>1, OthersChange DEF WishInv, WishTypes
<1>9. NothingAhead'
  <2>1. \A k \in Coll : Wish!Exists(k)' => collections'[k] <= now
    BY <1>2, <1>4, <1>6 DEF WishInv, NothingAhead
  <2> QED
    BY <1>3, <2>1, OthersChange DEF WishInv, NothingAhead
<1>10. IdsDrawn'
  BY <1>2, <1>3, <1>6, <1>7 DEF WishInv, IdsDrawn
<1>11. ASSUME NEW q \in Proc PROVE ChangeOK(q)'
  <2>1. ChangeOK(q) /\ \A r \in Proc : op'[r] \in Change => op'[r] = op[r] /\ r # p
    BY <1>3, OthersChange DEF WishInv
  <2>2. SUFFICES ASSUME op'[q] \in Change PROVE ChangeOK(q)'
    BY DEF ChangeOK
  <2>3. op[q] \in Change /\ op'[q] = op[q] /\ q # p /\ op[q].coll \in Coll
    BY <2>1, <2>2 DEF Change
  <2>4. op[q].coll # c
    BY <1>1, <1>2, <2>1, <2>3 DEF ChangeOK, Change
  <2>5. /\ Known(op[q].coll)' <=> Known(op[q].coll)
        /\ Wish!In(op[q].coll)' = Wish!In(op[q].coll)
    BY <1>3, <1>6, <2>3, <2>4 DEF Wish!In
  <2> QED
    BY <1>3, <2>1, <2>3, <2>5 DEF ChangeOK
<1>12. \A i \in Item : ItemOK(i)'
  BY <1>3, <1>4, <1>6, <1>7 DEF WishInv, ItemOK
<1> QED
  BY <1>8, <1>9, <1>10, <1>11, <1>12 DEF WishInv

\* Touching a collection changes its time alone.
LEMMA TouchedOnly ==
  ASSUME WishParameters, WishInv, NEW c \in Coll, NEW t \in Nat, collections' = Wish!Touched(c, t), gone' = gone
  PROVE  /\ collections' \in [Coll -> Nat \cup {None}]
         /\ \A k \in Coll : /\ Wish!Exists(k)' <=> Wish!Exists(k)
                            /\ Known(k)' <=> Known(k)
                            /\ k # c => collections'[k] = collections[k]
         /\ Wish!Exists(c) => collections'[c] = t
<1>1. t # None
  BY DEF WishParameters
<1> QED
  BY <1>1 DEF WishInv, WishTypes, Wish!Touched, Wish!Exists, Known

LEMMA WishAddHolds ==
  ASSUME WishParameters, WishInv, NEW p \in Proc, Wish!AddItem(p)
  PROVE  WishInv'
<1> DEFINE c == op[p].coll
           t == op[p].at
           n == op[p].id
           new == [coll |-> c, at |-> t]
<1>1. op[p] \in Change /\ op[p].what = "add" /\ ChangeOK(p)
  BY DEF Wish!AddItem, WishInv, WishTypes, Wish!Idle
<1>2. c \in Coll /\ t \in Nat /\ t <= now /\ n \in Item /\ n \in drawn /\ n \notin orphans /\ Known(c)
  BY <1>1 DEF WishInv, Change, ChangeOK, NothingAhead
<1>3. /\ items' = [items EXCEPT ![n] = new] /\ collections' = Wish!Touched(c, t)
      /\ orphans' = (IF Wish!Exists(c) THEN orphans ELSE orphans \cup {n})
      /\ op' = [op EXCEPT ![p] = Wish!Idle] /\ UNCHANGED <<now, drawn, gone, crossed>>
  BY DEF Wish!AddItem
<1>4. new \in Added /\ new # None /\ new.coll = c /\ new.at = t
  BY <1>2 DEF Added, WishParameters
<1>5. \A i \in Item : items'[i] = IF i = n THEN new ELSE items[i]
  BY <1>3 DEF WishInv, WishTypes
<1>6. c \notin crossed => /\ \A i \in Wish!In(c) : items[i].at <= t
                          /\ \A q \in Proc \ {p} : op[q] \in Change => op[q].coll # c
  BY <1>1 DEF ChangeOK
<1>7. \A q \in Proc \ {p} : op[q] \in Change => op[q].id # n
  BY <1>1 DEF ChangeOK
<1> HIDE DEF c, t, n, new
<1>8. /\ collections' \in [Coll -> Nat \cup {None}]
      /\ \A k \in Coll : /\ Wish!Exists(k)' <=> Wish!Exists(k)
                         /\ Known(k)' <=> Known(k)
                         /\ k # c => collections'[k] = collections[k]
      /\ Wish!Exists(c) => collections'[c] = t
  BY <1>2, <1>3, TouchedOnly
<1>9. WishTypes'
  <2>1. items' \in [Item -> Added \cup {None}]
    BY <1>3, <1>4 DEF WishInv, WishTypes
  <2> QED
    BY <1>3, <1>8, <2>1, OthersChange DEF WishInv, WishTypes
<1>10. NothingAhead'
  <2>1. ASSUME NEW k \in Coll, Wish!Exists(k)' PROVE collections'[k] <= now
    BY <1>2, <1>8, <2>1 DEF WishInv, NothingAhead
  <2>2. ASSUME NEW i \in Item, items'[i] # None PROVE items'[i].at <= now
    BY <1>2, <1>4, <1>5, <2>2 DEF WishInv, NothingAhead
  <2> QED
    BY <1>3, <2>1, <2>2, OthersChange DEF WishInv, NothingAhead
<1>11. \A i \in Item : items[i] # None => items[i].coll \in Coll /\ items[i].at \in Nat
  BY DEF WishInv, WishTypes, Added
<1>12. IdsDrawn'
  <2>1. ASSUME NEW i \in Item, items'[i] # None PROVE Known(items[i].coll)'
    BY <1>2, <1>4, <1>5, <1>8, <1>11, <2>1 DEF WishInv, IdsDrawn
  <2> QED
    BY <1>2, <1>3, <1>8, <2>1 DEF WishInv, IdsDrawn
<1>13. ASSUME NEW q \in Proc PROVE ChangeOK(q)'
  <2>1. ChangeOK(q) /\ \A r \in Proc : op'[r] \in Change => op'[r] = op[r] /\ r # p
    BY <1>3, OthersChange DEF WishInv
  <2>2. SUFFICES ASSUME op'[q] \in Change PROVE ChangeOK(q)'
    BY DEF ChangeOK
  <2>3. op[q] \in Change /\ op'[q] = op[q] /\ q # p /\ op[q].coll \in Coll
    BY <2>1, <2>2 DEF Change
  <2>4. op[q].id \notin orphans'
    BY <1>3, <1>7, <2>1, <2>3 DEF ChangeOK
  <2>5. op[q].coll \notin crossed => Wish!In(op[q].coll)' \subseteq Wish!In(op[q].coll)
    BY <1>4, <1>5, <1>6, <2>3 DEF Wish!In
  <2>6. op[q].coll \notin crossed => \A i \in Wish!In(op[q].coll)' : items'[i] = items[i]
    BY <1>4, <1>5, <1>6, <2>3 DEF Wish!In
  <2>7. Known(op[q].coll)' <=> Known(op[q].coll)
    BY <1>8, <2>3
  <2>8. op[q].what = "add" /\ op[q].coll \notin crossed =>
          \A i \in Wish!In(op[q].coll)' : items'[i].at <= op[q].at
    BY <2>1, <2>3, <2>5, <2>6 DEF ChangeOK
  <2> QED
    BY <1>3, <2>1, <2>3, <2>4, <2>7, <2>8 DEF ChangeOK
<1>14. ASSUME NEW i \in Item PROVE ItemOK(i)'
  <2>1. CASE i = n
    <3>1. items'[i] = new /\ (i \in orphans' <=> ~Wish!Exists(c))
      BY <1>2, <1>3, <1>5, <2>1
    <3>2. t <= t
      BY <1>2
    <3> QED
      BY <1>2, <1>4, <1>8, <3>1, <3>2 DEF ItemOK
  <2>2. CASE i # n
    <3>1. items'[i] = items[i] /\ (i \in orphans' <=> i \in orphans) /\ ItemOK(i)
      BY <1>3, <1>5, <2>2 DEF WishInv
    <3>2. CASE items[i] # None /\ items[i].coll = c
      <4>1. c \notin crossed => items[i].at <= t
        BY <1>6, <3>2 DEF Wish!In
      <4> QED
        BY <1>2, <1>3, <1>8, <3>1, <3>2, <4>1 DEF ItemOK
    <3>3. CASE items[i] # None /\ items[i].coll # c
      BY <1>3, <1>8, <1>11, <3>1, <3>3 DEF ItemOK
    <3> QED
      BY <3>1, <3>2, <3>3 DEF ItemOK
  <2> QED
    BY <2>1, <2>2
<1> QED
  BY <1>9, <1>10, <1>12, <1>13, <1>14 DEF WishInv

\* Removing reads the clock as it commits: the time is later than all there is.
LEMMA WishRemoveHolds ==
  ASSUME WishParameters, WishInv, NEW c \in Coll, NEW n \in Item, Wish!RemoveItem(n, c)
  PROVE  WishInv'
<1>1. /\ items' = [items EXCEPT ![n] = None] /\ collections' = Wish!Touched(c, now)
      /\ UNCHANGED <<op, now, drawn, gone, orphans, crossed>>
  BY DEF Wish!RemoveItem
<1>2. now \in Nat /\ now <= now
  BY DEF WishInv, WishTypes
<1>3. /\ collections' \in [Coll -> Nat \cup {None}]
      /\ \A k \in Coll : /\ Wish!Exists(k)' <=> Wish!Exists(k)
                         /\ Known(k)' <=> Known(k)
                         /\ k # c => collections'[k] = collections[k]
      /\ Wish!Exists(c) => collections'[c] = now
  BY <1>1, <1>2, TouchedOnly
<1>4. \A i \in Item : items'[i] = (IF i = n THEN None ELSE items[i])
  BY <1>1 DEF WishInv, WishTypes
<1>5. \A i \in Item : items'[i] # None => items'[i] = items[i]
  BY <1>4
<1>6. \A i \in Item : items[i] # None => items[i].coll \in Coll
  BY DEF WishInv, WishTypes, Added
<1>7. WishTypes'
  BY <1>1, <1>3, <1>4 DEF WishInv, WishTypes
<1>8. NothingAhead'
  BY <1>1, <1>2, <1>3, <1>5 DEF WishInv, NothingAhead
<1>9. IdsDrawn'
  BY <1>1, <1>3, <1>5, <1>6 DEF WishInv, IdsDrawn
<1>10. ASSUME NEW q \in Proc PROVE ChangeOK(q)'
  <2>1. op[q] \in Change => op[q].coll \in Coll
    BY DEF Change
  <2>2. ASSUME NEW k \in Coll, NEW i \in Wish!In(k)' PROVE i \in Wish!In(k) /\ items'[i] = items[i]
    BY <1>5, <2>2 DEF Wish!In
  <2> QED
    BY <1>1, <1>3, <2>1, <2>2 DEF WishInv, ChangeOK
<1>11. ASSUME NEW i \in Item PROVE ItemOK(i)'
  <2> SUFFICES ASSUME items'[i] # None PROVE ItemOK(i)'
    BY DEF ItemOK
  <2>1. items'[i] = items[i] /\ items[i].coll \in Coll /\ ItemOK(i) /\ items[i].at <= now
    BY <1>5, <1>6 DEF WishInv, NothingAhead
  <2> QED
    BY <1>1, <1>3, <2>1 DEF ItemOK
<1> QED
  BY <1>7, <1>8, <1>9, <1>10, <1>11 DEF WishInv

\* A collection goes with its items and stays known.
LEMMA WishDeleteHolds ==
  ASSUME WishInv, NEW c \in Coll, Wish!DeleteCollection(c)
  PROVE  WishInv'
<1>1. /\ items' = [i \in Item |-> IF i \in Wish!In(c) THEN None ELSE items[i]]
      /\ collections' = [collections EXCEPT ![c] = None]
      /\ gone' = (IF Wish!Exists(c) THEN gone \cup {c} ELSE gone)
      /\ UNCHANGED <<op, now, drawn, orphans, crossed>>
  BY DEF Wish!DeleteCollection
<1>2. \A i \in Item : items'[i] # None => items'[i] = items[i] /\ items[i].coll # c
  BY <1>1 DEF Wish!In
<1>3. \A k \in Coll : collections'[k] = (IF k = c THEN None ELSE collections[k])
  BY <1>1 DEF WishInv, WishTypes
<1>4. \A k \in Coll : /\ Known(k)' <=> Known(k)
                      /\ Wish!Exists(k)' => Wish!Exists(k) /\ k # c
                      /\ k # c => (Wish!Exists(k)' <=> Wish!Exists(k))
  BY <1>1, <1>3 DEF Known, Wish!Exists
<1>5. \A i \in Item : items[i] # None => items[i].coll \in Coll
  BY DEF WishInv, WishTypes, Added
<1>6. WishTypes'
  BY <1>1 DEF WishInv, WishTypes
<1>7. NothingAhead'
  BY <1>1, <1>2, <1>3, <1>4 DEF WishInv, NothingAhead
<1>8. IdsDrawn'
  BY <1>1, <1>2, <1>4, <1>5 DEF WishInv, IdsDrawn
<1>9. ASSUME NEW q \in Proc PROVE ChangeOK(q)'
  <2>1. op[q] \in Change => op[q].coll \in Coll
    BY DEF Change
  <2>2. ASSUME NEW k \in Coll, NEW i \in Wish!In(k)' PROVE i \in Wish!In(k) /\ items'[i] = items[i]
    BY <1>2, <2>2 DEF Wish!In
  <2> QED
    BY <1>1, <1>4, <2>1, <2>2 DEF WishInv, ChangeOK
<1>10. ASSUME NEW i \in Item PROVE ItemOK(i)'
  BY <1>1, <1>2, <1>3, <1>4, <1>5 DEF WishInv, ItemOK
<1> QED
  BY <1>6, <1>7, <1>8, <1>9, <1>10 DEF WishInv

LEMMA WholeFollows == WishInv => Wish!CollectionsAreWhole
<1> SUFFICES ASSUME WishInv PROVE Wish!CollectionsAreWhole
  OBVIOUS
<1> DEFINE there == {x \in Coll : Wish!Exists(x)}
<1>1. Wish!ListCollections = [c \in there |-> Wish!Cardinality(Wish!In(c))]
  BY DEF Wish!ListCollections
<1>2. ASSUME NEW c \in there
      PROVE  /\ Wish!ListCollections[c] = Wish!Cardinality(Wish!GetCollection(c))
             /\ c \notin crossed => \A i \in Wish!GetCollection(c) : items[i].at <= collections[c]
  <2>1. Wish!GetCollection(c) = Wish!In(c)
    BY <1>2 DEF Wish!GetCollection
  <2>2. Wish!ListCollections[c] = Wish!Cardinality(Wish!In(c))
    BY <1>1, <1>2
  <2>3. c \notin crossed => \A i \in Wish!In(c) : items[i].at <= collections[c]
    BY <1>2 DEF WishInv, ItemOK, Wish!In
  <2> QED
    BY <2>1, <2>2, <2>3
<1>3. \A i \in Item : items[i] # None => (i \in orphans <=> ~Wish!Exists(items[i].coll))
  BY DEF WishInv, ItemOK
<1>4. DOMAIN Wish!ListCollections = there
  BY <1>1
<1> HIDE DEF there
<1> QED
  BY <1>2, <1>3, <1>4 DEF Wish!CollectionsAreWhole

\* A collection takes its items with it, the list counts what a collection shows, and a
\* collection nobody else was changing is as new as its newest item (collections/store.py),
\* for any number of processes, collections and items, whatever fails.
THEOREM CollectionsStayWhole ==
  ASSUME WishParameters
  PROVE  PartSpec => []CollectionsAreWhole
<1>1. WishInv /\ [Wish!Next]_Wish!vars => WishInv'
  <2> SUFFICES ASSUME WishInv, [Wish!Next]_Wish!vars PROVE WishInv'
    OBVIOUS
  <2>1. CASE Wish!Tick
    BY <2>1, WishTickHolds
  <2>2. ASSUME NEW p \in Proc, Wish!CreateCollection(p) \/ Wish!AddItem(p) \/ Wish!Fail(p) PROVE WishInv'
    BY <2>2, WishCreateHolds, WishAddHolds, WishFailHolds
  <2>3. ASSUME NEW p \in Proc, NEW c \in Coll, Wish!Stamp(p, "create", c, c) PROVE WishInv'
    BY <2>3, WishStampHolds
  <2>4. ASSUME NEW p \in Proc, NEW c \in Coll, NEW i \in Item, Wish!Stamp(p, "add", i, c) PROVE WishInv'
    BY <2>4, WishStampHolds
  <2>5. ASSUME NEW c \in Coll, Wish!DeleteCollection(c) PROVE WishInv'
    BY <2>5, WishDeleteHolds
  <2>6. ASSUME NEW c \in Coll, NEW i \in Item, Wish!RemoveItem(i, c) PROVE WishInv'
    BY <2>6, WishRemoveHolds
  <2>7. CASE UNCHANGED Wish!vars
    <3>1. UNCHANGED <<collections, items, op, now, drawn, gone, orphans, crossed>>
      BY <2>7 DEF Wish!vars
    <3>2. (WishTypes /\ NothingAhead /\ IdsDrawn)'
      BY <3>1 DEF WishInv, WishTypes, NothingAhead, IdsDrawn, Known, Wish!Exists
    <3>3. \A p \in Proc : ChangeOK(p)'
      BY <3>1 DEF WishInv, ChangeOK, Known, Wish!Exists, Wish!In
    <3>4. \A i \in Item : ItemOK(i)'
      BY <3>1 DEF WishInv, ItemOK, Wish!Exists
    <3> QED
      BY <3>2, <3>3, <3>4 DEF WishInv
  <2> QED
    BY <2>1, <2>2, <2>3, <2>4, <2>5, <2>6, <2>7 DEF Wish!Next
<1>2. PartInit => LiveWishInv
  BY WishInitHolds, LiveStarts DEF LiveWishInv
<1>3. LiveWishInv /\ [PartNext]_partVars => LiveWishInv'
  BY <1>1, LiveSteps DEF LiveWishInv
<1>4. LiveWishInv => CollectionsAreWhole
  BY WholeFollows DEF LiveWishInv, CollectionsAreWhole
<1> QED
  BY <1>2, <1>3, <1>4, PTL DEF PartSpec

-----------------------------------------------------------------------------
(* TenantApi *)

Account == [plan : Api!Plan, active : BOOLEAN, usage : Nat]
ApiRow  == [tenant : Customer, active : BOOLEAN, expires : Moment, used : Nat]
Deed    == {"none", "create tenant", "update tenant", "delete tenant", "create api_key", "rotate api_key",
            "revoke api_key", "update feature_flag"}
LogRow  == [what : Deed, on : Customer \cup ApiKey \cup {None}]
Asked   == [at : {"count", "body", "rotate", "audit"}, tenant : Customer, plan : Api!Plan, entry : LogRow]

\* There is a process, and finitely many; None is no process and no row.
ApiParameters ==
  /\ IsFiniteSet(Proc) /\ Proc # {} /\ None \notin Proc
  /\ None \notin Account /\ None \notin ApiRow
  /\ Grace \in Nat

\* A request under way is one of a tenant that is there.
MayBe(r) ==
  \/ r = Api!Rest
  \/ /\ r \in Asked /\ tenants[r.tenant] # None
     /\ r.at \in {"count", "body"} => r.entry = Api!NoEntry

ApiTypes ==
  /\ now \in Nat
  /\ tenants \in [Customer -> Account \cup {None}]
  /\ keys \in [ApiKey -> ApiRow \cup {None}]
  /\ late \in [Customer -> Nat]
  /\ DOMAIN req = Proc
  /\ \A p \in Proc : MayBe(req[p])

\* Let in, and not yet at an endpoint.
Waiting(t) == {p \in Proc : req[p].at \in {"count", "body"} /\ req[p].tenant = t}

Off(r) == r # None /\ ~r.active

\* A tenant that is off has been late or can be, all in all less often than there are processes.
LateOK(t) ==
  /\ Off(tenants[t]) => late[t] + Cardinality(Waiting(t)) < Cardinality(Proc)
  /\ ~Off(tenants[t]) => late[t] = 0

\* Entries written, lost or still to be written.
Logged == audit \cup lost \cup {req[p].entry : p \in Proc}

ChangesLogged ==
  /\ \A t \in Customer \ {Admin} : tenants[t] # None => Api!Entry("create tenant", t) \in Logged
  /\ \A t \in Customer : Off(tenants[t]) => Api!Entry("delete tenant", t) \in Logged
  /\ \A k \in ApiKey : Off(keys[k]) => Api!Entry("revoke api_key", k) \in Logged

\* What a process has cached is what the table says until another one changes that.
FlagInv ==
  /\ DOMAIN overrides = Customer /\ DOMAIN changedBy = Customer /\ DOMAIN cache = Proc
  /\ \A p \in Proc : DOMAIN cache[p] = Customer
  /\ \A p \in Proc, t \in Customer :
       cache[p][t] # None /\ changedBy[t] \in {p, None} => cache[p][t] = overrides[t]

ApiInv ==
  /\ ApiTypes /\ ChangesLogged /\ FlagInv
  /\ \A t \in Customer : LateOK(t)

LiveApiInv == live = "api" => ApiInv

-----------------------------------------------------------------------------
LEMMA FlagsHold ==
  ASSUME ApiParameters, FlagInv, NEW p \in Proc, NEW t \in Customer,
         \/ \E b \in BOOLEAN : Api!Flags!SetTenantOverride(p, t, b)
         \/ Api!Flags!GetTenantFlags(p, t) \/ Api!Flags!FlagRestart(p) \/ UNCHANGED Api!flagVars
  PROVE  FlagInv'
<1>1. ASSUME NEW b \in BOOLEAN, Api!Flags!SetTenantOverride(p, t, b) PROVE FlagInv'
  <2>1. CASE UNCHANGED <<overrides, cache, changedBy>>
    BY <2>1 DEF FlagInv
  <2>2. CASE /\ overrides' = [overrides EXCEPT ![t] = b] /\ cache' = [cache EXCEPT ![p][t] = None]
             /\ changedBy' = [changedBy EXCEPT ![t] = p]
    BY <2>2 DEF FlagInv, ApiParameters
  <2> QED
    BY <1>1, <2>1, <2>2 DEF Api!Flags!SetTenantOverride, Api!Flags!Invalidate, Api!Flags!flagVars
<1>2. ASSUME Api!Flags!GetTenantFlags(p, t) PROVE FlagInv'
  BY <1>2 DEF Api!Flags!GetTenantFlags, Api!Flags!Cached, Api!Flags!Override, FlagInv
<1>3. ASSUME Api!Flags!FlagRestart(p) PROVE FlagInv'
  BY <1>3 DEF Api!Flags!FlagRestart, FlagInv
<1>4. CASE UNCHANGED Api!flagVars
  BY <1>4 DEF Api!flagVars, FlagInv
<1> QED
  BY <1>1, <1>2, <1>3, <1>4

LEMMA OwnFollows == FlagInv => Api!OwnChangesAreSeen
<1> SUFFICES ASSUME FlagInv, NEW p \in Proc, NEW t \in Customer, changedBy[t] \in {p, None},
                    NEW tier \in {"free", "pro", "enterprise"}
             PROVE  Api!Flags!Answer(p, t, tier) =
                      CASE overrides[t] # None -> overrides[t]
                        [] overrides[t] = None /\ tier = "free" -> "pro" = "free" /\ TRUE
                        [] OTHER -> (tier = "enterprise" \/ "pro" # "enterprise") /\ TRUE
  BY DEF Api!OwnChangesAreSeen, Api!Flags!OwnChangesAreSeen
<1>1. Api!Flags!Override(p, t) = overrides[t]
  BY DEF Api!Flags!Override, FlagInv
<1>2. Api!Flags!Answer(p, t, tier) = Api!Flags!Resolve(overrides[t], tier)
  BY <1>1 DEF Api!Flags!Answer
<1>3. CASE overrides[t] # None
  BY <1>2, <1>3 DEF Api!Flags!Resolve
<1>4. CASE overrides[t] = None
  BY <1>2, <1>4 DEF Api!Flags!Resolve, Api!Flags!Rank
<1> QED
  BY <1>3, <1>4

-----------------------------------------------------------------------------
LEMMA AtRest == Api!Rest.at = "rest" /\ Api!Rest.entry = Api!NoEntry
BY DEF Api!Rest

\* The request in p becomes r.
LEMMA RequestMoves ==
  ASSUME ApiInv, NEW p \in Proc, NEW r, req' = [req EXCEPT ![p] = r], MayBe(r)',
         \A t \in Customer : tenants[t] # None => tenants'[t] # None,
         audit \subseteq audit', lost \subseteq lost',
         \/ req[p].entry = Api!NoEntry \/ r.entry = req[p].entry \/ req[p].entry \in audit' \cup lost'
  PROVE  /\ DOMAIN req' = Proc /\ \A q \in Proc : req'[q] = (IF q = p THEN r ELSE req[q]) /\ MayBe(req[q])'
         /\ r.entry \in Logged'
         /\ \A e \in Logged : e # Api!NoEntry => e \in Logged'
<1>1. DOMAIN req' = Proc /\ \A q \in Proc : req'[q] = IF q = p THEN r ELSE req[q]
  BY DEF ApiInv, ApiTypes
<1>2. ASSUME NEW q \in Proc PROVE MayBe(req[q])'
  <2>1. CASE q = p
    BY <1>1, <2>1 DEF MayBe
  <2>2. CASE q # p
    <3>1. MayBe(req[q]) /\ req'[q] = req[q]
      BY <1>1, <2>2 DEF ApiInv, ApiTypes
    <3>2. req[q] \in Asked => req[q].tenant \in Customer
      BY DEF Asked
    <3> QED
      BY <3>1, <3>2 DEF MayBe
  <2> QED
    BY <2>1, <2>2
<1>3. r.entry \in Logged'
  BY <1>1 DEF Logged
<1>4. ASSUME NEW e \in Logged, e # Api!NoEntry PROVE e \in Logged'
  <2>1. CASE e \in audit \cup lost
    BY <2>1 DEF Logged
  <2>2. ASSUME NEW q \in Proc, e = req[q].entry PROVE e \in Logged'
    <3>1. CASE q = p
      BY <1>3, <1>4, <2>2, <3>1 DEF Logged
    <3>2. CASE q # p
      BY <1>1, <2>2, <3>2 DEF Logged
    <3> QED
      BY <3>1, <3>2
  <2> QED
    BY <1>4, <2>1, <2>2 DEF Logged
<1> QED
  BY <1>1, <1>2, <1>3, <1>4

LEMMA SameCount == \A S : Api!Cardinality(S) = Cardinality(S)
BY DEF Api!Cardinality, Cardinality

LEMMA WaitingFinite ==
  ASSUME ApiParameters, NEW t
  PROVE  /\ Cardinality(Proc) \in Nat /\ Cardinality(Proc) > 0
         /\ Cardinality(Waiting(t)) \in Nat /\ IsFiniteSet(Waiting(t))
<1>1. IsFiniteSet(Proc) /\ Proc # {}
  BY DEF ApiParameters
<1>2. Waiting(t) \subseteq Proc
  BY DEF Waiting
<1>3. IsFiniteSet(Waiting(t))
  BY <1>1, <1>2, FS_Subset
<1>4. Cardinality(Proc) \in Nat /\ Cardinality(Proc) # 0
  BY <1>1, FS_CardinalityType, FS_EmptySet
<1>5. Cardinality(Waiting(t)) \in Nat
  BY <1>3, FS_CardinalityType
<1> QED
  BY <1>3, <1>4, <1>5

\* A tenant with no more requests let in than before, on or off as before, is no later.
LEMMA NoLater ==
  ASSUME ApiParameters, ApiInv, NEW t \in Customer, late'[t] = late[t], Off(tenants'[t]) <=> Off(tenants[t]),
         Off(tenants[t]) => Waiting(t)' \subseteq Waiting(t)
  PROVE  LateOK(t)'
<1>1. CASE Off(tenants[t])
  <2>1. IsFiniteSet(Waiting(t)) /\ Cardinality(Waiting(t)) \in Nat /\ Cardinality(Proc) \in Nat
    BY WaitingFinite
  <2>2. Cardinality(Waiting(t)') <= Cardinality(Waiting(t)) /\ Cardinality(Waiting(t)') \in Nat
    <3>1. Waiting(t)' \subseteq Waiting(t)
      BY <1>1
    <3>2. IsFiniteSet(Waiting(t)')
      BY <2>1, <3>1, FS_Subset
    <3> QED
      BY <2>1, <3>1, <3>2, FS_Subset, FS_CardinalityType
  <2>3. late[t] \in Nat /\ late[t] + Cardinality(Waiting(t)) < Cardinality(Proc)
    BY <1>1 DEF ApiInv, ApiTypes, LateOK
  <2>4. late[t] + Cardinality(Waiting(t)') < Cardinality(Proc)
    BY <2>1, <2>2, <2>3
  <2> QED
    BY <1>1, <2>4 DEF LateOK
<1>2. CASE ~Off(tenants[t])
  BY <1>2 DEF ApiInv, LateOK
<1> QED
  BY <1>1, <1>2

\* The rows made and the rows switched off are those the entry names.
Makes(entry) ==
  /\ tenants' \in [Customer -> Account \cup {None}] /\ keys' \in [ApiKey -> ApiRow \cup {None}]
  /\ \A t \in Customer :
       /\ tenants[t] # None => tenants'[t] # None /\ (Off(tenants[t]) => Off(tenants'[t]))
       /\ tenants'[t] # None => tenants[t] # None \/ entry = Api!Entry("create tenant", t)
       /\ Off(tenants'[t]) => Off(tenants[t]) \/ entry = Api!Entry("delete tenant", t)
  /\ \A k \in ApiKey : Off(keys'[k]) => Off(keys[k]) \/ entry = Api!Entry("revoke api_key", k)

LEMMA OneMore == ASSUME NEW n \in Nat PROVE n + 1 \in Nat
OBVIOUS

LEMMA OneForOne ==
  ASSUME NEW l \in Nat, NEW w \in Nat, NEW n \in Nat, l + w < n
  PROVE  (l + 1) + (w - 1) < n
OBVIOUS

LEMMA NoneSoFar ==
  \A n, v \in Nat : \A l, m : l = 0 /\ m = n - 1 /\ v <= m => l + v < n
OBVIOUS

\* A request reaches an endpoint and goes on as r: the endpoint makes tenants and keys, and
\* switches off the ones that r's entry names.
LEMMA EnterHolds ==
  ASSUME ApiParameters, ApiInv, NEW p \in Proc, NEW r, Api!Enter(p), req' = [req EXCEPT ![p] = r],
         r = Api!Rest \/ (r \in Asked /\ r.at \in {"rotate", "audit"} /\ tenants[r.tenant] # None),
         Makes(r.entry), FlagInv'
  PROVE  ApiInv'
<1> DEFINE u == req[p].tenant
<1>1. /\ req[p] \in Asked /\ req[p].at = "body" /\ req[p].entry = Api!NoEntry
      /\ u \in Customer /\ tenants[u] # None
  <2>1. req[p].at = "body" /\ MayBe(req[p])
    BY DEF Api!Enter, ApiInv, ApiTypes
  <2>2. req[p] # Api!Rest
    BY <2>1, AtRest
  <2>3. req[p] \in Asked /\ tenants[u] # None /\ req[p].entry = Api!NoEntry
    BY <2>1, <2>2 DEF MayBe
  <2>4. u \in Customer
    BY <2>3 DEF Asked
  <2> QED
    BY <2>1, <2>3, <2>4
<1>2. /\ late' = (IF tenants[u].active THEN late ELSE [late EXCEPT ![u] = @ + 1])
      /\ UNCHANGED <<now, audit, lost>>
  BY DEF Api!Enter
<1>3. MayBe(r)'
  BY DEF MayBe, Asked, Makes
<1>4. /\ DOMAIN req' = Proc /\ \A q \in Proc : req'[q] = (IF q = p THEN r ELSE req[q]) /\ MayBe(req[q])'
      /\ r.entry \in Logged'
      /\ \A e \in Logged : e # Api!NoEntry => e \in Logged'
  BY <1>1, <1>2, <1>3, RequestMoves DEF Makes
<1>5. \A t \in Customer : late[t] \in Nat
  BY DEF ApiInv, ApiTypes
<1>6. late' \in [Customer -> Nat] /\ \A t \in Customer :
        late'[t] = IF t = u /\ Off(tenants[t]) THEN late[t] + 1 ELSE late[t]
  <2>1. late \in [Customer -> Nat]
    BY DEF ApiInv, ApiTypes
  <2>2. CASE tenants[u].active
    BY <1>2, <2>1, <2>2 DEF Off
  <2>3. CASE ~tenants[u].active
    <3>1. late' = [late EXCEPT ![u] = late[u] + 1] /\ Off(tenants[u])
      BY <1>1, <1>2, <2>3 DEF Off
    <3>2. late[u] + 1 \in Nat
      <4>1. late[u] \in Nat
        BY <1>1, <1>5
      <4> HIDE DEF u
      <4> QED
        BY <4>1, OneMore
    <3> HIDE DEF u
    <3> QED
      BY <2>1, <3>1, <3>2
  <2> QED
    BY <2>2, <2>3
<1>7. ApiTypes'
  BY <1>2, <1>4, <1>6 DEF ApiInv, ApiTypes, Makes
<1>8. ChangesLogged'
  <2>1. \A w \in {"create tenant", "delete tenant", "revoke api_key"} :
          \A x : Api!Entry(w, x) # Api!NoEntry
    BY DEF Api!Entry, Api!NoEntry
  <2>2. ASSUME NEW t \in Customer \ {Admin}, tenants'[t] # None PROVE Api!Entry("create tenant", t) \in Logged'
    BY <1>4, <2>1, <2>2 DEF ApiInv, ChangesLogged, Makes
  <2>3. ASSUME NEW t \in Customer, Off(tenants'[t]) PROVE Api!Entry("delete tenant", t) \in Logged'
    BY <1>4, <2>1, <2>3 DEF ApiInv, ChangesLogged, Makes
  <2>4. ASSUME NEW k \in ApiKey, Off(keys'[k]) PROVE Api!Entry("revoke api_key", k) \in Logged'
    BY <1>4, <2>1, <2>4 DEF ApiInv, ChangesLogged, Makes
  <2> QED
    BY <2>2, <2>3, <2>4 DEF ChangesLogged, Api!Entry
<1> HIDE DEF u
<1>9. r.at \notin {"count", "body"}
  <2>1. CASE r = Api!Rest
    BY <2>1, AtRest
  <2>2. CASE r.at \in {"rotate", "audit"}
    BY <2>2
  <2> QED
    BY <2>1, <2>2
<1>10. ASSUME NEW t PROVE Waiting(t)' = Waiting(t) \ {p}
  BY <1>4, <1>9 DEF Waiting
<1>11. ASSUME NEW t \in Customer PROVE LateOK(t)'
  <2>1. CASE t = u /\ Off(tenants[t])
    <3>1. p \in Waiting(t) /\ Off(tenants'[t]) /\ late'[t] = late[t] + 1 /\ late[t] \in Nat
      BY <1>1, <1>5, <1>6, <2>1 DEF Waiting, Makes, u
    <3>2. IsFiniteSet(Waiting(t)) /\ Cardinality(Waiting(t)) \in Nat /\ Cardinality(Proc) \in Nat
      BY WaitingFinite
    <3>3. Cardinality(Waiting(t)') = Cardinality(Waiting(t)) - 1
      BY <1>10, <3>1, <3>2, FS_RemoveElement
    <3>4. late[t] + Cardinality(Waiting(t)) < Cardinality(Proc)
      BY <2>1 DEF ApiInv, LateOK
    <3>5. late'[t] + Cardinality(Waiting(t)') < Cardinality(Proc)
      <4>1. late[t] \in Nat /\ late'[t] = late[t] + 1
        BY <3>1
      <4>2. (late[t] + 1) + (Cardinality(Waiting(t)) - 1) < Cardinality(Proc)
        BY <3>2, <3>4, <4>1, OneForOne
      <4> QED
        BY <3>3, <4>1, <4>2
    <3> QED
      BY <3>1, <3>5 DEF LateOK
  <2>2. CASE ~Off(tenants[t]) /\ Off(tenants'[t])
    <3>1. late'[t] = 0
      BY <1>6, <2>2 DEF ApiInv, LateOK
    <3>2. Waiting(t)' \subseteq Proc \ {p}
      BY <1>10 DEF Waiting
    <3>3. IsFiniteSet(Proc) /\ Cardinality(Proc) \in Nat
      BY WaitingFinite DEF ApiParameters
    <3>4. IsFiniteSet(Proc \ {p}) /\ Cardinality(Proc \ {p}) = Cardinality(Proc) - 1
      BY <3>3, FS_RemoveElement
    <3>5. IsFiniteSet(Waiting(t)') /\ Cardinality(Waiting(t)') <= Cardinality(Proc \ {p})
      BY <3>2, <3>4, FS_Subset
    <3>6. Cardinality(Waiting(t)') \in Nat
      BY <3>5, FS_CardinalityType
    <3>7. late'[t] + Cardinality(Waiting(t)') < Cardinality(Proc)
      BY <3>1, <3>3, <3>4, <3>5, <3>6, NoneSoFar
    <3> QED
      BY <2>2, <3>7 DEF LateOK
  <2>3. CASE ~(t = u /\ Off(tenants[t])) /\ ~(~Off(tenants[t]) /\ Off(tenants'[t]))
    <3>1. late'[t] = late[t]
      BY <1>6, <2>3
    <3>2. Off(tenants'[t]) <=> Off(tenants[t])
      BY <2>3 DEF Makes, Off
    <3> QED
      BY <1>10, <3>1, <3>2, NoLater
  <2> QED
    BY <2>1, <2>2, <2>3
<1> QED
  BY <1>7, <1>8, <1>11 DEF ApiInv

\* A request goes on as r, and no table and no lateness changes but for use counts.
LEMMA PassHolds ==
  ASSUME ApiParameters, ApiInv, NEW p \in Proc, NEW r, req' = [req EXCEPT ![p] = r], MayBe(r),
         now' \in Nat, tenants' \in [Customer -> Account \cup {None}], keys' \in [ApiKey -> ApiRow \cup {None}],
         \A t \in Customer : (tenants'[t] # None <=> tenants[t] # None) /\ (Off(tenants'[t]) <=> Off(tenants[t])),
         \A k \in ApiKey : Off(keys'[k]) => Off(keys[k]),
         late' = late, audit \subseteq audit', lost \subseteq lost',
         \/ req[p].entry = Api!NoEntry \/ r.entry = req[p].entry \/ req[p].entry \in audit' \cup lost',
         r.at \in {"count", "body"} =>
           \/ req[p].at \in {"count", "body"} /\ r.tenant = req[p].tenant
           \/ ~Off(tenants[r.tenant]),
         FlagInv'
  PROVE  ApiInv'
<1>1. MayBe(r)'
  BY DEF MayBe, Asked
<1>2. /\ DOMAIN req' = Proc /\ \A q \in Proc : req'[q] = (IF q = p THEN r ELSE req[q]) /\ MayBe(req[q])'
      /\ r.entry \in Logged'
      /\ \A e \in Logged : e # Api!NoEntry => e \in Logged'
  BY <1>1, RequestMoves
<1>3. ApiTypes'
  BY <1>2 DEF ApiInv, ApiTypes
<1>4. ChangesLogged'
  <2>1. \A w \in {"create tenant", "delete tenant", "revoke api_key"} :
          \A x : Api!Entry(w, x) # Api!NoEntry
    BY DEF Api!Entry, Api!NoEntry
  <2>2. ASSUME NEW t \in Customer \ {Admin}, tenants'[t] # None PROVE Api!Entry("create tenant", t) \in Logged'
    BY <1>2, <2>1, <2>2 DEF ApiInv, ChangesLogged
  <2>3. ASSUME NEW t \in Customer, Off(tenants'[t]) PROVE Api!Entry("delete tenant", t) \in Logged'
    BY <1>2, <2>1, <2>3 DEF ApiInv, ChangesLogged
  <2>4. ASSUME NEW k \in ApiKey, Off(keys'[k]) PROVE Api!Entry("revoke api_key", k) \in Logged'
    BY <1>2, <2>1, <2>4 DEF ApiInv, ChangesLogged
  <2> QED
    BY <2>2, <2>3, <2>4 DEF ChangesLogged, Api!Entry
<1>5. ASSUME NEW t \in Customer PROVE LateOK(t)'
  <2>1. ASSUME Off(tenants[t]) PROVE Waiting(t)' \subseteq Waiting(t)
    BY <1>2, <2>1 DEF Waiting
  <2> QED
    BY <2>1, NoLater
<1> QED
  BY <1>3, <1>4, <1>5 DEF ApiInv

LEMMA LetIn ==
  ASSUME NEW t, NEW tier
  PROVE  [Api!Rest EXCEPT !.at = "count", !.tenant = t, !.plan = tier] =
           [at |-> "count", tenant |-> t, plan |-> tier, entry |-> Api!NoEntry]
<1> DEFINE r1 == [at |-> "count", tenant |-> None, plan |-> "free", entry |-> Api!NoEntry]
           r2 == [at |-> "count", tenant |-> t, plan |-> "free", entry |-> Api!NoEntry]
<1>1. [Api!Rest EXCEPT !.at = "count"] = r1
  BY DEF Api!Rest
<1>2. [r1 EXCEPT !.tenant = t] = r2
  OBVIOUS
<1>3. [r2 EXCEPT !.plan = tier] = [at |-> "count", tenant |-> t, plan |-> tier, entry |-> Api!NoEntry]
  OBVIOUS
<1>4. [Api!Rest EXCEPT !.at = "count", !.tenant = t, !.plan = tier] =
        [[[Api!Rest EXCEPT !.at = "count"] EXCEPT !.tenant = t] EXCEPT !.plan = tier]
  OBVIOUS
<1> QED
  BY <1>1, <1>2, <1>3, <1>4

LEMMA NoEntryLogged == Api!NoEntry \in LogRow
BY DEF Api!NoEntry, LogRow, Deed

LEMMA FlagsRest == ASSUME ApiParameters, ApiInv, UNCHANGED Api!flagVars PROVE FlagInv'
BY DEF ApiInv, Api!flagVars, FlagInv

LEMMA RequestKnown ==
  ASSUME ApiInv, NEW p \in Proc, req[p].at # "rest"
  PROVE  /\ req[p] \in Asked /\ tenants[req[p].tenant] # None /\ req[p].tenant \in Customer
         /\ req[p].at \in {"count", "body"} => req[p].entry = Api!NoEntry
<1>1. MayBe(req[p]) /\ req[p] # Api!Rest
  BY AtRest DEF ApiInv, ApiTypes
<1>2. req[p] \in Asked /\ tenants[req[p].tenant] # None
  BY <1>1 DEF MayBe
<1> QED
  BY <1>1, <1>2 DEF MayBe, Asked

LEMMA AuthenticateHolds ==
  ASSUME ApiParameters, ApiInv, NEW p \in Proc, NEW c, Api!Authenticate(p, c)
  PROVE  ApiInv'
<1>1. PICK t \in Api!GetTenantByKey(c) :
        req' = [req EXCEPT ![p] = [Api!Rest EXCEPT !.at = "count", !.tenant = t, !.plan = tenants[t].plan]]
  BY DEF Api!Authenticate
<1>2. t \in Customer /\ tenants[t] # None /\ tenants[t].active
  BY <1>1 DEF Api!GetTenantByKey, Api!Row
<1> DEFINE r == [Api!Rest EXCEPT !.at = "count", !.tenant = t, !.plan = tenants[t].plan]
<1>3. /\ req[p] = Api!Rest
      /\ UNCHANGED <<tenants, now, keys, overrides, cache, changedBy, audit, late, lost>>
  BY DEF Api!Authenticate, Api!keyVars, Api!flagVars
<1>4. tenants[t].plan \in Api!Plan
  BY <1>2 DEF ApiInv, ApiTypes, Account
<1>5. r = [at |-> "count", tenant |-> t, plan |-> tenants[t].plan, entry |-> Api!NoEntry]
  BY LetIn
<1>6. Api!NoEntry \in LogRow
  BY NoEntryLogged
<1>7. r \in Asked /\ r.tenant = t /\ r.entry = Api!NoEntry
  BY <1>2, <1>4, <1>5, <1>6 DEF Asked
<1>8. MayBe(r) /\ ~Off(tenants[r.tenant])
  BY <1>2, <1>7 DEF MayBe, Off
<1>9. FlagInv'
  BY <1>3, FlagsRest DEF Api!flagVars
<1>10. req[p].entry = Api!NoEntry
  BY <1>3, AtRest
<1>11. req' = [req EXCEPT ![p] = r]
  BY <1>1
<1>12. /\ now' \in Nat /\ tenants' \in [Customer -> Account \cup {None}]
       /\ keys' \in [ApiKey -> ApiRow \cup {None}]
  BY <1>3 DEF ApiInv, ApiTypes
<1> HIDE DEF r
<1> QED
  BY <1>3, <1>8, <1>9, <1>10, <1>11, <1>12, PassHolds

LEMMA CountHolds ==
  ASSUME ApiParameters, ApiInv, NEW p \in Proc, Api!CountUse(p)
  PROVE  ApiInv'
<1> DEFINE u == req[p].tenant
           r == [req[p] EXCEPT !.at = "body"]
<1>1. /\ req[p].at = "count"
      /\ Api!IncrementUsage(u) \/ UNCHANGED tenants
      /\ UNCHANGED <<now, keys, overrides, cache, changedBy, audit, late, lost>>
  BY DEF Api!CountUse, Api!keyVars, Api!flagVars
<1>2. req[p] \in Asked /\ tenants[u] # None /\ u \in Customer /\ req[p].entry = Api!NoEntry
  BY <1>1, RequestKnown
<1>3. req' = [req EXCEPT ![p] = r]
  BY DEF Api!CountUse
<1>4. r \in Asked /\ r.tenant = u /\ r.entry = Api!NoEntry /\ r.at = "body"
  BY <1>2 DEF Asked
<1>5. MayBe(r)
  BY <1>2, <1>4 DEF MayBe
<1>6. /\ tenants' \in [Customer -> Account \cup {None}]
      /\ \A t \in Customer : (tenants'[t] # None <=> tenants[t] # None) /\ (Off(tenants'[t]) <=> Off(tenants[t]))
  <2>1. tenants \in [Customer -> Account \cup {None}]
    BY DEF ApiInv, ApiTypes
  <2>2. CASE UNCHANGED tenants
    BY <2>1, <2>2
  <2>3. CASE Api!IncrementUsage(u)
    <3>1. tenants[u] \in Account
      BY <1>2, <2>1
    <3> DEFINE account == [tenants[u] EXCEPT !.usage = @ + 1]
    <3>2. account \in Account /\ account.active = tenants[u].active
      BY <3>1 DEF Account
    <3>3. account # None
      BY <3>2 DEF ApiParameters
    <3>4. tenants' = [tenants EXCEPT ![u] = account]
      BY <1>2, <2>3 DEF Api!IncrementUsage, Api!Row
    <3> HIDE DEF account, u
    <3> QED
      BY <1>2, <2>1, <3>2, <3>3, <3>4 DEF Off
  <2> QED
    BY <1>1, <2>2, <2>3
<1>7. FlagInv'
  BY <1>1, FlagsRest DEF Api!flagVars
<1>8. now' \in Nat /\ keys' \in [ApiKey -> ApiRow \cup {None}]
  BY <1>1 DEF ApiInv, ApiTypes
<1> HIDE DEF r, u
<1> QED
  BY <1>1, <1>2, <1>3, <1>4, <1>5, <1>6, <1>7, <1>8, PassHolds DEF u

-----------------------------------------------------------------------------
LEMMA EntryLogged ==
  ASSUME NEW w \in Deed, NEW x \in Customer \cup ApiKey
  PROVE  Api!Entry(w, x) \in LogRow
BY DEF Api!Entry, LogRow

LEMMA NothingMade == ASSUME ApiInv, NEW e, UNCHANGED <<tenants, keys>> PROVE Makes(e)
BY DEF ApiInv, ApiTypes, Makes

LEMMA TenantMade ==
  ASSUME ApiParameters, ApiInv, NEW t \in Customer, NEW tier \in Api!Plan, UNCHANGED keys,
         Api!InsertTenant(t, tier)
  PROVE  Makes(Api!Entry("create tenant", t))
<1> DEFINE account == [plan |-> tier, active |-> TRUE, usage |-> 0]
<1>1. tenants[t] = None /\ tenants' = [tenants EXCEPT ![t] = account]
  BY DEF Api!InsertTenant
<1>2. account \in Account /\ account.active
  BY DEF Account
<1>3. account # None
  BY <1>2 DEF ApiParameters
<1> HIDE DEF account
<1>4. \A x \in Customer : tenants'[x] = IF x = t THEN account ELSE tenants[x]
  BY <1>1 DEF ApiInv, ApiTypes
<1>5. tenants' \in [Customer -> Account \cup {None}] /\ keys' \in [ApiKey -> ApiRow \cup {None}]
  BY <1>1, <1>2 DEF ApiInv, ApiTypes
<1> QED
  BY <1>1, <1>2, <1>3, <1>4, <1>5 DEF Makes, Off

LEMMA PlanMade ==
  ASSUME ApiParameters, ApiInv, NEW t \in Customer, NEW tier \in Api!Plan, NEW e, UNCHANGED keys,
         Api!UpdateTenantPlan(t, tier)
  PROVE  Makes(e)
<1>1. CASE tenants[t] = None
  BY <1>1, NothingMade DEF Api!UpdateTenantPlan, Api!Row
<1>2. CASE tenants[t] # None
  <2> DEFINE account == [tenants[t] EXCEPT !.plan = tier]
  <2>1. tenants[t] \in Account
    BY <1>2 DEF ApiInv, ApiTypes
  <2>2. account \in Account /\ account.active = tenants[t].active
    BY <2>1 DEF Account
  <2>3. account # None
    BY <2>2 DEF ApiParameters
  <2>4. tenants' = [tenants EXCEPT ![t] = account]
    BY <1>2 DEF Api!UpdateTenantPlan, Api!Row
  <2> HIDE DEF account
  <2>5. \A x \in Customer : tenants'[x] = IF x = t THEN account ELSE tenants[x]
    BY <2>4 DEF ApiInv, ApiTypes
  <2>6. tenants' \in [Customer -> Account \cup {None}] /\ keys' \in [ApiKey -> ApiRow \cup {None}]
    BY <2>2, <2>4 DEF ApiInv, ApiTypes
  <2> QED
    BY <1>2, <2>2, <2>3, <2>5, <2>6 DEF Makes, Off
<1> QED
  BY <1>1, <1>2

LEMMA TenantOff ==
  ASSUME ApiParameters, ApiInv, NEW t \in Customer, UNCHANGED keys, Api!DeactivateTenant(t)
  PROVE  Makes(Api!Entry("delete tenant", t))
<1>1. CASE tenants[t] = None
  BY <1>1, NothingMade DEF Api!DeactivateTenant, Api!Row
<1>2. CASE tenants[t] # None
  <2> DEFINE account == [tenants[t] EXCEPT !.active = FALSE]
  <2>1. tenants[t] \in Account
    BY <1>2 DEF ApiInv, ApiTypes
  <2>2. account \in Account /\ ~account.active
    BY <2>1 DEF Account
  <2>3. account # None
    BY <2>2 DEF ApiParameters
  <2>4. tenants' = [tenants EXCEPT ![t] = account]
    BY <1>2 DEF Api!DeactivateTenant, Api!Row
  <2> HIDE DEF account
  <2>5. \A x \in Customer : tenants'[x] = IF x = t THEN account ELSE tenants[x]
    BY <2>4 DEF ApiInv, ApiTypes
  <2>6. tenants' \in [Customer -> Account \cup {None}] /\ keys' \in [ApiKey -> ApiRow \cup {None}]
    BY <2>2, <2>4 DEF ApiInv, ApiTypes
  <2> QED
    BY <1>2, <2>2, <2>3, <2>5, <2>6 DEF Makes, Off
<1> QED
  BY <1>1, <1>2

LEMMA KeyMade ==
  ASSUME ApiParameters, ApiInv, NEW k \in ApiKey, NEW t \in Customer, NEW e, UNCHANGED tenants,
         Api!CreateKey(k, t, None)
  PROVE  Makes(e)
<1> DEFINE fresh == Api!NewKey(t, None)
<1>1. keys' = [keys EXCEPT ![k] = fresh]
  BY DEF Api!CreateKey
<1>2. fresh \in ApiRow /\ fresh.active
  BY DEF Api!NewKey, ApiRow, Moment
<1> HIDE DEF fresh
<1>3. \A x \in ApiKey : keys'[x] = IF x = k THEN fresh ELSE keys[x]
  BY <1>1 DEF ApiInv, ApiTypes
<1>4. tenants' \in [Customer -> Account \cup {None}] /\ keys' \in [ApiKey -> ApiRow \cup {None}]
  BY <1>1, <1>2 DEF ApiInv, ApiTypes
<1> QED
  BY <1>2, <1>3, <1>4 DEF Makes, Off

LEMMA KeyAged ==
  ASSUME ApiParameters, ApiInv, NEW k \in ApiKey, NEW t \in Customer, NEW e, UNCHANGED tenants,
         Api!ExpireOld(k, t)
  PROVE  Makes(e)
<1>1. CASE ~(keys[k] # None /\ keys[k].tenant = t)
  BY <1>1, NothingMade DEF Api!ExpireOld, Api!Row
<1>2. CASE keys[k] # None /\ keys[k].tenant = t
  <2> DEFINE fresh == [keys[k] EXCEPT !.expires = now + Grace]
  <2>1. keys[k] \in ApiRow /\ now + Grace \in Moment
    BY <1>2 DEF ApiInv, ApiTypes, ApiParameters, Moment
  <2>2. fresh \in ApiRow /\ fresh.active = keys[k].active
    BY <2>1 DEF ApiRow
  <2>3. keys' = [keys EXCEPT ![k] = fresh]
    BY <1>2 DEF Api!ExpireOld, Api!Row
  <2> HIDE DEF fresh
  <2>4. \A x \in ApiKey : keys'[x] = IF x = k THEN fresh ELSE keys[x]
    BY <2>3 DEF ApiInv, ApiTypes
  <2>5. tenants' \in [Customer -> Account \cup {None}] /\ keys' \in [ApiKey -> ApiRow \cup {None}]
    BY <2>2, <2>3 DEF ApiInv, ApiTypes
  <2> QED
    BY <1>2, <2>2, <2>4, <2>5 DEF Makes, Off
<1> QED
  BY <1>1, <1>2

LEMMA KeyOff ==
  ASSUME ApiParameters, ApiInv, NEW k \in ApiKey, NEW t \in Customer, NEW e, UNCHANGED tenants,
         Api!RevokeKey(k, t), k \in Api!ListKeys(t) => e = Api!Entry("revoke api_key", k)
  PROVE  Makes(e)
<1>1. CASE ~(keys[k] # None /\ keys[k].tenant = t)
  BY <1>1, NothingMade DEF Api!RevokeKey, Api!Row
<1>2. CASE keys[k] # None /\ keys[k].tenant = t
  <2> DEFINE fresh == [keys[k] EXCEPT !.active = FALSE]
  <2>1. keys[k] \in ApiRow
    BY <1>2 DEF ApiInv, ApiTypes
  <2>2. fresh \in ApiRow
    BY <2>1 DEF ApiRow
  <2>3. keys' = [keys EXCEPT ![k] = fresh]
    BY <1>2 DEF Api!RevokeKey, Api!Row
  <2> HIDE DEF fresh
  <2>4. \A x \in ApiKey : keys'[x] = IF x = k THEN fresh ELSE keys[x]
    BY <2>3 DEF ApiInv, ApiTypes
  <2>5. tenants' \in [Customer -> Account \cup {None}] /\ keys' \in [ApiKey -> ApiRow \cup {None}]
    BY <2>2, <2>3 DEF ApiInv, ApiTypes
  <2>6. e = Api!Entry("revoke api_key", k)
    BY <1>2 DEF Api!ListKeys, Api!Row
  <2> QED
    BY <1>2, <2>4, <2>5, <2>6 DEF Makes, Off
<1> QED
  BY <1>1, <1>2

-----------------------------------------------------------------------------
\* An endpoint that answers at once.
LEMMA AnswerHolds ==
  ASSUME ApiParameters, ApiInv, NEW p \in Proc, Api!Enter(p), Api!Reply(p), Makes(Api!NoEntry), FlagInv'
  PROVE  ApiInv'
<1>1. req' = [req EXCEPT ![p] = Api!Rest]
  BY DEF Api!Reply
<1>2. Makes(Api!Rest.entry)
  BY AtRest
<1> QED
  BY <1>1, <1>2, EnterHolds

\* An endpoint that goes on to write its entry.
LEMMA ChangeHolds ==
  ASSUME ApiParameters, ApiInv, NEW p \in Proc, Api!Enter(p), NEW at \in {"rotate", "audit"},
         NEW e \in LogRow, req' = [req EXCEPT ![p].at = at, ![p].entry = e], Makes(e), FlagInv'
  PROVE  ApiInv'
<1> DEFINE r1 == [req[p] EXCEPT !.at = at]
           r2 == [r1 EXCEPT !.entry = e]
<1>1. req[p] \in Asked /\ tenants[req[p].tenant] # None
  BY RequestKnown DEF Api!Enter
<1>2. r1 \in Asked /\ r1.at = at /\ r1.tenant = req[p].tenant
  BY <1>1 DEF Asked
<1>3. r2 \in Asked /\ r2.at = at /\ r2.tenant = req[p].tenant /\ r2.entry = e
  <2> HIDE DEF r1
  <2> QED
    BY <1>2 DEF Asked
<1>4. DOMAIN req = Proc
  BY DEF ApiInv, ApiTypes
<1>5. [req EXCEPT ![p].at = at, ![p].entry = e] = [[req EXCEPT ![p] = r1] EXCEPT ![p].entry = e]
  OBVIOUS
<1>6. [[req EXCEPT ![p] = r1] EXCEPT ![p].entry = e] = [req EXCEPT ![p] = r2]
  <2> HIDE DEF r1
  <2> QED
    BY <1>4
<1>7. req' = [req EXCEPT ![p] = r2]
  BY <1>5, <1>6
<1>8. Makes(r2.entry) /\ r2.at \in {"rotate", "audit"} /\ tenants[r2.tenant] # None
  <2> HIDE DEF r2
  <2> QED
    BY <1>1, <1>3 DEF Makes
<1> HIDE DEF r2
<1> QED
  BY <1>3, <1>7, <1>8, EnterHolds

LEMMA TenantEndpointsHold ==
  ASSUME ApiParameters, ApiInv, NEW p \in Proc, NEW t \in Customer,
         \/ Api!DeleteTenant(p, t)
         \/ \E tier \in Api!Plan : Api!PostTenant(p, t, tier) \/ Api!PatchPlan(p, t, tier)
         \/ \E b \in BOOLEAN : Api!PutOverride(p, t, b)
  PROVE  ApiInv'
<1>1. CASE Api!DeleteTenant(p, t)
  <2>1. Makes(Api!Entry("delete tenant", t))
    BY <1>1, TenantOff DEF Api!DeleteTenant
  <2>2. FlagInv'
    BY <1>1, FlagsRest DEF Api!DeleteTenant
  <2> QED
    BY <1>1, <2>1, <2>2, ChangeHolds, EntryLogged DEF Api!DeleteTenant, Api!ToAudit, Deed
<1>2. ASSUME NEW tier \in Api!Plan, Api!PostTenant(p, t, tier) PROVE ApiInv'
  <2>1. Makes(Api!Entry("create tenant", t))
    BY <1>2, TenantMade DEF Api!PostTenant
  <2>2. FlagInv'
    BY <1>2, FlagsRest DEF Api!PostTenant
  <2> QED
    BY <1>2, <2>1, <2>2, ChangeHolds, EntryLogged DEF Api!PostTenant, Api!ToAudit, Deed
<1>3. ASSUME NEW tier \in Api!Plan, Api!PatchPlan(p, t, tier) PROVE ApiInv'
  <2>1. Makes(Api!Entry("update tenant", t))
    BY <1>3, PlanMade DEF Api!PatchPlan
  <2>2. FlagInv'
    BY <1>3, FlagsRest DEF Api!PatchPlan
  <2> QED
    BY <1>3, <2>1, <2>2, ChangeHolds, EntryLogged DEF Api!PatchPlan, Api!ToAudit, Deed
<1>4. ASSUME NEW b \in BOOLEAN, Api!PutOverride(p, t, b) PROVE ApiInv'
  <2>1. Makes(Api!Entry("update feature_flag", t))
    BY <1>4, NothingMade DEF Api!PutOverride
  <2>2. FlagInv'
    BY <1>4, FlagsHold DEF Api!PutOverride, ApiInv
  <2> QED
    BY <1>4, <2>1, <2>2, ChangeHolds, EntryLogged DEF Api!PutOverride, Api!ToAudit, Deed
<1> QED
  BY <1>1, <1>2, <1>3, <1>4

\* The second half of a rotation makes the new key.
LEMMA RotateInsertHolds ==
  ASSUME ApiParameters, ApiInv, NEW p \in Proc, NEW k \in ApiKey, Api!RotateInsert(p, k)
  PROVE  ApiInv'
<1> DEFINE r == [req[p] EXCEPT !.at = "audit"]
<1>1. /\ req[p].at = "rotate" /\ Api!CreateKey(k, req[p].tenant, None)
      /\ UNCHANGED <<tenants, now, audit, late, lost>> /\ UNCHANGED Api!flagVars
  BY DEF Api!RotateInsert
<1>2. req[p] \in Asked /\ tenants[req[p].tenant] # None /\ req[p].tenant \in Customer
  BY <1>1, RequestKnown
<1>3. Makes(Api!NoEntry)
  BY <1>1, <1>2, KeyMade
<1>4. req' = [req EXCEPT ![p] = r]
  BY DEF Api!RotateInsert
<1>5. r \in Asked /\ r.at = "audit" /\ r.tenant = req[p].tenant /\ r.entry = req[p].entry
  BY <1>2 DEF Asked
<1>6. MayBe(r)
  BY <1>2, <1>5 DEF MayBe
<1>7. FlagInv'
  BY <1>1, FlagsRest
<1>8. \A x \in ApiKey : Off(keys'[x]) => Off(keys[x])
  BY <1>3 DEF Makes, Api!Entry, Api!NoEntry
<1>9. now' \in Nat /\ tenants' \in [Customer -> Account \cup {None}] /\ keys' \in [ApiKey -> ApiRow \cup {None}]
  BY <1>1, <1>3 DEF Makes, ApiInv, ApiTypes
<1> HIDE DEF r
<1> QED
  BY <1>1, <1>4, <1>5, <1>6, <1>7, <1>8, <1>9, PassHolds

LEMMA KeyEndpointsHold ==
  ASSUME ApiParameters, ApiInv, NEW p \in Proc, NEW k \in ApiKey,
         Api!RotateKey(p, k) \/ Api!DeleteKey(p, k) \/ Api!PostKey(p, k, None)
  PROVE  ApiInv'
<1>1. CASE Api!PostKey(p, k, None)
  <2>1. req[p].tenant \in Customer
    BY <1>1, RequestKnown DEF Api!PostKey, Api!Enter
  <2>2. Api!CreateKey(k, req[p].tenant, None)
    BY <1>1 DEF Api!PostKey, Api!LifetimeEnd
  <2>3. Makes(Api!Entry("create api_key", k))
    BY <1>1, <2>1, <2>2, KeyMade DEF Api!PostKey
  <2>4. FlagInv'
    BY <1>1, FlagsRest DEF Api!PostKey
  <2> QED
    BY <1>1, <2>3, <2>4, ChangeHolds, EntryLogged DEF Api!PostKey, Api!ToAudit, Deed
<1>2. CASE Api!RotateKey(p, k)
  <2>1. req[p].tenant \in Customer
    BY <1>2, RequestKnown DEF Api!RotateKey, Api!Enter
  <2>2. Makes(Api!Entry("rotate api_key", k))
    BY <1>2, <2>1, KeyAged DEF Api!RotateKey
  <2>3. FlagInv'
    BY <1>2, FlagsRest DEF Api!RotateKey
  <2> QED
    BY <1>2, <2>2, <2>3, ChangeHolds, EntryLogged DEF Api!RotateKey, Deed
<1>3. CASE Api!DeleteKey(p, k)
  <2>1. req[p].tenant \in Customer
    BY <1>3, RequestKnown DEF Api!DeleteKey, Api!Enter
  <2>2. FlagInv'
    BY <1>3, FlagsRest DEF Api!DeleteKey
  <2>3. CASE k \in Api!ListKeys(req[p].tenant)
    <3>1. Makes(Api!Entry("revoke api_key", k))
      BY <1>3, <2>1, KeyOff DEF Api!DeleteKey
    <3> QED
      BY <1>3, <2>2, <2>3, <3>1, ChangeHolds, EntryLogged DEF Api!DeleteKey, Api!ToAudit, Deed
  <2>4. CASE k \notin Api!ListKeys(req[p].tenant)
    <3>1. Makes(Api!NoEntry)
      BY <1>3, <2>1, <2>4, KeyOff DEF Api!DeleteKey
    <3> QED
      BY <1>3, <2>2, <2>4, <3>1, AnswerHolds DEF Api!DeleteKey
  <2> QED
    BY <2>3, <2>4
<1> QED
  BY <1>1, <1>2, <1>3

\* The endpoints that write no entry.
LEMMA AnswersHold ==
  ASSUME ApiParameters, ApiInv, NEW p \in Proc,
         Api!GetFeatures(p) \/ Api!PostChat(p) \/ Api!ReadOrRefuse(p)
  PROVE  ApiInv'
<1>1. Makes(Api!NoEntry)
  BY NothingMade DEF Api!GetFeatures, Api!PostChat, Api!ReadOrRefuse
<1>2. CASE Api!GetFeatures(p)
  <2>1. req[p].tenant \in Customer
    BY <1>2, RequestKnown DEF Api!GetFeatures, Api!Enter
  <2>2. FlagInv'
    BY <1>2, <2>1, FlagsHold DEF Api!GetFeatures, ApiInv
  <2> QED
    BY <1>1, <1>2, <2>2, AnswerHolds DEF Api!GetFeatures
<1>3. CASE Api!PostChat(p) \/ Api!ReadOrRefuse(p)
  <2>1. FlagInv'
    BY <1>3, FlagsRest DEF Api!PostChat, Api!ReadOrRefuse
  <2> QED
    BY <1>1, <1>3, <2>1, AnswerHolds DEF Api!PostChat, Api!ReadOrRefuse
<1> QED
  BY <1>2, <1>3

\* A request that ends: its entry is written, or lost.
LEMMA EndHolds ==
  ASSUME ApiParameters, ApiInv, NEW p \in Proc, Api!Record(p) \/ Api!Fail(p)
  PROVE  ApiInv'
<1>1. req' = [req EXCEPT ![p] = Api!Rest] /\ req[p].at # "rest"
  BY DEF Api!Record, Api!Fail, Api!Reply
<1>2. req[p].at \in {"count", "body"} => req[p].entry = Api!NoEntry
  BY <1>1, RequestKnown
<1>3. req[p].at \in {"count", "body", "rotate", "audit"} /\ req[p].tenant \in Customer
  BY <1>1, RequestKnown DEF Asked
<1>4. /\ audit \subseteq audit' /\ lost \subseteq lost'
      /\ req[p].entry = Api!NoEntry \/ req[p].entry \in audit' \cup lost'
  <2>1. CASE Api!Record(p)
    BY <2>1 DEF Api!Record
  <2>2. CASE Api!Fail(p)
    BY <1>2, <1>3, <2>2 DEF Api!Fail
  <2> QED
    BY <2>1, <2>2
<1>5. UNCHANGED <<tenants, now, keys, late>>
  BY DEF Api!Record, Api!Fail, Api!keyVars
<1>6. FlagInv'
  <2>1. CASE Api!Flags!FlagRestart(p) \/ UNCHANGED Api!flagVars
    BY <1>3, <2>1, FlagsHold DEF ApiInv
  <2> QED
    BY <2>1 DEF Api!Record, Api!Fail
<1>7. MayBe(Api!Rest) /\ Api!Rest.at \notin {"count", "body"}
  BY AtRest DEF MayBe
<1>8. /\ now' \in Nat /\ tenants' \in [Customer -> Account \cup {None}]
      /\ keys' \in [ApiKey -> ApiRow \cup {None}]
  BY <1>5 DEF ApiInv, ApiTypes
<1> QED
  BY <1>1, <1>4, <1>5, <1>6, <1>7, <1>8, PassHolds

LEMMA ApiInitHolds == ApiParameters /\ Api!Init => ApiInv
<1> SUFFICES ASSUME ApiParameters, Api!Init PROVE ApiInv
  OBVIOUS
<1> DEFINE account == [plan |-> "enterprise", active |-> TRUE, usage |-> 0]
<1>1. /\ tenants = [t \in Customer |-> IF t = Admin THEN account ELSE None]
      /\ keys = [k \in ApiKey |-> None] /\ now = 0 /\ Api!Flags!FlagInit
      /\ req = [p \in Proc |-> Api!Rest] /\ late = [t \in Customer |-> 0]
  BY DEF Api!Init
<1>2. account \in Account /\ account.active
  BY DEF Account, Api!Plan
<1> HIDE DEF account
<1>3. ApiTypes
  BY <1>1, <1>2 DEF ApiTypes, MayBe
<1>4. FlagInv
  BY <1>1 DEF FlagInv, Api!Flags!FlagInit
<1>5. ChangesLogged
  BY <1>1, <1>2 DEF ChangesLogged, Off
<1>6. \A t \in Customer : LateOK(t)
  BY <1>1, <1>2 DEF LateOK, Off
<1> QED
  BY <1>3, <1>4, <1>5, <1>6 DEF ApiInv

LEMMA ApiStepHolds == ApiParameters /\ ApiInv /\ [Api!Next]_Api!vars => ApiInv'
<1> SUFFICES ASSUME ApiParameters, ApiInv, [Api!Next]_Api!vars PROVE ApiInv'
  OBVIOUS
<1>1. ASSUME NEW p \in Proc, Api!Serve(p) PROVE ApiInv'
  <2>1. CASE \E c \in Customer \cup ApiKey : Api!Authenticate(p, c)
    BY <2>1, AuthenticateHolds
  <2>2. CASE Api!CountUse(p)
    BY <2>2, CountHolds
  <2>3. CASE \E t \in Customer : \/ Api!DeleteTenant(p, t)
                                 \/ \E tier \in Api!Plan : Api!PostTenant(p, t, tier) \/ Api!PatchPlan(p, t, tier)
                                 \/ \E b \in BOOLEAN : Api!PutOverride(p, t, b)
    BY <2>3, TenantEndpointsHold
  <2>4. CASE \E k \in ApiKey : Api!RotateInsert(p, k)
    BY <2>4, RotateInsertHolds
  <2>5. CASE \E k \in ApiKey : Api!RotateKey(p, k) \/ Api!DeleteKey(p, k) \/ Api!PostKey(p, k, None)
    BY <2>5, KeyEndpointsHold
  <2>6. CASE Api!GetFeatures(p) \/ Api!PostChat(p) \/ Api!ReadOrRefuse(p)
    BY <2>6, AnswersHold
  <2>7. CASE Api!Record(p) \/ Api!Fail(p)
    BY <2>7, EndHolds
  <2> QED
    BY <1>1, <2>1, <2>2, <2>3, <2>4, <2>5, <2>6, <2>7 DEF Api!Serve
<1>2. CASE UNCHANGED Api!vars
  <2>1. UNCHANGED <<tenants, now, keys, audit, req, late, lost>> /\ UNCHANGED Api!flagVars
    BY <1>2 DEF Api!vars, Api!keyVars, Api!apiVars
  <2>2. FlagInv'
    BY <2>1, FlagsRest
  <2>3. ApiTypes'
    BY <2>1 DEF ApiInv, ApiTypes, MayBe
  <2>4. Logged' = Logged
    BY <2>1 DEF Logged
  <2>5. ChangesLogged'
    BY <2>1, <2>4 DEF ApiInv, ChangesLogged, Api!Entry
  <2>6. \A t \in Customer : LateOK(t)'
    BY <2>1 DEF ApiInv, LateOK, Waiting
  <2> QED
    BY <2>2, <2>3, <2>5, <2>6 DEF ApiInv
<1> QED
  BY <1>1, <1>2 DEF Api!Next

LEMMA SoonFollows == ApiParameters /\ ApiInv => Api!AccessEndsSoon
<1> SUFFICES ASSUME ApiParameters, ApiInv, NEW t \in Customer PROVE late[t] < Cardinality(Proc)
  BY SameCount DEF Api!AccessEndsSoon
<1>1. late[t] \in Nat /\ LateOK(t)
  BY DEF ApiInv, ApiTypes
<1>2. Cardinality(Proc) \in Nat /\ Cardinality(Proc) > 0 /\ Cardinality(Waiting(t)) \in Nat
  BY WaitingFinite
<1> QED
  BY <1>1, <1>2 DEF LateOK

LEMMA AuditFollows == ApiInv => Api!ChangesAreAudited
<1> SUFFICES ASSUME ApiInv PROVE Api!ChangesAreAudited
  OBVIOUS
<1>1. \A w, x : Api!Accounted(w, x) <=> Api!Entry(w, x) \in Logged
  BY DEF Api!Accounted, Logged
<1> QED
  BY <1>1 DEF ApiInv, ChangesLogged, Api!ChangesAreAudited, Api!Row, Off

LEMMA ApiStaysSound == ASSUME ApiParameters PROVE PartSpec => []LiveApiInv
<1>1. PartInit => LiveApiInv
  BY ApiInitHolds, LiveStarts DEF LiveApiInv
<1>2. LiveApiInv /\ [PartNext]_partVars => LiveApiInv'
  BY ApiStepHolds, LiveSteps DEF LiveApiInv
<1> QED
  BY <1>1, <1>2, PTL DEF PartSpec

\* A tenant that was deactivated is let in no more but for the requests already past
\* verify_api_key (auth/api_key.py), one at most in each of the other processes, for any
\* number of processes, tenants and keys, whatever fails.
THEOREM AccessIsEnded ==
  ASSUME ApiParameters
  PROVE  PartSpec => []AccessEndsSoon
<1>1. LiveApiInv => AccessEndsSoon
  BY SoonFollows DEF LiveApiInv, AccessEndsSoon
<1> QED
  BY <1>1, ApiStaysSound, PTL

\* Every tenant made or deactivated and every key revoked has its entry in the audit log
\* (router/api_router.py), or its request is still to write it or has failed.
THEOREM ChangesStayAudited ==
  ASSUME ApiParameters
  PROVE  PartSpec => []ChangesAreAudited
<1>1. LiveApiInv => ChangesAreAudited
  BY AuditFollows DEF LiveApiInv, ChangesAreAudited
<1> QED
  BY <1>1, ApiStaysSound, PTL

\* A process answers for a feature what the table and the plan say, until another process
\* changes the override (auth/feature_flags.py): a stale cache never outlives a change of
\* its own process.
THEOREM OwnChangesStaySeen ==
  ASSUME ApiParameters
  PROVE  PartSpec => []OwnChangesAreSeen
<1>1. LiveApiInv => OwnChangesAreSeen
  BY OwnFollows DEF LiveApiInv, ApiInv, OwnChangesAreSeen
<1> QED
  BY <1>1, ApiStaysSound, PTL

-----------------------------------------------------------------------------
(* What SumFunction computes for functions on a finite set.  Induction is over a set *)
(* of numbers, from the well-foundedness of < on Nat.                                *)

\* A set of numbers that has 0 and with each number the next has all.
LEMMA NumbersFollow ==
  ASSUME NEW Q, 0 \in Q, \A n \in Nat : n \in Q => n + 1 \in Q
  PROVE  Nat \subseteq Q
<1> DEFINE T == Nat \ Q
<1> SUFFICES ASSUME T # {} PROVE FALSE
  OBVIOUS
<1>1. PICK x \in T : \A y \in T : ~ (<<y, x>> \in OpToRel(<, Nat))
  <2>1. T \subseteq Nat
    OBVIOUS
  <2> HIDE DEF T
  <2> QED
    BY <2>1, NatLessThanWellFounded, WFMin
<1>2. x \in Nat /\ x # 0 /\ x \notin Q
  OBVIOUS
<1>3. x - 1 \in Nat /\ x - 1 < x /\ (x - 1) + 1 = x
  BY <1>2
<1>4. <<x - 1, x>> \in OpToRel(<, Nat)
  BY <1>2, <1>3 DEF OpToRel
<1>5. x - 1 \in Q
  BY <1>1, <1>3, <1>4
<1> QED
  BY <1>2, <1>3, <1>5

Pick(s) == CHOOSE x \in s : TRUE

\* The equation that defines the sums of f over the subsets of its domain.
Adds(sum, f, D) ==
  sum = [s \in D |-> IF s = {} THEN 0 ELSE f[Pick(s)] + sum[s \ {Pick(s)}]]

Sums(f) == CHOOSE sum : Adds(sum, f, SUBSET DOMAIN f)

LEMMA SumIsSums == ASSUME NEW f PROVE SumFunction(f) = Sums(f)[DOMAIN f]
BY DEF SumFunction, SumFunctionOnSet, FoldFunctionOnSet, MapThenFoldSet, Sums, Adds, Pick

\* The subsets of a finite set with at most n elements.
UpTo(n, S) == {s \in SUBSET S : Cardinality(s) <= n}

LEMMA PickLeaves ==
  ASSUME NEW S, IsFiniteSet(S), NEW s \in SUBSET S, s # {}
  PROVE  /\ Pick(s) \in s /\ s \ {Pick(s)} \in SUBSET S
         /\ Cardinality(s) \in Nat \ {0} /\ Cardinality(s \ {Pick(s)}) = Cardinality(s) - 1
<1>1. Pick(s) \in s
  BY DEF Pick
<1>2. IsFiniteSet(s)
  BY FS_Subset
<1> QED
  BY <1>1, <1>2, FS_RemoveElement, FS_EmptySet, FS_CardinalityType

LEMMA NoneUpToZero == ASSUME NEW S, IsFiniteSet(S), NEW s \in UpTo(0, S) PROVE s = {}
<1> SUFFICES ASSUME s # {} PROVE FALSE
  OBVIOUS
<1>1. s \in SUBSET S /\ Cardinality(s) <= 0
  BY DEF UpTo
<1>2. Cardinality(s) \in Nat \ {0}
  BY <1>1, PickLeaves
<1> QED
  BY <1>1, <1>2

LEMMA OneLessUpTo ==
  ASSUME NEW S, IsFiniteSet(S), NEW n \in Nat, NEW s \in UpTo(n + 1, S), s # {}
  PROVE  Pick(s) \in s /\ Pick(s) \in S /\ s \ {Pick(s)} \in UpTo(n, S)
<1>1. s \in SUBSET S /\ Cardinality(s) <= n + 1
  BY DEF UpTo
<1>2. /\ Pick(s) \in s /\ s \ {Pick(s)} \in SUBSET S
      /\ Cardinality(s) \in Nat \ {0} /\ Cardinality(s \ {Pick(s)}) = Cardinality(s) - 1
  BY <1>1, PickLeaves
<1>3. Cardinality(s \ {Pick(s)}) <= n
  BY <1>1, <1>2
<1> QED
  BY <1>1, <1>2, <1>3 DEF UpTo

\* There are such sums.
LEMMA SumsAdd ==
  ASSUME NEW S, IsFiniteSet(S), NEW f, DOMAIN f = S
  PROVE  Adds(Sums(f), f, SUBSET S)
<1> DEFINE Q == {n \in Nat : \E g : Adds(g, f, UpTo(n, S))}
<1>1. 0 \in Q
  <2> DEFINE g == [s \in UpTo(0, S) |-> 0]
  <2>1. \A s \in UpTo(0, S) : s = {}
    BY NoneUpToZero
  <2>2. Adds(g, f, UpTo(0, S))
    BY <2>1 DEF Adds
  <2> QED
    BY <2>2
<1>2. ASSUME NEW n \in Nat, n \in Q PROVE n + 1 \in Q
  <2>1. PICK g : Adds(g, f, UpTo(n, S))
    BY <1>2
  <2> DEFINE k == [s \in UpTo(n + 1, S) |-> IF s = {} THEN 0 ELSE f[Pick(s)] + g[s \ {Pick(s)}]]
  <2>2. ASSUME NEW s \in UpTo(n, S) PROVE k[s] = g[s]
    <3>1. s \in UpTo(n + 1, S)
      <4>1. Cardinality(s) \in Nat
        BY FS_Subset, FS_CardinalityType DEF UpTo
      <4> QED
        BY <4>1 DEF UpTo
    <3> QED
      BY <2>1, <3>1 DEF Adds
  <2>3. ASSUME NEW s \in UpTo(n + 1, S), s # {} PROVE s \ {Pick(s)} \in UpTo(n, S)
    BY <2>3, OneLessUpTo
  <2>4. Adds(k, f, UpTo(n + 1, S))
    BY <2>2, <2>3 DEF Adds
  <2> QED
    BY <2>4
<1>3. Cardinality(S) \in Nat /\ UpTo(Cardinality(S), S) = SUBSET S
  BY FS_Subset, FS_CardinalityType DEF UpTo
<1>4. Nat \subseteq Q
  <2> HIDE DEF Q
  <2> QED
    BY <1>1, <1>2, NumbersFollow
<1>5. \E g : Adds(g, f, SUBSET S)
  BY <1>3, <1>4
<1> QED
  BY <1>5 DEF Sums

\* When one value grows by k, so does the sum.
LEMMA SumGrows ==
  ASSUME NEW S, IsFiniteSet(S), NEW f \in [S -> Nat], NEW g \in [S -> Nat], NEW x \in S,
         NEW k \in Nat, g[x] = f[x] + k, \A y \in S \ {x} : g[y] = f[y]
  PROVE  SumFunction(g) = SumFunction(f) + k
<1> DEFINE F == Sums(f)
           G == Sums(g)
           Q == {n \in Nat : \A s \in UpTo(n, S) :
                   F[s] \in Nat /\ G[s] = F[s] + (IF x \in s THEN k ELSE 0)}
<1>1. Adds(F, f, SUBSET S) /\ Adds(G, g, SUBSET S)
  BY SumsAdd
<1> HIDE DEF F, G
<1>2. F[{}] = 0 /\ G[{}] = 0
  BY <1>1 DEF Adds
<1>3. ASSUME NEW s \in SUBSET S, s # {}
      PROVE  F[s] = f[Pick(s)] + F[s \ {Pick(s)}] /\ G[s] = g[Pick(s)] + G[s \ {Pick(s)}]
  BY <1>1, <1>3 DEF Adds
<1>4. 0 \in Q
  <2>1. \A s \in UpTo(0, S) : s = {}
    BY NoneUpToZero
  <2>2. \A s \in UpTo(0, S) : F[s] = 0 /\ G[s] = 0 /\ x \notin s
    BY <1>2, <2>1
  <2> QED
    BY <2>2
<1>5. ASSUME NEW n \in Nat, n \in Q PROVE n + 1 \in Q
  <2> SUFFICES ASSUME NEW s \in UpTo(n + 1, S)
               PROVE  F[s] \in Nat /\ G[s] = F[s] + (IF x \in s THEN k ELSE 0)
    OBVIOUS
  <2>1. CASE s = {}
    BY <1>2, <2>1
  <2>2. CASE s # {}
    <3> DEFINE p == Pick(s)
               r == s \ {p}
    <3>1. p \in s /\ p \in S /\ r \in UpTo(n, S) /\ s \in SUBSET S
      BY <2>2, OneLessUpTo DEF UpTo
    <3>2. F[s] = f[p] + F[r] /\ G[s] = g[p] + G[r]
      BY <1>3, <2>2, <3>1
    <3>3. F[r] \in Nat /\ G[r] = F[r] + (IF x \in r THEN k ELSE 0)
      BY <1>5, <3>1
    <3>4. (x \in r <=> x \in s /\ x # p) /\ f[p] \in Nat /\ g[p] = f[p] + (IF x = p THEN k ELSE 0)
      BY <3>1
    <3> HIDE DEF p, r
    <3> QED
      BY <3>1, <3>2, <3>3, <3>4
  <2> QED
    BY <2>1, <2>2
<1>6. Nat \subseteq Q
  <2> HIDE DEF Q
  <2> QED
    BY <1>4, <1>5, NumbersFollow
<1>7. S \in UpTo(Cardinality(S), S) /\ Cardinality(S) \in Nat
  BY FS_CardinalityType DEF UpTo
<1>8. G[S] = F[S] + k
  BY <1>6, <1>7
<1> QED
  BY <1>8, SumIsSums DEF F, G

LEMMA NothingSums == ASSUME NEW S, IsFiniteSet(S) PROVE SumFunction([x \in S |-> 0]) = 0
<1> DEFINE z == [x \in S |-> 0]
           F == Sums(z)
           Q == {n \in Nat : \A s \in UpTo(n, S) : F[s] = 0}
<1>1. Adds(F, z, SUBSET S)
  BY SumsAdd
<1> HIDE DEF F
<1>2. 0 \in Q
  <2>1. \A s \in UpTo(0, S) : s = {}
    BY NoneUpToZero
  <2>2. F[{}] = 0
    BY <1>1 DEF Adds
  <2> QED
    BY <2>1, <2>2
<1>3. ASSUME NEW n \in Nat, n \in Q PROVE n + 1 \in Q
  <2>1. ASSUME NEW s \in UpTo(n + 1, S) PROVE F[s] = 0
    <3>1. s \in SUBSET S
      BY DEF UpTo
    <3>2. s = {} => F[s] = 0
      BY <1>1, <3>1 DEF Adds
    <3>3. s # {} => Pick(s) \in S /\ s \ {Pick(s)} \in UpTo(n, S)
      BY OneLessUpTo
    <3>4. s # {} => F[s] = z[Pick(s)] + F[s \ {Pick(s)}]
      BY <1>1, <3>1 DEF Adds
    <3> QED
      BY <1>3, <3>2, <3>3, <3>4
  <2> QED
    BY <2>1
<1>4. Nat \subseteq Q
  <2> HIDE DEF Q
  <2> QED
    BY <1>2, <1>3, NumbersFollow
<1>5. S \in UpTo(Cardinality(S), S) /\ Cardinality(S) \in Nat
  BY FS_CardinalityType DEF UpTo
<1>6. F[S] = 0
  BY <1>4, <1>5
<1> QED
  BY <1>6, SumIsSums DEF F

-----------------------------------------------------------------------------
(* Billing *)

Use   == [calls : Nat, runs : Nat]
Price == [base : Nat, calls : Nat, perCall : Nat, runs : Nat, perRun : Nat]

\* Prices, limits and charges are numbers, and the days of a month are counted from 1.
BillParameters ==
  /\ Pricing \in [DOMAIN Pricing -> Price]
  /\ Charge \subseteq Use
  /\ IsFiniteSet(Day) /\ Day \subseteq Nat \ {0} /\ DaysInMonth \in [Month -> Nat]
  /\ Thousand \in Nat \ {0}

UpToUse(u, v) == u.calls <= v.calls /\ u.runs <= v.runs

ABill == [base : Nat, calls : Nat, runs : Nat, due : Nat]
Entry == [bill : ABill, month : Month, failed : BOOLEAN]

\* A bill is for one of the plans and a usage between the two, or a lower one if its query
\* failed.
Billed(b, plans, low, high) ==
  \E p \in plans, u \in Use :
    /\ b.bill \in Bills!Amounts(p, u) /\ UpToUse(u, high[b.month])
    /\ ~b.failed => UpToUse(low[b.month], u)

\* A request under way has the bills of plans and usages that the tenant had since it began.
Asking == [at : {"plan", "usage", "predict"}, month : Month, day : Day, predict : BOOLEAN,
           plan : DOMAIN Pricing \cup {None}, bills : Seq(Entry), plans : SUBSET (DOMAIN Pricing),
           low : [Month -> Use]]

Requested(r, now_plan, high) ==
  /\ r \in Asking /\ IsFiniteSet(r.plans)
  /\ r.bills # <<>> /\ r.at # "predict" => r.day <= DaysInMonth[r.month]
  /\ now_plan \in r.plans /\ (r.at = "usage" => r.plan \in r.plans)
  /\ \A m \in Month : UpToUse(r.low[m], high[m])
  /\ \A i \in DOMAIN r.bills : Billed(r.bills[i], r.plans, r.low, high)

Answered(a) ==
  a # None =>
       /\ \A i \in DOMAIN a.bills : Bills!Fits(a.bills[i], a.plans, a.low, a.high)
       /\ Len(a.bills) = 2 =>
            /\ a.projected + 1 >= a.bills[2].bill.due
            /\ Bills!Cardinality(a.plans) = 1 /\ a.bills[1].month = a.bills[2].month
                 /\ ~a.bills[1].failed /\ ~a.bills[2].failed
                 => a.projected + 1 >= a.bills[1].bill.due

BillInv ==
  /\ today \in Bills!Date /\ plan \in DOMAIN Pricing
  /\ usage \in [Month \X Day -> Use] /\ metered \in [Month -> Use]
  /\ \A m \in Month : Bills!GetMonthlyUsage(m) = metered[m]
  /\ req = Bills!Idle \/ Requested(req, plan, metered)
  /\ Answered(answer)

LiveBillInv == live = "bills" => BillInv

LEMMA BillInvNext ==
  ASSUME today' \in Bills!Date, plan' \in DOMAIN Pricing,
         usage' \in [Month \X Day -> Use], metered' \in [Month -> Use],
         \A m \in Month : Bills!GetMonthlyUsage(m)' = metered'[m],
         req' = Bills!Idle \/ Requested(req', plan', metered'), Answered(answer')
  PROVE  BillInv'
<1>1. \A m \in Month : Bills!GetMonthlyUsage(m)' = metered'[m]
  OBVIOUS
<1>2. today' \in Bills!Date => (today \in Bills!Date)'
  BY DEF Bills!Date
<1>3. ASSUME Requested(req', plan', metered') PROVE Requested(req, plan, metered)'
  <2>1. \A i \in DOMAIN req'.bills : Billed(req'.bills[i], req'.plans, req'.low, metered')
    BY <1>3 DEF Requested
  <2>2. (\A i \in DOMAIN req.bills : Billed(req.bills[i], req.plans, req.low, metered))'
    BY <2>1 DEF Billed, Bills!Amounts, Bills!Rounded, Bills!Calls, Bills!Runs, Bills!Extra, UpToUse, Use
  <2>3. (\A m \in Month : UpToUse(req.low[m], metered[m]))'
    BY <1>3 DEF Requested, UpToUse
  <2>4. (req \in Asking)'
    BY <1>3 DEF Requested, Asking, Entry, ABill, Use
  <2>5. IsFiniteSet(req.plans)'
    BY <1>3 DEF Requested, IsFiniteSet
  <2>6. /\ req'.bills # <<>> /\ req'.at # "predict" => req'.day <= DaysInMonth[req'.month]
        /\ plan' \in req'.plans /\ (req'.at = "usage" => req'.plan \in req'.plans)
    BY <1>3 DEF Requested
  <2> QED
    BY <2>2, <2>3, <2>4, <2>5, <2>6 DEF Requested
<1>4. Answered(answer') => Answered(answer)'
  BY DEF Answered, Bills!Fits, Bills!Exact, Bills!Calls, Bills!Runs, Bills!Extra, Bills!Zero, Bills!Cardinality
<1>5. req' = Bills!Idle => (req = Bills!Idle)'
  BY DEF Bills!Idle
<1> QED
  BY <1>1, <1>2, <1>3, <1>4, <1>5 DEF BillInv, Use

-----------------------------------------------------------------------------
LEMMA TimesGrows == ASSUME NEW x \in Nat, NEW y \in Nat, NEW k \in Nat, x <= y PROVE x * k <= y * k /\ x * k \in Nat
OBVIOUS

\* What is rounded to cents.
LEMMA RoundedIs ==
  ASSUME NEW n \in Nat, NEW d \in Nat \ {0}, NEW q \in Bills!Rounded(n, d)
  PROVE  q \in Nat /\ q * d \in Nat /\ 2 * (q * d) <= 2 * n + d /\ 2 * n <= 2 * (q * d) + d
<1>1. q \in Nat /\ 2 * (q * d) <= 2 * n + d /\ 2 * n <= 2 * (q * d) + d
  BY DEF Bills!Rounded
<1> QED
  BY <1>1, TimesGrows

\* What is more is rounded to at most a cent less.
LEMMA RoundedGrows ==
  ASSUME NEW n \in Nat, NEW k \in Nat, NEW d \in Nat \ {0}, n <= k,
         NEW q \in Bills!Rounded(n, d), NEW r \in Bills!Rounded(k, d)
  PROVE  q <= r + 1
<1>1. q \in Nat /\ q * d \in Nat /\ 2 * (q * d) <= 2 * n + d
  BY RoundedIs
<1>2. r \in Nat /\ r * d \in Nat /\ 2 * k <= 2 * (r * d) + d
  BY RoundedIs
<1> SUFFICES ASSUME r + 2 <= q PROVE FALSE
  BY <1>1, <1>2
<1>3. (r + 2) * d <= q * d /\ (r + 2) * d \in Nat
  BY <1>1, <1>2, TimesGrows
<1>4. (r + 2) * d = r * d + 2 * d
  BY <1>2
<1>5. PICK x \in Nat, y \in Nat : x = q * d /\ y = r * d /\ 2 * x <= 2 * n + d /\ 2 * k <= 2 * y + d /\ y + 2 * d <= x
  BY <1>1, <1>2, <1>3, <1>4
<1> QED
  BY <1>5

\* A projection from some of the days is no less than what it is made from.
LEMMA ProjectionsGrow ==
  ASSUME NEW base \in Nat, NEW over \in Nat, NEW d \in Nat \ {0}, NEW n \in Nat, d <= n,
         NEW q \in Bills!Rounded(base * d + over * n, d)
  PROVE  q \in Nat /\ base + over <= q
<1>1. d * over <= n * over /\ d * over \in Nat /\ n * over \in Nat /\ base * d \in Nat
  BY TimesGrows
<1>2. over * n \in Nat /\ base * d + over * n \in Nat
  BY <1>1
<1>3. PICK k \in Nat : k = base * d + over * n
  BY <1>2
<1>4. q \in Nat /\ q * d \in Nat /\ 2 * k <= 2 * (q * d) + d
  BY <1>3, RoundedIs
<1>5. (base + over) * d = base * d + over * d /\ over * d = d * over /\ over * n = n * over
  OBVIOUS
<1>6. (base + over) * d \in Nat /\ (base + over) * d <= k
  BY <1>1, <1>3, <1>5
<1> SUFFICES ASSUME q + 1 <= base + over PROVE FALSE
  BY <1>4
<1>7. (q + 1) * d <= (base + over) * d /\ (q + 1) * d \in Nat
  BY <1>4, TimesGrows
<1>8. (q + 1) * d = q * d + d
  BY <1>4
<1>9. PICK x \in Nat, y \in Nat : x = q * d /\ y = (base + over) * d /\ 2 * k <= 2 * x + d /\ y <= k /\ x + d <= y
  BY <1>4, <1>6, <1>7, <1>8
<1> QED
  BY <1>9

\* More usage costs more.
LEMMA CostsGrow ==
  ASSUME BillParameters, NEW p \in DOMAIN Pricing, NEW u \in Use, NEW v \in Use, UpToUse(u, v)
  PROVE  /\ Pricing[p].base \in Nat
         /\ Bills!Calls(p, u) \in Nat /\ Bills!Calls(p, v) \in Nat /\ Bills!Calls(p, u) <= Bills!Calls(p, v)
         /\ Bills!Runs(p, u) \in Nat /\ Bills!Runs(p, v) \in Nat /\ Bills!Runs(p, u) <= Bills!Runs(p, v)
<1>1. /\ Pricing[p].base \in Nat /\ Pricing[p].calls \in Nat /\ Pricing[p].perCall \in Nat
      /\ Pricing[p].runs \in Nat /\ Pricing[p].perRun \in Nat
  BY DEF BillParameters, Price
<1>2. /\ u.calls \in Nat /\ u.runs \in Nat /\ v.calls \in Nat /\ v.runs \in Nat
      /\ u.calls <= v.calls /\ u.runs <= v.runs
  BY DEF Use, UpToUse
<1>3. ASSUME NEW i \in Nat, NEW j \in Nat, NEW n \in Nat, i <= j
      PROVE  Bills!Extra(i, n) \in Nat /\ Bills!Extra(i, n) <= Bills!Extra(j, n) /\ Bills!Extra(j, n) \in Nat
  BY <1>3 DEF Bills!Extra
<1>4. ASSUME NEW i \in Nat, NEW j \in Nat, NEW n \in Nat, NEW k \in Nat, i <= j
      PROVE  /\ Bills!Extra(i, n) * k \in Nat /\ Bills!Extra(j, n) * k \in Nat
             /\ Bills!Extra(i, n) * k <= Bills!Extra(j, n) * k
  <2>1. PICK x \in Nat, y \in Nat : x = Bills!Extra(i, n) /\ y = Bills!Extra(j, n) /\ x <= y
    BY <1>3, <1>4
  <2>2. x * k \in Nat /\ y * k \in Nat /\ x * k <= y * k
    BY <2>1, TimesGrows
  <2> QED
    BY <2>1, <2>2
<1>5. Bills!Calls(p, u) \in Nat /\ Bills!Calls(p, v) \in Nat /\ Bills!Calls(p, u) <= Bills!Calls(p, v)
  BY <1>1, <1>2, <1>4 DEF Bills!Calls
<1>6. Bills!Runs(p, u) \in Nat /\ Bills!Runs(p, v) \in Nat /\ Bills!Runs(p, u) <= Bills!Runs(p, v)
  BY <1>1, <1>2, <1>4 DEF Bills!Runs
<1> QED
  BY <1>1, <1>5, <1>6

LEMMA SameUse == ASSUME NEW u \in Use PROVE UpToUse(u, u)
BY DEF Use, UpToUse

LEMMA UseFollows ==
  ASSUME NEW u \in Use, NEW v \in Use, NEW w \in Use, UpToUse(u, v), UpToUse(v, w) PROVE UpToUse(u, w)
BY DEF Use, UpToUse

LEMMA NoUse == Bills!Zero \in Use /\ \A u \in Use : UpToUse(Bills!Zero, u)
BY DEF Bills!Zero, Use, UpToUse

\* What is on a bill.
LEMMA AmountsAre ==
  ASSUME BillParameters, NEW p \in DOMAIN Pricing, NEW u \in Use, NEW a \in Bills!Amounts(p, u)
  PROVE  /\ a \in ABill /\ a.base = Pricing[p].base /\ a.runs = Bills!Runs(p, u)
         /\ a.calls \in Bills!Rounded(Bills!Calls(p, u), Thousand)
         /\ \E added \in Bills!Rounded(Bills!Calls(p, u), Thousand) : a.due = a.base + a.runs + added
<1>1. PICK shown \in Bills!Rounded(Bills!Calls(p, u), Thousand), added \in Bills!Rounded(Bills!Calls(p, u), Thousand) :
        a = [base |-> Pricing[p].base, calls |-> shown, runs |-> Bills!Runs(p, u),
             due |-> Pricing[p].base + Bills!Runs(p, u) + added]
  BY DEF Bills!Amounts
<1>2. Pricing[p].base \in Nat /\ Bills!Runs(p, u) \in Nat /\ Bills!Calls(p, u) \in Nat
  BY SameUse, CostsGrow
<1>3. shown \in Nat /\ added \in Nat
  BY <1>2, RoundedIs DEF BillParameters
<1>4. a.base = Pricing[p].base /\ a.runs = Bills!Runs(p, u) /\ a.calls = shown /\ a.due = a.base + a.runs + added
  BY <1>1
<1>5. a \in ABill
  BY <1>1, <1>2, <1>3 DEF ABill
<1> QED
  BY <1>4, <1>5

\* What is due for one usage, against what is exact for another.
LEMMA DueFits ==
  ASSUME BillParameters, NEW p \in DOMAIN Pricing, NEW u \in Use, NEW v \in Use, NEW a \in Bills!Amounts(p, u)
  PROVE  /\ UpToUse(u, v) => 2 * (a.due * Thousand) <= 2 * Bills!Exact(p, v) + Thousand
         /\ UpToUse(v, u) => 2 * Bills!Exact(p, v) <= 2 * (a.due * Thousand) + Thousand
<1>1. PICK k \in Nat : k = Thousand /\ k # 0
  BY DEF BillParameters
<1>2. PICK base \in Nat, runs \in Nat, calls \in Nat :
        base = Pricing[p].base /\ runs = Bills!Runs(p, u) /\ calls = Bills!Calls(p, u)
  BY SameUse, CostsGrow
<1>3. PICK more \in Nat, extra \in Nat : more = Bills!Runs(p, v) /\ extra = Bills!Calls(p, v)
  BY SameUse, CostsGrow
<1>4. /\ UpToUse(u, v) => runs <= more /\ calls <= extra
      /\ UpToUse(v, u) => more <= runs /\ extra <= calls
  BY <1>2, <1>3, CostsGrow
<1>5. PICK added \in Bills!Rounded(calls, k) : a.due = base + runs + added
  BY <1>1, <1>2, AmountsAre
<1>6. added \in Nat /\ added * k \in Nat /\ 2 * (added * k) <= 2 * calls + k /\ 2 * calls <= 2 * (added * k) + k
  BY <1>1, RoundedIs
<1>7. PICK x \in Nat, y \in Nat : x = (base + runs) * k /\ y = (base + more) * k
  BY <1>2, <1>3, TimesGrows
<1>8. (runs <= more => x <= y) /\ (more <= runs => y <= x)
  <2>1. runs <= more => base + runs <= base + more
    OBVIOUS
  <2>2. more <= runs => base + more <= base + runs
    OBVIOUS
  <2> QED
    BY <1>7, <2>1, <2>2, TimesGrows
<1>9. a.due * k = x + added * k
  BY <1>5, <1>6, <1>7
<1>10. Bills!Exact(p, v) = y + extra
  BY <1>1, <1>2, <1>3, <1>7 DEF Bills!Exact
<1>11. PICK z \in Nat : z = added * k
  BY <1>6
<1>12. ASSUME runs <= more, calls <= extra PROVE 2 * (x + z) <= 2 * (y + extra) + k
  BY <1>6, <1>8, <1>11, <1>12
<1>13. ASSUME more <= runs, extra <= calls PROVE 2 * (y + extra) <= 2 * (x + z) + k
  BY <1>6, <1>8, <1>11, <1>13
<1> QED
  BY <1>1, <1>4, <1>9, <1>10, <1>11, <1>12, <1>13

LEMMA BilledFits ==
  ASSUME BillParameters, NEW plans \in SUBSET (DOMAIN Pricing), NEW low \in [Month -> Use], NEW high \in [Month -> Use],
         NEW b \in Entry, Billed(b, plans, low, high)
  PROVE  Bills!Fits(b, plans, low, high)
<1>1. PICK p \in plans, u \in Use :
        /\ b.bill \in Bills!Amounts(p, u) /\ UpToUse(u, high[b.month])
        /\ ~b.failed => UpToUse(low[b.month], u)
  BY DEF Billed
<1>2. b.month \in Month /\ high[b.month] \in Use /\ low[b.month] \in Use /\ p \in DOMAIN Pricing
  BY DEF Entry
<1>3. 2 * (b.bill.due * Thousand) <= 2 * Bills!Exact(p, high[b.month]) + Thousand
  <2>1. PICK a \in Bills!Amounts(p, u), w \in Use : a = b.bill /\ w = high[b.month] /\ UpToUse(u, w)
    BY <1>1, <1>2
  <2>2. 2 * (a.due * Thousand) <= 2 * Bills!Exact(p, w) + Thousand
    BY <1>2, <2>1, DueFits
  <2> QED
    BY <2>1, <2>2
<1>4. PICK v \in Use : v = (IF b.failed THEN Bills!Zero ELSE low[b.month]) /\ UpToUse(v, u)
  <2>1. CASE b.failed
    BY <2>1, NoUse
  <2>2. CASE ~b.failed
    BY <1>1, <1>2, <2>2
  <2> QED
    BY <2>1, <2>2
<1>5. 2 * Bills!Exact(p, v) <= 2 * (b.bill.due * Thousand) + Thousand
  <2>1. PICK a \in Bills!Amounts(p, u) : a = b.bill
    BY <1>1
  <2>2. 2 * Bills!Exact(p, v) <= 2 * (a.due * Thousand) + Thousand
    BY <1>2, <1>4, <2>1, DueFits
  <2> QED
    BY <2>1, <2>2
<1> QED
  BY <1>3, <1>4, <1>5 DEF Bills!Fits
-----------------------------------------------------------------------------
\* The sums of Billing are those of the lemmas.
LEMMA SameSum == \A f : Bills!SumFunction(f) = SumFunction(f)
BY DEF SumFunction, SumFunctionOnSet, FoldFunctionOnSet, MapThenFoldSet,
   Bills!SumFunction, Bills!SumFunctionOnSet, Bills!FoldFunctionOnSet, Bills!MapThenFoldSet

\* A month's usage grows by what is recorded for one of its days.
LEMMA MonthGrows ==
  ASSUME BillParameters, BillInv, NEW m \in Month, NEW d \in Day, NEW c \in Use,
         usage' = [usage EXCEPT ![<<m, d>>] = Bills!Plus(@, c)]
  PROVE  /\ usage' \in [Month \X Day -> Use]
         /\ Bills!GetMonthlyUsage(m)' = Bills!Plus(metered[m], c)
         /\ \A n \in Month \ {m} : Bills!GetMonthlyUsage(n)' = metered[n]
<1>1. /\ usage \in [Month \X Day -> Use] /\ <<m, d>> \in Month \X Day /\ usage[<<m, d>>] \in Use
      /\ \A n \in Month : Bills!GetMonthlyUsage(n) = metered[n]
      /\ IsFiniteSet(Day)
  BY DEF BillInv, BillParameters
<1>2. /\ Bills!Plus(usage[<<m, d>>], c) \in Use
      /\ Bills!Plus(usage[<<m, d>>], c).calls = usage[<<m, d>>].calls + c.calls
      /\ Bills!Plus(usage[<<m, d>>], c).runs = usage[<<m, d>>].runs + c.runs
  BY <1>1 DEF Bills!Plus, Use
<1>3. /\ usage' \in [Month \X Day -> Use] /\ usage'[<<m, d>>] = Bills!Plus(usage[<<m, d>>], c)
      /\ \A n \in Month, e \in Day : <<n, e>> # <<m, d>> => usage'[<<n, e>>] = usage[<<n, e>>]
  BY <1>1, <1>2
<1>4. \A x \in Use : x.calls \in Nat /\ x.runs \in Nat
  BY DEF Use
<1>5. Bills!GetMonthlyUsage(m)' = Bills!Plus(metered[m], c)
  <2> DEFINE f == [e \in Day |-> usage[<<m, e>>].calls]
             g == [e \in Day |-> usage'[<<m, e>>].calls]
             h == [e \in Day |-> usage[<<m, e>>].runs]
             k == [e \in Day |-> usage'[<<m, e>>].runs]
  <2>1. \A e \in Day : usage[<<m, e>>] \in Use /\ usage'[<<m, e>>] \in Use
    BY <1>1, <1>3
  <2>2. f \in [Day -> Nat] /\ g \in [Day -> Nat] /\ h \in [Day -> Nat] /\ k \in [Day -> Nat]
    BY <1>4, <2>1
  <2>3. \A e \in Day \ {d} : usage'[<<m, e>>] = usage[<<m, e>>]
    BY <1>3
  <2>4. /\ g[d] = f[d] + c.calls /\ k[d] = h[d] + c.runs
        /\ \A e \in Day \ {d} : g[e] = f[e] /\ k[e] = h[e]
    BY <1>2, <1>3, <2>3
  <2>5. SumFunction(f) = metered[m].calls /\ SumFunction(h) = metered[m].runs
    <3>1. Bills!GetMonthlyUsage(m) = [calls |-> SumFunction(f), runs |-> SumFunction(h)]
      BY SameSum DEF Bills!GetMonthlyUsage
    <3> QED
      BY <1>1, <3>1
  <2> HIDE DEF f, g, h, k
  <2>6. SumFunction(g) = SumFunction(f) + c.calls
    <3>1. PICK i \in Nat : i = c.calls
      BY <1>4
    <3>2. g[d] = f[d] + i /\ \A e \in Day \ {d} : g[e] = f[e]
      BY <2>4, <3>1
    <3>3. IsFiniteSet(Day) /\ f \in [Day -> Nat] /\ g \in [Day -> Nat]
      BY <1>1, <2>2
    <3>4. SumFunction(g) = SumFunction(f) + i
      BY <3>2, <3>3, SumGrows
    <3> QED
      BY <3>1, <3>4
  <2>8. SumFunction(k) = SumFunction(h) + c.runs
    <3>1. PICK i \in Nat : i = c.runs
      BY <1>4
    <3> QED
      BY <1>1, <2>2, <2>4, <3>1, SumGrows
  <2>7. Bills!GetMonthlyUsage(m)' = [calls |-> SumFunction(g), runs |-> SumFunction(k)]
    BY SameSum DEF Bills!GetMonthlyUsage, g, k
  <2> QED
    BY <2>5, <2>6, <2>7, <2>8 DEF Bills!Plus
<1>6. ASSUME NEW n \in Month \ {m} PROVE Bills!GetMonthlyUsage(n)' = metered[n]
  <2>1. \A e \in Day : usage'[<<n, e>>] = usage[<<n, e>>]
    BY <1>3
  <2>2. Bills!GetMonthlyUsage(n)' = Bills!GetMonthlyUsage(n)
    BY <2>1 DEF Bills!GetMonthlyUsage
  <2> QED
    BY <1>1, <2>2
<1> QED
  BY <1>3, <1>5, <1>6

\* Asking is about what only grows.
LEMMA AskedStay ==
  ASSUME NEW r, NEW now_plan, NEW high \in [Month -> Use], NEW more \in [Month -> Use], Requested(r, now_plan, high),
         \A m \in Month : UpToUse(high[m], more[m])
  PROVE  Requested(r, now_plan, more)
<1>1. /\ r \in Asking /\ r.low \in [Month -> Use] /\ r.bills \in Seq(Entry)
      /\ \A m \in Month : UpToUse(r.low[m], high[m])
  BY DEF Requested, Asking
<1>2. \A m \in Month : UpToUse(r.low[m], more[m])
  <2> TAKE m \in Month
  <2>1. r.low[m] \in Use /\ high[m] \in Use /\ more[m] \in Use
    BY <1>1
  <2> QED
    BY <1>1, <2>1, UseFollows
<1>3. ASSUME NEW i \in DOMAIN r.bills PROVE Billed(r.bills[i], r.plans, r.low, more)
  <2>1. PICK p \in r.plans, u \in Use :
          /\ r.bills[i].bill \in Bills!Amounts(p, u) /\ UpToUse(u, high[r.bills[i].month])
          /\ ~r.bills[i].failed => UpToUse(r.low[r.bills[i].month], u)
    BY DEF Requested, Billed
  <2>2. r.bills[i] \in Entry
    BY <1>1
  <2>3. r.bills[i].month \in Month
    BY <2>2 DEF Entry
  <2>4. UpToUse(u, more[r.bills[i].month])
    BY <2>1, <2>3, UseFollows
  <2> QED
    BY <2>1, <2>4 DEF Billed
<1> QED
  BY <1>2, <1>3 DEF Requested

LEMMA UsageRecorded ==
  ASSUME BillParameters, BillInv, NEW m \in Month, NEW d \in Day, NEW c \in Charge, Bills!RecordUsage(m, d, c)
  PROVE  BillInv'
<1>1. /\ usage' = [usage EXCEPT ![<<m, d>>] = Bills!Plus(@, c)] /\ metered' = [metered EXCEPT ![m] = Bills!Plus(@, c)]
      /\ plan' = plan /\ req' = req /\ answer' = answer /\ today' = today
  BY DEF Bills!RecordUsage
<1>2. c \in Use
  BY DEF BillParameters
<1>3. /\ usage' \in [Month \X Day -> Use]
      /\ Bills!GetMonthlyUsage(m)' = Bills!Plus(metered[m], c)
      /\ \A n \in Month \ {m} : Bills!GetMonthlyUsage(n)' = metered[n]
  BY <1>1, <1>2, MonthGrows
<1>4. metered \in [Month -> Use]
  BY DEF BillInv
<1>5. Bills!Plus(metered[m], c) \in Use /\ UpToUse(metered[m], Bills!Plus(metered[m], c))
  <2>1. metered[m] \in Use
    BY <1>4
  <2>2. metered[m].calls \in Nat /\ metered[m].runs \in Nat /\ c.calls \in Nat /\ c.runs \in Nat
    BY <1>2, <2>1 DEF Use
  <2> QED
    BY <2>2 DEF Bills!Plus, Use, UpToUse
<1>6. metered' \in [Month -> Use] /\ metered'[m] = Bills!Plus(metered[m], c) /\ \A n \in Month \ {m} : metered'[n] = metered[n]
  BY <1>1, <1>4, <1>5
<1>7. \A n \in Month : Bills!GetMonthlyUsage(n)' = metered'[n]
  BY <1>3, <1>6
<1>8. \A n \in Month : UpToUse(metered[n], metered'[n])
  BY <1>4, <1>5, <1>6, SameUse
<1>9. Requested(req, plan, metered) => Requested(req', plan', metered')
  <2>1. ASSUME NEW more \in [Month -> Use], more = metered', Requested(req, plan, metered) PROVE Requested(req, plan, more)
    BY <1>4, <1>8, <2>1, AskedStay
  <2> QED
    BY <1>1, <1>6, <2>1
<1> QED
  BY <1>1, <1>3, <1>6, <1>7, <1>9, BillInvNext DEF BillInv

\* What changes neither usage nor what was metered.
LEMMA UsageStays ==
  ASSUME BillInv, usage' = usage, metered' = metered
  PROVE  /\ usage' \in [Month \X Day -> Use] /\ metered' \in [Month -> Use]
         /\ \A m \in Month : Bills!GetMonthlyUsage(m)' = metered'[m]
<1>1. \A m \in Month : Bills!GetMonthlyUsage(m)' = metered'[m]
  BY DEF BillInv, Bills!GetMonthlyUsage
<1> QED
  BY <1>1 DEF BillInv

LEMMA DayPasses == ASSUME BillInv, Bills!NewDay PROVE BillInv'
<1>1. today' \in Bills!Date /\ plan' = plan /\ usage' = usage /\ metered' = metered /\ req' = req /\ answer' = answer
  BY DEF Bills!NewDay
<1> QED
  BY <1>1, UsageStays, BillInvNext DEF BillInv

LEMMA PlanChanged ==
  ASSUME BillParameters, BillInv, NEW p \in DOMAIN Pricing, Bills!ChangePlan(p)
  PROVE  BillInv'
<1>1. /\ plan' = p /\ usage' = usage /\ metered' = metered /\ answer' = answer /\ today' = today
      /\ req' = IF req = Bills!Idle THEN req ELSE [req EXCEPT !.plans = @ \cup {p}]
  BY DEF Bills!ChangePlan
<1>2. ASSUME req # Bills!Idle PROVE Requested(req', plan', metered')
  <2>1. Requested(req, plan, metered) /\ req' = [req EXCEPT !.plans = @ \cup {p}] /\ req \in Asking
    BY <1>1, <1>2 DEF BillInv, Requested
  <2>2. req.plans \cup {p} \in SUBSET (DOMAIN Pricing) /\ IsFiniteSet(req.plans \cup {p})
    BY <2>1, FS_AddElement DEF Requested, Asking
  <2>3. /\ req' \in Asking /\ req'.plans = req.plans \cup {p} /\ req'.at = req.at /\ req'.plan = req.plan
        /\ req'.bills = req.bills /\ req'.low = req.low /\ req'.month = req.month /\ req'.day = req.day
    BY <2>1, <2>2 DEF Asking
  <2>4. ASSUME NEW i \in DOMAIN req.bills
        PROVE  Billed(req.bills[i], req.plans \cup {p}, req.low, metered)
    BY <2>1 DEF Requested, Billed
  <2> QED
    BY <1>1, <2>1, <2>2, <2>3, <2>4 DEF Requested
<1> QED
  BY <1>1, <1>2, UsageStays, BillInvNext DEF BillInv

\* The usages a request begins or ends with.
LEMMA UsagesMetered == ASSUME BillInv PROVE Bills!Usages = metered /\ metered \in [Month -> Use]
BY DEF BillInv, Bills!Usages

LEMMA BillAsked ==
  ASSUME BillParameters, BillInv, NEW m \in Month \cup {None}, Bills!GetBill(m)
  PROVE  BillInv'
<1>1. today \in Month \X Day /\ today[1] \in Month /\ today[2] \in Day /\ today[2] <= DaysInMonth[today[1]]
  BY DEF BillInv, Bills!Date
<1>2. PICK month \in Month : month = IF m = None THEN today[1] ELSE m
  BY <1>1
<1>3. /\ req' = [at |-> "plan", month |-> month, day |-> today[2], predict |-> m = None,
                 plan |-> None, bills |-> <<>>, plans |-> {plan}, low |-> metered]
      /\ plan' = plan /\ usage' = usage /\ metered' = metered /\ today' = today /\ answer' = None
  BY <1>2, UsagesMetered DEF Bills!GetBill
<1>4. plan \in DOMAIN Pricing /\ metered \in [Month -> Use]
  BY DEF BillInv
<1>5. req' \in Asking
  BY <1>1, <1>3, <1>4 DEF Asking
<1>6. Requested(req', plan', metered')
  <2>1. IsFiniteSet({plan})
    BY FS_Singleton
  <2>2. \A n \in Month : UpToUse(metered[n], metered[n])
    BY <1>4, SameUse
  <2> QED
    BY <1>3, <1>5, <2>1, <2>2 DEF Requested
<1>7. Answered(answer')
  BY <1>3 DEF Answered
<1> QED
  BY <1>3, <1>4, <1>6, <1>7, UsageStays, BillInvNext DEF BillInv

LEMMA PlanRead == ASSUME BillParameters, BillInv, Bills!ReadPlan PROVE BillInv'
<1>1. /\ req' \in {[req EXCEPT !.at = "usage", !.plan = plan], Bills!Idle} /\ req.at = "plan" /\ today' = today
      /\ plan' = plan /\ usage' = usage /\ metered' = metered /\ answer' = answer
  BY DEF Bills!ReadPlan
<1>2. Requested(req, plan, metered) /\ req \in Asking /\ plan \in DOMAIN Pricing
  BY <1>1 DEF BillInv, Requested, Bills!Idle
<1>3. ASSUME req' # Bills!Idle PROVE Requested(req', plan', metered')
  <2>1. /\ req' \in Asking /\ req'.plans = req.plans /\ req'.plan = plan /\ req'.bills = req.bills
        /\ req'.low = req.low /\ req'.month = req.month /\ req'.day = req.day
    BY <1>1, <1>2, <1>3 DEF Asking
  <2> QED
    BY <1>1, <1>2, <2>1 DEF Requested
<1> QED
  BY <1>1, <1>3, UsageStays, BillInvNext DEF BillInv

LEMMA Predicts == ASSUME BillParameters, BillInv, Bills!Predict PROVE BillInv'
<1>1. /\ req' = [req EXCEPT !.at = "plan", !.month = today[1], !.day = today[2], !.predict = FALSE]
      /\ req.at = "predict" /\ today' = today
      /\ plan' = plan /\ usage' = usage /\ metered' = metered /\ answer' = answer
  BY DEF Bills!Predict
<1>2. Requested(req, plan, metered) /\ req \in Asking
  BY <1>1 DEF BillInv, Requested, Bills!Idle
<1>3. today[1] \in Month /\ today[2] \in Day /\ today[2] <= DaysInMonth[today[1]]
  BY DEF BillInv, Bills!Date
<1>4. /\ req' \in Asking /\ req'.plans = req.plans /\ req'.bills = req.bills /\ req'.at = "plan"
      /\ req'.low = req.low /\ req'.month = today[1] /\ req'.day = today[2]
  BY <1>1, <1>2, <1>3 DEF Asking
<1>5. Requested(req', plan', metered')
  BY <1>1, <1>2, <1>3, <1>4 DEF Requested
<1> QED
  BY <1>1, <1>5, UsageStays, BillInvNext DEF BillInv

-----------------------------------------------------------------------------
\* A projection is at most a cent below its own bill.
LEMMA ProjectedOwn ==
  ASSUME BillParameters, NEW p \in DOMAIN Pricing, NEW u \in Use, NEW a \in Bills!Amounts(p, u),
         NEW m \in Month, NEW d \in Day, d <= DaysInMonth[m], NEW q \in Bills!Projections(a, m, d)
  PROVE  q \in Nat /\ a.base + (a.calls + a.runs) <= q /\ q + 1 >= a.due
<1>1. PICK n \in Nat : n = DaysInMonth[m] /\ d \in Nat \ {0} /\ d <= n
  BY DEF BillParameters
<1>2. PICK base \in Nat, calls \in Nat, runs \in Nat : base = a.base /\ calls = a.calls /\ runs = a.runs
  BY AmountsAre DEF ABill
<1>3. q \in Bills!Rounded(base * d + (calls + runs) * n, d)
  BY <1>1, <1>2 DEF Bills!Projections
<1>4. q \in Nat /\ base + (calls + runs) <= q
  <2>1. PICK over \in Nat : over = calls + runs
    OBVIOUS
  <2> QED
    BY <1>1, <1>3, <2>1, ProjectionsGrow
<1>5. PICK added \in Bills!Rounded(Bills!Calls(p, u), Thousand) : a.due = base + runs + added
  BY <1>2, AmountsAre
<1>6. calls \in Bills!Rounded(Bills!Calls(p, u), Thousand) /\ Bills!Calls(p, u) \in Nat
  BY <1>2, AmountsAre, SameUse, CostsGrow
<1>7. added \in Nat /\ added <= calls + 1
  BY <1>5, <1>6, RoundedGrows, RoundedIs DEF BillParameters
<1> QED
  BY <1>2, <1>4, <1>5, <1>7

\* And below another of the same plan for less usage.
LEMMA ProjectedOther ==
  ASSUME BillParameters, NEW p \in DOMAIN Pricing, NEW u \in Use, NEW v \in Use, UpToUse(u, v),
         NEW b \in Bills!Amounts(p, u), NEW a \in Bills!Amounts(p, v), NEW q \in Nat, a.base + (a.calls + a.runs) <= q
  PROVE  q + 1 >= b.due
<1>1. PICK base \in Nat, calls \in Nat, runs \in Nat : base = a.base /\ calls = a.calls /\ runs = a.runs
  BY AmountsAre DEF ABill
<1>2. calls \in Bills!Rounded(Bills!Calls(p, v), Thousand) /\ runs = Bills!Runs(p, v) /\ base = Pricing[p].base
  BY <1>1, AmountsAre
<1>3. PICK less \in Nat, added \in Bills!Rounded(Bills!Calls(p, u), Thousand) :
        less = Bills!Runs(p, u) /\ b.due = base + less + added
  BY <1>2, AmountsAre, CostsGrow
<1>4. /\ Bills!Calls(p, u) \in Nat /\ Bills!Calls(p, v) \in Nat /\ Bills!Calls(p, u) <= Bills!Calls(p, v) /\ less <= runs
  BY <1>2, <1>3, CostsGrow
<1>5. added \in Nat /\ added <= calls + 1
  BY <1>2, <1>3, <1>4, RoundedGrows, RoundedIs DEF BillParameters
<1> QED
  BY <1>1, <1>3, <1>4, <1>5

LEMMA UsageRead == ASSUME BillParameters, BillInv, Bills!ReadUsage PROVE BillInv'
<1>1. req.at = "usage" /\ plan' = plan /\ usage' = usage /\ metered' = metered /\ today' = today
  BY DEF Bills!ReadUsage
<1>2. Requested(req, plan, metered) /\ req \in Asking
  BY <1>1 DEF BillInv, Requested, Bills!Idle
<1>3. /\ metered \in [Month -> Use] /\ req.low \in [Month -> Use] /\ req.plan \in req.plans
      /\ req.plans \in SUBSET (DOMAIN Pricing) /\ req.plan \in DOMAIN Pricing
      /\ req.bills \in Seq(Entry) /\ req.day \in Day /\ req.month \in Month
      /\ Bills!GetMonthlyUsage(req.month) = metered[req.month]
      /\ \A m \in Month : UpToUse(req.low[m], metered[m])
  BY <1>1, <1>2 DEF BillInv, Requested, Asking
<1>4. PICK fails \in BOOLEAN, u \in Use, bill \in ABill :
        /\ u = (IF fails THEN Bills!Zero ELSE metered[req.month]) /\ bill \in Bills!Amounts(req.plan, u)
        /\ LET bills == Append(req.bills, [bill |-> bill, month |-> req.month, failed |-> fails]) IN
           IF req.predict
           THEN req' = [req EXCEPT !.at = "predict", !.bills = bills] /\ answer' = answer
           ELSE /\ \E projected \in IF req.bills = <<>> THEN {None} ELSE Bills!Projections(bill, req.month, req.day) :
                     answer' = [bills |-> bills, projected |-> projected, plans |-> req.plans,
                                low |-> req.low, high |-> metered]
                /\ req' = Bills!Idle
  <2>1. PICK fails \in BOOLEAN :
          \E bill \in Bills!Amounts(req.plan, IF fails THEN Bills!Zero ELSE metered[req.month]) :
            LET bills == Append(req.bills, [bill |-> bill, month |-> req.month, failed |-> fails]) IN
            IF req.predict
            THEN req' = [req EXCEPT !.at = "predict", !.bills = bills] /\ answer' = answer
            ELSE /\ \E projected \in IF req.bills = <<>> THEN {None} ELSE Bills!Projections(bill, req.month, req.day) :
                      answer' = [bills |-> bills, projected |-> projected, plans |-> req.plans,
                                 low |-> req.low, high |-> metered]
                 /\ req' = Bills!Idle
    BY <1>3, UsagesMetered DEF Bills!ReadUsage
  <2>2. PICK u \in Use : u = IF fails THEN Bills!Zero ELSE metered[req.month]
    BY <1>3, NoUse
  <2>3. \A bill \in Bills!Amounts(req.plan, u) : bill \in ABill
    BY <1>3, AmountsAre
  <2> QED
    BY <2>1, <2>2, <2>3
<1> DEFINE e == [bill |-> bill, month |-> req.month, failed |-> fails]
           bills == Append(req.bills, e)
<1>5. e \in Entry /\ e.bill = bill /\ e.month = req.month /\ e.failed = fails
  BY <1>3, AmountsAre DEF Entry
<1>6. Billed(e, req.plans, req.low, metered)
  <2>1. UpToUse(u, metered[req.month]) /\ (~fails => UpToUse(req.low[req.month], u))
    BY <1>3, <1>4, NoUse, SameUse
  <2> QED
    BY <1>3, <1>4, <1>5, <2>1 DEF Billed
<1> HIDE DEF e
<1>7. /\ bills \in Seq(Entry) /\ Len(bills) = Len(req.bills) + 1 /\ bills[Len(bills)] = e
      /\ \A i \in DOMAIN bills : (i \in DOMAIN req.bills /\ bills[i] = req.bills[i]) \/ bills[i] = e
  BY <1>3, <1>5
<1>8. \A i \in DOMAIN bills : Billed(bills[i], req.plans, req.low, metered)
  BY <1>2, <1>6, <1>7 DEF Requested
<1> HIDE DEF bills
<1>9. CASE req.predict
  <2>1. req' = [req EXCEPT !.at = "predict", !.bills = bills] /\ answer' = answer
    BY <1>4, <1>9 DEF bills, e
  <2>2. /\ req' \in Asking /\ req'.plans = req.plans /\ req'.plan = req.plan /\ req'.bills = bills
        /\ req'.at = "predict" /\ req'.low = req.low /\ req'.month = req.month
    BY <1>2, <1>7, <2>1 DEF Asking
  <2>3. Requested(req', plan', metered')
    BY <1>1, <1>2, <1>8, <2>2 DEF Requested
  <2> QED
    BY <1>1, <2>1, <2>3, UsageStays, BillInvNext DEF BillInv
<1>10. CASE ~req.predict
  <2>1. PICK projected \in IF req.bills = <<>> THEN {None} ELSE Bills!Projections(bill, req.month, req.day) :
          /\ answer' = [bills |-> bills, projected |-> projected, plans |-> req.plans, low |-> req.low, high |-> metered]
          /\ req' = Bills!Idle
    BY <1>4, <1>10 DEF bills, e
  <2>2. /\ answer'.bills = bills /\ answer'.plans = req.plans /\ answer'.high = metered /\ answer'.low = req.low
        /\ answer'.projected = projected
    BY <2>1
  <2>3. \A i \in DOMAIN bills : Bills!Fits(bills[i], req.plans, req.low, metered)
    BY <1>3, <1>7, <1>8, BilledFits
  <2>4. ASSUME Len(bills) = 2
        PROVE  /\ projected + 1 >= bills[2].bill.due
               /\ Bills!Cardinality(req.plans) = 1 /\ bills[1].month = bills[2].month /\ ~bills[1].failed /\ ~bills[2].failed
                    => projected + 1 >= bills[1].bill.due
    <3>1. req.bills # <<>> /\ bills[2] = e /\ 1 \in DOMAIN bills /\ bills[1] \in Entry
      <4>1. bills[2] = e
        BY <1>7, <2>4
      <4>2. Len(req.bills) \in Nat /\ Len(<<>>) = 0
        BY <1>3
      <4>3. req.bills # <<>>
        <5>1. Len(bills) = Len(req.bills) + 1
          BY <1>7
        <5> QED
          BY <2>4, <4>2, <5>1
      <4>4. DOMAIN bills = 1 .. 2 /\ 1 \in 1 .. 2
        BY <1>7, <2>4
      <4>5. bills[1] \in Entry
        <5>1. \A s \in Seq(Entry) : \A i \in DOMAIN s : s[i] \in Entry
          OBVIOUS
        <5>2. bills \in Seq(Entry)
          BY <1>7
        <5> QED
          BY <4>4, <5>1, <5>2
      <4> QED
        BY <4>1, <4>3, <4>4, <4>5
    <3>2. projected \in Bills!Projections(bill, req.month, req.day) /\ req.day <= DaysInMonth[req.month]
      BY <1>1, <1>2, <2>1, <3>1 DEF Requested
    <3>3. projected \in Nat /\ bill.base + (bill.calls + bill.runs) <= projected /\ projected + 1 >= bill.due
      BY <1>3, <1>4, <3>2, ProjectedOwn
    <3>4. ASSUME Bills!Cardinality(req.plans) = 1, bills[1].month = bills[2].month, ~bills[1].failed, ~bills[2].failed
          PROVE  projected + 1 >= bills[1].bill.due
      <4>1. req.plans = {req.plan}
        <5>1. Cardinality(req.plans) = 1 /\ IsFiniteSet(req.plans)
          BY <1>2, <3>4 DEF Requested, Bills!Cardinality, Cardinality
        <5> QED
          BY <1>3, <5>1, FS_Singleton
      <4>2. PICK v \in Use : bills[1].bill \in Bills!Amounts(req.plan, v) /\ UpToUse(v, metered[bills[1].month])
        BY <1>8, <3>1, <4>1 DEF Billed
      <4>3. u = metered[req.month] /\ bills[1].month = req.month
        BY <1>4, <1>5, <3>1, <3>4
      <4>4. PICK b \in Bills!Amounts(req.plan, v) : b = bills[1].bill /\ UpToUse(v, u)
        BY <4>2, <4>3
      <4>5. projected + 1 >= b.due
        BY <1>3, <1>4, <3>3, <4>4, ProjectedOther
      <4> QED
        BY <4>4, <4>5
    <3> QED
      BY <1>5, <3>1, <3>3, <3>4
  <2>5. Answered(answer')
    BY <2>2, <2>3, <2>4 DEF Answered
  <2> QED
    BY <1>1, <2>1, <2>5, UsageStays, BillInvNext DEF BillInv
<1> QED
  BY <1>9, <1>10

-----------------------------------------------------------------------------
LEMMA BillInitHolds == ASSUME BillParameters, Bills!Init PROVE BillInv
<1>1. Bills!Zero \in Use
  BY NoUse
<1>2. ASSUME NEW m \in Month PROVE Bills!GetMonthlyUsage(m) = metered[m]
  <2>1. \A d \in Day : usage[<<m, d>>] = Bills!Zero
    BY <1>2 DEF Bills!Init
  <2>2. \A d \in Day : usage[<<m, d>>].calls = 0 /\ usage[<<m, d>>].runs = 0
    BY <2>1 DEF Bills!Zero
  <2>3. /\ [d \in Day |-> usage[<<m, d>>].calls] = [d \in Day |-> 0]
        /\ [d \in Day |-> usage[<<m, d>>].runs] = [d \in Day |-> 0]
    BY <2>2
  <2>4. SumFunction([d \in Day |-> 0]) = 0
    BY NothingSums DEF BillParameters
  <2>5. Bills!GetMonthlyUsage(m) = Bills!Zero
    BY <2>3, <2>4, SameSum DEF Bills!GetMonthlyUsage, Bills!Zero
  <2> QED
    BY <1>2, <2>5 DEF Bills!Init
<1> QED
  BY <1>1, <1>2 DEF Bills!Init, Bills!Plan, BillInv, Answered

LEMMA BillStepHolds == ASSUME BillParameters, BillInv, [Bills!Next]_Bills!vars PROVE BillInv'
<1>1. CASE UNCHANGED Bills!vars
  <2>1. /\ plan' = plan /\ usage' = usage /\ metered' = metered /\ req' = req /\ answer' = answer /\ today' = today
    BY <1>1 DEF Bills!vars
  <2> QED
    BY <2>1, UsageStays, BillInvNext DEF BillInv
<1>2. CASE Bills!Next
  BY <1>2, DayPasses, PlanRead, Predicts, UsageRead, PlanChanged, UsageRecorded, BillAsked DEF Bills!Next, Bills!Plan
<1> QED
  BY <1>1, <1>2

\* However usage is recorded, plans are changed and days and months begin while bills are
\* made, the bills are those of the tenant's plans and usages (Billing's BillsAddUp), and a
\* projection is at most a cent below the bill it is made from, and below the amount due if
\* that is of the same month and plan.
THEOREM BillsStayTrue == ASSUME BillParameters PROVE PartSpec => []BillsAddUp
<1>1. PartInit => LiveBillInv
  BY LiveStarts, BillInitHolds DEF LiveBillInv
<1>2. LiveBillInv /\ [PartNext]_partVars => LiveBillInv'
  BY LiveSteps, BillStepHolds DEF LiveBillInv
<1>3. LiveBillInv => BillsAddUp
  BY DEF BillsAddUp, LiveBillInv, BillInv, Answered, Bills!BillsAddUp
<1> QED
  BY <1>1, <1>2, <1>3, PTL DEF PartSpec

-----------------------------------------------------------------------------
(* Plugins *)

\* Every plugin has a type, and what is not registered is neither enabled nor disabled.
PlugParameters == Plugin \subseteq DOMAIN Type /\ RunType \in Plug!Types /\ None \notin BOOLEAN

OfType(t)   == {p \in Plug!Registered : Type[p] = t}

\* s has what it has in the order of o.
Comes(o, p, q) == \E k, l \in DOMAIN o : k < l /\ o[k] = p /\ o[l] = q
Sorted(o, s)   == \A i, j \in DOMAIN s : i < j => Comes(o, s[i], s[j])

PlugTypes ==
  /\ enabled \in [Plugin -> BOOLEAN \cup {None}]
  /\ byType \in [Plug!Types -> Seq(Plugin)] /\ order \in Seq(Plugin)

Registry ==
  /\ Plug!Range(order) = Plug!Registered /\ Plug!IsInjective(order)
  /\ \A t \in Plug!Types : Plug!Range(byType[t]) = OfType(t) /\ Sorted(order, byType[t])

\* The run is at a place of the live list: what has run was before it, and a plugin that
\* stays enabled has run or is not before it.
Passed(p) == \E i \in DOMAIN byType[RunType] : i < run.next /\ byType[RunType][i] = p
RunOK ==
  /\ run \in [next : Nat \ {0}, context : Seq(Plugin)]
  /\ ~shrunk => /\ run.next <= Len(byType[RunType]) + 1
                /\ Sorted(order, run.context)
                /\ \A p \in Plug!Range(run.context) : Passed(p)
                /\ \A p \in present : p \in OfType(RunType) /\ enabled[p] /\ (Passed(p) => p \in Plug!Range(run.context))

PlugInv == PlugTypes /\ Registry /\ (run # None => RunOK)

LEMMA TailCounts ==
  \A n \in Nat : \A k \in 1 .. n :
    /\ k + 1 <= n => n - (k + 1) + 1 = n - k
    /\ ~(k + 1 <= n) => 0 = n - k
<1> SUFFICES ASSUME NEW n \in Nat, NEW k \in 1 .. n
             PROVE  /\ k + 1 <= n => n - (k + 1) + 1 = n - k
                    /\ ~(k + 1 <= n) => 0 = n - k
  OBVIOUS
<1>1. k \in Int /\ n \in Int /\ k <= n
  OBVIOUS
<1> QED
  BY <1>1, SMTT(30)

\* list.remove of a list without repetitions.
LEMMA ListWithout ==
  ASSUME NEW S, NEW s \in Seq(S), NEW p \in Plug!Range(s), Plug!IsInjective(s)
  PROVE  /\ Plug!Without(s, p) \in Seq(S)
         /\ \E k \in DOMAIN s :
              /\ s[k] = p /\ Len(Plug!Without(s, p)) = Len(s) - 1
              /\ \A i \in 1 .. Len(s) - 1 : Plug!Without(s, p)[i] = IF i < k THEN s[i] ELSE s[i + 1]
<1> DEFINE k == CHOOSE j \in DOMAIN s : s[j] = p
<1>1. k \in 1 .. Len(s) /\ s[k] = p /\ Len(s) \in Nat /\ DOMAIN s = 1 .. Len(s)
  BY DEF Plug!Range
<1>2. Plug!Without(s, p) = SubSeq(s, 1, k - 1) \o SubSeq(s, k + 1, Len(s))
  BY DEF Plug!Without
<1> HIDE DEF k
<1>3. /\ SubSeq(s, 1, k - 1) \in Seq(S) /\ Len(SubSeq(s, 1, k - 1)) = k - 1
      /\ \A i \in 1 .. k - 1 : SubSeq(s, 1, k - 1)[i] = s[i]
  BY <1>1
<1>4. /\ SubSeq(s, k + 1, Len(s)) \in Seq(S) /\ Len(SubSeq(s, k + 1, Len(s))) = Len(s) - k
      /\ \A i \in 1 .. Len(s) - k : SubSeq(s, k + 1, Len(s))[i] = s[k + i]
  <2>1. \A i \in k + 1 .. Len(s) : s[i] \in S
    BY <1>1
  <2>2. k + 1 \in Int /\ Len(s) \in Int
    BY <1>1
  <2>3. /\ SubSeq(s, k + 1, Len(s)) \in Seq(S)
        /\ Len(SubSeq(s, k + 1, Len(s))) = IF k + 1 <= Len(s) THEN Len(s) - (k + 1) + 1 ELSE 0
        /\ \A i \in 1 .. Len(s) - (k + 1) + 1 : SubSeq(s, k + 1, Len(s))[i] = s[k + 1 + i - 1]
    BY <2>1, <2>2, SubSeqProperties
  <2>5. \A i \in 1 .. Len(s) - k : SubSeq(s, k + 1, Len(s))[i] = s[k + i]
    <3>1. ASSUME NEW i \in 1 .. Len(s) - k PROVE SubSeq(s, k + 1, Len(s))[i] = s[k + i]
      <4>1. i \in 1 .. Len(s) - (k + 1) + 1 /\ k + 1 + i - 1 = k + i
        BY <1>1
      <4> QED
        BY <2>3, <4>1
    <3> QED
      BY <3>1
  <2>6. Len(SubSeq(s, k + 1, Len(s))) = Len(s) - k
    <3>1. /\ k + 1 <= Len(s) => Len(s) - (k + 1) + 1 = Len(s) - k
          /\ ~(k + 1 <= Len(s)) => 0 = Len(s) - k
      BY <1>1, TailCounts, Zenon
    <3>2. Len(SubSeq(s, k + 1, Len(s))) = IF k + 1 <= Len(s) THEN Len(s) - (k + 1) + 1 ELSE 0
      BY <2>3
    <3> QED
      BY <3>1, <3>2, Zenon
  <2>7. SubSeq(s, k + 1, Len(s)) \in Seq(S)
    BY <2>3
  <2> QED
    BY <2>5, <2>6, <2>7
<1> DEFINE f == SubSeq(s, 1, k - 1)
           g == SubSeq(s, k + 1, Len(s))
<1> HIDE DEF f, g
<1>5. f \in Seq(S) /\ Len(f) = k - 1 /\ g \in Seq(S) /\ Len(g) = Len(s) - k
  BY <1>3, <1>4 DEF f, g
<1>6. f \o g \in Seq(S) /\ Len(f \o g) = Len(s) - 1
  <2>1. Len(f \o g) = Len(f) + Len(g) /\ f \o g \in Seq(S)
    BY <1>5, ConcatProperties
  <2> QED
    BY <1>1, <1>5, <2>1
<1>7. ASSUME NEW i \in 1 .. Len(s) - 1 PROVE (f \o g)[i] = IF i < k THEN s[i] ELSE s[i + 1]
  <2>1. CASE i < k
    <3>1. i \in 1 .. Len(f)
      BY <1>1, <1>5, <2>1
    <3>2. (f \o g)[i] = f[i]
      BY <1>5, <3>1
    <3>3. f[i] = s[i]
      BY <1>1, <1>3, <2>1 DEF f
    <3> QED
      BY <2>1, <3>2, <3>3
  <2>2. CASE ~(i < k)
    <3>1. i - Len(f) \in 1 .. Len(g) /\ i > Len(f) /\ i <= Len(f) + Len(g)
      BY <1>1, <1>5, <2>2
    <3>2. (f \o g)[i] = g[i - Len(f)]
      BY <1>5, <3>1
    <3>3. g[i - Len(f)] = s[k + (i - Len(f))]
      BY <1>4, <1>5, <3>1 DEF g
    <3>4. k + (i - Len(f)) = i + 1
      BY <1>1, <1>5
    <3> QED
      BY <2>2, <3>2, <3>3, <3>4
  <2> QED
    BY <2>1, <2>2
<1>8. Plug!Without(s, p) = f \o g
  BY <1>2 DEF f, g
<1> QED
  BY <1>1, <1>6, <1>7, <1>8, Zenon

\* It has the other elements, in the same order.
LEMMA OthersStay ==
  ASSUME NEW S, NEW s \in Seq(S), NEW p \in Plug!Range(s), Plug!IsInjective(s), NEW r, r = Plug!Without(s, p)
  PROVE  /\ r \in Seq(S) /\ Plug!IsInjective(r) /\ Plug!Range(r) = Plug!Range(s) \ {p}
         /\ \A i, j \in DOMAIN r : i < j => \E k, l \in DOMAIN s : k < l /\ s[k] = r[i] /\ s[l] = r[j]
         /\ \A k, l \in DOMAIN s : k < l /\ s[k] # p /\ s[l] # p => \E i, j \in DOMAIN r : i < j /\ s[k] = r[i] /\ s[l] = r[j]
<1>1. PICK m \in DOMAIN s : s[m] = p /\ Len(r) = Len(s) - 1 /\ r \in Seq(S)
                            /\ \A i \in 1 .. Len(s) - 1 : r[i] = IF i < m THEN s[i] ELSE s[i + 1]
  BY ListWithout
<1>2. /\ Len(s) \in Nat /\ DOMAIN s = 1 .. Len(s) /\ DOMAIN r = 1 .. Len(s) - 1 /\ m \in Nat
      /\ \A i, j \in DOMAIN s : s[i] = s[j] => i = j
  BY <1>1 DEF Plug!IsInjective
<1> DEFINE From(i) == IF i < m THEN i ELSE i + 1
           To(k) == IF k < m THEN k ELSE k - 1
<1>3. \A i \in DOMAIN r : From(i) \in DOMAIN s /\ From(i) # m /\ r[i] = s[From(i)]
  BY <1>1, <1>2
<1>4. \A i, j \in DOMAIN r : i < j <=> From(i) < From(j)
  BY <1>2
<1>5. \A k \in DOMAIN s : k # m => To(k) \in DOMAIN r /\ From(To(k)) = k
  BY <1>1, <1>2
<1> HIDE DEF From, To
<1>6. Plug!IsInjective(r)
  <2>1. ASSUME NEW i \in DOMAIN r, NEW j \in DOMAIN r, r[i] = r[j] PROVE i = j
    <3>1. From(i) = From(j)
      BY <1>2, <1>3, <2>1
    <3>2. ~(i < j) /\ ~(j < i)
      BY <1>2, <1>3, <1>4, <3>1
    <3> QED
      BY <1>2, <3>2
  <2> QED
    BY <2>1 DEF Plug!IsInjective
<1>7. Plug!Range(r) = Plug!Range(s) \ {p}
  <2>1. ASSUME NEW i \in DOMAIN r PROVE r[i] \in Plug!Range(s) \ {p}
    BY <1>1, <1>2, <1>3 DEF Plug!Range
  <2>2. ASSUME NEW k \in DOMAIN s, s[k] # p PROVE s[k] \in Plug!Range(r)
    <3>1. To(k) \in DOMAIN r /\ r[To(k)] = s[k]
      BY <1>1, <1>3, <1>5, <2>2
    <3> QED
      BY <3>1 DEF Plug!Range
  <2> QED
    BY <2>1, <2>2 DEF Plug!Range
<1>8. ASSUME NEW k \in DOMAIN s, NEW l \in DOMAIN s, k < l, s[k] # p, s[l] # p
      PROVE  \E i, j \in DOMAIN r : i < j /\ s[k] = r[i] /\ s[l] = r[j]
  <2>1. To(k) \in DOMAIN r /\ To(l) \in DOMAIN r /\ From(To(k)) = k /\ From(To(l)) = l
    BY <1>1, <1>5, <1>8
  <2>2. To(k) < To(l) /\ s[k] = r[To(k)] /\ s[l] = r[To(l)]
    BY <1>3, <1>4, <1>8, <2>1
  <2> QED
    BY <2>1, <2>2
<1>9. \A i, j \in DOMAIN r : i < j => \E k, l \in DOMAIN s : k < l /\ s[k] = r[i] /\ s[l] = r[j]
  BY <1>3, <1>4
<1> QED
  BY <1>1, <1>6, <1>7, <1>8, <1>9

LEMMA ListWith ==
  ASSUME NEW S, NEW s \in Seq(S), NEW p \in S
  PROVE  /\ Append(s, p) \in Seq(S) /\ Plug!Range(Append(s, p)) = Plug!Range(s) \cup {p}
         /\ DOMAIN Append(s, p) = DOMAIN s \cup {Len(s) + 1} /\ Append(s, p)[Len(s) + 1] = p
         /\ \A i \in DOMAIN s : Append(s, p)[i] = s[i] /\ i < Len(s) + 1 /\ i \in Nat
         /\ Len(s) \in Nat /\ Len(Append(s, p)) = Len(s) + 1
         /\ Plug!IsInjective(s) /\ p \notin Plug!Range(s) => Plug!IsInjective(Append(s, p))
<1>1. /\ Append(s, p) \in Seq(S) /\ Len(s) \in Nat /\ Len(Append(s, p)) = Len(s) + 1
      /\ DOMAIN s = 1 .. Len(s) /\ DOMAIN Append(s, p) = 1 .. Len(s) + 1
      /\ \A i \in 1 .. Len(s) : Append(s, p)[i] = s[i]
      /\ Append(s, p)[Len(s) + 1] = p
  OBVIOUS
<1>2. DOMAIN Append(s, p) = DOMAIN s \cup {Len(s) + 1}
  BY <1>1
<1>3. Plug!Range(Append(s, p)) = Plug!Range(s) \cup {p}
  BY <1>1, <1>2 DEF Plug!Range
<1>4. Plug!IsInjective(s) /\ p \notin Plug!Range(s) => Plug!IsInjective(Append(s, p))
  BY <1>1, <1>2 DEF Plug!Range, Plug!IsInjective
<1> QED
  BY <1>1, <1>2, <1>3, <1>4

LEMMA StaysSorted ==
  ASSUME NEW o, NEW u, NEW s, Sorted(o, s),
         \A p \in Plug!Range(s), q \in Plug!Range(s) : Comes(o, p, q) => Comes(u, p, q)
  PROVE  Sorted(u, s)
BY DEF Sorted, Plug!Range

LEMMA GrowsSorted ==
  ASSUME NEW o, NEW s \in Seq(Plugin), NEW p \in Plugin, Sorted(o, s), \A q \in Plug!Range(s) : Comes(o, q, p)
  PROVE  Sorted(o, Append(s, p))
<1> DEFINE r == Append(s, p)
<1>1. ASSUME NEW i \in DOMAIN r, NEW j \in DOMAIN r, i < j PROVE Comes(o, r[i], r[j])
  <2>1. i \in DOMAIN s /\ r[i] = s[i]
    BY <1>1, ListWith
  <2>2. CASE j \in DOMAIN s
    BY <1>1, <2>1, <2>2, ListWith DEF Sorted
  <2>3. CASE j = Len(s) + 1
    BY <2>1, <2>3, ListWith DEF Plug!Range
  <2> QED
    BY <2>2, <2>3, ListWith
<1> QED
  BY <1>1 DEF Sorted

\* What is in the order of a list without repetitions has none.
LEMMA SortedOnce ==
  ASSUME NEW o \in Seq(Plugin), Plug!IsInjective(o), NEW s \in Seq(Plugin), Sorted(o, s)
  PROVE  Plug!IsInjective(s)
<1>1. ASSUME NEW i \in DOMAIN s, NEW j \in DOMAIN s, i < j PROVE s[i] # s[j]
  <2>1. PICK k \in DOMAIN o, l \in DOMAIN o : k < l /\ o[k] = s[i] /\ o[l] = s[j]
    BY <1>1 DEF Sorted, Comes
  <2>2. k # l
    BY <2>1
  <2> QED
    BY <2>1, <2>2 DEF Plug!IsInjective
<1>2. \A i, j \in DOMAIN s : i = j \/ i < j \/ j < i
  OBVIOUS
<1> QED
  BY <1>1, <1>2 DEF Plug!IsInjective

\* What is registered comes last.
LEMMA ComesLast ==
  ASSUME NEW o \in Seq(Plugin), NEW p \in Plugin
  PROVE  /\ \A q, r : Comes(o, q, r) => Comes(Append(o, p), q, r)
         /\ \A q \in Plug!Range(o) : Comes(Append(o, p), q, p)
<1>1. \A q, r : Comes(o, q, r) => Comes(Append(o, p), q, r)
  BY ListWith DEF Comes
<1>2. \A q \in Plug!Range(o) : Comes(Append(o, p), q, p)
  BY ListWith DEF Comes, Plug!Range
<1> QED
  BY <1>1, <1>2

LEMMA PlugInitHolds == ASSUME PlugParameters, Plug!Init PROVE PlugInv
<1>1. Plug!Registered = {}
  BY DEF Plug!Init, Plug!Registered
<1>2. Plug!Range(<<>>) = {} /\ Plug!IsInjective(<<>>) /\ Sorted(<<>>, <<>>) /\ <<>> \in Seq(Plugin)
  BY DEF Plug!Range, Plug!IsInjective, Sorted
<1> QED
  BY <1>1, <1>2 DEF Plug!Init, PlugInv, PlugTypes, Registry, OfType

LEMMA PluginRegistered ==
  ASSUME PlugParameters, PlugInv, NEW p \in Plugin, Plug!Register(p)
  PROVE  PlugInv'
<1>1. /\ p \notin Plug!Registered /\ enabled' = [enabled EXCEPT ![p] = TRUE]
      /\ byType' = [byType EXCEPT ![Type[p]] = Append(@, p)] /\ order' = Append(order, p)
      /\ run' = run /\ present' = present /\ shrunk' = shrunk
  BY DEF Plug!Register
<1>2. /\ PlugTypes /\ order \in Seq(Plugin) /\ Plug!IsInjective(order) /\ Plug!Range(order) = Plug!Registered
      /\ Type[p] \in Plug!Types
  BY DEF PlugInv, PlugTypes, Registry, PlugParameters, Plug!Types, Plug!Range
<1>3. Plug!Registered' = Plug!Registered \cup {p} /\ \A q \in Plugin \ {p} : enabled'[q] = enabled[q]
  BY <1>1, <1>2 DEF PlugTypes, Plug!Registered, PlugParameters
<1>4. \A t \in Plug!Types : OfType(t)' = IF t = Type[p] THEN OfType(t) \cup {p} ELSE OfType(t)
  BY <1>3 DEF OfType
<1>5. /\ \A q, r : Comes(order, q, r) => Comes(order', q, r)
      /\ \A q \in Plug!Registered : Comes(order', q, p)
  BY <1>1, <1>2, ComesLast
<1>6. \A s : Sorted(order, s) => Sorted(order', s)
  BY <1>5, StaysSorted
<1>7. ASSUME NEW t \in Plug!Types
      PROVE  byType'[t] \in Seq(Plugin) /\ Plug!Range(byType'[t]) = OfType(t)' /\ Sorted(order', byType'[t])
  <2>1. byType[t] \in Seq(Plugin) /\ Plug!Range(byType[t]) = OfType(t) /\ Sorted(order, byType[t])
    BY <1>2 DEF PlugInv, PlugTypes, Registry
  <2>2. CASE t # Type[p]
    <3>1. byType'[t] = byType[t]
      BY <1>1, <1>2, <2>2 DEF PlugTypes
    <3> QED
      BY <1>4, <1>6, <2>1, <2>2, <3>1
  <2>3. CASE t = Type[p]
    <3>1. byType'[t] = Append(byType[t], p)
      BY <1>1, <1>2, <2>3 DEF PlugTypes
    <3>2. Append(byType[t], p) \in Seq(Plugin) /\ Plug!Range(Append(byType[t], p)) = Plug!Range(byType[t]) \cup {p}
      BY <2>1, ListWith
    <3>3. \A q \in Plug!Range(byType[t]) : Comes(order', q, p)
      BY <1>5, <2>1 DEF OfType
    <3>4. Sorted(order', Append(byType[t], p))
      BY <1>6, <2>1, <3>3, GrowsSorted
    <3>5. OfType(t)' = OfType(t) \cup {p}
      BY <1>4, <2>3
    <3> QED
      BY <2>1, <3>1, <3>2, <3>4, <3>5
  <2> QED
    BY <2>2, <2>3
<1>8. PlugTypes'
  <2>1. order' \in Seq(Plugin) /\ enabled' \in [Plugin -> BOOLEAN \cup {None}]
    BY <1>1, <1>2 DEF PlugTypes
  <2>2. byType' \in [Plug!Types -> Seq(Plugin)]
    BY <1>1, <1>2, <1>7 DEF PlugTypes
  <2> QED
    BY <2>1, <2>2 DEF PlugTypes
<1>9. Registry'
  <2>1. Plug!Range(order') = Plug!Registered' /\ Plug!IsInjective(order')
    BY <1>1, <1>2, <1>3, ListWith
  <2> QED
    BY <1>7, <2>1 DEF Registry, Plug!Range, Plug!IsInjective
<1>10. ASSUME run # None PROVE RunOK'
  <2>1. RunOK
    BY <1>10 DEF PlugInv
  <2>2. CASE shrunk
    BY <1>1, <2>1, <2>2 DEF RunOK
  <2>3. CASE ~shrunk
    <3> DEFINE s == byType[RunType]
               r == byType'[RunType]
    <3>1. s \in Seq(Plugin) /\ (r = s \/ r = Append(s, p)) /\ run.next \in Nat \ {0} /\ run.next <= Len(s) + 1
      BY <1>1, <1>2, <2>1, <2>3 DEF PlugTypes, RunOK, PlugParameters
    <3>2. run.next <= Len(r) + 1
      BY <3>1, ListWith
    <3>3. \A i \in Nat \ {0} : i < run.next => (i \in DOMAIN r <=> i \in DOMAIN s) /\ r[i] = s[i]
      <4>1. Len(s) \in Nat /\ DOMAIN s = 1 .. Len(s)
        BY <3>1
      <4>2. \A i \in Nat \ {0} : i < run.next => i # Len(s) + 1 /\ i \in 1 .. Len(s)
        BY <3>1, <4>1
      <4> QED
        BY <3>1, <4>1, <4>2, ListWith
    <3>4. \A q : Passed(q) <=> Passed(q)'
      <4>1. \A q : Passed(q) <=> \E i \in Nat \ {0} : i < run.next /\ i \in DOMAIN s /\ s[i] = q
        BY <3>1 DEF Passed
      <4>2. \A q : Passed(q)' <=> \E i \in Nat \ {0} : i < run.next /\ i \in DOMAIN r /\ r[i] = q
        <5>1. DOMAIN r \subseteq Nat \ {0}
          <6>1. r \in Seq(Plugin)
            BY <1>1, <1>8 DEF PlugTypes, PlugParameters
          <6> QED
            BY <6>1
        <5> QED
          BY <1>1, <5>1 DEF Passed
      <4> QED
        BY <3>3, <4>1, <4>2
    <3>5. \A q \in present : q \in OfType(RunType)' /\ enabled'[q]
      <4>1. \A q \in present : q \in OfType(RunType) /\ enabled[q] /\ q \in Plug!Registered
        BY <2>1, <2>3 DEF RunOK, OfType
      <4> QED
        BY <1>1, <1>3, <1>4, <4>1 DEF PlugParameters, OfType, Plug!Registered
    <3>6. Sorted(order', run.context)
      BY <1>6, <2>1, <2>3 DEF RunOK
    <3> QED
      BY <1>1, <2>1, <2>3, <3>2, <3>4, <3>5, <3>6 DEF RunOK, Plug!Range
  <2> QED
    BY <2>2, <2>3
<1> QED
  BY <1>1, <1>8, <1>9, <1>10 DEF PlugInv

LEMMA PluginUnregistered ==
  ASSUME PlugParameters, PlugInv, NEW p \in Plugin, Plug!Unregister(p)
  PROVE  PlugInv'
<1>1. /\ p \in Plug!Registered /\ enabled' = [enabled EXCEPT ![p] = None]
      /\ byType' = [byType EXCEPT ![Type[p]] = Plug!Without(@, p)] /\ order' = Plug!Without(order, p)
      /\ run' = run /\ shrunk' = (run # None)
  BY DEF Plug!Unregister
<1>2. /\ PlugTypes /\ order \in Seq(Plugin) /\ Plug!IsInjective(order) /\ Plug!Range(order) = Plug!Registered
      /\ Type[p] \in Plug!Types /\ p \in Plug!Range(order)
  BY <1>1 DEF PlugInv, PlugTypes, Registry, PlugParameters, Plug!Types, Plug!Range
<1>3. Plug!Registered' = Plug!Registered \ {p}
  BY <1>1, <1>2 DEF PlugTypes, Plug!Registered
<1>4. \A t \in Plug!Types : OfType(t)' = OfType(t) \ {p}
  BY <1>3 DEF OfType
<1>5. /\ order' \in Seq(Plugin) /\ Plug!IsInjective(order') /\ Plug!Range(order') = Plug!Range(order) \ {p}
      /\ \A q, r : q # p /\ r # p /\ Comes(order, q, r) => Comes(order', q, r)
  BY <1>1, <1>2, OthersStay DEF Comes
<1>6. ASSUME NEW t \in Plug!Types
      PROVE  byType'[t] \in Seq(Plugin) /\ Plug!Range(byType'[t]) = OfType(t)' /\ Sorted(order', byType'[t])
  <2>1. byType[t] \in Seq(Plugin) /\ Plug!Range(byType[t]) = OfType(t) /\ Sorted(order, byType[t])
    BY <1>2 DEF PlugInv, PlugTypes, Registry
  <2>2. CASE t # Type[p]
    <3>1. byType'[t] = byType[t] /\ p \notin OfType(t)
      BY <1>1, <1>2, <2>2 DEF PlugTypes, OfType
    <3>2. Sorted(order', byType[t])
      BY <1>5, <2>1, <3>1, StaysSorted
    <3> QED
      BY <1>4, <2>1, <3>1, <3>2
  <2>3. CASE t = Type[p]
    <3>1. byType'[t] = Plug!Without(byType[t], p)
      BY <1>1, <1>2, <2>3 DEF PlugTypes
    <3>2. p \in Plug!Range(byType[t])
      BY <1>1, <2>1, <2>3 DEF OfType
    <3>3. Plug!IsInjective(byType[t])
      BY <1>2, <2>1, SortedOnce
    <3> PICK r : r = Plug!Without(byType[t], p)
      OBVIOUS
    <3>4. /\ r \in Seq(Plugin) /\ Plug!Range(r) = Plug!Range(byType[t]) \ {p}
          /\ \A i, j \in DOMAIN r : i < j => \E k, l \in DOMAIN byType[t] : k < l /\ byType[t][k] = r[i] /\ byType[t][l] = r[j]
      BY <2>1, <3>2, <3>3, OthersStay
    <3>5. Sorted(order', r)
      <4>1. ASSUME NEW i \in DOMAIN r, NEW j \in DOMAIN r, i < j PROVE Comes(order', r[i], r[j])
        <5>1. Comes(order, r[i], r[j])
          BY <2>1, <3>4, <4>1 DEF Sorted
        <5>2. r[i] # p /\ r[j] # p
          BY <3>4 DEF Plug!Range
        <5> QED
          BY <1>5, <5>1, <5>2
      <4> QED
        BY <4>1 DEF Sorted
    <3> QED
      BY <1>4, <2>1, <3>1, <3>4, <3>5
  <2> QED
    BY <2>2, <2>3
<1>7. PlugTypes'
  <2>1. order' \in Seq(Plugin) /\ enabled' \in [Plugin -> BOOLEAN \cup {None}]
    BY <1>1, <1>2, <1>5 DEF PlugTypes
  <2>2. byType' \in [Plug!Types -> Seq(Plugin)]
    BY <1>1, <1>2, <1>6 DEF PlugTypes
  <2> QED
    BY <2>1, <2>2 DEF PlugTypes
<1>8. Registry'
  <2>1. Plug!Range(order') = Plug!Registered' /\ Plug!IsInjective(order')
    BY <1>2, <1>3, <1>5
  <2> QED
    BY <1>6, <2>1 DEF Registry, Plug!Range, Plug!IsInjective
<1>9. run # None => RunOK'
  BY <1>1 DEF PlugInv, RunOK
<1> QED
  BY <1>1, <1>7, <1>8, <1>9 DEF PlugInv

LEMMA PluginSwitched ==
  ASSUME PlugParameters, PlugInv, NEW p \in Plugin, Plug!Enable(p) \/ Plug!Disable(p)
  PROVE  PlugInv'
<1>1. /\ p \in Plug!Registered /\ byType' = byType /\ order' = order /\ run' = run /\ shrunk' = shrunk
      /\ \/ enabled' = [enabled EXCEPT ![p] = TRUE] /\ present' = present
         \/ enabled' = [enabled EXCEPT ![p] = FALSE] /\ present' = present \ {p}
  BY DEF Plug!Enable, Plug!Disable
<1>2. PlugTypes
  BY DEF PlugInv
<1>3. Plug!Registered' = Plug!Registered
  BY <1>1, <1>2 DEF PlugTypes, Plug!Registered, PlugParameters
<1>4. PlugTypes'
  BY <1>1, <1>2 DEF PlugTypes
<1>5. \A t : OfType(t)' = OfType(t)
  BY <1>3 DEF OfType
<1>6. Registry'
  BY <1>1, <1>3, <1>5 DEF PlugInv, Registry, Plug!Range, Plug!IsInjective
<1>7. \A q \in present' : q \in present /\ (q \in Plugin /\ enabled[q] => enabled'[q])
  BY <1>1, <1>2 DEF PlugTypes
<1>8. run # None => RunOK'
  <2> SUFFICES ASSUME run # None PROVE RunOK'
    OBVIOUS
  <2>1. RunOK
    BY DEF PlugInv
  <2>2. \A q : Passed(q) <=> Passed(q)'
    BY <1>1 DEF Passed
  <2>3. ~shrunk => \A q \in present' : q \in OfType(RunType) /\ enabled'[q] /\ q \in present
    BY <1>7, <2>1 DEF RunOK, OfType, Plug!Registered
  <2> QED
    BY <1>1, <1>5, <2>1, <2>2, <2>3 DEF RunOK
<1> QED
  BY <1>1, <1>4, <1>6, <1>8 DEF PlugInv

LEMMA RunBegins ==
  ASSUME PlugParameters, PlugInv, Plug!Begin
  PROVE  PlugInv'
<1>1. /\ run' = [next |-> 1, context |-> <<>>] /\ shrunk' = FALSE
      /\ present' = {p \in Plug!Registered : Type[p] = RunType /\ enabled[p]}
      /\ enabled' = enabled /\ byType' = byType /\ order' = order
  BY DEF Plug!Begin
<1>2. PlugTypes' /\ Registry'
  BY <1>1 DEF PlugInv, PlugTypes, Registry, OfType, Plug!Registered, Plug!Range, Plug!IsInjective
<1>3. RunOK'
  <2>1. Sorted(order, <<>>) /\ Plug!Range(<<>>) = {} /\ <<>> \in Seq(Plugin)
    BY DEF Sorted, Plug!Range
  <2>2. byType[RunType] \in Seq(Plugin)
    BY DEF PlugInv, PlugTypes, PlugParameters
  <2>3. \A q : ~Passed(q)'
    BY <1>1, <2>2 DEF Passed
  <2>4. \A q \in present' : q \in OfType(RunType)' /\ enabled'[q]
    BY <1>1 DEF OfType, Plug!Registered
  <2> QED
    BY <1>1, <2>1, <2>2, <2>3, <2>4 DEF RunOK
<1> QED
  BY <1>2, <1>3 DEF PlugInv

LEMMA RunGoesOn ==
  ASSUME PlugParameters, PlugInv, NEW p \in Plugin, Plug!ExecuteNext(p)
  PROVE  PlugInv'
<1> DEFINE s == byType[RunType]
<1>1. /\ run # None /\ run.next <= Len(s) /\ p = s[run.next]
      /\ run' = [next |-> run.next + 1, context |-> IF enabled[p] THEN Append(run.context, p) ELSE run.context]
      /\ enabled' = enabled /\ byType' = byType /\ order' = order /\ present' = present /\ shrunk' = shrunk
  BY DEF Plug!ExecuteNext
<1>2. PlugTypes' /\ Registry'
  BY <1>1 DEF PlugInv, PlugTypes, Registry, OfType, Plug!Registered, Plug!Range, Plug!IsInjective
<1>3. /\ RunOK /\ s \in Seq(Plugin) /\ Plug!Range(s) = OfType(RunType) /\ Sorted(order, s)
      /\ run.next \in Nat \ {0} /\ run.context \in Seq(Plugin)
  BY <1>1 DEF PlugInv, PlugTypes, Registry, PlugParameters, RunOK
<1> DEFINE context == run.context
           next == run.next
<1>4. /\ run' \in [next : Nat \ {0}, context : Seq(Plugin)] /\ run'.next = next + 1
      /\ run'.context = IF enabled[p] THEN Append(context, p) ELSE context
  <2>1. Append(context, p) \in Seq(Plugin)
    BY <1>3
  <2> QED
    BY <1>1, <1>3, <2>1
<1>5. next \in DOMAIN s /\ DOMAIN s = 1 .. Len(s) /\ Len(s) \in Nat
  BY <1>1, <1>3
<1>6. \A q : Passed(q)' <=> Passed(q) \/ q = p
  <2>1. \A i \in DOMAIN s : i < next + 1 <=> i < next \/ i = next
    BY <1>3, <1>5
  <2> QED
    BY <1>1, <1>4, <1>5, <2>1 DEF Passed
<1>7. ASSUME ~shrunk PROVE Sorted(order, run'.context) /\ Plug!Range(run'.context) = Plug!Range(context) \cup (IF enabled[p] THEN {p} ELSE {})
  <2>1. Sorted(order, context) /\ \A q \in Plug!Range(context) : Passed(q)
    BY <1>3, <1>7 DEF RunOK
  <2>2. \A q \in Plug!Range(context) : Comes(order, q, p)
    BY <1>1, <1>3, <1>5, <2>1 DEF Passed, Sorted
  <2>3. Sorted(order, Append(context, p)) /\ Plug!Range(Append(context, p)) = Plug!Range(context) \cup {p}
    BY <1>3, <2>1, <2>2, GrowsSorted, ListWith
  <2> QED
    BY <1>4, <2>1, <2>3
<1>8. RunOK'
  <2>1. shrunk => RunOK'
    BY <1>1, <1>4 DEF RunOK
  <2>2. ASSUME ~shrunk PROVE RunOK'
    <3>1. run'.next <= Len(byType'[RunType]) + 1
      BY <1>1, <1>3, <1>4, <1>5
    <3>2. \A q \in Plug!Range(run'.context) : Passed(q)'
      BY <1>3, <1>6, <1>7, <2>2 DEF RunOK
    <3>3. \A q \in present : q \in OfType(RunType)' /\ enabled'[q] /\ (Passed(q)' => q \in Plug!Range(run'.context))
      BY <1>1, <1>3, <1>6, <1>7, <2>2 DEF RunOK, OfType, Plug!Registered
    <3> QED
      BY <1>1, <1>4, <1>7, <2>2, <3>1, <3>2, <3>3 DEF RunOK, Plug!Range
  <2> QED
    BY <2>1, <2>2
<1> QED
  BY <1>1, <1>2, <1>8 DEF PlugInv

LEMMA PlugStepHolds == ASSUME PlugParameters, PlugInv, [Plug!Next]_Plug!vars PROVE PlugInv'
<1>1. CASE UNCHANGED Plug!vars
  BY <1>1 DEF Plug!vars, PlugInv, PlugTypes, Registry, OfType, Plug!Registered, Plug!Range, Plug!IsInjective, RunOK, Passed
<1>2. CASE Plug!End
  <2>1. PlugTypes' /\ Registry' /\ run' = None
    BY <1>2 DEF Plug!End, PlugInv, PlugTypes, Registry, OfType, Plug!Registered, Plug!Range, Plug!IsInjective
  <2> QED
    BY <2>1 DEF PlugInv
<1> QED
  BY <1>1, <1>2, PluginRegistered, PluginUnregistered, PluginSwitched, RunBegins, RunGoesOn DEF Plug!Next

LEMMA WholeRegistry == ASSUME PlugParameters, PlugInv PROVE Plug!RegistryIsWhole
<1>1. PlugTypes /\ Registry
  BY DEF PlugInv
<1>2. /\ {x.name : x \in Plug!ListPlugins} = Plug!Registered
      /\ \A t : {x.name : x \in {y \in Plug!ListPlugins : y.type = t}} = OfType(t)
  <2>1. \A x : x \in Plug!ListPlugins <=> \E p \in Plug!Registered : x = [name |-> p, type |-> Type[p], enabled |-> enabled[p]]
    BY DEF Plug!ListPlugins
  <2>2. ASSUME NEW p \in Plug!Registered
        PROVE  \E x \in Plug!ListPlugins : x.name = p /\ x.type = Type[p]
    <3> DEFINE x == [name |-> p, type |-> Type[p], enabled |-> enabled[p]]
    <3>1. x \in Plug!ListPlugins
      BY <2>1
    <3> QED
      BY <3>1
  <2>3. ASSUME NEW x \in Plug!ListPlugins PROVE x.name \in Plug!Registered /\ x.type = Type[x.name]
    BY <2>1
  <2> HIDE DEF Plug!ListPlugins
  <2>4. {x.name : x \in Plug!ListPlugins} = Plug!Registered
    BY <2>2, <2>3
  <2>5. ASSUME NEW t PROVE {x.name : x \in {y \in Plug!ListPlugins : y.type = t}} = OfType(t)
    BY <2>2, <2>3 DEF OfType
  <2> QED
    BY <2>4, <2>5
<1>3. ASSUME NEW t \in Plug!Types PROVE Plug!Counted(t) = Plug!Cardinality({x \in Plug!ListPlugins : x.type = t})
  <2> DEFINE s == byType[t]
             listed == {x \in Plug!ListPlugins : x.type = t}
             entry(i) == [name |-> s[i], type |-> t, enabled |-> enabled[s[i]]]
             f == [i \in 1 .. Len(s) |-> entry(i)]
  <2>1. s \in Seq(Plugin) /\ Plug!Range(s) = OfType(t) /\ Sorted(order, s) /\ Plug!IsInjective(s)
    BY <1>1, SortedOnce DEF PlugTypes, Registry
  <2>2. DOMAIN s = 1 .. Len(s) /\ Len(s) \in Nat
    BY <2>1
  <2>3. \A i \in 1 .. Len(s) : entry(i) \in listed
    BY <2>1, <2>2 DEF Plug!Range, Plug!ListPlugins, OfType
  <2>4. \A x \in listed : \E i \in 1 .. Len(s) : x = entry(i)
    BY <2>1, <2>2 DEF Plug!Range, Plug!ListPlugins, OfType
  <2>5. \A i, j \in 1 .. Len(s) : entry(i) = entry(j) => i = j
    BY <2>1, <2>2 DEF Plug!IsInjective
  <2> HIDE DEF entry, listed, s
  <2>6. f \in Bijection(1 .. Len(s), listed)
    <3>1. f \in [1 .. Len(s) -> listed] /\ \A i \in 1 .. Len(s) : f[i] = entry(i)
      BY <2>3
    <3> HIDE DEF f
    <3> QED
      BY <2>4, <2>5, <3>1 DEF Bijection, Injection, Surjection, IsInjective
  <2>7. Cardinality(listed) = Len(s)
    BY <2>2, <2>6, FS_CountingElements DEF ExistsBijection
  <2> QED
    BY <2>7 DEF s, listed, Plug!Counted, Cardinality, Plug!Cardinality
<1>4. \A s : Sorted(order, s) => Plug!InOrder(s)
  BY DEF Sorted, Comes, Plug!InOrder
<1>5. ASSUME run # None, ~shrunk
      PROVE  Plug!InOrder(run.context) /\ (run.next > Len(byType[RunType]) => present \subseteq Plug!Range(run.context))
  <2>1. RunOK /\ byType[RunType] \in Seq(Plugin) /\ Plug!Range(byType[RunType]) = OfType(RunType)
    BY <1>1, <1>5 DEF PlugInv, PlugTypes, Registry, PlugParameters
  <2>2. ASSUME run.next > Len(byType[RunType]), NEW p \in present PROVE p \in Plug!Range(run.context)
    <3>1. p \in OfType(RunType) /\ (Passed(p) => p \in Plug!Range(run.context))
      BY <1>5, <2>1 DEF RunOK
    <3>2. PICK i \in DOMAIN byType[RunType] : byType[RunType][i] = p
      BY <2>1, <3>1 DEF Plug!Range
    <3>3. i < run.next
      BY <2>1, <2>2, <3>2 DEF RunOK
    <3> QED
      BY <3>1, <3>2, <3>3 DEF Passed
  <2> QED
    BY <1>4, <1>5, <2>1, <2>2 DEF RunOK
<1> QED
  BY <1>1, <1>2, <1>3, <1>4, <1>5 DEF Registry, Plug!RegistryIsWhole

LivePlugInv == live = "plug" => PlugInv

\* PluginManager: the plugins listed for a type are those registered for it, each once and
\* in the order they came, and a hook runs the enabled ones in that order.
THEOREM RegistryStaysWhole == ASSUME PlugParameters PROVE PartSpec => []RegistryIsWhole
<1>1. PartInit => LivePlugInv
  BY LiveStarts, PlugInitHolds DEF LivePlugInv
<1>2. LivePlugInv /\ [PartNext]_partVars => LivePlugInv'
  BY LiveSteps, PlugStepHolds DEF LivePlugInv
<1>3. LivePlugInv => RegistryIsWhole
  BY WholeRegistry DEF RegistryIsWhole, LivePlugInv
<1> QED
  BY <1>1, <1>2, <1>3, PTL DEF PartSpec

-----------------------------------------------------------------------------
(* What a finite set has, in the order of a number that each member has. *)

Ordered(S, h) == IsFiniteSet(S) /\ h \in [S -> Nat] /\ \A x, y \in S : h[x] = h[y] => x = y
Lower(S, h, x) == {y \in S : h[y] < h[x]}

\* How many are lower is less than how many there are, and grows.
LEMMA LowerGrows ==
  ASSUME NEW S, NEW h, Ordered(S, h)
  PROVE  /\ \A x \in S : Cardinality(Lower(S, h, x)) \in 0 .. Cardinality(S) - 1
         /\ \A x, y \in S : h[x] < h[y] => Cardinality(Lower(S, h, x)) < Cardinality(Lower(S, h, y))
<1>1. IsFiniteSet(S) /\ \A x \in S : h[x] \in Nat
  BY DEF Ordered
<1>2. \A x : IsFiniteSet(Lower(S, h, x)) /\ Cardinality(Lower(S, h, x)) \in Nat
  BY <1>1, FS_Subset, FS_CardinalityType DEF Lower
<1>3. ASSUME NEW T, IsFiniteSet(T), NEW x \in T, x \in S, Lower(S, h, x) \subseteq T
      PROVE  Cardinality(Lower(S, h, x)) <= Cardinality(T) - 1 /\ Cardinality(T) \in Nat
  <2>1. ~ h[x] < h[x]
    BY <1>1, <1>3
  <2>2. Lower(S, h, x) \in SUBSET (T \ {x})
    BY <1>3, <2>1 DEF Lower
  <2>3. IsFiniteSet(T \ {x}) /\ Cardinality(T \ {x}) = Cardinality(T) - 1
    BY <1>3, FS_RemoveElement
  <2>4. Cardinality(Lower(S, h, x)) <= Cardinality(T \ {x})
    BY <2>2, <2>3, FS_Subset
  <2> QED
    BY <1>3, <2>3, <2>4, FS_CardinalityType
<1>4. ASSUME NEW x \in S
      PROVE  Cardinality(Lower(S, h, x)) \in 0 .. Cardinality(S) - 1
  <2>1. Lower(S, h, x) \subseteq S
    BY DEF Lower
  <2>2. Cardinality(Lower(S, h, x)) <= Cardinality(S) - 1 /\ Cardinality(S) \in Nat
    BY <1>1, <1>3, <2>1
  <2> QED
    BY <1>2, <2>2
<1>5. ASSUME NEW x \in S, NEW y \in S, h[x] < h[y]
      PROVE  Cardinality(Lower(S, h, x)) < Cardinality(Lower(S, h, y))
  <2>1. x \in Lower(S, h, y)
    BY <1>5 DEF Lower
  <2>2. \A z \in S : h[z] < h[x] => h[z] < h[y]
    BY <1>1, <1>5
  <2>3. Lower(S, h, x) \subseteq Lower(S, h, y)
    BY <2>2 DEF Lower
  <2>4. Cardinality(Lower(S, h, x)) <= Cardinality(Lower(S, h, y)) - 1
    BY <1>2, <1>3, <2>1, <2>3
  <2> QED
    BY <1>2, <2>4
<1> QED
  BY <1>4, <1>5

\* It orders the set as the numbers do, and takes every value that it may.
LEMMA LowerCounts ==
  ASSUME NEW S, NEW h, Ordered(S, h)
  PROVE  /\ Cardinality(S) \in Nat
         /\ \A x, y \in S : Cardinality(Lower(S, h, x)) < Cardinality(Lower(S, h, y)) <=> h[x] < h[y]
         /\ \A n \in 0 .. Cardinality(S) - 1 : \E x \in S : Cardinality(Lower(S, h, x)) = n
<1> DEFINE r(x) == Cardinality(Lower(S, h, x))
<1>1. IsFiniteSet(S) /\ Cardinality(S) \in Nat /\ \A x \in S : h[x] \in Nat
  BY FS_CardinalityType DEF Ordered
<1>2. \A x \in S : r(x) \in 0 .. Cardinality(S) - 1
  BY LowerGrows
<1>3. \A x, y \in S : h[x] < h[y] => r(x) < r(y)
  BY LowerGrows
<1> HIDE DEF r
<1>4. \A x \in S : r(x) \in Nat
  BY <1>1, <1>2
<1>5. ASSUME NEW x \in S, NEW y \in S
      PROVE  r(x) < r(y) <=> h[x] < h[y]
  <2>1. h[x] < h[y] \/ h[x] = h[y] \/ h[y] < h[x]
    BY <1>1
  <2>2. h[x] = h[y] => x = y
    BY DEF Ordered
  <2>3. r(x) \in Nat /\ r(y) \in Nat /\ h[x] \in Nat /\ h[y] \in Nat
    BY <1>1, <1>4
  <2>4. CASE h[y] < h[x]
    BY <1>3, <2>3, <2>4
  <2>5. CASE x = y
    BY <2>3, <2>5
  <2>6. CASE h[x] < h[y]
    BY <1>3, <2>6
  <2> QED
    BY <2>1, <2>2, <2>4, <2>5, <2>6
<1>6. \A n \in 0 .. Cardinality(S) - 1 : \E x \in S : r(x) = n
  <2> DEFINE T == 0 .. Cardinality(S) - 1
             f == [x \in S |-> r(x)]
  <2>1. IsFiniteSet(T) /\ Cardinality(T) = Cardinality(S)
    BY <1>1, FS_Interval
  <2>2. \A x, y \in S : r(x) = r(y) => x = y
    <3> SUFFICES ASSUME NEW x \in S, NEW y \in S, r(x) = r(y)
                 PROVE  x = y
      OBVIOUS
    <3>1. h[x] < h[y] \/ h[x] = h[y] \/ h[y] < h[x]
      BY <1>1
    <3>2. ~ r(x) < r(y) /\ ~ r(y) < r(x)
      BY <1>4
    <3> QED
      BY <1>3, <3>1, <3>2 DEF Ordered
  <2>3. f \in Injection(S, T)
    BY <1>2, <2>2 DEF Injection, IsInjective
  <2>4. f \in Surjection(S, T)
    BY <2>1, <2>3, FS_Injection
  <2> QED
    BY <2>4 DEF Surjection
<1> QED
  BY <1>1, <1>5, <1>6 DEF r

-----------------------------------------------------------------------------
(* Conversations *)

TalkParameters == IsFiniteSet(Session) /\ MaxTurns \in Nat

Said   == [session : Session, role : {"user", "assistant"}, turn : Nat, at : Nat]
Chats  == [at : {"user", "assistant", "track"}, session : Session, turn : Nat, stamp : Nat]
Saving == {"user", "assistant"}

TalkTypes ==
  /\ messages \subseteq Said /\ IsFiniteSet(messages)
  /\ queries \subseteq [session : Session, turn : Nat]
  /\ chat \in [Proc -> Chats \cup {Talk!Idle}]
  /\ clock \in Nat /\ turns \in Nat /\ turns <= MaxTurns

\* No two messages, saved or to be saved, have the same stamp.
Stamps ==
  /\ \A m \in messages : m.at < clock
  /\ \A m, k \in messages : m.at = k.at => m = k
  /\ \A p \in Proc : chat[p].at \in Saving => chat[p].stamp < clock /\ \A m \in messages : m.at # chat[p].stamp
  /\ \A p, q \in Proc : p # q /\ chat[p].at \in Saving /\ chat[q].at \in Saving => chat[p].stamp # chat[q].stamp

\* A turn is of one process and one session, has each role once, the question first.
Turns ==
  /\ \A m \in messages : m.turn \in 1 .. turns
  /\ \A q \in queries : q.turn \in 1 .. turns
  /\ \A p \in Proc : chat[p] # Talk!Idle => chat[p].turn \in 1 .. turns /\ \A q \in queries : q.turn # chat[p].turn
  /\ \A p, q \in Proc : p # q /\ chat[p] # Talk!Idle /\ chat[q] # Talk!Idle => chat[p].turn # chat[q].turn
  /\ \A m, k \in messages : m.turn = k.turn =>
       /\ m.session = k.session
       /\ m.role = k.role => m = k
       /\ m.role = "user" /\ k.role = "assistant" => m.at < k.at
  /\ \A q, r \in queries : q.turn = r.turn => q = r
  /\ \A p \in Proc, m \in messages : chat[p] # Talk!Idle /\ m.turn = chat[p].turn =>
       /\ m.session = chat[p].session /\ chat[p].at # "user"
       /\ chat[p].at = "assistant" => m.role = "user" /\ m.at < chat[p].stamp

HasRole(turn, session, role) == \E m \in messages : m.turn = turn /\ m.session = session /\ m.role = role
Whole(turn, session) == HasRole(turn, session, "user") /\ HasRole(turn, session, "assistant")

\* An exchange that has lost nothing is whole, but for an answer that is still to be saved.
Exchanges ==
  /\ \A m \in messages : m.turn \notin lost =>
       Whole(m.turn, m.session) \/ \E p \in Proc : chat[p].at = "assistant" /\ chat[p].turn = m.turn
  /\ \A p \in Proc : chat[p] # Talk!Idle /\ chat[p].turn \notin lost =>
       /\ chat[p].at = "assistant" => HasRole(chat[p].turn, chat[p].session, "user")
       /\ chat[p].at = "track" => Whole(chat[p].turn, chat[p].session)
  /\ \A q \in queries : q.turn \notin lost => Whole(q.turn, q.session)

TalkInv == TalkTypes /\ Stamps /\ Turns /\ Exchanges

LEMMA ChatKnown ==
  ASSUME TalkTypes, NEW p \in Proc
  PROVE  /\ chat[p] = Talk!Idle \/ chat[p] \in Chats
         /\ chat[p].at \in {"user", "assistant", "track"} => chat[p] # Talk!Idle /\ chat[p] \in Chats
         /\ chat[p] # Talk!Idle => chat[p] \in Chats /\ chat[p].at \in {"user", "assistant", "track"}
                                   /\ chat[p].session \in Session /\ chat[p].turn \in Nat /\ chat[p].stamp \in Nat
BY DEF TalkTypes, Chats, Talk!Idle

LEMMA TalkInitHolds == ASSUME TalkParameters, Talk!Init PROVE TalkInv
<1>1. \A p \in Proc : chat[p] = Talk!Idle /\ chat[p].at = "idle"
  BY DEF Talk!Init, Talk!Idle
<1>2. IsFiniteSet({})
  BY FS_EmptySet
<1>3. TalkTypes
  BY <1>2 DEF Talk!Init, TalkTypes, TalkParameters
<1>4. Stamps /\ Turns /\ Exchanges
  BY <1>1 DEF Talk!Init, Stamps, Turns, Exchanges, Saving
<1> QED
  BY <1>3, <1>4 DEF TalkInv

LEMMA ChatBegins ==
  ASSUME TalkParameters, TalkInv, NEW p \in Proc, NEW s \in Session, Talk!Chat(p, s)
  PROVE  TalkInv'
<1> DEFINE new == [at |-> "user", session |-> s, turn |-> turns + 1, stamp |-> clock]
<1>1. /\ chat[p] = Talk!Idle /\ turns < MaxTurns /\ turns' = turns + 1 /\ clock' = clock + 1
      /\ chat' = [chat EXCEPT ![p] = new]
      /\ messages' = messages /\ queries' = queries /\ lost' = lost
  BY DEF Talk!Chat
<1>2. TalkTypes /\ clock \in Nat /\ turns \in Nat /\ MaxTurns \in Nat
  BY DEF TalkInv, TalkTypes, TalkParameters
<1>3. new \in Chats /\ new # Talk!Idle
  BY <1>2 DEF Chats, Talk!Idle
<1>4. chat'[p] = new /\ \A q \in Proc \ {p} : chat'[q] = chat[q]
  BY <1>1, <1>2 DEF TalkTypes
<1>5. TalkTypes'
  BY <1>1, <1>2, <1>3 DEF TalkTypes
<1>6. /\ \A m \in messages : m.at \in Nat /\ m.turn \in Nat
      /\ \A q \in Proc : chat[q] # Talk!Idle => chat[q].turn \in Nat /\ chat[q].stamp \in Nat /\ chat[q].at \in {"user", "assistant", "track"}
      /\ \A q \in Proc : chat[q].at \in {"user", "assistant", "track"} => chat[q] # Talk!Idle
  BY <1>2, ChatKnown DEF TalkTypes, Said
<1>7. Stamps'
  <2>1. Stamps
    BY DEF TalkInv
  <2>2. \A m \in messages : m.at < clock' /\ m.at # clock
    BY <1>1, <1>2, <1>6, <2>1 DEF Stamps
  <2>3. \A q \in Proc : chat[q].at \in Saving => chat[q].stamp < clock /\ chat[q].stamp \in Nat
    BY <1>6, <2>1 DEF Stamps, Saving
  <2>4. \A q \in Proc : chat'[q].at \in Saving => chat'[q].stamp < clock' /\ \A m \in messages : m.at # chat'[q].stamp
    BY <1>1, <1>2, <1>4, <2>1, <2>2, <2>3 DEF Stamps
  <2>5. \A q, r \in Proc : q # r /\ chat'[q].at \in Saving /\ chat'[r].at \in Saving => chat'[q].stamp # chat'[r].stamp
    BY <1>2, <1>4, <2>1, <2>3 DEF Stamps
  <2> QED
    BY <1>1, <2>1, <2>2, <2>4, <2>5 DEF Stamps
<1>8. Turns'
  <2>1. Turns
    BY DEF TalkInv
  <2>2. \A i \in 1 .. turns : i \in 1 .. turns' /\ i # turns + 1
    BY <1>1, <1>2
  <2>3. turns + 1 \in 1 .. turns'
    BY <1>1, <1>2
  <2>4. \A m \in messages : m.turn \in 1 .. turns' /\ m.turn # turns + 1
    BY <2>1, <2>2 DEF Turns
  <2>5. \A q \in queries : q.turn \in 1 .. turns' /\ q.turn # turns + 1
    BY <2>1, <2>2 DEF Turns
  <2>6. \A q \in Proc \ {p} : chat'[q] # Talk!Idle => chat[q].turn \in 1 .. turns' /\ chat[q].turn # turns + 1
    BY <1>4, <2>1, <2>2 DEF Turns
  <2> QED
    BY <1>1, <1>4, <2>1, <2>3, <2>4, <2>5, <2>6 DEF Turns
<1>9. Exchanges'
  <2>1. Exchanges
    BY DEF TalkInv
  <2>2. \A q \in Proc : chat[q].at = "assistant" => chat'[q] = chat[q]
    BY <1>1, <1>4 DEF Talk!Idle
  <2> QED
    BY <1>1, <1>4, <2>1, <2>2 DEF Exchanges, Whole, HasRole
<1> QED
  BY <1>5, <1>7, <1>8, <1>9 DEF TalkInv

\* The messages after one was saved, or lost.
LEMMA SavedOrLost ==
  ASSUME TalkInv, NEW p \in Proc, NEW role \in Saving, chat[p].at = role, Talk!SaveMessage(p, role)
  PROVE  /\ messages' \subseteq Said /\ IsFiniteSet(messages')
         /\ messages \subseteq messages' /\ lost \subseteq lost' /\ lost' \subseteq lost \cup {chat[p].turn}
         /\ \A m \in messages' : m.at < clock /\ m.turn \in 1 .. turns
         /\ \A m \in messages' : m \in messages \/ m.turn = chat[p].turn
         /\ \A m, k \in messages' : m.at = k.at => m = k
         /\ \A q \in Proc \ {p}, m \in messages' : chat[q].at \in Saving => m.at # chat[q].stamp
         /\ \A m, k \in messages' : m.turn = k.turn =>
              /\ m.session = k.session
              /\ m.role = k.role => m = k
              /\ m.role = "user" /\ k.role = "assistant" => m.at < k.at
         /\ \A q \in Proc \ {p}, m \in messages' : chat[q] # Talk!Idle /\ m.turn = chat[q].turn => m \in messages
         /\ \A m \in messages' : m.turn = chat[p].turn => m.session = chat[p].session /\ (role = "user" => m.role = "user")
         /\ chat[p].turn \notin lost' =>
              \E m \in messages' : m.turn = chat[p].turn /\ m.session = chat[p].session /\ m.role = role
<1>1. TalkTypes /\ Stamps /\ Turns
  BY DEF TalkInv
<1>2. /\ chat[p] # Talk!Idle /\ chat[p].session \in Session /\ chat[p].turn \in Nat /\ chat[p].stamp \in Nat
      /\ chat[p].turn \in 1 .. turns /\ chat[p].stamp < clock /\ role \in {"user", "assistant"} /\ chat[p].at \in Saving
  BY <1>1, ChatKnown DEF Saving, Stamps, Turns
<1>3. CASE messages' = messages /\ lost' = lost \cup {chat[p].turn}
  <2>1. \A m \in messages : m.turn = chat[p].turn => m.session = chat[p].session /\ (role = "user" => m.role = "user")
    BY <1>1, <1>2 DEF Turns
  <2>2. \A q \in Proc, m \in messages : chat[q].at \in Saving => m.at # chat[q].stamp
    BY <1>1 DEF Stamps
  <2> QED
    BY <1>1, <1>3, <2>1, <2>2 DEF TalkTypes, Stamps, Turns
<1>4. CASE messages' = messages \cup {Talk!Message(p, role)} /\ lost' = lost
  <2> DEFINE new == Talk!Message(p, role)
  <2>1. /\ new \in Said /\ new.turn = chat[p].turn /\ new.session = chat[p].session
        /\ new.role = role /\ new.at = chat[p].stamp
    BY <1>2 DEF Talk!Message, Said
  <2> HIDE DEF new
  <2>2. \A m \in messages' : m \in messages \/ m = new
    BY <1>4 DEF new
  <2>3. messages' \subseteq Said /\ IsFiniteSet(messages')
    <3>1. IsFiniteSet(messages \cup {new})
      BY <1>1, FS_AddElement DEF TalkTypes
    <3> QED
      BY <1>1, <1>4, <2>1, <3>1 DEF TalkTypes, new
  <2>4. \A m \in messages' : m.at < clock /\ m.turn \in 1 .. turns
    BY <1>1, <1>2, <2>1, <2>2 DEF Stamps, Turns
  <2>5. \A m \in messages : m.at # new.at
    BY <1>1, <1>2, <2>1 DEF Stamps
  <2>6. \A m, k \in messages' : m.at = k.at => m = k
    BY <1>1, <2>2, <2>5 DEF Stamps
  <2>7. \A q \in Proc \ {p}, m \in messages' : chat[q].at \in Saving => m.at # chat[q].stamp
    BY <1>1, <1>2, <2>1, <2>2 DEF Stamps
  <2>8. \A m \in messages : m.turn = new.turn =>
          m.session = new.session /\ role = "assistant" /\ m.role = "user" /\ m.at < new.at
    BY <1>1, <1>2, <2>1 DEF Turns
  <2>9. \A m, k \in messages' : m.turn = k.turn =>
          /\ m.session = k.session
          /\ m.role = k.role => m = k
          /\ m.role = "user" /\ k.role = "assistant" => m.at < k.at
    BY <1>1, <2>1, <2>2, <2>8 DEF Turns
  <2>10. \A q \in Proc \ {p}, m \in messages' : chat[q] # Talk!Idle /\ m.turn = chat[q].turn => m \in messages
    BY <1>1, <1>2, <2>1, <2>2 DEF Turns
  <2>11. \A m \in messages' : m.turn = chat[p].turn => m.session = chat[p].session /\ (role = "user" => m.role = "user")
    BY <2>1, <2>2, <2>8
  <2>12. new \in messages'
    BY <1>4 DEF new
  <2> QED
    BY <1>4, <2>1, <2>2, <2>3, <2>4, <2>6, <2>7, <2>9, <2>10, <2>11, <2>12
<1> QED
  BY <1>3, <1>4 DEF Talk!SaveMessage

\* What is whole stays so when messages are added.
LEMMA WholeStays ==
  ASSUME messages \subseteq messages', NEW turn, NEW session, NEW role
  PROVE  /\ HasRole(turn, session, role) => HasRole(turn, session, role)'
         /\ Whole(turn, session) => Whole(turn, session)'
BY DEF HasRole, Whole

LEMMA QuestionSaved ==
  ASSUME TalkParameters, TalkInv, NEW p \in Proc, Talk!SaveUser(p)
  PROVE  TalkInv'
<1>0. PICK turn, session : turn = chat[p].turn /\ session = chat[p].session
  OBVIOUS
<1>1. /\ chat[p].at = "user" /\ Talk!SaveMessage(p, "user")
      /\ chat' = [chat EXCEPT ![p].at = "assistant", ![p].stamp = clock]
      /\ clock' = clock + 1 /\ queries' = queries /\ turns' = turns
  BY DEF Talk!SaveUser
<1>2. TalkTypes /\ Stamps /\ Turns /\ Exchanges /\ clock \in Nat
  BY DEF TalkInv, TalkTypes
<1>3. chat[p] \in Chats /\ chat[p] # Talk!Idle
  BY <1>1, <1>2, ChatKnown
<1>4. /\ chat'[p] = [chat[p] EXCEPT !.at = "assistant", !.stamp = clock]
      /\ \A q \in Proc \ {p} : chat'[q] = chat[q]
  BY <1>1, <1>2 DEF TalkTypes
<1>5. /\ chat'[p] \in Chats /\ chat'[p].at = "assistant" /\ chat'[p].stamp = clock
      /\ chat'[p].turn = turn /\ chat'[p].session = session /\ chat'[p] # Talk!Idle
  BY <1>0, <1>2, <1>3, <1>4 DEF Chats, Talk!Idle
<1>6. /\ messages' \subseteq Said /\ IsFiniteSet(messages')
      /\ messages \subseteq messages' /\ lost \subseteq lost' /\ lost' \subseteq lost \cup {turn}
      /\ \A m \in messages' : m.at < clock /\ m.turn \in 1 .. turns
      /\ \A m \in messages' : m \in messages \/ m.turn = turn
      /\ \A m, k \in messages' : m.at = k.at => m = k
      /\ \A q \in Proc \ {p}, m \in messages' : chat[q].at \in Saving => m.at # chat[q].stamp
      /\ \A m, k \in messages' : m.turn = k.turn =>
           /\ m.session = k.session
           /\ m.role = k.role => m = k
           /\ m.role = "user" /\ k.role = "assistant" => m.at < k.at
      /\ \A q \in Proc \ {p}, m \in messages' : chat[q] # Talk!Idle /\ m.turn = chat[q].turn => m \in messages
      /\ \A m \in messages' : m.turn = turn => m.session = session /\ m.role = "user"
      /\ turn \notin lost' => \E m \in messages' : m.turn = turn /\ m.session = session /\ m.role = "user"
  BY <1>0, <1>1, SavedOrLost DEF Saving
<1>7. TalkTypes'
  <2>1. chat' \in [Proc -> Chats \cup {Talk!Idle}]
    BY <1>1, <1>2, <1>4, <1>5 DEF TalkTypes
  <2> QED
    BY <1>1, <1>2, <1>6, <2>1 DEF TalkTypes
<1>8. \A m \in messages' : m.at \in Nat
  BY <1>6 DEF Said
<1>9. \A q \in Proc : chat[q].at \in Saving => chat[q].stamp \in Nat /\ chat[q].stamp < clock
  BY <1>2, ChatKnown DEF Stamps, Saving
<1>10. Stamps'
  <2>1. \A m \in messages' : m.at < clock' /\ m.at # clock
    BY <1>1, <1>2, <1>6, <1>8
  <2>2. \A q \in Proc : chat'[q].at \in Saving => chat'[q].stamp < clock' /\ \A m \in messages' : m.at # chat'[q].stamp
    <3>1. clock < clock' /\ \A n \in Nat : n < clock => n < clock' /\ n # clock
      BY <1>1, <1>2
    <3>2. \A q \in Proc \ {p} : chat'[q].at \in Saving =>
            chat'[q].stamp < clock' /\ \A m \in messages' : m.at # chat'[q].stamp
      BY <1>4, <1>6, <1>9, <3>1
    <3> QED
      BY <1>5, <2>1, <3>1, <3>2
  <2>3. \A q, r \in Proc : q # r /\ chat'[q].at \in Saving /\ chat'[r].at \in Saving => chat'[q].stamp # chat'[r].stamp
    <3>1. \A n \in Nat : n < clock => n # clock
      BY <1>2
    <3>2. \A q \in Proc \ {p} : chat'[q].at \in Saving => chat'[q].stamp # clock
      BY <1>4, <1>9, <3>1
    <3>3. \A q, r \in Proc \ {p} : q # r /\ chat'[q].at \in Saving /\ chat'[r].at \in Saving => chat'[q].stamp # chat'[r].stamp
      BY <1>2, <1>4 DEF Stamps
    <3> QED
      BY <1>5, <3>2, <3>3
  <2> QED
    BY <1>6, <2>1, <2>2, <2>3 DEF Stamps
<1>11. Turns'
  <2>1. \A q \in Proc : chat'[q] # Talk!Idle => chat'[q].turn \in 1 .. turns /\ \A r \in queries : r.turn # chat'[q].turn
    <3>1. turn \in 1 .. turns /\ \A r \in queries : r.turn # turn
      BY <1>0, <1>2, <1>3 DEF Turns
    <3>2. \A q \in Proc \ {p} : chat'[q] # Talk!Idle => chat'[q].turn \in 1 .. turns /\ \A r \in queries : r.turn # chat'[q].turn
      BY <1>2, <1>4 DEF Turns
    <3> QED
      BY <1>5, <3>1, <3>2
  <2>2. \A q, r \in Proc : q # r /\ chat'[q] # Talk!Idle /\ chat'[r] # Talk!Idle => chat'[q].turn # chat'[r].turn
    <3>1. \A q \in Proc \ {p} : chat'[q] # Talk!Idle => chat'[q].turn # turn
      BY <1>0, <1>2, <1>3, <1>4 DEF Turns
    <3>2. \A q, r \in Proc \ {p} : q # r /\ chat'[q] # Talk!Idle /\ chat'[r] # Talk!Idle => chat'[q].turn # chat'[r].turn
      BY <1>2, <1>4 DEF Turns
    <3> QED
      BY <1>5, <3>1, <3>2
  <2>3. ASSUME NEW q \in Proc, NEW m \in messages', chat'[q] # Talk!Idle, m.turn = chat'[q].turn
        PROVE  /\ m.session = chat'[q].session /\ chat'[q].at # "user"
               /\ chat'[q].at = "assistant" => m.role = "user" /\ m.at < chat'[q].stamp
    <3>1. CASE q = p
      BY <1>5, <1>6, <2>3, <3>1
    <3>2. CASE q # p
      BY <1>2, <1>4, <1>6, <2>3, <3>2 DEF Turns
    <3> QED
      BY <3>1, <3>2
  <2> QED
    BY <1>1, <1>2, <1>6, <2>1, <2>2, <2>3 DEF Turns
<1>12. Exchanges'
  <2>1. ASSUME NEW m \in messages', m.turn \notin lost', m.turn # turn
        PROVE  Whole(m.turn, m.session)' \/ \E q \in Proc : chat'[q].at = "assistant" /\ chat'[q].turn = m.turn
    <3>1. Whole(m.turn, m.session) \/ \E q \in Proc : chat[q].at = "assistant" /\ chat[q].turn = m.turn
      BY <1>2, <1>6, <2>1 DEF Exchanges
    <3>2. CASE Whole(m.turn, m.session)
      BY <1>6, <3>2, WholeStays
    <3>3. CASE \E q \in Proc : chat[q].at = "assistant" /\ chat[q].turn = m.turn
      BY <1>1, <1>4, <3>3
    <3> QED
      BY <3>1, <3>2, <3>3
  <2>2. ASSUME NEW q \in Proc \ {p}, chat'[q] # Talk!Idle, chat'[q].turn \notin lost'
        PROVE  /\ chat'[q].at = "assistant" => HasRole(chat[q].turn, chat[q].session, "user")'
               /\ chat'[q].at = "track" => Whole(chat[q].turn, chat[q].session)'
    <3>1. /\ chat[q].at = "assistant" => HasRole(chat[q].turn, chat[q].session, "user")
          /\ chat[q].at = "track" => Whole(chat[q].turn, chat[q].session)
      BY <1>2, <1>4, <1>6, <2>2 DEF Exchanges
    <3> QED
      BY <1>4, <1>6, <3>1 DEF HasRole, Whole
  <2>3. turn \notin lost' => HasRole(turn, session, "user")'
    BY <1>6 DEF HasRole
  <2>4. ASSUME NEW r \in queries, r.turn \notin lost'
        PROVE  Whole(r.turn, r.session)'
    BY <1>2, <1>6, <2>4, WholeStays DEF Exchanges
  <2>5. \A m \in messages' : m.turn \notin lost' =>
          Whole(m.turn, m.session)' \/ \E q \in Proc : chat'[q].at = "assistant" /\ chat'[q].turn = m.turn
    BY <1>5, <2>1
  <2>6. \A q \in Proc : chat'[q] # Talk!Idle /\ chat'[q].turn \notin lost' =>
          /\ chat'[q].at = "assistant" => HasRole(chat[q].turn, chat[q].session, "user")'
          /\ chat'[q].at = "track" => Whole(chat[q].turn, chat[q].session)'
    BY <1>5, <2>2, <2>3
  <2>7. \A r \in queries' : r.turn \notin lost' => Whole(r.turn, r.session)'
    BY <1>1, <2>4
  <2> QED
    BY <2>5, <2>6, <2>7 DEF Exchanges
<1> QED
  BY <1>7, <1>10, <1>11, <1>12 DEF TalkInv

LEMMA AnswerSaved ==
  ASSUME TalkParameters, TalkInv, NEW p \in Proc, Talk!SaveAssistant(p)
  PROVE  TalkInv'
<1>0. PICK turn, session : turn = chat[p].turn /\ session = chat[p].session
  OBVIOUS
<1>1. /\ chat[p].at = "assistant" /\ Talk!SaveMessage(p, "assistant")
      /\ chat' = [chat EXCEPT ![p].at = "track"]
      /\ clock' = clock /\ queries' = queries /\ turns' = turns
  BY DEF Talk!SaveAssistant
<1>2. TalkTypes /\ Stamps /\ Turns /\ Exchanges /\ clock \in Nat
  BY DEF TalkInv, TalkTypes
<1>3. chat[p] \in Chats /\ chat[p] # Talk!Idle
  BY <1>1, <1>2, ChatKnown
<1>4. /\ chat'[p] = [chat[p] EXCEPT !.at = "track"]
      /\ \A q \in Proc \ {p} : chat'[q] = chat[q]
  BY <1>1, <1>2 DEF TalkTypes
<1>5. /\ chat'[p] \in Chats /\ chat'[p].at = "track" /\ chat'[p].at \notin Saving
      /\ chat'[p].turn = turn /\ chat'[p].session = session /\ chat'[p] # Talk!Idle
  BY <1>0, <1>2, <1>3, <1>4 DEF Chats, Talk!Idle, Saving
<1>6. /\ messages' \subseteq Said /\ IsFiniteSet(messages')
      /\ messages \subseteq messages' /\ lost \subseteq lost' /\ lost' \subseteq lost \cup {turn}
      /\ \A m \in messages' : m.at < clock /\ m.turn \in 1 .. turns
      /\ \A m \in messages' : m \in messages \/ m.turn = turn
      /\ \A m, k \in messages' : m.at = k.at => m = k
      /\ \A q \in Proc \ {p}, m \in messages' : chat[q].at \in Saving => m.at # chat[q].stamp
      /\ \A m, k \in messages' : m.turn = k.turn =>
           /\ m.session = k.session
           /\ m.role = k.role => m = k
           /\ m.role = "user" /\ k.role = "assistant" => m.at < k.at
      /\ \A q \in Proc \ {p}, m \in messages' : chat[q] # Talk!Idle /\ m.turn = chat[q].turn => m \in messages
      /\ \A m \in messages' : m.turn = turn => m.session = session
      /\ turn \notin lost' => \E m \in messages' : m.turn = turn /\ m.session = session /\ m.role = "assistant"
  BY <1>0, <1>1, SavedOrLost DEF Saving
<1>7. TalkTypes'
  <2>1. chat' \in [Proc -> Chats \cup {Talk!Idle}]
    BY <1>1, <1>2, <1>4, <1>5 DEF TalkTypes
  <2> QED
    BY <1>1, <1>2, <1>6, <2>1 DEF TalkTypes
<1>8. Stamps'
  <2>1. \A q \in Proc : chat'[q].at \in Saving =>
          q # p /\ chat'[q] = chat[q] /\ chat'[q].stamp < clock /\ \A m \in messages' : m.at # chat'[q].stamp
    <3>1. \A q \in Proc : chat'[q].at \in Saving => q # p
      BY <1>5
    <3> QED
      BY <1>2, <1>4, <1>6, <3>1 DEF Stamps
  <2> QED
    BY <1>1, <1>2, <1>6, <2>1 DEF Stamps
<1>9. Turns'
  <2>1. \A q \in Proc : chat'[q] # Talk!Idle => chat'[q].turn \in 1 .. turns /\ \A r \in queries : r.turn # chat'[q].turn
    <3>1. turn \in 1 .. turns /\ \A r \in queries : r.turn # turn
      BY <1>0, <1>2, <1>3 DEF Turns
    <3>2. \A q \in Proc \ {p} : chat'[q] # Talk!Idle => chat'[q].turn \in 1 .. turns /\ \A r \in queries : r.turn # chat'[q].turn
      BY <1>2, <1>4 DEF Turns
    <3> QED
      BY <1>5, <3>1, <3>2
  <2>2. \A q, r \in Proc : q # r /\ chat'[q] # Talk!Idle /\ chat'[r] # Talk!Idle => chat'[q].turn # chat'[r].turn
    <3>1. \A q \in Proc \ {p} : chat'[q] # Talk!Idle => chat'[q].turn # turn
      BY <1>0, <1>2, <1>3, <1>4 DEF Turns
    <3>2. \A q, r \in Proc \ {p} : q # r /\ chat'[q] # Talk!Idle /\ chat'[r] # Talk!Idle => chat'[q].turn # chat'[r].turn
      BY <1>2, <1>4 DEF Turns
    <3> QED
      BY <1>5, <3>1, <3>2
  <2>3. ASSUME NEW q \in Proc, NEW m \in messages', chat'[q] # Talk!Idle, m.turn = chat'[q].turn
        PROVE  /\ m.session = chat'[q].session /\ chat'[q].at # "user"
               /\ chat'[q].at = "assistant" => m.role = "user" /\ m.at < chat'[q].stamp
    <3>1. CASE q = p
      BY <1>5, <1>6, <2>3, <3>1
    <3>2. CASE q # p
      BY <1>2, <1>4, <1>6, <2>3, <3>2 DEF Turns
    <3> QED
      BY <3>1, <3>2
  <2> QED
    BY <1>1, <1>2, <1>6, <2>1, <2>2, <2>3 DEF Turns
<1>10. Exchanges'
  <2>1. turn \notin lost' => Whole(turn, session)'
    <3>1. turn \notin lost => HasRole(turn, session, "user")
      BY <1>0, <1>1, <1>2, <1>3 DEF Exchanges
    <3> QED
      BY <1>6, <3>1 DEF HasRole, Whole
  <2>2. ASSUME NEW m \in messages', m.turn \notin lost', m.turn # turn
        PROVE  Whole(m.turn, m.session)' \/ \E q \in Proc : chat'[q].at = "assistant" /\ chat'[q].turn = m.turn
    <3>1. Whole(m.turn, m.session) \/ \E q \in Proc : chat[q].at = "assistant" /\ chat[q].turn = m.turn
      BY <1>2, <1>6, <2>2 DEF Exchanges
    <3>2. CASE Whole(m.turn, m.session)
      BY <1>6, <3>2, WholeStays
    <3>3. CASE \E q \in Proc : chat[q].at = "assistant" /\ chat[q].turn = m.turn
      BY <1>0, <1>4, <2>2, <3>3
    <3> QED
      BY <3>1, <3>2, <3>3
  <2>3. ASSUME NEW q \in Proc \ {p}, chat'[q] # Talk!Idle, chat'[q].turn \notin lost'
        PROVE  /\ chat'[q].at = "assistant" => HasRole(chat[q].turn, chat[q].session, "user")'
               /\ chat'[q].at = "track" => Whole(chat[q].turn, chat[q].session)'
    <3>1. /\ chat[q].at = "assistant" => HasRole(chat[q].turn, chat[q].session, "user")
          /\ chat[q].at = "track" => Whole(chat[q].turn, chat[q].session)
      BY <1>2, <1>4, <1>6, <2>3 DEF Exchanges
    <3> QED
      BY <1>4, <1>6, <3>1 DEF HasRole, Whole
  <2>4. ASSUME NEW r \in queries, r.turn \notin lost'
        PROVE  Whole(r.turn, r.session)'
    BY <1>2, <1>6, <2>4, WholeStays DEF Exchanges
  <2>5. \A m \in messages' : m.turn \notin lost' =>
          Whole(m.turn, m.session)' \/ \E q \in Proc : chat'[q].at = "assistant" /\ chat'[q].turn = m.turn
    <3>1. \A m \in messages' : m.turn = turn => m.session = session
      BY <1>6
    <3> QED
      BY <2>1, <2>2, <3>1
  <2>6. \A q \in Proc : chat'[q] # Talk!Idle /\ chat'[q].turn \notin lost' =>
          /\ chat'[q].at = "assistant" => HasRole(chat[q].turn, chat[q].session, "user")'
          /\ chat'[q].at = "track" => Whole(chat[q].turn, chat[q].session)'
    BY <1>5, <2>1, <2>3
  <2>7. \A r \in queries' : r.turn \notin lost' => Whole(r.turn, r.session)'
    BY <1>1, <2>4
  <2> QED
    BY <2>5, <2>6, <2>7 DEF Exchanges
<1> QED
  BY <1>7, <1>8, <1>9, <1>10 DEF TalkInv

LEMMA QueryTracked ==
  ASSUME TalkParameters, TalkInv, NEW p \in Proc, Talk!Track(p)
  PROVE  TalkInv'
<1> DEFINE new == [session |-> chat[p].session, turn |-> chat[p].turn]
<1>1. /\ chat[p].at = "track" /\ queries' \in {queries, queries \cup {new}}
      /\ chat' = [chat EXCEPT ![p] = Talk!Idle]
      /\ messages' = messages /\ clock' = clock /\ turns' = turns /\ lost' = lost
  BY DEF Talk!Track
<1>2. TalkTypes /\ Stamps /\ Turns /\ Exchanges
  BY DEF TalkInv
<1>3. chat[p] # Talk!Idle /\ chat[p].session \in Session /\ chat[p].turn \in Nat
  BY <1>1, <1>2, ChatKnown
<1>4. chat'[p] = Talk!Idle /\ \A q \in Proc \ {p} : chat'[q] = chat[q]
  BY <1>1, <1>2 DEF TalkTypes
<1>5. Talk!Idle.at = "idle"
  BY DEF Talk!Idle
<1>6. \A r \in queries' : r \in queries \/ (r.turn = chat[p].turn /\ r.session = chat[p].session /\ r = new)
  BY <1>1
<1>7. TalkTypes'
  BY <1>1, <1>2, <1>3 DEF TalkTypes
<1>8. Stamps'
  BY <1>1, <1>2, <1>4, <1>5 DEF Stamps, Saving
<1>9. Turns'
  <2>1. \A r \in queries' : r.turn \in 1 .. turns
    BY <1>2, <1>3, <1>6 DEF Turns
  <2>2. \A q \in Proc : chat'[q] # Talk!Idle => chat'[q].turn \in 1 .. turns /\ \A r \in queries' : r.turn # chat'[q].turn
    BY <1>2, <1>3, <1>4, <1>6 DEF Turns
  <2>3. \A q, r \in queries' : q.turn = r.turn => q = r
    BY <1>2, <1>3, <1>6 DEF Turns
  <2>4. \A q, r \in Proc : q # r /\ chat'[q] # Talk!Idle /\ chat'[r] # Talk!Idle => chat'[q].turn # chat'[r].turn
    BY <1>2, <1>4 DEF Turns
  <2>5. \A q \in Proc, m \in messages : chat'[q] # Talk!Idle /\ m.turn = chat'[q].turn =>
          /\ m.session = chat'[q].session /\ chat'[q].at # "user"
          /\ chat'[q].at = "assistant" => m.role = "user" /\ m.at < chat'[q].stamp
    BY <1>2, <1>4 DEF Turns
  <2> QED
    BY <1>1, <1>2, <2>1, <2>2, <2>3, <2>4, <2>5 DEF Turns
<1>10. Exchanges'
  <2>1. \A turn, session, role : HasRole(turn, session, role)' = HasRole(turn, session, role)
    BY <1>1 DEF HasRole
  <2>2. \A turn, session : Whole(turn, session)' = Whole(turn, session)
    BY <1>1 DEF Whole, HasRole
  <2>3. \A r \in queries' : r.turn \notin lost' => Whole(r.turn, r.session)
    BY <1>1, <1>2, <1>3, <1>6 DEF Exchanges
  <2>4. \A m \in messages : m.turn \notin lost =>
          Whole(m.turn, m.session) \/ \E q \in Proc : chat'[q].at = "assistant" /\ chat'[q].turn = m.turn
    BY <1>1, <1>2, <1>4 DEF Exchanges
  <2>5. \A q \in Proc : chat'[q] # Talk!Idle /\ chat'[q].turn \notin lost =>
          /\ chat'[q].at = "assistant" => HasRole(chat'[q].turn, chat'[q].session, "user")
          /\ chat'[q].at = "track" => Whole(chat'[q].turn, chat'[q].session)
    BY <1>2, <1>4 DEF Exchanges
  <2> QED
    BY <1>1, <2>3, <2>4, <2>5 DEF Exchanges, Whole, HasRole
<1> QED
  BY <1>7, <1>8, <1>9, <1>10 DEF TalkInv

LEMMA ChatCutOff ==
  ASSUME TalkParameters, TalkInv, NEW p \in Proc, Talk!Crash(p)
  PROVE  TalkInv'
<1>1. /\ chat[p] # Talk!Idle /\ chat' = [chat EXCEPT ![p] = Talk!Idle]
      /\ lost' = IF chat[p].at = "track" THEN lost ELSE lost \cup {chat[p].turn}
      /\ messages' = messages /\ queries' = queries /\ clock' = clock /\ turns' = turns
  BY DEF Talk!Crash
<1>2. TalkTypes /\ Stamps /\ Turns /\ Exchanges
  BY DEF TalkInv
<1>3. chat'[p] = Talk!Idle /\ \A q \in Proc \ {p} : chat'[q] = chat[q]
  BY <1>1, <1>2 DEF TalkTypes
<1>4. Talk!Idle.at = "idle"
  BY DEF Talk!Idle
<1>5. TalkTypes'
  BY <1>1, <1>2 DEF TalkTypes
<1>6. Stamps'
  BY <1>1, <1>2, <1>3, <1>4 DEF Stamps, Saving
<1>7. Turns'
  BY <1>1, <1>2, <1>3 DEF Turns
<1>8. Exchanges'
  <2>1. lost \subseteq lost' /\ (chat[p].at = "assistant" => chat[p].turn \in lost')
    BY <1>1
  <2>2. \A m \in messages : m.turn \notin lost' =>
          Whole(m.turn, m.session) \/ \E q \in Proc : chat'[q].at = "assistant" /\ chat'[q].turn = m.turn
    BY <1>2, <1>3, <2>1 DEF Exchanges
  <2>3. \A q \in Proc : chat'[q] # Talk!Idle /\ chat'[q].turn \notin lost' =>
          /\ chat'[q].at = "assistant" => HasRole(chat'[q].turn, chat'[q].session, "user")
          /\ chat'[q].at = "track" => Whole(chat'[q].turn, chat'[q].session)
    BY <1>2, <1>3, <2>1 DEF Exchanges
  <2>4. \A r \in queries : r.turn \notin lost' => Whole(r.turn, r.session)
    BY <1>2, <2>1 DEF Exchanges
  <2> QED
    BY <1>1, <2>2, <2>3, <2>4 DEF Exchanges, Whole, HasRole
<1> QED
  BY <1>5, <1>6, <1>7, <1>8 DEF TalkInv

LEMMA SessionDeleted ==
  ASSUME TalkParameters, TalkInv, NEW s \in Session, Talk!DeleteSession(s)
  PROVE  TalkInv'
<1> DEFINE erased == {m \in messages : m.session = s}
<1>1. /\ messages' = messages \ erased /\ lost' = lost \cup {m.turn : m \in erased}
      /\ queries' = queries /\ chat' = chat /\ clock' = clock /\ turns' = turns
  BY DEF Talk!DeleteSession
<1>2. TalkTypes /\ Stamps /\ Turns /\ Exchanges
  BY DEF TalkInv
<1>3. messages' \subseteq messages
  BY <1>1
<1>4. TalkTypes'
  BY <1>1, <1>2, <1>3, FS_Subset DEF TalkTypes
<1>5. Stamps'
  BY <1>1, <1>2, <1>3 DEF Stamps
<1>6. Turns'
  BY <1>1, <1>2, <1>3 DEF Turns
<1>7. Exchanges'
  <2>1. \A m \in messages : m \in messages' \/ m.turn \in lost'
    BY <1>1
  <2>2. lost \subseteq lost'
    BY <1>1
  <2>3. ASSUME NEW turn, turn \notin lost'
        PROVE  /\ \A session, role : HasRole(turn, session, role) => HasRole(turn, session, role)'
               /\ \A session : Whole(turn, session) => Whole(turn, session)'
    BY <2>1, <2>3 DEF HasRole, Whole
  <2>4. \A m \in messages' : m.turn \notin lost' =>
          Whole(m.turn, m.session)' \/ \E q \in Proc : chat'[q].at = "assistant" /\ chat'[q].turn = m.turn
    BY <1>1, <1>2, <1>3, <2>2, <2>3 DEF Exchanges
  <2>5. \A q \in Proc : chat'[q] # Talk!Idle /\ chat'[q].turn \notin lost' =>
          /\ chat'[q].at = "assistant" => HasRole(chat[q].turn, chat[q].session, "user")'
          /\ chat'[q].at = "track" => Whole(chat[q].turn, chat[q].session)'
    BY <1>1, <1>2, <2>2, <2>3 DEF Exchanges
  <2>6. \A r \in queries' : r.turn \notin lost' => Whole(r.turn, r.session)'
    BY <1>1, <1>2, <2>2, <2>3 DEF Exchanges
  <2> QED
    BY <2>4, <2>5, <2>6 DEF Exchanges
<1> QED
  BY <1>4, <1>5, <1>6, <1>7 DEF TalkInv

LEMMA TalkStepHolds ==
  ASSUME TalkParameters, TalkInv, [Talk!Next]_Talk!vars
  PROVE  TalkInv'
<1>1. ASSUME UNCHANGED Talk!vars
      PROVE  TalkInv'
  BY <1>1 DEF Talk!vars, TalkInv, TalkTypes, Stamps, Turns, Exchanges, Whole, HasRole
<1> QED
  BY <1>1, ChatBegins, QuestionSaved, AnswerSaved, QueryTracked, ChatCutOff, SessionDeleted DEF Talk!Next

\* Messages that the reads can order: finitely many, stamped differently.
Stamped(said) ==
  /\ IsFiniteSet(said)
  /\ \A m \in said : m.at \in Nat
  /\ \A m, k \in said : m.at = k.at => m = k

LEMMA TalkCounts == \A S : Talk!Cardinality(S) = Cardinality(S)
BY DEF Talk!Cardinality, Cardinality

\* The order of the ranks is the order of the stamps, and every rank is taken.
LEMMA RanksEnumerate ==
  ASSUME NEW said, Stamped(said)
  PROVE  /\ Cardinality(said) \in Nat
         /\ \A m \in said : Talk!Rank(said, m) \in 0 .. Cardinality(said) - 1
         /\ \A m, k \in said : Talk!Rank(said, m) < Talk!Rank(said, k) <=> m.at < k.at
         /\ \A n \in 0 .. Cardinality(said) - 1 : \E m \in said : Talk!Rank(said, m) = n
<1> DEFINE h == [m \in said |-> m.at]
<1>1. Ordered(said, h)
  BY DEF Ordered, Stamped
<1>2. \A m \in said : h[m] = m.at
  OBVIOUS
<1> HIDE DEF h
<1>3. \A m \in said : Talk!Rank(said, m) = Cardinality(Lower(said, h, m))
  <2>1. \A m \in said : Lower(said, h, m) = {x \in said : x.at < m.at}
    BY <1>2 DEF Lower
  <2> QED
    BY <2>1, TalkCounts DEF Talk!Rank
<1>4. /\ Cardinality(said) \in Nat
      /\ \A m \in said : Cardinality(Lower(said, h, m)) \in 0 .. Cardinality(said) - 1
      /\ \A m, k \in said : Cardinality(Lower(said, h, m)) < Cardinality(Lower(said, h, k)) <=> h[m] < h[k]
      /\ \A n \in 0 .. Cardinality(said) - 1 : \E m \in said : Cardinality(Lower(said, h, m)) = n
  BY <1>1, LowerGrows, LowerCounts
<1> QED
  BY <1>2, <1>3, <1>4

\* The oldest first: every message once, in the order of the stamps.
LEMMA OldestLists ==
  ASSUME NEW said, Stamped(said)
  PROVE  /\ Talk!Oldest(said) \in Seq(said) /\ Len(Talk!Oldest(said)) = Cardinality(said)
         /\ \A i, j \in 1 .. Cardinality(said) :
              Talk!Oldest(said)[i].at < Talk!Oldest(said)[j].at <=> i < j
<1> DEFINE q == Talk!Oldest(said)
           n == Cardinality(said)
<1>1. n \in Nat
  BY RanksEnumerate
<1>2. q = [i \in 1 .. n |-> CHOOSE m \in said : Talk!Rank(said, m) = i - 1]
  BY TalkCounts DEF Talk!Oldest
<1>3. \A i \in 1 .. n : q[i] \in said /\ Talk!Rank(said, q[i]) = i - 1
  <2> SUFFICES ASSUME NEW i \in 1 .. n PROVE q[i] \in said /\ Talk!Rank(said, q[i]) = i - 1
    OBVIOUS
  <2>1. i - 1 \in 0 .. n - 1
    BY <1>1
  <2>2. \E m \in said : Talk!Rank(said, m) = i - 1
    BY <2>1, RanksEnumerate
  <2> QED
    BY <1>2, <2>2
<1> HIDE DEF q
<1>4. q \in Seq(said) /\ Len(q) = n
  BY <1>1, <1>2, <1>3
<1>5. \A i, j \in 1 .. n : i - 1 < j - 1 <=> i < j
  BY <1>1
<1>6. \A i, j \in 1 .. n : q[i].at < q[j].at <=> i < j
  BY <1>3, <1>5, RanksEnumerate
<1> QED
  BY <1>4, <1>6 DEF q

\* The newest first, of a question and its answer.
LEMMA NewestOfTwo ==
  ASSUME NEW u, NEW a, u.at \in Nat, a.at \in Nat, u.at < a.at
  PROVE  /\ Talk!Newest({u, a}) \in Seq({u, a}) /\ Len(Talk!Newest({u, a})) = 2
         /\ Talk!Newest({u, a})[1] = a
<1> DEFINE said == {u, a}
           q == Talk!Newest(said)
<1>1. u # a
  OBVIOUS
<1>2. IsFiniteSet(said) /\ Cardinality(said) = 2
  <2>1. IsFiniteSet({u}) /\ Cardinality({u}) = 1
    BY FS_Singleton
  <2>2. IsFiniteSet({u} \cup {a}) /\ Cardinality({u} \cup {a}) = 1 + 1
    BY <1>1, <2>1, FS_AddElement
  <2>3. said = {u} \cup {a}
    OBVIOUS
  <2> QED
    BY <2>2, <2>3
<1>3. Stamped(said)
  BY <1>2 DEF Stamped
<1>4. q = [i \in 1 .. 2 |-> CHOOSE m \in said : Talk!Rank(said, m) = 2 - i]
  <2>1. Talk!Cardinality(said) = 2
    BY <1>2, TalkCounts
  <2> HIDE DEF said
  <2> QED
    BY <2>1 DEF Talk!Newest
<1> HIDE DEF said
<1>5. \A n \in 0 .. 1 : \E m \in said : Talk!Rank(said, m) = n
  BY <1>2, <1>3, RanksEnumerate
<1>6. \A i \in 1 .. 2 : q[i] \in said /\ Talk!Rank(said, q[i]) = 2 - i
  <2> SUFFICES ASSUME NEW i \in 1 .. 2 PROVE q[i] \in said /\ Talk!Rank(said, q[i]) = 2 - i
    OBVIOUS
  <2>1. 2 - i \in 0 .. 1
    OBVIOUS
  <2>2. \E m \in said : Talk!Rank(said, m) = 2 - i
    BY <1>5, <2>1
  <2> QED
    BY <1>4, <2>2
<1> HIDE DEF q
<1>7. q \in Seq(said) /\ Len(q) = 2
  BY <1>4, <1>6
<1>8. Talk!Rank(said, q[1]) = 1 /\ q[1] \in said /\ u \in said /\ a \in said
  BY <1>6 DEF said
<1>9. Talk!Rank(said, u) < Talk!Rank(said, a) /\ Talk!Rank(said, u) \in 0 .. 1 /\ Talk!Rank(said, a) \in 0 .. 1
  BY <1>2, <1>3, <1>8, RanksEnumerate
<1>10. Talk!Rank(said, u) # 1
  BY <1>9
<1>11. q[1] = a
  BY <1>8, <1>10 DEF said
<1> QED
  BY <1>7, <1>11 DEF q, said

Mine(s) == {m \in messages : m.session = s}

LEMMA MineStamped ==
  ASSUME TalkInv, NEW s
  PROVE  Stamped(Mine(s)) /\ Mine(s) \subseteq Said
<1>1. messages \subseteq Said /\ IsFiniteSet(messages) /\ \A m, k \in messages : m.at = k.at => m = k
  BY DEF TalkInv, TalkTypes, Stamps
<1>2. Mine(s) \subseteq messages
  BY DEF Mine
<1>3. IsFiniteSet(Mine(s))
  BY <1>1, <1>2, FS_Subset
<1> QED
  BY <1>1, <1>2, <1>3 DEF Stamped, Said

\* SearchHistory finds both messages of a whole exchange, the answer first.
LEMMA WholeIsFound ==
  ASSUME TalkInv, NEW s, NEW turn, Whole(turn, s)
  PROVE  Len(Talk!SearchHistory(s, turn, 2)) = 2 /\ Talk!SearchHistory(s, turn, 2)[1].role = "assistant"
<1> DEFINE said == {m \in messages : m.session = s /\ m.turn = turn}
           q == Talk!Newest(said)
<1>1. PICK u \in messages : u.turn = turn /\ u.session = s /\ u.role = "user"
  BY DEF Whole, HasRole
<1>2. PICK a \in messages : a.turn = turn /\ a.session = s /\ a.role = "assistant"
  BY DEF Whole, HasRole
<1>3. /\ messages \subseteq Said
      /\ \A m, k \in messages : m.turn = k.turn =>
           /\ m.role = k.role => m = k
           /\ m.role = "user" /\ k.role = "assistant" => m.at < k.at
  BY DEF TalkInv, TalkTypes, Turns
<1>4. \A m \in messages : m.role \in {"user", "assistant"} /\ m.at \in Nat
  BY <1>3 DEF Said
<1>5. said = {u, a}
  BY <1>1, <1>2, <1>3, <1>4
<1>6. u.at < a.at /\ u.at \in Nat /\ a.at \in Nat
  BY <1>1, <1>2, <1>3, <1>4
<1>7. q \in Seq({u, a}) /\ Len(q) = 2 /\ q[1] = a
  BY <1>5, <1>6, NewestOfTwo
<1>8. Talk!SearchHistory(s, turn, 2) = SubSeq(q, 0 + 1, IF 0 + 2 < Len(q) THEN 0 + 2 ELSE Len(q))
  BY DEF Talk!SearchHistory, Talk!Page
<1> HIDE DEF q
<1>9. Talk!SearchHistory(s, turn, 2) = SubSeq(q, 1, Len(q))
  BY <1>7, <1>8
<1>10. Talk!SearchHistory(s, turn, 2) = q
  BY <1>7, <1>9, SubSeqFull
<1> QED
  BY <1>2, <1>7, <1>10

\* A session has at most two messages of a turn.
LEMMA FewRows ==
  ASSUME TalkParameters, TalkInv, NEW s
  PROVE  Cardinality(Mine(s)) \in Nat /\ Cardinality(Mine(s)) <= 2 * MaxTurns
<1> DEFINE T == (1 .. turns) \X {"user", "assistant"}
           f == [m \in Mine(s) |-> <<m.turn, m.role>>]
<1>1. turns \in Nat /\ MaxTurns \in Nat /\ turns <= MaxTurns /\ messages \subseteq Said
  BY DEF TalkInv, TalkTypes, TalkParameters
<1>2. \A m \in Mine(s) : m \in messages /\ m.turn \in 1 .. turns /\ m.role \in {"user", "assistant"}
  BY <1>1 DEF Mine, TalkInv, Turns, Said
<1>3. \A m, k \in Mine(s) : m.turn = k.turn /\ m.role = k.role => m = k
  BY <1>2 DEF TalkInv, Turns
<1>4. f \in Injection(Mine(s), T)
  BY <1>2, <1>3 DEF Injection, IsInjective
<1>5. IsFiniteSet(1 .. turns) /\ Cardinality(1 .. turns) = turns
  BY <1>1, FS_Interval
<1>6. IsFiniteSet({"user", "assistant"}) /\ Cardinality({"user", "assistant"}) = 2
  <2>1. IsFiniteSet({"user"}) /\ Cardinality({"user"}) = 1
    BY FS_Singleton
  <2>2. {"user", "assistant"} = {"user"} \cup {"assistant"} /\ "assistant" \notin {"user"}
    OBVIOUS
  <2>3. /\ IsFiniteSet({"user"} \cup {"assistant"})
        /\ Cardinality({"user"} \cup {"assistant"}) = Cardinality({"user"}) + 1
    BY <2>1, <2>2, FS_AddElement, Zenon
  <2> QED
    BY <2>1, <2>2, <2>3
<1>7. IsFiniteSet(T) /\ Cardinality(T) = turns * 2
  <2>1. IsFiniteSet(T) /\ Cardinality(T) = Cardinality(1 .. turns) * Cardinality({"user", "assistant"})
    BY <1>5, <1>6, FS_Product
  <2> QED
    BY <1>5, <1>6, <2>1
<1>8. IsFiniteSet(Mine(s)) /\ Cardinality(Mine(s)) <= Cardinality(T)
  BY <1>4, <1>7, FS_Injection
<1> HIDE DEF T
<1>9. Cardinality(Mine(s)) \in Nat
  BY <1>8, FS_CardinalityType
<1> QED
  BY <1>1, <1>7, <1>8, <1>9

\* The pages of a conversation are the conversation.
LEMMA PagesJoin ==
  ASSUME NEW S, NEW h \in Seq(S), NEW most \in Nat, Len(h) <= most
  PROVE  Talk!Page(h, 2, 0) \o Talk!Page(h, most, 2) = h
<1>1. Len(h) \in Nat
  OBVIOUS
<1>2. Talk!Page(h, most, 2) = SubSeq(h, 3, Len(h))
  <2>1. ~ 2 + most < Len(h) /\ 2 + 1 = 3
    BY <1>1
  <2>2. Talk!Page(h, most, 2) = SubSeq(h, 2 + 1, IF 2 + most < Len(h) THEN 2 + most ELSE Len(h))
    BY Zenon DEF Talk!Page
  <2> QED
    BY <2>1, <2>2, Zenon
<1>3. CASE 2 < Len(h)
  <2>1. Talk!Page(h, 2, 0) = SubSeq(h, 1, 2)
    BY <1>3 DEF Talk!Page
  <2>2. SubSeq(h, 1, 2) \o SubSeq(h, 2 + 1, Len(h)) = SubSeq(h, 1, Len(h))
    <3>1. 1 \in 1 .. Len(h) + 1 /\ 2 \in 1 - 1 .. Len(h) /\ Len(h) \in 2 .. Len(h)
      BY <1>1, <1>3
    <3> QED
      BY <3>1, ConcatAdjacentSubSeq
  <2>3. SubSeq(h, 1, Len(h)) = h /\ 2 + 1 = 3
    BY SubSeqFull
  <2> QED
    BY <1>2, <2>1, <2>2, <2>3, Zenon
<1>4. CASE ~ 2 < Len(h)
  <2>1. Talk!Page(h, 2, 0) = h
    <3>1. Talk!Page(h, 2, 0) = SubSeq(h, 1, Len(h))
      BY <1>4 DEF Talk!Page
    <3> QED
      BY <3>1, SubSeqFull
  <2>2. SubSeq(h, 3, Len(h)) = <<>>
    <3>1. Len(h) < 3 /\ 3 \in Int /\ Len(h) \in Int
      BY <1>1, <1>4
    <3> QED
      BY <3>1, SubSeqEmpty
  <2> QED
    BY <1>2, <2>1, <2>2, ConcatEmptySeq
<1> QED
  BY <1>3, <1>4

LEMMA HistoryHolds ==
  ASSUME TalkParameters, TalkInv, NEW s
  PROVE  LET h == Talk!Rows(s) IN
         /\ h \in Seq(Mine(s)) /\ Len(h) = Cardinality(Mine(s)) /\ DOMAIN h = 1 .. Len(h)
         /\ \A i, j \in DOMAIN h : h[i].at < h[j].at <=> i < j
<1> DEFINE h == Talk!Rows(s)
<1>1. h = Talk!Oldest(Mine(s))
  BY DEF Talk!Rows, Mine
<1>2. Stamped(Mine(s))
  BY MineStamped
<1>3. h \in Seq(Mine(s)) /\ Len(h) = Cardinality(Mine(s))
  BY <1>1, <1>2, OldestLists
<1>4. \A i, j \in 1 .. Cardinality(Mine(s)) : h[i].at < h[j].at <=> i < j
  BY <1>1, <1>2, OldestLists
<1> HIDE DEF h
<1>5. DOMAIN h = 1 .. Len(h)
  BY <1>3
<1>6. h \in Seq(Mine(s)) /\ Len(h) = Cardinality(Mine(s)) /\ DOMAIN h = 1 .. Len(h)
      /\ \A i, j \in DOMAIN h : h[i].at < h[j].at <=> i < j
  BY <1>3, <1>4, <1>5
<1> QED
  BY <1>6 DEF h

\* What the reads promise follows from the invariant.
LEMMA WholeExchanges ==
  ASSUME TalkParameters, TalkInv
  PROVE  Talk!ExchangesAreWhole
<1>1. /\ messages \subseteq Said
      /\ \A m, k \in messages : m.turn = k.turn /\ m.role = "user" /\ k.role = "assistant" => m.at < k.at
  BY DEF TalkInv, TalkTypes, Turns
<1>2. ASSUME NEW s \in Session
      PROVE  LET h == Talk!Rows(s) IN
             /\ \A i, j \in DOMAIN h : h[i].turn = h[j].turn /\ h[i].role = "user" /\ h[j].role = "assistant" => i < j
             /\ \A i \in DOMAIN h : h[i].turn \notin lost =>
                  LET whole == Talk!SearchHistory(s, h[i].turn, 2) IN
                  \/ Len(whole) = 2 /\ whole[1].role = "assistant"
                  \/ \E p \in Proc : chat[p].at = "assistant" /\ chat[p].turn = h[i].turn
             /\ Talk!GetHistory(s, 2, 0) \o Talk!GetHistory(s, 2 * MaxTurns, 2) = h
  <2> DEFINE h == Talk!Rows(s)
  <2>1. /\ h \in Seq(Mine(s)) /\ Len(h) = Cardinality(Mine(s)) /\ DOMAIN h = 1 .. Len(h)
        /\ \A i, j \in DOMAIN h : h[i].at < h[j].at <=> i < j
    BY HistoryHolds
  <2>2. Talk!GetHistory(s, 2, 0) \o Talk!GetHistory(s, 2 * MaxTurns, 2)
          = Talk!Page(h, 2, 0) \o Talk!Page(h, 2 * MaxTurns, 2)
    BY DEF Talk!GetHistory
  <2> HIDE DEF h
  <2>3. \A i \in DOMAIN h : h[i] \in messages /\ h[i].session = s
    BY <2>1 DEF Mine
  <2>4. \A i, j \in DOMAIN h : h[i].turn = h[j].turn /\ h[i].role = "user" /\ h[j].role = "assistant" => i < j
    BY <1>1, <2>1, <2>3
  <2>5. ASSUME NEW i \in DOMAIN h, h[i].turn \notin lost
        PROVE  \/ /\ Len(Talk!SearchHistory(s, h[i].turn, 2)) = 2
                  /\ Talk!SearchHistory(s, h[i].turn, 2)[1].role = "assistant"
               \/ \E p \in Proc : chat[p].at = "assistant" /\ chat[p].turn = h[i].turn
    <3>1. Whole(h[i].turn, s) \/ \E p \in Proc : chat[p].at = "assistant" /\ chat[p].turn = h[i].turn
      BY <2>3, <2>5 DEF TalkInv, Exchanges
    <3> QED
      BY <3>1, WholeIsFound
  <2>6. Talk!Page(h, 2, 0) \o Talk!Page(h, 2 * MaxTurns, 2) = h
    <3>1. 2 * MaxTurns \in Nat /\ Len(h) <= 2 * MaxTurns
      BY <2>1, FewRows DEF TalkParameters
    <3> QED
      BY <2>1, <3>1, PagesJoin
  <2> QED
    BY <2>2, <2>4, <2>5, <2>6 DEF h
<1>3. \A q \in queries : q.turn \notin lost => Len(Talk!SearchHistory(q.session, q.turn, 2)) = 2
  BY WholeIsFound DEF TalkInv, Exchanges
<1>4. ASSUME NEW x \in Talk!ListSessions
      PROVE  x.stats.count > 0 /\ x.stats.first <= x.stats.last
  <2>1. PICK m \in messages : x = [session |-> m.session, stats |-> Talk!GetSessionStats(m.session)]
    BY DEF Talk!ListSessions
  <2> DEFINE h == Talk!Rows(m.session)
  <2>2. /\ h \in Seq(Mine(m.session)) /\ Len(h) = Cardinality(Mine(m.session)) /\ DOMAIN h = 1 .. Len(h)
        /\ \A i, j \in DOMAIN h : h[i].at < h[j].at <=> i < j
    BY HistoryHolds
  <2>3. x.stats = [count |-> Len(h), first |-> IF h = <<>> THEN 0 ELSE h[1].at,
                   last |-> IF h = <<>> THEN 0 ELSE h[Len(h)].at]
    BY <2>1 DEF Talk!GetSessionStats
  <2> HIDE DEF h
  <2>4. Len(h) > 0
    <3>1. m \in Mine(m.session) /\ IsFiniteSet(Mine(m.session))
      BY MineStamped DEF Mine, Stamped
    <3>2. Cardinality(Mine(m.session)) # 0 /\ Cardinality(Mine(m.session)) \in Nat
      BY <3>1, FS_EmptySet, FS_CardinalityType
    <3> QED
      BY <2>2, <3>2
  <2>5. 1 \in DOMAIN h /\ Len(h) \in DOMAIN h /\ h # <<>> /\ ~ Len(h) < 1
    BY <2>2, <2>4
  <2>6. h[1].at \in Nat /\ h[Len(h)].at \in Nat
    BY <1>1, <2>2, <2>5 DEF Mine, Said
  <2>7. ~ h[Len(h)].at < h[1].at
    BY <2>2, <2>5
  <2> QED
    BY <2>3, <2>4, <2>5, <2>6, <2>7
<1>5. Talk!GetSearchVolume.total <= turns
  <2> DEFINE f == [q \in queries |-> q.turn]
  <2>1. turns \in Nat /\ queries \subseteq [session : Session, turn : Nat]
    BY DEF TalkInv, TalkTypes
  <2>2. f \in Injection(queries, 1 .. turns)
    BY DEF TalkInv, Turns, Injection, IsInjective
  <2>3. IsFiniteSet(1 .. turns) /\ Cardinality(1 .. turns) = turns
    BY <2>1, FS_Interval
  <2>4. Cardinality(queries) <= turns
    BY <2>2, <2>3, FS_Injection
  <2> QED
    BY <2>4, TalkCounts DEF Talk!GetSearchVolume
<1>6. Talk!GetSearchVolume.sessions <= Talk!Cardinality(Session)
  <2>1. {q.session : q \in queries} \subseteq Session /\ IsFiniteSet(Session)
    BY DEF TalkInv, TalkTypes, TalkParameters
  <2>2. Cardinality({q.session : q \in queries}) <= Cardinality(Session)
    BY <2>1, FS_Subset
  <2> QED
    BY <2>2, TalkCounts DEF Talk!GetSearchVolume
<1> QED
  BY <1>2, <1>3, <1>4, <1>5, <1>6 DEF Talk!ExchangesAreWhole

LiveTalkInv == live = "talk" => TalkInv

\* ConversationStore and SearchTracker: an exchange that lost nothing is whole, but for an
\* answer still to be saved; the pages and the statistics agree with what is stored.
THEOREM ExchangesStayWhole == ASSUME TalkParameters PROVE PartSpec => []ExchangesAreWhole
<1>1. PartInit => LiveTalkInv
  BY LiveStarts, TalkInitHolds DEF LiveTalkInv
<1>2. LiveTalkInv /\ [PartNext]_partVars => LiveTalkInv'
  BY LiveSteps, TalkStepHolds DEF LiveTalkInv
<1>3. LiveTalkInv => ExchangesAreWhole
  BY WholeExchanges DEF ExchangesAreWhole, LiveTalkInv
<1> QED
  BY <1>1, <1>2, <1>3, PTL DEF PartSpec

-----------------------------------------------------------------------------
(* TTLCache *)

LruParameters == LruSize \in Nat \ {0} /\ Life \in Nat

Made == [key : LruKey, expires : Nat]

\* In u, y comes after x.
After(u, x, y) == \E i, j \in DOMAIN u : i < j /\ u[i] = x /\ u[j] = y

\* s has the keys used last: what was used after one of its keys is after it in s.
Latest(s, u) ==
  /\ s \in Seq(Made) /\ u \in Seq(LruKey)
  /\ \A i, j \in DOMAIN u : u[i] = u[j] => i = j
  /\ \A i, j \in DOMAIN s : s[i].key = s[j].key => i = j
  /\ \A i \in DOMAIN s : \E j \in DOMAIN u : u[j] = s[i].key
  /\ \A i \in DOMAIN s, x \in LruKey : After(u, s[i].key, x) => \E j \in DOMAIN s : i < j /\ s[j].key = x

LruInv ==
  /\ Latest(store, used) /\ Len(store) <= LruSize
  /\ pending \in [Thread -> Made \cup {None}]
  /\ now \in Nat

\* f says where in s the entries of o are.
Places(o, s, T, f) ==
  /\ f \in [DOMAIN o -> DOMAIN s]
  /\ \A n \in DOMAIN o : o[n] = s[f[n]] /\ s[f[n]] \in T
  /\ \A n, m \in DOMAIN o : f[n] < f[m] <=> n < m
  /\ \A i \in DOMAIN s : s[i] \in T => \E n \in DOMAIN o : f[n] = i

\* Only(s, T) has the entries of s that are in T, in the order of their places in s.
LEMMA OnlyPlaces ==
  ASSUME NEW S, NEW s \in Seq(S), NEW T
  PROVE  /\ Lru!Only(s, T) \in Seq(S) /\ Len(Lru!Only(s, T)) <= Len(s)
         /\ (\E i \in DOMAIN s : s[i] \notin T) => Len(Lru!Only(s, T)) <= Len(s) - 1
         /\ \E f : Places(Lru!Only(s, T), s, T, f)
<1> DEFINE I == {i \in DOMAIN s : s[i] \in T}
           h == [i \in I |-> i]
           c == Cardinality(I)
           o == Lru!Only(s, T)
           f == [n \in 1 .. c |-> CHOOSE i \in I : Cardinality(Lower(I, h, i)) = n - 1]
<1>1. DOMAIN s = 1 .. Len(s) /\ Len(s) \in Nat
  OBVIOUS
<1>2. IsFiniteSet(DOMAIN s) /\ Cardinality(DOMAIN s) = Len(s)
  <2>1. IsFiniteSet(1 .. Len(s)) /\ Cardinality(1 .. Len(s)) = Len(s)
    BY <1>1, FS_Interval
  <2> QED
    BY <1>1, <2>1
<1>3. IsFiniteSet(I) /\ Cardinality(I) <= Len(s) /\ Cardinality(I) \in Nat
  <2>1. I \in SUBSET DOMAIN s
    OBVIOUS
  <2> QED
    BY <1>2, <2>1, FS_Subset, FS_CardinalityType
<1>4. ASSUME NEW i \in DOMAIN s, s[i] \notin T
      PROVE  Cardinality(I) <= Len(s) - 1
  <2>1. I \in SUBSET (DOMAIN s \ {i})
    BY <1>4
  <2>2. IsFiniteSet(DOMAIN s \ {i}) /\ Cardinality(DOMAIN s \ {i}) = Len(s) - 1
    BY <1>2, FS_RemoveElement
  <2> QED
    BY <2>1, <2>2, FS_Subset
<1>5. h \in [I -> Nat] /\ \A i \in I : h[i] = i
  BY <1>1
<1>6. Ordered(I, h)
  BY <1>3, <1>5 DEF Ordered
<1>7. \A i \in I : Lru!Cardinality({j \in I : j < i}) = Cardinality(Lower(I, h, i))
  <2>1. \A i \in I : Lower(I, h, i) = {j \in I : j < i}
    BY <1>5 DEF Lower
  <2>2. \A R : Lru!Cardinality(R) = Cardinality(R)
    BY DEF Lru!Cardinality, Cardinality
  <2> QED
    BY <2>1, <2>2
<1>8. \A n \in 1 .. c : f[n] \in I /\ Cardinality(Lower(I, h, f[n])) = n - 1
  <2> SUFFICES ASSUME NEW n \in 1 .. c PROVE f[n] \in I /\ Cardinality(Lower(I, h, f[n])) = n - 1
    OBVIOUS
  <2>1. n - 1 \in 0 .. c - 1
    BY <1>3
  <2>2. \E i \in I : Cardinality(Lower(I, h, i)) = n - 1
    BY <1>6, <2>1, LowerCounts
  <2> QED
    BY <2>2
<1>9. o = [n \in 1 .. c |-> s[f[n]]]
  <2>1. Lru!Cardinality(I) = c
    BY DEF Lru!Cardinality, Cardinality
  <2>2. \A n \in 1 .. c : f[n] = CHOOSE i \in I : Lru!Cardinality({j \in I : j < i}) = n - 1
    <3> SUFFICES ASSUME NEW n \in 1 .. c
                 PROVE  (CHOOSE i \in I : Cardinality(Lower(I, h, i)) = n - 1)
                          = CHOOSE i \in I : Lru!Cardinality({j \in I : j < i}) = n - 1
      OBVIOUS
    <3>1. \A i : (i \in I /\ Cardinality(Lower(I, h, i)) = n - 1) <=> (i \in I /\ Lru!Cardinality({j \in I : j < i}) = n - 1)
      BY <1>7
    <3> HIDE DEF I, h
    <3> QED
      BY <3>1
  <2> HIDE DEF f, I
  <2>3. o = [n \in 1 .. Lru!Cardinality(I) |-> s[CHOOSE i \in I : Lru!Cardinality({j \in I : j < i}) = n - 1]]
    BY DEF Lru!Only, I
  <2> QED
    BY <2>1, <2>2, <2>3
<1>10. \A n, m \in 1 .. c : f[n] < f[m] <=> n < m
  <2> SUFFICES ASSUME NEW n \in 1 .. c, NEW m \in 1 .. c PROVE f[n] < f[m] <=> n < m
    OBVIOUS
  <2>1. f[n] \in I /\ f[m] \in I /\ Cardinality(Lower(I, h, f[n])) = n - 1 /\ Cardinality(Lower(I, h, f[m])) = m - 1
    BY <1>8
  <2> HIDE DEF f, I, h, c
  <2>2. Cardinality(Lower(I, h, f[n])) < Cardinality(Lower(I, h, f[m])) <=> h[f[n]] < h[f[m]]
    BY <1>6, <2>1, LowerCounts
  <2>3. n - 1 < m - 1 <=> n < m
    OBVIOUS
  <2> QED
    BY <1>5, <2>1, <2>2, <2>3
<1>11. \A i \in I : \E n \in 1 .. c : f[n] = i
  <2> SUFFICES ASSUME NEW i \in I PROVE \E n \in 1 .. c : f[n] = i
    OBVIOUS
  <2>1. Cardinality(Lower(I, h, i)) \in 0 .. c - 1
    BY <1>6, LowerGrows
  <2>2. PICK n \in 1 .. c : n - 1 = Cardinality(Lower(I, h, i))
    <3> DEFINE k == Cardinality(Lower(I, h, i)) + 1
    <3>1. \A b \in Nat : \A a \in 0 .. b - 1 : a + 1 \in 1 .. b /\ a + 1 - 1 = a
      OBVIOUS
    <3>2. k \in 1 .. c /\ k - 1 = Cardinality(Lower(I, h, i))
      BY <1>3, <2>1, <3>1
    <3> QED
      BY <3>2
  <2>3. f[n] \in I /\ Cardinality(Lower(I, h, f[n])) = Cardinality(Lower(I, h, i))
    BY <1>8, <2>2
  <2> HIDE DEF f, I, h, c
  <2>4. ~ h[f[n]] < h[i] /\ ~ h[i] < h[f[n]]
    <3>1. ~ Cardinality(Lower(I, h, i)) < Cardinality(Lower(I, h, i))
      BY <1>6, <2>1, LowerGrows DEF c
    <3> QED
      BY <1>6, <2>3, <3>1, LowerCounts
  <2>5. h[f[n]] \in Nat /\ h[i] \in Nat
    BY <1>5, <2>3
  <2> QED
    BY <1>5, <2>3, <2>4, <2>5
<1> HIDE DEF f, h, c, o
<1>12. DOMAIN o = 1 .. c /\ o \in [1 .. c -> S] /\ c \in Nat
  BY <1>3, <1>8, <1>9 DEF c
<1>13. o \in Seq(S) /\ Len(o) = c
  BY <1>12
<1>14. f \in [1 .. c -> DOMAIN s]
  BY <1>8 DEF f
<1>15. Places(o, s, T, f)
  BY <1>8, <1>9, <1>10, <1>11, <1>12, <1>14 DEF Places
<1> QED
  BY <1>3, <1>4, <1>13, <1>15 DEF o, c

\* What the lists of the cache's methods keep.
LEMMA LatestDropped ==
  ASSUME NEW s, NEW u, Latest(s, u), NEW K
  PROVE  Latest(Lru!Only(s, {e \in Lru!Range(s) : e.key \notin K}), Lru!Only(u, LruKey \ K))
<1> DEFINE T == {e \in Lru!Range(s) : e.key \notin K}
           o == Lru!Only(s, T)
           v == Lru!Only(u, LruKey \ K)
<1>1. s \in Seq(Made) /\ u \in Seq(LruKey) /\ DOMAIN s = 1 .. Len(s) /\ DOMAIN u = 1 .. Len(u)
  BY DEF Latest
<1>2. \A i \in DOMAIN s : s[i] \in T <=> s[i].key \notin K
  BY DEF Lru!Range
<1>3. \A i \in DOMAIN u : u[i] \in LruKey \ K <=> u[i] \notin K
  BY <1>1
<1> HIDE DEF T
<1>4. o \in Seq(Made) /\ v \in Seq(LruKey)
  BY <1>1, OnlyPlaces
<1>5. PICK f : Places(o, s, T, f)
  BY <1>1, OnlyPlaces
<1>6. PICK g : Places(v, u, LruKey \ K, g)
  BY <1>1, OnlyPlaces
<1>7. DOMAIN o \subseteq Nat /\ DOMAIN v \subseteq Nat
  BY <1>4
<1> HIDE DEF o, v
<1> USE DEF Places
<1>8. \A n, m \in DOMAIN v : v[n] = v[m] => n = m
  <2> SUFFICES ASSUME NEW n \in DOMAIN v, NEW m \in DOMAIN v, v[n] = v[m] PROVE n = m
    OBVIOUS
  <2>1. g[n] = g[m]
    BY <1>6 DEF Latest
  <2>2. ~ n < m /\ ~ m < n
    BY <1>1, <1>6, <2>1
  <2> QED
    BY <1>7, <2>2
<1>9. \A n, m \in DOMAIN o : o[n].key = o[m].key => n = m
  <2> SUFFICES ASSUME NEW n \in DOMAIN o, NEW m \in DOMAIN o, o[n].key = o[m].key PROVE n = m
    OBVIOUS
  <2>1. f[n] = f[m]
    BY <1>5 DEF Latest
  <2>2. ~ n < m /\ ~ m < n
    BY <1>1, <1>5, <2>1
  <2> QED
    BY <1>7, <2>2
<1>10. \A n \in DOMAIN o : \E m \in DOMAIN v : v[m] = o[n].key
  <2> SUFFICES ASSUME NEW n \in DOMAIN o PROVE \E m \in DOMAIN v : v[m] = o[n].key
    OBVIOUS
  <2>1. f[n] \in DOMAIN s /\ o[n] = s[f[n]] /\ s[f[n]].key \notin K
    BY <1>2, <1>5
  <2>2. PICK j \in DOMAIN u : u[j] = s[f[n]].key
    BY <2>1 DEF Latest
  <2> QED
    BY <1>3, <1>6, <2>1, <2>2
<1>11. ASSUME NEW n \in DOMAIN o, NEW x \in LruKey, After(v, o[n].key, x)
       PROVE  \E m \in DOMAIN o : n < m /\ o[m].key = x
  <2>1. PICK i \in DOMAIN v, j \in DOMAIN v : i < j /\ v[i] = o[n].key /\ v[j] = x
    BY <1>11 DEF After
  <2>2. g[i] < g[j] /\ u[g[i]] = s[f[n]].key /\ u[g[j]] = x /\ x \notin K /\ g[i] \in DOMAIN u /\ g[j] \in DOMAIN u
    BY <1>5, <1>6, <2>1
  <2>3. After(u, s[f[n]].key, x) /\ f[n] \in DOMAIN s
    BY <1>5, <2>2 DEF After
  <2>4. PICK k \in DOMAIN s : f[n] < k /\ s[k].key = x
    BY <2>3 DEF Latest
  <2>5. PICK m \in DOMAIN o : f[m] = k
    BY <1>2, <1>5, <2>2, <2>4
  <2> QED
    BY <1>5, <2>4, <2>5
<1>12. Latest(o, v)
  BY <1>4, <1>8, <1>9, <1>10, <1>11 DEF Latest
<1> QED
  BY <1>12 DEF o, v, T

\* Keys that are not in the cache are dropped from the history alone.
LEMMA LatestForgotten ==
  ASSUME NEW s, NEW u, Latest(s, u), NEW K, \A i \in DOMAIN s : s[i].key \notin K
  PROVE  Latest(s, Lru!Only(u, LruKey \ K))
<1> DEFINE v == Lru!Only(u, LruKey \ K)
<1>1. s \in Seq(Made) /\ u \in Seq(LruKey) /\ DOMAIN s = 1 .. Len(s) /\ DOMAIN u = 1 .. Len(u)
  BY DEF Latest
<1>2. v \in Seq(LruKey)
  BY <1>1, OnlyPlaces
<1>3. PICK g : Places(v, u, LruKey \ K, g)
  BY <1>1, OnlyPlaces
<1>4. DOMAIN v \subseteq Nat
  BY <1>2
<1> HIDE DEF v
<1> USE DEF Places
<1>5. \A n, m \in DOMAIN v : v[n] = v[m] => n = m
  <2> SUFFICES ASSUME NEW n \in DOMAIN v, NEW m \in DOMAIN v, v[n] = v[m] PROVE n = m
    OBVIOUS
  <2>1. g[n] = g[m]
    BY <1>3 DEF Latest
  <2>2. ~ n < m /\ ~ m < n
    BY <1>1, <1>3, <2>1
  <2> QED
    BY <1>4, <2>2
<1>6. \A n \in DOMAIN s : \E m \in DOMAIN v : v[m] = s[n].key
  <2> SUFFICES ASSUME NEW n \in DOMAIN s PROVE \E m \in DOMAIN v : v[m] = s[n].key
    OBVIOUS
  <2>1. PICK j \in DOMAIN u : u[j] = s[n].key
    BY DEF Latest
  <2> QED
    BY <1>1, <1>3, <2>1
<1>7. ASSUME NEW n \in DOMAIN s, NEW x \in LruKey, After(v, s[n].key, x)
      PROVE  \E m \in DOMAIN s : n < m /\ s[m].key = x
  <2>1. PICK i \in DOMAIN v, j \in DOMAIN v : i < j /\ v[i] = s[n].key /\ v[j] = x
    BY <1>7 DEF After
  <2>2. After(u, s[n].key, x)
    BY <1>3, <2>1 DEF After
  <2> QED
    BY <2>2 DEF Latest
<1>8. Latest(s, v)
  BY <1>1, <1>2, <1>5, <1>6, <1>7 DEF Latest
<1> QED
  BY <1>8 DEF v

\* The oldest entries are evicted.
LEMMA LatestEvicted ==
  ASSUME NEW s, NEW u, Latest(s, u), NEW m \in 1 .. Len(s) + 1
  PROVE  Latest(SubSeq(s, m, Len(s)), u) /\ Len(SubSeq(s, m, Len(s))) = Len(s) - m + 1
<1> DEFINE o == SubSeq(s, m, Len(s))
<1>1. s \in Seq(Made) /\ u \in Seq(LruKey) /\ DOMAIN s = 1 .. Len(s) /\ Len(s) \in Nat
  BY DEF Latest
<1>2. o \in Seq(Made) /\ Len(o) = Len(s) - m + 1 /\ \A i \in 1 .. Len(s) - m + 1 : o[i] = s[m + i - 1]
  <2>1. \A i \in m .. Len(s) : s[i] \in Made
    BY <1>1
  <2>2. m \in Int /\ Len(s) \in Int
    BY <1>1
  <2>3. /\ o \in Seq(Made) /\ Len(o) = IF m <= Len(s) THEN Len(s) - m + 1 ELSE 0
        /\ \A i \in 1 .. Len(s) - m + 1 : o[i] = s[m + i - 1]
    BY <2>1, <2>2, SubSeqProperties
  <2> QED
    BY <1>1, <2>3
<1> HIDE DEF o
<1>3. DOMAIN o = 1 .. Len(s) - m + 1
  BY <1>2
<1>4. \A i \in DOMAIN o : i \in Nat /\ m + i - 1 \in DOMAIN s /\ o[i] = s[m + i - 1]
  BY <1>1, <1>2, <1>3, SMTT(30)
<1>5. \A i, j \in DOMAIN o : o[i].key = o[j].key => i = j
  <2> SUFFICES ASSUME NEW i \in DOMAIN o, NEW j \in DOMAIN o, o[i].key = o[j].key PROVE i = j
    OBVIOUS
  <2>1. m + i - 1 = m + j - 1
    BY <1>4 DEF Latest
  <2> QED
    BY <1>4, <2>1
<1>6. \A i \in DOMAIN o : \E j \in DOMAIN u : u[j] = o[i].key
  BY <1>4 DEF Latest
<1>7. ASSUME NEW i \in DOMAIN o, NEW x \in LruKey, After(u, o[i].key, x)
      PROVE  \E j \in DOMAIN o : i < j /\ o[j].key = x
  <2>1. PICK k \in DOMAIN s : m + i - 1 < k /\ s[k].key = x
    BY <1>4, <1>7 DEF Latest
  <2>2. k - m + 1 \in DOMAIN o /\ i < k - m + 1 /\ m + (k - m + 1) - 1 = k
    BY <1>1, <1>3, <1>4, <2>1
  <2> QED
    BY <1>4, <2>1, <2>2
<1>8. \A i, j \in DOMAIN u : u[i] = u[j] => i = j
  BY DEF Latest
<1>9. Latest(o, u)
  BY <1>1, <1>2, <1>5, <1>6, <1>7, <1>8 DEF Latest
<1> QED
  BY <1>2, <1>9 DEF o

\* The entry used now is the last.
LEMMA LatestAppended ==
  ASSUME NEW s, NEW u, Latest(s, u), NEW e \in Made, \A i \in DOMAIN u : u[i] # e.key
  PROVE  Latest(Append(s, e), Append(u, e.key)) /\ Len(Append(s, e)) = Len(s) + 1
<1> DEFINE o == Append(s, e)
           v == Append(u, e.key)
<1>1. s \in Seq(Made) /\ u \in Seq(LruKey) /\ DOMAIN s = 1 .. Len(s) /\ DOMAIN u = 1 .. Len(u)
      /\ Len(s) \in Nat /\ Len(u) \in Nat /\ e.key \in LruKey
  BY DEF Latest, Made
<1>2. /\ o \in Seq(Made) /\ Len(o) = Len(s) + 1 /\ DOMAIN o = 1 .. Len(s) + 1
      /\ o[Len(s) + 1] = e /\ \A i \in DOMAIN s : o[i] = s[i]
  BY <1>1
<1>3. /\ v \in Seq(LruKey) /\ DOMAIN v = 1 .. Len(u) + 1
      /\ v[Len(u) + 1] = e.key /\ \A i \in DOMAIN u : v[i] = u[i]
  BY <1>1
<1> HIDE DEF o, v
<1>4. \A i \in DOMAIN o : i \in DOMAIN s \/ i = Len(s) + 1
  BY <1>1, <1>2
<1>5. \A i \in DOMAIN v : i \in DOMAIN u \/ i = Len(u) + 1
  BY <1>1, <1>3
<1>6. \A i \in DOMAIN s : i \in DOMAIN o /\ i < Len(s) + 1 /\ i \in Nat
  BY <1>1, <1>2
<1>7. \A i \in DOMAIN u : i \in DOMAIN v /\ i < Len(u) + 1 /\ i \in Nat
  BY <1>1, <1>3
<1>8. \A i \in DOMAIN s : s[i].key # e.key
  BY DEF Latest
<1>9. \A i, j \in DOMAIN v : v[i] = v[j] => i = j
  BY <1>3, <1>5 DEF Latest
<1>10. \A i, j \in DOMAIN o : o[i].key = o[j].key => i = j
  BY <1>2, <1>4, <1>8 DEF Latest
<1>11. \A i \in DOMAIN o : \E j \in DOMAIN v : v[j] = o[i].key
  <2>1. \A i \in DOMAIN s : \E j \in DOMAIN v : v[j] = o[i].key
    BY <1>2, <1>3, <1>7 DEF Latest
  <2>2. Len(u) + 1 \in DOMAIN v
    BY <1>1, <1>3
  <2> QED
    BY <1>2, <1>3, <1>4, <2>1, <2>2
<1>12. ASSUME NEW i \in DOMAIN o, NEW x \in LruKey, After(v, o[i].key, x)
       PROVE  \E j \in DOMAIN o : i < j /\ o[j].key = x
  <2>1. PICK k \in DOMAIN v, l \in DOMAIN v : k < l /\ v[k] = o[i].key /\ v[l] = x
    BY <1>12 DEF After
  <2>2. k \in DOMAIN u
    BY <1>1, <1>5, <1>7, <2>1
  <2>3. i \in DOMAIN s
    BY <1>2, <1>3, <1>4, <2>1, <2>2
  <2>4. CASE l \in DOMAIN u
    <3>1. After(u, s[i].key, x)
      BY <1>2, <1>3, <2>1, <2>2, <2>3, <2>4 DEF After
    <3>2. PICK j \in DOMAIN s : i < j /\ s[j].key = x
      BY <2>3, <3>1 DEF Latest
    <3> QED
      BY <1>2, <1>6, <3>2
  <2>5. CASE l = Len(u) + 1
    <3>1. Len(s) + 1 \in DOMAIN o
      BY <1>1, <1>2
    <3> QED
      BY <1>2, <1>3, <1>6, <2>1, <2>3, <2>5, <3>1
  <2> QED
    BY <1>5, <2>4, <2>5
<1>13. Latest(o, v)
  BY <1>2, <1>3, <1>9, <1>10, <1>11, <1>12 DEF Latest
<1> QED
  BY <1>2, <1>13 DEF o, v

\* A key used now, in the cache or not.
LEMMA LatestUsed ==
  ASSUME NEW s, NEW u, Latest(s, u), NEW e \in Made
  PROVE  /\ Latest(Append(Lru!Without(s, e.key), e), Append(Lru!Only(u, LruKey \ {e.key}), e.key))
         /\ (\A i \in DOMAIN s : s[i].key # e.key) =>
              Latest(Append(s, e), Append(Lru!Only(u, LruKey \ {e.key}), e.key))
<1> DEFINE v == Lru!Only(u, LruKey \ {e.key})
           o == Lru!Without(s, e.key)
<1>1. Lru!Without(s, e.key) = Lru!Only(s, {x \in Lru!Range(s) : x.key \notin {e.key}})
  <2>1. {x \in Lru!Range(s) : x.key \notin {e.key}} = {x \in Lru!Range(s) : x.key # e.key}
    OBVIOUS
  <2> QED
    BY <2>1 DEF Lru!Without
<1>2. Latest(o, v)
  <2>1. Latest(Lru!Only(s, {x \in Lru!Range(s) : x.key \notin {e.key}}), Lru!Only(u, LruKey \ {e.key}))
    BY LatestDropped
  <2> QED
    BY <1>1, <2>1
<1>3. \A i \in DOMAIN v : v[i] # e.key
  <2>1. u \in Seq(LruKey)
    BY DEF Latest
  <2>2. PICK g : Places(v, u, LruKey \ {e.key}, g)
    BY <2>1, OnlyPlaces
  <2> HIDE DEF v
  <2> QED
    BY <2>2 DEF Places
<1>4. ASSUME \A i \in DOMAIN s : s[i].key # e.key
      PROVE  Latest(s, v)
  BY <1>4, LatestForgotten
<1> HIDE DEF o, v
<1>5. Latest(Append(o, e), Append(v, e.key))
  BY <1>2, <1>3, LatestAppended
<1>6. ASSUME \A i \in DOMAIN s : s[i].key # e.key
      PROVE  Latest(Append(s, e), Append(v, e.key))
  BY <1>3, <1>4, <1>6, LatestAppended
<1> QED
  BY <1>5, <1>6 DEF o, v

LEMMA LruDropped ==
  ASSUME LruParameters, LruInv, NEW K, Lru!Drop(K)
  PROVE  LruInv'
<1>1. /\ store' = Lru!Only(store, {e \in Lru!Range(store) : e.key \notin K})
      /\ used' = Lru!Only(used, LruKey \ K) /\ pending' = pending /\ now' = now
  BY DEF Lru!Drop
<1>2. Latest(store, used) /\ Len(store) <= LruSize /\ store \in Seq(Made) /\ LruSize \in Nat
  BY DEF LruInv, Latest, LruParameters
<1>3. Latest(store', used')
  BY <1>1, <1>2, LatestDropped
<1>4. Len(store') <= Len(store) /\ store' \in Seq(Made)
  BY <1>1, <1>2, OnlyPlaces
<1>5. Len(store') <= LruSize
  <2>1. Len(store) \in Nat /\ Len(store') \in Nat
    BY <1>2, <1>4
  <2> QED
    BY <1>2, <1>4, <2>1
<1> QED
  BY <1>1, <1>3, <1>5 DEF LruInv

LEMMA LruHit ==
  ASSUME LruParameters, LruInv, NEW k, k \in Lru!Keys, Lru!Hit(k), UNCHANGED <<pending, now, sets>>
  PROVE  LruInv'
<1>1. Latest(store, used) /\ Len(store) <= LruSize /\ store \in Seq(Made) /\ LruSize \in Nat
  BY DEF LruInv, Latest, LruParameters
<1>2. \E e \in Lru!Range(store) : e.key = k
  BY DEF Lru!Keys, Lru!KeysOf, Lru!Range
<1>3. PICK e : e = Lru!Entry(k) /\ e \in Lru!Range(store) /\ e.key = k
  BY <1>2 DEF Lru!Entry
<1>4. e \in Made
  BY <1>1, <1>3 DEF Lru!Range
<1>5. /\ store' = Append(Lru!Without(store, k), e)
      /\ used' = Append(Lru!Only(used, LruKey \ {k}), k)
  BY <1>3 DEF Lru!Hit, Lru!LastUse
<1>6. Latest(store', used')
  BY <1>1, <1>3, <1>4, <1>5, LatestUsed
<1>7. Len(Lru!Without(store, k)) <= Len(store) - 1 /\ Lru!Without(store, k) \in Seq(Made)
  <2>1. \E i \in DOMAIN store : store[i] \notin {x \in Lru!Range(store) : x.key # k}
    BY <1>3 DEF Lru!Range
  <2> QED
    BY <1>1, <2>1, OnlyPlaces DEF Lru!Without
<1>8. Len(store') <= LruSize
  <2>1. Len(store') = Len(Lru!Without(store, k)) + 1 /\ Len(Lru!Without(store, k)) \in Nat /\ Len(store) \in Nat
    BY <1>1, <1>4, <1>5, <1>7
  <2> QED
    BY <1>1, <1>7, <2>1
<1> QED
  BY <1>6, <1>8 DEF LruInv

\* What is left by a clean-up, with the history of it.
LEMMA LruCleaned ==
  ASSUME NEW s, NEW u, Latest(s, u), NEW t, t = Lru!CleanupExpired(s)
  PROVE  Latest(t, Lru!Only(u, LruKey \ (Lru!KeysOf(s) \ Lru!KeysOf(t)))) /\ Len(t) <= Len(s)
<1> DEFINE T == {e \in Lru!Range(s) : ~ Lru!Expired(e)}
           K == Lru!KeysOf(s) \ Lru!KeysOf(t)
<1>1. t = Lru!Only(s, T) /\ s \in Seq(Made)
  BY DEF Lru!CleanupExpired, Latest
<1>2. t \in Seq(Made) /\ Len(t) <= Len(s)
  BY <1>1, OnlyPlaces
<1>3. PICK f : Places(t, s, T, f)
  BY <1>1, OnlyPlaces
<1>4. \A i \in DOMAIN s : s[i] \in T <=> s[i].key \notin K
  <2> SUFFICES ASSUME NEW i \in DOMAIN s PROVE s[i] \in T <=> s[i].key \notin K
    OBVIOUS
  <2>1. s[i].key \in Lru!KeysOf(s)
    BY DEF Lru!KeysOf
  <2>2. ASSUME s[i] \in T
        PROVE  s[i].key \in Lru!KeysOf(t)
    BY <1>3, <2>2 DEF Places, Lru!KeysOf
  <2>3. ASSUME s[i].key \in Lru!KeysOf(t)
        PROVE  s[i] \in T
    <3>1. PICK n \in DOMAIN t : t[n].key = s[i].key
      BY <2>3 DEF Lru!KeysOf
    <3>2. f[n] \in DOMAIN s /\ t[n] = s[f[n]] /\ s[f[n]] \in T
      BY <1>3 DEF Places
    <3>3. f[n] = i
      BY <3>1, <3>2 DEF Latest
    <3> QED
      BY <3>2, <3>3
  <2> QED
    BY <2>1, <2>2, <2>3
<1>5. T = {e \in Lru!Range(s) : e.key \notin K}
  BY <1>4 DEF Lru!Range
<1> HIDE DEF T, K
<1>6. Latest(t, Lru!Only(u, LruKey \ K))
  BY <1>1, <1>5, LatestDropped
<1> QED
  BY <1>2, <1>6 DEF K

LEMMA LruStored ==
  ASSUME LruParameters, LruInv, NEW t \in Thread, Lru!StoreEntry(t)
  PROVE  LruInv'
<1>1. PICK e : e = pending[t] /\ e # None
  BY DEF Lru!StoreEntry
<1>2. /\ Latest(store, used) /\ Len(store) <= LruSize /\ store \in Seq(Made) /\ LruSize \in Nat \ {0}
      /\ pending \in [Thread -> Made \cup {None}] /\ DOMAIN store = 1 .. Len(store)
  BY DEF LruInv, Latest, LruParameters
<1>3. e \in Made
  BY <1>1, <1>2
<1>4. PICK s, left :
        /\ s = Append(IF e.key \in Lru!Keys THEN Lru!Without(store, e.key) ELSE Lru!EvictIfNeeded(store), e)
        /\ left = IF (sets + 1) % Every = 0 THEN Lru!CleanupExpired(s) ELSE s
        /\ store' = left /\ used' = Lru!Only(Lru!LastUse(e.key), LruKey \ (Lru!KeysOf(s) \ Lru!KeysOf(left)))
        /\ pending' = [pending EXCEPT ![t] = None] /\ now' = now
  BY <1>1 DEF Lru!StoreEntry
<1>5. Lru!LastUse(e.key) = Append(Lru!Only(used, LruKey \ {e.key}), e.key)
  BY DEF Lru!LastUse
<1>6. Latest(s, Lru!LastUse(e.key)) /\ Len(s) <= LruSize
  <2>1. CASE e.key \in Lru!Keys
    <3>1. s = Append(Lru!Without(store, e.key), e)
      BY <1>4, <2>1
    <3>2. Latest(s, Lru!LastUse(e.key))
      BY <1>2, <1>3, <1>5, <3>1, LatestUsed
    <3>3. \E i \in DOMAIN store : store[i] \notin {x \in Lru!Range(store) : x.key # e.key}
      BY <2>1 DEF Lru!Keys, Lru!KeysOf
    <3>4. Len(Lru!Without(store, e.key)) <= Len(store) - 1 /\ Lru!Without(store, e.key) \in Seq(Made)
      BY <1>2, <3>3, OnlyPlaces DEF Lru!Without
    <3>5. Len(s) = Len(Lru!Without(store, e.key)) + 1 /\ Len(Lru!Without(store, e.key)) \in Nat /\ Len(store) \in Nat
      BY <1>2, <1>3, <3>1, <3>4
    <3> QED
      BY <1>2, <3>2, <3>4, <3>5
  <2>2. CASE e.key \notin Lru!Keys
    <3> DEFINE o == Lru!EvictIfNeeded(store)
    <3>1. s = Append(o, e)
      BY <1>4, <2>2
    <3>2. o = IF Len(store) >= LruSize THEN SubSeq(store, Len(store) - LruSize + 2, Len(store)) ELSE store
      BY DEF Lru!EvictIfNeeded
    <3> HIDE DEF o
    <3>3. Len(store) \in Nat /\ LruSize \in Nat \ {0} /\ Len(store) <= LruSize
      BY <1>2
    <3>4. Latest(o, used) /\ Len(o) <= LruSize - 1 /\ \A i \in DOMAIN o : \E j \in DOMAIN store : o[i] = store[j]
      <4>1. CASE Len(store) >= LruSize
        <5>1. Len(store) = LruSize
          BY <3>3, <4>1
        <5>2. o = SubSeq(store, 2, Len(store))
          BY <1>2, <3>2, <4>1, <5>1
        <5>3. 2 \in 1 .. Len(store) + 1
          BY <1>2, <3>3, <5>1
        <5>4. Latest(o, used) /\ Len(o) = Len(store) - 2 + 1
          BY <1>2, <5>2, <5>3, LatestEvicted
        <5>5. \A i \in DOMAIN o : i \in 1 .. Len(store) - 2 + 1 /\ o[i] = store[2 + i - 1]
          <6>1. \A i \in 2 .. Len(store) : store[i] \in Made
            BY <1>2
          <6>2. 2 \in Int /\ Len(store) \in Int
            BY <3>3
          <6>3. \A i \in 1 .. Len(store) - 2 + 1 : o[i] = store[2 + i - 1]
            BY <5>2, <6>1, <6>2, SubSeqProperties
          <6>4. DOMAIN o = 1 .. Len(store) - 2 + 1
            BY <5>4 DEF Latest
          <6> QED
            BY <6>3, <6>4
        <5>6. \A i \in 1 .. Len(store) - 2 + 1 : 2 + i - 1 \in DOMAIN store
          BY <1>2, <3>3
        <5> QED
          BY <1>2, <3>3, <5>1, <5>4, <5>5, <5>6
      <4>2. CASE ~ Len(store) >= LruSize
        BY <1>2, <3>2, <3>3, <4>2
      <4> QED
        BY <4>1, <4>2
    <3>5. \A i \in DOMAIN o : o[i].key # e.key
      BY <2>2, <3>4 DEF Lru!Keys, Lru!KeysOf
    <3>6. Latest(s, Lru!LastUse(e.key))
      BY <1>3, <1>5, <3>1, <3>4, <3>5, LatestUsed
    <3>7. Len(s) = Len(o) + 1 /\ Len(o) \in Nat
      BY <1>3, <3>1, <3>4 DEF Latest
    <3> QED
      BY <1>2, <3>4, <3>6, <3>7
  <2> QED
    BY <2>1, <2>2
<1>7. Latest(store', used') /\ Len(store') <= LruSize
  <2>1. CASE (sets + 1) % Every = 0
    <3>1. left = Lru!CleanupExpired(s)
      BY <1>4, <2>1
    <3>2. Latest(left, used') /\ Len(left) <= Len(s)
      BY <1>4, <1>6, <3>1, LruCleaned
    <3>3. Len(left) \in Nat /\ Len(s) \in Nat
      BY <1>6, <3>2 DEF Latest
    <3> QED
      BY <1>2, <1>4, <1>6, <3>2, <3>3
  <2>2. CASE (sets + 1) % Every # 0
    <3>1. store' = s /\ used' = Lru!Only(Lru!LastUse(e.key), LruKey \ (Lru!KeysOf(s) \ Lru!KeysOf(s)))
      BY <1>4, <2>2
    <3>2. \A i \in DOMAIN s : s[i].key \notin Lru!KeysOf(s) \ Lru!KeysOf(s)
      OBVIOUS
    <3> QED
      BY <1>6, <3>1, <3>2, LatestForgotten
  <2> QED
    BY <2>1, <2>2
<1>8. pending' \in [Thread -> Made \cup {None}]
  BY <1>2, <1>4
<1> QED
  BY <1>4, <1>7, <1>8 DEF LruInv

LEMMA LruInitHolds == ASSUME LruParameters, Lru!Init PROVE LruInv
<1>1. store = <<>> /\ used = <<>> /\ now = 0 /\ pending = [t \in Thread |-> None]
  BY DEF Lru!Init
<1>2. <<>> \in Seq(Made) /\ <<>> \in Seq(LruKey) /\ Len(<<>>) = 0 /\ DOMAIN <<>> = {}
  OBVIOUS
<1>3. Latest(store, used)
  BY <1>1, <1>2 DEF Latest
<1> QED
  BY <1>1, <1>2, <1>3 DEF LruInv, LruParameters

LEMMA LruStepHolds ==
  ASSUME LruParameters, LruInv, [Lru!Next]_Lru!vars
  PROVE  LruInv'
<1>1. CASE Lru!Tick
  BY <1>1 DEF Lru!Tick, LruInv, Latest, After
<1>2. ASSUME NEW k \in LruKey, Lru!Get(k)
      PROVE  LruInv'
  BY <1>2, LruDropped, LruHit DEF Lru!Get
<1>3. ASSUME NEW k \in LruKey, Lru!Delete(k)
      PROVE  LruInv'
  BY <1>3, LruDropped DEF Lru!Delete
<1>4. ASSUME NEW n, Lru!InvalidateNamespace(n)
      PROVE  LruInv'
  BY <1>4, LruDropped DEF Lru!InvalidateNamespace
<1>5. CASE Lru!Clear
  BY <1>5, LruDropped DEF Lru!Clear
<1>6. ASSUME NEW k \in LruKey, NEW t \in Thread, NEW ttl \in {0, Life}, Lru!MakeEntry(t, k, ttl)
      PROVE  LruInv'
  <2>1. [key |-> k, expires |-> now + ttl] \in Made
    BY DEF Made, LruInv, LruParameters
  <2> QED
    BY <1>6, <2>1 DEF Lru!MakeEntry, LruInv, Latest, After
<1>7. CASE UNCHANGED Lru!vars
  BY <1>7 DEF Lru!vars, LruInv, Latest, After
<1> QED
  BY <1>1, <1>2, <1>3, <1>4, <1>5, <1>6, <1>7, LruStored DEF Lru!Next

LEMMA EndsMatch ==
  ASSUME NEW n \in Nat, NEW m \in Nat, NEW i \in 1 .. n, NEW k \in 1 .. m,
         (IF i + 1 > n THEN 0 ELSE n - (i + 1) + 1) = (IF k + 1 > m THEN 0 ELSE m - (k + 1) + 1)
  PROVE  k = m - n + i
OBVIOUS

\* A cache of the keys used last is an end of the history.
LEMMA LatestIsAnEnd ==
  ASSUME NEW s, NEW u, Latest(s, u)
  PROVE  [i \in DOMAIN s |-> s[i].key] = SubSeq(u, Len(u) - Len(s) + 1, Len(u))
<1> DEFINE n == Len(s)
           m == Len(u)
           g == [i \in DOMAIN s |-> CHOOSE j \in DOMAIN u : u[j] = s[i].key]
<1>1. /\ s \in Seq(Made) /\ u \in Seq(LruKey) /\ n \in Nat /\ m \in Nat
      /\ DOMAIN s = 1 .. n /\ DOMAIN u = 1 .. m
  BY DEF Latest
<1>2. \A i \in 1 .. n : g[i] \in 1 .. m /\ u[g[i]] = s[i].key
  BY <1>1 DEF Latest
<1> HIDE DEF g
<1>3. ASSUME NEW i \in 1 .. n, NEW p \in 1 .. m, g[i] < p
      PROVE  \E j \in 1 .. n : i < j /\ g[j] = p
  <2>1. After(u, s[i].key, u[p]) /\ u[p] \in LruKey
    BY <1>1, <1>2, <1>3 DEF After
  <2>2. PICK j \in 1 .. n : i < j /\ s[j].key = u[p]
    BY <1>1, <2>1 DEF Latest
  <2> QED
    BY <1>1, <1>2, <2>2 DEF Latest
<1>4. \A i, j \in 1 .. n : g[i] = g[j] => i = j
  BY <1>1, <1>2 DEF Latest
<1>5. \A i, j \in 1 .. n : i < j => g[i] < g[j]
  <2> SUFFICES ASSUME NEW i \in 1 .. n, NEW j \in 1 .. n, i < j, ~ g[i] < g[j] PROVE FALSE
    OBVIOUS
  <2>1. g[i] # g[j]
    BY <1>4
  <2>2. g[j] < g[i] /\ g[i] \in 1 .. m
    BY <1>1, <1>2, <2>1
  <2>3. PICK l \in 1 .. n : j < l /\ g[l] = g[i]
    BY <1>3, <2>2
  <2>4. l = i
    BY <1>4, <2>3
  <2> QED
    BY <1>1, <2>3, <2>4
<1>6. ASSUME NEW i \in 1 .. n
      PROVE  g[i] = m - n + i
  <2> DEFINE S == i + 1 .. n
             T == g[i] + 1 .. m
             f == [j \in S |-> g[j]]
  <2>1. \A j \in S : j \in 1 .. n /\ i < j
    BY <1>1
  <2>2. \A p \in 1 .. m : p \in T <=> g[i] < p
    BY <1>1, <1>2
  <2>3. \A j \in S : f[j] \in T
    BY <1>2, <1>5, <2>1, <2>2
  <2>4. \A p \in T : p \in 1 .. m
    BY <1>1, <1>2
  <2>5. \A j \in 1 .. n : i < j => j \in S
    BY <1>1
  <2>6. \A p \in T : \E j \in S : f[j] = p
    BY <1>3, <2>2, <2>4, <2>5
  <2>7. f \in Injection(S, T)
    BY <1>4, <2>1, <2>3 DEF Injection, IsInjective
  <2>8. f \in Surjection(S, T)
    BY <2>3, <2>6 DEF Surjection
  <2>9. i + 1 \in Int /\ g[i] + 1 \in Int /\ n \in Int /\ m \in Int
    BY <1>1, <1>2
  <2>10. Cardinality(S) = IF i + 1 > n THEN 0 ELSE n - (i + 1) + 1
    BY <2>9, FS_Interval
  <2>11. IsFiniteSet(T) /\ Cardinality(T) = IF g[i] + 1 > m THEN 0 ELSE m - (g[i] + 1) + 1
    BY <2>9, FS_Interval
  <2>12. Cardinality(S) = Cardinality(T)
    BY <2>7, <2>8, <2>11, FS_Injection
  <2>13. n \in Nat /\ m \in Nat /\ g[i] \in 1 .. m
    BY <1>1, <1>2
  <2> HIDE DEF S, T
  <2> QED
    BY <2>10, <2>11, <2>12, <2>13, EndsMatch
<1>7. CASE n = 0
  <2>1. SubSeq(u, m - n + 1, m) = <<>>
    <3>1. m < m - n + 1 /\ m - n + 1 \in Int /\ m \in Int
      BY <1>1, <1>7
    <3> QED
      BY <3>1, SubSeqEmpty
  <2>2. [i \in DOMAIN s |-> s[i].key] = <<>>
    BY <1>1, <1>7
  <2> QED
    BY <2>1, <2>2
<1>8. CASE n # 0
  <2>1. n <= m
    <3>1. n \in 1 .. n /\ 1 \in 1 .. n
      BY <1>1, <1>8
    <3>2. g[1] = m - n + 1 /\ g[1] \in 1 .. m
      BY <1>2, <1>6, <3>1
    <3> QED
      BY <1>1, <3>2
  <2> DEFINE a == [i \in 1 .. n |-> s[i].key]
             b == SubSeq(u, m - n + 1, m)
  <2>2. \A i \in m - n + 1 .. m : u[i] \in LruKey
    BY <1>1, <2>1
  <2>3. m - n + 1 \in Int /\ m \in Int
    BY <1>1
  <2>4. /\ b \in Seq(LruKey) /\ Len(b) = IF m - n + 1 <= m THEN m - (m - n + 1) + 1 ELSE 0
        /\ \A i \in 1 .. m - (m - n + 1) + 1 : b[i] = u[m - n + 1 + i - 1]
    BY <2>2, <2>3, SubSeqProperties
  <2>5. \A i \in 1 .. n : s[i].key \in LruKey
    <3>1. \A i \in DOMAIN s : s[i] \in Made
      BY <1>1
    <3> QED
      BY <1>1, <3>1 DEF Made
  <2>6. a \in Seq(LruKey) /\ Len(a) = n /\ \A i \in 1 .. n : a[i] = s[i].key
    BY <1>1, <2>5
  <2>7. Len(b) = n /\ \A i \in 1 .. n : b[i] = u[m - n + i]
    <3> HIDE DEF b
    <3>1. m - (m - n + 1) + 1 = n /\ m - n + 1 <= m
      BY <1>1, <1>8
    <3>2. \A i \in 1 .. n : m - n + 1 + i - 1 = m - n + i
      BY <1>1
    <3> QED
      BY <2>4, <3>1, <3>2
  <2>8. \A i \in 1 .. n : u[m - n + i] = s[i].key
    BY <1>2, <1>6
  <2> HIDE DEF a, b
  <2>9. a = b
    BY <2>4, <2>6, <2>7, <2>8, SeqEqual
  <2> QED
    BY <1>1, <2>9 DEF a, b
<1> QED
  BY <1>7, <1>8

LEMMA LastUsedHeld == ASSUME LruInv PROVE Lru!HoldsTheLastUsed
BY LatestIsAnEnd DEF LruInv, Lru!HoldsTheLastUsed

LiveLruInv == live = "lru" => LruInv

\* TTLCache: the cache holds at most max_size entries, those of the keys used last, in the
\* order of their use.
THEOREM CacheHoldsTheLast == ASSUME LruParameters PROVE PartSpec => []HoldsTheLastUsed
<1>1. PartInit => LiveLruInv
  BY LiveStarts, LruInitHolds DEF LiveLruInv
<1>2. LiveLruInv /\ [PartNext]_partVars => LiveLruInv'
  BY LiveSteps, LruStepHolds DEF LiveLruInv
<1>3. LiveLruInv => HoldsTheLastUsed
  BY LastUsedHeld DEF HoldsTheLastUsed, LiveLruInv
<1> QED
  BY <1>1, <1>2, <1>3, PTL DEF PartSpec
=============================================================================
