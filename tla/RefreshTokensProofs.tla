------------------------ MODULE RefreshTokensProofs ------------------------
(***************************************************************************)
(* Proofs about refresh tokens.  The one fact behind them is Chain: in the *)
(* session that Redis has last written, no refresh key is left but the one *)
(* the pointer names, whether or not the keys themselves are still there.  *)
(***************************************************************************)
EXTENDS RefreshTokens, FiniteSetTheorems, TLAPS

\* The pair new was signed for the call that presented old, or for a session of
\* its own, and no client has it yet.
Pending(old, new) ==
    /\ new \in 1 .. issued /\ new \notin held
    /\ \/ /\ old = NoPair
          /\ claims[new].session = new /\ claims[new].parent = NoPair
       \/ /\ old \in held
          /\ claims[new].session = claims[old].session /\ claims[new].parent = old

\* The same of the state after a step.
PendingIn(old, new, i, h, k) ==
    /\ new \in 1 .. i /\ new \notin h
    /\ \/ old = NoPair /\ k[new].session = new /\ k[new].parent = NoPair
       \/ old \in h /\ k[new].session = k[old].session /\ k[new].parent = old

InFlight(c) == call[c].stage \in {"sent", "replied"}

\* What calls and late scripts are about, and whose pairs are whose.
Ownership ==
    /\ \A c \in Calls :
         /\ call[c].old \in held \union {NoPair}
         /\ call[c].stage = "active" => call[c].old \in held
         /\ InFlight(c) => Pending(call[c].old, call[c].new)
         /\ call[c].stage = "replied" /\ call[c].reply = 1 => call[c].new \in stored
         /\ call[c].stage = "replied" /\ call[c].reply = 0 => call[c].old # NoPair
    /\ \A c, d \in Calls : InFlight(c) /\ InFlight(d) /\ call[c].new = call[d].new => c = d
    /\ \A s \in late : /\ Pending(s[1], s[2])
                       /\ \A c \in Calls : InFlight(c) => call[c].new # s[2]

\* A pair follows a pair of a client, and so does its session.
Ancestry ==
    \A t \in 1 .. issued :
        /\ claims[t].parent \in held \union {NoPair}
        /\ claims[t].session \in held \union {t}
        /\ claims[t].at <= clock

\* The keys in Redis.
Chain ==
    /\ pointer.value \in stored \union {NoPair}
    /\ pointer.value = NoPair => session.value = NoPair
    /\ pointer.value # NoPair => session.value = claims[pointer.value].session
    /\ \A t \in Pairs : marker[t] > 0 => t \in stored
    /\ \A t \in Pairs :
         marker[t] > 0 /\ claims[t].session = session.value => t = pointer.value
    /\ \A n \in stored : claims[n].parent # NoPair => marker[claims[n].parent] = 0

\* How long the keys are there.
Lifetimes ==
    /\ \A t \in stored :
         claims[t].session = session.value /\ t # pointer.value => HasSuccessor(t)
    /\ evicted = 0 /\ pointer.value # NoPair =>
         /\ marker[pointer.value] >= Expires(pointer.value)
         /\ session.exp >= Expires(pointer.value)
         /\ pointer.exp >= Expires(pointer.value)

\* When sessions were active.
Sightings == \A t \in stored : claims[t].at <= seen[claims[t].session]

\* A pair in Redis has reached its client, or is about to, or was lost on the way.
Delivery ==
    /\ \A s \in late : s[2] \in unheard
    /\ \A t \in stored :
         \/ t \in held \union unheard
         \/ \E c \in Calls : /\ call[c].stage = "replied"
                             /\ call[c].reply = 1 /\ call[c].new = t

\* A refusal is right and stays so.
Refusals ==
    \A c \in Calls :
        /\ call[c].stage = "idle" /\ call[c].answer = "revoked" =>
             call[c].old \in held /\ ~ Usable(call[c].old)
        /\ call[c].stage = "replied" /\ call[c].reply = 0 => ~ Usable(call[c].old)

IInv == /\ TypeOK /\ Ownership /\ Ancestry /\ Chain /\ Lifetimes /\ Sightings
        /\ Delivery /\ RotatedOnce /\ Refusals
-----------------------------------------------------------------------------
(* The scripts. *)

\* A script that writes: the rotation of old, or a new session.
Writes(old, new) ==
    \/ old # NoPair /\ rotates(old) /\ Store(new, old)
    \/ old = NoPair /\ replaceScript(new)

\* No token that had stopped to work works after this step.
StaysDead == \A t \in held : ~ Usable(t) => ~ Usable(t)'

\* The types that proofs about Redis use.
LEMMA RedisTypes ==
    ASSUME TypeOK
    PROVE  /\ clock \in Nat /\ issued \in Nat /\ issued <= MaxTokens
           /\ marker \in [Pairs -> Nat]
           /\ session.value \in 0 .. MaxTokens /\ session.exp \in Nat
           /\ pointer.value \in 0 .. MaxTokens /\ pointer.exp \in Nat
           /\ session = [value |-> session.value, exp |-> session.exp]
           /\ \A t \in Pairs : /\ claims[t].at \in Nat /\ marker[t] \in Nat
                               /\ claims[t].session \in 0 .. MaxTokens
                               /\ claims[t].parent \in 0 .. MaxTokens
                               /\ Expires(t) \in Nat
           /\ 1 .. issued \subseteq Pairs /\ stored \subseteq Pairs /\ held \subseteq Pairs
           /\ NoPair \notin Pairs
<1>1. /\ clock \in Nat /\ issued \in Nat /\ issued <= MaxTokens
      /\ marker \in [Pairs -> Nat] /\ session \in Key /\ pointer \in Key
      /\ 1 .. issued \subseteq Pairs /\ stored \subseteq Pairs /\ held \subseteq Pairs
      /\ NoPair \notin Pairs
  BY TokenAssumption DEF TypeOK, Pairs, NoPair
<1>2. \A t \in Pairs : /\ claims[t].at \in Nat
                       /\ claims[t].session \in 0 .. MaxTokens
                       /\ claims[t].parent \in 0 .. MaxTokens
  BY DEF TypeOK
<1>3. \A t \in Pairs : Expires(t) \in Nat
  BY <1>2, TokenAssumption DEF Expires
<1> QED
  BY <1>1, <1>2, <1>3 DEF Key

\* What a script that writes leaves in Redis.
LEMMA StoreFacts ==
    ASSUME TypeOK, NEW old, NEW new \in Pairs, old # new, old \in Pairs \union {NoPair},
           Writes(old, new)
    PROVE  /\ marker' \in [Pairs -> Nat]
           /\ marker'[new] = clock + RefreshTTL
           /\ \A t \in Pairs : t # new => marker'[t] \in {marker[t], 0}
           /\ old # NoPair => marker'[old] = 0
           /\ session' = [value |-> claims[new].session, exp |-> clock + RefreshTTL]
           /\ pointer' = [value |-> new, exp |-> clock + RefreshTTL]
           /\ stored' = stored \union {new}
           /\ seen' = [seen EXCEPT ![claims[new].session] = clock]
<1>1. PICK gone : Store(new, gone) /\ (old # NoPair => gone = old)
  BY DEF Writes, replaceScript
<1>2. clock + RefreshTTL \in Nat
  BY RedisTypes, TokenAssumption
<1>3. marker' = [t \in Pairs |-> IF t = new THEN clock + RefreshTTL
                                 ELSE IF t = gone THEN 0 ELSE marker[t]]
  BY <1>1 DEF Store
<1>4. /\ marker' \in [Pairs -> Nat]
      /\ marker'[new] = clock + RefreshTTL
      /\ \A t \in Pairs : t # new => marker'[t] \in {marker[t], 0}
      /\ old # NoPair => marker'[old] = 0
  BY <1>1, <1>2, <1>3, RedisTypes
<1> QED
  BY <1>1, <1>4 DEF Store

\* The keys agree after a script as they did before it.
LEMMA ChainAfterScript ==
    ASSUME IInv, NEW old, NEW new, Pending(old, new), Writes(old, new),
           UNCHANGED <<clock, issued, claims, held>>
    PROVE  Chain' /\ RotatedOnce'
<1> USE DEF NoPair
<1>1. TypeOK /\ Ownership /\ Ancestry /\ Chain /\ RotatedOnce
  BY DEF IInv
<1>2. new \in Pairs /\ new \in 1 .. issued /\ new \notin held /\ old \in held \union {NoPair} /\ old # new
      /\ old \in Pairs \union {NoPair}
  BY <1>1, RedisTypes DEF Pending
<1>3. /\ marker' \in [Pairs -> Nat]
      /\ marker'[new] = clock + RefreshTTL
      /\ \A t \in Pairs : t # new => marker'[t] \in {marker[t], 0}
      /\ old # NoPair => marker'[old] = 0
      /\ session'.value = claims[new].session
      /\ pointer'.value = new
      /\ stored' = stored \union {new}
  BY <1>1, <1>2, StoreFacts
<1>4. \A t \in Pairs : marker'[t] > 0 => t \in stored'
  BY <1>1, <1>3, RedisTypes DEF Chain
<1>5. ASSUME NEW t \in Pairs, marker'[t] > 0, claims[t].session = session'.value, t # new
      PROVE  FALSE
  <2>1. marker[t] > 0 /\ t \in stored /\ t \in 1 .. issued
    BY <1>1, <1>3, <1>5, RedisTypes DEF Chain, TypeOK
  <2>2. CASE old = NoPair
    <3>1. claims[t].session = new
      BY <1>3, <1>5, <2>2, <1>2, <1>1, RedisTypes DEF Pending
    <3>2. claims[t].session \in held \union {t}
      BY <1>1, <2>1 DEF Ancestry
    <3> QED
      BY <3>1, <3>2, <1>2, <1>5
  <2>3. CASE old # NoPair
    <3>1. old \in Pairs /\ rotates(old) /\ claims[t].session = claims[old].session
      BY <1>1, <1>2, <1>3, <1>5, <2>3, RedisTypes DEF Pending, Writes
    <3>2. session.value = claims[old].session /\ marker[old] > 0
      <4>1. claims[old].session # NoPair
        BY <1>1, <1>2, <2>3, RedisTypes DEF Ancestry, TypeOK
      <4> QED
        BY <1>1, <3>1, <4>1, RedisTypes DEF rotates, IsSessionActive, Value
    <3>3. old = pointer.value /\ t = pointer.value
      BY <1>1, <2>1, <3>1, <3>2 DEF Chain
    <3> QED
      BY <1>3, <1>5, <2>3, <3>3
  <2> QED
    BY <2>2, <2>3
<1>6. \A n \in stored' : claims[n].parent # NoPair => marker'[claims[n].parent] = 0
  <2> SUFFICES ASSUME NEW n \in stored', claims[n].parent # NoPair
               PROVE  marker'[claims[n].parent] = 0
    OBVIOUS
  <2>1. CASE n = new
    BY <1>2, <1>3, <2>1 DEF Pending
  <2>2. CASE n # new
    <3>1. n \in stored /\ n \in 1 .. issued /\ n \in Pairs
      BY <1>1, <1>3, <2>2, RedisTypes DEF TypeOK
    <3>2. claims[n].parent \in held /\ claims[n].parent \in Pairs /\ claims[n].parent # new
      BY <1>1, <1>2, <3>1, RedisTypes DEF Ancestry
    <3>3. marker[claims[n].parent] = 0
      BY <1>1, <3>1 DEF Chain
    <3> QED
      BY <1>3, <3>2, <3>3
  <2> QED
    BY <2>1, <2>2
<1>7. \A a \in stored : a # new /\ claims[new].parent # NoPair => claims[a].parent # claims[new].parent
  <2> SUFFICES ASSUME NEW a \in stored, claims[new].parent # NoPair,
                      claims[a].parent = claims[new].parent
               PROVE  FALSE
    OBVIOUS
  <2>1. old # NoPair /\ claims[a].parent = old /\ rotates(old)
    BY <1>2 DEF Pending, Writes
  <2>2. marker[old] = 0
    BY <1>1, <2>1 DEF Chain
  <2> QED
    BY <1>1, <2>1, <2>2, RedisTypes DEF rotates
<1>8. RotatedOnce'
  <2> SUFFICES ASSUME NEW a \in stored', NEW b \in stored', claims[a].parent # NoPair,
                      claims[a].parent = claims[b].parent
               PROVE  a = b
    BY DEF RotatedOnce
  <2>1. CASE a \in stored /\ b \in stored
    BY <1>1, <2>1 DEF RotatedOnce
  <2>2. CASE a = new \/ b = new
    BY <1>3, <1>7, <2>2
  <2> QED
    BY <1>3, <2>1, <2>2
<1>9. new # NoPair /\ claims' = claims
  BY <1>1, <1>2, RedisTypes
<1>10. \A t \in Pairs : marker'[t] > 0 /\ claims[t].session = session'.value => t = new
  BY <1>5
<1> QED
  BY <1>3, <1>4, <1>6, <1>8, <1>9, <1>10 DEF Chain
\* Keys live as long as their token after a script as they did before it.
LEMMA LifetimesAfterScript ==
    ASSUME IInv, NEW old, NEW new, Pending(old, new), Writes(old, new),
           UNCHANGED <<clock, issued, claims, held, evicted>>
    PROVE  Lifetimes' /\ Sightings'
<1> USE DEF NoPair
<1>1. TypeOK /\ Ownership /\ Ancestry /\ Chain /\ Lifetimes /\ Sightings
  BY DEF IInv
<1>2. new \in Pairs /\ new \in 1 .. issued /\ new \notin held /\ old \in held \union {NoPair} /\ old # new
      /\ old \in Pairs \union {NoPair}
  BY <1>1, RedisTypes DEF Pending
<1>3. /\ marker'[new] = clock + RefreshTTL
      /\ session' = [value |-> claims[new].session, exp |-> clock + RefreshTTL]
      /\ pointer' = [value |-> new, exp |-> clock + RefreshTTL]
      /\ stored' = stored \union {new}
      /\ seen' = [seen EXCEPT ![claims[new].session] = clock]
  BY <1>1, <1>2, StoreFacts
<1>4. clock + RefreshTTL >= Expires(new) /\ Expires(new)' = Expires(new) /\ clock + RefreshTTL \in Nat
  BY <1>1, <1>2, RedisTypes, TokenAssumption DEF Ancestry, Expires
<1>5. ASSUME NEW t \in stored', claims[t].session = claims[new].session, t # new
      PROVE  HasSuccessor(t)'
  <2>1. t \in stored /\ t \in 1 .. issued
    BY <1>1, <1>3, <1>5 DEF TypeOK
  <2>2. CASE old = NoPair
    <3>1. claims[t].session = new /\ claims[t].session \in held \union {t}
      BY <1>1, <1>2, <1>5, <2>1, <2>2, RedisTypes DEF Pending, Ancestry
    <3> QED
      BY <1>2, <1>5, <3>1
  <2>3. CASE t = old /\ old # NoPair
    <3>1. claims'[new].parent = t /\ new \in stored'
      BY <1>2, <1>3, <2>3 DEF Pending
    <3> QED
      BY <3>1 DEF HasSuccessor
  <2>4. CASE t # old /\ old # NoPair
    <3>1. old \in held /\ rotates(old) /\ claims[t].session = claims[old].session
      BY <1>2, <1>5, <2>4 DEF Pending, Writes
    <3>2. session.value = claims[old].session /\ marker[old] > 0
      <4>1. claims[old].session # NoPair
        BY <1>1, <3>1, RedisTypes DEF Ancestry, TypeOK
      <4> QED
        BY <1>1, <3>1, <4>1, RedisTypes DEF rotates, IsSessionActive, Value
    <3>3. old = pointer.value
      BY <1>1, <3>1, <3>2, RedisTypes DEF Chain
    <3>4. HasSuccessor(t)
      BY <1>1, <2>1, <2>4, <3>1, <3>2, <3>3 DEF Lifetimes
    <3> QED
      BY <1>3, <3>4 DEF HasSuccessor
  <2> QED
    BY <2>2, <2>3, <2>4
<1>6. Lifetimes'
  <2>1. session'.value = claims[new].session /\ session'.exp = clock + RefreshTTL
        /\ pointer'.value = new /\ pointer'.exp = clock + RefreshTTL /\ claims' = claims
    BY <1>3
  <2> QED
    BY <1>3, <1>4, <1>5, <2>1 DEF Lifetimes
<1>7. ASSUME NEW t \in stored'
      PROVE  claims[t].at <= seen'[claims[t].session]
  <2>1. seen \in [Pairs -> Nat] /\ t \in 1 .. issued /\ claims[t].session \in Pairs
        /\ claims[new].session \in Pairs
    BY <1>1, <1>2, <1>3, RedisTypes DEF TypeOK, Ancestry
  <2>2. claims[t].at <= clock
    BY <1>1, <2>1 DEF Ancestry
  <2>3. CASE claims[t].session = claims[new].session
    BY <1>3, <2>1, <2>2, <2>3
  <2>4. CASE claims[t].session # claims[new].session
    BY <1>1, <1>3, <2>1, <2>4 DEF Sightings
  <2> QED
    BY <2>3, <2>4
<1> QED
  BY <1>6, <1>7 DEF Sightings

\* A script does not bring a token of a client back.
LEMMA DeadAfterScript ==
    ASSUME IInv, NEW old, NEW new, Pending(old, new), Writes(old, new),
           UNCHANGED <<clock, issued, claims, held>>
    PROVE  StaysDead
<1> USE DEF NoPair
<1>1. TypeOK /\ Ownership /\ Ancestry /\ Chain /\ Chain'
  BY ChainAfterScript DEF IInv
<1>2. new \in Pairs /\ new \notin held /\ old # new /\ old \in Pairs \union {NoPair}
  BY <1>1, RedisTypes DEF Pending
<1>3. /\ pointer' = [value |-> new, exp |-> clock + RefreshTTL]
      /\ session'.value = claims[new].session
      /\ \A t \in Pairs : t # new => marker'[t] \in {marker[t], 0}
  BY <1>1, <1>2, StoreFacts
<1>4. ASSUME NEW t \in held, Usable(t)'
      PROVE  FALSE
  <2>1. t \in Pairs /\ t # new /\ t \in 1 .. issued
    BY <1>1, <1>2, RedisTypes DEF TypeOK
  <2>2. marker'[t] > clock /\ Value(session', clock) = claims[t].session
    BY <1>4 DEF Usable, rotates, IsSessionActive, Value
  <2>3. claims[t].session # NoPair
    BY <1>1, <2>1, RedisTypes DEF Ancestry
  <2>4. session'.value = claims[t].session
    BY <2>2, <2>3 DEF Value
  <2>5. marker'[t] > 0
    BY <1>1, <2>1, <2>2, <1>3, RedisTypes
  <2> QED
    BY <1>1, <1>3, <2>1, <2>4, <2>5 DEF Chain
<1> QED
  BY <1>4 DEF StaysDead

-----------------------------------------------------------------------------
(* The steps of calls. *)

CallType == [stage : Stages, old : 0 .. MaxTokens, new : 0 .. MaxTokens,
             reply : 0 .. 1, answer : Answers]

\* A step that leaves Redis and the pairs alone leaves what was said of them.
LEMMA QuietStores ==
    ASSUME IInv, held \subseteq held',
           UNCHANGED <<clock, issued, claims, marker, session, pointer, stored, seen, evicted>>
    PROVE  /\ Ancestry' /\ Chain' /\ Lifetimes' /\ Sightings' /\ RotatedOnce' /\ StaysDead
           /\ \A t \in Pairs : Usable(t)' <=> Usable(t)
<1>1. Ancestry' /\ Chain' /\ Sightings' /\ RotatedOnce'
  BY DEF IInv, Ancestry, Chain, Sightings, RotatedOnce
<1>2. Lifetimes'
  BY DEF IInv, Lifetimes, HasSuccessor, Expires
<1>3. \A t \in Pairs : Usable(t)' <=> Usable(t)
  BY DEF Usable, Expires, rotates, IsSessionActive
<1>4. held \subseteq Pairs
  BY RedisTypes DEF IInv
<1> QED
  BY <1>1, <1>2, <1>3, <1>4 DEF StaysDead

\* validateRefreshToken.
LEMMA ValidateStep ==
    ASSUME IInv, NEW c \in Calls, NEW t \in held, NEW kind \in Kinds,
           validateRefreshToken(c, t, kind)
    PROVE  IInv' /\ StaysDead
<1>1. /\ TypeOK /\ Ownership /\ Ancestry /\ Delivery /\ Refusals
      /\ call \in [Calls -> CallType] /\ call[c].stage = "idle"
      /\ UNCHANGED <<clock, issued, claims, marker, session, pointer, stored, held, late, seen, unheard, evicted>>
  <2>1. /\ TypeOK /\ Ownership /\ Ancestry /\ Delivery /\ Refusals
        /\ call \in [Calls -> CallType]
    BY DEF IInv, TypeOK, CallType
  <2>2. call[c].stage = "idle"
    BY DEF validateRefreshToken, Begin
  <2>3. UNCHANGED <<clock, tokenVars, redisVars, stored, held, late, seen, unheard, evicted>>
    BY DEF validateRefreshToken
  <2> QED
    BY <2>1, <2>2, <2>3 DEF tokenVars, redisVars
<1>2. /\ Ancestry' /\ Chain' /\ Lifetimes' /\ Sightings' /\ RotatedOnce' /\ StaysDead
      /\ \A p \in Pairs : Usable(p)' <=> Usable(p)
  BY <1>1, QuietStores
<1>3. PICK stage \in {"idle", "active"}, answer \in Answers :
        /\ call' = [call EXCEPT ![c] = NewCall(stage, t, NoPair, answer)]
        /\ answer = "revoked" => ~ IsSessionActive(t)
        /\ lost' = lost \/ (lost < MaxLost /\ lost' = lost + 1)
  <2>1. ParseToken(t, kind, "refresh") \in {"expired", "invalid", "ok"}
    BY DEF ParseToken
  <2>2. PICK parsed \in {"expired", "invalid", "ok"} : parsed = ParseToken(t, kind, "refresh")
    BY <2>1
  <2>3. \/ /\ parsed # "ok" /\ lost' = lost
           /\ call' = [call EXCEPT ![c] = NewCall("idle", t, NoPair, parsed)]
        \/ /\ ~ IsSessionActive(t) /\ lost' = lost
           /\ call' = [call EXCEPT ![c] = NewCall("idle", t, NoPair, "revoked")]
        \/ /\ lost' = lost
           /\ call' = [call EXCEPT ![c] = NewCall("active", t, NoPair, "none")]
        \/ /\ lost < MaxLost /\ lost' = lost + 1
           /\ call' = [call EXCEPT ![c] = NewCall("idle", t, NoPair, "session_failed")]
    BY <2>2 DEF validateRefreshToken, Begin, Lose
  <2>4. parsed \in Answers /\ parsed # "revoked"
        /\ {"revoked", "none", "session_failed"} \subseteq Answers
    BY <2>2 DEF Answers
  <2> QED
    BY <2>3, <2>4
<1>4. NewCall(stage, t, NoPair, answer) =
        [stage |-> stage, old |-> t, new |-> 0, reply |-> 0, answer |-> answer]
  BY DEF NewCall, NoPair
<1>5. /\ call'[c] = [stage |-> stage, old |-> t, new |-> 0, reply |-> 0, answer |-> answer]
      /\ \A d \in Calls : d # c => call'[d] = call[d]
      /\ call' \in [Calls -> CallType]
  <2>1. [stage |-> stage, old |-> t, new |-> 0, reply |-> 0, answer |-> answer] \in CallType
    BY <1>1, RedisTypes, TokenAssumption, SMTT(30) DEF CallType, Stages, Pairs
  <2> QED
    BY <1>1, <1>3, <1>4, <2>1
<1>6. TypeOK'
  <2>1. lost' \in 0 .. MaxLost
    BY <1>1, <1>3, TokenAssumption DEF TypeOK
  <2> QED
    BY <1>1, <1>5, <2>1 DEF TypeOK, CallType
<1>7. Ownership'
  <2>1. \A d \in Calls : InFlight(d)' => d # c /\ InFlight(d) /\ call'[d] = call[d]
    BY <1>3, <1>5 DEF InFlight
  <2>2. \A p, q : Pending(p, q)' <=> Pending(p, q)
    BY <1>1 DEF Pending
  <2>3. \A d \in Calls : /\ call'[d].old \in held \union {NoPair}
                         /\ call'[d].stage = "active" => call'[d].old \in held
                         /\ call'[d].stage = "replied" /\ call'[d].reply = 1 => call'[d].new \in stored
                         /\ call'[d].stage = "replied" /\ call'[d].reply = 0 => call'[d].old # NoPair
    BY <1>1, <1>3, <1>5 DEF Ownership
  <2> QED
    BY <1>1, <2>1, <2>2, <2>3 DEF Ownership
<1>8. Delivery'
  <2>1. \A d \in Calls : call[d].stage = "replied" => call'[d] = call[d]
    BY <1>1, <1>5
  <2> QED
    BY <1>1, <2>1 DEF Delivery
<1>9. Refusals'
  <2>1. ~ IsSessionActive(t) => ~ Usable(t)
    BY DEF Usable, rotates
  <2>2. t \in Pairs
    BY <1>1, RedisTypes
  <2>3. ASSUME NEW d \in Calls PROVE
          /\ call'[d].stage = "idle" /\ call'[d].answer = "revoked" =>
               call'[d].old \in held /\ ~ Usable(call'[d].old)
          /\ call'[d].stage = "replied" /\ call'[d].reply = 0 => ~ Usable(call'[d].old)
    <3>1. CASE d = c
      BY <1>3, <1>5, <2>1, <3>1
    <3>2. CASE d # c
      BY <1>1, <1>5, <3>2 DEF Refusals
    <3> QED
      BY <3>1, <3>2
  <2>4. \A p : Usable(p)' <=> Usable(p)
    BY <1>1 DEF Usable, Expires, rotates, IsSessionActive
  <2> QED
    BY <1>1, <2>3, <2>4 DEF Refusals
<1> QED
  BY <1>2, <1>6, <1>7, <1>8, <1>9 DEF IInv

\* A step that signs a pair leaves what was said of the others.
LEMMA SignStep ==
    ASSUME IInv, NEW c \in Calls, NEW old \in held \union {NoPair}, NEW root, NEW begun,
           root = IF old = NoPair THEN issued + 1 ELSE claims[old].session,
           Sign(root, old),
           call[c].stage \in {"idle", "active"},
           call' = [call EXCEPT ![c] = begun], begun \in CallType,
           begun.stage = "sent", begun.old = old, begun.new = issued + 1,
           UNCHANGED <<clock, marker, session, pointer, stored, held, late, seen, unheard, lost, evicted>>
    PROVE  IInv' /\ StaysDead
<1> USE DEF NoPair
<1>1. TypeOK /\ Ownership /\ Ancestry /\ Chain /\ Lifetimes /\ Sightings /\ Delivery
      /\ RotatedOnce /\ Refusals
  BY DEF IInv
<1>2. /\ issued < MaxTokens /\ issued' = issued + 1 /\ issued \in Nat
      /\ issued + 1 \in Pairs /\ issued + 1 \in 1 .. MaxTokens
      /\ 1 .. issued' = (1 .. issued) \union {issued + 1}
      /\ issued + 1 \notin 1 .. issued /\ issued + 1 \notin stored /\ issued + 1 \notin held
      /\ old # issued + 1
  <2>1. issued < MaxTokens /\ issued' = issued + 1 /\ issued \in Nat
    BY <1>1, RedisTypes DEF Sign
  <2>2. issued + 1 \in 1 .. MaxTokens /\ issued + 1 \notin 1 .. issued
        /\ 1 .. issued' = (1 .. issued) \union {issued + 1}
    BY <2>1, TokenAssumption
  <2>3. held \subseteq stored /\ stored \subseteq 1 .. issued
    BY <1>1 DEF TypeOK
  <2>4. old # issued + 1
    BY <2>1, <2>2, <2>3
  <2> QED
    BY <2>1, <2>2, <2>3, <2>4 DEF Pairs
<1>3. claims \in [Pairs -> [session : 0 .. MaxTokens, at : Nat, parent : 0 .. MaxTokens]]
  BY <1>1 DEF TypeOK
<1>4. root \in 1 .. MaxTokens /\ old \in 0 .. MaxTokens /\ clock \in Nat
  <2>1. old \in 0 .. MaxTokens /\ clock \in Nat
    BY <1>1, RedisTypes, TokenAssumption DEF Pairs
  <2>2. CASE old = NoPair
    BY <1>2, <2>1, <2>2
  <2>3. CASE old # NoPair
    <3>1. old \in 1 .. issued
      BY <1>1, <2>3 DEF TypeOK
    <3>2. claims[old].session \in held \union {old}
      BY <1>1, <3>1 DEF Ancestry
    <3> QED
      BY <1>1, <2>3, <3>1, <3>2, RedisTypes DEF Pairs
  <2> QED
    BY <2>1, <2>2, <2>3
<1>5. /\ claims' \in [Pairs -> [session : 0 .. MaxTokens, at : Nat, parent : 0 .. MaxTokens]]
      /\ claims'[issued + 1] = [session |-> root, at |-> clock, parent |-> old]
      /\ \A t \in Pairs : t # issued + 1 => claims'[t] = claims[t]
  BY <1>2, <1>3, <1>4, TokenAssumption DEF Sign
<1>6. \A t \in 1 .. issued : claims'[t] = claims[t]
  BY <1>1, <1>2, <1>5, RedisTypes
<1>7. /\ call \in [Calls -> CallType] /\ call' \in [Calls -> CallType]
      /\ call'[c] = begun /\ \A d \in Calls : d # c => call'[d] = call[d]
  BY <1>1 DEF TypeOK, CallType
<1>8. TypeOK'
  <2>1. issued' \in 0 .. MaxTokens /\ stored' \subseteq 1 .. issued'
    BY <1>1, <1>2, TokenAssumption DEF TypeOK
  <2> QED
    BY <1>1, <1>5, <1>7, <2>1 DEF TypeOK, CallType
<1>9. Ancestry'
  <2>1. claims'[issued + 1].parent \in held \union {NoPair} /\ claims'[issued + 1].at <= clock
    BY <1>4, <1>5
  <2>2. claims'[issued + 1].session \in held \union {issued + 1}
    <3>1. CASE old = NoPair
      BY <1>5, <3>1
    <3>2. CASE old # NoPair
      <4>1. old \in held /\ old \in 1 .. issued
        BY <1>1, <3>2 DEF TypeOK
      <4>2. claims[old].session \in held
        BY <1>1, <4>1 DEF Ancestry
      <4> QED
        BY <1>5, <3>2, <4>2
    <3> QED
      BY <3>1, <3>2
  <2> QED
    BY <1>1, <1>2, <1>6, <2>1, <2>2 DEF Ancestry
<1>10. \A p, q : Pending(p, q) => Pending(p, q)'
  BY <1>1, <1>2, <1>6 DEF Pending, TypeOK
<1>11. PendingIn(old, issued + 1, issued', held', claims')
  <2>1. issued + 1 \in 1 .. issued' /\ issued + 1 \notin held'
    BY <1>2
  <2>2. CASE old = NoPair
    BY <1>5, <2>1, <2>2 DEF PendingIn
  <2>3. CASE old # NoPair
    <3>1. old \in held /\ claims'[old] = claims[old]
      BY <1>1, <1>6, <2>3 DEF TypeOK
    <3> QED
      BY <1>5, <2>1, <2>3, <3>1 DEF PendingIn
  <2> QED
    BY <2>2, <2>3
<1>12. Ownership'
  <2>1. InFlight(c)' /\ ~ InFlight(c) /\ \A d \in Calls : d # c => (InFlight(d)' <=> InFlight(d))
    BY <1>7 DEF InFlight
  <2>2. \A d \in Calls : InFlight(d) => call[d].new # issued + 1
    BY <1>1, <1>2 DEF Ownership, Pending
  <2>3. \A s \in late : s[2] # issued + 1
    BY <1>1, <1>2 DEF Ownership, Pending
  <2>4. \A d \in Calls :
         /\ call'[d].old \in held \union {NoPair}
         /\ call'[d].stage = "active" => call'[d].old \in held
         /\ call'[d].stage = "replied" /\ call'[d].reply = 1 => call'[d].new \in stored
         /\ call'[d].stage = "replied" /\ call'[d].reply = 0 => call'[d].old # NoPair
    BY <1>1, <1>7 DEF Ownership
  <2>6. \A d \in Calls : InFlight(d)' => Pending(call[d].old, call[d].new)'
    <3> SUFFICES ASSUME NEW d \in Calls, InFlight(d)'
                 PROVE  Pending(call[d].old, call[d].new)'
      OBVIOUS
    <3>1. CASE d = c
      <4>1. call'[d].old = old /\ call'[d].new = issued + 1
        BY <1>7, <3>1
      <4> QED
        BY <1>11, <4>1 DEF Pending, PendingIn
    <3>2. CASE d # c
      <4>1. Pending(call[d].old, call[d].new) /\ call'[d] = call[d]
        BY <1>1, <1>7, <2>1, <3>2 DEF Ownership
      <4> QED
        BY <1>6, <1>2, <4>1, <1>1 DEF Pending, TypeOK
    <3> QED
      BY <3>1, <3>2
  <2>7. \A d, e \in Calls : InFlight(d)' /\ InFlight(e)' /\ call'[d].new = call'[e].new => d = e
    BY <1>1, <1>7, <2>1, <2>2 DEF Ownership
  <2>8. \A s \in late : /\ Pending(s[1], s[2])'
                        /\ \A d \in Calls : InFlight(d)' => call'[d].new # s[2]
    BY <1>1, <1>7, <1>10, <2>1, <2>3 DEF Ownership
  <2>9. late' = late /\ held' = held /\ stored' = stored
    OBVIOUS
  <2> QED
    BY <2>4, <2>6, <2>7, <2>8, <2>9 DEF Ownership
<1>13. Chain' /\ RotatedOnce' /\ Sightings'
  <2>1. \A t \in stored : t \in 1 .. issued /\ claims'[t] = claims[t]
    BY <1>1, <1>6 DEF TypeOK
  <2>2. \A t \in Pairs : marker[t] > 0 => t \in stored
    BY <1>1 DEF Chain
  <2> QED
    BY <1>1, <2>1, <2>2 DEF Chain, RotatedOnce, Sightings
<1>14. Lifetimes'
  <2>1. \A t \in stored : t \in 1 .. issued /\ claims'[t] = claims[t]
    BY <1>1, <1>6 DEF TypeOK
  <2>2. \A t \in stored : HasSuccessor(t) => HasSuccessor(t)'
    BY <2>1 DEF HasSuccessor
  <2>3. pointer.value \in stored \union {NoPair}
    BY <1>1 DEF Chain
  <2> QED
    BY <1>1, <2>1, <2>2, <2>3 DEF Lifetimes, Expires
<1>15. Delivery'
  <2>1. \A d \in Calls : call[d].stage = "replied" => call'[d] = call[d]
    BY <1>7
  <2> QED
    BY <1>1, <2>1 DEF Delivery
<1>16. \A t \in held : Usable(t)' <=> Usable(t)
  <2> SUFFICES ASSUME NEW t \in held PROVE Usable(t)' <=> Usable(t)
    OBVIOUS
  <2>1. claims'[t] = claims[t]
    BY <1>1, <1>6 DEF TypeOK
  <2> QED
    BY <2>1 DEF Usable, Expires, rotates, IsSessionActive
<1>17. Refusals'
  <2>1. ASSUME NEW d \in Calls PROVE
          /\ call'[d].stage = "idle" /\ call'[d].answer = "revoked" =>
               call'[d].old \in held /\ ~ Usable(call'[d].old)
          /\ call'[d].stage = "replied" /\ call'[d].reply = 0 =>
               call'[d].old \in held /\ ~ Usable(call'[d].old)
    <3>1. CASE d = c
      BY <1>7, <3>1
    <3>2. CASE d # c
      BY <1>1, <1>7, <3>2 DEF Refusals, Ownership
    <3> QED
      BY <3>1, <3>2
  <2> QED
    BY <1>16, <2>1 DEF Refusals
<1> QED
  BY <1>8, <1>9, <1>12, <1>13, <1>14, <1>15, <1>16, <1>17 DEF IInv, StaysDead

\* generateTokenPair signs the successor of the token of its call.
LEMMA GenerateStep ==
    ASSUME IInv, NEW c \in Calls, generateTokenPair(c)
    PROVE  IInv' /\ StaysDead
<1>1. /\ TypeOK /\ Ownership /\ call \in [Calls -> CallType]
      /\ call[c].stage = "active" /\ call[c].old \in held
  BY DEF IInv, TypeOK, CallType, Ownership, generateTokenPair
<1>2. call[c].old # NoPair
  BY <1>1, RedisTypes
<1> DEFINE begun == [call[c] EXCEPT !.stage = "sent", !.new = issued + 1]
<1>3. call' = [call EXCEPT ![c] = begun]
  BY DEF generateTokenPair
<1>4. begun \in CallType /\ begun.stage = "sent" /\ begun.old = call[c].old /\ begun.new = issued + 1
  <2>1. issued + 1 \in 0 .. MaxTokens
    BY <1>1, RedisTypes, TokenAssumption DEF generateTokenPair, Sign
  <2>2. call[c] \in CallType /\ "sent" \in Stages
    BY <1>1 DEF Stages
  <2> QED
    BY <2>1, <2>2 DEF CallType
<1>5. /\ Sign(claims[call[c].old].session, call[c].old)
      /\ UNCHANGED <<clock, marker, session, pointer, stored, held, late, seen, unheard, lost, evicted>>
  BY DEF generateTokenPair, redisVars
<1> HIDE DEF begun
<1> QED
  BY <1>1, <1>2, <1>3, <1>4, <1>5, SignStep

\* NewSession signs the first pair of a session.
LEMMA NewSessionStep ==
    ASSUME IInv, NEW c \in Calls, NewSession(c)
    PROVE  IInv' /\ StaysDead
<1> DEFINE begun == NewCall("sent", NoPair, issued + 1, "none")
<1>1. /\ call[c].stage = "idle" /\ call' = [call EXCEPT ![c] = begun]
      /\ Sign(issued + 1, NoPair)
      /\ UNCHANGED <<clock, marker, session, pointer, stored, held, late, seen, unheard, lost, evicted>>
  BY DEF NewSession, redisVars
<1>2. begun \in CallType /\ begun.stage = "sent" /\ begun.old = NoPair /\ begun.new = issued + 1
  <2>1. issued + 1 \in 0 .. MaxTokens /\ NoPair \in 0 .. MaxTokens
    BY RedisTypes, TokenAssumption DEF IInv, NewSession, Sign, NoPair
  <2> QED
    BY <2>1 DEF CallType, NewCall, Stages, Answers
<1> HIDE DEF begun
<1> QED
  BY <1>1, <1>2, SignStep

\* A step of one call that touches neither Redis nor the pairs.
LEMMA CallStep ==
    ASSUME IInv, NEW c \in Calls, InFlight(c), NEW next \in CallType,
           call' = [call EXCEPT ![c] = next], next.old = call[c].old,
           UNCHANGED <<clock, issued, claims, marker, session, pointer, stored, seen, evicted>>
    PROVE  /\ call' \in [Calls -> CallType] /\ call'[c] = next
           /\ \A d \in Calls : d # c => call'[d] = call[d] /\ (InFlight(d)' <=> InFlight(d))
           /\ \A t : Usable(t)' <=> Usable(t)
<1>1. call \in [Calls -> CallType]
  BY DEF IInv, TypeOK, CallType
<1>2. \A t : Usable(t)' <=> Usable(t)
  BY DEF Usable, Expires, rotates, IsSessionActive
<1> QED
  BY <1>1, <1>2 DEF InFlight

\* Reply gives the pair to the client, or refuses.
LEMMA ReplyStep ==
    ASSUME IInv, NEW c \in Calls, Reply(c)
    PROVE  IInv' /\ StaysDead
<1>1. /\ TypeOK /\ Ownership /\ Ancestry /\ Delivery /\ Refusals
      /\ call[c].stage = "replied" /\ InFlight(c) /\ call[c] \in CallType
  BY DEF IInv, TypeOK, CallType, Reply, InFlight
<1>2. UNCHANGED <<clock, issued, claims, marker, session, pointer, stored, late, seen, unheard, lost, evicted>>
  BY DEF Reply, tokenVars, redisVars
<1>3. PICK result \in {"ok", "revoked"} :
        /\ call' = [call EXCEPT ![c] = [call[c] EXCEPT !.stage = "idle", !.answer = result]]
        /\ result = "ok" => call[c].reply = 1 /\ held' = held \union {call[c].new}
        /\ result = "revoked" => call[c].reply = 0 /\ held' = held
  BY DEF Reply, EndCall
<1> DEFINE next == [call[c] EXCEPT !.stage = "idle", !.answer = result]
<1>4. /\ next \in CallType /\ next.stage = "idle" /\ next.answer = result
      /\ next.old = call[c].old /\ next.new = call[c].new
  BY <1>1 DEF CallType, Stages, Answers
<1>5. call' = [call EXCEPT ![c] = next]
  BY <1>3
<1> HIDE DEF next
<1>6. /\ call' \in [Calls -> CallType] /\ call'[c] = next
      /\ \A d \in Calls : d # c => call'[d] = call[d] /\ (InFlight(d)' <=> InFlight(d))
      /\ \A t : Usable(t)' <=> Usable(t)
  BY <1>1, <1>2, <1>4, <1>5, CallStep
<1>7. /\ held \subseteq held' /\ held' \subseteq stored
      /\ \A t \in held' : t \in held \/ (t = call[c].new /\ call[c].reply = 1)
  BY <1>1, <1>3 DEF TypeOK, Ownership
<1>8. Ancestry' /\ Chain' /\ Lifetimes' /\ Sightings' /\ RotatedOnce' /\ StaysDead
  BY <1>2, <1>7, QuietStores
<1>9. TypeOK'
  BY <1>1, <1>2, <1>6, <1>7 DEF TypeOK, CallType
<1>10. ~ InFlight(c)'
  BY <1>4, <1>6 DEF InFlight
<1>11. Ownership'
  <2>1. \A p, q : Pending(p, q) /\ q # call[c].new => Pending(p, q)'
    BY <1>2, <1>7 DEF Pending
  <2>2. \A d \in Calls : InFlight(d)' => /\ d # c /\ InFlight(d) /\ call'[d] = call[d]
                                         /\ call[d].new # call[c].new
    BY <1>1, <1>6, <1>10 DEF Ownership
  <2>3. \A d \in Calls : InFlight(d)' => Pending(call[d].old, call[d].new)'
    <3> SUFFICES ASSUME NEW d \in Calls, InFlight(d)'
                 PROVE  Pending(call[d].old, call[d].new)'
      OBVIOUS
    <3>1. Pending(call[d].old, call[d].new) /\ call[d].new # call[c].new /\ call'[d] = call[d]
      BY <1>1, <2>2 DEF Ownership
    <3> QED
      BY <1>2, <1>7, <3>1 DEF Pending
  <2>4. \A d \in Calls :
         /\ call'[d].old \in held' \union {NoPair}
         /\ call'[d].stage = "active" => call'[d].old \in held'
         /\ call'[d].stage = "replied" /\ call'[d].reply = 1 => call'[d].new \in stored
         /\ call'[d].stage = "replied" /\ call'[d].reply = 0 => call'[d].old # NoPair
    BY <1>1, <1>4, <1>6, <1>7 DEF Ownership
  <2>5. \A s \in late : /\ Pending(s[1], s[2])'
                        /\ \A d \in Calls : InFlight(d)' => call'[d].new # s[2]
    BY <1>1, <2>1, <2>2 DEF Ownership
  <2>6. \A d, e \in Calls : InFlight(d)' /\ InFlight(e)' /\ call'[d].new = call'[e].new => d = e
    BY <1>1, <2>2 DEF Ownership
  <2> QED
    BY <1>2, <2>3, <2>4, <2>5, <2>6 DEF Ownership
<1>12. Delivery'
  <2>1. ASSUME NEW t \in stored, t \notin held' \union unheard
        PROVE  \E d \in Calls : call'[d].stage = "replied" /\ call'[d].reply = 1 /\ call'[d].new = t
    <3>1. PICK d \in Calls : call[d].stage = "replied" /\ call[d].reply = 1 /\ call[d].new = t
      BY <1>1, <1>7, <2>1 DEF Delivery
    <3>2. d # c
      BY <1>3, <2>1, <3>1
    <3> QED
      BY <1>6, <3>1, <3>2
  <2> QED
    BY <1>1, <1>2, <2>1 DEF Delivery
<1>13. Refusals'
  <2>1. ASSUME NEW d \in Calls PROVE
          /\ call'[d].stage = "idle" /\ call'[d].answer = "revoked" =>
               call'[d].old \in held /\ ~ Usable(call'[d].old)
          /\ call'[d].stage = "replied" /\ call'[d].reply = 0 => ~ Usable(call'[d].old)
    <3>1. CASE d = c
      <4>1. call[c].reply = 0 => call[c].old \in held /\ ~ Usable(call[c].old)
        BY <1>1 DEF Ownership, Refusals
      <4> QED
        BY <1>3, <1>4, <1>6, <3>1, <4>1
    <3>2. CASE d # c
      BY <1>1, <1>6, <3>2 DEF Refusals
    <3> QED
      BY <3>1, <3>2
  <2> QED
    BY <1>6, <1>7, <2>1 DEF Refusals
<1> QED
  BY <1>8, <1>9, <1>11, <1>12, <1>13 DEF IInv

\* Resend and FailCall: a reply or a call of Redis is lost.
LEMMA LoseStep ==
    ASSUME IInv, NEW c \in Calls, Resend(c) \/ FailCall(c)
    PROVE  IInv' /\ StaysDead
<1>1. /\ TypeOK /\ Ownership /\ Refusals /\ InFlight(c) /\ call[c] \in CallType
      /\ Lose
  BY DEF IInv, TypeOK, CallType, Resend, FailCall, InFlight
<1>2. UNCHANGED <<clock, issued, claims, marker, session, pointer, stored, held, seen, evicted>>
  BY DEF Resend, FailCall, tokenVars, redisVars
<1>3. PICK next :
        /\ call' = [call EXCEPT ![c] = next]
        /\ next \in CallType /\ next.old = call[c].old /\ next.new = call[c].new
        /\ \/ next.stage = "sent" /\ late' = late
           \/ /\ next.stage = "idle" /\ next.answer = "save_failed"
              /\ late' \subseteq late \union {<<call[c].old, call[c].new>>}
  <2>1. CASE Resend(c)
    <3>1. call' = [call EXCEPT ![c] = [call[c] EXCEPT !.stage = "sent"]] /\ late' = late
      BY <2>1 DEF Resend
    <3>2. [call[c] EXCEPT !.stage = "sent"] \in CallType
      BY <1>1 DEF CallType, Stages
    <3>3. /\ [call[c] EXCEPT !.stage = "sent"].old = call[c].old
          /\ [call[c] EXCEPT !.stage = "sent"].new = call[c].new
          /\ [call[c] EXCEPT !.stage = "sent"].stage = "sent"
      BY <1>1 DEF CallType
    <3> QED
      BY <3>1, <3>2, <3>3
  <2>2. CASE FailCall(c)
    <3> DEFINE next == [call[c] EXCEPT !.stage = "idle", !.answer = "save_failed"]
    <3>1. /\ call' = [call EXCEPT ![c] = next]
          /\ late' \subseteq late \union {<<call[c].old, call[c].new>>}
      BY <2>2 DEF FailCall, EndCall
    <3>2. next \in CallType
      BY <1>1 DEF CallType, Stages, Answers
    <3>3. /\ next.old = call[c].old /\ next.new = call[c].new
          /\ next.stage = "idle" /\ next.answer = "save_failed"
      BY <1>1 DEF CallType
    <3> HIDE DEF next
    <3> QED
      BY <3>1, <3>2, <3>3
  <2> QED
    BY <2>1, <2>2
<1>4. /\ call' \in [Calls -> CallType] /\ call'[c] = next
      /\ \A d \in Calls : d # c => call'[d] = call[d] /\ (InFlight(d)' <=> InFlight(d))
      /\ \A t : Usable(t)' <=> Usable(t)
  BY <1>1, <1>2, <1>3, CallStep
<1>5. Ancestry' /\ Chain' /\ Lifetimes' /\ Sightings' /\ RotatedOnce' /\ StaysDead
  BY <1>2, QuietStores
<1>6. Pending(call[c].old, call[c].new)
  BY <1>1 DEF Ownership
<1>7. lost' \in 0 .. MaxLost
  BY <1>1, TokenAssumption DEF TypeOK, Lose
<1>8. TypeOK'
  <2>1. call[c].old \in 0 .. MaxTokens /\ call[c].new \in Pairs
    BY <1>1, <1>6, RedisTypes DEF CallType, Pending
  <2>2. late' \subseteq (0 .. MaxTokens) \X Pairs
    BY <1>1, <1>3, <2>1 DEF TypeOK
  <2>3. unheard' \subseteq Pairs
    BY <1>1, <2>1 DEF TypeOK, Resend, FailCall
  <2> QED
    BY <1>1, <1>2, <1>4, <1>7, <2>2, <2>3 DEF TypeOK, CallType
<1>9. Ownership'
  <2>1. \A p, q : Pending(p, q)' <=> Pending(p, q)
    BY <1>2 DEF Pending
  <2>2. \A d \in Calls : call'[d].new = call[d].new /\ call'[d].old = call[d].old
                         /\ (InFlight(d)' => InFlight(d))
    BY <1>1, <1>3, <1>4
  <2>3. \A d \in Calls : InFlight(d)' => Pending(call[d].old, call[d].new)'
    <3> SUFFICES ASSUME NEW d \in Calls, InFlight(d)'
                 PROVE  Pending(call[d].old, call[d].new)'
      OBVIOUS
    <3>1. Pending(call[d].old, call[d].new)
      BY <1>1, <2>2 DEF Ownership
    <3> QED
      BY <1>2, <2>2, <3>1 DEF Pending
  <2>4. \A d \in Calls :
         /\ call'[d].old \in held \union {NoPair}
         /\ call'[d].stage = "active" => call'[d].old \in held
         /\ call'[d].stage = "replied" /\ call'[d].reply = 1 => call'[d].new \in stored
         /\ call'[d].stage = "replied" /\ call'[d].reply = 0 => call'[d].old # NoPair
    BY <1>1, <1>3, <1>4 DEF Ownership
  <2>5. \A d, e \in Calls : InFlight(d)' /\ InFlight(e)' /\ call'[d].new = call'[e].new => d = e
    BY <1>1, <2>2 DEF Ownership
  <2>6. ASSUME NEW s \in late'
        PROVE  /\ Pending(s[1], s[2])
               /\ \A d \in Calls : InFlight(d)' => call'[d].new # s[2]
    <3>1. CASE s \in late
      BY <1>1, <2>2, <3>1 DEF Ownership
    <3>2. CASE s \notin late
      <4>1. s = <<call[c].old, call[c].new>> /\ ~ InFlight(c)'
        BY <1>3, <1>4, <3>2 DEF InFlight
      <4>2. s[1] = call[c].old /\ s[2] = call[c].new
        BY <4>1
      <4> QED
        BY <1>1, <1>6, <2>2, <4>1, <4>2 DEF Ownership
    <3> QED
      BY <3>1, <3>2
  <2>7. \A s \in late' : Pending(s[1], s[2])'
    BY <2>1, <2>6
  <2> QED
    BY <1>2, <2>3, <2>4, <2>5, <2>6, <2>7 DEF Ownership
<1>10. Delivery'
  <2>1. Delivery /\ unheard' = unheard \union {call[c].new}
    BY DEF IInv, Resend, FailCall
  <2>2. ASSUME NEW s \in late' PROVE s[2] \in unheard'
    <3>1. CASE s \in late
      BY <2>1, <3>1 DEF Delivery
    <3>2. CASE s = <<call[c].old, call[c].new>>
      BY <2>1, <3>2
    <3> QED
      BY <1>3, <3>1, <3>2
  <2>3. ASSUME NEW t \in stored, t \notin held \union unheard'
        PROVE  \E d \in Calls : call'[d].stage = "replied" /\ call'[d].reply = 1 /\ call'[d].new = t
    <3>1. PICK d \in Calls : call[d].stage = "replied" /\ call[d].reply = 1 /\ call[d].new = t
      BY <2>1, <2>3 DEF Delivery
    <3>2. d # c
      BY <2>1, <2>3, <3>1
    <3> QED
      BY <1>4, <3>1, <3>2
  <2> QED
    BY <1>2, <2>2, <2>3 DEF Delivery
<1>11. Refusals'
  <2>1. ASSUME NEW d \in Calls PROVE
          /\ call'[d].stage = "idle" /\ call'[d].answer = "revoked" =>
               call'[d].old \in held /\ ~ Usable(call'[d].old)
          /\ call'[d].stage = "replied" /\ call'[d].reply = 0 => ~ Usable(call'[d].old)
    <3>1. CASE d = c
      BY <1>3, <1>4, <3>1
    <3>2. CASE d # c
      BY <1>1, <1>4, <3>2 DEF Refusals
    <3> QED
      BY <3>1, <3>2
  <2> QED
    BY <1>2, <1>4, <2>1 DEF Refusals
<1> QED
  BY <1>5, <1>8, <1>9, <1>10, <1>11 DEF IInv

\* A script that refuses changes nothing; one that writes keeps the order of things.
LEMMA ScriptStep ==
    ASSUME IInv, NEW old, NEW new, Pending(old, new),
           Writes(old, new) \/ UNCHANGED <<marker, session, pointer, stored, seen>>,
           UNCHANGED <<clock, issued, claims, held, evicted>>
    PROVE  /\ Ancestry' /\ Chain' /\ Lifetimes' /\ Sightings' /\ RotatedOnce' /\ StaysDead
           /\ held' \subseteq stored' /\ stored' \subseteq 1 .. issued' /\ stored \subseteq stored'
           /\ marker' \in [Pairs -> Nat] /\ session' \in Key /\ pointer' \in Key
           /\ seen' \in [Pairs -> Nat]
           /\ Writes(old, new) => stored' = stored \union {new}
<1>1. TypeOK /\ Ancestry
  BY DEF IInv
<1>2. /\ new \in 1 .. issued /\ new \in Pairs /\ new \notin held
      /\ old # new /\ old \in Pairs \union {NoPair}
  BY <1>1, RedisTypes DEF Pending
<1>3. Ancestry'
  BY <1>1 DEF Ancestry
<1>4. CASE Writes(old, new)
  <2>1. Chain' /\ RotatedOnce' /\ Lifetimes' /\ Sightings' /\ StaysDead
    BY <1>4, ChainAfterScript, LifetimesAfterScript, DeadAfterScript
  <2>2. /\ marker' \in [Pairs -> Nat]
        /\ session' = [value |-> claims[new].session, exp |-> clock + RefreshTTL]
        /\ pointer' = [value |-> new, exp |-> clock + RefreshTTL]
        /\ stored' = stored \union {new}
        /\ seen' = [seen EXCEPT ![claims[new].session] = clock]
    BY <1>1, <1>2, <1>4, StoreFacts
  <2>3. clock + RefreshTTL \in Nat /\ clock \in Nat /\ new \in 0 .. MaxTokens
        /\ claims[new].session \in 0 .. MaxTokens
    BY <1>1, <1>2, RedisTypes, TokenAssumption, SMTT(30) DEF Pairs
  <2>4. session' \in Key /\ pointer' \in Key
    BY <2>2, <2>3 DEF Key
  <2>5. seen' \in [Pairs -> Nat]
    BY <1>1, <2>2, <2>3 DEF TypeOK
  <2>6. held' \subseteq stored' /\ stored' \subseteq 1 .. issued'
    BY <1>1, <1>2, <2>2 DEF TypeOK
  <2> QED
    BY <1>3, <2>1, <2>2, <2>4, <2>5, <2>6
<1>5. CASE ~ Writes(old, new)
  BY <1>1, <1>5, QuietStores DEF TypeOK
<1> QED
  BY <1>4, <1>5

\* Rotate and Replace: the script of a call runs.
LEMMA RunStep ==
    ASSUME IInv, NEW c \in Calls, Rotate(c) \/ Replace(c)
    PROVE  IInv' /\ StaysDead
<1>1. /\ TypeOK /\ Ownership /\ Delivery /\ Refusals
      /\ call[c].stage = "sent" /\ InFlight(c) /\ call[c] \in CallType
      /\ call \in [Calls -> CallType]
  BY DEF IInv, TypeOK, CallType, Rotate, Replace, InFlight
<1>2. UNCHANGED <<clock, issued, claims, held, late, unheard, lost, evicted>>
  BY DEF Rotate, Replace, tokenVars
<1>3. Pending(call[c].old, call[c].new)
  BY <1>1 DEF Ownership
<1>4. PICK reply \in {0, 1} :
        /\ call' = [call EXCEPT ![c] = [call[c] EXCEPT !.stage = "replied", !.reply = reply]]
        /\ reply = 1 => Writes(call[c].old, call[c].new)
        /\ reply = 0 => /\ call[c].old # NoPair /\ ~ rotates(call[c].old)
                        /\ UNCHANGED <<marker, session, pointer, stored, seen>>
  <2>1. CASE Rotate(c) /\ rotates(call[c].old)
    <3>1. /\ call' = [call EXCEPT ![c] = [call[c] EXCEPT !.stage = "replied", !.reply = 1]]
          /\ call[c].old # NoPair /\ Store(call[c].new, call[c].old)
      BY <2>1 DEF Rotate, rotateScript
    <3> QED
      BY <2>1, <3>1 DEF Writes
  <2>2. CASE Rotate(c) /\ ~ rotates(call[c].old)
    <3>1. /\ call' = [call EXCEPT ![c] = [call[c] EXCEPT !.stage = "replied", !.reply = 0]]
          /\ call[c].old # NoPair
          /\ UNCHANGED <<marker, session, pointer, stored, seen>>
      BY <2>2 DEF Rotate, rotateScript
    <3> QED
      BY <2>2, <3>1
  <2>3. CASE Replace(c)
    <3>1. /\ call' = [call EXCEPT ![c] = [call[c] EXCEPT !.stage = "replied", !.reply = 1]]
          /\ call[c].old = NoPair /\ replaceScript(call[c].new)
      BY <2>3 DEF Replace
    <3> QED
      BY <3>1 DEF Writes
  <2> QED
    BY <2>1, <2>2, <2>3
<1> DEFINE next == [call[c] EXCEPT !.stage = "replied", !.reply = reply]
<1>5. /\ next \in CallType /\ next.stage = "replied" /\ next.reply = reply
      /\ next.old = call[c].old /\ next.new = call[c].new
  <2>1. reply \in 0 .. 1 /\ "replied" \in Stages
    BY DEF Stages
  <2> QED
    BY <1>1, <2>1 DEF CallType
<1>6. call' = [call EXCEPT ![c] = next]
  BY <1>4
<1> HIDE DEF next
<1>7. /\ call' \in [Calls -> CallType] /\ call'[c] = next
      /\ \A d \in Calls : d # c => call'[d] = call[d]
  BY <1>1, <1>5, <1>6
<1>8. /\ Ancestry' /\ Chain' /\ Lifetimes' /\ Sightings' /\ RotatedOnce' /\ StaysDead
      /\ held' \subseteq stored' /\ stored' \subseteq 1 .. issued' /\ stored \subseteq stored'
      /\ marker' \in [Pairs -> Nat] /\ session' \in Key /\ pointer' \in Key
      /\ seen' \in [Pairs -> Nat]
      /\ reply = 1 => stored' = stored \union {call[c].new}
      /\ reply = 0 => stored' = stored
  <2>1. Writes(call[c].old, call[c].new) \/ UNCHANGED <<marker, session, pointer, stored, seen>>
    BY <1>4
  <2>2. UNCHANGED <<clock, issued, claims, held, evicted>>
    BY <1>2
  <2> QED
    BY <1>3, <1>4, <2>1, <2>2, ScriptStep
<1>9. TypeOK'
  BY <1>1, <1>2, <1>7, <1>8 DEF TypeOK, CallType
<1>10. Ownership'
  <2>1. \A p, q : Pending(p, q)' <=> Pending(p, q)
    BY <1>2 DEF Pending
  <2>2. \A d \in Calls : call'[d].new = call[d].new /\ call'[d].old = call[d].old
                         /\ (InFlight(d)' <=> InFlight(d))
    BY <1>1, <1>5, <1>7 DEF InFlight
  <2>3. \A d \in Calls : InFlight(d)' => Pending(call[d].old, call[d].new)'
    <3> SUFFICES ASSUME NEW d \in Calls, InFlight(d)'
                 PROVE  Pending(call[d].old, call[d].new)'
      OBVIOUS
    <3>1. Pending(call[d].old, call[d].new)
      BY <1>1, <2>2 DEF Ownership
    <3> QED
      BY <1>2, <2>2, <3>1 DEF Pending
  <2>4. \A d \in Calls :
         /\ call'[d].old \in held \union {NoPair}
         /\ call'[d].stage = "active" => call'[d].old \in held
         /\ call'[d].stage = "replied" /\ call'[d].reply = 1 => call'[d].new \in stored'
         /\ call'[d].stage = "replied" /\ call'[d].reply = 0 => call'[d].old # NoPair
    BY <1>1, <1>4, <1>5, <1>7, <1>8 DEF Ownership
  <2>5. \A d, e \in Calls : InFlight(d)' /\ InFlight(e)' /\ call'[d].new = call'[e].new => d = e
    BY <1>1, <2>2 DEF Ownership
  <2>6. \A s \in late : /\ Pending(s[1], s[2])'
                        /\ \A d \in Calls : InFlight(d)' => call'[d].new # s[2]
    BY <1>1, <2>1, <2>2 DEF Ownership
  <2> QED
    BY <1>2, <2>3, <2>4, <2>5, <2>6 DEF Ownership
<1>11. Delivery'
  <2>1. ASSUME NEW t \in stored', t \notin held \union unheard
        PROVE  \E d \in Calls : call'[d].stage = "replied" /\ call'[d].reply = 1 /\ call'[d].new = t
    <3>1. CASE t \in stored
      <4>1. PICK d \in Calls : call[d].stage = "replied" /\ call[d].reply = 1 /\ call[d].new = t
        BY <1>1, <2>1, <3>1 DEF Delivery
      <4> QED
        BY <1>1, <1>7, <4>1
    <3>2. CASE t \notin stored
      <4>1. reply = 1 /\ t = call[c].new
        BY <1>8, <2>1, <3>2
      <4> QED
        BY <1>5, <1>7, <4>1
    <3> QED
      BY <3>1, <3>2
  <2> QED
    BY <1>1, <1>2, <2>1 DEF Delivery
<1>12. Refusals'
  <2>1. ASSUME NEW d \in Calls PROVE
          /\ call'[d].stage = "idle" /\ call'[d].answer = "revoked" =>
               call'[d].old \in held /\ ~ Usable(call'[d].old)
          /\ call'[d].stage = "replied" /\ call'[d].reply = 0 =>
               call'[d].old \in held /\ ~ Usable(call'[d].old)
    <3>1. CASE d = c
      <4>1. reply = 0 => call[c].old \in held /\ ~ Usable(call[c].old)
        BY <1>1, <1>4 DEF Usable, Ownership
      <4> QED
        BY <1>5, <1>7, <3>1, <4>1
    <3>2. CASE d # c
      BY <1>1, <1>7, <3>2 DEF Refusals, Ownership
    <3> QED
      BY <3>1, <3>2
  <2>2. \A t \in held : ~ Usable(t) => ~ Usable(t)'
    BY <1>8 DEF StaysDead
  <2> QED
    BY <1>2, <2>1, <2>2 DEF Refusals
<1> QED
  BY <1>8, <1>9, <1>10, <1>11, <1>12 DEF IInv

\* What a call says stays true when Redis or the clock changes.
LEMMA CallsKept ==
    ASSUME IInv, StaysDead, stored \subseteq stored', late' \subseteq late,
           UNCHANGED <<issued, claims, held, call>>
    PROVE  Ownership' /\ Refusals'
<1>1. Ownership /\ Refusals
  BY DEF IInv
<1>2. \A p, q : Pending(p, q)' <=> Pending(p, q)
  BY DEF Pending
<1>3. \A d \in Calls : InFlight(d)' <=> InFlight(d)
  BY DEF InFlight
<1>4. Ownership'
  <2>1. \A d \in Calls : InFlight(d)' => Pending(call[d].old, call[d].new)'
    BY <1>1, <1>3 DEF Ownership, Pending
  <2>2. \A s \in late' : Pending(s[1], s[2])'
    BY <1>1, <1>2 DEF Ownership
  <2> QED
    BY <1>1, <1>3, <2>1, <2>2 DEF Ownership
<1>5. Refusals'
  <2>1. \A t \in held : ~ Usable(t) => ~ Usable(t)'
    BY DEF StaysDead
  <2>2. \A d \in Calls : call[d].stage = "replied" /\ call[d].reply = 0 => call[d].old \in held
    BY <1>1 DEF Ownership
  <2> QED
    BY <1>1, <2>1, <2>2 DEF Refusals
<1> QED
  BY <1>4, <1>5

\* RunLate: a script runs whose call has given up.
LEMMA RunLateStep ==
    ASSUME IInv, NEW s \in late, RunLate(s)
    PROVE  IInv' /\ StaysDead
<1>1. TypeOK /\ Ownership /\ Delivery
  BY DEF IInv
<1>2. /\ UNCHANGED <<clock, issued, claims, held, call, unheard, lost, evicted>>
      /\ late' = late \ {s}
  BY DEF RunLate, tokenVars
<1>3. Pending(s[1], s[2])
  BY <1>1 DEF Ownership
<1>4. Writes(s[1], s[2]) \/ UNCHANGED <<marker, session, pointer, stored, seen>>
  BY DEF RunLate, rotateScript, Writes
<1>5. /\ Ancestry' /\ Chain' /\ Lifetimes' /\ Sightings' /\ RotatedOnce' /\ StaysDead
      /\ held' \subseteq stored' /\ stored' \subseteq 1 .. issued' /\ stored \subseteq stored'
      /\ marker' \in [Pairs -> Nat] /\ session' \in Key /\ pointer' \in Key
      /\ seen' \in [Pairs -> Nat]
      /\ stored' \subseteq stored \union {s[2]}
  <2>1. UNCHANGED <<clock, issued, claims, held, evicted>>
    BY <1>2
  <2> QED
    BY <1>3, <1>4, <2>1, ScriptStep
<1>6. TypeOK'
  BY <1>1, <1>2, <1>5 DEF TypeOK
<1>7. Ownership' /\ Refusals'
  BY <1>2, <1>5, CallsKept
<1>8. Delivery'
  <2>1. s[2] \in unheard /\ UNCHANGED <<held, call, unheard>> /\ late' \subseteq late
    BY <1>1, <1>2 DEF Delivery
  <2>2. \A t \in stored' : t \in stored \/ t \in unheard
    BY <1>5, <2>1
  <2> QED
    BY <1>1, <2>1, <2>2 DEF Delivery
<1> QED
  BY <1>5, <1>6, <1>7, <1>8 DEF IInv

\* A token that has its key and its session works: the pointer cannot disagree.
LEMMA KeyAndSession ==
    ASSUME TypeOK, Chain, Ancestry, NEW t \in stored, clock < Expires(t), marker[t] > clock,
           session.value = claims[t].session, session.exp > clock
    PROVE  Usable(t) /\ t = pointer.value
<1>1. t \in Pairs /\ marker[t] > 0
  BY RedisTypes
<1>2. t = pointer.value
  BY <1>1 DEF Chain
<1>3. Value(session, clock) = claims[t].session /\ Value(pointer, clock) \in {NoPair, t}
  BY <1>2 DEF Value
<1> QED
  BY <1>2, <1>3 DEF Usable, rotates, IsSessionActive

\* Tick: keys expire.
LEMMA TickStep ==
    ASSUME IInv, Tick
    PROVE  IInv' /\ StaysDead
<1>1. TypeOK /\ Ancestry /\ Chain /\ Lifetimes /\ Sightings /\ Delivery /\ RotatedOnce
  BY DEF IInv
<1>2. /\ clock' = clock + 1 /\ clock' \in 0 .. MaxTime /\ clock \in Nat /\ clock' \in Nat
      /\ seen' = [t \in Pairs |-> IF Value(session, clock') = t THEN clock' ELSE seen[t]]
      /\ UNCHANGED <<issued, claims, marker, session, pointer, stored, held, call, late, unheard, lost, evicted>>
  BY <1>1, RedisTypes, TokenAssumption DEF Tick, TypeOK, tokenVars, redisVars
<1>3. seen \in [Pairs -> Nat] /\ seen' \in [Pairs -> Nat]
  BY <1>1, <1>2 DEF TypeOK
<1>4. TypeOK'
  BY <1>1, <1>2, <1>3 DEF TypeOK
<1>5. \A t \in 1 .. issued : t \in Pairs /\ claims[t].at \in Nat /\ claims[t].at <= clock
  BY <1>1, RedisTypes DEF Ancestry
<1>6. Ancestry'
  BY <1>1, <1>2, <1>5 DEF Ancestry
<1>7. Chain' /\ RotatedOnce' /\ Delivery'
  BY <1>1, <1>2 DEF Chain, RotatedOnce, Delivery
<1>8. Lifetimes'
  BY <1>1, <1>2 DEF Lifetimes, HasSuccessor, Expires
<1>9. Sightings'
  <2> SUFFICES ASSUME NEW t \in stored PROVE claims[t].at <= seen'[claims[t].session]
    BY <1>2 DEF Sightings
  <2>1. t \in 1 .. issued /\ claims[t].session \in Pairs
    BY <1>1, RedisTypes DEF TypeOK, Ancestry
  <2>2. claims[t].at <= seen[claims[t].session] /\ claims[t].at <= clock'
    BY <1>1, <1>2, <1>5, <2>1 DEF Sightings
  <2> QED
    BY <1>2, <2>1, <2>2
<1>10. StaysDead
  <2> SUFFICES ASSUME NEW t \in held, Usable(t)' PROVE Usable(t)
    BY DEF StaysDead
  <2>1. t \in stored /\ t \in Pairs /\ t \in 1 .. issued
    BY <1>1, RedisTypes DEF TypeOK
  <2>2. clock' < Expires(t) /\ marker[t] > clock' /\ Value(session, clock') = claims[t].session
    BY <1>2 DEF Usable, rotates, IsSessionActive, Value, Expires
  <2>3. claims[t].session # NoPair
    BY <1>1, <2>1, RedisTypes DEF Ancestry
  <2>4. session.exp > clock' /\ session.value = claims[t].session
    BY <2>2, <2>3 DEF Value
  <2>5. clock < Expires(t) /\ marker[t] > clock /\ session.exp > clock
    BY <1>1, <1>2, <2>1, <2>2, <2>4, RedisTypes
  <2> QED
    BY <1>1, <2>1, <2>4, <2>5, KeyAndSession
<1>11. Ownership' /\ Refusals'
  BY <1>2, <1>10, CallsKept
<1> QED
  BY <1>4, <1>6, <1>7, <1>8, <1>9, <1>10, <1>11 DEF IInv

\* Evict: Redis drops a key.
LEMMA EvictStep ==
    ASSUME IInv, Evict
    PROVE  IInv' /\ StaysDead
<1>1. TypeOK /\ Ancestry /\ Chain /\ Lifetimes /\ Sightings /\ Delivery /\ RotatedOnce
  BY DEF IInv
<1>2. /\ evicted' \in 0 .. MaxEvicted /\ evicted' # 0
      /\ UNCHANGED <<clock, issued, claims, stored, held, call, late, seen, unheard, lost>>
  BY <1>1, TokenAssumption DEF Evict, TypeOK, tokenVars
<1>3. /\ marker' \in [Pairs -> Nat] /\ \A t \in Pairs : marker'[t] \in {marker[t], 0}
      /\ session' \in Key /\ session'.value = session.value /\ session'.exp \in {session.exp, 0}
      /\ pointer' \in Key /\ pointer'.value = pointer.value
  <2>1. marker \in [Pairs -> Nat] /\ session \in Key /\ pointer \in Key
    BY <1>1 DEF TypeOK
  <2>2. CASE /\ \E t \in Pairs : marker[t] > clock /\ marker' = [marker EXCEPT ![t] = 0]
             /\ UNCHANGED <<session, pointer>>
    BY <2>1, <2>2
  <2>3. CASE session' = [session EXCEPT !.exp = 0] /\ UNCHANGED <<marker, pointer>>
    BY <2>1, <2>3 DEF Key
  <2>4. CASE pointer' = [pointer EXCEPT !.exp = 0] /\ UNCHANGED <<marker, session>>
    BY <2>1, <2>4 DEF Key
  <2> QED
    BY <2>2, <2>3, <2>4 DEF Evict
<1>4. TypeOK'
  BY <1>1, <1>2, <1>3 DEF TypeOK
<1>5. Ancestry' /\ Sightings' /\ Delivery' /\ RotatedOnce'
  BY <1>1, <1>2 DEF Ancestry, Sightings, Delivery, RotatedOnce
<1>6. Chain'
  <2>1. \A t \in Pairs : marker'[t] > 0 => marker[t] > 0
    BY <1>3
  <2>2. \A n \in stored : claims[n].parent # NoPair => claims[n].parent \in Pairs
    BY <1>1, RedisTypes DEF Ancestry, TypeOK
  <2>3. \A n \in stored : claims[n].parent # NoPair => marker'[claims[n].parent] = 0
    BY <1>1, <1>3, <2>2 DEF Chain
  <2> QED
    BY <1>1, <1>2, <1>3, <2>1, <2>3 DEF Chain
<1>7. Lifetimes'
  BY <1>1, <1>2, <1>3 DEF Lifetimes, HasSuccessor
<1>8. StaysDead
  <2> SUFFICES ASSUME NEW t \in held, Usable(t)' PROVE Usable(t)
    BY DEF StaysDead
  <2>1. t \in stored /\ t \in Pairs /\ t \in 1 .. issued
    BY <1>1, RedisTypes DEF TypeOK
  <2>2. clock < Expires(t) /\ marker'[t] > clock /\ Value(session', clock) = claims[t].session
    BY <1>2 DEF Usable, rotates, IsSessionActive, Value, Expires
  <2>3. claims[t].session # NoPair
    BY <1>1, <2>1, RedisTypes DEF Ancestry
  <2>4. session'.exp > clock /\ session'.value = claims[t].session
    BY <2>2, <2>3 DEF Value
  <2>5. marker[t] > clock /\ session.exp > clock /\ session.value = claims[t].session
    BY <1>1, <1>3, <2>1, <2>2, <2>4, RedisTypes
  <2> QED
    BY <1>1, <2>1, <2>2, <2>5, KeyAndSession
<1>9. Ownership' /\ Refusals'
  BY <1>2, <1>8, CallsKept
<1> QED
  BY <1>4, <1>5, <1>6, <1>7, <1>8, <1>9 DEF IInv

-----------------------------------------------------------------------------
(* The invariant, and what it gives. *)

\* A step of the specification.
LEMMA StepKeeps ==
    ASSUME IInv, [Next]_vars
    PROVE  IInv' /\ StaysDead
<1>1. CASE UNCHANGED vars
  <2>1. UNCHANGED <<clock, issued, claims, marker, session, pointer, stored, held, call, late,
                    seen, unheard, lost, evicted>>
    BY <1>1 DEF vars
  <2>2. /\ Ancestry' /\ Chain' /\ Lifetimes' /\ Sightings' /\ RotatedOnce' /\ StaysDead
    BY <2>1, QuietStores
  <2>3. Ownership' /\ Refusals'
    BY <2>1, <2>2, CallsKept
  <2>4. TypeOK' /\ Delivery'
    BY <2>1 DEF IInv, TypeOK, Delivery
  <2> QED
    BY <2>2, <2>3, <2>4 DEF IInv
<1>2. CASE Next
  BY <1>2, TickStep, EvictStep, RunLateStep, ValidateStep, GenerateStep, NewSessionStep,
     RunStep, ReplyStep, LoseStep DEF Next
<1> QED
  BY <1>1, <1>2

\* The initial state: Redis is empty and nobody has a token.
LEMMA InitHolds == Init => IInv
<1> SUFFICES ASSUME Init PROVE IInv
  OBVIOUS
<1> USE TokenAssumption DEF NoPair
<1>1. NewCall("idle", NoPair, NoPair, "none") \in CallType
  BY DEF NewCall, CallType, Stages, Answers
<1>2. TypeOK
  <2>1. call \in [Calls -> CallType]
    BY <1>1 DEF Init
  <2>2. session \in Key /\ pointer \in Key
    BY DEF Init, Key
  <2>3. claims \in [Pairs -> [session : 0 .. MaxTokens, at : Nat, parent : 0 .. MaxTokens]]
    BY DEF Init
  <2> QED
    BY <2>1, <2>2, <2>3 DEF Init, TypeOK, CallType
<1>3. \A c \in Calls : /\ call[c].stage = "idle" /\ call[c].old = NoPair /\ call[c].answer = "none"
                       /\ ~ InFlight(c)
  BY DEF Init, NewCall, InFlight
<1>4. Ownership /\ Refusals
  BY <1>3 DEF Init, Ownership, Refusals
<1>5. Ancestry /\ Sightings /\ RotatedOnce /\ Delivery
  BY DEF Init, Ancestry, Sightings, RotatedOnce, Delivery
<1>6. Chain /\ Lifetimes
  BY DEF Init, Chain, Lifetimes
<1> QED
  BY <1>2, <1>4, <1>5, <1>6 DEF IInv

\* The invariant holds in every state.
THEOREM Invariance == Spec => []IInv
<1>1. IInv /\ [Next]_vars => IInv'
  BY StepKeeps
<1> QED
  BY <1>1, InitHolds, PTL DEF Spec

\* The variables keep their types; no client has a pair that Redis never had.
THEOREM TypeCorrect == Spec => []TypeOK
<1>1. IInv => TypeOK
  BY DEF IInv
<1> QED
  BY <1>1, Invariance, PTL

\* Of the tokens of a user at most one works.
THEOREM AtMostOneToken == Spec => []OneUsableToken
<1>1. ASSUME IInv PROVE OneUsableToken
  <2>1. TypeOK /\ Chain /\ Ancestry
    BY <1>1 DEF IInv
  <2>2. \A t \in Pairs : Usable(t) => t = pointer.value
    <3> SUFFICES ASSUME NEW t \in Pairs, Usable(t) PROVE t = pointer.value
      OBVIOUS
    <3>1. marker[t] > clock /\ Value(session, clock) = claims[t].session
      BY DEF Usable, rotates, IsSessionActive
    <3>2. marker[t] > 0
      BY <2>1, <3>1, RedisTypes
    <3>3. t \in stored /\ claims[t].session # NoPair
      BY <2>1, <3>2, RedisTypes DEF Chain, Ancestry, TypeOK
    <3>4. session.value = claims[t].session
      BY <3>1, <3>3 DEF Value
    <3> QED
      BY <2>1, <3>2, <3>4 DEF Chain
  <2>3. {t \in Pairs : Usable(t)} \subseteq {pointer.value}
    BY <2>2
  <2>4. IsFiniteSet({pointer.value}) /\ Cardinality({pointer.value}) = 1
    BY FS_Singleton
  <2>5. /\ Cardinality({t \in Pairs : Usable(t)}) <= Cardinality({pointer.value})
    BY <2>3, <2>4, FS_Subset
  <2> QED
    BY <2>4, <2>5 DEF OneUsableToken
<1> QED
  BY <1>1, Invariance, PTL

\* No token is rotated twice.
THEOREM EachTokenRotatedOnce == Spec => []RotatedOnce
<1>1. IInv => RotatedOnce
  BY DEF IInv
<1> QED
  BY <1>1, Invariance, PTL

\* A token that was refused as revoked does not work.
THEOREM RefusalIsDefinitive == Spec => []RevokedIsDefinitive
<1>1. IInv => RevokedIsDefinitive
  BY DEF IInv, Refusals, RevokedIsDefinitive
<1> QED
  BY <1>1, Invariance, PTL

\* The keys of a token outlive it.
THEOREM KeysOutliveToken == Spec => []KeptForItsLife
<1>1. ASSUME IInv PROVE KeptForItsLife
  <2> SUFFICES ASSUME evicted = 0, NEW t \in held, clock < Expires(t),
                      session.value = claims[t].session, ~ HasSuccessor(t)
               PROVE  Usable(t)
    BY DEF KeptForItsLife
  <2>1. TypeOK /\ Chain /\ Ancestry /\ Lifetimes /\ t \in stored
    BY <1>1 DEF IInv, TypeOK
  <2>2. t = pointer.value /\ t \in Pairs /\ t # NoPair
    BY <2>1, RedisTypes DEF Lifetimes
  <2>3. marker[t] >= Expires(t) /\ session.exp >= Expires(t)
    BY <2>1, <2>2 DEF Lifetimes
  <2>4. marker[t] > clock /\ session.exp > clock
    BY <2>1, <2>2, <2>3, RedisTypes
  <2> QED
    BY <2>1, <2>4, KeyAndSession
<1> QED
  BY <1>1, Invariance, PTL

\* An access token is let in for less than its TTL after its session was active.
THEOREM AccessIsBounded == Spec => []AccessEndsWithSession
<1>1. ASSUME IInv PROVE AccessEndsWithSession
  <2> SUFFICES ASSUME NEW t \in held, UnaryServerInterceptor(t)
               PROVE  clock - seen[claims[t].session] < AccessTTL
    BY DEF AccessEndsWithSession
  <2>1. TypeOK /\ Ancestry /\ Sightings /\ t \in stored /\ t \in Pairs /\ t \in 1 .. issued
    BY <1>1, RedisTypes DEF IInv, TypeOK
  <2>2. claims[t].session \in Pairs /\ seen[claims[t].session] \in Nat
        /\ claims[t].at \in Nat /\ clock \in Nat
    BY <2>1, RedisTypes DEF Ancestry, TypeOK
  <2>3. claims[t].at <= seen[claims[t].session]
    BY <2>1 DEF Sightings
  <2>4. ~ (clock >= claims[t].at + AccessTTL)
    BY DEF UnaryServerInterceptor, ParseToken
  <2> QED
    BY <2>2, <2>3, <2>4, TokenAssumption
<1> QED
  BY <1>1, Invariance, PTL

\* The token that works is known to its client, or soon will be, unless its own
\* call or reply was lost (rotateTokens, Rotate, Replace).
THEOREM WorkingTokenIsKnown == Spec => []UsableTokenIsKnown
<1>1. ASSUME IInv PROVE UsableTokenIsKnown
  <2> SUFFICES ASSUME NEW t \in Pairs, Usable(t)
               PROVE  \/ t \in held \union unheard
                      \/ \E c \in Calls : /\ call[c].stage = "replied"
                                          /\ call[c].reply = 1 /\ call[c].new = t
    BY DEF UsableTokenIsKnown
  <2>1. marker[t] > 0
    BY <1>1, RedisTypes DEF IInv, Usable, rotates
  <2>2. t \in stored
    BY <1>1, <2>1 DEF IInv, Chain
  <2> QED
    BY <1>1, <2>2 DEF IInv, Delivery
<1> QED
  BY <1>1, Invariance, PTL

\* A token that has stopped to work never works again.
THEOREM NoTokenReturns == Spec => DeadStaysDead
<1>1. IInv /\ [Next]_vars => [\A t \in held : ~ Usable(t) => ~ Usable(t)']_vars
  BY StepKeeps DEF StaysDead
<1> QED
  BY <1>1, Invariance, PTL DEF Spec, DeadStaysDead

=============================================================================
