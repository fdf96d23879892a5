--------------------------- MODULE RefreshTokens ---------------------------
(***************************************************************************)
(* The refresh tokens of one user.  AuthService.Refresh checks a token and *)
(* its session, makes the next pair of tokens and lets a script in Redis   *)
(* put the new refresh token in the place of the old one; the development  *)
(* tool starts a session with the script of Replace.  Three keys of Redis  *)
(* decide, and Redis runs with allkeys-lru: each may be evicted on its own. *)
(*                                                                         *)
(* A pair of tokens is a number; a session is named by the pair it began   *)
(* with.  Signature, subject and roles are the same in every pair that the *)
(* service signs and are left out.                                         *)
(***************************************************************************)
EXTENDS Integers, FiniteSets

CONSTANTS
    Calls,        \* Refresh calls and runs of the tool at the same time
    AccessTTL,    \* auth.access_token_ttl
    RefreshTTL,   \* auth.refresh_token_ttl
    MaxTokens,    \* bound on pairs
    MaxTime,      \* bound on the clock
    MaxLost,      \* bound on failed or unanswered calls of Redis
    MaxEvicted    \* bound on evicted keys

\* What validateOrderAuth accepts.
ASSUME TokenAssumption ==
    /\ AccessTTL \in Nat \ {0} /\ RefreshTTL \in Nat /\ RefreshTTL > AccessTTL
    /\ MaxTokens \in Nat \ {0} /\ MaxTime \in Nat
    /\ MaxLost \in Nat /\ MaxEvicted \in Nat

Pairs == 1 .. MaxTokens
NoPair == 0
Kinds == {"access", "refresh"}

VARIABLES
    clock,
    issued,     \* pairs signed so far
    claims,     \* their claims: session and issue time; and the pair they follow
    marker,     \* refresh:<user>:<jti>, when each expires; 0 when not there
    session,    \* auth_session:<user>
    pointer,    \* auth_refresh:<user>
    stored,     \* pairs a script has put into Redis
    held,       \* pairs a client has received
    call,       \* what each call is doing, and the answer of its last Refresh
    late,       \* scripts on their way whose call has given up
    seen,       \* for each session, when it was last active
    unheard,    \* pairs of calls that were lost, or their replies (history)
    lost, evicted

redisVars == <<marker, session, pointer>>
tokenVars == <<issued, claims>>
vars == <<clock, issued, claims, marker, session, pointer, stored, held, call,
          late, seen, unheard, lost, evicted>>

Stages == {"idle", "active", "sent", "replied"}
Answers == {"none", "ok", "expired", "invalid", "revoked", "session_failed", "save_failed"}

\* A key holds a value until it expires; Redis keeps no expired key.
Value(key, now) == IF key.exp > now THEN key.value ELSE NoPair

Expires(t) == claims[t].at + RefreshTTL

\* jwt.Manager.ParseToken for one token of pair t: it reports a token that has
\* expired before a token of the wrong type.
ParseToken(t, kind, expected) ==
    LET ttl == IF kind = "access" THEN AccessTTL ELSE RefreshTTL
    IN  CASE clock >= claims[t].at + ttl -> "expired"
          [] clock < claims[t].at + ttl /\ kind # expected -> "invalid"
          [] OTHER -> "ok"

\* Seeded variant for checking: the interceptor takes any type of token.
AcceptRefreshToken(t) == ParseToken(t, "refresh", "refresh") = "ok"

\* The interceptor lets a request in on its access token alone: it does not ask
\* for the session.
UnaryServerInterceptor(t) == ParseToken(t, "access", "access") = "ok"

IsSessionActive(t) == Value(session, clock) = claims[t].session

-----------------------------------------------------------------------------
(* The scripts.  Time stands still in a script: its keys expire together.  *)

\* rotateScript refuses unless all three keys agree with the old token; a
\* pointer that is not there does not disagree.
rotates(old) ==
    /\ IsSessionActive(old)
    /\ marker[old] > clock
    /\ Value(pointer, clock) \in {NoPair, old}

\* Seeded variant for checking: the old refresh key is not deleted.
StoreKeepingOld(new, gone) ==
    /\ marker' = [marker EXCEPT ![new] = clock + RefreshTTL]
    /\ session' = [value |-> claims[new].session, exp |-> clock + RefreshTTL]
    /\ pointer' = [value |-> new, exp |-> clock + RefreshTTL]
    /\ stored' = stored \union {new}
    /\ seen' = [seen EXCEPT ![claims[new].session] = clock]

Store(new, gone) ==
    /\ marker' = [t \in Pairs |-> IF t = new THEN clock + RefreshTTL
                                  ELSE IF t = gone THEN 0 ELSE marker[t]]
    /\ session' = [value |-> claims[new].session, exp |-> clock + RefreshTTL]
    /\ pointer' = [value |-> new, exp |-> clock + RefreshTTL]
    /\ stored' = stored \union {new}
    /\ seen' = [seen EXCEPT ![claims[new].session] = clock]

\* Seeded variant for checking: the session is extended before the checks.
ExtendThenRotate(old, new) ==
    \/ rotates(old) /\ Store(new, old)
    \/ /\ ~ rotates(old)
       /\ session' = [value |-> claims[old].session, exp |-> clock + RefreshTTL]
       /\ UNCHANGED <<marker, pointer, stored, seen>>

rotateScript(old, new) ==
    \/ /\ rotates(old)
       /\ Store(new, old)
    \/ /\ ~ rotates(old)
       /\ UNCHANGED <<marker, session, pointer, stored, seen>>

\* replaceScript forgets the refresh token the pointer names, whichever it is.
replaceScript(new) == Store(new, Value(pointer, clock))

-----------------------------------------------------------------------------
NewCall(stage, old, new, answer) ==
    [stage |-> stage, old |-> old, new |-> new, reply |-> 0, answer |-> answer]

Init ==
    /\ clock = 0
    /\ issued = 0
    /\ claims = [t \in Pairs |-> [session |-> NoPair, at |-> 0, parent |-> NoPair]]
    /\ marker = [t \in Pairs |-> 0]
    /\ session = [value |-> NoPair, exp |-> 0]
    /\ pointer = [value |-> NoPair, exp |-> 0]
    /\ stored = {} /\ held = {}
    /\ call = [c \in Calls |-> NewCall("idle", NoPair, NoPair, "none")]
    /\ late = {}
    /\ seen = [t \in Pairs |-> 0]
    /\ unheard = {}
    /\ lost = 0 /\ evicted = 0

\* A call begins with the token t; it ends at once, or goes on.
Begin(c, t, stage, result) ==
    /\ call[c].stage = "idle"
    /\ call' = [call EXCEPT ![c] = NewCall(stage, t, NoPair, result)]

EndCall(c, result) ==
    call' = [call EXCEPT ![c].stage = "idle", ![c].answer = result]

Lose == lost < MaxLost /\ lost' = lost + 1

\* Seeded variant for checking: a failed read of the session is a missing session.
ValidateFailedAsRevoked(c, t, kind) ==
    /\ ParseToken(t, kind, "refresh") = "ok"
    /\ \/ IsSessionActive(t) /\ Begin(c, t, "active", "none") /\ UNCHANGED lost
       \/ Lose /\ Begin(c, t, "idle", "revoked")
    /\ UNCHANGED <<clock, tokenVars, redisVars, stored, held, late, seen, unheard, evicted>>

\* validateRefreshToken of a token a client presents.
validateRefreshToken(c, t, kind) ==
    /\ \/ /\ ParseToken(t, kind, "refresh") # "ok"
          /\ Begin(c, t, "idle", ParseToken(t, kind, "refresh"))
          /\ UNCHANGED lost
       \/ /\ ParseToken(t, kind, "refresh") = "ok" /\ ~ IsSessionActive(t)
          /\ Begin(c, t, "idle", "revoked")
          /\ UNCHANGED lost
       \/ /\ ParseToken(t, kind, "refresh") = "ok" /\ IsSessionActive(t)
          /\ Begin(c, t, "active", "none")
          /\ UNCHANGED lost
       \/ /\ ParseToken(t, kind, "refresh") = "ok"
          /\ Begin(c, t, "idle", "session_failed")
          /\ Lose
    /\ UNCHANGED <<clock, tokenVars, redisVars, stored, held, late, seen, unheard, evicted>>

Sign(root, parent) ==
    /\ issued < MaxTokens
    /\ issued' = issued + 1
    /\ claims' = [claims EXCEPT ![issued + 1] =
                    [session |-> root, at |-> clock, parent |-> parent]]

\* rotateTokens up to the script: the next pair belongs to the same session.
generateTokenPair(c) ==
    /\ call[c].stage = "active"
    /\ Sign(claims[call[c].old].session, call[c].old)
    /\ call' = [call EXCEPT ![c].stage = "sent", ![c].new = issued + 1]
    /\ UNCHANGED <<clock, redisVars, stored, held, late, seen, unheard, lost, evicted>>

\* The tool signs the first pair of a session.
NewSession(c) ==
    /\ call[c].stage = "idle"
    /\ Sign(issued + 1, NoPair)
    /\ call' = [call EXCEPT ![c] = NewCall("sent", NoPair, issued + 1, "none")]
    /\ UNCHANGED <<clock, redisVars, stored, held, late, seen, unheard, lost, evicted>>

\* Seeded variant for checking: the script only looks at the session.
RotateBySession(c) ==
    /\ call[c].stage = "sent" /\ call[c].old # NoPair
    /\ IsSessionActive(call[c].old)
    /\ Store(call[c].new, call[c].old)
    /\ call' = [call EXCEPT ![c].stage = "replied", ![c].reply = 1]
    /\ UNCHANGED <<clock, tokenVars, held, late, unheard, lost, evicted>>

Rotate(c) ==
    /\ call[c].stage = "sent" /\ call[c].old # NoPair
    /\ rotateScript(call[c].old, call[c].new)
    /\ call' = [call EXCEPT ![c].stage = "replied",
                            ![c].reply = IF rotates(call[c].old) THEN 1 ELSE 0]
    /\ UNCHANGED <<clock, tokenVars, held, late, unheard, lost, evicted>>

Replace(c) ==
    /\ call[c].stage = "sent" /\ call[c].old = NoPair
    /\ replaceScript(call[c].new)
    /\ call' = [call EXCEPT ![c].stage = "replied", ![c].reply = 1]
    /\ UNCHANGED <<clock, tokenVars, held, late, unheard, lost, evicted>>

\* Seeded variant for checking: the pair is returned whatever the script says.
ReplyAlways(c) ==
    /\ call[c].stage = "replied"
    /\ held' = held \union {call[c].new}
    /\ EndCall(c, "ok")
    /\ UNCHANGED <<clock, tokenVars, redisVars, stored, late, seen, unheard, lost, evicted>>

\* Seeded variant for checking: the deadline is checked again after the script.
ReplyInTime(c) ==
    /\ call[c].stage = "replied"
    /\ \/ /\ call[c].reply = 1 /\ clock = claims[call[c].new].at
          /\ held' = held \union {call[c].new}
          /\ EndCall(c, "ok")
       \/ /\ call[c].reply = 1 /\ clock # claims[call[c].new].at
          /\ EndCall(c, "save_failed")
          /\ UNCHANGED held
    /\ UNCHANGED <<clock, tokenVars, redisVars, stored, late, seen, unheard, lost, evicted>>

\* The script has answered: the pair goes to the client, or the token is revoked.
Reply(c) ==
    /\ call[c].stage = "replied"
    /\ \/ /\ call[c].reply = 1
          /\ held' = held \union {call[c].new}
          /\ EndCall(c, "ok")
       \/ /\ call[c].reply = 0
          /\ EndCall(c, "revoked")
          /\ UNCHANGED held
    /\ UNCHANGED <<clock, tokenVars, redisVars, stored, late, seen, unheard, lost, evicted>>

\* The reply is lost and the Redis client sends the script again.
Resend(c) ==
    /\ call[c].stage = "replied"
    /\ Lose
    /\ unheard' = unheard \union {call[c].new}
    /\ call' = [call EXCEPT ![c].stage = "sent"]
    /\ UNCHANGED <<clock, tokenVars, redisVars, stored, held, late, seen, evicted>>

\* The client sees an error: the script was never sent, or is still on its way,
\* or has run and its reply, or the answer of Refresh itself, is lost.
FailCall(c) ==
    /\ call[c].stage \in {"sent", "replied"}
    /\ Lose
    /\ unheard' = unheard \union {call[c].new}
    /\ EndCall(c, "save_failed")
    /\ \/ late' = late \union {<<call[c].old, call[c].new>>}
       \/ UNCHANGED late
    /\ UNCHANGED <<clock, tokenVars, redisVars, stored, held, seen, evicted>>

\* A script arrives after its call has given up.
RunLate(s) ==
    /\ s \in late
    /\ late' = late \ {s}
    /\ \/ s[1] # NoPair /\ rotateScript(s[1], s[2])
       \/ s[1] = NoPair /\ replaceScript(s[2])
    /\ UNCHANGED <<clock, tokenVars, held, call, unheard, lost, evicted>>

Tick ==
    /\ clock < MaxTime
    /\ clock' = clock + 1
    /\ seen' = [t \in Pairs |-> IF Value(session, clock') = t THEN clock' ELSE seen[t]]
    /\ UNCHANGED <<tokenVars, redisVars, stored, held, call, late, unheard, lost, evicted>>

\* Redis is short of memory and drops a key.
Evict ==
    /\ evicted < MaxEvicted
    /\ evicted' = evicted + 1
    /\ \/ /\ \E t \in Pairs : marker[t] > clock /\ marker' = [marker EXCEPT ![t] = 0]
          /\ UNCHANGED <<session, pointer>>
       \/ /\ Value(session, clock) # NoPair
          /\ session' = [session EXCEPT !.exp = 0]
          /\ UNCHANGED <<marker, pointer>>
       \/ /\ Value(pointer, clock) # NoPair
          /\ pointer' = [pointer EXCEPT !.exp = 0]
          /\ UNCHANGED <<marker, session>>
    /\ UNCHANGED <<clock, tokenVars, stored, held, call, late, seen, unheard, lost>>

Next ==
    \/ Tick
    \/ Evict
    \/ \E s \in late : RunLate(s)
    \/ \E c \in Calls :
         \/ \E t \in held, kind \in Kinds : validateRefreshToken(c, t, kind)
         \/ generateTokenPair(c) \/ NewSession(c)
         \/ Rotate(c) \/ Replace(c) \/ Reply(c) \/ Resend(c) \/ FailCall(c)

Spec == Init /\ [][Next]_vars
-----------------------------------------------------------------------------
Key == [value : 0 .. MaxTokens, exp : Nat]

\* The variables have their types; numbers that were not signed yet are unused.
TypeOK ==
    /\ clock \in 0 .. MaxTime
    /\ issued \in 0 .. MaxTokens
    /\ claims \in [Pairs -> [session : 0 .. MaxTokens, at : Nat, parent : 0 .. MaxTokens]]
    /\ marker \in [Pairs -> Nat]
    /\ session \in Key /\ pointer \in Key
    /\ held \subseteq stored /\ stored \subseteq 1 .. issued
    /\ call \in [Calls -> [stage : Stages, old : 0 .. MaxTokens, new : 0 .. MaxTokens,
                           reply : 0 .. 1, answer : Answers]]
    /\ late \subseteq (0 .. MaxTokens) \X Pairs
    /\ seen \in [Pairs -> Nat]
    /\ unheard \subseteq Pairs
    /\ lost \in 0 .. MaxLost /\ evicted \in 0 .. MaxEvicted

\* The next Refresh with t would be answered with a pair.
Usable(t) == clock < Expires(t) /\ rotates(t)

\* However many calls rotate, replace and repeat, and whichever keys Redis drops,
\* a user has at most one refresh token that works.
OneUsableToken == Cardinality({t \in Pairs : Usable(t)}) <= 1

\* Refresh calls with the same token race to the script: at most one pair is
\* ever stored in the place of a token, also when scripts are sent again or late.
RotatedOnce ==
    \A a, b \in stored :
        claims[a].parent # NoPair /\ claims[a].parent = claims[b].parent => a = b

\* A client that reads ErrTokenRevoked has to sign in again: the token that it
\* presented does not work, now or later.  (It may have been rotated by the very
\* call: a script that is sent again after a lost reply finds the old token gone.)
RevokedIsDefinitive ==
    \A c \in Calls :
        call[c].stage = "idle" /\ call[c].answer = "revoked" => ~ Usable(call[c].old)

HasSuccessor(t) == \E n \in stored : claims[n].parent = t

\* The keys of a token outlive it: a token of the session last written that was
\* not rotated works until it expires, unless Redis has dropped a key.
KeptForItsLife ==
    evicted = 0 =>
        \A t \in held :
            /\ clock < Expires(t)
            /\ session.value = claims[t].session
            /\ ~ HasSuccessor(t)
            => Usable(t)

\* The interceptor does not ask for the session, and yet an access token is let
\* in for less than access_token_ttl after the session was last active.
AccessEndsWithSession ==
    \A t \in held :
        UnaryServerInterceptor(t) => clock - seen[claims[t].session] < AccessTTL

\* The only refresh token that works is in the hands of the client or on its way
\* there, unless the call that stored it, or the reply to that call, was lost;
\* the loss of another call or reply, or of a key, takes no token away.
UsableTokenIsKnown ==
    \A t \in Pairs :
        Usable(t) => \/ t \in held \union unheard
                     \/ \E c \in Calls : /\ call[c].stage = "replied"
                                        /\ call[c].reply = 1 /\ call[c].new = t

\* A token of a client that has stopped to work (rotated, replaced, expired, or
\* without its keys) never works again, not even when a key is dropped.
DeadStaysDead ==
    [][\A t \in held : ~ Usable(t) => ~ Usable(t)']_vars
=============================================================================
