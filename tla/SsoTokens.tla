------------------------------ MODULE SsoTokens ------------------------------
(***************************************************************************)
(* smart-sso, the tokens of the single sign-on server: TokenManager with   *)
(* its timer, and its two implementations, LocalTokenManager (a map in     *)
(* memory) and RedisTokenManager (Redis, and a set of the tokens extended  *)
(* since the timer last ran).  Logins, logouts and the filters of the      *)
(* applications, which validate the token of every request, call them      *)
(* from the threads of the server.                                         *)
(*                                                                         *)
(* Time passes in ticks.  A call takes less than a tick, so it sees at     *)
(* most one.  A token is a UUID: it is never issued twice.  External:      *)
(* Redis, whose keys go away at their time and whose SET may fail, or be   *)
(* done and its answer lost.                                               *)
(***************************************************************************)
EXTENDS Integers

CONSTANTS
    Token,
    Thread,         \* threads of the server
    Timer,          \* the timer's thread
    NoToken,
    LocalTimeout,   \* tokenTimeout, in ticks
    RedisTimeout,   \* tokenTimeout * 1000 minutes, in ticks
    Period,         \* of the timer, in ticks
    MaxFaults       \* bound: SETs that fail

ASSUME TokenAssumption == NoToken \notin Token /\ Timer \notin Thread
ASSUME TimeAssumption ==
    /\ LocalTimeout \in Nat \ {0} /\ RedisTimeout \in Nat \ {0}
    /\ Period \in Nat \ {0} /\ Period < RedisTimeout /\ MaxFaults \in Nat

VARIABLES
    manager,        \* the TokenManager that is configured
    stored,         \* the tokens in tokenMap, or in Redis
    left,           \* ticks until a token expires
    tokenSet,       \* RedisTokenManager.tokenSet
    due,            \* ticks until the timer runs verifyExpired
    sweep,          \* tokens that LocalTokenManager.verifyExpired has not looked at
    cur,            \* the one it has found expired, at line 29
    pc, tok,        \* where a thread stands in validate, and its token
    late,           \* who has seen a tick in the call under way
    issued, loggedOut,  \* history: tokens that were issued, logged out
    idle,           \* history: ticks since a token was last issued, found valid, or
                    \* extended by a validate that then failed
    raced,          \* history: tokens swept, or logged out, in the middle of a validate
    unextended,     \* history: tokens whose last extension failed
    faults

call  == <<pc, tok>>
timer == <<due, sweep, cur>>
store == <<stored, left, tokenSet>>
hist  == <<issued, loggedOut, idle, raced, unextended>>
vars  == <<manager, store, timer, call, late, hist, faults>>

Timeout == IF manager = "local" THEN LocalTimeout ELSE RedisTimeout

\* Bound: idle time is not counted beyond any property's interest.
IdleCap == LocalTimeout + RedisTimeout + Period + 2

TypeOK ==
    /\ manager \in {"local", "redis"}
    /\ stored \in SUBSET issued /\ issued \in SUBSET Token
    /\ left \in [Token -> Int]
    /\ tokenSet \in SUBSET Token
    /\ due \in 0..Period
    /\ sweep \in SUBSET Token /\ cur \in Token \cup {NoToken}
    /\ pc \in [Thread -> {"idle", "extend", "check", "add", "set"}]
    /\ tok \in [Thread -> Token \cup {NoToken}]
    /\ \A th \in Thread : pc[th] # "idle" => tok[th] \in issued
    /\ late \in SUBSET (Thread \cup {Timer})
    /\ loggedOut \in SUBSET issued
    /\ idle \in [Token -> 0..IdleCap]
    /\ raced \in SUBSET Token /\ unextended \in SUBSET Token
    /\ faults \in 0..MaxFaults

-----------------------------------------------------------------------------

Validating(t, labels) == \E th \in Thread : pc[th] \in labels /\ tok[th] = t

\* A thread or the timer is done with its call.
Done(who) == late' = late \ {who}

Return(th) ==
    /\ pc' = [pc EXCEPT ![th] = "idle"]
    /\ tok' = [tok EXCEPT ![th] = NoToken]
    /\ Done(th)

\* The answer is that t is valid, or would be.
Used(t) == idle' = [idle EXCEPT ![t] = 0]

\* Mutant of CreateToken: the token is derived from the account.
CreateTokenAgain(th, t) ==
    /\ pc[th] = "idle"
    /\ issued' = issued \cup {t}
    /\ stored' = stored \cup {t}
    /\ left' = [left EXCEPT ![t] = Timeout]
    /\ Used(t)
    /\ UNCHANGED <<manager, tokenSet, timer, call, late, loggedOut, raced, unextended,
                   faults>>

\* Login of a browser that has no valid token.
CreateToken(th, t) ==
    /\ pc[th] = "idle"
    /\ t \notin issued
    /\ issued' = issued \cup {t}
    /\ stored' = stored \cup {t}
    /\ left' = [left EXCEPT ![t] = Timeout]
    /\ Used(t)
    /\ UNCHANGED <<manager, tokenSet, timer, call, late, loggedOut, raced, unextended,
                   faults>>

\* Logout: remove.
Remove(th, t) ==
    /\ pc[th] = "idle"
    /\ t \in issued
    /\ stored' = stored \ {t}
    /\ left' = [left EXCEPT ![t] = 0]
    /\ loggedOut' = loggedOut \cup {t}
    /\ raced' = IF Validating(t, {"check", "add", "set"}) THEN raced \cup {t} ELSE raced
    /\ UNCHANGED <<manager, tokenSet, timer, call, late, issued, idle, unextended, faults>>

\* validate reads the token; one that is not there is answered with null at once.
ValidateGets(th, t) ==
    /\ pc[th] = "idle"
    /\ t \in stored
    /\ pc' = [pc EXCEPT ![th] = IF manager = "local" THEN "extend" ELSE "check"]
    /\ tok' = [tok EXCEPT ![th] = t]
    /\ UNCHANGED <<manager, store, timer, late, hist, faults>>

-----------------------------------------------------------------------------
\* LocalTokenManager

\* Mutant of Extend: the token is put back into the map.
ExtendAndPut(th) ==
    /\ pc[th] = "extend"
    /\ stored' = stored \cup {tok[th]}
    /\ left' = [left EXCEPT ![tok[th]] = LocalTimeout]
    /\ Used(tok[th])
    /\ raced' = IF cur = tok[th] THEN raced \cup {cur} ELSE raced
    /\ Return(th)
    /\ UNCHANGED <<manager, tokenSet, timer, issued, loggedOut, unextended, faults>>

\* Mutant of Extend: from the old time of expiry, not from now.
ExtendFromExpiry(th) ==
    /\ pc[th] = "extend"
    /\ left' = [left EXCEPT ![tok[th]] = IF tok[th] \in stored THEN @ + LocalTimeout ELSE @]
    /\ Used(tok[th])
    /\ raced' = IF cur = tok[th] THEN raced \cup {cur} ELSE raced
    /\ Return(th)
    /\ UNCHANGED <<manager, stored, tokenSet, timer, issued, loggedOut, unextended, faults>>

\* validate extends the entry it has read, which need no longer be in the map.
Extend(th) ==
    /\ pc[th] = "extend"
    /\ left' = [left EXCEPT ![tok[th]] = IF tok[th] \in stored THEN LocalTimeout ELSE @]
    /\ Used(tok[th])
    /\ raced' = IF cur = tok[th] THEN raced \cup {cur} ELSE raced
    /\ Return(th)
    /\ UNCHANGED <<manager, stored, tokenSet, timer, issued, loggedOut, unextended, faults>>

\* The timer, every minute; now is taken here, before a tick that the sweep sees.
SweepBegins ==
    /\ manager = "local"
    /\ due = 0 /\ sweep = {} /\ cur = NoToken
    /\ due' = Period
    /\ sweep' = stored
    /\ UNCHANGED <<manager, store, cur, call, late, hist, faults>>

\* Mutant of Expired: >= for >.
ExpiredEarly(t) == left[t] + (IF Timer \in late THEN 1 ELSE 0) <= 0

Expired(t) == left[t] + (IF Timer \in late THEN 1 ELSE 0) < 0

SweepEnds == IF sweep' = {} /\ cur' = NoToken THEN Done(Timer) ELSE UNCHANGED late

SweepLooks(t) ==
    /\ cur = NoToken /\ t \in sweep
    /\ sweep' = sweep \ {t}
    /\ cur' = IF Expired(t) THEN t ELSE NoToken
    /\ SweepEnds
    /\ UNCHANGED <<manager, store, due, call, hist, faults>>

\* The second test finds that the token was extended meanwhile; but DummyUser.expired is
\* a plain field, so that the test may also see the old value again and the token go.
SweepSpares ==
    /\ cur # NoToken /\ ~Expired(cur)
    /\ cur' = NoToken
    /\ UNCHANGED <<manager, store, due, sweep, call, hist, faults>>
    /\ SweepEnds

SweepRemoves ==
    /\ cur # NoToken
    /\ stored' = stored \ {cur}
    /\ left' = [left EXCEPT ![cur] = 0]
    /\ raced' = IF Validating(cur, {"extend"}) THEN raced \cup {cur} ELSE raced
    /\ cur' = NoToken
    /\ UNCHANGED <<manager, tokenSet, due, sweep, call, issued, loggedOut, idle, unextended,
                   faults>>
    /\ SweepEnds

-----------------------------------------------------------------------------
\* RedisTokenManager

\* validate: extended already since the timer last ran.
CheckContained(th) ==
    /\ pc[th] = "check" /\ tok[th] \in tokenSet
    /\ Used(tok[th])
    /\ Return(th)
    /\ UNCHANGED <<manager, store, timer, issued, loggedOut, raced, unextended, faults>>

CheckMissing(th) ==
    /\ pc[th] = "check" /\ tok[th] \notin tokenSet
    /\ pc' = [pc EXCEPT ![th] = "add"]
    /\ UNCHANGED <<manager, store, timer, tok, late, hist, faults>>

\* Whether or not another call has added it meanwhile, and even after the timer ran.
AddToSet(th) ==
    /\ pc[th] = "add"
    /\ tokenSet' = tokenSet \cup {tok[th]}
    /\ pc' = [pc EXCEPT ![th] = "set"]
    /\ UNCHANGED <<manager, stored, left, timer, tok, late, hist, faults>>

\* addToken: SET with a time to live, whether or not the key is still there.
SetInRedis(t) ==
    /\ stored' = stored \cup {t}
    /\ left' = [left EXCEPT ![t] = RedisTimeout]
    /\ Used(t)
    /\ unextended' = unextended \ {t}

Set(th) ==
    /\ pc[th] = "set"
    /\ SetInRedis(tok[th])
    /\ Return(th)
    /\ UNCHANGED <<manager, tokenSet, timer, issued, loggedOut, raced, faults>>

\* CacheException: the request fails, the token stays in tokenSet.  The SET was not done,
\* or it was and its answer is lost.
SetFails(th) ==
    /\ pc[th] = "set"
    /\ faults < MaxFaults /\ faults' = faults + 1
    /\ \/ unextended' = unextended \cup {tok[th]} /\ UNCHANGED <<stored, left, idle>>
       \/ SetInRedis(tok[th])
    /\ Return(th)
    /\ UNCHANGED <<manager, tokenSet, timer, issued, loggedOut, raced>>

\* verifyExpired
ClearTokenSet ==
    /\ manager = "redis"
    /\ due = 0
    /\ due' = Period
    /\ tokenSet' = {}
    /\ UNCHANGED <<manager, stored, left, sweep, cur, call, late, hist, faults>>

-----------------------------------------------------------------------------

Busy == {th \in Thread : pc[th] # "idle"}
            \cup (IF sweep # {} \/ cur # NoToken THEN {Timer} ELSE {})

\* Time passes; Redis drops the keys whose time is over.
Tick ==
    /\ late = {}
    /\ due > 0 /\ due' = due - 1
    /\ left' = [t \in Token |-> IF t \in stored THEN left[t] - 1 ELSE 0]
    /\ stored' = IF manager = "redis" THEN {t \in stored : left[t] > 1} ELSE stored
    /\ idle' = [t \in Token |->
                  IF t \in issued /\ idle[t] < IdleCap THEN idle[t] + 1 ELSE idle[t]]
    /\ late' = Busy
    /\ UNCHANGED <<manager, tokenSet, sweep, cur, call, issued, loggedOut, raced, unextended,
                   faults>>

Init ==
    /\ manager \in {"local", "redis"}
    /\ stored = {} /\ left = [t \in Token |-> 0] /\ tokenSet = {}
    /\ due = Period /\ sweep = {} /\ cur = NoToken
    /\ pc = [th \in Thread |-> "idle"] /\ tok = [th \in Thread |-> NoToken]
    /\ late = {}
    /\ issued = {} /\ loggedOut = {} /\ idle = [t \in Token |-> 0]
    /\ raced = {} /\ unextended = {} /\ faults = 0

Next ==
    \/ \E th \in Thread, t \in Token :
          CreateToken(th, t) \/ Remove(th, t) \/ ValidateGets(th, t)
    \/ \E th \in Thread :
          Extend(th) \/ CheckContained(th) \/ CheckMissing(th) \/ AddToSet(th)
          \/ Set(th) \/ SetFails(th)
    \/ SweepBegins \/ SweepSpares \/ SweepRemoves \/ ClearTokenSet \/ Tick
    \/ \E t \in Token : SweepLooks(t)

Spec == Init /\ [][Next]_vars

-----------------------------------------------------------------------------
\* What the server promises of its tokens

\* Logout ends a token (LogoutController.java:35); it is there again only in Redis, and
\* only after a logout that came between the get and the set of a validate.
LogoutIsFinal ==
    \A t \in loggedOut \cap stored : manager = "redis" /\ t \in raced

\* How long an idle token is sure to stay: Redis may answer for up to Period without
\* extending the life of the token, and drops it the moment its time is over.
Granted == IF manager = "local" THEN LocalTimeout ELSE RedisTimeout - Period - 1

\* TokenManager.java:45: validation extends the life of the token.  A token in use stays,
\* unless the user logs out, the timer removes it under a validate, or its extension
\* failed or is still under way.
ActiveStays ==
    \A t \in issued :
        \/ t \in stored \cup loggedOut \cup raced \cup unextended
        \/ idle[t] > Granted
        \/ Validating(t, {"set"})

\* A token that nobody uses ends: at its time in Redis, in memory when the timer next
\* looks, whatever sweeps and calls overlap.  A request whose SET is done has used it,
\* also when the answer is lost and the request fails.
IdleExpires ==
    \A t \in stored :
        idle[t] <= IF manager = "local" THEN LocalTimeout + Period + 1 ELSE RedisTimeout

\* A token that has ended never comes back, if one that a validate has read from Redis,
\* and may write back, counts as alive until that call returns.
Status(t) ==
    IF t \notin issued THEN "unissued"
    ELSE IF t \in stored \/ Validating(t, {"check", "add", "set"}) THEN "live" ELSE "dead"

Abstract == INSTANCE TokenStore WITH status <- [t \in Token |-> Status(t)]

ImplementsTokenStore == Abstract!Spec
=============================================================================
