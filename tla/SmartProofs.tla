---------------------------- MODULE SmartProofs ----------------------------
(***************************************************************************)
(* smart, in three parts that share nothing: the tokens of the SSO server  *)
(* (SsoTokens), for every set of tokens and threads, all timeouts and every*)
(* number of failed SETs; the table of its users (UserAccounts), for every *)
(* set of threads and accounts; and the table an administrator sees in the *)
(* browser (AdminTable), for all page sizes and numbers of users.          *)
(***************************************************************************)
EXTENDS SsoTokens, AdminTable, FiniteSetTheorems, TLAPS

-----------------------------------------------------------------------------
(* The tokens: the inductive invariants.                                   *)

Sweeping == sweep # {} \/ cur # NoToken

\* Each manager has its own steps.
ManagerInv ==
    /\ \A th \in Thread : pc[th] \in {"check", "add", "set"} => manager = "redis"
    /\ \A th \in Thread : pc[th] = "extend" => manager = "local"
    /\ Sweeping => manager = "local"
    /\ sweep \subseteq issued /\ cur \in issued \cup {NoToken}
    /\ tokenSet \subseteq issued

\* A sweep sees one tick at most.
SweepInv ==
    /\ Timer \in late => Sweeping /\ due = Period - 1
    /\ Sweeping /\ Timer \notin late => due = Period

\* A logout that was undone, or may be.
LogoutInv ==
    \A t \in loggedOut :
        t \in stored \/ Validating(t, {"check", "add", "set"}) => manager = "redis" /\ t \in raced

\* A token cannot be older than its last use allows ...
NotTooOld == \A t \in stored : idle[t] + left[t] <= Timeout

\* ... nor stay longer than until the timer looks, or Redis drops it.
NotOverdue ==
    \A t \in stored :
        IF manager = "redis" THEN left[t] >= 1
        ELSE left[t] >= IF t \in sweep \cup {cur} THEN due - 2 * Period ELSE due - Period

ExpiryInv ==
    /\ TypeOK /\ ManagerInv /\ SweepInv /\ LogoutInv /\ NotTooOld /\ NotOverdue

-----------------------------------------------------------------------------
\* The other way round: a token is dropped only when it was not used

Exempt(t) == t \in loggedOut \cup raced \cup unextended \/ Validating(t, {"set"})

\* In memory: time that passes is idle time, and what the sweep has found expired is.
LocalInv ==
    manager = "local" =>
        /\ \A t \in stored : idle[t] + left[t] >= LocalTimeout \/ idle[t] = IdleCap
        /\ cur \in stored \ raced => left[cur] < 0 /\ (Timer \in late => left[cur] < -1)
        /\ \A th \in Thread :
              pc[th] = "extend" => tok[th] \in stored \cup raced \cup loggedOut

\* On Redis: a token marked in tokenSet was extended since the timer last ran.
RedisInv ==
    manager = "redis" =>
        \A t \in issued :
            ~Exempt(t) =>
                /\ t \in stored => idle[t] + left[t] >= RedisTimeout - Period
                                     \/ idle[t] = IdleCap
                /\ t \in tokenSet => t \in stored /\ left[t] >= RedisTimeout - Period + due

UseInv == LocalInv /\ RedisInv /\ ActiveStays
-----------------------------------------------------------------------------

USE TokenAssumption, TimeAssumption

LEMMA TypeInit == Init => TypeOK
BY DEF Init, TypeOK, IdleCap

LEMMA TypeNext == TypeOK /\ [Next]_vars => TypeOK'
<1> SUFFICES ASSUME TypeOK, [Next]_vars PROVE TypeOK'
  OBVIOUS
<1> USE DEF TypeOK, IdleCap, Timeout, Busy, SweepEnds, Return, Done, Used, call, timer,
     store, hist
<1>1. ASSUME NEW th \in Thread, NEW t \in Token, CreateToken(th, t) PROVE TypeOK'
  BY <1>1 DEF CreateToken
<1>2. ASSUME NEW th \in Thread, NEW t \in Token, Remove(th, t) PROVE TypeOK'
  BY <1>2 DEF Remove
<1>3. ASSUME NEW th \in Thread, NEW t \in Token, ValidateGets(th, t) PROVE TypeOK'
  BY <1>3 DEF ValidateGets
<1>4. ASSUME NEW th \in Thread, Extend(th) PROVE TypeOK'
  BY <1>4 DEF Extend
<1>5. ASSUME NEW th \in Thread, CheckContained(th) PROVE TypeOK'
  BY <1>5 DEF CheckContained
<1>6. ASSUME NEW th \in Thread, CheckMissing(th) \/ AddToSet(th) PROVE TypeOK'
  BY <1>6 DEF CheckMissing, AddToSet
<1>7. ASSUME NEW th \in Thread, Set(th) PROVE TypeOK'
  BY <1>7 DEF Set, SetInRedis
<1>8. ASSUME NEW th \in Thread, SetFails(th) PROVE TypeOK'
  BY <1>8 DEF SetFails, SetInRedis
<1>9. ASSUME SweepBegins PROVE TypeOK'
  BY <1>9 DEF SweepBegins
<1>10. ASSUME NEW t \in Token, SweepLooks(t) PROVE TypeOK'
  BY <1>10 DEF SweepLooks
<1>11. ASSUME SweepSpares PROVE TypeOK'
  BY <1>11 DEF SweepSpares
<1>12. ASSUME SweepRemoves PROVE TypeOK'
  BY <1>12 DEF SweepRemoves
<1>13. ASSUME ClearTokenSet PROVE TypeOK'
  BY <1>13 DEF ClearTokenSet
<1>14. ASSUME Tick PROVE TypeOK'
  BY <1>14 DEF Tick
<1>15. CASE UNCHANGED vars
  BY <1>15 DEF vars
<1> QED
  BY <1>1, <1>2, <1>3, <1>4, <1>5, <1>6, <1>7, <1>8, <1>9, <1>10, <1>11, <1>12, <1>13,
     <1>14, <1>15 DEF Next

LEMMA ManagerInit == Init => ManagerInv
BY DEF Init, ManagerInv, Sweeping

LEMMA ManagerNext == TypeOK /\ ManagerInv /\ [Next]_vars => ManagerInv'
<1> SUFFICES ASSUME TypeOK, ManagerInv, [Next]_vars PROVE ManagerInv'
  OBVIOUS
<1> USE DEF TypeOK, ManagerInv, Sweeping, SweepEnds, Return, Done, Used, call, timer,
     store, hist
<1>1. ASSUME NEW th \in Thread, NEW t \in Token, CreateToken(th, t) PROVE ManagerInv'
  BY <1>1 DEF CreateToken
<1>2. ASSUME NEW th \in Thread, NEW t \in Token, Remove(th, t) PROVE ManagerInv'
  BY <1>2 DEF Remove
<1>3. ASSUME NEW th \in Thread, NEW t \in Token, ValidateGets(th, t) PROVE ManagerInv'
  BY <1>3 DEF ValidateGets
<1>4. ASSUME NEW th \in Thread, Extend(th) PROVE ManagerInv'
  BY <1>4 DEF Extend
<1>5. ASSUME NEW th \in Thread, CheckContained(th) PROVE ManagerInv'
  BY <1>5 DEF CheckContained
<1>6. ASSUME NEW th \in Thread, CheckMissing(th) \/ AddToSet(th) PROVE ManagerInv'
  BY <1>6 DEF CheckMissing, AddToSet
<1>7. ASSUME NEW th \in Thread, Set(th) PROVE ManagerInv'
  BY <1>7 DEF Set, SetInRedis
<1>8. ASSUME NEW th \in Thread, SetFails(th) PROVE ManagerInv'
  BY <1>8 DEF SetFails, SetInRedis
<1>9. ASSUME SweepBegins PROVE ManagerInv'
  BY <1>9 DEF SweepBegins
<1>10. ASSUME NEW t \in Token, SweepLooks(t) PROVE ManagerInv'
  BY <1>10 DEF SweepLooks
<1>11. ASSUME SweepSpares PROVE ManagerInv'
  BY <1>11 DEF SweepSpares
<1>12. ASSUME SweepRemoves PROVE ManagerInv'
  BY <1>12 DEF SweepRemoves
<1>13. ASSUME ClearTokenSet PROVE ManagerInv'
  BY <1>13 DEF ClearTokenSet
<1>14. ASSUME Tick PROVE ManagerInv'
  BY <1>14 DEF Tick
<1>15. CASE UNCHANGED vars
  BY <1>15 DEF vars
<1> QED
  BY <1>1, <1>2, <1>3, <1>4, <1>5, <1>6, <1>7, <1>8, <1>9, <1>10, <1>11, <1>12, <1>13,
     <1>14, <1>15 DEF Next

LEMMA SweepNext == TypeOK /\ ManagerInv /\ SweepInv /\ [Next]_vars => SweepInv'
<1> SUFFICES ASSUME TypeOK, ManagerInv, SweepInv, [Next]_vars PROVE SweepInv'
  OBVIOUS
<1> USE DEF TypeOK, ManagerInv, SweepInv, Sweeping, SweepEnds, Busy, Return, Done, Used,
     call, timer, store, hist
<1>1. ASSUME NEW th \in Thread, NEW t \in Token, CreateToken(th, t) PROVE SweepInv'
  BY <1>1 DEF CreateToken
<1>2. ASSUME NEW th \in Thread, NEW t \in Token, Remove(th, t) PROVE SweepInv'
  BY <1>2 DEF Remove
<1>3. ASSUME NEW th \in Thread, NEW t \in Token, ValidateGets(th, t) PROVE SweepInv'
  BY <1>3 DEF ValidateGets
<1>4. ASSUME NEW th \in Thread, Extend(th) PROVE SweepInv'
  BY <1>4 DEF Extend
<1>5. ASSUME NEW th \in Thread, CheckContained(th) PROVE SweepInv'
  BY <1>5 DEF CheckContained
<1>6. ASSUME NEW th \in Thread, CheckMissing(th) \/ AddToSet(th) PROVE SweepInv'
  BY <1>6 DEF CheckMissing, AddToSet
<1>7. ASSUME NEW th \in Thread, Set(th) PROVE SweepInv'
  BY <1>7 DEF Set, SetInRedis
<1>8. ASSUME NEW th \in Thread, SetFails(th) PROVE SweepInv'
  BY <1>8 DEF SetFails, SetInRedis
<1>9. ASSUME SweepBegins PROVE SweepInv'
  BY <1>9 DEF SweepBegins
<1>10. ASSUME NEW t \in Token, SweepLooks(t) PROVE SweepInv'
  BY <1>10 DEF SweepLooks
<1>11. ASSUME SweepSpares PROVE SweepInv'
  BY <1>11 DEF SweepSpares
<1>12. ASSUME SweepRemoves PROVE SweepInv'
  BY <1>12 DEF SweepRemoves
<1>13. ASSUME ClearTokenSet PROVE SweepInv'
  BY <1>13 DEF ClearTokenSet
<1>14. ASSUME Tick PROVE SweepInv'
  BY <1>14 DEF Tick
<1>15. CASE UNCHANGED vars
  BY <1>15 DEF vars
<1> QED
  BY <1>1, <1>2, <1>3, <1>4, <1>5, <1>6, <1>7, <1>8, <1>9, <1>10, <1>11, <1>12, <1>13,
     <1>14, <1>15 DEF Next

LEMMA LogoutNext == TypeOK /\ ManagerInv /\ LogoutInv /\ [Next]_vars => LogoutInv'
<1> SUFFICES ASSUME TypeOK, ManagerInv, LogoutInv, [Next]_vars PROVE LogoutInv'
  OBVIOUS
<1> USE DEF TypeOK, ManagerInv, LogoutInv, Validating, Return, Done, Used, call, timer,
     store, hist
<1>1. ASSUME NEW th \in Thread, NEW t \in Token, CreateToken(th, t) PROVE LogoutInv'
  BY <1>1 DEF CreateToken
<1>2. ASSUME NEW th \in Thread, NEW t \in Token, Remove(th, t) PROVE LogoutInv'
  BY <1>2 DEF Remove
<1>3. ASSUME NEW th \in Thread, NEW t \in Token, ValidateGets(th, t) PROVE LogoutInv'
  BY <1>3 DEF ValidateGets
<1>4. ASSUME NEW th \in Thread, Extend(th) PROVE LogoutInv'
  BY <1>4 DEF Extend
<1>5. ASSUME NEW th \in Thread, CheckContained(th) PROVE LogoutInv'
  BY <1>5 DEF CheckContained
<1>6. ASSUME NEW th \in Thread, CheckMissing(th) \/ AddToSet(th) PROVE LogoutInv'
  BY <1>6 DEF CheckMissing, AddToSet
<1>7. ASSUME NEW th \in Thread, Set(th) PROVE LogoutInv'
  BY <1>7 DEF Set, SetInRedis
<1>8. ASSUME NEW th \in Thread, SetFails(th) PROVE LogoutInv'
  BY <1>8 DEF SetFails, SetInRedis
<1>9. ASSUME SweepBegins PROVE LogoutInv'
  BY <1>9 DEF SweepBegins
<1>10. ASSUME NEW t \in Token, SweepLooks(t) PROVE LogoutInv'
  BY <1>10 DEF SweepLooks
<1>11. ASSUME SweepSpares PROVE LogoutInv'
  BY <1>11 DEF SweepSpares
<1>12. ASSUME SweepRemoves PROVE LogoutInv'
  BY <1>12 DEF SweepRemoves
<1>13. ASSUME ClearTokenSet PROVE LogoutInv'
  BY <1>13 DEF ClearTokenSet
<1>14. ASSUME Tick PROVE LogoutInv'
  BY <1>14 DEF Tick
<1>15. CASE UNCHANGED vars
  BY <1>15 DEF vars
<1> QED
  BY <1>1, <1>2, <1>3, <1>4, <1>5, <1>6, <1>7, <1>8, <1>9, <1>10, <1>11, <1>12, <1>13,
     <1>14, <1>15 DEF Next

LEMMA NotTooOldNext == TypeOK /\ ManagerInv /\ NotTooOld /\ [Next]_vars => NotTooOld'
<1> SUFFICES ASSUME TypeOK, ManagerInv, NotTooOld, [Next]_vars PROVE NotTooOld'
  OBVIOUS
<1> USE DEF NotTooOld, TypeOK, ManagerInv, Timeout, IdleCap, Return, Done, Used, call,
     timer, store, hist
<1>1. ASSUME NEW th \in Thread, NEW t \in Token, CreateToken(th, t) PROVE NotTooOld'
  BY <1>1 DEF CreateToken
<1>2. ASSUME NEW th \in Thread, NEW t \in Token, Remove(th, t) PROVE NotTooOld'
  BY <1>2 DEF Remove
<1>3. ASSUME NEW th \in Thread, NEW t \in Token, ValidateGets(th, t) PROVE NotTooOld'
  BY <1>3 DEF ValidateGets
<1>4. ASSUME NEW th \in Thread, Extend(th) PROVE NotTooOld'
  BY <1>4 DEF Extend
<1>5. ASSUME NEW th \in Thread, CheckContained(th) PROVE NotTooOld'
  BY <1>5 DEF CheckContained
<1>6. ASSUME NEW th \in Thread, CheckMissing(th) \/ AddToSet(th) PROVE NotTooOld'
  BY <1>6 DEF CheckMissing, AddToSet
<1>7. ASSUME NEW th \in Thread, Set(th) PROVE NotTooOld'
  BY <1>7 DEF Set, SetInRedis
<1>8. ASSUME NEW th \in Thread, SetFails(th) PROVE NotTooOld'
  BY <1>8 DEF SetFails, SetInRedis
<1>9. ASSUME SweepBegins PROVE NotTooOld'
  BY <1>9 DEF SweepBegins
<1>10. ASSUME NEW t \in Token, SweepLooks(t) PROVE NotTooOld'
  BY <1>10 DEF SweepLooks
<1>11. ASSUME SweepSpares PROVE NotTooOld'
  BY <1>11 DEF SweepSpares
<1>12. ASSUME SweepRemoves PROVE NotTooOld'
  BY <1>12 DEF SweepRemoves
<1>13. ASSUME ClearTokenSet PROVE NotTooOld'
  BY <1>13 DEF ClearTokenSet
<1>14. ASSUME Tick PROVE NotTooOld'
  BY <1>14 DEF Tick
<1>15. CASE UNCHANGED vars
  BY <1>15 DEF vars
<1> QED
  BY <1>1, <1>2, <1>3, <1>4, <1>5, <1>6, <1>7, <1>8, <1>9, <1>10, <1>11, <1>12, <1>13,
     <1>14, <1>15 DEF Next

LEMMA NotOverdueNext ==
    TypeOK /\ ManagerInv /\ SweepInv /\ NotOverdue /\ [Next]_vars
    => NotOverdue'
<1> SUFFICES ASSUME TypeOK, ManagerInv, SweepInv, NotOverdue, [Next]_vars PROVE NotOverdue'
  OBVIOUS
<1> USE DEF NotOverdue, SweepInv, Sweeping, Expired, TypeOK, ManagerInv, Timeout,
     IdleCap, Return, Done, Used, call, timer, store, hist
<1>1. ASSUME NEW th \in Thread, NEW t \in Token, CreateToken(th, t) PROVE NotOverdue'
  BY <1>1 DEF CreateToken
<1>2. ASSUME NEW th \in Thread, NEW t \in Token, Remove(th, t) PROVE NotOverdue'
  BY <1>2 DEF Remove
<1>3. ASSUME NEW th \in Thread, NEW t \in Token, ValidateGets(th, t) PROVE NotOverdue'
  BY <1>3 DEF ValidateGets
<1>4. ASSUME NEW th \in Thread, Extend(th) PROVE NotOverdue'
  BY <1>4 DEF Extend
<1>5. ASSUME NEW th \in Thread, CheckContained(th) PROVE NotOverdue'
  BY <1>5 DEF CheckContained
<1>6. ASSUME NEW th \in Thread, CheckMissing(th) \/ AddToSet(th) PROVE NotOverdue'
  BY <1>6 DEF CheckMissing, AddToSet
<1>7. ASSUME NEW th \in Thread, Set(th) PROVE NotOverdue'
  BY <1>7 DEF Set, SetInRedis
<1>8. ASSUME NEW th \in Thread, SetFails(th) PROVE NotOverdue'
  BY <1>8 DEF SetFails, SetInRedis
<1>9. ASSUME SweepBegins PROVE NotOverdue'
  BY <1>9 DEF SweepBegins
<1>10. ASSUME NEW t \in Token, SweepLooks(t) PROVE NotOverdue'
  BY <1>10 DEF SweepLooks
<1>11. ASSUME SweepSpares PROVE NotOverdue'
  BY <1>11 DEF SweepSpares
<1>12. ASSUME SweepRemoves PROVE NotOverdue'
  BY <1>12 DEF SweepRemoves
<1>13. ASSUME ClearTokenSet PROVE NotOverdue'
  BY <1>13 DEF ClearTokenSet
<1>14. ASSUME Tick PROVE NotOverdue'
  BY <1>14 DEF Tick
<1>15. CASE UNCHANGED vars
  BY <1>15 DEF vars
<1> QED
  BY <1>1, <1>2, <1>3, <1>4, <1>5, <1>6, <1>7, <1>8, <1>9, <1>10, <1>11, <1>12, <1>13,
     <1>14, <1>15 DEF Next

LEMMA ExpiryInit == Init => ExpiryInv
BY TypeInit, ManagerInit DEF Init, ExpiryInv, SweepInv, Sweeping, LogoutInv, NotTooOld,
   NotOverdue

LEMMA ExpiryNext == ExpiryInv /\ [Next]_vars => ExpiryInv'
BY TypeNext, ManagerNext, SweepNext, LogoutNext, NotTooOldNext, NotOverdueNext DEF ExpiryInv

LEMMA Expiry == Spec => []ExpiryInv
BY ExpiryInit, ExpiryNext, PTL DEF Spec

\* The types of the model's variables, for either manager.
THEOREM TypeCorrect == Spec => []TypeOK
<1>1. ExpiryInv => TypeOK
  BY DEF ExpiryInv
<1> QED
  BY Expiry, <1>1, PTL

\* Logout ends a token, except in Redis under a validate that it overlaps.
THEOREM LogoutFinal == Spec => []LogoutIsFinal
<1>1. ExpiryInv => LogoutIsFinal
  BY DEF ExpiryInv, LogoutInv, LogoutIsFinal
<1> QED
  BY Expiry, <1>1, PTL

\* A token that nobody uses ends in time.
THEOREM IdleEnds == Spec => []IdleExpires
<1>1. ExpiryInv => IdleExpires
  <2> SUFFICES ASSUME ExpiryInv, NEW t \in stored
               PROVE  idle[t] <= IF manager = "local" THEN LocalTimeout + Period + 1
                                 ELSE RedisTimeout
    BY DEF IdleExpires
  <2> USE DEF ExpiryInv, TypeOK, NotTooOld, NotOverdue, Timeout, IdleCap
  <2>1. CASE manager = "redis"
    BY <2>1
  <2>2. CASE manager = "local" /\ t \in sweep \cup {cur}
    <3>1. due >= Period - 1
      BY <2>2 DEF SweepInv, Sweeping
    <3> QED
      BY <2>2, <3>1
  <2>3. CASE manager = "local" /\ t \notin sweep \cup {cur}
    BY <2>3
  <2> QED
    BY <2>1, <2>2, <2>3
<1> QED
  BY Expiry, <1>1, PTL

-----------------------------------------------------------------------------

LEMMA LocalNext == TypeOK /\ ManagerInv /\ LocalInv /\ [Next]_vars => LocalInv'
<1> SUFFICES ASSUME TypeOK, ManagerInv, LocalInv, [Next]_vars PROVE LocalInv'
  OBVIOUS
<1> USE DEF LocalInv, Validating, Expired, TypeOK, ManagerInv, Timeout, IdleCap, Return,
     Done, Used, call, timer, store, hist
<1>1. ASSUME NEW th \in Thread, NEW t \in Token, CreateToken(th, t) PROVE LocalInv'
  BY <1>1 DEF CreateToken
<1>2. ASSUME NEW th \in Thread, NEW t \in Token, Remove(th, t) PROVE LocalInv'
  BY <1>2 DEF Remove
<1>3. ASSUME NEW th \in Thread, NEW t \in Token, ValidateGets(th, t) PROVE LocalInv'
  BY <1>3 DEF ValidateGets
<1>4. ASSUME NEW th \in Thread, Extend(th) PROVE LocalInv'
  BY <1>4 DEF Extend
<1>5. ASSUME NEW th \in Thread, CheckContained(th) PROVE LocalInv'
  BY <1>5 DEF CheckContained
<1>6. ASSUME NEW th \in Thread, CheckMissing(th) \/ AddToSet(th) PROVE LocalInv'
  BY <1>6 DEF CheckMissing, AddToSet
<1>7. ASSUME NEW th \in Thread, Set(th) PROVE LocalInv'
  BY <1>7 DEF Set, SetInRedis
<1>8. ASSUME NEW th \in Thread, SetFails(th) PROVE LocalInv'
  BY <1>8 DEF SetFails, SetInRedis
<1>9. ASSUME SweepBegins PROVE LocalInv'
  BY <1>9 DEF SweepBegins
<1>10. ASSUME NEW t \in Token, SweepLooks(t) PROVE LocalInv'
  BY <1>10 DEF SweepLooks, SweepEnds
<1>11. ASSUME SweepSpares PROVE LocalInv'
  BY <1>11 DEF SweepSpares
<1>12. ASSUME SweepRemoves PROVE LocalInv'
  BY <1>12 DEF SweepRemoves, SweepEnds
<1>13. ASSUME ClearTokenSet PROVE LocalInv'
  BY <1>13 DEF ClearTokenSet
<1>14. ASSUME Tick PROVE LocalInv'
  BY <1>14 DEF Tick
<1>15. CASE UNCHANGED vars
  BY <1>15 DEF vars
<1> QED
  BY <1>1, <1>2, <1>3, <1>4, <1>5, <1>6, <1>7, <1>8, <1>9, <1>10, <1>11, <1>12, <1>13,
     <1>14, <1>15 DEF Next

LEMMA RedisNext == TypeOK /\ ManagerInv /\ RedisInv /\ [Next]_vars => RedisInv'
<1> SUFFICES ASSUME TypeOK, ManagerInv, RedisInv, [Next]_vars PROVE RedisInv'
  OBVIOUS
<1> USE DEF RedisInv, Exempt, Validating, TypeOK, ManagerInv, Timeout, IdleCap, Return,
     Done, Used, call, timer, store, hist
<1>1. ASSUME NEW th \in Thread, NEW t \in Token, CreateToken(th, t) PROVE RedisInv'
  BY <1>1 DEF CreateToken
<1>2. ASSUME NEW th \in Thread, NEW t \in Token, Remove(th, t) PROVE RedisInv'
  BY <1>2 DEF Remove
<1>3. ASSUME NEW th \in Thread, NEW t \in Token, ValidateGets(th, t) PROVE RedisInv'
  BY <1>3 DEF ValidateGets
<1>4. ASSUME NEW th \in Thread, Extend(th) PROVE RedisInv'
  BY <1>4 DEF Extend
<1>5. ASSUME NEW th \in Thread, CheckContained(th) PROVE RedisInv'
  BY <1>5 DEF CheckContained
<1>6. ASSUME NEW th \in Thread, CheckMissing(th) \/ AddToSet(th) PROVE RedisInv'
  BY <1>6 DEF CheckMissing, AddToSet
<1>7. ASSUME NEW th \in Thread, Set(th) PROVE RedisInv'
  BY <1>7 DEF Set, SetInRedis
<1>8. ASSUME NEW th \in Thread, SetFails(th) PROVE RedisInv'
  BY <1>8 DEF SetFails, SetInRedis
<1>9. ASSUME SweepBegins PROVE RedisInv'
  BY <1>9 DEF SweepBegins
<1>10. ASSUME NEW t \in Token, SweepLooks(t) PROVE RedisInv'
  BY <1>10 DEF SweepLooks
<1>11. ASSUME SweepSpares PROVE RedisInv'
  BY <1>11 DEF SweepSpares
<1>12. ASSUME SweepRemoves PROVE RedisInv'
  BY <1>12 DEF SweepRemoves, Sweeping
<1>13. ASSUME ClearTokenSet PROVE RedisInv'
  BY <1>13 DEF ClearTokenSet
<1>14. ASSUME Tick PROVE RedisInv'
  BY <1>14 DEF Tick
<1>15. CASE UNCHANGED vars
  BY <1>15 DEF vars
<1> QED
  BY <1>1, <1>2, <1>3, <1>4, <1>5, <1>6, <1>7, <1>8, <1>9, <1>10, <1>11, <1>12, <1>13,
     <1>14, <1>15 DEF Next

LEMMA ActiveNext == TypeOK /\ ManagerInv /\ UseInv /\ [Next]_vars => ActiveStays'
<1> SUFFICES ASSUME TypeOK, ManagerInv, UseInv, [Next]_vars PROVE ActiveStays'
  OBVIOUS
<1> USE DEF UseInv, LocalInv, RedisInv, Exempt, ActiveStays, Granted, Validating, TypeOK,
     ManagerInv, Timeout, IdleCap, Return, Done, Used, call, timer, store, hist
<1>1. ASSUME NEW th \in Thread, NEW t \in Token, CreateToken(th, t) PROVE ActiveStays'
  BY <1>1 DEF CreateToken
<1>2. ASSUME NEW th \in Thread, NEW t \in Token, Remove(th, t) PROVE ActiveStays'
  BY <1>2 DEF Remove
<1>3. ASSUME NEW th \in Thread, NEW t \in Token, ValidateGets(th, t) PROVE ActiveStays'
  BY <1>3 DEF ValidateGets
<1>4. ASSUME NEW th \in Thread, Extend(th) PROVE ActiveStays'
  BY <1>4 DEF Extend
<1>5. ASSUME NEW th \in Thread, CheckContained(th) PROVE ActiveStays'
  BY <1>5 DEF CheckContained
<1>6. ASSUME NEW th \in Thread, CheckMissing(th) \/ AddToSet(th) PROVE ActiveStays'
  BY <1>6 DEF CheckMissing, AddToSet
<1>7. ASSUME NEW th \in Thread, Set(th) PROVE ActiveStays'
  BY <1>7 DEF Set, SetInRedis
<1>8. ASSUME NEW th \in Thread, SetFails(th) PROVE ActiveStays'
  BY <1>8 DEF SetFails, SetInRedis
<1>9. ASSUME SweepBegins PROVE ActiveStays'
  BY <1>9 DEF SweepBegins
<1>10. ASSUME NEW t \in Token, SweepLooks(t) PROVE ActiveStays'
  BY <1>10 DEF SweepLooks
<1>11. ASSUME SweepSpares PROVE ActiveStays'
  BY <1>11 DEF SweepSpares
<1>12. ASSUME SweepRemoves PROVE ActiveStays'
  BY <1>12 DEF SweepRemoves, Sweeping
<1>13. ASSUME ClearTokenSet PROVE ActiveStays'
  BY <1>13 DEF ClearTokenSet
<1>14. ASSUME Tick PROVE ActiveStays'
  BY <1>14 DEF Tick
<1>15. CASE UNCHANGED vars
  BY <1>15 DEF vars
<1> QED
  BY <1>1, <1>2, <1>3, <1>4, <1>5, <1>6, <1>7, <1>8, <1>9, <1>10, <1>11, <1>12, <1>13,
     <1>14, <1>15 DEF Next

LEMMA UseInit == Init => UseInv
BY DEF Init, UseInv, LocalInv, RedisInv, ActiveStays, TypeOK

LEMMA Use == Spec => []UseInv
<1>1. ExpiryInv /\ UseInv /\ [Next]_vars => UseInv'
  BY LocalNext, RedisNext, ActiveNext DEF ExpiryInv, UseInv
<1> QED
  BY Expiry, UseInit, <1>1, PTL DEF Spec

\* A token in use stays, but for the named ways it may go.
THEOREM InUseStays == Spec => []ActiveStays
<1>1. UseInv => ActiveStays
  BY DEF UseInv
<1> QED
  BY Use, <1>1, PTL

-----------------------------------------------------------------------------
\* Refinement: a step of the server ends some tokens, issues one, or does neither

AtMostEnds ==
    \A t \in Token :
        \/ Status(t)' = Status(t)
        \/ Status(t) = "live" /\ Status(t)' = "dead"

Live(t) == t \in stored \/ \E th \in Thread : pc[th] \in {"check", "add", "set"} /\ tok[th] = t

NoneRevived == issued' = issued /\ \A t \in Token : Live(t)' => Live(t)

LEMMA StepRevivesNone ==
    ASSUME TypeOK, ManagerInv, [Next]_vars,
           ~\E th \in Thread, t \in Token : CreateToken(th, t)
    PROVE  NoneRevived
<1> USE DEF TypeOK, ManagerInv, Timeout, IdleCap, Return, Done, Used, call, timer, store,
     hist
<1>1. ASSUME NEW th \in Thread, NEW t \in Token, Remove(th, t) PROVE NoneRevived
  BY <1>1 DEF NoneRevived, Live, Remove
<1>2. ASSUME NEW th \in Thread, NEW t \in Token, ValidateGets(th, t) PROVE NoneRevived
  BY <1>2 DEF NoneRevived, Live, ValidateGets
<1>3. ASSUME NEW th \in Thread, Extend(th) PROVE NoneRevived
  BY <1>3 DEF NoneRevived, Live, Extend
<1>4. ASSUME NEW th \in Thread, CheckContained(th) PROVE NoneRevived
  BY <1>4 DEF NoneRevived, Live, CheckContained
<1>5. ASSUME NEW th \in Thread, CheckMissing(th) \/ AddToSet(th) PROVE NoneRevived
  BY <1>5 DEF NoneRevived, Live, CheckMissing, AddToSet
<1>6. ASSUME NEW th \in Thread, Set(th) PROVE NoneRevived
  BY <1>6 DEF NoneRevived, Live, Set, SetInRedis
<1>7. ASSUME NEW th \in Thread, SetFails(th) PROVE NoneRevived
  BY <1>7 DEF NoneRevived, Live, SetFails, SetInRedis
<1>8. ASSUME SweepBegins PROVE NoneRevived
  BY <1>8 DEF NoneRevived, Live, SweepBegins
<1>9. ASSUME NEW t \in Token, SweepLooks(t) PROVE NoneRevived
  BY <1>9 DEF NoneRevived, Live, SweepLooks
<1>10. ASSUME SweepSpares PROVE NoneRevived
  BY <1>10 DEF NoneRevived, Live, SweepSpares
<1>11. ASSUME SweepRemoves PROVE NoneRevived
  BY <1>11 DEF NoneRevived, Live, SweepRemoves, Sweeping
<1>12. ASSUME ClearTokenSet PROVE NoneRevived
  BY <1>12 DEF NoneRevived, Live, ClearTokenSet
<1>13. ASSUME Tick PROVE NoneRevived
  BY <1>13 DEF NoneRevived, Live, Tick
<1>14. CASE UNCHANGED vars
  BY <1>14 DEF NoneRevived, Live, vars
<1> QED
  BY <1>1, <1>2, <1>3, <1>4, <1>5, <1>6, <1>7, <1>8, <1>9, <1>10, <1>11, <1>12, <1>13,
     <1>14 DEF Next

LEMMA StepEnds ==
    ASSUME TypeOK, ManagerInv, [Next]_vars,
           ~\E th \in Thread, t \in Token : CreateToken(th, t)
    PROVE  AtMostEnds
<1>1. NoneRevived
  BY StepRevivesNone
<1> QED
  BY <1>1 DEF NoneRevived, AtMostEnds, Status, Live, Validating

LEMMA StepIssues ==
    ASSUME TypeOK, NEW th \in Thread, NEW t \in Token, CreateToken(th, t)
    PROVE  /\ Status(t) = "unissued" /\ Status(t)' = "live"
           /\ \A k \in Token \ {t} : Status(k)' = Status(k)
BY DEF CreateToken, Status, Validating, TypeOK, call

LEMMA StepRefines ==
    TypeOK /\ ManagerInv /\ [Next]_vars
        => Abstract!Next \/ UNCHANGED [t \in Token |-> Status(t)]
<1> SUFFICES ASSUME TypeOK, ManagerInv, [Next]_vars PROVE Abstract!Next
  OBVIOUS
<1>1. ASSUME NEW th \in Thread, NEW t \in Token, CreateToken(th, t) PROVE Abstract!Next
  <2>1. Abstract!Issue(t)
    BY <1>1, StepIssues DEF Abstract!Issue
  <2> QED
    BY <2>1 DEF Abstract!Next
<1>2. CASE AtMostEnds
  <2> DEFINE T == {t \in Token : Status(t)' # Status(t)}
  <2>1. \A t \in T : Status(t) = "live"
    BY <1>2 DEF AtMostEnds
  <2>2. Abstract!EndAll(T)
    BY <1>2 DEF AtMostEnds, Abstract!EndAll
  <2>3. T \in SUBSET {t \in Token : [k \in Token |-> Status(k)][t] = "live"}
    BY <2>1
  <2> QED
    BY <2>2, <2>3 DEF Abstract!Next
<1> QED
  BY <1>1, <1>2, StepEnds

\* Either manager implements the abstract store: a token is issued once, lives, and ends.
THEOREM Refinement == Spec => ImplementsTokenStore
<1>1. Init => Abstract!Init
  BY DEF Init, Abstract!Init, Status
<1>2. TypeOK /\ ManagerInv /\ [Next]_vars => [Abstract!Next]_([t \in Token |-> Status(t)])
  BY StepRefines
<1>3. ExpiryInv => TypeOK /\ ManagerInv
  BY DEF ExpiryInv
<1> QED
  BY Expiry, <1>1, <1>2, <1>3, PTL DEF Spec, ImplementsTokenStore, Abstract!Spec

-----------------------------------------------------------------------------
(* The users: the inductive invariant.                                     *)

AtStep(th, step) == ~Idle(th) /\ task[th].step = step

\* A thread is at a user who was created, or at a new one whose fields are all given; a
\* form decides the state, and the name, of its user.
TasksKnown ==
    \A th \in Worker : ~Idle(th) =>
        /\ task[th].id # None => task[th].id <= created
        /\ task[th].id = None => task[th].step = "save" /\ "password" \in task[th].sets
        /\ task[th].step = "save" => "enabled" \in task[th].sets

\* What a thread writes back, and was not asked to change, is still in the row, unless the
\* row was changed behind the thread's back.
TasksFresh ==
    \A th \in Worker \ dirty : AtStep(th, "update") =>
        LET c == task[th] IN
        /\ c.id \in Present
        /\ "password" \notin c.sets => c.row.password = user[c.id].password
        /\ "enabled" \notin c.sets => /\ c.row.enabled = user[c.id].enabled
                                      /\ c.row.account = user[c.id].account

\* The name in a form is nobody else's, or known not to have been verified.
TasksVerified ==
    \A th \in Worker : ~Idle(th) /\ "enabled" \in task[th].sets =>
        \/ task[th].row.account \in unverified
        \/ Named(task[th].row.account) \subseteq {task[th].id}

AccountsInv ==
    /\ AccountsTypeOK
    /\ TasksKnown /\ TasksFresh /\ TasksVerified
    /\ DecisionsStand /\ AccountsUnique

\* The table: what is checked behind a dialog is what the dialog asks about, or nothing.
DialogInv == ~Free => Selected(checked) \in {dialog.asked, {}}

-----------------------------------------------------------------------------
(* The users: steps of the threads.                                        *)

LEMMA AccountTypes ==
    ASSUME AccountsInv
    PROVE  /\ user \in [Id -> User \cup {None}] /\ task \in [Worker -> Task \cup {None}]
           /\ created \in Nat /\ created <= MaxUsers /\ None \notin Id
           /\ \A i \in Present : i \in Id /\ i <= created /\ user[i] \in User
           /\ \A th \in Worker : ~Idle(th) => task[th] \in Task
           /\ \A th \in Worker : th \in dirty => AtStep(th, "update")
<1>1. AccountsTypeOK
  BY DEF AccountsInv
<1>2. created \in Nat /\ created <= MaxUsers /\ None \notin Id
  BY <1>1, UserBounds, AccountAssumption DEF AccountsTypeOK, Id
<1>3. \A i \in Present : i \in Id /\ i <= created /\ user[i] \in User
  BY <1>1 DEF AccountsTypeOK, Present
<1>4. \A th \in Worker : ~Idle(th) => task[th] \in Task
  BY <1>1 DEF AccountsTypeOK, Idle
<1>5. \A th \in Worker : th \in dirty => AtStep(th, "update")
  BY <1>1 DEF AccountsTypeOK, AtStep, Idle
<1> QED
  BY <1>1, <1>2, <1>3, <1>4, <1>5 DEF AccountsTypeOK

\* What a thread must know when it has read: the conditions on its next write.
Known(c) ==
    /\ c.id # None => c.id <= created
    /\ c.id = None => c.step = "save" /\ "password" \in c.sets
    /\ c.step = "save" => "enabled" \in c.sets

Fresh(c) ==
    /\ c.id \in Present
    /\ "password" \notin c.sets => c.row.password = user[c.id].password
    /\ "enabled" \notin c.sets => /\ c.row.enabled = user[c.id].enabled
                                  /\ c.row.account = user[c.id].account

\* A thread reads; the rows stay as they are.
LEMMA Reads ==
    ASSUME AccountsInv, NEW th \in Worker, th \notin dirty, NEW c \in Task, Starts(th, c),
           UNCHANGED <<user, created, dirty, overwritten, decided>>,
           unverified \subseteq unverified', unverified' \subseteq Account,
           events' \in 0..MaxEvents,
           Known(c), c.step = "update" => Fresh(c),
           "enabled" \in c.sets =>
               c.row.account \in unverified' \/ Named(c.row.account) \subseteq {c.id}
    PROVE  AccountsInv'
<1>1. /\ AccountsTypeOK /\ TasksKnown /\ TasksFresh /\ TasksVerified
      /\ DecisionsStand /\ AccountsUnique /\ task \in [Worker -> Task \cup {None}]
  BY AccountTypes DEF AccountsInv
<1>2. /\ task'[th] = c /\ \A q \in Worker : q # th => task'[q] = task[q]
      /\ task' \in [Worker -> Task \cup {None}]
  BY <1>1 DEF Starts
<1>3. Present' = Present /\ \A a : Named(a)' = Named(a)
  BY DEF Present, Named
<1>4. AccountsTypeOK'
  <2>1. \A q \in dirty : q \in Worker /\ task'[q] # None /\ task'[q].step = "update"
    BY <1>1, <1>2 DEF AccountsTypeOK
  <2> QED
    BY <1>1, <1>2, <2>1 DEF AccountsTypeOK
<1>5. TasksKnown'
  BY <1>1, <1>2 DEF TasksKnown, Known, Idle
<1>6. TasksFresh'
  BY <1>1, <1>2, <1>3 DEF TasksFresh, Fresh, AtStep, Idle
<1>7. TasksVerified'
  BY <1>1, <1>2, <1>3 DEF TasksVerified, Idle
<1>8. DecisionsStand'
  BY <1>1, <1>3 DEF DecisionsStand
<1>9. AccountsUnique'
  BY <1>1, <1>3 DEF AccountsUnique
<1> QED
  BY <1>4, <1>5, <1>6, <1>7, <1>8, <1>9 DEF AccountsInv

LEMMA LoginReadsInv ==
    ASSUME AccountsInv, NEW th \in Worker, NEW i \in Id, LoginReads(th, i)
    PROVE  AccountsInv'
<1> DEFINE c == [step |-> "update", id |-> i, row |-> user[i], sets |-> {}]
<1>1. i \in Present /\ user[i] \in User /\ i <= created /\ i # None
  BY AccountTypes DEF LoginReads
<1>2. th \notin dirty
  BY AccountTypes DEF LoginReads, AtStep
<1>3. c \in Task /\ Starts(th, c)
  BY <1>1 DEF LoginReads, Task
<1>4. Known(c) /\ Fresh(c)
  BY <1>1 DEF Known, Fresh
<1>5. unverified' \subseteq Account /\ events' \in 0..MaxEvents
  BY UserBounds DEF AccountsInv, AccountsTypeOK, LoginReads, Event
<1> QED
  BY <1>2, <1>3, <1>4, <1>5, Reads DEF LoginReads

LEMMA PasswordReadsInv ==
    ASSUME AccountsInv, NEW th \in Worker, NEW i \in Id, PasswordReads(th, i)
    PROVE  AccountsInv'
<1> DEFINE c == [step |-> "update", id |-> i, sets |-> {"password"},
                 row |-> [user[i] EXCEPT !.password = "own"]]
<1>1. i \in Present /\ user[i] \in User /\ i <= created /\ i # None
  BY AccountTypes DEF PasswordReads
<1>2. th \notin dirty
  BY AccountTypes DEF PasswordReads, AtStep
<1>3. c \in Task /\ Starts(th, c)
  BY <1>1 DEF PasswordReads, Task, User, Password
<1>4. Known(c) /\ Fresh(c)
  BY <1>1 DEF Known, Fresh, User
<1>5. unverified' \subseteq Account /\ events' \in 0..MaxEvents
  BY UserBounds DEF AccountsInv, AccountsTypeOK, PasswordReads, Event
<1> QED
  BY <1>2, <1>3, <1>4, <1>5, Reads DEF PasswordReads

LEMMA CheckAccountInv ==
    ASSUME AccountsInv, NEW th \in Worker, CheckAccount(th)
    PROVE  AccountsInv'
<1>1. PICK i \in Present \cup {None}, a \in Account, b \in BOOLEAN, given \in BOOLEAN :
          /\ Idle(th) /\ (i = None => given)
          /\ \/ Event /\ Named(a) \subseteq {i} /\ UNCHANGED unverified
             \/ /\ events + 2 <= MaxEvents /\ events' = events + 2
                /\ unverified' = unverified \cup {a}
          /\ Starts(th, [step |-> "save", id |-> i,
                         row |-> [account |-> a, password |-> "own", enabled |-> b],
                         sets |-> {"enabled"} \cup IF given THEN {"password"} ELSE {}])
          /\ UNCHANGED <<user, created, dirty, overwritten, decided>>
  BY DEF CheckAccount
<1> DEFINE s == {"enabled"} \cup IF given THEN {"password"} ELSE {}
           r == [account |-> a, password |-> "own", enabled |-> b]
           c == [step |-> "save", id |-> i, row |-> r, sets |-> s]
<1>2. i # None => i \in Id /\ i <= created
  BY AccountTypes
<1>3. s \subseteq {"password", "enabled"} /\ "enabled" \in s /\ (given => "password" \in s)
  OBVIOUS
<1>4. r \in User /\ r.account = a
  BY DEF User, Password
<1> HIDE DEF s, r
<1>5. c \in Task /\ c.step = "save" /\ c.id = i /\ c.row = r /\ c.sets = s
  BY <1>2, <1>3, <1>4 DEF Task
<1>6. th \notin dirty
  BY <1>1, AccountTypes DEF AtStep
<1>7. Starts(th, c)
  BY <1>1 DEF s, r
<1> HIDE DEF c
<1>8. Known(c)
  BY <1>1, <1>2, <1>3, <1>5 DEF Known
<1>9. unverified \subseteq unverified' /\ unverified' \subseteq Account
      /\ events' \in 0..MaxEvents
  BY <1>1, UserBounds DEF AccountsInv, AccountsTypeOK, Event
<1>10. c.row.account \in unverified' \/ Named(c.row.account) \subseteq {c.id}
  BY <1>1, <1>4, <1>5
<1> QED
  BY <1>1, <1>5, <1>6, <1>7, <1>8, <1>9, <1>10, Reads

\* A thread ends without having written.
LEMMA Ends ==
    ASSUME AccountsInv, NEW th \in Worker, th \notin dirty, Starts(th, None),
           UNCHANGED <<user, created, dirty, overwritten, decided, unverified, events>>
    PROVE  AccountsInv'
<1>1. /\ AccountsTypeOK /\ TasksKnown /\ TasksFresh /\ TasksVerified
      /\ DecisionsStand /\ AccountsUnique /\ task \in [Worker -> Task \cup {None}]
  BY AccountTypes DEF AccountsInv
<1>2. /\ task'[th] = None /\ \A q \in Worker : q # th => task'[q] = task[q]
      /\ task' \in [Worker -> Task \cup {None}]
  BY <1>1 DEF Starts
<1>3. Present' = Present /\ \A a : Named(a)' = Named(a)
  BY DEF Present, Named
<1>4. AccountsTypeOK'
  <2>1. \A q \in dirty : q \in Worker /\ task'[q] # None /\ task'[q].step = "update"
    BY <1>1, <1>2 DEF AccountsTypeOK
  <2> QED
    BY <1>1, <1>2, <2>1 DEF AccountsTypeOK
<1>5. TasksKnown'
  BY <1>1, <1>2 DEF TasksKnown, Idle
<1>6. TasksFresh'
  BY <1>1, <1>2, <1>3 DEF TasksFresh, AtStep, Idle
<1>7. TasksVerified'
  BY <1>1, <1>2, <1>3 DEF TasksVerified, Idle
<1>8. DecisionsStand' /\ AccountsUnique'
  BY <1>1, <1>3 DEF DecisionsStand, AccountsUnique
<1> QED
  BY <1>4, <1>5, <1>6, <1>7, <1>8 DEF AccountsInv

\* A form whose password has been filled in.
LEMMA Rewritten ==
    ASSUME NEW c \in Task, NEW w \in Password
    PROVE  LET d == [c EXCEPT !.step = "update", !.row.password = w]
           IN  /\ d \in Task /\ d.step = "update" /\ d.id = c.id /\ d.sets = c.sets
               /\ d.row.account = c.row.account /\ d.row.password = w
<1> DEFINE d == [c EXCEPT !.step = "update", !.row.password = w]
<1>1. d \in Task
  BY DEF Task, User
<1>2. d.step = "update" /\ d.id = c.id /\ d.sets = c.sets
  BY DEF Task, User
<1>3. d.row = [c.row EXCEPT !.password = w]
  BY DEF Task, User
<1>4. [c.row EXCEPT !.password = w].account = c.row.account
      /\ [c.row EXCEPT !.password = w].password = w
  BY DEF Task, User
<1> QED
  BY <1>1, <1>2, <1>3, <1>4

LEMMA SaveReadsInv ==
    ASSUME AccountsInv, NEW th \in Worker, SaveReads(th)
    PROVE  AccountsInv'
<1> DEFINE c == task[th]
           d == [c EXCEPT !.step = "update",
                          !.row.password = IF "password" \in c.sets THEN @
                                           ELSE user[c.id].password]
<1>1. /\ c \in Task /\ c.step = "save" /\ c.id # None /\ c.id \in Id /\ ~Idle(th)
      /\ c.id <= created /\ "enabled" \in c.sets
  <2>1. c \in Task /\ c.step = "save" /\ c.id # None /\ ~Idle(th)
    BY AccountTypes DEF SaveReads
  <2>2. c.id \in Id
    BY <2>1 DEF Task
  <2>3. c.id <= created /\ "enabled" \in c.sets
    BY <2>1 DEF AccountsInv, TasksKnown
  <2> QED
    BY <2>1, <2>2, <2>3
<1>2. th \notin dirty
  BY <1>1, AccountTypes DEF AtStep
<1>3. /\ UNCHANGED <<user, created, dirty, overwritten, decided, unverified, events>>
      /\ task' = [task EXCEPT ![th] = IF user[c.id] = None THEN None ELSE d]
  BY DEF SaveReads
<1>4. CASE user[c.id] = None
  BY <1>2, <1>3, <1>4, Ends DEF Starts
<1>5. CASE user[c.id] # None
  <2>1. c.id \in Present /\ user[c.id] \in User
    BY <1>1, <1>5, AccountTypes DEF Present
  <2>2. /\ d \in Task /\ d.step = "update" /\ d.id = c.id /\ d.sets = c.sets
        /\ d.row.account = c.row.account
        /\ "password" \notin c.sets => d.row.password = user[c.id].password
    <3>1. user[c.id].password \in Password
      BY <2>1 DEF User
    <3> DEFINE w == IF "password" \in c.sets THEN c.row.password ELSE user[c.id].password
    <3>2. w \in Password
      BY <1>1, <3>1 DEF Task, User
    <3>3. d = [c EXCEPT !.step = "update", !.row.password = w]
      OBVIOUS
    <3>4. "password" \notin c.sets => w = user[c.id].password
      OBVIOUS
    <3> HIDE DEF w, d, c
    <3> QED
      BY <1>1, <3>2, <3>3, <3>4, Rewritten
  <2>3. Starts(th, d)
    BY <1>3, <1>5 DEF Starts
  <2>4. "enabled" \in d.sets =>
            d.row.account \in unverified' \/ Named(d.row.account) \subseteq {d.id}
    BY <1>1, <1>3, <2>2 DEF AccountsInv, TasksVerified
  <2> HIDE DEF d
  <2>5. Known(d) /\ Fresh(d)
    BY <1>1, <2>1, <2>2 DEF Known, Fresh
  <2>6. unverified' \subseteq Account /\ events' \in 0..MaxEvents
    BY <1>3 DEF AccountsInv, AccountsTypeOK
  <2> QED
    BY <1>2, <1>3, <2>2, <2>3, <2>4, <2>5, <2>6, Reads
<1> QED
  BY <1>4, <1>5

-----------------------------------------------------------------------------
(* The users: statements on rows.                                          *)

\* Statements that name nobody anew: threads at the rows that change become dirty.
LEMMA Writes ==
    ASSUME AccountsInv, user' \in [Id -> User \cup {None}],
           \A i \in Present' : i \in Present /\ user'[i].account = user[i].account,
           decided' \in [Id -> [password : Password, enabled : BOOLEAN]],
           \A i \in Present' \ overwritten :
               user'[i].password = decided'[i].password /\ user'[i].enabled = decided'[i].enabled,
           dirty' = dirty \cup Reading(Changed),
           UNCHANGED <<created, task, overwritten, unverified>>, events' \in 0..MaxEvents
    PROVE  AccountsInv'
<1>1. /\ AccountsTypeOK /\ TasksKnown /\ TasksFresh /\ TasksVerified
      /\ DecisionsStand /\ AccountsUnique
  BY DEF AccountsInv
<1>2. \A a : Named(a)' \subseteq Named(a)
  BY DEF Named
<1>3. AccountsTypeOK'
  <2>1. \A i \in Id : user'[i] # None => i <= created
    BY <1>1 DEF AccountsTypeOK, Present
  <2>2. \A q \in dirty' : q \in Worker /\ task[q] # None /\ task[q].step = "update"
    BY <1>1 DEF AccountsTypeOK, Reading, Idle
  <2> QED
    BY <1>1, <2>1, <2>2 DEF AccountsTypeOK
<1>4. TasksKnown'
  BY <1>1 DEF TasksKnown, Idle
<1>5. TasksFresh'
  <2> SUFFICES ASSUME NEW th \in Worker, th \notin dirty', AtStep(th, "update")
               PROVE  Fresh(task[th])'
    BY DEF TasksFresh, Fresh, AtStep, Idle
  <2>1. Fresh(task[th]) /\ task[th].id \notin Changed
    BY <1>1 DEF TasksFresh, Fresh, Reading, AtStep
  <2>2. task[th].id \in Id /\ user'[task[th].id] = user[task[th].id]
    BY <2>1 DEF Changed, Fresh, Present
  <2> QED
    BY <2>1, <2>2 DEF Fresh, Present
<1>6. TasksVerified'
  BY <1>1, <1>2 DEF TasksVerified, Idle
<1>7. DecisionsStand'
  BY DEF DecisionsStand
<1>8. AccountsUnique'
  BY <1>1 DEF AccountsUnique
<1> QED
  BY <1>3, <1>4, <1>5, <1>6, <1>7, <1>8 DEF AccountsInv

LEMMA Decided ==
    ASSUME AccountsInv, NEW ids, NEW sets, NEW row,
           ids # {} /\ "password" \in sets => row.password \in Password,
           ids # {} /\ "enabled" \in sets => row.enabled \in BOOLEAN,
           Decide(ids, sets, row)
    PROVE  /\ decided' \in [Id -> [password : Password, enabled : BOOLEAN]]
           /\ \A i \in Id : decided'[i].password = IF i \in ids /\ "password" \in sets
                                                   THEN row.password ELSE decided[i].password
           /\ \A i \in Id : decided'[i].enabled = IF i \in ids /\ "enabled" \in sets
                                                  THEN row.enabled ELSE decided[i].enabled
<1>1. decided \in [Id -> [password : Password, enabled : BOOLEAN]]
  BY DEF AccountsInv, AccountsTypeOK
<1>2. ASSUME NEW i \in Id
      PROVE  /\ decided'[i] \in [password : Password, enabled : BOOLEAN]
             /\ decided'[i].password = IF i \in ids /\ "password" \in sets
                                       THEN row.password ELSE decided[i].password
             /\ decided'[i].enabled = IF i \in ids /\ "enabled" \in sets
                                      THEN row.enabled ELSE decided[i].enabled
  <2>1. decided[i] \in [password : Password, enabled : BOOLEAN]
    BY <1>1
  <2>2. CASE i \in ids
    <3>1. decided'[i] = [password |-> IF "password" \in sets THEN row.password
                                      ELSE decided[i].password,
                         enabled  |-> IF "enabled" \in sets THEN row.enabled
                                      ELSE decided[i].enabled]
      BY <2>2 DEF Decide
    <3> QED
      BY <2>1, <2>2, <3>1
  <2>3. CASE i \notin ids
    BY <2>1, <2>3 DEF Decide
  <2> QED
    BY <2>2, <2>3
<1>3. DOMAIN decided' = Id /\ decided' = [i \in Id |-> decided'[i]]
  BY DEF Decide
<1> QED
  BY <1>2, <1>3

LEMMA EnableInv ==
    ASSUME AccountsInv, NEW ids, NEW b \in BOOLEAN, Enable(ids, b), events' \in 0..MaxEvents
    PROVE  AccountsInv'
<1>1. /\ user \in [Id -> User \cup {None}] /\ \A i \in Present : i \in Id /\ user[i] \in User
      /\ DecisionsStand
  BY AccountTypes DEF AccountsInv
<1>2. \A i \in Id : user'[i] = IF i \in ids \cap Present THEN [user[i] EXCEPT !.enabled = b]
                               ELSE user[i]
  BY DEF Enable
<1>3. \A r \in User : /\ [r EXCEPT !.enabled = b] \in User
                      /\ [r EXCEPT !.enabled = b].enabled = b
                      /\ [r EXCEPT !.enabled = b].account = r.account
                      /\ [r EXCEPT !.enabled = b].password = r.password
  BY DEF User
<1>4. /\ decided' \in [Id -> [password : Password, enabled : BOOLEAN]]
      /\ \A i \in Id : /\ decided'[i].password = decided[i].password
                       /\ decided'[i].enabled = IF i \in ids \cap Present THEN b
                                                ELSE decided[i].enabled
  <2> DEFINE r == [password |-> "own", enabled |-> b]
  <2>1. Decide(ids \cap Present, {"enabled"}, r)
    BY DEF Enable, Written
  <2>2. r.enabled = b
    OBVIOUS
  <2> HIDE DEF r
  <2> QED
    BY <2>1, <2>2, Decided
<1>5. user' \in [Id -> User \cup {None}]
  <2>1. \A i \in Id : user'[i] \in User \cup {None}
    BY <1>1, <1>2, <1>3
  <2> QED
    BY <2>1 DEF Enable
<1>6. \A i \in Present' : i \in Present /\ user'[i].account = user[i].account
  BY <1>1, <1>2, <1>3 DEF Present
<1>7. \A i \in Present' \ overwritten :
          user'[i].password = decided'[i].password /\ user'[i].enabled = decided'[i].enabled
  <2> SUFFICES ASSUME NEW i \in Present' \ overwritten
               PROVE  /\ user'[i].password = decided'[i].password
                      /\ user'[i].enabled = decided'[i].enabled
    OBVIOUS
  <2>1. i \in Present /\ i \in Id /\ user[i] \in User
    BY <1>1, <1>6
  <2>2. user[i].password = decided[i].password /\ user[i].enabled = decided[i].enabled
    BY <1>1, <2>1 DEF DecisionsStand
  <2>3. CASE i \in ids
    BY <1>2, <1>3, <1>4, <2>1, <2>2, <2>3
  <2>4. CASE i \notin ids
    BY <1>2, <1>4, <2>1, <2>2, <2>4
  <2> QED
    BY <2>3, <2>4
<1> QED
  BY <1>4, <1>5, <1>6, <1>7, Writes DEF Enable, Written

LEMMA ResetPasswordInv ==
    ASSUME AccountsInv, NEW ids, ResetPassword(ids), events' \in 0..MaxEvents
    PROVE  AccountsInv'
<1>1. /\ user \in [Id -> User \cup {None}] /\ \A i \in Present : i \in Id /\ user[i] \in User
      /\ DecisionsStand
  BY AccountTypes DEF AccountsInv
<1>2. \A i \in Id : user'[i] = IF i \in ids \cap Present
                               THEN [user[i] EXCEPT !.password = "initial"] ELSE user[i]
  BY DEF ResetPassword
<1>3. \A r \in User : /\ [r EXCEPT !.password = "initial"] \in User
                      /\ [r EXCEPT !.password = "initial"].enabled = r.enabled
                      /\ [r EXCEPT !.password = "initial"].account = r.account
                      /\ [r EXCEPT !.password = "initial"].password = "initial"
  BY DEF User, Password
<1>4. /\ decided' \in [Id -> [password : Password, enabled : BOOLEAN]]
      /\ \A i \in Id : /\ decided'[i].enabled = decided[i].enabled
                       /\ decided'[i].password = IF i \in ids \cap Present THEN "initial"
                                                 ELSE decided[i].password
  <2> DEFINE r == [password |-> "initial", enabled |-> TRUE]
  <2>1. Decide(ids \cap Present, {"password"}, r)
    BY DEF ResetPassword, Written
  <2>2. r.password = "initial" /\ r.password \in Password
    BY DEF Password
  <2> HIDE DEF r
  <2> QED
    BY <2>1, <2>2, Decided
<1>5. user' \in [Id -> User \cup {None}]
  <2>1. \A i \in Id : user'[i] \in User \cup {None}
    BY <1>1, <1>2, <1>3
  <2> QED
    BY <2>1 DEF ResetPassword
<1>6. \A i \in Present' : i \in Present /\ user'[i].account = user[i].account
  BY <1>1, <1>2, <1>3 DEF Present
<1>7. \A i \in Present' \ overwritten :
          user'[i].password = decided'[i].password /\ user'[i].enabled = decided'[i].enabled
  <2> SUFFICES ASSUME NEW i \in Present' \ overwritten
               PROVE  /\ user'[i].password = decided'[i].password
                      /\ user'[i].enabled = decided'[i].enabled
    OBVIOUS
  <2>1. i \in Present /\ i \in Id /\ user[i] \in User
    BY <1>1, <1>6
  <2>2. user[i].password = decided[i].password /\ user[i].enabled = decided[i].enabled
    BY <1>1, <2>1 DEF DecisionsStand
  <2>3. CASE i \in ids
    BY <1>2, <1>3, <1>4, <2>1, <2>2, <2>3
  <2>4. CASE i \notin ids
    BY <1>2, <1>4, <2>1, <2>2, <2>4
  <2> QED
    BY <2>3, <2>4
<1> QED
  BY <1>4, <1>5, <1>6, <1>7, Writes DEF ResetPassword, Written

LEMMA DeleteByIdInv ==
    ASSUME AccountsInv, NEW ids, DeleteById(ids), events' \in 0..MaxEvents
    PROVE  AccountsInv'
<1>1. user \in [Id -> User \cup {None}] /\ DecisionsStand
  BY AccountTypes DEF AccountsInv
<1>2. user' \in [Id -> User \cup {None}] /\ \A i \in Id : user'[i] \in {user[i], None}
  BY <1>1 DEF DeleteById
<1>3. /\ decided' \in [Id -> [password : Password, enabled : BOOLEAN]]
      /\ \A i \in Id : /\ decided'[i].password = decided[i].password
                       /\ decided'[i].enabled = decided[i].enabled
  <2>1. Decide({}, {}, None)
    BY DEF DeleteById, Written
  <2> QED
    BY <2>1, Decided
<1>4. \A i \in Present' : i \in Present /\ user'[i] = user[i]
  BY <1>2 DEF Present
<1>5. \A i \in Present' \ overwritten :
          user'[i].password = decided'[i].password /\ user'[i].enabled = decided'[i].enabled
  BY <1>1, <1>3, <1>4 DEF DecisionsStand, Present
<1> QED
  BY <1>2, <1>3, <1>4, <1>5, Writes DEF DeleteById, Written

\* What a save of account a means for the other forms.
LEMMA Verifies ==
    ASSUME AccountsInv, NEW th \in Worker, NEW i, NEW a \in Account, Verified(th, i, a)
    PROVE  /\ unverified \subseteq unverified' /\ unverified' \subseteq Account
           /\ \A q \in Worker \ {th} :
                 /\ ~Idle(q) /\ "enabled" \in task[q].sets /\ task[q].row.account = a
                 /\ task[q].id = None \/ task[q].id # i
                 => a \in unverified'
BY DEF AccountsInv, AccountsTypeOK, Verified

LEMMA InsertInv ==
    ASSUME AccountsInv, NEW th \in Worker, Insert(th)
    PROVE  AccountsInv'
<1> DEFINE c == task[th]
           i == created + 1
<1>1. /\ AccountsTypeOK /\ TasksKnown /\ TasksFresh /\ TasksVerified
      /\ DecisionsStand /\ AccountsUnique
      /\ user \in [Id -> User \cup {None}] /\ task \in [Worker -> Task \cup {None}]
  BY AccountTypes DEF AccountsInv
<1>2. /\ c \in Task /\ c.step = "save" /\ c.id = None /\ ~Idle(th)
      /\ "password" \in c.sets /\ "enabled" \in c.sets /\ c.row \in User
  <2>1. c \in Task /\ c.step = "save" /\ c.id = None /\ ~Idle(th)
    BY AccountTypes DEF Insert
  <2>2. "password" \in c.sets /\ "enabled" \in c.sets
    BY <1>1, <2>1 DEF TasksKnown
  <2> QED
    BY <2>1, <2>2 DEF Task
<1>3. c.row.account \in Account /\ c.row.password \in Password /\ c.row.enabled \in BOOLEAN
  BY <1>2 DEF User
<1>4. th \notin dirty
  BY <1>2, AccountTypes DEF AtStep
<1>5. /\ i \in Id /\ created' = i /\ user' = [user EXCEPT ![i] = c.row]
      /\ Decide({i}, c.sets, c.row) /\ task' = [task EXCEPT ![th] = None]
      /\ Verified(th, None, c.row.account) /\ UNCHANGED <<dirty, overwritten, events>>
  BY DEF Insert
<1>6. i \notin Present /\ created <= i /\ i \in 0..MaxUsers
      /\ \A j \in Present : j \in Id /\ j <= created /\ user[j] \in User
  <2>1. created \in Nat /\ MaxUsers \in Nat /\ \A j \in Present : j \in Id /\ j <= created
    BY AccountTypes, UserBounds
  <2> QED
    BY <1>5, <2>1, AccountTypes DEF Id
<1>7. /\ decided' \in [Id -> [password : Password, enabled : BOOLEAN]]
      /\ decided'[i].password = c.row.password /\ decided'[i].enabled = c.row.enabled
      /\ \A j \in Id : j # i => /\ decided'[j].password = decided[j].password
                                /\ decided'[j].enabled = decided[j].enabled
  <2> HIDE DEF c, i
  <2> QED
    BY <1>2, <1>3, <1>5, Decided
<1>8. /\ unverified \subseteq unverified' /\ unverified' \subseteq Account
      /\ \A q \in Worker \ {th} :
            ~Idle(q) /\ "enabled" \in task[q].sets /\ task[q].row.account = c.row.account
                => c.row.account \in unverified'
  BY <1>3, <1>5, Verifies
<1>9. /\ user'[i] = c.row /\ \A j \in Id : j # i => user'[j] = user[j]
      /\ \A j \in Present' : j = i \/ j \in Present
      /\ \A j \in Present : j \in Present'
      /\ user' \in [Id -> User \cup {None}]
  <2> HIDE DEF c, i
  <2>1. user'[i] = c.row /\ \A j \in Id : j # i => user'[j] = user[j]
    BY <1>1, <1>5
  <2> QED
    BY <1>1, <1>2, <1>5, <1>6, <2>1 DEF Present
<1>10. /\ task'[th] = None /\ \A q \in Worker : q # th => task'[q] = task[q]
       /\ task' \in [Worker -> Task \cup {None}]
  BY <1>1, <1>5
<1> HIDE DEF c, i
<1>11. \A a : a # c.row.account => Named(a)' \subseteq Named(a)
  BY <1>6, <1>9 DEF Named
<1>12. AccountsTypeOK'
  <2>1. \A j \in Id : user'[j] # None => j <= created'
    <3> SUFFICES ASSUME NEW j \in Id, user'[j] # None PROVE j <= i
      BY <1>5
    <3>1. j = i \/ j \in Present
      BY <1>9 DEF Present
    <3>2. j \in Int /\ i \in Int /\ created \in Int
      BY <1>5, AccountTypes DEF Id
    <3> QED
      BY <1>6, <3>1, <3>2
  <2>2. \A q \in dirty : q \in Worker /\ task'[q] # None /\ task'[q].step = "update"
    BY <1>1, <1>4, <1>10 DEF AccountsTypeOK
  <2> QED
    BY <1>1, <1>5, <1>6, <1>7, <1>8, <1>9, <1>10, <2>1, <2>2 DEF AccountsTypeOK
<1>13. TasksKnown'
  <2> SUFFICES ASSUME NEW q \in Worker, ~Idle(q)' PROVE Known(task[q])'
    BY DEF TasksKnown, Known
  <2>1. q # th /\ task'[q] = task[q] /\ ~Idle(q)
    BY <1>10 DEF Idle
  <2>2. Known(task[q]) /\ task[q] \in Task
    BY <1>1, <2>1, AccountTypes DEF TasksKnown, Known
  <2>3. task[q].id # None => task[q].id \in Int /\ created \in Int /\ i \in Int
    BY <1>5, <2>2, AccountTypes DEF Task, Id
  <2>4. task[q].id # None => task[q].id <= i
    BY <1>6, <2>2, <2>3 DEF Known
  <2> QED
    BY <1>5, <2>1, <2>2, <2>4 DEF Known
<1>14. TasksFresh'
  <2> SUFFICES ASSUME NEW q \in Worker, q \notin dirty', AtStep(q, "update")'
               PROVE  Fresh(task[q])'
    BY DEF TasksFresh, Fresh, AtStep, Idle
  <2>1. q # th /\ task'[q] = task[q] /\ AtStep(q, "update") /\ q \notin dirty
    BY <1>5, <1>10 DEF AtStep, Idle
  <2>2. Fresh(task[q])
    BY <1>1, <2>1 DEF TasksFresh, Fresh, AtStep
  <2>3. task[q].id \in Id /\ task[q].id # i /\ task[q].id \in Present'
    BY <1>6, <1>9, <2>2 DEF Fresh
  <2> QED
    BY <1>9, <2>1, <2>2, <2>3 DEF Fresh
<1>15. TasksVerified'
  <2> SUFFICES ASSUME NEW q \in Worker, ~Idle(q)', "enabled" \in task'[q].sets
               PROVE  \/ task'[q].row.account \in unverified'
                      \/ Named(task[q].row.account)' \subseteq {task'[q].id}
    BY DEF TasksVerified
  <2>1. q # th /\ task'[q] = task[q] /\ ~Idle(q)
    BY <1>10 DEF Idle
  <2>2. CASE task[q].row.account = c.row.account
    BY <1>8, <2>1, <2>2
  <2>3. CASE task[q].row.account # c.row.account
    <3>1. Named(task[q].row.account)' \subseteq Named(task[q].row.account)
      <4>1. \A j \in Present' : user'[j].account = task[q].row.account
                => j \in Present /\ user[j].account = task[q].row.account
        BY <1>6, <1>9, <2>3
      <4> QED
        BY <2>1, <4>1 DEF Named
    <3> QED
      BY <1>1, <1>8, <2>1, <3>1 DEF TasksVerified
  <2> QED
    BY <2>2, <2>3
<1>16. DecisionsStand'
  <2> SUFFICES ASSUME NEW j \in Present', j \notin overwritten
               PROVE  /\ user'[j].password = decided'[j].password
                      /\ user'[j].enabled = decided'[j].enabled
    BY <1>5 DEF DecisionsStand
  <2>1. CASE j = i
    BY <1>7, <1>9, <2>1
  <2>2. CASE j # i
    BY <1>1, <1>6, <1>7, <1>9, <2>2 DEF DecisionsStand
  <2> QED
    BY <2>1, <2>2
<1>17. AccountsUnique'
  <2>1. \A j \in Present : user[j].account = c.row.account => c.row.account \in unverified
    <3>1. c.row.account \in unverified \/ Named(c.row.account) \subseteq {None}
      BY <1>1, <1>2 DEF TasksVerified, c
    <3> QED
      BY <1>6, <3>1, AccountTypes DEF Named
  <2> SUFFICES ASSUME NEW j \in Present', NEW k \in Present', j # k,
                      user'[j].account = user'[k].account
               PROVE  user'[j].account \in unverified' \/ {j, k} \cap overwritten # {}
    BY <1>5 DEF AccountsUnique
  <2>2. CASE j = i
    BY <1>6, <1>8, <1>9, <2>1, <2>2
  <2>3. CASE k = i
    BY <1>6, <1>8, <1>9, <2>1, <2>3
  <2>4. CASE j # i /\ k # i
    BY <1>1, <1>6, <1>8, <1>9, <2>4 DEF AccountsUnique
  <2> QED
    BY <2>2, <2>3, <2>4
<1> QED
  BY <1>12, <1>13, <1>14, <1>15, <1>16, <1>17 DEF AccountsInv

LEMMA UpdateInv ==
    ASSUME AccountsInv, NEW th \in Worker, Update(th)
    PROVE  AccountsInv'
<1> DEFINE c == task[th]
           i == c.id
<1>1. /\ AccountsTypeOK /\ TasksKnown /\ TasksFresh /\ TasksVerified
      /\ DecisionsStand /\ AccountsUnique
      /\ user \in [Id -> User \cup {None}] /\ task \in [Worker -> Task \cup {None}]
  BY AccountTypes DEF AccountsInv
<1>2. c \in Task /\ c.step = "update" /\ ~Idle(th) /\ c.row \in User /\ i \in Id
  <2>1. c \in Task /\ c.step = "update" /\ ~Idle(th)
    BY AccountTypes DEF Update
  <2>2. i # None
    BY <1>1, <2>1 DEF TasksKnown
  <2> QED
    BY <2>1, <2>2 DEF Task
<1>3. c.row.account \in Account /\ c.row.password \in Password /\ c.row.enabled \in BOOLEAN
  BY <1>2 DEF User
<1>4. /\ user' = [user EXCEPT ![i] = IF @ = None THEN None ELSE c.row]
      /\ Decide({i} \cap Present, c.sets, c.row) /\ Verified(th, i, c.row.account)
      /\ overwritten' = IF th \in dirty THEN overwritten \cup {i} ELSE overwritten
      /\ dirty' = (dirty \cup Reading(Changed)) \ {th}
      /\ task' = [task EXCEPT ![th] = None] /\ UNCHANGED <<created, events>>
  BY DEF Update
<1> HIDE DEF i
<1>5. /\ decided' \in [Id -> [password : Password, enabled : BOOLEAN]]
      /\ i \in Present => /\ decided'[i].password = IF "password" \in c.sets THEN c.row.password
                                                    ELSE decided[i].password
                          /\ decided'[i].enabled = IF "enabled" \in c.sets THEN c.row.enabled
                                                   ELSE decided[i].enabled
      /\ \A j \in Id : j # i => /\ decided'[j].password = decided[j].password
                                /\ decided'[j].enabled = decided[j].enabled
  <2> HIDE DEF c
  <2> QED
    BY <1>2, <1>3, <1>4, Decided
<1>6. /\ unverified \subseteq unverified' /\ unverified' \subseteq Account
      /\ \A q \in Worker \ {th} :
            /\ ~Idle(q) /\ "enabled" \in task[q].sets /\ task[q].row.account = c.row.account
            /\ task[q].id = None \/ task[q].id # i
            => c.row.account \in unverified'
  BY <1>3, <1>4, Verifies
<1>7. /\ \A j \in Id : j # i => user'[j] = user[j]
      /\ user' \in [Id -> User \cup {None}]
      /\ i \in Present => user'[i] = c.row
      /\ \A j \in Present' : j \in Present /\ j \in Id
  <2> HIDE DEF c
  <2>1. \A j \in Id : j # i => user'[j] = user[j]
    BY <1>1, <1>4
  <2>2. user'[i] = IF user[i] = None THEN None ELSE c.row
    BY <1>1, <1>2, <1>4
  <2> QED
    BY <1>1, <1>2, <1>4, <2>1, <2>2 DEF Present
<1>8. /\ task'[th] = None /\ \A q \in Worker : q # th => task'[q] = task[q]
      /\ task' \in [Worker -> Task \cup {None}]
  BY <1>1, <1>4
<1>9. /\ overwritten \subseteq overwritten' /\ overwritten' \subseteq Id
      /\ th \in dirty => i \in overwritten'
  BY <1>1, <1>2, <1>4 DEF AccountsTypeOK
<1>10. th \notin dirty =>
          /\ i \in Present
          /\ "password" \notin c.sets => c.row.password = user[i].password
          /\ "enabled" \notin c.sets => /\ c.row.enabled = user[i].enabled
                                        /\ c.row.account = user[i].account
  BY <1>1, <1>2 DEF TasksFresh, AtStep, i
<1>11. "enabled" \in c.sets =>
          \/ c.row.account \in unverified
          \/ Named(c.row.account) \subseteq {i}
  BY <1>1, <1>2 DEF TasksVerified, i
<1> HIDE DEF c
<1>12. AccountsTypeOK'
  <2>1. \A j \in Id : user'[j] # None => j <= created'
    BY <1>1, <1>4, <1>7 DEF AccountsTypeOK, Present
  <2>2. \A q \in dirty' : q \in Worker /\ task'[q] # None /\ task'[q].step = "update"
    BY <1>1, <1>4, <1>8 DEF AccountsTypeOK, Reading, Idle
  <2> QED
    BY <1>1, <1>4, <1>5, <1>6, <1>7, <1>8, <1>9, <2>1, <2>2 DEF AccountsTypeOK
<1>13. TasksKnown'
  BY <1>1, <1>4, <1>8 DEF TasksKnown, Idle
<1>14. TasksFresh'
  <2> SUFFICES ASSUME NEW q \in Worker, q \notin dirty', AtStep(q, "update")'
               PROVE  Fresh(task[q])'
    BY DEF TasksFresh, Fresh, AtStep, Idle
  <2>1. q # th /\ task'[q] = task[q] /\ AtStep(q, "update")
    BY <1>8 DEF AtStep, Idle
  <2>2. q \notin dirty /\ q \notin Reading(Changed)
    BY <1>4, <2>1
  <2>3. Fresh(task[q]) /\ task[q].id \notin Changed
    BY <1>1, <2>1, <2>2 DEF TasksFresh, Fresh, Reading, AtStep
  <2>4. task[q].id \in Id /\ user'[task[q].id] = user[task[q].id]
    BY <2>3 DEF Changed, Fresh, Present
  <2> QED
    BY <2>1, <2>3, <2>4 DEF Fresh, Present
<1>15. TasksVerified'
  <2> SUFFICES ASSUME NEW q \in Worker, ~Idle(q)', "enabled" \in task'[q].sets
               PROVE  \/ task'[q].row.account \in unverified'
                      \/ Named(task[q].row.account)' \subseteq {task'[q].id}
    BY DEF TasksVerified
  <2>1. q # th /\ task'[q] = task[q] /\ ~Idle(q)
    BY <1>8 DEF Idle
  <2> DEFINE a == task[q].row.account
  <2>2. \A j \in Present' : user'[j].account = a /\ (j # i \/ a # c.row.account)
            => j \in Present /\ user[j].account = a
    BY <1>7
  <2>3. a \in unverified \/ \A j \in Present : user[j].account = a => j = task[q].id
    BY <1>1, <2>1 DEF TasksVerified, Named
  <2>4. CASE a \in unverified
    BY <1>6, <2>1, <2>4
  <2>5. CASE a # c.row.account /\ a \notin unverified
    BY <2>1, <2>2, <2>3, <2>5 DEF Named
  <2>6. CASE a = c.row.account /\ (task[q].id = None \/ task[q].id # i)
    BY <1>6, <2>1, <2>6
  <2>7. CASE a \notin unverified /\ task[q].id = i
    BY <2>1, <2>2, <2>3, <2>7 DEF Named
  <2> QED
    BY <2>4, <2>5, <2>6, <2>7
<1>16. DecisionsStand'
  <2> SUFFICES ASSUME NEW j \in Present', j \notin overwritten'
               PROVE  /\ user'[j].password = decided'[j].password
                      /\ user'[j].enabled = decided'[j].enabled
    BY DEF DecisionsStand
  <2>1. j \in Present /\ j \in Id /\ j \notin overwritten
    BY <1>7, <1>9
  <2>2. user[j].password = decided[j].password /\ user[j].enabled = decided[j].enabled
    BY <1>1, <2>1 DEF DecisionsStand
  <2>3. CASE j = i
    BY <1>5, <1>7, <1>9, <1>10, <2>1, <2>2, <2>3
  <2>4. CASE j # i
    BY <1>5, <1>7, <2>1, <2>2, <2>4
  <2> QED
    BY <2>3, <2>4
<1>17. AccountsUnique'
  <2>1. ASSUME NEW k \in Present', k # i, i \in Present', user'[k].account = user'[i].account
        PROVE  user'[i].account \in unverified' \/ {i, k} \cap overwritten' # {}
    <3>1. k \in Present /\ user'[k] = user[k]
      BY <1>7, <2>1
    <3>2. CASE th \in dirty
      BY <1>9, <3>2
    <3>3. CASE th \notin dirty /\ "enabled" \notin c.sets
      BY <1>1, <1>6, <1>7, <1>9, <1>10, <2>1, <3>1, <3>3 DEF AccountsUnique
    <3>4. CASE th \notin dirty /\ "enabled" \in c.sets
      BY <1>6, <1>7, <1>10, <1>11, <2>1, <3>1, <3>4 DEF Named
    <3> QED
      BY <3>2, <3>3, <3>4
  <2> SUFFICES ASSUME NEW j \in Present', NEW k \in Present', j # k,
                      user'[j].account = user'[k].account
               PROVE  user'[j].account \in unverified' \/ {j, k} \cap overwritten' # {}
    BY DEF AccountsUnique
  <2>2. CASE j = i
    BY <2>1, <2>2
  <2>3. CASE k = i
    BY <2>1, <2>3
  <2>4. CASE j # i /\ k # i
    BY <1>1, <1>6, <1>7, <1>9, <2>4 DEF AccountsUnique
  <2> QED
    BY <2>2, <2>3, <2>4
<1> QED
  BY <1>12, <1>13, <1>14, <1>15, <1>16, <1>17 DEF AccountsInv

-----------------------------------------------------------------------------
(* The users: the invariant holds.                                         *)

LEMMA AccountsInitInv ==
    ASSUME AccountsInit
    PROVE  AccountsInv
<1>1. PICK account \in [1..created -> Account] :
          /\ \A i, j \in 1..created : account[i] = account[j] => i = j
          /\ user = [i \in Id |->
                       IF i > created THEN None
                       ELSE [account |-> account[i], password |-> "own", enabled |-> TRUE]]
  BY DEF AccountsInit
<1>2. created \in 1..2 /\ created \in 0..MaxUsers /\ Id \subseteq Int
  BY UserBounds DEF AccountsInit, Id
<1>3. \A i \in Id : user[i] \in User \cup {None} /\ (user[i] # None => i <= created)
  <2> TAKE i \in Id
  <2>1. CASE i > created
    BY <1>1, <2>1
  <2>2. CASE ~(i > created)
    <3>1. i \in 1..created
      BY <1>2, <2>2 DEF Id
    <3>2. account[i] \in Account
      BY <1>1, <3>1
    <3>3. user[i] = [account |-> account[i], password |-> "own", enabled |-> TRUE]
      BY <1>1, <2>2
    <3>4. [account |-> account[i], password |-> "own", enabled |-> TRUE] \in User
      BY <3>2 DEF User, Password
    <3>5. i <= created
      BY <3>1
    <3> QED
      BY <3>3, <3>4, <3>5
  <2> QED
    BY <2>1, <2>2
<1>4. AccountsTypeOK
  <2>1. user \in [Id -> User \cup {None}]
    BY <1>1, <1>3
  <2>2. events \in 0..MaxEvents
    BY UserBounds DEF AccountsInit
  <2> QED
    BY <1>2, <1>3, <2>1, <2>2 DEF AccountsInit, AccountsTypeOK, Password
<1>5. \A i \in Present : /\ i \in 1..created
                         /\ user[i] = [account |-> account[i], password |-> "own", enabled |-> TRUE]
  <2> TAKE i \in Present
  <2>1. i \in Id /\ user[i] # None /\ i <= created
    BY <1>3 DEF Present
  <2>2. i \in 1..created /\ ~(i > created)
    BY <1>2, <2>1 DEF Id
  <2> QED
    BY <1>1, <2>1, <2>2
<1>6. TasksKnown /\ TasksFresh /\ TasksVerified
  BY DEF AccountsInit, TasksKnown, TasksFresh, TasksVerified, AtStep, Idle
<1>7. DecisionsStand
  <2> SUFFICES ASSUME NEW i \in Present
               PROVE  /\ user[i].password = decided[i].password
                      /\ user[i].enabled = decided[i].enabled
    BY DEF DecisionsStand
  <2>1. /\ user[i] = [account |-> account[i], password |-> "own", enabled |-> TRUE]
        /\ decided[i] = [password |-> "own", enabled |-> TRUE]
    BY <1>5 DEF AccountsInit, Present
  <2>2. \A a : LET r == [account |-> a, password |-> "own", enabled |-> TRUE]
                   d == [password |-> "own", enabled |-> TRUE]
               IN  r.password = d.password /\ r.enabled = d.enabled
    OBVIOUS
  <2> QED
    BY <2>1, <2>2
<1>8. AccountsUnique
  <2>1. \A a : [account |-> a, password |-> "own", enabled |-> TRUE].account = a
    OBVIOUS
  <2>2. \A i \in Present : i \in 1..created /\ user[i].account = account[i]
    BY <1>5, <2>1
  <2> QED
    BY <1>1, <2>2 DEF AccountsUnique
<1> QED
  BY <1>4, <1>6, <1>7, <1>8 DEF AccountsInv

LEMMA Counted ==
    ASSUME AccountsTypeOK, events' = events \/ Event
    PROVE  events' \in 0..MaxEvents
<1>1. events \in 0..MaxEvents /\ MaxEvents \in Nat
  BY UserBounds DEF AccountsTypeOK
<1> QED
  BY <1>1 DEF Event

LEMMA Unchanged ==
    ASSUME AccountsInv, UNCHANGED accounts, events' = events \/ Event
    PROVE  AccountsInv'
<1>1. events' \in 0..MaxEvents
  BY Counted DEF AccountsInv
<1>2. Present' = Present /\ \A a : Named(a)' = Named(a)
  BY DEF accounts, Present, Named
<1>3. AccountsTypeOK'
  BY <1>1 DEF AccountsInv, AccountsTypeOK, accounts
<1>4. TasksKnown' /\ TasksFresh' /\ TasksVerified'
  BY <1>2 DEF AccountsInv, TasksKnown, TasksFresh, TasksVerified, AtStep, Idle, accounts
<1>5. DecisionsStand' /\ AccountsUnique'
  BY <1>2 DEF AccountsInv, DecisionsStand, AccountsUnique, accounts
<1> QED
  BY <1>3, <1>4, <1>5 DEF AccountsInv

\* What a step of the table leaves alone.
LEMMA TableSteps ==
    ASSUME TableNext
    PROVE  \/ AccountsNext /\ UNCHANGED <<table, dialog, posts>>
           \/ UNCHANGED accounts /\ (events' = events \/ Event)
           \/ \E p \in posts : Handle(p)
<1>1. ASSUME NEW p, NEW size, NEW old, AjaxData(p, size, old)
      PROVE  events' = events \/ Event
  BY <1>1 DEF AjaxData
<1>2. ASSUME NEW p, NEW size, TurnTo(p, size)
      PROVE  UNCHANGED accounts /\ (events' = events \/ Event)
  BY <1>1, <1>2 DEF TurnTo, Load
<1>3. CASE Generate \/ Search \/ FirstPage \/ PreviousPage \/ NextPage \/ LastPage
  BY <1>1, <1>2, <1>3
     DEF Generate, Load, Search, FirstPage, PreviousPage, NextPage, LastPage
<1>4. CASE \/ \E n \in 1..MaxPage : NumberButton(n)
           \/ \E size \in PageSizes : ChangeSize(size)
  BY <1>2, <1>4 DEF NumberButton, ChangeSize
<1>5. CASE CheckAll \/ \E k \in DOMAIN list : Check(k)
  BY <1>5 DEF CheckAll, Check
<1>6. CASE \/ \E op \in Op : Tool(op)
           \/ \E op \in Op, k \in DOMAIN list : Operate(op, k)
           \/ Confirm \/ Cancel
  BY <1>6 DEF Tool, Operate, Confirm, Cancel, Ajax, Post
<1>7. CASE \E p \in posts : Fail(p) \/ After(p)
  BY <1>1, <1>7 DEF Fail, After, Load
<1> QED
  BY <1>3, <1>4, <1>5, <1>6, <1>7 DEF TableNext

LEMMA AccountsStep ==
    ASSUME AccountsInv, [TableNext]_tableVars
    PROVE  AccountsInv'
<1>1. CASE UNCHANGED tableVars
  BY <1>1, Unchanged DEF tableVars
<1>2. CASE AccountsNext
  BY <1>2, LoginReadsInv, PasswordReadsInv, CheckAccountInv, SaveReadsInv, InsertInv, UpdateInv
     DEF AccountsNext
<1>3. CASE UNCHANGED accounts /\ (events' = events \/ Event)
  BY <1>3, Unchanged
<1>4. ASSUME NEW p \in posts, Handle(p)
      PROVE  AccountsInv'
  <2>1. /\ events' = events
        /\ CASE p.ids = {}              -> UNCHANGED accounts
             [] p.op = "delete"         -> DeleteById(p.ids)
             [] p.op = "resetPassword"  -> ResetPassword(p.ids)
             [] OTHER                   -> Enable(p.ids, p.op = "enable")
    BY <1>4 DEF Handle
  <2>2. events' \in 0..MaxEvents
    BY <2>1, Counted DEF AccountsInv
  <2>3. (p.op = "enable") \in BOOLEAN
    OBVIOUS
  <2>4. CASE UNCHANGED accounts
    BY <2>1, <2>4, Unchanged
  <2>5. CASE DeleteById(p.ids)
    BY <2>2, <2>5, DeleteByIdInv
  <2>6. CASE ResetPassword(p.ids)
    BY <2>2, <2>6, ResetPasswordInv
  <2>7. CASE Enable(p.ids, p.op = "enable")
    BY <2>2, <2>3, <2>7, EnableInv
  <2>8. \/ UNCHANGED accounts \/ DeleteById(p.ids) \/ ResetPassword(p.ids)
        \/ Enable(p.ids, p.op = "enable")
    BY <2>1
  <2> QED
    BY <2>4, <2>5, <2>6, <2>7, <2>8
<1> QED
  BY <1>1, <1>2, <1>3, <1>4, TableSteps

LEMMA AccountsKept == TableSpec => []AccountsInv
<1>1. TableInit => AccountsInv
  BY AccountsInitInv DEF TableInit
<1>2. AccountsInv /\ [TableNext]_tableVars => AccountsInv'
  BY AccountsStep
<1> QED
  BY <1>1, <1>2, PTL DEF TableSpec

\* A user's password and state are those last asked for, unless a thread that had read the
\* row before another one changed it has written it back (dao.update writes every column).
THEOREM DecisionsKept == TableSpec => []DecisionsStand
<1>1. AccountsInv => DecisionsStand
  BY DEF AccountsInv
<1> QED
  BY <1>1, AccountsKept, PTL

\* Two users of one account are due to a check that did not take place or had become stale,
\* or to a row written back (UserController.validateAccount).
THEOREM AccountsKeptUnique == TableSpec => []AccountsUnique
<1>1. AccountsInv => AccountsUnique
  BY DEF AccountsInv
<1> QED
  BY <1>1, AccountsKept, PTL

-----------------------------------------------------------------------------
(* The server's answer to list.                                            *)

LEMMA Presents ==
    /\ \A i \in Present : i \in Int /\ i \in Id
    /\ \A S \in SUBSET Present : /\ IsFiniteSet(S) /\ Cardinality(S) \in 0..MaxUsers
                                 /\ Cardinality(S) <= Cardinality(Present)
    /\ IsFiniteSet(Present) /\ Cardinality(Present) \in 0..MaxUsers
<1>1. Present \subseteq Id /\ Id \subseteq Int
  BY DEF Present, Id
<1>2. IsFiniteSet(Id) /\ Cardinality(Id) = MaxUsers /\ MaxUsers \in Nat
  <2>1. MaxUsers \in Nat /\ 1 \in Int /\ MaxUsers \in Int /\ 1 <= MaxUsers
    BY UserBounds
  <2> QED
    BY <2>1, FS_Interval DEF Id
<1>3. ASSUME NEW S \in SUBSET Id PROVE IsFiniteSet(S) /\ Cardinality(S) \in 0..MaxUsers
  <2>1. IsFiniteSet(S) /\ Cardinality(S) <= MaxUsers
    BY <1>2, FS_Subset
  <2>2. Cardinality(S) \in Nat
    BY <2>1, FS_CardinalityType
  <2> QED
    BY <1>2, <2>1, <2>2
<1>4. IsFiniteSet(Present) /\ Cardinality(Present) \in 0..MaxUsers
  BY <1>1, <1>3
<1>5. \A S \in SUBSET Present : Cardinality(S) <= Cardinality(Present)
  BY <1>4, FS_Subset
<1> QED
  BY <1>1, <1>3, <1>4, <1>5

\* The places of the users are their numbers in the order of the list.
LEMMA PlacesInOrder ==
    ASSUME NEW i \in Present
    PROVE  /\ Place(i) \in 1..Cardinality(Present)
           /\ \A j \in Present : j < i => Place(i) < Place(j)
<1> DEFINE S(k) == {j \in Present : j >= k}
<1>1. i \in Int /\ i \in S(i) /\ Place(i) = Cardinality(S(i))
  BY Presents DEF Place
<1>2. ASSUME NEW k
      PROVE  IsFiniteSet(S(k)) /\ Cardinality(S(k)) \in Nat
             /\ Cardinality(S(k)) <= Cardinality(Present)
  BY Presents
<1>3. Cardinality(S(i)) # 0
  BY <1>1, <1>2, FS_EmptySet
<1>4. ASSUME NEW j \in Present, j < i
      PROVE  Place(i) < Place(j)
  <2>1. S(i) \subseteq S(j) /\ j \in S(j) /\ j \notin S(i)
    <3>1. i \in Int /\ j \in Int /\ \A l \in Present : l \in Int
      BY Presents
    <3>2. j >= j /\ ~(j >= i) /\ \A l \in Present : l >= i => l >= j
      BY <1>4, <3>1
    <3> QED
      BY <3>2
  <2>2. Cardinality(S(i)) <= Cardinality(S(j)) /\ Cardinality(S(i)) # Cardinality(S(j))
    BY <1>2, <2>1, FS_Subset
  <2> QED
    BY <1>1, <1>2, <2>2 DEF Place
<1>5. Cardinality(Present) \in Nat
  BY Presents
<1> QED
  BY <1>1, <1>2, <1>3, <1>4, <1>5

LEMMA PlaceOnto ==
    ASSUME NEW n \in 1..Cardinality(Present)
    PROVE  \E i \in Present : Place(i) = n
<1> DEFINE T == 1..Cardinality(Present)
           f == [i \in Present |-> Place(i)]
<1>1. IsFiniteSet(T) /\ Cardinality(T) = Cardinality(Present)
  <2>1. Cardinality(Present) \in Nat
    BY Presents
  <2> QED
    BY <2>1, FS_Interval
<1>2. f \in [Present -> T]
  BY PlacesInOrder
<1>3. ASSUME NEW a \in Present, NEW b \in Present, f[a] = f[b] PROVE a = b
  <2>1. a \in Int /\ b \in Int
    BY Presents
  <2>2. Place(a) = Place(b) /\ Place(a) \in Int
    BY <1>3, PlacesInOrder
  <2>3. (a < b => Place(b) < Place(a)) /\ (b < a => Place(a) < Place(b))
    BY PlacesInOrder
  <2> QED
    BY <2>1, <2>2, <2>3
<1>4. f \in Injection(Present, T)
  BY <1>2, <1>3 DEF Injection, IsInjective
<1>5. f \in Surjection(Present, T)
  BY <1>1, <1>4, FS_Injection
<1>6. \E i \in Present : f[i] = n
  BY <1>5 DEF Surjection
<1> QED
  BY <1>6

\* A page is a part of the list: each of its rows is a user who is there.
LEMMA PageOfList ==
    ASSUME NEW no \in Nat, NEW size \in Nat \ {0}
    PROVE  Page(no, size) \in Seq(Id) /\ Len(Page(no, size)) <= MaxUsers
<1> DEFINE first == (no - 1) * size
           ids == {i \in Present : Place(i) \in (first + 1)..(first + size)}
           m == Cardinality(ids)
           N == Cardinality(Present)
<1>1. m \in Nat /\ m <= MaxUsers /\ m <= N /\ N \in Nat /\ IsFiniteSet(ids)
  <2>1. ids \in SUBSET Present
    OBVIOUS
  <2> QED
    BY <2>1, Presents
<1>2. first \in Int /\ (no >= 1 => first >= 0) /\ (no = 0 => first + size = 0)
  <2>1. CASE no = 0
    BY <2>1
  <2>2. CASE no # 0
    <3>1. no - 1 \in Nat
      BY <2>2
    <3>2. \A a, b \in Nat : a * b \in Nat
      OBVIOUS
    <3>3. first \in Nat
      BY <3>1, <3>2
    <3> QED
      BY <2>2, <3>3
  <2> QED
    BY <2>1, <2>2
<1>3. \A i \in Present : Place(i) \in 1..N
  BY PlacesInOrder
<1>4. ASSUME NEW k \in 1..m
      PROVE  \E i \in ids : Place(i) = first + k
  <2>1. no # 0
    <3>1. ids # {}
      <4>1. m # 0
        BY <1>1, <1>4
      <4> QED
        BY <4>1, FS_EmptySet
    <3>2. PICK i \in Present : Place(i) \in (first + 1)..(first + size)
      BY <3>1
    <3>3. Place(i) \in Nat /\ Place(i) >= 1
      BY <1>1, <1>3
    <3> HIDE DEF first
    <3> QED
      BY <1>2, <3>2, <3>3
  <2> DEFINE last == IF first + size <= N THEN first + size ELSE N
             T == (first + 1)..last
             f == [i \in ids |-> Place(i)]
  <2>2. first \in Nat
    <3>1. no >= 1
      BY <2>1
    <3> QED
      BY <1>2, <3>1
  <2> HIDE DEF first
  <2>3. last \in Nat
    BY <1>1, <2>2
  <2>4. ASSUME NEW p \in 1..N, p \in (first + 1)..(first + size)
        PROVE  p \in T
    BY <1>1, <2>2, <2>4
  <2>5. f \in [ids -> T]
    BY <1>3, <2>4
  <2>6. \A a, b \in ids : f[a] = f[b] => a = b
    <3> SUFFICES ASSUME NEW a \in ids, NEW b \in ids, f[a] = f[b] PROVE a = b
      OBVIOUS
    <3>1. a \in Int /\ b \in Int
      BY Presents
    <3>2. Place(a) = Place(b) /\ Place(a) \in Int
      BY <1>3
    <3>3. (a < b => Place(b) < Place(a)) /\ (b < a => Place(a) < Place(b))
      BY PlacesInOrder
    <3> QED
      BY <3>1, <3>2, <3>3
  <2>7. f \in Injection(ids, T)
    BY <2>5, <2>6 DEF Injection, IsInjective
  <2>8. /\ IsFiniteSet(T)
        /\ Cardinality(T) = IF first + 1 > last THEN 0 ELSE last - (first + 1) + 1
    <3>1. first + 1 \in Int /\ last \in Int
      BY <2>2, <2>3
    <3> HIDE DEF last
    <3> QED
      BY <3>1, FS_Interval
  <2>9. m <= Cardinality(T)
    BY <2>7, <2>8, FS_Injection
  <2>10. first + k <= last
    <3> HIDE DEF last, T, m
    <3> QED
      BY <1>1, <2>2, <2>3, <2>8, <2>9
  <2>11. first + k \in 1..N /\ first + k \in (first + 1)..(first + size)
    BY <1>1, <2>2, <2>10
  <2>12. PICK i \in Present : Place(i) = first + k
    BY <2>11, PlaceOnto
  <2> QED
    BY <2>11, <2>12
<1>5. Page(no, size) = [k \in 1..m |-> CHOOSE i \in ids : Place(i) = first + k]
  BY DEF Page
<1>6. \A k \in 1..m : (CHOOSE i \in ids : Place(i) = first + k) \in Id
  BY <1>4, Presents
<1> HIDE DEF m, ids, first
<1>7. Page(no, size) \in Seq(Id) /\ Len(Page(no, size)) = m
  BY <1>1, <1>5, <1>6
<1> QED
  BY <1>1, <1>7

LEMMA Quotient ==
    ASSUME NEW n \in Nat, NEW s \in Nat \ {0}
    PROVE  /\ n \div s \in Nat
           /\ (n \div s) * s <= n /\ n < (n \div s) * s + s
OBVIOUS

LEMMA ProductGrows ==
    ASSUME NEW a \in Nat, NEW b \in Nat, NEW s \in Nat, a <= b
    PROVE  a * s <= b * s
OBVIOUS

\* A list has no more pages than rows, and a longer one no fewer.
LEMMA PagesGrow ==
    ASSUME NEW c \in Nat, NEW d \in Nat, NEW s \in Nat \ {0}, c <= d
    PROVE  Pages(c, s) \in Nat /\ Pages(c, s) <= c /\ Pages(c, s) <= Pages(d, s)
<1> DEFINE p == Pages(c, s)
           q == Pages(d, s)
<1>1. c + s - 1 \in Nat /\ d + s - 1 \in Nat
  OBVIOUS
<1>2. /\ p \in Nat /\ p * s <= c + s - 1
      /\ q \in Nat /\ d + s - 1 < q * s + s
  BY <1>1, Quotient DEF Pages
<1> HIDE DEF p, q
<1>3. p <= c
  <2>1. SUFFICES ASSUME c + 1 <= p PROVE FALSE
    BY <1>2
  <2>2. (c + 1) * s <= p * s
    BY <1>2, <2>1, ProductGrows
  <2>3. (c + 1) * s = c * s + s /\ c * 1 <= c * s
    OBVIOUS
  <2>4. c * s \in Nat /\ p * s \in Nat
    BY <1>2
  <2> QED
    BY <1>2, <2>2, <2>3, <2>4
<1>4. p <= q
  <2>1. SUFFICES ASSUME q + 1 <= p PROVE FALSE
    BY <1>2
  <2>2. (q + 1) * s <= p * s
    BY <1>2, <2>1, ProductGrows
  <2>3. (q + 1) * s = q * s + s
    BY <1>2
  <2>4. q * s \in Nat /\ p * s \in Nat
    BY <1>2
  <2> QED
    BY <1>2, <2>2, <2>3, <2>4
<1> QED
  BY <1>2, <1>3, <1>4 DEF p, q

-----------------------------------------------------------------------------
(* The table: types.                                                       *)

SettingsTypeOK ==
    /\ page \in [no : Nat, text : BOOLEAN]
    /\ pageSize \in PageSizes
    /\ list \in Seq(Id) /\ Len(list) <= MaxUsers
    /\ rowCount \in 0..MaxUsers /\ pageCount \in 0..MaxUsers
    /\ shown \in BOOLEAN
    /\ checked \subseteq DOMAIN list /\ (checked # {} => shown)

PostsTypeOK ==
    /\ dialog \in [op : Confirmed, asked : SUBSET Id] \cup {None}
    /\ posts \in SUBSET Request

LEMMA Typed == TableTypeOK <=> AccountsTypeOK /\ SettingsTypeOK /\ PostsTypeOK
BY DEF TableTypeOK, SettingsTypeOK, PostsTypeOK

LEMMA Sizes ==
    ASSUME NEW size \in PageSizes
    PROVE  size \in Nat \ {0}
BY PageAssumption

LEMMA Loaded ==
    ASSUME NEW p \in [no : Nat, text : BOOLEAN], NEW size \in PageSizes, NEW old,
           old.list \in Seq(Id), Len(old.list) <= MaxUsers,
           old.rowCount \in 0..MaxUsers, old.pageCount \in 0..MaxUsers,
           Load(p, size, old)
    PROVE  SettingsTypeOK'
<1>1. checked' = {} /\ AjaxData(p, size, old)
  BY DEF Load
<1> DEFINE n == Cardinality(Present)
<1>2. CASE /\ page' = [no |-> p.no, text |-> FALSE]
           /\ pageSize' = size
           /\ list' = Page(p.no, size)
           /\ rowCount' = n
           /\ pageCount' = Pages(n, size)
           /\ shown' = TRUE
  <2>1. p.no \in Nat /\ size \in Nat \ {0}
    BY Sizes
  <2>2. n \in 0..MaxUsers /\ n \in Nat /\ MaxUsers \in Nat
    BY Presents, UserBounds
  <2>3. Page(p.no, size) \in Seq(Id) /\ Len(Page(p.no, size)) <= MaxUsers
    BY <2>1, PageOfList
  <2>4. Pages(n, size) \in Nat /\ Pages(n, size) <= n
    <3>1. n <= n
      BY <2>2
    <3> HIDE DEF n
    <3> QED
      BY <2>1, <2>2, <3>1, PagesGrow
  <2>5. Pages(n, size) \in 0..MaxUsers
    BY <2>2, <2>4
  <2> QED
    BY <1>1, <1>2, <2>1, <2>2, <2>3, <2>5 DEF SettingsTypeOK
<1>3. CASE /\ page' = p /\ pageSize' = size /\ list' = old.list
           /\ rowCount' = old.rowCount /\ pageCount' = old.pageCount /\ shown' \in BOOLEAN
  BY <1>1, <1>3 DEF SettingsTypeOK
<1> QED
  BY <1>1, <1>2, <1>3 DEF AjaxData

\* Turning to a page.
LEMMA Turned ==
    ASSUME TableTypeOK, NEW p \in [no : Nat, text : BOOLEAN], NEW size \in PageSizes,
           TurnTo(p, size)
    PROVE  SettingsTypeOK' /\ UNCHANGED <<dialog, posts>>
<1>1. /\ Settings.list \in Seq(Id) /\ Len(Settings.list) <= MaxUsers
      /\ Settings.rowCount \in 0..MaxUsers /\ Settings.pageCount \in 0..MaxUsers
  BY DEF TableTypeOK, Settings
<1> QED
  BY <1>1, Loaded DEF TurnTo

LEMMA Posted ==
    ASSUME TableTypeOK, NEW op \in Op, NEW ks, ks \subseteq DOMAIN list, Ajax(op, ks)
    PROVE  PostsTypeOK'
<1>1. Selected(ks) \subseteq Id
  BY DEF TableTypeOK, Selected
<1>2. CASE op \in Confirmed
  BY <1>1, <1>2 DEF Ajax, PostsTypeOK, TableTypeOK
<1>3. CASE op \notin Confirmed
  <2> DEFINE p == [op |-> op, ids |-> Selected(ks), asked |-> Selected(ks), done |-> FALSE]
  <2>1. p \in Request
    BY <1>1 DEF Request
  <2>2. posts' = posts \cup {p} /\ dialog' = dialog
    BY <1>3 DEF Ajax, Post
  <2> HIDE DEF p
  <2> QED
    BY <2>1, <2>2 DEF PostsTypeOK, TableTypeOK
<1> QED
  BY <1>2, <1>3

LEMMA TableTypeStep ==
    ASSUME TableTypeOK, [TableNext]_tableVars
    PROVE  SettingsTypeOK' /\ PostsTypeOK'
<1>0. SettingsTypeOK /\ PostsTypeOK
  BY Typed
<1>1. CASE UNCHANGED <<table, dialog, posts>>
  BY <1>0, <1>1 DEF SettingsTypeOK, PostsTypeOK, table, settings
<1>2. \A n \in Nat, b \in BOOLEAN : [no |-> n, text |-> b] \in [no : Nat, text : BOOLEAN]
  OBVIOUS
<1>3. /\ page.no \in Nat /\ page.text \in BOOLEAN /\ pageCount \in Nat /\ pageSize \in PageSizes
      /\ page \in [no : Nat, text : BOOLEAN]
  BY <1>0 DEF SettingsTypeOK
<1>4. UNCHANGED <<dialog, posts>> => PostsTypeOK'
  BY <1>0 DEF PostsTypeOK
<1>5. CASE Generate
  <2> DEFINE old == [list |-> <<>>, rowCount |-> 0, pageCount |-> 0]
  <2>1. /\ old.list \in Seq(Id) /\ Len(old.list) <= MaxUsers
        /\ old.rowCount \in 0..MaxUsers /\ old.pageCount \in 0..MaxUsers
    BY UserBounds
  <2>2. Number(1) \in [no : Nat, text : BOOLEAN] /\ DefaultSize \in PageSizes
    BY PageAssumption DEF Number
  <2>3. Load(Number(1), DefaultSize, old) /\ UNCHANGED <<dialog, posts>>
    BY <1>5 DEF Generate
  <2> HIDE DEF old
  <2> QED
    BY <1>4, <2>1, <2>2, <2>3, Loaded
<1>6. ASSUME NEW p, NEW size \in PageSizes, TurnTo(p, size),
             p \in [no : Nat, text : BOOLEAN]
      PROVE  SettingsTypeOK' /\ PostsTypeOK'
  BY <1>4, <1>6, Turned
<1>7. CASE Search \/ FirstPage
  BY <1>2, <1>3, <1>6, <1>7 DEF Search, FirstPage, Number
<1>8. CASE PreviousPage
  <2>1. page.no - 1 \in Nat
    BY <1>3, <1>8 DEF PreviousPage
  <2> QED
    BY <1>2, <1>3, <1>6, <1>8, <2>1 DEF PreviousPage, Number
<1>9. CASE NextPage
  <2> DEFINE p == [page EXCEPT !.no = NextNumber]
  <2>1. p \in [no : Nat, text : BOOLEAN]
    <3>1. \A n \in Nat : [page EXCEPT !.no = n] \in [no : Nat, text : BOOLEAN]
      BY <1>3
    <3>2. NextNumber \in Nat
      BY <1>3 DEF NextNumber
    <3> QED
      BY <3>1, <3>2
  <2>2. TurnTo(p, pageSize)
    BY <1>9 DEF NextPage
  <2> QED
    BY <1>3, <1>6, <2>1, <2>2
<1>10. CASE LastPage
  BY <1>2, <1>3, <1>6, <1>10 DEF LastPage, Number
<1>11. ASSUME NEW n \in 1..MaxPage, NumberButton(n)
       PROVE  SettingsTypeOK' /\ PostsTypeOK'
  <2>1. n \in Nat
    BY TableBounds
  <2> QED
    BY <1>2, <1>3, <1>6, <1>11, <2>1 DEF NumberButton
<1>12. ASSUME NEW size \in PageSizes, ChangeSize(size)
       PROVE  SettingsTypeOK' /\ PostsTypeOK'
  BY <1>2, <1>6, <1>12 DEF ChangeSize, Number
<1>13. CASE CheckAll \/ \E k \in DOMAIN list : Check(k)
  BY <1>0, <1>4, <1>13 DEF CheckAll, Check, SettingsTypeOK, settings
<1>14. ASSUME NEW op \in Op, Tool(op)
       PROVE  SettingsTypeOK' /\ PostsTypeOK'
  <2>1. SettingsTypeOK' /\ checked \subseteq DOMAIN list
    BY <1>0, <1>14 DEF Tool, SettingsTypeOK, table, settings
  <2> QED
    BY <1>14, <2>1, Posted DEF Tool
<1>15. ASSUME NEW op \in Op, NEW k \in DOMAIN list, Operate(op, k)
       PROVE  SettingsTypeOK' /\ PostsTypeOK'
  <2>1. SettingsTypeOK'
    BY <1>0, <1>15 DEF Operate, SettingsTypeOK, settings
  <2>2. Ajax(op, {k}) /\ {k} \subseteq DOMAIN list
    BY <1>15 DEF Operate
  <2> QED
    BY <2>1, <2>2, Posted
<1>16. CASE Confirm
  <2>1. SettingsTypeOK' /\ Selected(checked) \subseteq Id
    BY <1>0, <1>16 DEF Confirm, SettingsTypeOK, Selected, table, settings
  <2>2. dialog.op \in Op /\ dialog.asked \in SUBSET Id
    BY <1>0, <1>16 DEF Confirm, Free, PostsTypeOK, Confirmed, Op
  <2> DEFINE p == [op |-> dialog.op, ids |-> Selected(checked), asked |-> dialog.asked,
                   done |-> FALSE]
  <2>3. p \in Request
    BY <2>1, <2>2 DEF Request
  <2>4. posts' = posts \cup {p} /\ dialog' = None
    BY <1>16 DEF Confirm, Post
  <2> HIDE DEF p
  <2> QED
    BY <1>0, <2>1, <2>3, <2>4 DEF PostsTypeOK
<1>17. CASE Cancel
  BY <1>0, <1>17 DEF Cancel, PostsTypeOK, SettingsTypeOK, table, settings
<1>18. ASSUME NEW p \in posts, Handle(p) \/ Fail(p)
       PROVE  SettingsTypeOK' /\ PostsTypeOK'
  <2>1. SettingsTypeOK' /\ dialog' = dialog
        /\ posts' = (posts \ {p}) \cup {[p EXCEPT !.done = TRUE]}
    BY <1>0, <1>18 DEF Handle, Fail, SettingsTypeOK, table, settings
  <2>2. [p EXCEPT !.done = TRUE] \in Request
    BY <1>0 DEF PostsTypeOK, Request
  <2> QED
    BY <1>0, <2>1, <2>2 DEF PostsTypeOK
<1>19. ASSUME NEW p \in posts, After(p)
       PROVE  SettingsTypeOK' /\ PostsTypeOK'
  <2>1. /\ Settings.list \in Seq(Id) /\ Len(Settings.list) <= MaxUsers
        /\ Settings.rowCount \in 0..MaxUsers /\ Settings.pageCount \in 0..MaxUsers
    BY <1>0 DEF SettingsTypeOK, Settings
  <2>2. SettingsTypeOK'
    BY <1>3, <1>19, <2>1, Loaded DEF After
  <2> QED
    BY <1>0, <1>19, <2>2 DEF After, PostsTypeOK
<1> QED
  BY <1>1, <1>5, <1>7, <1>8, <1>9, <1>10, <1>11, <1>12, <1>13, <1>14, <1>15, <1>16, <1>17,
     <1>18, <1>19 DEF TableNext, tableVars

LEMMA TableInitTyped ==
    ASSUME TableInit
    PROVE  TableTypeOK
<1>1. AccountsTypeOK
  BY AccountsInitInv DEF TableInit, AccountsInv
<1>2. SettingsTypeOK
  <2>1. page \in [no : Nat, text : BOOLEAN] /\ pageSize \in PageSizes /\ shown \in BOOLEAN
    BY PageAssumption DEF TableInit, Number
  <2>2. list \in Seq(Id) /\ Len(list) = 0 /\ checked = {} /\ rowCount = 0 /\ pageCount = 0
    BY DEF TableInit
  <2>3. 0 \in 0..MaxUsers /\ 0 <= MaxUsers
    BY UserBounds
  <2> QED
    BY <2>1, <2>2, <2>3 DEF SettingsTypeOK
<1>3. PostsTypeOK
  BY DEF TableInit, PostsTypeOK
<1> QED
  BY <1>1, <1>2, <1>3, Typed

\* Types, with the page a list of users who are there.
THEOREM TableTypeCorrect == TableSpec => []TableTypeOK
<1>1. TableInit => TableTypeOK
  BY TableInitTyped
<1>2. TableTypeOK /\ AccountsInv' /\ [TableNext]_tableVars => TableTypeOK'
  <2> SUFFICES ASSUME TableTypeOK, AccountsInv', [TableNext]_tableVars PROVE TableTypeOK'
    OBVIOUS
  <2>1. SettingsTypeOK' /\ PostsTypeOK'
    BY TableTypeStep
  <2> QED
    BY <2>1 DEF AccountsInv, TableTypeOK, SettingsTypeOK, PostsTypeOK
<1> QED
  BY <1>1, <1>2, AccountsKept, PTL DEF TableSpec

-----------------------------------------------------------------------------
(* The table: what is posted.                                              *)

LEMMA AskedStep ==
    ASSUME TableTypeOK, DialogInv, PostsWhatWasAsked, [TableNext]_tableVars
    PROVE  DialogInv' /\ PostsWhatWasAsked'
<1>1. CASE UNCHANGED <<table, dialog, posts>>
  <2>1. Selected(checked)' = Selected(checked)
    BY <1>1 DEF Selected, table, settings
  <2> QED
    BY <1>1, <2>1 DEF DialogInv, Free, PostsWhatWasAsked
<1>2. CASE Free /\ UNCHANGED <<dialog, posts>>
  BY <1>2 DEF DialogInv, Free, PostsWhatWasAsked
<1>3. CASE \/ Generate \/ Search \/ FirstPage \/ PreviousPage \/ NextPage \/ LastPage
           \/ \E n \in 1..MaxPage : NumberButton(n)
           \/ \E size \in PageSizes : ChangeSize(size)
           \/ CheckAll \/ \E k \in DOMAIN list : Check(k)
  BY <1>2, <1>3 DEF Generate, TurnTo, Search, FirstPage, PreviousPage, NextPage, LastPage,
                    NumberButton, ChangeSize, CheckAll, Check
<1>4. ASSUME NEW op, NEW ks, Free, list' = list, checked' = ks, Ajax(op, ks)
      PROVE  DialogInv' /\ PostsWhatWasAsked'
  <2>1. CASE op \in Confirmed
    <3>1. dialog' = [op |-> op, asked |-> Selected(ks)] /\ posts' = posts
      BY <1>4, <2>1 DEF Ajax
    <3>2. dialog'.asked = Selected(ks) /\ Selected(checked)' = Selected(ks)
      BY <1>4, <3>1 DEF Selected
    <3> QED
      BY <3>1, <3>2 DEF DialogInv, PostsWhatWasAsked
  <2>2. CASE op \notin Confirmed
    <3> DEFINE p == [op |-> op, ids |-> Selected(ks), asked |-> Selected(ks), done |-> FALSE]
    <3>1. posts' = posts \cup {p} /\ dialog' = dialog
      BY <1>4, <2>2 DEF Ajax, Post
    <3>2. p.ids = p.asked
      OBVIOUS
    <3> HIDE DEF p
    <3> QED
      BY <1>4, <3>1, <3>2 DEF DialogInv, Free, PostsWhatWasAsked
  <2> QED
    BY <2>1, <2>2
<1>5. ASSUME NEW op \in Op, Tool(op)
      PROVE  DialogInv' /\ PostsWhatWasAsked'
  BY <1>4, <1>5 DEF Tool, table, settings
<1>6. ASSUME NEW op \in Op, NEW k \in DOMAIN list, Operate(op, k)
      PROVE  DialogInv' /\ PostsWhatWasAsked'
  BY <1>4, <1>6 DEF Operate, settings
<1>7. CASE Confirm
  <2> DEFINE p == [op |-> dialog.op, ids |-> Selected(checked), asked |-> dialog.asked,
                   done |-> FALSE]
  <2>1. posts' = posts \cup {p} /\ dialog' = None /\ ~Free
    BY <1>7 DEF Confirm, Post
  <2>2. p.ids = Selected(checked) /\ p.asked = dialog.asked
    OBVIOUS
  <2> HIDE DEF p
  <2>3. p.ids \in {p.asked, {}}
    BY <2>1, <2>2 DEF DialogInv
  <2> QED
    BY <2>1, <2>3 DEF DialogInv, Free, PostsWhatWasAsked
<1>8. CASE Cancel
  BY <1>8 DEF Cancel, DialogInv, Free, PostsWhatWasAsked
<1>9. ASSUME NEW p \in posts, Handle(p) \/ Fail(p)
      PROVE  DialogInv' /\ PostsWhatWasAsked'
  <2> DEFINE q == [p EXCEPT !.done = TRUE]
  <2>1. posts' = (posts \ {p}) \cup {q} /\ UNCHANGED <<table, dialog>>
    BY <1>9 DEF Handle, Fail
  <2>2. q.ids = p.ids /\ q.asked = p.asked
    BY DEF TableTypeOK, Request
  <2> HIDE DEF q
  <2>3. PostsWhatWasAsked'
    BY <2>1, <2>2 DEF PostsWhatWasAsked
  <2>4. Selected(checked)' = Selected(checked)
    BY <2>1 DEF Selected, table, settings
  <2> QED
    BY <2>1, <2>3, <2>4 DEF DialogInv, Free
<1>10. ASSUME NEW p \in posts, After(p)
       PROVE  DialogInv' /\ PostsWhatWasAsked'
  <2>1. checked' = {} /\ posts' = posts \ {p}
    BY <1>10 DEF After, Load
  <2>2. Selected(checked)' = {}
    BY <2>1 DEF Selected
  <2> QED
    BY <2>1, <2>2 DEF DialogInv, PostsWhatWasAsked
<1> QED
  BY <1>1, <1>3, <1>5, <1>6, <1>7, <1>8, <1>9, <1>10 DEF TableNext, tableVars

\* What is posted is for the users it was asked for, or for nobody: an answer that reloads
\* the table behind the dialog unchecks every box.
THEOREM PostsAsAsked == TableSpec => []PostsWhatWasAsked
<1>1. TableInit => DialogInv /\ PostsWhatWasAsked
  BY DEF TableInit, DialogInv, Free, PostsWhatWasAsked
<1>2. TableTypeOK /\ DialogInv /\ PostsWhatWasAsked /\ [TableNext]_tableVars
          => DialogInv' /\ PostsWhatWasAsked'
  BY AskedStep
<1> QED
  BY <1>1, <1>2, TableTypeCorrect, PTL DEF TableSpec

-----------------------------------------------------------------------------
(* The table: its range of pages.                                          *)

\* The users are as many as the table knew of, or more, and it counts their pages right.
Current == /\ rowCount <= Cardinality(Present) /\ ~page.text
           /\ pageCount = Pages(rowCount, pageSize)

LEMMA TurnedInRange ==
    ASSUME TableTypeOK, Current, NEW p, p.no \in Nat, p.no = 1 \/ p.no <= pageCount,
           Load(p, pageSize, Settings)
    PROVE  InRange'
<1> DEFINE n == Cardinality(Present)
<1>1. CASE page' = p /\ pageCount' = Settings.pageCount
  BY <1>1 DEF InRange, Settings
<1>2. CASE page' = [no |-> p.no, text |-> FALSE] /\ pageCount' = Pages(n, pageSize)
  <2>1. n \in Nat /\ rowCount \in Nat /\ rowCount <= n /\ pageSize \in Nat \ {0}
    BY Presents, Sizes DEF Current, TableTypeOK
  <2> HIDE DEF n
  <2>2. Pages(rowCount, pageSize) <= Pages(n, pageSize)
        /\ Pages(rowCount, pageSize) \in Nat /\ Pages(n, pageSize) \in Nat
    <3>1. n <= n
      BY <2>1
    <3> QED
      BY <2>1, <3>1, PagesGrow
  <2>3. pageCount \in Nat /\ pageCount' \in Nat /\ pageCount <= pageCount' /\ page'.no = p.no
    BY <1>2, <2>2 DEF Current
  <2> QED
    BY <2>3 DEF InRange
<1> QED
  BY <1>1, <1>2 DEF Load, AjaxData

LEMMA RangeStep ==
    ASSUME TableTypeOK, Current, InRange, [TableNext]_tableVars
    PROVE  InRange'
<1>1. page.no \in Nat /\ pageCount \in Nat
  BY DEF TableTypeOK
<1>2. CASE page' = page /\ pageCount' = pageCount
  BY <1>2 DEF InRange
<1>3. CASE \/ AccountsNext /\ UNCHANGED <<table, dialog, posts>>
           \/ CheckAll \/ \E k \in DOMAIN list : Check(k)
           \/ \E op \in Op : Tool(op)
           \/ \E op \in Op, k \in DOMAIN list : Operate(op, k)
           \/ Confirm \/ Cancel
           \/ \E p \in posts : Handle(p) \/ Fail(p)
           \/ UNCHANGED tableVars
  BY <1>2, <1>3 DEF CheckAll, Check, Tool, Operate, Confirm, Cancel, Handle, Fail,
                    tableVars, table, settings
<1>4. ASSUME NEW size, NEW old, Load(Number(1), size, old)
      PROVE  InRange'
  BY <1>4 DEF Load, AjaxData, Number, InRange
<1>5. CASE \/ Generate \/ Search \/ FirstPage \/ \E size \in PageSizes : ChangeSize(size)
  BY <1>4, <1>5 DEF Generate, Search, FirstPage, ChangeSize, TurnTo
<1>6. ASSUME NEW p, p.no \in Nat, p.no = 1 \/ p.no <= pageCount, TurnTo(p, pageSize)
      PROVE  InRange'
  BY <1>6, TurnedInRange DEF TurnTo
<1>7. CASE PreviousPage
  <2>1. page.no - 1 \in Nat /\ page.no - 1 <= pageCount
    BY <1>1, <1>7 DEF PreviousPage, InRange
  <2>2. Number(page.no - 1).no = page.no - 1
    BY DEF Number
  <2> QED
    BY <1>6, <1>7, <2>1, <2>2 DEF PreviousPage
<1>8. CASE NextPage
  <2> DEFINE p == [page EXCEPT !.no = NextNumber]
  <2>1. p.no = page.no + 1
    BY DEF Current, TableTypeOK, NextNumber
  <2>2. TurnTo(p, pageSize) /\ page.no < pageCount
    BY <1>8 DEF NextPage
  <2> HIDE DEF p
  <2>3. p.no \in Nat /\ p.no <= pageCount
    BY <1>1, <2>1, <2>2
  <2> QED
    BY <1>6, <2>2, <2>3
<1>9. CASE LastPage
  <2>1. Number(pageCount).no = pageCount
    BY DEF Number
  <2> QED
    BY <1>1, <1>6, <1>9, <2>1 DEF LastPage
<1>10. ASSUME NEW n \in 1..MaxPage, NumberButton(n)
       PROVE  InRange'
  <2>1. n \in Nat /\ (n = 1 \/ n <= pageCount)
    <3>1. n \in Int /\ n >= 1
      BY TableBounds
    <3>2. (n <= page.no - 1) \/ n <= pageCount
      BY <1>10 DEF NumberButton
    <3> QED
      BY <1>1, <3>1, <3>2 DEF InRange
  <2>2. [no |-> n, text |-> TRUE].no = n
    OBVIOUS
  <2> QED
    BY <1>6, <1>10, <2>1, <2>2 DEF NumberButton
<1>11. ASSUME NEW p \in posts, After(p)
       PROVE  InRange'
  BY <1>1, <1>11, TurnedInRange DEF After, InRange
<1> QED
  BY <1>3, <1>5, <1>7, <1>8, <1>9, <1>10, <1>11 DEF TableNext

\* The table leaves its range of pages only when users are gone, past a page number that is
\* text, or when it counts pages of a size it no longer has (paginationHandler).
THEOREM RangeKept == TableSpec => StaysInRange
<1>1. TableTypeOK /\ [TableNext]_tableVars
      => [InRange /\ ~InRange' =>
            \/ Cardinality(Present) < rowCount
            \/ page.text
            \/ pageCount # Pages(rowCount, pageSize)]_tableVars
  <2> SUFFICES ASSUME TableTypeOK, [TableNext]_tableVars, InRange, ~InRange'
               PROVE  ~Current
                      /\ (~Current => \/ Cardinality(Present) < rowCount
                                      \/ page.text
                                      \/ pageCount # Pages(rowCount, pageSize))
    OBVIOUS
  <2>1. ~Current
    BY RangeStep
  <2>2. rowCount \in Nat /\ Cardinality(Present) \in Nat
    BY Presents DEF TableTypeOK
  <2> QED
    BY <2>1, <2>2 DEF Current
<1> QED
  BY <1>1, TableTypeCorrect, PTL DEF TableSpec, StaysInRange
=============================================================================
