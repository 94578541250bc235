----------------------------- MODULE RedisLock -----------------------------
(***************************************************************************)
(* DistributeLearning, lock/redis/RedisBasedDistributedLock.java and       *)
(* AbstractLock.java: a lock whose key holds the time at which it expires. *)
(* A client takes the key with SETNX, or, when the value it read has       *)
(* expired, with GETSET, provided that what GETSET returns has expired     *)
(* too.  unlock reads the value again and deletes the key unless expired.  *)
(*                                                                         *)
(* Times are relative: every stored time is kept as its distance from      *)
(* System.currentTimeMillis(), and Tick brings them all one nearer.        *)
(* isTimeExpired(value), "value < now", is then value < 0, and a time      *)
(* that has passed stays at -1.  One action is one Redis request with the  *)
(* local code that follows it.                                             *)
(*                                                                         *)
(* Each client has a lock object of its own, as in PessClientThread.       *)
(* lock() and lockInterruptibly() are absent: they pass a null TimeUnit to *)
(* unit.toMillis(time) and throw before their first request.               *)
(***************************************************************************)
EXTENDS Integers, FiniteSets

CONSTANTS
    Client,      \* the threads that use the lock, each with its own object
    NoValue,     \* the key is absent (GET and GETSET return null)
    LockExpires, \* lockExpires, in ticks
    Timeout,     \* the time given to tryLock(time, unit), in ticks
    MaxStall,    \* longest time from computing lockExpireTime to the last
                 \* request that uses it
    MaxHold,     \* longest time from getting the lock to the end of unlock
    MaxCrashes   \* bound: clients whose process dies

ASSUME NoValueAssumption == NoValue \notin Int
ASSUME TimeAssumption ==
    /\ LockExpires \in Nat
    /\ Timeout \in Nat
    /\ MaxStall \in Nat
    /\ MaxHold \in Nat
    /\ MaxCrashes \in Nat

VARIABLES
    key,         \* the value at lockKey in Redis, relative to now
    pc,          \* where the client stands
    expire,      \* stringOfLockExpireTime, relative to now
    wait,        \* start + timeout, relative to now
    once,        \* tryLock() without a time: one round of the loop only
    locked,      \* the field locked of the client's lock object
    age          \* ticks since expire was computed, or since the lock came

vars == <<key, pc, expire, wait, once, locked, age>>

Labels == {"idle", "loop", "setnx", "get", "getSet", "held", "unlock0",
           "doUnlock", "thrown", "dead"}

Taking == {"setnx", "get", "getSet"}     \* in one round of the loop
Inside == {"held", "unlock0", "doUnlock"} \* the lock was returned to it

Times  == -1 .. LockExpires + 1

TypeOK ==
    /\ key \in Times \cup {NoValue}
    /\ pc \in [Client -> Labels]
    /\ expire \in [Client -> Times]
    /\ wait \in [Client -> -1 .. Timeout]
    /\ once \in [Client -> BOOLEAN]
    /\ locked \in [Client -> BOOLEAN]
    /\ age \in [Client -> Nat]

-----------------------------------------------------------------------------
(* Helpers.                                                                *)

\* Mutant of IsTimeExpired: the comparison is off by one.
IsTimeExpiredEarly(value) == value <= 0

\* Mutant of IsTimeExpired: the comparison the wrong way round never finds an
\* old value expired.
IsTimeExpiredNever(value) == FALSE

IsTimeExpired(value) == value < 0

Goto(c, label) == pc' = [pc EXCEPT ![c] = label]

\* locked = true; setExclusiveOwnerThread(currentThread()); return true
GetLock(c) ==
    /\ Goto(c, "held")
    /\ locked' = [locked EXCEPT ![c] = TRUE]
    /\ age' = [age EXCEPT ![c] = 0]

\* The end of a round without the lock: tryLock() returns false, and
\* tryLock(time, unit) starts the next one.
NextRound(c) == Goto(c, IF once[c] THEN "idle" ELSE "loop")

\* A relative time one tick later.
Later(t) == IF t < 0 THEN t ELSE t - 1

-----------------------------------------------------------------------------
(* The client.                                                             *)

\* tryLock() or tryLock(time, unit): start = currentTimeMillis().
CallTryLock(c) ==
    /\ pc[c] = "idle"
    /\ \E plain \in BOOLEAN :
          /\ once' = [once EXCEPT ![c] = plain]
          /\ wait' = [wait EXCEPT ![c] = IF plain THEN -1 ELSE Timeout]
    /\ Goto(c, "loop")
    /\ UNCHANGED <<key, expire, locked, age>>

\* Mutant of BeginRound: the time is not looked at ("useTimeout ? true : ...").
BeginRoundAlways(c) ==
    /\ pc[c] = "loop"
    /\ expire' = [expire EXCEPT ![c] = LockExpires + 1]
    /\ age' = [age EXCEPT ![c] = 0]
    /\ Goto(c, "setnx")
    /\ UNCHANGED <<key, wait, once, locked>>

\* The head of the loop: isTimeout (which means "not yet timed out"), and
\* lockExpireTime = currentTimeMillis() + lockExpires + 1.
BeginRound(c) ==
    /\ pc[c] = "loop"
    /\ once[c] \/ wait[c] > 0
    /\ expire' = [expire EXCEPT ![c] = LockExpires + 1]
    /\ age' = [age EXCEPT ![c] = 0]
    /\ Goto(c, "setnx")
    /\ UNCHANGED <<key, wait, once, locked>>

TimedOut(c) ==
    /\ pc[c] = "loop"
    /\ ~once[c] /\ wait[c] <= 0
    /\ Goto(c, "idle")
    /\ UNCHANGED <<key, expire, wait, once, locked, age>>

\* jedis.setnx(lockKey, stringOfLockExpireTime)
Setnx(c) ==
    /\ pc[c] = "setnx"
    /\ \/ /\ key = NoValue
          /\ key' = expire[c]
          /\ GetLock(c)
       \/ /\ key # NoValue
          /\ Goto(c, "get")
          /\ UNCHANGED <<key, locked, age>>
    /\ UNCHANGED <<expire, wait, once>>

\* jedis.get(lockKey): an expired value sends the client on to GETSET.
Get(c) ==
    /\ pc[c] = "get"
    /\ IF key # NoValue /\ IsTimeExpired(key) THEN Goto(c, "getSet") ELSE NextRound(c)
    /\ UNCHANGED <<key, expire, wait, once, locked, age>>

\* Mutant of GetSet: the value GETSET returns is not looked at.
GetSetBlind(c) ==
    /\ pc[c] = "getSet"
    /\ key' = expire[c]
    /\ GetLock(c)
    /\ UNCHANGED <<expire, wait, once>>

\* jedis.getSet(lockKey, stringOfLockExpireTime): the value is replaced
\* whether or not the client then finds that it has the lock.
GetSet(c) ==
    /\ pc[c] = "getSet"
    /\ key' = expire[c]
    /\ \/ /\ key # NoValue /\ IsTimeExpired(key)
          /\ GetLock(c)
       \/ /\ ~(key # NoValue /\ IsTimeExpired(key))
          /\ NextRound(c)
          /\ UNCHANGED <<locked, age>>
    /\ UNCHANGED <<expire, wait, once>>

\* The caller's work ends and it calls unlock().
FinishWork(c) ==
    /\ pc[c] = "held"
    /\ Goto(c, "unlock0")
    /\ UNCHANGED <<key, expire, wait, once, locked, age>>

\* unlock0: jedis.get(lockKey).  The key's value, not the client's own
\* expire, decides on the delete.  The field locked is not reset.
Unlock0(c) ==
    /\ pc[c] = "unlock0"
    /\ key # NoValue
    /\ Goto(c, IF IsTimeExpired(key) THEN "idle" ELSE "doUnlock")
    /\ UNCHANGED <<key, expire, wait, once, locked, age>>

\* unlock0 on a missing key: Long.parseLong(null) throws out of unlock().
Unlock0Throws(c) ==
    /\ pc[c] = "unlock0"
    /\ key = NoValue
    /\ Goto(c, "thrown")
    /\ UNCHANGED <<key, expire, wait, once, locked, age>>

\* doUnlock: jedis.del(lockKey)
DoUnlock(c) ==
    /\ pc[c] = "doUnlock"
    /\ key' = NoValue
    /\ Goto(c, "idle")
    /\ UNCHANGED <<expire, wait, once, locked, age>>

-----------------------------------------------------------------------------
(* The environment.                                                        *)

\* The process of c dies, and its memory with it.
Crash(c) ==
    /\ pc[c] # "dead"
    /\ Cardinality({d \in Client : pc[d] = "dead"}) < MaxCrashes
    /\ Goto(c, "dead")
    /\ expire' = [expire EXCEPT ![c] = -1]
    /\ wait' = [wait EXCEPT ![c] = -1]
    /\ once' = [once EXCEPT ![c] = FALSE]
    /\ locked' = [locked EXCEPT ![c] = FALSE]
    /\ age' = [age EXCEPT ![c] = 0]
    /\ UNCHANGED key

\* No client is slower than the bounds allow.
Timely(c) ==
    /\ pc[c] \in Taking => age[c] < MaxStall
    /\ pc[c] \in Inside => age[c] < MaxHold

Tick ==
    /\ \A c \in Client : Timely(c)
    /\ key' = IF key = NoValue THEN NoValue ELSE Later(key)
    /\ expire' = [c \in Client |-> Later(expire[c])]
    /\ wait' = [c \in Client |-> Later(wait[c])]
    /\ age' = [c \in Client |->
                 IF pc[c] \in Taking \cup Inside THEN age[c] + 1 ELSE 0]
    /\ UNCHANGED <<pc, once, locked>>

-----------------------------------------------------------------------------

Init ==
    /\ key = NoValue
    /\ pc = [c \in Client |-> "idle"]
    /\ expire = [c \in Client |-> -1]
    /\ wait = [c \in Client |-> -1]
    /\ once = [c \in Client |-> FALSE]
    /\ locked = [c \in Client |-> FALSE]
    /\ age = [c \in Client |-> 0]

\* A step of tryLock or unlock once called.
Step(c) ==
    \/ BeginRound(c)
    \/ TimedOut(c)
    \/ Setnx(c)
    \/ Get(c)
    \/ GetSet(c)
    \/ FinishWork(c)
    \/ Unlock0(c)
    \/ Unlock0Throws(c)
    \/ DoUnlock(c)

Next == Tick \/ \E c \in Client : CallTryLock(c) \/ Step(c) \/ Crash(c)

Spec == Init /\ [][Next]_vars

\* Threads that are not dead run, and the clock moves.
FairSpec == Spec /\ WF_vars(Tick) /\ \A c \in Client : WF_vars(Step(c))

\* Besides, the callers' loops go on (PessimisticLockTest.java line 115), and
\* a call is not for ever overtaken by its timeout before its first round.
BusySpec ==
    FairSpec /\ \A c \in Client : WF_vars(CallTryLock(c)) /\ SF_vars(BeginRound(c))

-----------------------------------------------------------------------------
(* Properties.                                                             *)

Holders == {c \in Client : pc[c] \in Inside}

\* One client at a time is between the return of tryLock and the end of
\* unlock.  The code needs every client to be quick for this: the value of a
\* GETSET that came too late for the lock still replaces the holder's, and
\* may be MaxStall old (lines 63 and 96).
MutualExclusion == \A c, d \in Holders : c = d

\* A lock whose holder died, and a value that a late GETSET left on a free
\* key, do not stop the others: as long as a client that is alive asks for
\* the lock again and again, the lock is granted again and again (unless an
\* unlock ended in the exception of Unlock0Throws, which ends its thread).
LockKeepsBeingGranted ==
    []<>(Holders # {} \/ \E c \in Client : pc[c] = "thrown")

\* tryLock(time, unit) returns: with the lock, without it, or never to a
\* process that died.
TryLockReturns ==
    \A c \in Client : pc[c] = "loop" ~> pc[c] \in {"held", "idle", "dead"}

\* Lines 63 to 65 say of several threads at the GETSET: no two get the same
\* old value, and "if the oldValue obtained is still expired, then the lock
\* has been obtained".  So two clients cannot both be inside on values that
\* have not expired.
LeaseExclusion ==
    \A c, d \in Holders :
        ~IsTimeExpired(expire[c]) /\ ~IsTimeExpired(expire[d]) => c = d

\* The promise of the interface (module Mutex).
Lock == INSTANCE Mutex WITH holders <- Holders
ImplementsMutex == Lock!MutexSpec
=============================================================================
