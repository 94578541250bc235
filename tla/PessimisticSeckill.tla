------------------------ MODULE PessimisticSeckill ------------------------
(***************************************************************************)
(* DistributeLearning, lock/redis/PessimisticLockTest.java: a flash sale.  *)
(* Every buyer (PessClientThread) takes the Redis lock "lock.lock" to read *)
(* the stock prdNum, decrement it and add itself to clientList.  The lock  *)
(* is module RedisLock with its delays and crashes; this module is the     *)
(* code around it, one action per request on the two other keys.           *)
(***************************************************************************)
EXTENDS RedisLock

CONSTANT Stock           \* prdNum set by initPrduct

ASSUME StockAssumption == Stock \in Nat
ASSUME ClientAssumption == IsFiniteSet(Client)

VARIABLES
    prdNum,              \* the stock in Redis
    clientList,          \* the set of buyers that got a unit
    phase                \* where PessClientThread.run stands

shop == <<prdNum, clientList, phase>>
allVars == <<vars, shop>>

Phases == {"check", "tryLock", "read", "decr", "sadd", "unlock", "done"}

SeckillTypeOK ==
    /\ TypeOK
    /\ prdNum \in Int
    /\ clientList \subseteq Client
    /\ phase \in [Client -> Phases]

To(c, p) == phase' = [phase EXCEPT ![c] = p]

-----------------------------------------------------------------------------

\* while (true): no stock left, or tryLock(3, TimeUnit.SECONDS).
CheckStock(c) ==
    /\ phase[c] = "check"
    /\ pc[c] = "idle"
    /\ IF prdNum <= 0
         THEN To(c, "done") /\ UNCHANGED vars
         ELSE To(c, "tryLock") /\ CallTryLock(c) /\ ~once'[c]
    /\ UNCHANGED <<prdNum, clientList>>

\* The steps of tryLock; when its time is up the loop goes on.
TryLockStep(c) ==
    /\ phase[c] = "tryLock"
    /\ \/ (BeginRound(c) \/ Setnx(c) \/ Get(c) \/ GetSet(c)) /\ UNCHANGED shop
       \/ TimedOut(c) /\ To(c, "check") /\ UNCHANGED <<prdNum, clientList>>

\* Mutant of ReadStock: the stock is not read again under the lock.
SkipReadStock(c) ==
    /\ phase[c] = "tryLock"
    /\ pc[c] = "held"
    /\ To(c, "decr")
    /\ UNCHANGED <<vars, prdNum, clientList>>

\* prdNum = Integer.valueOf(jedis.get(key)) under the lock, and the test.
ReadStock(c) ==
    /\ phase[c] = "tryLock"
    /\ pc[c] = "held"
    /\ To(c, IF prdNum > 0 THEN "decr" ELSE "unlock")
    /\ UNCHANGED <<vars, prdNum, clientList>>

\* jedis.decr(key)
Decr(c) ==
    /\ phase[c] = "decr"
    /\ pc[c] = "held"
    /\ prdNum' = prdNum - 1
    /\ To(c, "sadd")
    /\ UNCHANGED <<vars, clientList>>

\* Mutant of Sadd: a buyer that is listed does not stop buying.
SaddAgain(c) ==
    /\ phase[c] = "sadd"
    /\ pc[c] = "held"
    /\ clientList' = clientList \cup {c}
    /\ To(c, IF prdNum > 0 THEN "decr" ELSE "unlock")
    /\ UNCHANGED <<vars, prdNum>>

\* jedis.sadd(clientList, clientName)
Sadd(c) ==
    /\ phase[c] = "sadd"
    /\ pc[c] = "held"
    /\ clientList' = clientList \cup {c}
    /\ To(c, "unlock")
    /\ UNCHANGED <<vars, prdNum>>

\* redisBasedDistributedLock.unlock(); there is no finally around it.
UnlockStep(c) ==
    /\ phase[c] = "unlock"
    /\ FinishWork(c) \/ Unlock0(c) \/ Unlock0Throws(c) \/ DoUnlock(c)
    /\ UNCHANGED shop

\* break, returnResource
Leave(c) ==
    /\ phase[c] = "unlock"
    /\ pc[c] = "idle"
    /\ To(c, "done")
    /\ UNCHANGED <<vars, prdNum, clientList>>

-----------------------------------------------------------------------------

\* initPrduct and initClient.
SeckillInit ==
    /\ Init
    /\ prdNum = Stock
    /\ clientList = {}
    /\ phase = [c \in Client |-> "check"]

Buyer(c) ==
    \/ CheckStock(c)
    \/ TryLockStep(c)
    \/ ReadStock(c)
    \/ Decr(c)
    \/ Sadd(c)
    \/ UnlockStep(c)
    \/ Leave(c)

SeckillNext ==
    \/ Tick /\ UNCHANGED shop
    \/ \E c \in Client : Buyer(c) \/ (Crash(c) /\ UNCHANGED shop)

SeckillSpec == SeckillInit /\ [][SeckillNext]_allVars

\* Threads run, the clock moves, and a call of tryLock is not for ever
\* overtaken by its own timeout before its first round.
SeckillFairSpec ==
    /\ SeckillSpec
    /\ WF_allVars(Tick /\ UNCHANGED shop)
    /\ \A c \in Client : /\ WF_allVars(Buyer(c))
                         /\ SF_allVars(TryLockStep(c) /\ BeginRound(c))

-----------------------------------------------------------------------------
(* Properties.                                                             *)

\* The shop sells what it has: no two buyers decrement the same last unit.
\* This rests on the lock, and so on quick clients (lines 124 to 126).
NoOversell == prdNum >= 0 /\ Cardinality(clientList) <= Stock

\* A unit that left the stock is on the list, or its buyer is just between
\* decr and sadd - for ever so if its process died there.
StockAccounted ==
    prdNum + Cardinality(clientList)
        + Cardinality({c \in Client : phase[c] = "sadd"}) = Stock

\* main's wait for isTerminated() ends: every buyer thread ends, by itself,
\* by its exception, or with its process, also when another buyer died with
\* the lock.
SaleEnds == <>[](\A c \in Client : phase[c] = "done" \/ pc[c] \in {"dead", "thrown"})
=============================================================================
