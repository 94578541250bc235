------------------------- MODULE OptimisticSeckill -------------------------
(***************************************************************************)
(* DistributeLearning, lock/redis/OptimisticLockTest.java: the flash sale  *)
(* without a lock.  A buyer (ClientThread) WATCHes prdNum, reads it, and   *)
(* writes one less in a MULTI/EXEC that Redis refuses if prdNum was        *)
(* written in between; after a success it adds itself to clientList.  A    *)
(* request may fail, applied or not: the exception is printed, and the     *)
(* loop starts over (or the UNWATCH of the finally block fails as well and *)
(* ends the thread).                                                       *)
(***************************************************************************)
EXTENDS Integers, FiniteSets

CONSTANTS
    Client,      \* the ClientThreads
    Stock,       \* prdNum set by initPrduct
    MaxFaults    \* bound: requests that fail

ASSUME ClientAssumption == IsFiniteSet(Client)
ASSUME StockAssumption == Stock \in Nat /\ MaxFaults \in Nat

VARIABLES
    stock,       \* the key prdNum in Redis
    clientList,  \* the key clientList in Redis
    watching,    \* per connection: "no", "clean", or "dirty" after a write
    pc,          \* where ClientThread.run stands
    prdNum,      \* the stock the buyer read
    faults

vars == <<stock, clientList, watching, pc, prdNum, faults>>

Labels == {"watch", "get", "exec", "sadd", "done", "dead"}

TypeOK ==
    /\ stock \in Int
    /\ clientList \in SUBSET Client
    /\ watching \in [Client -> {"no", "clean", "dirty"}]
    /\ pc \in [Client -> Labels]
    /\ prdNum \in [Client -> Int]
    /\ faults \in Nat

-----------------------------------------------------------------------------

Goto(c, label) == pc' = [pc EXCEPT ![c] = label]

\* The finally block: unwatch.
Unwatch(c) == watching' = [watching EXCEPT ![c] = "no"]

\* SET in c's transaction: the connections of others that WATCH the key turn
\* dirty, and EXEC ends c's own WATCH.
SetStock(c, n) ==
    /\ stock' = n
    /\ watching' = [d \in Client |-> IF d = c THEN "no"
                                     ELSE IF watching[d] = "clean" THEN "dirty"
                                     ELSE watching[d]]

\* jedis.watch(key)
Watch(c) ==
    /\ pc[c] = "watch"
    /\ watching' = [watching EXCEPT ![c] = "clean"]
    /\ Goto(c, "get")
    /\ UNCHANGED <<stock, clientList, prdNum, faults>>

\* prdNum = Integer.parseInt(jedis.get(key)); with nothing left the loop ends.
Get(c) ==
    /\ pc[c] = "get"
    /\ prdNum' = [prdNum EXCEPT ![c] = stock]
    /\ \/ stock > 0 /\ Goto(c, "exec") /\ UNCHANGED watching
       \/ stock <= 0 /\ Goto(c, "done") /\ Unwatch(c)
    /\ UNCHANGED <<stock, clientList, faults>>

\* Mutant of Exec: no WATCH, so EXEC is never refused.
ExecUnwatched(c) ==
    /\ pc[c] = "exec"
    /\ SetStock(c, prdNum[c] - 1)
    /\ Goto(c, "sadd")
    /\ UNCHANGED <<clientList, prdNum, faults>>

\* Mutant of Exec: a refused EXEC is tried again without reading the stock.
ExecRetried(c) ==
    /\ pc[c] = "exec"
    /\ \/ /\ watching[c] = "clean"
          /\ SetStock(c, prdNum[c] - 1)
          /\ Goto(c, "sadd")
       \/ /\ watching[c] # "clean"
          /\ UNCHANGED <<stock, pc, watching>>
    /\ UNCHANGED <<clientList, prdNum, faults>>

\* transaction.exec(): applied if nobody wrote prdNum since the WATCH,
\* else the result is null and the loop starts over.
Exec(c) ==
    /\ pc[c] = "exec"
    /\ \/ /\ watching[c] = "clean"
          /\ SetStock(c, prdNum[c] - 1)
          /\ Goto(c, "sadd")
       \/ /\ watching[c] # "clean"
          /\ UNCHANGED stock
          /\ Unwatch(c)
          /\ Goto(c, "watch")
    /\ UNCHANGED <<clientList, prdNum, faults>>

\* Mutant of Sadd: no break after the success.
SaddNoBreak(c) ==
    /\ pc[c] = "sadd"
    /\ clientList' = clientList \cup {c}
    /\ Goto(c, "watch")
    /\ UNCHANGED <<stock, watching, prdNum, faults>>

\* jedis.sadd(clientList, clientName); break
Sadd(c) ==
    /\ pc[c] = "sadd"
    /\ clientList' = clientList \cup {c}
    /\ Goto(c, "done")
    /\ UNCHANGED <<stock, watching, prdNum, faults>>

\* Any of the requests throws, with or without having been applied.
RequestFails(c) ==
    /\ pc[c] \in {"watch", "get", "exec", "sadd"}
    /\ faults < MaxFaults
    /\ faults' = faults + 1
    /\ \/ Unwatch(c) /\ UNCHANGED <<stock, clientList>>
       \/ /\ pc[c] = "exec" /\ watching[c] = "clean"
          /\ SetStock(c, prdNum[c] - 1)
          /\ UNCHANGED clientList
       \/ /\ pc[c] = "sadd"
          /\ clientList' = clientList \cup {c}
          /\ UNCHANGED <<stock, watching>>
    /\ \E next \in {"watch", "dead"} : Goto(c, next)
    /\ UNCHANGED prdNum

-----------------------------------------------------------------------------

Init ==
    /\ stock = Stock
    /\ clientList = {}
    /\ watching = [c \in Client |-> "no"]
    /\ pc = [c \in Client |-> "watch"]
    /\ prdNum = [c \in Client |-> 0]
    /\ faults = 0

Step(c) == Watch(c) \/ Get(c) \/ Exec(c) \/ Sadd(c)

Next == \E c \in Client : Step(c) \/ RequestFails(c)

Spec == Init /\ [][Next]_vars

FairSpec == Spec /\ \A c \in Client : WF_vars(Step(c))

-----------------------------------------------------------------------------
(* Properties.                                                             *)

\* Buyers whose unit is paid for and not yet on the list.
Recording == {c \in Client : pc[c] = "sadd"}

Sold == Stock - stock

\* A buyer on the list, or about to be, has a unit of its own: the stock is
\* never below zero, and no two buyers were sold the same unit, whatever
\* reads, writes and failures come in between (lines 115 to 120).
NoOversell ==
    /\ stock >= 0
    /\ Cardinality(clientList \cup Recording) <= Sold

\* A unit sold to nobody on the list is the work of a failed request: EXEC
\* or SADD applied without its reply, after which the buyer buys again.
LostUnitsFromFaults ==
    Sold <= Cardinality(clientList) + Cardinality(Recording) + faults

\* main's wait for isTerminated() ends: a refused EXEC means that another
\* buyer succeeded, so the refusals run out.
SaleEnds == <>[](\A c \in Client : pc[c] \in {"done", "dead"})
=============================================================================
