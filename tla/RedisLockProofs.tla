-------------------------- MODULE RedisLockProofs --------------------------
(***************************************************************************)
(* The Redis lock excludes, for any number of clients and any times, as    *)
(* long as clients are quick: the bound QuickClients is the weakest one    *)
(* (TLC finds two holders one tick beyond it).                             *)
(*                                                                         *)
(* The second half is about the flash sale under that lock: a buyer uses   *)
(* the lock only as its specification allows, so what is proved of the     *)
(* lock holds of the sale, and with it that no unit is sold twice.  Only   *)
(* the sale's proofs use the assumptions of PessimisticSeckill.            *)
(***************************************************************************)
EXTENDS PessimisticSeckill, FiniteSetTheorems, TLAPS

\* What a request may be late plus what a holder may take fits in the expiry
\* time that the client computed before its first request.
QuickClients == MaxStall + MaxHold <= LockExpires + 1

\* A client's ages respect the bounds that Tick enforces.
AgesBounded ==
    \A c \in Client : /\ pc[c] \in Taking => age[c] <= MaxStall
                      /\ pc[c] \in Inside => age[c] <= MaxHold

\* During a round, the value about to be written is as old as the round.
ValueIsFresh ==
    \A c \in Client : pc[c] \in Taking => expire[c] >= LockExpires + 1 - age[c]

\* While somebody is inside, the key is there, whoever wrote it last, and has
\* at least the time left that the slowest writer and the holder leave it.
KeyCoversHolder ==
    \A c \in Holders : /\ key # NoValue
                       /\ key >= LockExpires + 1 - MaxStall - age[c]

IInv ==
    /\ TypeOK
    /\ AgesBounded
    /\ ValueIsFresh
    /\ KeyCoversHolder
    /\ MutualExclusion

-----------------------------------------------------------------------------

LEMMA TypeInit == Init => TypeOK
BY TimeAssumption DEF Init, TypeOK, Times, Labels

LEMMA LaterType ==
    /\ \A t \in Times : Later(t) \in Times
    /\ \A t \in -1 .. Timeout : Later(t) \in -1 .. Timeout
BY TimeAssumption DEF Times, Later

LEMMA TypeNext == TypeOK /\ [Next]_vars => TypeOK'
<1> SUFFICES ASSUME TypeOK, [Next]_vars PROVE TypeOK'
  OBVIOUS
<1> USE TimeAssumption DEF TypeOK, Goto, Labels
<1>1. ASSUME Tick PROVE TypeOK'
  <2>1. key' \in Times \cup {NoValue}
    BY <1>1, LaterType DEF Tick
  <2>2. expire' \in [Client -> Times] /\ wait' \in [Client -> -1 .. Timeout]
    BY <1>1, LaterType DEF Tick
  <2>3. age' \in [Client -> Nat]
    BY <1>1 DEF Tick
  <2> QED
    BY <1>1, <2>1, <2>2, <2>3 DEF Tick
<1>2. ASSUME NEW c \in Client, CallTryLock(c) PROVE TypeOK'
  BY <1>2 DEF CallTryLock
<1>3. ASSUME NEW c \in Client, BeginRound(c) PROVE TypeOK'
  BY <1>3 DEF BeginRound, Times
<1>4. ASSUME NEW c \in Client, TimedOut(c) PROVE TypeOK'
  BY <1>4 DEF TimedOut
<1>5. ASSUME NEW c \in Client, Setnx(c) PROVE TypeOK'
  <2>1. key' \in Times \cup {NoValue} /\ pc' \in [Client -> Labels]
    BY <1>5 DEF Setnx, GetLock
  <2>2. locked' \in [Client -> BOOLEAN] /\ age' \in [Client -> Nat]
    <3>1. CASE GetLock(c)
      BY <3>1 DEF GetLock
    <3>2. CASE UNCHANGED <<locked, age>>
      BY <3>2
    <3> QED
      BY <1>5, <3>1, <3>2 DEF Setnx
  <2> QED
    BY <1>5, <2>1, <2>2 DEF Setnx
<1>6. ASSUME NEW c \in Client, Get(c) PROVE TypeOK'
  BY <1>6 DEF Get, NextRound
<1>7. ASSUME NEW c \in Client, GetSet(c) PROVE TypeOK'
  <2>1. key' \in Times \cup {NoValue} /\ pc' \in [Client -> Labels]
    BY <1>7 DEF GetSet, GetLock, NextRound
  <2>2. locked' \in [Client -> BOOLEAN] /\ age' \in [Client -> Nat]
    <3>1. CASE GetLock(c)
      BY <3>1 DEF GetLock
    <3>2. CASE UNCHANGED <<locked, age>>
      BY <3>2
    <3> QED
      BY <1>7, <3>1, <3>2 DEF GetSet
  <2> QED
    BY <1>7, <2>1, <2>2 DEF GetSet
<1>8. ASSUME NEW c \in Client, FinishWork(c) PROVE TypeOK'
  BY <1>8 DEF FinishWork
<1>9. ASSUME NEW c \in Client, Unlock0(c) PROVE TypeOK'
  BY <1>9 DEF Unlock0
<1>10. ASSUME NEW c \in Client, Unlock0Throws(c) PROVE TypeOK'
  BY <1>10 DEF Unlock0Throws
<1>11. ASSUME NEW c \in Client, DoUnlock(c) PROVE TypeOK'
  BY <1>11 DEF DoUnlock
<1>12. ASSUME NEW c \in Client, Crash(c) PROVE TypeOK'
  BY <1>12 DEF Crash, Times
<1>13. CASE UNCHANGED vars
  BY <1>13 DEF vars
<1> QED
  BY <1>1, <1>2, <1>3, <1>4, <1>5, <1>6, <1>7, <1>8, <1>9, <1>10, <1>11,
     <1>12, <1>13 DEF Next, Step

\* Every variable keeps its type, for all times and any number of clients.
THEOREM TypeCorrect == Spec => []TypeOK
BY TypeInit, TypeNext, PTL DEF Spec

-----------------------------------------------------------------------------
(* Exclusion.                                                              *)

LEMMA IInvInit == Init => IInv
<1> SUFFICES ASSUME Init PROVE IInv
  OBVIOUS
<1>1. Holders = {}
  BY DEF Init, Holders, Inside
<1> QED
  BY <1>1, TypeInit
  DEF Init, IInv, AgesBounded, ValueIsFresh, KeyCoversHolder, MutualExclusion,
      Taking, Inside

\* With quick clients the key of a held lock has not expired.
LEMMA HeldKeyNotExpired ==
    ASSUME QuickClients, IInv, NEW c \in Holders
    PROVE  key # NoValue /\ key >= 0 /\ key \in Int
<1>1. age[c] <= MaxHold /\ age[c] \in Nat
  BY DEF IInv, AgesBounded, Holders, TypeOK
<1>2. key # NoValue /\ key >= LockExpires + 1 - MaxStall - age[c]
  BY DEF IInv, KeyCoversHolder
<1>3. key \in Int
  BY <1>2 DEF IInv, TypeOK, Times
<1> QED
  BY <1>1, <1>2, <1>3, TimeAssumption DEF QuickClients

\* A client that gets the lock while nobody is inside.
LEMMA Entering ==
    ASSUME QuickClients, IInv, TypeOK', NEW c \in Client, pc[c] \in Taking,
           Holders = {}, key' = expire[c], GetLock(c), expire' = expire
    PROVE  IInv'
<1>1. Holders' = {c} /\ age'[c] = 0
  BY DEF GetLock, Goto, IInv, TypeOK, Holders, Inside
<1>2. key' # NoValue /\ key' \in Int /\ key' >= LockExpires + 1 - MaxStall
  <2>1. expire[c] \in Times /\ expire[c] >= LockExpires + 1 - age[c]
    BY DEF IInv, TypeOK, ValueIsFresh
  <2>2. age[c] \in Nat /\ age[c] <= MaxStall
    BY DEF IInv, TypeOK, AgesBounded
  <2> QED
    BY <2>1, <2>2, NoValueAssumption, TimeAssumption DEF Times
<1>3. KeyCoversHolder' /\ MutualExclusion'
  BY <1>1, <1>2, TimeAssumption DEF KeyCoversHolder, MutualExclusion
<1>4. AgesBounded' /\ ValueIsFresh'
  BY TimeAssumption
  DEF GetLock, Goto, IInv, TypeOK, AgesBounded, ValueIsFresh, Taking, Inside
<1> QED
  BY <1>3, <1>4 DEF IInv

\* A step that lets nobody in, starts no round and does not touch the key.
LEMMA Moving ==
    ASSUME IInv, TypeOK', key' = key,
           \A d \in Client :
              /\ pc'[d] \in Inside => pc[d] \in Inside
              /\ pc'[d] \in Taking => pc[d] \in Taking
              /\ pc'[d] \in Inside \cup Taking
                    => age'[d] = age[d] /\ expire'[d] = expire[d]
    PROVE  IInv'
<1>1. Holders' \subseteq Holders /\ \A d \in Holders' : age'[d] = age[d]
  BY DEF Holders
<1>2. KeyCoversHolder' /\ MutualExclusion'
  BY <1>1 DEF IInv, KeyCoversHolder, MutualExclusion
<1>3. AgesBounded' /\ ValueIsFresh'
  BY DEF IInv, AgesBounded, ValueIsFresh
<1> QED
  BY <1>2, <1>3 DEF IInv

LEMMA IInvNext == ASSUME QuickClients PROVE IInv /\ [Next]_vars => IInv'
<1> SUFFICES ASSUME IInv, [Next]_vars PROVE IInv'
  OBVIOUS
<1>0. TypeOK /\ TypeOK'
  BY TypeNext DEF IInv
<1>a. ASSUME key # NoValue => IsTimeExpired(key) PROVE Holders = {}
  BY <1>a, HeldKeyNotExpired DEF IsTimeExpired
<1>1. ASSUME Tick PROVE IInv'
  <2>1. Holders' = Holders
    BY <1>1 DEF Tick, Holders
  <2>2. \A c \in Client : pc[c] \in Taking \cup Inside => age'[c] = age[c] + 1
    BY <1>1 DEF Tick
  <2>3. AgesBounded'
    BY <1>0, <1>1, <2>2, TimeAssumption DEF Tick, Timely, AgesBounded, TypeOK
  <2>4. ValueIsFresh'
    <3> SUFFICES ASSUME NEW c \in Client, pc'[c] \in Taking
                 PROVE  expire'[c] >= LockExpires + 1 - age'[c]
      BY DEF ValueIsFresh
    <3>1. pc[c] \in Taking /\ age'[c] = age[c] + 1 /\ expire'[c] = Later(expire[c])
      BY <1>1, <2>2 DEF Tick
    <3>2. expire[c] >= LockExpires + 1 - age[c] /\ expire[c] \in Int /\ age[c] \in Nat
      BY <1>0, <3>1 DEF IInv, ValueIsFresh, TypeOK, Times
    <3> QED
      BY <3>1, <3>2, TimeAssumption DEF Later
  <2>5. KeyCoversHolder'
    <3> SUFFICES ASSUME NEW c \in Holders
                 PROVE  /\ key' # NoValue
                        /\ key' >= LockExpires + 1 - MaxStall - age'[c]
      BY <2>1 DEF KeyCoversHolder
    <3>1. key # NoValue /\ key \in Int /\ key >= LockExpires + 1 - MaxStall - age[c]
      BY HeldKeyNotExpired DEF IInv, KeyCoversHolder
    <3>2. age'[c] = age[c] + 1 /\ age[c] \in Nat
      BY <1>0, <2>2 DEF Holders, TypeOK
    <3>3. key' = Later(key) /\ key' \in Int
      BY <1>1, <3>1 DEF Tick, Later
    <3> QED
      BY <3>1, <3>2, <3>3, NoValueAssumption, TimeAssumption DEF Later
  <2>6. MutualExclusion'
    BY <2>1 DEF IInv, MutualExclusion
  <2> QED
    BY <1>0, <2>3, <2>4, <2>5, <2>6 DEF IInv
<1> USE DEF Goto, TypeOK, Taking, Inside
<1>2. ASSUME NEW c \in Client, CallTryLock(c) PROVE IInv'
  BY <1>0, <1>2, Moving DEF CallTryLock
<1>3. ASSUME NEW c \in Client, BeginRound(c) PROVE IInv'
  <2>1. Holders' = Holders /\ \A d \in Holders : age'[d] = age[d]
    BY <1>0, <1>3 DEF BeginRound, Holders
  <2>2. KeyCoversHolder' /\ MutualExclusion'
    BY <1>3, <2>1 DEF BeginRound, IInv, KeyCoversHolder, MutualExclusion
  <2>3. AgesBounded' /\ ValueIsFresh'
    BY <1>0, <1>3, TimeAssumption DEF BeginRound, IInv, AgesBounded, ValueIsFresh
  <2> QED
    BY <1>0, <2>2, <2>3 DEF IInv
<1>4. ASSUME NEW c \in Client, TimedOut(c) PROVE IInv'
  BY <1>0, <1>4, Moving DEF TimedOut
<1>5. ASSUME NEW c \in Client, Setnx(c) PROVE IInv'
  <2>1. CASE key = NoValue /\ key' = expire[c] /\ GetLock(c)
    <3>1. Holders = {}
      BY <1>a, <2>1
    <3>2. pc[c] \in Taking /\ expire' = expire
      BY <1>5 DEF Setnx
    <3> QED
      BY <1>0, <2>1, <3>1, <3>2, Entering
  <2>2. CASE Goto(c, "get") /\ UNCHANGED <<key, locked, age>>
    BY <1>0, <1>5, <2>2, Moving DEF Setnx
  <2> QED
    BY <1>5, <2>1, <2>2 DEF Setnx
<1>6. ASSUME NEW c \in Client, Get(c) PROVE IInv'
  BY <1>0, <1>6, Moving DEF Get, NextRound
<1>7. ASSUME NEW c \in Client, GetSet(c) PROVE IInv'
  <2>0. pc[c] = "getSet" /\ key' = expire[c] /\ expire' = expire
    BY <1>7 DEF GetSet
  <2>1. CASE key # NoValue /\ IsTimeExpired(key) /\ GetLock(c)
    <3>1. Holders = {}
      BY <1>a, <2>1
    <3> QED
      BY <1>0, <2>0, <2>1, <3>1, Entering
  <2>2. CASE NextRound(c) /\ UNCHANGED <<locked, age>>
    <3>1. Holders' = Holders /\ c \notin Holders
      BY <1>0, <2>0, <2>2 DEF NextRound, Holders
    <3>2. expire[c] \in Int /\ expire[c] >= LockExpires + 1 - MaxStall
      <4>1. expire[c] >= LockExpires + 1 - age[c] /\ age[c] <= MaxStall
        BY <2>0 DEF IInv, ValueIsFresh, AgesBounded
      <4> QED
        BY <1>0, <4>1, TimeAssumption DEF Times
    <3>3. KeyCoversHolder'
      <4> SUFFICES ASSUME NEW d \in Holders
                   PROVE  /\ key' # NoValue
                          /\ key' >= LockExpires + 1 - MaxStall - age[d]
        BY <2>2, <3>1 DEF KeyCoversHolder
      <4>1. age[d] \in Nat
        BY <1>0 DEF Holders
      <4> QED
        BY <2>0, <3>2, <4>1, NoValueAssumption, TimeAssumption
    <3>4. MutualExclusion'
      BY <3>1 DEF IInv, MutualExclusion
    <3>5. AgesBounded' /\ ValueIsFresh'
      BY <1>0, <2>0, <2>2 DEF NextRound, IInv, AgesBounded, ValueIsFresh
    <3> QED
      BY <1>0, <3>3, <3>4, <3>5 DEF IInv
  <2> QED
    BY <1>7, <2>1, <2>2 DEF GetSet
<1>8. ASSUME NEW c \in Client, FinishWork(c) PROVE IInv'
  BY <1>0, <1>8, Moving DEF FinishWork
<1>9. ASSUME NEW c \in Client, Unlock0(c) PROVE IInv'
  BY <1>0, <1>9, Moving DEF Unlock0
<1>10. ASSUME NEW c \in Client, Unlock0Throws(c) PROVE IInv'
  BY <1>0, <1>10, Moving DEF Unlock0Throws
<1>11. ASSUME NEW c \in Client, DoUnlock(c) PROVE IInv'
  <2>1. c \in Holders /\ Holders' = Holders \ {c}
    BY <1>0, <1>11 DEF DoUnlock, Holders
  <2>2. Holders' = {}
    BY <2>1 DEF IInv, MutualExclusion
  <2>3. KeyCoversHolder' /\ MutualExclusion'
    BY <2>2 DEF KeyCoversHolder, MutualExclusion
  <2>4. AgesBounded' /\ ValueIsFresh'
    BY <1>0, <1>11 DEF DoUnlock, IInv, AgesBounded, ValueIsFresh
  <2> QED
    BY <1>0, <2>3, <2>4 DEF IInv
<1>12. ASSUME NEW c \in Client, Crash(c) PROVE IInv'
  BY <1>0, <1>12, Moving DEF Crash
<1>13. CASE UNCHANGED vars
  BY <1>0, <1>13, Moving DEF vars
<1> QED
  BY <1>1, <1>2, <1>3, <1>4, <1>5, <1>6, <1>7, <1>8, <1>9, <1>10, <1>11,
     <1>12, <1>13 DEF Next, Step

\* With quick clients, one client at a time is between the return of tryLock
\* and the end of unlock: for any number of clients, any expiry time, any
\* number of crashes, and in spite of the values that late GETSETs leave.
THEOREM QuickExclusion == ASSUME QuickClients PROVE Spec => []MutualExclusion
<1>1. IInv /\ [Next]_vars => IInv'
  BY IInvNext
<1>2. IInv => MutualExclusion
  BY DEF IInv
<1> QED
  BY <1>1, <1>2, IInvInit, PTL DEF Spec

-----------------------------------------------------------------------------
(* The promise of Mutex.                                                   *)

\* Only Setnx and GetSet let a client in, when nobody is inside.
LEMMA HoldersStep ==
    ASSUME QuickClients, IInv, [Next]_vars
    PROVE  \/ Holders' = Holders
           \/ \E c \in Client : Holders = {} /\ Holders' = {c}
           \/ \E c \in Holders : Holders' = Holders \ {c}
<1> DEFINE Goal == \/ Holders' = Holders
                   \/ \E c \in Client : Holders = {} /\ Holders' = {c}
                   \/ \E c \in Holders : Holders' = Holders \ {c}
<1>0. TypeOK
  BY DEF IInv
<1>a. ASSUME key # NoValue => IsTimeExpired(key) PROVE Holders = {}
  BY <1>a, HeldKeyNotExpired DEF IsTimeExpired
\* A step of c alone that keeps it inside, or outside, or takes it out.
<1>b. ASSUME NEW c \in Client, \A d \in Client : d # c => pc'[d] = pc[d],
             pc'[c] \in Inside => pc[c] \in Inside
      PROVE  Goal
  <2>1. Holders' = Holders \/ (c \in Holders /\ Holders' = Holders \ {c})
    BY <1>b DEF Holders
  <2> QED
    BY <2>1
<1>c. ASSUME NEW c \in Client, Holders = {}, GetLock(c) PROVE Goal
  <2>1. Holders' = {c}
    BY <1>0, <1>c DEF GetLock, Goto, Holders, Inside, TypeOK
  <2> QED
    BY <1>c, <2>1
<1> USE DEF Goto, TypeOK, Inside
<1>1. CASE Tick \/ UNCHANGED vars
  BY <1>1 DEF Tick, vars, Holders
<1>2. ASSUME NEW c \in Client,
             \/ CallTryLock(c) \/ BeginRound(c) \/ TimedOut(c) \/ Get(c) \/ FinishWork(c)
             \/ Unlock0(c) \/ Unlock0Throws(c) \/ DoUnlock(c) \/ Crash(c)
      PROVE  Goal
  <2>1. /\ \A d \in Client : d # c => pc'[d] = pc[d]
        /\ pc'[c] \in Inside => pc[c] \in Inside
    BY <1>0, <1>2 DEF CallTryLock, BeginRound, TimedOut, Get, NextRound, FinishWork, Unlock0,
                      Unlock0Throws, DoUnlock, Crash
  <2> QED
    BY <1>b, <2>1
<1>3. ASSUME NEW c \in Client, Setnx(c) PROVE Goal
  <2>1. CASE key = NoValue /\ GetLock(c)
    BY <1>a, <1>c, <2>1
  <2>2. CASE Goto(c, "get")
    BY <1>0, <1>b, <2>2
  <2> QED
    BY <1>3, <2>1, <2>2 DEF Setnx
<1>4. ASSUME NEW c \in Client, GetSet(c) PROVE Goal
  <2>1. CASE IsTimeExpired(key) /\ GetLock(c)
    BY <1>a, <1>c, <2>1
  <2>2. CASE NextRound(c)
    BY <1>0, <1>b, <2>2 DEF NextRound
  <2> QED
    BY <1>4, <2>1, <2>2 DEF GetSet
<1> QED
  BY <1>1, <1>2, <1>3, <1>4 DEF Next, Step

\* With quick clients the Redis lock, too, keeps the promise of Mutex.
THEOREM QuickMutex == ASSUME QuickClients PROVE Spec => ImplementsMutex
<1>1. Init => Lock!MutexInit
  BY DEF Init, Lock!MutexInit, Holders, Inside
<1>2. IInv /\ [Next]_vars => [Lock!MutexNext]_Holders
  <2> SUFFICES ASSUME IInv, [Next]_vars PROVE [Lock!MutexNext]_Holders
    OBVIOUS
  <2>1. \A c \in Holders : c \in Client
    BY DEF Holders
  <2> QED
    BY <2>1, HoldersStep DEF Lock!MutexNext, Lock!Grant, Lock!Leave
<1>3. IInv /\ [Next]_vars => IInv'
  BY IInvNext
<1> QED
  BY <1>1, <1>2, <1>3, IInvInit, PTL DEF Spec, ImplementsMutex, Lock!MutexSpec

-----------------------------------------------------------------------------
(* The sale.                                                               *)

\* Buyers between decr and sadd.
Paying == {c \in Client : phase[c] = "sadd"}

\* A buyer is on the list only after its purchase.
ListedAreDone == \A c \in clientList : phase[c] \in {"unlock", "done"}

\* A buyer about to decrement, whose lock is its own, has seen a unit that is still there.
StockSeen ==
    /\ prdNum >= 0
    /\ \A c \in Client : phase[c] = "decr" /\ pc[c] = "held" => prdNum > 0

ShopType ==
    /\ prdNum \in Int
    /\ clientList \subseteq Client
    /\ phase \in [Client -> Phases]

-----------------------------------------------------------------------------
(* The lock.                                                               *)

LEMMA LockStep == [SeckillNext]_allVars => [Next]_vars
<1> SUFFICES ASSUME [SeckillNext]_allVars PROVE [Next]_vars
  OBVIOUS
<1>1. ASSUME NEW c \in Client, Buyer(c) PROVE [Next]_vars
  <2>1. CASE CheckStock(c)
    BY <2>1 DEF CheckStock, Next
  <2>2. CASE TryLockStep(c)
    BY <2>2 DEF TryLockStep, Next, Step
  <2>3. CASE UnlockStep(c)
    BY <2>3 DEF UnlockStep, Next, Step
  <2>4. CASE ReadStock(c) \/ Decr(c) \/ Sadd(c) \/ Leave(c)
    BY <2>4 DEF ReadStock, Decr, Sadd, Leave
  <2> QED
    BY <1>1, <2>1, <2>2, <2>3, <2>4 DEF Buyer
<1>2. CASE Tick
  BY <1>2 DEF Next
<1>3. ASSUME NEW c \in Client, Crash(c) PROVE [Next]_vars
  BY <1>3 DEF Next
<1>4. CASE UNCHANGED allVars
  BY <1>4 DEF allVars
<1> QED
  BY <1>1, <1>2, <1>3, <1>4 DEF SeckillNext

\* The sale's threads call the lock as the lock expects to be called.
THEOREM SaleUsesLock == SeckillSpec => Spec
<1>1. SeckillInit => Init
  BY DEF SeckillInit
<1> QED
  BY <1>1, LockStep, PTL DEF SeckillSpec, Spec

\* So the lock excludes in the sale, too.
THEOREM SaleExclusion == ASSUME QuickClients PROVE SeckillSpec => []MutualExclusion
BY SaleUsesLock, QuickExclusion, PTL

-----------------------------------------------------------------------------
(* The shop.                                                               *)

LEMMA ShopTypeNext == ShopType /\ [SeckillNext]_allVars => ShopType'
<1> SUFFICES ASSUME ShopType, [SeckillNext]_allVars PROVE ShopType'
  OBVIOUS
<1> USE DEF ShopType, To, Phases, shop
<1>1. ASSUME NEW c \in Client, Buyer(c) PROVE ShopType'
  <2>1. CASE CheckStock(c)
    BY <2>1 DEF CheckStock
  <2>2. CASE TryLockStep(c)
    BY <2>2 DEF TryLockStep
  <2>3. CASE ReadStock(c) \/ Decr(c) \/ Sadd(c) \/ Leave(c)
    BY <2>3 DEF ReadStock, Decr, Sadd, Leave
  <2>4. CASE UnlockStep(c)
    BY <2>4 DEF UnlockStep
  <2> QED
    BY <1>1, <2>1, <2>2, <2>3, <2>4 DEF Buyer
<1>2. CASE UNCHANGED shop
  BY <1>2
<1> QED
  BY <1>1, <1>2 DEF SeckillNext, allVars

\* Lock and shop keep their types.
THEOREM SaleTypeCorrect == SeckillSpec => []SeckillTypeOK
<1>1. SeckillInit => ShopType
  BY StockAssumption DEF SeckillInit, ShopType, Phases
<1>2. TypeOK /\ ShopType => SeckillTypeOK
  BY DEF SeckillTypeOK, ShopType
<1> QED
  BY <1>1, <1>2, ShopTypeNext, SaleUsesLock, TypeCorrect, PTL DEF SeckillSpec

LEMMA ListedNext == ShopType /\ ListedAreDone /\ [SeckillNext]_allVars => ListedAreDone'
<1> SUFFICES ASSUME ShopType, ListedAreDone, [SeckillNext]_allVars PROVE ListedAreDone'
  OBVIOUS
<1> USE DEF ShopType, ListedAreDone, To, Phases, shop
<1>1. ASSUME NEW c \in Client, Buyer(c) PROVE ListedAreDone'
  BY <1>1 DEF Buyer, CheckStock, TryLockStep, ReadStock, Decr, Sadd, UnlockStep, Leave
<1>2. CASE UNCHANGED shop
  BY <1>2
<1> QED
  BY <1>1, <1>2 DEF SeckillNext, allVars

LEMMA Sizes ==
    ShopType =>
        /\ IsFiniteSet(clientList) /\ IsFiniteSet(Paying)
        /\ Cardinality(clientList) \in Nat /\ Cardinality(Paying) \in Nat
<1>1. ShopType => clientList \subseteq Client /\ Paying \subseteq Client
  BY DEF ShopType, Paying
<1> QED
  BY <1>1, ClientAssumption, FS_Subset, FS_CardinalityType

\* Decr moves a unit from the stock to its buyer, Sadd the buyer to the list.
LEMMA AccountedNext ==
    ShopType /\ ListedAreDone /\ StockAccounted /\ [SeckillNext]_allVars => StockAccounted'
<1> SUFFICES ASSUME ShopType, ListedAreDone, StockAccounted, [SeckillNext]_allVars
             PROVE  StockAccounted'
  OBVIOUS
<1> USE DEF ShopType, To, Phases, shop
<1>0. /\ IsFiniteSet(clientList) /\ IsFiniteSet(Paying)
      /\ Cardinality(clientList) \in Nat /\ Cardinality(Paying) \in Nat
  BY Sizes
<1>a. ASSUME UNCHANGED <<prdNum, clientList>>, Paying' = Paying PROVE StockAccounted'
  BY <1>a DEF StockAccounted, Paying
<1>1. ASSUME NEW c \in Client, Decr(c) PROVE StockAccounted'
  <2>1. c \notin Paying /\ Paying' = Paying \cup {c} /\ prdNum' = prdNum - 1
        /\ clientList' = clientList
    BY <1>1 DEF Decr, Paying
  <2>2. Cardinality(Paying \cup {c}) = Cardinality(Paying) + 1
    BY <1>0, <2>1, FS_AddElement
  <2>3. Cardinality(Paying') = Cardinality(Paying) + 1
    BY <2>1, <2>2
  <2> QED
    BY <1>0, <2>1, <2>3 DEF StockAccounted, Paying
<1>2. ASSUME NEW c \in Client, Sadd(c) PROVE StockAccounted'
  <2>1. /\ c \in Paying /\ Paying' = Paying \ {c} /\ prdNum' = prdNum
        /\ c \notin clientList /\ clientList' = clientList \cup {c}
    BY <1>2 DEF Sadd, Paying, ListedAreDone
  <2>2. /\ Cardinality(Paying \ {c}) = Cardinality(Paying) - 1
        /\ Cardinality(clientList \cup {c}) = Cardinality(clientList) + 1
    BY <1>0, <2>1, FS_AddElement, FS_RemoveElement
  <2>3. /\ Cardinality(Paying') = Cardinality(Paying) - 1
        /\ Cardinality(clientList') = Cardinality(clientList) + 1
    BY <2>1, <2>2
  <2> QED
    BY <1>0, <2>1, <2>3 DEF StockAccounted, Paying
<1>3. ASSUME NEW c \in Client, CheckStock(c) \/ TryLockStep(c) \/ ReadStock(c) \/ UnlockStep(c)
                                 \/ Leave(c)
      PROVE  StockAccounted'
  <2>1. UNCHANGED <<prdNum, clientList>> /\ Paying' = Paying
    BY <1>3 DEF CheckStock, TryLockStep, ReadStock, UnlockStep, Leave, Paying
  <2> QED
    BY <1>a, <2>1
<1>4. CASE UNCHANGED shop
  BY <1>4, <1>a DEF Paying
<1> QED
  BY <1>1, <1>2, <1>3, <1>4 DEF SeckillNext, Buyer, allVars

LEMMA Accounts == SeckillSpec => [](ShopType /\ ListedAreDone /\ StockAccounted)
<1>1. SeckillInit => ShopType /\ ListedAreDone /\ StockAccounted
  <2> SUFFICES ASSUME SeckillInit PROVE ShopType /\ ListedAreDone /\ StockAccounted
    OBVIOUS
  <2>1. ShopType /\ ListedAreDone
    BY StockAssumption DEF SeckillInit, ShopType, Phases, ListedAreDone
  <2>2. clientList = {} /\ Paying = {} /\ prdNum = Stock
    BY DEF SeckillInit, Paying
  <2> QED
    BY <2>1, <2>2, FS_EmptySet, StockAssumption DEF StockAccounted, Paying
<1> QED
  BY <1>1, ShopTypeNext, ListedNext, AccountedNext, PTL DEF SeckillSpec

\* Every unit is in the stock, with a listed buyer, or with one about to be listed, whoever
\* crashes, and even when the lock fails to exclude.
THEOREM AlwaysAccounted == SeckillSpec => []StockAccounted
BY Accounts, PTL

\* The test of ReadStock still holds at Decr, since nobody else is under the lock.
LEMMA StockSeenNext ==
    /\ ShopType /\ TypeOK /\ MutualExclusion /\ StockSeen
    /\ [SeckillNext]_allVars
    => StockSeen'
<1> SUFFICES ASSUME ShopType, TypeOK, MutualExclusion, StockSeen, [SeckillNext]_allVars
             PROVE  StockSeen'
  OBVIOUS
<1> USE DEF ShopType, TypeOK, StockSeen, To, Phases, shop, Goto
<1>1. ASSUME NEW c \in Client, CheckStock(c) PROVE StockSeen'
  BY <1>1 DEF CheckStock, CallTryLock, vars
<1>2. ASSUME NEW c \in Client, TryLockStep(c) PROVE StockSeen'
  BY <1>2 DEF TryLockStep, BeginRound, Setnx, Get, GetSet, GetLock, NextRound, TimedOut
<1>3. ASSUME NEW c \in Client, ReadStock(c) PROVE StockSeen'
  BY <1>3 DEF ReadStock, vars
<1>4. ASSUME NEW c \in Client, Decr(c) PROVE StockSeen'
  <2>1. \A d \in Client : pc[d] = "held" => d = c
    BY <1>4 DEF Decr, MutualExclusion, Holders, Inside
  <2> QED
    BY <1>4, <2>1 DEF Decr, vars
<1>5. ASSUME NEW c \in Client, Sadd(c) \/ Leave(c) PROVE StockSeen'
  BY <1>5 DEF Sadd, Leave, vars
<1>6. ASSUME NEW c \in Client, UnlockStep(c) PROVE StockSeen'
  BY <1>6 DEF UnlockStep, FinishWork, Unlock0, Unlock0Throws, DoUnlock
<1>7. ASSUME NEW c \in Client, Crash(c), UNCHANGED shop PROVE StockSeen'
  BY <1>7 DEF Crash
<1>8. CASE Tick /\ UNCHANGED shop
  BY <1>8 DEF Tick
<1>9. CASE UNCHANGED allVars
  BY <1>9 DEF allVars, vars
<1> QED
  BY <1>1, <1>2, <1>3, <1>4, <1>5, <1>6, <1>7, <1>8, <1>9 DEF SeckillNext, Buyer

\* With quick clients the sale never sells more than it has: for any number of buyers,
\* any stock, any times of the lock, and buyers that die anywhere.
THEOREM SaleNeverOversells == ASSUME QuickClients PROVE SeckillSpec => []NoOversell
<1>1. SeckillInit => StockSeen
  BY StockAssumption DEF SeckillInit, StockSeen
<1>2. ShopType /\ StockAccounted /\ StockSeen => NoOversell
  <2> SUFFICES ASSUME ShopType, StockAccounted, StockSeen PROVE NoOversell
    OBVIOUS
  <2>1. Cardinality(clientList) \in Nat /\ Cardinality(Paying) \in Nat
    BY Sizes
  <2> QED
    BY <2>1, StockAssumption DEF NoOversell, StockSeen, StockAccounted, ShopType, Paying
<1>3. SeckillSpec => []TypeOK
  BY SaleUsesLock, TypeCorrect, PTL
<1> QED
  BY <1>1, <1>2, <1>3, Accounts, SaleExclusion, StockSeenNext, PTL DEF SeckillSpec
=============================================================================
