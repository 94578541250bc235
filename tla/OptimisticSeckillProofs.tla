---------------------- MODULE OptimisticSeckillProofs ----------------------
(***************************************************************************)
(* WATCH/MULTI/EXEC never oversells: for every number of buyers, every     *)
(* stock and every number of failed requests.                              *)
(***************************************************************************)
EXTENDS OptimisticSeckill, FiniteSetTheorems, TLAPS

\* A transaction that Redis will not refuse is based on the current stock.
WatchIsSound ==
    \A c \in Client :
        pc[c] = "exec" /\ watching[c] = "clean" => prdNum[c] = stock /\ stock > 0

\* Buyers on the list or about to be: no more than units sold.
Served == clientList \cup Recording

IInv ==
    /\ TypeOK
    /\ WatchIsSound
    /\ NoOversell

-----------------------------------------------------------------------------

LEMMA TypeInit == Init => TypeOK
BY StockAssumption DEF Init, TypeOK, Labels

LEMMA TypeNext == TypeOK /\ [Next]_vars => TypeOK'
<1> SUFFICES ASSUME TypeOK, [Next]_vars PROVE TypeOK'
  OBVIOUS
<1> USE DEF TypeOK, Goto, Labels, Unwatch
<1>1. ASSUME NEW c \in Client, Watch(c) PROVE TypeOK'
  BY <1>1 DEF Watch
<1>2. ASSUME NEW c \in Client, Get(c) PROVE TypeOK'
  BY <1>2 DEF Get
<1>3. ASSUME NEW c \in Client, NEW n \in Int, SetStock(c, n)
      PROVE  stock' \in Int /\ watching' \in [Client -> {"no", "clean", "dirty"}]
  BY <1>3 DEF SetStock
<1>4. ASSUME NEW c \in Client, Exec(c) PROVE TypeOK'
  <2>1. stock' \in Int /\ watching' \in [Client -> {"no", "clean", "dirty"}]
    BY <1>3, <1>4 DEF Exec
  <2> QED
    BY <1>4, <2>1 DEF Exec
<1>5. ASSUME NEW c \in Client, Sadd(c) PROVE TypeOK'
  BY <1>5 DEF Sadd
<1>6. ASSUME NEW c \in Client, RequestFails(c) PROVE TypeOK'
  <2>1. stock' \in Int /\ watching' \in [Client -> {"no", "clean", "dirty"}]
    BY <1>3, <1>6 DEF RequestFails
  <2>2. clientList' \in SUBSET Client
    BY <1>6 DEF RequestFails
  <2>3. pc' \in [Client -> Labels]
    BY <1>6 DEF RequestFails
  <2>4. faults' \in Nat /\ prdNum' \in [Client -> Int]
    BY <1>6 DEF RequestFails
  <2> QED
    BY <2>1, <2>2, <2>3, <2>4
<1>7. CASE UNCHANGED vars
  BY <1>7 DEF vars
<1> QED
  BY <1>1, <1>2, <1>4, <1>5, <1>6, <1>7 DEF Next, Step

-----------------------------------------------------------------------------

LEMMA ServedFinite ==
    ASSUME TypeOK
    PROVE  IsFiniteSet(Served) /\ Cardinality(Served) \in Nat
<1>1. Served \subseteq Client
  BY DEF Served, Recording, TypeOK
<1> QED
  BY <1>1, ClientAssumption, FS_Subset, FS_CardinalityType

\* Serving nobody new keeps the count within what was sold.
LEMMA NobodyNew ==
    ASSUME TypeOK, TypeOK', NoOversell, Served' \subseteq Served, stock' = stock
    PROVE  NoOversell'
<1>1. Cardinality(Served') <= Cardinality(Served)
  BY ServedFinite, FS_Subset
<1>2. Cardinality(Served) \in Nat /\ Cardinality(Served') \in Nat
  BY ServedFinite, FS_Subset, FS_CardinalityType
<1> QED
  BY <1>1, <1>2, StockAssumption DEF NoOversell, Sold, Served, TypeOK

\* One more served for one more sold.
LEMMA OneSold ==
    ASSUME IInv, TypeOK', NEW c \in Client, pc[c] = "exec", watching[c] = "clean",
           SetStock(c, prdNum[c] - 1), Served' \subseteq Served \cup {c}
    PROVE  NoOversell'
<1>1. stock' = stock - 1 /\ stock > 0
  BY DEF IInv, WatchIsSound, SetStock
<1>2. IsFiniteSet(Served) /\ Cardinality(Served) \in Nat
  BY ServedFinite DEF IInv
<1>3. /\ IsFiniteSet(Served \cup {c})
      /\ Cardinality(Served \cup {c}) <= Cardinality(Served) + 1
  <2>1. /\ IsFiniteSet(Served \cup {c})
        /\ Cardinality(Served \cup {c})
              = IF c \in Served THEN Cardinality(Served) ELSE Cardinality(Served) + 1
    BY <1>2, FS_AddElement
  <2> QED
    BY <1>2, <2>1
<1>4. /\ Cardinality(Served') <= Cardinality(Served \cup {c})
      /\ Cardinality(Served') \in Nat
      /\ Cardinality(Served \cup {c}) \in Nat
  BY <1>3, FS_Subset, FS_CardinalityType
<1>5. Cardinality(Served) <= Stock - stock
  BY DEF IInv, NoOversell, Sold, Served
<1>6. Cardinality(Served') <= Stock - stock'
  BY <1>1, <1>2, <1>3, <1>4, <1>5, StockAssumption DEF IInv, TypeOK
<1> QED
  BY <1>1, <1>6 DEF NoOversell, Sold, Served, IInv, TypeOK

LEMMA IInvInit == Init => IInv
<1> SUFFICES ASSUME Init PROVE IInv
  OBVIOUS
<1>1. clientList \cup Recording = {}
  BY DEF Init, Recording
<1> QED
  BY <1>1, TypeInit, FS_EmptySet, StockAssumption
  DEF Init, IInv, WatchIsSound, NoOversell, Sold

LEMMA IInvNext == IInv /\ [Next]_vars => IInv'
<1> SUFFICES ASSUME IInv, [Next]_vars PROVE IInv'
  OBVIOUS
<1>0. TypeOK /\ TypeOK' /\ NoOversell
  BY TypeNext DEF IInv
<1> USE DEF Goto, TypeOK
<1>1. ASSUME NEW c \in Client, Watch(c) PROVE IInv'
  <2>1. WatchIsSound'
    BY <1>0, <1>1 DEF Watch, IInv, WatchIsSound
  <2>2. Served' \subseteq Served /\ stock' = stock
    BY <1>0, <1>1 DEF Watch, Served, Recording
  <2> QED
    BY <1>0, <2>1, <2>2, NobodyNew DEF IInv
<1>2. ASSUME NEW c \in Client, Get(c) PROVE IInv'
  <2>1. WatchIsSound'
    BY <1>0, <1>2 DEF Get, Unwatch, IInv, WatchIsSound
  <2>2. Served' \subseteq Served /\ stock' = stock
    BY <1>0, <1>2 DEF Get, Served, Recording
  <2> QED
    BY <1>0, <2>1, <2>2, NobodyNew DEF IInv
\* After a write no other connection is still clean.
<1>3. ASSUME NEW c \in Client, NEW n \in Int, SetStock(c, n) PROVE WatchIsSound'
  BY <1>0, <1>3 DEF SetStock, WatchIsSound
<1>4. ASSUME NEW c \in Client, Exec(c) PROVE IInv'
  <2>1. CASE watching[c] = "clean" /\ SetStock(c, prdNum[c] - 1) /\ Goto(c, "sadd")
    <3>1. Served' \subseteq Served \cup {c}
      BY <1>0, <1>4, <2>1 DEF Exec, Served, Recording
    <3>2. pc[c] = "exec" /\ prdNum[c] - 1 \in Int
      BY <1>0, <1>4 DEF Exec
    <3> QED
      BY <1>0, <1>3, <2>1, <3>1, <3>2, OneSold DEF IInv
  <2>2. CASE UNCHANGED stock /\ Unwatch(c) /\ Goto(c, "watch")
    <3>1. WatchIsSound'
      BY <1>0, <1>4, <2>2 DEF Exec, Unwatch, IInv, WatchIsSound
    <3>2. Served' \subseteq Served
      BY <1>0, <1>4, <2>2 DEF Exec, Served, Recording
    <3> QED
      BY <1>0, <2>2, <3>1, <3>2, NobodyNew DEF IInv
  <2> QED
    BY <1>4, <2>1, <2>2 DEF Exec
<1>5. ASSUME NEW c \in Client, Sadd(c) PROVE IInv'
  <2>1. WatchIsSound'
    BY <1>0, <1>5 DEF Sadd, IInv, WatchIsSound
  <2>2. Served' \subseteq Served /\ stock' = stock
    BY <1>0, <1>5 DEF Sadd, Served, Recording
  <2> QED
    BY <1>0, <2>1, <2>2, NobodyNew DEF IInv
<1>6. ASSUME NEW c \in Client, RequestFails(c) PROVE IInv'
  <2>1. pc'[c] \in {"watch", "dead"} /\ \A d \in Client : d # c => pc'[d] = pc[d]
    BY <1>0, <1>6 DEF RequestFails
  <2>2. prdNum' = prdNum
    BY <1>6 DEF RequestFails
  <2>3. CASE pc[c] = "exec" /\ watching[c] = "clean"
             /\ SetStock(c, prdNum[c] - 1) /\ UNCHANGED clientList
    <3>1. Served' \subseteq Served \cup {c} /\ prdNum[c] - 1 \in Int
      BY <1>0, <2>1, <2>3 DEF Served, Recording
    <3> QED
      BY <1>0, <1>3, <2>3, <3>1, OneSold DEF IInv
  <2>4. CASE Unwatch(c) /\ UNCHANGED <<stock, clientList>>
    <3>1. WatchIsSound'
      BY <1>0, <2>1, <2>2, <2>4 DEF Unwatch, IInv, WatchIsSound
    <3>2. Served' \subseteq Served
      BY <2>1, <2>4 DEF Served, Recording
    <3> QED
      BY <1>0, <2>4, <3>1, <3>2, NobodyNew DEF IInv
  <2>5. CASE pc[c] = "sadd" /\ clientList' = clientList \cup {c}
             /\ UNCHANGED <<stock, watching>>
    <3>1. WatchIsSound'
      BY <1>0, <2>1, <2>2, <2>5 DEF IInv, WatchIsSound
    <3>2. Served' \subseteq Served
      BY <2>1, <2>5 DEF Served, Recording
    <3> QED
      BY <1>0, <2>5, <3>1, <3>2, NobodyNew DEF IInv
  <2> QED
    BY <1>6, <2>3, <2>4, <2>5 DEF RequestFails
<1>7. CASE UNCHANGED vars
  BY <1>0, <1>7 DEF vars, IInv, WatchIsSound, NoOversell, Sold, Recording
<1> QED
  BY <1>1, <1>2, <1>4, <1>5, <1>6, <1>7 DEF Next, Step

\* No two buyers are sold the same unit, and the stock never goes below zero:
\* for any number of buyers and failed requests.
THEOREM NeverOversold == Spec => []NoOversell
<1>1. IInv => NoOversell
  BY DEF IInv
<1> QED
  BY <1>1, IInvInit, IInvNext, PTL DEF Spec

-----------------------------------------------------------------------------
(* Units that were sold to nobody.                                         *)

\* Buyers on the list that still buy: their SADD was applied without its reply.
Again == {c \in clientList : pc[c] \notin {"done", "dead"}}

\* Each of them owes a unit, which the unanswered request paid for.
LostInv ==
    Sold + Cardinality(Again) <= Cardinality(clientList) + Cardinality(Recording) + faults

\* The size of a set after c has joined, or left.
LEMMA Joined ==
    ASSUME NEW S \in SUBSET Client, NEW c \in Client, NEW T, T = S \cup {c}
    PROVE  Cardinality(T) = IF c \in S THEN Cardinality(S) ELSE Cardinality(S) + 1
<1>1. IsFiniteSet(S)
  BY ClientAssumption, FS_Subset
<1>2. Cardinality(S \cup {c}) = IF c \in S THEN Cardinality(S) ELSE Cardinality(S) + 1
  BY <1>1, FS_AddElement
<1> QED
  BY <1>2

LEMMA Left ==
    ASSUME NEW S \in SUBSET Client, NEW c \in Client, NEW T, T = S \ {c}
    PROVE  Cardinality(T) = IF c \in S THEN Cardinality(S) - 1 ELSE Cardinality(S)
<1>1. IsFiniteSet(S)
  BY ClientAssumption, FS_Subset
<1>2. Cardinality(S \ {c}) = IF c \in S THEN Cardinality(S) - 1 ELSE Cardinality(S)
  BY <1>1, FS_RemoveElement
<1> QED
  BY <1>2

LEMMA SetTypes ==
    TypeOK => /\ clientList \in SUBSET Client
              /\ Recording \in SUBSET Client
              /\ Again \in SUBSET Client
BY DEF TypeOK, Recording, Again

LEMMA LostNext == IInv /\ LostInv /\ [Next]_vars => LostInv'
<1> SUFFICES ASSUME IInv, LostInv, [Next]_vars PROVE LostInv'
  OBVIOUS
<1>0. TypeOK /\ TypeOK'
  BY TypeNext DEF IInv
<1>a. /\ Cardinality(clientList) \in Nat
      /\ Cardinality(Recording) \in Nat
      /\ Cardinality(Again) \in Nat
  BY <1>0, SetTypes, ClientAssumption, FS_Subset, FS_CardinalityType
<1>b. /\ clientList \in SUBSET Client
      /\ Recording \in SUBSET Client
      /\ Again \in SUBSET Client
  BY <1>0, SetTypes
<1>c. stock \in Int /\ stock' \in Int /\ faults \in Nat /\ faults' \in Nat /\ Stock \in Nat
  BY <1>0, StockAssumption DEF TypeOK
<1>d. ASSUME NEW c \in Client, Again' = Again \/ Again' = Again \ {c}
      PROVE  Cardinality(Again') \in Nat /\ Cardinality(Again') <= Cardinality(Again)
  <2>1. IsFiniteSet(Again) /\ Again' \subseteq Again
    BY <1>b, <1>d, ClientAssumption, FS_Subset
  <2> QED
    BY <2>1, FS_Subset, FS_CardinalityType
\* A successful transaction takes one unit.
<1>e. ASSUME NEW c \in Client, pc[c] = "exec", watching[c] = "clean", SetStock(c, prdNum[c] - 1)
      PROVE  stock' = stock - 1
  BY <1>e DEF IInv, WatchIsSound, SetStock
<1> USE DEF Goto, Again, Recording
<1>1. ASSUME NEW c \in Client, Watch(c) PROVE LostInv'
  <2>1. UNCHANGED <<stock, clientList, faults>> /\ Again' = Again /\ Recording' = Recording
    BY <1>0, <1>1 DEF Watch, TypeOK
  <2> QED
    BY <2>1 DEF LostInv, Sold
<1>2. ASSUME NEW c \in Client, Get(c) PROVE LostInv'
  <2>1. /\ UNCHANGED <<stock, clientList, faults>> /\ Recording' = Recording
        /\ Again' = Again \/ Again' = Again \ {c}
    BY <1>0, <1>2 DEF Get, TypeOK
  <2> HIDE DEF Again, Recording
  <2>2. Cardinality(Again') \in Nat /\ Cardinality(Again') <= Cardinality(Again)
    BY <1>d, <2>1
  <2> QED
    BY <1>a, <1>c, <2>1, <2>2 DEF LostInv, Sold
<1>3. ASSUME NEW c \in Client, Exec(c) PROVE LostInv'
  <2>1. CASE watching[c] = "clean"
    <3>1. /\ stock' = stock - 1 /\ UNCHANGED <<clientList, faults>>
          /\ Recording' = Recording \cup {c} /\ c \notin Recording /\ Again' = Again
      BY <1>0, <1>3, <1>e, <2>1 DEF Exec, TypeOK
    <3> HIDE DEF Again, Recording
    <3>2. Cardinality(Recording') = Cardinality(Recording) + 1
      BY <1>b, <3>1, Joined
    <3> QED
      BY <1>a, <1>c, <3>1, <3>2 DEF LostInv, Sold
  <2>2. CASE watching[c] # "clean"
    <3>1. UNCHANGED <<stock, clientList, faults>> /\ Again' = Again /\ Recording' = Recording
      BY <1>0, <1>3, <2>2 DEF Exec, TypeOK
    <3> QED
      BY <3>1 DEF LostInv, Sold
  <2> QED
    BY <2>1, <2>2
<1>4. ASSUME NEW c \in Client, Sadd(c) PROVE LostInv'
  <2>1. /\ UNCHANGED <<stock, faults>> /\ clientList' = clientList \cup {c}
        /\ Recording' = Recording \ {c} /\ c \in Recording
        /\ Again' = Again \ {c} /\ (c \in Again <=> c \in clientList)
    BY <1>0, <1>4 DEF Sadd, TypeOK
  <2> HIDE DEF Again, Recording
  <2>2. Cardinality(Recording') = Cardinality(Recording) - 1
    BY <1>b, <2>1, Left
  <2>3. Cardinality(clientList') = Cardinality(clientList) + (IF c \in clientList THEN 0 ELSE 1)
    BY <1>a, <1>b, <2>1, Joined
  <2>4. Cardinality(Again') = Cardinality(Again) - (IF c \in clientList THEN 1 ELSE 0)
    BY <1>a, <1>b, <2>1, Left
  <2> QED
    BY <1>a, <1>c, <2>1, <2>2, <2>3, <2>4 DEF LostInv, Sold
<1>5. ASSUME NEW c \in Client, RequestFails(c) PROVE LostInv'
  <2>0. /\ faults' = faults + 1 /\ pc[c] \in {"watch", "get", "exec", "sadd"}
        /\ pc'[c] \in {"watch", "dead"} /\ \A d \in Client : d # c => pc'[d] = pc[d]
    BY <1>0, <1>5 DEF RequestFails, TypeOK
  <2>1. CASE UNCHANGED <<stock, clientList>>
    <3>1. Recording' = Recording \ {c} /\ (Again' = Again \/ Again' = Again \ {c})
      BY <1>0, <2>0, <2>1 DEF TypeOK
    <3> HIDE DEF Again, Recording
    <3>2. Cardinality(Again') \in Nat /\ Cardinality(Again') <= Cardinality(Again)
      BY <1>d, <3>1
    <3>3. Cardinality(Recording') \in Nat /\ Cardinality(Recording') >= Cardinality(Recording) - 1
      BY <1>a, <1>b, <3>1, Left, <1>0, ClientAssumption, FS_Subset, FS_CardinalityType
    <3> QED
      BY <1>a, <1>c, <2>0, <2>1, <3>2, <3>3 DEF LostInv, Sold
  <2>2. CASE pc[c] = "exec" /\ stock' = stock - 1 /\ UNCHANGED clientList
    <3>1. Recording' = Recording /\ (Again' = Again \/ Again' = Again \ {c})
      BY <1>0, <2>0, <2>2 DEF TypeOK
    <3> HIDE DEF Again, Recording
    <3>2. Cardinality(Again') \in Nat /\ Cardinality(Again') <= Cardinality(Again)
      BY <1>d, <3>1
    <3> QED
      BY <1>a, <1>c, <2>0, <2>2, <3>1, <3>2 DEF LostInv, Sold
  <2>3. CASE pc[c] = "sadd" /\ clientList' = clientList \cup {c} /\ UNCHANGED stock
    <3>1. /\ Recording' = Recording \ {c} /\ c \in Recording
          /\ c \in Again <=> c \in clientList
          /\ Again' = Again \cup {c} \/ Again' = Again \ {c}
      BY <1>0, <2>0, <2>3 DEF TypeOK
    <3> HIDE DEF Again, Recording
    <3>2. Cardinality(Recording') = Cardinality(Recording) - 1
      BY <1>b, <3>1, Left
    <3>3. Cardinality(clientList')
             = Cardinality(clientList) + (IF c \in clientList THEN 0 ELSE 1)
      BY <1>a, <1>b, <2>3, Joined
    <3>4. /\ Cardinality(Again') \in Int
          /\ Cardinality(Again') <= Cardinality(Again) + (IF c \in clientList THEN 0 ELSE 1)
      <4>1. CASE Again' = Again \cup {c}
        BY <1>a, <1>b, <3>1, <4>1, Joined
      <4>2. CASE Again' = Again \ {c}
        BY <1>a, <1>b, <3>1, <4>2, Left
      <4> QED
        BY <3>1, <4>1, <4>2
    <3> QED
      BY <1>a, <1>c, <2>0, <2>3, <3>2, <3>3, <3>4 DEF LostInv, Sold
  <2> QED
    BY <1>5, <1>e, <2>1, <2>2, <2>3 DEF RequestFails
<1>6. CASE UNCHANGED vars
  BY <1>6 DEF vars, LostInv, Sold
<1> QED
  BY <1>1, <1>2, <1>3, <1>4, <1>5, <1>6 DEF Next, Step

\* Every unit that left the stock and is on nobody's account was lost by a failed
\* request of its own: for any number of buyers, units and failures.
THEOREM LossesExplained == Spec => []LostUnitsFromFaults
<1>1. Init => LostInv
  <2> SUFFICES ASSUME Init PROVE LostInv
    OBVIOUS
  <2>1. Again = {} /\ Recording = {} /\ clientList = {} /\ faults = 0 /\ stock = Stock
    BY DEF Init, Again, Recording
  <2> QED
    BY <2>1, FS_EmptySet, StockAssumption DEF LostInv, Sold
<1>2. IInv /\ LostInv => LostUnitsFromFaults
  <2> SUFFICES ASSUME IInv, LostInv PROVE LostUnitsFromFaults
    OBVIOUS
  <2>1. {Cardinality(clientList), Cardinality(Recording), Cardinality(Again), faults} \subseteq Nat
        /\ Sold \in Int
    BY SetTypes, ClientAssumption, FS_Subset, FS_CardinalityType, StockAssumption
    DEF IInv, TypeOK, Sold
  <2> QED
    BY <2>1 DEF LostInv, LostUnitsFromFaults
<1> QED
  BY <1>1, <1>2, IInvInit, IInvNext, LostNext, PTL DEF Spec
=============================================================================
