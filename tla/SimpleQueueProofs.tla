------------------------- MODULE SimpleQueueProofs -------------------------
(***************************************************************************)
(* Proofs about SimpleQueue, for every set of producers and consumers.     *)
(* The inductive invariant: every element offered is in the queue or       *)
(* returned, never both, and what a poll has still to walk is closed under *)
(* smaller elements, but for the returned ones.                            *)
(***************************************************************************)
EXTENDS SimpleQueue, TLAPS

Offered == 0 .. nextSeq - 1

InQueueOrReturned ==
    /\ nodes \cup returned = Offered
    /\ nodes \cap returned = {}

\* The list a consumer walks has no gap that was not returned.
NoGaps ==
    \A c \in Consumer :
        /\ list[c] \subseteq Offered
        /\ before[c] \subseteq returned
        /\ pc[c] = "read" =>
              \A n \in list[c] : \A m \in 0 .. n - 1 : m \in returned \cup list[c]

\* When a consumer is about to delete an element, all smaller ones were returned.
DeleteIsNext ==
    \A c \in Consumer : pc[c] = "delete" =>
        /\ node[c] \in Offered
        /\ node[c] \notin before[c]
        /\ \A m \in 0 .. node[c] - 1 : m \in returned

IInv == TypeOK /\ InQueueOrReturned /\ NoGaps /\ DeleteIsNext

LEMMA RangeGrows ==
    ASSUME NEW a \in Nat, NEW b \in Nat, a <= b
    PROVE  0 .. a - 1 \subseteq 0 .. b - 1
OBVIOUS

LEMMA InitIInv == Init => IInv
BY ThreadAssumption
   DEF Init, IInv, TypeOK, Offered, InQueueOrReturned, NoGaps, DeleteIsNext, Thread

LEMMA NextIInv == IInv /\ [Next]_vars => IInv'
<1> SUFFICES ASSUME IInv, [Next]_vars PROVE IInv'
  OBVIOUS
<1> USE ThreadAssumption, NoneAssumption DEF IInv, TypeOK, Thread, queue, Goto, Begin
<1>1. ASSUME NEW p \in Producer, CallOffer(p) PROVE IInv'
  BY <1>1 DEF CallOffer, Offered, InQueueOrReturned, NoGaps, DeleteIsNext
<1>2. ASSUME NEW p \in Producer, Offer(p) PROVE IInv'
  <2>1. nextSeq' \in Nat /\ nextSeq <= nextSeq'
    BY <1>2 DEF Offer
  <2>2. Offered \subseteq Offered'
    BY <2>1, RangeGrows DEF Offered
  <2>3. TypeOK'
    BY <1>2, <2>1 DEF Offer
  <2>4. InQueueOrReturned'
    BY <1>2 DEF Offer, Offered, InQueueOrReturned
  <2>5. NoGaps' /\ DeleteIsNext'
    BY <1>2, <2>2 DEF Offer, NoGaps, DeleteIsNext
  <2> QED
    BY <2>3, <2>4, <2>5
<1>3. ASSUME NEW p \in Producer, CreateRoot(p) PROVE IInv'
  BY <1>3 DEF CreateRoot, Offered, InQueueOrReturned, NoGaps, DeleteIsNext
<1>4. ASSUME NEW c \in Consumer, CallPoll(c) PROVE IInv'
  <2>1. \A n \in nodes : \A m \in 0 .. n - 1 : m \in returned \cup nodes
    BY DEF InQueueOrReturned, Offered
  <2> QED
    BY <1>4, <2>1 DEF CallPoll, Offered, InQueueOrReturned, NoGaps, DeleteIsNext
<1>5. ASSUME NEW c \in Consumer, ReadData(c) PROVE IInv'
  <2>1. PICK n \in list[c] : ReadData(c)!2!(n)
    BY <1>5 DEF ReadData
  <2>2. n \in Offered /\ \A m \in 0 .. n - 1 : m \in returned
    BY <1>5, <2>1 DEF ReadData, NoGaps, IsSmallest, Offered
  <2>3. n \in nodes \/ n \in returned
    BY <2>2 DEF InQueueOrReturned
  <2>4. TypeOK' /\ InQueueOrReturned'
    BY <1>5, <2>1, <2>2 DEF ReadData, InQueueOrReturned, Offered
  <2>5. NoGaps'
    BY <1>5, <2>1, <2>3 DEF ReadData, NoGaps, Offered
  <2>6. DeleteIsNext'
    BY <1>5, <2>1, <2>2 DEF ReadData, DeleteIsNext, InQueueOrReturned, NoGaps, Offered
  <2> QED
    BY <2>4, <2>5, <2>6
<1>6. ASSUME NEW c \in Consumer, DeleteAndReturn(c) PROVE IInv'
  BY <1>6 DEF DeleteAndReturn, Offered, InQueueOrReturned, NoGaps, DeleteIsNext
<1>7. CASE UNCHANGED vars
  BY <1>7 DEF vars, Offered, InQueueOrReturned, NoGaps, DeleteIsNext
<1> QED
  BY <1>1, <1>2, <1>3, <1>4, <1>5, <1>6, <1>7 DEF Next

\* No element disappears, however polls overlap.
THEOREM ElementsKept == Spec => []NothingLost
<1>1. IInv => NothingLost
  BY DEF IInv, InQueueOrReturned, NothingLost, Offered
<1> QED
  BY <1>1, InitIInv, NextIInv, PTL DEF Spec

\* Only polls that overlap return the same element.
THEOREM OverlapOnly == Spec => []DuplicatesOnlyByOverlap
<1>1. IInv => DuplicatesOnlyByOverlap
  BY DEF IInv, DeleteIsNext, DuplicatesOnlyByOverlap
<1> QED
  BY <1>1, InitIInv, NextIInv, PTL DEF Spec

\* Elements come out in the order of their nodes, whoever polls them.
THEOREM FirstInFirstOut == Spec => Fifo
<1>1. IInv /\ [Next]_vars =>
        [\A n \in returned' \ returned : \A m \in 0 .. n - 1 : m \in returned]_vars
  <2> SUFFICES ASSUME IInv, Next, NEW n \in returned' \ returned, NEW m \in 0 .. n - 1
               PROVE  m \in returned
    OBVIOUS
  <2>1. PICK c \in Consumer : DeleteAndReturn(c) /\ n = node[c]
    BY DEF Next, CallOffer, Offer, CreateRoot, CallPoll, ReadData, DeleteAndReturn
  <2> QED
    BY <2>1 DEF IInv, DeleteIsNext, DeleteAndReturn
<1> QED
  BY <1>1, InitIInv, NextIInv, PTL DEF Spec, Fifo
=============================================================================
