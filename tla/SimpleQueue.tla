---------------------------- MODULE SimpleQueue ----------------------------
(***************************************************************************)
(* DistributeLearning, queue/DistributedSimpleQueue.java: a queue on       *)
(* persistent sequential znodes.  offer creates a node (and the root, if   *)
(* it is missing); poll lists the children, walks them in order, reads the *)
(* first that is still there, deletes it and returns it.  The four         *)
(* requests of one poll interleave with those of other consumers.          *)
(*                                                                         *)
(* An element is the sequence number of its node.  ZkClient is external:   *)
(* readData throws ZkNoNodeException on a missing node, delete returns     *)
(* false on it, and both retry until they are connected.                   *)
(***************************************************************************)
EXTENDS Naturals, FiniteSets

CONSTANTS
    Producer,    \* threads that call offer
    Consumer,    \* threads that call poll
    None,        \* no element
    MaxOffers,   \* bound: calls of offer per producer
    MaxPolls     \* bound: calls of poll per consumer

ASSUME ThreadAssumption == Producer \cap Consumer = {}
ASSUME BoundAssumption == MaxOffers \in Nat /\ MaxPolls \in Nat
ASSUME NoneAssumption == None \notin Nat

VARIABLES
    root,        \* the root node exists
    nextSeq,     \* its sequence counter
    nodes,       \* its children
    pc,          \* where offer or poll stands
    list,        \* per consumer: what is left of the sorted list to walk
    node,        \* per consumer: the element read
    calls,       \* calls begun, per thread
    returned,    \* history: the elements poll returned
    before       \* history: per consumer, returned when its poll began

queue == <<root, nextSeq, nodes>>
vars  == <<queue, pc, list, node, calls, returned, before>>

Thread == Producer \cup Consumer

TypeOK ==
    /\ root \in BOOLEAN
    /\ nextSeq \in Nat
    /\ nodes \in SUBSET Nat
    /\ pc \in [Thread -> {"idle", "offer", "createRoot", "read", "delete"}]
    /\ list \in [Consumer -> SUBSET Nat]
    /\ node \in [Consumer -> Nat \cup {None}]
    /\ calls \in [Thread -> Nat]
    /\ returned \in SUBSET Nat
    /\ before \in [Consumer -> SUBSET Nat]

-----------------------------------------------------------------------------

Goto(t, label) == pc' = [pc EXCEPT ![t] = label]

Begin(t, limit) ==
    /\ pc[t] = "idle"
    /\ calls[t] < limit
    /\ calls' = [calls EXCEPT ![t] = @ + 1]

\* Mutant of IsSmallest: the children are not sorted.
IsAny(n, S) == n \in S

\* Collections.sort(list) by getNodeNumber: n comes first.
IsSmallest(n, S) == n \in S /\ \A m \in S : n <= m

-----------------------------------------------------------------------------
(* Producers.                                                              *)

CallOffer(p) ==
    /\ Begin(p, MaxOffers)
    /\ Goto(p, "offer")
    /\ UNCHANGED <<queue, list, node, returned, before>>

\* createPersistentSequential, or its ZkNoNodeException.
Offer(p) ==
    /\ pc[p] = "offer"
    /\ \/ /\ root
          /\ nodes' = nodes \cup {nextSeq}
          /\ nextSeq' = nextSeq + 1
          /\ Goto(p, "idle")
       \/ /\ ~root
          /\ Goto(p, "createRoot")
          /\ UNCHANGED <<nodes, nextSeq>>
    /\ UNCHANGED <<root, list, node, calls, returned, before>>

\* In the catch clause: createPersistent(root), then offer(element) again.
\* When another producer was faster the ZkNodeExistsException leaves offer,
\* and the element is not in the queue.
CreateRoot(p) ==
    /\ pc[p] = "createRoot"
    /\ root' = TRUE
    /\ Goto(p, IF root THEN "idle" ELSE "offer")
    /\ UNCHANGED <<nextSeq, nodes, list, node, calls, returned, before>>

-----------------------------------------------------------------------------
(* Consumers.                                                              *)

\* poll: getChildren.  An empty list returns null, a missing root throws.
CallPoll(c) ==
    /\ Begin(c, MaxPolls)
    /\ list' = [list EXCEPT ![c] = nodes]
    /\ before' = [before EXCEPT ![c] = returned]
    /\ Goto(c, IF nodes = {} THEN "idle" ELSE "read")
    /\ UNCHANGED <<queue, node, returned>>

\* readData of the next node; ZkNoNodeException moves on to the one after it,
\* and after the last one null is returned.
ReadData(c) ==
    /\ pc[c] = "read"
    /\ \E n \in list[c] :
          /\ IsSmallest(n, list[c])
          /\ list' = [list EXCEPT ![c] = @ \ {n}]
          /\ \/ /\ n \in nodes
                /\ node' = [node EXCEPT ![c] = n]
                /\ Goto(c, "delete")
             \/ /\ n \notin nodes
                /\ UNCHANGED node
                /\ Goto(c, IF list[c] = {n} THEN "idle" ELSE "read")
    /\ UNCHANGED <<queue, calls, returned, before>>

\* Mutant of DeleteAndReturn: the delete is forgotten.
ReturnWithoutDelete(c) ==
    /\ pc[c] = "delete"
    /\ returned' = returned \cup {node[c]}
    /\ Goto(c, "idle")
    /\ UNCHANGED <<queue, list, node, calls, before>>

\* Mutant of DeleteAndReturn: the first node of the queue goes, whichever was read.
DeleteFirst(c) ==
    /\ pc[c] = "delete"
    /\ nodes' = {n \in nodes : \E m \in nodes : m < n}
    /\ returned' = returned \cup {node[c]}
    /\ Goto(c, "idle")
    /\ UNCHANGED <<root, nextSeq, list, node, calls, before>>

\* delete(nodeFullPath), whose result is not looked at, and return node.
DeleteAndReturn(c) ==
    /\ pc[c] = "delete"
    /\ nodes' = nodes \ {node[c]}
    /\ returned' = returned \cup {node[c]}
    /\ Goto(c, "idle")
    /\ UNCHANGED <<root, nextSeq, list, node, calls, before>>

-----------------------------------------------------------------------------

Init ==
    /\ root \in BOOLEAN
    /\ nextSeq = 0
    /\ nodes = {}
    /\ pc = [t \in Thread |-> "idle"]
    /\ list = [c \in Consumer |-> {}]
    /\ node = [c \in Consumer |-> None]
    /\ calls = [t \in Thread |-> 0]
    /\ returned = {}
    /\ before = [c \in Consumer |-> {}]

Next ==
    \/ \E p \in Producer : CallOffer(p) \/ Offer(p) \/ CreateRoot(p)
    \/ \E c \in Consumer : CallPoll(c) \/ ReadData(c) \/ DeleteAndReturn(c)

Spec == Init /\ [][Next]_vars

-----------------------------------------------------------------------------
(* Properties.                                                             *)

\* An element is in the queue until some poll returns it: two polls that read
\* the same node do not make a third element disappear (lines 96 to 98).
NothingLost == \A n \in 0 .. nextSeq - 1 : n \in nodes \/ n \in returned

\* First in, first out across all consumers: when a poll returns an element,
\* every element offered earlier has been returned, by whichever consumer.
Fifo ==
    [][\A n \in returned' \ returned : \A m \in 0 .. n - 1 : m \in returned]_vars

\* Two polls may return the same element (delete tells nobody), but only two
\* that overlap: what a poll is about to return was not yet returned when
\* the poll began.
DuplicatesOnlyByOverlap ==
    \A c \in Consumer : pc[c] = "delete" => node[c] \notin before[c]
=============================================================================
