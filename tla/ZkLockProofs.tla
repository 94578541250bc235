---------------------------- MODULE ZkLockProofs ----------------------------
(***************************************************************************)
(* Proofs about ZkLock, for every set of clients and every bound.  The     *)
(* inductive invariant says why the smallest node cannot be overtaken:     *)
(* the counter only grows, nodes of different sessions are different, and  *)
(* a client past create has its node as long as its session lives.         *)
(***************************************************************************)
EXTENDS ZkLock, FiniteSetTheorems, TLAPS

\* Every existing node was numbered by the counter.
NodesNumbered == \A c \in Client : \A n \in eph[c] : n < nextSeq

\* No node belongs to two sessions.
NodesDisjoint == \A c, d \in Client : c # d => eph[c] \cap eph[d] = {}

\* A client in the queue, or under the lock, still has its node.
QueuedHasNode ==
    \A c \in Client :
        alive[c] /\ pc[c] \in {"children", "exists", "await", "held"}
            => path[c] \in eph[c]

IInv ==
    /\ TypeOK
    /\ NodesNumbered
    /\ NodesDisjoint
    /\ QueuedHasNode
    /\ HolderStaysFirst

-----------------------------------------------------------------------------
(* Type correctness.                                                       *)

LEMMA TypeInit == Init => TypeOK
BY NoPathAssumption, BoundAssumption DEF Init, TypeOK, Labels

\* Deleting nodes keeps watches and latches well typed.
LEMMA DeleteType ==
    ASSUME TypeOK, NEW c \in Client, Delete(c)
    PROVE  /\ eph' \in [Client -> SUBSET Nat]
           /\ faults' \in Nat
           /\ latch' \in [Client -> {"up", "notified", "down"}]
           /\ watch' \in [Client -> Nat \cup {NoPath}]
BY DEF TypeOK, Delete, DeleteOwnNode, Deleted, RequestFails, watcher

\* A failing request charges at most one lost reply.
LEMMA FailType ==
    ASSUME TypeOK, NEW c \in Client, RequestFails(c)
    PROVE  faults' \in Nat
BY DEF TypeOK, RequestFails

LEMMA CatchType ==
    ASSUME TypeOK, NEW c \in Client, CatchInAttemptLock(c)
    PROVE  /\ thrown' \in [Client -> BOOLEAN]
           /\ retry' \in [Client -> Nat]
           /\ pc' \in [Client -> Labels]
BY DEF TypeOK, CatchInAttemptLock, Goto, Labels

LEMMA TypeNext == TypeOK /\ [Next]_vars => TypeOK'
<1> SUFFICES ASSUME TypeOK, [Next]_vars PROVE TypeOK'
  OBVIOUS
<1> USE DEF TypeOK, server, watcher, budget
<1>1. ASSUME NEW c \in Client, CallLock(c) PROVE TypeOK'
  BY <1>1, BoundAssumption DEF CallLock, Goto, Labels
<1>2. ASSUME NEW c \in Client, CreateLockNode(c) PROVE TypeOK'
  BY <1>2 DEF CreateLockNode, Goto, Labels
<1>3. ASSUME NEW c \in Client, CreateLockNodeFails(c) PROVE TypeOK'
  <2>1. faults' \in Nat
    BY <1>3, FailType DEF CreateLockNodeFails
  <2>2. /\ thrown' \in [Client -> BOOLEAN]
        /\ retry' \in [Client -> Nat]
        /\ pc' \in [Client -> Labels]
    BY <1>3, CatchType DEF CreateLockNodeFails
  <2>3. nextSeq' \in Nat /\ eph' \in [Client -> SUBSET Nat]
    BY <1>3 DEF CreateLockNodeFails
  <2> QED
    BY <1>3, <2>1, <2>2, <2>3 DEF CreateLockNodeFails
<1>4. ASSUME NEW c \in Client, GetChildren(c) PROVE TypeOK'
  BY <1>4 DEF GetChildren, Goto, Labels, Children
<1>5. ASSUME NEW c \in Client, GetChildrenFails(c) PROVE TypeOK'
  BY <1>5, FailType DEF GetChildrenFails, Goto, Labels
<1>6. ASSUME NEW c \in Client, WatchPredecessor(c) PROVE TypeOK'
  BY <1>6 DEF WatchPredecessor, Goto, Labels
<1>7. ASSUME NEW c \in Client, WatchPredecessorFails(c) PROVE TypeOK'
  BY <1>7, FailType DEF WatchPredecessorFails, Goto, Labels
<1>8. ASSUME NEW c \in Client, AwaitReturns(c) PROVE TypeOK'
  BY <1>8 DEF AwaitReturns, Goto, Labels
<1>9. ASSUME NEW c \in Client, CleanUp(c) PROVE TypeOK'
  <2>1. /\ eph' \in [Client -> SUBSET Nat]
        /\ faults' \in Nat
        /\ latch' \in [Client -> {"up", "notified", "down"}]
        /\ watch' \in [Client -> Nat \cup {NoPath}]
    BY <1>9, DeleteType DEF CleanUp
  <2>2. /\ thrown' \in [Client -> BOOLEAN]
        /\ retry' \in [Client -> Nat]
        /\ pc' \in [Client -> Labels]
    <3>1. CASE thrown[c]
      BY <1>9, <3>1, CatchType DEF CleanUp, LeaveWaitToLock
    <3>2. CASE ~thrown[c]
      BY <1>9, <3>2 DEF CleanUp, LeaveWaitToLock, Goto, Labels
    <3> QED
      BY <3>1, <3>2
  <2> QED
    BY <1>9, <2>1, <2>2 DEF CleanUp
<1>10. ASSUME NEW c \in Client, FinishWork(c) PROVE TypeOK'
  BY <1>10 DEF FinishWork, Goto, Labels
<1>11. ASSUME NEW c \in Client, UnLock(c) PROVE TypeOK'
  <2>1. /\ eph' \in [Client -> SUBSET Nat]
        /\ faults' \in Nat
        /\ latch' \in [Client -> {"up", "notified", "down"}]
        /\ watch' \in [Client -> Nat \cup {NoPath}]
    BY <1>11, DeleteType DEF UnLock
  <2> QED
    BY <1>11, <2>1 DEF UnLock, Goto, Labels
<1>12. ASSUME NEW c \in Client, DeliverEvent(c) PROVE TypeOK'
  BY <1>12 DEF DeliverEvent
<1>13. ASSUME NEW c \in Client, Tick(c) PROVE TypeOK'
  BY <1>13 DEF Tick
<1>14. ASSUME NEW c \in Client, ExpireSession(c) PROVE TypeOK'
  BY <1>14 DEF ExpireSession
<1>15. CASE UNCHANGED vars
  BY <1>15 DEF vars
<1> QED
  BY <1>1, <1>2, <1>3, <1>4, <1>5, <1>6, <1>7, <1>8, <1>9, <1>10, <1>11,
     <1>12, <1>13, <1>14, <1>15 DEF Next, Step

\* Every variable keeps its type, for every value of the constants.
THEOREM TypeCorrect == Spec => []TypeOK
BY TypeInit, TypeNext, PTL DEF Spec

-----------------------------------------------------------------------------
(* The queue: numbering, ownership and the place of the holder.            *)

\* A request that deletes the node of a client outside the queue takes no
\* node from anybody else.
LEMMA DeleteEffect ==
    ASSUME TypeOK, NEW c \in Client, Delete(c)
    PROVE  \A d \in Client : /\ eph'[d] \subseteq eph[d]
                             /\ d # c => eph'[d] = eph[d]
BY DEF TypeOK, Delete, DeleteOwnNode, watcher

\* The invariant survives a step that creates no node, keeps every path and
\* session, takes nodes only from client c, and leaves c outside the queue.
LEMMA LeavingQueue ==
    ASSUME IInv, TypeOK', NEW c \in Client,
           nextSeq' = nextSeq, path' = path, alive' = alive,
           \A d \in Client : /\ eph'[d] \subseteq eph[d]
                             /\ d # c => eph'[d] = eph[d] /\ pc'[d] = pc[d],
           pc'[c] \notin {"children", "exists", "await", "held"}
    PROVE  IInv'
<1>1. NodesNumbered'
  BY DEF IInv, NodesNumbered
<1>2. NodesDisjoint'
  BY DEF IInv, NodesDisjoint
<1>3. QueuedHasNode'
  BY DEF IInv, QueuedHasNode
<1>4. HolderStaysFirst'
  <2> SUFFICES ASSUME NEW d \in Holders' PROVE TryLock(d)'
    BY DEF HolderStaysFirst
  <2>1. d \in Client /\ d # c /\ d \in Holders
    BY DEF Holders
  <2>2. path[d] \in eph'[d]
    BY <2>1 DEF IInv, QueuedHasNode, Holders
  <2>3. Children' \subseteq Children
    BY DEF Children
  <2>4. \A n \in Children : path[d] <= n
    BY <2>1 DEF IInv, HolderStaysFirst, TryLock, IsFirst
  <2> QED
    BY <2>1, <2>2, <2>3, <2>4 DEF TryLock, IsFirst, Children
<1> QED
  BY <1>1, <1>2, <1>3, <1>4 DEF IInv

\* It also survives a step that leaves the znodes, the paths and the sessions
\* alone and lets no client into the queue or under the lock.
LEMMA MovingInQueue ==
    ASSUME IInv, TypeOK',
           nextSeq' = nextSeq, path' = path, alive' = alive, eph' = eph,
           \A d \in Client :
              /\ pc'[d] = "held" => pc[d] = "held"
              /\ pc'[d] \in {"children", "exists", "await"}
                    => pc[d] \in {"children", "exists", "await"}
    PROVE  IInv'
<1>1. NodesNumbered' /\ NodesDisjoint'
  BY DEF IInv, NodesNumbered, NodesDisjoint
<1>2. QueuedHasNode'
  BY DEF IInv, QueuedHasNode
<1>3. HolderStaysFirst'
  BY DEF IInv, HolderStaysFirst, Holders, TryLock, IsFirst, Children
<1> QED
  BY <1>1, <1>2, <1>3 DEF IInv

\* A node numbered by the counter sorts after every existing one, so nobody
\* loses its place.
LEMMA NewNode ==
    ASSUME IInv, TypeOK', NEW c \in Client,
           eph' = [eph EXCEPT ![c] = @ \cup {nextSeq}],
           nextSeq' = nextSeq + 1, alive' = alive,
           pc[c] = "create", pc'[c] # "held",
           \A d \in Client : d # c => pc'[d] = pc[d] /\ path'[d] = path[d],
           pc'[c] \in {"children", "exists", "await"} => path'[c] = nextSeq
    PROVE  IInv'
<1> USE DEF IInv, TypeOK
<1>1. NodesNumbered'
  BY DEF NodesNumbered
<1>2. NodesDisjoint'
  BY DEF NodesDisjoint, NodesNumbered
<1>3. QueuedHasNode'
  BY DEF QueuedHasNode
<1>4. HolderStaysFirst'
  <2> SUFFICES ASSUME NEW d \in Holders' PROVE TryLock(d)'
    BY DEF HolderStaysFirst
  <2>1. d \in Client /\ d # c /\ d \in Holders /\ path'[d] = path[d]
    BY DEF Holders
  <2>2. path[d] \in eph[d] /\ path[d] \in Nat /\ path[d] < nextSeq
    BY <2>1 DEF QueuedHasNode, Holders, NodesNumbered
  <2>3. Children' = Children \cup {nextSeq}
    BY DEF Children
  <2>4. path[d] \in Children /\ \A n \in Children : path[d] <= n
    BY <2>1 DEF HolderStaysFirst, TryLock, IsFirst
  <2> QED
    BY <2>1, <2>2, <2>3, <2>4 DEF TryLock, IsFirst
<1> QED
  BY <1>1, <1>2, <1>3, <1>4

LEMMA IInvInit == Init => IInv
<1>1. Init => NodesNumbered /\ NodesDisjoint /\ QueuedHasNode
  BY DEF Init, NodesNumbered, NodesDisjoint, QueuedHasNode
<1>2. Init => HolderStaysFirst
  BY DEF Init, HolderStaysFirst, Holders
<1> QED
  BY <1>1, <1>2, TypeInit DEF IInv

LEMMA IInvNext == IInv /\ [Next]_vars => IInv'
<1> SUFFICES ASSUME IInv, [Next]_vars PROVE IInv'
  OBVIOUS
<1>0. TypeOK /\ TypeOK'
  BY TypeNext DEF IInv
<1> USE <1>0
<1> USE DEF server, watcher, budget
<1>1. ASSUME NEW c \in Client, CallLock(c) PROVE IInv'
  BY <1>1, MovingInQueue DEF CallLock, Goto, TypeOK
<1>2. ASSUME NEW c \in Client, CreateLockNode(c) PROVE IInv'
  BY <1>2, NewNode DEF CreateLockNode, Goto, TypeOK
<1>3. ASSUME NEW c \in Client, CreateLockNodeFails(c) PROVE IInv'
  <2>1. /\ pc[c] = "create"
        /\ pc'[c] \in {"create", "unlock"}
        /\ \A d \in Client : d # c => pc'[d] = pc[d]
        /\ path' = path /\ alive' = alive
    BY <1>3 DEF CreateLockNodeFails, CatchInAttemptLock, Goto, TypeOK
  <2>2. CASE UNCHANGED <<nextSeq, eph>>
    BY <2>1, <2>2, MovingInQueue
  <2>3. CASE ~UNCHANGED <<nextSeq, eph>>
    BY <1>3, <2>1, <2>3, NewNode DEF CreateLockNodeFails
  <2> QED
    BY <2>2, <2>3
<1>4. ASSUME NEW c \in Client, GetChildren(c) PROVE IInv'
  <2>1. UNCHANGED <<nextSeq, eph, alive, path>>
    BY <1>4 DEF GetChildren
  <2>2. CASE IsFirst(path[c]) /\ Goto(c, "held")
    <3>1. NodesNumbered' /\ NodesDisjoint' /\ QueuedHasNode'
      BY <1>4, <2>1, <2>2
      DEF GetChildren, Goto, TypeOK, IInv, NodesNumbered, NodesDisjoint, QueuedHasNode
    <3>2. Holders' \subseteq Holders \cup {c}
      BY <1>4, <2>1, <2>2 DEF Holders, Goto, TypeOK
    <3>3. HolderStaysFirst'
      BY <2>1, <2>2, <3>2 DEF IInv, HolderStaysFirst, TryLock, IsFirst, Children
    <3> QED
      BY <3>1, <3>3 DEF IInv
  <2>3. CASE Goto(c, "exists")
    BY <1>4, <2>1, <2>3, MovingInQueue DEF GetChildren, Goto, TypeOK
  <2> QED
    BY <1>4, <2>2, <2>3 DEF GetChildren
<1>5. ASSUME NEW c \in Client, GetChildrenFails(c) PROVE IInv'
  BY <1>5, MovingInQueue DEF GetChildrenFails, Goto, TypeOK
<1>6. ASSUME NEW c \in Client, WatchPredecessor(c) PROVE IInv'
  BY <1>6, MovingInQueue DEF WatchPredecessor, Goto, TypeOK
<1>7. ASSUME NEW c \in Client, WatchPredecessorFails(c) PROVE IInv'
  BY <1>7, MovingInQueue DEF WatchPredecessorFails, Goto, TypeOK
<1>8. ASSUME NEW c \in Client, AwaitReturns(c) PROVE IInv'
  BY <1>8, MovingInQueue DEF AwaitReturns, Goto, TypeOK
<1>9. ASSUME NEW c \in Client, CleanUp(c) PROVE IInv'
  <2>1. \A d \in Client : eph'[d] \subseteq eph[d] /\ (d # c => eph'[d] = eph[d])
    BY <1>9, DeleteEffect DEF CleanUp
  <2>2. pc'[c] \in {"create", "unlock"} /\ \A d \in Client : d # c => pc'[d] = pc[d]
    BY <1>9 DEF CleanUp, LeaveWaitToLock, CatchInAttemptLock, Goto, TypeOK
  <2>3. UNCHANGED <<nextSeq, path, alive>>
    BY <1>9 DEF CleanUp
  <2> QED
    BY <2>1, <2>2, <2>3, LeavingQueue
<1>10. ASSUME NEW c \in Client, FinishWork(c) PROVE IInv'
  BY <1>10, MovingInQueue DEF FinishWork, Goto, TypeOK
<1>11. ASSUME NEW c \in Client, UnLock(c) PROVE IInv'
  <2>1. \A d \in Client : eph'[d] \subseteq eph[d] /\ (d # c => eph'[d] = eph[d])
    BY <1>11, DeleteEffect DEF UnLock
  <2>2. pc'[c] = "idle" /\ \A d \in Client : d # c => pc'[d] = pc[d]
    BY <1>11 DEF UnLock, Goto, TypeOK
  <2>3. UNCHANGED <<nextSeq, path, alive>>
    BY <1>11 DEF UnLock
  <2> QED
    BY <2>1, <2>2, <2>3, LeavingQueue
<1>12. ASSUME NEW c \in Client, DeliverEvent(c) PROVE IInv'
  BY <1>12, MovingInQueue DEF DeliverEvent
<1>13. ASSUME NEW c \in Client, Tick(c) PROVE IInv'
  BY <1>13, MovingInQueue DEF Tick
<1>14. ASSUME NEW c \in Client, ExpireSession(c) PROVE IInv'
  <2>1. /\ \A d \in Client : eph'[d] \subseteq eph[d] /\ (d # c => eph'[d] = eph[d])
        /\ ~alive'[c]
        /\ \A d \in Client : d # c => alive'[d] = alive[d]
        /\ UNCHANGED <<nextSeq, path, pc>>
    BY <1>14 DEF ExpireSession, TypeOK
  <2>2. NodesNumbered' /\ NodesDisjoint' /\ QueuedHasNode'
    BY <2>1 DEF IInv, NodesNumbered, NodesDisjoint, QueuedHasNode
  <2>3. HolderStaysFirst'
    <3> SUFFICES ASSUME NEW d \in Holders' PROVE TryLock(d)'
      BY DEF HolderStaysFirst
    <3>1. d \in Client /\ d # c /\ d \in Holders
      BY <2>1 DEF Holders
    <3>2. path[d] \in eph'[d] /\ Children' \subseteq Children
      BY <2>1, <3>1 DEF IInv, QueuedHasNode, Holders, Children
    <3>3. \A n \in Children : path[d] <= n
      BY <3>1 DEF IInv, HolderStaysFirst, TryLock, IsFirst
    <3> QED
      BY <2>1, <3>1, <3>2, <3>3 DEF TryLock, IsFirst, Children
  <2> QED
    BY <2>2, <2>3 DEF IInv
<1>15. CASE UNCHANGED vars
  BY <1>15, MovingInQueue DEF vars
<1> QED
  BY <1>1, <1>2, <1>3, <1>4, <1>5, <1>6, <1>7, <1>8, <1>9, <1>10, <1>11,
     <1>12, <1>13, <1>14, <1>15 DEF Next, Step

LEMMA IInvAlways == Spec => []IInv
BY IInvInit, IInvNext, PTL DEF Spec

\* A holder's node is the smallest for as long as it works under the lock.
THEOREM HolderFirst == Spec => []HolderStaysFirst
<1>1. IInv => HolderStaysFirst
  BY DEF IInv
<1> QED
  BY <1>1, IInvAlways, PTL

-----------------------------------------------------------------------------
(* The results.                                                            *)

\* Two smallest nodes are one node, and one node has one owner.
LEMMA FirstIsUnique ==
    ASSUME IInv, NEW c \in Client, alive[c], IsFirst(path[c]),
           pc[c] \in {"children", "held"}, NEW d \in Holders
    PROVE  c = d
<1>1. IsFirst(path[d]) /\ d \in Client
  BY DEF IInv, HolderStaysFirst, TryLock, Holders
<1>2. path[c] \in eph[c] /\ path[d] \in eph[d]
  BY DEF IInv, QueuedHasNode, Holders
<1>3. path[c] \in Nat /\ path[d] \in Nat
  BY <1>1, <1>2 DEF IInv, TypeOK
<1>4. path[c] = path[d]
  BY <1>1, <1>3 DEF IsFirst
<1> QED
  BY <1>1, <1>2, <1>4 DEF IInv, NodesDisjoint

\* At most one client with a live session holds the lock: whatever the number
\* of clients, retries, lost replies and expired sessions.
THEOREM Exclusion == Spec => []MutualExclusion
<1>1. IInv => MutualExclusion
  <2> SUFFICES ASSUME IInv, NEW c \in Holders, NEW d \in Holders PROVE c = d
    BY DEF MutualExclusion
  <2>1. c \in Client /\ alive[c] /\ pc[c] = "held" /\ IsFirst(path[c])
    BY DEF Holders, IInv, HolderStaysFirst, TryLock
  <2> QED
    BY <2>1, FirstIsUnique
<1> QED
  BY <1>1, IInvAlways, PTL

\* Only GetChildren lets a client in, and then nobody else is inside; only
\* FinishWork and ExpireSession let one out.
LEMMA HoldersStep ==
    ASSUME IInv, [Next]_vars
    PROVE  \/ Holders' = Holders
           \/ \E c \in Client : /\ Holders = {}
                                /\ Holders' = {c}
                                /\ alive[c] /\ pc[c] = "children"
                                /\ IsFirst(path[c]) /\ UNCHANGED <<eph, path>>
           \/ \E c \in Holders : Holders' = Holders \ {c}
<1> DEFINE Goal == \/ Holders' = Holders
                   \/ \E c \in Client : /\ Holders = {}
                                        /\ Holders' = {c}
                                        /\ alive[c] /\ pc[c] = "children"
                                        /\ IsFirst(path[c]) /\ UNCHANGED <<eph, path>>
                   \/ \E c \in Holders : Holders' = Holders \ {c}
<1> USE DEF server, watcher, budget
<1>0. TypeOK
  BY DEF IInv
\* Most steps take no client to or from the label "held".
<1>a. ASSUME NEW c \in Client, alive' = alive,
             pc[c] # "held", pc'[c] # "held",
             \A d \in Client : d # c => pc'[d] = pc[d]
      PROVE  Goal
  BY <1>a DEF Holders
<1>1. ASSUME NEW c \in Client, CallLock(c) PROVE Goal
  BY <1>0, <1>1, <1>a DEF CallLock, Goto, TypeOK
<1>2. ASSUME NEW c \in Client, CreateLockNode(c) PROVE Goal
  BY <1>0, <1>2, <1>a DEF CreateLockNode, Goto, TypeOK
<1>3. ASSUME NEW c \in Client, CreateLockNodeFails(c) PROVE Goal
  BY <1>0, <1>3, <1>a DEF CreateLockNodeFails, CatchInAttemptLock, Goto, TypeOK
<1>4. ASSUME NEW c \in Client, GetChildren(c) PROVE Goal
  <2>1. CASE IsFirst(path[c]) /\ Goto(c, "held")
    <3>1. alive[c] /\ pc[c] = "children" /\ UNCHANGED <<alive, eph, path>>
      BY <1>4 DEF GetChildren
    <3>2. Holders = {}
      <4> SUFFICES ASSUME NEW d \in Holders PROVE FALSE
        OBVIOUS
      <4>1. c = d
        BY <2>1, <3>1, FirstIsUnique
      <4> QED
        BY <3>1, <4>1 DEF Holders
    <3>3. Holders' = Holders \cup {c}
      BY <1>0, <2>1, <3>1 DEF Holders, Goto, TypeOK
    <3> QED
      BY <2>1, <3>1, <3>2, <3>3
  <2>2. CASE Goto(c, "exists")
    BY <1>0, <1>4, <2>2, <1>a DEF GetChildren, Goto, TypeOK
  <2> QED
    BY <1>4, <2>1, <2>2 DEF GetChildren
<1>5. ASSUME NEW c \in Client, GetChildrenFails(c) PROVE Goal
  BY <1>0, <1>5, <1>a DEF GetChildrenFails, Goto, TypeOK
<1>6. ASSUME NEW c \in Client, WatchPredecessor(c) PROVE Goal
  BY <1>0, <1>6, <1>a DEF WatchPredecessor, Goto, TypeOK
<1>7. ASSUME NEW c \in Client, WatchPredecessorFails(c) PROVE Goal
  BY <1>0, <1>7, <1>a DEF WatchPredecessorFails, Goto, TypeOK
<1>8. ASSUME NEW c \in Client, AwaitReturns(c) PROVE Goal
  BY <1>0, <1>8, <1>a DEF AwaitReturns, Goto, TypeOK
<1>9. ASSUME NEW c \in Client, CleanUp(c) PROVE Goal
  BY <1>0, <1>9, <1>a DEF CleanUp, LeaveWaitToLock, CatchInAttemptLock, Goto, TypeOK
<1>10. ASSUME NEW c \in Client, FinishWork(c) PROVE Goal
  <2>1. /\ pc[c] = "held" /\ pc'[c] = "unlock" /\ alive' = alive
        /\ \A d \in Client : d # c => pc'[d] = pc[d]
    BY <1>0, <1>10 DEF FinishWork, Goto, TypeOK
  <2>2. Holders' = Holders \ {c}
    BY <2>1 DEF Holders
  <2> QED
    BY <2>2
<1>11. ASSUME NEW c \in Client, UnLock(c) PROVE Goal
  BY <1>0, <1>11, <1>a DEF UnLock, Goto, TypeOK
<1>12. ASSUME NEW c \in Client, DeliverEvent(c) PROVE Goal
  BY <1>12 DEF DeliverEvent, Holders
<1>13. ASSUME NEW c \in Client, Tick(c) PROVE Goal
  BY <1>13 DEF Tick, Holders
<1>14. ASSUME NEW c \in Client, ExpireSession(c) PROVE Goal
  <2>1. /\ pc' = pc /\ ~alive'[c]
        /\ \A d \in Client : d # c => alive'[d] = alive[d]
    BY <1>0, <1>14 DEF ExpireSession, TypeOK
  <2>2. Holders' = Holders \ {c}
    BY <2>1 DEF Holders
  <2> QED
    BY <2>2
<1>15. CASE UNCHANGED vars
  BY <1>15 DEF vars, Holders
<1> QED
  BY <1>1, <1>2, <1>3, <1>4, <1>5, <1>6, <1>7, <1>8, <1>9, <1>10, <1>11,
     <1>12, <1>13, <1>14, <1>15 DEF Next, Step

\* The lock keeps the promise of DistributedLock.java: it implements Mutex.
THEOREM Refinement == Spec => ImplementsMutex
<1>1. Init => Lock!MutexInit
  BY DEF Init, Lock!MutexInit, Holders
<1>2. IInv /\ [Next]_vars => [Lock!MutexNext]_Holders
  <2> SUFFICES ASSUME IInv, [Next]_vars PROVE [Lock!MutexNext]_Holders
    OBVIOUS
  <2>1. Holders \subseteq Client
    BY DEF Holders
  <2> QED
    BY <2>1, HoldersStep DEF Lock!MutexNext, Lock!Grant, Lock!Leave
<1> QED
  BY <1>1, <1>2, IInvAlways, PTL DEF Spec, ImplementsMutex, Lock!MutexSpec

\* The lock is granted in the order in which the nodes were created.
THEOREM FirstComeFirstServed == Spec => NoOvertaking
<1> DEFINE Fair == \A c, d \in Client :
        c \in Holders' \ Holders /\ pc[d] \in {"children", "exists", "await"}
          /\ alive[d] /\ d # c => path[c] < path[d]
<1>1. IInv /\ [Next]_vars => [Fair]_vars
  <2> SUFFICES ASSUME IInv, [Next]_vars,
                      NEW c \in Client, NEW d \in Client,
                      c \in Holders' \ Holders,
                      pc[d] \in {"children", "exists", "await"},
                      alive[d], d # c
               PROVE  path[c] < path[d]
    OBVIOUS
  <2>1. alive[c] /\ pc[c] = "children" /\ IsFirst(path[c])
    BY HoldersStep
  <2>2. path[c] \in eph[c] /\ path[d] \in eph[d] /\ path[c] \in Nat /\ path[d] \in Nat
    BY <2>1 DEF IInv, QueuedHasNode, TypeOK
  <2>3. path[c] # path[d]
    BY <2>2 DEF IInv, NodesDisjoint
  <2>4. path[c] <= path[d]
    BY <2>1, <2>2 DEF IsFirst, Children
  <2> QED
    BY <2>2, <2>3, <2>4
<1> QED
  BY <1>1, IInvAlways, PTL DEF Spec, NoOvertaking

-----------------------------------------------------------------------------
(* Nodes that nobody will delete any more.                                 *)

\* An expired session has no nodes left.
ExpiredHasNone == \A c \in Client : ~alive[c] => eph[c] = {}

AllOrphans == UNION {Orphans(c) : c \in Client}

OrphanInv ==
    /\ TypeOK
    /\ ExpiredHasNone
    /\ IsFiniteSet(AllOrphans)
    /\ OrphansFromLostReplies

\* A step leaves an orphan only when a reply is lost, and then one.
OrphanStep ==
    \/ AllOrphans' \subseteq AllOrphans /\ faults' \in Nat /\ faults' >= faults
    \/ \E n \in Nat : AllOrphans' \subseteq AllOrphans \cup {n} /\ faults' = faults + 1

\* A step of c touches no other session, so that only c's orphans count.
LEMMA OwnOrphans ==
    ASSUME TypeOK, NEW c \in Client,
           \A d \in Client \ {c} : Orphans(d)' \subseteq Orphans(d),
           \/ Orphans(c)' \subseteq Orphans(c) /\ faults' \in Nat /\ faults' >= faults
           \/ \E n \in Nat : Orphans(c)' \subseteq Orphans(c) \cup {n} /\ faults' = faults + 1
    PROVE  OrphanStep
<1>1. CASE Orphans(c)' \subseteq Orphans(c) /\ faults' \in Nat /\ faults' >= faults
  <2>1. AllOrphans' \subseteq AllOrphans
    BY <1>1 DEF AllOrphans
  <2> QED
    BY <1>1, <2>1 DEF OrphanStep
<1>2. ASSUME NEW n \in Nat, Orphans(c)' \subseteq Orphans(c) \cup {n}, faults' = faults + 1
      PROVE  OrphanStep
  <2>1. AllOrphans' \subseteq AllOrphans \cup {n}
    BY <1>2 DEF AllOrphans
  <2> QED
    BY <1>2, <2>1 DEF OrphanStep
<1> QED
  BY <1>1, <1>2

\* unLock() leaves at most the node whose deletion was not answered.
LEMMA DeleteOrphans ==
    ASSUME TypeOK, ExpiredHasNone, NEW c \in Client, Delete(c), UNCHANGED <<path, alive>>,
           pc[c] \notin {"idle", "create"}, \A d \in Client \ {c} : pc'[d] = pc[d]
    PROVE  OrphanStep
<1> USE DEF TypeOK
<1>1. \A d \in Client \ {c} : Orphans(d)' \subseteq Orphans(d)
  BY DeleteEffect DEF Orphans
<1>2. Orphans(c) = eph[c] \ {path[c]} /\ Orphans(c)' \subseteq eph'[c]
  BY DEF Orphans
<1>3. CASE eph'[c] = eph[c] \ {path[c]} /\ faults' = faults
  BY <1>1, <1>2, <1>3, OwnOrphans
<1>4. CASE alive[c] /\ RequestFails(c) /\ eph'[c] \subseteq eph[c]
  <2>1. faults' = faults + 1
    BY <1>4 DEF RequestFails
  <2>2. CASE path[c] \in Nat
    BY <1>1, <1>2, <1>4, <2>1, <2>2, OwnOrphans
  <2>3. CASE path[c] = NoPath
    BY <1>1, <1>2, <1>4, <2>1, <2>3, OwnOrphans, NoPathAssumption
  <2> QED
    BY <2>2, <2>3
<1>5. CASE ~alive[c] /\ eph'[c] = eph[c] /\ faults' = faults
  BY <1>1, <1>2, <1>5, OwnOrphans DEF ExpiredHasNone
<1> QED
  BY <1>3, <1>4, <1>5 DEF Delete, DeleteOwnNode, RequestFails, watcher

LEMMA ExpiredNext == TypeOK /\ ExpiredHasNone /\ [Next]_vars => ExpiredHasNone'
<1> SUFFICES ASSUME TypeOK, ExpiredHasNone, [Next]_vars PROVE ExpiredHasNone'
  OBVIOUS
<1> USE DEF TypeOK, ExpiredHasNone, server, watcher, budget
<1>1. ASSUME NEW c \in Client, CreateLockNode(c) \/ CreateLockNodeFails(c) PROVE ExpiredHasNone'
  BY <1>1 DEF CreateLockNode, CreateLockNodeFails
<1>2. ASSUME NEW c \in Client, CleanUp(c) \/ UnLock(c) PROVE ExpiredHasNone'
  BY <1>2, DeleteEffect DEF CleanUp, UnLock
<1>3. ASSUME NEW c \in Client, ExpireSession(c) PROVE ExpiredHasNone'
  BY <1>3 DEF ExpireSession
<1>4. CASE UNCHANGED <<eph, alive>>
  BY <1>4
<1> QED
  BY <1>1, <1>2, <1>3, <1>4
  DEF Next, Step, vars, CallLock, GetChildren, GetChildrenFails, WatchPredecessor,
      WatchPredecessorFails, AwaitReturns, FinishWork, DeliverEvent, Tick

LEMMA OrphanNext == TypeOK /\ ExpiredHasNone /\ [Next]_vars => OrphanStep
<1> SUFFICES ASSUME TypeOK, ExpiredHasNone, [Next]_vars PROVE OrphanStep
  OBVIOUS
<1> USE DEF TypeOK, server, watcher, budget
<1>1. ASSUME NEW c \in Client, CallLock(c) PROVE OrphanStep
  BY <1>1, OwnOrphans DEF CallLock, Goto, Orphans
<1>2. ASSUME NEW c \in Client, CreateLockNode(c) PROVE OrphanStep
  BY <1>2, OwnOrphans DEF CreateLockNode, Goto, Orphans
<1>3. ASSUME NEW c \in Client, CreateLockNodeFails(c) PROVE OrphanStep
  <2>1. \A d \in Client \ {c} : Orphans(d)' \subseteq Orphans(d)
    BY <1>3 DEF CreateLockNodeFails, CatchInAttemptLock, Goto, Orphans
  <2>2. Orphans(c)' \subseteq eph'[c] /\ Orphans(c) = eph[c]
    BY <1>3 DEF CreateLockNodeFails, Orphans
  <2>3. CASE eph' = eph
    BY <1>3, <2>1, <2>2, <2>3, OwnOrphans DEF CreateLockNodeFails, RequestFails
  <2>4. CASE alive[c] /\ eph' = [eph EXCEPT ![c] = @ \cup {nextSeq}]
    BY <1>3, <2>1, <2>2, <2>4, OwnOrphans DEF CreateLockNodeFails, RequestFails
  <2> QED
    BY <1>3, <2>3, <2>4 DEF CreateLockNodeFails
<1>4. ASSUME NEW c \in Client, CleanUp(c) PROVE OrphanStep
  BY <1>4, DeleteOrphans DEF CleanUp, LeaveWaitToLock, CatchInAttemptLock, Goto
<1>5. ASSUME NEW c \in Client, UnLock(c) PROVE OrphanStep
  BY <1>5, DeleteOrphans DEF UnLock, Goto
<1>6. ASSUME NEW c \in Client, ExpireSession(c) PROVE OrphanStep
  BY <1>6, OwnOrphans DEF ExpireSession, Orphans
\* The other steps move a client that has its node.
<1>7. ASSUME UNCHANGED <<eph, path>>, faults' \in Nat, faults' >= faults,
             \A c \in Client : pc'[c] \in {"idle", "create"} => pc[c] \in {"idle", "create"}
      PROVE  OrphanStep
  <2>1. \A c \in Client : Orphans(c)' \subseteq Orphans(c)
    BY <1>7 DEF Orphans
  <2> QED
    BY <1>7, <2>1 DEF OrphanStep, AllOrphans
<1>8. ASSUME NEW c \in Client, GetChildren(c) \/ AwaitReturns(c) \/ FinishWork(c)
                                 \/ WatchPredecessor(c)
      PROVE  OrphanStep
  BY <1>7, <1>8 DEF GetChildren, AwaitReturns, FinishWork, WatchPredecessor, Goto
<1>9. ASSUME NEW c \in Client, GetChildrenFails(c) \/ WatchPredecessorFails(c) PROVE OrphanStep
  BY <1>7, <1>9 DEF GetChildrenFails, WatchPredecessorFails, RequestFails, Goto
<1>10. ASSUME NEW c \in Client, DeliverEvent(c) \/ Tick(c) PROVE OrphanStep
  BY <1>7, <1>10 DEF DeliverEvent, Tick
<1>11. CASE UNCHANGED vars
  BY <1>7, <1>11 DEF vars
<1> QED
  BY <1>1, <1>2, <1>3, <1>4, <1>5, <1>6, <1>8, <1>9, <1>10, <1>11 DEF Next, Step

\* Every znode left behind is the work of a lost reply, one each, for any number of
\* clients, retries and expired sessions.
THEOREM OrphansBounded == Spec => []OrphansFromLostReplies
<1>1. Init => OrphanInv
  <2> SUFFICES ASSUME Init PROVE OrphanInv
    OBVIOUS
  <2>1. AllOrphans = {}
    BY DEF Init, AllOrphans, Orphans
  <2> QED
    BY <2>1, TypeInit, FS_EmptySet
    DEF Init, OrphanInv, ExpiredHasNone, OrphansFromLostReplies, AllOrphans
<1>2. OrphanInv /\ [Next]_vars => OrphanInv'
  <2> SUFFICES ASSUME OrphanInv, [Next]_vars PROVE OrphanInv'
    OBVIOUS
  <2>1. TypeOK' /\ ExpiredHasNone' /\ OrphanStep
    BY TypeNext, ExpiredNext, OrphanNext DEF OrphanInv
  <2>2. IsFiniteSet(AllOrphans) /\ Cardinality(AllOrphans) <= faults
    BY DEF OrphanInv, OrphansFromLostReplies, AllOrphans
  <2>3. faults \in Nat /\ faults' \in Nat /\ Cardinality(AllOrphans) \in Nat
    BY <2>1, <2>2, FS_CardinalityType DEF OrphanInv, TypeOK
  <2>4. IsFiniteSet(AllOrphans') /\ Cardinality(AllOrphans') <= faults'
    <3>1. CASE AllOrphans' \subseteq AllOrphans /\ faults' >= faults
      <4>1. /\ IsFiniteSet(AllOrphans') /\ Cardinality(AllOrphans') \in Nat
            /\ Cardinality(AllOrphans') <= Cardinality(AllOrphans)
        BY <2>2, <3>1, FS_Subset, FS_CardinalityType
      <4> QED
        BY <2>2, <2>3, <3>1, <4>1
    <3>2. ASSUME NEW n \in Nat, AllOrphans' \subseteq AllOrphans \cup {n}, faults' = faults + 1
          PROVE  IsFiniteSet(AllOrphans') /\ Cardinality(AllOrphans') <= faults'
      <4>1. /\ IsFiniteSet(AllOrphans \cup {n})
            /\ Cardinality(AllOrphans \cup {n}) \in Nat
            /\ Cardinality(AllOrphans \cup {n}) <= Cardinality(AllOrphans) + 1
        <5>1. /\ IsFiniteSet(AllOrphans \cup {n})
              /\ Cardinality(AllOrphans \cup {n})
                    = IF n \in AllOrphans THEN Cardinality(AllOrphans)
                      ELSE Cardinality(AllOrphans) + 1
          BY <2>2, FS_AddElement
        <5> QED
          BY <2>3, <5>1
      <4>2. /\ IsFiniteSet(AllOrphans') /\ Cardinality(AllOrphans') \in Nat
            /\ Cardinality(AllOrphans') <= Cardinality(AllOrphans \cup {n})
        BY <3>2, <4>1, FS_Subset, FS_CardinalityType
      <4> QED
        BY <2>2, <2>3, <3>2, <4>1, <4>2
    <3> QED
      BY <2>1, <3>1, <3>2 DEF OrphanStep
  <2> QED
    BY <2>1, <2>4 DEF OrphanInv, OrphansFromLostReplies, AllOrphans
<1>3. OrphanInv => OrphansFromLostReplies
  BY DEF OrphanInv
<1> QED
  BY <1>1, <1>2, <1>3, PTL DEF Spec
=============================================================================
