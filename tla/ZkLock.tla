------------------------------- MODULE ZkLock -------------------------------
(***************************************************************************)
(* DistributeLearning, lock/zookeeper/ZookeeperDistributeLock.java (and    *)
(* its twin BaseDistributedLock.java): a lock on ephemeral sequential      *)
(* znodes.  A client creates a node under rootPath, lists the children,    *)
(* and has the lock when its node is the smallest; otherwise it watches    *)
(* the node just before its own and waits on a CountDownLatch.             *)
(*                                                                         *)
(* A znode is its sequence number.  One action is one request to the       *)
(* ZooKeeper server together with the local code up to the next request,   *)
(* so that the steps of other clients interleave exactly where the code    *)
(* gives them room: between getChildren, exists and latch.await.           *)
(* The service itself (sequence counter, ephemeral nodes, one-shot         *)
(* watches, sessions, lost replies) is external.                           *)
(***************************************************************************)
EXTENDS Integers, FiniteSets

CONSTANTS
    Client,       \* the processes running main(), one ZooKeeper session each
    NoPath,       \* null: no path, no predecessor
    MaxRetry,     \* MAX_RETRY_COUNT
    MaxWait,      \* the time given to lock(time, unit), in clock ticks
    Modes,        \* how lock is called: TRUE lock(time, unit), FALSE lock()
    MaxRounds,    \* bound: iterations of main's loop per client
    MaxFaults,    \* bound: requests whose reply is lost (ConnectionLoss)
    MaxExpiries   \* bound: sessions the server expires

ASSUME NoPathAssumption == NoPath \notin Nat
ASSUME BoundAssumption ==
    /\ MaxRetry \in Nat
    /\ MaxWait \in Nat \ {0}
    /\ Modes \subseteq BOOLEAN
    /\ MaxRounds \in Nat
    /\ MaxFaults \in Nat
    /\ MaxExpiries \in Nat

VARIABLES
    \* the ZooKeeper service
    nextSeq,      \* the parent's sequence counter
    eph,          \* eph[c]: the ephemeral nodes of c's session
    alive,        \* alive[c]: the server still keeps c's session
    watch,        \* watch[c]: the node the current latch's watcher sits on
    faults,       \* lost replies so far
    \* a client process
    pc,           \* where main / attemptLock / waitToLock stands
    path,         \* currentLockPath
    pred,         \* pathToWatch
    latch,        \* "up", "notified" (event on its way) or "down"
    timed,        \* millisToWait # null
    left,         \* what is left of millisToWait
    retry,        \* retryCount
    thrown,       \* waitToLock is leaving by its exception
    round         \* iterations of main's loop begun

server  == <<nextSeq, eph, alive, faults>>
watcher == <<watch, latch>>
budget  == <<timed, retry, round>>
vars    == <<server, watcher, budget, pc, path, pred, left, thrown>>

Labels == {"idle", "create", "children", "exists", "await", "cleanup",
           "held", "unlock"}

TypeOK ==
    /\ nextSeq \in Nat
    /\ eph \in [Client -> SUBSET Nat]
    /\ alive \in [Client -> BOOLEAN]
    /\ watch \in [Client -> Nat \cup {NoPath}]
    /\ faults \in Nat
    /\ pc \in [Client -> Labels]
    /\ path \in [Client -> Nat \cup {NoPath}]
    /\ pred \in [Client -> Nat \cup {NoPath}]
    /\ latch \in [Client -> {"up", "notified", "down"}]
    /\ timed \in [Client -> BOOLEAN]
    /\ left \in [Client -> Nat]
    /\ retry \in [Client -> Nat]
    /\ thrown \in [Client -> BOOLEAN]
    /\ round \in [Client -> Nat]

-----------------------------------------------------------------------------
(* Helpers.                                                                *)

\* zooKeeper.getChildren(rootPath, false)
Children == UNION {eph[c] : c \in Client}

\* Mutant of IsFirst: "ourIndex >= 0".
IsListed(p) == p \in Children

\* getSortedChildren().indexOf(p) = 0
IsFirst(p) == p \in Children /\ \A n \in Children : p <= n

\* children.get(ourIndex - 1)
IsPredecessor(q, p) ==
    /\ q \in Children
    /\ q < p
    /\ \A n \in Children : n < p => n <= q

Goto(c, label) == pc' = [pc EXCEPT ![c] = label]

\* A request of c ends in an exception: always once the session has expired,
\* or because the reply was lost.
RequestFails(c) ==
    IF alive[c]
      THEN faults < MaxFaults /\ faults' = faults + 1
      ELSE faults' = faults

\* The znodes S are deleted: a watch on one of them becomes an event.
Deleted(S) ==
    /\ latch' = [d \in Client |-> IF watch[d] \in S THEN "notified" ELSE latch[d]]
    /\ watch' = [d \in Client |-> IF watch[d] \in S THEN NoPath ELSE watch[d]]

\* attemptLock's catch: another attempt, or the exception leaves lock() and
\* main's finally calls unLock().
CatchInAttemptLock(c) ==
    /\ thrown' = [thrown EXCEPT ![c] = FALSE]
    /\ IF retry[c] < MaxRetry
         THEN /\ retry' = [retry EXCEPT ![c] = @ + 1]
              /\ Goto(c, "create")
         ELSE /\ retry' = retry
              /\ Goto(c, "unlock")

-----------------------------------------------------------------------------
(* The client program.                                                     *)

\* main: the next iteration calls lock() or lock(time, unit).
CallLock(c) ==
    /\ pc[c] = "idle"
    /\ round[c] < MaxRounds
    /\ round' = [round EXCEPT ![c] = @ + 1]
    /\ \E t \in Modes : /\ timed' = [timed EXCEPT ![c] = t]
                       /\ left' = [left EXCEPT ![c] = IF t THEN MaxWait ELSE 0]
    /\ retry' = [retry EXCEPT ![c] = 0]
    /\ Goto(c, "create")
    /\ UNCHANGED <<server, watcher, path, pred, thrown>>

\* createLockNode: the server appends the counter to the node's name.
CreateLockNode(c) ==
    /\ pc[c] = "create"
    /\ alive[c]
    /\ eph' = [eph EXCEPT ![c] = @ \cup {nextSeq}]
    /\ path' = [path EXCEPT ![c] = nextSeq]
    /\ nextSeq' = nextSeq + 1
    /\ Goto(c, "children")
    /\ UNCHANGED <<alive, faults, watcher, budget, pred, left, thrown>>

\* create throws.  With the session alive the node may exist all the same:
\* only the reply with its name was lost, and currentLockPath is not set.
CreateLockNodeFails(c) ==
    /\ pc[c] = "create"
    /\ RequestFails(c)
    /\ \/ UNCHANGED <<nextSeq, eph>>
       \/ /\ alive[c]
          /\ eph' = [eph EXCEPT ![c] = @ \cup {nextSeq}]
          /\ nextSeq' = nextSeq + 1
    /\ CatchInAttemptLock(c)
    /\ UNCHANGED <<alive, watcher, timed, round, path, pred, left>>

\* waitToLock: getSortedChildren and the decision on ourIndex.
GetChildren(c) ==
    /\ pc[c] = "children"
    /\ alive[c]
    /\ path[c] \in Children
    /\ \/ /\ IsFirst(path[c])
          /\ Goto(c, "held")
          /\ UNCHANGED pred
       \/ /\ \E q \in Children : /\ IsPredecessor(q, path[c])
                                 /\ pred' = [pred EXCEPT ![c] = q]
          /\ Goto(c, "exists")
    /\ UNCHANGED <<server, watcher, budget, path, left, thrown>>

\* getChildren throws, or ourIndex < 0: to waitToLock's catch and finally.
GetChildrenFails(c) ==
    /\ pc[c] = "children"
    /\ \/ RequestFails(c)
       \/ path[c] \notin Children /\ faults' = faults
    /\ thrown' = [thrown EXCEPT ![c] = TRUE]
    /\ Goto(c, "cleanup")
    /\ UNCHANGED <<nextSeq, eph, alive, watcher, budget, path, pred, left>>

\* exists(previousSequencePath, previousListener) on a fresh latch.  Its
\* result is dropped; on a missing node the watcher waits for a NodeCreated,
\* which it ignores.  Then the timed branch: the time is up, or await.
WatchPredecessor(c) ==
    /\ pc[c] = "exists"
    /\ alive[c]
    /\ latch' = [latch EXCEPT ![c] = "up"]
    /\ watch' = [watch EXCEPT ![c] = IF pred[c] \in Children THEN pred[c] ELSE NoPath]
    /\ Goto(c, IF timed[c] /\ left[c] = 0 THEN "cleanup" ELSE "await")
    /\ UNCHANGED <<server, budget, path, pred, left, thrown>>

WatchPredecessorFails(c) ==
    /\ pc[c] = "exists"
    /\ RequestFails(c)
    /\ thrown' = [thrown EXCEPT ![c] = TRUE]
    /\ Goto(c, "cleanup")
    /\ UNCHANGED <<nextSeq, eph, alive, watcher, budget, path, pred, left>>

\* Mutant of AwaitReturns: the predecessor is gone, so the lock is ours, as the
\* comment at line 152 has it, without another look at the children.
AwaitReturnsWithLock(c) ==
    /\ pc[c] = "await"
    /\ latch[c] = "down" \/ timed[c]
    /\ Goto(c, IF latch[c] = "down" THEN "held" ELSE "children")
    /\ UNCHANGED <<server, watcher, budget, path, pred, left, thrown>>

\* Mutant of AwaitReturns: the wait of a timed call has no limit either.
AwaitReturnsOnEvent(c) ==
    /\ pc[c] = "await"
    /\ latch[c] = "down"
    /\ Goto(c, "children")
    /\ UNCHANGED <<server, watcher, budget, path, pred, left, thrown>>

\* latch.await() returns: the latch is down, or (timed) the wait, given in
\* MICROSECONDS, is over.  Both go round the loop.
AwaitReturns(c) ==
    /\ pc[c] = "await"
    /\ latch[c] = "down" \/ timed[c]
    /\ Goto(c, "children")
    /\ UNCHANGED <<server, watcher, budget, path, pred, left, thrown>>

\* waitToLock's finally with doDelete: unLock(), whose exceptions are
\* swallowed, then the exception goes on or FALSE is returned.
LeaveWaitToLock(c) ==
    IF thrown[c]
      THEN CatchInAttemptLock(c)
      ELSE UNCHANGED <<thrown, retry>> /\ Goto(c, "unlock")

DeleteOwnNode(c) ==
    /\ eph' = [eph EXCEPT ![c] = @ \ {path[c]}]
    /\ Deleted(eph[c] \cap {path[c]})

\* unLock(): the node is deleted, or the request fails (applied or not).
Delete(c) ==
    \/ /\ alive[c]
       /\ DeleteOwnNode(c)
       /\ UNCHANGED faults
    \/ /\ RequestFails(c)
       /\ UNCHANGED <<eph, watcher>>
    \/ /\ alive[c]
       /\ RequestFails(c)
       /\ DeleteOwnNode(c)

CleanUp(c) ==
    /\ pc[c] = "cleanup"
    /\ Delete(c)
    /\ LeaveWaitToLock(c)
    /\ UNCHANGED <<nextSeq, alive, timed, round, path, pred, left>>

\* Mutant of FinishWork: no finally around the work.
FinishWorkKeepsNode(c) ==
    /\ pc[c] = "held"
    /\ Goto(c, "idle")
    /\ UNCHANGED <<server, watcher, budget, path, pred, left, thrown>>

\* main: the work under the lock (Thread.sleep(5000)) ends.
FinishWork(c) ==
    /\ pc[c] = "held"
    /\ Goto(c, "unlock")
    /\ UNCHANGED <<server, watcher, budget, path, pred, left, thrown>>

\* main's finally, also after an exception or a timeout of lock.
UnLock(c) ==
    /\ pc[c] = "unlock"
    /\ Delete(c)
    /\ Goto(c, "idle")
    /\ UNCHANGED <<nextSeq, alive, budget, path, pred, left, thrown>>

-----------------------------------------------------------------------------
(* The environment.                                                        *)

\* The NodeDeleted event reaches previousListener.process: countDown.
DeliverEvent(c) ==
    /\ latch[c] = "notified"
    /\ latch' = [latch EXCEPT ![c] = "down"]
    /\ UNCHANGED <<server, watch, budget, pc, path, pred, left, thrown>>

\* System.currentTimeMillis() moves on for a timed lock call.
Tick(c) ==
    /\ timed[c]
    /\ pc[c] \in {"children", "exists", "await"}
    /\ left[c] > 0
    /\ left' = [left EXCEPT ![c] = @ - 1]
    /\ UNCHANGED <<server, watcher, budget, pc, path, pred, thrown>>

\* The server expires c's session: its nodes go, its watches with them.
\* The client keeps its handle, every later request throws, and an event
\* not delivered yet is lost.
ExpireSession(c) ==
    /\ alive[c]
    /\ Cardinality({d \in Client : ~alive[d]}) < MaxExpiries
    /\ alive' = [alive EXCEPT ![c] = FALSE]
    /\ eph' = [eph EXCEPT ![c] = {}]
    /\ latch' = [d \in Client |->
                   IF d = c THEN IF latch[c] = "notified" THEN "up" ELSE latch[c]
                   ELSE IF watch[d] \in eph[c] THEN "notified" ELSE latch[d]]
    /\ watch' = [d \in Client |->
                   IF d = c \/ watch[d] \in eph[c] THEN NoPath ELSE watch[d]]
    /\ UNCHANGED <<nextSeq, faults, budget, pc, path, pred, left, thrown>>

-----------------------------------------------------------------------------

Init ==
    /\ nextSeq = 0
    /\ eph = [c \in Client |-> {}]
    /\ alive = [c \in Client |-> TRUE]
    /\ watch = [c \in Client |-> NoPath]
    /\ faults = 0
    /\ pc = [c \in Client |-> "idle"]
    /\ path = [c \in Client |-> NoPath]
    /\ pred = [c \in Client |-> NoPath]
    /\ latch = [c \in Client |-> "up"]
    /\ timed = [c \in Client |-> FALSE]
    /\ left = [c \in Client |-> 0]
    /\ retry = [c \in Client |-> 0]
    /\ thrown = [c \in Client |-> FALSE]
    /\ round = [c \in Client |-> 0]

\* A step of the client's own thread.
Step(c) ==
    \/ CallLock(c)
    \/ CreateLockNode(c)
    \/ CreateLockNodeFails(c)
    \/ GetChildren(c)
    \/ GetChildrenFails(c)
    \/ WatchPredecessor(c)
    \/ WatchPredecessorFails(c)
    \/ AwaitReturns(c)
    \/ CleanUp(c)
    \/ FinishWork(c)
    \/ UnLock(c)

Next == \E c \in Client : Step(c) \/ DeliverEvent(c) \/ Tick(c) \/ ExpireSession(c)

Spec == Init /\ [][Next]_vars

\* Each client's thread runs, events arrive, the clock moves.  Sessions need
\* not expire and requests need not fail.
Fairness ==
    \A c \in Client : /\ WF_vars(Step(c))
                      /\ WF_vars(DeliverEvent(c))
                      /\ WF_vars(Tick(c))

FairSpec == Spec /\ Fairness

-----------------------------------------------------------------------------
(* Properties.                                                             *)

\* The clients inside the critical section whose session the server keeps.
\* (A client that lost its session goes on believing until its next request.)
Holders == {c \in Client : pc[c] = "held" /\ alive[c]}

\* At most one client with a live session is inside the critical section,
\* whatever replies were lost and sessions expired (waitToLock line 143).
MutualExclusion == \A c, d \in Holders : c = d

\* tryLock(): the answer of ourIndex == 0 on a fresh list.
TryLock(c) == IsFirst(path[c])

\* While c works under the lock its node stays the smallest: no later create,
\* no retry and no orphan of a lost reply gets in front of it, and tryLock()
\* would confirm the lock at any moment.
HolderStaysFirst == \A c \in Holders : TryLock(c)

\* A znode nobody will delete any more exists only because a reply was lost:
\* without lost replies every node belongs to a lock call in progress, and
\* each lost reply leaves at most one orphan (attemptLock's retry creates a
\* second node and forgets the first).
Orphans(c) == eph[c] \ (IF pc[c] \in {"idle", "create"} THEN {} ELSE {path[c]})

OrphansFromLostReplies ==
    Cardinality(UNION {Orphans(c) : c \in Client}) <= faults

\* The lock is fair: a client enters the critical section only if no other
\* client with a live session is in the queue with an older node.
NoOvertaking ==
    [][\A c, d \in Client :
         c \in Holders' \ Holders /\ pc[d] \in {"children", "exists", "await"}
           /\ alive[d] /\ d # c => path[c] < path[d]]_vars

\* lock(time, unit) returns, with or without the lock: the early wake-ups of
\* the MICROSECONDS wait make up for a missed NodeDeleted event.
TimedLockReturns ==
    \A c \in Client : (pc[c] = "create" /\ timed[c]) ~> pc[c] \in {"held", "unlock"}

\* ZookeeperDistributeLock.java:163 says of exists(previousSequencePath, ...)
\* "an exception occurs if the node does not exist": so a client that reached
\* latch.await() has a predecessor, or the event of its deletion, to wait for.
AwaitHasPredecessor ==
    \A c \in Client :
        pc[c] = "await" /\ alive[c] => watch[c] # NoPath \/ latch[c] # "up"

\* The interface's promise (module Mutex), with the holders above.
Lock == INSTANCE Mutex WITH holders <- Holders
ImplementsMutex == Lock!MutexSpec
=============================================================================
