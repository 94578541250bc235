------------------------- MODULE FeedDispatchProofs -------------------------
(***************************************************************************)
(* Proofs about FeedDispatch, for every set of feeds and tasks.  The       *)
(* inductive invariant says whose a file is: only the task inside the      *)
(* synchronized block holds a feed, the file of that feed is where the     *)
(* task's step expects it, and what the task still has to do lies in       *)
(* OUTGOING.                                                               *)
(***************************************************************************)
EXTENDS FeedDispatch, FiniteSetTheorems, TLAPS

Inside == Labels \ {"idle", "queued"}
InSubmitFeed == Inside \ {"loop"}

\* Only the owner of DISPATCH_LOCK is in run, and only in submitFeed has it a feed.
OneDispatches ==
    \A t \in Task :
        /\ pc[t] \in Inside => lock = t
        /\ feed[t] # None => pc[t] \in InSubmitFeed
        /\ pc[t] \in InSubmitFeed => feed[t] # None
        /\ pc[t] \notin Inside => todo[t] = {}

\* What the snapshot still holds has not been touched.
TodoWaits ==
    \A t \in Task : \A f \in todo[t] :
        place[f] = "OUTGOING" /\ f \notin Unsupported /\ f # feed[t]

\* Where the file of the feed in hand is, and how often it was accepted.
FeedInHand ==
    \A t \in Task :
        /\ pc[t] = "temp" => place[feed[t]] = "OUTGOING" /\ feed[t] \notin Unsupported
        /\ pc[t] \in {"identify", "submit", "unsent"} =>
              place[feed[t]] = "TEMP" /\ accepted[feed[t]] = unanswered[feed[t]]
        /\ pc[t] = "sent" =>
              place[feed[t]] = "TEMP" /\ accepted[feed[t]] = unanswered[feed[t]] + 1
        /\ pc[t] = "record" => place[feed[t]] = "SENT"
        /\ pc[t] = "submit" => attempts[t] < MaxAttempts

IInv == TypeOK /\ OneDispatches /\ TodoWaits /\ FeedInHand /\ AcceptedAsFiled /\ NothingStrays

-----------------------------------------------------------------------------
(* The invariant holds at the start and after every step.                  *)

LEMMA InitIInv == Init => IInv
<1> SUFFICES ASSUME Init PROVE IInv
  OBVIOUS
<1> USE FeedAssumption, BoundAssumption DEF Init
<1>1. TypeOK
  <2>1. 0 \in 0..MaxAttempts /\ 0 \in 0..MaxFaults /\ 0 \in 0..MaxCrashes
    OBVIOUS
  <2> QED
    BY <2>1, Zenon DEF TypeOK, Labels
<1>2. OneDispatches /\ TodoWaits /\ FeedInHand
  BY DEF OneDispatches, TodoWaits, FeedInHand, Inside, InSubmitFeed
<1>3. AcceptedAsFiled /\ NothingStrays
  BY DEF AcceptedAsFiled, NothingStrays
<1> QED
  BY <1>1, <1>2, <1>3 DEF IInv

LEMMA NextIInv == IInv /\ [Next]_vars => IInv'
<1> SUFFICES ASSUME IInv, [Next]_vars PROVE IInv'
  OBVIOUS
<1> USE FeedAssumption, BoundAssumption DEF IInv, files, hist, bounds, task
<1> USE DEF TypeOK, OneDispatches, TodoWaits, FeedInHand, AcceptedAsFiled, NothingStrays,
            Held, Labels, Inside, InSubmitFeed, Goto, Move
<1>1. ASSUME NEW f \in Feed, Drop(f) PROVE IInv'
  <2>1. Cardinality({g \in Feed : place[g] # "nowhere"}) + 1 \in Nat
    <3>1. IsFiniteSet({g \in Feed : place[g] # "nowhere"})
      BY FS_Subset
    <3> QED
      BY <3>1, FS_CardinalityType
  <2> QED
    BY <1>1, <2>1 DEF Drop
<1>2. CASE ServiceLists
  BY <1>2 DEF ServiceLists, ListOutgoing, Outgoing, Fault
<1>3. CASE ServiceSkips
  BY <1>3 DEF ServiceSkips
<1>4. ASSUME NEW t \in Task, ServiceSubmits(t) PROVE IInv'
  BY <1>4 DEF ServiceSubmits
<1>5. ASSUME NEW t \in Task, Enter(t) PROVE IInv'
  BY <1>5 DEF Enter, ListOutgoing, Outgoing, Fault
<1>6. ASSUME NEW t \in Task, NextFeed(t) PROVE IInv'
  BY <1>6 DEF NextFeed, IsOldest
<1>7. ASSUME NEW t \in Task, Leave(t) PROVE IInv'
  <2>1. TypeOK'
    BY <1>7 DEF Leave
  <2>2. OneDispatches'
    BY <1>7 DEF Leave
  <2>3. TodoWaits' /\ FeedInHand'
    BY <1>7 DEF Leave
  <2>4. AcceptedAsFiled' /\ NothingStrays'
    BY <1>7 DEF Leave
  <2> QED
    BY <2>1, <2>2, <2>3, <2>4
<1>8. ASSUME NEW t \in Task, MoveToTemp(t) PROVE IInv'
  BY <1>8 DEF MoveToTemp
<1>9. ASSUME NEW t \in Task, Identify(t) PROVE IInv'
  BY <1>9 DEF Identify
<1>10. ASSUME NEW t \in Task, RejectUnrecognized(t) PROVE IInv'
  BY <1>10 DEF RejectUnrecognized, Return
<1>11. ASSUME NEW t \in Task, ThrowUnreadable(t) PROVE IInv'
  BY <1>11 DEF ThrowUnreadable, Throw
<1>12. ASSUME NEW t \in Task, SubmitFeed(t) PROVE IInv'
  BY <1>12 DEF SubmitFeed, Attempt, Accept
<1>13. ASSUME NEW t \in Task, SubmitRefused(t) PROVE IInv'
  BY <1>13 DEF SubmitRefused, Attempt, Again
<1>14. ASSUME NEW t \in Task, SubmitUnanswered(t) PROVE IInv'
  BY <1>14 DEF SubmitUnanswered, Attempt, Accept, Again, Fault
<1>15. ASSUME NEW t \in Task, MoveToFailed(t) PROVE IInv'
  BY <1>15 DEF MoveToFailed, Return
<1>16. ASSUME NEW t \in Task, MoveToSent(t) PROVE IInv'
  BY <1>16 DEF MoveToSent
<1>17. ASSUME NEW t \in Task, Record(t) PROVE IInv'
  BY <1>17 DEF Record, Return
<1>18. ASSUME NEW t \in Task, SubmitFeedFails(t) PROVE IInv'
  BY <1>18 DEF SubmitFeedFails, Fails, Fault, Return
<1>19. CASE Restart
  <2>1. TypeOK'
    <3>1. /\ pc' \in [Task -> Labels]
          /\ todo' \in [Task -> SUBSET Feed]
          /\ feed' \in [Task -> Feed \cup {None}]
      BY <1>19, Zenon DEF Restart
    <3>2. crashes' \in 0..MaxCrashes /\ interrupted' \in SUBSET Feed
      BY <1>19 DEF Restart
    <3> QED
      BY <1>19, <3>1, <3>2 DEF Restart
  <2>2. OneDispatches'
    BY <1>19 DEF Restart
  <2>3. TodoWaits' /\ FeedInHand'
    BY <1>19 DEF Restart
  <2>4. AcceptedAsFiled' /\ NothingStrays'
    BY <1>19 DEF Restart
  <2> QED
    BY <2>1, <2>2, <2>3, <2>4
<1>20. CASE UNCHANGED vars
  BY <1>20 DEF vars
<1>21. CASE ServiceThrows
  BY <1>21 DEF ServiceThrows, Fault
<1>22. ASSUME NEW t \in Task, EnterThrows(t) PROVE IInv'
  BY <1>22 DEF EnterThrows, Throw, Fault
<1>23. ASSUME NEW t \in Task, DirectoryMissing(t) PROVE IInv'
  BY <1>23 DEF DirectoryMissing, Throw, Fault
<1> QED
  BY <1>1, <1>2, <1>3, <1>4, <1>5, <1>6, <1>7, <1>8, <1>9, <1>10, <1>11, <1>12, <1>13,
     <1>14, <1>15, <1>16, <1>17, <1>18, <1>19, <1>20, <1>21, <1>22, <1>23 DEF Next, Proceed

LEMMA Invariance == Spec => []IInv
BY InitIInv, NextIInv, PTL DEF Spec

-----------------------------------------------------------------------------
(* What follows from it.                                                   *)

\* Type correctness: nothing the dispatcher, a fault or a restart does leaves the
\* declared values; an attempt is never made beyond MAX_ATTEMPTS.
THEOREM TypeCorrect == Spec => []TypeOK
<1>1. IInv => TypeOK
  BY DEF IInv
<1> QED
  BY <1>1, Invariance, PTL

\* Whatever fails, MWS has accepted a feed once for every lost answer, and once more
\* only when its file went to SENT or is about to: no restart and no second task makes
\* submitFeed send a feed again.
THEOREM NoSecondSubmission == Spec => []AcceptedAsFiled
<1>1. IInv => AcceptedAsFiled
  BY DEF IInv
<1> QED
  BY <1>1, Invariance, PTL

\* A file that stays in TEMP, or in SENT without a record, is in the hands of a task or
\* was hit by a fault, a crash or an exception.
THEOREM NoStrays == Spec => []NothingStrays
<1>1. IInv => NothingStrays
  BY DEF IInv
<1> QED
  BY <1>1, Invariance, PTL

-----------------------------------------------------------------------------
(* The order of the feeds.                                                 *)

Dropped == {g \in Feed : place[g] # "nowhere"}

\* A file is younger than those that were there when it came.
ModifiedBounded ==
    \A f \in Feed : modified[f] \in Nat /\ modified[f] <= Cardinality(Dropped)

\* Older files than f need no more attention.
OlderDone(f, busy) ==
    \A g \in Feed \ Unsupported :
        modified[g] < modified[f] =>
            place[g] \in {"nowhere", "SENT", "FAILED"} \/ g \in interrupted \cup busy

\* The feed in hand is the next one, and the ones to do come after it.
TakenInOrder ==
    \A t \in Task :
        /\ feed[t] # None => OlderDone(feed[t], {})
        /\ \A f \in todo[t] : OlderDone(f, todo[t] \cup {feed[t]})

Ordered == ModifiedBounded /\ TakenInOrder

LEMMA InitOrdered == Init => Ordered
<1> SUFFICES ASSUME Init PROVE Ordered
  OBVIOUS
<1>1. Dropped = {}
  BY DEF Init, Dropped
<1>2. ModifiedBounded
  BY <1>1, FS_EmptySet DEF Init, ModifiedBounded
<1>3. TakenInOrder
  BY DEF Init, TakenInOrder
<1> QED
  BY <1>2, <1>3 DEF Ordered

\* A new file is the youngest.
LEMMA DropOrdered ==
    ASSUME IInv, Ordered, NEW f \in Feed, Drop(f)
    PROVE  Ordered'
<1> USE FeedAssumption DEF Ordered, IInv, TypeOK, files, hist, bounds, task
<1>1. IsFiniteSet(Dropped) /\ Cardinality(Dropped) \in Nat
  BY FS_Subset, FS_CardinalityType DEF Dropped
<1>2. Dropped' = Dropped \cup {f} /\ f \notin Dropped
  BY DEF Drop, Move, Dropped
<1>3. Cardinality(Dropped') = Cardinality(Dropped) + 1
  BY <1>1, <1>2, FS_AddElement
<1>4. modified' = [modified EXCEPT ![f] = Cardinality(Dropped) + 1]
  BY DEF Drop, Dropped
<1>5. ModifiedBounded'
  BY <1>1, <1>3, <1>4 DEF ModifiedBounded
<1>6. ASSUME NEW g \in Feed, g # f, NEW busy, OlderDone(g, busy) PROVE OlderDone(g, busy)'
  BY <1>1, <1>4, <1>6 DEF OlderDone, ModifiedBounded, Drop, Move
<1>7. ASSUME NEW t \in Task PROVE f \notin todo[t] /\ f # feed[t]
  BY DEF Drop, TodoWaits, FeedInHand, OneDispatches, InSubmitFeed, Inside, Labels
<1>8. ASSUME NEW t \in Task, feed[t] # None PROVE OlderDone(feed[t], {})'
  BY <1>6, <1>7, <1>8 DEF TakenInOrder, Drop
<1>9. ASSUME NEW t \in Task, NEW g \in todo[t]
      PROVE  OlderDone(g, todo[t] \cup {feed[t]})'
  <2>1. OlderDone(g, todo[t] \cup {feed[t]}) /\ g \in Feed /\ g # f
    BY <1>7, <1>9 DEF TakenInOrder
  <2>2. todo' = todo /\ feed' = feed
    BY DEF Drop
  <2> QED
    BY <1>1, <1>4, <2>1, <2>2 DEF OlderDone, ModifiedBounded, Drop, Move
<1>10. TakenInOrder'
  BY <1>8, <1>9 DEF TakenInOrder, Drop
<1> QED
  BY <1>5, <1>10

LEMMA NextOrdered == IInv /\ Ordered /\ [Next]_vars => Ordered'
<1> SUFFICES ASSUME IInv, Ordered, [Next]_vars PROVE Ordered'
  OBVIOUS
<1> USE FeedAssumption DEF IInv, Ordered, files, hist, bounds, task
<1> USE DEF TypeOK, OneDispatches, TodoWaits, FeedInHand, Labels, Inside, InSubmitFeed,
            Goto, Move
<1>1. ASSUME NEW f \in Feed, Drop(f) PROVE Ordered'
  BY <1>1, DropOrdered
<1>2. CASE ServiceLists
  <2>1. ModifiedBounded'
    BY <1>2 DEF ServiceLists, ListOutgoing, Outgoing, Fault, ModifiedBounded, Dropped
  <2>2. TakenInOrder'
    BY <1>2 DEF ServiceLists, ListOutgoing, Outgoing, Fault, TakenInOrder, OlderDone
  <2> QED
    BY <2>1, <2>2
<1>3. CASE ServiceSkips
  <2>1. ModifiedBounded'
    BY <1>3 DEF ServiceSkips, ModifiedBounded, Dropped
  <2>2. TakenInOrder'
    BY <1>3 DEF ServiceSkips, TakenInOrder, OlderDone
  <2> QED
    BY <2>1, <2>2
<1>4. ASSUME NEW t \in Task, ServiceSubmits(t) PROVE Ordered'
  <2>1. ModifiedBounded'
    BY <1>4 DEF ServiceSubmits, ModifiedBounded, Dropped
  <2>2. TakenInOrder'
    BY <1>4 DEF ServiceSubmits, TakenInOrder, OlderDone
  <2> QED
    BY <2>1, <2>2
<1>5. ASSUME NEW t \in Task, Enter(t) PROVE Ordered'
  <2>1. ModifiedBounded'
    BY <1>5 DEF Enter, ListOutgoing, Outgoing, Fault, ModifiedBounded, Dropped
  <2>2. TakenInOrder'
    BY <1>5 DEF Enter, ListOutgoing, Outgoing, Fault, TakenInOrder, OlderDone,
       NothingStrays, Held
  <2> QED
    BY <2>1, <2>2
<1>6. ASSUME NEW t \in Task, NextFeed(t) PROVE Ordered'
  <2>1. ModifiedBounded'
    BY <1>6 DEF NextFeed, IsOldest, ModifiedBounded, Dropped
  <2>2. TakenInOrder'
    BY <1>6 DEF NextFeed, IsOldest, TakenInOrder, OlderDone
  <2> QED
    BY <2>1, <2>2
<1>7. ASSUME NEW t \in Task, Leave(t) PROVE Ordered'
  <2>1. ModifiedBounded'
    BY <1>7 DEF Leave, ModifiedBounded, Dropped
  <2>2. TakenInOrder'
    BY <1>7 DEF Leave, TakenInOrder, OlderDone
  <2> QED
    BY <2>1, <2>2
<1>8. ASSUME NEW t \in Task, MoveToTemp(t) PROVE Ordered'
  <2>1. ModifiedBounded'
    BY <1>8 DEF MoveToTemp, ModifiedBounded, Dropped
  <2>2. TakenInOrder'
    BY <1>8 DEF MoveToTemp, TakenInOrder, OlderDone
  <2> QED
    BY <2>1, <2>2
<1>9. ASSUME NEW t \in Task, Identify(t) PROVE Ordered'
  <2>1. ModifiedBounded'
    BY <1>9 DEF Identify, ModifiedBounded, Dropped
  <2>2. TakenInOrder'
    BY <1>9 DEF Identify, TakenInOrder, OlderDone
  <2> QED
    BY <2>1, <2>2
<1>10. ASSUME NEW t \in Task, RejectUnrecognized(t) PROVE Ordered'
  <2>1. ModifiedBounded'
    BY <1>10 DEF RejectUnrecognized, Return, ModifiedBounded, Dropped
  <2>2. TakenInOrder'
    BY <1>10 DEF RejectUnrecognized, Return, TakenInOrder, OlderDone
  <2> QED
    BY <2>1, <2>2
<1>11. ASSUME NEW t \in Task, ThrowUnreadable(t) PROVE Ordered'
  <2>1. ModifiedBounded'
    BY <1>11 DEF ThrowUnreadable, Throw, ModifiedBounded, Dropped
  <2>2. TakenInOrder'
    BY <1>11 DEF ThrowUnreadable, Throw, TakenInOrder, OlderDone
  <2> QED
    BY <2>1, <2>2
<1>12. ASSUME NEW t \in Task, SubmitFeed(t) PROVE Ordered'
  <2>1. ModifiedBounded'
    BY <1>12 DEF SubmitFeed, Attempt, Accept, ModifiedBounded, Dropped
  <2>2. TakenInOrder'
    BY <1>12 DEF SubmitFeed, Attempt, Accept, TakenInOrder, OlderDone
  <2> QED
    BY <2>1, <2>2
<1>13. ASSUME NEW t \in Task, SubmitRefused(t) PROVE Ordered'
  <2>1. ModifiedBounded'
    BY <1>13 DEF SubmitRefused, Attempt, Again, ModifiedBounded, Dropped
  <2>2. TakenInOrder'
    BY <1>13 DEF SubmitRefused, Attempt, Again, TakenInOrder, OlderDone
  <2> QED
    BY <2>1, <2>2
<1>14. ASSUME NEW t \in Task, SubmitUnanswered(t) PROVE Ordered'
  <2>1. ModifiedBounded'
    BY <1>14 DEF SubmitUnanswered, Attempt, Accept, Again, Fault, ModifiedBounded, Dropped
  <2>2. TakenInOrder'
    BY <1>14 DEF SubmitUnanswered, Attempt, Accept, Again, Fault, TakenInOrder, OlderDone
  <2> QED
    BY <2>1, <2>2
<1>15. ASSUME NEW t \in Task, MoveToFailed(t) PROVE Ordered'
  <2>1. ModifiedBounded'
    BY <1>15 DEF MoveToFailed, Return, ModifiedBounded, Dropped
  <2>2. TakenInOrder'
    BY <1>15 DEF MoveToFailed, Return, TakenInOrder, OlderDone
  <2> QED
    BY <2>1, <2>2
<1>16. ASSUME NEW t \in Task, MoveToSent(t) PROVE Ordered'
  <2>1. ModifiedBounded'
    BY <1>16 DEF MoveToSent, ModifiedBounded, Dropped
  <2>2. TakenInOrder'
    BY <1>16 DEF MoveToSent, TakenInOrder, OlderDone
  <2> QED
    BY <2>1, <2>2
<1>17. ASSUME NEW t \in Task, Record(t) PROVE Ordered'
  <2>1. ModifiedBounded'
    BY <1>17 DEF Record, Return, ModifiedBounded, Dropped
  <2>2. TakenInOrder'
    BY <1>17 DEF Record, Return, TakenInOrder, OlderDone
  <2> QED
    BY <2>1, <2>2
<1>18. ASSUME NEW t \in Task, SubmitFeedFails(t) PROVE Ordered'
  <2>1. ModifiedBounded'
    BY <1>18 DEF SubmitFeedFails, Fails, Fault, Return, ModifiedBounded, Dropped
  <2>2. TakenInOrder'
    BY <1>18 DEF SubmitFeedFails, Fails, Fault, Return, TakenInOrder, OlderDone
  <2> QED
    BY <2>1, <2>2
<1>19. CASE Restart
  <2>1. ModifiedBounded'
    BY <1>19 DEF Restart, ModifiedBounded, Dropped
  <2>2. TakenInOrder'
    BY <1>19 DEF Restart, TakenInOrder, OlderDone
  <2> QED
    BY <2>1, <2>2
<1>20. CASE UNCHANGED vars
  BY <1>20 DEF vars, ModifiedBounded, Dropped, TakenInOrder, OlderDone
<1>21. CASE ServiceThrows
  BY <1>21 DEF ServiceThrows, ModifiedBounded, Dropped, TakenInOrder, OlderDone
<1>22. ASSUME NEW t \in Task, EnterThrows(t) PROVE Ordered'
  <2>1. ModifiedBounded'
    BY <1>22 DEF EnterThrows, Throw, ModifiedBounded, Dropped
  <2>2. TakenInOrder'
    BY <1>22 DEF EnterThrows, Throw, TakenInOrder, OlderDone
  <2> QED
    BY <2>1, <2>2
<1>23. ASSUME NEW t \in Task, DirectoryMissing(t) PROVE Ordered'
  <2>1. ModifiedBounded'
    BY <1>23 DEF DirectoryMissing, Throw, ModifiedBounded, Dropped
  <2>2. TakenInOrder'
    BY <1>23 DEF DirectoryMissing, Throw, TakenInOrder, OlderDone
  <2> QED
    BY <2>1, <2>2
<1> QED
  BY <1>1, <1>2, <1>3, <1>4, <1>5, <1>6, <1>7, <1>8, <1>9, <1>10, <1>11, <1>12, <1>13,
     <1>14, <1>15, <1>16, <1>17, <1>18, <1>19, <1>20, <1>21, <1>22, <1>23 DEF Next, Proceed

\* A feed is sent only by the task that has it in hand.
LEMMA AcceptedInHand ==
    ASSUME IInv, Next, NEW f \in Feed, accepted'[f] > accepted[f]
    PROVE  \E t \in Task : feed[t] = f
<1> USE DEF IInv, TypeOK, files, hist, bounds, task
<1>1. PICK t \in Task : SubmitFeed(t) \/ SubmitUnanswered(t)
  <2>1. SUFFICES ASSUME ~ \E t \in Task : SubmitFeed(t) \/ SubmitUnanswered(t)
                 PROVE  accepted' = accepted
    OBVIOUS
  <2> QED
    BY <2>1 DEF Next, Proceed, Drop, ServiceLists, ServiceThrows, ServiceSkips,
         ServiceSubmits, Enter, EnterThrows, DirectoryMissing, Throw, NextFeed, Leave, MoveToTemp, Identify, RejectUnrecognized, ThrowUnreadable,
         SubmitRefused, MoveToFailed, MoveToSent, Record, SubmitFeedFails, Fails, Restart
<1> QED
  BY <1>1 DEF SubmitFeed, SubmitUnanswered, Attempt, Accept

\* Feeds reach MWS in the order of their files, across tasks, restarts and failures of
\* every kind: when one is accepted, no older one waits or is on its way, unless a fault
\* has hit it.
THEOREM SentInOrder == Spec => OldestFirst
<1>1. IInv /\ Ordered /\ [Next]_vars =>
        [\A f, g \in Feed :
            accepted'[f] > accepted[f] /\ modified[g] < modified[f] /\ g \notin Unsupported
               => place[g] \in {"nowhere", "SENT", "FAILED"} \/ g \in interrupted]_vars
  <2> SUFFICES ASSUME IInv, Ordered, Next, NEW f \in Feed, NEW g \in Feed,
                      accepted'[f] > accepted[f], modified[g] < modified[f],
                      g \notin Unsupported
               PROVE  place[g] \in {"nowhere", "SENT", "FAILED"} \/ g \in interrupted
    OBVIOUS
  <2>1. PICK t \in Task : feed[t] = f
    BY AcceptedInHand
  <2> QED
    BY <2>1, FeedAssumption DEF Ordered, TakenInOrder, OlderDone
<1> QED
  BY <1>1, InitIInv, NextIInv, InitOrdered, NextOrdered, PTL DEF Spec, OldestFirst

-----------------------------------------------------------------------------
(* What stops an account.                                                  *)

LEMMA NextStopped ==
    IInv /\ StoppedByException /\ [Next]_vars => StoppedByException'
<1> SUFFICES ASSUME IInv, StoppedByException, [Next]_vars PROVE StoppedByException'
  OBVIOUS
<1>0. faults \in Nat
  <2>1. faults \in 0..MaxFaults
    BY DEF IInv, TypeOK
  <2> QED
    BY <2>1, BoundAssumption
<1> USE DEF StoppedByException, files, hist, bounds, task
<1>1. ASSUME NEW t \in Task, Enter(t) PROVE StoppedByException'
  BY <1>1, FeedAssumption DEF Enter
<1>2. ASSUME NEW t \in Task, Leave(t) PROVE StoppedByException'
  BY <1>2 DEF Leave
<1>3. ASSUME NEW t \in Task, ThrowUnreadable(t) PROVE StoppedByException'
  BY <1>3 DEF ThrowUnreadable, Throw
<1>4. ASSUME NEW t \in Task, EnterThrows(t) \/ DirectoryMissing(t)
      PROVE  StoppedByException'
  <2>1. thrown' # {} /\ faults' = faults + 1
    BY <1>4 DEF EnterThrows, DirectoryMissing, Throw, Fault
  <2>2. faults' # 0
    BY <1>0, <2>1
  <2> QED
    BY <2>1, <2>2
<1>5. CASE Restart
  BY <1>5 DEF Restart
<1>6. CASE UNCHANGED <<underDispatch, lock, thrown>> /\ (faults # 0 => faults' # 0)
  BY <1>6, Zenon
<1>7. \/ \E t \in Task : \/ Enter(t) \/ Leave(t) \/ ThrowUnreadable(t)
                         \/ EnterThrows(t) \/ DirectoryMissing(t)
      \/ Restart
      \/ UNCHANGED <<underDispatch, lock, thrown>> /\ (faults # 0 => faults' # 0)
  <2>1. CASE UNCHANGED vars
    BY <1>0, <2>1 DEF vars
  <2>0. Fault => faults' # 0
    BY <1>0 DEF Fault
  <2>2. CASE (\E f \in Feed : Drop(f)) \/ ServiceLists \/ ServiceThrows \/ ServiceSkips
    <3>1. UNCHANGED <<underDispatch, lock, thrown>> /\ (Fault \/ UNCHANGED faults)
      BY <2>2 DEF Drop, ServiceLists, ListOutgoing, ServiceThrows, ServiceSkips
    <3> QED
      BY <2>0, <3>1
  <2>3. ASSUME NEW t \in Task,
               \/ ServiceSubmits(t) \/ NextFeed(t) \/ SubmitUnanswered(t)
               \/ SubmitFeedFails(t)
        PROVE UNCHANGED <<underDispatch, lock, thrown>> /\ (faults # 0 => faults' # 0)
    BY <1>0, <2>3 DEF ServiceSubmits, NextFeed, SubmitUnanswered, Attempt, SubmitFeedFails, Fails,
                Fault
  <2>4. ASSUME NEW t \in Task,
               \/ MoveToTemp(t) \/ Identify(t) \/ RejectUnrecognized(t) \/ SubmitFeed(t)
               \/ SubmitRefused(t) \/ MoveToFailed(t) \/ MoveToSent(t) \/ Record(t)
        PROVE UNCHANGED <<underDispatch, lock, thrown>> /\ (faults # 0 => faults' # 0)
    BY <1>0, <2>4 DEF MoveToTemp, Identify, RejectUnrecognized, SubmitFeed, SubmitRefused,
                Attempt, MoveToFailed, MoveToSent, Record
  <2> QED
    BY <2>1, <2>2, <2>3, <2>4 DEF Next, Proceed
<1> QED
  BY <1>1, <1>2, <1>3, <1>4, <1>5, <1>6, <1>7

\* Nobody at an account that is under dispatch: since AMTU started, a file that could not
\* be read or a directory that was missing has ended a task before it reached
\* setUnderDispatch(false) (FeedDispatcherTask.java:74).
THEOREM OnlyExceptionsStop == Spec => []StoppedByException
<1>1. Init => StoppedByException
  BY DEF Init, StoppedByException
<1> QED
  BY <1>1, InitIInv, NextIInv, NextStopped, PTL DEF Spec
=============================================================================
