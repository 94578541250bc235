----------------------- MODULE SubmissionQueueProofs -----------------------
(***************************************************************************)
(* Proofs about SubmissionQueue, for queues and times of any size.  How    *)
(* far a failed prune, a retry, a restart or a reload can move AMTU's      *)
(* count away from that of MWS is a matter of time: the inductive          *)
(* invariant says, for each age, that MWS will have forgotten what the     *)
(* entries younger than that do not stand for by the time an entry of that *)
(* age expires.                                                            *)
(***************************************************************************)
EXTENDS SubmissionQueue, FiniteSetTheorems, TLAPS

-----------------------------------------------------------------------------
(* The inductive invariant.                                                *)

\* Requests that count at MWS and that the queue has to stand for.
Due == used - lost - Pending

\* What a dispatcher may have sent drains at MWS before the first entry expires.
VacateSuffices == (MaxQueue + MaxAttempts) * MwsRestore <= Vacate

\* MWS takes this long, from now, until only n of u requests count, when it forgot the
\* last one d ago (negative: so long ago).
Delay(u, n, d) == (u - n) * MwsRestore - d

AtLeast(n, m) == IF n < m THEN m ELSE n

\* The time the queue may still lag behind: until the next entry is due to leave.
Slack(c) == IF c = Never THEN MwsRestore ELSE AtLeast(MwsRestore - c, 0)

\* The entries of q, of ages g, that are left when those of age a have expired.
Younger(q, g, a) == {e \in q : g[e] < a}
Count(q, g, a) == Cardinality(Younger(q, g, a))

\* They stand for u requests by then, but for a lag of c; at the age nothing reaches, it
\* is the whole queue and now.
Covers(q, g, u, d, c) ==
    \A a \in 0..Vacate + 1 :
        Delay(u, Count(q, g, a), d) <= AtLeast(Vacate - a, c)

Answered == pc \in {"counted", "refused", "vanished"}

Attempts ==
    /\ pc = "send" => attempts < MaxAttempts
    /\ Answered => attempts > 0
    /\ pc = "send" \/ Answered \/ attempts = 0

Clock == drain < MwsRestore /\ (used = 0 => drain = 0)

\* What the feed in hand may still add to the queue is in proportion to its attempts.
Overrun ==
    /\ Cardinality(rows \ queue) <= dbErrors + raced
    /\ OverrunBounded
    /\ pc = "send" =>
          Cardinality(queue \cup rows) <= MaxQueue - 1 + attempts + dbErrors + raced
    /\ Answered =>
          Cardinality(queue \cup rows) <= MaxQueue - 2 + attempts + dbErrors + raced

\* And so is what it may add at MWS.
DueBounded ==
    /\ pc = "send" => Due <= MaxQueue + attempts
    /\ Answered => Due <= MaxQueue - 1 + attempts

TypeInv == TypeOK /\ Attempts /\ Clock
SizeInv == TypeInv /\ Overrun
TimeInv == Covers(queue, age, Due, drain, Slack(check)) /\ DueBounded

-----------------------------------------------------------------------------
(* Finite sets.                                                            *)

LEMMA Part ==
    ASSUME NEW T, IsFiniteSet(T), NEW S, \A e \in S : e \in T
    PROVE  /\ IsFiniteSet(S) /\ Cardinality(S) \in Nat /\ Cardinality(T) \in Nat
           /\ Cardinality(S) <= Cardinality(T)
<1>1. S \in SUBSET T
  OBVIOUS
<1>2. IsFiniteSet(S) /\ Cardinality(S) <= Cardinality(T)
  BY <1>1, FS_Subset
<1> QED
  BY <1>2, FS_CardinalityType

LEMMA Split ==
    ASSUME NEW A, NEW B, IsFiniteSet(A), IsFiniteSet(B),
           NEW S, \A e \in S : e \in A \/ e \in B
    PROVE  /\ IsFiniteSet(S) /\ Cardinality(S) \in Nat
           /\ Cardinality(A) \in Nat /\ Cardinality(B) \in Nat
           /\ Cardinality(S) <= Cardinality(A) + Cardinality(B)
<1>1. /\ IsFiniteSet(A \cup B)
      /\ Cardinality(A \cup B) = Cardinality(A) + Cardinality(B) - Cardinality(A \cap B)
  BY FS_Union
<1>2. \A e \in S : e \in A \cup B
  OBVIOUS
<1>3. /\ IsFiniteSet(S) /\ Cardinality(S) \in Nat
      /\ Cardinality(S) <= Cardinality(A \cup B)
  BY <1>1, <1>2, Part
<1>4. /\ Cardinality(A) \in Nat /\ Cardinality(B) \in Nat
      /\ Cardinality(A \cap B) \in Nat
  <2>1. \A e \in A \cap B : e \in A
    OBVIOUS
  <2> QED
    BY <2>1, Part, FS_CardinalityType
<1> QED
  BY <1>1, <1>3, <1>4

\* There is always a number left for an entry.
LEMMA Fresh ==
    ASSUME IsFiniteSet(Held)
    PROVE  NewEntry \in Nat /\ NewEntry \notin Held
<1> DEFINE n == Cardinality(Held)
<1>1. n \in Nat
  BY FS_CardinalityType
<1>2. Cardinality(0..n) = n + 1
  <2>1. n \in Int /\ 0 \in Int /\ ~(0 > n)
    BY <1>1
  <2>2. Cardinality(0..n) = n - 0 + 1
    <3> HIDE DEF n
    <3> QED
      BY <2>1, FS_Interval
  <2> HIDE DEF n
  <2> QED
    BY <1>1, <2>2
<1>3. \E e \in 0..n : e \notin Held
  <2> SUFFICES ASSUME \A e \in 0..n : e \in Held PROVE FALSE
    OBVIOUS
  <2>1. Cardinality(0..n) <= n
    BY Part
  <2> HIDE DEF n
  <2> QED
    BY <1>1, <1>2, <2>1
<1>4. NewEntry \in 0..n /\ NewEntry \notin Held
  BY <1>3 DEF NewEntry
<1> HIDE DEF n
<1> QED
  BY <1>1, <1>4

-----------------------------------------------------------------------------
(* Types.                                                                  *)

LEMMA Constants ==
    /\ MaxQueue \in Nat \ {0} /\ MaxAttempts \in Nat \ {0}
    /\ Restore \in Nat \ {0} /\ Vacate \in Nat \ {0} /\ MwsRestore \in Nat \ {0}
    /\ MwsRestore <= Restore /\ Never \notin Nat
    /\ MaxDbErrors \in Nat /\ MaxLoads \in Nat
BY QuotaAssumption, BoundAssumption

\* The part of TypeOK that is about the entries.
Entries ==
    /\ queue \in SUBSET Nat /\ rows \in SUBSET Nat /\ loaded \in SUBSET Nat
    /\ IsFiniteSet(Held)
    /\ age \in [Held -> 0..Vacate]

\* The part of TypeOK that is about dates and counters.
Counters ==
    /\ check \in 0..(Restore + 1) \cup {Never}
    /\ since \in 0..(Restore + 1) \cup {Never}
    /\ since = Never => loaded = {}
    /\ pc \in {"idle", "waiting", "slots", "look", "send", "counted", "refused",
               "vanished", "stopped"}
    /\ attempts \in 0..MaxAttempts
    /\ used \in Nat
    /\ drain \in 0..MwsRestore
    /\ lost \in Nat
    /\ raced \in Nat
    /\ dbErrors \in 0..MaxDbErrors
    /\ loads \in 0..MaxLoads

LEMMA TypeParts ==
    /\ TypeOK <=> Entries /\ Counters
    /\ TypeOK' <=> Entries' /\ Counters'
BY DEF TypeOK, Entries, Counters

\* Entries that are kept keep their age.
LEMMA Kept ==
    ASSUME Entries, \A e \in Held' : e \in Held, KeepAges
    PROVE  Entries' /\ \A e \in Held' : age'[e] = age[e]
<1>1. IsFiniteSet(Held')
  BY Part DEF Entries
<1>2. age' \in [Held' -> 0..Vacate] /\ \A e \in Held' : age'[e] = age[e]
  BY DEF Entries, KeepAges
<1>3. queue' \in SUBSET Nat /\ rows' \in SUBSET Nat /\ loaded' \in SUBSET Nat
  BY DEF Entries, Held
<1> QED
  BY <1>1, <1>2, <1>3 DEF Entries

\* What TypeOK says of the sizes.
LEMMA Sizes ==
    ASSUME TypeOK
    PROVE  /\ IsFiniteSet(queue) /\ IsFiniteSet(rows) /\ IsFiniteSet(loaded)
           /\ IsFiniteSet(queue \cup rows) /\ IsFiniteSet(rows \ queue)
           /\ Cardinality(queue) \in Nat
           /\ Cardinality(queue \cup rows) \in Nat
           /\ Cardinality(rows \ queue) \in Nat
<1>1. IsFiniteSet(Held) /\ \A e \in queue \cup rows \cup loaded : e \in Held
  BY DEF TypeOK, Held
<1>2. IsFiniteSet(queue) /\ IsFiniteSet(rows) /\ IsFiniteSet(loaded)
  BY <1>1, Part
<1>3. IsFiniteSet(queue \cup rows) /\ IsFiniteSet(rows \ queue)
  BY <1>1, Part
<1> QED
  BY <1>2, <1>3, FS_CardinalityType

LEMMA Numbers ==
    ASSUME TypeOK
    PROVE  /\ used \in Nat /\ drain \in Nat /\ lost \in Nat /\ raced \in Nat
           /\ attempts \in Nat /\ attempts <= MaxAttempts
           /\ dbErrors \in Nat /\ Pending \in {0, 1} /\ Due \in Int
<1>1. /\ used \in Nat /\ drain \in Nat /\ lost \in Nat /\ raced \in Nat
      /\ attempts \in Nat /\ attempts <= MaxAttempts /\ dbErrors \in Nat
  BY Constants DEF TypeOK
<1>2. Pending \in {0, 1}
  BY DEF Pending
<1> QED
  BY <1>1, <1>2 DEF Due

\* The same of the next state.
LEMMA NextSizes ==
    ASSUME TypeOK'
    PROVE  /\ Cardinality((queue \cup rows)') \in Nat
           /\ Cardinality((rows \ queue)') \in Nat
           /\ raced' \in Nat /\ attempts' \in Nat /\ dbErrors' \in Nat
<1>1. IsFiniteSet(Held') /\ \A e \in (queue \cup rows \cup loaded)' : e \in Held'
  BY DEF TypeOK, Held
<1>2. IsFiniteSet((queue \cup rows)') /\ IsFiniteSet((rows \ queue)')
  BY <1>1, Part
<1>3. raced' \in Nat /\ attempts' \in Nat /\ dbErrors' \in Nat
  BY Constants DEF TypeOK
<1> QED
  BY <1>2, <1>3, FS_CardinalityType

-----------------------------------------------------------------------------
(* The operations of the queue.                                            *)

\* out leaves the queue, and failed of it stays in the database.
Leaves(out, failed) ==
    /\ \A e \in out : e \in queue
    /\ \A e \in failed : e \in out /\ e \in rows
    /\ queue' = queue \ out /\ rows' = rows \ (out \ failed) /\ loaded' = loaded
    /\ KeepAges
    /\ dbErrors' = dbErrors + Cardinality(failed) /\ dbErrors' <= MaxDbErrors

LEMMA Polled ==
    ASSUME TypeOK, NEW out, \A e \in out : e \in queue, Poll(out)
    PROVE  \E failed : Leaves(out, failed)
<1>1. PICK failed \in SUBSET (out \cap rows) :
         /\ dbErrors + Cardinality(failed) <= MaxDbErrors
         /\ dbErrors' = dbErrors + Cardinality(failed)
         /\ rows' = rows \ (out \ failed)
  BY DEF Poll, DeleteRows
<1>2. \A e \in failed : e \in out /\ e \in rows
  OBVIOUS
<1>3. Leaves(out, failed)
  BY <1>1, <1>2 DEF Poll, Leaves
<1> QED
  BY <1>3

LEMMA Pruned ==
    ASSUME TypeOK, PruneQueue
    PROVE  /\ \E out, failed : Leaves(out, failed)
           /\ check' \in 0..(Restore + 1) \cup {Never} /\ since' = since
<1>1. \E out, failed : Leaves(out, failed)
  <2>1. CASE check = Never /\ UNCHANGED <<queue, rows, loaded, age, dbErrors>>
    <3>1. queue' = queue \ {} /\ rows' = rows \ ({} \ {}) /\ loaded' = loaded
      BY <2>1
    <3>2. KeepAges
      <4>1. age = [e \in Held |-> age[e]]
        BY DEF TypeOK
      <4>2. Held' = Held
        BY <2>1 DEF Held
      <4> QED
        BY <2>1, <4>1, <4>2 DEF KeepAges
    <3>3. dbErrors' = dbErrors + Cardinality({}) /\ dbErrors' <= MaxDbErrors
      <4>1. dbErrors \in Nat /\ dbErrors <= MaxDbErrors /\ Cardinality({}) = 0
        BY Constants, FS_EmptySet DEF TypeOK
      <4> QED
        BY <2>1, <4>1
    <3>4. Leaves({}, {})
      BY <3>1, <3>2, <3>3 DEF Leaves
    <3> QED
      BY <3>4
  <2>2. CASE Poll(Expired(queue))
    <3>1. \A e \in Expired(queue) : e \in queue
      BY DEF Expired
    <3> QED
      BY <2>2, <3>1, Polled
  <2>3. CASE \E e \in queue : IsOldest(e, queue) /\ Poll({e})
    <3>1. PICK e \in queue : Poll({e})
      BY <2>3
    <3>2. \A f \in {e} : f \in queue
      OBVIOUS
    <3> QED
      BY <3>1, <3>2, Polled
  <2> QED
    BY <2>1, <2>2, <2>3 DEF PruneQueue
<1>2. check' \in 0..(Restore + 1) \cup {Never}
  <2>1. check \in 0..(Restore + 1) \cup {Never} /\ Restore \in Nat
    BY Constants DEF TypeOK
  <2>2. check' = check \/ check' = 0
    BY DEF PruneQueue
  <2> QED
    BY <2>1, <2>2
<1> QED
  BY <1>1, <1>2 DEF PruneQueue

\* Pruning keeps the types, and never makes the queue and its rows longer.
LEMMA LeavesSizes ==
    ASSUME TypeOK, NEW out, NEW failed, Leaves(out, failed)
    PROVE  /\ Entries' /\ dbErrors' \in 0..MaxDbErrors /\ dbErrors <= dbErrors'
           /\ loaded' = loaded /\ \A e \in queue' : e \in queue /\ age'[e] = age[e]
           /\ Cardinality((queue \cup rows)') <= Cardinality(queue \cup rows)
           /\ Cardinality((rows \ queue)')
                 <= Cardinality(rows \ queue) + (dbErrors' - dbErrors)
<1>0. Entries /\ Counters
  BY TypeParts
<1>1. IsFiniteSet(failed) /\ Cardinality(failed) \in Nat
  <2>1. IsFiniteSet(rows) /\ \A e \in failed : e \in rows
    BY Sizes DEF Leaves
  <2> QED
    BY <2>1, Part
<1>2. dbErrors \in Nat /\ dbErrors' = dbErrors + Cardinality(failed)
      /\ dbErrors' <= MaxDbErrors /\ MaxDbErrors \in Nat
  BY Numbers, Constants DEF Leaves
<1>3. dbErrors' \in 0..MaxDbErrors /\ dbErrors <= dbErrors'
  BY <1>1, <1>2
<1>4. \A e \in Held' : e \in Held
  BY DEF Leaves, Held
<1>5. Entries' /\ \A e \in Held' : age'[e] = age[e]
  BY <1>0, <1>4, Kept DEF Leaves
<1>6. Cardinality((queue \cup rows)') <= Cardinality(queue \cup rows)
  <2>1. \A e \in (queue \cup rows)' : e \in queue \cup rows
    BY DEF Leaves
  <2> QED
    BY <2>1, Sizes, Part
<1>7. Cardinality((rows \ queue)') <= Cardinality(rows \ queue) + (dbErrors' - dbErrors)
  <2>1. \A e \in (rows \ queue)' : e \in rows \ queue \/ e \in failed
    BY DEF Leaves
  <2>2. Cardinality((rows \ queue)') <= Cardinality(rows \ queue) + Cardinality(failed)
    BY <1>1, <2>1, Sizes, Split
  <2>3. dbErrors' - dbErrors = Cardinality(failed)
    BY <1>1, <1>2
  <2> QED
    BY <2>2, <2>3
<1>8. \A e \in queue' : e \in queue /\ age'[e] = age[e]
  BY <1>5 DEF Leaves, Held
<1> QED
  BY <1>3, <1>5, <1>6, <1>7, <1>8 DEF Leaves

\* An offer adds one entry, younger than all.
LEMMA Offered ==
    ASSUME TypeOK, NEW saved \in BOOLEAN, Offer(saved)
    PROVE  /\ Entries' /\ dbErrors' \in 0..MaxDbErrors /\ dbErrors <= dbErrors'
           /\ check' \in 0..(Restore + 1) \cup {Never}
           /\ loaded' = loaded /\ since' = since
           /\ NewEntry \notin queue /\ queue' = queue \cup {NewEntry}
           /\ age'[NewEntry] = 0 /\ \A e \in queue : age'[e] = age[e]
           /\ Cardinality((queue \cup rows)') <= Cardinality(queue \cup rows) + 1
           /\ Cardinality((rows \ queue)') <= Cardinality(rows \ queue)
<1> DEFINE e0 == NewEntry
<1>0. Entries /\ Counters
  BY TypeParts
<1>1. e0 \in Nat /\ e0 \notin Held
  BY <1>0, Fresh DEF Entries
<1>2. /\ queue' = queue \cup {e0} /\ loaded' = loaded /\ since' = since
      /\ rows' = rows \/ rows' = rows \cup {e0}
      /\ age' = [e \in Held' |-> IF e = e0 THEN 0 ELSE age[e]]
  BY DEF Offer
<1> HIDE DEF e0
<1>3. Held' = Held \cup {e0}
  BY <1>2 DEF Held
<1>4. IsFiniteSet(Held')
  BY <1>0, <1>3, FS_AddElement DEF Entries
<1>5. age' \in [Held' -> 0..Vacate]
  <2>1. 0 \in 0..Vacate
    BY Constants
  <2> QED
    BY <1>0, <1>2, <1>3, <2>1 DEF Entries
<1>6. Entries'
  BY <1>0, <1>1, <1>2, <1>4, <1>5 DEF Entries
<1>7. dbErrors' \in 0..MaxDbErrors /\ dbErrors <= dbErrors'
  <2>1. dbErrors \in Nat /\ dbErrors <= MaxDbErrors /\ MaxDbErrors \in Nat
    BY Constants DEF TypeOK
  <2>2. dbErrors' = dbErrors \/ (dbErrors < MaxDbErrors /\ dbErrors' = dbErrors + 1)
    BY DEF Offer
  <2> QED
    BY <2>1, <2>2
<1>8. check' \in 0..(Restore + 1) \cup {Never}
  <2>1. check \in 0..(Restore + 1) \cup {Never} /\ Restore \in Nat
    BY Constants DEF TypeOK
  <2>2. check' = check \/ check' = 0
    BY DEF Offer
  <2> QED
    BY <2>1, <2>2
<1>9. age'[e0] = 0 /\ \A e \in queue : age'[e] = age[e]
  BY <1>1, <1>2, <1>3 DEF Held
<1>10. Cardinality((queue \cup rows)') <= Cardinality(queue \cup rows) + 1
  <2>1. IsFiniteSet({e0}) /\ Cardinality({e0}) = 1
    BY FS_Singleton
  <2>2. \A e \in (queue \cup rows)' : e \in queue \cup rows \/ e \in {e0}
    BY <1>2
  <2> QED
    BY <2>1, <2>2, Sizes, Split
<1>11. Cardinality((rows \ queue)') <= Cardinality(rows \ queue)
  <2>1. \A e \in (rows \ queue)' : e \in rows \ queue
    BY <1>2
  <2> QED
    BY <2>1, Sizes, Part
<1>12. e0 \notin queue
  BY <1>1 DEF Held
<1> QED
  BY <1>2, <1>6, <1>7, <1>8, <1>9, <1>10, <1>11, <1>12 DEF e0

-----------------------------------------------------------------------------
(* Sizes: what each action does to the queue and its rows.                 *)

\* Where nothing may be sent, or what may be sent stays, the sizes keep their bounds.
LEMMA SameSizes ==
    ASSUME TypeOK, TypeOK', Overrun,
           \/ pc' # "send" /\ ~Answered'
           \/ pc' = pc /\ attempts' = attempts,
           Cardinality((queue \cup rows)') + (dbErrors + raced)
              <= Cardinality(queue \cup rows) + (dbErrors' + raced'),
           Cardinality((rows \ queue)') + (dbErrors + raced)
              <= Cardinality(rows \ queue) + (dbErrors' + raced')
    PROVE  Overrun'
<1>1. /\ Cardinality(queue \cup rows) \in Nat /\ Cardinality(rows \ queue) \in Nat
      /\ Cardinality((queue \cup rows)') \in Nat /\ Cardinality((rows \ queue)') \in Nat
  BY Sizes, NextSizes
<1>2. /\ dbErrors \in Nat /\ raced \in Nat /\ attempts \in Nat
      /\ dbErrors' \in Nat /\ raced' \in Nat /\ attempts' \in Nat
      /\ MaxQueue \in Nat /\ MaxAttempts \in Nat
  BY Numbers, NextSizes, Constants
<1>3. Cardinality((rows \ queue)') <= dbErrors' + raced'
  BY <1>1, <1>2 DEF Overrun
<1>4. OverrunBounded'
  <2>1. Cardinality(queue \cup rows) <= MaxQueue + MaxAttempts - 1 + dbErrors + raced
    BY DEF Overrun, OverrunBounded
  <2>2. Cardinality((queue \cup rows)')
           <= MaxQueue + MaxAttempts - 1 + dbErrors' + raced'
    BY <1>1, <1>2, <2>1
  <2> QED
    BY <2>2 DEF OverrunBounded
<1>5. ASSUME pc' = "send"
      PROVE  Cardinality((queue \cup rows)')
                <= MaxQueue - 1 + attempts' + dbErrors' + raced'
  <2>1. pc = "send" /\ attempts' = attempts
    BY <1>5
  <2>2. Cardinality(queue \cup rows) <= MaxQueue - 1 + attempts + dbErrors + raced
    BY <2>1 DEF Overrun
  <2> QED
    BY <1>1, <1>2, <2>1, <2>2
<1>6. ASSUME Answered'
      PROVE  Cardinality((queue \cup rows)')
                <= MaxQueue - 2 + attempts' + dbErrors' + raced'
  <2>1. Answered /\ attempts' = attempts
    BY <1>6 DEF Answered
  <2>2. Cardinality(queue \cup rows) <= MaxQueue - 2 + attempts + dbErrors + raced
    BY <2>1 DEF Overrun
  <2> QED
    BY <1>1, <1>2, <2>1, <2>2
<1> QED
  BY <1>3, <1>4, <1>5, <1>6 DEF Overrun

LEMMA SizeInit == Init => SizeInv
<1> SUFFICES ASSUME Init PROVE SizeInv
  OBVIOUS
<1>1. Held = {} /\ queue \cup rows = {} /\ rows \ queue = {}
  BY DEF Init, Held
<1>2. Entries
  BY <1>1, FS_EmptySet DEF Init, Entries
<1>3. Counters /\ Attempts /\ Clock
  BY Constants DEF Init, Counters, Attempts, Clock, Answered
<1>4. Overrun
  BY <1>1, Constants, FS_EmptySet DEF Init, Overrun, OverrunBounded, Answered
<1> QED
  BY <1>2, <1>3, <1>4, TypeParts DEF SizeInv, TypeInv

\* A prune by the service or at the head of the task's loop.
LEMMA PruneSizes ==
    ASSUME SizeInv, PruneQueue, UNCHANGED <<attempts, mws, hist, loads>>,
           pc' = pc \/ (pc = "slots" /\ pc' = "look")
    PROVE  SizeInv'
<1>0. TypeOK /\ Attempts /\ Clock /\ Overrun /\ Entries /\ Counters
  BY TypeParts DEF SizeInv, TypeInv
<1>1. PICK out, failed : Leaves(out, failed)
  BY <1>0, Pruned
<1>2. /\ Entries' /\ dbErrors' \in 0..MaxDbErrors /\ dbErrors <= dbErrors'
      /\ loaded' = loaded
      /\ Cardinality((queue \cup rows)') <= Cardinality(queue \cup rows)
      /\ Cardinality((rows \ queue)')
            <= Cardinality(rows \ queue) + (dbErrors' - dbErrors)
  BY <1>0, <1>1, LeavesSizes
<1>3. check' \in 0..(Restore + 1) \cup {Never} /\ since' = since
  BY <1>0, Pruned
<1>4. Counters'
  BY <1>0, <1>2, <1>3 DEF Counters, mws, hist
<1>5. TypeOK'
  BY <1>2, <1>4, TypeParts
<1>6. Attempts' /\ Clock'
  BY <1>0 DEF Attempts, Answered, Clock, mws
<1>7. Overrun'
  <2>1. /\ dbErrors \in Nat /\ raced \in Nat /\ dbErrors' \in Nat /\ raced' = raced
        /\ Cardinality(queue \cup rows) \in Nat /\ Cardinality(rows \ queue) \in Nat
    BY <1>0, <1>2, Numbers, Sizes, Constants DEF hist
  <2>2. /\ Cardinality((queue \cup rows)') \in Nat
        /\ Cardinality((rows \ queue)') \in Nat
    BY <1>5, NextSizes
  <2>3. /\ Cardinality((queue \cup rows)') + (dbErrors + raced)
              <= Cardinality(queue \cup rows) + (dbErrors' + raced')
        /\ Cardinality((rows \ queue)') + (dbErrors + raced)
              <= Cardinality(rows \ queue) + (dbErrors' + raced')
    BY <1>2, <2>1, <2>2
  <2> QED
    BY <1>0, <1>5, <2>3, SameSizes DEF Answered
<1> QED
  BY <1>5, <1>6, <1>7 DEF SizeInv, TypeInv

\* Steps of the task that leave the queue alone.
LEMMA StillSizes ==
    ASSUME SizeInv, UNCHANGED <<store, hist, loads>>, Counters', Attempts', Clock',
           \/ pc' # "send" /\ ~Answered'
           \/ pc' = pc /\ attempts' = attempts
    PROVE  SizeInv'
<1>0. TypeOK /\ Overrun /\ Entries
  BY TypeParts DEF SizeInv, TypeInv
<1>1. /\ queue' = queue /\ rows' = rows /\ loaded' = loaded /\ age' = age
      /\ dbErrors' = dbErrors /\ raced' = raced
  BY DEF store, hist
<1>2. Entries'
  BY <1>0, <1>1 DEF Entries, Held
<1>3. TypeOK'
  BY <1>2, TypeParts
<1>4. /\ Cardinality(queue \cup rows) \in Nat /\ Cardinality(rows \ queue) \in Nat
      /\ dbErrors \in Nat /\ raced \in Nat
  BY <1>0, Sizes, Numbers
<1>5. Overrun'
  BY <1>0, <1>1, <1>3, <1>4, SameSizes
<1> QED
  BY <1>3, <1>5 DEF SizeInv, TypeInv

LEMMA TakeSizes == SizeInv /\ TakeSlot => SizeInv'
<1> SUFFICES ASSUME SizeInv, TakeSlot PROVE SizeInv'
  OBVIOUS
<1>0. TypeOK /\ Overrun /\ Attempts /\ Clock /\ Entries /\ Counters
  BY TypeParts DEF SizeInv, TypeInv
<1>1. /\ Counters' /\ Clock'
  BY <1>0 DEF TakeSlot, Counters, Clock, store, mws, hist, NotUnderDispatch
<1>2. CASE pc' \in NotUnderDispatch
  BY <1>0, <1>1, <1>2, StillSizes DEF TakeSlot, Attempts, Answered, NotUnderDispatch
<1>3. CASE HasSpot /\ pc' = "send"
  <2>1. /\ queue' = queue /\ rows' = rows /\ attempts' = attempts
        /\ dbErrors' = dbErrors /\ raced' = raced
    BY DEF TakeSlot, store, hist
  <2>2. Cardinality(queue \cup rows) <= Cardinality(queue) + Cardinality(rows \ queue)
    <3>1. \A e \in queue \cup rows : e \in queue \/ e \in rows \ queue
      OBVIOUS
    <3> QED
      BY <1>0, <3>1, Sizes, Split
  <2>3. /\ Cardinality(queue) \in Nat /\ Cardinality(queue \cup rows) \in Nat
        /\ Cardinality(rows \ queue) \in Nat
        /\ dbErrors \in Nat /\ raced \in Nat /\ attempts = 0
        /\ MaxQueue \in Nat /\ MaxAttempts \in Nat /\ MaxAttempts # 0
    <3>1. attempts = 0
      BY <1>0 DEF TakeSlot, Attempts, Answered
    <3> QED
      BY <1>0, <3>1, Sizes, Numbers, Constants
  <2>4. Cardinality(queue) < MaxQueue /\ Cardinality(rows \ queue) <= dbErrors + raced
    BY <1>0, <1>3 DEF HasSpot, Overrun
  <2>5. Cardinality(queue \cup rows) <= MaxQueue - 1 + attempts + dbErrors + raced
    BY <2>2, <2>3, <2>4
  <2>6. Overrun'
    BY <1>0, <1>3, <2>1, <2>5 DEF Overrun, OverrunBounded, Answered
  <2>7. Attempts'
    BY <1>3, <2>1, <2>3 DEF Attempts, Answered
  <2>8. Entries'
    BY <1>0, <2>1 DEF TakeSlot, store, Entries, Held
  <2> QED
    BY <1>1, <2>6, <2>7, <2>8, TypeParts DEF SizeInv, TypeInv
<1> QED
  BY <1>2, <1>3 DEF TakeSlot

\* What is offered is in the place of the attempt that was made.
LEMMA OfferSizes == SizeInv /\ AddFeedSubmission => SizeInv'
<1> SUFFICES ASSUME SizeInv, AddFeedSubmission PROVE SizeInv'
  OBVIOUS
<1>0. TypeOK /\ Overrun /\ Attempts /\ Clock /\ Counters
  BY TypeParts DEF SizeInv, TypeInv
<1>1. PICK saved \in BOOLEAN : Offer(saved)
  BY DEF AddFeedSubmission
<1>2. /\ Entries' /\ dbErrors' \in 0..MaxDbErrors /\ dbErrors <= dbErrors'
      /\ check' \in 0..(Restore + 1) \cup {Never}
      /\ loaded' = loaded /\ since' = since
      /\ Cardinality((queue \cup rows)') <= Cardinality(queue \cup rows) + 1
      /\ Cardinality((rows \ queue)') <= Cardinality(rows \ queue)
  BY <1>0, <1>1, Offered
<1>3. \/ pc' = "send" /\ attempts' = attempts /\ attempts < MaxAttempts
      \/ pc' = "slots" /\ attempts' = 0
  BY DEF AddFeedSubmission, Again
<1>4. Counters'
  <2>1. attempts' \in 0..MaxAttempts
    BY <1>0, <1>3, Constants DEF Counters
  <2>2. /\ used' = used /\ drain' = drain /\ lost' = lost /\ raced' = raced
        /\ loads' = loads
    BY DEF AddFeedSubmission, mws, hist
  <2> QED
    BY <1>0, <1>2, <1>3, <2>1, <2>2 DEF Counters
<1>5. TypeOK'
  BY <1>2, <1>4, TypeParts
<1>6. Attempts' /\ Clock'
  BY <1>0, <1>3 DEF Attempts, Answered, Clock, AddFeedSubmission, mws
<1>7. /\ dbErrors \in Nat /\ raced \in Nat /\ attempts \in Nat
      /\ dbErrors' \in Nat /\ raced' = raced /\ attempts <= MaxAttempts
      /\ MaxQueue \in Nat /\ MaxAttempts \in Nat
      /\ Cardinality(queue \cup rows) \in Nat /\ Cardinality((queue \cup rows)') \in Nat
      /\ Cardinality(rows \ queue) \in Nat /\ Cardinality((rows \ queue)') \in Nat
  <2>1. raced' = raced
    BY DEF AddFeedSubmission, hist
  <2> QED
    BY <1>0, <1>5, <2>1, Numbers, Sizes, NextSizes, Constants
<1>8. Cardinality((queue \cup rows)')
         <= MaxQueue - 1 + attempts + dbErrors' + raced'
  <2>1. Cardinality(queue \cup rows) <= MaxQueue - 2 + attempts + dbErrors + raced
    BY <1>0 DEF Overrun, Answered, AddFeedSubmission
  <2> QED
    BY <1>2, <1>7, <2>1
<1>9. Overrun'
  <2>1. Cardinality((rows \ queue)') <= dbErrors' + raced'
    BY <1>0, <1>2, <1>7 DEF Overrun
  <2>2. OverrunBounded'
    BY <1>7, <1>8 DEF OverrunBounded
  <2>3. ~Answered'
    BY <1>3 DEF Answered
  <2>4. ASSUME pc' = "send"
        PROVE  Cardinality((queue \cup rows)')
                  <= MaxQueue - 1 + attempts' + dbErrors' + raced'
    BY <1>3, <1>8, <2>4
  <2> QED
    BY <2>1, <2>2, <2>3, <2>4 DEF Overrun
<1> QED
  BY <1>5, <1>6, <1>9 DEF SizeInv, TypeInv

LEMMA SendSizes == SizeInv /\ Send => SizeInv'
<1> SUFFICES ASSUME SizeInv, Send PROVE SizeInv'
  OBVIOUS
<1>0. TypeOK /\ Overrun /\ Attempts /\ Clock /\ Entries /\ Counters
  BY TypeParts DEF SizeInv, TypeInv
<1>1. /\ queue' = queue /\ rows' = rows /\ loaded' = loaded /\ age' = age
      /\ check' = check /\ since' = since /\ dbErrors' = dbErrors
      /\ lost' = lost /\ raced' = raced /\ loads' = loads
      /\ attempts' = attempts + 1 /\ pc' \in {"counted", "refused", "vanished"}
  BY DEF Send, store, hist
<1>2. /\ attempts \in Nat /\ attempts < MaxAttempts /\ MaxAttempts \in Nat
      /\ used \in Nat /\ MwsRestore \in Nat \ {0}
  BY <1>0, Numbers, Constants DEF Attempts, Send
<1>3. /\ used' \in Nat /\ drain' = drain /\ (used' = 0 => used = 0)
  BY <1>0, <1>2 DEF Send, Clock
<1>4. Entries'
  BY <1>0, <1>1 DEF Entries, Held
<1>5. Counters'
  <2>1. attempts' \in 0..MaxAttempts
    BY <1>1, <1>2
  <2> QED
    BY <1>0, <1>1, <1>3, <2>1 DEF Counters
<1>6. Attempts' /\ Clock'
  BY <1>0, <1>1, <1>2, <1>3 DEF Attempts, Answered, Clock
<1>7. Overrun'
  <2>1. Cardinality(queue \cup rows) <= MaxQueue - 1 + attempts + dbErrors + raced
    BY <1>0 DEF Overrun, Send
  <2>2. /\ Cardinality(queue \cup rows) \in Nat /\ dbErrors \in Nat /\ raced \in Nat
        /\ MaxQueue \in Nat
    BY <1>0, Sizes, Numbers, Constants
  <2>3. Cardinality(queue \cup rows) <= MaxQueue - 2 + attempts' + dbErrors + raced
    BY <1>1, <1>2, <2>1, <2>2
  <2>4. pc' # "send"
    BY <1>1
  <2> QED
    BY <1>0, <1>1, <2>3, <2>4 DEF Overrun, OverrunBounded
<1> QED
  BY <1>4, <1>5, <1>6, <1>7, TypeParts DEF SizeInv, TypeInv

\* A restart loads the rows, and vacates what has expired.
LEMMA RestartSizes == SizeInv /\ Restart => SizeInv'
<1> SUFFICES ASSUME SizeInv, Restart PROVE SizeInv'
  OBVIOUS
<1>0. TypeOK /\ Overrun /\ Clock /\ Entries /\ Counters
  BY TypeParts DEF SizeInv, TypeInv
<1>1. PICK failed \in SUBSET (Expired(rows) \cap rows) :
         /\ dbErrors + Cardinality(failed) <= MaxDbErrors
         /\ dbErrors' = dbErrors + Cardinality(failed)
         /\ rows' = rows \ (Expired(rows) \ failed)
  BY DEF Restart, DeleteRows
<1>2. /\ queue' = rows \ Expired(rows) /\ loaded' = {} /\ since' = Never
      /\ used' = used /\ drain' = drain /\ raced' = raced /\ attempts' = 0
      /\ pc' \in NotUnderDispatch
  BY DEF Restart, mws
<1>3. Entries'
  <2>1. \A e \in Held' : e \in Held
    BY <1>1, <1>2 DEF Held
  <2> QED
    BY <1>0, <2>1, Kept DEF Restart
<1>4. IsFiniteSet(failed) /\ Cardinality(failed) \in Nat
  <2>1. IsFiniteSet(rows) /\ \A e \in failed : e \in rows
    BY <1>0, Sizes
  <2> QED
    BY <2>1, Part
<1>5. dbErrors \in Nat /\ dbErrors' \in 0..MaxDbErrors /\ dbErrors <= dbErrors'
  BY <1>0, <1>1, <1>4, Numbers, Constants
<1>6. Counters'
  <2>1. check' \in 0..(Restore + 1) \cup {Never}
    BY Constants DEF Restart, LoadQueue
  <2>2. loads' \in 0..MaxLoads
    BY <1>0, Constants DEF Restart, Counters
  <2>3. lost' \in Nat
    <3>1. lost \in Nat /\ Pending \in {0, 1}
      BY <1>0, Numbers
    <3>2. Cardinality(queue \ rows) \in Nat
      <4>1. \A e \in queue \ rows : e \in queue
        OBVIOUS
      <4> QED
        BY <1>0, <4>1, Sizes, Part
    <3>3. lost' = lost + Cardinality(queue \ rows) + Pending
      BY DEF Restart
    <3> QED
      BY <3>1, <3>2, <3>3
  <2> QED
    BY <1>0, <1>2, <1>5, <2>1, <2>2, <2>3, Constants DEF Counters, NotUnderDispatch
<1>7. TypeOK'
  BY <1>3, <1>6, TypeParts
<1>8. Attempts' /\ Clock'
  BY <1>0, <1>2 DEF Attempts, Answered, Clock, NotUnderDispatch
<1>9. Overrun'
  <2>1. Cardinality((queue \cup rows)') <= Cardinality(queue \cup rows)
    <3>1. \A e \in (queue \cup rows)' : e \in queue \cup rows
      BY <1>1, <1>2
    <3> QED
      BY <1>0, <3>1, Sizes, Part
  <2>2. Cardinality((rows \ queue)') <= Cardinality(rows \ queue) + (dbErrors' - dbErrors)
    <3>1. \A e \in (rows \ queue)' : e \in rows \ queue \/ e \in failed
      BY <1>1, <1>2
    <3>2. Cardinality((rows \ queue)') <= Cardinality(rows \ queue) + Cardinality(failed)
      BY <1>0, <1>4, <3>1, Sizes, Split
    <3>3. dbErrors' - dbErrors = Cardinality(failed)
      BY <1>1, <1>4, <1>5
    <3> QED
      BY <3>2, <3>3
  <2>3. /\ dbErrors \in Nat /\ raced \in Nat /\ dbErrors' \in Nat /\ raced' = raced
        /\ Cardinality(queue \cup rows) \in Nat /\ Cardinality(rows \ queue) \in Nat
        /\ Cardinality((queue \cup rows)') \in Nat
        /\ Cardinality((rows \ queue)') \in Nat
    BY <1>0, <1>2, <1>7, Numbers, Sizes, NextSizes
  <2>4. /\ Cardinality((queue \cup rows)') + (dbErrors + raced)
              <= Cardinality(queue \cup rows) + (dbErrors' + raced')
        /\ Cardinality((rows \ queue)') + (dbErrors + raced)
              <= Cardinality(rows \ queue) + (dbErrors' + raced')
    BY <1>5, <2>1, <2>2, <2>3
  <2>5. pc' # "send" /\ ~Answered'
    BY <1>2 DEF Answered, NotUnderDispatch
  <2> QED
    BY <1>0, <1>7, <2>4, <2>5, SameSizes
<1> QED
  BY <1>7, <1>8, <1>9 DEF SizeInv, TypeInv

LEMMA ReadSizes == SizeInv /\ ReloadReads => SizeInv'
<1> SUFFICES ASSUME SizeInv, ReloadReads PROVE SizeInv'
  OBVIOUS
<1>0. TypeOK /\ Overrun /\ Attempts /\ Clock /\ Entries /\ Counters
  BY TypeParts DEF SizeInv, TypeInv
<1>1. /\ queue' = queue /\ rows' = rows /\ age' = age /\ loaded' = rows /\ since' = 0
      /\ check' = check /\ dbErrors' = dbErrors /\ pc' = pc /\ attempts' = attempts
      /\ used' = used /\ drain' = drain /\ lost' = lost /\ raced' = raced
  BY DEF ReloadReads, task, mws, hist
<1>2. Held' = Held
  <2>1. loaded = {}
    BY <1>0 DEF ReloadReads, Counters
  <2> QED
    BY <1>1, <2>1 DEF Held
<1>3. Entries'
  BY <1>0, <1>1, <1>2 DEF Entries
<1>4. Counters'
  <2>1. loads' \in 0..MaxLoads
    BY <1>0, Constants DEF ReloadReads, Counters
  <2>2. since' \in 0..(Restore + 1) \cup {Never} /\ since' # Never
    BY <1>1, Constants
  <2> QED
    BY <1>0, <1>1, <2>1, <2>2 DEF Counters
<1>5. Attempts' /\ Clock' /\ Overrun'
  BY <1>0, <1>1 DEF Attempts, Answered, Clock, Overrun, OverrunBounded
<1> QED
  BY <1>3, <1>4, <1>5, TypeParts DEF SizeInv, TypeInv

\* A reload brings no more than what came or went since it read.
LEMMA AssignSizes == SizeInv /\ ReloadAssigns => SizeInv'
<1> SUFFICES ASSUME SizeInv, ReloadAssigns PROVE SizeInv'
  OBVIOUS
<1> DEFINE gone == (queue \cap rows) \ loaded
           back == loaded \ (queue \cup rows)
<1>0. TypeOK /\ Overrun /\ Attempts /\ Clock /\ Entries /\ Counters
  BY TypeParts DEF SizeInv, TypeInv
<1>1. /\ queue' = loaded /\ rows' = rows /\ loaded' = {} /\ since' = Never
      /\ dbErrors' = dbErrors /\ pc' = pc /\ attempts' = attempts
      /\ used' = used /\ drain' = drain /\ loads' = loads
      /\ raced' = raced + Cardinality(gone) + Cardinality(back)
  BY DEF ReloadAssigns, task, mws
<1>2. /\ IsFiniteSet(gone) /\ Cardinality(gone) \in Nat
      /\ IsFiniteSet(back) /\ Cardinality(back) \in Nat
      /\ Cardinality(queue \ loaded) \in Nat
  <2>1. IsFiniteSet(rows) /\ \A e \in gone : e \in rows
    BY <1>0, Sizes
  <2>2. IsFiniteSet(loaded) /\ \A e \in back : e \in loaded
    BY <1>0, Sizes
  <2>3. IsFiniteSet(queue) /\ \A e \in queue \ loaded : e \in queue
    BY <1>0, Sizes
  <2> HIDE DEF gone, back
  <2> QED
    BY <2>1, <2>2, <2>3, Part
<1>3. Entries'
  <2>1. \A e \in Held' : e \in Held
    BY <1>1 DEF Held
  <2> QED
    BY <1>0, <2>1, Kept DEF ReloadAssigns
<1>4. Counters'
  <2>1. check' \in 0..(Restore + 1) \cup {Never}
    <3>1. check' = Never \/ check' \in 0..since
      BY DEF ReloadAssigns, LoadQueue
    <3>2. since \in 0..(Restore + 1) /\ Restore \in Nat
      BY <1>0, Constants DEF Counters, ReloadAssigns
    <3> QED
      BY <3>1, <3>2
  <2>2. lost' \in Nat
    <3>1. lost \in Nat
      BY <1>0, Numbers
    <3>2. \/ lost' = lost + Cardinality(queue \ loaded) + 1
          \/ lost' = lost + Cardinality(queue \ loaded) + 0
      BY DEF ReloadAssigns
    <3> QED
      BY <1>2, <3>1, <3>2
  <2>3. raced' \in Nat
    <3>1. raced \in Nat
      BY <1>0, Numbers
    <3> HIDE DEF gone, back
    <3> QED
      BY <1>1, <1>2, <3>1
  <2> QED
    BY <1>0, <1>1, <2>1, <2>2, <2>3 DEF Counters
<1>5. TypeOK'
  BY <1>3, <1>4, TypeParts
<1>6. Attempts' /\ Clock'
  BY <1>0, <1>1 DEF Attempts, Answered, Clock
<1>7. Overrun'
  <2>1. Cardinality((queue \cup rows)') <= Cardinality(queue \cup rows) + Cardinality(back)
    <3>1. \A e \in (queue \cup rows)' : e \in queue \cup rows \/ e \in back
      BY <1>1
    <3> HIDE DEF back
    <3> QED
      BY <1>0, <1>2, <3>1, Sizes, Split
  <2>2. Cardinality((rows \ queue)') <= Cardinality(rows \ queue) + Cardinality(gone)
    <3>1. \A e \in (rows \ queue)' : e \in rows \ queue \/ e \in gone
      BY <1>1
    <3> HIDE DEF gone
    <3> QED
      BY <1>0, <1>2, <3>1, Sizes, Split
  <2>3. /\ dbErrors \in Nat /\ raced \in Nat
        /\ Cardinality(queue \cup rows) \in Nat /\ Cardinality(rows \ queue) \in Nat
        /\ Cardinality((queue \cup rows)') \in Nat
        /\ Cardinality((rows \ queue)') \in Nat
    BY <1>0, <1>5, Numbers, Sizes, NextSizes
  <2>4. /\ Cardinality((queue \cup rows)') + (dbErrors + raced)
              <= Cardinality(queue \cup rows) + (dbErrors' + raced')
        /\ Cardinality((rows \ queue)') + (dbErrors + raced)
              <= Cardinality(rows \ queue) + (dbErrors' + raced')
    <3> HIDE DEF gone, back
    <3> QED
      BY <1>1, <1>2, <2>1, <2>2, <2>3
  <2> QED
    BY <1>0, <1>1, <1>5, <2>4, SameSizes
<1> QED
  BY <1>5, <1>6, <1>7 DEF SizeInv, TypeInv

LEMMA SaveSizes == SizeInv /\ Save => SizeInv'
<1> SUFFICES ASSUME SizeInv, Save PROVE SizeInv'
  OBVIOUS
<1>0. TypeOK /\ Overrun /\ Attempts /\ Clock /\ Entries /\ Counters
  BY TypeParts DEF SizeInv, TypeInv
<1>1. /\ queue' = queue /\ rows' = queue /\ loaded' = loaded /\ check' = check
      /\ since' = since /\ dbErrors' = dbErrors /\ pc' = pc /\ attempts' = attempts
      /\ used' = used /\ drain' = drain /\ lost' = lost /\ raced' = raced
      /\ loads' = loads
  BY DEF Save, task, mws, hist
<1>2. Entries'
  <2>1. \A e \in Held' : e \in Held
    BY <1>1 DEF Held
  <2> QED
    BY <1>0, <2>1, Kept DEF Save
<1>3. Counters'
  BY <1>0, <1>1 DEF Counters
<1>4. TypeOK'
  BY <1>2, <1>3, TypeParts
<1>5. Attempts' /\ Clock'
  BY <1>0, <1>1 DEF Attempts, Answered, Clock
<1>6. Overrun'
  <2>1. Cardinality((queue \cup rows)') <= Cardinality(queue \cup rows)
    <3>1. \A e \in (queue \cup rows)' : e \in queue \cup rows
      BY <1>1
    <3> QED
      BY <1>0, <3>1, Sizes, Part
  <2>2. Cardinality((rows \ queue)') <= Cardinality(rows \ queue)
    <3>1. \A e \in (rows \ queue)' : e \in rows \ queue
      BY <1>1
    <3> QED
      BY <1>0, <3>1, Sizes, Part
  <2>3. /\ dbErrors \in Nat /\ raced \in Nat
        /\ Cardinality(queue \cup rows) \in Nat /\ Cardinality(rows \ queue) \in Nat
        /\ Cardinality((queue \cup rows)') \in Nat
        /\ Cardinality((rows \ queue)') \in Nat
    BY <1>0, <1>4, Numbers, Sizes, NextSizes
  <2>4. /\ Cardinality((queue \cup rows)') + (dbErrors + raced)
              <= Cardinality(queue \cup rows) + (dbErrors' + raced')
        /\ Cardinality((rows \ queue)') + (dbErrors + raced)
              <= Cardinality(rows \ queue) + (dbErrors' + raced')
    BY <1>1, <2>1, <2>2, <2>3
  <2> QED
    BY <1>0, <1>1, <1>4, <2>4, SameSizes
<1> QED
  BY <1>4, <1>5, <1>6 DEF SizeInv, TypeInv

\* The clock: every date is one older, or at the age where nothing changes any more.
LEMMA Ageing ==
    ASSUME NEW a \in Nat, NEW limit \in Nat
    PROVE  Older(a, limit) \in 0..limit
BY DEF Older

\* What the clock does at MWS.
Drains ==
    \/ used = 0 /\ used' = 0 /\ drain' = 0
    \/ used > 0 /\ drain + 1 = MwsRestore /\ used' = used - 1 /\ drain' = 0
    \/ used > 0 /\ drain + 1 < MwsRestore /\ used' = used /\ drain' = drain + 1

LEMMA Draining == ASSUME TypeOK, Clock, Tick PROVE Drains
<1>1. used \in Nat /\ drain \in Nat /\ MwsRestore \in Nat /\ drain < MwsRestore
  BY Numbers, Constants DEF Clock
<1>2. CASE used > 0 /\ drain + 1 = MwsRestore
  BY <1>2 DEF Tick, Drains
<1>3. CASE ~(used > 0 /\ drain + 1 = MwsRestore)
  BY <1>1, <1>3 DEF Tick, Drains
<1> QED
  BY <1>2, <1>3

LEMMA TickSizes == SizeInv /\ Tick => SizeInv'
<1> SUFFICES ASSUME SizeInv, Tick PROVE SizeInv'
  OBVIOUS
<1>0. TypeOK /\ Overrun /\ Attempts /\ Clock /\ Entries /\ Counters
  BY TypeParts DEF SizeInv, TypeInv
<1>1. /\ queue' = queue /\ rows' = rows /\ loaded' = loaded
      /\ dbErrors' = dbErrors /\ pc' = pc /\ attempts' = attempts
      /\ lost' = lost /\ raced' = raced /\ loads' = loads
  BY DEF Tick, task, hist
<1>2. Entries'
  <2>1. Held' = Held
    BY <1>1 DEF Held
  <2>2. age' \in [Held -> 0..Vacate]
    <3>1. \A e \in Held : Older(age[e], Vacate) \in 0..Vacate
      <4>1. Vacate \in Nat /\ \A e \in Held : age[e] \in Nat
        BY <1>0, Constants DEF Entries
      <4> QED
        BY <4>1, Ageing
    <3> QED
      BY <3>1 DEF Tick
  <2> QED
    BY <1>0, <1>1, <2>1, <2>2 DEF Entries
<1>3. /\ check' \in 0..(Restore + 1) \cup {Never}
      /\ since' \in 0..(Restore + 1) \cup {Never}
      /\ since' = Never => since = Never
  <2>1. /\ Restore + 1 \in Nat /\ Never \notin 0..(Restore + 1)
        /\ \A a \in 0..(Restore + 1) : a \in Nat
    BY Constants
  <2>2. \A a \in 0..(Restore + 1) \cup {Never} :
           /\ OlderDate(a) \in 0..(Restore + 1) \cup {Never}
           /\ OlderDate(a) = Never => a = Never
    BY <2>1, Ageing DEF OlderDate
  <2> QED
    BY <1>0, <2>2 DEF Tick, Counters
<1>4. /\ used' \in Nat /\ drain' \in 0..MwsRestore /\ Clock'
  <2>1. used \in Nat /\ drain \in Nat /\ MwsRestore \in Nat \ {0}
    BY <1>0, Numbers, Constants
  <2> QED
    BY <1>0, <2>1, Draining DEF Drains, Clock
<1>5. Counters'
  BY <1>0, <1>1, <1>3, <1>4 DEF Counters
<1>6. Attempts' /\ Overrun'
  BY <1>0, <1>1 DEF Attempts, Answered, Overrun, OverrunBounded
<1> QED
  BY <1>2, <1>4, <1>5, <1>6, TypeParts DEF SizeInv, TypeInv

\* Enter, GiveUp and FeedsChange: the task comes and goes.
LEMMA TaskSizes == SizeInv /\ (Enter \/ GiveUp \/ FeedsChange) => SizeInv'
<1> SUFFICES ASSUME SizeInv, Enter \/ GiveUp \/ FeedsChange PROVE SizeInv'
  OBVIOUS
<1>0. Attempts /\ Clock /\ Counters
  BY TypeParts DEF SizeInv, TypeInv
<1>1. UNCHANGED <<store, mws, hist, loads>>
  BY DEF Enter, GiveUp, FeedsChange
<1>2. pc' \in {"idle", "waiting", "slots", "stopped"} /\ attempts' = 0
  <2>1. CASE Enter
    BY <1>0, <2>1 DEF Enter, Attempts, Answered, NotUnderDispatch
  <2>2. CASE GiveUp
    BY <2>2 DEF GiveUp
  <2>3. CASE FeedsChange
    BY <1>0, <2>3 DEF FeedsChange, Attempts, Answered, NotUnderDispatch
  <2> QED
    BY <2>1, <2>2, <2>3
<1>3. Counters'
  BY <1>0, <1>1, <1>2, Constants DEF Counters, store, mws, hist
<1>4. Attempts' /\ Clock'
  BY <1>0, <1>1, <1>2 DEF Attempts, Answered, Clock, mws
<1> QED
  BY <1>1, <1>2, <1>3, <1>4, StillSizes DEF Answered

LEMMA SizeNext == SizeInv /\ [Next]_vars => SizeInv'
<1> SUFFICES ASSUME SizeInv, [Next]_vars PROVE SizeInv'
  OBVIOUS
<1>1. CASE ServiceLooks \/ ServiceLooksLate
  BY <1>1, PruneSizes DEF ServiceLooks, ServiceLooksLate, task
<1>2. CASE FindSlot
  BY <1>2, PruneSizes DEF FindSlot
<1>3. CASE Enter \/ GiveUp \/ FeedsChange
  BY <1>3, TaskSizes
<1>4. CASE UNCHANGED vars
  BY <1>4 DEF vars, store, task, mws, hist, SizeInv, TypeInv, TypeOK, Held, Attempts,
              Answered, Clock, Overrun, OverrunBounded
<1> QED
  BY <1>1, <1>2, <1>3, <1>4, TakeSizes, SendSizes, OfferSizes, RestartSizes, ReadSizes,
     AssignSizes, SaveSizes, TickSizes DEF Next, Proceed

LEMMA SizeKept == Spec => []SizeInv
<1> QED
  BY SizeInit, SizeNext, PTL DEF Spec

\* The queue, its rows and what a reload has read are entries, each of an age, and every
\* date and counter stays in its range.
THEOREM TypeCorrect == Spec => []TypeOK
<1>1. SizeInv => TypeOK
  BY DEF SizeInv, TypeInv
<1> QED
  BY <1>1, SizeKept, PTL

\* The retries of one feed, the rows that would not go and the entries a reload crossed
\* are all that can push the queue and its rows over MAX_QUEUE_SIZE.
THEOREM OverrunsBounded == Spec => []OverrunBounded
<1>1. SizeInv => OverrunBounded
  BY DEF SizeInv, Overrun
<1> QED
  BY <1>1, SizeKept, PTL

-----------------------------------------------------------------------------
(* Time, and queues that stand for the requests.                           *)

LEMMA Times ==
    ASSUME NEW a \in Int, NEW b \in Int, NEW m \in Nat, a <= b
    PROVE  a * m <= b * m
OBVIOUS

\* Fewer requests, or more entries, take no longer.
LEMMA DelayMonotone ==
    ASSUME NEW u \in Int, NEW v \in Int, NEW n \in Int, NEW m \in Int, NEW d \in Int,
           v - m <= u - n
    PROVE  /\ Delay(v, m, d) <= Delay(u, n, d)
           /\ Delay(v, m, d) \in Int /\ Delay(u, n, d) \in Int
<1>1. (v - m) * MwsRestore <= (u - n) * MwsRestore
  BY Constants, Times
<1>2. (v - m) * MwsRestore \in Int /\ (u - n) * MwsRestore \in Int
  BY Constants
<1> QED
  BY <1>1, <1>2 DEF Delay

\* One request, or one entry, is worth MwsRestore.
LEMMA DelayOne ==
    ASSUME NEW u \in Int, NEW n \in Int, NEW d \in Int
    PROVE  /\ Delay(u + 1, n, d) = Delay(u, n, d) + MwsRestore
           /\ Delay(u, n - 1, d) = Delay(u, n, d) + MwsRestore
           /\ Delay(u - 1, n, d) = Delay(u, n, d) - MwsRestore
           /\ Delay(u, n, d) \in Int
           /\ Delay(u, n, 0) = Delay(u, n, d) + d
<1>1. (u - n) * MwsRestore \in Int
  BY Constants
<1>2. ((u + 1) - n) * MwsRestore = (u - n) * MwsRestore + MwsRestore
  BY Constants
<1>3. (u - (n - 1)) * MwsRestore = (u - n) * MwsRestore + MwsRestore
  BY Constants
<1>4. ((u - 1) - n) * MwsRestore = (u - n) * MwsRestore - MwsRestore
  BY Constants
<1> QED
  BY <1>1, <1>2, <1>3, <1>4, Constants DEF Delay

\* A lag of no more than MwsRestore is one request, and no lag is none.
LEMMA Lag ==
    ASSUME NEW u \in Int, NEW n \in Int, NEW d \in Nat, d < MwsRestore
    PROVE  /\ Delay(u, n, d) <= MwsRestore => u <= n + 1
           /\ Delay(u, n, d) <= 0 => u <= n
<1>1. ASSUME Delay(u, n, d) <= MwsRestore PROVE u <= n + 1
  <2>1. CASE u >= n + 2
    <3>1. 2 * MwsRestore <= (u - n) * MwsRestore
      BY <2>1, Constants, Times
    <3> QED
      BY <1>1, <3>1, Constants DEF Delay
  <2> QED
    BY <2>1
<1>2. ASSUME Delay(u, n, d) <= 0 PROVE u <= n
  <2>1. CASE u >= n + 1
    <3>1. 1 * MwsRestore <= (u - n) * MwsRestore
      BY <2>1, Constants, Times
    <3> QED
      BY <1>2, <3>1, Constants DEF Delay
  <2> QED
    BY <2>1
<1> QED
  BY <1>1, <1>2

LEMMA Limits ==
    ASSUME NEW a \in Int, NEW b \in Int, NEW m \in Nat, NEW n \in Nat
    PROVE  /\ AtLeast(a, m) \in Nat /\ a <= AtLeast(a, m) /\ m <= AtLeast(a, m)
           /\ a <= b /\ m <= n => AtLeast(a, m) <= AtLeast(b, n)
           /\ a <= b + 1 /\ m <= n + 1 => AtLeast(a, m) <= AtLeast(b, n) + 1
BY DEF AtLeast

\* What an entry of age a still has to live, with a lag m.
LEMMA Lives ==
    ASSUME NEW a \in Int, NEW m \in Nat, NEW n \in Nat, m <= n
    PROVE  /\ AtLeast(Vacate - a, m) \in Nat /\ AtLeast(Vacate - a, n) \in Nat
           /\ m <= AtLeast(Vacate - a, m) /\ Vacate - a <= AtLeast(Vacate - a, m)
           /\ AtLeast(Vacate - a, m) <= AtLeast(Vacate - a, n)
<1>1. Vacate \in Int
  BY Constants
<1>2. \A x, y \in Int : x - y \in Int /\ x <= x
  OBVIOUS
<1>3. Vacate - a \in Int /\ Vacate - a <= Vacate - a
  BY <1>1, <1>2
<1> QED
  BY <1>3, Limits

LEMMA Restores == MwsRestore \in Nat /\ MwsRestore \in Int /\ 0 <= MwsRestore
                  /\ MwsRestore <= MwsRestore /\ 0 \in Nat
BY Constants

\* When a check starts anew the queue may lag behind again, for as long as MWS takes.
LEMMA SlackAnew ==
    /\ Slack(0) = MwsRestore /\ Slack(Never) = MwsRestore
    /\ Slack(Restore + 1) = 0
<1>1. MwsRestore \in Nat /\ Restore \in Nat /\ MwsRestore <= Restore /\ Never \notin Nat
  BY Constants
<1>2. Slack(0) = MwsRestore
  BY <1>1 DEF Slack, AtLeast
<1>3. Slack(Restore + 1) = 0
  <2>1. Restore + 1 \in Nat /\ MwsRestore - (Restore + 1) < 0
    BY <1>1
  <2>2. Restore + 1 # Never
    BY <1>1, <2>1
  <2> QED
    BY <2>1, <2>2 DEF Slack, AtLeast
<1> QED
  BY <1>2, <1>3 DEF Slack

LEMMA Counted ==
    ASSUME NEW q, IsFiniteSet(q), NEW g, NEW a
    PROVE  /\ IsFiniteSet(Younger(q, g, a))
           /\ Count(q, g, a) \in Nat /\ Count(q, g, a) \in Int
<1>1. \A e \in Younger(q, g, a) : e \in q
  BY DEF Younger
<1>2. IsFiniteSet(Younger(q, g, a)) /\ Cardinality(Younger(q, g, a)) \in Nat
  BY <1>1, Part
<1> QED
  BY <1>2 DEF Count

LEMMA AgeBounds ==
    /\ \A a \in 0..Vacate + 1 : a \in Int /\ a \in Nat
    /\ Vacate \in Nat /\ Vacate \in 0..Vacate + 1 /\ Vacate + 1 \in 0..Vacate + 1
    /\ \A a \in 0..Vacate + 1 : a = Vacate + 1 \/ a \in 0..Vacate
BY Constants

\* At the two last ages, only the lag is left.
LEMMA AtTheEnd ==
    ASSUME NEW c \in Nat
    PROVE  AtLeast(Vacate - Vacate, c) = c /\ AtLeast(Vacate - (Vacate + 1), c) = c
<1>1. Vacate - Vacate = 0 /\ Vacate - (Vacate + 1) = 0 - 1
  BY AgeBounds
<1> QED
  BY <1>1 DEF AtLeast

\* A queue that stands for as much as another one does, at each age or, at the last, what
\* has not expired of the other.
LEMMA CoversRest ==
    ASSUME NEW q, IsFiniteSet(q), NEW g, NEW r, IsFiniteSet(r), NEW h,
           NEW u \in Int, NEW v \in Int, NEW d \in Int,
           NEW c \in Nat, NEW e \in Nat, c <= e, Covers(q, g, u, d, c),
           \A a \in 0..Vacate : v - Count(r, h, a) <= u - Count(q, g, a),
           \/ v - Count(r, h, Vacate + 1) <= u - Count(q, g, Vacate + 1)
           \/ v - Count(r, h, Vacate + 1) <= u - Count(q, g, Vacate)
    PROVE  Covers(r, h, v, d, e)
<1>1. ASSUME NEW a \in 0..Vacate + 1, NEW b \in 0..Vacate + 1,
             v - Count(r, h, a) <= u - Count(q, g, b)
      PROVE  Delay(v, Count(r, h, a), d) <= AtLeast(Vacate - b, e)
  <2>1. Count(r, h, a) \in Int /\ Count(q, g, b) \in Int
    BY Counted
  <2>2. /\ Delay(v, Count(r, h, a), d) <= Delay(u, Count(q, g, b), d)
        /\ Delay(v, Count(r, h, a), d) \in Int /\ Delay(u, Count(q, g, b), d) \in Int
    BY <1>1, <2>1, DelayMonotone
  <2>3. Delay(u, Count(q, g, b), d) <= AtLeast(Vacate - b, c)
    BY DEF Covers
  <2>4. b \in Int
    BY AgeBounds
  <2>5. /\ AtLeast(Vacate - b, c) \in Nat /\ AtLeast(Vacate - b, e) \in Nat
        /\ AtLeast(Vacate - b, c) <= AtLeast(Vacate - b, e)
    BY <2>4, Lives
  <2> QED
    BY <2>2, <2>3, <2>5
<1>2. ASSUME NEW a \in 0..Vacate + 1
      PROVE  Delay(v, Count(r, h, a), d) <= AtLeast(Vacate - a, e)
  <2>1. CASE v - Count(r, h, a) <= u - Count(q, g, a)
    BY <1>1, <2>1
  <2>2. CASE a = Vacate + 1 /\ v - Count(r, h, a) <= u - Count(q, g, Vacate)
    <3>1. Delay(v, Count(r, h, a), d) <= AtLeast(Vacate - Vacate, e)
      BY <1>1, <2>2, AgeBounds
    <3>2. AtLeast(Vacate - Vacate, e) = AtLeast(Vacate - a, e)
      BY <2>2, AtTheEnd
    <3> QED
      BY <3>1, <3>2
  <2> QED
    BY <2>1, <2>2, AgeBounds
<1> QED
  BY <1>2 DEF Covers

\* One request less makes up for any lag of at most MwsRestore.
LEMMA CoversLess ==
    ASSUME NEW q, IsFiniteSet(q), NEW g, NEW r, IsFiniteSet(r), NEW h,
           NEW u \in Int, NEW v \in Int, NEW d \in Int,
           NEW c \in Nat, NEW e \in Nat, c <= MwsRestore, Covers(q, g, u, d, c),
           \A a \in 0..Vacate + 1 : v - Count(r, h, a) <= (u - 1) - Count(q, g, a)
    PROVE  Covers(r, h, v, d, e)
<1>1. ASSUME NEW a \in 0..Vacate + 1
      PROVE  Delay(v, Count(r, h, a), d) <= AtLeast(Vacate - a, e)
  <2>1. Count(r, h, a) \in Int /\ Count(q, g, a) \in Int /\ u - 1 \in Int
    BY Counted
  <2>2. /\ Delay(v, Count(r, h, a), d) <= Delay(u - 1, Count(q, g, a), d)
        /\ Delay(v, Count(r, h, a), d) \in Int /\ Delay(u - 1, Count(q, g, a), d) \in Int
    BY <2>1, DelayMonotone
  <2>3. /\ Delay(u - 1, Count(q, g, a), d) = Delay(u, Count(q, g, a), d) - MwsRestore
        /\ Delay(u, Count(q, g, a), d) \in Int
    BY <2>1, DelayOne
  <2>4. Delay(u, Count(q, g, a), d) <= AtLeast(Vacate - a, c)
    BY DEF Covers
  <2>5. Vacate - a \in Int
    BY AgeBounds
  <2>6. \A x \in Int : AtLeast(x, c) <= AtLeast(x, e) + MwsRestore
                       /\ AtLeast(x, c) \in Int /\ AtLeast(x, e) \in Int
    BY Restores DEF AtLeast
  <2>7. /\ AtLeast(Vacate - a, c) <= AtLeast(Vacate - a, e) + MwsRestore
        /\ AtLeast(Vacate - a, c) \in Int /\ AtLeast(Vacate - a, e) \in Int
    BY <2>5, <2>6
  <2> QED
    BY <2>2, <2>3, <2>4, <2>7, Restores
<1> QED
  BY <1>1 DEF Covers

\* A queue that stands for all requests stands for all but one without its oldest entry.
LEMMA CoversPop ==
    ASSUME NEW q, IsFiniteSet(q), NEW g, NEW h, NEW x \in q, \A e \in q : g[e] \in Nat,
           \A e \in q : g[e] <= g[x], g[x] <= Vacate, \A e \in q \ {x} : h[e] = g[e],
           NEW u \in Int, NEW d \in Int, Covers(q, g, u, d, 0)
    PROVE  Covers(q \ {x}, h, u, d, MwsRestore)
<1> DEFINE r == q \ {x}
<1>1. IsFiniteSet(r)
  BY FS_RemoveElement
<1>2. ASSUME NEW a \in 0..Vacate + 1
      PROVE  Delay(u, Count(r, h, a), d) <= AtLeast(Vacate - a, MwsRestore)
  <2>1. /\ Count(r, h, a) \in Nat /\ Count(q, g, a) \in Nat
        /\ Count(q, g, Vacate + 1) \in Nat
    BY <1>1, Counted
  <2>2. a \in Int /\ a \in Nat /\ Vacate \in Nat /\ g[x] \in Nat
    BY AgeBounds
  <2>3. /\ AtLeast(Vacate - a, 0) \in Nat /\ AtLeast(Vacate - a, MwsRestore) \in Nat
        /\ AtLeast(Vacate - a, 0) <= AtLeast(Vacate - a, MwsRestore)
        /\ MwsRestore <= AtLeast(Vacate - a, MwsRestore)
    BY <2>2, Restores, Lives
  <2>4. CASE g[x] < a
    <3>1. Younger(r, h, a) = Younger(q, g, Vacate + 1) \ {x} /\ x \in Younger(q, g, Vacate + 1)
      BY <2>2, <2>4 DEF Younger
    <3>2. Count(r, h, a) = Count(q, g, Vacate + 1) - 1
      <4> DEFINE all == Younger(q, g, Vacate + 1)
      <4>1. IsFiniteSet(all) /\ x \in all
        BY <3>1, Counted
      <4>2. Cardinality(all \ {x}) = Cardinality(all) - 1
        <5> HIDE DEF all
        <5> QED
          BY <4>1, FS_RemoveElement
      <4> QED
        BY <3>1, <4>2 DEF Count
    <3>3. Delay(u, Count(q, g, Vacate + 1), d) <= 0
      <4>1. Delay(u, Count(q, g, Vacate + 1), d) <= AtLeast(Vacate - (Vacate + 1), 0)
        BY AgeBounds DEF Covers
      <4>2. AtLeast(Vacate - (Vacate + 1), 0) = 0
        BY Restores, AtTheEnd
      <4> QED
        BY <4>1, <4>2
    <3>4. /\ Delay(u, Count(q, g, Vacate + 1) - 1, d)
                = Delay(u, Count(q, g, Vacate + 1), d) + MwsRestore
          /\ Delay(u, Count(q, g, Vacate + 1), d) \in Int
      <4>1. Count(q, g, Vacate + 1) \in Int
        BY <2>1
      <4> QED
        BY <4>1, DelayOne
    <3>5. Delay(u, Count(r, h, a), d) = Delay(u, Count(q, g, Vacate + 1), d) + MwsRestore
      BY <3>2, <3>4
    <3> QED
      BY <2>3, <3>3, <3>4, <3>5, Restores
  <2>5. CASE ~(g[x] < a)
    <3>1. Younger(r, h, a) = Younger(q, g, a)
      BY <2>2, <2>5 DEF Younger
    <3>2. Delay(u, Count(r, h, a), d) <= AtLeast(Vacate - a, 0)
      BY <3>1 DEF Covers, Count
    <3>3. Delay(u, Count(r, h, a), d) \in Int
      <4>1. Count(r, h, a) \in Int
        BY <2>1
      <4> QED
        BY <4>1, DelayOne
    <3> QED
      BY <2>3, <3>2, <3>3
  <2> QED
    BY <2>4, <2>5
<1> QED
  BY <1>2 DEF Covers

\* An entry for a request, when all the requests are forgotten before it expires.
LEMMA CoversOffer ==
    ASSUME NEW q, IsFiniteSet(q), NEW g, NEW h, NEW x, x \notin q, h[x] = 0,
           \A e \in q : g[e] \in Nat, \A e \in q : h[e] = g[e],
           NEW u \in Int, NEW v \in Int, v <= u + 1, NEW d \in Int,
           NEW c \in Nat, NEW f \in Nat, c <= f, Covers(q, g, u, d, c),
           Delay(u + 1, 0, d) <= Vacate
    PROVE  Covers(q \cup {x}, h, v, d, f)
<1> DEFINE r == q \cup {x}
<1>1. IsFiniteSet(r)
  BY FS_AddElement
<1>2. ASSUME NEW a \in 0..Vacate + 1
      PROVE  Delay(v, Count(r, h, a), d) <= AtLeast(Vacate - a, f)
  <2>1. Count(r, h, a) \in Nat /\ Count(q, g, a) \in Nat
    BY <1>1, Counted
  <2>2. a \in Int /\ a \in Nat /\ Vacate \in Nat
    BY AgeBounds
  <2>3. CASE a = 0
    <3>1. Younger(r, h, a) = {}
      BY <2>3 DEF Younger
    <3>2. Count(r, h, a) = 0
      BY <3>1, FS_EmptySet DEF Count
    <3>3. /\ Delay(v, 0, d) <= Delay(u + 1, 0, d)
          /\ Delay(v, 0, d) \in Int /\ Delay(u + 1, 0, d) \in Int
      <4>1. u + 1 \in Int /\ 0 \in Int /\ v - 0 <= (u + 1) - 0
        OBVIOUS
      <4> QED
        BY <4>1, DelayMonotone
    <3>4. Vacate <= AtLeast(Vacate - a, f) /\ AtLeast(Vacate - a, f) \in Nat
      BY <2>2, <2>3 DEF AtLeast
    <3>5. Delay(v, 0, d) <= AtLeast(Vacate - a, f)
      BY <2>2, <3>3, <3>4
    <3> QED
      BY <3>2, <3>5
  <2>4. CASE a # 0
    <3>1. /\ Younger(r, h, a) = Younger(q, g, a) \cup {x} /\ x \notin Younger(q, g, a)
      BY <2>2, <2>4 DEF Younger
    <3>2. Count(r, h, a) = Count(q, g, a) + 1
      <4>1. IsFiniteSet(Younger(q, g, a))
        BY Counted
      <4> QED
        BY <3>1, <4>1, FS_AddElement DEF Count
    <3>3. /\ Delay(v, Count(r, h, a), d) <= Delay(u, Count(q, g, a), d)
          /\ Delay(v, Count(r, h, a), d) \in Int /\ Delay(u, Count(q, g, a), d) \in Int
      <4>1. /\ Count(r, h, a) \in Int /\ Count(q, g, a) \in Int
            /\ v - Count(r, h, a) <= u - Count(q, g, a)
        BY <2>1, <3>2
      <4> QED
        BY <4>1, DelayMonotone
    <3>4. Delay(u, Count(q, g, a), d) <= AtLeast(Vacate - a, c)
      BY DEF Covers
    <3>5. /\ AtLeast(Vacate - a, c) \in Nat /\ AtLeast(Vacate - a, f) \in Nat
          /\ AtLeast(Vacate - a, c) <= AtLeast(Vacate - a, f)
      BY <2>2, Lives
    <3> QED
      BY <3>3, <3>4, <3>5
  <2> QED
    BY <2>3, <2>4
<1> QED
  BY <1>2 DEF Covers

\* The clock brings what is still to be forgotten, and what the entries have to live, down
\* by one.
LEMMA CoversTick ==
    ASSUME NEW q, IsFiniteSet(q), NEW g, NEW h, \A e \in q : g[e] \in Nat,
           \A e \in q : g[e] <= Vacate, \A e \in q : h[e] = Older(g[e], Vacate),
           NEW u \in Int, NEW d \in Nat, NEW v \in Int, NEW e \in Nat,
           NEW c \in Nat, NEW f \in Nat, c <= f + 1, Covers(q, g, u, d, c),
           \/ u <= 0 /\ v = u /\ d = 0 /\ e = 0
           \/ v = u - 1 /\ d + 1 = MwsRestore /\ e = 0
           \/ v = u /\ e = d + 1
    PROVE  Covers(q, h, v, e, f)
<1>1. ASSUME NEW n \in Nat
      PROVE  /\ Delay(u, n, d) \in Int /\ Delay(v, n, e) \in Int
             /\ Delay(v, n, e) <= 0 \/ Delay(v, n, e) = Delay(u, n, d) - 1
  <2>1. Delay(u, n, d) \in Int /\ Delay(v, n, e) \in Int
    <3>1. n \in Int /\ d \in Int /\ e \in Int
      OBVIOUS
    <3> QED
      BY <3>1, DelayOne
  <2>2. CASE u <= 0 /\ v = u /\ d = 0 /\ e = 0
    <3>1. (u - n) * MwsRestore <= 0 * MwsRestore
      BY <2>2, Constants, Times
    <3> QED
      BY <2>1, <2>2, <3>1, Constants DEF Delay
  <2>3. CASE v = u - 1 /\ d + 1 = MwsRestore /\ e = 0
    <3>1. /\ Delay(u - 1, n, d) = Delay(u, n, d) - MwsRestore
          /\ Delay(u - 1, n, 0) = Delay(u - 1, n, d) + d
      <4>1. n \in Int /\ d \in Int /\ u - 1 \in Int
        OBVIOUS
      <4> QED
        BY <4>1, DelayOne
    <3> QED
      BY <2>1, <2>3, <3>1, Constants
  <2>4. CASE v = u /\ e = d + 1
    <3>1. (u - n) * MwsRestore \in Int
      BY Constants
    <3> QED
      BY <2>1, <2>4, <3>1 DEF Delay
  <2> QED
    BY <2>2, <2>3, <2>4
<1>2. ASSUME NEW a \in 0..Vacate + 1, NEW b \in 0..Vacate + 1,
             Younger(q, h, a) = Younger(q, g, b),
             AtLeast(Vacate - b, c) <= AtLeast(Vacate - a, f) + 1
      PROVE  Delay(v, Count(q, h, a), e) <= AtLeast(Vacate - a, f)
  <2>1. Count(q, h, a) = Count(q, g, b) /\ Count(q, g, b) \in Nat
    BY <1>2, Counted DEF Count
  <2>2. Delay(u, Count(q, g, b), d) <= AtLeast(Vacate - b, c)
    BY DEF Covers
  <2>3. AtLeast(Vacate - b, c) \in Nat /\ AtLeast(Vacate - a, f) \in Nat
    <3>1. Vacate - a \in Int /\ Vacate - b \in Int
      BY AgeBounds
    <3> QED
      BY <3>1, Limits
  <2>4. /\ Delay(u, Count(q, g, b), d) \in Int /\ Delay(v, Count(q, g, b), e) \in Int
        /\ \/ Delay(v, Count(q, g, b), e) <= 0
           \/ Delay(v, Count(q, g, b), e) = Delay(u, Count(q, g, b), d) - 1
    BY <1>1, <2>1
  <2>5. Delay(v, Count(q, g, b), e) <= AtLeast(Vacate - a, f)
    BY <1>2, <2>2, <2>3, <2>4
  <2> QED
    BY <2>1, <2>5
<1>3. ASSUME NEW a \in 0..Vacate + 1
      PROVE  Delay(v, Count(q, h, a), e) <= AtLeast(Vacate - a, f)
  <2>1. a \in Int /\ a \in Nat /\ Vacate \in Nat
    BY AgeBounds
  <2>2. \A y \in q : h[y] = IF g[y] < Vacate THEN g[y] + 1 ELSE Vacate
    BY DEF Older
  <2>3. CASE a = 0
    <3>1. Younger(q, h, a) = Younger(q, g, a)
      BY <2>1, <2>2, <2>3 DEF Younger
    <3>2. AtLeast(Vacate - a, c) <= AtLeast(Vacate - a, f) + 1
      <4>1. Vacate - a \in Int /\ Vacate - a <= (Vacate - a) + 1
        BY <2>1
      <4> QED
        BY <4>1, Limits
    <3> QED
      BY <1>2, <3>1, <3>2
  <2>4. CASE a = Vacate + 1
    <3>1. Younger(q, h, a) = Younger(q, g, a)
      BY <2>1, <2>2, <2>4 DEF Younger
    <3>2. AtLeast(Vacate - a, c) <= AtLeast(Vacate - a, f) + 1
      <4>1. Vacate - a \in Int /\ Vacate - a <= (Vacate - a) + 1
        BY <2>1
      <4> QED
        BY <4>1, Limits
    <3> QED
      BY <1>2, <3>1, <3>2
  <2>5. CASE a # 0 /\ a # Vacate + 1
    <3>1. a - 1 \in 0..Vacate + 1
      BY <2>1, <2>5
    <3>2. Younger(q, h, a) = Younger(q, g, a - 1)
      BY <2>1, <2>2, <2>5 DEF Younger
    <3>3. AtLeast(Vacate - (a - 1), c) <= AtLeast(Vacate - a, f) + 1
      <4>1. /\ Vacate - (a - 1) \in Int /\ Vacate - a \in Int
            /\ Vacate - (a - 1) <= (Vacate - a) + 1
        BY <2>1
      <4> QED
        BY <4>1, Limits
    <3> QED
      BY <1>2, <3>1, <3>2, <3>3
  <2> QED
    BY <2>3, <2>4, <2>5
<1> QED
  BY <1>3 DEF Covers

\* A queue taken over for another one lacks no more than what is not in s.
LEMMA Adopted ==
    ASSUME NEW q, IsFiniteSet(q), NEW g, NEW r, IsFiniteSet(r), NEW h, NEW s,
           NEW a, NEW b, \A e \in q : e \in s /\ g[e] < b => e \in r /\ h[e] < a,
           NEW u \in Int, NEW v \in Int, v <= u - Cardinality(q \ s)
    PROVE  v - Count(r, h, a) <= u - Count(q, g, b)
<1>1. IsFiniteSet(q \ s)
  <2>1. \A e \in q \ s : e \in q
    OBVIOUS
  <2> QED
    BY <2>1, Part
<1>2. IsFiniteSet(Younger(r, h, a))
  BY Counted
<1>3. \A e \in Younger(q, g, b) : e \in Younger(r, h, a) \/ e \in q \ s
  BY DEF Younger
<1>4. /\ Count(q, g, b) \in Nat /\ Count(r, h, a) \in Nat /\ Cardinality(q \ s) \in Nat
      /\ Count(q, g, b) <= Count(r, h, a) + Cardinality(q \ s)
  BY <1>1, <1>2, <1>3, Split DEF Count
<1> QED
  BY <1>4

-----------------------------------------------------------------------------
(* Time: what each action does to what the queue stands for.               *)

LEMMA TimeTypes ==
    ASSUME TypeOK
    PROVE  /\ IsFiniteSet(queue)
           /\ \A e \in queue : age[e] \in Nat
           /\ \A e \in queue : age[e] <= Vacate
           /\ Slack(check) \in Nat /\ Slack(check) <= MwsRestore
           /\ Due \in Int /\ drain \in Nat /\ drain \in Int
<1>1. \A e \in queue : age[e] \in Nat /\ age[e] <= Vacate
  <2>1. \A e \in queue : e \in Held
    BY DEF Held
  <2>2. \A e \in Held : age[e] \in 0..Vacate
    BY DEF TypeOK
  <2> QED
    BY <2>1, <2>2, AgeBounds
<1>2. Slack(check) \in Nat /\ Slack(check) <= MwsRestore
  <2>1. CASE check = Never
    BY <2>1, SlackAnew, Restores
  <2>2. CASE check # Never
    <3>1. check \in Nat
      BY <2>2, Constants DEF TypeOK
    <3>2. Slack(check) = AtLeast(MwsRestore - check, 0)
      BY <2>2 DEF Slack
    <3> QED
      BY <3>1, <3>2, Restores DEF AtLeast
  <2> QED
    BY <2>1, <2>2
<1> QED
  BY <1>1, <1>2, Sizes, Numbers

\* The queue never lags behind by more than one request.
LEMMA OneBehind ==
    ASSUME TypeOK, Clock, TimeInv
    PROVE  Due <= Cardinality(queue) + 1
<1>1. Younger(queue, age, Vacate + 1) = queue
  <2>1. \A e \in queue : age[e] < Vacate + 1
    BY TimeTypes, AgeBounds
  <2> QED
    BY <2>1 DEF Younger
<1>2. Delay(Due, Cardinality(queue), drain) <= Slack(check)
  <2>1. Delay(Due, Cardinality(queue), drain) <= AtLeast(Vacate - (Vacate + 1), Slack(check))
    BY <1>1, AgeBounds DEF TimeInv, Covers, Count
  <2> QED
    BY <2>1, TimeTypes, AtTheEnd
<1>3. Cardinality(queue) \in Int /\ Cardinality(queue) \in Nat
  BY Sizes
<1>4. Delay(Due, Cardinality(queue), drain) <= MwsRestore
  <2>1. Delay(Due, Cardinality(queue), drain) \in Int
    BY <1>3, TimeTypes, DelayOne
  <2> QED
    BY <1>2, <2>1, TimeTypes, Restores
<1>5. Due \in Int /\ drain \in Nat /\ drain < MwsRestore
  BY TimeTypes DEF Clock
<1> QED
  BY <1>3, <1>4, <1>5, Lag

LEMMA TimeInit == Init => TimeInv
<1> SUFFICES ASSUME Init PROVE TimeInv
  OBVIOUS
<1>1. Due = 0 /\ drain = 0 /\ Slack(check) = MwsRestore /\ queue = {}
  <2>1. used = 0 /\ lost = 0 /\ Pending = 0
    BY DEF Init, Pending
  <2>2. Due = 0
    BY <2>1 DEF Due
  <2>3. check = Never /\ drain = 0 /\ queue = {}
    BY DEF Init
  <2> QED
    BY <2>2, <2>3, SlackAnew
<1>2. Covers(queue, age, Due, drain, Slack(check))
  <2>1. ASSUME NEW a \in 0..Vacate + 1
        PROVE  Delay(0, Count({}, age, a), 0) <= AtLeast(Vacate - a, MwsRestore)
    <3>1. Younger({}, age, a) = {}
      BY DEF Younger
    <3>2. Count({}, age, a) = 0
      BY <3>1, FS_EmptySet DEF Count
    <3>3. Delay(0, 0, 0) = 0
      BY Restores DEF Delay
    <3>4. MwsRestore <= AtLeast(Vacate - a, MwsRestore)
          /\ AtLeast(Vacate - a, MwsRestore) \in Nat
      BY AgeBounds, Restores, Lives
    <3> QED
      BY <3>2, <3>3, <3>4
  <2> QED
    BY <1>1, <2>1 DEF Covers
<1>3. DueBounded
  BY <1>1 DEF Init, DueBounded, Answered
<1> QED
  BY <1>2, <1>3 DEF TimeInv

\* A check that begins anew leaves the most time.
LEMMA SlackGrows ==
    ASSUME TypeOK, check' = check \/ check' = 0 \/ check' = Never
    PROVE  Slack(check') \in Nat /\ Slack(check) <= Slack(check')
<1>1. Slack(check') = Slack(check) \/ Slack(check') = MwsRestore
  BY SlackAnew
<1> QED
  BY <1>1, TimeTypes, Restores

\* A prune: what has expired covers nothing any more, and when an entry has to go MWS has
\* forgotten a request.
LEMMA PruneTime ==
    ASSUME TypeOK, TimeInv, PruneQueue
    PROVE  Covers(queue', age', Due, drain, Slack(check'))
<1>0. Covers(queue, age, Due, drain, Slack(check)) /\ Entries
  BY TypeParts DEF TimeInv
<1>1. IsFiniteSet(queue') /\ \A e \in queue' : e \in queue /\ age'[e] = age[e]
  <2>1. \A e \in queue' : e \in queue /\ age'[e] = age[e]
    BY Pruned, LeavesSizes
  <2> QED
    BY <2>1, TimeTypes, Part
<1>2. Slack(check') \in Nat /\ Slack(check) <= Slack(check')
  BY SlackGrows DEF PruneQueue
<1>3. \A a \in 0..Vacate : a \in Nat /\ a <= Vacate
  BY AgeBounds
<1>4. CASE check = Never /\ UNCHANGED <<queue, rows, loaded, age, dbErrors>>
  <2>1. queue' = queue /\ age' = age
    BY <1>4
  <2>2. \A a \in 0..Vacate + 1 : Due - Count(queue', age', a) <= Due - Count(queue, age, a)
    BY <2>1, TimeTypes, Counted
  <2> QED
    BY <1>0, <1>1, <1>2, <2>2, TimeTypes, AgeBounds, CoversRest
<1>5. CASE Poll(Expired(queue))
  <2>1. queue' = queue \ Expired(queue)
    BY <1>5 DEF Poll
  <2>2. \A a \in 0..Vacate : Younger(queue', age', a) = Younger(queue, age, a)
    BY <1>1, <1>3, <2>1, TimeTypes, AgeBounds DEF Younger, Expired
  <2>3. Younger(queue', age', Vacate + 1) = Younger(queue, age, Vacate)
    BY <1>1, <2>1, TimeTypes, AgeBounds DEF Younger, Expired
  <2>4. /\ \A a \in 0..Vacate : Due - Count(queue', age', a) <= Due - Count(queue, age, a)
        /\ Due - Count(queue', age', Vacate + 1) <= Due - Count(queue, age, Vacate)
    BY <2>2, <2>3, TimeTypes, Counted DEF Count
  <2> QED
    BY <1>0, <1>1, <1>2, <2>4, TimeTypes, CoversRest
<1>6. CASE /\ queue # {} /\ check = Restore + 1
           /\ \E e \in queue : IsOldest(e, queue) /\ Poll({e})
  <2>1. PICK x \in queue : IsOldest(x, queue) /\ Poll({x})
    BY <1>6
  <2>2. queue' = queue \ {x} /\ \A e \in queue : age[e] <= age[x]
    BY <2>1 DEF Poll, IsOldest
  <2>3. Covers(queue, age, Due, drain, 0)
    BY <1>0, <1>6, SlackAnew
  <2>4. Slack(check') = MwsRestore
    BY <1>6, SlackAnew DEF PruneQueue
  <2>5. Covers(queue \ {x}, age', Due, drain, MwsRestore)
    BY <1>1, <2>2, <2>3, TimeTypes, CoversPop
  <2> QED
    BY <2>2, <2>4, <2>5
<1> QED
  BY <1>4, <1>5, <1>6 DEF PruneQueue

\* Steps that leave the queue, or what counts of it, alone.
LEMMA StillTime ==
    ASSUME TypeOK, TimeInv, queue' = queue, \A e \in queue : age'[e] = age[e],
           check' = check, drain' = drain, Due' = Due
    PROVE  Covers(queue', age', Due', drain', Slack(check'))
<1>1. \A a : Younger(queue', age', a) = Younger(queue, age, a)
  BY DEF Younger
<1> QED
  BY <1>1 DEF TimeInv, Covers, Count

\* The requests of a task that has to be answered are forgotten before an entry expires.
LEMMA DrainsInTime ==
    ASSUME VacateSuffices, TypeOK, DueBounded, Answered
    PROVE  Delay(Due + 1, 0, drain) <= Vacate
<1>1. /\ attempts \in Nat /\ attempts <= MaxAttempts
      /\ MaxQueue \in Nat /\ MaxAttempts \in Nat /\ Vacate \in Nat /\ MwsRestore \in Nat
      /\ Due \in Int /\ drain \in Nat
  BY Numbers, Constants
<1>2. Due <= MaxQueue - 1 + attempts
  BY DEF DueBounded
<1>3. Due + 1 \in Int /\ MaxQueue + MaxAttempts \in Int /\ Due + 1 <= MaxQueue + MaxAttempts
  BY <1>1, <1>2
<1>4. (Due + 1) * MwsRestore <= (MaxQueue + MaxAttempts) * MwsRestore
  BY <1>1, <1>3, Times
<1>5. /\ (Due + 1) * MwsRestore \in Int /\ (MaxQueue + MaxAttempts) * MwsRestore \in Int
  BY <1>1, <1>3
<1>6. Delay(Due + 1, 0, drain) = (Due + 1) * MwsRestore - drain
  BY <1>3 DEF Delay
<1> QED
  BY <1>1, <1>4, <1>5, <1>6 DEF VacateSuffices

\* A look for a slot, by the service or the task.
LEMMA LookTime ==
    ASSUME SizeInv, TimeInv, PruneQueue, UNCHANGED <<attempts, mws, hist>>,
           pc' = pc \/ (pc = "slots" /\ pc' = "look")
    PROVE  TimeInv'
<1>1. TypeOK /\ DueBounded
  BY DEF SizeInv, TypeInv, TimeInv
<1>2. Due' = Due /\ drain' = drain
  BY DEF Due, Pending, mws, hist
<1>3. Covers(queue', age', Due', drain', Slack(check'))
  BY <1>1, <1>2, PruneTime
<1>4. DueBounded'
  BY <1>1, <1>2 DEF DueBounded, Answered
<1> QED
  BY <1>3, <1>4 DEF TimeInv

\* Steps of the task, or on the rows, that leave the queue alone.
LEMMA AsideTime ==
    ASSUME SizeInv, TimeInv, queue' = queue, \A e \in queue : age'[e] = age[e],
           check' = check, UNCHANGED <<mws, lost>>,
           \/ pc' = pc /\ attempts' = attempts
           \/ /\ pc \notin {"counted", "refused", "vanished"}
              /\ pc' \in {"idle", "waiting", "slots", "stopped"}
    PROVE  TimeInv'
<1>1. TypeOK /\ DueBounded
  BY DEF SizeInv, TypeInv, TimeInv
<1>2. Due' = Due /\ drain' = drain
  BY DEF Due, Pending, mws
<1>3. Covers(queue', age', Due', drain', Slack(check'))
  BY <1>1, <1>2, StillTime
<1>4. DueBounded'
  BY <1>1, <1>2 DEF DueBounded, Answered
<1> QED
  BY <1>3, <1>4 DEF TimeInv

\* A free spot leaves room for the first request of a feed.
LEMMA TakeTime == SizeInv /\ TimeInv /\ TakeSlot => TimeInv'
<1> SUFFICES ASSUME SizeInv, TimeInv, TakeSlot PROVE TimeInv'
  OBVIOUS
<1>1. TypeOK /\ Clock
  BY DEF SizeInv, TypeInv
<1>2. /\ queue' = queue /\ age' = age /\ check' = check /\ attempts' = attempts
      /\ UNCHANGED <<mws, lost>> /\ pc = "look"
  BY DEF TakeSlot, store, hist
<1>3. CASE pc' \in NotUnderDispatch
  <2>1. /\ pc \notin {"counted", "refused", "vanished"}
        /\ pc' \in {"idle", "waiting", "slots", "stopped"}
    BY <1>2, <1>3 DEF NotUnderDispatch
  <2> QED
    BY <1>2, <2>1, AsideTime
<1>4. CASE HasSpot /\ pc' = "send"
  <2>1. Due' = Due /\ drain' = drain
    BY <1>2, <1>4 DEF Due, Pending, mws
  <2>2. Covers(queue', age', Due', drain', Slack(check'))
    BY <1>1, <1>2, <2>1, StillTime
  <2>3. Due' <= MaxQueue + attempts'
    <3>1. Due <= Cardinality(queue) + 1 /\ Cardinality(queue) < MaxQueue
      BY <1>1, <1>4, OneBehind DEF HasSpot
    <3>2. /\ Due \in Int /\ Cardinality(queue) \in Nat /\ MaxQueue \in Nat
          /\ attempts \in Nat
      BY <1>1, Sizes, Numbers, Constants
    <3>3. Due <= MaxQueue + attempts
      BY <3>1, <3>2
    <3> QED
      BY <1>2, <2>1, <3>3
  <2>4. DueBounded'
    BY <1>4, <2>3 DEF DueBounded, Answered
  <2> QED
    BY <2>2, <2>4 DEF TimeInv
<1> QED
  BY <1>3, <1>4 DEF TakeSlot

\* A request that counts is one the queue need not stand for yet.
LEMMA SendTime == SizeInv /\ TimeInv /\ Send => TimeInv'
<1> SUFFICES ASSUME SizeInv, TimeInv, Send PROVE TimeInv'
  OBVIOUS
<1>1. TypeOK /\ Clock /\ DueBounded
  BY DEF SizeInv, TypeInv, TimeInv
<1>2. /\ queue' = queue /\ age' = age /\ check' = check /\ lost' = lost
      /\ attempts' = attempts + 1 /\ pc = "send"
      /\ pc' \in {"counted", "refused", "vanished"}
  BY DEF Send, store, hist
<1>3. drain' = drain
  BY <1>1 DEF Send, Clock
<1>4. Due' = Due
  <2>1. used \in Nat /\ lost \in Nat /\ Pending = 0
    BY <1>1, <1>2, Numbers DEF Pending
  <2>2. CASE pc' = "vanished"
    <3>1. used' = used /\ Pending' = 0
      BY <2>2 DEF Send, Pending
    <3> QED
      BY <1>2, <2>1, <3>1 DEF Due
  <2>3. CASE pc' # "vanished"
    <3>1. used' = used + 1 /\ Pending' = 1
      BY <1>2, <2>3 DEF Send, Pending
    <3> QED
      BY <1>2, <2>1, <3>1 DEF Due
  <2> QED
    BY <2>2, <2>3
<1>5. Covers(queue', age', Due', drain', Slack(check'))
  BY <1>1, <1>2, <1>3, <1>4, StillTime
<1>6. DueBounded'
  <2>1. Due <= MaxQueue + attempts
    BY <1>1, <1>2 DEF DueBounded
  <2>2. Due \in Int /\ MaxQueue \in Nat /\ attempts \in Nat
    BY <1>1, Numbers, Constants
  <2>3. Due' <= MaxQueue - 1 + attempts'
    BY <1>2, <1>4, <2>1, <2>2
  <2>4. pc' # "send"
    BY <1>2
  <2> QED
    BY <2>3, <2>4 DEF DueBounded
<1> QED
  BY <1>5, <1>6 DEF TimeInv

\* The entry takes the place of the request.
LEMMA OfferTime ==
    ASSUME VacateSuffices, SizeInv, TimeInv, AddFeedSubmission
    PROVE  TimeInv'
<1>1. TypeOK /\ DueBounded /\ Answered
  BY DEF SizeInv, TypeInv, TimeInv, AddFeedSubmission, Answered
<1>2. PICK saved \in BOOLEAN : Offer(saved)
  BY DEF AddFeedSubmission
<1>3. /\ NewEntry \notin queue /\ queue' = queue \cup {NewEntry}
      /\ age'[NewEntry] = 0 /\ \A e \in queue : age'[e] = age[e]
  BY <1>1, <1>2, Offered
<1>4. /\ used' = used /\ drain' = drain /\ lost' = lost
      /\ pc' \in {"send", "slots"}
      /\ pc' = "send" => attempts' = attempts
  BY DEF AddFeedSubmission, Again, mws, hist
<1>5. Due' \in Int /\ Due' <= Due + 1
  <2>1. used \in Nat /\ lost \in Nat /\ Pending \in {0, 1}
    BY <1>1, Numbers
  <2>2. Pending' = 0
    BY <1>4 DEF Pending
  <2> QED
    BY <1>4, <2>1, <2>2 DEF Due
<1>6. Slack(check') \in Nat /\ Slack(check) <= Slack(check')
  BY <1>1, <1>2, SlackGrows DEF Offer
<1>7. Covers(queue', age', Due', drain', Slack(check'))
  <2>1. Delay(Due + 1, 0, drain) <= Vacate
    BY <1>1, DrainsInTime
  <2>2. Covers(queue, age, Due, drain, Slack(check))
    BY DEF TimeInv
  <2>3. Covers(queue \cup {NewEntry}, age', Due', drain, Slack(check'))
    BY <1>1, <1>3, <1>5, <1>6, <2>1, <2>2, TimeTypes, CoversOffer
  <2> QED
    BY <1>3, <1>4, <2>3
<1>8. DueBounded'
  <2>1. Due <= MaxQueue - 1 + attempts
    BY <1>1 DEF DueBounded
  <2>2. Due \in Int /\ MaxQueue \in Nat /\ attempts \in Nat
    BY <1>1, Numbers, Constants
  <2>3. Due' <= MaxQueue + attempts
    BY <1>5, <2>1, <2>2
  <2> QED
    BY <1>4, <2>3 DEF DueBounded, Answered
<1> QED
  BY <1>7, <1>8 DEF TimeInv

\* A restart: the entries that were never saved are lost, and so is the request in hand.
LEMMA RestartTime == SizeInv /\ TimeInv /\ Restart => TimeInv'
<1> SUFFICES ASSUME SizeInv, TimeInv, Restart PROVE TimeInv'
  OBVIOUS
<1>0. TypeOK /\ Entries /\ Covers(queue, age, Due, drain, Slack(check))
  BY TypeParts DEF SizeInv, TypeInv, TimeInv
<1>1. /\ queue' = rows \ Expired(rows) /\ used' = used /\ drain' = drain
      /\ pc' \in NotUnderDispatch
      /\ lost' = lost + Cardinality(queue \ rows) + Pending
      /\ check' = 0 \/ check' = Never
  BY DEF Restart, LoadQueue, mws
<1>2. IsFiniteSet(queue') /\ \A e \in queue' : e \in rows /\ age'[e] = age[e]
  <2>1. \A e \in Held' : e \in Held
    BY <1>0 DEF Restart, DeleteRows, Held
  <2>2. \A e \in Held' : age'[e] = age[e]
    BY <1>0, <2>1, Kept DEF Restart
  <2>3. IsFiniteSet(rows) /\ \A e \in queue' : e \in rows /\ e \in Held'
    BY <1>0, <1>1, Sizes DEF Held
  <2> QED
    BY <2>2, <2>3, Part
<1>3. Due' \in Int /\ Due' <= Due - Cardinality(queue \ rows)
  <2>1. used \in Nat /\ lost \in Nat /\ Pending \in {0, 1}
    BY <1>0, Numbers
  <2>2. Pending' = 0
    BY <1>1 DEF Pending, NotUnderDispatch
  <2>3. Cardinality(queue \ rows) \in Nat
    <3>1. \A e \in queue \ rows : e \in queue
      OBVIOUS
    <3> QED
      BY <1>0, <3>1, Sizes, Part
  <2> QED
    BY <1>1, <2>1, <2>2, <2>3 DEF Due
<1>4. \A e \in queue : e \in rows /\ age[e] < Vacate => e \in queue' /\ age'[e] = age[e]
  <2>1. \A e \in queue : age[e] \in Nat
    BY <1>0, TimeTypes
  <2> QED
    BY <1>1, <1>2, <2>1, AgeBounds DEF Expired
<1>5. ASSUME NEW a \in 0..Vacate
      PROVE  Due' - Count(queue', age', a) <= Due - Count(queue, age, a)
  <2>1. \A e \in queue : e \in rows /\ age[e] < a => e \in queue' /\ age'[e] < a
    <3>1. \A e \in queue : age[e] \in Nat
      BY <1>0, TimeTypes
    <3>2. \A e \in queue : age[e] < a => age[e] < Vacate
      BY <3>1, AgeBounds
    <3> QED
      BY <1>4, <3>2
  <2> QED
    BY <1>0, <1>2, <1>3, <2>1, TimeTypes, Adopted
<1>6. Due' - Count(queue', age', Vacate + 1) <= Due - Count(queue, age, Vacate)
  <2>1. \A e \in queue : e \in rows /\ age[e] < Vacate
                            => e \in queue' /\ age'[e] < Vacate + 1
    <3>1. \A e \in queue : age[e] \in Nat
      BY <1>0, TimeTypes
    <3>2. \A e \in queue : age[e] < Vacate => age[e] < Vacate + 1
      BY <3>1, AgeBounds
    <3> QED
      BY <1>4, <3>2
  <2> QED
    BY <1>0, <1>2, <1>3, <2>1, TimeTypes, Adopted
<1>7. Covers(queue', age', Due', drain', Slack(check'))
  <2>1. Slack(check') \in Nat /\ Slack(check) <= Slack(check')
    BY <1>0, <1>1, SlackGrows
  <2>2. Covers(queue', age', Due', drain, Slack(check'))
    BY <1>0, <1>2, <1>3, <1>5, <1>6, <2>1, TimeTypes, CoversRest
  <2> QED
    BY <1>1, <2>2
<1>8. DueBounded'
  BY <1>1 DEF DueBounded, Answered, NotUnderDispatch
<1> QED
  BY <1>7, <1>8 DEF TimeInv

\* A reload: what it does not bring is lost, and one more when its check is early.
LEMMA AssignTime == SizeInv /\ TimeInv /\ ReloadAssigns => TimeInv'
<1> SUFFICES ASSUME SizeInv, TimeInv, ReloadAssigns PROVE TimeInv'
  OBVIOUS
<1>0. /\ TypeOK /\ Entries /\ Counters /\ DueBounded
      /\ Covers(queue, age, Due, drain, Slack(check))
  BY TypeParts DEF SizeInv, TypeInv, TimeInv
<1>1. /\ queue' = loaded /\ used' = used /\ drain' = drain
      /\ pc' = pc /\ attempts' = attempts /\ Pending' = Pending
      /\ lost' = lost + Cardinality(queue \ loaded) + (IF ChecksEarly THEN 1 ELSE 0)
  BY DEF ReloadAssigns, task, mws, Pending
<1>2. IsFiniteSet(queue') /\ \A e \in queue' : age'[e] = age[e]
  <2>1. \A e \in Held' : e \in Held
    BY DEF ReloadAssigns, Held
  <2>2. \A e \in Held' : age'[e] = age[e]
    BY <1>0, <2>1, Kept DEF ReloadAssigns
  <2> QED
    BY <1>0, <1>1, <2>2, Sizes DEF Held
<1>3. Cardinality(queue \ loaded) \in Nat
  <2>1. \A e \in queue \ loaded : e \in queue
    OBVIOUS
  <2> QED
    BY <1>0, <2>1, Sizes, Part
<1>4. /\ Due' \in Int /\ Due' <= Due - Cardinality(queue \ loaded)
      /\ ChecksEarly => Due' <= (Due - 1) - Cardinality(queue \ loaded)
      /\ Due' <= Due
  <2>1. used \in Nat /\ lost \in Nat /\ Pending \in {0, 1}
    BY <1>0, Numbers
  <2>2. CASE ChecksEarly
    <3>1. lost' = lost + Cardinality(queue \ loaded) + 1
      BY <1>1, <2>2
    <3> QED
      BY <1>1, <1>3, <2>1, <3>1 DEF Due
  <2>3. CASE ~ChecksEarly
    <3>1. lost' = lost + Cardinality(queue \ loaded)
      <4>1. lost' = lost + Cardinality(queue \ loaded) + 0
        BY <1>1, <2>3
      <4> QED
        BY <1>3, <2>1, <4>1
    <3> QED
      BY <1>1, <1>3, <2>1, <2>3, <3>1 DEF Due
  <2> QED
    BY <2>2, <2>3
<1>5. ASSUME NEW a, NEW u \in Int, Due' <= u - Cardinality(queue \ loaded)
      PROVE  Due' - Count(queue', age', a) <= u - Count(queue, age, a)
  <2>1. \A e \in queue : e \in loaded /\ age[e] < a => e \in queue' /\ age'[e] < a
    BY <1>1, <1>2
  <2> QED
    BY <1>0, <1>2, <1>4, <1>5, <2>1, TimeTypes, Adopted
<1>6. \A c \in 0..since : c \in Nat
  BY <1>0, Constants DEF Counters, ReloadAssigns
<1>7. check' = Never \/ check' \in Nat
  BY <1>6 DEF ReloadAssigns, LoadQueue
<1>8. Covers(queue', age', Due', drain', Slack(check'))
  <2>0. Slack(check') \in Nat
    <3>1. CASE check' = Never
      BY <3>1, SlackAnew, Restores
    <3>2. CASE check' # Never /\ check' \in Nat
      <4>1. \A m, x \in Nat : AtLeast(m - x, 0) \in Nat
        BY DEF AtLeast
      <4>2. AtLeast(MwsRestore - check', 0) \in Nat
        BY <3>2, <4>1, Restores, Zenon
      <4> QED
        BY <3>2, <4>2 DEF Slack
    <3> QED
      BY <1>7, <3>1, <3>2
  <2>1. CASE ChecksEarly
    <3>1. /\ Due - 1 \in Int /\ Due' <= (Due - 1) - Cardinality(queue \ loaded)
      BY <1>0, <1>4, <2>1, Numbers
    <3>2. \A a \in 0..Vacate + 1 :
             Due' - Count(queue', age', a) <= (Due - 1) - Count(queue, age, a)
      BY <1>5, <3>1
    <3>3. Covers(queue', age', Due', drain, Slack(check'))
      BY <1>0, <1>2, <1>4, <2>0, <3>2, TimeTypes, CoversLess
    <3> QED
      BY <1>1, <3>3
  <2>2. CASE ~ChecksEarly
    <3>1. Slack(check) <= Slack(check')
      <4>1. CASE check' = Never
        BY <1>0, <4>1, TimeTypes, SlackAnew
      <4>2. CASE check' # Never
        <5>1. check # Never /\ ~(check' > check)
          BY <2>2, <4>2 DEF ChecksEarly
        <5>2. check \in Nat /\ check' \in Nat
          BY <1>0, <1>7, <4>2, <5>1, Constants DEF Counters
        <5>3. \A m \in Nat : AtLeast(m - check, 0) <= AtLeast(m - check', 0)
          <6>1. \A m, x, y \in Nat : ~(y > x) => AtLeast(m - x, 0) <= AtLeast(m - y, 0)
            BY DEF AtLeast
          <6> QED
            BY <5>1, <5>2, <6>1
        <5>4. /\ Slack(check) = AtLeast(MwsRestore - check, 0)
              /\ Slack(check') = AtLeast(MwsRestore - check', 0)
          BY <4>2, <5>1 DEF Slack
        <5> QED
          BY <5>3, <5>4, Restores
      <4> QED
        BY <4>1, <4>2
    <3>2. Due \in Int
      BY <1>0, Numbers
    <3>3. \A a : Due' - Count(queue', age', a) <= Due - Count(queue, age, a)
      BY <1>4, <1>5, <3>2
    <3>4. Covers(queue', age', Due', drain, Slack(check'))
      BY <1>0, <1>2, <1>4, <2>0, <3>1, <3>3, TimeTypes, CoversRest
    <3> QED
      BY <1>1, <3>4
  <2> QED
    BY <2>1, <2>2
<1>9. DueBounded'
  <2>1. Due \in Int /\ MaxQueue \in Nat /\ attempts \in Nat
    BY <1>0, Numbers, Constants
  <2>2. pc = "send" => Due' <= MaxQueue + attempts
    BY <1>0, <1>4, <2>1 DEF DueBounded
  <2>3. Answered => Due' <= MaxQueue - 1 + attempts
    BY <1>0, <1>4, <2>1 DEF DueBounded
  <2> QED
    BY <1>1, <2>2, <2>3 DEF DueBounded, Answered
<1> QED
  BY <1>8, <1>9 DEF TimeInv

\* The clock.
LEMMA TickTime == SizeInv /\ TimeInv /\ Tick => TimeInv'
<1> SUFFICES ASSUME SizeInv, TimeInv, Tick PROVE TimeInv'
  OBVIOUS
<1>0. /\ TypeOK /\ Clock /\ DueBounded
      /\ Covers(queue, age, Due, drain, Slack(check))
  BY DEF SizeInv, TypeInv, TimeInv
<1>1. /\ queue' = queue /\ pc' = pc /\ attempts' = attempts /\ lost' = lost
      /\ Pending' = Pending /\ check' = OlderDate(check)
  BY DEF Tick, task, hist, Pending
<1>2. \A e \in queue : age'[e] = Older(age[e], Vacate)
  BY DEF Tick, Held
<1>3. /\ used \in Nat /\ lost \in Nat /\ Pending \in {0, 1} /\ drain \in Nat
      /\ Due \in Int /\ MwsRestore \in Nat \ {0}
  BY <1>0, Numbers, Constants
<1>4. /\ \/ Due <= 0 /\ Due' = Due /\ drain = 0 /\ drain' = 0
         \/ Due' = Due - 1 /\ drain + 1 = MwsRestore /\ drain' = 0
         \/ Due' = Due /\ drain' = drain + 1
      /\ Due' \in Int /\ drain' \in Nat /\ Due' <= Due
  <2>1. CASE used = 0 /\ used' = 0 /\ drain' = 0
    <3>1. drain = 0
      BY <1>0, <2>1 DEF Clock
    <3> QED
      BY <1>1, <1>3, <2>1, <3>1 DEF Due
  <2>2. CASE used > 0 /\ drain + 1 = MwsRestore /\ used' = used - 1 /\ drain' = 0
    BY <1>1, <1>3, <2>2 DEF Due
  <2>3. CASE used > 0 /\ drain + 1 < MwsRestore /\ used' = used /\ drain' = drain + 1
    BY <1>1, <1>3, <2>3 DEF Due
  <2> QED
    BY <1>0, <2>1, <2>2, <2>3, Draining DEF Drains
<1>5. Slack(check') \in Nat /\ Slack(check) <= Slack(check') + 1
  <2>1. CASE check = Never
    BY <1>1, <2>1, SlackAnew, Restores DEF OlderDate
  <2>2. CASE check # Never
    <3>1. check \in Nat /\ Restore \in Nat /\ Never \notin Nat
      BY <1>0, <2>2, Constants DEF TypeOK
    <3>2. check' = IF check < Restore + 1 THEN check + 1 ELSE Restore + 1
      BY <1>1, <2>2 DEF OlderDate, Older
    <3>3. check' \in Nat /\ check' <= check + 1 /\ check' # Never
      BY <3>1, <3>2
    <3>4. \A m, x, y \in Nat : y <= x + 1 => /\ AtLeast(m - y, 0) \in Nat
                                              /\ AtLeast(m - x, 0) <= AtLeast(m - y, 0) + 1
      BY DEF AtLeast
    <3>5. /\ Slack(check) = AtLeast(MwsRestore - check, 0)
          /\ Slack(check') = AtLeast(MwsRestore - check', 0)
      BY <2>2, <3>3 DEF Slack
    <3>6. /\ AtLeast(MwsRestore - check', 0) \in Nat
          /\ AtLeast(MwsRestore - check, 0) <= AtLeast(MwsRestore - check', 0) + 1
      BY <3>1, <3>3, <3>4, Restores, Zenon
    <3> QED
      BY <3>5, <3>6
  <2> QED
    BY <2>1, <2>2
<1>6. Covers(queue, age', Due', drain', Slack(check'))
  BY <1>0, <1>2, <1>4, <1>5, TimeTypes, CoversTick
<1>7. DueBounded'
  <2>1. MaxQueue \in Nat /\ attempts \in Nat
    BY <1>0, Numbers, Constants
  <2>2. pc = "send" => Due' <= MaxQueue + attempts
    BY <1>0, <1>3, <1>4, <2>1 DEF DueBounded
  <2>3. Answered => Due' <= MaxQueue - 1 + attempts
    BY <1>0, <1>3, <1>4, <2>1 DEF DueBounded
  <2> QED
    BY <1>1, <2>2, <2>3 DEF DueBounded, Answered
<1> QED
  BY <1>1, <1>6, <1>7 DEF TimeInv

LEMMA TimeNext ==
    ASSUME VacateSuffices
    PROVE  SizeInv /\ TimeInv /\ [Next]_vars => TimeInv'
<1> SUFFICES ASSUME SizeInv, TimeInv, [Next]_vars PROVE TimeInv'
  OBVIOUS
<1>1. CASE ServiceLooks \/ ServiceLooksLate
  BY <1>1, LookTime DEF ServiceLooks, ServiceLooksLate, task
<1>2. CASE FindSlot
  BY <1>2, LookTime DEF FindSlot
<1>3. CASE Enter \/ GiveUp \/ FeedsChange
  <2>1. /\ queue' = queue /\ age' = age /\ check' = check /\ UNCHANGED <<mws, lost>>
        /\ pc \notin {"counted", "refused", "vanished"}
        /\ pc' \in {"idle", "waiting", "slots", "stopped"}
    BY <1>3 DEF Enter, GiveUp, FeedsChange, NotUnderDispatch, store, hist
  <2> QED
    BY <2>1, AsideTime
<1>4. CASE ReloadReads
  BY <1>4, AsideTime DEF ReloadReads, task, hist
<1>5. CASE Save
  <2>1. queue' = queue /\ \A e \in queue : age'[e] = age[e]
    BY <1>5 DEF Save, KeepAges, Held
  <2> QED
    BY <1>5, <2>1, AsideTime DEF Save, task, hist
<1>6. CASE UNCHANGED vars
  BY <1>6, AsideTime DEF vars, store, task, hist
<1>7. CASE AddFeedSubmission
  BY <1>7, OfferTime
<1> QED
  BY <1>1, <1>2, <1>3, <1>4, <1>5, <1>6, <1>7, TakeTime, SendTime, RestartTime,
     AssignTime, TickTime DEF Next, Proceed

\* AMTU never believes to have used less of its quota than MWS has counted, but for the
\* requests whose entry was lost and for one more, when what a dispatcher may have sent
\* can drain within QUOTA_VACATE_TIME.
THEOREM QuotaKept ==
    ASSUME VacateSuffices
    PROVE  Spec => []QuotaMirrored
<1>1. Init => SizeInv /\ TimeInv
  BY SizeInit, TimeInit
<1>2. SizeInv /\ TimeInv /\ [Next]_vars => (SizeInv /\ TimeInv)'
  BY SizeNext, TimeNext
<1>3. SizeInv /\ TimeInv => QuotaMirrored
  <2> SUFFICES ASSUME SizeInv, TimeInv PROVE QuotaMirrored
    OBVIOUS
  <2>1. TypeOK /\ Clock
    BY DEF SizeInv, TypeInv
  <2>2. Due <= Cardinality(queue) + 1
    BY <2>1, OneBehind
  <2>3. used \in Nat /\ lost \in Nat /\ Pending \in {0, 1} /\ Cardinality(queue) \in Nat
    BY <2>1, Numbers, Sizes
  <2>4. used - lost - Pending <= Cardinality(queue) + 1
    BY <2>2 DEF Due
  <2> QED
    BY <2>3, <2>4 DEF QuotaMirrored
<1> QED
  BY <1>1, <1>2, <1>3, PTL DEF Spec
=============================================================================
