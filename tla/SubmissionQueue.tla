-------------------------- MODULE SubmissionQueue --------------------------
(***************************************************************************)
(* AMTU, account/MerchantFeedQueue.java and MerchantSubmissionQueue.java:  *)
(* how an account keeps within the request quota of Amazon MWS.  Every     *)
(* submitFeed call puts an entry into a queue, in memory and in the        *)
(* database; an entry leaves it every Restore, or after Vacate.  A feed    *)
(* may be sent while the queue has a free spot.                            *)
(*                                                                         *)
(* Three threads use the queue: the service, which prunes it before it     *)
(* hands out a task; the task; and the account editor, which saves it or   *)
(* puts in its place a queue read from the database.                       *)
(*                                                                         *)
(* External: MWS counts the requests that reach it and forgets one every   *)
(* MwsRestore.                                                             *)
(*                                                                         *)
(* Dates are kept as ages, which one Tick advances together.  An entry is  *)
(* a number that stands for its submission id; entries that are there at   *)
(* the same time have different ones.                                      *)
(***************************************************************************)
EXTENDS Naturals, FiniteSets

CONSTANTS
    MaxQueue,     \* MAX_QUEUE_SIZE
    MaxAttempts,  \* MAX_ATTEMPTS of FeedDispatcherTask
    Restore,      \* QUOTA_RESTORE_RATE
    Vacate,       \* QUOTA_VACATE_TIME
    MwsRestore,   \* time in which MWS forgets one request
    Never,        \* a date that is null
    MaxDbErrors,  \* bound: failed database requests
    MaxLoads      \* bound: restarts of AMTU and reloads of the account

ASSUME QuotaAssumption ==
    /\ {MaxQueue, MaxAttempts, Restore, Vacate, MwsRestore} \subseteq Nat \ {0}
    /\ MwsRestore <= Restore
    /\ Never \notin Nat
ASSUME BoundAssumption == MaxDbErrors \in Nat /\ MaxLoads \in Nat

VARIABLES
    queue,        \* MerchantSubmissionQueue.queue: its entries
    rows,         \* the entries in the database
    loaded,       \* the entries a reload under way has read
    age,          \* of each of all these
    check,        \* age of lastCheckTime
    since,        \* how long ago the reload under way has read
    pc,           \* where the task stands that has the lock; or none has
    attempts,     \* requests made for the feed in hand
    used,         \* requests that count at MWS
    drain,        \* time since MWS last forgot one
    lost,         \* history: requests that counted and that AMTU forgot
    raced,        \* history: entries that came or went while a reload had read
    dbErrors,     \* failed database requests so far
    loads         \* restarts and reloads so far

store   == <<queue, rows, loaded, age, check, since, dbErrors>>
task    == <<pc, attempts>>
mws     == <<used, drain>>
hist    == <<lost, raced>>
vars    == <<store, task, mws, hist, loads>>

Held == queue \cup rows \cup loaded

TypeOK ==
    /\ queue \in SUBSET Nat /\ rows \in SUBSET Nat /\ loaded \in SUBSET Nat
    /\ IsFiniteSet(Held)
    /\ age \in [Held -> 0..Vacate]
    /\ check \in 0..(Restore + 1) \cup {Never}
    /\ since \in 0..(Restore + 1) \cup {Never}
    /\ since = Never => loaded = {}
    /\ pc \in {"idle", "waiting", "slots", "look", "send", "counted", "refused",
               "vanished", "stopped"}
    /\ attempts \in 0..MaxAttempts
    /\ used \in Nat
    /\ drain \in 0..MwsRestore
    /\ lost \in Nat
    /\ raced \in Nat
    /\ dbErrors \in 0..MaxDbErrors
    /\ loads \in 0..MaxLoads

-----------------------------------------------------------------------------
\* The queue

HasSpot == Cardinality(queue) < MaxQueue

Expired(q) == {e \in q : age[e] >= Vacate}

\* The queue is in the order of its dates; so are the rows it is read from.
IsOldest(e, q) == e \in q /\ \A f \in q : age[f] <= age[e]

\* An entry is an entry as long as somebody knows it.
KeepAges == age' = [e \in Held' |-> age[e]]

\* poll, for each entry of out: a delete that fails is ignored, and the row stays.
DeleteRows(out) ==
    \E failed \in SUBSET (out \cap rows) :
        /\ dbErrors + Cardinality(failed) <= MaxDbErrors
        /\ dbErrors' = dbErrors + Cardinality(failed)
        /\ rows' = rows \ (out \ failed)

Poll(out) == queue' = queue \ out /\ DeleteRows(out) /\ UNCHANGED loaded /\ KeepAges

\* One entry when the last check is more than Restore ago, then the expired ones, which
\* are the oldest.
PruneQueue ==
    LET due == queue # {} /\ check = Restore + 1 IN
    /\ \/ check = Never /\ UNCHANGED <<queue, rows, loaded, age, dbErrors>>
       \/ check # Never /\ ~(due /\ Expired(queue) = {}) /\ Poll(Expired(queue))
       \/ due /\ Expired(queue) = {} /\ \E e \in queue : IsOldest(e, queue) /\ Poll({e})
    /\ check' = IF due THEN 0 ELSE check
    /\ UNCHANGED since

NewEntry == CHOOSE e \in 0..Cardinality(Held) : e \notin Held

\* An insert that fails is ignored, too.
Offer(saved) ==
    /\ queue' = queue \cup {NewEntry}
    /\ rows' = IF saved THEN rows \cup {NewEntry} ELSE rows
    /\ UNCHANGED <<loaded, since>>
    /\ age' = [e \in Held' |-> IF e = NewEntry THEN 0 ELSE age[e]]
    /\ check' = IF queue = {} \/ check = Never THEN 0 ELSE check
    /\ saved \/ dbErrors < MaxDbErrors
    /\ dbErrors' = IF saved THEN dbErrors ELSE dbErrors + 1

\* Mutant of LoadQueue: lastCheckTime stays null until the next offer.
LoadQueueUnchecked(read, ages) == check' = Never

\* loadQueueForAccount, of the rows read; lastCheckTime is set after they were.
LoadQueue(read, ages) == check' \in IF read = {} THEN {Never} ELSE ages

-----------------------------------------------------------------------------
\* The service, every 15 seconds

\* No task has the account; OUTGOING is empty, or has feeds.
NotUnderDispatch == {"idle", "waiting"}

\* hasFeedDispatchSlotsAvailable, on the service's own thread, for an account that has
\* feeds and is not under dispatch.
ServiceLooks ==
    /\ pc = "waiting"
    /\ PruneQueue
    /\ UNCHANGED <<task, mws, hist, loads>>

\* The same, when a task has begun since the service asked, or the feeds are gone.
ServiceLooksLate == PruneQueue /\ UNCHANGED <<task, mws, hist, loads>>

-----------------------------------------------------------------------------
\* The task

\* One that the service has handed out gets DISPATCH_LOCK; FeedDispatch has the way there.
\* Listing the feeds may throw.
Enter ==
    /\ pc \in NotUnderDispatch \cup {"stopped"}
    /\ pc' \in {"slots", "stopped"}
    /\ UNCHANGED <<store, attempts, mws, hist, loads>>

\* The head of the loop: hasFeedDispatchSlotsAvailable prunes the queue it finds ...
FindSlot ==
    /\ pc = "slots"
    /\ PruneQueue
    /\ pc' = "look"
    /\ UNCHANGED <<attempts, mws, hist, loads>>

\* Mutant of TakeSlot: the free spots are not looked at.
TakeAnySlot ==
    /\ pc = "look"
    /\ pc' \in NotUnderDispatch \cup {"send"}
    /\ UNCHANGED <<store, attempts, mws, hist, loads>>

\* ... and looks at the one it finds then.  The task ends with its list or the spots.
TakeSlot ==
    /\ pc = "look"
    /\ \/ HasSpot /\ pc' = "send"
       \/ pc' \in NotUnderDispatch
    /\ UNCHANGED <<store, attempts, mws, hist, loads>>

\* mws.submitFeed: done, refused or unanswered; it counts unless it never arrived.
Send ==
    /\ pc = "send"
    /\ pc' \in {"counted", "refused", "vanished"}
    /\ used' = IF pc' = "vanished" THEN used ELSE used + 1
    /\ drain' = IF used = 0 THEN 0 ELSE drain
    /\ attempts' = attempts + 1
    /\ UNCHANGED <<store, hist, loads>>

\* The feed is not sent: it is of no known type, an IOException, or one that ends the task.
GiveUp ==
    /\ pc = "send"
    /\ pc' \in {"slots", "stopped"}
    /\ attempts' = 0
    /\ UNCHANGED <<store, mws, hist, loads>>

\* An exception is tried again, until the attempts are used up.
Again ==
    IF pc # "counted" /\ attempts < MaxAttempts
    THEN pc' = "send" /\ UNCHANGED attempts
    ELSE pc' = "slots" /\ attempts' = 0

\* Mutant of AddFeedSubmission: only an answered request is put into the queue.
AddAnsweredSubmission ==
    /\ pc \in {"counted", "refused", "vanished"}
    /\ IF pc = "counted" THEN \E saved \in BOOLEAN : Offer(saved) ELSE UNCHANGED store
    /\ Again
    /\ UNCHANGED <<mws, hist, loads>>

\* addFeedSubmission, for an answer as for an exception.
AddFeedSubmission ==
    /\ pc \in {"counted", "refused", "vanished"}
    /\ \E saved \in BOOLEAN : Offer(saved)
    /\ Again
    /\ UNCHANGED <<mws, hist, loads>>

-----------------------------------------------------------------------------
\* The account

\* The request the task has made and not entered yet.
Pending == IF pc \in {"counted", "refused"} THEN 1 ELSE 0

\* AMTU stops at any point and loads the account anew, then vacates the queue.
Restart ==
    /\ loads < MaxLoads /\ loads' = loads + 1
    /\ LoadQueue(rows, {0})
    /\ queue' = rows \ Expired(rows)
    /\ DeleteRows(Expired(rows))
    /\ loaded' = {} /\ since' = Never
    /\ KeepAges
    /\ pc' \in NotUnderDispatch /\ attempts' = 0
    /\ lost' = lost + Cardinality(queue \ rows) + Pending
    /\ UNCHANGED <<mws, raced>>

\* The editing of an account is cancelled: reload, on a thread of its own, reads the
\* queue ...
ReloadReads ==
    /\ since = Never
    /\ loads < MaxLoads /\ loads' = loads + 1
    /\ loaded' = rows /\ since' = 0
    /\ UNCHANGED <<queue, rows, age, check, dbErrors, task, mws, hist>>

\* lastCheckTime goes back behind a check of the queue that is replaced.
ChecksEarly == check' # Never /\ (check = Never \/ check' > check)

\* ... and puts it in the place of the one the others have used meanwhile.
ReloadAssigns ==
    /\ since # Never
    /\ queue' = loaded
    /\ LoadQueue(loaded, 0..since)
    /\ loaded' = {} /\ since' = Never
    /\ UNCHANGED <<rows, dbErrors>>
    /\ KeepAges
    /\ lost' = lost + Cardinality(queue \ loaded) + (IF ChecksEarly THEN 1 ELSE 0)
    /\ raced' = raced + Cardinality((queue \cap rows) \ loaded)
                      + Cardinality(loaded \ (queue \cup rows))
    /\ UNCHANGED <<task, mws, loads>>

\* The account is saved: its rows are replaced by what is in memory.  Both this and
\* reload are synchronized.
Save ==
    /\ since = Never
    /\ rows' = queue
    /\ UNCHANGED <<queue, loaded, check, since, dbErrors>>
    /\ KeepAges
    /\ UNCHANGED <<task, mws, hist, loads>>

\* Mutant of Older: the limit is dropped.
OlderForever(a, limit) == a + 1

Older(a, limit) == IF a < limit THEN a + 1 ELSE limit

OlderDate(a) == IF a = Never THEN Never ELSE Older(a, Restore + 1)

Tick ==
    /\ age' = [e \in Held |-> Older(age[e], Vacate)]
    /\ check' = OlderDate(check)
    /\ since' = OlderDate(since)
    /\ IF used > 0 /\ drain + 1 = MwsRestore
       THEN used' = used - 1 /\ drain' = 0
       ELSE used' = used /\ drain' = IF used = 0 THEN 0 ELSE drain + 1
    /\ UNCHANGED <<queue, rows, loaded, dbErrors, task, hist, loads>>

\* The merchant writes files to OUTGOING, and the last one leaves it.
FeedsChange ==
    /\ pc \in NotUnderDispatch
    /\ pc' \in NotUnderDispatch
    /\ UNCHANGED <<store, attempts, mws, hist, loads>>

Init ==
    /\ queue = {} /\ rows = {} /\ loaded = {} /\ age = [e \in {} |-> 0]
    /\ check = Never /\ since = Never
    /\ pc = "idle" /\ attempts = 0
    /\ used = 0 /\ drain = 0 /\ lost = 0 /\ raced = 0
    /\ dbErrors = 0 /\ loads = 0

Proceed == FindSlot \/ TakeSlot \/ Send \/ GiveUp \/ AddFeedSubmission

Next ==
    \/ ServiceLooks \/ ServiceLooksLate \/ Enter \/ Proceed
    \/ Restart \/ ReloadReads \/ ReloadAssigns \/ Save \/ Tick \/ FeedsChange

Spec == Init /\ [][Next]_vars

\* Time passes, the scheduler calls the service, and a task that has begun goes on:
\* requests to MWS have a timeout.
FairSpec ==
    /\ Spec
    /\ WF_vars(Tick)
    /\ WF_vars(ServiceLooks)
    /\ WF_vars(Proceed)

-----------------------------------------------------------------------------
\* What the queue is for

\* AMTU never believes to have used less of its quota than MWS has counted, but for the
\* requests whose entry a restart, a reload or a failed insert lost, and for one more:
\* vacateOldQueueEntries leaves lastCheckTime alone, so an entry offered just before can
\* be pruned by a check that began long ago.  It takes a Vacate as long as MWS needs to
\* forget what a dispatcher may have sent, (MaxQueue + MaxAttempts) * MwsRestore; in the
\* code 30 minutes against 2 * 13.
QuotaMirrored == used <= Cardinality(queue) + 1 + lost + Pending

\* The retries of one feed, rows that would not go, and entries that came or went while a
\* reload had already read, are all that can push the queue and its rows over their size.
OverrunBounded ==
    Cardinality(queue \cup rows) <= MaxQueue + MaxAttempts - 1 + dbErrors + raced

\* As long as feeds wait, a full queue gets a free spot again, also after a restart, when
\* nothing can be offered before something has been pruned; unless an exception has left
\* the account under dispatch.
FullQueueDrains == []<>(HasSpot \/ pc \in {"idle", "stopped"})
=============================================================================
