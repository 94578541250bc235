---------------------------- MODULE FeedDispatch ----------------------------
(***************************************************************************)
(* AMTU, services/DispatcherService.java and                               *)
(* transport/dispatcher/FeedDispatcherTask.java: the way of a feed file of *)
(* one account from OUTGOING over TEMP to SENT or FAILED.  The service     *)
(* runs every 15 seconds on a thread of the scheduler and hands tasks to   *)
(* an executor; a task moves, submits and records one feed after another.  *)
(*                                                                         *)
(* External: the file system, whose moves may fail and whose directories   *)
(* may be missing; the database, whose commits may fail; Amazon MWS, which *)
(* accepts or refuses a request and whose answer may get lost.  Whether a  *)
(* submission slot is free is left open here; SubmissionQueue says when.   *)
(***************************************************************************)
EXTENDS Naturals, FiniteSets

CONSTANTS
    Feed,          \* the files the merchant puts into OUTGOING
    Unsupported,   \* those with an extension AMTU does not know
    Unrecognized,  \* those whose content is of no known feed type
    Unreadable,    \* those that cannot be read: not at all, not as gzip, or under 10 bytes
    Task,          \* FeedDispatcherTasks that exist at a time
    None,          \* no task, no feed
    MaxAttempts,   \* MAX_ATTEMPTS
    MaxFaults,     \* bound: failed moves and commits, missing directories, lost answers
    MaxCrashes     \* bound: restarts of AMTU

ASSUME FeedAssumption ==
    /\ UNION {Unsupported, Unrecognized, Unreadable} \subseteq Feed
    /\ IsFiniteSet(Feed)
    /\ None \notin Feed /\ None \notin Task
ASSUME BoundAssumption ==
    MaxAttempts \in Nat \ {0} /\ MaxFaults \in Nat /\ MaxCrashes \in Nat

VARIABLES
    place,          \* the directory a file is in
    modified,       \* its last modification
    accepted,       \* how often MWS accepted it
    recorded,       \* the feeds in the database
    service,        \* where the run of DispatcherService stands
    underDispatch,  \* AMTUAccount.underDispatch
    lock,           \* who is in synchronized (account.DISPATCH_LOCK)
    pc,             \* where a task stands
    todo,           \* its feedList
    feed,           \* its feed in submitFeed
    attempts,       \* its attempts
    unanswered,     \* history: acceptances of a feed whose answer was lost
    interrupted,    \* history: the feeds a fault, a crash or an exception hit
    thrown,         \* history: the feeds in hand, or None, at an exception nobody caught,
                    \* since AMTU started
    faults, crashes

files  == <<place, modified>>
hist   == <<unanswered, interrupted, thrown>>
bounds == <<faults, crashes>>
task   == <<lock, pc, todo, feed, attempts>>
vars   == <<files, accepted, recorded, service, underDispatch, task, hist, bounds>>

Labels == {"idle", "queued", "loop", "temp", "identify", "submit", "sent",
           "unsent", "record"}

TypeOK ==
    /\ place \in [Feed -> {"nowhere", "OUTGOING", "TEMP", "SENT", "FAILED"}]
    /\ modified \in [Feed -> Nat]
    /\ accepted \in [Feed -> Nat]
    /\ recorded \in SUBSET Feed
    /\ service \in {"idle", "decide", "ended"}
    /\ underDispatch \in BOOLEAN
    /\ lock \in Task \cup {None}
    /\ pc \in [Task -> Labels]
    /\ todo \in [Task -> SUBSET Feed]
    /\ feed \in [Task -> Feed \cup {None}]
    /\ attempts \in [Task -> 0..MaxAttempts]
    /\ unanswered \in [Feed -> Nat]
    /\ interrupted \in SUBSET Feed
    /\ thrown \in SUBSET (Feed \cup {None})
    /\ faults \in 0..MaxFaults
    /\ crashes \in 0..MaxCrashes

-----------------------------------------------------------------------------

Goto(t, label) == pc' = [pc EXCEPT ![t] = label]
Move(f, dir)   == place' = [place EXCEPT ![f] = dir]

Fault == faults < MaxFaults /\ faults' = faults + 1 /\ UNCHANGED crashes

Outgoing == {f \in Feed : place[f] = "OUTGOING"}

\* Mutant of ListOutgoing: files of unknown extension are left where they are.
ListInPlace == UNCHANGED <<place, bounds>>

\* getFeedsForDispatch: what OUTGOING holds; files of unknown extension are moved
\* away, which may fail and is tried again by the next listing.
ListOutgoing ==
    \/ /\ place' = [f \in Feed |-> IF f \in Outgoing \cap Unsupported
                                   THEN "FAILED" ELSE place[f]]
       /\ UNCHANGED bounds
    \/ Fault /\ Outgoing \cap Unsupported # {} /\ UNCHANGED place

\* The feed with the oldest file.
IsOldest(f, feeds) == f \in feeds /\ \A g \in feeds : modified[f] <= modified[g]

\* The merchant writes a file.
Drop(f) ==
    /\ place[f] = "nowhere"
    /\ Move(f, "OUTGOING")
    /\ modified' = [modified EXCEPT ![f] =
                      Cardinality({g \in Feed : place[g] # "nowhere"}) + 1]
    /\ UNCHANGED <<accepted, recorded, service, underDispatch, task, hist, bounds>>

-----------------------------------------------------------------------------
\* DispatcherService.run

ServiceLists ==
    /\ service = "idle"
    /\ Outgoing # {}
    /\ ListOutgoing
    /\ service' = IF Outgoing \ Unsupported = {} THEN "idle" ELSE "decide"
    /\ UNCHANGED <<modified, accepted, recorded, underDispatch, task, hist>>

\* Outgoing or Failed is not a directory: getDirectory throws, and the scheduler never
\* runs the service again.
ServiceThrows ==
    /\ service = "idle"
    /\ Fault
    /\ service' = "ended"
    /\ UNCHANGED <<files, accepted, recorded, underDispatch, task, hist>>

\* Skipped: the account is under dispatch, or it has no slot.
ServiceSkips ==
    /\ service = "decide"
    /\ service' = "idle"
    /\ UNCHANGED <<files, accepted, recorded, underDispatch, task, hist, bounds>>

ServiceSubmits(t) ==
    /\ service = "decide"
    /\ ~underDispatch
    /\ pc[t] = "idle"
    /\ service' = "idle"
    /\ Goto(t, "queued")
    /\ UNCHANGED <<files, accepted, recorded, underDispatch, lock, todo, feed, attempts,
                   hist, bounds>>

-----------------------------------------------------------------------------
\* FeedDispatcherTask.run

\* Mutant of Enter: the body is not synchronized.
EnterUnlocked(t) ==
    /\ pc[t] = "queued"
    /\ lock' = t
    /\ underDispatch' = TRUE
    /\ ListOutgoing
    /\ todo' = [todo EXCEPT ![t] = Outgoing \ Unsupported]
    /\ Goto(t, "loop")
    /\ UNCHANGED <<modified, accepted, recorded, service, feed, attempts, hist>>

Enter(t) ==
    /\ pc[t] = "queued"
    /\ lock = None
    /\ lock' = t
    /\ underDispatch' = TRUE
    /\ ListOutgoing
    /\ todo' = [todo EXCEPT ![t] = Outgoing \ Unsupported]
    /\ Goto(t, "loop")
    /\ UNCHANGED <<modified, accepted, recorded, service, feed, attempts, hist>>

\* An exception that nobody catches: the task ends, out of the synchronized block, with
\* underDispatch set.
Throw(t) ==
    /\ lock' = None
    /\ underDispatch' = TRUE
    /\ Goto(t, "idle")
    /\ todo' = [todo EXCEPT ![t] = {}]
    /\ feed' = [feed EXCEPT ![t] = None]
    /\ interrupted' = interrupted \cup ({feed[t]} \ {None})
    /\ thrown' = thrown \cup {feed[t]}
    /\ UNCHANGED <<files, accepted, recorded, service, attempts, unanswered>>

\* The task finds no directory to list.
EnterThrows(t) ==
    /\ pc[t] = "queued"
    /\ lock = None
    /\ Fault
    /\ Throw(t)

\* A slot is free.
NextFeed(t) ==
    /\ pc[t] = "loop"
    /\ \E f \in todo[t] :
          /\ IsOldest(f, todo[t])
          /\ feed' = [feed EXCEPT ![t] = f]
          /\ todo' = [todo EXCEPT ![t] = @ \ {f}]
    /\ Goto(t, "temp")
    /\ UNCHANGED <<files, accepted, recorded, service, underDispatch, lock, attempts,
                   hist, bounds>>

\* Mutant of Leave: underDispatch stays set.
LeaveUnderDispatch(t) ==
    /\ pc[t] = "loop"
    /\ lock' = None
    /\ todo' = [todo EXCEPT ![t] = {}]
    /\ Goto(t, "idle")
    /\ UNCHANGED <<files, accepted, recorded, service, underDispatch, feed, attempts,
                   hist, bounds>>

\* No feed is left, or no slot.
Leave(t) ==
    /\ pc[t] = "loop"
    /\ lock' = None
    /\ underDispatch' = FALSE
    /\ todo' = [todo EXCEPT ![t] = {}]
    /\ Goto(t, "idle")
    /\ UNCHANGED <<files, accepted, recorded, service, feed, attempts, hist, bounds>>

-----------------------------------------------------------------------------
\* FeedDispatcherTask.submitFeed

\* What ends submitFeed: on with the loop.
Return(t) == Goto(t, "loop") /\ feed' = [feed EXCEPT ![t] = None]

\* IOException or a failed commit: submitFeed returns, the feed stays as it is.
Fails(t) ==
    /\ Fault
    /\ Return(t)
    /\ interrupted' = interrupted \cup {feed[t]}
    /\ UNCHANGED <<files, accepted, recorded, service, underDispatch, lock, todo,
                   attempts, unanswered, thrown>>

\* Temp is not a directory, before the feed is moved; Failed or Sent is not, after it was.
DirectoryMissing(t) ==
    /\ pc[t] \in {"temp", "identify"}
    /\ Fault
    /\ Throw(t)

MoveToTemp(t) ==
    /\ pc[t] = "temp"
    /\ Move(feed[t], "TEMP")
    /\ Goto(t, "identify")
    /\ UNCHANGED <<modified, accepted, recorded, service, underDispatch, lock, todo, feed,
                   attempts, hist, bounds>>

Identify(t) ==
    /\ pc[t] = "identify"
    /\ feed[t] \notin Unrecognized \cup Unreadable
    /\ Goto(t, "submit")
    /\ attempts' = [attempts EXCEPT ![t] = 0]
    /\ UNCHANGED <<files, accepted, recorded, service, underDispatch, lock, todo, feed,
                   hist, bounds>>

\* Mutant of RejectUnrecognized: the file is left where it is.
RejectInPlace(t) ==
    /\ pc[t] = "identify"
    /\ feed[t] \in Unrecognized
    /\ Return(t)
    /\ UNCHANGED <<files, accepted, recorded, service, underDispatch, lock, todo,
                   attempts, hist, bounds>>

RejectUnrecognized(t) ==
    /\ pc[t] = "identify"
    /\ feed[t] \in Unrecognized
    /\ Move(feed[t], "FAILED")
    /\ Return(t)
    /\ UNCHANGED <<modified, accepted, recorded, service, underDispatch, lock, todo,
                   attempts, hist, bounds>>

\* getFileType throws what nobody catches: the file cannot be read, which leaves no
\* header to look at, or it ends before isUniCode16 has its ten bytes.
ThrowUnreadable(t) ==
    /\ pc[t] = "identify"
    /\ feed[t] \in Unreadable
    /\ Throw(t)
    /\ UNCHANGED bounds

Attempt(t) ==
    /\ pc[t] = "submit"
    /\ attempts' = [attempts EXCEPT ![t] = @ + 1]
    /\ UNCHANGED <<files, recorded, service, underDispatch, lock, todo, feed, interrupted,
                   thrown>>

Accept(t) == accepted' = [accepted EXCEPT ![feed[t]] = @ + 1]

SubmitFeed(t) ==
    /\ Attempt(t)
    /\ Accept(t)
    /\ Goto(t, "sent")
    /\ UNCHANGED <<unanswered, bounds>>

\* MarketplaceWebServiceException: again after a sleep, until the attempts are used up.
Again(t) == Goto(t, IF attempts[t] + 1 < MaxAttempts THEN "submit" ELSE "unsent")

SubmitRefused(t) ==
    /\ Attempt(t)
    /\ Again(t)
    /\ UNCHANGED <<accepted, unanswered, bounds>>

\* The feed was accepted, but the answer does not arrive in time.
SubmitUnanswered(t) ==
    /\ Attempt(t)
    /\ Fault
    /\ Accept(t)
    /\ unanswered' = [unanswered EXCEPT ![feed[t]] = @ + 1]
    /\ Again(t)

MoveToFailed(t) ==
    /\ pc[t] = "unsent"
    /\ Move(feed[t], "FAILED")
    /\ Return(t)
    /\ UNCHANGED <<modified, accepted, recorded, service, underDispatch, lock, todo,
                   attempts, hist, bounds>>

MoveToSent(t) ==
    /\ pc[t] = "sent"
    /\ Move(feed[t], "SENT")
    /\ Goto(t, "record")
    /\ UNCHANGED <<modified, accepted, recorded, service, underDispatch, lock, todo, feed,
                   attempts, hist, bounds>>

Record(t) ==
    /\ pc[t] = "record"
    /\ recorded' = recorded \cup {feed[t]}
    /\ Return(t)
    /\ UNCHANGED <<files, accepted, service, underDispatch, lock, todo, attempts, hist,
                   bounds>>

\* A move out of OUTGOING or TEMP, the reading of the file for a request, or the
\* transaction fails.
SubmitFeedFails(t) ==
    /\ \/ pc[t] \in {"temp", "submit", "sent", "unsent", "record"}
       \/ pc[t] = "identify" /\ feed[t] \in Unrecognized
    /\ Fails(t)

-----------------------------------------------------------------------------
\* The process

Held == {f \in Feed : \E t \in Task : feed[t] = f}

\* Mutant of Restart: what is found in TEMP is dispatched again.
RestartRequeues ==
    /\ crashes < MaxCrashes /\ crashes' = crashes + 1
    /\ service' = "idle" /\ underDispatch' = FALSE /\ lock' = None
    /\ pc' = [t \in Task |-> "idle"]
    /\ todo' = [t \in Task |-> {}]
    /\ feed' = [t \in Task |-> None]
    /\ interrupted' = interrupted \cup Held /\ thrown' = {}
    /\ place' = [f \in Feed |-> IF place[f] = "TEMP" THEN "OUTGOING" ELSE place[f]]
    /\ UNCHANGED <<modified, accepted, recorded, attempts, unanswered, faults>>

\* AMTU stops and starts again; the files stay where they are.
Restart ==
    /\ crashes < MaxCrashes /\ crashes' = crashes + 1
    /\ service' = "idle" /\ underDispatch' = FALSE /\ lock' = None
    /\ pc' = [t \in Task |-> "idle"]
    /\ todo' = [t \in Task |-> {}]
    /\ feed' = [t \in Task |-> None]
    /\ interrupted' = interrupted \cup Held /\ thrown' = {}
    /\ UNCHANGED <<files, accepted, recorded, attempts, unanswered, faults>>

Init ==
    /\ place = [f \in Feed |-> "nowhere"]
    /\ modified = [f \in Feed |-> 0]
    /\ accepted = [f \in Feed |-> 0]
    /\ recorded = {}
    /\ service = "idle" /\ underDispatch = FALSE /\ lock = None
    /\ pc = [t \in Task |-> "idle"]
    /\ todo = [t \in Task |-> {}]
    /\ feed = [t \in Task |-> None]
    /\ attempts = [t \in Task |-> 0]
    /\ unanswered = [f \in Feed |-> 0]
    /\ interrupted = {} /\ thrown = {}
    /\ faults = 0 /\ crashes = 0

\* One step of submitFeed that goes well.
Proceed(t) ==
    \/ MoveToTemp(t) \/ Identify(t) \/ RejectUnrecognized(t)
    \/ ThrowUnreadable(t) \/ SubmitFeed(t) \/ SubmitRefused(t) \/ MoveToFailed(t)
    \/ MoveToSent(t) \/ Record(t)

Next ==
    \/ \E f \in Feed : Drop(f)
    \/ ServiceLists \/ ServiceThrows \/ ServiceSkips
    \/ \E t \in Task :
          \/ ServiceSubmits(t) \/ Enter(t) \/ NextFeed(t) \/ Leave(t)
          \/ Proceed(t) \/ SubmitUnanswered(t) \/ SubmitFeedFails(t)
          \/ EnterThrows(t) \/ DirectoryMissing(t)
    \/ Restart

Spec == Init /\ [][Next]_vars

\* The scheduler calls the service again and again and the executor runs its tasks.  A
\* slot becomes free again and again while feeds wait for one (FullQueueDrains of
\* SubmissionQueue), so the service does not skip, nor a task leave with feeds to do, for
\* ever.
FairSpec ==
    /\ Spec
    /\ WF_vars(ServiceLists)
    /\ WF_vars(ServiceSkips)
    /\ SF_vars(\E t \in Task : ServiceSubmits(t))
    /\ \A t \in Task :
          /\ WF_vars(Enter(t)) /\ SF_vars(NextFeed(t)) /\ WF_vars(Leave(t))
          /\ WF_vars(Proceed(t))

-----------------------------------------------------------------------------
\* What the dispatcher promises

\* MWS has accepted a feed once for the answer AMTU received, which only files in SENT
\* and those on their way there have had, and once for every answer that was lost.
AcceptedAsFiled ==
    \A f \in Feed :
        /\ accepted[f] <= unanswered[f] + 1
        /\ place[f] = "SENT" => accepted[f] = unanswered[f] + 1
        /\ place[f] \in {"nowhere", "OUTGOING", "FAILED"} => accepted[f] = unanswered[f]
        /\ f \in recorded => place[f] = "SENT"

\* A feed that is neither waiting, nor filed and recorded, is in the hands of a task,
\* or something went wrong with it.
NothingStrays ==
    \A f \in Feed :
        (place[f] = "TEMP" \/ (place[f] = "SENT" /\ f \notin recorded))
            => f \in Held \cup interrupted

\* Feeds reach MWS in the order of their files: when one does, older ones are done with.
OldestFirst ==
    [][\A f, g \in Feed :
          accepted'[f] > accepted[f] /\ modified[g] < modified[f] /\ g \notin Unsupported
             => place[g] \in {"nowhere", "SENT", "FAILED"} \/ g \in interrupted]_vars

\* DispatcherService.java:51 skips an account whose feeds are "already" being submitted.
\* An account is under dispatch with no task at it only if, since AMTU started, an
\* exception that nobody catches has ended a task (setUnderDispatch(false) is not in a
\* finally block): with a file in hand that cannot be read, or for a directory that was
\* missing, which is a fault.
StoppedByException ==
    underDispatch /\ lock = None =>
        thrown # {} /\ (thrown \cap Unreadable # {} \/ faults # 0)

\* Every file the merchant drops is filed in the end, unless something went wrong with
\* it or an exception has stopped the account or the service.
EveryFeedFiled ==
    \A f \in Feed :
        place[f] = "OUTGOING" ~>
            \/ place[f] \in {"SENT", "FAILED"} \/ f \in interrupted
            \/ (underDispatch /\ lock = None) \/ service = "ended"
=============================================================================
