------------------------------- MODULE Mutex -------------------------------
(***************************************************************************)
(* What the interface lock/DistributedLock.java of DistributeLearning      *)
(* promises its callers: lock() returns to one client at a time, and       *)
(* another client gets in only after unLock() (or after the holder is      *)
(* gone).  The set holders is a variable, not a function of some server    *)
(* state: a detailed lock maps to it the clients that believe they hold.   *)
(***************************************************************************)
CONSTANT Client          \* the processes that compete for the lock

VARIABLE holders         \* the clients inside the critical section

MutexInit == holders = {}

\* lock() / lock(time, unit) returns the lock to c.
Grant(c) ==
    /\ holders = {}
    /\ holders' = {c}

\* unLock() by the holder, or the loss of the holder's session.
Leave(c) ==
    /\ c \in holders
    /\ holders' = holders \ {c}

MutexNext == \E c \in Client : Grant(c) \/ Leave(c)

MutexSpec == MutexInit /\ [][MutexNext]_holders
=============================================================================
