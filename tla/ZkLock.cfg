\* Two clients, plain and timed calls, two lost replies, one expired session; with
\* the orphans of the lost replies up to four nodes queue.
SPECIFICATION FairSpec
CONSTANTS
    Client = {c1, c2}
    NoPath = NoPath
    MaxRetry = 1
    MaxWait = 1
    Modes = {TRUE, FALSE}
    MaxRounds = 1
    MaxFaults = 2
    MaxExpiries = 1
INVARIANTS
    MutualExclusion
    HolderStaysFirst
    OrphansFromLostReplies
PROPERTIES
    NoOvertaking
    ImplementsMutex
    TimedLockReturns
CHECK_DEADLOCK FALSE
