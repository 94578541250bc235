\* A good feed, one with an unknown extension, and one of no known type
\* or that cannot even be read; one fault, one restart, two tasks.
SPECIFICATION FairSpec
CONSTANTS
    Feed = {f1, odd, bad}
    Unsupported = {odd}
    Unrecognized = {bad}
    Unreadable = {bad}
    Task = {t1, t2}
    None = None
    MaxAttempts = 2
    MaxFaults = 1
    MaxCrashes = 1
INVARIANTS
    AcceptedAsFiled
    NothingStrays
    StoppedByException
PROPERTIES
    OldestFirst
    EveryFeedFiled
CHECK_DEADLOCK FALSE
