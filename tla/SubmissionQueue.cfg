\* Vacate is what a dispatcher may have sent takes to drain, (1 + 2) * 2.
SPECIFICATION FairSpec
CONSTANTS
    MaxQueue = 1
    MaxAttempts = 2
    Restore = 2
    Vacate = 6
    MwsRestore = 2
    Never = Never
    MaxDbErrors = 1
    MaxLoads = 1
INVARIANTS
    TypeOK
    QuotaMirrored
    OverrunBounded
PROPERTIES
    FullQueueDrains
