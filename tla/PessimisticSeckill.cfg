\* Three buyers for two units; MaxStall + MaxHold = LockExpires + 1, the largest
\* delays the lock bears; one buyer may die.
SPECIFICATION SeckillFairSpec
CONSTANTS
    Client = {c1, c2, c3}
    NoValue = NoValue
    LockExpires = 2
    Timeout = 1
    MaxStall = 1
    MaxHold = 2
    MaxCrashes = 1
    Stock = 2
INVARIANTS
    MutualExclusion
    NoOversell
    StockAccounted
PROPERTIES
    ImplementsMutex
    SaleEnds
CHECK_DEADLOCK FALSE
