\* Clients slower than the lock's expiry time, and a process that dies.
SPECIFICATION BusySpec
CONSTANTS
    Client = {c1, c2}
    NoValue = NoValue
    LockExpires = 1
    Timeout = 2
    MaxStall = 3
    MaxHold = 3
    MaxCrashes = 1
PROPERTIES
    TryLockReturns
    LockKeepsBeingGranted
CHECK_DEADLOCK FALSE
