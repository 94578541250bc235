\* Clients slower than the expiry time: a late holder deletes the next one's key.
SPECIFICATION Spec
CONSTANTS
    Client = {c1, c2, c3}
    NoValue = NoValue
    LockExpires = 1
    Timeout = 1
    MaxStall = 3
    MaxHold = 1
    MaxCrashes = 1
SYMMETRY ClientSymmetry
INVARIANTS
    LeaseExclusion
CHECK_DEADLOCK FALSE
