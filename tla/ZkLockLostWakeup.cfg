\* Two clients, lock() only, no lost reply, no expired session.
SPECIFICATION Spec
CONSTANTS
    Client = {c1, c2}
    NoPath = NoPath
    MaxRetry = 1
    MaxWait = 1
    Modes = {FALSE}
    MaxRounds = 1
    MaxFaults = 0
    MaxExpiries = 0
SYMMETRY ClientSymmetry
INVARIANTS
    AwaitHasPredecessor
CHECK_DEADLOCK FALSE
