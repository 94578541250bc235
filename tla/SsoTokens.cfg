\* Two tokens, two threads, a timer that runs every second tick, one failed SET, done or not.
SPECIFICATION Spec
CONSTANTS
    Token = {k1, k2}
    Thread = {p1, p2}
    Timer = Timer
    NoToken = NoToken
    LocalTimeout = 2
    RedisTimeout = 4
    Period = 2
    MaxFaults = 1
SYMMETRY Symmetry
INVARIANTS
    LogoutIsFinal
    ActiveStays
    IdleExpires
PROPERTIES
    ImplementsTokenStore
CHECK_DEADLOCK FALSE
