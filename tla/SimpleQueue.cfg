\* Two producers with two elements each, three consumers with two polls each.
SPECIFICATION Spec
CONSTANTS
    Producer = {p1, p2}
    Consumer = {c1, c2, c3}
    None = None
    MaxOffers = 2
    MaxPolls = 2
SYMMETRY ThreadSymmetry
INVARIANTS
    NothingLost
    DuplicatesOnlyByOverlap
PROPERTIES
    Fifo
CHECK_DEADLOCK FALSE
