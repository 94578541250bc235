\* Two tokens, two requests at a time, two changes.
SPECIFICATION Spec
CONSTANTS
    Token = {k1, k2}
    Request = {r1, r2}
    None = None
    MaxChanges = 2
SYMMETRY Symmetry
INVARIANTS
    OwnPermissions
    StaleIsRefetched
    ApplicationSetFresh
CHECK_DEADLOCK FALSE
