\* Up to three users, two threads, pages of one or two rows.
SPECIFICATION TableSpec
CONSTANTS
    Worker = {t1, t2}
    Account = {x, y}
    None = None
    MaxUsers = 3
    MaxEvents = 3
    PageSizes = {1, 2}
    DefaultSize = 1
    MaxPage = 3
SYMMETRY Symmetry
INVARIANTS
    TableTypeOK
    PostsWhatWasAsked
    DecisionsStand
    AccountsUnique
PROPERTIES
    StaysInRange
CHECK_DEADLOCK FALSE
