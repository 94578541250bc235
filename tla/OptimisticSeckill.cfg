\* Three buyers, two units, two failed requests.
SPECIFICATION FairSpec
CONSTANTS
    Client = {c1, c2, c3}
    Stock = 2
    MaxFaults = 2
INVARIANTS
    NoOversell
    LostUnitsFromFaults
PROPERTIES
    SaleEnds
CHECK_DEADLOCK FALSE
