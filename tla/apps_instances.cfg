SPECIFICATION FairSpec
CONSTANTS
    None = None
    Old = Old
    Apps = {a1}
    Nodes = {n1, n2}
    Calls = {c1, c2}
    Ops <- Everything
    TTL = 2
    MaxFlight = 1
    MaxRestarts = 1
CHECK_DEADLOCK FALSE
INVARIANTS
    TypeOK
    BoundedStaleness
    CreatedAppIsComplete
    OneCreator
PROPERTIES
    CachesConverge
