SPECIFICATION Spec
CONSTANTS
    None = None
    Nodes = {n1, n2}
    Requests = {r1, r2, r3}
    Keys = {k1}
    Flows = {f1, f2}
    Limit <- Two
    Window <- Two
    TTL = 1
    MaxTime = 4
    MaxRestarts = 2
SYMMETRY Symmetry
CHECK_DEADLOCK FALSE
INVARIANTS
    TypeOK
    WindowBound
    StateIsFresh
    StateWorksOnce
