SPECIFICATION Spec
CONSTANTS
    None = None
    Old = Old
    Apps = {a1}
    Nodes = {n1}
    Calls = {c1, c2}
    Ops <- Editing
    TTL = 2
    MaxFlight = 1
    MaxRestarts = 0
CHECK_DEADLOCK FALSE
INVARIANTS
    RotatedSecretStaysOut
