SPECIFICATION Spec
CONSTANTS
    None = None
    Keep = Keep
    Hook = Hook
    creem = creem
    mock = mock
    other = other
    k1 = k1
    k2 = k2
    Apps = {a1}
    Calls = {c1, c2, c3, c4}
    Names = {creem, mock, other}
    Known = {creem, mock}
    Keyless = {mock}
    Secrets = {k1, k2}
    Bodies <- MCBodies
    MaxFailures = 1
CHECK_DEADLOCK FALSE
SYMMETRY Symmetry
INVARIANTS
    TypeOK
    StoredConfigUsable
    SecretsAddUp
