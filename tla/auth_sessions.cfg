SPECIFICATION Spec
CONSTANTS
    None = None
    o = o
    o2 = o2
    x = x
    y = y
    google = google
    apple = apple
    e1 = e1
    e2 = e2
    Calls = {c1, c2, c3}
    Old = {o}
    Starts <- SessionStarts
    Operations <- Sessions
    Emails = {e1}
    Identities = {}
    Providers = {}
    EmailOf <- Address
    ProviderOf <- Issuer
    Backends = {"memory", "firestore"}
    LockAfter = 2
    MaxFaults = 1
SYMMETRY Symmetry
CHECK_DEADLOCK FALSE
INVARIANTS
    TypeOK
    RefreshIsSingleUse
    ReuseEndsFamily
    EndedSessionsStayEnded
    AccessEndsWithSession
    CodesWorkOnce
    FailuresLock
