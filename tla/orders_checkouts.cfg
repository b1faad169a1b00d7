SPECIFICATION Spec
CONSTANTS
    None = None
    creem = creem
    mock = mock
    prod = prod
    priceA = priceA
    buyer = buyer
    page = page
    a1 = a1
    a2 = a2
    Apps = {a1}
    Keys = {k1}
    Requests = {r1, r2}
    Deliveries = {d1}
    Providers = {creem, mock}
    Registered = {creem, mock}
    Products = {prod}
    Prices = {priceA}
    Users = {buyer}
    Urls = {page}
    Inputs <- Bodies
    Configs <- TestAndLive
    Lenient <- MockOnly
    Naming <- EachItsWay
    HookOf <- OwnHooks
    MaxFaults = 0
    MaxPuts = 1
CHECK_DEADLOCK FALSE
SYMMETRY Symmetry
INVARIANTS
    OrderMatchesProvider
    ReplyAnswersCall
    NoSequentialDuplicate
