SPECIFICATION Spec
CONSTANTS
    None = None
    creem = creem
    mock = mock
    prod = prod
    priceA = priceA
    buyer = buyer
    page = page
    a1 = a1
    a2 = a2
    Apps = {a1}
    Keys = {}
    Requests = {r1}
    Deliveries = {d1, d2}
    Providers = {creem, mock}
    Registered = {creem, mock}
    Products = {prod}
    Prices = {priceA}
    Users = {buyer}
    Urls = {page}
    Inputs <- OneBody
    Configs <- MockConfig
    Lenient <- MockOnly
    Naming <- EachItsWay
    HookOf <- OwnHooks
    MaxFaults = 0
    MaxPuts = 0
CHECK_DEADLOCK FALSE
INVARIANTS
    RefundStays
