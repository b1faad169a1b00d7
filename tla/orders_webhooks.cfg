SPECIFICATION FairSpec
CONSTANTS
    None = None
    creem = creem
    mock = mock
    prod = prod
    priceA = priceA
    buyer = buyer
    page = page
    a1 = a1
    a2 = a2
    Apps = {a1, a2}
    Keys = {}
    Requests = {r1}
    Deliveries = {d1, d2}
    Providers = {creem, mock}
    Registered = {creem, mock}
    Products = {prod}
    Prices = {priceA}
    Users = {buyer}
    Urls = {page}
    Inputs <- OneBody
    Configs <- Changing
    Lenient <- MockOnly
    Naming <- EachItsWay
    HookOf <- OneHook
    MaxFaults = 1
    MaxPuts = 1
CHECK_DEADLOCK FALSE
INVARIANTS
    TypeOK
    OrderMatchesProvider
    PaidSessionHasOrder
    AcknowledgedIsHandled
PROPERTIES
    ImplementsLedger
    EventuallyAcknowledged
    PaymentReachesOrderUnlessFault
