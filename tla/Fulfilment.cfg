SPECIFICATION FairSpec
CONSTANTS
    o1 = o1
    k1 = k1
    h1 = h1
    t1 = t1
    t2 = t2
    NoKey = NoKey
    NoRequest = NoRequest
    ShipmentIds = {1}
    OrderIds = {o1}
    Requests <- RequestsAll
    Copies <- Once
    Handlers = {h1}
    SharedKeys = {"a"}
    IndexIsPartial = FALSE
    Faults = {"crash", "expire", "db"}
    MaxEvents = 2
    MaxAttempts = 2
    LossyWire = TRUE
    Skus = {}
    Lines <- NoLines
    OrderKeys = {k1}
    Txs = {t1, t2}
    OrderRequests <- OrderRequestsAll
    OrderFailures = TRUE
CHECK_DEADLOCK FALSE
INVARIANTS OrderShippedIsShipped NoticesAreBounded
PROPERTY ShipmentReachesOrder
