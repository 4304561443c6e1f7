SPECIFICATION ShippingSpec
CONSTANTS
    o1 = o1
    o2 = o2
    h1 = h1
    h2 = h2
    NoRequest = NoRequest
    ShipmentIds = {1, 2}
    OrderIds = {o1, o2}
    Requests <- RequestsAll
    Copies <- CopiesAll
    Handlers = {h1, h2}
    SharedKeys = {"a"}
    IndexIsPartial = FALSE
    Faults = {"crash", "expire", "db"}
CHECK_DEADLOCK FALSE
INVARIANTS ShippingTypeOK OneShipmentPerKey OkIsTrue ShippedOnce
