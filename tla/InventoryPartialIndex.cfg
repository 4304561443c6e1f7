SPECIFICATION Spec
CONSTANTS
    MAIN = MAIN
    B02 = B02
    h1 = h1
    h2 = h2
    NoRow = NoRow
    NoHandler = NoHandler
    Locations = {MAIN, B02}
    InitialStock <- OneRow
    InitialReserved <- Reserved
    Requests <- OneReserve
    Copies = 1
    Handlers = {h1}
    SharedKeys = {}
    IndexIsPartial = TRUE
    Faults = {}
CHECK_DEADLOCK FALSE
PROPERTY CheckedIsCommitted
