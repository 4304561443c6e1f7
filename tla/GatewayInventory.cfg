SPECIFICATION SystemSpec
CONSTANTS
    MAIN = MAIN
    c1 = c1
    c2 = c2
    h1 = h1
    h2 = h2
    NoRow = NoRow
    NoHandler = NoHandler
    NoCall = NoCall
    Requests <- OneKey
    Slots <- TheSlots
    Slot <- SlotsOfKeys
    Responses = {"done"}
    Calls = {c1, c2}
    Copies = 2
    Locations = {MAIN}
    InitialStock <- TwoAvailable
    InitialReserved <- NoneReserved
    Handlers = {h1, h2}
    SharedKeys = {"k1"}
    IndexIsPartial = FALSE
    Faults = {"crash", "expire", "db"}
CHECK_DEADLOCK FALSE
INVARIANTS SystemTypeOK ForwardedOnce AnswersAgree AppliedOnce SuccessIsApplied
PROPERTIES ImplementsKeyedService PendingEnds
