SPECIFICATION FairSpec
CONSTANTS
    MAIN = MAIN
    B02 = B02
    h1 = h1
    h2 = h2
    NoRow = NoRow
    NoHandler = NoHandler
    Locations = {MAIN, B02}
    InitialStock <- OneRow
    InitialReserved <- Reserved
    Requests <- Competing
    Copies = 2
    Handlers = {h1, h2}
    SharedKeys = {"k3"}
    IndexIsPartial = FALSE
    Faults = {"crash", "expire", "db"}
CHECK_DEADLOCK FALSE
INVARIANTS TypeOK NeverOversold HistoryExplainsStock EveryChangeAnnounced
PROPERTY RequestsFinish
