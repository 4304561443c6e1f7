SPECIFICATION Spec
CONSTANTS
    w1 = w1
    w2 = w2
    s1 = s1
    s2 = s2
    Rows = {1, 2}
    Workers = {w1, w2}
    Slots = {s1}
    BatchSize = 2
    MaxAttempts = 2
    Faults = {"publish", "db", "lostAck", "crash"}
INVARIANTS TypeOK NoDoubleClaim PublishBound FailedAtCap
PROPERTY ImplementsLedger
