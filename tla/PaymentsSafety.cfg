SPECIFICATION Spec
CONSTANTS
    p1 = p1
    p2 = p2
    k1 = k1
    k2 = k2
    k3 = k3
    k4 = k4
    t1 = t1
    t2 = t2
    NoKey = NoKey
    PaymentIds = {p1, p2}
    Keys = {k1, k2, k3, k4}
    Txs = {t1, t2}
    MaxCalls = 1
    Failures = TRUE
CHECK_DEADLOCK FALSE
INVARIANTS TypeOK AppliedOncePerKey MoneyInOrder ChargedOnce CaptureIsKept
SYMMETRY Symmetry
