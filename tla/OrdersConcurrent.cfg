SPECIFICATION Spec
CONSTANTS
    o1 = o1
    o2 = o2
    skuA = skuA
    skuB = skuB
    k1 = k1
    k2 = k2
    t1 = t1
    t2 = t2
    NoKey = NoKey
    OrderIds = {o1, o2}
    Skus = {skuA, skuB}
    Lines <- LinesBoth
    Keys = {k1, k2}
    Txs = {t1, t2}
    Requests <- RequestsAll
    Messages <- MessagesAll
    Copies <- Some
    Failures = TRUE
CHECK_DEADLOCK FALSE
INVARIANTS TypeOK OneOrderPerKey ChargedOncePerKey StatusIsAnnounced ReadyIsJustified
INVARIANTS CancelCompensates AnnouncedOnce ReadyIsAnnounced
PROPERTY ShippedIsFinal
SYMMETRY TxSymmetry
