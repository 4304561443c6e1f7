SPECIFICATION Spec
CONSTANTS
    o1 = o1
    o2 = o2
    skuA = skuA
    skuB = skuB
    k1 = k1
    k2 = k2
    t1 = t1
    t2 = t2
    NoKey = NoKey
    OrderIds = {o1}
    Skus = {skuA, skuB}
    Lines <- LinesBoth
    Keys = {k1}
    Txs = {t1}
    Requests <- RequestsCreate
    Messages <- MessagesCommits
    Copies <- Twice
    Failures = FALSE
CHECK_DEADLOCK FALSE
INVARIANT RedeliveryIsAbsorbed
