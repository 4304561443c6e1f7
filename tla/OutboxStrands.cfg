SPECIFICATION FairSpec
CONSTANTS
    w1 = w1
    w2 = w2
    s1 = s1
    s2 = s2
    Rows = {1}
    Workers = {w1}
    Slots = {s1}
    BatchSize = 1
    MaxAttempts = 2
    Faults = {"crash"}
PROPERTY EveryEventSettles
