SPECIFICATION FairSpec
CONSTANTS
    w1 = w1
    w2 = w2
    s1 = s1
    s2 = s2
    Rows = {1, 2, 3}
    Workers = {w1}
    Slots = {s1, s2}
    BatchSize = 2
    MaxAttempts = 2
    Faults = {"publish"}
INVARIANT PublishedNotLost
PROPERTY EveryEventSettles
