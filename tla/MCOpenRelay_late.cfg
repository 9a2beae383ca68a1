SPECIFICATION Spec
CONSTANTS
    k1 = k1
    k2 = k2
    d1 = d1
    d2 = d2
    x = x
    y = y
    Devices = {d1, d2}
    Keys = {k1, k2}
    Data = {x, y}
    Calls = {c1, c2}
    MaxClockSkew = 1
    PullBatch = 1
    MaxNow = 2
    MaxWipes = 0
    MaxSeq = 2
    Batches <- SmallBatches
INVARIANT NothingSteppedOver
SYMMETRY Symmetry
