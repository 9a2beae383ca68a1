SPECIFICATION Spec
CONSTANTS
    k1 = k1
    k2 = k2
    d1 = d1
    d2 = d2
    x = x
    y = y
    Devices = {d1, d2}
    Keys = {k1, k2}
    Data = {x, y}
    Calls = {c1, c2}
    MaxClockSkew = 1
    PullBatch = 1
    MaxNow = 2
    MaxWipes = 1
    MaxSeq = 2
    Batches <- SmallBatches
INVARIANTS RelayTypeOK NumbersNeverShared AnsweredIsHeld StampsContained
PROPERTY LastWriteWins
SYMMETRY Symmetry
