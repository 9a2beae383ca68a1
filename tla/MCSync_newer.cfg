SPECIFICATION Spec
CONSTANTS
    k1 = k1
    k2 = k2
    d1 = d1
    d2 = d2
    Devices = {d1, d2}
    Keys = {k1}
    Data <- Versions0
    Calls = {c1}
    MaxClockSkew = 2
    PullBatch = 1
    MaxNow = 3
    MaxWipes = 0
    Skew <- InStep
    PushBatch = 1
    ByteCap = FALSE
    SameInstant = FALSE
    EditPhases = {"idle", "pushing", "pulling"}
    DeletePhases = {"idle"}
    MaxEdits = 3
    MaxFailures = 0
INVARIANT NewerEditKept
