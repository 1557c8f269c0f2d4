\* Close racing a flush in progress.
CONSTANTS
    MaxCloses = 1
    k1 = k1  k2 = k2  v1 = v1  v2 = v2
    Keys <- MCKeys
    Vals <- MCVals
    Nil = Nil  Empty = Empty  Absent = Absent
    TempWal = TempWal  NoWal = NoWal  NoEntry = NoEntry
    Cap = 1
    MaxPuts = 5
    MaxCrashes = 0
    IOFail = FALSE
    StartupRace = FALSE
SPECIFICATION Spec
PROPERTY CloseWaitsForFlush
CHECK_DEADLOCK FALSE
