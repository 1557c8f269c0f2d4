\* Engine with one crash and restart (NewLSM on the same directory).
CONSTANTS
    MaxCloses = 0
    k1 = k1  k2 = k2  v1 = v1  v2 = v2
    Keys <- MCKeys
    Vals <- MCVals
    Nil = Nil  Empty = Empty  Absent = Absent
    TempWal = TempWal  NoWal = NoWal  NoEntry = NoEntry
    Cap = 1
    MaxPuts = 5
    MaxCrashes = 1
    IOFail = FALSE
    StartupRace = TRUE
SPECIFICATION Spec
INVARIANT CurrentWalOnDisk
\* The clients stop after MaxPuts calls and the idle worker only stutters.
CHECK_DEADLOCK FALSE
