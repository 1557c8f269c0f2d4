\* Engine with up to two crashes and restarts (NewLSM on the same directory),
\* loadWal's unlocked append racing the flush worker.
CONSTANTS
    MaxCloses = 0
    k1 = k1  k2 = k2  v1 = v1  v2 = v2
    Keys <- MCKeys
    Vals <- MCVals
    Nil = Nil  Empty = Empty  Absent = Absent
    TempWal = TempWal  NoWal = NoWal  NoEntry = NoEntry
    Cap = 1
    MaxPuts = 5
    MaxCrashes = 2
    IOFail = FALSE
    StartupRace = TRUE
SPECIFICATION Spec
PROPERTY EventuallyFlushed
\* The clients stop after MaxPuts calls and the idle worker only stutters.
CHECK_DEADLOCK FALSE
