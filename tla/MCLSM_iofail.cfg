\* Engine whose file operations may fail (IOFail), with no crash.
CONSTANTS
    MaxCloses = 0
    k1 = k1  k2 = k2  v1 = v1  v2 = v2
    Keys <- MCKeys
    Vals <- MCVals
    Nil = Nil  Empty = Empty  Absent = Absent
    TempWal = TempWal  NoWal = NoWal  NoEntry = NoEntry
    Cap = 1
    MaxPuts = 5
    MaxCrashes = 0
    IOFail = TRUE
    StartupRace = FALSE
SPECIFICATION Spec
PROPERTY EventuallyFlushed
PROPERTY WalDeletedOnlyAfterInstall
\* The clients stop after MaxPuts calls and the idle worker only stutters.
CHECK_DEADLOCK FALSE
