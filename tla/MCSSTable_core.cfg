\* Every non-empty memtable over four keys of mixed length and the empty key, blocks of at
\* most two entries, one reader goroutine.
CONSTANTS
    r1 = r1  r2 = r2
    Keys <- MCKeysAll
    Vals <- MCVals
    BlockSize = 12
    FilterBits = {0, 1}
    Hash <- MCHash
    Readers <- MCReaders1
    NoIndex = NoIndex
SPECIFICATION Spec
INVARIANT FilterNoFalseNegatives
INVARIANT IteratorYieldsMemtable
INVARIANT GetSound
INVARIANT LocatedKeyIsFound
