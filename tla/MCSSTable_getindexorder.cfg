\* Spec L2 for one reader over keys of mixed length: getIndex's bytes.Compare misses keys the writer placed by CompareBytes.
CONSTANTS
    r1 = r1  r2 = r2
    Keys <- MCKeysMixed
    Vals <- MCVals
    BlockSize = 12
    FilterBits = {0, 1}
    Hash <- MCHash
    Readers <- MCReaders1
    NoIndex = NoIndex
SPECIFICATION Spec
INVARIANT GetReturnsStored
