\* Two goroutines in SSTReader.Get on one node share its bloom filter; one block per entry.
CONSTANTS
    r1 = r1  r2 = r2
    Keys <- MCKeysSame
    Vals <- MCVals
    BlockSize = 8
    FilterBits = {0, 1}
    Hash <- MCHash
    Readers <- MCReaders2
    NoIndex = NoIndex
SPECIFICATION Spec
INVARIANT LocatedKeyIsFound
