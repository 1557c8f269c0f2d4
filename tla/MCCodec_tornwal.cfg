\* Histories of up to three writes of one key where a write in the middle
\* was cut short and later writes were appended after it.
CONSTANTS
    WalKeys <- MCWalKeys
    WalVals <- MCWalVals
    MaxWrites = 3
    BloomKeys <- MCBloomKeys
    MaxAdds = 2
    Shapes <- MCShapes
    RunKeys <- MCRunKeys
    BlockLens = {1, 5}
    Blobs <- MCBlobs
    MaxBlocks = 2
    FlipBytes = {0, 1, 7}
    Murmur <- MCMurmur
    None = None
    Crc <- MCCrc
SPECIFICATION Spec
INVARIANT AckedRecordsReplayed
\* Each input is one call; the check ends once both calls are made.
CHECK_DEADLOCK FALSE
