\* Every history of up to three writes of one key, each complete or cut
\* after any of its bytes, every small bloom filter and every small run file.
CONSTANTS
    WalKeys <- MCWalKeys
    WalVals <- MCWalVals
    MaxWrites = 3
    BloomKeys <- MCBloomKeys
    MaxAdds = 2
    Shapes <- MCShapes
    RunKeys <- MCRunKeys
    BlockLens = {1, 5}
    Blobs <- MCBlobs
    MaxBlocks = 2
    FlipBytes = {0, 1, 7}
    Murmur <- MCMurmur
    None = None
    Crc <- MCCrc
SPECIFICATION Spec
INVARIANT TornTailTolerated
INVARIANT SaveLoadRoundTrip
INVARIANT TruncatedLoadFails
INVARIANT OpenRecoversRun
INVARIANT CrcMismatchContained
INVARIANT DecodeRecordDetectsCorruption
INVARIANT IndexDecodersAgree
\* Each input is one call; the check ends once both calls are made.
CHECK_DEADLOCK FALSE
