------------------------------- MODULE MCCodec -------------------------------
(* Checks the engine's pure byte-level algorithms on every small input:    *)
(* the WAL framing of WalCodec on every                                    *)
(* history of up to MaxWrites Wal.Write calls, each complete or cut short, *)
(* the bloom filter of RunCodec saved and loaded back whole or cut short,   *)
(* and the tail of every small run file opened by the reader.  An initial  *)
(* state is one input; Replay, LoadBlob and OpenReader are the     *)
(* calls.                                                                  *)
EXTENDS WalCodec, RunCodec, SequencesExt

CONSTANTS
    WalKeys,     \* keys of WAL records
    WalVals,     \* values of Put records
    MaxWrites,   \* Wal.Write calls per history
    BloomKeys,   \* keys added to and probed in a bloom filter
    MaxAdds,     \* Add calls before a Save
    Shapes,      \* <<m, k>> given to NewBloomFilter
    RunKeys,     \* min and max keys of a block
    BlockLens,   \* byte lengths of a data block
    Blobs,       \* saved filters of a block
    MaxBlocks,   \* blocks per run file
    FlipBytes,   \* byte values a corrupted WAL byte may take
    None         \* a call not made yet

VARIABLES hist, replayed,
          bf,      \* a filter to Save
          cut,     \* how many bytes of its Save reach Load
          loaded,  \* Load's result into a fresh reader filter
          blocks,  \* the blocks of a run file
          opened,  \* NewSSTReader's result on that file
          flip,    \* one byte of the WAL file changed on disk, or None
          decoded, \* DecodeRecord's result on the WAL file
          streamed \* Decode and DecodeStream on the run file's index section
vars == <<hist, replayed, bf, cut, loaded, blocks, opened, flip, decoded, streamed>>

\* NewRecord: a nil value makes a Delete record with an empty value.
Records ==
    {[type |-> RecordTypePut, key |-> k, val |-> v] : k \in WalKeys, v \in WalVals}
    \cup {[type |-> RecordTypeDelete, key |-> k, val |-> <<>>] : k \in WalKeys}

\* One Wal.Write: the record and how many bytes of it reached the file.
Writes == UNION {{[rec |-> r, n |-> n] : n \in 1..Len(Encode(r))} : r \in Records}

\* Writes that all returned nil, and the ways one byte of the file they
\* leave can be changed afterwards.
CompleteWrites == {w \in Writes : Complete(w)}
Flips(file) == UNION {{[pos |-> p, byte |-> b] : b \in FlipBytes \ {file[p]}} : p \in 1..Len(file)}

\* The bytes NewLSM reads back from the WAL.
WalFile == IF flip = None THEN FileOf(hist) ELSE [FileOf(hist) EXCEPT ![flip.pos] = flip.byte]

\* NewBloomFilter of a shape, then up to MaxAdds calls of Add.
Filters == {FoldLeft(BloomAdd, NewBloomFilter(s[1], s[2]), adds) : s \in Shapes,
                                                                  adds \in BoundedSeq(BloomKeys, MaxAdds)}

\* Blocks as mustFlush records them: keys, length and the saved filter.
Blocks == [minKey : RunKeys, maxKey : RunKeys, length : BlockLens, blob : Blobs]

\* The index entries SSTWriter records: block i starts where block i - 1 ends.
IndexsOf(bs) ==
    [i \in 1..Len(bs) |-> [minKey |-> bs[i].minKey, maxKey |-> bs[i].maxKey,
                           offset |-> FoldLeft(LAMBDA a, b : a + b.length, 0, SubSeq(bs, 1, i - 1)),
                           length |-> bs[i].length]]

\* The file SSTWriter.Write leaves for those blocks; the data bytes are
\* never parsed on open and are zeros here.
RunFileOf(bs) ==
    WriteRun(Zeros(FoldLeft(LAMBDA a, b : a + b.length, 0, bs)), IndexsOf(bs),
             [i \in 1..Len(bs) |-> bs[i].blob])

\* The index section of that file.
IndexSection(bs) == FlattenSeq([i \in 1..Len(bs) |-> IndexEncode(IndexsOf(bs)[i])])

Init ==
    /\ \/ /\ hist \in BoundedSeq(Writes, MaxWrites) /\ bf = None /\ blocks = <<>>
       \/ /\ bf = None /\ blocks = <<>>
          /\ hist \in BoundedSeq(CompleteWrites, MaxWrites) \ {<<>>}
       \/ /\ hist = <<>>
          /\ bf \in Filters /\ blocks = <<>>
       \/ /\ hist = <<>> /\ bf = None
          /\ blocks \in BoundedSeq(Blocks, MaxBlocks) \ {<<>>}
    /\ cut \in IF bf = None THEN {0} ELSE 0..Len(Save(bf))
    /\ flip \in IF hist # <<>> /\ \A i \in 1..Len(hist) : Complete(hist[i])
                THEN {None} \cup Flips(FileOf(hist)) ELSE {None}
    /\ decoded = None
    /\ streamed = None
    /\ replayed = None
    /\ loaded = None
    /\ opened = None

InputVars == <<hist, bf, cut, blocks, flip>>

\* NewLSM reopens the file and loadWal calls ReadAll on it.
Replay ==
    /\ replayed = None
    /\ replayed' = ReadAll(WalFile)
    /\ UNCHANGED <<InputVars, loaded, opened, decoded, streamed>>

\* DecodeRecord on the file, whose first write is complete.
DecodeFirstRecord ==
    /\ hist # <<>> /\ Complete(hist[1])
    /\ decoded = None
    /\ decoded' = DecodeRecord(WalFile)
    /\ UNCHANGED <<InputVars, replayed, loaded, opened, streamed>>

\* SSTReader.Get loads the block's saved filter, here its first cut bytes,
\* into the reader's filter.
LoadBlob ==
    /\ bf # None
    /\ loaded = None
    /\ loaded' = Load(NewFilterConstructor, SubSeq(Save(bf), 1, cut))
    /\ UNCHANGED <<InputVars, replayed, opened, decoded, streamed>>

\* NewSSTReader on the file the writer produced.
OpenReader ==
    /\ blocks # <<>>
    /\ opened = None
    /\ opened' = OpenRun(RunFileOf(blocks))
    /\ UNCHANGED <<InputVars, replayed, loaded, decoded, streamed>>

\* The index stream SSTWriter.Write wrote, given to both decoders.
DecodeIndex ==
    /\ blocks # <<>>
    /\ streamed = None
    /\ streamed' = LET s == IndexSection(blocks)
                   IN  [one |-> Decode(s), all |-> DecodeStream(s)]
    /\ UNCHANGED <<InputVars, replayed, loaded, opened, decoded>>

Next == Replay \/ DecodeFirstRecord \/ LoadBlob \/ OpenReader \/ DecodeIndex

Spec == Init /\ [][Next]_vars

\* One key of one byte; an empty and a one-byte value.
MCWalKeys == {<<1>>}
MCWalVals == {<<>>, <<2>>}

\* A stand-in for crc32 over tiny bodies: the sum of each byte times its
\* position, in the low two bytes.  Like crc32 it changes with every
\* single-byte change of the body.
MCCrc(body) == LET s == FoldLeft(LAMBDA a, i : a + i * body[i], 0, [i \in 1..Len(body) |-> i])
               IN  <<0, 0, s \div 256, s % 256>>

\* Spec section 3 (replay): a torn tail is tolerated.  When only the last
\* Wal.Write may have been cut short, ReadAll hands the memtable exactly
\* the records whose writes returned nil, in order, and stops at the end
\* of the last of them.
TornTailTolerated ==
    (replayed # None /\ flip = None /\ \A i \in 1..Len(hist) - 1 : Complete(hist[i])) =>
        /\ replayed.recs = Acked(hist)
        /\ replayed.off = Len(FileOf(SelectSeq(hist, Complete)))

\* Every record whose Wal.Write returned nil is replayed, in order, and
\* nothing else: what a restart recovers is what the writes acknowledged,
\* whatever writes failed in between (spec section 3: replay stops at a
\* torn tail and the WAL's logical size is truncated to the last complete
\* record).
AckedRecordsReplayed ==
    replayed # None => replayed.recs = Acked(hist)

\* Stand-ins over one-byte keys: murmur3 spreads a key under a seed over
\* all 64-bit values; here it depends on the key and on two seed bytes, so
\* that filters with other seeds set other bits.
MCMurmur(seed, key) == key[1] * 97 + seed[4] * 5 + seed[3]
MCBloomKeys == {<<1>>, <<2>>, <<3>>}

\* The default filter, one of 100 bits (a partial last word) and one of 9
\* hash functions (the seed formula past the 8 default seeds).
MCShapes == {<<0, 0>>, <<100, 2>>, <<64, 9>>}

MCRunKeys == {<<>>, <<1>>, <<2, 1>>}
MCBlobs == {Save(NewBloomFilter(64, 1)), Save(BloomAdd(NewFilterConstructor, <<1>>))}

\* Spec 4.2 and L1: a saved filter loads back, into the reader's filter,
\* without an error and as a filter whose Contains agrees with the
\* original on every key, added or not (BloomFilter.Save, Load).
SaveLoadRoundTrip ==
    (loaded # None /\ cut = Len(Save(bf))) =>
        /\ ~loaded.err
        /\ \A key \in BloomKeys : BloomContains(loaded.f, key) = BloomContains(bf, key)

\* Spec 4.2: Load fails on every truncation of a saved filter, wherever the
\* cut falls: in the header, in a seed, at or inside a word of the bits.
TruncatedLoadFails ==
    (loaded # None /\ cut < Len(Save(bf))) => loaded.err

\* NewSSTReader on a file SSTWriter.Write produced opens without an error,
\* with the writer's index entries in file order and a filter map from each
\* block's offset to the filter saved for it: readFooter, readIndexData and
\* readFilter frame the index and filter streams as the writer laid them.
OpenRecoversRun ==
    opened # None =>
        /\ ~opened.err
        /\ opened.indexs = IndexsOf(blocks)
        /\ opened.filterMap = [o \in {IndexsOf(blocks)[i].offset : i \in 1..Len(blocks)} |->
                                 blocks[CHOOSE i \in 1..Len(blocks) : IndexsOf(blocks)[i].offset = o].blob]

\* Where write i of the history starts in the WAL file (0-based), and the
\* write whose bytes hold the changed byte.
FrameStart(i) == Len(FileOf(SubSeq(hist, 1, i - 1)))
FlipFrame == CHOOSE i \in 1..Len(hist) : FrameStart(i) < flip.pos /\ flip.pos <= FrameStart(i + 1)

\* Spec section 3 (replay): a CRC mismatch is reported and replay goes on.
\* Wal.ReadAll frames records by their lengths alone, so a byte changed on
\* disk outside the two length fields (in the type, the key, the value or
\* the CRC) corrupts only its own record: every other record is replayed
\* as written, the corrupt one is applied in its place, and replay reaches
\* the end of the file.
CrcMismatchContained ==
    (replayed # None /\ flip # None /\ flip.pos - FrameStart(FlipFrame) \notin 2..9) =>
        /\ Len(replayed.recs) = Len(hist)
        /\ \A i \in 1..Len(hist) \ {FlipFrame} : replayed.recs[i] = hist[i].rec
        /\ replayed.off = Len(WalFile)

\* DecodeRecord returns the record Record.Encode wrote at the start of the
\* file, and an error whenever one of that record's bytes was changed:
\* whichever field the change hits, the CRC over type, lengths, key and
\* value, or the length checks, catch it.
DecodeRecordDetectsCorruption ==
    decoded # None =>
        IF flip # None /\ flip.pos <= Len(Encode(hist[1].rec))
        THEN decoded.err
        ELSE decoded = [err |-> FALSE, rec |-> hist[1].rec]


\* decode.go's Decode reads back the first index entry the writer encoded,
\* and DecodeStream every entry in order without panicking: both agree
\* with readIndexData on the layout of Index.Encode.
IndexDecodersAgree ==
    streamed # None =>
        /\ streamed.one = [err |-> FALSE, index |-> IndexsOf(blocks)[1]]
        /\ streamed.all = [panic |-> FALSE, indexs |-> IndexsOf(blocks)]

=============================================================================
