------------------------------- MODULE RunCodec -------------------------------
(***************************************************************************)
(* The bytes of a sorted-run file and of the bloom filter saved for each   *)
(* of its blocks (src/filter, src/sstable).                                *)
(*                                                                         *)
(* A bloom filter is the record of BloomFilter's fields.  A uint32 seed    *)
(* and a uint64 word of the bit array are kept as the 4 and 8 bytes        *)
(* binary.Write gives them, so Save and Load move bytes without TLC ever   *)
(* holding a number of 2^31 or more; m, k and n are small numbers.         *)
(* murmur3 is the constant Murmur, the hash of a key under a seed.         *)
(*                                                                         *)
(* A run file is data blocks || index stream || filter stream || footer.   *)
(* The reader's opening (readFooter, readIndexData, readFilter) is parsed  *)
(* from the whole file as the code reads it, through a file position, so   *)
(* a loop that reads too far reads the next section's bytes.               *)
(***************************************************************************)
EXTENDS Integers, Sequences, SequencesExt, BigEndian

CONSTANT Murmur(_, _)   \* murmur3.New64WithSeed(seed).Sum64 of a key

\* defaultSeeds, big-endian.
DefaultSeeds == << <<71, 182, 19, 123>>, <<68, 151, 77, 145>>, <<136, 36, 173, 91>>,
                   <<162, 183, 40, 157>>, <<112, 84, 149, 199>>, <<45, 241, 66, 75>>,
                   <<158, 252, 73, 71>>, <<92, 107, 251, 49>> >>

\* uint32(s) + x with wrap-around, on the 4 bytes of s.
AddU32(s, x) ==
    LET lo == s[3] * 256 + s[4] + x
        hi == (s[1] * 256 + s[2] + lo \div 65536) % 65536
    IN  <<hi \div 256, hi % 256, (lo % 65536) \div 256, lo % 256>>

\* Seed i (0-based) of NewBloomFilter.
SeedFor(i) ==
    IF i < Len(DefaultSeeds) THEN DefaultSeeds[i + 1]
    ELSE AddU32(DefaultSeeds[(i % Len(DefaultSeeds)) + 1], (i \div Len(DefaultSeeds)) * 7)

\* (m + 63) / 64: the uint64 words of an m-bit array.
WordsFor(m) == (m + 63) \div 64

\* NewBloomFilter(m, k): zero means the default.
NewBloomFilter(m0, k0) ==
    LET m == IF m0 = 0 THEN 1024 ELSE m0
        k == IF k0 = 0 THEN 3 ELSE k0
    IN  [m |-> m, k |-> k, n |-> 0,
         seeds |-> [i \in 1..k |-> SeedFor(i - 1)],
         bits |-> [w \in 1..WordsFor(m) |-> Zeros(8)]]

\* getHash: the k bit positions of a key.
getHash(f, key) == [i \in 1..f.k |-> Murmur(f.seeds[i], key) % f.m]

\* Bit p of the array is bit p % 64 of word p / 64, i.e. bit p % 8 of byte
\* 8 - (p % 64) / 8 of that word's big-endian bytes.
ByteOf(p) == <<p \div 64 + 1, 8 - (p % 64) \div 8>>
IsSet(f, p) == (f.bits[ByteOf(p)[1]][ByteOf(p)[2]] \div 2^(p % 8)) % 2 = 1

\* BloomFilter.Add: set the key's bits, count it.
BloomAdd(f, key) ==
    LET ps == {getHash(f, key)[i] : i \in 1..f.k}
        Or(b, w, j) == LET acc[e \in 0..8] ==
                             IF e = 0 THEN 0
                             ELSE acc[e - 1] + IF (b \div 2^(e - 1)) % 2 = 1
                                                  \/ \E p \in ps : ByteOf(p) = <<w, j>> /\ p % 8 = e - 1
                                               THEN 2^(e - 1) ELSE 0
                       IN  acc[8]
    IN  [f EXCEPT !.bits = [w \in DOMAIN f.bits |-> [j \in 1..8 |-> Or(f.bits[w][j], w, j)]],
                  !.n = f.n + 1]

\* BloomFilter.Contains.
BloomContains(f, key) == \A i \in 1..f.k : IsSet(f, getHash(f, key)[i])

\* config.NewFilterConstructor: the filter every block and reader starts from.
NewFilterConstructor == NewBloomFilter(1024, 3)

\* Bug variant of Save: the seeds are left out of the saved bytes.
SaveWithoutSeeds(f) == U64Bytes(f.m) \o U64Bytes(f.k) \o U64Bytes(f.n) \o FlattenSeq(f.bits)

\* BloomFilter.Save: m | k | n | seeds | bits.
Save(f) == U64Bytes(f.m) \o U64Bytes(f.k) \o U64Bytes(f.n) \o FlattenSeq(f.seeds) \o FlattenSeq(f.bits)

\* The fields BloomFilter.Load leaves in the filter bf from data of at
\* least 24 bytes.  Fields are overwritten as they are read, so a load
\* that fails part way leaves bf partly replaced: m, k and n, the seeds
\* read so far (a short seed stays zero), and, once the seeds are all
\* read, a fresh bit array filled up to the first word that is missing.
LoadedFields(bf, data) ==
    LET m == BigEndianU64(data, 1)
        k == BigEndianU64(data, 9)
        at == 24 + 4 * k      \* bytes before the bit array
    IN  [m |-> m, k |-> k, n |-> BigEndianU64(data, 17),
         seeds |-> [i \in 1..k |-> IF 24 + 4 * i <= Len(data)
                                  THEN SubSeq(data, 21 + 4 * i, 24 + 4 * i) ELSE Zeros(4)],
         bits |-> IF at > Len(data) THEN bf.bits
                  ELSE [w \in 1..WordsFor(m) |->
                          IF at + 8 * w <= Len(data) THEN SubSeq(data, at + 8 * w - 7, at + 8 * w)
                          ELSE Zeros(8)]]

\* The bytes Load needs: header, seeds and bit array.
SavedSize(f) == 24 + 4 * f.k + 8 * WordsFor(f.m)

\* Bug variant of Load: io.EOF on the first word of the bit array ends the
\* load without an error, leaving an all-zero array.
LoadEofFirstWordOk(bf, data) ==
    IF Len(data) < 24 THEN [err |-> TRUE, f |-> bf]
    ELSE LET f == LoadedFields(bf, data)
         IN  [err |-> Len(data) # 24 + 4 * f.k /\ Len(data) < SavedSize(f), f |-> f]

\* BloomFilter.Load into the filter bf.  Every short read is an error
\* (io.EOF, io.ErrUnexpectedEOF or "bloom filter incomplete"); bytes after
\* the last word are ignored.
Load(bf, data) ==
    IF Len(data) < 24 THEN [err |-> TRUE, f |-> bf]
    ELSE LET f == LoadedFields(bf, data)
         IN  [err |-> Len(data) < SavedSize(f), f |-> f]

\* Index.Encode.
IndexEncode(ix) ==
    U32Bytes(Len(ix.minKey)) \o U32Bytes(Len(ix.maxKey)) \o U64Bytes(ix.offset)
    \o U64Bytes(ix.length) \o ix.minKey \o ix.maxKey

\* BloomBlock.Add: the filter entry of the block at offset.
FilterEntry(offset, blob) == U64Bytes(offset) \o U32Bytes(Len(blob)) \o blob

\* SSTWriter.Write once the last block is flushed: the data buffer, every
\* index entry encoded, the filter entries mustFlush added (blobs[i] is
\* filter.Save() of block i) and the footer of the three lengths.
WriteRun(data, indexs, blobs) ==
    LET idx == FlattenSeq([i \in 1..Len(indexs) |-> IndexEncode(indexs[i])])
        flt == FlattenSeq([i \in 1..Len(indexs) |-> FilterEntry(indexs[i].offset, blobs[i])])
    IN  data \o idx \o flt \o U64Bytes(Len(data)) \o U64Bytes(Len(idx)) \o U64Bytes(Len(flt))

(***************************************************************************)
(* Reading the file at a 0-based position pos.  File.Read of n bytes gets *)
(* the bytes left, at most n, into a zeroed buffer, and io.EOF when none  *)
(* is left; binary.Read fails unless all n bytes are there.  A length     *)
(* larger than the file reads to its end whatever its value, so a buffer  *)
(* is kept at most Len(file) + 1 bytes long, longer than any key the file *)
(* holds.                                                                 *)
(***************************************************************************)
Avail(file, pos, n) == IF pos + n <= Len(file) THEN n ELSE Len(file) - pos
Cap(file, n) == IF n > Len(file) THEN Len(file) + 1 ELSE n
ReadBuf(file, pos, n) == SubSeq(file, pos + 1, pos + Avail(file, pos, n)) \o Zeros(n - Avail(file, pos, n))
ReadEof(file, pos, n) == n > 0 /\ pos = Len(file)
Seek(file, off) == IF off > Len(file) THEN Len(file) ELSE off

EmptyMap == [o \in {} |-> <<>>]

\* The loop of readIndexData from position pos, currOffset cur.
RECURSIVE IndexLoop(_, _, _, _)
IndexLoop(file, pos, cur, length) ==
    IF cur >= length THEN [err |-> FALSE, indexs |-> <<>>]
    ELSE IF ReadEof(file, pos, 24) THEN [err |-> TRUE, indexs |-> <<>>]
    ELSE LET hdr  == ReadBuf(file, pos, 24)
             mk   == BigEndianU32(hdr, 1)
             xk   == BigEndianU32(hdr, 5)
             p1   == pos + Avail(file, pos, 24)
             want == Cap(file, mk) + Cap(file, xk)
             rest == ReadBuf(file, p1, want)
             ix   == [minKey |-> SubSeq(rest, 1, Cap(file, mk)),
                      maxKey |-> SubSeq(rest, Cap(file, mk) + 1, want),
                      offset |-> BigEndianU64(hdr, 9), length |-> BigEndianU64(hdr, 17)]
             next == IndexLoop(file, p1 + Avail(file, p1, want), cur + 24 + mk + xk, length)
         IN  IF ReadEof(file, p1, want) THEN [err |-> TRUE, indexs |-> <<>>]
             ELSE [err |-> next.err, indexs |-> <<ix>> \o next.indexs]

\* Bug variant of FilterLoop: currOffset leaves out the 12 header bytes.
RECURSIVE FilterLoopNoHeader(_, _, _, _, _)
FilterLoopNoHeader(file, pos, cur, flen, fm) ==
    IF cur >= flen \/ Avail(file, pos, 8) = 0 THEN [err |-> FALSE, map |-> fm]
    ELSE IF Avail(file, pos, 12) < 12 THEN [err |-> TRUE, map |-> fm]
    ELSE LET ln == BigEndianU32(file, pos + 9)
         IN  IF ReadEof(file, pos + 12, ln) THEN [err |-> TRUE, map |-> fm]
             ELSE FilterLoopNoHeader(file, pos + 12 + Avail(file, pos + 12, Cap(file, ln)), cur + ln, flen,
                       (BigEndianU64(file, pos + 1) :> ReadBuf(file, pos + 12, Cap(file, ln))) @@ fm)

\* The loop of readFilter from position pos: io.EOF on an entry's offset
\* ends it, any other short read fails it; a later entry for an offset
\* replaces an earlier one in filterMap.
RECURSIVE FilterLoop(_, _, _, _, _)
FilterLoop(file, pos, cur, flen, fm) ==
    IF cur >= flen \/ Avail(file, pos, 8) = 0 THEN [err |-> FALSE, map |-> fm]
    ELSE IF Avail(file, pos, 12) < 12 THEN [err |-> TRUE, map |-> fm]
    ELSE LET ln == BigEndianU32(file, pos + 9)
         IN  IF ReadEof(file, pos + 12, ln) THEN [err |-> TRUE, map |-> fm]
             ELSE FilterLoop(file, pos + 12 + Avail(file, pos + 12, Cap(file, ln)), cur + ln + 12, flen,
                       (BigEndianU64(file, pos + 1) :> ReadBuf(file, pos + 12, Cap(file, ln))) @@ fm)

\* NewSSTReader: readFooter at Len(file) - 24, then readIndex from
\* dataLength and readFilter from dataLength + indexLength; the first
\* error fails the open.
OpenRun(file) ==
    IF Len(file) < 24 THEN [err |-> TRUE, indexs |-> <<>>, filterMap |-> EmptyMap]
    ELSE LET ft == Len(file) - 24
             dl == BigEndianU64(file, ft + 1)
             il == BigEndianU64(file, ft + 9)
             fl == BigEndianU64(file, ft + 17)
             ix == IndexLoop(file, Seek(file, dl), 0, il)
             fm == FilterLoop(file, Seek(file, dl + il), 0, fl, EmptyMap)
         IN  [err |-> ix.err \/ fm.err, indexs |-> ix.indexs, filterMap |-> fm.map]

(***************************************************************************)
(* sstable/decode.go: Decode of one index entry and DecodeStream of an     *)
(* index stream, over a bytes.Buffer.  buf.Next(n) returns at most the n  *)
(* bytes left; binary.BigEndian.Uint32 and Uint64 panic on fewer than 4   *)
(* or 8 bytes, binary.Read returns an error instead.                      *)
(***************************************************************************)
NextEnd(buf, from, n) == IF from + n > Len(buf) THEN Len(buf) ELSE from + n

\* Decode: an error unless the 24-byte header is there.
Decode(data) ==
    IF Len(data) < 24 THEN [err |-> TRUE]
    ELSE LET e1 == NextEnd(data, 24, BigEndianU32(data, 1))
             e2 == NextEnd(data, e1, BigEndianU32(data, 5))
         IN  [err |-> FALSE,
              index |-> [minKey |-> SubSeq(data, 25, e1), maxKey |-> SubSeq(data, e1 + 1, e2),
                         offset |-> BigEndianU64(data, 9), length |-> BigEndianU64(data, 17)]]

\* Bug variant of DecodeStream: maxKey is taken before minKey.
RECURSIVE DecodeStreamMaxFirst(_)
DecodeStreamMaxFirst(buf) ==
    IF buf = <<>> THEN [panic |-> FALSE, indexs |-> <<>>]
    ELSE IF Len(buf) < 24 THEN [panic |-> TRUE, indexs |-> <<>>]
    ELSE LET e1   == NextEnd(buf, 24, BigEndianU32(buf, 5))
             e2   == NextEnd(buf, e1, BigEndianU32(buf, 1))
             ix   == [minKey |-> SubSeq(buf, e1 + 1, e2), maxKey |-> SubSeq(buf, 25, e1),
                      offset |-> BigEndianU64(buf, 9), length |-> BigEndianU64(buf, 17)]
             rest == DecodeStreamMaxFirst(SubSeq(buf, e2 + 1, Len(buf)))
         IN  [panic |-> rest.panic, indexs |-> <<ix>> \o rest.indexs]

\* DecodeStream: entries while the buffer is not empty; a header cut short
\* panics in Uint32 or Uint64.
RECURSIVE DecodeStream(_)
DecodeStream(buf) ==
    IF buf = <<>> THEN [panic |-> FALSE, indexs |-> <<>>]
    ELSE IF Len(buf) < 24 THEN [panic |-> TRUE, indexs |-> <<>>]
    ELSE LET e1   == NextEnd(buf, 24, BigEndianU32(buf, 1))
             e2   == NextEnd(buf, e1, BigEndianU32(buf, 5))
             ix   == [minKey |-> SubSeq(buf, 25, e1), maxKey |-> SubSeq(buf, e1 + 1, e2),
                      offset |-> BigEndianU64(buf, 9), length |-> BigEndianU64(buf, 17)]
             rest == DecodeStream(SubSeq(buf, e2 + 1, Len(buf)))
         IN  [panic |-> rest.panic, indexs |-> <<ix>> \o rest.indexs]

=============================================================================
