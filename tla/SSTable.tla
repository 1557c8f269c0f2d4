------------------------------- MODULE SSTable -------------------------------
(***************************************************************************)
(* A sorted-run file: SSTWriter.Write turning a frozen memtable into data  *)
(* blocks, index entries and one bloom filter per block                    *)
(* (src/sstable/sst_writer.go, block.go, src/filter/bloomfilter.go), then  *)
(* SSTReader.Get called by several goroutines at once on the reader opened *)
(* on that file (src/sstable/sst_reader.go), as LSM.Get does under the     *)
(* engine's read lock, and the reader's forward iterator.                  *)
(*                                                                         *)
(* Keys and values are byte sequences, so that entry sizes, block offsets  *)
(* and both key orders are exact.  The file's byte encoding of the index,  *)
(* filter stream and footer is not modelled: the reader's index list and   *)
(* filter map are the writer's.  The bloom filter is its set of set bits;  *)
(* murmur3 is the constant Hash giving the k bit positions of a key.       *)
(***************************************************************************)
EXTENDS Integers, Sequences, SequencesExt, ByteOrder

CONSTANTS
    Keys,        \* keys (byte sequences) a memtable may hold
    Vals,        \* values (byte sequences); <<>> is what a delete stored
    BlockSize,   \* conf.BlockSize, in bytes
    FilterBits,  \* bit positions 0..m-1 of a bloom filter
    Hash(_),     \* getHash: the bit positions of a key
    Readers,     \* goroutines calling SSTReader.Get
    NoIndex      \* getIndex returned "index not found"

ASSUME BlockSize \in Nat /\ \A k \in Keys : Hash(k) \subseteq FilterBits

VARIABLES
    mem,          \* the frozen memtable being written
    iter,         \* entries the memtable iterator has still to yield
    block,        \* w.block: entries, minKey, maxKey
    filter,       \* w.filter: bits of the running filter
    dataBuf,      \* w.dataBuf: entries of finished blocks, in file order
    indexs,       \* w.indexs, then r.indexs
    filterBlock,  \* w.filterBlock, then r.filterMap: offset -> bits
    written,      \* Write and Close returned and NewSSTReader opened the file
    bloom,        \* r.bloomFilter: the one filter instance of the reader
    rpc,          \* where each reader goroutine is in SSTReader.Get
    rkey,         \* the key it looks up
    ridx,         \* the index entry getIndex returned
    rres          \* what its last Get returned

writerVars == <<mem, iter, block, filter, dataBuf, indexs, filterBlock, written>>
readerVars == <<bloom, rpc, rkey, ridx, rres>>
vars == <<writerVars, readerVars>>

-----------------------------------------------------------------------------
Entry == [key : Keys, val : Vals]

\* The bytes DataBlock.Add writes for an entry: two uint32 lengths, key, value.
EntrySize(e) == 8 + Len(e.key) + Len(e.val)

BytesOf(es) == FoldLeft(LAMBDA acc, e : acc + EntrySize(e), 0, es)

\* The memtables compactMemTables writes (an empty one is skipped).
Memtables == UNION {[S -> Vals] : S \in SUBSET Keys \ {{}}}

\* BtreeIterator: a snapshot of the entries in KVItem.Less order.
MemIterator(m) ==
    LET ks == SetToSortSeq(DOMAIN m, KeyLess)
    IN  [i \in DOMAIN ks |-> [key |-> ks[i], val |-> m[ks[i]]]]

\* NewDataBlock and DataBlock.Clear: no entries and zero-length keys.
EmptyBlock == [entries |-> <<>>, minKey |-> <<>>, maxKey |-> <<>>]

\* DataBlock.Add: minKey is set while it is still of length zero, maxKey
\* is always the added key.
BlockAdd(b, e) ==
    [entries |-> Append(b.entries, e),
     minKey  |-> IF Len(b.minKey) = 0 THEN e.key ELSE b.minKey,
     maxKey  |-> e.key]

\* BloomFilter.Add and BloomFilter.Contains.
FilterAdd(f, k) == f \cup Hash(k)
FilterContains(f, k) == Hash(k) \subseteq f

\* Bug variant of MustFlush: the filter is reset before it is saved.
MustFlushResetFirst(b, f) ==
    /\ indexs' = Append(indexs, [minKey |-> b.minKey, maxKey |-> b.maxKey,
                                 offset |-> BytesOf(dataBuf),
                                 length |-> BytesOf(b.entries)])
    /\ dataBuf' = dataBuf \o b.entries
    /\ filterBlock' = (BytesOf(dataBuf) :> {}) @@ filterBlock
    /\ block' = EmptyBlock
    /\ filter' = {}

\* mustFlush: the index entry takes the block's keys and its offset in the
\* data buffer, the block is appended and cleared, the filter is saved
\* under that offset (BloomBlock.Add) and reset.
MustFlush(b, f) ==
    /\ indexs' = Append(indexs, [minKey |-> b.minKey, maxKey |-> b.maxKey,
                                 offset |-> BytesOf(dataBuf),
                                 length |-> BytesOf(b.entries)])
    /\ dataBuf' = dataBuf \o b.entries
    /\ filterBlock' = (BytesOf(dataBuf) :> f) @@ filterBlock
    /\ block' = EmptyBlock
    /\ filter' = {}

Init ==
    /\ mem \in Memtables
    /\ iter = MemIterator(mem)
    /\ block = EmptyBlock
    /\ filter = {}
    /\ dataBuf = <<>>
    /\ indexs = <<>>
    /\ filterBlock = [o \in {} |-> {}]
    /\ written = FALSE
    /\ bloom = {}
    /\ rpc = [r \in Readers |-> "idle"]
    /\ rkey = [r \in Readers |-> <<>>]
    /\ ridx = [r \in Readers |-> NoIndex]
    /\ rres = [r \in Readers |-> [status |-> "none", val |-> <<>>, read |-> {}]]

\* writeKV for the next entry of the iterator: filter.Add, block.Add, then
\* tryFlush, which flushes once the block is larger than BlockSize.
WriteKV ==
    /\ ~written
    /\ iter # <<>>
    /\ LET e  == Head(iter)
           b1 == BlockAdd(block, e)
           f1 == FilterAdd(filter, e.key)
       IN  IF BytesOf(b1.entries) > BlockSize
           THEN MustFlush(b1, f1)
           ELSE /\ block' = b1
                /\ filter' = f1
                /\ UNCHANGED <<dataBuf, indexs, filterBlock>>
    /\ iter' = Tail(iter)
    /\ UNCHANGED <<mem, written>>
    /\ UNCHANGED readerVars

\* Bug variant of WriteFinish: the last, partly filled block is not flushed.
WriteFinishNoFlush ==
    /\ ~written
    /\ iter = <<>>
    /\ UNCHANGED <<block, filter, dataBuf, indexs, filterBlock>>
    /\ written' = TRUE
    /\ UNCHANGED <<mem, iter>>
    /\ UNCHANGED readerVars

\* The rest of Write: flush a non-empty block, then write the data, index
\* and filter streams and the footer; Close; NewNode opens a reader.
WriteFinish ==
    /\ ~written
    /\ iter = <<>>
    /\ IF BytesOf(block.entries) > 0
       THEN MustFlush(block, filter)
       ELSE UNCHANGED <<block, filter, dataBuf, indexs, filterBlock>>
    /\ written' = TRUE
    /\ UNCHANGED <<mem, iter>>
    /\ UNCHANGED readerVars

-----------------------------------------------------------------------------
(* The reader.                                                              *)

\* Byte offset in the file of each entry of the data region.
DataStarts == [j \in 1..Len(dataBuf) |-> BytesOf(SubSeq(dataBuf, 1, j - 1))]

\* getIndex: the first index entry with minKey <= key <= maxKey under
\* bytes.Compare.
GetIndex(k) ==
    LET hits == {i \in DOMAIN indexs : /\ BytesCompare(k, indexs[i].minKey) >= 0
                                       /\ BytesCompare(k, indexs[i].maxKey) <= 0}
    IN  IF hits = {} THEN NoIndex ELSE Min(hits)

\* Bug variant of Scan: the match test accepts the first key not below the
\* target.
RECURSIVE ScanSeek(_, _, _, _)
ScanSeek(j, curr, length, k) ==
    IF curr >= length
    THEN {[status |-> "notfound", val |-> <<>>, read |-> {}]}
    ELSE IF j > Len(dataBuf)
    THEN {[status |-> s, val |-> <<>>, read |-> {j}] : s \in {"notfound", "error"}}
    ELSE IF CompareBytes(dataBuf[j].key, k) >= 0
    THEN {[status |-> "found", val |-> dataBuf[j].val, read |-> {j}]}
    ELSE {[o EXCEPT !.read = @ \cup {j}] :
            o \in ScanSeek(j + 1, curr + Len(dataBuf[j].key) + Len(dataBuf[j].val),
                           length, k)}

\* Bug variant of Scan: the loop stops before an entry that would reach
\* the end of the block.
RECURSIVE ScanStopEarly(_, _, _, _)
ScanStopEarly(j, curr, length, k) ==
    IF j > Len(dataBuf) \/ curr + EntrySize(dataBuf[j]) >= length
    THEN {[status |-> "notfound", val |-> <<>>, read |-> {}]}
    ELSE IF CompareBytes(dataBuf[j].key, k) = 0
    THEN {[status |-> "found", val |-> dataBuf[j].val, read |-> {j}]}
    ELSE {[o EXCEPT !.read = @ \cup {j}] :
            o \in ScanStopEarly(j + 1, curr + EntrySize(dataBuf[j]), length, k)}

\* readData's loop from entry j with currOffset = curr: stop once
\* currOffset >= length, return the entry whose key equals the target under
\* CompareBytes, otherwise advance currOffset by keyLen + valueLen (the
\* 8 bytes of the two lengths are not counted).  Past the data region the
\* loop parses index, filter and footer bytes as an entry and ends with a
\* failed read or EOF: an error or not found.
RECURSIVE Scan(_, _, _, _)
Scan(j, curr, length, k) ==
    IF curr >= length
    THEN {[status |-> "notfound", val |-> <<>>, read |-> {}]}
    ELSE IF j > Len(dataBuf)
    THEN {[status |-> s, val |-> <<>>, read |-> {j}] : s \in {"notfound", "error"}}
    ELSE IF CompareBytes(dataBuf[j].key, k) = 0
    THEN {[status |-> "found", val |-> dataBuf[j].val, read |-> {j}]}
    ELSE {[o EXCEPT !.read = @ \cup {j}] :
            o \in Scan(j + 1, curr + Len(dataBuf[j].key) + Len(dataBuf[j].val),
                       length, k)}

\* The entry at a byte offset of the data region (past it if none starts
\* there).
EntryAt(off) ==
    IF \E j \in DOMAIN dataBuf : DataStarts[j] = off
    THEN CHOOSE j \in DOMAIN dataBuf : DataStarts[j] = off
    ELSE Len(dataBuf) + 1

\* readData(index.offset, index.length, key), under r.mu.Lock.
ReadData(i, k) == Scan(EntryAt(indexs[i].offset), 0, indexs[i].length, k)

\* SSTIterator.readNextKeyValue over one index entry: read while
\* currOffset < length, advancing by 8 + keyLen + valueLen; a read past
\* the end of the file fails and ends the block.
RECURSIVE IterBlock(_, _, _)
IterBlock(j, curr, length) ==
    IF curr >= length \/ j > Len(dataBuf) THEN <<>>
    ELSE <<dataBuf[j]>> \o IterBlock(j + 1, curr + EntrySize(dataBuf[j]), length)

\* SSTIterator First/Next: the index entries in file order, the entries of
\* each in turn.
IterateFile ==
    FoldLeft(LAMBDA acc, ix : acc \o IterBlock(EntryAt(ix.offset), 0, ix.length),
             <<>>, indexs)

Result(s) == [status |-> s, val |-> <<>>, read |-> {}]

\* Get, first step: getIndex under r.mu.RLock; "index not found" is an
\* error.  A goroutine starts a new Get once its last one returned.
GetLocate(r) ==
    /\ written
    /\ rpc[r] \in {"idle", "done"}
    /\ \E k \in Keys :
         /\ rkey' = [rkey EXCEPT ![r] = k]
         /\ ridx' = [ridx EXCEPT ![r] = GetIndex(k)]
         /\ IF GetIndex(k) = NoIndex
            THEN /\ rpc' = [rpc EXCEPT ![r] = "done"]
                 /\ rres' = [rres EXCEPT ![r] = Result("error")]
            ELSE /\ rpc' = [rpc EXCEPT ![r] = "located"]
                 /\ UNCHANGED rres
    /\ UNCHANGED <<bloom>>
    /\ UNCHANGED writerVars

\* bloomFilter.Load, first part, without any lock: the bits slice is
\* replaced by a freshly allocated, zeroed one.
LoadAlloc(r) ==
    /\ rpc[r] = "located"
    /\ bloom' = {}
    /\ rpc' = [rpc EXCEPT ![r] = "loading"]
    /\ UNCHANGED <<rkey, ridx, rres>>
    /\ UNCHANGED writerVars

\* bloomFilter.Load, second part: the saved bits of the block are read in.
LoadFill(r) ==
    /\ rpc[r] = "loading"
    /\ bloom' = filterBlock[indexs[ridx[r]].offset]
    /\ rpc' = [rpc EXCEPT ![r] = "loaded"]
    /\ UNCHANGED <<rkey, ridx, rres>>
    /\ UNCHANGED writerVars

\* bloomFilter.Contains on the shared instance: a miss returns not found.
Check(r) ==
    /\ rpc[r] = "loaded"
    /\ IF FilterContains(bloom, rkey[r])
       THEN /\ rpc' = [rpc EXCEPT ![r] = "checked"]
            /\ UNCHANGED rres
       ELSE /\ rpc' = [rpc EXCEPT ![r] = "done"]
            /\ rres' = [rres EXCEPT ![r] = Result("notfound")]
    /\ UNCHANGED <<bloom, rkey, ridx>>
    /\ UNCHANGED writerVars

\* readData, under r.mu.Lock, returns the Get's result.
Read(r) ==
    /\ rpc[r] = "checked"
    /\ \E o \in ReadData(ridx[r], rkey[r]) : rres' = [rres EXCEPT ![r] = o]
    /\ rpc' = [rpc EXCEPT ![r] = "done"]
    /\ UNCHANGED <<bloom, rkey, ridx>>
    /\ UNCHANGED writerVars

Next ==
    \/ WriteKV
    \/ WriteFinish
    \/ \E r \in Readers : GetLocate(r) \/ LoadAlloc(r) \/ LoadFill(r)
                          \/ Check(r) \/ Read(r)

Spec == Init /\ [][Next]_vars

-----------------------------------------------------------------------------
\* The data entries an index entry covers.
BlockSlots(i) == {j \in DOMAIN dataBuf : /\ DataStarts[j] >= indexs[i].offset
                                         /\ DataStarts[j] < indexs[i].offset + indexs[i].length}
BlockKeys(i) == {dataBuf[j].key : j \in BlockSlots(i)}

\* Spec P5: in every block the keys strictly increase under CompareBytes,
\* and the index entry's minKey and maxKey are its first and last key
\* (DataBlock.Add's running minKey/maxKey and mustFlush).
BlocksSortedAndIndexed ==
    written =>
      \A i \in DOMAIN indexs :
        LET es == [n \in 1..Cardinality(BlockSlots(i)) |->
                     dataBuf[Min(BlockSlots(i)) + n - 1]]
        IN  /\ es # <<>>
            /\ \A n \in 1..(Len(es) - 1) : KeyLess(es[n].key, es[n + 1].key)
            /\ indexs[i].minKey = es[1].key
            /\ indexs[i].maxKey = es[Len(es)].key

\* Spec P6: the filter saved for a block accepts every key of the block
\* (writeKV adds the key before tryFlush, mustFlush saves before Reset).
FilterNoFalseNegatives ==
    written =>
      \A i \in DOMAIN indexs :
        \A k \in BlockKeys(i) : FilterContains(filterBlock[indexs[i].offset], k)

\* Iterating the file yields exactly the memtable's entries in order: no
\* entry lost at a block boundary or in the last block.
IteratorYieldsMemtable == written => IterateFile = MemIterator(mem)

\* A Get that reports a key found returns the value the memtable held for
\* it, even when readData reads past its block.
GetSound ==
    \A r \in Readers :
        (rpc[r] = "done" /\ rres[r].status = "found") =>
            /\ rkey[r] \in DOMAIN mem
            /\ rres[r].val = mem[rkey[r]]

\* A Get whose getIndex located the block holding its key returns it:
\* neither the filter nor readData loses it.
LocatedKeyIsFound ==
    \A r \in Readers :
        (rpc[r] = "done" /\ ridx[r] # NoIndex /\ rkey[r] \in BlockKeys(ridx[r]))
            => rres[r].status = "found"

\* Spec L2: a Get of any key the memtable held returns its value.
GetReturnsStored ==
    \A r \in Readers :
        (rpc[r] = "done" /\ rkey[r] \in DOMAIN mem)
            => rres[r].status = "found" /\ rres[r].val = mem[rkey[r]]

\* readData reads only the entries of the block it was given.
ReadDataStaysInBlock ==
    \A r \in Readers :
        (rpc[r] = "done" /\ ridx[r] # NoIndex) => rres[r].read \subseteq BlockSlots(ridx[r])

=============================================================================
