# TLA+ models of sqldb, an LSM-tree key/value engine

This directory holds TLA+ models of the Go engine under `src/`. The models are
checked with TLC. `PROJECT.json` lists the components, the runs, the mutants,
the map from every definition to the source lines it translates, the findings
and the hazards.

## 1. The system

| part | source | state | operations |
|---|---|---|---|
| engine | `src/lsm.go` | mutable memtable, frozen queue (oldest first), `currWal`, `walId`, `levelId[]`, `nodes[][]`, `closed`, `isRunning`, one RW lock | `NewLSM`, `Put`, `switchMemtable`, `Get`, `Delete`, `Close` |
| flush worker | `src/compact.go` | package-level `compactionInProgress` flag, `compactChan`, `sstChan` | `compactionWorker` (signal, 1 s tick, 500 ms helper poll), `compactMemTables`, `compactSSTables` (a no-op TODO) |
| recovery | `src/load.go` | none of its own | `loadSST`, `loadWal` |
| WAL | `src/wal/wal.go`, `record.go` | open file, `offset` | `NewWal`, `Write`, `ReadAll` (replay), `Size`, `Delete` |
| memtable | `src/memtable/btree.go` | a B-tree of key -> value | `Put` (copies the value; nil becomes empty), `Get`, `Delete` (removes), iterator |
| level-0 node | `src/nodes.go` | a reader on `0_<seq>.sst` | `NewNode`, `Get`, `Close` |
| sorted-run writer and reader | `src/sstable/*` | blocks, index, filter | `Write`, `Get`, `Iterator` |
| bloom filter | `src/filter/*` | a bit array | `Add`, `Contains`, `Save`, `Load` |
| utilities | `src/utils/*`, `src/path.go`, `src/config` | none | `CompareBytes` (length-first), path parsing, defaults |

**How the parts interact.** `Put` runs under the write lock. It does these steps in order:

1. Append a record to the current WAL. `Delete` is `Put(key, nil)` and becomes a Delete record.
2. Insert the value into the mutable memtable.
3. If the WAL has grown past the cap, rotate with `switchMemtable`. This freezes the pair (memtable, WAL) at the tail of the queue and opens WAL `walId+1`. If that fails it falls back to a WAL in `os.TempDir()`, and if that fails too it runs with no WAL.
4. Signal the worker.

Every wake path of the worker enters `compactMemTables` only through a CAS on `compactionInProgress`. The flush then works in steps:

1. Under the lock, pop the oldest frozen memtable.
2. Without the lock, allocate `seq = levelId[0]++`, write `0_<seq>.sst` and open a node on it.
3. Under the lock, append the node to level 0.
4. Delete the WAL of the flushed memtable.
5. Recurse while the queue is non-empty.

`Get` takes the read lock and probes the mutable memtable, then the frozen memtables newest first, then the level-0 nodes newest first.

`NewLSM` on an existing directory starts the worker, then runs `loadSST` and `loadWal`:

- `loadSST` opens every run file.
- `loadWal` replays every WAL but the last into a frozen memtable, and the last one into the mutable memtable. It appends the frozen memtables without the lock while the worker may already be popping them.

**Hard behaviours.**

- The flusher's pop and install happen under two different lock sections, and readers and writers run between them.
- A crash can fall between any two flush steps.
- Each of the five I/O steps of a flush can fail.
- WAL creation can fail.
- The three wake paths can drop signals.
- Restart does not restore the `walId` and `levelId` counters.
- Replay treats a Delete record differently from the live memtable.
- A run file's index and filter sections are framed by byte counters that the reader keeps itself, and a bloom filter's `Load` replaces its fields one by one.

## 2. Modules

### `LSM.tla`: engine, flush worker and recovery

Data is abstracted to what the properties tell apart:

- Keys and values are model values.
- `Nil`, `Empty` and `Absent` are distinct sentinels for a nil argument, a stored empty slice and a missing entry.
- A memtable is a function `Keys -> Vals \cup {Empty, Absent}`.
- A WAL file is the sequence of its records.
- A run file is the memtable written into it. The reader's lookup is to be modelled in its own module.
- WAL size is a record count, and `Cap` plays the part of `getUpperMemtableSize()`.

| variable | code |
|---|---|
| `running`, `closePc`, `walClosed`, `closes` | `isRunning`, where `Close` is (CAS won, handles closed), the WAL handles `Close` closed, a bound on `Close` calls |
| `mutableMemtable`, `immutableMemtables`, `currWal`, `walSize`, `walId`, `levelId0`, `nodes0` | the `LSM` fields of the same names (`walSize` is `currWal.Size()`) |
| `walDir`, `sstDir` | the files in `<data>/wal` and `<data>/sst` |
| `flushPc`, `inflight`, `fseq` | the flusher's position in `compactMemTables`, its local `immutable`, its local `seq`; `flushPc # "idle"` is `compactionInProgress` held |
| `store`, `memPuts`, `puts`, `crashes` | history only: the value of the last acknowledged write of each key, writes absorbed since the last rotation, bounds |

| action | code |
|---|---|
| `Put(k, v)`, `Delete(k)` | `LSM.Put` whole, including `Wal.Write` (`WalWrite`), the memtable insert (`Stored`) and `switchMemtable` (`Rotate`, with the three outcomes of opening a WAL). `Put` does not check `closed`; on a WAL handle `Close` closed, `Wal.Write` fails and nothing changes, so `Put` is disabled there. |
| `WorkerWake` | a wake-up of `compactionWorker` or its helper: `isRunning` still set, queue non-empty, CAS on `compactionInProgress` won |
| `FlushPop` | the first lock section of `compactMemTables` |
| `FlushSkipEmpty` | the empty-memtable path: delete the WAL, return |
| `FlushWrite` | seq allocation, `MkdirAll`, writer, `Write`, `Close`, `NewNode`. `os.Create` truncates an existing file in place, so open nodes on that seq see the new contents. |
| `FlushFail` | any of those steps failing: the seq is spent, the file may be removed, the memtable is dropped and its WAL is left behind |
| `FlushInstall` | the second lock section: append the node |
| `FlushDeleteWal` | `Wal.Delete` (`WalDelete`: `Sync` fails on a handle `Close` closed, so the file stays), then recurse or clear the flag. The recursion never reads `isRunning`. |
| `CloseBegin`, `CloseFinish` | `LSM.Close`: the CAS on `closed` and `isRunning.Store(false)`; then, after the 100 ms sleep and under the lock, closing the current WAL, every frozen WAL and every node |
| `Restart` | a crash (all memory lost) followed by `NewLSM` and `loadSST` on the same directory, and `loadWal`'s listing and sort of the WAL ids (`loading`) |
| `LoadWalRead`, `LoadWalAppend` | `loadWal` for each WAL but the last: `ReadAll` into a new memtable, then `append(l.immutableMemTables, ...)` without the lock. The read of the slice header (`snap`) and the write back are two steps. The flush worker, started before loading, runs in between. `AppendOutcomes` gives what the append can leave. With `StartupRace = FALSE` it is the append landing after any pop. With `StartupRace = TRUE` it also includes the outcomes of the data race: the write back over a stale header drops the worker's pop, or the append is lost. |
| `LoadWalLast` | the last WAL becomes the current one, and its records the mutable memtable |

The L0-overflow signal reaches `compactSSTables`, which changes nothing, so it is not an action. `WorkerWake` reads `isRunning` and the queue length and wins the CAS in one step. `Close` or a rotation falling between those reads has the same effect as one falling just after the wake, in state `flushPc = "pop"`, and the model has that state. Only one engine's worker ever holds the flag, so the CAS after a successful `Load` never fails.

**Fairness.** `WorkerWake`, the flush steps and the `loadWal` steps are weakly fair. `loadWal` is a loop that runs inside `NewLSM` to its end. The worker wakes on a 1 s ticker and its helper polls every 500 ms; while `isRunning` holds, either one enters `compactMemTables` whenever the queue is non-empty and the flag is free. So an enabled flush step cannot stay enabled forever without being taken. `CloseFinish` is weakly fair because the 100 ms sleep ends. Clients get no fairness.

**Refinement.** `KVStore.tla` is the abstract store of spec P1-P3: a map from keys to values, where a step writes one key. `LSM` refines it under the mapping `View`, the newest hit for each key across the runs, the memtable the flusher holds, the frozen memtables and the mutable memtable. `RefinesKVStore == KV!Spec` is checked as a temporal property: every `Put`/`Delete` changes exactly its key in `View`, and every rotation, flush, and `Close` step leaves `View` unchanged. The reader-visible mapping (`EngineGet`, without the flusher's memtable) is not a refinement: see run getwindow.

`MCLSM.tla` instantiates the model with two keys, two values and symmetry over both sets. Symmetry is used only in runs without liveness.

### `SSTable.tla`: sorted-run writer, reader and bloom filter

Keys and values are sequences of small integers, so entry sizes (`8 + len(key) + len(value)`), block offsets and both key orders are exact. Here the reader gets the writer's index list and filter map. Their byte encoding is checked in `RunCodec`. In this module a bloom filter is its set of set bits, and `Hash` is a constant giving each key's bit positions.

| definition | code |
|---|---|
| `WriteKV` | `writeKV` whole: `filter.Add`, `DataBlock.Add` (`BlockAdd`: `minKey` set only while of length 0), `tryFlush` (`mustFlush` once the block is larger than `BlockSize`) |
| `MustFlush` | `mustFlush`: index entry `{minKey, maxKey, offset, length}`, append the block, `BloomBlock.Add(offset, filter.Save())`, clear the block, reset the filter |
| `WriteFinish` | the rest of `Write` (flush a non-empty last block, write the streams), `Close`, and opening a reader |
| `GetLocate(r)` | `getIndex`: the first index entry whose `[minKey, maxKey]` holds the key under `bytes.Compare` (`BytesCompare`); none is an error |
| `LoadAlloc(r)`, `LoadFill(r)` | `bloomFilter.Load` on the reader's single filter without a lock: a zeroed `bits` slice is allocated, then the saved bits are read in |
| `Check(r)` | `bloomFilter.Contains`: a miss returns not found |
| `Read(r)` | `readData` (`Scan`): read entries while `currOffset < length`, match with `CompareBytes`, advance by `keyLen + valueLen` |
| `IterateFile` | `SSTIterator`: each index entry in turn, advancing by `8 + keyLen + valueLen` |

Several reader goroutines call `Get` at once, as `LSM.Get` does under the engine's read lock.

### `ByteOrder.tla`: key orders

`BytesCompare` (Go's `bytes.Compare`) and `CompareBytes` (`utils.CompareBytes`, length first) are RECURSIVE operators. SSTable sorts memtables and blocks with the first and searches the index with the second, so they are checked where the engine uses them: by runs sstable and getindexorder.

### `BigEndian.tla`: `encoding/binary`

`U32Bytes`, `U64Bytes`, `BigEndianU32` and `BigEndianU64` are the big-endian writes and reads that the WAL and the run files use. TLC's integers stop below 2^31. Every length the engine writes into a model file is below 2^24. A field whose high bytes are not zero can therefore only be bytes read at the wrong place. It decodes as `BeyondFile`, which is larger than any model file, so a read of that length runs to the end of the file, as the real value would.

### `RunCodec.tla`: bloom filter bytes and the run file tail

- `NewBloomFilter` is `filter.NewBloomFilter`: defaults for zero arguments, the 8 default seeds, then the seed formula, and `(m+63)/64` words.
- `getHash` is `getHash` over a constant `Murmur`.
- `BloomAdd` and `BloomContains` work on the big-endian `uint64` words, held as 8-byte sequences.
- `Save` is `m | k | n | seeds | bits`.
- `Load` reads those fields in order. It overwrites each field as it goes and returns an error at the first short read, so `LoadedFields` is the half-replaced filter.
- `WriteRun` is the tail of `SSTWriter.Write`: the data, then `Index.Encode` for each block, the `BloomBlock.Add` entries (`offset | len | blob`), and the footer of three `uint64` lengths.
- `Decode` and `DecodeStream` are `sstable/decode.go`'s decoders of one index entry and of an index stream. `NextEnd` is `bytes.Buffer.Next`, which stops at the end of the buffer. `DecodeStream` panics in `Uint32`/`Uint64` on a header cut short. Nothing calls them.
- `OpenRun` is `NewSSTReader`. It reads the footer, seeks to the index section and runs `readIndexData` (`IndexLoop`), then seeks to the filter section and runs `readFilter` (`FilterLoop`). Reads go through a file position: `ReadBuf` is `io.ReadFull` and `ReadEof` is `binary.Read`.

### `WalCodec.tla`: WAL byte framing

`Encode` is `Record.Encode`: `type(1) | keyLen(4) | valueLen(4) | key | value | crc32(4)`, big-endian. `AppendWrite(file, r, n)` is `Wal.Write` with `n` bytes of the encoding reaching the file. `n` is all of them on success, and fewer when `fp.Write` fails part way or the process dies during the write. Only a complete write returns nil, so only then does `LSM.Put` go on (`Acked`). `ParseFrom` is the loop of `ReadAll`:

- stop when a header does not fit;
- stop on an implausible length;
- stop when the declared record does not fit;
- otherwise take the record and advance by `9 + keyLen + valueLen + 4`.

A CRC mismatch is only warned about, so crc32 never changes what is parsed. It is a constant operator `Crc`.

`DecodeRecord` is `record.go`'s decoder of one record. It checks the header length, the two length limits, that the record is complete, and the stored CRC against the CRC of type, lengths, key and value. Nothing in the engine calls it. It is checked here as the strict counterpart of `ReadAll`.

### `MCCodec.tla`: the pure algorithms on every small input

Each initial state is one input:

- a history of up to 3 `Wal.Write` calls of records on one key (Put of an empty value, Put of a one-byte value, or Delete), each complete or cut after any of its bytes (81,400 histories); or
- a history of up to 3 complete writes, with one byte of the file changed afterwards to a value from `FlipBytes` (`0`, `1`, `7`), at any position.

- a bloom filter of one of three shapes (`m,k` of `0,0` for the defaults, `100,2` with a partial last word, and `64,9` with a computed seed) after up to 2 `Add`s, together with how many bytes of its `Save` are kept (any prefix); or
- a run file of up to 2 blocks of 1 or 5 data bytes, each with one of two saved filters, and a first and last key from three keys.

`Replay` runs `ReadAll` on the file the history leaves (`WalFile`, with the changed byte if there is one), as `loadWal` does after the file is reopened. `DecodeFirstRecord` runs `DecodeRecord` on the same bytes. `DecodeIndex` gives the writer's index section to `Decode` and `DecodeStream`. `LoadBlob` loads the kept bytes into a filter from `NewFilterConstructor`, as `SSTReader.Get` does. `OpenReader` opens the file `SSTWriter.Write` produces (`RunFileOf`).

## 3. Runs

Every LSM run uses `Cap = 1`, so a rotation happens on every second write, and `MaxPuts = 5`. With these bounds the queue holds up to two frozen memtables, and a flush can overlap further writes and another rotation. Both keys and both values, including an overwrite and a delete, occur within five writes. `MaxCloses = 1` in core and closeflush lets `Close` fall at every point of a write or a flush; the other LSM runs never close.

`CHECK_DEADLOCK FALSE` is set in the LSM runs because clients stop after `MaxPuts` (or `Close`) and an idle engine only stutters.

The SSTable runs use every non-empty memtable over four keys: `<<1>>`, `<<2>>`, `<<1,1>>` and `<<1,2>>`; run sstable adds the empty key `<<>>`, which `LSM.Put` accepts. The two orders disagree on these keys: `<<2>>` comes before `<<1,1>>` length-first, but after it lexicographically. Values are `<<>>` (what a delete stores) and `<<7>>`. `BlockSize = 12` puts at most two entries in a block, so a file has up to three blocks. Filters have 2 bits, and `Hash` makes `<<1,1>>` collide with the union of `<<1>>` and `<<2>>`, so bloom false positives happen. A reader starts a new `Get` whenever its last one returned, so the SSTable runs have no terminal state and deadlock is checked.

`MCCrc`, the stand-in for crc32, is the position-weighted sum of the body's bytes in two bytes. Like crc32, it changes under every single-byte change of a short body, so `DecodeRecord`'s check means the same as with the real CRC. The changed-byte values `0`, `1` and `7` turn a Put into a Delete and back, zero or grow a length, and change a key, value or CRC byte.

The codec run's bloom and run-file inputs use `MCMurmur`, a small hash that spreads the three keys over several words, so two `Add`s set bits in different words and in the partial last word of the 100-bit shape. The three shapes cover the zero-argument defaults, a size that is not a multiple of 64, and more hashes than default seeds. Every prefix of every saved filter is loaded, including the empty one, the 24-byte header alone, and cuts inside a seed or a word. Run files of two blocks of different lengths give the index and filter loops a second iteration at a non-zero offset. The two filter blobs differ in length (one of them has 1,024 bits), which puts a length mismatch between sections within reach.

| run | cfg | expect | shows |
|---|---|---|---|
| core | `MCLSM_core.cfg` (one `Close`) | pass | `RefinesKVStore`: the engine implements `KVStore` under `View`. `EveryMemtableMatchesItsWal`: each memtable equals what its WAL records. `WalDeletedOnlyAfterInstall`: a WAL is removed only once a run with its contents is installed. `EventuallyFlushed`: the flusher goes idle, with the queue drained unless `Close` stopped the workers. |
| restart | `MCLSM_restart.cfg` (2 crashes, `StartupRace`) | pass | `EventuallyFlushed`: with the flusher running during `loadWal` and the data race of its unlocked append possible, the worker still drains the queue and goes idle. |
| iofail | `MCLSM_iofail.cfg` (I/O may fail) | pass | A failed flush or a fallback WAL never removes a WAL early, and the queue still drains. |
| getwindow | `MCLSM_getwindow.cfg` | violation | `GetMatchesStore`: a `Get` between pop and install misses acknowledged data. |
| deletereplay | `MCLSM_deletereplay.cfg` | violation | `RecoveryPreservesStore`: after a restart a deleted key reads differently, and an older value reappears. |
| walidreuse | `MCLSM_walidreuse.cfg` (1 crash, `StartupRace`) | violation | `CurrentWalOnDisk`: after a restart a rotation reopens a live WAL id, and a flush deletes the current WAL. |
| closeflush | `MCLSM_closeflush.cfg` | violation | `CloseWaitsForFlush`: a flush in progress when `Close` runs writes a run and installs a node after `Close` closed the handles. |
| codec | `MCCodec.cfg` | pass | `TornTailTolerated` (spec section 3): when only the last write may be cut short, `ReadAll` returns exactly the acknowledged records and stops at the end of the last one. `SaveLoadRoundTrip`: a filter loaded from its whole `Save` has no error and answers `Contains` as the original does for every key. `TruncatedLoadFails`: every proper prefix of a saved filter makes `Load` fail. `OpenRecoversRun`: `NewSSTReader` recovers exactly the writer's index entries and its offset-to-filter map. `CrcMismatchContained` (spec section 3: a CRC mismatch warns and replay goes on): a byte changed outside the length fields corrupts only its own record, which is still applied, and every other record is replayed. `DecodeRecordDetectsCorruption`: `DecodeRecord` returns the written record, and an error whenever one of its bytes was changed. `IndexDecodersAgree`: `Decode` and `DecodeStream` read back the index `Index.Encode` wrote. |
| tornwal | `MCCodec_tornwal.cfg` | violation | `AckedRecordsReplayed`: a write cut short in the middle of the file, followed by complete writes, makes `ReadAll` lose those later acknowledged records. The same property also fails on a byte changed on disk: `ReadAll` applies the corrupt record, or it misframes everything after a changed length field. |
| sstable | `MCSSTable_core.cfg` (1 reader) | pass | `FilterNoFalseNegatives` (P6). `IteratorYieldsMemtable`: the iterator yields the memtable in order. `GetSound`: `Get` never returns a wrong value. `LocatedKeyIsFound`: a stored key that `getIndex` locates is found. |
| getindexorder | `MCSSTable_getindexorder.cfg` | violation | `GetReturnsStored` (spec L2): `Get` of a stored key returns "index not found". |
| bloomrace | `MCSSTable_bloomrace.cfg` (2 readers) | violation | `LocatedKeyIsFound`: one reader's `Load` zeroes the filter while the other tests it, and a stored key is reported missing. |

Five more properties are violated by the code but have no run of their own, because another run already shows the same defect or its effect:

- `ViewMatchesStore`, under the constants of `MCLSM_iofail.cfg`: a failed flush drops acknowledged data from memory until a restart.
- `SstWriteOnce`, under the constants of `MCLSM_walidreuse.cfg`: after a restart the flusher truncates `0_0.sst`.
- `MemtableBounded`, under the constants of `MCLSM_iofail.cfg`: after both WAL opens fail, rotation never happens again.
- `NoOrphanWal`, under the constants of `MCLSM_restart.cfg` (`StartupRace = TRUE`). The worker pops WAL 0's memtable between `loadWal`'s read of the slice and its write back. The write drops WAL 1's memtable, so WAL 1 is owned by nothing and its writes are missing from memory until the next restart.
- `ReadDataStaysInBlock`, under the constants of `MCSSTable_getindexorder.cfg`: `readData` reads past its block.

`GetReturnsStored` is violated with `Keys <- MCKeysEmpty` (`<<>>` and `<<1>>`, on which the two orders agree) in `MCSSTable_getindexorder.cfg`: the block holding the empty key is indexed from `<<1>>`, so `Get(<<>>)` misses it (`block.go:35`).


`RecoveryPreservesStore` (run deletereplay) says that the disk alone recovers every acknowledged write. To tell its causes apart, leave `Delete` out of `Next` and check it under other constants:
- under `MCLSM_iofail.cfg`, TLC finds it violated by a write acknowledged while the WAL is the temp-dir fallback, or while there is no WAL at all (`lsm.go:160`, `lsm.go:167`);
- under `MCLSM_walidreuse.cfg` with `StartupRace = FALSE`, TLC finds it violated by the first flush after a restart, which recreates `0_0.sst` over the older run (`load.go:73`).
Each property of a passing run is paired with a mutant in `PROJECT.json`. Each mutant is a plausible bug in the mapped code, for example popping the newest memtable, not advancing `walId`, deleting the WAL at pop, or inverting the recursion test, and TLC finds the property violated under that run's cfg.

## 4. Findings

The violation runs are findings; `PROJECT.json` gives each one's source line.

- Reads are not linearizable across a flush.
- Replaying a Delete record diverges from the live engine.
- Neither `levelId` nor `walId` survives a restart. This lets a run file be overwritten and the current WAL be deleted.
- A failed flush loses data from memory.
- `ReadAll` stops at a torn record and does not truncate the file, as spec section 3 requires. The file stays the current WAL, opened `O_APPEND`, so later writes land after the torn bytes. The next replay misparses them, and acknowledged writes are lost.
- Losing the WAL once stops rotation for good.
- `Close` does not wait for a flush in progress. That flush installs nodes that are never closed. Its `Wal.Delete` fails on the closed handle, and the WAL is left on disk for `loadWal` to replay, where it shadows newer runs.
- `getIndex` searches the length-first layout with the lexicographic order. A stored key can then be unfindable, and `LSM.Get` treats the error as a miss and answers from an older run.
- An empty first key leaves a block's `minKey` unset.
- `readData` advances its offset without the 8 header bytes.
- `loadWal` appends to `immutableMemTables` without the lock while the already started flush worker pops from it (`load.go:54`). The data race can lose a frozen memtable.
- Concurrent `Get`s on one reader race on its bloom filter and report false negatives.

## 5. Not modelled

- **WAL corruption inside `LSM`**: `MCCodec` changes one byte of a WAL file, but in `LSM` a WAL record stays an abstract value, and `LSM` does not compose with `WalCodec`. More than one changed byte is not modelled. `AutoSync`'s `Sync` after a write is not modelled, because it is off by default.
- **`record.go`'s `DecodeStream`**: nothing calls it. It reads the header into a 9-byte buffer and slices key and value out of that buffer, so it panics on any record with a non-empty key.
- **Two engines in one process**: `compactionInProgress` is a package variable that every `NewLSM` resets to false. If a second engine opened while the first flushes, the first engine's worker could start a second concurrent flush. `LSM` has one engine and one flusher, so this is not modelled.
- **Run file corruption**: `RunCodec` opens only files the writer produced. `SSTReader.Get` ignores `Load`'s error (`sst_reader.go:198`) and would use a half-loaded filter, but only a corrupted file gives a short blob. `RunCodec` and `SSTable` are not composed: `SSTable`'s reader still gets the writer's structures.
- **`loadSST` against the flusher**: in `Restart`, `loadSST` is one step. The worker can only flush after `loadWal` has appended something, which happens after `loadSST` returns.
- **Run files inside `LSM`**: `LSM` treats a run file as the memtable written into it. The reader's lookup is checked in `SSTable`, and `LSM` does not compose with it.

These are left out for good:

- the skiplist memtable, which is commented out;
- path formatting;
- configuration defaults;
- `FalsePositiveRate`, `NewBloomFilterWithParams` and `readDataCallback`, which nothing calls;
- the test helpers.
