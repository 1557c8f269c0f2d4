-------------------------------- MODULE LSM --------------------------------
(***************************************************************************)
(* The LSM engine of src/lsm.go, src/compact.go and src/load.go: the write *)
(* path with memtable rotation (Put, switchMemtable), the background flush *)
(* of frozen memtables to level-0 sorted runs (compactMemTables), the read *)
(* path (Get), and a crash followed by NewLSM on the same directory        *)
(* (loadSST, loadWal).                                                     *)
(*                                                                         *)
(* Data is abstracted to what the properties tell apart: keys and values   *)
(* are model values, a memtable is a function Keys -> value, a WAL file is *)
(* the sequence of its records, a sorted-run file is the memtable it was   *)
(* written from (the reader's lookup is modelled in its own module).  WAL  *)
(* size in bytes is abstracted to a record count.                          *)
(***************************************************************************)
EXTENDS Integers, Sequences, SequencesExt, Functions, TLC

CONSTANTS
    Keys,       \* keys a client may write
    Vals,       \* non-empty values a client may write
    Nil,        \* the nil value passed by Delete (Put(key, nil))
    Empty,      \* the empty []byte a memtable stores for a nil value
    Absent,     \* no entry for the key
    TempWal,    \* a WAL created in os.TempDir() by the fallback path
    NoWal,      \* currWal == nil
    NoEntry,    \* no frozen memtable held by the flusher
    Cap,        \* getUpperMemtableSize(), counted in WAL records
    MaxPuts,    \* bound: client Put/Delete calls
    MaxCrashes, \* bound: crash-and-restart cycles
    MaxCloses,  \* bound: Close calls
    IOFail,     \* whether file creation and SST writing may fail
    StartupRace \* whether loadWal's unlocked append may overlap the flusher's pop

ASSUME /\ Cap \in Nat /\ MaxPuts \in Nat /\ MaxCrashes \in Nat /\ MaxCloses \in Nat
       /\ IOFail \in BOOLEAN /\ StartupRace \in BOOLEAN

VARIABLES
    mutableMemtable,     \* l.mutableMemtable
    immutableMemtables,  \* l.immutableMemtables, oldest first
    currWal,             \* l.currWal: a WAL id, TempWal or NoWal
    walSize,             \* l.currWal.Size(): records appended since open
    walId,               \* l.walId
    levelId0,            \* l.levelId[0], next level-0 sequence number
    nodes0,              \* l.nodes[0]: open readers, oldest first
    walDir,              \* files of <data>/wal: id -> records
    sstDir,              \* files of <data>/sst: level-0 seq -> contents
    flushPc,             \* where the flusher is in compactMemTables
    inflight,            \* the frozen memtable popped by the flusher
    fseq,                \* the seq the flusher allocated
    running,             \* l.isRunning
    closePc,             \* "open", "closing" (l.closed set, sleeping), "closed"
    walClosed,           \* WALs whose file handle Close has closed
    loading,             \* loadWal: WAL ids still to replay, in id order
    snap,                \* loadWal: the slice header its append read
    \* observability variables
    store,               \* what the acknowledged writes say each key holds
    memPuts,             \* Put calls absorbed by the mutable memtable
    puts, crashes, closes

vars == <<mutableMemtable, immutableMemtables, currWal, walSize, walId,
          levelId0, nodes0, walDir, sstDir, flushPc, inflight, fseq,
          running, closePc, walClosed, loading, snap,
          store, memPuts, puts, crashes, closes>>
LoadVars == <<loading, snap>>

-----------------------------------------------------------------------------
MemVal   == Vals \cup {Empty, Absent}
Memtable == [Keys -> MemVal]
EmptyMem == [k \in Keys |-> Absent]
Record   == [type : {"put", "del"}, key : Keys, val : Vals \cup {Nil}]
WalRef   == Nat \cup {TempWal}
Frozen   == [memtable : Memtable, wal : WalRef]
Node     == [seq : Nat, file : Memtable]
FlushPcs == {"idle", "pop", "popped", "written", "installed"}
ClosePcs == {"open", "closing", "closed"}

\* The outcomes of wal.NewWal for a new WAL path, then for the temp path.
WalOpenOutcomes == IF IOFail THEN {"ok", "temp", "none"} ELSE {"ok"}

\* Bug variant: the memtable keeps the caller's slice, so nil stays nil.
StoredRaw(v) == v

\* BTreeMemTable.Put copies the value: a nil value becomes an empty slice.
Stored(v) == IF v = Nil THEN Empty ELSE v

\* NewRecord: a nil value is a Delete record, any other value a Put record.
NewRecord(k, v) == [type |-> IF v = Nil THEN "del" ELSE "put", key |-> k, val |-> v]

\* Wal.ReadAll: a Delete record removes the key, a Put record stores it.
ReplayWal(recs) ==
    FoldLeft(LAMBDA m, r : [m EXCEPT ![r.key] = IF r.type = "del" THEN Absent
                                                               ELSE r.val],
             EmptyMem, recs)

\* os.Remove of a file that may already be gone.
RemoveFile(dir, f) == Restrict(dir, DOMAIN dir \ {f})

\* Wal.Delete: Sync, Close, then remove the file; Sync on a handle that
\* LSM.Close has closed fails and the file stays.
WalDelete(dir, w) == IF w \in walClosed THEN dir ELSE RemoveFile(dir, w)

\* Lookup through a stack of tables, newest last: the newest table holding
\* the key answers (Get's probe order).
NewestHit(layers, k) ==
    LET hits == {i \in DOMAIN layers : layers[i][k] # Absent}
    IN  IF hits = {} THEN Absent ELSE layers[Max(hits)][k]

NodeFiles(ns) == [i \in DOMAIN ns |-> ns[i].file]
FrozenTables(q) == [i \in DOMAIN q |-> q[i].memtable]

\* The frozen memtable the flusher holds and has not yet installed.
InFlight ==
    IF flushPc \in {"popped", "written"} THEN <<inflight.memtable>> ELSE <<>>

\* The key/value map the engine holds: for each key the newest of the
\* level-0 runs, the memtable the flusher holds, the frozen memtables and
\* the mutable memtable (the order in which writes reached them).
View == [k \in Keys |->
            NewestHit(NodeFiles(nodes0) \o InFlight
                        \o FrozenTables(immutableMemtables) \o <<mutableMemtable>>, k)]

KV == INSTANCE KVStore WITH Values <- Vals \cup {Empty}, kv <- View

\* LSM.Get: mutable memtable, frozen memtables newest first, then level-0
\* readers newest first (no other level is ever populated).
EngineGet(k) ==
    NewestHit(NodeFiles(nodes0) \o FrozenTables(immutableMemtables)
                  \o <<mutableMemtable>>, k)

-----------------------------------------------------------------------------
Init ==
    /\ mutableMemtable = EmptyMem
    /\ immutableMemtables = <<>>
    /\ currWal = 0
    /\ walSize = 0
    /\ walId = 0
    /\ levelId0 = 0
    /\ nodes0 = <<>>
    /\ walDir = (0 :> <<>>)
    /\ sstDir = [s \in {} |-> EmptyMem]
    /\ flushPc = "idle"
    /\ inflight = NoEntry
    /\ fseq = 0
    /\ running = TRUE
    /\ closePc = "open"
    /\ walClosed = {}
    /\ loading = <<>>
    /\ snap = NoEntry
    /\ store = [k \in Keys |-> Absent]
    /\ memPuts = 0
    /\ puts = 0
    /\ crashes = 0
    /\ closes = 0

\* Bug variant of Rotate: walId is not advanced, so the new WAL reopens the
\* file of the memtable just frozen.
RotateKeepWalId(mem, dir) ==
    /\ immutableMemtables' = Append(immutableMemtables,
                                    [memtable |-> mem, wal |-> currWal])
    /\ mutableMemtable' = EmptyMem
    /\ memPuts' = 0
    /\ walId' = walId
    /\ walSize' = 0
    /\ currWal' = walId
    /\ walDir' = IF walId \in DOMAIN dir THEN dir ELSE dir @@ (walId :> <<>>)
    /\ walClosed' = walClosed \ {walId}

\* switchMemtable: freeze (mem, currWal), start an empty memtable and open
\* WAL walId+1 (O_CREATE|O_APPEND: an existing file is reused); on failure
\* fall back to a temp-directory WAL, and failing that run without a WAL.
Rotate(mem, dir) ==
    /\ immutableMemtables' = Append(immutableMemtables,
                                    [memtable |-> mem, wal |-> currWal])
    /\ mutableMemtable' = EmptyMem
    /\ memPuts' = 0
    /\ walId' = walId + 1
    /\ walSize' = 0
    /\ \E o \in WalOpenOutcomes :
         \/ /\ o = "ok"
            /\ currWal' = walId + 1
            /\ walDir' = IF walId + 1 \in DOMAIN dir THEN dir
                         ELSE dir @@ (walId + 1 :> <<>>)
            /\ walClosed' = walClosed \ {walId + 1}
         \/ /\ o = "temp"
            /\ currWal' = TempWal
            /\ walDir' = dir
            /\ walClosed' = walClosed \ {TempWal}
         \/ /\ o = "none"
            /\ currWal' = NoWal
            /\ walDir' = dir
            /\ UNCHANGED walClosed

\* Wal.Write appends the encoded record to the open file; a WAL whose file
\* was removed, a temp-directory WAL and no WAL at all leave the WAL
\* directory as it is.
WalWrite(dir, w, rec) ==
    IF w \in DOMAIN dir THEN [dir EXCEPT ![w] = Append(@, rec)] ELSE dir

\* LSM.Put under the write lock: append to the current WAL if there is one
\* (a write to a WAL whose file is gone reaches no file of the WAL dir),
\* insert into the memtable, rotate when the WAL has grown past Cap.
Put(k, v) ==
    LET mem1 == [mutableMemtable EXCEPT ![k] = Stored(v)]
        dir1 == WalWrite(walDir, currWal, NewRecord(k, v))
    IN
    /\ loading = <<>>
    /\ puts < MaxPuts
    /\ currWal \notin walClosed
    /\ puts' = puts + 1
    /\ store' = [store EXCEPT ![k] = IF v = Nil THEN Empty ELSE v]
    /\ IF currWal # NoWal /\ walSize + 1 > Cap
       THEN Rotate(mem1, dir1)
       ELSE /\ mutableMemtable' = mem1
            /\ memPuts' = memPuts + 1
            /\ walDir' = dir1
            /\ walSize' = IF currWal = NoWal THEN walSize ELSE walSize + 1
            /\ UNCHANGED <<immutableMemtables, currWal, walId, walClosed>>
    /\ UNCHANGED <<levelId0, nodes0, sstDir, flushPc, inflight, fseq, crashes>>
    /\ UNCHANGED <<running, closePc, closes>>
    /\ UNCHANGED LoadVars

\* LSM.Delete is Put(key, nil).
Delete(k) == Put(k, Nil)

ClientVars == <<store, memPuts, puts, crashes>>
CloseVars == <<running, closePc, walClosed, closes>>

-----------------------------------------------------------------------------
(* The background flush.  compactionWorker and its helper goroutine enter  *)
(* compactMemTables on a signal, a 1 s tick or a 500 ms poll, guarded by   *)
(* the compactionInProgress CAS; flushPc # "idle" is that flag held.       *)

\* A wake-up of the worker or its helper: isRunning is still set, frozen
\* memtables are queued and the CAS on compactionInProgress succeeds.
WorkerWake ==
    /\ flushPc = "idle"
    /\ running
    /\ immutableMemtables # <<>>
    /\ flushPc' = "pop"
    /\ UNCHANGED <<mutableMemtable, immutableMemtables, currWal, walSize, walId,
                   levelId0, nodes0, walDir, sstDir, inflight, fseq>>
    /\ UNCHANGED ClientVars
    /\ UNCHANGED CloseVars
    /\ UNCHANGED LoadVars

\* Bug variant of FlushPop: the newest frozen memtable is taken.
FlushPopNewest ==
    /\ flushPc = "pop"
    /\ immutableMemtables # <<>>
    /\ inflight' = Last(immutableMemtables)
    /\ immutableMemtables' = Front(immutableMemtables)
    /\ flushPc' = "popped"
    /\ UNCHANGED <<mutableMemtable, currWal, walSize, walId, levelId0, nodes0,
                   walDir, sstDir, fseq>>
    /\ UNCHANGED ClientVars
    /\ UNCHANGED CloseVars
    /\ UNCHANGED LoadVars

\* Bug variant of FlushPop: the WAL is deleted as soon as its memtable is
\* taken off the queue.
FlushPopDeletingWal ==
    /\ flushPc = "pop"
    /\ immutableMemtables # <<>>
    /\ inflight' = Head(immutableMemtables)
    /\ immutableMemtables' = Tail(immutableMemtables)
    /\ flushPc' = "popped"
    /\ walDir' = WalDelete(walDir, Head(immutableMemtables).wal)
    /\ UNCHANGED <<mutableMemtable, currWal, walSize, walId, levelId0, nodes0,
                   sstDir, fseq>>
    /\ UNCHANGED ClientVars
    /\ UNCHANGED CloseVars
    /\ UNCHANGED LoadVars

\* compactMemTables: under the write lock, pop the oldest frozen memtable.
FlushPop ==
    /\ flushPc = "pop"
    /\ immutableMemtables # <<>>
    /\ inflight' = Head(immutableMemtables)
    /\ immutableMemtables' = Tail(immutableMemtables)
    /\ flushPc' = "popped"
    /\ UNCHANGED <<mutableMemtable, currWal, walSize, walId, levelId0, nodes0,
                   walDir, sstDir, fseq>>
    /\ UNCHANGED ClientVars
    /\ UNCHANGED CloseVars
    /\ UNCHANGED LoadVars

\* An empty memtable writes no run: delete its WAL and return.
FlushSkipEmpty ==
    /\ flushPc = "popped"
    /\ inflight.memtable = EmptyMem
    /\ walDir' = WalDelete(walDir, inflight.wal)
    /\ flushPc' = "idle"
    /\ inflight' = NoEntry
    /\ UNCHANGED <<mutableMemtable, immutableMemtables, currWal, walSize, walId,
                   levelId0, nodes0, sstDir, fseq>>
    /\ UNCHANGED ClientVars
    /\ UNCHANGED CloseVars
    /\ UNCHANGED LoadVars

\* Allocate seq = levelId[0]++ and write 0_<seq>.sst (os.Create truncates a
\* file of that name in place, so open readers of it see the new bytes),
\* then open a reader on it.
FlushWrite ==
    /\ flushPc = "popped"
    /\ inflight.memtable # EmptyMem
    /\ levelId0' = levelId0 + 1
    /\ fseq' = levelId0
    /\ sstDir' = (levelId0 :> inflight.memtable) @@ sstDir
    /\ nodes0' = [i \in DOMAIN nodes0 |->
                    IF nodes0[i].seq = levelId0
                    THEN [nodes0[i] EXCEPT !.file = inflight.memtable]
                    ELSE nodes0[i]]
    /\ flushPc' = "written"
    /\ UNCHANGED <<mutableMemtable, immutableMemtables, currWal, walSize, walId,
                   walDir, inflight>>
    /\ UNCHANGED ClientVars
    /\ UNCHANGED CloseVars
    /\ UNCHANGED LoadVars

\* Any error of MkdirAll, NewSSTWriter, Write, Close or NewNode: the seq is
\* spent, the file is removed if it was created, the popped memtable is
\* dropped and its WAL is neither deleted nor closed.
FlushFail ==
    /\ IOFail
    /\ flushPc = "popped"
    /\ inflight.memtable # EmptyMem
    /\ levelId0' = levelId0 + 1
    /\ \E removed \in BOOLEAN :
         sstDir' = IF removed THEN RemoveFile(sstDir, levelId0) ELSE sstDir
    /\ flushPc' = "idle"
    /\ inflight' = NoEntry
    /\ UNCHANGED <<mutableMemtable, immutableMemtables, currWal, walSize, walId,
                   nodes0, walDir, fseq>>
    /\ UNCHANGED ClientVars
    /\ UNCHANGED CloseVars
    /\ UNCHANGED LoadVars

\* Under the write lock, append the new node to level 0.
FlushInstall ==
    /\ flushPc = "written"
    /\ nodes0' = Append(nodes0, [seq |-> fseq, file |-> sstDir[fseq]])
    /\ flushPc' = "installed"
    /\ UNCHANGED <<mutableMemtable, immutableMemtables, currWal, walSize, walId,
                   levelId0, walDir, sstDir, inflight, fseq>>
    /\ UNCHANGED ClientVars
    /\ UNCHANGED CloseVars
    /\ UNCHANGED LoadVars

\* Bug variant of FlushDeleteWal: the recursion test is inverted, so the
\* flag is kept exactly when nothing is left to flush.
FlushDeleteWalInverted ==
    /\ flushPc = "installed"
    /\ walDir' = WalDelete(walDir, inflight.wal)
    /\ flushPc' = IF immutableMemtables = <<>> THEN "pop" ELSE "idle"
    /\ inflight' = NoEntry
    /\ UNCHANGED <<mutableMemtable, immutableMemtables, currWal, walSize, walId,
                   levelId0, nodes0, sstDir, fseq>>
    /\ UNCHANGED ClientVars
    /\ UNCHANGED CloseVars
    /\ UNCHANGED LoadVars

\* Delete the flushed memtable's WAL, then recurse while frozen memtables
\* remain (keeping the flag) or return and clear it.  The level-0 overflow
\* signal sent here reaches compactSSTables, which changes nothing.
FlushDeleteWal ==
    /\ flushPc = "installed"
    /\ walDir' = WalDelete(walDir, inflight.wal)
    /\ flushPc' = IF immutableMemtables # <<>> THEN "pop" ELSE "idle"
    /\ inflight' = NoEntry
    /\ UNCHANGED <<mutableMemtable, immutableMemtables, currWal, walSize, walId,
                   levelId0, nodes0, sstDir, fseq>>
    /\ UNCHANGED ClientVars
    /\ UNCHANGED CloseVars
    /\ UNCHANGED LoadVars

-----------------------------------------------------------------------------
(* A crash loses every in-memory structure; NewLSM on the same directory   *)
(* starts the flush worker, then runs loadSST and loadWal in the caller's  *)
(* goroutine without the lock, so the worker may flush a frozen memtable   *)
(* loadWal appended while loadWal goes on.  NewLSM returns, and Put and    *)
(* Close are possible, only once loadWal is done.                          *)

\* loadSST: every file, sorted by (level, seq), opened as a node.  The
\* levelId counters are left at 0.
LoadedNodes ==
    LET seqs == SetToSortSeq(DOMAIN sstDir, <)
    IN  [i \in DOMAIN seqs |-> [seq |-> seqs[i], file |-> sstDir[seqs[i]]]]

\* Crash, then NewLSM up to loadWal's listing: fresh in-memory state with
\* isRunning set and l.walId at 0, loadSST, and the WAL ids sorted.  An
\* empty WAL directory gets WAL 0 as the current WAL at once.
Restart ==
    LET ids == SetToSortSeq(DOMAIN walDir, <)
    IN
    /\ crashes < MaxCrashes
    /\ crashes' = crashes + 1
    /\ nodes0' = LoadedNodes
    /\ levelId0' = 0
    /\ walId' = 0
    /\ mutableMemtable' = EmptyMem
    /\ memPuts' = 0
    /\ immutableMemtables' = <<>>
    /\ walSize' = 0
    /\ IF ids = <<>>
       THEN /\ walDir' = (0 :> <<>>)
            /\ currWal' = 0
       ELSE /\ walDir' = walDir
            /\ currWal' = NoWal
    /\ loading' = ids
    /\ snap' = NoEntry
    /\ flushPc' = "idle"
    /\ inflight' = NoEntry
    /\ fseq' = 0
    /\ running' = TRUE
    /\ closePc' = "open"
    /\ walClosed' = {}
    /\ UNCHANGED <<sstDir, store, puts, closes>>

\* loadWal, a WAL other than the last: NewWal and ReadAll into a new
\* memtable, then append(l.immutableMemtables, ...) reads the slice.
LoadWalRead ==
    /\ Len(loading) > 1
    /\ snap = NoEntry
    /\ snap' = immutableMemtables
    /\ UNCHANGED <<mutableMemtable, immutableMemtables, currWal, walSize, walId,
                   levelId0, nodes0, walDir, sstDir, flushPc, inflight, fseq>>
    /\ UNCHANGED <<loading, store, memPuts, puts, crashes>>
    /\ UNCHANGED CloseVars

\* The outcomes of the unlocked append when the flusher's pop changed the
\* slice since it was read: with the race, either write may be lost (the
\* popped memtable comes back, or the appended one is dropped); without
\* it, the append lands after the pop.
AppendOutcomes(m) ==
    IF StartupRace /\ snap # immutableMemtables
    THEN {Append(snap, m), Append(immutableMemtables, m), immutableMemtables}
    ELSE {Append(immutableMemtables, m)}

\* ... and writes it back with the new frozen memtable; a goroutine then
\* signals the worker.
LoadWalAppend ==
    LET m == [memtable |-> ReplayWal(walDir[loading[1]]), wal |-> loading[1]]
    IN
    /\ snap # NoEntry
    /\ immutableMemtables' \in AppendOutcomes(m)
    /\ loading' = Tail(loading)
    /\ snap' = NoEntry
    /\ UNCHANGED <<mutableMemtable, currWal, walSize, walId, levelId0, nodes0,
                   walDir, sstDir, flushPc, inflight, fseq>>
    /\ UNCHANGED <<store, memPuts, puts, crashes>>
    /\ UNCHANGED CloseVars

\* loadWal, the last WAL: it becomes l.currWal and its memtable the
\* mutable one; NewLSM returns.
LoadWalLast ==
    /\ Len(loading) = 1
    /\ currWal' = loading[1]
    /\ walSize' = Len(walDir[loading[1]])
    /\ mutableMemtable' = ReplayWal(walDir[loading[1]])
    /\ memPuts' = Len(walDir[loading[1]])
    /\ loading' = <<>>
    /\ UNCHANGED <<immutableMemtables, walId, levelId0, nodes0, walDir, sstDir,
                   flushPc, inflight, fseq, snap>>
    /\ UNCHANGED <<store, puts, crashes>>
    /\ UNCHANGED CloseVars

-----------------------------------------------------------------------------
(* LSM.Close.  The CAS on closed and the store of isRunning happen first;  *)
(* after a 100 ms sleep, under the write lock, the current WAL, the WAL of *)
(* every frozen memtable and every node are closed.  Nothing waits for a   *)
(* flush in progress, and compactMemTables' recursion never reads          *)
(* isRunning.  A second Close fails the CAS and changes nothing.           *)

CloseBegin ==
    /\ closePc = "open"
    /\ loading = <<>>
    /\ closes < MaxCloses
    /\ closes' = closes + 1
    /\ closePc' = "closing"
    /\ running' = FALSE
    /\ UNCHANGED <<mutableMemtable, immutableMemtables, currWal, walSize, walId,
                   levelId0, nodes0, walDir, sstDir, flushPc, inflight, fseq>>
    /\ UNCHANGED <<store, memPuts, puts, crashes, walClosed>>
    /\ UNCHANGED LoadVars

\* The sleep ends and the handles are closed.  A closed WAL handle fails
\* every later Write and Sync, so Wal.Delete on it leaves the file.
CloseFinish ==
    /\ closePc = "closing"
    /\ closePc' = "closed"
    /\ walClosed' = walClosed \cup ({currWal} \ {NoWal})
                      \cup {immutableMemtables[i].wal : i \in DOMAIN immutableMemtables}
    /\ UNCHANGED <<mutableMemtable, immutableMemtables, currWal, walSize, walId,
                   levelId0, nodes0, walDir, sstDir, flushPc, inflight, fseq>>
    /\ UNCHANGED <<store, memPuts, puts, crashes, running, closes>>
    /\ UNCHANGED LoadVars

-----------------------------------------------------------------------------
Next ==
    \/ \E k \in Keys, v \in Vals : Put(k, v)
    \/ \E k \in Keys : Delete(k)
    \/ WorkerWake
    \/ FlushPop
    \/ FlushSkipEmpty
    \/ FlushWrite
    \/ FlushFail
    \/ FlushInstall
    \/ FlushDeleteWal
    \/ Restart
    \/ LoadWalRead
    \/ LoadWalAppend
    \/ LoadWalLast
    \/ CloseBegin
    \/ CloseFinish

\* The worker goroutine wakes at least every second and its helper every
\* 500 ms, so every enabled flush step is eventually taken while isRunning
\* holds; Close's 100 ms sleep always ends and NewLSM runs loadWal to its
\* end.
Fairness ==
    /\ WF_vars(LoadWalRead \/ LoadWalAppend \/ LoadWalLast)
    /\ WF_vars(WorkerWake)
    /\ WF_vars(CloseFinish)
    /\ WF_vars(FlushPop)
    /\ WF_vars(FlushSkipEmpty \/ FlushWrite \/ FlushFail)
    /\ WF_vars(FlushInstall)
    /\ WF_vars(FlushDeleteWal)

Spec == Init /\ [][Next]_vars /\ Fairness

-----------------------------------------------------------------------------
TypeOK ==
    /\ mutableMemtable \in Memtable
    /\ immutableMemtables \in Seq(Frozen)
    /\ currWal \in WalRef \cup {NoWal}
    /\ walSize \in Nat /\ walId \in Nat /\ levelId0 \in Nat
    /\ nodes0 \in Seq(Node)
    /\ DOMAIN walDir \subseteq Nat /\ \A w \in DOMAIN walDir : walDir[w] \in Seq(Record)
    /\ DOMAIN sstDir \subseteq Nat /\ \A s \in DOMAIN sstDir : sstDir[s] \in Memtable
    /\ flushPc \in FlushPcs
    /\ inflight \in Frozen \cup {NoEntry}
    /\ store \in [Keys -> MemVal]
    /\ running \in BOOLEAN /\ closePc \in ClosePcs
    /\ walClosed \subseteq WalRef /\ closes \in Nat
    /\ loading \in Seq(Nat) /\ snap \in Seq(Frozen) \cup {NoEntry}

\* What the records of a WAL say each key holds (a Delete record is the
\* empty value that LSM.Put stores for it).
LoggedView(recs) ==
    FoldLeft(LAMBDA m, r : [m EXCEPT ![r.key] = Stored(r.val)], EmptyMem, recs)

\* Every acknowledged write is still held in memory, in recency order, by
\* the level-0 runs, the memtable the flusher holds, the frozen memtables
\* and the mutable memtable (Put, switchMemtable and compactMemTables).
ViewMatchesStore == View = store

\* The engine implements KVStore under the mapping View: every Put or
\* Delete changes exactly its key to the stored value, and no rotation or
\* flush step changes what the engine holds.
RefinesKVStore == KV!Spec

\* LSM.Get returns, for every key, what the last acknowledged Put or Delete
\* wrote (spec P1, P3), at every instant a reader can take the read lock.
GetMatchesStore == \A k \in Keys : EngineGet(k) = store[k]

\* Each memtable holds exactly what its WAL file records: the current WAL
\* for the mutable memtable, and its own WAL for each frozen one (WAL
\* append before memtable insert, one WAL per memtable across rotations).
EveryMemtableMatchesItsWal ==
    /\ currWal \in DOMAIN walDir => LoggedView(walDir[currWal]) = mutableMemtable
    /\ \A i \in DOMAIN immutableMemtables :
         immutableMemtables[i].wal \in DOMAIN walDir =>
             LoggedView(walDir[immutableMemtables[i].wal])
                 = immutableMemtables[i].memtable

\* Every WAL file on disk belongs to the current memtable, a frozen one,
\* the one being flushed or is still to be replayed by loadWal: no WAL
\* file is leaked.
NoOrphanWal ==
    DOMAIN walDir \subseteq
        {currWal} \cup {immutableMemtables[i].wal : i \in DOMAIN immutableMemtables}
                  \cup {loading[i] : i \in DOMAIN loading}
                  \cup (IF inflight = NoEntry THEN {} ELSE {inflight.wal})

\* A WAL file is removed only when a level-0 run holding exactly what it
\* records is installed (spec section 5: never delete a WAL before the run
\* that subsumes its records is in the level-0 list).
WalDeletedOnlyAfterInstall ==
    [][\A w \in DOMAIN walDir \ DOMAIN walDir' :
          \E i \in DOMAIN nodes0' : nodes0'[i].file = LoggedView(walDir[w])]_vars

\* After a crash at this instant, NewLSM would return every key's last
\* acknowledged value (spec P1, P4, L3): the disk alone preserves the store.
RecoveredGet(k) ==
    LET ids == SetToSortSeq(DOMAIN walDir, <)
    IN  NewestHit(NodeFiles(LoadedNodes)
                    \o [i \in DOMAIN ids |-> ReplayWal(walDir[ids[i]])], k)

RecoveryPreservesStore == \A k \in Keys : RecoveredGet(k) = store[k]

\* A sorted-run file is write-once: an existing file is never rewritten.
SstWriteOnce ==
    [][\A s \in DOMAIN sstDir \cap DOMAIN sstDir' : sstDir'[s] = sstDir[s]]_sstDir

\* The current WAL, when it is a file of the WAL directory, is on disk: the
\* writes it acknowledges survive a crash.
CurrentWalOnDisk == currWal \in Nat => currWal \in DOMAIN walDir

\* The mutable memtable never absorbs more than Cap writes before rotation.
MemtableBounded == memPuts <= Cap

\* The flusher eventually goes idle for good, and every frozen memtable is
\* flushed unless isRunning was cleared by Close, after which no worker
\* wakes up and the queue is left for loadWal.
EventuallyFlushed ==
    <>[](flushPc = "idle" /\ (immutableMemtables = <<>> \/ ~running))

\* Once Close has closed the handles, no flush step installs a node or
\* writes a run file (spec: Close stops the background work).  A flush
\* already in progress is not waited for, so it keeps writing runs whose
\* nodes are never closed.
CloseWaitsForFlush ==
    [][(closePc = "closed" /\ closePc' = "closed") => UNCHANGED <<sstDir, nodes0>>]_vars

=============================================================================
