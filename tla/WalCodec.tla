------------------------------- MODULE WalCodec -------------------------------
(***************************************************************************)
(* The byte framing of a WAL file (src/wal/record.go, src/wal/wal.go).     *)
(*                                                                         *)
(* A record is encoded as type(1) | keyLen(4) | valueLen(4) | key | value  *)
(* | crc32(4), big-endian.  Wal.Write appends the encoding to the file     *)
(* opened with O_APPEND; a write the OS cuts short, or a crash during it,  *)
(* leaves a prefix of the encoding behind.  ReadAll walks the whole file   *)
(* and parses records until the bytes left cannot hold a header or the    *)
(* declared record, or a declared length is implausible.  A CRC mismatch   *)
(* is only warned about, so the CRC never changes what is parsed and       *)
(* crc32 is the constant Crc, giving the 4 bytes stored for a body.        *)
(*                                                                         *)
(* Bytes are integers 0..255; a file is a sequence of bytes.               *)
(***************************************************************************)
EXTENDS Integers, Sequences, BigEndian

CONSTANT Crc(_)   \* crc32.ChecksumIEEE, as its 4 big-endian bytes

\* RecordType.
RecordTypePut == 0
RecordTypeDelete == 1

\* Record.Encode.
Encode(r) ==
    LET body == <<r.type>> \o U32Bytes(Len(r.key)) \o U32Bytes(Len(r.val)) \o r.key \o r.val
    IN  body \o Crc(body)

\* Wal.Write of record r that got n bytes of its encoding into the file:
\* all of them on success, fewer when fp.Write fails part way or the
\* process dies during it.  Only a complete write returns nil, advances
\* w.offset and lets LSM.Put go on to the memtable.
AppendWrite(file, r, n) == file \o SubSeq(Encode(r), 1, n)

Complete(w) == w.n = Len(Encode(w.rec))

\* The file a sequence of Wal.Write calls leaves, and the records whose
\* write returned nil.
FileOf(ws) == LET F[i \in 0..Len(ws)] ==
                    IF i = 0 THEN <<>> ELSE AppendWrite(F[i - 1], ws[i].rec, ws[i].n)
              IN  F[Len(ws)]
Acked(ws) == LET A[i \in 0..Len(ws)] ==
                   IF i = 0 THEN <<>>
                   ELSE IF Complete(ws[i]) THEN Append(A[i - 1], ws[i].rec) ELSE A[i - 1]
             IN  A[Len(ws)]

MaxKeyLength == 10 * 1024 * 1024
MaxValueLength == 100 * 1024 * 1024

\* Bug variant of ParseFrom: the record length leaves out the 4 CRC bytes.
RECURSIVE ParseFromNoCrc(_, _)
ParseFromNoCrc(buf, off) ==
    IF off >= Len(buf) \/ off + 9 > Len(buf)
    THEN [recs |-> <<>>, off |-> off]
    ELSE LET kl == BigEndianU32(buf, off + 2)
             vl == BigEndianU32(buf, off + 6)
             rl == 9 + kl + vl
         IN  IF kl > MaxKeyLength \/ vl > MaxValueLength \/ off + rl > Len(buf)
             THEN [recs |-> <<>>, off |-> off]
             ELSE LET r    == [type |-> buf[off + 1],
                               key  |-> SubSeq(buf, off + 10, off + 9 + kl),
                               val  |-> SubSeq(buf, off + 10 + kl, off + 9 + kl + vl)]
                      rest == ParseFromNoCrc(buf, off + rl)
                  IN  [recs |-> <<r>> \o rest.recs, off |-> rest.off]

\* The loop of Wal.ReadAll from byte offset off (0-based): the records it
\* hands to the memtable, in order, and the offset it stops at, which
\* becomes w.offset.  buf[off + 1] is buffer[offset].
RECURSIVE ParseFrom(_, _)
ParseFrom(buf, off) ==
    IF off >= Len(buf) \/ off + 9 > Len(buf)
    THEN [recs |-> <<>>, off |-> off]
    ELSE LET kl == BigEndianU32(buf, off + 2)
             vl == BigEndianU32(buf, off + 6)
             rl == 9 + kl + vl + 4
         IN  IF kl > MaxKeyLength \/ vl > MaxValueLength \/ off + rl > Len(buf)
             THEN [recs |-> <<>>, off |-> off]
             ELSE LET r    == [type |-> buf[off + 1],
                               key  |-> SubSeq(buf, off + 10, off + 9 + kl),
                               val  |-> SubSeq(buf, off + 10 + kl, off + 9 + kl + vl)]
                      rest == ParseFrom(buf, off + rl)
                  IN  [recs |-> <<r>> \o rest.recs, off |-> rest.off]

\* Wal.ReadAll on a whole file.
ReadAll(file) == ParseFrom(file, 0)

\* Bug variant of DecodeRecord: the CRC is computed over key and value only.
DecodeRecordCrcKeyValue(data) ==
    IF Len(data) < 9 THEN [err |-> TRUE]
    ELSE LET kl == BigEndianU32(data, 2)
             vl == BigEndianU32(data, 6)
         IN  IF kl > MaxKeyLength \/ vl > MaxValueLength \/ Len(data) < 9 + kl + vl + 4
             THEN [err |-> TRUE]
             ELSE IF SubSeq(data, 10 + kl + vl, 13 + kl + vl) # Crc(SubSeq(data, 10, 9 + kl + vl))
             THEN [err |-> TRUE]
             ELSE [err |-> FALSE, rec |-> [type |-> data[1], key |-> SubSeq(data, 10, 9 + kl),
                                           val |-> SubSeq(data, 10 + kl, 9 + kl + vl)]]

\* DecodeRecord: the record at the start of data, or an error when the
\* header is short, a length implausible, the record incomplete or the
\* stored CRC not the crc32 of type, lengths, key and value.
DecodeRecord(data) ==
    IF Len(data) < 9 THEN [err |-> TRUE]
    ELSE LET kl == BigEndianU32(data, 2)
             vl == BigEndianU32(data, 6)
         IN  IF kl > MaxKeyLength \/ vl > MaxValueLength \/ Len(data) < 9 + kl + vl + 4
             THEN [err |-> TRUE]
             ELSE IF SubSeq(data, 10 + kl + vl, 13 + kl + vl) # Crc(SubSeq(data, 1, 9 + kl + vl))
             THEN [err |-> TRUE]
             ELSE [err |-> FALSE, rec |-> [type |-> data[1], key |-> SubSeq(data, 10, 9 + kl),
                                           val |-> SubSeq(data, 10 + kl, 9 + kl + vl)]]

=============================================================================
