------------------------------ MODULE BigEndian ------------------------------
(***************************************************************************)
(* encoding/binary with binary.BigEndian, as the WAL and the run files use *)
(* it.  Bytes are integers 0..255 and a buffer is a sequence of bytes.     *)
(*                                                                         *)
(* TLC's integers stop below 2^31.  Every length and offset the engine     *)
(* writes into a model file is far below 2^24, so a field whose high bytes *)
(* are not zero can only come from bytes read at the wrong place; it is    *)
(* read as BeyondFile, a number larger than any model file, which makes a  *)
(* read of that many bytes, or a loop bounded by it, behave as the real    *)
(* value does: it runs to the end of the file.                             *)
(***************************************************************************)
EXTENDS Integers, Sequences

BeyondFile == 2^24

\* binary.Write of a uint32 / uint64 below 2^24.
U32Bytes(n) == <<(n \div 2^24) % 256, (n \div 2^16) % 256, (n \div 2^8) % 256, n % 256>>
U64Bytes(n) == <<0, 0, 0, 0>> \o U32Bytes(n)

\* binary.BigEndian.Uint32 of the 4 bytes at 1-based position i.
BigEndianU32(buf, i) ==
    IF buf[i] = 0 THEN (buf[i + 1] * 256 + buf[i + 2]) * 256 + buf[i + 3]
    ELSE BeyondFile

\* binary.BigEndian.Uint64 of the 8 bytes at position i.
BigEndianU64(buf, i) ==
    IF \A j \in 0..4 : buf[i + j] = 0 THEN BigEndianU32(buf, i + 4) ELSE BeyondFile

Zeros(n) == [j \in 1..n |-> 0]
=============================================================================
