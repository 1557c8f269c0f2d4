------------------------------ MODULE ByteOrder ------------------------------
(***************************************************************************)
(* The two key orders of the engine.  A key is a sequence of byte values.  *)
(*                                                                         *)
(*   BytesCompare  -- Go's bytes.Compare, the lexicographic order that     *)
(*                    SSTReader.getIndex uses to test an index range;      *)
(*   CompareBytes  -- utils.CompareBytes, length first and then bytes,     *)
(*                    the order of the memtable (KVItem.Less), hence of    *)
(*                    the writer's blocks and of readData's match test.    *)
(***************************************************************************)
EXTENDS Integers, Sequences

\* bytes.Compare: the first differing byte decides; a proper prefix is
\* smaller.
RECURSIVE BytesCompare(_, _)
BytesCompare(a, b) ==
    IF a = <<>> \/ b = <<>>
    THEN (IF a = b THEN 0 ELSE IF a = <<>> THEN -1 ELSE 1)
    ELSE IF Head(a) # Head(b)
         THEN (IF Head(a) < Head(b) THEN -1 ELSE 1)
         ELSE BytesCompare(Tail(a), Tail(b))

\* utils.CompareBytes: a shorter key is smaller; keys of equal length are
\* compared by bytes.Compare.
CompareBytes(a, b) ==
    IF Len(a) # Len(b)
    THEN (IF Len(a) < Len(b) THEN -1 ELSE 1)
    ELSE BytesCompare(a, b)

\* KVItem.Less and utils.LessThan.
KeyLess(a, b) == CompareBytes(a, b) < 0

=============================================================================
