------------------------------ MODULE MCSSTable ------------------------------
(* Model-checking instance of SSTable.  Bytes are small integers; a key is  *)
(* written as the sequence of its bytes.                                    *)
EXTENDS SSTable

CONSTANTS r1, r2

\* Keys of mixed length: CompareBytes orders them <<1>>, <<2>>, <<1, 1>>,
\* <<1, 2>>, bytes.Compare <<1>>, <<1, 1>>, <<1, 2>>, <<2>>.
MCKeysMixed == {<<1>>, <<2>>, <<1, 1>>, <<1, 2>>}

\* The empty key and one key of one byte, on which bytes.Compare and
\* utils.CompareBytes agree: a miss here is due to the empty key alone.
MCKeysEmpty == {<<>>, <<1>>}

\* The mixed keys and the empty key, which LSM.Put accepts.
MCKeysAll == MCKeysMixed \cup {<<>>}

\* Two keys of equal length, where the two orders agree.
MCKeysSame == {<<1>>, <<2>>}

\* A deleted key's empty value and a one-byte value.
MCVals == {<<>>, <<7>>}

\* Bit positions of each key in a 2-bit filter: <<1, 1>> collides with the
\* union of two others, so a block of those falsely accepts it.
MCHash(k) ==
    CASE k = <<1>>    -> {0}
      [] k = <<2>>    -> {1}
      [] k = <<1, 1>> -> {0, 1}
      [] k = <<1, 2>> -> {1}
      [] OTHER        -> {0}

MCReaders1 == {r1}
MCReaders2 == {r1, r2}

=============================================================================
