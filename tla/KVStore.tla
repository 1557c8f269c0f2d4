------------------------------- MODULE KVStore -------------------------------
(***************************************************************************)
(* What the engine promises its clients (spec sections 2 and 8, P1-P3): a  *)
(* map from keys to values in which Put replaces a key's value and Delete  *)
(* replaces it with the empty value (spec section 9).  Everything else the *)
(* engine does -- rotation, flushing, loading -- leaves the map unchanged. *)
(***************************************************************************)
CONSTANTS
    Keys,     \* the keys
    Values,   \* the values a key can hold, the empty value included
    Absent    \* a key never written

VARIABLE kv

Init == kv = [k \in Keys |-> Absent]

\* Put(k, v) or Delete(k): the key now holds v.
Write(k, v) == kv' = [kv EXCEPT ![k] = v]

Next == \E k \in Keys, v \in Values : Write(k, v)

Spec == Init /\ [][Next]_kv
=============================================================================
