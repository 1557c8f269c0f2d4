------------------------------- MODULE MCLSM -------------------------------
(* Model-checking instance of LSM: two keys, two values, rotation after    *)
(* every second write.                                                      *)
EXTENDS LSM

CONSTANTS k1, k2, v1, v2

MCKeys == {k1, k2}
MCVals == {v1, v2}

\* Keys are interchangeable, and so are values.
MCSymmetry == Permutations(MCKeys) \cup Permutations(MCVals)
=============================================================================
