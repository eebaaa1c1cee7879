--------------------------- MODULE MCBalanceEpoch ---------------------------
(* Small instances of BalanceEpoch for TLC. *)
EXTENDS BalanceEpoch, TLC
CONSTANTS k1, k2
OneKey  == {k1}
TwoKeys == {k1, k2}
KeySymmetry == Permutations({k1, k2})
=============================================================================
