----------------------------- MODULE MCCatchup -----------------------------
(* Small instances of Catchup for TLC. *)
EXTENDS Catchup, TLC
CONSTANTS w1, w2
OneWorker  == {w1}
TwoWorkers == {w1, w2}
WorkerSymmetry == Permutations({w1, w2})
=============================================================================
