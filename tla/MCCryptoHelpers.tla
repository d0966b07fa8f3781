-------------------------- MODULE MCCryptoHelpers --------------------------
(***************************************************************************)
(* Instances of CryptoHelpers for TLC.                                     *)
(***************************************************************************)
EXTENDS CryptoHelpers, TLC

OneWorker == {0}
TwoWorkers == {0, 1}

\* Every state has a hash chain of its own, or all of them share one.
OneChain == [s \in Sts |-> 0]

Symmetry == Permutations(Sts)
====
