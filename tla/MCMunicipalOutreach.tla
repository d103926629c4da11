-------------------------- MODULE MCMunicipalOutreach --------------------------
(* Small instances of MunicipalOutreach for TLC. *)
EXTENDS MunicipalOutreach, TLC

CONSTANTS x, w1, w2, d1, d2

AlwaysOpen == 0..MaxTime
MCReceipt == [d \in Delivery |-> d]
Symmetry == Permutations(Worker)
=============================================================================
