------------------------ MODULE MCRegistrationGroupSync ------------------------
(* Small instances of RegistrationGroupSync for TLC. *)
EXTENDS RegistrationGroupSync, TLC

CONSTANTS m1, w1, w2, w3, o1, l1, l2, a1, a2, c1, c2, d1, d2

MCAccountOf == [l \in List |-> a1]
Symmetry == Permutations(Call) \cup Permutations(Contact)
=============================================================================
