----------------------------- MODULE MCApiAccess -----------------------------
(* Instances of ApiAccess for TLC. *)
EXTENDS ApiAccess, TLC

CONSTANTS r1, r2, o1, k1, k2

ExpirySet == {2}
Symmetry == Permutations(Request) \cup Permutations(Operator) \cup Permutations(Key)
=============================================================================
