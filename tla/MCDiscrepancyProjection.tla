----------------------- MODULE MCDiscrepancyProjection -----------------------
(* Instances of DiscrepancyProjection for TLC. *)
EXTENDS DiscrepancyProjection, TLC

Symmetry == Permutations(Job) \cup Permutations(Cycle)
=============================================================================
