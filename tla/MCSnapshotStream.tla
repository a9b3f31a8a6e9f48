--------------------------- MODULE MCSnapshotStream ---------------------------
(* Instances of SnapshotStream for TLC. *)
EXTENDS SnapshotStream, TLC

Symmetry == Permutations(Writer)
=============================================================================
