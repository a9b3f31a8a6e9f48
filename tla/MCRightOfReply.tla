---------------------------- MODULE MCRightOfReply ----------------------------
(* Small instances of RightOfReply for TLC.                                *)
EXTENDS RightOfReply, TLC

Symmetry == Permutations(Contact) \cup Permutations(Worker)
=============================================================================
