---------------------------- MODULE MCPendingIrp ----------------------------
(* Small instances of PendingIrp for TLC. *)
EXTENDS PendingIrp, TLC

Symmetry == Permutations(Reads) \cup Permutations(BigWrites)
=============================================================================
