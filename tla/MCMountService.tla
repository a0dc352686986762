---------------------------- MODULE MCMountService ----------------------------
(* Small instances of MountService for TLC. *)
EXTENDS MountService, TLC

Symmetry == Permutations(Programs) \cup Permutations(Tools) \cup Permutations(Letters)
=============================================================================
