---------------------------- MODULE MCOpenFiles ----------------------------
(* Small instances of OpenFiles for TLC. *)
EXTENDS OpenFiles, TLC

\* File objects are interchangeable, and no property is about liveness.
Symmetric == Permutations(Opens)
=============================================================================
