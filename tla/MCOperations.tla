---------------------------- MODULE MCOperations ----------------------------
(* Instances of Operations for TLC. *)
EXTENDS Operations, TLC

\* Jobs and contents are interchangeable (safety runs only).
Symmetry == Permutations(Jobs) \cup Permutations(Values)
=============================================================================
