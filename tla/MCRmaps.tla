------------------------------ MODULE MCRmaps ------------------------------
(* Sptes are interchangeable. *)
EXTENDS Rmaps, TLC

Symmetry == Permutations(Sptes)
=============================================================================
