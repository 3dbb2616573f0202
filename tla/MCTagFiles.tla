----------------------------- MODULE MCTagFiles -----------------------------
(* Instances of nvim are interchangeable. *)
EXTENDS TagFiles, TLC

Symmetry == Permutations(Instances)
=============================================================================
