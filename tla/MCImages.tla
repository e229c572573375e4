------------------------------ MODULE MCImages ------------------------------
(* Constants for model-checking Images. *)
EXTENDS Images, TLC

Symmetry == Permutations(Blocks)
=============================================================================
