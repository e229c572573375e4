--------------------------- MODULE MCDecodeSession ---------------------------
(***************************************************************************)
(* DecodeSession for TLC: two contexts that share two surfaces, or one     *)
(* context whose pools and layout its surfaces compete for.                *)
(***************************************************************************)
EXTENDS DecodeSession, TLC

CONSTANTS c1, c2, s1, s2, s3

Symmetry == Permutations(Contexts) \cup Permutations(Surfaces)
=============================================================================
