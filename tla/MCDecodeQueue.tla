---------------------------- MODULE MCDecodeQueue ----------------------------
(***************************************************************************)
(* DecodeQueue for TLC: one stream with several surfaces, or two streams   *)
(* that share the descriptor table.                                        *)
(***************************************************************************)
EXTENDS DecodeQueue, TLC

CONSTANTS x1, x2, s1, s2, s3

Symmetry == Permutations(Streams) \cup Permutations(Slots)
=============================================================================
