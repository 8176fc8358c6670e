--------------------------- MODULE MCPartitioner ---------------------------
(***************************************************************************)
(* TLC instances of Partitioner: two of the three vertices have the same   *)
(* hash, so that HASH meets local edges, cut edges and self-loops.         *)
(***************************************************************************)
EXTENDS Partitioner

CONSTANTS a, b, c

SharedHash == [v \in Vertices |-> IF v = b THEN 1 ELSE 0]
=============================================================================
