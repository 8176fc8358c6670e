-------------------------- MODULE MCRelationStore --------------------------
(***************************************************************************)
(* TLC instance of RelationStore: the IDs are interchangeable.             *)
(***************************************************************************)
EXTENDS RelationStore, TLC

IdSymmetry == Permutations(Ids)
=============================================================================
