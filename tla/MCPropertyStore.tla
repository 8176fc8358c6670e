-------------------------- MODULE MCPropertyStore --------------------------
(***************************************************************************)
(* TLC instances of PropertyStore: node a has an ID that leaves room in    *)
(* the label field, b one that fills it, c one that is too long for it.    *)
(***************************************************************************)
EXTENDS PropertyStore, TLC

CONSTANTS a, b, c

IdLengths == [n \in Nodes |-> CASE n = a -> 5 [] n = b -> 6 [] OTHER -> 7]

AllEdges == Nodes \X Nodes

(* Every edge but the self-loops of nodes whose ID is not a property.      *)
EdgesWithoutShortLoops == {e \in AllEdges : e[1] = e[2] => ~isSmallLabel(e[1])}

RelationSymmetry == Permutations(Relations) \cup Permutations(Values)
=============================================================================
