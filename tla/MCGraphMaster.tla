---------------------------- MODULE MCGraphMaster ----------------------------
(***************************************************************************)
(* Three nodes and three edge messages: an edge, the same edge from its     *)
(* other end with other properties, and one that shares a node and a name  *)
(* with it.                                                                *)
(***************************************************************************)
EXTENDS GraphMaster

CONSTANTS a, b, c

MCIds == {a, b, c}

Edge(s, d, edgeNames, sourceNames, destinationNames) ==
    [source |-> s, destination |-> d, properties |-> edgeNames,
     sourceProperties |-> sourceNames, destinationProperties |-> destinationNames]

MCEdges ==
    {Edge(a, b, {1}, {1}, {}),
     Edge(b, a, {1}, {}, {1, 2}),
     Edge(b, c, {}, {1}, {1})}

MCNames == {1, 2}
=============================================================================
