-------------------------- MODULE UndirectedGraph --------------------------
(***************************************************************************)
(* What the graph store promises its callers: an undirected graph whose    *)
(* vertices are the IDs ever given to it and which holds an edge between   *)
(* two of them (possibly the same one) at most once, in whichever          *)
(* direction and however often the stream repeats it.  `size` is the       *)
(* number of relations stored for those edges.                             *)
(***************************************************************************)
EXTENDS Naturals

CONSTANT Ids

VARIABLES vertices, edges, size

graph == <<vertices, edges, size>>

GraphInit == vertices = {} /\ edges = {} /\ size = 0

AddVertex(v) ==
    /\ v \notin vertices
    /\ vertices' = vertices \cup {v}
    /\ UNCHANGED <<edges, size>>

AddNewEdge(u, v) ==
    /\ u \in vertices
    /\ v \in vertices
    /\ {u, v} \notin edges
    /\ edges' = edges \cup {{u, v}}
    /\ size' = size + 1
    /\ UNCHANGED vertices

GraphNext ==
    \/ \E v \in Ids : AddVertex(v)
    \/ \E u, v \in Ids : AddNewEdge(u, v)

GraphSpec == GraphInit /\ [][GraphNext]_graph
=============================================================================
