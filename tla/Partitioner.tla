---------------------------- MODULE Partitioner ----------------------------
(***************************************************************************)
(* The streaming partitioner: Partitioner::addEdge with its HASH, LDG and  *)
(* FENNEL algorithms, and the Partition objects they fill.  A call reads   *)
(* and writes memory of one thread only, so it is one action.              *)
(*                                                                         *)
(* A partition keeps the edges both of whose ends it holds as a relation   *)
(* between neighbours (edgeList), and the edges cut between it and another *)
(* partition q as pairs of a resident and a foreign vertex (edgeCuts[q]).  *)
(***************************************************************************)
EXTENDS Integers, FiniteSets

CONSTANTS
    Vertices,               (* vertex IDs the stream may carry              *)
    numberOfPartitions,
    Hash,                   (* std::hash of an ID, modulo numberOfPartitions *)
    MaxEdges                (* bound on totalEdges                          *)

PartitionIds == 0 .. (numberOfPartitions - 1)
Algorithms   == {"HASH", "FENNEL", "LDG"}
Edges        == Vertices \X Vertices

ASSUME PartitionsAssumption == numberOfPartitions \in Nat \ {0}
ASSUME HashAssumption == Hash \in [Vertices -> PartitionIds]
ASSUME BoundAssumption == MaxEdges \in Nat

VARIABLES
    algorithmInUse,
    edgeList,           (* per partition: pairs of neighbours               *)
    edgeCuts,           (* per partition and foreign partition: cut pairs   *)
    totalVertices,
    totalEdges,
    seen,               (* history: the edges addEdge was called with       *)
    homes               (* history: the partitions it answered for a vertex *)

store == <<edgeList, edgeCuts>>
vars  == <<algorithmInUse, edgeList, edgeCuts, totalVertices, totalEdges, seen, homes>>

Ends(pairs)   == {e[1] : e \in pairs}
Both(u, v)    == {<<u, v>>, <<v, u>>}
LastPartition == numberOfPartitions - 1

-----------------------------------------------------------------------------
(* Partition.                                                              *)

getNeighbors(p, v) == {w \in Vertices : <<v, w>> \in edgeList[p]}

(* The pairs edgeCuts[p] holds for a resident, tagged with the partition.  *)
CutResidents(p) == {qv \in PartitionIds \X Vertices : qv[2] \in Ends(edgeCuts[p][qv[1]])}

(* The order of a partition, as the scores use it: a resident without an   *)
(* edge here counts once for every partition it is cut from.               *)
getVertextCount(p) ==
    Cardinality(Ends(edgeList[p])) +
    Cardinality({qv \in CutResidents(p) : qv[2] \notin Ends(edgeList[p])})

(* Whether the partition knows a vertex at all, and what isExist answers:   *)
(* its loop keeps the answer for the last foreign partition only.          *)
Knows(p, v)   == v \in Ends(edgeList[p]) \/ \E q \in PartitionIds : v \in Ends(edgeCuts[p][q])
isExist(p, v) == v \in Ends(edgeList[p]) \/ v \in Ends(edgeCuts[p][LastPartition])

(* Mutants: the cut is recorded on one side only; the number of the foreign *)
(* partition is recorded for the foreign vertex.                           *)
cutEdgeOnce(i, u, j, v) ==
    /\ edgeCuts' = [edgeCuts EXCEPT ![i][j] = @ \cup {<<u, v>>}]
    /\ UNCHANGED edgeList

cutEdgeToPartition(i, u, j, v) ==
    /\ edgeCuts' = [edgeCuts EXCEPT ![i][j] = @ \cup {<<u, j>>}, ![j][i] = @ \cup {<<v, i>>}]
    /\ UNCHANGED edgeList

(* Partition::addEdge of partition p, and addToEdgeCuts of both partitions *)
(* of an edge whose ends were assigned to i and j.                         *)
addEdge(p, u, v) ==
    /\ edgeList' = [edgeList EXCEPT ![p] = @ \cup Both(u, v)]
    /\ UNCHANGED edgeCuts

cutEdge(i, u, j, v) ==
    /\ edgeCuts' = [edgeCuts EXCEPT ![i][j] = @ \cup {<<u, v>>}, ![j][i] = @ \cup {<<v, u>>}]
    /\ UNCHANGED edgeList

-----------------------------------------------------------------------------
Init ==
    /\ algorithmInUse \in Algorithms
    /\ edgeList = [p \in PartitionIds |-> {}]
    /\ edgeCuts = [p \in PartitionIds |-> [q \in PartitionIds |-> {}]]
    /\ totalVertices = 0
    /\ totalEdges = 0
    /\ seen = {}
    /\ homes = [v \in Vertices |-> {}]

(* Every call ends with the partitions of the two ends as its result.      *)
Answer(u, i, v, j) ==
    /\ seen' = seen \cup {<<u, v>>}
    /\ homes' = [w \in Vertices |-> homes[w] \cup {p \in PartitionIds : <<w, p>> \in {<<u, i>>, <<v, j>>}}]
    /\ UNCHANGED algorithmInUse

Place(i, u, j, v) == IF i = j THEN addEdge(i, u, v) ELSE cutEdge(i, u, j, v)

(* Mutant: the second vertex goes where the first one went.                *)
hashFirstOnly(u, v) ==
    /\ algorithmInUse = "HASH"
    /\ Place(Hash[u], u, Hash[u], v)
    /\ Answer(u, Hash[u], v, Hash[u])
    /\ UNCHANGED <<totalVertices, totalEdges>>

hashPartitioning(u, v) ==
    /\ algorithmInUse = "HASH"
    /\ Place(Hash[u], u, Hash[v], v)
    /\ Answer(u, Hash[u], v, Hash[v])
    /\ UNCHANGED <<totalVertices, totalEdges>>

-----------------------------------------------------------------------------
(* Mutant: one end is enough.                                              *)
EitherExists(p, u, v) == isExist(p, u) \/ isExist(p, v)

(* The two greedy algorithms share their shape.  First the partitions are  *)
(* looked at in order, and two tests may end the call.  (The test between  *)
(* them, for an edge that is stored in the partition, can not succeed: its *)
(* ends both exist there.)                                                 *)
BothExist(p, u, v) == isExist(p, u) /\ isExist(p, v)

(* "edge already exist", which looks for the second vertex among its own   *)
(* neighbours.                                                             *)
AlreadyExists(p, v) == v \in getNeighbors(p, v)

EndsAt(p, u, v) == BothExist(p, u, v) \/ AlreadyExists(p, v)

FirstEnd(p, u, v) == EndsAt(p, u, v) /\ \A q \in 0 .. (p - 1) : ~EndsAt(q, u, v)

greedy == algorithmInUse # "HASH" /\ totalEdges < MaxEdges

(* The loop variable is a copy of the partition: the edge is added to the   *)
(* copy, counted, and gone.                                                *)
greedyBothExist(p, u, v) ==
    /\ greedy
    /\ FirstEnd(p, u, v)
    /\ BothExist(p, u, v)
    /\ totalEdges' = totalEdges + 1
    /\ Answer(u, p, v, p)
    /\ UNCHANGED <<store, totalVertices>>

greedyAlreadyExists(p, u, v) ==
    /\ greedy
    /\ FirstEnd(p, u, v)
    /\ ~BothExist(p, u, v)
    /\ Answer(u, p, v, p)
    /\ UNCHANGED <<store, totalVertices, totalEdges>>

(* LDG: the score of a partition is N * (1 - size / (totalVertices / k));   *)
(* multiplied by totalVertices it is a whole number.  While totalVertices  *)
(* is 0 every score is NaN and max_element stays on the first partition;   *)
(* of equal scores it takes the first, except that scores that are equal   *)
(* for different N and size may differ by the rounding of doubles.         *)
InterCost(p, v) == IF getNeighbors(p, v) = {} THEN 1 ELSE Cardinality(getNeighbors(p, v))

ldgScore(p, v) ==
    InterCost(p, v) * (totalVertices - getVertextCount(p) * numberOfPartitions)

SameScore(p, q, v) ==
    InterCost(p, v) = InterCost(q, v) /\ getVertextCount(p) = getVertextCount(q)

ldgBest(v) ==
    IF totalVertices = 0 THEN {0}
    ELSE {p \in PartitionIds :
            /\ \A q \in PartitionIds : ldgScore(q, v) <= ldgScore(p, v)
            /\ \A q \in 0 .. (p - 1) : ~SameScore(p, q, v)}

(* FENNEL: the score is N - alpha * ((size + 1)^gamma - size^gamma), where  *)
(* the second term is computed for a vertex without neighbours here, and   *)
(* for the second vertex only if the first one has none either; otherwise  *)
(* the term is an uninitialised variable, and the score may be anything.   *)
(* A computed score has N = 0 and falls with the size.  In the first call  *)
(* alpha is NaN and so are all scores.                                     *)
fennelBest(unread) ==
    IF totalVertices = 0 THEN {0}
    ELSE unread \cup {p \in PartitionIds \ unread :
            /\ \A q \in PartitionIds \ unread : getVertextCount(p) <= getVertextCount(q)
            /\ \A q \in (0 .. (p - 1)) \ unread : getVertextCount(q) # getVertextCount(p)}

HasNeighbors(v) == {p \in PartitionIds : getNeighbors(p, v) # {}}

Best(u, v) ==
    IF algorithmInUse = "LDG" THEN ldgBest(u) \X ldgBest(v)
    ELSE fennelBest(HasNeighbors(u)) \X fennelBest(HasNeighbors(u) \cup HasNeighbors(v))

(* Mutant: the second vertex is assigned, and answered for, as the first.   *)
greedyAnswerFirst(u, v) ==
    /\ greedy
    /\ \A p \in PartitionIds : ~EndsAt(p, u, v)
    /\ totalVertices' = totalVertices + 2
    /\ totalEdges' = totalEdges + 1
    /\ \E b \in Best(u, v) : Place(b[1], u, b[2], v) /\ Answer(u, b[1], v, b[1])

(* Neither end of the loop: the exist flags are never set, so both vertices *)
(* are counted again, and the edge is stored where the best scores are.    *)
greedyPlace(u, v) ==
    /\ greedy
    /\ \A p \in PartitionIds : ~EndsAt(p, u, v)
    /\ totalVertices' = totalVertices + 2
    /\ totalEdges' = totalEdges + 1
    /\ \E b \in Best(u, v) : Place(b[1], u, b[2], v) /\ Answer(u, b[1], v, b[2])

Next ==
    \E u, v \in Vertices :
        \/ hashPartitioning(u, v)
        \/ \E p \in PartitionIds : greedyBothExist(p, u, v)
        \/ \E p \in PartitionIds : greedyAlreadyExists(p, u, v)
        \/ greedyPlace(u, v)

Spec == Init /\ [][Next]_vars

-----------------------------------------------------------------------------
StoredIn(p, u, v) == <<u, v>> \in edgeList[p]
CutBetween(i, u, j, v) == <<u, v>> \in edgeCuts[i][j]

Stored(u, v) ==
    \/ \E p \in PartitionIds : StoredIn(p, u, v)
    \/ \E i, j \in PartitionIds : CutBetween(i, u, j, v)

TypeOK ==
    /\ algorithmInUse \in Algorithms
    /\ edgeList \in [PartitionIds -> SUBSET Edges]
    /\ edgeCuts \in [PartitionIds -> [PartitionIds -> SUBSET Edges]]
    /\ totalVertices \in Nat
    /\ totalEdges \in Nat
    /\ seen \in SUBSET Edges
    /\ homes \in [Vertices -> SUBSET PartitionIds]

(* The partitions agree about every edge: neighbours inside a partition are *)
(* mutual, and a cut edge is recorded by the partitions of both of its     *)
(* ends, each under the other's number, whatever the scores were and       *)
(* however often an edge is assigned anew.                                 *)
PartitionsAgree ==
    /\ \A p \in PartitionIds : \A u, v \in Vertices : StoredIn(p, u, v) => StoredIn(p, v, u)
    /\ \A i, j \in PartitionIds : \A u, v \in Vertices :
          CutBetween(i, u, j, v) => CutBetween(j, v, i, u) /\ i # j

(* HASH keeps its promise: a vertex is answered for by one partition, which *)
(* holds each of its edges, once: with the other end, or as a cut to the   *)
(* other end's partition.                                                  *)
HashStoresEdgesOnce ==
    algorithmInUse = "HASH" =>
        /\ \A v \in Vertices : homes[v] \subseteq {Hash[v]}
        /\ \A e \in seen : Stored(e[1], e[2]) /\ Stored(e[2], e[1])
        /\ \A p \in PartitionIds : \A u, v \in Vertices :
              StoredIn(p, u, v) => p = Hash[u] /\ p = Hash[v]
        /\ \A i, j \in PartitionIds : \A u, v \in Vertices :
              CutBetween(i, u, j, v) => i = Hash[u] /\ j = Hash[v]

(* A partition answered for a vertex, the one main adds the node to, knows  *)
(* the vertex, unless a self-loop there misled the greedy algorithms.      *)
HomesKnowVertices ==
    \A v \in Vertices : \A p \in homes[v] :
        Knows(p, v) \/ \E w \in Vertices : StoredIn(p, w, w)

(* What the greedy algorithms lose: an edge that is nowhere stored has its  *)
(* ends in one partition that knew both before, or a self-loop at its      *)
(* second vertex.                                                          *)
LostEdgesAreKnown ==
    \A e \in seen :
        \/ Stored(e[1], e[2])
        \/ \E p \in PartitionIds : Knows(p, e[1]) /\ Knows(p, e[2])
        \/ \E p \in PartitionIds : StoredIn(p, e[2], e[2])

-----------------------------------------------------------------------------
(* What a comment says, and the code does not do.                          *)

(* FENNEL's alpha: "Total number of vertices and edges in the graph denoted *)
(* as |V| = n and |E| = m".  totalEdges, the m, counts edges of the graph   *)
(* that is stored.  (An edge that meets a self-loop is not counted.)       *)
CountedEdgesAreStored ==
    algorithmInUse = "FENNEL" =>
        \A e \in seen : Stored(e[1], e[2]) \/ \E p \in PartitionIds : StoredIn(p, e[2], e[2])
=============================================================================
