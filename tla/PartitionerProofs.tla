------------------------- MODULE PartitionerProofs -------------------------
(***************************************************************************)
(* Proofs about Partitioner, for every set of vertices, every number of    *)
(* partitions, every hash function and every choice of the scores.         *)
(***************************************************************************)
EXTENDS Partitioner, TLAPS

(* What storing an edge changes: the edge list of one partition, or the    *)
(* cuts of two.                                                            *)
LEMMA PlaceEffect ==
    ASSUME TypeOK, NEW u \in Vertices, NEW v \in Vertices,
           NEW i \in PartitionIds, NEW j \in PartitionIds, Place(i, u, j, v)
    PROVE  /\ edgeList' \in [PartitionIds -> SUBSET Edges]
           /\ edgeCuts' \in [PartitionIds -> [PartitionIds -> SUBSET Edges]]
           /\ \A p \in PartitionIds :
                 edgeList'[p] = edgeList[p] \cup (IF i = j /\ p = i THEN Both(u, v) ELSE {})
           /\ \A p, q \in PartitionIds :
                 edgeCuts'[p][q] = edgeCuts[p][q] \cup
                     (IF i # j /\ p = i /\ q = j THEN {<<u, v>>}
                      ELSE IF i # j /\ p = j /\ q = i THEN {<<v, u>>} ELSE {})
<1>1. Both(u, v) \in SUBSET Edges /\ {<<u, v>>} \in SUBSET Edges /\ {<<v, u>>} \in SUBSET Edges
  BY DEF Both, Edges
<1>2. CASE i = j
  BY <1>1, <1>2 DEF Place, addEdge, TypeOK
<1>3. CASE i # j
  <2>1. cutEdge(i, u, j, v) /\ edgeList' = edgeList
    BY <1>3 DEF Place, cutEdge
  <2> DEFINE there == [edgeCuts[i] EXCEPT ![j] = @ \cup {<<u, v>>}]
             here  == [edgeCuts[j] EXCEPT ![i] = @ \cup {<<v, u>>}]
  <2>2. edgeCuts' = [edgeCuts EXCEPT ![i] = there, ![j] = here]
    BY <1>3, <2>1 DEF cutEdge, TypeOK
  <2>3. /\ there \in [PartitionIds -> SUBSET Edges]
        /\ here \in [PartitionIds -> SUBSET Edges]
    BY <1>1 DEF TypeOK
  <2>4. \A q \in PartitionIds :
            /\ there[q] = edgeCuts[i][q] \cup (IF q = j THEN {<<u, v>>} ELSE {})
            /\ here[q] = edgeCuts[j][q] \cup (IF q = i THEN {<<v, u>>} ELSE {})
    BY DEF TypeOK
  <2> HIDE DEF there, here
  <2>5. /\ edgeCuts' \in [PartitionIds -> [PartitionIds -> SUBSET Edges]]
        /\ \A p \in PartitionIds :
              edgeCuts'[p] = IF p = j THEN here ELSE IF p = i THEN there ELSE edgeCuts[p]
    BY <1>3, <2>2, <2>3 DEF TypeOK
  <2> QED
    BY <1>3, <2>1, <2>4, <2>5 DEF TypeOK
<1> QED
  BY <1>2, <1>3

(* The greedy algorithms choose among the partitions there are.            *)
LEMMA BestArePartitions ==
    ASSUME NEW u, NEW v
    PROVE  Best(u, v) \subseteq PartitionIds \X PartitionIds
<1>1. 0 \in PartitionIds
  BY PartitionsAssumption DEF PartitionIds
<1>2. \A w : ldgBest(w) \subseteq PartitionIds
  BY <1>1 DEF ldgBest
<1>3. \A w : HasNeighbors(w) \subseteq PartitionIds
  BY DEF HasNeighbors
<1>4. \A s \in SUBSET PartitionIds : fennelBest(s) \subseteq PartitionIds
  BY <1>1 DEF fennelBest
<1> QED
  BY <1>2, <1>3, <1>4 DEF Best

(* The two kinds of call: it stores the edge where it answers, or it ends  *)
(* early and leaves the partitions as they are.                            *)
Places(u, i, v, j) ==
    /\ Place(i, u, j, v)
    /\ Answer(u, i, v, j)
    /\ algorithmInUse = "HASH" => i = Hash[u] /\ j = Hash[v]

EndsEarly(u, p, v) ==
    /\ UNCHANGED store
    /\ Answer(u, p, v, p)
    /\ algorithmInUse # "HASH"
    /\ BothExist(p, u, v) \/ AlreadyExists(p, v)

(* Every call stores the edge once, or ends early and stores nothing.      *)
LEMMA CallKinds ==
    ASSUME TypeOK, Next
    PROVE  \E u, v \in Vertices : \E i, j \in PartitionIds :
               Places(u, i, v, j) \/ EndsEarly(u, i, v)
<1>1. PICK u \in Vertices, v \in Vertices :
          \/ hashPartitioning(u, v)
          \/ \E p \in PartitionIds : greedyBothExist(p, u, v)
          \/ \E p \in PartitionIds : greedyAlreadyExists(p, u, v)
          \/ greedyPlace(u, v)
  BY DEF Next
<1>2. CASE hashPartitioning(u, v)
  <2>1. Hash[u] \in PartitionIds /\ Hash[v] \in PartitionIds
    BY HashAssumption
  <2> QED
    BY <1>2, <2>1 DEF hashPartitioning, Places
<1>3. CASE \E p \in PartitionIds : greedyBothExist(p, u, v)
  BY <1>3 DEF greedyBothExist, greedy, EndsEarly
<1>4. CASE \E p \in PartitionIds : greedyAlreadyExists(p, u, v)
  BY <1>4 DEF greedyAlreadyExists, greedy, FirstEnd, EndsAt, EndsEarly
<1>5. CASE greedyPlace(u, v)
  <2>1. PICK b \in Best(u, v) : Place(b[1], u, b[2], v) /\ Answer(u, b[1], v, b[2])
    BY <1>5 DEF greedyPlace
  <2>2. b[1] \in PartitionIds /\ b[2] \in PartitionIds
    BY <2>1, BestArePartitions
  <2>3. algorithmInUse # "HASH"
    BY <1>5 DEF greedyPlace, greedy
  <2>4. Places(u, b[1], v, b[2])
    BY <2>1, <2>3 DEF Places
  <2> QED
    BY <2>2, <2>4
<1> QED
  BY <1>1, <1>2, <1>3, <1>4, <1>5

-----------------------------------------------------------------------------
(* The partitioner starts with empty partitions.                           *)
LEMMA InitTyped == Init => TypeOK
BY DEF Init, TypeOK, Algorithms, Edges

(* Every call leaves partitions of the declared shape.                     *)
LEMMA NextTyped == TypeOK /\ [Next]_vars => TypeOK'
<1> SUFFICES ASSUME TypeOK, [Next]_vars PROVE TypeOK'
  OBVIOUS
<1>1. CASE UNCHANGED vars
  BY <1>1 DEF vars, TypeOK
<1>2. CASE Next
  <2>1. PICK u \in Vertices, v \in Vertices, i \in PartitionIds, j \in PartitionIds :
            Places(u, i, v, j) \/ EndsEarly(u, i, v)
    BY <1>2, CallKinds
  <2>2. /\ edgeList' \in [PartitionIds -> SUBSET Edges]
        /\ edgeCuts' \in [PartitionIds -> [PartitionIds -> SUBSET Edges]]
    BY <2>1, PlaceEffect DEF Places, EndsEarly, store, TypeOK
  <2>3. /\ algorithmInUse' = algorithmInUse
        /\ seen' \in SUBSET Edges
        /\ homes' \in [Vertices -> SUBSET PartitionIds]
    BY <2>1 DEF Places, EndsEarly, Answer, TypeOK, Edges
  <2>4. totalVertices' \in Nat /\ totalEdges' \in Nat
    BY <1>2 DEF Next, hashPartitioning, greedyBothExist, greedyAlreadyExists, greedyPlace, TypeOK
  <2> QED
    BY <2>2, <2>3, <2>4 DEF TypeOK
<1> QED
  BY <1>1, <1>2 

(* The partitions hold pairs of vertices, and the totals are numbers, in    *)
(* every run of every algorithm.                                           *)
THEOREM TypeCorrect == Spec => []TypeOK
BY InitTyped, NextTyped, PTL DEF Spec

-----------------------------------------------------------------------------
(* The partitions agree about every edge, whatever the scores were.         *)
LEMMA CallKeepsAgreement ==
    ASSUME TypeOK, PartitionsAgree, NEW u \in Vertices, NEW v \in Vertices,
           NEW i \in PartitionIds, NEW j \in PartitionIds, Place(i, u, j, v)
    PROVE  PartitionsAgree'
<1>1. ASSUME NEW p \in PartitionIds, NEW x \in Vertices, NEW y \in Vertices,
             StoredIn(p, x, y)'
      PROVE  StoredIn(p, y, x)'
  BY <1>1, PlaceEffect DEF PartitionsAgree, StoredIn, Both
<1>2. ASSUME NEW p \in PartitionIds, NEW q \in PartitionIds,
             NEW x \in Vertices, NEW y \in Vertices, CutBetween(p, x, q, y)'
      PROVE  CutBetween(q, y, p, x)' /\ p # q
  BY <1>2, PlaceEffect DEF PartitionsAgree, CutBetween
<1> QED
  BY <1>1, <1>2 DEF PartitionsAgree

(* The two ends of an edge find each other: adjacency is symmetric within a  *)
(* partition and between two, for every number of partitions and edges.    *)
THEOREM PartitionsAlwaysAgree == Spec => []PartitionsAgree
<1>1. Init => PartitionsAgree
  BY DEF Init, PartitionsAgree, StoredIn, CutBetween
<1>2. TypeOK /\ PartitionsAgree /\ [Next]_vars => PartitionsAgree'
  <2> SUFFICES ASSUME TypeOK, PartitionsAgree, [Next]_vars PROVE PartitionsAgree'
    OBVIOUS
  <2>1. CASE UNCHANGED store
    BY <2>1 DEF store, PartitionsAgree, StoredIn, CutBetween
  <2>2. CASE Next
    <3>1. PICK u \in Vertices, v \in Vertices, i \in PartitionIds, j \in PartitionIds :
              Places(u, i, v, j) \/ EndsEarly(u, i, v)
      BY <2>2, CallKinds
    <3> QED
      BY <2>1, <3>1, CallKeepsAgreement DEF Places, EndsEarly
  <2> QED
    BY <2>1, <2>2 DEF vars, store
<1> QED
  BY <1>1, <1>2, TypeCorrect, PTL DEF Spec

-----------------------------------------------------------------------------
(* HASH answers for a vertex with one partition, and stores each of its     *)
(* edges there, once.                                                      *)
LEMMA HashPlaces ==
    ASSUME TypeOK, HashStoresEdgesOnce, algorithmInUse = "HASH",
           NEW u \in Vertices, NEW v \in Vertices,
           Place(Hash[u], u, Hash[v], v), Answer(u, Hash[u], v, Hash[v])
    PROVE  HashStoresEdgesOnce'
<1>1. Hash[u] \in PartitionIds /\ Hash[v] \in PartitionIds
  BY HashAssumption
<1> DEFINE i == Hash[u]
           j == Hash[v]
<1>2. /\ \A p \in PartitionIds :
            edgeList'[p] = edgeList[p] \cup (IF i = j /\ p = i THEN Both(u, v) ELSE {})
      /\ \A p, q \in PartitionIds :
            edgeCuts'[p][q] = edgeCuts[p][q] \cup
                (IF i # j /\ p = i /\ q = j THEN {<<u, v>>}
                 ELSE IF i # j /\ p = j /\ q = i THEN {<<v, u>>} ELSE {})
  BY <1>1, PlaceEffect
<1>3. \A w \in Vertices : homes'[w] \subseteq {Hash[w]}
  BY DEF Answer, HashStoresEdgesOnce
<1>4. ASSUME NEW e \in seen'
      PROVE  Stored(e[1], e[2])' /\ Stored(e[2], e[1])'
  <2>1. CASE e \in seen
    BY <1>2, <2>1 DEF HashStoresEdgesOnce, Stored, StoredIn, CutBetween
  <2>2. CASE e = <<u, v>>
    <3>1. CASE i = j
      <4>1. <<u, v>> \in edgeList'[i] /\ <<v, u>> \in edgeList'[i]
        BY <1>1, <1>2, <3>1 DEF Both
      <4> QED
        BY <1>1, <2>2, <4>1 DEF Stored, StoredIn
    <3>2. CASE i # j
      <4>1. <<u, v>> \in edgeCuts'[i][j] /\ <<v, u>> \in edgeCuts'[j][i]
        BY <1>1, <1>2, <3>2
      <4> QED
        BY <1>1, <2>2, <4>1 DEF Stored, CutBetween
    <3> QED
      BY <3>1, <3>2
  <2> QED
    BY <2>1, <2>2 DEF Answer
<1>5. ASSUME NEW p \in PartitionIds, NEW x \in Vertices, NEW y \in Vertices, StoredIn(p, x, y)'
      PROVE  p = Hash[x] /\ p = Hash[y]
  BY <1>2, <1>5 DEF HashStoresEdgesOnce, StoredIn, Both
<1>6. ASSUME NEW p \in PartitionIds, NEW q \in PartitionIds,
             NEW x \in Vertices, NEW y \in Vertices, CutBetween(p, x, q, y)'
      PROVE  p = Hash[x] /\ q = Hash[y]
  BY <1>2, <1>6 DEF HashStoresEdgesOnce, CutBetween
<1> QED
  BY <1>3, <1>4, <1>5, <1>6 DEF HashStoresEdgesOnce

(* With HASH every edge seen is stored once, in the partitions of its ends.  *)
THEOREM HashIsExact == Spec => []HashStoresEdgesOnce
<1>1. Init => HashStoresEdgesOnce
  BY DEF Init, HashStoresEdgesOnce, StoredIn, CutBetween
<1>2. TypeOK /\ HashStoresEdgesOnce /\ [Next]_vars => HashStoresEdgesOnce'
  <2> SUFFICES ASSUME TypeOK, HashStoresEdgesOnce, [Next]_vars PROVE HashStoresEdgesOnce'
    OBVIOUS
  <2>1. CASE UNCHANGED vars
    BY <2>1 DEF vars, HashStoresEdgesOnce, Stored, StoredIn, CutBetween
  <2>2. CASE Next
    <3>1. PICK u \in Vertices, v \in Vertices, i \in PartitionIds, j \in PartitionIds :
              Places(u, i, v, j) \/ EndsEarly(u, i, v)
      BY <2>2, CallKinds
    <3>2. CASE algorithmInUse = "HASH"
      BY <3>1, <3>2, HashPlaces DEF Places, EndsEarly
    <3>3. CASE algorithmInUse # "HASH"
      BY <3>1, <3>3 DEF Places, EndsEarly, Answer, HashStoresEdgesOnce
    <3> QED
      BY <3>2, <3>3
  <2> QED
    BY <2>1, <2>2
<1> QED
  BY <1>1, <1>2, TypeCorrect, PTL DEF Spec

-----------------------------------------------------------------------------
(* A partition never forgets: what it stores and knows it stores and knows  *)
(* after any call.                                                         *)
Grows ==
    /\ \A p \in PartitionIds : edgeList[p] \subseteq edgeList'[p]
    /\ \A p, q \in PartitionIds : edgeCuts[p][q] \subseteq edgeCuts'[p][q]

(* What a partition holds before a call that only adds, it holds after it.  *)
LEMMA NothingIsForgotten ==
    ASSUME Grows
    PROVE  /\ \A p \in PartitionIds : \A v : Knows(p, v) => Knows(p, v)'
           /\ \A p \in PartitionIds : \A u, v : StoredIn(p, u, v) => StoredIn(p, u, v)'
           /\ \A u, v : Stored(u, v) => Stored(u, v)'
<1>1. \A p \in PartitionIds : Ends(edgeList[p]) \subseteq Ends(edgeList'[p])
  BY DEF Grows, Ends
<1>2. \A p, q \in PartitionIds : Ends(edgeCuts[p][q]) \subseteq Ends(edgeCuts'[p][q])
  BY DEF Grows, Ends
<1>3. \A p \in PartitionIds : \A v : Knows(p, v) => Knows(p, v)'
  BY <1>1, <1>2 DEF Knows
<1>4. \A p \in PartitionIds : \A u, v : StoredIn(p, u, v) => StoredIn(p, u, v)'
  BY DEF Grows, StoredIn
<1>5. \A u, v : Stored(u, v) => Stored(u, v)'
  BY DEF Grows, Stored, StoredIn, CutBetween
<1> QED
  BY <1>3, <1>4, <1>5

(* Where a call stores an edge, the edge is stored and its ends are known.  *)
LEMMA PlacedIsKnown ==
    ASSUME TypeOK, NEW u \in Vertices, NEW v \in Vertices,
           NEW i \in PartitionIds, NEW j \in PartitionIds, Place(i, u, j, v)
    PROVE  /\ Grows
           /\ Stored(u, v)'
           /\ Knows(i, u)' /\ Knows(j, v)'
<1>1. /\ \A p \in PartitionIds :
            edgeList'[p] = edgeList[p] \cup (IF i = j /\ p = i THEN Both(u, v) ELSE {})
      /\ \A p, q \in PartitionIds :
            edgeCuts'[p][q] = edgeCuts[p][q] \cup
                (IF i # j /\ p = i /\ q = j THEN {<<u, v>>}
                 ELSE IF i # j /\ p = j /\ q = i THEN {<<v, u>>} ELSE {})
  BY PlaceEffect
<1>2. Grows
  BY <1>1 DEF Grows
<1>3. CASE i = j
  <2>1. <<u, v>> \in edgeList'[i] /\ <<v, u>> \in edgeList'[i]
    BY <1>1, <1>3 DEF Both
  <2>2. u \in Ends(edgeList'[i]) /\ v \in Ends(edgeList'[i])
    BY <2>1 DEF Ends
  <2> QED
    BY <1>2, <1>3, <2>1, <2>2 DEF Stored, StoredIn, Knows
<1>4. CASE i # j
  <2>1. <<u, v>> \in edgeCuts'[i][j] /\ <<v, u>> \in edgeCuts'[j][i]
    BY <1>1, <1>4
  <2>2. u \in Ends(edgeCuts'[i][j]) /\ v \in Ends(edgeCuts'[j][i])
    BY <2>1 DEF Ends
  <2> QED
    BY <1>2, <2>1, <2>2 DEF Stored, CutBetween, Knows
<1> QED
  BY <1>3, <1>4

(* Where a call ends early, the ends are known or a self-loop misled it.    *)
LEMMA EarlyEndIsKnown ==
    ASSUME NEW u \in Vertices, NEW v \in Vertices, NEW p \in PartitionIds,
           EndsEarly(u, p, v)
    PROVE  /\ Grows
           /\ \/ Knows(p, u)' /\ Knows(p, v)'
              \/ StoredIn(p, v, v)'
<1>1. LastPartition \in PartitionIds
  BY PartitionsAssumption DEF LastPartition, PartitionIds
<1>2. \A w : isExist(p, w) => Knows(p, w)
  BY <1>1 DEF isExist, Knows
<1>3. \/ Knows(p, u) /\ Knows(p, v)
      \/ StoredIn(p, v, v)
  BY <1>2 DEF EndsEarly, BothExist, AlreadyExists, getNeighbors, StoredIn
<1>4. Grows
  BY DEF EndsEarly, store, Grows
<1> QED
  BY <1>3, <1>4, NothingIsForgotten

(* The partition answered for a vertex knows it, or holds a self-loop.      *)
THEOREM AnswersAreKnown == Spec => []HomesKnowVertices
<1>1. Init => HomesKnowVertices
  BY DEF Init, HomesKnowVertices
<1>2. TypeOK /\ HomesKnowVertices /\ [Next]_vars => HomesKnowVertices'
  <2> SUFFICES ASSUME TypeOK, HomesKnowVertices, [Next]_vars PROVE HomesKnowVertices'
    OBVIOUS
  <2>1. CASE UNCHANGED vars
    BY <2>1 DEF vars, HomesKnowVertices, Knows, StoredIn
  <2>2. CASE Next
    <3>1. PICK u \in Vertices, v \in Vertices, i \in PartitionIds, j \in PartitionIds :
              Places(u, i, v, j) \/ EndsEarly(u, i, v)
      BY <2>2, CallKinds
    <3>2. ASSUME NEW w \in Vertices, NEW p \in PartitionIds, Grows,
                 p \in homes[w]
          PROVE  Knows(p, w)' \/ \E x \in Vertices : StoredIn(p, x, x)'
      <4>1. Knows(p, w) \/ \E x \in Vertices : StoredIn(p, x, x)
        BY <3>2 DEF HomesKnowVertices
      <4> QED
        BY <3>2, <4>1, NothingIsForgotten
    <3>3. CASE Places(u, i, v, j)
      <4>1. Grows /\ Knows(i, u)' /\ Knows(j, v)'
        BY <3>3, PlacedIsKnown DEF Places
      <4>2. ASSUME NEW w \in Vertices, NEW p \in homes'[w]
            PROVE  \/ p \in PartitionIds /\ p \in homes[w]
                   \/ w = u /\ p = i
                   \/ w = v /\ p = j
        BY <3>3 DEF Places, Answer, TypeOK
      <4> QED
        BY <3>2, <4>1, <4>2 DEF HomesKnowVertices
    <3>4. CASE EndsEarly(u, i, v)
      <4>1. Grows /\ ((Knows(i, u)' /\ Knows(i, v)') \/ StoredIn(i, v, v)')
        BY <3>4, EarlyEndIsKnown
      <4>2. ASSUME NEW w \in Vertices, NEW p \in homes'[w]
            PROVE  \/ p \in PartitionIds /\ p \in homes[w]
                   \/ w \in {u, v} /\ p = i
        BY <3>4 DEF EndsEarly, Answer, TypeOK
      <4> QED
        BY <3>2, <4>1, <4>2 DEF HomesKnowVertices
    <3> QED
      BY <3>1, <3>3, <3>4
  <2> QED
    BY <2>1, <2>2
<1> QED
  BY <1>1, <1>2, TypeCorrect, PTL DEF Spec

-----------------------------------------------------------------------------
(* An edge that is lost has its ends in one partition that knew both, or a  *)
(* self-loop at its second vertex.                                         *)
THEOREM LossIsConfined == Spec => []LostEdgesAreKnown
<1>1. Init => LostEdgesAreKnown
  BY DEF Init, LostEdgesAreKnown
<1>2. TypeOK /\ LostEdgesAreKnown /\ [Next]_vars => LostEdgesAreKnown'
  <2> SUFFICES ASSUME TypeOK, LostEdgesAreKnown, [Next]_vars PROVE LostEdgesAreKnown'
    OBVIOUS
  <2>1. CASE UNCHANGED vars
    BY <2>1 DEF vars, LostEdgesAreKnown, Stored, Knows, StoredIn, CutBetween
  <2>2. CASE Next
    <3>1. PICK u \in Vertices, v \in Vertices, i \in PartitionIds, j \in PartitionIds :
              Places(u, i, v, j) \/ EndsEarly(u, i, v)
      BY <2>2, CallKinds
    <3>2. Grows
      BY <3>1, PlacedIsKnown, EarlyEndIsKnown DEF Places
    <3>3. ASSUME NEW e \in seen
          PROVE  \/ Stored(e[1], e[2])'
                 \/ \E p \in PartitionIds : Knows(p, e[1])' /\ Knows(p, e[2])'
                 \/ \E p \in PartitionIds : StoredIn(p, e[2], e[2])'
      <4>1. CASE Stored(e[1], e[2])
        BY <3>2, <4>1, NothingIsForgotten
      <4>2. CASE \E p \in PartitionIds : Knows(p, e[1]) /\ Knows(p, e[2])
        BY <3>2, <4>2, NothingIsForgotten
      <4>3. CASE \E p \in PartitionIds : StoredIn(p, e[2], e[2])
        BY <3>2, <4>3, NothingIsForgotten
      <4> QED
        BY <4>1, <4>2, <4>3 DEF LostEdgesAreKnown
    <3>4. \/ Stored(u, v)'
          \/ Knows(i, u)' /\ Knows(i, v)'
          \/ StoredIn(i, v, v)'
      BY <3>1, PlacedIsKnown, EarlyEndIsKnown DEF Places
    <3>5. seen' = seen \cup {<<u, v>>}
      BY <3>1 DEF Places, EndsEarly, Answer
    <3> QED
      BY <3>3, <3>4, <3>5 DEF LostEdgesAreKnown
  <2> QED
    BY <2>1, <2>2
<1> QED
  BY <1>1, <1>2, TypeCorrect, PTL DEF Spec
=============================================================================
