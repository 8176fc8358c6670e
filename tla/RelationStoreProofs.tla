------------------------ MODULE RelationStoreProofs ------------------------
(***************************************************************************)
(* Theorems about RelationStore, for every set of IDs and every capacity   *)
(* of the two files: the types of its variables, the exactness of the      *)
(* relation lists between any two file writes, and what follows from it:   *)
(* a crash costs the newest relation at most, a reader is never moved and  *)
(* meets every relation of its node once, a call of addEdge keeps its      *)
(* promise, and the files implement UndirectedGraph.                       *)
(***************************************************************************)
EXTENDS RelationStore, LinkRecursion, SequenceTheorems, FiniteSetTheorems, TLAPS

(* The part of TypeOK that a write to the relation file touches.           *)
RelationsTyped ==
    /\ relationsDB \in [RelationIndexes -> [RelationOffsets -> Nat]]
    /\ \A r \in RelationIndexes : \A o \in LinkOffsets : relationsDB[r][o] \in RelationRefs

(* A link written to a relation block keeps the file well typed.           *)
LEMMA WriteIsTyped ==
    ASSUME RelationsTyped, NEW r \in RelationRefs, NEW o \in LinkOffsets, NEW d \in RelationRefs,
           updateRelationRecords(r, o, d)
    PROVE  RelationsTyped'
  <1>1. relationsDB' \in [RelationIndexes -> [RelationOffsets -> Nat]]
     <2>1. r \in RelationIndexes => [relationsDB[r] EXCEPT ![o] = d] \in [RelationOffsets -> Nat]
        BY CapacityAssumption DEF RelationsTyped, RelationRefs, RelationIndexes, Null, LinkOffsets
     <2>2. relationsDB' = [relationsDB EXCEPT ![r] = [relationsDB[r] EXCEPT ![o] = d]]
        BY DEF RelationsTyped, updateRelationRecords, RelationIndexes
     <2> QED
        BY <2>1, <2>2 DEF RelationsTyped
  <1>2. \A q \in RelationIndexes : \A p \in LinkOffsets : relationsDB'[q][p] \in RelationRefs
     BY DEF RelationsTyped, updateRelationRecords, LinkOffsets
  <1> QED
     BY <1>1, <1>2 DEF RelationsTyped

(* It changes the record it names and nothing else.                        *)
LEMMA WriteChangesOneRecord ==
    ASSUME RelationsTyped, NEW r \in RelationIndexes, NEW o \in LinkOffsets, NEW d,
           updateRelationRecords(r, o, d)
    PROVE  /\ relationsDB'[r][o] = d
           /\ \A q \in RelationIndexes : \A p \in RelationOffsets :
                 q # r \/ p # o => relationsDB'[q][p] = relationsDB[q][p]
  BY DEF RelationsTyped, updateRelationRecords, LinkOffsets
-----------------------------------------------------------------------------
(* The types are inductive once the running call's arguments are known to  *)
(* be IDs: addNode looks them up in the index.                             *)
EdgeNamed ==
    pc = "addNode" => edge["source"] \in Ids /\ edge["destination"] \in Ids

TypeInv == TypeOK /\ EdgeNamed

(* The initial state is well typed.                                        *)
LEMMA InitTypeInv == Init => TypeInv
  BY CapacityAssumption
  DEF Init, TypeInv, TypeOK, EdgeNamed, NodeIndexes, RelationIndexes, RelationRefs,
      RelationOffsets, LinkOffsets, NodeBlock, NoEdge, NoNodes, BlankRelation, Sides,
      Null, NotIndexed

(* Every file write and every turn of addEdge keeps the variables' types.  *)
LEMMA StepTypeInv == TypeInv /\ [Next]_vars => TypeInv'
  <1> SUFFICES ASSUME TypeInv, [Next]_vars PROVE TypeInv'
      OBVIOUS
  <1> USE CapacityAssumption
      DEF TypeInv, TypeOK, EdgeNamed, NodeIndexes, RelationIndexes, RelationRefs,
          Sides, Null, NotIndexed
  <1>1. ASSUME NEW id \in Ids, AddNode(id) PROVE TypeInv'
      BY <1>1 DEF AddNode, insertNode, call
  <1>2. ASSUME NEW s \in Ids, NEW d \in Ids, AddEdge(s, d) PROVE TypeInv'
      BY <1>2 DEF AddEdge, disk, memory
  <1>3. CASE InsertNode
      <2>1. edge[side] \in Ids
          BY <1>3 DEF InsertNode
      <2>2. nodeIndex' \in [Ids -> NodeIndexes \cup {NotIndexed}] /\ nodesDB' \in [NodeIndexes -> RelationRefs]
            /\ nextNodeIndex' \in 0 .. MaxNodes
          BY <1>3, <2>1 DEF InsertNode, insertNode
      <2>3. node' \in [Sides -> NodeBlock]
          BY <1>3 DEF InsertNode, insertNode, NodeBlock
      <2> QED
          BY <1>3, <2>2, <2>3 DEF InsertNode, OtherSideOr
  <1>4. CASE GetNode
      <2>1. edge[side] \in Ids
          BY <1>4 DEF GetNode
      <2>2. node' \in [Sides -> NodeBlock]
          BY <1>4, <2>1 DEF GetNode, NodeBlock
      <2> QED
          BY <1>4, <2>2 DEF GetNode, OtherSideOr, disk, memory
  <1>5. CASE Decide
      BY <1>5 DEF Decide, disk, memory, NodeBlock
  <1>6. CASE SearchVisit
      <2>1. NextIn(current, node["source"].addr) \in RelationRefs
          BY <1>6 DEF SearchVisit, NextIn, NextOffset, LinkOffsets, RelationOffsets
      <2> QED
          BY <1>6, <2>1 DEF SearchVisit, Return, disk, memory, NodeBlock, NoEdge, NoNodes
  <1>7. CASE SearchExhausted
      BY <1>7 DEF SearchExhausted, disk, memory, call
  <1>8. CASE AddRelation
      <2> DEFINE block == [BlankRelation EXCEPT !["SOURCE"] = node["source"].addr,
                                                !["DESTINATION"] = node["destination"].addr]
      <2>1. /\ block \in [RelationOffsets -> Nat]
            /\ \A o \in LinkOffsets : block[o] = 0
          <3>1. node["source"].addr \in Nat /\ node["destination"].addr \in Nat
              BY DEF NodeBlock
          <3> QED
              BY <3>1 DEF BlankRelation, LinkOffsets
      <2>2. relationsDB' = [relationsDB EXCEPT ![nextRelationIndex] = block]
          BY <1>8 DEF AddRelation
      <2> HIDE DEF block
      <2>3. /\ relationsDB' \in [RelationIndexes -> [RelationOffsets -> Nat]]
            /\ \A r \in RelationIndexes : \A o \in LinkOffsets : relationsDB'[r][o] \in RelationRefs
          BY <2>1, <2>2
      <2>4. /\ nextRelationIndex' \in 1 .. (MaxRelations + 1)
            /\ newRelation' \in RelationRefs
          BY <1>8 DEF AddRelation
      <2>5. /\ pc' = "linkHead"
            /\ UNCHANGED <<nodeIndex, nextNodeIndex, nodesDB, side, edge, node, current>>
          BY <1>8 DEF AddRelation
      <2> QED
          BY <2>3, <2>4, <2>5
  <1>9. CASE LinkHead
      <2> DEFINE head == node[side].edgeRef
                 offset == PreviousOffset(head, node[side].addr)
      <2>1. head \in RelationRefs /\ offset \in LinkOffsets
          BY DEF NodeBlock, PreviousOffset, LinkOffsets, RelationOffsets
      <2>2. RelationsTyped
          BY DEF RelationsTyped
      <2>3. updateRelationRecords(head, offset, newRelation) \/ relationsDB' = relationsDB
          BY <1>9 DEF LinkHead
      <2> HIDE DEF head, offset
      <2>4. RelationsTyped'
          BY <2>1, <2>2, <2>3, WriteIsTyped DEF RelationsTyped
      <2> QED
          BY <1>9, <2>4 DEF LinkHead, memory, call, RelationsTyped
  <1>10. CASE NoHead
      BY <1>10 DEF NoHead, disk, memory, call
  <1>11. CASE LinkNew
      <2> DEFINE head == node[side].edgeRef
                 offset == NextOffset(newRelation, node[side].addr)
      <2>1. head \in RelationRefs /\ offset \in LinkOffsets
          BY DEF NodeBlock, NextOffset, LinkOffsets, RelationOffsets
      <2>2. RelationsTyped
          BY DEF RelationsTyped
      <2>3. updateRelationRecords(newRelation, offset, head) \/ relationsDB' = relationsDB
          BY <1>11 DEF LinkNew
      <2> HIDE DEF head, offset
      <2>4. RelationsTyped'
          BY <2>1, <2>2, <2>3, WriteIsTyped DEF RelationsTyped
      <2> QED
          BY <1>11, <2>4 DEF LinkNew, memory, call, RelationsTyped
  <1>12. CASE SetRelationHead
      <2>1. nodesDB' \in [NodeIndexes -> RelationRefs]
          BY <1>12 DEF SetRelationHead
      <2>2. node' \in [Sides -> NodeBlock]
          BY <1>12 DEF SetRelationHead, NodeBlock, Return, NoNodes
      <2> QED
          BY <1>12, <2>1, <2>2 DEF SetRelationHead, Return, NoEdge, memory
  <1>13. CASE UNCHANGED vars
      BY <1>13 DEF vars
  <1> QED
      BY <1>1, <1>2, <1>3, <1>4, <1>5, <1>6, <1>7, <1>8, <1>9, <1>10, <1>11, <1>12, <1>13
      DEF Next, Step

(* All variables keep their types in every behaviour of the store.         *)
THEOREM TypeCorrect == Spec => []TypeOK
  <1>1. TypeInv => TypeOK
      BY DEF TypeInv
  <1> QED
      BY <1>1, InitTypeInv, StepTypeInv, PTL DEF Spec

-----------------------------------------------------------------------------
(***************************************************************************)
(* The relation lists of RelationStore are exact between any two file      *)
(* writes, for every set of IDs and every capacity: ListsInv is inductive. *)
(* The lemmas below treat one action each; what they have in common is     *)
(* that a step either leaves the files alone, or writes a record that no   *)
(* published block is reached through.                                     *)
(***************************************************************************)

(* The half of ListsInv that speaks of the files and the index only.       *)
DiskInv ==
    /\ IndexInjective
    /\ EndsAreNodes
    /\ HeadsBelong
    /\ NextLinksExact
    /\ PreviousInvertsNext
    /\ NoDuplicateRelation

(* Nothing that only moves the call along disturbs the files' half.        *)
LEMMA DiskInvKept ==
    ASSUME DiskInv, UNCHANGED <<nodesDB, relationsDB, nodeIndex, nextNodeIndex, nextRelationIndex>>
    PROVE  DiskInv'
  <1>1. IndexInjective'
      BY DEF DiskInv, IndexInjective
  <1>2. EndsAreNodes'
      BY DEF DiskInv, EndsAreNodes, Stored, Nodes
  <1>3. HeadsBelong'
      BY DEF DiskInv, HeadsBelong, Stored, Nodes, Incident, Joins, IsSource, IsDestination
  <1>4. NextLinksExact'
      BY DEF DiskInv, NextLinksExact, NearestBelow, Linked, Stored, Nodes, Incident, Joins, IsSource,
             IsDestination, NextIn, NextOffset
  <1>5. PreviousInvertsNext'
      BY DEF DiskInv, PreviousInvertsNext, Linked, Stored, Nodes, Incident, Joins, IsSource,
             IsDestination, NextIn, NextOffset, PreviousIn, PreviousOffset
  <1>6. NoDuplicateRelation'
      BY DEF DiskInv, NoDuplicateRelation, SameEnds, Stored
  <1> QED
      BY <1>1, <1>2, <1>3, <1>4, <1>5, <1>6 DEF DiskInv

(* While no relation is being linked, every relation is published; a step  *)
(* that writes no file and stays outside the linking leaves it so.         *)
LEMMA AllPublishedKept ==
    ASSUME AllPublished, ~Linking,
           UNCHANGED <<nodesDB, relationsDB, nextNodeIndex, nextRelationIndex>>
    PROVE  AllPublished'
  BY DEF AllPublished, Linking, Nodes, Incident, Stored, Joins, IsSource, IsDestination

(* Types in the form the steps below use them.                             *)
LEMMA Typing ==
    ASSUME TypeOK
    PROVE  /\ \A n \in NodeIndexes : nodesDB[n] \in RelationRefs
           /\ nextNodeIndex \in Nat /\ nextRelationIndex \in Nat
           /\ Nodes \subseteq NodeIndexes
           /\ Stored \subseteq RelationIndexes
           /\ \A s \in Sides : node[s].addr \in NodeIndexes /\ node[s].edgeRef \in RelationRefs
           /\ NodeIndexes \subseteq Nat /\ RelationIndexes \subseteq Nat /\ RelationRefs \subseteq Nat
           /\ "source" \in Sides /\ "destination" \in Sides /\ side \in Sides
  BY CapacityAssumption
  DEF TypeOK, NodeIndexes, RelationIndexes, RelationRefs, Nodes, Stored, Sides, NodeBlock, Null

-----------------------------------------------------------------------------
(* The call begins; no file is touched.                                    *)
LEMMA AddEdgeKeepsLists ==
    ASSUME TypeInv, ListsInv, NEW s \in Ids, NEW d \in Ids, AddEdge(s, d)
    PROVE  ListsInv'
  <1>1. DiskInv'
      BY DiskInvKept DEF ListsInv, DiskInv, AddEdge, disk, memory
  <1>2. AllPublished'
      BY AllPublishedKept DEF ListsInv, AddEdge, disk, memory, Linking
  <1>3. BeforeLinking'
      BY DEF ListsInv, AddEdge, BeforeLinking, Sides
  <1>4. DuringLinking' /\ NeverThrows'
      BY DEF AddEdge, DuringLinking, Linking, NeverThrows
  <1> QED
      BY <1>1, <1>2, <1>3, <1>4 DEF ListsInv, DiskInv

(* A copy is read from a block whose list is exact.                        *)
LEMMA GetNodeKeepsLists ==
    ASSUME TypeInv, ListsInv, GetNode
    PROVE  ListsInv'
  <1>1. DiskInv'
      BY DiskInvKept DEF ListsInv, DiskInv, GetNode, disk, memory
  <1>2. AllPublished'
      BY AllPublishedKept DEF ListsInv, GetNode, disk, memory, Linking
  <1>3. BeforeLinking'
      <2>1. edge[side] \in Ids /\ side \in Sides
          BY DEF TypeInv, EdgeNamed, GetNode, TypeOK, Sides
      <2>2. nodeIndex[edge[side]] \in Nodes
          BY <2>1, CapacityAssumption
          DEF TypeInv, TypeOK, GetNode, ListsInv, IndexInjective, Nodes, NodeIndexes, NotIndexed
      <2>3. /\ node'[side].addr \in Nodes'
            /\ node'[side].edgeRef = nodesDB'[node'[side].addr]
          BY <2>1, <2>2 DEF GetNode, TypeInv, TypeOK, disk, memory, Nodes
      <2>4. CASE side = "source"
          BY <2>1, <2>3, <2>4 DEF GetNode, BeforeLinking, OtherSideOr, ListsInv, Fresh
      <2>5. CASE side = "destination"
          <3>1. Fresh("source")'
              BY <2>5 DEF GetNode, ListsInv, BeforeLinking, Fresh, TypeInv, TypeOK, Sides, disk, memory, Nodes
          <3> QED
              BY <2>3, <2>5, <3>1 DEF GetNode, BeforeLinking, OtherSideOr, ListsInv, Fresh
      <2> QED
          BY <2>1, <2>4, <2>5 DEF Sides
  <1>4. DuringLinking' /\ NeverThrows'
      <2>1. pc' \in {"addNode", "decide"}
          BY DEF GetNode, OtherSideOr
      <2> QED
          BY <2>1 DEF DuringLinking, Linking, NeverThrows
  <1> QED
      BY <1>1, <1>2, <1>3, <1>4 DEF ListsInv, DiskInv

(* addRelation may skip the search when either list is empty: a node       *)
(* without a head has no relation at all, so none joins the two nodes.     *)
LEMMA DecideKeepsLists ==
    ASSUME TypeInv, ListsInv, Decide
    PROVE  ListsInv'
  <1>1. DiskInv'
      BY DiskInvKept DEF ListsInv, DiskInv, Decide, disk, memory
  <1>2. AllPublished'
      BY AllPublishedKept DEF ListsInv, Decide, disk, memory, Linking
  <1>3. Fresh("source") /\ Fresh("destination") /\ side = "source"
      BY DEF ListsInv, BeforeLinking, Decide
  <1>4. \A s \in Sides : \A q \in Incident(node[s].addr) : q <= node[s].edgeRef
      BY <1>3 DEF Fresh, ListsInv, AllPublished, Linking, Decide, Sides
  <1>5. BeforeLinking'
      <2>1. Fresh("source")' /\ Fresh("destination")' /\ side' = "source"
          BY <1>3 DEF Fresh, Decide, Nodes, disk, memory
      <2>2. pc' = "add" => NotYetRelated'
          <3> SUFFICES ASSUME pc' = "add",
                              NEW q \in Stored,
                              Joins(q, node["source"].addr),
                              Other(q, node["source"].addr) = node["destination"].addr
                       PROVE  FALSE
              BY DEF NotYetRelated, Decide, disk, memory, Stored, Joins, IsSource, IsDestination, Other
          <3>1. q \in Incident(node["source"].addr) /\ q \in Incident(node["destination"].addr)
              BY DEF Incident, Joins, Other, IsSource, IsDestination
          <3>2. PICK s \in Sides : node[s].edgeRef = Null
              BY DEF Decide
          <3>3. q <= Null
              BY <1>4, <3>1, <3>2 DEF Sides
          <3> QED
              BY <3>3 DEF Null, Stored
      <2>3. pc' = "search" =>
              /\ current' # Null => current' \in Incident(node["source"].addr)
              /\ \A q \in Incident(node["source"].addr) : ~(q > current')
          <3> SUFFICES ASSUME pc' = "search"
                       PROVE  /\ current' # Null => current' \in Incident(node["source"].addr)
                              /\ \A q \in Incident(node["source"].addr) : ~(q > current')
              OBVIOUS
          <3>1. current' = node["source"].edgeRef
              BY DEF Decide
          <3>2. current' \in Nat
              BY <3>1, Typing DEF TypeInv
          <3>3. \A q \in Incident(node["source"].addr) : q \in Nat
              BY Typing DEF TypeInv, Incident
          <3>4. \A q \in Incident(node["source"].addr) : q <= current'
              BY <1>4, <3>1 DEF Sides
          <3> QED
              BY <1>3, <3>1, <3>2, <3>3, <3>4 DEF Fresh, ListsInv, HeadsBelong
      <2> QED
          BY <2>1, <2>2, <2>3
          DEF BeforeLinking, Decide, disk, memory, Incident, Stored, Joins, IsSource, IsDestination
  <1>6. DuringLinking' /\ NeverThrows'
      BY DEF Decide, DuringLinking, Linking, NeverThrows
  <1> QED
      BY <1>1, <1>2, <1>5, <1>6 DEF ListsInv, DiskInv

(* The search stays on the source's list and has seen all of it down to    *)
(* the block it stands on, so running out of blocks proves the edge new.   *)
LEMMA SearchVisitKeepsLists ==
    ASSUME TypeInv, ListsInv, SearchVisit
    PROVE  ListsInv'
  <1> DEFINE this == node["source"].addr
             with == node["destination"].addr
  <1>1. DiskInv'
      BY DiskInvKept DEF ListsInv, DiskInv, SearchVisit, disk, memory
  <1>2. AllPublished'
      BY AllPublishedKept DEF ListsInv, SearchVisit, disk, memory, Linking
  <1>3. /\ Fresh("source") /\ Fresh("destination") /\ side = "source"
        /\ current \in Incident(this)
        /\ \A q \in Incident(this) : q > current => Other(q, this) # with
      BY DEF ListsInv, BeforeLinking, SearchVisit
  <1>4. Joins(current, this)
      BY <1>3 DEF Incident
  <1>5. CASE Other(current, this) = with
      <2>1. pc' = "idle"
          BY <1>4, <1>5 DEF SearchVisit, Return
      <2> QED
          BY <1>1, <1>2, <2>1 DEF ListsInv, DiskInv, BeforeLinking, DuringLinking, Linking, NeverThrows
  <1>6. CASE Other(current, this) # with
      <2>1. /\ pc' = "search"
            /\ current' = NextIn(current, this)
            /\ UNCHANGED <<disk, memory, side, edge, node>>
          BY <1>4, <1>6 DEF SearchVisit
      <2>2. NearestBelow(current', current, this)
          BY <1>3, <2>1 DEF ListsInv, AllPublished, NextLinksExact, Linked, Fresh, SearchVisit, Linking
      <2>3. /\ current' # Null => current' \in Incident(this)
            /\ \A q \in Incident(this) : q > current' => Other(q, this) # with
          <3>1. \A q \in Incident(this) : q \in Nat
              BY Typing DEF TypeInv, Incident
          <3>2. current' # Null => current' \in Incident(this)
              BY <2>2 DEF NearestBelow
          <3>3. current' \in Nat
              BY <3>1, <3>2 DEF Null
          <3> QED
              BY <1>3, <1>6, <2>2, <3>1, <3>2, <3>3 DEF NearestBelow
      <2>4. BeforeLinking'
          BY <1>3, <2>1, <2>3
          DEF BeforeLinking, Fresh, Nodes, disk, memory, Incident, Stored, Joins, IsSource,
              IsDestination, Other
      <2> QED
          BY <1>1, <1>2, <2>1, <2>4 DEF ListsInv, DiskInv, DuringLinking, Linking, NeverThrows
  <1> QED
      BY <1>5, <1>6

(* The list was walked to its end without a relation to the other node.    *)
LEMMA SearchExhaustedKeepsLists ==
    ASSUME TypeInv, ListsInv, SearchExhausted
    PROVE  ListsInv'
  <1>1. DiskInv'
      BY DiskInvKept DEF ListsInv, DiskInv, SearchExhausted, disk, memory
  <1>2. AllPublished'
      BY AllPublishedKept DEF ListsInv, SearchExhausted, disk, memory, Linking
  <1>3. NotYetRelated
      <2>1. \A q \in Incident(node["source"].addr) :
                q > Null => Other(q, node["source"].addr) # node["destination"].addr
          BY DEF ListsInv, BeforeLinking, SearchExhausted
      <2>2. \A q \in Stored : q > Null
          BY DEF Stored, Null
      <2> QED
          BY <2>1, <2>2 DEF NotYetRelated, Incident
  <1>4. BeforeLinking'
      BY <1>3
      DEF ListsInv, BeforeLinking, SearchExhausted, NotYetRelated, Fresh, Nodes, Stored, Joins,
          IsSource, IsDestination, Other, disk, memory, call
  <1>5. DuringLinking' /\ NeverThrows'
      BY DEF SearchExhausted, DuringLinking, Linking, NeverThrows
  <1> QED
      BY <1>1, <1>2, <1>4, <1>5 DEF ListsInv, DiskInv

(* An empty list needs no link: the blank one of the new relation is right. *)
LEMMA NoHeadKeepsLists ==
    ASSUME TypeInv, ListsInv, NoHead
    PROVE  ListsInv'
  <1>1. DiskInv'
      BY DiskInvKept DEF ListsInv, DiskInv, NoHead, disk, memory
  <1>2. AllPublished'
      BY DEF ListsInv, NoHead, disk, memory, call, AllPublished, Linking, Pending, Nodes, Incident,
             Stored, Joins, IsSource, IsDestination
  <1>3. BeforeLinking' /\ NeverThrows'
      BY DEF NoHead, BeforeLinking, NeverThrows
  <1>4. side \in Pending
      BY DEF TypeInv, TypeOK, Sides, Pending
  <1>5. NextIn(newRelation, node[side].addr) = node[side].edgeRef
      BY <1>4 DEF ListsInv, DuringLinking, Linking, AwaitsLink, NoHead
  <1>6. DuringLinking'
      <2> USE DEF NoHead, disk, memory, call
      <2>1. UNCHANGED <<newRelation, nextRelationIndex, nodesDB, relationsDB, node, side, nextNodeIndex>>
          OBVIOUS
      <2>2. \A s \in Pending : AwaitsLink(s)'
          BY <2>1 DEF ListsInv, DuringLinking, Linking, AwaitsLink, NearestBelow, Nodes, Incident, Stored,
             Joins, IsSource, IsDestination, NextIn, NextOffset
      <2>3. \A s \in Sides : Fresh(s) => Fresh(s)'
          BY <2>1 DEF Fresh, Nodes
      <2>4. NextIn(newRelation, node[side].addr)' = node'[side].edgeRef
          BY <1>5, <2>1 DEF NextIn, NextOffset, IsSource
      <2>5. Pending' = Pending /\ Stored' = Stored
          BY <2>1 DEF Pending, Stored
      <2> QED
          BY <2>1, <2>2, <2>3, <2>4, <2>5
          DEF ListsInv, DuringLinking, Linking, IsSource, IsDestination, Sides
  <1> QED
      BY <1>1, <1>2, <1>3, <1>6 DEF ListsInv, DiskInv

-----------------------------------------------------------------------------
(* A fresh node block has no relations and disturbs nobody else's.         *)
LEMMA InsertedNode ==
    ASSUME TypeInv, DiskInv, NEW id \in Ids, insertNode(id), NEW m, m = nextNodeIndex,
           UNCHANGED <<relationsDB, nextRelationIndex>>
    PROVE  /\ Nodes' = Nodes \cup {m} /\ m \notin Nodes
           /\ nodesDB'[m] = Null /\ \A n \in Nodes : nodesDB'[n] = nodesDB[n]
           /\ \A n : Incident(n)' = Incident(n)
           /\ Incident(m) = {}
           /\ DiskInv'
  <1>1. Nodes' = Nodes \cup {m} /\ m \notin Nodes /\ m \in NodeIndexes
      BY Typing, CapacityAssumption DEF TypeInv, TypeOK, insertNode, Nodes, NodeIndexes
  <1>2. nodesDB'[m] = Null /\ \A n \in Nodes : nodesDB'[n] = nodesDB[n]
      BY <1>1, Typing DEF insertNode, TypeInv, TypeOK
  <1>3. Stored' = Stored
      BY DEF Stored
  <1>4. \A n : Incident(n)' = Incident(n)
      BY <1>3 DEF Incident, Joins, IsSource, IsDestination
  <1>5. Incident(m) = {}
      BY <1>1 DEF DiskInv, EndsAreNodes, Incident, Joins, IsSource, IsDestination
  <1>6. IndexInjective'
      BY CapacityAssumption
      DEF DiskInv, IndexInjective, insertNode, TypeInv, TypeOK, NodeIndexes, NotIndexed
  <1>7. EndsAreNodes'
      BY <1>1, <1>3 DEF DiskInv, EndsAreNodes
  <1>8. HeadsBelong'
      BY <1>1, <1>2, <1>4 DEF DiskInv, HeadsBelong
  <1>9. \A n \in Nodes' : \A r \in Linked(n)' : n \in Nodes /\ r \in Linked(n)
      BY <1>1, <1>2, <1>4, <1>5 DEF Linked
  <1>10. \A r, n : NextIn(r, n)' = NextIn(r, n) /\ PreviousIn(r, n)' = PreviousIn(r, n)
      BY DEF NextIn, NextOffset, PreviousIn, PreviousOffset, IsSource
  <1>11. NextLinksExact'
      BY <1>4, <1>9, <1>10 DEF DiskInv, NextLinksExact, NearestBelow
  <1>12. PreviousInvertsNext'
      BY <1>9, <1>10 DEF DiskInv, PreviousInvertsNext
  <1>13. NoDuplicateRelation'
      BY <1>3 DEF DiskInv, NoDuplicateRelation, SameEnds
  <1> QED
      BY <1>1, <1>2, <1>4, <1>5, <1>6, <1>7, <1>8, <1>11, <1>12, <1>13 DEF DiskInv

(* A message without an edge touches no list.                              *)
LEMMA AddNodeKeepsLists ==
    ASSUME TypeInv, ListsInv, NEW id \in Ids, AddNode(id)
    PROVE  ListsInv'
  <1>1. DiskInv
      BY DEF ListsInv, DiskInv
  <1>2. insertNode(id) /\ UNCHANGED <<relationsDB, nextRelationIndex>> /\ pc = "idle" /\ pc' = "idle"
      BY DEF AddNode
  <1>3. PICK m : m = nextNodeIndex
      OBVIOUS
  <1>4. DiskInv' /\ AllPublished'
      BY <1>1, <1>2, <1>3, InsertedNode DEF ListsInv, AllPublished, Linking
  <1>5. BeforeLinking' /\ DuringLinking' /\ NeverThrows'
      BY <1>2 DEF BeforeLinking, DuringLinking, Linking, NeverThrows
  <1> QED
      BY <1>4, <1>5 DEF ListsInv, DiskInv

(* A new block has an empty list and no relation.                          *)
LEMMA InsertNodeKeepsLists ==
    ASSUME TypeInv, ListsInv, InsertNode
    PROVE  ListsInv'
  <1>1. DiskInv /\ edge[side] \in Ids /\ side \in Sides
      BY DEF ListsInv, DiskInv, InsertNode, TypeInv, TypeOK, EdgeNamed, Sides
  <1>2. insertNode(edge[side]) /\ UNCHANGED <<relationsDB, nextRelationIndex>> /\ pc = "addNode"
      BY DEF InsertNode
  <1>3. PICK m : m = nextNodeIndex
      OBVIOUS
  <1>4. /\ Nodes' = Nodes \cup {m} /\ m \notin Nodes
        /\ nodesDB'[m] = Null /\ \A n \in Nodes : nodesDB'[n] = nodesDB[n]
        /\ \A n : Incident(n)' = Incident(n)
        /\ Incident(m) = {}
        /\ DiskInv'
      BY <1>1, <1>2, <1>3, InsertedNode
  <1>5. AllPublished'
      BY <1>2, <1>4 DEF ListsInv, AllPublished, Linking
  <1>6. BeforeLinking'
      <2>1. node'[side].addr = m /\ node'[side].edgeRef = Null
          BY <1>1, <1>3 DEF InsertNode, TypeInv, TypeOK
      <2>2. CASE side = "source"
          BY <1>4, <2>1, <2>2 DEF InsertNode, OtherSideOr, ListsInv, BeforeLinking, Fresh
      <2>3. CASE side = "destination"
          <3>1. node'["source"] = node["source"] /\ Fresh("source")
              BY <2>3 DEF InsertNode, ListsInv, BeforeLinking, TypeInv, TypeOK, Sides
          <3> QED
              BY <1>4, <2>1, <2>3, <3>1 DEF InsertNode, OtherSideOr, BeforeLinking, Fresh
      <2> QED
          BY <1>1, <2>2, <2>3 DEF Sides
  <1>7. DuringLinking' /\ NeverThrows'
      <2>1. pc' \in {"addNode", "decide"}
          BY DEF InsertNode, OtherSideOr
      <2> QED
          BY <2>1 DEF DuringLinking, Linking, NeverThrows
  <1> QED
      BY <1>4, <1>5, <1>6, <1>7 DEF ListsInv, DiskInv

-----------------------------------------------------------------------------
(* The new block is reached by no link yet, and the two lists it will join *)
(* end, for it, at the heads the call remembers.                           *)
LEMMA AddRelationKeepsLists ==
    ASSUME TypeInv, ListsInv, AddRelation
    PROVE  ListsInv'
  <1>1. PICK r0, a, b : /\ r0 = nextRelationIndex
                        /\ a = node["source"].addr
                        /\ b = node["destination"].addr
      OBVIOUS
  <1>2. /\ r0 \in RelationIndexes /\ r0 \in Nat /\ r0 > 0
        /\ Stored' = Stored \cup {r0}
        /\ \A q \in Stored : q \in RelationIndexes /\ q \in Nat /\ q < r0
        /\ UNCHANGED <<nodeIndex, nextNodeIndex, nodesDB, side, edge, node, current>>
        /\ newRelation' = r0 /\ nextRelationIndex' = r0 + 1 /\ pc = "add" /\ pc' = "linkHead"
      BY <1>1, CapacityAssumption DEF AddRelation, TypeInv, TypeOK, Stored, RelationIndexes
  <1>3. /\ relationsDB'[r0]["SOURCE"] = a
        /\ relationsDB'[r0]["DESTINATION"] = b
        /\ \A o \in LinkOffsets : relationsDB'[r0][o] = Null
        /\ \A q \in RelationIndexes : q # r0 => relationsDB'[q] = relationsDB[q]
      <2>1. relationsDB' = [relationsDB EXCEPT ![r0] =
                               [BlankRelation EXCEPT !["SOURCE"] = a, !["DESTINATION"] = b]]
          BY <1>1 DEF AddRelation
      <2> QED
          BY <1>2, <2>1 DEF TypeInv, TypeOK, BlankRelation, RelationOffsets, LinkOffsets, Null
  <1>4. /\ \A q \in Stored : relationsDB'[q] = relationsDB[q]
        /\ \A q \in Stored : \A n : /\ Joins(q, n)' <=> Joins(q, n)
                                    /\ NextIn(q, n)' = NextIn(q, n)
                                    /\ PreviousIn(q, n)' = PreviousIn(q, n)
      BY <1>2, <1>3
      DEF Joins, IsSource, IsDestination, NextIn, NextOffset, PreviousIn, PreviousOffset
  <1>5. \A n : Incident(n)' = Incident(n) \cup (IF n \in {a, b} THEN {r0} ELSE {})
      BY <1>2, <1>3, <1>4 DEF Incident, Joins, IsSource, IsDestination
  <1>6. /\ Fresh("source") /\ Fresh("destination") /\ side = "source" /\ NotYetRelated
        /\ a \in Nodes /\ b \in Nodes
      BY <1>1, <1>2 DEF ListsInv, BeforeLinking, Fresh
  <1>7. \A n \in Nodes : nodesDB[n] \in Nat /\ nodesDB[n] < r0
      <2>1. \A n \in Nodes : nodesDB[n] = Null \/ nodesDB[n] \in Stored
          BY DEF ListsInv, HeadsBelong, Incident
      <2> QED
          BY <1>2, <2>1 DEF Null
  <1>8. \A n \in Nodes : Linked(n)' = Linked(n)
      BY <1>2, <1>5, <1>7 DEF Linked
  <1>9. Nodes' = Nodes
      BY <1>2 DEF Nodes
  <1>10. IndexInjective'
      BY <1>2 DEF ListsInv, IndexInjective
  <1>11. EndsAreNodes'
      BY <1>2, <1>3, <1>4, <1>6, <1>9 DEF ListsInv, EndsAreNodes
  <1>12. HeadsBelong'
      BY <1>2, <1>5, <1>9 DEF ListsInv, HeadsBelong
  <1>13. NextLinksExact'
      <2>1. SUFFICES ASSUME NEW n \in Nodes, NEW r \in Linked(n)
                     PROVE  NearestBelow(NextIn(r, n), r, n)'
          BY <1>8, <1>9 DEF NextLinksExact
      <2>2. r \in Stored /\ NearestBelow(NextIn(r, n), r, n)
          BY DEF ListsInv, NextLinksExact, Linked, Incident
      <2> QED
          BY <1>2, <1>4, <1>5, <2>2 DEF NearestBelow
  <1>14. PreviousInvertsNext'
      <2>1. SUFFICES ASSUME NEW n \in Nodes, NEW r \in Linked(n), NextIn(r, n)' # Null
                     PROVE  PreviousIn(NextIn(r, n), n)' = r
          BY <1>8, <1>9 DEF PreviousInvertsNext
      <2>2. r \in Stored /\ NextIn(r, n)' = NextIn(r, n)
          BY <1>4 DEF Linked, Incident
      <2>3. NextIn(r, n) \in Stored
          BY <2>1, <2>2 DEF ListsInv, NextLinksExact, NearestBelow, Incident
      <2>4. PICK x : x = NextIn(r, n)
          OBVIOUS
      <2>5. PreviousIn(x, n)' = r
          BY <1>4, <2>1, <2>2, <2>3, <2>4 DEF ListsInv, PreviousInvertsNext
      <2> QED
          BY <2>2, <2>4, <2>5 DEF PreviousIn, PreviousOffset, IsSource
  <1>15. NoDuplicateRelation'
      <2>1. \A q \in Stored : ~SameEnds(q, r0)' /\ ~SameEnds(r0, q)'
          BY <1>1, <1>2, <1>3, <1>4, <1>6
          DEF SameEnds, NotYetRelated, Joins, Other, IsSource, IsDestination
      <2>2. \A q, r \in Stored : SameEnds(q, r)' <=> SameEnds(q, r)
          BY <1>4 DEF SameEnds
      <2> QED
          BY <1>2, <2>1, <2>2 DEF ListsInv, NoDuplicateRelation
  <1>16. AllPublished'
      <2>1. \A n \in Nodes : \A r \in Incident(n) : r <= nodesDB[n]
          BY <1>2 DEF ListsInv, AllPublished, Linking
      <2>2. \A n \in {a, b} : \E s \in Pending' : n = node'[s].addr
          BY <1>1, <1>2, <1>6 DEF Pending, Sides
      <2> QED
          BY <1>2, <1>5, <1>9, <2>1, <2>2 DEF AllPublished, Linking
  <1>17. BeforeLinking' /\ NeverThrows'
      BY <1>2 DEF BeforeLinking, NeverThrows
  <1>18. DuringLinking'
      <2>1. newRelation' \in Stored' /\ newRelation' = nextRelationIndex' - 1
          BY <1>2
      <2>2. IsSource(newRelation, node["source"].addr)' /\ IsDestination(newRelation, node["destination"].addr)'
          BY <1>1, <1>2, <1>3 DEF IsSource, IsDestination
      <2>3. \A s \in Sides : Fresh(s)' /\ Fresh(s)
          BY <1>2, <1>6, <1>9 DEF Fresh, Sides
      <2>4. \A s \in Sides : AwaitsLink(s)'
          <3>1. SUFFICES ASSUME NEW s \in Sides PROVE AwaitsLink(s)'
              OBVIOUS
          <3>2. PICK n \in Nodes : n = node[s].addr /\ n = node'[s].addr
              BY <1>2, <2>3 DEF Fresh
          <3>3. node'[s].edgeRef = nodesDB[n]
              BY <1>2, <2>3, <3>2 DEF Fresh
          <3>4. NearestBelow(nodesDB[n], r0, n)'
              BY <1>2, <1>5, <1>7 DEF NearestBelow, ListsInv, HeadsBelong, AllPublished, Linking
          <3>5. NextIn(r0, n)' = Null
              BY <1>3 DEF NextIn, NextOffset, IsSource, LinkOffsets, RelationOffsets
          <3> QED
              BY <1>2, <1>9, <3>2, <3>3, <3>4, <3>5
              DEF AwaitsLink, NearestBelow, Incident, Joins, NextIn, NextOffset, IsSource, IsDestination
      <2> QED
          BY <1>2, <1>6, <2>1, <2>2, <2>3, <2>4 DEF DuringLinking, Pending, Linking
  <1> QED
      BY <1>10, <1>11, <1>12, <1>13, <1>14, <1>15, <1>16, <1>17, <1>18 DEF ListsInv

-----------------------------------------------------------------------------
(* What the three linking steps know: the list they update is the one of   *)
(* `this`, whose next older relation is the remembered head.               *)
LEMMA LinkingFacts ==
    ASSUME TypeInv, ListsInv, Linking, NEW this, this = node[side].addr,
           NEW head, head = node[side].edgeRef
    PROVE  /\ this \in Nodes /\ this \in NodeIndexes
           /\ side \in Pending /\ side \in Sides
           /\ newRelation \in Stored /\ newRelation \in RelationIndexes
           /\ newRelation \in Incident(this)
           /\ \A q \in Stored : q \in RelationIndexes /\ q \in Nat /\ q <= newRelation
           /\ NearestBelow(head, newRelation, this)
           /\ head \in RelationRefs /\ head # newRelation
           /\ head # Null => head \in Stored /\ head \in RelationIndexes /\ head \in Incident(this)
  <1>1. side \in Pending /\ side \in Sides
      BY DEF TypeInv, TypeOK, Sides, Pending
  <1>2. newRelation \in Stored /\ newRelation = nextRelationIndex - 1 /\ AwaitsLink(side)
      BY <1>1 DEF ListsInv, DuringLinking
  <1>3. this \in Nodes /\ NearestBelow(head, newRelation, this)
      BY <1>2 DEF AwaitsLink
  <1>4. newRelation \in Incident(this)
      BY <1>1, <1>2 DEF ListsInv, DuringLinking, Incident, Joins, Sides
  <1>5. \A q \in Stored : q \in RelationIndexes /\ q \in Nat /\ q <= newRelation
      BY <1>2, Typing DEF TypeInv, TypeOK, Stored
  <1>6. head \in RelationRefs
      BY <1>1, Typing DEF TypeInv
  <1> QED
      BY <1>1, <1>2, <1>3, <1>4, <1>5, <1>6, Typing DEF NearestBelow, Incident, TypeInv

(* A write of a link leaves the ends of every relation, and so the lists   *)
(* they belong to, as they were.                                           *)
LEMMA LinkWriteKeepsEnds ==
    ASSUME TypeInv, NEW r \in RelationIndexes, NEW o \in LinkOffsets, NEW d \in RelationRefs,
           updateRelationRecords(r, o, d),
           UNCHANGED <<nodesDB, nextNodeIndex, nextRelationIndex>>
    PROVE  /\ Stored' = Stored /\ Nodes' = Nodes
           /\ \A q \in Stored : \A n : /\ IsSource(q, n)' <=> IsSource(q, n)
                                       /\ IsDestination(q, n)' <=> IsDestination(q, n)
           /\ \A n : Incident(n)' = Incident(n) /\ Linked(n)' = Linked(n)
           /\ \A q, p \in Stored : SameEnds(q, p)' <=> SameEnds(q, p)
  <1>1. Stored' = Stored /\ Nodes' = Nodes /\ Stored \subseteq RelationIndexes
      BY Typing DEF Stored, Nodes, TypeInv
  <1>2. \A q \in RelationIndexes : /\ relationsDB'[q]["SOURCE"] = relationsDB[q]["SOURCE"]
                                   /\ relationsDB'[q]["DESTINATION"] = relationsDB[q]["DESTINATION"]
      BY WriteChangesOneRecord DEF TypeInv, TypeOK, RelationsTyped, LinkOffsets, RelationOffsets
  <1>3. \A q \in Stored : \A n : /\ IsSource(q, n)' <=> IsSource(q, n)
                                 /\ IsDestination(q, n)' <=> IsDestination(q, n)
      BY <1>1, <1>2 DEF IsSource, IsDestination
  <1>4. \A n : Incident(n)' = Incident(n)
      BY <1>1, <1>3 DEF Incident, Joins
  <1>5. \A n : Linked(n)' = Linked(n)
      BY <1>4 DEF Linked
  <1> QED
      BY <1>1, <1>2, <1>3, <1>4, <1>5 DEF SameEnds

(* The back link is written where only the list of `this` reads it, and in *)
(* that list only newRelation can lead to the old head.                    *)
LEMMA LinkHeadKeepsLists ==
    ASSUME TypeInv, ListsInv, LinkHead
    PROVE  ListsInv'
  <1>1. PICK this, head, new : this = node[side].addr /\ head = node[side].edgeRef /\ new = newRelation
      OBVIOUS
  <1>2. Linking /\ head # Null
      BY <1>1 DEF LinkHead, Linking
  <1>3. /\ this \in Nodes /\ side \in Pending /\ side \in Sides
        /\ new \in Stored /\ new \in RelationIndexes /\ new \in Incident(this)
        /\ \A q \in Stored : q \in RelationIndexes /\ q \in Nat /\ q <= new
        /\ NearestBelow(head, new, this)
        /\ head \in Stored /\ head \in RelationIndexes /\ head \in Incident(this)
      BY <1>1, <1>2, LinkingFacts
  <1>4. PICK o : o = PreviousOffset(head, this)
      OBVIOUS
  <1>5. o \in LinkOffsets /\ o \in {"SOURCE_PREVIOUS", "DESTINATION_PREVIOUS"}
      BY <1>4 DEF PreviousOffset, LinkOffsets, RelationOffsets
  <1>6. /\ updateRelationRecords(head, o, new) /\ pc' = "linkNew"
        /\ UNCHANGED <<nodesDB, memory, call>>
      BY <1>1, <1>3, <1>4 DEF LinkHead, Incident
  <1>7. /\ Stored' = Stored /\ Nodes' = Nodes
        /\ \A q \in Stored : \A n : /\ IsSource(q, n)' <=> IsSource(q, n)
                                    /\ IsDestination(q, n)' <=> IsDestination(q, n)
        /\ \A n : Incident(n)' = Incident(n) /\ Linked(n)' = Linked(n)
        /\ \A q, p \in Stored : SameEnds(q, p)' <=> SameEnds(q, p)
      BY <1>3, <1>5, <1>6, LinkWriteKeepsEnds DEF memory, RelationRefs
  <1>8. /\ relationsDB'[head][o] = new
        /\ \A q \in RelationIndexes : \A p \in RelationOffsets :
              q # head \/ p # o => relationsDB'[q][p] = relationsDB[q][p]
      BY <1>3, <1>5, <1>6, WriteChangesOneRecord DEF TypeInv, TypeOK, RelationsTyped
  <1>9. \A q \in Stored : \A n : NextIn(q, n)' = NextIn(q, n)
      BY <1>3, <1>5, <1>7, <1>8 DEF NextIn, NextOffset, RelationOffsets
  <1>10. \A q \in Stored : \A n :
            /\ q = head /\ n = this => PreviousIn(q, n)' = new
            /\ Joins(q, n) /\ (q # head \/ n # this) => PreviousIn(q, n)' = PreviousIn(q, n)
      BY <1>3, <1>4, <1>5, <1>7, <1>8
      DEF PreviousIn, PreviousOffset, RelationOffsets, Joins, IsSource, IsDestination, Incident
  <1>11. IndexInjective' /\ EndsAreNodes' /\ HeadsBelong' /\ NoDuplicateRelation'
      <2>1. IndexInjective' /\ HeadsBelong' /\ NoDuplicateRelation'
          BY <1>6, <1>7 DEF ListsInv, IndexInjective, HeadsBelong, NoDuplicateRelation, memory
      <2>2. EndsAreNodes'
          BY <1>3, <1>5, <1>7, <1>8 DEF ListsInv, EndsAreNodes, RelationOffsets
      <2> QED
          BY <2>1, <2>2
  <1>12. NextLinksExact'
      BY <1>7, <1>9 DEF ListsInv, NextLinksExact, NearestBelow, Linked, Incident
  <1>13. PreviousInvertsNext'
      <2>1. SUFFICES ASSUME NEW n \in Nodes, NEW r \in Linked(n), NEW x, x = NextIn(r, n), x # Null
                     PROVE  PreviousIn(x, n)' = r
          <3>1. \A n \in Nodes : \A r \in Linked(n) : r \in Stored /\ NextIn(r, n)' = NextIn(r, n)
              BY <1>9 DEF Linked, Incident
          <3> QED
              BY <1>7, <3>1 DEF PreviousInvertsNext, PreviousIn, PreviousOffset, IsSource
      <2>2. r \in Incident(n) /\ r \in Stored /\ x \in Incident(n) /\ x \in Stored /\ x < r
            /\ PreviousIn(x, n) = r
          BY <2>1 DEF ListsInv, NextLinksExact, PreviousInvertsNext, NearestBelow, Linked, Incident
      <2>3. CASE x = head /\ n = this
          <3>1. r = new
              BY <1>3, <2>2, <2>3 DEF NearestBelow
          <3> QED
              BY <1>10, <2>2, <2>3, <3>1
      <2>4. CASE x # head \/ n # this
          BY <1>10, <2>2, <2>4 DEF Incident
      <2> QED
          BY <2>3, <2>4
  <1>14. AllPublished' /\ BeforeLinking' /\ NeverThrows'
      <2>1. AllPublished'
          BY <1>2, <1>6, <1>7 DEF ListsInv, AllPublished, Linking, Pending, call
      <2> QED
          BY <1>6, <2>1 DEF BeforeLinking, NeverThrows
  <1>15. DuringLinking'
      <2>1. UNCHANGED <<newRelation, side, node, nodesDB, nextRelationIndex>>
          BY <1>6 DEF memory, call
      <2>2. \A s \in Pending' : AwaitsLink(s)'
          <3>1. SUFFICES ASSUME NEW s \in Pending PROVE AwaitsLink(s)'
              BY <2>1 DEF Pending
          <3>2. AwaitsLink(s)
              BY <1>2 DEF ListsInv, DuringLinking
          <3>3. NextIn(newRelation, node[s].addr)' = NextIn(newRelation, node[s].addr)
              BY <1>1, <1>3, <1>9, <2>1 DEF NextIn, NextOffset, IsSource
          <3> QED
              BY <1>7, <2>1, <3>2, <3>3 DEF AwaitsLink, NearestBelow, Incident
      <2>3. \A s \in Sides : Fresh(s) => Fresh(s)'
          BY <1>7, <2>1 DEF Fresh
      <2>4. IsSource(newRelation, node["source"].addr)' /\ IsDestination(newRelation, node["destination"].addr)'
          BY <1>1, <1>2, <1>3, <1>7, <2>1 DEF ListsInv, DuringLinking, IsSource, IsDestination
      <2>5. PreviousIn(node[side].edgeRef, node[side].addr)' = newRelation'
          BY <1>1, <1>3, <1>10, <2>1 DEF PreviousIn, PreviousOffset, IsSource
      <2> QED
          BY <1>1, <1>2, <1>6, <1>7, <2>1, <2>2, <2>3, <2>4, <2>5
          DEF ListsInv, DuringLinking, Linking, Sides
  <1> QED
      BY <1>11, <1>12, <1>13, <1>14, <1>15 DEF ListsInv

(* The new relation's link is written where only the list of `this` reads   *)
(* it.  If that list is published up to the new relation already, its edge *)
(* is a self-loop and the link is written a second time.                   *)
LEMMA LinkNewKeepsLists ==
    ASSUME TypeInv, ListsInv, LinkNew
    PROVE  ListsInv'
  <1>1. PICK this, head, new : this = node[side].addr /\ head = node[side].edgeRef /\ new = newRelation
      OBVIOUS
  <1>2. Linking /\ head # Null /\ PreviousIn(head, this) = new
      BY <1>1 DEF LinkNew, Linking, ListsInv, DuringLinking
  <1>3. /\ this \in Nodes /\ side \in Pending /\ side \in Sides
        /\ new \in Stored /\ new \in RelationIndexes /\ new \in Incident(this)
        /\ \A q \in Stored : q \in RelationIndexes /\ q \in Nat /\ q <= new
        /\ NearestBelow(head, new, this) /\ head \in RelationRefs
        /\ head \in Stored /\ head \in RelationIndexes /\ head \in Incident(this)
      BY <1>1, <1>2, LinkingFacts
  <1>4. PICK o : o = NextOffset(new, this)
      OBVIOUS
  <1>5. o \in LinkOffsets /\ o \in {"SOURCE_NEXT", "DESTINATION_NEXT"}
      BY <1>4 DEF NextOffset, LinkOffsets, RelationOffsets
  <1>6. /\ updateRelationRecords(new, o, head) /\ pc' = "setHead"
        /\ UNCHANGED <<nodesDB, memory, call>>
      BY <1>1, <1>3, <1>4 DEF LinkNew, Incident
  <1>7. /\ Stored' = Stored /\ Nodes' = Nodes
        /\ \A q \in Stored : \A n : /\ IsSource(q, n)' <=> IsSource(q, n)
                                    /\ IsDestination(q, n)' <=> IsDestination(q, n)
        /\ \A n : Incident(n)' = Incident(n) /\ Linked(n)' = Linked(n)
        /\ \A q, p \in Stored : SameEnds(q, p)' <=> SameEnds(q, p)
      BY <1>3, <1>5, <1>6, LinkWriteKeepsEnds DEF memory
  <1>8. /\ relationsDB'[new][o] = head
        /\ \A q \in RelationIndexes : \A p \in RelationOffsets :
              q # new \/ p # o => relationsDB'[q][p] = relationsDB[q][p]
      BY <1>3, <1>5, <1>6, WriteChangesOneRecord DEF TypeInv, TypeOK, RelationsTyped
  <1>9. \A q \in Stored : \A n : PreviousIn(q, n)' = PreviousIn(q, n)
      BY <1>3, <1>5, <1>7, <1>8 DEF PreviousIn, PreviousOffset, RelationOffsets
  <1>10. \A q \in Stored : \A n :
            /\ q = new /\ n = this => NextIn(q, n)' = head
            /\ Joins(q, n) /\ (q # new \/ n # this) => NextIn(q, n)' = NextIn(q, n)
      BY <1>3, <1>4, <1>5, <1>7, <1>8
      DEF NextIn, NextOffset, RelationOffsets, Joins, IsSource, IsDestination, Incident
  <1>11. IndexInjective' /\ EndsAreNodes' /\ HeadsBelong' /\ NoDuplicateRelation'
      <2>1. IndexInjective' /\ HeadsBelong' /\ NoDuplicateRelation'
          BY <1>6, <1>7 DEF ListsInv, IndexInjective, HeadsBelong, NoDuplicateRelation, memory
      <2>2. EndsAreNodes'
          BY <1>3, <1>5, <1>7, <1>8 DEF ListsInv, EndsAreNodes, RelationOffsets
      <2> QED
          BY <2>1, <2>2
  <1>12. \A n \in Nodes : \A r \in Linked(n) : NearestBelow(NextIn(r, n), r, n)'
      <2>1. SUFFICES ASSUME NEW n \in Nodes, NEW r \in Linked(n)
                     PROVE  NearestBelow(NextIn(r, n), r, n)'
          OBVIOUS
      <2>2. r \in Stored /\ Joins(r, n) /\ NearestBelow(NextIn(r, n), r, n)
          BY DEF ListsInv, NextLinksExact, Linked, Incident
      <2>3. NextIn(r, n)' = IF r = new /\ n = this THEN head ELSE NextIn(r, n)
          BY <1>10, <2>2
      <2> QED
          BY <1>3, <1>7, <2>2, <2>3 DEF NearestBelow
  <1>13. NextLinksExact'
      BY <1>7, <1>12 DEF NextLinksExact
  <1>14. PreviousInvertsNext'
      <2>1. SUFFICES ASSUME NEW n \in Nodes, NEW r \in Linked(n), NEW x, x = NextIn(r, n)', x # Null
                     PROVE  PreviousIn(x, n)' = r
          BY <1>7 DEF PreviousInvertsNext, PreviousIn, PreviousOffset, IsSource
      <2>2. r \in Stored /\ Joins(r, n) /\ x \in Stored
          BY <1>7, <1>12, <2>1 DEF Linked, Incident, NearestBelow
      <2>3. CASE r = new /\ n = this
          BY <1>2, <1>9, <1>10, <2>1, <2>2, <2>3
      <2>4. CASE r # new \/ n # this
          BY <1>9, <1>10, <2>1, <2>2, <2>4 DEF ListsInv, PreviousInvertsNext
      <2> QED
          BY <2>3, <2>4
  <1>15. AllPublished' /\ BeforeLinking' /\ NeverThrows'
      <2>1. AllPublished'
          BY <1>2, <1>6, <1>7 DEF ListsInv, AllPublished, Linking, Pending, call
      <2> QED
          BY <1>6, <2>1 DEF BeforeLinking, NeverThrows
  <1>16. DuringLinking'
      <2>1. UNCHANGED <<newRelation, side, node, nodesDB, nextRelationIndex>>
          BY <1>6 DEF memory, call
      <2>2. \A s \in Pending : AwaitsLink(s)'
          <3>1. SUFFICES ASSUME NEW s \in Pending PROVE AwaitsLink(s)'
              OBVIOUS
          <3>2. AwaitsLink(s) /\ s \in Sides
              BY <1>2, <1>3 DEF ListsInv, DuringLinking, Pending, Sides
          <3>3. PICK n : n = node[s].addr
              OBVIOUS
          <3>4. Joins(new, n)
              BY <1>1, <1>2, <3>2, <3>3 DEF ListsInv, DuringLinking, Joins, Sides
          <3>5. n = this => node[s].edgeRef = head
              BY <1>1, <1>2, <1>3, <3>2, <3>3 DEF ListsInv, DuringLinking, Fresh, Pending, Sides
          <3>6. NextIn(new, n)' \in {Null, node[s].edgeRef}
              BY <1>1, <1>3, <1>10, <3>2, <3>3, <3>4, <3>5 DEF AwaitsLink
          <3> QED
              BY <1>1, <1>7, <2>1, <3>2, <3>3, <3>6
              DEF AwaitsLink, NearestBelow, Incident, NextIn, NextOffset, IsSource
      <2>3. \A s \in Sides : Fresh(s) => Fresh(s)'
          BY <1>7, <2>1 DEF Fresh
      <2>4. IsSource(newRelation, node["source"].addr)' /\ IsDestination(newRelation, node["destination"].addr)'
          BY <1>1, <1>2, <1>3, <1>7, <2>1 DEF ListsInv, DuringLinking, IsSource, IsDestination
      <2>5. /\ NextIn(newRelation, node[side].addr)' = node'[side].edgeRef
            /\ PreviousIn(node[side].edgeRef, node[side].addr)' = newRelation'
          <3>1. NextIn(new, this)' = head /\ PreviousIn(head, this)' = new
              BY <1>2, <1>3, <1>9, <1>10
          <3>2. /\ NextIn(newRelation, node[side].addr)' = NextIn(new, this)'
                /\ PreviousIn(node[side].edgeRef, node[side].addr)' = PreviousIn(head, this)'
              BY <1>1, <2>1 DEF NextIn, NextOffset, PreviousIn, PreviousOffset, IsSource
          <3> QED
              BY <1>1, <2>1, <3>1, <3>2
      <2>6. Pending' = Pending
          BY <2>1 DEF Pending
      <2> QED
          BY <1>1, <1>2, <1>6, <1>7, <2>1, <2>2, <2>3, <2>4, <2>5, <2>6
          DEF ListsInv, DuringLinking, Linking, Sides
  <1> QED
      BY <1>11, <1>13, <1>14, <1>15, <1>16 DEF ListsInv

(* Moving a head to the new relation publishes that relation and no other:  *)
(* all older ones of the node were published before.                       *)
LEMMA SetRelationHeadKeepsLists ==
    ASSUME TypeInv, ListsInv, SetRelationHead
    PROVE  ListsInv'
  <1>1. PICK this, head, new : this = node[side].addr /\ head = node[side].edgeRef /\ new = newRelation
      OBVIOUS
  <1>2. Linking
      BY DEF SetRelationHead, Linking
  <1>3. /\ this \in Nodes /\ this \in NodeIndexes /\ side \in Pending /\ side \in Sides
        /\ new \in Stored /\ new \in RelationIndexes /\ new \in Incident(this)
        /\ \A q \in Stored : q \in RelationIndexes /\ q \in Nat /\ q <= new
        /\ NearestBelow(head, new, this)
      BY <1>1, <1>2, LinkingFacts
  <1>4. /\ NextIn(new, this) = head
        /\ head # Null => PreviousIn(head, this) = new
      BY <1>1, <1>2 DEF ListsInv, DuringLinking, SetRelationHead
  <1>5. /\ nodesDB' = [nodesDB EXCEPT ![this] = new]
        /\ UNCHANGED <<relationsDB, nodeIndex, nextNodeIndex, nextRelationIndex, newRelation>>
      BY <1>1 DEF SetRelationHead, memory
  <1>6. /\ nodesDB'[this] = new
        /\ \A n \in Nodes : n # this => nodesDB'[n] = nodesDB[n]
        /\ \A n \in Nodes : nodesDB[n] \in Nat
      BY <1>3, <1>5, Typing DEF TypeInv, TypeOK
  <1>7. Stored' = Stored /\ Nodes' = Nodes
      BY <1>5 DEF Stored, Nodes
  <1>8. \A q, n : /\ NextIn(q, n)' = NextIn(q, n) /\ PreviousIn(q, n)' = PreviousIn(q, n)
                  /\ Joins(q, n)' <=> Joins(q, n)
      BY <1>5 DEF NextIn, NextOffset, PreviousIn, PreviousOffset, IsSource, IsDestination, Joins
  <1>9. \A n : Incident(n)' = Incident(n)
      BY <1>7, <1>8 DEF Incident
  <1>10. \A n \in Nodes : \A r \in Incident(n) : r <= nodesDB[n] \/ r = new
      BY <1>1 DEF ListsInv, AllPublished
  <1>11. \A n \in Nodes : \A r \in Linked(n)' : r \in Linked(n) \/ (r = new /\ n = this)
      BY <1>6, <1>9, <1>10 DEF Linked
  <1>12. IndexInjective' /\ EndsAreNodes' /\ NoDuplicateRelation'
      BY <1>5, <1>7 DEF ListsInv, IndexInjective, EndsAreNodes, NoDuplicateRelation, SameEnds
  <1>13. HeadsBelong'
      BY <1>3, <1>6, <1>7, <1>9 DEF ListsInv, HeadsBelong
  <1>14. NextLinksExact'
      BY <1>3, <1>4, <1>7, <1>8, <1>9, <1>11 DEF ListsInv, NextLinksExact, NearestBelow
  <1>15. PreviousInvertsNext'
      BY <1>3, <1>4, <1>7, <1>8, <1>11 DEF ListsInv, PreviousInvertsNext
  <1>16. \A n \in Nodes : \A r \in Incident(n) : r <= nodesDB[n] => r <= nodesDB'[n]
      BY <1>3, <1>6 DEF Incident
  <1>17. CASE side = "source"
      <2>1. /\ pc' = "linkHead" /\ side' = "destination"
            /\ node'["destination"] = node["destination"]
            /\ node'["source"].addr = node["source"].addr
          BY <1>17 DEF SetRelationHead, TypeInv, TypeOK, Sides
      <2>2. AllPublished'
          BY <1>1, <1>6, <1>7, <1>9, <1>16, <1>17, <2>1, <1>3
          DEF ListsInv, AllPublished, Linking, Pending, Sides, SetRelationHead
      <2>3. AwaitsLink("destination") /\ Fresh("destination")
          BY <1>2, <1>17 DEF ListsInv, DuringLinking, Pending, Sides
      <2>4. AwaitsLink("destination")'
          BY <1>5, <1>7, <1>8, <1>9, <2>1, <2>3
          DEF AwaitsLink, NearestBelow, NextIn, NextOffset, IsSource
      <2>5. node["source"].addr # node["destination"].addr => Fresh("destination")'
          BY <1>1, <1>6, <1>7, <1>17, <2>1, <2>3 DEF Fresh
      <2>6. /\ IsSource(newRelation, node["source"].addr)'
            /\ IsDestination(newRelation, node["destination"].addr)'
          BY <1>2, <1>5, <2>1 DEF ListsInv, DuringLinking, IsSource, IsDestination
      <2>7. DuringLinking'
          BY <1>1, <1>2, <1>5, <1>6, <1>7, <1>17, <2>1, <2>4, <2>5, <2>6
          DEF ListsInv, DuringLinking, Linking, Pending
      <2> QED
          BY <1>12, <1>13, <1>14, <1>15, <2>1, <2>2, <2>7 DEF ListsInv, BeforeLinking, NeverThrows
  <1>18. CASE side = "destination"
      <2>1. pc' = "idle"
          BY <1>18 DEF SetRelationHead, Return
      <2>2. AllPublished'
          BY <1>1, <1>3, <1>6, <1>7, <1>9, <1>16, <1>18 DEF ListsInv, AllPublished, Pending
      <2> QED
          BY <1>12, <1>13, <1>14, <1>15, <2>1, <2>2
          DEF ListsInv, BeforeLinking, DuringLinking, Linking, NeverThrows
  <1> QED
      BY <1>3, <1>17, <1>18 DEF Sides

-----------------------------------------------------------------------------
(* The empty files satisfy the invariant.                                  *)
LEMMA InitLists == Init => ListsInv
  <1> SUFFICES ASSUME Init PROVE ListsInv
      OBVIOUS
  <1>1. Nodes = {} /\ Stored = {} /\ \A n : Incident(n) = {} /\ Linked(n) = {}
      BY DEF Init, Nodes, Stored, Incident, Linked
  <1>2. IndexInjective
      BY DEF Init, IndexInjective, NotIndexed
  <1> QED
      BY <1>1, <1>2
      DEF ListsInv, Init, EndsAreNodes, HeadsBelong, AllPublished, NextLinksExact,
          PreviousInvertsNext, NoDuplicateRelation, BeforeLinking, DuringLinking, Linking, NeverThrows

(* Every step of the program keeps the lists exact, but for the one at work. *)
LEMMA NextKeepsLists == TypeInv /\ ListsInv /\ [Next]_vars => ListsInv'
  <1> SUFFICES ASSUME TypeInv, ListsInv, [Next]_vars PROVE ListsInv'
      OBVIOUS
  <1>1. CASE UNCHANGED vars
      <2>1. DiskInv'
          BY <1>1, DiskInvKept DEF ListsInv, DiskInv, vars
      <2>2. AllPublished'
          BY <1>1 DEF vars, ListsInv, AllPublished, Linking, Pending, Nodes, Incident, Stored, Joins,
                      IsSource, IsDestination
      <2>3. BeforeLinking' /\ NeverThrows'
          BY <1>1 DEF vars, ListsInv, BeforeLinking, NeverThrows, Fresh, Nodes, NotYetRelated, Stored,
                      Incident, Joins, Other, IsSource, IsDestination
      <2>4. DuringLinking'
          BY <1>1 DEF vars, ListsInv, DuringLinking, Linking, Fresh, Nodes, Stored, AwaitsLink, Pending,
                      NearestBelow, Incident, Joins, IsSource, IsDestination, NextIn, NextOffset,
                      PreviousIn, PreviousOffset
      <2> QED
          BY <2>1, <2>2, <2>3, <2>4 DEF ListsInv, DiskInv
  <1> QED
      BY <1>1, AddNodeKeepsLists, AddEdgeKeepsLists, InsertNodeKeepsLists, GetNodeKeepsLists,
         DecideKeepsLists, SearchVisitKeepsLists, SearchExhaustedKeepsLists, AddRelationKeepsLists,
         LinkHeadKeepsLists, NoHeadKeepsLists, LinkNewKeepsLists, SetRelationHeadKeepsLists
      DEF Next, Step

(* Between any two writes the lists of all nodes are exact and the running *)
(* call's copies are as fresh as its next write needs.                     *)
THEOREM ListsAreExact == Spec => []ListsInv
  BY InitTypeInv, StepTypeInv, InitLists, NextKeepsLists, PTL DEF Spec

(* addEdge never stores a second relation between two nodes.               *)
THEOREM NoParallelEdges == Spec => []NoDuplicateRelation
  <1>1. ListsInv => NoDuplicateRelation
      BY DEF ListsInv
  <1> QED
      BY <1>1, ListsAreExact, PTL

(* A reader that follows next links from a node's head meets the node's    *)
(* relations from the newest to the oldest, each once, and then Null.      *)
THEOREM NextLinksAreExact == Spec => []NextLinksExact
  <1>1. ListsInv => NextLinksExact
      BY DEF ListsInv
  <1> QED
      BY <1>1, ListsAreExact, PTL

(* The previous links written on both sides of a block invert the next     *)
(* links, self-loops included.                                             *)
THEOREM PreviousLinksInvert == Spec => []PreviousInvertsNext
  <1>1. ListsInv => PreviousInvertsNext
      BY DEF ListsInv
  <1> QED
      BY <1>1, ListsAreExact, PTL

(* The exceptions of searchRelation and updateRelation are unreachable.    *)
THEOREM StoreNeverThrows == Spec => []NeverThrows
  <1>1. ListsInv => NeverThrows
      BY DEF ListsInv
  <1> QED
      BY <1>1, ListsAreExact, PTL

(* A crash between any two writes can hide the newest relation only.       *)
THEOREM CrashCostsTheNewest == Spec => []CrashTearsOnlyNewest
  <1>1. TypeInv /\ ListsInv => CrashTearsOnlyNewest
      <2> SUFFICES ASSUME TypeInv, ListsInv, NEW r \in Stored, NEW s, NEW d,
                            s = relationsDB[r]["SOURCE"], d = relationsDB[r]["DESTINATION"]
                     PROVE  /\ r < nextRelationIndex - 1 \/ pc = "idle" =>
                                  r \in Linked(s) /\ r \in Linked(d)
                            /\ r \in Linked(d) => r \in Linked(s)
          BY DEF CrashTearsOnlyNewest
      <2>2. s \in Nodes /\ d \in Nodes /\ r \in Incident(s) /\ r \in Incident(d) /\ r \in Nat
          BY Typing DEF ListsInv, EndsAreNodes, Incident, Joins, IsSource, IsDestination, TypeInv
      <2>3. ASSUME NEW n \in {s, d}, r \notin Linked(n)
            PROVE  Linking /\ r = newRelation /\ r = nextRelationIndex - 1
          BY <2>2, <2>3 DEF ListsInv, AllPublished, DuringLinking, Linked
      <2>4. r < nextRelationIndex - 1 \/ pc = "idle" => r \in Linked(s) /\ r \in Linked(d)
          BY <2>3, Typing DEF TypeInv, Linking
      <2>5. ASSUME r \notin Linked(s) PROVE r \notin Linked(d)
          <3>1. /\ Linking /\ r = newRelation
                /\ s = node["source"].addr /\ d = node["destination"].addr
              BY <2>3, <2>5 DEF ListsInv, DuringLinking, IsSource, IsDestination
          <3>2. side = "source"
              BY <2>2, <2>5, <3>1 DEF ListsInv, DuringLinking, Linked
          <3>3. Fresh("destination") /\ AwaitsLink("destination")
              BY <3>1, <3>2 DEF ListsInv, DuringLinking, Pending, Sides
          <3>4. nodesDB[d] < r
              BY <3>1, <3>3 DEF Fresh, AwaitsLink, NearestBelow
          <3>5. nodesDB[d] \in Nat
              BY <2>2, Typing DEF TypeInv
          <3> QED
              BY <2>2, <3>4, <3>5 DEF Linked
      <2> QED
          BY <2>4, <2>5
  <1> QED
      BY <1>1, InitTypeInv, StepTypeInv, ListsAreExact, PTL DEF Spec

-----------------------------------------------------------------------------
(* The store only grows: blocks are added behind the present ones, their   *)
(* ends are written once, and heads move to newer relations.               *)
Grows ==
    /\ Nodes \subseteq Nodes'
    /\ Stored \subseteq Stored'
    /\ \A q \in Stored : /\ relationsDB'[q]["SOURCE"] = relationsDB[q]["SOURCE"]
                         /\ relationsDB'[q]["DESTINATION"] = relationsDB[q]["DESTINATION"]
    /\ \A q \in Stored' : q \in Stored \/ \A r \in Stored : r < q
    /\ \A n \in Nodes : nodesDB[n] <= nodesDB'[n]

(* Every write adds to the files; none takes a relation or an end away.    *)
LEMMA WritesGrow ==
    ASSUME TypeInv, ListsInv, [Next]_vars
    PROVE  Grows
  <1>1. \A n \in Nodes : nodesDB[n] \in Nat
      BY Typing DEF TypeInv
  <1>2. CASE UNCHANGED <<nodesDB, relationsDB, nextNodeIndex, nextRelationIndex>>
      BY <1>1, <1>2 DEF Grows, Nodes, Stored
  <1>3. ASSUME NEW id \in Ids, insertNode(id), UNCHANGED <<relationsDB, nextRelationIndex>>
        PROVE  Grows
      <2>1. PICK m : m = nextNodeIndex
          OBVIOUS
      <2>2. DiskInv
          BY DEF ListsInv, DiskInv
      <2>3. Nodes' = Nodes \cup {m} /\ \A n \in Nodes : nodesDB'[n] = nodesDB[n]
          BY <1>3, <2>1, <2>2, InsertedNode
      <2> QED
          BY <1>1, <1>3, <2>3 DEF Grows, Stored
  <1>4. CASE InsertNode
      <2>1. edge[side] \in Ids
          BY <1>4 DEF InsertNode, TypeInv, TypeOK, EdgeNamed, Sides
      <2> QED
          BY <1>3, <1>4, <2>1 DEF InsertNode
  <1>5. CASE AddRelation
      <2>1. /\ UNCHANGED <<nodesDB, nextNodeIndex>> /\ nextRelationIndex' = nextRelationIndex + 1
            /\ \E b : relationsDB' = [relationsDB EXCEPT ![nextRelationIndex] = b]
          BY <1>5 DEF AddRelation
      <2>2. Stored' = Stored \cup {nextRelationIndex} /\ \A q \in Stored : q \in Nat /\ q < nextRelationIndex
          <3>1. nextRelationIndex \in Nat /\ nextRelationIndex >= 1
              BY CapacityAssumption DEF TypeInv, TypeOK
          <3>2. nextRelationIndex' = nextRelationIndex + 1
              BY <2>1
          <3> QED
              BY <3>1, <3>2 DEF Stored
      <2>3. \A q \in Stored : relationsDB'[q] = relationsDB[q]
          BY <2>1, <2>2, Typing DEF TypeInv, TypeOK
      <2> QED
          BY <1>1, <2>1, <2>2, <2>3 DEF Grows, Nodes
  <1>6. ASSUME NEW r \in RelationRefs, NEW o \in LinkOffsets, NEW d, updateRelationRecords(r, o, d),
               UNCHANGED <<nodesDB, nextNodeIndex, nextRelationIndex>>
        PROVE  Grows
      <2>1. \A q \in RelationIndexes : /\ relationsDB'[q]["SOURCE"] = relationsDB[q]["SOURCE"]
                                       /\ relationsDB'[q]["DESTINATION"] = relationsDB[q]["DESTINATION"]
          BY <1>6 DEF updateRelationRecords, TypeInv, TypeOK, LinkOffsets, RelationOffsets
      <2> QED
          BY <1>1, <1>6, <2>1, Typing DEF Grows, Nodes, Stored, TypeInv
  <1>7. CASE LinkHead
      <2>1. node[side].edgeRef \in RelationRefs /\ PreviousOffset(node[side].edgeRef, node[side].addr) \in LinkOffsets
          BY Typing DEF TypeInv, PreviousOffset, LinkOffsets, RelationOffsets
      <2> QED
          BY <1>2, <1>6, <1>7, <2>1 DEF LinkHead, memory
  <1>8. CASE LinkNew
      <2>1. newRelation \in RelationRefs /\ NextOffset(newRelation, node[side].addr) \in LinkOffsets
          BY DEF TypeInv, TypeOK, NextOffset, LinkOffsets, RelationOffsets
      <2> QED
          BY <1>2, <1>6, <1>8, <2>1 DEF LinkNew, memory
  <1>9. CASE SetRelationHead
      <2>1. PICK this, head : this = node[side].addr /\ head = node[side].edgeRef
          OBVIOUS
      <2>2. /\ this \in Nodes /\ this \in NodeIndexes
            /\ \A q \in Stored : q \in Nat /\ q <= newRelation
            /\ newRelation \in Stored
          BY <1>9, <2>1, LinkingFacts DEF SetRelationHead, Linking
      <2>3. \A n \in Nodes : nodesDB[n] = Null \/ nodesDB[n] \in Stored
          BY DEF ListsInv, HeadsBelong, Incident
      <2>4. /\ nodesDB' = [nodesDB EXCEPT ![this] = newRelation]
            /\ UNCHANGED <<relationsDB, nextNodeIndex, nextRelationIndex>>
          BY <1>9, <2>1 DEF SetRelationHead, memory
      <2>5. Nodes' = Nodes /\ Stored' = Stored
          BY <2>4 DEF Nodes, Stored
      <2>6. \A n \in Nodes : nodesDB'[n] = IF n = this THEN newRelation ELSE nodesDB[n]
          BY <2>2, <2>4, Typing DEF TypeInv, TypeOK
      <2>7. \A n \in Nodes : nodesDB[n] <= newRelation
          BY <2>2, <2>3 DEF Null, Stored
      <2> QED
          BY <1>1, <2>4, <2>5, <2>6, <2>7 DEF Grows
  <1>10. CASE \E id \in Ids : AddNode(id)
      BY <1>3, <1>10 DEF AddNode
  <1>11. CASE GetNode \/ Decide \/ SearchVisit \/ SearchExhausted \/ NoHead \/ UNCHANGED vars
              \/ \E s, d \in Ids : AddEdge(s, d)
      BY <1>2, <1>11 DEF GetNode, Decide, SearchVisit, SearchExhausted, NoHead, AddEdge, vars, disk, memory
  <1> QED
      BY <1>4, <1>5, <1>7, <1>8, <1>9, <1>10, <1>11 DEF Next, Step

(* A published block keeps its place because the next link of a published  *)
(* block is determined by the ends of the relations below it.              *)
LEMMA ReadersStay ==
    ASSUME TypeInv, ListsInv, ListsInv', [Next]_vars,
           NEW n \in Nodes, NEW r \in Linked(n)
    PROVE  r \in Linked(n)' /\ NextIn(r, n)' = NextIn(r, n)
  <1>1. Grows
      BY WritesGrow
  <1>2. \A q \in Stored : q \in Incident(n) <=> q \in Incident(n)'
      BY <1>1 DEF Grows, Incident, Joins, IsSource, IsDestination
  <1>3. r \in Stored /\ \A q \in Stored : q \in Nat
      BY Typing DEF Linked, Incident, TypeInv
  <1>4. r \in Linked(n)'
      <2>1. nodesDB[n] \in Nat /\ nodesDB'[n] \in Nat
          BY Typing, <1>1, StepTypeInv DEF TypeInv, TypeOK, Grows, RelationRefs, RelationIndexes, Null
      <2> QED
          BY <1>1, <1>2, <1>3, <2>1 DEF Linked, Grows
  <1>5. n \in Nodes'
      BY <1>1 DEF Grows
  <1>6. PICK x : x = NextIn(r, n)
      OBVIOUS
  <1>7. PICK y : y = NextIn(r, n)'
      OBVIOUS
  <1>8. x < r /\ (x # Null => x \in Incident(n)) /\ \A q \in Incident(n) : q < r => q <= x
      BY <1>6 DEF ListsInv, NextLinksExact, NearestBelow
  <1>9. y < r /\ (y # Null => y \in Incident(n)') /\ \A q \in Incident(n)' : q < r => q <= y
      BY <1>4, <1>5, <1>7 DEF ListsInv, NextLinksExact, NearestBelow
  <1>10. y # Null => y \in Incident(n)
      <2>1. ASSUME y # Null PROVE y \in Incident(n)
          <3>1. y \in Incident(n)' /\ y \in Stored'
              BY <1>9, <2>1 DEF Incident
          <3>2. y \in Stored
              BY <1>1, <1>3, <1>9, <3>1 DEF Grows, Stored
          <3> QED
              BY <1>2, <3>1, <3>2
      <2> QED
          BY <2>1
  <1>11. \A q \in Incident(n) : q \in Incident(n)' /\ q \in Nat /\ q > 0
      BY <1>2, <1>3 DEF Incident, Stored
  <1>12. x = y
      BY <1>8, <1>9, <1>10, <1>11 DEF Null
  <1> QED
      BY <1>4, <1>6, <1>7, <1>12

(* No write moves a reader that stands on a published block.               *)
THEOREM ReadersAreNotMoved == Spec => ReadersKeepTheirPlace
  <1>1. TypeInv /\ ListsInv /\ ListsInv' /\ [Next]_vars =>
            [\A n \in Nodes : \A r \in Linked(n) :
                r \in Linked(n)' /\ NextIn(r, n)' = NextIn(r, n)]_vars
      BY ReadersStay
  <1> QED
      BY <1>1, InitTypeInv, StepTypeInv, ListsAreExact, PTL DEF Spec, ReadersKeepTheirPlace

-----------------------------------------------------------------------------
(* The call works on the blocks of the IDs it was given: the index never    *)
(* gives a second block to an ID.                                          *)
LEMMA CopiesKept == TypeInv /\ CopiesOfItsNodes /\ [Next]_vars => CopiesOfItsNodes'
  <1> SUFFICES ASSUME TypeInv, CopiesOfItsNodes, [Next]_vars PROVE CopiesOfItsNodes'
      OBVIOUS
  <1>1. CASE InsertNode
      <2>1. edge[side] \in Ids /\ side \in Sides
          BY <1>1 DEF InsertNode, TypeInv, TypeOK, EdgeNamed, Sides
      <2>2. /\ nodeIndex[edge[side]] = NotIndexed
            /\ nodeIndex' = [nodeIndex EXCEPT ![edge[side]] = nextNodeIndex]
            /\ node' = [node EXCEPT ![side] = [addr |-> nextNodeIndex, edgeRef |-> Null]]
            /\ UNCHANGED edge /\ pc = "addNode"
          BY <1>1 DEF InsertNode, insertNode
      <2>3. node'[side].addr = nodeIndex'[edge'[side]]
          BY <2>1, <2>2 DEF TypeInv, TypeOK
      <2>4. CASE side = "source"
          BY <1>1, <2>1, <2>2, <2>3, <2>4 DEF InsertNode, OtherSideOr, CopiesOfItsNodes, CopyOfItsNode
      <2>5. CASE side = "destination"
          <3>1. node["source"].addr = nodeIndex[edge["source"]] /\ edge["source"] \in Ids
              BY <2>2, <2>5 DEF CopiesOfItsNodes, CopyOfItsNode
          <3>2. node["source"].addr \in NodeIndexes /\ node["source"].addr # NotIndexed
              BY Typing, CapacityAssumption DEF TypeInv, NodeIndexes, NotIndexed
          <3>3. edge["source"] # edge["destination"]
              BY <2>2, <2>5, <3>1, <3>2
          <3>4. node'["source"].addr = nodeIndex'[edge'["source"]]
              BY <2>2, <2>5, <3>1, <3>3 DEF TypeInv, TypeOK, Sides
          <3> QED
              BY <1>1, <2>1, <2>2, <2>3, <2>5, <3>1, <3>4
              DEF InsertNode, OtherSideOr, CopiesOfItsNodes, CopyOfItsNode, Sides
      <2> QED
          BY <2>1, <2>4, <2>5 DEF Sides
  <1>2. CASE GetNode
      <2>1. edge[side] \in Ids /\ side \in Sides
          BY <1>2 DEF GetNode, TypeInv, TypeOK, EdgeNamed, Sides
      <2>2. CASE side = "source"
          BY <1>2, <2>1, <2>2
          DEF GetNode, OtherSideOr, CopiesOfItsNodes, CopyOfItsNode, TypeInv, TypeOK, disk, memory
      <2>3. CASE side = "destination"
          BY <1>2, <2>1, <2>3
          DEF GetNode, OtherSideOr, CopiesOfItsNodes, CopyOfItsNode, TypeInv, TypeOK, Sides, disk, memory
      <2> QED
          BY <2>1, <2>2, <2>3 DEF Sides
  <1>3. CASE SearchVisit
      BY <1>3 DEF SearchVisit, Return, CopiesOfItsNodes, CopyOfItsNode, disk, memory
  <1>4. CASE SetRelationHead
      BY <1>4 DEF SetRelationHead, Return, CopiesOfItsNodes, CopyOfItsNode, memory, TypeInv, TypeOK, Sides
  <1>5. CASE UNCHANGED <<nodeIndex, edge, node>> /\ pc \notin {"idle", "addNode", "thrown"}
      BY <1>5 DEF CopiesOfItsNodes, CopyOfItsNode, Sides
  <1>6. CASE Decide \/ SearchExhausted \/ AddRelation \/ LinkHead \/ NoHead \/ LinkNew
      BY <1>5, <1>6
      DEF Decide, SearchExhausted, AddRelation, LinkHead, NoHead, LinkNew, disk, memory, call
  <1>7. CASE \E id \in Ids : AddNode(id)
      BY <1>7 DEF AddNode, CopiesOfItsNodes
  <1>8. CASE \E s, d \in Ids : AddEdge(s, d)
      BY <1>8 DEF AddEdge, CopiesOfItsNodes
  <1>9. CASE UNCHANGED vars
      BY <1>9 DEF vars, CopiesOfItsNodes, CopyOfItsNode
  <1> QED
      BY <1>1, <1>2, <1>3, <1>4, <1>6, <1>7, <1>8, <1>9 DEF Next, Step

(* While addEdge runs its copies are those of the two IDs it was called with. *)
THEOREM CallsNameTheirNodes == Spec => []CopiesOfItsNodes
  <1>1. Init => CopiesOfItsNodes
      BY DEF Init, CopiesOfItsNodes
  <1> QED
      BY <1>1, CopiesKept, InitTypeInv, StepTypeInv, PTL DEF Spec

(* A call that returns has found or linked the relation of its two nodes.  *)
LEMMA ReturnHasStored ==
    ASSUME TypeInv, ListsInv, CopiesOfItsNodes, [Next]_vars, NEW s \in Ids, NEW d \in Ids,
           pc # "idle", pc' = "idle", edge["source"] = s, edge["destination"] = d
    PROVE  \E r \in Linked(nodeIndex[s])' : Other(r, nodeIndex[s])' = nodeIndex'[d]
  <1>1. SearchVisit \/ (SetRelationHead /\ side = "destination")
      BY DEF Next, Step, AddNode, AddEdge, InsertNode, GetNode, Decide, SearchVisit, SearchExhausted,
             AddRelation, LinkHead, NoHead, LinkNew, SetRelationHead, OtherSideOr, vars, TypeInv, TypeOK, Sides
  <1>2. PICK a, b : a = nodeIndex[s] /\ b = nodeIndex[d]
      OBVIOUS
  <1>3. node["source"].addr = a /\ node["destination"].addr = b
      BY <1>1, <1>2 DEF CopiesOfItsNodes, CopyOfItsNode, SearchVisit, SetRelationHead, Sides
  <1>4. nodeIndex' = nodeIndex /\ relationsDB' = relationsDB /\ nextRelationIndex' = nextRelationIndex
      BY <1>1 DEF SearchVisit, SetRelationHead, disk, memory
  <1>5. \A r : (r \in Incident(a)' <=> r \in Incident(a)) /\ Other(r, a)' = Other(r, a)
      BY <1>4 DEF Incident, Stored, Joins, IsSource, IsDestination, Other
  <1>6. SUFFICES \E r \in Linked(a)' : Other(r, a)' = b
      <2>1. nodeIndex'[s] = a /\ nodeIndex'[d] = b
          BY <1>2, <1>4
      <2>2. \A r : r \in Linked(a)' => r \in Linked(nodeIndex[s])'
          BY <2>1 DEF Linked, Incident, Joins, IsSource, IsDestination
      <2>3. \A r : Other(r, a)' = Other(r, nodeIndex[s])'
          BY <2>1 DEF Other, IsSource
      <2> QED
          BY <2>1, <2>2, <2>3
  <1>7. CASE SearchVisit
      <2>1. current \in Incident(a) /\ Fresh("source") /\ a \in Nodes
          BY <1>3, <1>7 DEF SearchVisit, ListsInv, BeforeLinking, Fresh
      <2>2. Other(current, a) = b /\ nodesDB' = nodesDB
          BY <1>3, <1>7, <2>1 DEF SearchVisit, disk
      <2>3. current <= nodesDB[a]
          BY <1>7, <2>1 DEF ListsInv, AllPublished, Linking, SearchVisit
      <2> QED
          BY <1>5, <2>1, <2>2, <2>3 DEF Linked
  <1>8. CASE SetRelationHead /\ side = "destination"
      <2>1. PICK this, head : this = node[side].addr /\ head = node[side].edgeRef
          OBVIOUS
      <2>2. Linking /\ IsSource(newRelation, a) /\ IsDestination(newRelation, b) /\ nodesDB[a] = newRelation
          BY <1>3, <1>8 DEF SetRelationHead, Linking, ListsInv, DuringLinking
      <2>3. newRelation \in Stored /\ newRelation \in Nat /\ this \in NodeIndexes
          BY <2>1, <2>2, LinkingFacts
      <2>4. newRelation \in Incident(a) /\ Other(newRelation, a) = b
          BY <2>2, <2>3 DEF Incident, Joins, Other, IsDestination
      <2>5. nodesDB'[a] = newRelation
          BY <1>8, <2>1, <2>2, <2>3 DEF SetRelationHead, TypeInv, TypeOK
      <2> QED
          BY <1>5, <2>3, <2>4, <2>5 DEF Linked
  <1> QED
      BY <1>1, <1>7, <1>8

(* addEdge(s, d) returns only when s lists a relation with d.              *)
THEOREM CallsStoreTheirEdges == Spec => CallStoresEdge
  <1>1. TypeInv /\ ListsInv /\ CopiesOfItsNodes /\ [Next]_vars =>
            [\A s, d \in Ids :
                pc # "idle" /\ pc' = "idle" /\ edge["source"] = s /\ edge["destination"] = d =>
                    \E r \in Linked(nodeIndex[s])' : Other(r, nodeIndex[s])' = nodeIndex'[d]]_vars
      BY ReturnHasStored
  <1> QED
      BY <1>1, InitTypeInv, StepTypeInv, ListsAreExact, CallsNameTheirNodes, PTL DEF Spec, CallStoresEdge

-----------------------------------------------------------------------------
(* The graph the files stand for.                                          *)
Vertices == {i \in Ids : nodeIndex[i] # NotIndexed}
Related(i, j) == \E r \in Stored : IsSource(r, nodeIndex[i]) /\ IsDestination(r, nodeIndex[j])
Edges    == {e \in SUBSET Ids : \E i, j \in Ids : e = {i, j} /\ Related(i, j)}
Size     == nextRelationIndex - 1

(* Empty files are the empty graph.                                        *)
LEMMA InitGraph == Init => Graph!GraphInit
  BY DEF Init, Graph!GraphInit, Stored

(* Writing a fresh node block adds one vertex and no edge.                 *)
LEMMA InsertedVertex ==
    ASSUME TypeInv, ListsInv, NEW id \in Ids, insertNode(id), UNCHANGED <<relationsDB, nextRelationIndex>>
    PROVE  Graph!AddVertex(id)
  <1>1. /\ nodeIndex[id] = NotIndexed
        /\ nodeIndex' = [nodeIndex EXCEPT ![id] = nextNodeIndex]
        /\ nextNodeIndex # NotIndexed /\ nextNodeIndex \notin Nodes /\ NotIndexed \notin Nodes
      BY Typing DEF insertNode, Nodes, NotIndexed, TypeInv
  <1>2. Stored' = Stored
      BY DEF Stored
  <1>3. \A r \in Stored : relationsDB[r]["SOURCE"] \in Nodes /\ relationsDB[r]["DESTINATION"] \in Nodes
      BY DEF ListsInv, EndsAreNodes
  <1>4. Vertices' = Vertices \cup {id} /\ id \notin Vertices
      BY <1>1 DEF Vertices, TypeInv, TypeOK
  <1>5. ASSUME NEW i \in Ids, NEW j \in Ids PROVE Related(i, j)' <=> Related(i, j)
      <2>1. ASSUME NEW k \in Ids PROVE nodeIndex'[k] = nodeIndex[k] \/ {nodeIndex'[k], nodeIndex[k]} \cap Nodes = {}
          BY <1>1 DEF TypeInv, TypeOK
      <2>2. ASSUME NEW r \in Stored
            PROVE  /\ IsSource(r, nodeIndex[i])' <=> IsSource(r, nodeIndex[i])
                   /\ IsDestination(r, nodeIndex[j])' <=> IsDestination(r, nodeIndex[j])
          BY <1>3, <2>1 DEF IsSource, IsDestination
      <2> QED
          BY <1>2, <2>2 DEF Related
  <1>6. Edges' = Edges
      BY <1>5 DEF Edges
  <1> QED
      BY <1>4, <1>6 DEF Graph!AddVertex, Vertices, Edges, Related

(* Writing the block of a new relation adds one edge that was not there.   *)
LEMMA AddedEdge ==
    ASSUME TypeInv, ListsInv, CopiesOfItsNodes, AddRelation,
           NEW s, NEW d, s = edge["source"], d = edge["destination"]
    PROVE  Graph!AddNewEdge(s, d)
  <1>1. PICK a, b, r0 :
            /\ r0 = nextRelationIndex
            /\ a = node["source"].addr /\ b = node["destination"].addr
      OBVIOUS
  <1>2. /\ s \in Ids /\ d \in Ids /\ nodeIndex[s] = a /\ nodeIndex[d] = b
        /\ a \in Nodes /\ b \in Nodes
      BY <1>1 DEF CopiesOfItsNodes, CopyOfItsNode, AddRelation, Sides, ListsInv, BeforeLinking, Fresh
  <1>3. /\ Stored' = Stored \cup {r0} /\ r0 \in RelationIndexes /\ r0 \notin Stored
        /\ nextRelationIndex' = r0 + 1 /\ nodeIndex' = nodeIndex
      BY <1>1, CapacityAssumption DEF AddRelation, TypeInv, TypeOK, Stored, RelationIndexes
  <1>4. /\ relationsDB'[r0]["SOURCE"] = a
        /\ relationsDB'[r0]["DESTINATION"] = b
        /\ \A q \in Stored : relationsDB'[q] = relationsDB[q]
      <2>1. relationsDB' = [relationsDB EXCEPT ![r0] =
                               [BlankRelation EXCEPT !["SOURCE"] = a, !["DESTINATION"] = b]]
          BY <1>1 DEF AddRelation
      <2>2. r0 \in RelationIndexes /\ Stored \subseteq RelationIndexes /\ r0 \notin Stored
          BY <1>3, Typing DEF TypeInv
      <2> QED
          BY <2>1, <2>2 DEF TypeInv, TypeOK, BlankRelation, RelationOffsets
  <1>5. \A i, j \in Ids : nodeIndex[i] = nodeIndex[j] /\ nodeIndex[i] \in Nodes => i = j
      BY DEF ListsInv, IndexInjective, NotIndexed, Nodes
  <1>6. ASSUME NEW i \in Ids, NEW j \in Ids
        PROVE  Related(i, j)' <=> Related(i, j) \/ (i = s /\ j = d)
      <2>1. \A q \in Stored : /\ IsSource(q, nodeIndex[i])' <=> IsSource(q, nodeIndex[i])
                              /\ IsDestination(q, nodeIndex[j])' <=> IsDestination(q, nodeIndex[j])
          BY <1>3, <1>4 DEF IsSource, IsDestination
      <2>2. IsSource(r0, nodeIndex[i])' /\ IsDestination(r0, nodeIndex[j])' <=> i = s /\ j = d
          BY <1>2, <1>3, <1>4, <1>5 DEF IsSource, IsDestination
      <2> QED
          BY <1>3, <2>1, <2>2 DEF Related
  <1>7. Edges' = Edges \cup {{s, d}}
      BY <1>2, <1>6 DEF Edges
  <1>8. {s, d} \notin Edges
      <2>1. ASSUME NEW i \in Ids, NEW j \in Ids, {s, d} = {i, j}, Related(i, j) PROVE FALSE
          <3>1. PICK r \in Stored : IsSource(r, nodeIndex[i]) /\ IsDestination(r, nodeIndex[j])
              BY <2>1 DEF Related
          <3>2. NotYetRelated
              BY DEF ListsInv, BeforeLinking, AddRelation
          <3>3. (i = s /\ j = d) \/ (i = d /\ j = s)
              BY <2>1
          <3> QED
              BY <1>1, <1>2, <3>1, <3>2, <3>3 DEF NotYetRelated, Joins, Other, IsSource, IsDestination
      <2> QED
          BY <2>1 DEF Edges
  <1>9. s \in Vertices /\ d \in Vertices /\ Vertices' = Vertices
      BY <1>2, <1>3 DEF Vertices, Nodes, NotIndexed
  <1>10. Size' = Size + 1
      BY <1>1, <1>3 DEF Size, TypeInv, TypeOK
  <1> QED
      BY <1>1, <1>7, <1>8, <1>9, <1>10 DEF Graph!AddNewEdge, Vertices, Edges, Related, Size

(* All other writes are invisible in the graph.                            *)
LEMMA GraphUnseen ==
    ASSUME TypeInv, ListsInv, Grows, UNCHANGED <<nodeIndex, nextRelationIndex>>
    PROVE  UNCHANGED Graph!graph
  <1>1. Stored' = Stored
      BY DEF Stored
  <1>2. ASSUME NEW i \in Ids, NEW j \in Ids PROVE Related(i, j)' <=> Related(i, j)
      BY <1>1 DEF Related, IsSource, IsDestination, Grows
  <1>3. Vertices' = Vertices /\ Edges' = Edges /\ Size' = Size
      BY <1>2 DEF Vertices, Edges, Size
  <1> QED
      BY <1>3 DEF Graph!graph, Vertices, Edges, Related, Size

(* A write adds a vertex, adds the edge the call is for, or is not seen.    *)
LEMMA StepImplementsGraph ==
    ASSUME TypeInv, ListsInv, CopiesOfItsNodes, [Next]_vars
    PROVE  [Graph!GraphNext]_Graph!graph
  <1>1. CASE \E id \in Ids : AddNode(id)
      BY <1>1, InsertedVertex DEF AddNode, Graph!GraphNext
  <1>2. CASE InsertNode
      <2>1. edge[side] \in Ids
          BY <1>2 DEF InsertNode, TypeInv, TypeOK, EdgeNamed, Sides
      <2> QED
          BY <1>2, <2>1, InsertedVertex DEF InsertNode, Graph!GraphNext
  <1>3. CASE AddRelation
      <2>1. PICK s, d \in Ids : s = edge["source"] /\ d = edge["destination"]
          BY <1>3 DEF AddRelation, CopiesOfItsNodes, CopyOfItsNode, Sides
      <2> QED
          BY <1>3, <2>1, AddedEdge DEF Graph!GraphNext
  <1>4. CASE UNCHANGED <<nodeIndex, nextRelationIndex>>
      BY <1>4, WritesGrow, GraphUnseen
  <1>5. CASE GetNode \/ Decide \/ SearchVisit \/ SearchExhausted \/ LinkHead \/ NoHead \/ LinkNew
              \/ SetRelationHead \/ UNCHANGED vars \/ \E s, d \in Ids : AddEdge(s, d)
      BY <1>4, <1>5 DEF GetNode, Decide, SearchVisit, SearchExhausted, LinkHead, NoHead, LinkNew,
             SetRelationHead, AddEdge, vars, memory
  <1> QED
      BY <1>1, <1>2, <1>3, <1>5 DEF Next, Step

(* The node file, the relation file and the index implement an undirected  *)
(* graph without parallel edges: each step of the store is a step of       *)
(* UndirectedGraph or invisible to it.                                     *)
THEOREM StoreImplementsGraph == Spec => ImplementsGraph
  <1>1. TypeInv /\ ListsInv /\ CopiesOfItsNodes /\ [Next]_vars => [Graph!GraphNext]_Graph!graph
      BY StepImplementsGraph
  <1> QED
      BY <1>1, InitGraph, InitTypeInv, StepTypeInv, ListsAreExact, CallsNameTheirNodes, PTL
      DEF Spec, ImplementsGraph, Graph!GraphSpec

-----------------------------------------------------------------------------
(* Every next link of a block leads to an older one, from which it follows  *)
(* that a walk along them ends.                                            *)
LinkDown ==
    \A r \in RelationIndexes : \A o \in {"SOURCE_NEXT", "DESTINATION_NEXT"} : relationsDB[r][o] < r

(* The one write of a next link gives a new block the head it found.       *)
LEMMA LinkDownKept ==
    ASSUME TypeInv, ListsInv, LinkDown, [Next]_vars
    PROVE  LinkDown'
  <1>1. CASE UNCHANGED relationsDB
      BY <1>1 DEF LinkDown
  <1>2. CASE AddRelation
      <2> DEFINE b == [BlankRelation EXCEPT !["SOURCE"] = node["source"].addr,
                                            !["DESTINATION"] = node["destination"].addr]
      <2>1. /\ relationsDB' = [relationsDB EXCEPT ![nextRelationIndex] = b]
            /\ b["SOURCE_NEXT"] = 0 /\ b["DESTINATION_NEXT"] = 0
          BY <1>2 DEF AddRelation, BlankRelation, RelationOffsets
      <2> HIDE DEF b
      <2>2. \A r \in RelationIndexes : 0 < r
          BY DEF RelationIndexes
      <2>3. \A r \in RelationIndexes : relationsDB'[r] = b \/ relationsDB'[r] = relationsDB[r]
          BY <2>1 DEF TypeInv, TypeOK
      <2> QED
          BY <2>1, <2>2, <2>3 DEF LinkDown
  <1>3. CASE LinkHead
      <2>1. PICK h, o : /\ h \in RelationRefs /\ o \in {"SOURCE_PREVIOUS", "DESTINATION_PREVIOUS"}
                        /\ updateRelationRecords(h, o, newRelation) \/ relationsDB' = relationsDB
          BY <1>3, Typing DEF LinkHead, PreviousOffset, TypeInv
      <2>2. \A r \in RelationIndexes : \A p \in {"SOURCE_NEXT", "DESTINATION_NEXT"} :
                relationsDB'[r][p] = relationsDB[r][p]
          BY <2>1 DEF updateRelationRecords, TypeInv, TypeOK, RelationOffsets
      <2> QED
          BY <2>2 DEF LinkDown
  <1>4. CASE LinkNew
      <2>1. PICK h, o : /\ h = node[side].edgeRef /\ o = NextOffset(newRelation, node[side].addr)
          OBVIOUS
      <2>2. h < newRelation
          BY <1>4, <2>1 DEF LinkNew, ListsInv, DuringLinking, Linking, Pending, AwaitsLink, NearestBelow,
             TypeInv, TypeOK, Sides
      <2>3. o \in {"SOURCE_NEXT", "DESTINATION_NEXT"}
          BY <2>1 DEF NextOffset
      <2>4. updateRelationRecords(newRelation, o, h) \/ relationsDB' = relationsDB
          BY <1>4, <2>1 DEF LinkNew
      <2>5. \A r \in RelationIndexes : \A p \in {"SOURCE_NEXT", "DESTINATION_NEXT"} :
                \/ relationsDB'[r][p] = relationsDB[r][p]
                \/ r = newRelation /\ p = o /\ relationsDB'[r][p] = h
          BY <2>3, <2>4 DEF updateRelationRecords, TypeInv, TypeOK, RelationOffsets
      <2> QED
          BY <2>2, <2>5 DEF LinkDown
  <1> QED
      BY <1>1, <1>2, <1>3, <1>4
      DEF Next, Step, AddNode, AddEdge, InsertNode, GetNode, Decide, SearchVisit, SearchExhausted,
          NoHead, SetRelationHead, vars, disk, memory, call

(* A sequence that holds the elements of a set, each of them once.         *)
ListsOnce(s, S) ==
    /\ {s[i] : i \in DOMAIN s} = S
    /\ \A i, j \in DOMAIN s : s[i] = s[j] => i = j

(* The part of a list that a walk meets from block r on.                   *)
UpTo(S, r) == {q \in S : q <= r}

(* A block put before the list of the blocks below it.                     *)
LEMMA TurnLists ==
    ASSUME NEW S \in SUBSET Nat, NEW r \in S, NEW x \in Nat, NEW t \in Seq(Nat),
           x < r, \A q \in S : q < r => q <= x, ListsOnce(t, UpTo(S, x))
    PROVE  <<r>> \o t \in Seq(Nat) /\ ListsOnce(<<r>> \o t, UpTo(S, r))
  <1> PICK w : w = <<r>> \o t
      OBVIOUS
  <1> PICK n : n = Len(t)
      OBVIOUS
  <1>1. n \in Nat /\ DOMAIN t = 1 .. n /\ r \in Nat
      OBVIOUS
  <1>2. /\ \A i \in 1 .. n : t[i] \in S /\ t[i] <= x
        /\ \A q \in S : q <= x => \E i \in 1 .. n : t[i] = q
        /\ \A i, j \in 1 .. n : t[i] = t[j] => i = j
      <2>1. {t[i] : i \in 1 .. n} = UpTo(S, x) /\ \A i, j \in 1 .. n : t[i] = t[j] => i = j
          BY <1>1 DEF ListsOnce
      <2>2. \A q : q \in UpTo(S, x) <=> q \in S /\ q <= x
          BY DEF UpTo
      <2>3. \A i \in 1 .. n : t[i] \in UpTo(S, x)
          BY <2>1
      <2>4. \A q \in UpTo(S, x) : \E i \in 1 .. n : t[i] = q
          BY <2>1
      <2> QED
          BY <2>1, <2>2, <2>3, <2>4
  <1>3. /\ w \in Seq(Nat) /\ Len(w) = n + 1 /\ DOMAIN w = 1 .. (n + 1)
        /\ w[1] = r /\ \A i \in 2 .. (n + 1) : w[i] = t[i - 1]
      <2>1. /\ <<r>> \in Seq(Nat) /\ Len(<<r>>) = 1 /\ <<r>>[1] = r
          OBVIOUS
      <2>2. /\ w \in Seq(Nat) /\ Len(w) = 1 + n
            /\ \A i \in 1 .. 1 + n : w[i] = IF i <= 1 THEN <<r>>[i] ELSE t[i - 1]
          BY <2>1, ConcatProperties
      <2>3. DOMAIN w = 1 .. Len(w)
          BY <2>2
      <2> QED
          BY <1>1, <2>1, <2>2, <2>3
  <1>4. \A i \in 2 .. (n + 1) : i - 1 \in 1 .. n /\ w[i] \in S /\ w[i] <= x /\ w[i] # r
      BY <1>1, <1>2, <1>3
  <1>5. \A i, j \in DOMAIN w : w[i] = w[j] => i = j
      <2> SUFFICES ASSUME NEW i \in 1 .. (n + 1), NEW j \in 1 .. (n + 1), w[i] = w[j] PROVE i = j
          BY <1>3
      <2>1. CASE i = 1 \/ j = 1
          BY <1>1, <1>3, <1>4, <2>1
      <2>2. CASE i # 1 /\ j # 1
          BY <1>1, <1>2, <1>3, <1>4, <2>2
      <2> QED
          BY <2>1, <2>2
  <1>6. \A i \in DOMAIN w : w[i] \in UpTo(S, r)
      <2> SUFFICES ASSUME NEW i \in 1 .. (n + 1) PROVE w[i] \in S /\ w[i] <= r
          BY <1>3 DEF UpTo
      <2>1. CASE i = 1
          BY <1>1, <1>3, <2>1
      <2>2. CASE i # 1
          BY <1>1, <1>4, <2>2
      <2> QED
          BY <2>1, <2>2
  <1>7. ASSUME NEW q \in UpTo(S, r) PROVE \E i \in DOMAIN w : w[i] = q
      <2>0. q \in S /\ q <= r
          BY DEF UpTo
      <2>1. CASE q = r
          BY <1>1, <1>3, <2>1
      <2>2. CASE q # r
          <3>1. q <= x
              BY <1>1, <2>0, <2>2
          <3>2. PICK i \in 1 .. n : t[i] = q
              BY <1>2, <2>0, <3>1
          <3>3. i + 1 \in 2 .. (n + 1) /\ i + 1 \in 1 .. (n + 1) /\ w[i + 1] = q
              BY <1>1, <1>3, <3>2
          <3> QED
              BY <1>3, <3>3
      <2> QED
          BY <2>1, <2>2
  <1>8. {w[i] : i \in DOMAIN w} = UpTo(S, r)
      BY <1>6, <1>7
  <1> QED
      BY <1>3, <1>5, <1>8 DEF ListsOnce

(* A walk that goes from each block to the nearest one below it meets every *)
(* block below its start once.                                             *)
LEMMA WalkLists ==
    ASSUME NEW S \in SUBSET (Nat \ {0}), NEW next, NEW walk,
           walk[0] = <<>>, \A r \in S : walk[r] = <<r>> \o walk[next[r]],
           \A r \in S : /\ next[r] < r
                        /\ next[r] \in S \cup {0}
                        /\ \A q \in S : q < r => q <= next[r]
    PROVE  \A r \in S \cup {0} : walk[r] \in Seq(Nat) /\ ListsOnce(walk[r], UpTo(S, r))
  <1> DEFINE Good(r) == walk[r] \in Seq(Nat) /\ ListsOnce(walk[r], UpTo(S, r))
             Bad == {r \in S \cup {0} : ~ Good(r)}
  <1>0. \A q \in S \cup {0} : q \in Nat /\ (q \in S => ~ (q <= 0))
      OBVIOUS
  <1>1. Good(0)
      <2>1. walk[0] = <<>> /\ <<>> \in Seq(Nat)
          OBVIOUS
      <2>2. UpTo(S, 0) = {}
          BY <1>0 DEF UpTo
      <2> QED
          BY <2>1, <2>2 DEF ListsOnce
  <1>2. ASSUME NEW r \in S, Good(next[r]) PROVE Good(r)
      <2> PICK x, t : x = next[r] /\ t = walk[x]
          OBVIOUS
      <2>1. /\ S \in SUBSET Nat /\ x \in Nat /\ t \in Seq(Nat)
            /\ x < r /\ (\A q \in S : q < r => q <= x) /\ ListsOnce(t, UpTo(S, x))
          BY <1>0, <1>2
      <2>2. <<r>> \o t \in Seq(Nat) /\ ListsOnce(<<r>> \o t, UpTo(S, r))
          BY <2>1, TurnLists
      <2> QED
          BY <2>2
  <1> HIDE DEF Good
  <1>3. \A r : r \in Bad <=> r \in S \cup {0} /\ ~ Good(r)
      BY Zenon
  <1> HIDE DEF Bad
  <1>4. Bad \in SUBSET Nat
      BY <1>0, <1>3
  <1>5. Bad = {}
      <2> SUFFICES ASSUME Bad # {} PROVE FALSE
          OBVIOUS
      <2>1. PICK r \in Bad : \A l \in Bad : r <= l
          BY <1>4, LeastNat
      <2>2. r \in S /\ next[r] \in S \cup {0} /\ next[r] < r
          BY <1>1, <1>3, <2>1
      <2>3. PICK x : x = next[r]
          OBVIOUS
      <2>4. x \notin Bad
          <3>1. r \in Nat /\ x \in Nat /\ x < r
              BY <1>0, <2>2, <2>3
          <3>2. ~ (r <= x)
              BY <3>1
          <3> QED
              BY <2>1, <3>2
      <2> QED
          BY <1>2, <1>3, <2>1, <2>2, <2>3, <2>4
  <1>6. \A r \in S \cup {0} : Good(r)
      BY <1>3, <1>5
  <1> QED
      BY <1>6 DEF Good

(* NodeBlock::getEdges, called between any two writes of addEdge, meets the *)
(* relations the node's head leads to, each of them once.                  *)
PublishedListedOnce == \A n \in Nodes : ListsOnce(Chain(n), Linked(n))

(* getEdges walks in descending order through the relations of its node.    *)
LEMMA ChainLists ==
    ASSUME TypeInv, ListsInv, LinkDown, NEW n \in Nodes
    PROVE  ListsOnce(Chain(n), Linked(n))
  <1>1. PICK N \in Nat : RelationRefs = 0 .. N /\ RelationIndexes = 1 .. N /\ Null = 0
      BY CapacityAssumption DEF RelationRefs, RelationIndexes, Null
  <1>2. PICK next : next = [r \in RelationIndexes |-> NextIn(r, n)]
      OBVIOUS
  <1>3. \A r \in 1 .. N : next[r] = NextIn(r, n)
      BY <1>1, <1>2
  <1>4. \A r \in 1 .. N : next[r] \in 0 .. N /\ next[r] < r
      BY <1>1, <1>3, Typing DEF LinkDown, NextIn, NextOffset, TypeInv, TypeOK, LinkOffsets, RelationOffsets
  <1> DEFINE body(f) == [r \in 0 .. N |-> IF r = 0 THEN <<>> ELSE <<r>> \o f[next[r]]]
             walk[r \in RelationRefs] == IF r = Null THEN <<>> ELSE <<r>> \o walk[NextIn(r, n)]
  <1>5. \A f : body(f) = [r \in RelationRefs |-> IF r = Null THEN <<>> ELSE <<r>> \o f[NextIn(r, n)]]
      BY <1>1, <1>3
  <1>6. walk = CHOOSE f : f = body(f)
      BY <1>5 DEF walk
  <1>7. \E f : f = body(f)
      <2> DEFINE rank == [r \in 0 .. N |-> r]
                 step == [r \in 0 .. N |-> [s \in Seq(0 .. N) |-> <<r>> \o s]]
      <2>1. step \in [0 .. N -> [Seq(0 .. N) -> Seq(0 .. N)]]
          OBVIOUS
      <2>2. /\ rank \in [0 .. N -> Nat] /\ \A r \in 0 .. N : rank[r] <= N
            /\ \A r \in (0 .. N) \ {0} : next[r] \in 0 .. N /\ rank[next[r]] < rank[r]
          BY <1>1, <1>4
      <2>3. 0 \in 0 .. N /\ <<>> \in Seq(0 .. N)
          BY <1>1
      <2> HIDE DEF step, rank
      <2>4. HasResults(0 .. N, Seq(0 .. N), 0, <<>>, step, next)
          <3>1. IsWalk(0 .. N, Seq(0 .. N), 0, <<>>, step, next, rank, N)
              BY <1>1, <2>1, <2>2, <2>3 DEF IsWalk
          <3> QED
              BY <3>1, WalkHasResults
      <2>5. PICK f \in [0 .. N -> Seq(0 .. N)] :
                \A r \in 0 .. N : f[r] = IF r = 0 THEN <<>> ELSE step[r][f[next[r]]]
          BY <2>4 DEF HasResults, Turn
      <2>6. \A r \in (0 .. N) \ {0} : step[r][f[next[r]]] = <<r>> \o f[next[r]]
          BY <2>2, <2>5 DEF step
      <2>7. f = body(f)
          BY <2>5, <2>6
      <2> QED
          BY <2>7
  <1>8. Chain(n) = walk[nodesDB[n]]
      BY DEF Chain, walk
  <1> HIDE DEF walk
  <1>9. walk = body(walk)
      BY <1>6, <1>7
  <1>10. N \in Nat /\ 0 \in 0 .. N /\ \A r \in 1 .. N : r \in 0 .. N /\ r # 0
      BY <1>1
  <1>11. walk[0] = <<>> /\ \A r \in 1 .. N : walk[r] = <<r>> \o walk[next[r]]
      BY <1>9, <1>10
  <1> PICK S : S = Linked(n)
      OBVIOUS
  <1> PICK h : h = nodesDB[n]
      OBVIOUS
  <1>12. /\ h \in Nat /\ (h # 0 => h \in Incident(n))
         /\ \A r : r \in S <=> r \in Incident(n) /\ r <= h
         /\ \A r \in Incident(n) : r \in 1 .. N
      BY <1>1, Typing DEF ListsInv, HeadsBelong, Linked, Incident, TypeInv
  <1>13. \A r \in S : next[r] < r /\ next[r] \in S \cup {0} /\ \A q \in S : q < r => q <= next[r]
      <2> SUFFICES ASSUME NEW r \in S
                   PROVE  next[r] < r /\ next[r] \in S \cup {0} /\ \A q \in S : q < r => q <= next[r]
          OBVIOUS
      <2>1. NearestBelow(next[r], r, n) /\ next[r] \in Nat
          BY <1>3, <1>4, <1>12 DEF ListsInv, NextLinksExact
      <2> QED
          BY <1>1, <1>12, <2>1 DEF NearestBelow
  <1>14. h \in S \cup {0} /\ S \in SUBSET (Nat \ {0}) /\ UpTo(S, h) = S
      BY <1>12 DEF UpTo
  <1>15. ListsOnce(walk[h], UpTo(S, h))
      BY <1>11, <1>12, <1>13, <1>14, WalkLists
  <1> QED
      BY <1>8, <1>14, <1>15

(* Whenever getEdges runs, it ends and returns every published relation of  *)
(* the node, and none twice.                                               *)
THEOREM PublishedAreListedOnce == Spec => []PublishedListedOnce
  <1>1. Init => LinkDown
      BY DEF Init, LinkDown, RelationIndexes, BlankRelation, RelationOffsets
  <1>2. TypeInv /\ ListsInv /\ LinkDown /\ [Next]_vars => LinkDown'
      BY LinkDownKept
  <1>3. TypeInv /\ ListsInv /\ LinkDown => PublishedListedOnce
      BY ChainLists DEF PublishedListedOnce
  <1> QED
      BY <1>1, <1>2, <1>3, InitTypeInv, StepTypeInv, ListsAreExact, PTL DEF Spec

(* Between two calls of addEdge it returns all relations of the node.      *)
THEOREM EdgesAreListedOnce == Spec => []EdgesListedOnce
  <1>1. ListsInv /\ PublishedListedOnce => EdgesListedOnce
      <2> SUFFICES ASSUME ListsInv, PublishedListedOnce, pc = "idle", NEW n \in Nodes
                   PROVE  ListsOnce(Chain(n), Incident(n))
          BY DEF EdgesListedOnce, ListsOnce
      <2>1. Linked(n) = Incident(n)
          BY DEF ListsInv, AllPublished, Linking, Linked
      <2> QED
          BY <2>1 DEF PublishedListedOnce
  <1> QED
      BY <1>1, PublishedAreListedOnce, ListsAreExact, PTL

-----------------------------------------------------------------------------
(* Every node block is in the index: it is one some ID leads to.           *)
IndexCovers == \A n \in Nodes : \E i \in Ids : nodeIndex[i] = n

(* A block enters the index when it is created and never leaves it.        *)
LEMMA IndexCoversKept ==
    ASSUME TypeInv, ListsInv, IndexCovers, [Next]_vars
    PROVE  IndexCovers'
  <1>1. ASSUME NEW id \in Ids, insertNode(id) PROVE IndexCovers'
      <2>1. PICK m : m = nextNodeIndex
          OBVIOUS
      <2>2. nodeIndex' = [nodeIndex EXCEPT ![id] = m] /\ nextNodeIndex' = m + 1
          BY <1>1, <2>1 DEF insertNode
      <2>3. Nodes' = Nodes \cup {m}
          <3>1. m \in Nat
              BY <2>1, CapacityAssumption DEF TypeInv, TypeOK
          <3> QED
              BY <2>1, <2>2, <3>1 DEF Nodes
      <2>4. nodeIndex'[id] = m /\ \A i \in Ids \ {id} : nodeIndex'[i] = nodeIndex[i]
          BY <2>2 DEF TypeInv, TypeOK
      <2>5. \A n \in Nodes : nodeIndex[id] # n
          BY <1>1 DEF insertNode, Nodes, NotIndexed
      <2> QED
          BY <2>3, <2>4, <2>5 DEF IndexCovers
  <1>2. CASE UNCHANGED <<nodeIndex, nextNodeIndex>>
      BY <1>2 DEF IndexCovers, Nodes
  <1>3. CASE InsertNode
      <2>1. edge[side] \in Ids
          BY <1>3 DEF InsertNode, TypeInv, TypeOK, EdgeNamed, Sides
      <2> QED
          BY <1>1, <1>3, <2>1 DEF InsertNode
  <1> QED
      BY <1>1, <1>2, <1>3
      DEF Next, Step, AddNode, AddEdge, GetNode, Decide, SearchVisit, SearchExhausted,
          AddRelation, LinkHead, NoHead, LinkNew, SetRelationHead, vars, memory

(* What getEdges of a node gives between two calls of addEdge: the blocks   *)
(* of the neighbours of its ID in the graph, all of them and each once.    *)
NeighboursListedOnce ==
    pc = "idle" => \A i \in Vertices :
        LET n == nodeIndex[i]
            s == Chain(n)
        IN  /\ \A k \in DOMAIN s : \E j \in Vertices : Other(s[k], n) = nodeIndex[j]
            /\ \A j \in Vertices :
                  {i, j} \in Edges <=> \E k \in DOMAIN s : Other(s[k], n) = nodeIndex[j]
            /\ \A k, l \in DOMAIN s : Other(s[k], n) = Other(s[l], n) => k = l

(* The relations of a node are its edges in the graph, one for each: where  *)
(* they lead is to nodes of the index, and no two lead to the same.        *)
EdgesAreRelations(i, n) ==
    /\ n \in Nodes
    /\ \A r \in Incident(n) : \E j \in Vertices : Other(r, n) = nodeIndex[j]
    /\ \A j \in Vertices :
          {i, j} \in Edges <=> \E r \in Incident(n) : Other(r, n) = nodeIndex[j]
    /\ \A r, q \in Incident(n) : Other(r, n) = Other(q, n) => r = q

(* The records of the file describe every node of the index so.             *)
LEMMA RelationsAreEdges ==
    ASSUME TypeInv, ListsInv, IndexCovers, NEW i \in Vertices, NEW n, n = nodeIndex[i]
    PROVE  EdgesAreRelations(i, n)
  <1>1. i \in Ids /\ n \in Nodes
      BY Typing DEF Vertices, TypeInv, TypeOK, ListsInv, IndexInjective, Nodes, NodeIndexes, NotIndexed
  <1>2. \A r \in Incident(n) : r \in Stored /\ Joins(r, n) /\ Other(r, n) \in Nodes
      BY DEF Incident, ListsInv, EndsAreNodes, Other
  <1>3. \A j \in Ids : nodeIndex[j] \in Nodes => j \in Vertices
      BY DEF Vertices, Nodes, NotIndexed
  <1>4. \A r \in Incident(n) : \E j \in Vertices : Other(r, n) = nodeIndex[j]
      BY <1>2, <1>3 DEF IndexCovers
  <1>5. ASSUME NEW j \in Vertices
        PROVE  {i, j} \in Edges <=> \E r \in Incident(n) : Other(r, n) = nodeIndex[j]
      <2>1. {i, j} \in Edges <=> Related(i, j) \/ Related(j, i)
          <3>1. j \in Ids
              BY DEF Vertices
          <3>2. ASSUME {i, j} \in Edges PROVE Related(i, j) \/ Related(j, i)
              <4>1. PICK x, y \in Ids : {i, j} = {x, y} /\ Related(x, y)
                  BY <3>2 DEF Edges
              <4>2. (x = i /\ y = j) \/ (x = j /\ y = i)
                  BY <4>1
              <4> QED
                  BY <4>1, <4>2
          <3>3. ASSUME Related(i, j) \/ Related(j, i) PROVE {i, j} \in Edges
              <4>1. {i, j} \in SUBSET Ids /\ {i, j} = {j, i}
                  BY <1>1, <3>1
              <4> QED
                  BY <1>1, <3>1, <3>3, <4>1 DEF Edges
          <3> QED
              BY <3>2, <3>3
      <2>2. Related(i, j) \/ Related(j, i) <=> \E r \in Incident(n) : Other(r, n) = nodeIndex[j]
          BY DEF Related, Incident, Joins, Other, IsSource, IsDestination
      <2> QED
          BY <2>1, <2>2
  <1>6. ASSUME NEW r \in Incident(n), NEW q \in Incident(n), Other(r, n) = Other(q, n) PROVE r = q
      BY <1>2, <1>6 DEF ListsInv, NoDuplicateRelation, SameEnds, Joins, Other, IsSource, IsDestination
  <1> QED
      BY <1>1, <1>4, <1>5, <1>6 DEF EdgesAreRelations

(* A list of all relations of a node, each once, is one of its neighbours.  *)
LEMMA ListsGiveNeighbours ==
    ASSUME TypeInv, ListsInv, IndexCovers, EdgesListedOnce
    PROVE  NeighboursListedOnce
  <1> SUFFICES ASSUME pc = "idle", NEW i \in Vertices, NEW n, n = nodeIndex[i], NEW s, s = Chain(n)
               PROVE  /\ \A k \in DOMAIN s : \E j \in Vertices : Other(s[k], n) = nodeIndex[j]
                      /\ \A j \in Vertices :
                            {i, j} \in Edges <=> \E k \in DOMAIN s : Other(s[k], n) = nodeIndex[j]
                      /\ \A k, l \in DOMAIN s : Other(s[k], n) = Other(s[l], n) => k = l
      BY DEF NeighboursListedOnce
  <1>1. /\ n \in Nodes
        /\ \A r \in Incident(n) : \E j \in Vertices : Other(r, n) = nodeIndex[j]
        /\ \A j \in Vertices : {i, j} \in Edges <=> \E r \in Incident(n) : Other(r, n) = nodeIndex[j]
        /\ \A r, q \in Incident(n) : Other(r, n) = Other(q, n) => r = q
      <2>1. EdgesAreRelations(i, n)
          BY RelationsAreEdges
      <2> QED
          BY <2>1 DEF EdgesAreRelations
  <1>2. /\ \A k \in DOMAIN s : s[k] \in Incident(n)
        /\ \A r \in Incident(n) : \E k \in DOMAIN s : s[k] = r
        /\ \A k, l \in DOMAIN s : s[k] = s[l] => k = l
      <2>1. {s[k] : k \in DOMAIN s} = Incident(n) /\ \A k, l \in DOMAIN s : s[k] = s[l] => k = l
          BY <1>1 DEF EdgesListedOnce
      <2> QED
          BY <2>1
  <1>3. \A k \in DOMAIN s : \E j \in Vertices : Other(s[k], n) = nodeIndex[j]
      BY <1>1, <1>2
  <1>4. \A j \in Vertices : {i, j} \in Edges <=> \E k \in DOMAIN s : Other(s[k], n) = nodeIndex[j]
      BY <1>1, <1>2
  <1>5. \A k, l \in DOMAIN s : Other(s[k], n) = Other(s[l], n) => k = l
      BY <1>1, <1>2
  <1> QED
      BY <1>3, <1>4, <1>5

(* Between two calls getEdges of a node is the adjacency of its ID in the   *)
(* graph the store implements: each neighbour is met, once, and no other.  *)
THEOREM ListsAreAdjacency == Spec => []NeighboursListedOnce
  <1>1. Init => IndexCovers
      BY DEF Init, IndexCovers, Nodes
  <1>2. TypeInv /\ ListsInv /\ IndexCovers /\ [Next]_vars => IndexCovers'
      BY IndexCoversKept
  <1>3. TypeInv /\ ListsInv /\ IndexCovers /\ EdgesListedOnce => NeighboursListedOnce
      BY ListsGiveNeighbours
  <1> QED
      BY <1>1, <1>2, <1>3, InitTypeInv, StepTypeInv, ListsAreExact, EdgesAreListedOnce, PTL DEF Spec

-----------------------------------------------------------------------------
(* The counter of relation blocks counts the edges of the graph.           *)
SizeCountsEdges == IsFiniteSet(Edges) /\ Cardinality(Edges) = Size

(* Every step of the abstract graph keeps its count.                       *)
LEMMA GraphCounted ==
    ASSUME SizeCountsEdges, [Graph!GraphNext]_Graph!graph
    PROVE  SizeCountsEdges'
  <1>1. CASE \E v \in Ids : Graph!AddVertex(v)
      BY <1>1 DEF Graph!AddVertex, SizeCountsEdges, Edges, Related, Size
  <1>2. ASSUME NEW u \in Ids, NEW v \in Ids, Graph!AddNewEdge(u, v) PROVE SizeCountsEdges'
      <2>1. {u, v} \notin Edges /\ Edges' = Edges \cup {{u, v}} /\ Size' = Size + 1
          BY <1>2 DEF Graph!AddNewEdge, Edges, Related, Size
      <2> QED
          BY <2>1, FS_AddElement DEF SizeCountsEdges
  <1>3. CASE UNCHANGED Graph!graph
      BY <1>3 DEF Graph!graph, SizeCountsEdges, Edges, Related, Size
  <1> QED
      BY <1>1, <1>2, <1>3 DEF Graph!GraphNext

(* nextRelationIndex (RelationBlock::add) counts the undirected edges of   *)
(* the input, however often and in whichever direction each was sent.      *)
THEOREM RelationsCountEdges == Spec => []SizeCountsEdges
  <1>1. Init => SizeCountsEdges
      <2> SUFFICES ASSUME Init PROVE SizeCountsEdges
          OBVIOUS
      <2>1. Edges = {} /\ Size = 0
          BY DEF Init, Edges, Related, Stored, Size
      <2> QED
          BY <2>1, FS_EmptySet DEF SizeCountsEdges
  <1>2. TypeInv /\ ListsInv /\ CopiesOfItsNodes /\ SizeCountsEdges /\ [Next]_vars => SizeCountsEdges'
      BY StepImplementsGraph, GraphCounted
  <1> QED
      BY <1>1, <1>2, InitTypeInv, StepTypeInv, ListsAreExact, CallsNameTheirNodes, PTL DEF Spec

-----------------------------------------------------------------------------
(* A bound of the steps a call of addEdge has yet to make: those that do    *)
(* not repeat, and a turn of the search for each block the cursor can meet.*)
StepsLeft ==
    CASE pc = "addNode"  -> nextRelationIndex + (IF side = "source" THEN 10 ELSE 9)
      [] pc = "decide"   -> nextRelationIndex + 8
      [] pc = "search"   -> current + 8
      [] pc = "add"      -> 7
      [] pc = "linkHead" -> IF side = "source" THEN 6 ELSE 3
      [] pc = "linkNew"  -> IF side = "source" THEN 5 ELSE 2
      [] pc = "setHead"  -> IF side = "source" THEN 4 ELSE 1
      [] OTHER -> 0

(* No step of a call leaves as many to make as it found.                    *)
CallAdvances == Step => StepsLeft \in Nat /\ StepsLeft' \in Nat /\ StepsLeft' < StepsLeft

(* The links of the list a search walks lead to older relations, and every  *)
(* other step of addEdge leads to a later one.                             *)
LEMMA StepAdvances ==
    ASSUME TypeInv, ListsInv, Step
    PROVE  StepsLeft \in Nat /\ StepsLeft' \in Nat /\ StepsLeft' < StepsLeft
  <1> USE DEF StepsLeft
  <1>1. /\ nextRelationIndex \in Nat /\ current \in Nat /\ side \in Sides
        /\ pc # "thrown"
        /\ \A s \in Sides : node[s].edgeRef \in Nat
      BY CapacityAssumption, Typing
      DEF TypeInv, TypeOK, ListsInv, NeverThrows, RelationRefs, RelationIndexes, Null
  <1>2. CASE InsertNode \/ GetNode
      BY <1>1, <1>2 DEF InsertNode, GetNode, OtherSideOr, memory, Sides
  <1>3. CASE Decide
      <2>1. node["source"].edgeRef < nextRelationIndex
          BY <1>1, <1>3 DEF Decide, ListsInv, BeforeLinking, Fresh, HeadsBelong, Incident, Stored, Null,
             TypeInv, TypeOK
      <2> QED
          BY <1>1, <1>3, <2>1 DEF Decide, memory, Sides
  <1>4. CASE SearchVisit
      <2>1. /\ pc = "search" /\ Fresh("source") /\ current \in Incident(node["source"].addr)
          BY <1>4 DEF SearchVisit, ListsInv, BeforeLinking
      <2>2. current \in Linked(node["source"].addr)
          BY <2>1 DEF ListsInv, AllPublished, Linking, Linked, Fresh
      <2>3. NextIn(current, node["source"].addr) < current
          BY <2>1, <2>2 DEF Fresh, ListsInv, NextLinksExact, NearestBelow
      <2>4. Joins(current, node["source"].addr)
          BY <2>1 DEF Incident
      <2>5. NextIn(current, node["source"].addr) \in Nat
          BY <2>1, Typing DEF NextIn, NextOffset, TypeInv, TypeOK, Incident, RelationOffsets
      <2> QED
          BY <1>1, <1>4, <2>1, <2>3, <2>4, <2>5 DEF SearchVisit, Return
  <1>5. CASE SearchExhausted
      BY <1>1, <1>5 DEF SearchExhausted, Null
  <1>6. CASE AddRelation
      <2>1. side = "source"
          BY <1>6 DEF AddRelation, ListsInv, BeforeLinking
      <2> QED
          BY <1>6, <2>1 DEF AddRelation
  <1>7. CASE LinkHead
      BY <1>1, <1>7 DEF LinkHead, call, Sides
  <1>8. CASE NoHead \/ LinkNew
      BY <1>1, <1>8 DEF NoHead, LinkNew, call, Sides
  <1>9. CASE SetRelationHead
      BY <1>1, <1>9 DEF SetRelationHead, Return, Sides
  <1> QED
      BY <1>2, <1>3, <1>4, <1>5, <1>6, <1>7, <1>8, <1>9 DEF Step

(* A call of addEdge makes at most nextRelationIndex + 10 steps: the safety *)
(* half of AddEdgeReturns, which adds that the writer is scheduled.         *)
THEOREM CallsAdvance == Spec => [][CallAdvances]_vars
  <1>1. TypeInv /\ ListsInv /\ [Next]_vars => [CallAdvances]_vars
      BY StepAdvances DEF CallAdvances
  <1> QED
      BY <1>1, InitTypeInv, StepTypeInv, ListsAreExact, PTL DEF Spec
=============================================================================
