--------------------------- MODULE RelationStore ---------------------------
(***************************************************************************)
(* The relation side of the streaming graph store: NodeManager::addNode    *)
(* and addEdge, NodeBlock::searchRelation, updateRelation and              *)
(* setRelationHead, and RelationBlock::add, get and the setters of its     *)
(* link records.                                                           *)
(*                                                                         *)
(* Every relation block sits in two intrusive doubly linked lists, the one *)
(* of its source node and the one of its destination node; a node block    *)
(* holds the head of its list (edgeRef) and a new relation becomes the     *)
(* head of both.  One call of addEdge is a sequence of file writes, each   *)
(* flushed before the next one; an action below is one write or one turn   *)
(* of a search loop, so that every state between two actions is one a      *)
(* crash can leave on disk and one the REST API process can read.          *)
(*                                                                         *)
(* A block's address is its index times the constant BLOCK_SIZE; the model *)
(* keeps the index.  Relation index 0 is the null reference (relation      *)
(* numbering starts at 1); node index 0 is an ordinary node.               *)
(***************************************************************************)
EXTENDS Integers, Sequences, FiniteSets

CONSTANTS
    Ids,            (* node IDs the stream may carry                        *)
    NoId,           (* stands for "no call of addEdge is running"           *)
    MaxNodes,       (* capacity of the node file, in blocks                 *)
    MaxRelations    (* capacity of the relation file, in blocks             *)

ASSUME NoIdAssumption == NoId \notin Ids
ASSUME CapacityAssumption == MaxNodes \in Nat \ {0} /\ MaxRelations \in Nat

VARIABLES
    nodeIndex,          (* NodeManager::nodeIndex: ID -> node block index   *)
    nextNodeIndex,      (* NodeManager::nextNodeIndex                       *)
    nodesDB,            (* node file: the edgeRef record of each block      *)
    relationsDB,        (* relation file: the records of each block         *)
    nextRelationIndex,  (* RelationBlock::nextRelationIndex                 *)
    pc,                 (* what addEdge does next                           *)
    side,               (* the end of the edge it is doing it for           *)
    edge,               (* the argument of addEdge                          *)
    node,               (* the in-memory NodeBlock copies of addRelation    *)
    current,            (* currentRelation, the cursor of searchRelation    *)
    newRelation         (* the relation addEdge returns, Null for none      *)

disk   == <<nodesDB, relationsDB>>
memory == <<nodeIndex, nextNodeIndex, nextRelationIndex>>
call   == <<side, edge, node, current, newRelation>>
vars   == <<nodeIndex, nextNodeIndex, nodesDB, relationsDB, nextRelationIndex,
            pc, side, edge, node, current, newRelation>>

Null       == 0
NotIndexed == -1

NodeIndexes     == 0 .. (MaxNodes - 1)
RelationIndexes == 1 .. MaxRelations
RelationRefs    == RelationIndexes \cup {Null}
Sides           == {"source", "destination"}

(* The records of a relation block that hold an address in this file or in *)
(* the node file.  The partition IDs are always written 0; the property    *)
(* reference belongs to module PropertyStore.                              *)
RelationOffsets ==
    {"SOURCE", "DESTINATION", "SOURCE_NEXT", "SOURCE_PREVIOUS",
     "DESTINATION_NEXT", "DESTINATION_PREVIOUS"}

LinkOffsets == RelationOffsets \ {"SOURCE", "DESTINATION"}

NodeBlock == [addr : NodeIndexes, edgeRef : RelationRefs]

NoEdge  == [s \in Sides |-> NoId]
NoNodes == [s \in Sides |-> [addr |-> 0, edgeRef |-> Null]]
BlankRelation == [o \in RelationOffsets |-> 0]

-----------------------------------------------------------------------------
(* Reading the relation file.                                              *)

IsSource(r, n)      == relationsDB[r]["SOURCE"] = n
IsDestination(r, n) == relationsDB[r]["DESTINATION"] = n
Joins(r, n)         == IsSource(r, n) \/ IsDestination(r, n)

(* Mutants: definitions with a slip of the kind a change could bring in.    *)
(* PROJECT.json names the property that notices each; nothing uses them.   *)
OffsetSourceNext(r, n)     == "SOURCE_NEXT"
OffsetSourcePrevious(r, n) == "SOURCE_PREVIOUS"
NextItself(r, n)           == r

(* A list is followed on the source records wherever the node is the       *)
(* block's source, also when it is its destination too.                    *)
NextOffset(r, n)     == IF IsSource(r, n) THEN "SOURCE_NEXT" ELSE "DESTINATION_NEXT"
PreviousOffset(r, n) == IF IsSource(r, n) THEN "SOURCE_PREVIOUS" ELSE "DESTINATION_PREVIOUS"

NextIn(r, n)     == relationsDB[r][NextOffset(r, n)]
PreviousIn(r, n) == relationsDB[r][PreviousOffset(r, n)]
Other(r, n)      == IF IsSource(r, n) THEN relationsDB[r]["DESTINATION"]
                                      ELSE relationsDB[r]["SOURCE"]

updateRelationRecords(r, offset, data) ==
    relationsDB' = [relationsDB EXCEPT ![r][offset] = data]

-----------------------------------------------------------------------------
Init ==
    /\ nodeIndex = [i \in Ids |-> NotIndexed]
    /\ nextNodeIndex = 0
    /\ nodesDB = [n \in NodeIndexes |-> Null]
    /\ relationsDB = [r \in RelationIndexes |-> BlankRelation]
    /\ nextRelationIndex = 1
    /\ pc = "idle"
    /\ side = "source"
    /\ edge = NoEdge
    /\ node = NoNodes
    /\ current = Null
    /\ newRelation = Null

(* Mutants: the index entry is off by one; a known ID is indexed again.    *)
insertNodeOffByOne(id) ==
    /\ nodeIndex[id] = NotIndexed
    /\ nextNodeIndex < MaxNodes
    /\ nodeIndex' = [nodeIndex EXCEPT ![id] = nextNodeIndex + 1]
    /\ nextNodeIndex' = nextNodeIndex + 1
    /\ nodesDB' = [nodesDB EXCEPT ![nextNodeIndex] = Null]

insertNodeAgain(id) ==
    /\ nextNodeIndex < MaxNodes
    /\ nodeIndex' = [nodeIndex EXCEPT ![id] = nextNodeIndex]
    /\ nextNodeIndex' = nextNodeIndex + 1
    /\ nodesDB' = [nodesDB EXCEPT ![nextNodeIndex] = Null]

(* addNode of an ID that is not in the index: a fresh node block, without  *)
(* relations, is written to the node file.                                 *)
insertNode(id) ==
    /\ nodeIndex[id] = NotIndexed
    /\ nextNodeIndex < MaxNodes
    /\ nodeIndex' = [nodeIndex EXCEPT ![id] = nextNodeIndex]
    /\ nextNodeIndex' = nextNodeIndex + 1
    /\ nodesDB' = [nodesDB EXCEPT ![nextNodeIndex] = Null]

(* A client's own call of addNode, as main makes for both IDs of an edge   *)
(* before it calls addEdge.  For a known ID the call only reads.           *)
AddNode(id) ==
    /\ pc = "idle"
    /\ insertNode(id)
    /\ UNCHANGED <<relationsDB, nextRelationIndex, pc, call>>

(* The bounds of the model: edges that are stored already go on arriving    *)
(* when one of the files is full, new ones only while there is room.       *)
Fits(source, destination) ==
    \/ /\ nextRelationIndex <= MaxRelations
       /\ nextNodeIndex + Cardinality({i \in {source, destination} : nodeIndex[i] = NotIndexed})
             <= MaxNodes
    \/ \E r \in 1 .. (nextRelationIndex - 1) :
          /\ Joins(r, nodeIndex[source])
          /\ Other(r, nodeIndex[source]) = nodeIndex[destination]

AddEdge(source, destination) ==
    /\ pc = "idle"
    /\ Fits(source, destination)
    /\ edge' = [s \in Sides |-> IF s = "source" THEN source ELSE destination]
    /\ side' = "source"
    /\ newRelation' = Null
    /\ pc' = "addNode"
    /\ UNCHANGED <<disk, memory, node, current>>

(* addEdge returns: its locals are gone, newRelation is the result.        *)
Return ==
    /\ pc' = "idle"
    /\ side' = "source"
    /\ edge' = NoEdge
    /\ node' = NoNodes
    /\ current' = Null

(* addEdge turns to the other end of the edge, or goes on to `after`.      *)
OtherSideOr(after) ==
    /\ side' = IF side = "source" THEN "destination" ELSE "source"
    /\ pc' = IF side = "source" THEN pc ELSE after

InsertNode ==
    /\ pc = "addNode"
    /\ insertNode(edge[side])
    /\ node' = [node EXCEPT ![side] = [addr |-> nextNodeIndex, edgeRef |-> Null]]
    /\ OtherSideOr("decide")
    /\ UNCHANGED <<relationsDB, nextRelationIndex, edge, current, newRelation>>

(* Mutant: both ends are looked up under the first ID.                     *)
GetNodeOfSource ==
    /\ pc = "addNode"
    /\ nodeIndex[edge["source"]] # NotIndexed
    /\ node' = [node EXCEPT ![side] =
                   [addr    |-> nodeIndex[edge["source"]],
                    edgeRef |-> nodesDB[nodeIndex[edge["source"]]]]]
    /\ OtherSideOr("decide")
    /\ UNCHANGED <<disk, memory, edge, current, newRelation>>

(* addNode of a known ID reads the block: the copy's edgeRef is the one    *)
(* stored now, whatever happens to the block later in this call.           *)
GetNode ==
    /\ pc = "addNode"
    /\ nodeIndex[edge[side]] # NotIndexed
    /\ node' = [node EXCEPT ![side] =
                   [addr    |-> nodeIndex[edge[side]],
                    edgeRef |-> nodesDB[nodeIndex[edge[side]]]]]
    /\ OtherSideOr("decide")
    /\ UNCHANGED <<disk, memory, edge, current, newRelation>>

(* addRelation's condition: a node without relations needs no search.      *)
Decide ==
    /\ pc = "decide"
    /\ \/ /\ \E s \in Sides : node[s].edgeRef = Null
          /\ pc' = "add"
          /\ UNCHANGED current
       \/ /\ \A s \in Sides : node[s].edgeRef # Null
          /\ pc' = "search"
          /\ current' = node["source"].edgeRef
    /\ UNCHANGED <<disk, memory, side, edge, node, newRelation>>

-----------------------------------------------------------------------------
(* searchRelation, one turn of its loop: a block that joins both nodes ends *)
(* the call, which returns NULL and writes nothing; a block of other nodes *)
(* makes it throw, and nobody catches; otherwise the walk goes on.         *)
SearchVisit ==
    LET this == node["source"].addr
        found == Other(current, this) = node["destination"].addr
    IN  /\ pc = "search"
        /\ current # Null
        /\ IF Joins(current, this) /\ found
           THEN Return
           ELSE /\ current' = NextIn(current, this)
                /\ pc' = IF Joins(current, this) THEN pc ELSE "thrown"
                /\ UNCHANGED <<side, edge, node>>
        /\ UNCHANGED <<disk, memory, newRelation>>

SearchExhausted ==
    /\ pc = "search"
    /\ current = Null
    /\ pc' = "add"
    /\ UNCHANGED <<disk, memory, call>>

-----------------------------------------------------------------------------
(* RelationBlock::add: the block is written whole, with blank links, and   *)
(* flushed once.                                                           *)
AddRelation ==
    /\ pc = "add"
    /\ nextRelationIndex <= MaxRelations
    /\ relationsDB' = [relationsDB EXCEPT ![nextRelationIndex] =
                          [BlankRelation EXCEPT
                              !["SOURCE"] = node["source"].addr,
                              !["DESTINATION"] = node["destination"].addr]]
    /\ newRelation' = nextRelationIndex
    /\ nextRelationIndex' = nextRelationIndex + 1
    /\ pc' = "linkHead"
    /\ UNCHANGED <<nodeIndex, nextNodeIndex, nodesDB, side, edge, node, current>>

(* updateRelation, first write: the list's present head, taken from the    *)
(* in-memory copy, points back to the new relation.  A head that does not  *)
(* belong to the node makes updateRelation throw before it writes.         *)
LinkHead ==
    LET head == node[side].edgeRef
        this == node[side].addr
    IN  /\ pc = "linkHead"
        /\ head # Null
        /\ IF Joins(head, this)
           THEN /\ updateRelationRecords(head, PreviousOffset(head, this), newRelation)
                /\ pc' = "linkNew"
           ELSE /\ pc' = "thrown"
                /\ UNCHANGED relationsDB
        /\ UNCHANGED <<nodesDB, memory, call>>

NoHead ==
    /\ pc = "linkHead"
    /\ node[side].edgeRef = Null
    /\ pc' = "setHead"
    /\ UNCHANGED <<disk, memory, call>>

(* Mutant: the head is read again from the block, not from the copy.       *)
LinkNewToStoredHead ==
    LET this == node[side].addr
    IN  /\ pc = "linkNew"
        /\ updateRelationRecords(newRelation, NextOffset(newRelation, this), nodesDB[this])
        /\ pc' = "setHead"
        /\ UNCHANGED <<nodesDB, memory, call>>

(* updateRelation, second write: the new relation points to the old head.  *)
LinkNew ==
    LET this == node[side].addr
    IN  /\ pc = "linkNew"
        /\ IF Joins(newRelation, this)
           THEN /\ updateRelationRecords(newRelation, NextOffset(newRelation, this),
                                         node[side].edgeRef)
                /\ pc' = "setHead"
           ELSE /\ pc' = "thrown"
                /\ UNCHANGED relationsDB
        /\ UNCHANGED <<nodesDB, memory, call>>

(* Mutant: the destination's list is forgotten.                            *)
SetRelationHeadOfSource ==
    /\ pc = "setHead"
    /\ nodesDB' = [nodesDB EXCEPT ![node[side].addr] = newRelation]
    /\ Return
    /\ UNCHANGED <<relationsDB, memory, newRelation>>

(* setRelationHead, third write: the node block points to the new relation.*)
(* addRelation updates the source's list first, then the destination's.    *)
SetRelationHead ==
    /\ pc = "setHead"
    /\ nodesDB' = [nodesDB EXCEPT ![node[side].addr] = newRelation]
    /\ IF side = "source"
       THEN /\ node' = [node EXCEPT !["source"] = [addr |-> @.addr, edgeRef |-> newRelation]]
            /\ side' = "destination"
            /\ pc' = "linkHead"
            /\ UNCHANGED <<edge, current>>
       ELSE Return
    /\ UNCHANGED <<relationsDB, memory, newRelation>>

-----------------------------------------------------------------------------
Step ==
    \/ InsertNode \/ GetNode \/ Decide
    \/ SearchVisit \/ SearchExhausted
    \/ AddRelation \/ LinkHead \/ NoHead \/ LinkNew \/ SetRelationHead

Next ==
    \/ \E id \in Ids : AddNode(id)
    \/ \E s, d \in Ids : AddEdge(s, d)
    \/ Step

(* The store is single-threaded code: once addEdge is called it runs.      *)
Spec == Init /\ [][Next]_vars /\ WF_vars(Step)

-----------------------------------------------------------------------------
(* Vocabulary of the properties.                                           *)

Nodes  == 0 .. (nextNodeIndex - 1)
Stored == 1 .. (nextRelationIndex - 1)

Incident(n) == {r \in Stored : Joins(r, n)}

(* A node's list is published up to its head: what a reader may stand on.  *)
Linked(n) == {r \in Incident(n) : r <= nodesDB[n]}

SameEnds(r, q) ==
    \/ /\ relationsDB[r]["SOURCE"] = relationsDB[q]["SOURCE"]
       /\ relationsDB[r]["DESTINATION"] = relationsDB[q]["DESTINATION"]
    \/ /\ relationsDB[r]["SOURCE"] = relationsDB[q]["DESTINATION"]
       /\ relationsDB[r]["DESTINATION"] = relationsDB[q]["SOURCE"]

(* getRelationHead followed by nextSource/nextDestination to the end, as    *)
(* NodeBlock::getEdges does it.                                            *)
Chain(n) ==
    LET walk[r \in RelationRefs] ==
            IF r = Null THEN <<>> ELSE <<r>> \o walk[NextIn(r, n)]
    IN  walk[nodesDB[n]]

(* x is the nearest relation of n below r, Null if there is none.          *)
NearestBelow(x, r, n) ==
    /\ x < r
    /\ x # Null => x \in Incident(n)
    /\ \A q \in Incident(n) : q < r => q <= x

-----------------------------------------------------------------------------
TypeOK ==
    /\ nodeIndex \in [Ids -> NodeIndexes \cup {NotIndexed}]
    /\ nextNodeIndex \in 0 .. MaxNodes
    /\ nodesDB \in [NodeIndexes -> RelationRefs]
    /\ relationsDB \in [RelationIndexes -> [RelationOffsets -> Nat]]
    /\ \A r \in RelationIndexes : \A o \in LinkOffsets : relationsDB[r][o] \in RelationRefs
    /\ nextRelationIndex \in 1 .. (MaxRelations + 1)
    /\ pc \in {"idle", "addNode", "decide", "search", "add",
               "linkHead", "linkNew", "setHead", "thrown"}
    /\ side \in Sides
    /\ edge \in [Sides -> Ids \cup {NoId}]
    /\ node \in [Sides -> NodeBlock]
    /\ current \in RelationRefs
    /\ newRelation \in RelationRefs

(* The store is a simple undirected graph: addEdge stores at most one      *)
(* relation between two nodes, whichever way round the stream names them   *)
(* and whatever the condition in addRelation lets skip the search.         *)
NoDuplicateRelation == \A r, q \in Stored : SameEnds(r, q) => r = q

(* Whenever another process reads the files, or the writer has died, each   *)
(* published block of a node's list leads to that node's next older        *)
(* relation: no relation is skipped, none of another node is entered, and   *)
(* the walk of getEdges and searchRelation ends.                           *)
NextLinksExact ==
    \A n \in Nodes : \A r \in Linked(n) : NearestBelow(NextIn(r, n), r, n)

(* The previous links invert the next links, at every moment and although  *)
(* both lists of a block keep their links in different records.            *)
PreviousInvertsNext ==
    \A n \in Nodes : \A r \in Linked(n) :
        NextIn(r, n) # Null => PreviousIn(NextIn(r, n), n) = r

(* Between two calls getEdges of any node lists each of its relations      *)
(* exactly once, a self-loop included.                                     *)
EdgesListedOnce ==
    pc = "idle" =>
        \A n \in Nodes :
            /\ {Chain(n)[i] : i \in DOMAIN Chain(n)} = Incident(n)
            /\ \A i, j \in DOMAIN Chain(n) : Chain(n)[i] = Chain(n)[j] => i = j

(* None of the three exceptions of searchRelation and updateRelation about *)
(* a block that does not belong to the node can be thrown.                 *)
NeverThrows == pc # "thrown"

(* A crash between two writes costs at most the newest relation: all older  *)
(* ones can be reached from both ends, and the newest is never reachable    *)
(* from its destination without being reachable from its source.           *)
CrashTearsOnlyNewest ==
    \A r \in Stored :
        LET s == relationsDB[r]["SOURCE"]
            d == relationsDB[r]["DESTINATION"]
        IN  /\ r < nextRelationIndex - 1 \/ pc = "idle" =>
                   r \in Linked(s) /\ r \in Linked(d)
            /\ r \in Linked(d) => r \in Linked(s)

(***************************************************************************)
(* The strengthening that makes these invariants inductive: what is on     *)
(* disk, and what the running call knows about it.                         *)
(***************************************************************************)
Linking == pc \in {"linkHead", "linkNew", "setHead"}

(* The ends of newRelation whose lists still have to be updated.           *)
Pending == IF side = "source" THEN Sides ELSE {"destination"}

IndexInjective ==
    /\ \A i \in Ids : nodeIndex[i] < nextNodeIndex
    /\ \A i, j \in Ids : nodeIndex[i] = nodeIndex[j] => i = j \/ nodeIndex[i] = NotIndexed

EndsAreNodes ==
    \A r \in Stored : relationsDB[r]["SOURCE"] \in Nodes /\ relationsDB[r]["DESTINATION"] \in Nodes

HeadsBelong == \A n \in Nodes : nodesDB[n] # Null => nodesDB[n] \in Incident(n)

(* Only the relation being linked is missing, and only from the lists that *)
(* are still pending.                                                      *)
AllPublished ==
    \A n \in Nodes : \A r \in Incident(n) :
        \/ r <= nodesDB[n]
        \/ /\ Linking
           /\ r = newRelation
           /\ \E s \in Pending : n = node[s].addr

(* The in-memory copy of a node agrees with its block.                     *)
Fresh(s) ==
    /\ node[s].addr \in Nodes
    /\ node[s].edgeRef = nodesDB[node[s].addr]

NotYetRelated ==
    \A q \in Stored :
        ~ /\ Joins(q, node["source"].addr)
          /\ Other(q, node["source"].addr) = node["destination"].addr

BeforeLinking ==
    /\ pc = "addNode" => /\ edge["source"] \in Ids
                         /\ edge["destination"] \in Ids
                         /\ side = "destination" => Fresh("source")
    /\ pc \in {"decide", "search", "add"} => /\ Fresh("source")
                                             /\ Fresh("destination")
                                             /\ side = "source"
    /\ pc = "search" =>
          /\ current # Null => current \in Incident(node["source"].addr)
          /\ \A q \in Incident(node["source"].addr) :
                q > current => Other(q, node["source"].addr) # node["destination"].addr
    /\ pc = "add" => NotYetRelated

(* The end s of newRelation awaits its list: the head it remembers is the   *)
(* relation the new one must point to.                                     *)
AwaitsLink(s) ==
    /\ node[s].addr \in Nodes
    /\ NearestBelow(node[s].edgeRef, newRelation, node[s].addr)
    /\ NextIn(newRelation, node[s].addr) \in {Null, node[s].edgeRef}

DuringLinking ==
    Linking =>
        /\ newRelation \in Stored
        /\ newRelation = nextRelationIndex - 1
        /\ IsSource(newRelation, node["source"].addr)
        /\ IsDestination(newRelation, node["destination"].addr)
        /\ \A s \in Pending : AwaitsLink(s)
        /\ IF side = "source"
           THEN \A s \in Sides : Fresh(s)
           ELSE /\ nodesDB[node["source"].addr] = newRelation
                /\ node["source"].addr # node["destination"].addr => Fresh("destination")
        /\ pc = "linkNew" =>
              /\ node[side].edgeRef # Null
              /\ PreviousIn(node[side].edgeRef, node[side].addr) = newRelation
        /\ pc = "setHead" =>
              /\ NextIn(newRelation, node[side].addr) = node[side].edgeRef
              /\ node[side].edgeRef # Null =>
                    PreviousIn(node[side].edgeRef, node[side].addr) = newRelation

(* The copies the call works with are those of the two IDs it was given.   *)
CopyOfItsNode(s) == edge[s] \in Ids /\ node[s].addr = nodeIndex[edge[s]]

CopiesOfItsNodes ==
    /\ pc = "addNode" /\ side = "destination" => CopyOfItsNode("source")
    /\ pc \notin {"idle", "addNode", "thrown"} => \A s \in Sides : CopyOfItsNode(s)

(* The inductive invariant: every published list is exact, every copy the  *)
(* call works with is as fresh as the write it is about to make needs.     *)
ListsInv ==
    /\ IndexInjective
    /\ EndsAreNodes
    /\ HeadsBelong
    /\ AllPublished
    /\ NextLinksExact
    /\ PreviousInvertsNext
    /\ NoDuplicateRelation
    /\ BeforeLinking
    /\ DuringLinking
    /\ NeverThrows

(* No write moves a reader: a block that is published stays published and  *)
(* its next link never changes again, since lists grow only at the head.   *)
ReadersKeepTheirPlace ==
    [][\A n \in Nodes : \A r \in Linked(n) :
          r \in Linked(n)' /\ NextIn(r, n)' = NextIn(r, n)]_vars

(* A call of addEdge keeps its promise: when it returns, with a new relation *)
(* or with none, its source lists a relation with its destination.         *)
CallStoresEdge ==
    [][\A s, d \in Ids :
          pc # "idle" /\ pc' = "idle" /\ edge["source"] = s /\ edge["destination"] = d =>
              \E r \in Linked(nodeIndex[s])' : Other(r, nodeIndex[s])' = nodeIndex'[d]]_vars

(* addEdge comes back: its search loop cannot run around a list for ever.  *)
AddEdgeReturns == pc # "idle" ~> pc = "idle"

(* The files refine the undirected graph the store promises.               *)
Graph == INSTANCE UndirectedGraph WITH
    vertices <- {i \in Ids : nodeIndex[i] # NotIndexed},
    edges    <- {e \in SUBSET Ids : \E i, j \in Ids :
                    /\ e = {i, j}
                    /\ \E r \in Stored : IsSource(r, nodeIndex[i]) /\ IsDestination(r, nodeIndex[j])},
    size     <- nextRelationIndex - 1

ImplementsGraph == Graph!GraphSpec
=============================================================================
