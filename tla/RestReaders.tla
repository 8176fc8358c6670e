---------------------------- MODULE RestReaders ----------------------------
(***************************************************************************)
(* The REST server (restAPI.cpp, GraphEndpoint): worker threads that read   *)
(* the node file and the relation file while graph_master, the writer of   *)
(* RelationStore, adds to them.  The threads share one stream per file,    *)
(* each with one cursor, under metricsLock; the writer knows no lock.      *)
(*                                                                         *)
(* A handler copies the node blocks it was asked for (NodeManager::get,    *)
(* getGraph), then walks the list of each (nodeToJson, getEdges): from the *)
(* head in the copy along the next links, naming the node at the other end *)
(* of every relation (NodeBlock::get).  An action below is one seek or the *)
(* read of one block, and any write of RelationStore may come in between.  *)
(*                                                                         *)
(* The server's index is a copy of the file an earlier run of the master   *)
(* left; it need not agree with the blocks of this run, so that what a     *)
(* handler answers is an answer about a block, whichever ID was asked for  *)
(* (StoreLifecycle says when the two agree).                               *)
(***************************************************************************)
EXTENDS RelationStore, Functions

CONSTANTS
    Threads,        (* worker threads of the endpoint                       *)
    NoThread,       (* metricsLock is free                                  *)
    ReadableIds,    (* IDs that fit the label field with their terminator   *)
    IndexFiles,     (* indexes an earlier run may have left                 *)
    Limits          (* values of the query parameter limit                  *)

ASSUME ThreadAssumption == NoThread \notin Threads
ASSUME IndexAssumption  == IndexFiles \subseteq [Ids -> NodeIndexes \cup {NotIndexed}]
ASSUME ReadableAssumption == ReadableIds \subseteq Ids
ASSUME LimitAssumption  == Limits \subseteq Nat

VARIABLES
    readerIndex,        (* NodeManager::nodeIndex of the server             *)
    metricsLock,        (* its owner                                        *)
    nodesCursor,        (* where the stream NodeBlock::nodesDB stands       *)
    relationsCursor,    (* where the stream RelationBlock::relationsDB does *)
    server,             (* "serving", or how it stopped                     *)
    handler             (* what each thread's handler has done so far       *)

streams    == <<nodesCursor, relationsCursor>>
serverVars == <<readerIndex, metricsLock, nodesCursor, relationsCursor, server, handler>>
allVars    == <<vars, serverVars>>

(* What NodeBlock::get calls a node when its ID did not fit the label      *)
(* field: the ID is then taken from a property link that was deleted, or   *)
(* from a label without a terminator.                                      *)
Garbled == NoId

Idle ==
    [step |-> "idle", todo |-> <<>>, vertices |-> <<>>, current |-> Null,
     next |-> Null, other |-> 0, edges |-> <<>>, payload |-> <<>>]

Indexed == {id \in Ids : readerIndex[id] # NotIndexed}

(* getGraph(limit) takes that many entries of the index, in hash order.  A  *)
(* limit below one takes none, and one that is no number throws before     *)
(* anything is read, which gives the lock back just the same.              *)
GraphRequests ==
    UNION {Injection(1 .. k, Indexed) :
              k \in UNION {{limit, Cardinality(Indexed)} \cap (0 .. limit) : limit \in Limits}}

Requests == {<<id>> : id \in Ids} \cup GraphRequests

(* The vertex whose list handler h walks.                                  *)
AtWork(h) == h.vertices[Len(h.payload) + 1]

RestInit ==
    /\ Init
    /\ readerIndex \in IndexFiles
    /\ metricsLock = NoThread
    /\ nodesCursor = 0
    /\ relationsCursor = Null
    /\ server = "serving"
    /\ handler = [t \in Threads |-> Idle]

At(t, step) == server = "serving" /\ handler[t].step = step

-----------------------------------------------------------------------------
(* Mutant: the handler of a graph request forgets the lock.                *)
AcquireNothing(t, ids) ==
    /\ At(t, "idle")
    /\ metricsLock' = t
    /\ handler' = [handler EXCEPT ![t] = [Idle EXCEPT !.step = "get", !.todo = ids]]
    /\ UNCHANGED <<readerIndex, streams, server>>

(* doGetVertext and doGetVertices enter behind the lock.  A thread that    *)
(* waits for it has done nothing yet, and is idle here.                    *)
Acquire(t, ids) ==
    /\ At(t, "idle")
    /\ metricsLock = NoThread
    /\ metricsLock' = t
    /\ handler' = [handler EXCEPT ![t] = [Idle EXCEPT !.step = "get", !.todo = ids]]
    /\ UNCHANGED <<readerIndex, streams, server>>

(* The end of the handler's scope.                                         *)
Release(t) ==
    /\ metricsLock' = NoThread
    /\ handler' = [handler EXCEPT ![t] = Idle]
    /\ UNCHANGED <<readerIndex, streams, server>>

(* Mutant: an early return between lock() and unlock().                    *)
NotFoundLocked(t) ==
    /\ At(t, "get")
    /\ handler[t].todo # <<>>
    /\ readerIndex[Head(handler[t].todo)] = NotIndexed
    /\ handler' = [handler EXCEPT ![t] = Idle]
    /\ UNCHANGED <<readerIndex, metricsLock, streams, server>>

NotFound(t) ==
    /\ At(t, "get")
    /\ handler[t].todo # <<>>
    /\ readerIndex[Head(handler[t].todo)] = NotIndexed
    /\ Release(t)

(* NodeManager::get.                                                       *)
SeekVertex(t) ==
    /\ At(t, "get")
    /\ handler[t].todo # <<>>
    /\ readerIndex[Head(handler[t].todo)] # NotIndexed
    /\ nodesCursor' = readerIndex[Head(handler[t].todo)]
    /\ handler' = [handler EXCEPT ![t].step = "readVertex"]
    /\ UNCHANGED <<readerIndex, metricsLock, relationsCursor, server>>

(* A block the writer has not reached is behind the end of the file: the   *)
(* read leaves the records unset and the shared stream failed for good,    *)
(* and the model follows the server no further.                            *)
ReadVertex(t) ==
    LET id   == Head(handler[t].todo)
        copy == [id |-> id, addr |-> readerIndex[id], edgeRef |-> nodesDB[nodesCursor]]
    IN  /\ At(t, "readVertex")
        /\ IF nodesCursor \in Nodes
           THEN /\ handler' = [handler EXCEPT
                       ![t].step     = "get",
                       ![t].todo     = Tail(@),
                       ![t].vertices = Append(@, copy)]
                /\ UNCHANGED server
           ELSE /\ server' = "indexAhead"
                /\ UNCHANGED handler
        /\ UNCHANGED <<readerIndex, metricsLock, streams>>

(* nodeToJson of the next vertex: getEdges starts at the head in the copy. *)
StartWalk(t) ==
    /\ At(t, "get")
    /\ handler[t].todo = <<>>
    /\ Len(handler[t].payload) < Len(handler[t].vertices)
    /\ handler' = [handler EXCEPT ![t].step = "walk", ![t].current = AtWork(handler[t]).edgeRef]
    /\ UNCHANGED <<readerIndex, metricsLock, streams, server>>

(* Mutant: the seek is off by a block.                                     *)
SeekRelationBehind(t) ==
    /\ At(t, "walk")
    /\ handler[t].current # Null
    /\ relationsCursor' = handler[t].current + 1
    /\ handler' = [handler EXCEPT ![t].step = "readRelation"]
    /\ UNCHANGED <<readerIndex, metricsLock, nodesCursor, server>>

SeekRelation(t) ==
    /\ At(t, "walk")
    /\ handler[t].current # Null
    /\ relationsCursor' = handler[t].current
    /\ handler' = [handler EXCEPT ![t].step = "readRelation"]
    /\ UNCHANGED <<readerIndex, metricsLock, nodesCursor, server>>

(* Mutant: the walk takes the source's next link whichever end it is at.    *)
ReadRelationAsSource(t) ==
    LET this == AtWork(handler[t]).addr
        r    == relationsCursor
    IN  /\ At(t, "readRelation")
        /\ IF r \in Stored /\ Joins(r, this)
           THEN /\ handler' = [handler EXCEPT
                       ![t].step  = "name",
                       ![t].next  = relationsDB[r]["SOURCE_NEXT"],
                       ![t].other = Other(r, this)]
                /\ UNCHANGED server
           ELSE /\ server' = "strayed"
                /\ UNCHANGED handler
        /\ UNCHANGED <<readerIndex, metricsLock, streams>>

(* RelationBlock::get and getEdges' decision which of the two next links   *)
(* is the vertex's; a block of other nodes makes it throw.                 *)
ReadRelation(t) ==
    LET this == AtWork(handler[t]).addr
        r    == relationsCursor
    IN  /\ At(t, "readRelation")
        /\ IF r \in Stored /\ Joins(r, this)
           THEN /\ handler' = [handler EXCEPT
                       ![t].step  = "name",
                       ![t].next  = NextIn(r, this),
                       ![t].other = Other(r, this)]
                /\ UNCHANGED server
           ELSE /\ server' = "strayed"
                /\ UNCHANGED handler
        /\ UNCHANGED <<readerIndex, metricsLock, streams>>

(* NodeBlock::get of the node at the other end.                            *)
SeekNeighbour(t) ==
    /\ At(t, "name")
    /\ nodesCursor' = handler[t].other
    /\ handler' = [handler EXCEPT ![t].step = "readNeighbour"]
    /\ UNCHANGED <<readerIndex, metricsLock, relationsCursor, server>>

(* The name NodeBlock::get finds.  One that fills the label field has no    *)
(* terminator; reading and copying it go beyond their arrays, of which     *)
(* only the garbled name is followed here.                                 *)
NamesReadAt(n) ==
    UNION {IF id \in ReadableIds THEN {id} ELSE {id, Garbled} : id \in {i \in Ids : nodeIndex[i] = n}}

ReadNeighbour(t) ==
    /\ At(t, "readNeighbour")
    /\ IF nodesCursor \in Nodes
       THEN /\ \E name \in NamesReadAt(nodesCursor) :
                  handler' = [handler EXCEPT
                      ![t].step    = "walk",
                      ![t].edges   = Append(@, [relation |-> handler[t].current, id |-> name]),
                      ![t].current = handler[t].next,
                      ![t].next    = Null,
                      ![t].other   = 0]
            /\ UNCHANGED server
       ELSE /\ server' = "strayed"
            /\ UNCHANGED handler
    /\ UNCHANGED <<readerIndex, metricsLock, streams>>

EndWalk(t) ==
    /\ At(t, "walk")
    /\ handler[t].current = Null
    /\ handler' = [handler EXCEPT
           ![t].step = "get", ![t].payload = Append(@, handler[t].edges), ![t].edges = <<>>]
    /\ UNCHANGED <<readerIndex, metricsLock, streams, server>>

(* The answer is sent, or dump() throws because a garbled name is not       *)
(* text; the guard's destructor runs either way.                           *)
Reply(t) ==
    /\ At(t, "get")
    /\ handler[t].todo = <<>>
    /\ Len(handler[t].payload) = Len(handler[t].vertices)
    /\ Release(t)

HandlerStep(t) ==
    \/ NotFound(t) \/ SeekVertex(t) \/ ReadVertex(t) \/ StartWalk(t)
    \/ SeekRelation(t) \/ ReadRelation(t) \/ SeekNeighbour(t) \/ ReadNeighbour(t)
    \/ EndWalk(t) \/ Reply(t)

Serve ==
    \E t \in Threads :
        \/ \E ids \in Requests : Acquire(t, ids)
        \/ HandlerStep(t)

RestNext ==
    \/ Next /\ UNCHANGED serverVars
    \/ Serve /\ UNCHANGED vars

(* Each handler runs on a thread of its own, and once called runs on.      *)
(* Requests may stop coming, and nothing is asked of the writer.           *)
RestSpec ==
    /\ RestInit
    /\ [][RestNext]_allVars
    /\ \A t \in Threads : WF_allVars(HandlerStep(t) /\ UNCHANGED vars)

-----------------------------------------------------------------------------
Vertex == [id : Ids, addr : NodeIndexes, edgeRef : RelationRefs]
Entry  == [relation : RelationRefs, id : Ids \cup {Garbled}]

Handler ==
    [step     : {"idle", "get", "readVertex", "walk", "readRelation", "name", "readNeighbour"},
     todo     : Seq(Ids),
     vertices : Seq(Vertex),
     current  : RelationRefs,
     next     : RelationRefs,
     other    : NodeIndexes,
     edges    : Seq(Entry),
     payload  : Seq(Seq(Entry))]

RestTypeOK ==
    /\ readerIndex \in IndexFiles
    /\ metricsLock \in Threads \cup {NoThread}
    /\ nodesCursor \in NodeIndexes
    /\ relationsCursor \in RelationRefs
    /\ server \in {"serving", "indexAhead", "strayed"}
    /\ handler \in [Threads -> Handler]

(* The list of a vertex at the moment its block was copied.                *)
ListAt(vertex) == {r \in Incident(vertex.addr) : r <= vertex.edgeRef}

NamesNeighbour(entry, vertex) ==
    \A id \in ReadableIds : nodeIndex[id] = Other(entry.relation, vertex.addr) => entry.id = id

(* The entries are the vertex's list down to, and without, relation last.  *)
ListedTo(last, entries, vertex) ==
    /\ {entries[i].relation : i \in DOMAIN entries} = {r \in ListAt(vertex) : r > last}
    /\ \A i, j \in DOMAIN entries : i < j => entries[i].relation > entries[j].relation
    /\ \A i \in DOMAIN entries : NamesNeighbour(entries[i], vertex)

(* However the writer's flushes and the other handlers fall between the     *)
(* seeks and reads of a walk, a vertex is answered with the block's whole   *)
(* list as it was at one moment of the request: the relations up to the    *)
(* head in the copy, each once, the newest first, under the right names.   *)
AnswersAreSnapshots ==
    \A t \in Threads : \A k \in DOMAIN handler[t].payload :
        ListedTo(Null, handler[t].payload[k], handler[t].vertices[k])

(* No interleaving sends a walk into an unwritten block or another node's  *)
(* list, where getEdges throws what nobody catches.                        *)
WalksNeverStray == server # "strayed"

(* The lock comes free: a walk ends although the list grows meanwhile, and *)
(* every way out of a handler gives the lock back.                         *)
LockIsReleased ==
    \A t \in Threads : metricsLock = t ~> metricsLock # t \/ server # "serving"

(***************************************************************************)
(* The strengthening that makes the snapshots inductive: who may stand     *)
(* where, and how much of a list is behind a handler.                      *)
(***************************************************************************)
Walking == {"walk", "readRelation", "name", "readNeighbour"}

(* The cursors stand where handler h sought.                               *)
Placed(h) ==
    /\ h.step = "readVertex" => /\ h.todo # <<>>
                                /\ readerIndex[Head(h.todo)] # NotIndexed
                                /\ nodesCursor = readerIndex[Head(h.todo)]
    /\ h.step = "readRelation" => h.current # Null /\ relationsCursor = h.current
    /\ h.step = "readNeighbour" => nodesCursor = h.other

(* A copy of a block is of a node of this run, and its head is in its list. *)
CopyGood(vertex) ==
    /\ vertex.addr \in Nodes
    /\ vertex.edgeRef <= nodesDB[vertex.addr]
    /\ vertex.edgeRef # Null => vertex.edgeRef \in Incident(vertex.addr)

(* In a walk the entries so far are the list above the cursor.             *)
WalkGood(h) ==
    /\ h.step \in Walking =>
          /\ Len(h.payload) < Len(h.vertices)
          /\ h.current # Null => h.current \in ListAt(AtWork(h))
          /\ ListedTo(h.current, h.edges, AtWork(h))
    /\ h.step \notin Walking => h.edges = <<>>
    /\ h.step \in {"name", "readNeighbour"} =>
          /\ h.current # Null
          /\ h.next = NextIn(h.current, AtWork(h).addr)
          /\ h.other = Other(h.current, AtWork(h).addr)

HandlerGood(h) ==
    /\ \A k \in DOMAIN h.vertices : CopyGood(h.vertices[k])
    /\ Len(h.payload) <= Len(h.vertices)
    /\ \A k \in DOMAIN h.payload : ListedTo(Null, h.payload[k], h.vertices[k])
    /\ WalkGood(h)

ReaderInv ==
    /\ \A t \in Threads :
          /\ HandlerGood(handler[t])
          /\ handler[t] # Idle => metricsLock = t /\ Placed(handler[t])
    /\ WalksNeverStray
=============================================================================
