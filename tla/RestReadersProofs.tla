------------------------- MODULE RestReadersProofs -------------------------
(***************************************************************************)
(* Theorems about RestReaders, for any number of threads, nodes, relations  *)
(* and requests: the types, and that every answer is a snapshot of a list   *)
(* which the writer extends meanwhile.                                     *)
(***************************************************************************)
EXTENDS RestReaders, RelationStoreProofs

(* The index never gives a block of its own to a second ID: an entry is    *)
(* kept, or made for a new block.                                          *)
LEMMA IndexKept ==
    ASSUME TypeInv, [Next]_vars
    PROVE  \A id \in Ids : nodeIndex'[id] = nodeIndex[id] \/ nodeIndex'[id] \notin Nodes
  <1>1. ASSUME NEW i \in Ids, insertNode(i)
        PROVE  \A id \in Ids : nodeIndex'[id] = nodeIndex[id] \/ nodeIndex'[id] \notin Nodes
      BY <1>1 DEF insertNode, TypeInv, TypeOK, Nodes
  <1>2. CASE InsertNode
      <2>1. edge[side] \in Ids
          BY <1>2 DEF InsertNode, TypeInv, TypeOK, EdgeNamed, Sides
      <2> QED
          BY <1>1, <1>2, <2>1 DEF InsertNode
  <1>3. CASE \E id \in Ids : AddNode(id)
      BY <1>1, <1>3 DEF AddNode
  <1>4. CASE UNCHANGED nodeIndex
      BY <1>4
  <1> QED
      BY <1>2, <1>3, <1>4 DEF Next, Step, AddEdge, GetNode, Decide, SearchVisit, SearchExhausted,
         AddRelation, LinkHead, NoHead, LinkNew, SetRelationHead, vars, disk, memory

(* What a copy of a node block knows of its list stays true whatever the   *)
(* writer does: the list up to the head in the copy, its links, its ends.  *)
LEMMA WriterKeepsCopies ==
    ASSUME TypeInv, ListsInv, ListsInv', [Next]_vars, NEW v \in Vertex, CopyGood(v)
    PROVE  /\ CopyGood(v)'
           /\ ListAt(v)' = ListAt(v)
           /\ \A r \in ListAt(v) : Other(r, v.addr)' = Other(r, v.addr) /\ NextIn(r, v.addr)' = NextIn(r, v.addr)
  <1>1. Grows /\ v.addr \in Nodes /\ v.edgeRef \in Nat /\ v.addr \in NodeIndexes
      BY WritesGrow, Typing DEF CopyGood, Vertex, TypeInv
  <1>2. TypeInv'
      BY StepTypeInv
  <1>3. \A q \in Stored : q \in Nat /\ q > 0
      BY Typing DEF Stored, TypeInv
  <1>4. \A q \in Stored : /\ q \in Incident(v.addr) <=> q \in Incident(v.addr)'
                          /\ Other(q, v.addr)' = Other(q, v.addr)
      BY <1>1 DEF Grows, Incident, Joins, IsSource, IsDestination, Other
  <1>5. nodesDB[v.addr] \in Nat /\ nodesDB'[v.addr] \in Nat /\ nodesDB[v.addr] <= nodesDB'[v.addr]
      BY <1>1, <1>2, Typing DEF TypeInv, TypeOK, Grows, RelationRefs, RelationIndexes, Null
  <1>6. CopyGood(v)'
      BY <1>1, <1>4, <1>5 DEF CopyGood, Grows, Incident
  <1>7. ListAt(v)' = ListAt(v)
      <2>1. ASSUME NEW r \in Incident(v.addr)', r <= v.edgeRef PROVE r \in Stored
          <3>1. r \in Stored' /\ r \in Nat /\ r > 0
              BY <1>2, Typing DEF Incident, Stored, TypeInv
          <3>2. v.edgeRef \in Stored
              BY <1>1, <2>1, <3>1 DEF CopyGood, Null, Incident
          <3> QED
              BY <1>1, <1>3, <2>1, <3>1, <3>2 DEF Grows
      <2> QED
          BY <1>1, <1>4, <2>1 DEF ListAt, Grows, Incident
  <1>8. ASSUME NEW r \in ListAt(v) PROVE NextIn(r, v.addr)' = NextIn(r, v.addr)
      <2>1. r \in Linked(v.addr)
          BY <1>1, <1>3, <1>5 DEF ListAt, Linked, CopyGood, Incident
      <2> QED
          BY <1>1, <2>1, ReadersStay
  <1> QED
      BY <1>4, <1>6, <1>7, <1>8 DEF ListAt, Incident

(* And so does what a handler has listed of it, down to any block.         *)
LEMMA WriterKeepsEntries ==
    ASSUME TypeInv, ListsInv, ListsInv', [Next]_vars, NEW v \in Vertex, CopyGood(v),
           NEW last \in RelationRefs, NEW entries \in Seq(Entry), ListedTo(last, entries, v)
    PROVE  ListedTo(last, entries, v)'
  <1>1. /\ ListAt(v)' = ListAt(v)
        /\ \A r \in ListAt(v) : Other(r, v.addr)' = Other(r, v.addr)
      BY WriterKeepsCopies
  <1>2. \A i \in DOMAIN entries : entries[i].relation \in ListAt(v)
      BY DEF ListedTo
  <1>3. ASSUME NEW i \in DOMAIN entries PROVE NamesNeighbour(entries[i], v)'
      <2>1. Other(entries[i].relation, v.addr) \in Nodes
          BY <1>2, <1>3 DEF ListsInv, EndsAreNodes, ListAt, Incident, Other
      <2>2. \A id \in Ids : nodeIndex'[id] = nodeIndex[id] \/ nodeIndex'[id] \notin Nodes
          BY IndexKept
      <2>3. \A id \in ReadableIds : nodeIndex[id] = Other(entries[i].relation, v.addr) => entries[i].id = id
          BY <1>3 DEF ListedTo, NamesNeighbour
      <2> QED
          BY <1>1, <1>2, <1>3, <2>1, <2>2, <2>3, ReadableAssumption DEF NamesNeighbour
  <1> QED
      BY <1>1, <1>3 DEF ListedTo

(* No write of the master disturbs a handler.                              *)
LEMMA WriterKeepsHandlers ==
    ASSUME TypeInv, ListsInv, ListsInv', [Next]_vars, NEW h \in Handler, HandlerGood(h)
    PROVE  HandlerGood(h)'
  <1>1. /\ h.vertices \in Seq(Vertex) /\ h.payload \in Seq(Seq(Entry)) /\ h.edges \in Seq(Entry)
        /\ h.current \in RelationRefs /\ Null \in RelationRefs
      BY DEF Handler, RelationRefs
  <1>2. \A k \in DOMAIN h.vertices : h.vertices[k] \in Vertex /\ CopyGood(h.vertices[k])
      BY <1>1 DEF HandlerGood
  <1>3. \A k \in DOMAIN h.vertices : CopyGood(h.vertices[k])'
      BY <1>2, WriterKeepsCopies
  <1>4. ASSUME NEW k \in DOMAIN h.payload PROVE ListedTo(Null, h.payload[k], h.vertices[k])'
      <2>1. k \in DOMAIN h.vertices /\ h.payload[k] \in Seq(Entry)
          BY <1>1, <1>4 DEF HandlerGood
      <2>2. ListedTo(Null, h.payload[k], h.vertices[k])
          BY <1>4 DEF HandlerGood
      <2> QED
          BY <1>1, <1>2, <2>1, <2>2, WriterKeepsEntries
  <1>5. ASSUME h.step \in Walking
        PROVE  /\ AtWork(h) \in Vertex /\ CopyGood(AtWork(h))
               /\ h.current # Null => h.current \in ListAt(AtWork(h))
               /\ ListedTo(h.current, h.edges, AtWork(h))
      <2>1. Len(h.payload) + 1 \in DOMAIN h.vertices
          BY <1>1, <1>5 DEF HandlerGood, WalkGood
      <2> QED
          BY <1>2, <1>5, <2>1 DEF AtWork, HandlerGood, WalkGood
  <1>6. WalkGood(h)'
      <2>1. ASSUME h.step \in Walking
            PROVE  /\ h.current # Null => h.current \in ListAt(AtWork(h))'
                   /\ ListedTo(h.current, h.edges, AtWork(h))'
                   /\ h.current # Null => /\ NextIn(h.current, AtWork(h).addr)' = NextIn(h.current, AtWork(h).addr)
                                          /\ Other(h.current, AtWork(h).addr)' = Other(h.current, AtWork(h).addr)
          <3>1. PICK v \in Vertex : v = AtWork(h)
              BY <1>5, <2>1
          <3> QED
              BY <1>1, <1>5, <2>1, <3>1, WriterKeepsCopies, WriterKeepsEntries
      <2> QED
          BY <2>1 DEF HandlerGood, WalkGood, Walking, AtWork
  <1> QED
      BY <1>3, <1>4, <1>6 DEF HandlerGood

-----------------------------------------------------------------------------
(* A handler reads only: with the files unchanged what is good stays good. *)
LEMMA HandlersOnlyRead ==
    ASSUME UNCHANGED vars, NEW h, HandlerGood(h)
    PROVE  HandlerGood(h)'
  BY DEF vars, HandlerGood, CopyGood, Nodes, Incident, Stored, Joins, IsSource, IsDestination, ListedTo,
         ListAt, NamesNeighbour, Other, WalkGood, AtWork, NextIn, NextOffset

(* A handler that has not begun has nothing wrong.                         *)
LEMMA IdleIsGood == Idle \in Handler /\ HandlerGood(Idle)
  <1>1. Idle \in Handler
      BY CapacityAssumption DEF Idle, Handler, RelationRefs, NodeIndexes
  <1>2. HandlerGood(Idle)
      BY DEF Idle, HandlerGood, WalkGood, Walking
  <1> QED
      BY <1>1, <1>2

(* NodeManager::get copies a block of this run.                            *)
LEMMA CopiedVertex ==
    ASSUME TypeInv, ListsInv, NEW h \in Handler, HandlerGood(h), h.step = "readVertex",
           NEW v \in Vertex, v.addr \in Nodes, v.edgeRef = nodesDB[v.addr], h.todo # <<>>,
           NEW k, k = [h EXCEPT !.step = "get", !.todo = Tail(@), !.vertices = Append(@, v)]
    PROVE  k \in Handler /\ HandlerGood(k)
  <1>1. /\ h.vertices \in Seq(Vertex) /\ h.todo \in Seq(Ids) /\ Tail(h.todo) \in Seq(Ids)
      BY DEF Handler
  <1>2. k \in Handler
      <2>1. Append(h.vertices, v) \in Seq(Vertex)
          BY <1>1
      <2> QED
          BY <1>1, <2>1, Zenon DEF Handler
  <1>3. k.vertices = Append(h.vertices, v) /\ k.payload = h.payload /\ k.edges = h.edges /\ k.step = "get"
      BY DEF Handler
  <1>4. CopyGood(v)
      BY Typing DEF CopyGood, ListsInv, HeadsBelong, TypeInv
  <1>5. \A i \in DOMAIN k.vertices : CopyGood(k.vertices[i])
      BY <1>1, <1>3, <1>4 DEF HandlerGood
  <1>6. WalkGood(k)
      BY <1>3 DEF HandlerGood, WalkGood, Walking
  <1> QED
      BY <1>1, <1>2, <1>3, <1>5, <1>6 DEF HandlerGood

(* A seek changes nothing of what the handler knows.                       *)
LEMMA Sought ==
    ASSUME NEW h \in Handler, HandlerGood(h), NEW step,
           \/ h.step = "get" /\ step = "readVertex"
           \/ h.step = "walk" /\ h.current # Null /\ step = "readRelation"
           \/ h.step = "name" /\ step = "readNeighbour",
           NEW k, k = [h EXCEPT !.step = step]
    PROVE  k \in Handler /\ HandlerGood(k)
  <1>1. k \in Handler
      BY Zenon DEF Handler
  <1>2. /\ k.step = step /\ k.vertices = h.vertices /\ k.payload = h.payload /\ k.edges = h.edges
        /\ k.current = h.current /\ k.next = h.next /\ k.other = h.other
      BY DEF Handler
  <1>3. AtWork(k) = AtWork(h)
      BY <1>2 DEF AtWork
  <1> QED
      BY <1>1, <1>2, <1>3 DEF HandlerGood, WalkGood, Walking

(* Where a walk is, there is a copy it is for.                             *)
LEMMA WalkHasVertex ==
    ASSUME NEW h \in Handler, HandlerGood(h), Len(h.payload) < Len(h.vertices)
    PROVE  AtWork(h) \in Vertex /\ CopyGood(AtWork(h))
  <1>1. h.vertices \in Seq(Vertex) /\ h.payload \in Seq(Seq(Entry))
      BY DEF Handler
  <1>2. Len(h.payload) + 1 \in DOMAIN h.vertices
      BY <1>1
  <1> QED
      BY <1>1, <1>2 DEF AtWork, HandlerGood

(* A walk begins at the head in the copy, with nothing above it.           *)
LEMMA WalkStarted ==
    ASSUME TypeInv, ListsInv, NEW h \in Handler, HandlerGood(h), h.step = "get",
           Len(h.payload) < Len(h.vertices),
           NEW k, k = [h EXCEPT !.step = "walk", !.current = AtWork(h).edgeRef]
    PROVE  k \in Handler /\ HandlerGood(k)
  <1>1. AtWork(h) \in Vertex /\ CopyGood(AtWork(h))
      BY WalkHasVertex
  <1>2. PICK v \in Vertex : v = AtWork(h)
      BY <1>1
  <1>3. v.edgeRef \in RelationRefs /\ v.edgeRef \in Nat
      BY Typing DEF Vertex, TypeInv
  <1>4. k \in Handler
      BY <1>2, <1>3, Zenon DEF Handler
  <1>5. /\ k.step = "walk" /\ k.vertices = h.vertices /\ k.payload = h.payload /\ k.edges = <<>>
        /\ k.current = v.edgeRef /\ AtWork(k) = v
      BY <1>2 DEF Handler, AtWork, HandlerGood, WalkGood, Walking
  <1>6. \A q \in Stored : q \in Nat
      BY Typing DEF TypeInv
  <1>7. v.edgeRef # Null => v.edgeRef \in ListAt(v)
      BY <1>1, <1>2, <1>3 DEF CopyGood, ListAt
  <1>8. ListedTo(v.edgeRef, <<>>, v)
      BY <1>3, <1>6 DEF ListedTo, ListAt, Incident
  <1> QED
      BY <1>4, <1>5, <1>7, <1>8 DEF HandlerGood, WalkGood, Walking

(* The block read is one of the vertex's list: getEdges finds the vertex   *)
(* among its ends, and takes a next link and an end that are in order.     *)
LEMMA RelationRead ==
    ASSUME TypeInv, ListsInv, NEW h \in Handler, HandlerGood(h), h.step = "readRelation",
           h.current # Null, NEW this, this = AtWork(h).addr,
           NEW k, k = [h EXCEPT !.step = "name", !.next = NextIn(h.current, this),
                                !.other = Other(h.current, this)]
    PROVE  /\ h.current \in Stored /\ Joins(h.current, this)
           /\ k \in Handler /\ HandlerGood(k)
  <1>1. h.step \in Walking
      BY DEF Walking
  <1>2. PICK v \in Vertex : v = AtWork(h) /\ CopyGood(v)
      BY <1>1, WalkHasVertex DEF HandlerGood, WalkGood
  <1>3. h.current \in ListAt(v)
      BY <1>1, <1>2 DEF HandlerGood, WalkGood
  <1>4. h.current \in Stored /\ Joins(h.current, this)
      BY <1>2, <1>3 DEF ListAt, Incident
  <1>5. NextIn(h.current, this) \in RelationRefs /\ Other(h.current, this) \in NodeIndexes
      <2>1. h.current \in RelationIndexes
          BY <1>4, Typing DEF TypeInv
      <2>2. NextOffset(h.current, this) \in LinkOffsets
          BY DEF NextOffset, LinkOffsets, RelationOffsets
      <2>3. Other(h.current, this) \in Nodes
          BY <1>4 DEF Other, ListsInv, EndsAreNodes
      <2> QED
          BY <2>1, <2>2, <2>3, Typing DEF NextIn, TypeInv, TypeOK
  <1>6. k \in Handler
      BY <1>5, Zenon DEF Handler
  <1>7. /\ k.step = "name" /\ k.vertices = h.vertices /\ k.payload = h.payload /\ k.edges = h.edges
        /\ k.current = h.current /\ k.next = NextIn(h.current, this) /\ k.other = Other(h.current, this)
        /\ AtWork(k) = AtWork(h)
      BY DEF Handler, AtWork
  <1>8. HandlerGood(k)
      BY <1>1, <1>7 DEF HandlerGood, WalkGood, Walking
  <1> QED
      BY <1>4, <1>6, <1>8

(* An entry for the block at the cursor continues the listing: between the *)
(* block and the one its next link leads to the node has no relation.      *)
LEMMA ListingContinues ==
    ASSUME TypeInv, ListsInv, NEW v \in Vertex, CopyGood(v), NEW r \in ListAt(v),
           NEW entries \in Seq(Entry), ListedTo(r, entries, v),
           NEW e \in Entry, e.relation = r, NamesNeighbour(e, v)
    PROVE  /\ ListedTo(NextIn(r, v.addr), Append(entries, e), v)
           /\ NextIn(r, v.addr) # Null => NextIn(r, v.addr) \in ListAt(v)
  <1>1. PICK n, x : n = v.addr /\ x = NextIn(r, v.addr)
      OBVIOUS
  <1>2. /\ n \in Nodes /\ v.edgeRef \in Nat /\ nodesDB[n] \in Nat /\ v.edgeRef <= nodesDB[n]
        /\ \A q \in Stored : q \in Nat /\ q > 0
        /\ r \in Incident(n) /\ r <= v.edgeRef /\ r \in Stored
      BY <1>1, Typing DEF CopyGood, Vertex, TypeInv, ListAt, Incident, Stored
  <1>3. r \in Linked(n)
      BY <1>2 DEF Linked
  <1>4. x < r /\ (x # Null => x \in Incident(n)) /\ \A q \in Incident(n) : q < r => q <= x
      BY <1>1, <1>2, <1>3 DEF ListsInv, NextLinksExact, NearestBelow
  <1>5. x \in Nat
      BY <1>2, <1>4 DEF Null, Incident
  <1>6. x # Null => x \in ListAt(v)
      BY <1>1, <1>2, <1>4, <1>5 DEF ListAt
  <1>7. PICK es : es = Append(entries, e)
      OBVIOUS
  <1>8. /\ DOMAIN es = 1 .. (Len(entries) + 1) /\ DOMAIN entries = 1 .. Len(entries) /\ Len(entries) \in Nat
        /\ es[Len(entries) + 1] = e
        /\ \A i \in 1 .. Len(entries) : es[i] = entries[i]
      BY <1>7
  <1>9. {r2 \in ListAt(v) : r2 > x} = {r2 \in ListAt(v) : r2 > r} \cup {r}
      BY <1>1, <1>2, <1>4, <1>5 DEF ListAt, Incident
  <1>10. {es[i].relation : i \in DOMAIN es} = {entries[i].relation : i \in DOMAIN entries} \cup {r}
      BY <1>8
  <1>11. \A i \in DOMAIN entries : entries[i].relation > r
      BY DEF ListedTo
  <1>12. \A i, j \in DOMAIN es : i < j => es[i].relation > es[j].relation
      BY <1>8, <1>11 DEF ListedTo
  <1>13. \A i \in DOMAIN es : NamesNeighbour(es[i], v)
      BY <1>8 DEF ListedTo
  <1>14. ListedTo(x, es, v)
      BY <1>9, <1>10, <1>12, <1>13 DEF ListedTo
  <1> QED
      BY <1>1, <1>6, <1>7, <1>14

(* Naming the neighbour completes the entry of the block at the cursor.    *)
LEMMA NeighbourRead ==
    ASSUME TypeInv, ListsInv, NEW h \in Handler, HandlerGood(h), h.step = "readNeighbour",
           NEW name \in NamesReadAt(h.other),
           NEW k, k = [h EXCEPT !.step = "walk",
                                !.edges = Append(@, [relation |-> h.current, id |-> name]),
                                !.current = h.next, !.next = Null, !.other = 0]
    PROVE  k \in Handler /\ HandlerGood(k)
  <1>1. h.step \in Walking
      BY DEF Walking
  <1>2. PICK v \in Vertex : v = AtWork(h) /\ CopyGood(v)
      BY <1>1, WalkHasVertex DEF HandlerGood, WalkGood
  <1>3. PICK e : e = [relation |-> h.current, id |-> name]
      OBVIOUS
  <1>4. /\ h.current \in ListAt(v) /\ ListedTo(h.current, h.edges, v)
        /\ h.next = NextIn(h.current, v.addr) /\ h.other = Other(h.current, v.addr)
      BY <1>1, <1>2 DEF HandlerGood, WalkGood
  <1>5. PICK id \in Ids : nodeIndex[id] = h.other /\ name \in IF id \in ReadableIds THEN {id} ELSE {id, Garbled}
      BY DEF NamesReadAt
  <1>6. e \in Entry /\ e.relation = h.current /\ e.id = name
      BY <1>3, <1>5 DEF Entry, Handler
  <1>7. NamesNeighbour(e, v)
      <2>1. h.other \in Nodes
          BY <1>4 DEF ListAt, Incident, ListsInv, EndsAreNodes, Other
      <2>2. \A i \in ReadableIds : nodeIndex[i] = h.other => i = id
          BY <1>5, <2>1, ReadableAssumption DEF ListsInv, IndexInjective, Nodes, NotIndexed
      <2> QED
          BY <1>4, <1>5, <1>6, <2>2 DEF NamesNeighbour
  <1>8. h.edges \in Seq(Entry) /\ h.next \in RelationRefs /\ Null \in RelationRefs /\ 0 \in NodeIndexes
      BY CapacityAssumption DEF Handler, RelationRefs, NodeIndexes
  <1>9. /\ ListedTo(h.next, Append(h.edges, e), v)
        /\ h.next # Null => h.next \in ListAt(v)
      BY <1>2, <1>4, <1>6, <1>7, <1>8, ListingContinues
  <1>10. k \in Handler
      <2>1. Append(h.edges, e) \in Seq(Entry)
          BY <1>6, <1>8
      <2> QED
          BY <1>3, <1>8, <2>1, Zenon DEF Handler
  <1>11. /\ k.step = "walk" /\ k.vertices = h.vertices /\ k.payload = h.payload
         /\ k.edges = Append(h.edges, e) /\ k.current = h.next /\ AtWork(k) = v
      BY <1>2, <1>3 DEF Handler, AtWork
  <1> QED
      BY <1>1, <1>9, <1>10, <1>11 DEF HandlerGood, WalkGood, Walking

(* A walk that has met the null link has listed everything.                *)
LEMMA WalkEnded ==
    ASSUME NEW h \in Handler, HandlerGood(h), h.step = "walk", h.current = Null,
           NEW k, k = [h EXCEPT !.step = "get", !.payload = Append(@, h.edges), !.edges = <<>>]
    PROVE  k \in Handler /\ HandlerGood(k)
  <1>1. h.step \in Walking
      BY DEF Walking
  <1>2. /\ h.payload \in Seq(Seq(Entry)) /\ h.edges \in Seq(Entry) /\ <<>> \in Seq(Entry)
        /\ Len(h.payload) < Len(h.vertices) /\ h.vertices \in Seq(Vertex)
      BY <1>1 DEF Handler, HandlerGood, WalkGood
  <1>3. k \in Handler
      <2>1. Append(h.payload, h.edges) \in Seq(Seq(Entry))
          BY <1>2
      <2> QED
          BY <1>2, <2>1, Zenon DEF Handler
  <1>4. k.step = "get" /\ k.vertices = h.vertices /\ k.payload = Append(h.payload, h.edges) /\ k.edges = <<>>
      BY DEF Handler
  <1>5. ListedTo(Null, h.edges, h.vertices[Len(h.payload) + 1])
      BY <1>1 DEF HandlerGood, WalkGood, AtWork
  <1>6. \A i \in DOMAIN k.payload : ListedTo(Null, k.payload[i], h.vertices[i])
      BY <1>2, <1>4, <1>5 DEF HandlerGood
  <1>7. WalkGood(k)
      BY <1>4 DEF WalkGood, Walking
  <1> QED
      BY <1>2, <1>3, <1>4, <1>6, <1>7 DEF HandlerGood

-----------------------------------------------------------------------------
(* The invariant of server and writer together.                            *)
RestInv == TypeInv /\ ListsInv /\ RestTypeOK /\ ReaderInv

(* The owner of the lock goes on; all other handlers are idle.             *)
LEMMA OwnerMoves ==
    ASSUME RestInv, UNCHANGED vars, UNCHANGED <<readerIndex, server, metricsLock>>,
           NEW t \in Threads, metricsLock = t,
           NEW k \in Handler, HandlerGood(k), handler' = [handler EXCEPT ![t] = k],
           nodesCursor' \in NodeIndexes, relationsCursor' \in RelationRefs, Placed(k)'
    PROVE  RestTypeOK' /\ ReaderInv'
  <1>1. RestTypeOK'
      BY DEF RestInv, RestTypeOK
  <1>2. \A u \in Threads : handler'[u] = IF u = t THEN k ELSE handler[u]
      BY DEF RestInv, RestTypeOK
  <1>3. ASSUME NEW u \in Threads PROVE HandlerGood(handler[u])'
      <2>1. PICK h : h = handler'[u]
          OBVIOUS
      <2>2. HandlerGood(h)
          BY <1>2, <2>1 DEF RestInv, ReaderInv
      <2>3. HandlerGood(h)'
          BY <2>2, HandlersOnlyRead
      <2> QED
          BY <2>1, <2>3 DEF HandlerGood, WalkGood, AtWork
  <1>4. ASSUME NEW u \in Threads, handler'[u] # Idle PROVE u = t
      BY <1>2, <1>4 DEF RestInv, ReaderInv
  <1>5. \A u \in Threads : handler'[u] # Idle => metricsLock' = u /\ Placed(handler[u])'
      BY <1>2, <1>4 DEF Placed
  <1> QED
      BY <1>1, <1>3, <1>5 DEF RestInv, ReaderInv, WalksNeverStray

(* A handler that is called, or leaves, is idle on the other side.         *)
LEMMA LockChanges ==
    ASSUME RestInv, UNCHANGED vars, UNCHANGED <<readerIndex, server, streams>>,
           NEW t \in Threads, metricsLock \in {t, NoThread},
           \/ metricsLock' = NoThread /\ handler' = [handler EXCEPT ![t] = Idle]
           \/ \E ids \in Seq(Ids) : /\ metricsLock' = t
                                    /\ handler' = [handler EXCEPT ![t] = [Idle EXCEPT !.step = "get", !.todo = ids]]
    PROVE  RestTypeOK' /\ ReaderInv'
  <1>1. \A u \in Threads : u # t => handler[u] = Idle
      BY ThreadAssumption DEF RestInv, ReaderInv
  <1>2. PICK k : k = handler'[t] /\ handler' = [handler EXCEPT ![t] = k]
      BY DEF RestInv, RestTypeOK
  <1>3. /\ k \in Handler /\ HandlerGood(k)
        /\ k # Idle => metricsLock' = t /\ k.step = "get"
      <2>1. CASE k = Idle
          BY <2>1, IdleIsGood
      <2>2. ASSUME NEW ids \in Seq(Ids), k = [Idle EXCEPT !.step = "get", !.todo = ids]
            PROVE  k \in Handler /\ HandlerGood(k) /\ k.step = "get"
          <3>1. k \in Handler
              BY <2>2, IdleIsGood, Zenon DEF Handler
          <3>2. k.step = "get" /\ k.vertices = Idle.vertices /\ k.payload = Idle.payload /\ k.edges = <<>>
              BY <2>2 DEF Idle
          <3>3. WalkGood(k)
              BY <3>2 DEF WalkGood, Walking
          <3> QED
              BY <3>1, <3>2, <3>3, IdleIsGood DEF HandlerGood
      <2> QED
          BY <1>2, <2>1, <2>2 DEF RestInv, RestTypeOK
  <1>4. RestTypeOK'
      BY <1>2, <1>3 DEF RestInv, RestTypeOK, streams
  <1>5. \A u \in Threads : handler'[u] = IF u = t THEN k ELSE handler[u]
      BY <1>2 DEF RestInv, RestTypeOK
  <1>6. ASSUME NEW u \in Threads PROVE HandlerGood(handler[u])'
      <2>1. PICK h : h = handler'[u]
          OBVIOUS
      <2>2. HandlerGood(h)
          BY <1>3, <1>5, <2>1 DEF RestInv, ReaderInv
      <2>3. HandlerGood(h)'
          BY <2>2, HandlersOnlyRead
      <2> QED
          BY <2>1, <2>3 DEF HandlerGood, WalkGood, AtWork
  <1>7. \A u \in Threads : handler'[u] # Idle => metricsLock' = u /\ Placed(handler[u])'
      BY <1>1, <1>3, <1>5 DEF Placed
  <1> QED
      BY <1>4, <1>6, <1>7 DEF RestInv, ReaderInv, WalksNeverStray

(* The server stops over an index that is ahead of the writer: nothing      *)
(* else moves.                                                             *)
LEMMA Stopped ==
    ASSUME RestInv, UNCHANGED vars, UNCHANGED <<readerIndex, metricsLock, streams, handler>>,
           server' = "indexAhead"
    PROVE  RestTypeOK' /\ ReaderInv'
  <1>1. ASSUME NEW u \in Threads PROVE HandlerGood(handler[u])'
      <2>1. PICK h : h = handler'[u]
          OBVIOUS
      <2>2. HandlerGood(h)'
          BY <2>1, HandlersOnlyRead DEF RestInv, ReaderInv
      <2> QED
          BY <2>1, <2>2 DEF HandlerGood, WalkGood, AtWork
  <1> QED
      BY <1>1 DEF RestInv, RestTypeOK, ReaderInv, Placed, WalksNeverStray, streams

(* The requests name IDs, each graph request some of the index.            *)
LEMMA RequestsNameIds == Requests \subseteq Seq(Ids)
  <1>1. ASSUME NEW k \in Nat, NEW ids \in Injection(1 .. k, Indexed) PROVE ids \in Seq(Ids)
      BY <1>1 DEF Injection, IsInjective, Indexed
  <1>2. GraphRequests \subseteq Seq(Ids)
      BY <1>1, LimitAssumption DEF GraphRequests
  <1>3. \A id \in Ids : <<id>> \in Seq(Ids)
      OBVIOUS
  <1> QED
      BY <1>2, <1>3 DEF Requests

(* A handler's step keeps the invariant, and its own walk on the list.     *)
LEMMA HandlerSteps ==
    ASSUME RestInv, UNCHANGED vars, NEW t \in Threads, HandlerStep(t)
    PROVE  RestTypeOK' /\ ReaderInv'
  <1>1. PICK h \in Handler : h = handler[t]
      BY DEF RestInv, RestTypeOK
  <1>2. /\ h.step # "idle" /\ h # Idle /\ HandlerGood(h) /\ metricsLock = t /\ Placed(h)
        /\ server = "serving"
      <2>1. h.step # "idle" /\ server = "serving"
          BY <1>1 DEF HandlerStep, NotFound, SeekVertex, ReadVertex, StartWalk, SeekRelation, ReadRelation,
                      SeekNeighbour, ReadNeighbour, EndWalk, Reply, At
      <2>2. h # Idle
          BY <2>1 DEF Idle
      <2> QED
          BY <1>1, <2>1, <2>2 DEF RestInv, ReaderInv
  <1>3. /\ TypeInv /\ ListsInv /\ nodesCursor \in NodeIndexes /\ relationsCursor \in RelationRefs
        /\ readerIndex \in [Ids -> NodeIndexes \cup {NotIndexed}] /\ handler \in [Threads -> Handler]
      BY IndexAssumption DEF RestInv, RestTypeOK
  <1>4. CASE NotFound(t) \/ Reply(t)
      BY <1>2, <1>4, LockChanges DEF NotFound, Reply, Release
  <1>5. CASE SeekVertex(t)
      <2>1. PICK k : k = [h EXCEPT !.step = "readVertex"]
          OBVIOUS
      <2>2. k \in Handler /\ HandlerGood(k)
          BY <1>1, <1>2, <1>5, <2>1, Sought DEF SeekVertex, At
      <2>3. handler' = [handler EXCEPT ![t] = k]
          BY <1>1, <1>3, <1>5, <2>1 DEF SeekVertex
      <2>4. k.step = "readVertex" /\ k.todo = h.todo /\ h.todo # <<>> /\ h.todo \in Seq(Ids)
          BY <1>1, <1>5, <2>1 DEF SeekVertex, Handler
      <2>5. nodesCursor' \in NodeIndexes /\ Placed(k)'
          BY <1>1, <1>3, <1>5, <2>4 DEF SeekVertex, Placed
      <2> QED
          BY <1>2, <1>3, <1>5, <2>2, <2>3, <2>5, OwnerMoves DEF SeekVertex
  <1>6. CASE ReadVertex(t)
      <2>1. CASE nodesCursor \in Nodes
          <3>1. PICK id, v : id = Head(h.todo) /\ v = [id |-> id, addr |-> readerIndex[id], edgeRef |-> nodesDB[nodesCursor]]
              OBVIOUS
          <3>2. h.step = "readVertex" /\ h.todo # <<>> /\ h.todo \in Seq(Ids) /\ id \in Ids /\ readerIndex[id] = nodesCursor
              BY <1>1, <1>2, <1>6, <3>1 DEF ReadVertex, At, Placed, Handler
          <3>3. v \in Vertex /\ v.addr \in Nodes /\ v.edgeRef = nodesDB[v.addr]
              BY <1>3, <2>1, <3>1, <3>2, Typing DEF Vertex, TypeInv
          <3>4. PICK k : k = [h EXCEPT !.step = "get", !.todo = Tail(@), !.vertices = Append(@, v)]
              OBVIOUS
          <3>5. k \in Handler /\ HandlerGood(k)
              BY <1>2, <1>3, <3>2, <3>3, <3>4, CopiedVertex
          <3>6. handler' = [handler EXCEPT ![t] = k]
              BY <1>1, <1>3, <1>6, <2>1, <3>1, <3>4 DEF ReadVertex, Handler
          <3>7. Placed(k)'
              BY <3>4 DEF Placed, Handler
          <3> QED
              BY <1>2, <1>3, <1>6, <2>1, <3>5, <3>6, <3>7, OwnerMoves DEF ReadVertex, streams
      <2>2. CASE nodesCursor \notin Nodes
          BY <1>6, <2>2, Stopped DEF ReadVertex
      <2> QED
          BY <2>1, <2>2
  <1>7. CASE StartWalk(t)
      <2>1. PICK k : k = [h EXCEPT !.step = "walk", !.current = AtWork(h).edgeRef]
          OBVIOUS
      <2>2. k \in Handler /\ HandlerGood(k)
          BY <1>1, <1>2, <1>3, <1>7, <2>1, WalkStarted DEF StartWalk, At
      <2>3. handler' = [handler EXCEPT ![t] = k]
          BY <1>1, <1>3, <1>7, <2>1 DEF StartWalk, Handler
      <2>4. Placed(k)'
          BY <2>1 DEF Placed, Handler
      <2> QED
          BY <1>2, <1>3, <1>7, <2>2, <2>3, <2>4, OwnerMoves DEF StartWalk, streams
  <1>8. CASE SeekRelation(t)
      <2>1. PICK k : k = [h EXCEPT !.step = "readRelation"]
          OBVIOUS
      <2>2. k \in Handler /\ HandlerGood(k)
          BY <1>1, <1>2, <1>8, <2>1, Sought DEF SeekRelation, At
      <2>3. handler' = [handler EXCEPT ![t] = k]
          BY <1>1, <1>3, <1>8, <2>1 DEF SeekRelation
      <2>4. Placed(k)' /\ relationsCursor' \in RelationRefs
          BY <1>1, <1>8, <2>1 DEF SeekRelation, Placed, Handler
      <2> QED
          BY <1>2, <1>3, <1>8, <2>2, <2>3, <2>4, OwnerMoves DEF SeekRelation
  <1>9. CASE ReadRelation(t)
      <2>1. PICK this, k : /\ this = AtWork(h).addr
                           /\ k = [h EXCEPT !.step = "name", !.next = NextIn(h.current, this),
                                            !.other = Other(h.current, this)]
          OBVIOUS
      <2>2. h.step = "readRelation" /\ h.current # Null /\ relationsCursor = h.current
          BY <1>1, <1>2, <1>9 DEF ReadRelation, At, Placed
      <2>3. /\ h.current \in Stored /\ Joins(h.current, this)
            /\ k \in Handler /\ HandlerGood(k)
          BY <1>2, <1>3, <2>1, <2>2, RelationRead
      <2>4. handler' = [handler EXCEPT ![t] = k] /\ UNCHANGED server
          BY <1>1, <1>3, <1>9, <2>1, <2>2, <2>3 DEF ReadRelation, Handler
      <2>5. Placed(k)'
          BY <2>1 DEF Placed, Handler
      <2> QED
          BY <1>2, <1>3, <1>9, <2>3, <2>4, <2>5, OwnerMoves DEF ReadRelation, streams
  <1>10. CASE SeekNeighbour(t)
      <2>1. PICK k : k = [h EXCEPT !.step = "readNeighbour"]
          OBVIOUS
      <2>2. k \in Handler /\ HandlerGood(k)
          BY <1>1, <1>2, <1>10, <2>1, Sought DEF SeekNeighbour, At
      <2>3. handler' = [handler EXCEPT ![t] = k]
          BY <1>1, <1>3, <1>10, <2>1 DEF SeekNeighbour
      <2>4. Placed(k)' /\ nodesCursor' \in NodeIndexes
          BY <1>1, <1>10, <2>1 DEF SeekNeighbour, Placed, Handler
      <2> QED
          BY <1>2, <1>3, <1>10, <2>2, <2>3, <2>4, OwnerMoves DEF SeekNeighbour
  <1>11. CASE ReadNeighbour(t)
      <2>1. h.step = "readNeighbour" /\ nodesCursor = h.other /\ h.other \in Nodes
          <3>1. h.step = "readNeighbour" /\ nodesCursor = h.other
              BY <1>1, <1>2, <1>11 DEF ReadNeighbour, At, Placed
          <3>2. h.current \in ListAt(AtWork(h)) /\ h.other = Other(h.current, AtWork(h).addr)
              BY <1>2, <3>1 DEF HandlerGood, WalkGood, Walking
          <3> QED
              BY <1>3, <3>1, <3>2 DEF ListAt, Incident, ListsInv, EndsAreNodes, Other
      <2>2. PICK name \in NamesReadAt(nodesCursor) :
               handler' = [handler EXCEPT
                      ![t].step    = "walk",
                      ![t].edges   = Append(@, [relation |-> handler[t].current, id |-> name]),
                      ![t].current = handler[t].next,
                      ![t].next    = Null,
                      ![t].other   = 0]
          BY <1>11, <2>1 DEF ReadNeighbour
      <2>3. PICK k : k = [h EXCEPT !.step = "walk",
                                   !.edges = Append(@, [relation |-> h.current, id |-> name]),
                                   !.current = h.next, !.next = Null, !.other = 0]
          OBVIOUS
      <2>4. k \in Handler /\ HandlerGood(k)
          BY <1>2, <1>3, <2>1, <2>2, <2>3, NeighbourRead
      <2>5. handler' = [handler EXCEPT ![t] = k] /\ UNCHANGED server
          BY <1>1, <1>3, <1>11, <2>1, <2>2, <2>3 DEF ReadNeighbour, Handler
      <2>6. Placed(k)'
          BY <2>3 DEF Placed, Handler
      <2> QED
          BY <1>2, <1>3, <1>11, <2>4, <2>5, <2>6, OwnerMoves DEF ReadNeighbour, streams
  <1>12. CASE EndWalk(t)
      <2>1. PICK k : k = [h EXCEPT !.step = "get", !.payload = Append(@, h.edges), !.edges = <<>>]
          OBVIOUS
      <2>2. k \in Handler /\ HandlerGood(k)
          BY <1>1, <1>2, <1>12, <2>1, WalkEnded DEF EndWalk, At
      <2>3. handler' = [handler EXCEPT ![t] = k]
          BY <1>1, <1>3, <1>12, <2>1 DEF EndWalk, Handler
      <2>4. Placed(k)'
          BY <2>1 DEF Placed, Handler
      <2> QED
          BY <1>2, <1>3, <1>12, <2>2, <2>3, <2>4, OwnerMoves DEF EndWalk, streams
  <1> QED
      BY <1>4, <1>5, <1>6, <1>7, <1>8, <1>9, <1>10, <1>11, <1>12 DEF HandlerStep

(* The server begins with an index and without a request.                  *)
LEMMA InitRestInv == RestInit => RestInv
  <1> SUFFICES ASSUME RestInit PROVE RestInv
      OBVIOUS
  <1>1. TypeInv /\ ListsInv
      BY InitTypeInv, InitLists DEF RestInit
  <1>2. \A t \in Threads : handler[t] = Idle
      BY DEF RestInit
  <1>3. RestTypeOK
      BY IdleIsGood, CapacityAssumption DEF RestInit, RestTypeOK, NodeIndexes, RelationRefs
  <1>4. \A t \in Threads : HandlerGood(handler[t])
      BY <1>2, IdleIsGood
  <1>5. ReaderInv
      BY <1>2, <1>4 DEF ReaderInv, WalksNeverStray, RestInit
  <1> QED
      BY <1>1, <1>3, <1>5 DEF RestInv

(* Every step of either program keeps the invariant.                       *)
LEMMA StepRestInv == RestInv /\ [RestNext]_allVars => RestInv'
  <1> SUFFICES ASSUME RestInv, [RestNext]_allVars PROVE RestInv'
      OBVIOUS
  <1>1. [Next]_vars
      BY DEF RestNext, allVars
  <1>2. TypeInv' /\ ListsInv'
      BY <1>1, StepTypeInv, NextKeepsLists DEF RestInv
  <1>3. CASE UNCHANGED serverVars
      <2>1. RestTypeOK'
          BY <1>3 DEF RestInv, RestTypeOK, serverVars
      <2>2. ASSUME NEW t \in Threads PROVE HandlerGood(handler[t])'
          <3>1. PICK h \in Handler : h = handler[t] /\ h = handler'[t]
              BY <1>3 DEF RestInv, RestTypeOK, serverVars
          <3>2. HandlerGood(h)'
              BY <1>1, <1>2, <3>1, WriterKeepsHandlers DEF RestInv, ReaderInv
          <3> QED
              BY <3>1, <3>2 DEF HandlerGood, WalkGood, AtWork
      <2> QED
          BY <1>2, <1>3, <2>1, <2>2 DEF RestInv, ReaderInv, serverVars, Placed, WalksNeverStray
  <1>4. ASSUME UNCHANGED vars, NEW t \in Threads, NEW ids \in Requests, Acquire(t, ids) PROVE RestInv'
      <2>1. ids \in Seq(Ids)
          BY RequestsNameIds
      <2> QED
          BY <1>2, <1>4, <2>1, LockChanges DEF RestInv, Acquire
  <1>5. ASSUME UNCHANGED vars, NEW t \in Threads, HandlerStep(t) PROVE RestInv'
      BY <1>2, <1>5, HandlerSteps DEF RestInv
  <1> QED
      BY <1>3, <1>4, <1>5 DEF RestNext, Serve, allVars

(* The state of the server keeps its types beside a running writer.        *)
THEOREM ServerTypeCorrect == RestSpec => []RestTypeOK
  <1>1. RestInv => RestTypeOK
      BY DEF RestInv
  <1> QED
      BY <1>1, InitRestInv, StepRestInv, PTL DEF RestSpec

(* Whatever the writer and the other handlers do between the seeks and     *)
(* reads of a handler, each vertex it answers with is listed as the block  *)
(* led to it at one moment: whole, the newest relation first, and under    *)
(* the names of the nodes at the other ends.                               *)
THEOREM EveryAnswerIsASnapshot == RestSpec => []AnswersAreSnapshots
  <1>1. RestInv => AnswersAreSnapshots
      BY DEF RestInv, ReaderInv, HandlerGood, AnswersAreSnapshots
  <1> QED
      BY <1>1, InitRestInv, StepRestInv, PTL DEF RestSpec

(* No walk of a handler reaches an unwritten block or a block of other     *)
(* nodes, so that the exceptions of getEdges are unreachable.              *)
THEOREM NoWalkStrays == RestSpec => []WalksNeverStray
  <1>1. RestInv => WalksNeverStray
      BY DEF RestInv, ReaderInv
  <1> QED
      BY <1>1, InitRestInv, StepRestInv, PTL DEF RestSpec

-----------------------------------------------------------------------------
(* What a handler has yet to do: vertices to copy, lists to walk, and the   *)
(* steps of the present walk, four for each relation down from the cursor. *)
ToWalk(h) == Len(h.vertices) - Len(h.payload)

ToRead(h) ==
    CASE h.step = "get"           -> 4 * MaxRelations + 4
      [] h.step = "walk"          -> 4 * h.current + 3
      [] h.step = "readRelation"  -> 4 * h.current + 2
      [] h.step = "name"          -> 4 * h.current + 1
      [] h.step = "readNeighbour" -> 4 * h.current
      [] OTHER                    -> 0

Closer(k, h) ==
    \/ Len(k.todo) < Len(h.todo)
    \/ Len(k.todo) = Len(h.todo) /\ ToWalk(k) < ToWalk(h)
    \/ Len(k.todo) = Len(h.todo) /\ ToWalk(k) = ToWalk(h) /\ ToRead(k) < ToRead(h)

(* Whatever the writer appends to a list during a walk, a step of a handler *)
(* brings it closer to its end, or is the end and gives the lock back;      *)
(* nobody else's step takes it back.  An index ahead of the writer stops    *)
(* the server.                                                             *)
HandlersAdvance ==
    \A t \in Threads : handler[t] # Idle =>
        IF HandlerStep(t) /\ UNCHANGED vars
        THEN \/ server' # "serving"
             \/ handler'[t] = Idle /\ metricsLock' = NoThread
             \/ Closer(handler'[t], handler[t])
        ELSE handler'[t] = handler[t]

(* The three measures are numbers.                                         *)
LEMMA ToDoTyped ==
    ASSUME NEW h \in Handler, HandlerGood(h)
    PROVE  Len(h.todo) \in Nat /\ ToWalk(h) \in Nat /\ ToRead(h) \in Nat
  <1>1. h.todo \in Seq(Ids) /\ h.vertices \in Seq(Vertex) /\ h.payload \in Seq(Seq(Entry))
      BY DEF Handler
  <1>2. h.current \in Nat /\ MaxRelations \in Nat
      BY CapacityAssumption DEF Handler, RelationRefs, RelationIndexes, Null
  <1>3. ToRead(h) \in Nat
      BY <1>2 DEF ToRead
  <1>4. ToWalk(h) \in Nat
      BY <1>1 DEF ToWalk, HandlerGood
  <1> QED
      BY <1>1, <1>3, <1>4

(* getEdges goes on to an older relation.                                  *)
LEMMA NextIsOlder ==
    ASSUME TypeInv, ListsInv, NEW h \in Handler, HandlerGood(h), h.step = "readNeighbour"
    PROVE  h.next < h.current
  <1>1. h.step \in Walking
      BY DEF Walking
  <1>2. PICK v \in Vertex : v = AtWork(h) /\ CopyGood(v)
      BY <1>1, WalkHasVertex DEF HandlerGood, WalkGood
  <1>3. h.current \in ListAt(v) /\ h.next = NextIn(h.current, v.addr)
      BY <1>1, <1>2 DEF HandlerGood, WalkGood
  <1>4. h.current \in Linked(v.addr) /\ v.addr \in Nodes
      <2>1. v \in Vertex /\ v.addr \in Nodes /\ v.edgeRef <= nodesDB[v.addr] /\ h.current \in Incident(v.addr)
            /\ h.current <= v.edgeRef
          BY <1>1, <1>2, <1>3, WalkHasVertex DEF HandlerGood, WalkGood, CopyGood, ListAt
      <2>2. h.current \in Nat /\ v.edgeRef \in Nat /\ nodesDB[v.addr] \in Nat
          BY <2>1, Typing DEF Vertex, TypeInv, Incident
      <2> QED
          BY <2>1, <2>2 DEF Linked
  <1> QED
      BY <1>3, <1>4 DEF ListsInv, NextLinksExact, NearestBelow

(* The step of the one handler that holds the lock.                        *)
LEMMA StepIsCloser ==
    ASSUME RestInv, UNCHANGED vars, NEW t \in Threads, HandlerStep(t)
    PROVE  \/ server' # "serving"
           \/ handler'[t] = Idle /\ metricsLock' = NoThread
           \/ Closer(handler'[t], handler[t])
  <1>1. PICK h, k : h = handler[t] /\ k = handler'[t]
      OBVIOUS
  <1>2. /\ h \in Handler /\ HandlerGood(h) /\ TypeInv /\ ListsInv /\ handler \in [Threads -> Handler]
      BY <1>1 DEF RestInv, RestTypeOK, ReaderInv
  <1>3. /\ Len(h.todo) \in Nat /\ ToWalk(h) \in Nat /\ ToRead(h) \in Nat
        /\ h.current \in Nat /\ MaxRelations \in Nat /\ h.next \in Nat
        /\ h.todo \in Seq(Ids) /\ h.vertices \in Seq(Vertex) /\ h.payload \in Seq(Seq(Entry))
      BY <1>2, ToDoTyped, CapacityAssumption DEF Handler, RelationRefs, RelationIndexes, Null
  <1>4. CASE NotFound(t) \/ Reply(t)
      BY <1>2, <1>4 DEF NotFound, Reply, Release
  <1>5. ASSUME /\ k.todo = h.todo /\ k.vertices = h.vertices /\ k.payload = h.payload
               /\ ToRead(k) < ToRead(h)
        PROVE  Closer(k, h)
      BY <1>5 DEF Closer, ToWalk
  <1>6. CASE SeekVertex(t) \/ SeekRelation(t) \/ SeekNeighbour(t)
      <2>1. PICK step : k = [h EXCEPT !.step = step] /\ \/ h.step = "get" /\ step = "readVertex"
                                                        \/ h.step = "walk" /\ step = "readRelation"
                                                        \/ h.step = "name" /\ step = "readNeighbour"
          BY <1>1, <1>2, <1>6 DEF SeekVertex, SeekRelation, SeekNeighbour, At
      <2>2. /\ k.todo = h.todo /\ k.vertices = h.vertices /\ k.payload = h.payload /\ k.step = step
            /\ k.current = h.current
          BY <1>2, <2>1 DEF Handler
      <2>3. ToRead(k) < ToRead(h)
          BY <1>3, <2>1, <2>2 DEF ToRead
      <2> QED
          BY <1>1, <1>5, <2>2, <2>3
  <1>7. CASE ReadVertex(t)
      <2>1. CASE nodesCursor \in Nodes
          <3>1. k.todo = Tail(h.todo)
              BY <1>1, <1>2, <1>7, <2>1 DEF ReadVertex, Handler
          <3>2. h.todo # <<>>
              <4>1. h.step = "readVertex" /\ h # Idle
                  BY <1>1, <1>7 DEF ReadVertex, At, Idle
              <4> QED
                  BY <1>1, <4>1 DEF RestInv, ReaderInv, Placed
          <3> QED
              BY <1>1, <1>3, <3>1, <3>2 DEF Closer
      <2>2. CASE nodesCursor \notin Nodes
          BY <1>7, <2>2 DEF ReadVertex
      <2> QED
          BY <2>1, <2>2
  <1>8. CASE StartWalk(t)
      <2>1. /\ h.step = "get" /\ Len(h.payload) < Len(h.vertices)
            /\ k = [h EXCEPT !.step = "walk", !.current = AtWork(h).edgeRef]
          BY <1>1, <1>2, <1>8 DEF StartWalk, At
      <2>2. /\ k.todo = h.todo /\ k.vertices = h.vertices /\ k.payload = h.payload /\ k.step = "walk"
            /\ k.current = AtWork(h).edgeRef
          BY <1>2, <2>1 DEF Handler
      <2>3. AtWork(h).edgeRef \in RelationRefs
          BY <1>2, <2>1, WalkHasVertex DEF Vertex
      <2>4. k.current \in Nat /\ k.current <= MaxRelations
          BY <1>3, <2>2, <2>3 DEF RelationRefs, RelationIndexes, Null
      <2>5. ToRead(k) < ToRead(h)
          BY <1>3, <2>1, <2>2, <2>4 DEF ToRead
      <2> QED
          BY <1>1, <1>5, <2>2, <2>5
  <1>9. CASE ReadRelation(t)
      <2>1. CASE server' = server
          <3>1. k = [h EXCEPT !.step  = "name",
                              !.next  = NextIn(relationsCursor, AtWork(h).addr),
                              !.other = Other(relationsCursor, AtWork(h).addr)]
              BY <1>1, <1>2, <1>9, <2>1 DEF ReadRelation, At
          <3>2. /\ k.todo = h.todo /\ k.vertices = h.vertices /\ k.payload = h.payload /\ k.step = "name"
                /\ k.current = h.current /\ h.step = "readRelation"
              BY <1>1, <1>2, <1>9, <3>1 DEF Handler, ReadRelation, At
          <3>3. ToRead(k) < ToRead(h)
              BY <1>3, <3>2 DEF ToRead
          <3> QED
              BY <1>1, <1>5, <3>2, <3>3
      <2>2. CASE server' # server
          BY <1>9, <2>2 DEF ReadRelation, At
      <2> QED
          BY <2>1, <2>2
  <1>10. CASE ReadNeighbour(t)
      <2>1. CASE nodesCursor \in Nodes
          <3>1. PICK name : k = [h EXCEPT !.step = "walk",
                                          !.edges = Append(@, [relation |-> h.current, id |-> name]),
                                          !.current = h.next, !.next = Null, !.other = 0]
              <4>1. PICK name \in NamesReadAt(nodesCursor) :
                       handler' = [handler EXCEPT
                          ![t].step    = "walk",
                          ![t].edges   = Append(@, [relation |-> handler[t].current, id |-> name]),
                          ![t].current = handler[t].next,
                          ![t].next    = Null,
                          ![t].other   = 0]
                  BY <1>10, <2>1 DEF ReadNeighbour
              <4> QED
                  BY <1>1, <1>2, <4>1
          <3>2. /\ k.todo = h.todo /\ k.vertices = h.vertices /\ k.payload = h.payload /\ k.step = "walk"
                /\ k.current = h.next /\ h.step = "readNeighbour"
              BY <1>1, <1>2, <1>10, <3>1 DEF Handler, ReadNeighbour, At
          <3>3. h.next < h.current
              BY <1>2, <3>2, NextIsOlder
          <3>4. ToRead(k) < ToRead(h)
              BY <1>3, <3>2, <3>3 DEF ToRead
          <3> QED
              BY <1>1, <1>5, <3>2, <3>4
      <2>2. CASE nodesCursor \notin Nodes
          BY <1>10, <2>2 DEF ReadNeighbour
      <2> QED
          BY <2>1, <2>2
  <1>11. CASE EndWalk(t)
      <2>1. /\ h.step = "walk"
            /\ k = [h EXCEPT !.step = "get", !.payload = Append(@, h.edges), !.edges = <<>>]
          BY <1>1, <1>2, <1>11 DEF EndWalk, At
      <2>2. k.todo = h.todo /\ k.vertices = h.vertices /\ k.payload = Append(h.payload, h.edges)
          BY <1>2, <2>1 DEF Handler
      <2>3. Len(k.payload) = Len(h.payload) + 1
          BY <1>2, <1>3, <2>2 DEF Handler
      <2>4. PICK m \in Nat, n \in Nat : m = Len(h.vertices) /\ n = Len(h.payload)
          BY <1>3
      <2>5. ToWalk(h) = m - n /\ ToWalk(k) = m - (n + 1)
          BY <2>2, <2>3, <2>4, Zenon DEF ToWalk
      <2>6. ToWalk(k) < ToWalk(h)
          <3>1. m - (n + 1) < m - n
              OBVIOUS
          <3> QED
              BY <2>5, <3>1, Zenon
      <2>7. Len(k.todo) = Len(h.todo)
          BY <2>2
      <2>8. Closer(k, h)
          BY <2>6, <2>7 DEF Closer
      <2> QED
          BY <1>1, <2>8
  <1> QED
      BY <1>4, <1>6, <1>7, <1>8, <1>9, <1>10, <1>11 DEF HandlerStep

(* Who does not hold the lock has not begun.                               *)
LEMMA OthersStand ==
    ASSUME RestInv, [RestNext]_allVars, NEW t \in Threads, handler[t] # Idle,
           ~(HandlerStep(t) /\ UNCHANGED vars)
    PROVE  handler'[t] = handler[t]
  <1>1. CASE UNCHANGED serverVars
      BY <1>1 DEF serverVars
  <1>2. ASSUME UNCHANGED vars, NEW u \in Threads, (\E ids \in Requests : Acquire(u, ids)) \/ HandlerStep(u)
        PROVE  handler'[t] = handler[t]
      <2>1. metricsLock = t /\ t # NoThread
          BY ThreadAssumption DEF RestInv, ReaderInv
      <2>2. HandlerStep(u)
          BY <1>2, <2>1 DEF Acquire
      <2>3. u # t
          BY <1>2, <2>2
      <2>4. handler[u] # Idle
          <3>1. handler[u].step # "idle"
              BY <2>2 DEF HandlerStep, NotFound, SeekVertex, ReadVertex, StartWalk, SeekRelation, ReadRelation,
                          SeekNeighbour, ReadNeighbour, EndWalk, Reply, At
          <3> QED
              BY <3>1 DEF Idle
      <2>5. metricsLock = u
          BY <2>4 DEF RestInv, ReaderInv
      <2> QED
          BY <2>1, <2>3, <2>5
  <1> QED
      BY <1>1, <1>2 DEF RestNext, Serve, allVars

(* A request ends after finitely many steps of its handler.                *)
THEOREM WalksEnd == RestSpec => [][HandlersAdvance]_allVars
  <1>1. RestInv /\ [RestNext]_allVars => [HandlersAdvance]_allVars
      BY StepIsCloser, OthersStand DEF HandlersAdvance
  <1> QED
      BY <1>1, InitRestInv, StepRestInv, PTL DEF RestSpec

-----------------------------------------------------------------------------
(* What a request is answered about a block: neighbours, in the graph that  *)
(* the store implements, of the ID the block was written for, none twice,  *)
(* and each by its ID if that fits the label field.                        *)
ListsNeighbours(n, s) ==
    \E i \in Vertices :
        /\ nodeIndex[i] = n
        /\ \A x \in DOMAIN s : \E j \in Vertices :
              /\ {i, j} \in Edges
              /\ nodeIndex[j] = Other(s[x].relation, n)
              /\ j \in ReadableIds => s[x].id = j
        /\ \A x, y \in DOMAIN s :
              Other(s[x].relation, n) = Other(s[y].relation, n) => x = y

AnswersNameNeighbours ==
    \A t \in Threads : \A k \in DOMAIN handler[t].payload :
        ListsNeighbours(handler[t].vertices[k].addr, handler[t].payload[k])

(* A listing to the end of a list names the neighbours of its block.        *)
LEMMA ListingNamesNeighbours ==
    ASSUME TypeInv, ListsInv, IndexCovers, NEW v, CopyGood(v), NEW s \in Seq(Entry), ListedTo(Null, s, v),
           NEW n, n = v.addr
    PROVE  ListsNeighbours(n, s)
  <1>1. PICK i \in Ids : nodeIndex[i] = n
      BY DEF IndexCovers, CopyGood
  <1>2. i \in Vertices
      BY <1>1 DEF CopyGood, Vertices, Nodes, NotIndexed
  <1>3. /\ \A r \in Incident(n) : \E j \in Vertices : Other(r, n) = nodeIndex[j]
        /\ \A j \in Vertices : {i, j} \in Edges <=> \E r \in Incident(n) : Other(r, n) = nodeIndex[j]
        /\ \A r, q \in Incident(n) : Other(r, n) = Other(q, n) => r = q
      <2>1. EdgesAreRelations(i, n)
          BY <1>1, <1>2, RelationsAreEdges
      <2> QED
          BY <2>1 DEF EdgesAreRelations
  <1>4. \A x \in DOMAIN s : s[x].relation \in Incident(n) /\ s[x].relation \in Nat
      <2>1. \A x \in DOMAIN s : s[x].relation \in ListAt(v)
          BY DEF ListedTo
      <2> QED
          BY <2>1, Typing DEF ListAt, TypeInv, Incident
  <1>5. ASSUME NEW x \in DOMAIN s
        PROVE  \E j \in Vertices :
                      /\ {i, j} \in Edges
                      /\ nodeIndex[j] = Other(s[x].relation, n)
                      /\ j \in ReadableIds => s[x].id = j
      <2>1. PICK j \in Vertices : Other(s[x].relation, n) = nodeIndex[j]
          BY <1>3, <1>4
      <2>2. {i, j} \in Edges
          BY <1>3, <1>4, <2>1
      <2>3. j \in ReadableIds => s[x].id = j
          BY <2>1 DEF ListedTo, NamesNeighbour
      <2> QED
          BY <2>1, <2>2, <2>3
  <1>6. ASSUME NEW x \in DOMAIN s, NEW y \in DOMAIN s,
               Other(s[x].relation, n) = Other(s[y].relation, n)
        PROVE  x = y
      <2>1. s[x].relation = s[y].relation
          BY <1>3, <1>4, <1>6
      <2>2. ~(x < y) /\ ~(y < x)
          BY <1>4, <2>1 DEF ListedTo
      <2> QED
          BY <2>2
  <1> QED
      BY <1>1, <1>2, <1>5, <1>6 DEF ListsNeighbours

(* Whatever the writer appends meanwhile, every list a request has gathered *)
(* is one of neighbours, in the graph, of the ID it was asked about.        *)
THEOREM AnswersAreNeighbours == RestSpec => []AnswersNameNeighbours
  <1>1. RestInit => IndexCovers
      BY DEF RestInit, Init, IndexCovers, Nodes
  <1>2. RestInv /\ IndexCovers /\ [RestNext]_allVars => IndexCovers'
      <2>1. [RestNext]_allVars => [Next]_vars
          BY DEF RestNext, allVars
      <2> QED
          BY <2>1, IndexCoversKept DEF RestInv
  <1>3. ASSUME RestInv, IndexCovers, NEW t \in Threads, NEW k \in DOMAIN handler[t].payload
        PROVE  /\ CopyGood(handler[t].vertices[k])
               /\ handler[t].payload[k] \in Seq(Entry)
               /\ ListedTo(Null, handler[t].payload[k], handler[t].vertices[k])
      <2>1. PICK h \in Handler : h = handler[t] /\ HandlerGood(h)
          BY <1>3 DEF RestInv, RestTypeOK, ReaderInv
      <2>2. h.payload \in Seq(Seq(Entry)) /\ h.vertices \in Seq(Vertex) /\ Len(h.payload) <= Len(h.vertices)
          BY <2>1 DEF Handler, HandlerGood
      <2>3. k \in DOMAIN h.payload /\ k \in DOMAIN h.vertices
          BY <1>3, <2>1, <2>2
      <2>4. h.payload[k] \in Seq(Entry)
          BY <2>2, <2>3
      <2> QED
          BY <2>1, <2>3, <2>4 DEF HandlerGood
  <1>4. ASSUME RestInv, IndexCovers PROVE AnswersNameNeighbours
      <2> SUFFICES ASSUME NEW t \in Threads, NEW k \in DOMAIN handler[t].payload,
                          NEW v, v = handler[t].vertices[k], NEW s, s = handler[t].payload[k]
                   PROVE  ListsNeighbours(v.addr, s)
          BY DEF AnswersNameNeighbours
      <2>1. CopyGood(v) /\ s \in Seq(Entry) /\ ListedTo(Null, s, v)
          BY <1>3, <1>4
      <2>2. TypeInv /\ ListsInv /\ IndexCovers
          BY <1>4 DEF RestInv
      <2> QED
          BY <2>1, <2>2, ListingNamesNeighbours
  <1> QED
      BY <1>1, <1>2, <1>4, InitRestInv, StepRestInv, PTL DEF RestSpec
=============================================================================
