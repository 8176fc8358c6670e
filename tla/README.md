# Streaming graph partitioning: verification project

TLA+ models of the streaming graph partitioner and of the graph store behind it, their model-checking
configurations, and machine-checked proofs. Every definition is translated from the C++ source; names are
kept where TLA+ allows it, and `PROJECT.json` maps each definition to the lines it stands for. Paths below
are relative to the repository (`src/` there).

## 1. The system

A Kafka topic carries the edges of a graph, one message per edge, with properties for the edge and its two
nodes. `main.cpp` (the *graph master*) reads them one by one, asks the *partitioner* which partition each
node belongs to, adds nodes and edge to the *graph store*, and stores the properties. When the message
`-1` arrives it closes the store and prints the partitioner's statistics. `restAPI.cpp` is a second
program: an HTTP server over the same files, read-only, with two worker threads. `DataPublisher` sends an
edge to a worker's socket, `BroadcastServer` would send it to browsers.

| component | state | operations | talks to |
|---|---|---|---|
| Partitioner (`libs/Partitioner.cpp`, `Partition.cpp`) | per partition: adjacency (`edgeList`), cut edges per other partition (`edgeCuts`); `totalVertices`, `totalEdges` | `addEdge` with HASH, LDG, FENNEL; `addToEdgeCuts`, `isExist`, counts | called by the master |
| Relation store (`NodeManager`, `NodeBlock`, `RelationBlock`) | `nodeIndex`, three counters; node file, relation file: two intrusive doubly linked lists through every relation block | `addNode`, `addEdge`, `searchRelation`, `updateRelation`, `setRelationHead`, `getEdges` | files shared with the REST process |
| Property store (`PropertyLink`, `addProperty`, `save`) | property file: singly linked lists, one per node or relation; a reference in each owner's block and in each in-memory copy; an unflushed write | `create`, `insert`, `next`, `addProperty`, `getAllProperties` | called by `save` and by the master |
| Store lifecycle (`NodeManager` ctor, `close`) | index file, open modes, static streams and counters | open `trunc`/`app`, `readNodeIndex`, `persistNodeIndex`, `close` | both programs |
| REST API (`GraphEndpoint.cpp`) | `metricsLock`, one cursor per stream, index loaded at start | `doGetVertext`, `doGetVertices`, `nodeToJson` | reads files the master writes |
| Graph master (`main.cpp`, `KafkaTest`) | position in the stream, the message at work | poll, partition, add, properties, close | all of the above |
| Data publisher (`DataPublisher`) | one socket, opened anew by each call | start, ack, length, ack, data | external worker |
| WebSocket broadcast | `m_connections` | open, close, broadcast | compiled only under `ENABLEWS`, which no build file sets and with which `main.cpp` does not compile |

Not part of the system's logic: the Kafka producer scripts (environment), `JasmineGraphIncrementalStore`
(no build target), logger, visualizers, `libs/junks`.

What is hard here, and what makes each part correct:

* **Several writes, one step.** Adding an edge takes up to seven flushed writes to two files. The master may
  die, and the REST process may read, after each. The lists a reader can reach must be exact at every
  moment, and a crash may cost the newest edge only.
* **Copies of blocks.** `addEdge` and `main` work on in-memory copies of node blocks which are not refreshed
  when the block changes; with a self-loop two copies of one block are at work.
* **Shared file, forward addresses.** All property lists share one file and one counter; the lists must
  stay disjoint, and one address is always left in the stream's buffer.
* **Two lists through one block.** Each step of a walk decides by address which of a relation's two next
  links is its own.
* **Values that are copies, or never set.** The greedy partitioners iterate over copies of the partitions
  and read an uninitialised cost; whatever they choose, the partitions must agree about the edge.
* **Restart.** The index is written by `close()` only and the counters are not restored. Each start of the
  master empties the files and polls on from the committed offsets: what was stored before a crash is in no
  store afterwards.
* **An index read while it is written.** The REST server reads the index entry by entry and goes on after
  failed reads, beside a `close()` of the master that empties the file and writes it in pieces.
* **Delivery.** Kafka repeats messages and reorders partitions; offsets are committed by a timer, before or
  after the message is stored; the marker `-1` may overtake edges. The store must be the graph of what the
  present run was given, and a restart must poll on from no later than where the last run stopped.
* **Shared cursors, growing lists.** The REST threads share one cursor per file under a lock, and walk lists
  that another process extends at the head without knowing that lock.
* **Errors that are logged and passed over.** `publish` goes on after every failed socket call; the two ends
  must still agree about the frame.

`PROJECT.json` lists the hazards at their lines, with the properties that watch them.

## 2. Modules

| module | role |
|---|---|
| `RelationStore` | addNode and addEdge, one action per file write and per turn of the search loop; properties; inductive invariant `ListsInv` |
| `UndirectedGraph` | what the relation store promises: a simple undirected graph |
| `PropertyStore` | the property lists, `addProperty`, `save`, main's walk through a message's properties; inductive invariant `StoreInv` |
| `PropertyMap` | what the property files promise a reader: write-once maps |
| `Partitioner` | `Partitioner::addEdge` under the three algorithms |
| `StoreLifecycle` | open `trunc`/`app`, add, close, crash, open again; the REST server beside it; inductive invariant `LifecycleInv` |
| `RestReaders` | extends `RelationStore`: the REST threads and their lock over shared cursors, beside the writer; inductive invariant `ReaderInv` |
| `GraphMaster` | composes `UndirectedGraph`, `PropertyMap` and the partitioner's contract under `main`'s loop, with Kafka, commits, crashes and restarts |
| `DataPublisher` | `publish` against an external worker |
| `MC*` | constants and symmetry for TLC |
| `LinkRecursion` | a walk along links that descend has a result: the recursive functions of the stores exist |
| `RelationStoreProofs` | types and `ListsInv`; readers, calls, listings, the refinement |
| `PropertyStoreProofs` | types and `StoreInv`; lists, calls, the refinement |
| `PartitionerProofs` | types and the four safety invariants |
| `StoreLifecycleProofs` | types; `LifecycleInv`; readers, closes, blocks |
| `RestReadersProofs` | types; `ReaderInv`; snapshots; requests end |
| `GraphMasterProofs` | types; the run's graph, closed runs, properties, restarts, what is behind the consumer |
| `DataPublisherProofs` | types; the frame's order; what only faults lose; no wait for each other |

Definitions marked *Mutant* in a module are variants of their neighbour with a plausible slip. No
specification uses them; `PROJECT.json` says which property notices which.

### RelationStore

State: `nodeIndex`, `nextNodeIndex`, `nextRelationIndex` are the manager's; `nodesDB[n]` is the `edgeRef`
record of node block n, `relationsDB[r]` the six address records of relation block r. Addresses are kept as
block indexes (a block's address is its index times a constant). The rest is the running call: `edge` its
argument, `node` the two in-memory `NodeBlock`s that `addRelation` gets by value, `side` the end that is
worked on, `current` the search cursor, `newRelation` the result, `pc` the place.

| action | code |
|---|---|
| `AddNode` | `main`'s own `addNode` of a new ID; for a known ID the call only reads |
| `AddEdge` | the call of `addEdge` |
| `InsertNode`, `GetNode` | `addNode` for each end: new block, or copy read from the file |
| `Decide` | the condition of `addRelation`: skip the search if an end has no relation |
| `SearchVisit`, `SearchExhausted` | a turn of `searchRelation`'s loop; found, follow, throw, end |
| `AddRelation` | `RelationBlock::add`, a whole block and one flush |
| `LinkHead`, `NoHead`, `LinkNew`, `SetRelationHead` | the three writes of `updateRelation`, for source then destination |

An exception ends the process: `pc = "thrown"` has no successor. The `relocateHead = false` half of
`updateRelation` is never called and not modelled. `Spec` has `WF_vars(Step)`: a call once made runs on its
thread; nothing is assumed about calls being made.

Since an action is one flushed write, *every reachable state is a state a crash leaves on disk and a state
the other process can read*. The invariants about the files are therefore stated for every state, not
between calls, and need no crash action.

### PropertyStore

State: `propRef[o]` is the property reference in the block of node or relation `o`; `property`, `nextProp`
the property file; `unflushed` the block whose next address has been written to the stream and not flushed
(`Flushed` is the file as the writer's own stream shows it, and as the next seek leaves it);
`nextPropertyIndex` the counter. `copies` are the in-memory blocks whose `propRef` the code changes, for the
node that `save` writes, or for the relation and the two nodes `addEdge` returned; `target` is the one in
turn, `name`, `value`, `cursor` the locals of the call.

| action | code |
|---|---|
| `SaveNode` | `NodeBlock::save`: block written; an ID that does not fit becomes the property `label` |
| `StoreRelation` | `addEdge` has returned a new relation, with copies of its nodes as they were read |
| `AddProperty` | `addProperty`: create the first link or insert from the link the copy refers to |
| `NextTarget` | `main` goes on to the next property object, or to the next message |
| `CreateLink`, `SetPropertyRef` | `PropertyLink::create`, and the reference written into the owner's block |
| `FindName`, `FollowNext`, `AppendLink`, `ChainLink` | `PropertyLink::insert`, one recursion; the last write is not flushed |

What `RelationStore` proves of `addEdge` is used here as its contract: a relation per unordered pair, none
for a pair that is stored. A JSON object's properties come in the order of their names
(`nlohmann::json` keeps them sorted), each name once: `n > name` in `AddProperty`.

### Partitioner

A call touches the memory of one thread only, so a call is one action: `hashPartitioning`; for the greedy
algorithms `greedyBothExist` (both ends known to a partition), `greedyAlreadyExists` (the second test),
`greedyPlace` (the scores decide). `seen` and `homes` are history: the edges given and the partitions
answered. Scores are abstracted to the sets of partitions that can win: `ldgBest` scales LDG's score to an
integer and leaves ties of different factors open (doubles round), `fennelBest` lets a partition whose cost
was never set win or not, and gives the first partition when all scores are NaN (the first call).

### StoreLifecycle

What `RelationStore` and `PropertyStore` take as one run of one process is here a sequence of processes over
files that outlive them. State: the node file as the sequence of IDs its blocks were written for (`nodesDB`),
the index file as a sequence of entries, the last of which may be there in part (`indexDB`, `lastPart`), the memory of the writer and of the REST server, emptied when the
process ends, the locals of the server's `readNodeIndex` (`loading`), and whether each one's stream of the node
file has failed. `epoch` counts the truncations of the
node file; `writerEpoch`, `indexEpoch` and `readerEpoch` are history and say of which epoch each copy of the
index is; `reused` and `crashed` record what happened in the present epoch, `overtaken` that a close emptied
the index file while the server was reading it.

| action | code |
|---|---|
| `OpenTrunc`, `OpenApp` | the constructor; where it throws (torn index, size) it changes nothing, so there is no step |
| `AddNode`, `GetNode` | `addNode` of a new and of a known ID |
| `UpdateReference` | `setRelationHead`: four bytes inside a block |
| `PersistTruncate`, `PersistPiece`, `PersistClose` | `close`: the index file is emptied, then reaches the disk in pieces of any size, which end inside entries and fields, then is whole |
| `Crash` | an exception nobody catches, or a kill |
| `StatIndex`, `ReadKey`, `ReadBlock` | `readNodeIndex` of the server: the size, then key and block index of one entry after the other; a failed read leaves the local as it was and the pair is stored all the same |
| `OpenFiles`, `Get`, `StopReader` | `restAPI`'s `main` and `doGetVertext` |

The server reads beside a writer that may truncate the file and write another one between any two fields. A field
that is there is read as it is. One that is there in part, or of which a part was read into the buffer before the
truncation, leaves a mixture: any key, or one of `Leftovers`. After a failure the stream reads no more, and each
further turn of the loop stores the last key with the last number; before the first read they hold whatever the
stack held. The writer is the only one that changes the file, so its own `readNodeIndex` is one step
(`Loaded`).

Two facts about the C++ streams are modelled from how the code uses them: a stream opened with `app` writes
at the end of the file whatever `seekp` was given (so a block is appended, and a reference inside a block
becomes a stray record that shifts all later blocks: `straight`, `strays`), and a stream that has read past
the end stays failed until somebody calls `clear`, which nobody does.

### RestReaders

The module extends `RelationStore`: its steps are those of the writer, unchanged, or those of a handler. State
of the server: `readerIndex` (the index file an earlier run left: any map of `IndexFiles`), `metricsLock`, the
cursors of the two shared streams, and per thread the record `handler` with what the request has copied
(`vertices`), the place in the walk (`current`, `next`, `other`) and what it has gathered (`edges`, `payload`).

| action | code |
|---|---|
| `Acquire` | `doGetVertext`, `doGetVertices`: the guard is taken, IDs chosen |
| `NotFound`, `SeekVertex`, `ReadVertex` | `NodeManager::get`: not in the index; seek; read of the node block |
| `StartWalk`, `SeekRelation`, `ReadRelation` | `getEdges`: head of the copy; `RelationBlock::get`; which next link is the vertex's |
| `SeekNeighbour`, `ReadNeighbour`, `EndWalk` | `NodeBlock::get` of the other end, its name, the end of the list |
| `Reply` | the answer is sent, or `dump` throws; the guard's destructor runs |

Every seek and every block read is a step, so a write of the master, or a step of another thread, can come
between a seek and its read. A name that did not fit the label field is read from a deleted property link, or
from a field without a terminator: `NamesReadAt` lets it be right or `Garbled`. A block behind the end of the
file leaves the server's stream failed; the model stops following the server there (`indexAhead`), as
`StoreLifecycle` says when it happens. `AnswersAreSnapshots` is the abstract specification of a request: each
vertex is answered with its whole list *as it was at one moment of the request*.

### GraphMaster

State: the topic (`log`, one sequence per Kafka partition), the group's committed offsets, the consumer's
`position`; the process (`step`, the `message` at work, the `names` still to store); the partitioner's edges,
the graph store (`vertices`, `edges`, `size`: the variables of `UndirectedGraph`), the property lists
(`PropertyMap`), the index file. `began`, `delivered` and `outcome` are history.

| action | code |
|---|---|
| `Produce` | a producer sends an edge, the marker or a malformed payload to any partition |
| `Start`, `Assign` | `main` up to the subscription, files truncated; the consumer gets its offsets |
| `PollEdge`, `PollMalformed`, `PollMarker` | `poll`; `json::parse` and the conversion of the IDs; `-1` |
| `Partition`, `AddSource`, `AddDestination` | `addEdge` of the partitioner, `addNode` twice |
| `SkipEdge`, `AddEdge` | `addEdge` of the store, a stored edge or a new one |
| `AddProperty`, `NextObject`, `EndMessage` | the three loops over property objects |
| `Close`, `Exit` | `close` of the node managers; `main` returns, the consumer's destructor commits |
| `Commit`, `Crash` | the timer thread of librdkafka; a kill, at any step |

What the composition takes from the other modules are their proved contracts: `addNode` and `addEdge` act as
`UndirectedGraph` says (`StoreImplementsGraph`), properties as `PropertyMap` says (`FilesImplementMap`; so
messages are those without short self-loops, which the instance observes), and HASH over one partition stores
each edge once (`HashIsExact`). Of librdkafka it assumes the documented defaults, which `main` does not
change: offsets are stored when `poll` returns a message and committed by a timer, the reset policy is
`latest`, closing the consumer commits. A crash inside `close` is `StoreLifecycle`'s.

### DataPublisher

Each call of `publish` opens a connection of its own (`calls` is its number). State of the publisher: `call`
(the place), `message`, `sock`; of the wire: `sent`, units on their way, and `answers`, segments of answers not
received; of the worker: `serving`, `taken`, `unanswered`. `faults` records what went wrong on a connection.

| action | code |
|---|---|
| `Publish`, `Connect` | the call; `socket` and `connect`, either of which may fail |
| `SendStart`, `SendLength`, `SendData` | the three `send`s; without a peer they fail, or SIGPIPE ends the process |
| `ReceiveStartAck`, `ReceiveLengthAck` | the two `recv`s: what has arrived, up to all of it |
| `Close` | `close`; an answer not received resets the connection, and may cost what is unread |
| `Take`, `Answer`, `Leave` | the worker takes a unit, answers it in one segment or two, goes away |

## 3. Runs

| run | instance | shows |
|---|---|---|
| `relation_lists` | 3 IDs (symmetric), room for 5 of the 6 edges between them, 3 node blocks | after every write: lists exact, inverse, no edge listed twice; a crash costs the newest edge only; the exceptions are unreachable |
| `relation_refines` | 3 IDs, 3 relation blocks, fairness | refines `UndirectedGraph`; readers keep their place; `addEdge` keeps its promise and returns |
| `property_lists` | 3 nodes with IDs of 5, 6 and 7 characters, 2 relations, 3 names, 5 blocks | lists disjoint and complete, IDs longer than the label field readable, `addProperty` keeps its promise |
| `property_refines` | 2 nodes, 2 relations, 2 names, 2 values, 5 blocks, fairness | refines `PropertyMap`; nothing published changes; `addProperty` returns |
| `partitioner` | 3 vertices, 3 partitions, 5 counted edges | partitions agree; HASH exact; what the greedy algorithms lose is confined |
| `lifecycle` | 2 IDs (symmetric), 2 epochs, 3 blocks, 2 stray references, 2 leftover numbers | a server with an index of the present epoch, not emptied while it read it, answers right; a close loses nothing; blocks stay |
| `rest_readers` | 2 threads, 2 IDs (one too long for its label), 2 relations, limits 0 to 2, fairness | every answer is a snapshot; no walk strays; the lock comes free |
| `graph_master` | 3 IDs, 3 edge messages, 2 Kafka partitions, 3 messages sent, 2 starts, fairness | the store is the present run's graph; properties are those of new edges; a marker closes a complete run and ends a running one; restarts poll on from no later than where a run stopped |
| `publisher` | 2 messages, 2 calls, fairness | the frame's order; what is lost only by faults; `publish` returns |

Bounds. Lists interact through at most two nodes of one edge and one older relation of each; three IDs give
edges that share one end, both or none with a self-loop, parallel edges in both directions, and lists of
three to four relations, which is where a middle, a head and a tail are different blocks. Five property
blocks are two lists of two beside a third, or one of four; a batch on a list that exists, and a second
batch on the same node, need four. Two vertices with one hash and a third give local edges, cut edges and self-loops; the
third partition lets `isExist` look past the one that matters. Two epochs let an index outlive the files it
was made for, two IDs let one take the other's block and one index entry be mixed with the other, the third block
is one appended for an ID that has one; of the leftover numbers one is a block of another node and one lies
behind the file. TLC compares the states of that run by `LifecycleView`, which leaves out what a server has read
once its index is of another epoch or was emptied under it: no property looks at that, and no other action, until
the server stops.
Two threads are a lock with a holder and a waiter; with two relations one is added, and the head moved, while
the list of the other is walked, and a self-loop can be either. Of the three
edge messages one repeats another from its other end with other properties and one shares a node and a name
with it; two of three messages in one partition and one in the other, in any arrangement, let the marker
overtake an edge, repeat an edge after a restart, and lie in wait for the second start. Two calls of `publish`
let a worker be busy with the first connection when the second is opened. The bounds on counters are in the guards
(`Fits`, `Room`, `MaxEdges`, `MaxMessages`, `MaxStarts`, `MaxPublishes`). Runs stop at full files, so deadlock is not checked where the cfg says so;
`relation_*` check it, since stored edges go on arriving there.

### Disagreements between the code and its comments

Three have a run that ends in a counterexample.

| run | what the trace shows |
|---|---|
| `property_reference` | self-loop of a node without properties: the second copy starts a second list and overwrites the reference to the first, whose properties are lost. `addProperty` tests the copy, the comment speaks of the block |
| `partitioner_edges` | an edge between known vertices is counted and added to a copy of the partition |
| `lifecycle_index` | a new start of the master empties the node file and leaves the old index, which then leads nowhere, or to other nodes, until the next close |

Others have no run. A batch of properties goes on from the link it stored last (`NodeBlock.cpp:67`), passes over
the older ones and stores a name twice, where the description at `PropertyLink.cpp:61` has every link compared;
`ImplementsMap` shows that a reader keeps finding the first value. After a self-loop every edge into that vertex
ends early at `Partitioner.cpp:62`, and its other vertex may be nowhere, where `README.md:6` has both vertices
added; `LostEdgesAreKnown` and `HomesKnowVertices` except these edges. `totalVertices`, the n of FENNEL's
comment at `Partitioner.cpp:125`, counts known vertices again (`Partitioner.cpp:176`). `README.md:13` shows an edge
as `22 45`, which `json::parse` at `main.cpp:81` does not accept: the master ends without closing its store
(`PollMalformed`). `insert` leaves the value of a name that exists as it was (a TODO says so).
`getVertextCount` counts a vertex once per partition it is cut from. A store opened with `app` and written
numbers its new nodes from 0 again (the TODO at `NodeManager.cpp:50`): no program of the repository does it,
and `StoreLifecycle` shows what remains true, that the nodes which were there stay readable. `getEdgesCount`, which only the printed statistics use, counts an undirected edge
once per direction. `NodeBlock::save` puts an ID of six characters into the label field, which then has no
terminator, where `NodeBlock.h:41` says only shorter ones go there and the others become a property. The models take
the code's side (`<=`), and `LongIdsReadable` is about longer IDs only: node b of `property_lists` has six characters
and nothing is said of its name, which `NodeBlock::get` reads from an array without an end (`NodeBlock.cpp:213`, `237`).
`NodeManager.h:61` declares `getGraph(int limit = 10, int page = 0)` and `NodeManager.cpp:247` defines
`getGraph(int limit)`, which no declaration matches: as it stands the file does not compile. `RestReaders` models the
body with the header's default limit, as `GraphEndpoint.cpp:63` and `65` call it.

The properties that hold are stated with these in mind: `PropertyStore`'s passing runs leave self-loops of
short-named nodes out of the stream (`NoShortLoops`; what a self-loop then costs is `property_reference`'s alone, `NoLinkLost` does not meet it),
`HomesKnowVertices` and `LostEdgesAreKnown` except the
vertices with self-loops, `AnswersOwnNodes` the nodes added with `app` (`reused`), the servers whose index
is of an earlier epoch, and those that were `overtaken`. The last is a restriction the code makes necessary: without
it TLC finds, in an epoch with one node, a server that asks for the size of the index, an `app` writer that closes
and empties it, and the server's two reads failing, after which its map leads the ID to a number nobody wrote. With a
longer index a present ID gets the number of the entry before it, or the entries of two indexes mix. The server does
not notice, nothing in the code keeps a start away from a close, and no document speaks of it.

`StoreIsTheRun` is about the present run. A crash costs more than the message at work: `close` is what writes the
index, so no index leads to what the run has stored; the next start truncates the files (`main.cpp:36`,
`NodeManager.cpp:40`) and the consumer goes on at the committed offset, so every edge committed before the crash is in
no store from then on. `RestartsSkipNothing` says only that each of these messages was polled by some run.

### Fairness

`RelationStore` and `PropertyStore`: a call that runs, runs on (its thread is scheduled; nobody need call).
`RestReaders`: each handler's thread is scheduled; nothing is asked of the writer, whose flushes may stop or
never end, nor of requests, and the waiters for the lock get no promise (`std::mutex` gives none).
`GraphMaster`: the thread goes on with what it has begun, and each partition is polled again and again, strongly
fair since other partitions' messages come in between and librdkafka hands over every partition it has fetched;
none for starts, producers, commits or crashes, so `MarkerEndsTheRun` holds whether or not these happen.
`DataPublisher`: the publisher is scheduled, and the worker takes what has come and answers it, or leaves;
without that assumption `publish` can wait for ever, as it has no timeout.

## 4. Proofs

All theorems hold for every value of the constants under the modules' named assumptions, which TLC
evaluates on each run.

**Relation store.** `ListsInv` is inductive: `RelationStoreProofs` has one lemma per action.
`NextLinksExact` alone is not inductive, because whether a write is safe depends on what the call knows:
that the head in a copy is still the stored head (`Fresh`), that the new relation is in no list yet
(`AwaitsLink`), that the searched part of the list holds no relation to the other node (`BeforeLinking`).
The self-loop is the delicate case: the second copy is stale, and `AwaitsLink` says what still holds
of it: the head it remembers is the nearest relation below the new one, to which the new one points
already. From `ListsInv`: `NoParallelEdges`, `NextLinksAreExact`, `PreviousLinksInvert`, `StoreNeverThrows`,
`CrashCostsTheNewest`; then, with `CopiesOfItsNodes`, `ReadersAreNotMoved`, `CallsStoreTheirEdges` and
`StoreImplementsGraph`, the refinement of `UndirectedGraph` (a step is a new vertex, a new edge at the write
that creates the relation block, or a stutter).

What `getEdges` returns is the value of a recursive function, which in TLA+ is a CHOOSE: its equation has to be
earned. `LinkDown` (every next link leads to an older block, or nowhere) makes the block number a rank;
`WalkHasResults` then shows that the recursion has a result at every block, and `WalkLists` that it lists what lies
below, each block once (by the least block for which it would not). From these `PublishedAreListedOnce` (between any
two writes), `EdgesAreListedOnce` (between two calls), and, with the refinement and `IndexCovers`,
`ListsAreAdjacency`: what a node's list names is the adjacency of its ID in `UndirectedGraph`, no neighbour
missing, none twice. `RelationsCountEdges` says that the counter of relation blocks is the number of edges.
`CallsAdvance` gives each step of a call a smaller `StepsLeft`, the search included, whose cursor only descends: a
call has at most `nextRelationIndex + 10` steps.

**Property store.** `TypeCorrect` holds for every stream. The rest assumes `NoShortLoops`, since
`property_reference` shows that it fails otherwise. `StoreInv` adds to the properties: references lead to
counted blocks and forward (`RefsAreWritten`), what waits in the buffer is the address of the newest block,
for a tail, and nothing else leads there (`BufferHoldsNewest`), where the cursor stands (`CursorIsWritten`),
and that a copy without a list is of an owner without a list, and the only such copy (`CopiesAreFresh`). The
lemma `FlushedIsExact` says what a seek leaves in the file; one lemma per action follows; then
`ListsAreDisjoint`, `LinksAreReachable`, `LongIdsStayReadable` and, from `NextWritesOnce`, `ListsOnlyGrow`.

The links of a list lead up, so the rank is the room behind a block here; `ReadOfEquation` is the equation of the
walk a reader makes, and `LinksOf` the least set closed under links. From the equation follows what each kind of
write does to every reading: at most one name of one owner becomes readable, with the value of the call, and what
was readable stays. With `ValuesAreData` (a counted block has a value) that is `FilesImplementMap`, the refinement of
`PropertyMap`. `CallsStoreTheirProperties` adds `CopiesOnLists` (the link a copy refers to is on its owner's list), by
which a read from the owner's head meets the link the call ends at (`HasArrived`). `CallsAdvance` bounds a call by the
blocks behind its cursor.

**Partitioner.** Every call stores the edge once or ends early and stores nothing (`CallKinds`), which
reduces the four invariants to the effect of `Place`. They hold for any number of partitions and vertices
and for every choice the uninitialised costs allow.

**Lifecycle.** `LifecycleInv`: every copy of the index that was made since the files were emptied, in the
writer, on disk or in a server, leads to blocks that exist and, for nodes not added with `app`, to their own
(`CopiesGood`), which needs the writer's numbering to be that of the file (`NumbersAsWritten`), the file
to be in line (`InLine`), and the entries on disk to be those in memory while they are written (`EntriesAsInMemory`);
until a crash the complete index is in memory or on disk (`CompleteSomewhere`). A server's copy grows entry by entry:
`LoadingInLine` says that, until a close overtakes it, the entries it was promised are in the file, each whole, and
the key it has read is that of the entry it is at; so each pair it stores is an entry of the file. Of an overtaken
server nothing is claimed. One lemma for each kind of step; then `ReadersAnswerOwnNodes`, `IndexNeverAhead`,
`CloseLosesNothing` and `BlocksNeverMove`, for any number of IDs, epochs, blocks and restarts, and any leftovers.

**REST server.** `ReaderInv` says where each handler may stand: who is not idle holds the lock; the cursors stand
where the holder sought (`Placed`, the reason the lock is needed); a copy of a block is of a node of this run
and its head is in that node's list; the entries gathered are exactly the list above the place of the walk
(`WalkGood`). Handlers keep it because next links are exact (`ListsInv`, from `RelationStoreProofs`); the writer
keeps it by two lemmas, `WriterKeepsCopies` and `ListingContinues`: a relation that is linked stays linked under
the same ends and its next link does not change (`ReadersAreNotMoved`), and new relations have greater numbers
than any head copied before. From it `EveryAnswerIsASnapshot` and `NoWalkStrays`, for any number of threads,
nodes, relations and requests. Read against the graph that the store implements (`RelationsAreEdges`), a list gathered for a
block names neighbours of the block's ID and none twice (`AnswersAreNeighbours`). `WalksEnd` orders the states of a handler by the vertices still to copy, the lists
still to walk and the place of the walk, which descends since next links do: every step of the holder comes closer, or
is the end and frees the lock, or stops the server over an index that is ahead; no step of another thread or of the
writer moves it, however long the list grows meanwhile.

**Graph master.** `RunInv`: offsets never run ahead of the log, `delivered` is what was polled since the run
began, the store has the edges of all delivered messages but the last, and where in the loop the last one has
reached (`MessagePlaced`). `ClosedInv` adds what holds from the marker on, `PropertyInv` that a name without a
value has no giver but a message at work or lost to a crash (`MissingInv`), and that a value is its first
giver's (`FirstInv`). `PassedInv` says what lies behind the consumer: edges only, and behind a master that
ends one marker, its last message (`OnlyTheMarkerEndsARun`). With `RunInv` it gives `BetweenMessagesStoreIsTheLog`: when
`main` polls again, partitioner and store are exactly the edges of the log's segments. `MasterAdvances` orders the steps
between two polls. The theorems hold for any number of Kafka partitions, messages, starts and property names.

**Data publisher.** `OrderInv` ties the place of the call to the number of units taken and on their way, which
gives `UnitsStayInOrder`; `FaultFreeInv` counts answers against units while a connection has had no fault, which
gives `NothingLostWithoutFault`. `AnswerIsComing` follows a unit from the worker to its answer; with `OrderInv` it
gives `NoWaitForEachOther`: while `publish` waits in `recv` with its peer there, the peer has something to do. All hold
for any number of calls.

Model-checked only: liveness (`AddEdgeReturns`, `AddPropertyReturns`, `LockIsReleased`, `MarkerEndsTheRun`,
`PublishReturns`), which needs fairness and ENABLED. Its safety half is proved, that the steps run out (`CallsAdvance`
twice, `WalksEnd`, `MasterAdvances`, `PublishAdvances` with `NoWaitForEachOther`); that the next step is enabled and
taken is what TLC checks. Every other property of the passing runs is stated by a theorem.

## 5. Not modelled, and why

* **Writes that fail.** The code logs a failed write and goes on; the stream then fails for every later call, so
  no promise is left to check.
* **Strings at their limits and addresses past 2^32.** Past the limits of `strcpy` and of the key buffer the
  program overruns memory. An ID of six characters is such a case: `save` copies it past the field, `get` reads
  it without an end, and the constructor copies that past the field of the new block (`NodeBlock.cpp:27`). Of all this
  `RestReaders` has only the garbled name (`NamesReadAt`). Block indexes are unbounded in the proofs; the product with the block size wraps only
  in files of 4 GiB.
* **Property values in the REST server's answers.** `nodeToJson` walks the property list behind the same lock;
  `PropertyStore` states what the file promises (`PublishedIsImmutable`, `ImplementsMap`). The values come from
  freed memory, so that nothing can be promised of their text.
* **More than one partition in the master.** `PARTITIONS_COUNT` is the constant 1; the partitioner is modelled for
  any number, the static file handles shared by several node managers are not.
* **`BroadcastServer`.** No build defines `ENABLEWS`, and with it `main.cpp:139` does not compile.
* **`JasmineGraphIncrementalStore`** has no build target; producers are the environment of `GraphMaster`; logging,
  statistics output and front ends keep no state the system depends on.

What could follow: the property walk as a third list of `RestReaders`; and a proof that `GraphMaster`'s stores,
replaced by `RelationStore` and `PropertyStore` themselves, still have its invariants.
