---------------------------- MODULE GraphMaster ----------------------------
(***************************************************************************)
(* graph_master (main.cpp): the loop that takes edges from a Kafka topic    *)
(* and gives each to the partitioner, the relation store and the property   *)
(* store, one process after the other over the same topic.                 *)
(*                                                                         *)
(* The stores appear by their contracts, UndirectedGraph and PropertyMap,  *)
(* which RelationStore and PropertyStore implement; the partitioner, HASH  *)
(* over the one partition main asks for, by the edges it was given (its    *)
(* contract is HashStoresEdgesOnce of module Partitioner).  The broker and *)
(* librdkafka are external: a log per Kafka partition, the position of     *)
(* this consumer, and the offsets committed for its group, which a timer    *)
(* thread moves up to the position at any time (enable.auto.commit, which   *)
(* main leaves at its default).                                            *)
(***************************************************************************)
EXTENDS Integers, Sequences, FiniteSetsExt

CONSTANTS
    Ids,                (* node IDs                                         *)
    Edges,              (* the edge messages that may be sent               *)
    EndMarker,          (* the payload -1                                   *)
    Malformed,          (* a payload that is not the JSON main expects      *)
    Names,              (* names of properties, in their order as numbers   *)
    NoValue,            (* the absence of a property, or of a message       *)
    KafkaPartitions,    (* partitions of the topic                          *)
    MaxMessages,        (* bound: messages sent                             *)
    MaxStarts           (* bound: starts of the master                      *)

(* An edge message: its ends, and the names in its three property objects. *)
(* The value stored under a name is the message it came with.              *)
EdgeMessage ==
    [source : Ids, destination : Ids, properties : SUBSET Names,
     sourceProperties : SUBSET Names, destinationProperties : SUBSET Names]

ASSUME EdgesAssumption ==
    /\ Edges \subseteq EdgeMessage
    /\ NoValue \notin Edges
    /\ EndMarker \notin Edges
    /\ Malformed \notin Edges \cup {EndMarker}
ASSUME NamesAssumption == Names \subseteq Nat
ASSUME BoundsAssumption == MaxMessages \in Nat /\ MaxStarts \in Nat

VARIABLES
    log,            (* the topic: messages of each Kafka partition          *)
    committed,      (* offsets committed for group knnect, NoOffset for none*)
    position,       (* messages of each partition the consumer has passed   *)
    began,          (* history: the positions this process was given        *)
    starts,         (* starts of the master so far                          *)
    step,           (* what main does next, "stopped" if it does not run    *)
    outcome,        (* history: how the last process ended                  *)
    message,        (* the message at work                                  *)
    names,          (* names of the present property object still to store  *)
    delivered,      (* history: edge messages this process has polled       *)
    partitioned,    (* edges the partitioner holds                          *)
    vertices, edges, size,  (* the graph store of this process              *)
    property,       (* its property lists                                   *)
    indexFile       (* IDs in the node index on disk                        *)

offsets == <<committed, position, began>>
process == <<starts, outcome>>
store   == <<vertices, edges, size, property, indexFile>>
vars    == <<log, committed, position, began, starts, step, outcome, message, names,
             delivered, partitioned, vertices, edges, size, property, indexFile>>

NoOffset == -1

Pairs  == {{u, v} : u, v \in Ids}
Owners == Ids \cup Pairs

Store      == INSTANCE UndirectedGraph
Properties == INSTANCE PropertyMap WITH properties <- property, Data <- Edges

Ends(m) == {m.source, m.destination}

Init ==
    /\ log = [p \in KafkaPartitions |-> <<>>]
    /\ committed = [p \in KafkaPartitions |-> NoOffset]
    /\ position = [p \in KafkaPartitions |-> 0]
    /\ began = position
    /\ starts = 0
    /\ step = "stopped"
    /\ outcome = "none"
    /\ message = NoValue
    /\ names = {}
    /\ delivered = <<>>
    /\ partitioned = {}
    /\ Store!GraphInit
    /\ Properties!MapInit
    /\ indexFile = {}

-----------------------------------------------------------------------------
(* The environment: the producers, and the consumer's commits.             *)

Sent == MapThenSumSet(LAMBDA p : Len(log[p]), KafkaPartitions)

Produce(p, payload) ==
    /\ Sent < MaxMessages
    /\ log' = [log EXCEPT ![p] = Append(@, payload)]
    /\ UNCHANGED <<offsets, process, step, message, names, delivered, partitioned, store>>

(* Mutant: the commit covers whatever the broker holds.                    *)
CommittedToTheEnd == [p \in KafkaPartitions |-> Len(log[p])]

(* What a commit writes: the position, where a message has been passed.    *)
(* The message poll returned last is passed when poll returns it.          *)
CommittedNow ==
    [p \in KafkaPartitions |-> IF position[p] > began[p] THEN position[p] ELSE committed[p]]

(* The timer.                                                              *)
Commit ==
    /\ step \notin {"stopped", "joining"}
    /\ committed' = CommittedNow
    /\ UNCHANGED <<log, position, began, process, step, message, names, delivered,
                   partitioned, store>>

-----------------------------------------------------------------------------
(* graph_master.                                                           *)

(* Mutant: the files are opened as the REST server opens them.             *)
StartAppending ==
    /\ step = "stopped"
    /\ starts < MaxStarts
    /\ starts' = starts + 1
    /\ step' = "joining"
    /\ outcome' = "running"
    /\ began' = position
    /\ delivered' = <<>>
    /\ UNCHANGED <<log, committed, position, message, names, partitioned, store>>

(* The node manager is opened with trunc, which leaves the index file, the *)
(* partitioner is new, and the consumer subscribes.                        *)
Start ==
    /\ step = "stopped"
    /\ starts < MaxStarts
    /\ starts' = starts + 1
    /\ step' = "joining"
    /\ outcome' = "running"
    /\ began' = position
    /\ vertices' = {} /\ edges' = {} /\ size' = 0
    /\ property' = [o \in Owners |-> [n \in Names |-> NoValue]]
    /\ delivered' = <<>>
    /\ UNCHANGED <<log, committed, position, message, names, partitioned, indexFile>>

(* Mutant: no offset is taken for an offset.                               *)
AssignCommitted ==
    /\ step = "joining"
    /\ step' = "polling"
    /\ position' = committed
    /\ began' = position'
    /\ UNCHANGED <<log, committed, process, message, names, delivered, partitioned, store>>

(* The consumer gets its partitions.  Without a committed offset it begins *)
(* at the end (auto.offset.reset, which main leaves at its default).       *)
Assign ==
    /\ step = "joining"
    /\ step' = "polling"
    /\ position' = [p \in KafkaPartitions |->
                       IF committed[p] = NoOffset THEN Len(log[p]) ELSE committed[p]]
    /\ began' = position'
    /\ UNCHANGED <<log, committed, process, message, names, delivered, partitioned, store>>

(* poll returns a message; a poll without one, or with an error, is        *)
(* followed by the next poll and changes nothing.                          *)
Passed(p) ==
    /\ step = "polling"
    /\ position[p] < Len(log[p])
    /\ position' = [position EXCEPT ![p] = @ + 1]
    /\ UNCHANGED <<log, began, starts, names, store>>

Fetched(p) == log[p][position[p] + 1]

PollEdge(p) ==
    /\ Passed(p)
    /\ Fetched(p) \in Edges
    /\ step' = "partition"
    /\ message' = Fetched(p)
    /\ delivered' = Append(delivered, Fetched(p))
    /\ UNCHANGED <<committed, outcome, partitioned>>

(* The end of the process and of its memory.                               *)
Stop(how) ==
    /\ step' = "stopped"
    /\ outcome' = how
    /\ message' = NoValue
    /\ names' = {}
    /\ partitioned' = {}
    /\ UNCHANGED <<log, began, starts, delivered>>

(* json::parse, or the conversion of an id, throws, and nobody catches it: *)
(* the node manager is not closed, nor is the consumer.                    *)
PollMalformed(p) ==
    /\ step = "polling"
    /\ position[p] < Len(log[p])
    /\ Fetched(p) = Malformed
    /\ position' = [position EXCEPT ![p] = @ + 1]
    /\ Stop("failed")
    /\ UNCHANGED <<committed, store>>

PollMarker(p) ==
    /\ Passed(p)
    /\ Fetched(p) = EndMarker
    /\ step' = "closing"
    /\ UNCHANGED <<committed, outcome, message, delivered, partitioned>>

Poll(p) == PollEdge(p) \/ PollMalformed(p) \/ PollMarker(p)

(* Partitioner::addEdge.                                                   *)
Partition ==
    /\ step = "partition"
    /\ step' = "source"
    /\ partitioned' = partitioned \cup {Ends(message)}
    /\ UNCHANGED <<log, offsets, process, message, names, delivered, store>>

(* NodeManager::addNode.                                                   *)
AddNode(v) ==
    IF v \in vertices THEN UNCHANGED <<vertices, edges, size>> ELSE Store!AddVertex(v)

AddSource ==
    /\ step = "source"
    /\ step' = "destination"
    /\ AddNode(message.source)
    /\ UNCHANGED <<log, offsets, process, message, names, delivered, partitioned,
                   property, indexFile>>

AddDestination ==
    /\ step = "destination"
    /\ step' = "edge"
    /\ AddNode(message.destination)
    /\ UNCHANGED <<log, offsets, process, message, names, delivered, partitioned,
                   property, indexFile>>

(* Mutants: the rest of a known edge's message is stored as well; the     *)
(* loop does not go on.                                                    *)
SkipNothing ==
    /\ step = "edge"
    /\ Ends(message) \in edges
    /\ step' = "properties"
    /\ names' = message.properties
    /\ UNCHANGED <<log, offsets, process, message, delivered, partitioned, store>>

SkipStuck ==
    /\ step = "edge"
    /\ Ends(message) \in edges
    /\ UNCHANGED vars

(* NodeManager::addEdge returns nothing for an edge it has: the rest of    *)
(* the message is left out.                                                *)
SkipEdge ==
    /\ step = "edge"
    /\ Ends(message) \in edges
    /\ step' = "polling"
    /\ message' = NoValue
    /\ UNCHANGED <<log, offsets, process, names, delivered, partitioned, store>>

AddEdge ==
    /\ step = "edge"
    /\ Store!AddNewEdge(message.source, message.destination)
    /\ step' = "properties"
    /\ names' = message.properties
    /\ UNCHANGED <<log, offsets, process, message, delivered, partitioned,
                   property, indexFile>>

(* The three loops over property objects, of the edge, its source and its  *)
(* destination.                                                            *)
Objects == {"properties", "sourceProperties", "destinationProperties"}

OwnerOf(object) ==
    CASE object = "properties"            -> Ends(message)
      [] object = "sourceProperties"      -> message.source
      [] object = "destinationProperties" -> message.destination

(* addProperty keeps the value of a name the owner has.                    *)
AddProperty ==
    /\ step \in Objects
    /\ \E n \in names :
          /\ \A other \in names : n <= other
          /\ names' = names \ {n}
          /\ IF property[OwnerOf(step)][n] = NoValue
             THEN Properties!Put(OwnerOf(step), n, message)
             ELSE UNCHANGED property
    /\ UNCHANGED <<log, offsets, process, step, message, delivered, partitioned,
                   vertices, edges, size, indexFile>>

NextObject ==
    /\ step \in {"properties", "sourceProperties"}
    /\ names = {}
    /\ step' = IF step = "properties" THEN "sourceProperties" ELSE "destinationProperties"
    /\ names' = message[step']
    /\ UNCHANGED <<log, offsets, process, message, delivered, partitioned, store>>

EndMessage ==
    /\ step = "destinationProperties"
    /\ names = {}
    /\ step' = "polling"
    /\ message' = NoValue
    /\ UNCHANGED <<log, offsets, process, names, delivered, partitioned, store>>

(* NodeManager::close writes the index (StoreLifecycle has its steps).     *)
Close ==
    /\ step = "closing"
    /\ step' = "closed"
    /\ indexFile' = vertices
    /\ UNCHANGED <<log, offsets, process, message, names, delivered, partitioned,
                   vertices, edges, size, property>>

(* Mutant: the process ends without a last commit.                         *)
ExitUncommitted ==
    /\ step = "closed"
    /\ Stop("marker")
    /\ UNCHANGED <<offsets, store>>

(* main returns; the destructor of the consumer closes it, which commits.  *)
Exit ==
    /\ step = "closed"
    /\ Stop("marker")
    /\ committed' = CommittedNow
    /\ UNCHANGED <<position, store>>

(* A kill; or the conversion of a property value that is no string throws. *)
Crash ==
    /\ step # "stopped"
    /\ Stop("crashed")
    /\ UNCHANGED <<offsets, store>>

(* What main does on its own, a poll apart.                                *)
Work ==
    \/ Assign
    \/ Partition \/ AddSource \/ AddDestination
    \/ SkipEdge \/ AddEdge
    \/ AddProperty \/ NextObject \/ EndMessage
    \/ Close \/ Exit

Next ==
    \/ Start \/ Work \/ Crash \/ Commit
    \/ \E p \in KafkaPartitions :
          \/ Poll(p)
          \/ \E payload \in Edges \cup {EndMarker, Malformed} : Produce(p, payload)

(* main's thread goes on with what it has begun, and the broker hands over *)
(* the messages of every partition.  Nobody needs to start the master or   *)
(* to send anything.                                                       *)
Spec ==
    /\ Init /\ [][Next]_vars
    /\ WF_vars(Work)
    /\ \A p \in KafkaPartitions : SF_vars(Poll(p))

-----------------------------------------------------------------------------
Payloads == Edges \cup {EndMarker, Malformed}

Steps == {"stopped", "joining", "polling", "partition", "source", "destination", "edge",
          "closing", "closed"} \cup Objects

(* The types of the state.                                                 *)
MasterTypeOK ==
    /\ log \in [KafkaPartitions -> Seq(Payloads)]
    /\ committed \in [KafkaPartitions -> Nat \cup {NoOffset}]
    /\ position \in [KafkaPartitions -> Nat]
    /\ began \in [KafkaPartitions -> Nat]
    /\ starts \in Nat
    /\ step \in Steps
    /\ outcome \in {"none", "running", "marker", "failed", "crashed"}
    /\ message \in Edges \cup {NoValue}
    /\ names \subseteq Names
    /\ delivered \in Seq(Edges)
    /\ partitioned \subseteq SUBSET Ids
    /\ vertices \subseteq Ids /\ edges \subseteq SUBSET Ids /\ size \in Nat
    /\ property \in [Owners -> [Names -> Edges \cup {NoValue}]]
    /\ indexFile \subseteq Ids

(* The edge messages this process has polled, as the log has them, and the *)
(* one it may not be done with.                                            *)
Polled ==
    Edges \cap UNION {{log[p][k] : k \in (began[p] + 1) .. position[p]} : p \in KafkaPartitions}

AtWork == IF delivered = <<>> THEN {} ELSE {delivered[Len(delivered)]}

(* The partitioner and the store hold the graph of the messages of the      *)
(* present run, between where it began and where it is, whatever was       *)
(* repeated: nothing else, nothing of an earlier run, and all but the      *)
(* message at work or, after a crash, the one that was.                    *)
(*                                                                         *)
(* It is a statement about one run.  What a crash costs is more: there is  *)
(* no index of what the run has stored, and the next Start empties the     *)
(* files while Assign resumes at the committed offsets.  Every message     *)
(* that was committed before the crash is then in no store, the one at     *)
(* work among them.                                                        *)
StoreIsTheRun ==
    /\ edges \subseteq {Ends(m) : m \in Polled}
    /\ {Ends(m) : m \in Polled \ AtWork} \subseteq edges
    /\ vertices \subseteq UNION {Ends(m) : m \in Polled}
    /\ size = Cardinality(edges)
    /\ step # "stopped" =>
          /\ edges \subseteq partitioned
          /\ partitioned \subseteq edges \cup {Ends(m) : m \in AtWork}

NamesFor(m, o) ==
    {n \in Names : \/ o = Ends(m) /\ n \in m.properties
                   \/ o = m.source /\ n \in m.sourceProperties
                   \/ o = m.destination /\ n \in m.destinationProperties}

(* The messages that brought a new edge with a value for o's name n.       *)
Givers(o, n) ==
    {k \in DOMAIN delivered :
        /\ n \in NamesFor(delivered[k], o)
        /\ \A j \in 1 .. (k - 1) : Ends(delivered[j]) # Ends(delivered[k])}

(* A name of a node or an edge has the value that came first with a new     *)
(* edge: what a repeated edge brought is not stored, of neither end, what   *)
(* a new one brought is not lost, and no value is replaced.                *)
PropertiesAreOfNewEdges ==
    \A o \in Owners, n \in Names :
        IF Givers(o, n) = {} THEN property[o][n] = NoValue
        ELSE \/ property[o][n] = delivered[Min(Givers(o, n))]
             \/ /\ property[o][n] = NoValue
                /\ Min(Givers(o, n)) = Len(delivered)
                /\ message # NoValue \/ outcome = "crashed"

(* A run that the marker ended has stored every edge it was given, its      *)
(* index leads to every node, and its offsets are committed: the next run  *)
(* neither repeats these messages nor stops at the same marker.            *)
ClosedRunIsComplete ==
    outcome = "marker" =>
        /\ edges = {Ends(m) : m \in Polled}
        /\ indexFile = vertices
        /\ \A p \in KafkaPartitions : position[p] > began[p] => committed[p] = position[p]

(* Once a partition has a committed offset, a new run begins there no       *)
(* later than where the last one stopped, however that ended: every message *)
(* behind a committed offset is polled by some run, and some by two.  That *)
(* it was polled does not say that a store still holds it, see             *)
(* StoreIsTheRun.                                                          *)
RestartsSkipNothing ==
    [][step = "joining" /\ step' = "polling" =>
          \A p \in KafkaPartitions :
              committed[p] # NoOffset => position'[p] <= position[p]]_vars

(* A running master ends once a marker waits in any partition: nothing it   *)
(* does with a message, and no other partition, keeps it from getting there.*)
MarkerEndsTheRun ==
    \A p \in KafkaPartitions :
        (/\ step \notin {"stopped", "joining"}
         /\ \E k \in (position[p] + 1) .. Len(log[p]) : log[p][k] = EndMarker)
            ~> step = "stopped"
=============================================================================
