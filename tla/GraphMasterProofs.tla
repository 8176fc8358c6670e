-------------------------- MODULE GraphMasterProofs --------------------------
(***************************************************************************)
(* Proofs about GraphMaster, for every set of IDs, messages, names and     *)
(* Kafka partitions, every length of the topic and every number of starts. *)
(***************************************************************************)
EXTENDS GraphMaster, FiniteSetTheorems, TLAPS

USE EdgesAssumption, BoundsAssumption

(* The steps that are at a message.                                        *)
Working == {"partition", "source", "destination", "edge"} \cup Objects

(* The message at work is the one polled last.                             *)
MessageAtWork ==
    /\ step \in Working => message \in Edges
    /\ step \notin Working => message = NoValue
    /\ message # NoValue => delivered # <<>> /\ message = delivered[Len(delivered)]

TypeInv == MasterTypeOK /\ MessageAtWork

(* Ends, owners and names of an edge message.                              *)
LEMMA MessageTyped ==
    ASSUME NEW m \in Edges
    PROVE  /\ m.source \in Ids /\ m.destination \in Ids
           /\ Ends(m) \subseteq Ids /\ Ends(m) \in Owners
           /\ m.source \in Owners /\ m.destination \in Owners
           /\ m.properties \subseteq Names
           /\ m.sourceProperties \subseteq Names
           /\ m.destinationProperties \subseteq Names
  <1>1. m \in EdgeMessage
    OBVIOUS
  <1> QED
    BY <1>1 DEF EdgeMessage, Ends, Owners, Pairs

(* The empty store is typed.                                               *)
LEMMA NothingStored ==
    [o \in Owners |-> [n \in Names |-> NoValue]] \in [Owners -> [Names -> Edges \cup {NoValue}]]
  OBVIOUS

(* The program begins typed.                                               *)
LEMMA InitTyped == Init => TypeInv
  <1> SUFFICES ASSUME Init PROVE TypeInv
    OBVIOUS
  <1>1. property \in [Owners -> [Names -> Edges \cup {NoValue}]]
    BY NothingStored DEF Init, Properties!MapInit
  <1>2. MasterTypeOK
    BY <1>1 DEF Init, MasterTypeOK, Payloads, Steps, NoOffset, Store!GraphInit
  <1>3. MessageAtWork
    BY DEF Init, MessageAtWork, Working, Objects
  <1> QED
    BY <1>2, <1>3 DEF TypeInv

-----------------------------------------------------------------------------
(* Types, one lemma for each kind of step.                                 *)

(* The environment's steps.                                                *)
LEMMA EnvironmentTyped ==
    ASSUME TypeInv,
           Commit \/ \E p \in KafkaPartitions, payload \in Payloads : Produce(p, payload)
    PROVE  TypeInv'
  <1>1. log' \in [KafkaPartitions -> Seq(Payloads)]
    <2>1. CASE Commit
      BY <2>1 DEF Commit, TypeInv, MasterTypeOK
    <2>2. ASSUME NEW p \in KafkaPartitions, NEW payload \in Payloads, Produce(p, payload)
          PROVE  log' \in [KafkaPartitions -> Seq(Payloads)]
      <3>1. Append(log[p], payload) \in Seq(Payloads)
        BY DEF TypeInv, MasterTypeOK
      <3> QED
        BY <2>2, <3>1 DEF Produce, TypeInv, MasterTypeOK
    <2> QED
      BY <2>1, <2>2
  <1>2. committed' \in [KafkaPartitions -> Nat \cup {NoOffset}]
    BY DEF Commit, CommittedNow, Produce, offsets, TypeInv, MasterTypeOK
  <1>3. UNCHANGED <<position, began, starts, step, outcome, message, names, delivered,
                    partitioned, vertices, edges, size, property, indexFile>>
    BY DEF Commit, Produce, offsets, process, store
  <1> QED
    BY <1>1, <1>2, <1>3 DEF TypeInv, MasterTypeOK, MessageAtWork

(* Start and Assign.                                                       *)
LEMMA BeginningTyped ==
    ASSUME TypeInv, Start \/ Assign
    PROVE  TypeInv'
  <1>1. CASE Start
    <2>1. property' \in [Owners -> [Names -> Edges \cup {NoValue}]]
      BY <1>1, NothingStored DEF Start
    <2>2. MasterTypeOK'
      BY <1>1, <2>1 DEF Start, TypeInv, MasterTypeOK, Steps
    <2>3. MessageAtWork'
      BY <1>1 DEF Start, TypeInv, MessageAtWork, Working, Objects
    <2> QED
      BY <2>2, <2>3 DEF TypeInv
  <1>2. CASE Assign
    <2>1. \A p \in KafkaPartitions : Len(log[p]) \in Nat
      BY DEF TypeInv, MasterTypeOK
    <2>2. position' \in [KafkaPartitions -> Nat]
      BY <1>2, <2>1 DEF Assign, TypeInv, MasterTypeOK
    <2>3. MasterTypeOK'
      BY <1>2, <2>2 DEF Assign, TypeInv, MasterTypeOK, Steps, process, store
    <2>4. MessageAtWork'
      BY <1>2 DEF Assign, TypeInv, MessageAtWork, Working, Objects
    <2> QED
      BY <2>3, <2>4 DEF TypeInv
  <1> QED
    BY <1>1, <1>2

(* The end of a process.                                                   *)
LEMMA StopTyped ==
    ASSUME TypeInv, NEW how \in {"marker", "failed", "crashed"}, Stop(how),
           committed' \in [KafkaPartitions -> Nat \cup {NoOffset}],
           position' \in [KafkaPartitions -> Nat],
           UNCHANGED store
    PROVE  TypeInv'
  BY DEF Stop, TypeInv, MasterTypeOK, MessageAtWork, Working, Objects, Steps, store

(* What poll returns is a message of the log.                              *)
LEMMA FetchedTyped ==
    ASSUME TypeInv, NEW p \in KafkaPartitions, position[p] < Len(log[p])
    PROVE  /\ Fetched(p) \in Payloads
           /\ position[p] \in Nat
           /\ [position EXCEPT ![p] = @ + 1] \in [KafkaPartitions -> Nat]
  <1>1. log[p] \in Seq(Payloads) /\ position[p] \in Nat
    BY DEF TypeInv, MasterTypeOK
  <1>2. position[p] + 1 \in 1 .. Len(log[p])
    BY <1>1
  <1>3. Fetched(p) \in Payloads
    BY <1>1, <1>2 DEF Fetched
  <1> QED
    BY <1>1, <1>3 DEF TypeInv, MasterTypeOK

(* A message polled is one of the log.                                     *)
LEMMA PollTyped ==
    ASSUME TypeInv, NEW p \in KafkaPartitions, Poll(p)
    PROVE  TypeInv'
  <1>1. position[p] < Len(log[p]) /\ position' = [position EXCEPT ![p] = @ + 1]
    BY DEF Poll, PollEdge, PollMalformed, PollMarker, Passed
  <1>2. position' \in [KafkaPartitions -> Nat]
    BY <1>1, FetchedTyped
  <1>3. CASE PollEdge(p)
    <2>1. delivered \in Seq(Edges) /\ Fetched(p) \in Edges
      BY <1>3 DEF PollEdge, TypeInv, MasterTypeOK
    <2>2. /\ delivered' \in Seq(Edges)
          /\ delivered' # <<>>
          /\ delivered'[Len(delivered')] = Fetched(p)
      BY <1>3, <2>1 DEF PollEdge
    <2>3. MasterTypeOK'
      BY <1>3, <1>2, <2>1, <2>2 DEF PollEdge, Passed, TypeInv, MasterTypeOK, Steps, store
    <2>4. MessageAtWork'
      BY <1>3, <2>1, <2>2 DEF PollEdge, MessageAtWork, Working
    <2> QED
      BY <2>3, <2>4 DEF TypeInv
  <1>4. CASE PollMalformed(p)
    BY <1>4, <1>2, StopTyped DEF PollMalformed, TypeInv, MasterTypeOK
  <1>5. CASE PollMarker(p)
    <2>1. MasterTypeOK'
      BY <1>5, <1>2 DEF PollMarker, Passed, TypeInv, MasterTypeOK, Steps, store
    <2>2. MessageAtWork'
      BY <1>5 DEF PollMarker, Passed, TypeInv, MessageAtWork, Working, Objects
    <2> QED
      BY <2>1, <2>2 DEF TypeInv
  <1> QED
    BY <1>3, <1>4, <1>5 DEF Poll

(* The present property object, its owner and what is left of its names.    *)
LEMMA ObjectTyped ==
    ASSUME TypeInv, step \in Objects
    PROVE  OwnerOf(step) \in Owners /\ message \in Edges
  <1>1. message \in Edges
    BY DEF TypeInv, MessageAtWork, Working
  <1>2. CASE step = "properties"
    BY <1>1, <1>2, MessageTyped DEF OwnerOf
  <1>3. CASE step = "sourceProperties"
    BY <1>1, <1>3, MessageTyped DEF OwnerOf
  <1>4. CASE step = "destinationProperties"
    BY <1>1, <1>4, MessageTyped DEF OwnerOf
  <1> QED
    BY <1>1, <1>2, <1>3, <1>4 DEF Objects

(* The steps of one message.                                               *)
LEMMA MessageStepTyped ==
    ASSUME TypeInv,
           \/ Partition \/ AddSource \/ AddDestination \/ SkipEdge \/ AddEdge
           \/ AddProperty \/ NextObject \/ EndMessage
    PROVE  TypeInv'
  <1>1. CASE Partition
    <2>1. Ends(message) \subseteq Ids
      BY <1>1, MessageTyped DEF Partition, TypeInv, MessageAtWork, Working
    <2> QED
      BY <1>1, <2>1 DEF Partition, TypeInv, MasterTypeOK, MessageAtWork, Working, Steps,
                        offsets, process, store
  <1>2. CASE AddSource
    <2>1. message.source \in Ids
      BY <1>2, MessageTyped DEF AddSource, TypeInv, MessageAtWork, Working
    <2> QED
      BY <1>2, <2>1 DEF AddSource, AddNode, Store!AddVertex, TypeInv, MasterTypeOK,
                        MessageAtWork, Working, Steps, offsets, process
  <1>3. CASE AddDestination
    <2>1. message.destination \in Ids
      BY <1>3, MessageTyped DEF AddDestination, TypeInv, MessageAtWork, Working
    <2> QED
      BY <1>3, <2>1 DEF AddDestination, AddNode, Store!AddVertex, TypeInv, MasterTypeOK,
                        MessageAtWork, Working, Steps, offsets, process
  <1>4. CASE SkipEdge
    BY <1>4 DEF SkipEdge, TypeInv, MasterTypeOK, MessageAtWork, Working, Objects, Steps,
                offsets, process, store
  <1>5. CASE AddEdge
    <2>1. message \in Edges /\ message.source \in Ids /\ message.destination \in Ids
          /\ message.properties \subseteq Names
      BY <1>5, MessageTyped DEF AddEdge, TypeInv, MessageAtWork, Working
    <2>2. /\ edges' = edges \cup {{message.source, message.destination}}
          /\ size' = size + 1
          /\ vertices' = vertices
      BY <1>5 DEF AddEdge, Store!AddNewEdge
    <2>3. edges' \subseteq SUBSET Ids
      BY <2>1, <2>2 DEF TypeInv, MasterTypeOK
    <2>4. size' \in Nat
      BY <2>2 DEF TypeInv, MasterTypeOK
    <2> QED
      BY <1>5, <2>1, <2>2, <2>3, <2>4 DEF AddEdge, TypeInv, MasterTypeOK, MessageAtWork, Working, Objects,
                              Steps, offsets, process
  <1>6. CASE AddProperty
    <2>1. OwnerOf(step) \in Owners /\ message \in Edges
      BY <1>6, ObjectTyped DEF AddProperty
    <2>2. property \in [Owners -> [Names -> Edges \cup {NoValue}]] /\ names \subseteq Names
      BY DEF TypeInv, MasterTypeOK
    <2>3. property' \in [Owners -> [Names -> Edges \cup {NoValue}]]
      BY <1>6, <2>1, <2>2 DEF AddProperty, Properties!Put
    <2> QED
      BY <1>6, <2>2, <2>3 DEF AddProperty, TypeInv, MasterTypeOK, MessageAtWork, Steps,
                              offsets, process
  <1>7. CASE NextObject
    <2>1. message \in Edges
      BY <1>7 DEF NextObject, TypeInv, MessageAtWork, Working, Objects
    <2>2. step' \in Objects /\ names' \subseteq Names
      BY <1>7, <2>1, MessageTyped DEF NextObject, Objects
    <2> QED
      BY <1>7, <2>1, <2>2 DEF NextObject, TypeInv, MasterTypeOK, MessageAtWork, Working,
                              Steps, offsets, process, store
  <1>8. CASE EndMessage
    BY <1>8 DEF EndMessage, TypeInv, MasterTypeOK, MessageAtWork, Working, Objects, Steps,
                offsets, process, store
  <1> QED
    BY <1>1, <1>2, <1>3, <1>4, <1>5, <1>6, <1>7, <1>8

(* The end of a run.                                                       *)
LEMMA EndTyped ==
    ASSUME TypeInv, Close \/ Exit \/ Crash
    PROVE  TypeInv'
  <1>1. CASE Close
    BY <1>1 DEF Close, TypeInv, MasterTypeOK, MessageAtWork, Working, Objects, Steps,
                offsets, process
  <1>2. CASE Exit
    <2>1. committed' \in [KafkaPartitions -> Nat \cup {NoOffset}]
      BY <1>2 DEF Exit, CommittedNow, TypeInv, MasterTypeOK
    <2> QED
      BY <1>2, <2>1, StopTyped DEF Exit, TypeInv, MasterTypeOK
  <1>3. CASE Crash
    BY <1>3, StopTyped DEF Crash, offsets, TypeInv, MasterTypeOK
  <1> QED
    BY <1>1, <1>2, <1>3

(* Every step keeps the types and the message at work.                     *)
LEMMA NextTyped ==
    ASSUME TypeInv, [Next]_vars
    PROVE  TypeInv'
  <1>1. CASE Start \/ Assign
    BY <1>1, BeginningTyped
  <1>2. CASE Commit \/ \E p \in KafkaPartitions, payload \in Payloads : Produce(p, payload)
    BY <1>2, EnvironmentTyped
  <1>3. CASE \E p \in KafkaPartitions : Poll(p)
    BY <1>3, PollTyped
  <1>4. CASE \/ Partition \/ AddSource \/ AddDestination \/ SkipEdge \/ AddEdge
             \/ AddProperty \/ NextObject \/ EndMessage
    BY <1>4, MessageStepTyped
  <1>5. CASE Close \/ Exit \/ Crash
    BY <1>5, EndTyped
  <1>6. CASE UNCHANGED vars
    BY <1>6 DEF vars, TypeInv, MasterTypeOK, MessageAtWork
  <1> QED
    BY <1>1, <1>2, <1>3, <1>4, <1>5, <1>6 DEF Next, Work, Payloads

(* The state of the master keeps its types, and the message at work is the *)
(* one it polled last.                                                     *)
THEOREM MasterTypeCorrect == Spec => [](MasterTypeOK /\ MessageAtWork)
  <1>1. Spec => []TypeInv
    BY InitTyped, NextTyped, PTL DEF Spec
  <1> QED
    BY <1>1, PTL DEF TypeInv

-----------------------------------------------------------------------------
(* What the run has done with the messages it was given.                   *)

(* Offsets are never ahead of what a run has polled, nor that of the log.   *)
OffsetsInv ==
    \A p \in KafkaPartitions :
        /\ began[p] <= position[p]
        /\ position[p] <= Len(log[p])
        /\ committed[p] # NoOffset => committed[p] <= position[p]

(* A process that has no partitions yet has polled and stored nothing.     *)
JoinsEmpty ==
    /\ step = "joining" => /\ began = position /\ delivered = <<>>
                           /\ vertices = {} /\ edges = {}
    /\ step \in {"stopped", "joining"} => partitioned = {}

Given == {Ends(m) : m \in Polled}

(* The store holds what was given, all of it between two messages.         *)
StoreHoldsGiven ==
    /\ edges \subseteq Given
    /\ {Ends(m) : m \in Polled \ AtWork} \subseteq edges
    /\ vertices \subseteq UNION Given
    /\ IsFiniteSet(edges) /\ size = Cardinality(edges)
    /\ step \in {"polling", "closing", "closed"} => Given \subseteq edges

(* Where the message at work is.                                           *)
MessagePlaced ==
    /\ AtWork \subseteq Polled
    /\ step # "stopped" =>
          /\ edges \subseteq partitioned
          /\ partitioned \subseteq edges \cup {Ends(m) : m \in AtWork}
    /\ step \in {"source", "destination", "edge"} => Ends(message) \in partitioned
    /\ step \in Objects => Ends(message) \in edges

RunInv == OffsetsInv /\ JoinsEmpty /\ StoreHoldsGiven /\ MessagePlaced

(* What poll passes is added to what was polled, if it is an edge.         *)
LEMMA PolledGrows ==
    ASSUME TypeInv, OffsetsInv, NEW p \in KafkaPartitions, position[p] < Len(log[p]),
           position' = [position EXCEPT ![p] = @ + 1], UNCHANGED <<log, began>>
    PROVE  Polled' = Polled \cup (Edges \cap {Fetched(p)})
  <1> DEFINE Old(q) == {log[q][k] : k \in (began[q] + 1) .. position[q]}
             New(q) == {log[q][k] : k \in (began[q] + 1) .. position'[q]}
  <1>1. \A q \in KafkaPartitions : began[q] \in Nat /\ position[q] \in Nat /\ began[q] <= position[q]
    BY DEF TypeInv, MasterTypeOK, OffsetsInv
  <1>2. \A q \in KafkaPartitions \ {p} : New(q) = Old(q)
    BY DEF TypeInv, MasterTypeOK
  <1>3. New(p) = Old(p) \cup {Fetched(p)}
    <2>1. position'[p] = position[p] + 1
      BY DEF TypeInv, MasterTypeOK
    <2>2. (began[p] + 1) .. position'[p] = ((began[p] + 1) .. position[p]) \cup {position[p] + 1}
      BY <1>1, <2>1
    <2>3. {log[p][k] : k \in ((began[p] + 1) .. position[p]) \cup {position[p] + 1}}
              = Old(p) \cup {log[p][position[p] + 1]}
      OBVIOUS
    <2> QED
      BY <2>2, <2>3 DEF Fetched
  <1>4. Polled = Edges \cap UNION {Old(q) : q \in KafkaPartitions}
    BY DEF Polled
  <1>5. Polled' = Edges \cap UNION {New(q) : q \in KafkaPartitions}
    BY DEF Polled
  <1> HIDE DEF Old, New
  <1> QED
    BY <1>2, <1>3, <1>4, <1>5

(* What producers add lies behind every position.                          *)
LEMMA ProducedIsAhead ==
    ASSUME TypeInv, OffsetsInv, NEW p \in KafkaPartitions, NEW payload \in Payloads,
           Produce(p, payload)
    PROVE  Polled' = Polled /\ OffsetsInv'
  <1>1. UNCHANGED <<began, position, committed>>
    BY DEF Produce, offsets
  <1>2. ASSUME NEW q \in KafkaPartitions
        PROVE  /\ Len(log'[q]) >= Len(log[q])
               /\ \A k \in 1 .. Len(log[q]) : log'[q][k] = log[q][k]
    <2>1. log[q] \in Seq(Payloads)
      BY DEF TypeInv, MasterTypeOK
    <2>2. log'[q] = IF q = p THEN Append(log[q], payload) ELSE log[q]
      BY DEF Produce, TypeInv, MasterTypeOK
    <2> QED
      BY <2>1, <2>2
  <1>3. \A q \in KafkaPartitions :
            /\ began[q] \in Nat /\ position[q] \in Nat
            /\ position[q] <= Len(log[q]) /\ Len(log[q]) \in Nat
    BY DEF TypeInv, MasterTypeOK, OffsetsInv
  <1>4. \A q \in KafkaPartitions : \A k \in (began[q] + 1) .. position[q] : k \in 1 .. Len(log[q])
    BY <1>3
  <1>5. Polled' = Polled
    BY <1>1, <1>2, <1>4 DEF Polled
  <1>6. \A q \in KafkaPartitions : Len(log'[q]) \in Nat
    BY DEF Produce, TypeInv, MasterTypeOK
  <1> QED
    BY <1>1, <1>2, <1>3, <1>5, <1>6 DEF OffsetsInv

(* A run at its beginning has polled nothing.                              *)
LEMMA NothingPolled ==
    ASSUME TypeInv, began = position
    PROVE  Polled = {} /\ Given = {}
  <1>1. \A p \in KafkaPartitions : (began[p] + 1) .. position[p] = {}
    BY DEF TypeInv, MasterTypeOK
  <1> QED
    BY <1>1 DEF Polled, Given

(* Before the first start nothing was given and nothing is stored.         *)
LEMMA InitRuns == Init => RunInv
  <1> SUFFICES ASSUME Init PROVE RunInv
    OBVIOUS
  <1>1. TypeInv
    BY InitTyped
  <1>2. Polled = {} /\ Given = {}
    BY <1>1, NothingPolled DEF Init
  <1>3. IsFiniteSet({}) /\ Cardinality({}) = 0
    BY FS_EmptySet
  <1>4. OffsetsInv
    BY DEF Init, OffsetsInv, NoOffset
  <1>5. StoreHoldsGiven
    BY <1>2, <1>3 DEF Init, StoreHoldsGiven, Store!GraphInit
  <1>6. JoinsEmpty /\ MessagePlaced
    BY DEF Init, JoinsEmpty, MessagePlaced, AtWork, Objects, Store!GraphInit
  <1> QED
    BY <1>4, <1>5, <1>6 DEF RunInv

(* A message at work is the one that may not be in the store.              *)
LEMMA WorkIsLast ==
    ASSUME TypeInv, step \in Working
    PROVE  message \in Edges /\ AtWork = {message}
  BY DEF TypeInv, MessageAtWork, AtWork

(* What a step changes that leaves the consumer where it is.               *)
LEMMA SameMessages ==
    ASSUME UNCHANGED <<log, position, began, delivered>>
    PROVE  Polled' = Polled /\ AtWork' = AtWork /\ Given' = Given
  BY DEF Polled, AtWork, Given

(* A start empties the store, and the run is given nothing yet.            *)
LEMMA StartRuns ==
    ASSUME TypeInv, RunInv, Start
    PROVE  RunInv'
  <1>1. TypeInv'
    BY BeginningTyped
  <1>2. Polled' = {} /\ Given' = {} /\ AtWork' = {}
    <2>1. \A p \in KafkaPartitions : (began'[p] + 1) .. position'[p] = {}
      BY DEF Start, TypeInv, MasterTypeOK
    <2> QED
      BY <2>1 DEF Polled, Given, AtWork, Start
  <1>3. IsFiniteSet({}) /\ Cardinality({}) = 0
    BY FS_EmptySet
  <1>4. OffsetsInv'
    BY DEF Start, RunInv, OffsetsInv, TypeInv, MasterTypeOK
  <1>5. JoinsEmpty'
    BY DEF Start, RunInv, JoinsEmpty
  <1>6. StoreHoldsGiven'
    BY <1>2, <1>3 DEF Start, StoreHoldsGiven
  <1>7. MessagePlaced'
    BY <1>2 DEF Start, RunInv, JoinsEmpty, MessagePlaced, Objects
  <1> QED
    BY <1>4, <1>5, <1>6, <1>7 DEF RunInv

(* The run begins where the offsets say, with nothing polled.              *)
LEMMA AssignRuns ==
    ASSUME TypeInv, RunInv, Assign
    PROVE  RunInv'
  <1>1. TypeInv'
    BY BeginningTyped
  <1>2. \A p \in KafkaPartitions :
            position'[p] = IF committed[p] = NoOffset THEN Len(log[p]) ELSE committed[p]
    BY DEF Assign
  <1>3. \A p \in KafkaPartitions : Len(log[p]) \in Nat
    BY DEF TypeInv, MasterTypeOK
  <1>4. OffsetsInv'
    <2>1. ASSUME NEW p \in KafkaPartitions
          PROVE  position'[p] <= Len(log[p]) /\ (committed[p] # NoOffset => committed[p] <= position'[p])
      <3>1. position[p] \in Nat /\ committed[p] \in Nat \cup {NoOffset}
        BY DEF TypeInv, MasterTypeOK
      <3> QED
        BY <1>2, <1>3, <3>1 DEF RunInv, OffsetsInv, NoOffset
    <2>2. \A p \in KafkaPartitions : position'[p] \in Nat
      BY <1>1 DEF TypeInv, MasterTypeOK
    <2> QED
      BY <2>1, <2>2 DEF Assign, OffsetsInv
  <1>5. vertices = {} /\ edges = {} /\ partitioned = {} /\ delivered = <<>>
    BY DEF Assign, RunInv, JoinsEmpty
  <1>6. Polled' = {} /\ Given' = {} /\ AtWork' = {}
    <2>1. \A p \in KafkaPartitions : (began'[p] + 1) .. position'[p] = {}
      BY <1>1 DEF Assign, TypeInv, MasterTypeOK
    <2> QED
      BY <1>5, <2>1 DEF Polled, Given, AtWork, Assign
  <1>7. JoinsEmpty'
    BY DEF Assign, JoinsEmpty
  <1>8. StoreHoldsGiven'
    BY <1>5, <1>6 DEF Assign, RunInv, StoreHoldsGiven, store
  <1>9. MessagePlaced'
    BY <1>5, <1>6 DEF Assign, MessagePlaced, Objects, store
  <1> QED
    BY <1>4, <1>7, <1>8, <1>9 DEF RunInv

(* Producers and commits do not touch what was polled.                     *)
LEMMA EnvironmentRuns ==
    ASSUME TypeInv, RunInv,
           Commit \/ \E p \in KafkaPartitions, payload \in Payloads : Produce(p, payload)
    PROVE  RunInv'
  <1>1. UNCHANGED <<position, began, step, message, delivered, partitioned,
                    vertices, edges, size>>
    BY DEF Commit, Produce, offsets, process, store
  <1>2. Polled' = Polled /\ OffsetsInv'
    <2>1. CASE Commit
      <3>1. \A p \in KafkaPartitions : committed'[p] \in {committed[p], position[p]}
        BY <2>1 DEF Commit, CommittedNow
      <3>2. \A p \in KafkaPartitions : position[p] \in Nat
        BY DEF TypeInv, MasterTypeOK
      <3>3. OffsetsInv'
        BY <2>1, <1>1, <3>1, <3>2 DEF Commit, RunInv, OffsetsInv
      <3> QED
        BY <2>1, <1>1, <3>3 DEF Commit, Polled
    <2>2. CASE \E p \in KafkaPartitions, payload \in Payloads : Produce(p, payload)
      BY <2>2, ProducedIsAhead DEF RunInv
    <2> QED
      BY <2>1, <2>2
  <1>3. Given' = Given /\ AtWork' = AtWork
    BY <1>1, <1>2 DEF Given, AtWork
  <1>4. JoinsEmpty'
    BY <1>1 DEF RunInv, JoinsEmpty
  <1>5. StoreHoldsGiven'
    BY <1>1, <1>2, <1>3 DEF RunInv, StoreHoldsGiven
  <1>6. MessagePlaced'
    BY <1>1, <1>2, <1>3 DEF RunInv, MessagePlaced
  <1> QED
    BY <1>2, <1>4, <1>5, <1>6 DEF RunInv

(* A message polled is given, and is the one at work if it is an edge.     *)
LEMMA PollRuns ==
    ASSUME TypeInv, RunInv, NEW p \in KafkaPartitions, Poll(p)
    PROVE  RunInv'
  <1>1. /\ step = "polling" /\ position[p] < Len(log[p])
        /\ position' = [position EXCEPT ![p] = @ + 1]
        /\ UNCHANGED <<log, began, committed, vertices, edges, size>>
    BY DEF Poll, PollEdge, PollMalformed, PollMarker, Passed, Stop, store
  <1>2. Polled' = Polled \cup (Edges \cap {Fetched(p)})
    BY <1>1, PolledGrows DEF RunInv
  <1>3. OffsetsInv'
    <2>1. /\ \A q \in KafkaPartitions : position[q] \in Nat /\ Len(log[q]) \in Nat
                                       /\ began[q] \in Nat /\ committed[q] \in Nat \cup {NoOffset}
          /\ \A q \in KafkaPartitions : position'[q] = IF q = p THEN position[q] + 1 ELSE position[q]
      BY <1>1 DEF TypeInv, MasterTypeOK
    <2>2. \A q \in KafkaPartitions : position[q] <= position'[q] /\ position'[q] <= Len(log[q])
                                   /\ position'[q] \in Nat
      BY <1>1, <2>1 DEF RunInv, OffsetsInv
    <2> QED
      BY <1>1, <2>1, <2>2 DEF RunInv, OffsetsInv, NoOffset
  <1>4. Given \subseteq edges
    BY <1>1 DEF RunInv, StoreHoldsGiven
  <1>5. CASE PollEdge(p)
    <2>1. delivered \in Seq(Edges) /\ Fetched(p) \in Edges /\ step' = "partition"
          /\ delivered' = Append(delivered, Fetched(p))
      BY <1>5 DEF PollEdge, TypeInv, MasterTypeOK
    <2>2. AtWork' = {Fetched(p)} /\ Polled' = Polled \cup {Fetched(p)}
      BY <1>2, <2>1 DEF AtWork
    <2>3. Given \subseteq Given' /\ {Ends(m) : m \in Polled' \ AtWork'} \subseteq Given
      BY <2>2 DEF Given
    <2>4. JoinsEmpty'
      BY <2>1 DEF JoinsEmpty
    <2>5. StoreHoldsGiven'
      BY <1>1, <1>4, <2>1, <2>3 DEF RunInv, StoreHoldsGiven
    <2>6. partitioned \subseteq edges
      <3>1. partitioned \subseteq edges \cup {Ends(m) : m \in AtWork} /\ AtWork \subseteq Polled
        BY <1>1 DEF RunInv, MessagePlaced
      <3> QED
        BY <3>1, <1>4 DEF Given
    <2>7. MessagePlaced'
      BY <1>1, <1>5, <2>1, <2>2, <2>6 DEF PollEdge, RunInv, MessagePlaced, Objects
    <2> QED
      BY <1>3, <2>4, <2>5, <2>7 DEF RunInv
  <1>6. CASE PollMalformed(p) \/ PollMarker(p)
    <2>1. Fetched(p) \notin Edges /\ delivered' = delivered
          /\ \/ step' = "stopped" /\ partitioned' = {}
             \/ step' = "closing" /\ partitioned' = partitioned
      BY <1>6, EdgesAssumption DEF PollMalformed, PollMarker, Passed, Stop
    <2>2. Polled' = Polled /\ AtWork' = AtWork /\ Given' = Given
      BY <1>2, <2>1 DEF AtWork, Given
    <2>3. JoinsEmpty'
      BY <2>1 DEF JoinsEmpty
    <2>4. StoreHoldsGiven'
      BY <1>1, <1>4, <2>1, <2>2 DEF RunInv, StoreHoldsGiven
    <2>5. MessagePlaced'
      BY <1>1, <2>1, <2>2 DEF RunInv, MessagePlaced, Objects
    <2> QED
      BY <1>3, <2>3, <2>4, <2>5 DEF RunInv
  <1> QED
    BY <1>5, <1>6 DEF Poll

(* The partitioner and the nodes of a message.                             *)
LEMMA PlacingRuns ==
    ASSUME TypeInv, RunInv, Partition \/ AddSource \/ AddDestination
    PROVE  RunInv'
  <1>1. /\ UNCHANGED <<log, committed, position, began, message, delivered, edges, size>>
        /\ step \in {"partition", "source", "destination"}
        /\ step' \in {"source", "destination", "edge"}
    BY DEF Partition, AddSource, AddDestination, AddNode, Store!AddVertex, offsets, process, store
  <1>2. message \in Edges /\ AtWork = {message} /\ message \in Polled
    BY <1>1, WorkIsLast DEF Working, RunInv, MessagePlaced
  <1>3. Polled' = Polled /\ AtWork' = AtWork /\ Given' = Given
    BY <1>1, SameMessages
  <1>4. Ends(message) \in Given
    BY <1>2 DEF Given
  <1>5. vertices' \subseteq vertices \cup Ends(message)
    BY DEF Partition, AddSource, AddDestination, AddNode, Store!AddVertex, store, Ends
  <1>6. vertices' \subseteq UNION Given
    BY <1>4, <1>5 DEF RunInv, StoreHoldsGiven
  <1>7. OffsetsInv'
    BY <1>1 DEF RunInv, OffsetsInv
  <1>8. JoinsEmpty'
    BY <1>1 DEF JoinsEmpty
  <1>9. StoreHoldsGiven'
    BY <1>1, <1>3, <1>6 DEF RunInv, StoreHoldsGiven
  <1>10. partitioned' = partitioned \cup {Ends(message)}
    <2>1. CASE Partition
      BY <2>1 DEF Partition
    <2>2. CASE AddSource \/ AddDestination
      BY <2>2 DEF AddSource, AddDestination, RunInv, MessagePlaced
    <2> QED
      BY <2>1, <2>2
  <1>11. MessagePlaced'
    BY <1>1, <1>2, <1>3, <1>10 DEF RunInv, MessagePlaced, Objects
  <1> QED
    BY <1>7, <1>8, <1>9, <1>11 DEF RunInv

(* A new edge.                                                             *)
LEMMA AddEdgeRuns ==
    ASSUME TypeInv, RunInv, AddEdge
    PROVE  RunInv'
  <1>1. /\ UNCHANGED <<log, committed, position, began, message, delivered, partitioned, vertices>>
        /\ step = "edge" /\ step' = "properties"
        /\ Ends(message) \notin edges
        /\ edges' = edges \cup {Ends(message)} /\ size' = size + 1
    BY DEF AddEdge, Store!AddNewEdge, Ends, offsets, process
  <1>2. message \in Edges /\ AtWork = {message} /\ message \in Polled
        /\ Ends(message) \in partitioned
    BY <1>1, WorkIsLast DEF Working, RunInv, MessagePlaced
  <1>3. Polled' = Polled /\ AtWork' = AtWork /\ Given' = Given
    BY <1>1, SameMessages
  <1>4. IsFiniteSet(edges') /\ size' = Cardinality(edges')
    BY <1>1, FS_AddElement DEF RunInv, StoreHoldsGiven
  <1>5. Ends(message) \in Given
    BY <1>2 DEF Given
  <1>6. OffsetsInv'
    BY <1>1 DEF RunInv, OffsetsInv
  <1>7. JoinsEmpty'
    BY <1>1 DEF JoinsEmpty
  <1>8. StoreHoldsGiven'
    BY <1>1, <1>3, <1>4, <1>5 DEF RunInv, StoreHoldsGiven
  <1>9. MessagePlaced'
    BY <1>1, <1>2, <1>3 DEF RunInv, MessagePlaced, Objects
  <1> QED
    BY <1>6, <1>7, <1>8, <1>9 DEF RunInv

(* The properties of a message, and its end.                               *)
LEMMA FinishingRuns ==
    ASSUME TypeInv, RunInv, SkipEdge \/ AddProperty \/ NextObject \/ EndMessage
    PROVE  RunInv'
  <1>1. /\ UNCHANGED <<log, committed, position, began, delivered, partitioned,
                       vertices, edges, size>>
        /\ step \in {"edge"} \cup Objects
        /\ Ends(message) \in edges
        /\ \/ step' \in Objects /\ message' = message
           \/ step' = "polling"
    BY DEF SkipEdge, AddProperty, NextObject, EndMessage, Objects, offsets, process, store,
           RunInv, MessagePlaced
  <1>2. AtWork = {message} /\ message \in Polled
    BY <1>1, WorkIsLast DEF Working, RunInv, MessagePlaced
  <1>3. Polled' = Polled /\ AtWork' = AtWork /\ Given' = Given
    BY <1>1, SameMessages
  <1>4. Given \subseteq edges
    BY <1>1, <1>2 DEF RunInv, StoreHoldsGiven, Given
  <1>5. OffsetsInv'
    BY <1>1 DEF RunInv, OffsetsInv
  <1>6. JoinsEmpty'
    BY <1>1 DEF JoinsEmpty, Objects
  <1>7. StoreHoldsGiven'
    BY <1>1, <1>3, <1>4 DEF RunInv, StoreHoldsGiven
  <1>8. MessagePlaced'
    BY <1>1, <1>3 DEF RunInv, MessagePlaced, Objects
  <1> QED
    BY <1>5, <1>6, <1>7, <1>8 DEF RunInv

(* The end of a run changes neither its store nor what it was given.       *)
LEMMA EndRuns ==
    ASSUME TypeInv, RunInv, Close \/ Exit \/ Crash
    PROVE  RunInv'
  <1>1. /\ UNCHANGED <<log, position, began, delivered, vertices, edges, size>>
        /\ \/ step = "closing" /\ step' = "closed" /\ UNCHANGED <<partitioned, message>>
           \/ step' = "stopped" /\ partitioned' = {}
    BY DEF Close, Exit, Crash, Stop, offsets, process, store
  <1>2. Polled' = Polled /\ AtWork' = AtWork /\ Given' = Given
    BY <1>1, SameMessages
  <1>3. \A p \in KafkaPartitions : committed'[p] \in {committed[p], position[p]}
    BY DEF Close, Exit, Crash, CommittedNow, offsets
  <1>4. OffsetsInv'
    <2>1. \A p \in KafkaPartitions : position[p] \in Nat
      BY DEF TypeInv, MasterTypeOK
    <2> QED
      BY <1>1, <1>3, <2>1 DEF RunInv, OffsetsInv
  <1>5. JoinsEmpty'
    BY <1>1 DEF JoinsEmpty
  <1>6. StoreHoldsGiven'
    BY <1>1, <1>2 DEF RunInv, StoreHoldsGiven
  <1>7. MessagePlaced'
    BY <1>1, <1>2 DEF RunInv, MessagePlaced, Objects
  <1> QED
    BY <1>4, <1>5, <1>6, <1>7 DEF RunInv

(* Every step keeps the store that of the run.                             *)
LEMMA NextRuns ==
    ASSUME TypeInv, RunInv, [Next]_vars
    PROVE  RunInv'
  <1>1. CASE Start
    BY <1>1, StartRuns
  <1>2. CASE Assign
    BY <1>2, AssignRuns
  <1>3. CASE Commit \/ \E p \in KafkaPartitions, payload \in Payloads : Produce(p, payload)
    BY <1>3, EnvironmentRuns
  <1>4. CASE \E p \in KafkaPartitions : Poll(p)
    BY <1>4, PollRuns
  <1>5. CASE Partition \/ AddSource \/ AddDestination
    BY <1>5, PlacingRuns
  <1>6. CASE AddEdge
    BY <1>6, AddEdgeRuns
  <1>7. CASE SkipEdge \/ AddProperty \/ NextObject \/ EndMessage
    BY <1>7, FinishingRuns
  <1>8. CASE Close \/ Exit \/ Crash
    BY <1>8, EndRuns
  <1>9. CASE UNCHANGED vars
    BY <1>9 DEF vars, RunInv, OffsetsInv, JoinsEmpty, StoreHoldsGiven, MessagePlaced,
                Polled, AtWork, Given
  <1> QED
    BY <1>1, <1>2, <1>3, <1>4, <1>5, <1>6, <1>7, <1>8, <1>9 DEF Next, Work, Payloads

(* Types and run together are inductive.                                   *)
LEMMA RunsCorrect == Spec => [](TypeInv /\ RunInv)
  BY InitTyped, InitRuns, NextTyped, NextRuns, PTL DEF Spec

(* The partitioner and the store of a run hold the graph of the messages    *)
(* it was given, but for the one it is at or was at when it crashed.       *)
THEOREM StoreIsAlwaysTheRun == Spec => []StoreIsTheRun
  <1>1. TypeInv /\ RunInv => StoreIsTheRun
    BY DEF RunInv, StoreHoldsGiven, MessagePlaced, Given, StoreIsTheRun
  <1> QED
    BY <1>1, RunsCorrect, PTL

(* A run goes on polling no later than where the one before it stopped, in  *)
(* every partition with a committed offset.                                *)
THEOREM NoMessageIsSkipped == Spec => RestartsSkipNothing
  <1>1. ASSUME TypeInv /\ RunInv, [Next]_vars, step = "joining", step' = "polling",
               NEW p \in KafkaPartitions, committed[p] # NoOffset
        PROVE  position'[p] <= position[p]
    <2>1. Assign
      BY <1>1 DEF Next, Work, Start, Assign, Partition, AddSource, AddDestination, SkipEdge,
                  AddEdge, AddProperty, NextObject, EndMessage, Close, Exit, Crash, Commit,
                  Poll, PollEdge, PollMalformed, PollMarker, Passed, Stop, Produce, vars, Objects
    <2>2. position'[p] = committed[p]
      BY <1>1, <2>1 DEF Assign
    <2> QED
      BY <1>1, <2>2 DEF RunInv, OffsetsInv
  <1>2. TypeInv /\ RunInv /\ [Next]_vars =>
            (step = "joining" /\ step' = "polling" =>
                \A p \in KafkaPartitions : committed[p] # NoOffset => position'[p] <= position[p])
    BY <1>1
  <1> QED
    BY <1>2, RunsCorrect, PTL DEF Spec, RestartsSkipNothing

-----------------------------------------------------------------------------
(* A run that the marker ended.                                            *)

ClosedInv ==
    /\ step = "closed" => indexFile = vertices
    /\ step # "stopped" => outcome = "running"
    /\ ClosedRunIsComplete

(* Polled changes in a step of a running process only.                     *)
LEMMA PolledStays ==
    ASSUME TypeInv, RunInv, [Next]_vars, step = "stopped", step' = "stopped"
    PROVE  /\ Polled' = Polled
           /\ UNCHANGED <<position, began, committed, edges, vertices, indexFile, outcome>>
  <1>1. CASE \E p \in KafkaPartitions, payload \in Payloads : Produce(p, payload)
    BY <1>1, ProducedIsAhead DEF RunInv, Produce, offsets, process, store
  <1>2. CASE UNCHANGED vars
    BY <1>2 DEF vars, Polled
  <1> QED
    BY <1>1, <1>2
       DEF Next, Work, Payloads, Start, Assign, Partition, AddSource, AddDestination, SkipEdge,
           AddEdge, AddProperty, NextObject, EndMessage, Close, Exit, Crash, Commit,
           Poll, PollEdge, PollMalformed, PollMarker, Passed, Objects

(* How the last process ended is known when it ends.                       *)
LEMMA OutcomeOfStep ==
    ASSUME TypeInv, [Next]_vars, ClosedInv
    PROVE  /\ step' # "stopped" => outcome' = "running"
           /\ step # "stopped" /\ step' = "stopped" =>
                 Exit \/ outcome' \in {"failed", "crashed"}
           /\ step' = "closed" => indexFile' = vertices'
  BY DEF ClosedInv, Next, Work, Start, Assign, Partition, AddSource, AddDestination, SkipEdge,
         AddEdge, AddProperty, NextObject, EndMessage, Close, Exit, Crash, Commit, Produce,
         Poll, PollEdge, PollMalformed, PollMarker, Passed, Stop, Objects, vars, offsets,
         process, store

(* A run that reached its end by the marker is complete.                   *)
LEMMA ExitIsComplete ==
    ASSUME TypeInv, RunInv, ClosedInv, Exit
    PROVE  ClosedRunIsComplete'
  <1>1. /\ step = "closed"
        /\ UNCHANGED <<log, position, began, delivered, edges, vertices, indexFile>>
        /\ committed' = CommittedNow
    BY DEF Exit, Stop, store
  <1>2. Polled' = Polled
    BY <1>1, SameMessages
  <1>3. edges = {Ends(m) : m \in Polled} /\ indexFile = vertices
    BY <1>1 DEF RunInv, StoreHoldsGiven, Given, ClosedInv
  <1>4. \A p \in KafkaPartitions : position[p] > began[p] => committed'[p] = position[p]
    BY <1>1 DEF CommittedNow
  <1> QED
    BY <1>1, <1>2, <1>3, <1>4 DEF ClosedRunIsComplete

(* Every step keeps what a closed run promises.                            *)
LEMMA NextClosed ==
    ASSUME TypeInv, RunInv, ClosedInv, [Next]_vars
    PROVE  ClosedInv'
  <1>1. CASE step' # "stopped"
    BY <1>1, OutcomeOfStep DEF ClosedInv, ClosedRunIsComplete
  <1>2. CASE step # "stopped" /\ step' = "stopped"
    BY <1>2, OutcomeOfStep, ExitIsComplete DEF ClosedInv, ClosedRunIsComplete
  <1>3. CASE step = "stopped" /\ step' = "stopped"
    BY <1>3, PolledStays DEF ClosedInv, ClosedRunIsComplete
  <1> QED
    BY <1>1, <1>2, <1>3

(* After an end by the marker the edges, the index and the offsets are      *)
(* those of the messages the run was given.                                *)
THEOREM ClosedRunIsAlwaysComplete == Spec => []ClosedRunIsComplete
  <1>1. Init => ClosedInv
    BY DEF Init, ClosedInv, ClosedRunIsComplete
  <1>2. ClosedInv => ClosedRunIsComplete
    BY DEF ClosedInv
  <1> QED
    BY <1>1, <1>2, RunsCorrect, NextClosed, PTL DEF Spec

-----------------------------------------------------------------------------
(* The properties.                                                         *)

Last == Len(delivered)

(* The edges of the first messages of this run.                            *)
EndsUpTo(k) == {Ends(delivered[j]) : j \in 1 .. k}

BroughtNewEdge(k) == \A j \in 1 .. (k - 1) : Ends(delivered[j]) # Ends(delivered[k])

(* The store has the edge of the message at work from the step that adds   *)
(* it; only a message with a new edge gets to its properties.              *)
EdgesOfDelivered ==
    /\ step \in {"partition", "source", "destination", "edge"} => edges = EndsUpTo(Last - 1)
    /\ step \in {"joining", "polling", "closing", "closed"} \cup Objects => edges = EndsUpTo(Last)
    /\ step \in Objects => BroughtNewEdge(Last) /\ names \subseteq message[step]

(* The names of an object of the message that are still to be stored.      *)
Rest(object) ==
    IF object = step THEN names
    ELSE IF step = "properties" \/ object = "destinationProperties" THEN message[object]
    ELSE {}

Left(o, n) == \E object \in Objects : o = OwnerOf(object) /\ n \in Rest(object)

(* A name without a value was brought by no message, or by the last one,    *)
(* which is not done with it or never will be.                             *)
MissingInv ==
    \A o \in Owners, n \in Names : property[o][n] = NoValue =>
        \A k \in Givers(o, n) :
            /\ k = Last
            /\ \/ step \in Working /\ (step \in Objects => Left(o, n))
               \/ step = "stopped" /\ outcome = "crashed"

(* A value is that of the first message with a new edge that brought one.  *)
FirstInv ==
    \A o \in Owners, n \in Names : property[o][n] # NoValue =>
        \E k \in Givers(o, n) :
            property[o][n] = delivered[k] /\ \A j \in Givers(o, n) : k <= j

PropertyInv == EdgesOfDelivered /\ MissingInv /\ FirstInv

(* A giver is one of the messages delivered.                               *)
LEMMA GiversTyped ==
    ASSUME NEW o, NEW n
    PROVE  \A k \in Givers(o, n) :
              /\ k \in DOMAIN delivered
              /\ n \in NamesFor(delivered[k], o)
              /\ BroughtNewEdge(k)
  BY DEF Givers, BroughtNewEdge

(* What poll appends: one more message, one more edge, at most one more     *)
(* giver of a name.                                                        *)
LEMMA DeliveredGrows ==
    ASSUME TypeInv, NEW m \in Edges, delivered' = Append(delivered, m)
    PROVE  /\ Last \in Nat /\ Last' = Last + 1
           /\ EndsUpTo(Last)' = EndsUpTo(Last) \cup {Ends(m)}
           /\ EndsUpTo(Last - 1)' = EndsUpTo(Last)
           /\ \A k \in 1 .. Last : delivered'[k] = delivered[k]
           /\ \A o \in Owners, n \in Names :
                 /\ Givers(o, n) \subseteq Givers(o, n)'
                 /\ Givers(o, n)' \subseteq Givers(o, n) \cup {Last + 1}
  <1>1. delivered \in Seq(Edges) /\ Last \in Nat
    BY DEF TypeInv, MasterTypeOK, Last
  <1>2. /\ Last' = Last + 1
        /\ DOMAIN delivered = 1 .. Last /\ DOMAIN delivered' = 1 .. (Last + 1)
        /\ delivered'[Last + 1] = m
        /\ \A k \in 1 .. Last : delivered'[k] = delivered[k]
    BY <1>1 DEF Last
  <1>3. EndsUpTo(Last)' = EndsUpTo(Last) \cup {Ends(m)}
    <2>1. 1 .. (Last + 1) = (1 .. Last) \cup {Last + 1}
      BY <1>1
    <2>2. EndsUpTo(Last)' = {Ends(delivered'[j]) : j \in 1 .. (Last + 1)}
      BY <1>2 DEF EndsUpTo
    <2> QED
      BY <1>2, <2>1, <2>2 DEF EndsUpTo
  <1>4. EndsUpTo(Last - 1)' = EndsUpTo(Last)
    <2>1. EndsUpTo(Last - 1)' = {Ends(delivered'[j]) : j \in 1 .. Last}
      BY <1>1, <1>2 DEF EndsUpTo
    <2> QED
      BY <1>2, <2>1 DEF EndsUpTo
  <1>5. ASSUME NEW k \in 1 .. Last, NEW o, NEW n
        PROVE  k \in Givers(o, n)' <=> k \in Givers(o, n)
    <2>1. \A j \in 1 .. (k - 1) : delivered'[j] = delivered[j]
      BY <1>1, <1>2
    <2>2. NamesFor(delivered[k], o)' = NamesFor(delivered[k], o)
      BY <1>2 DEF NamesFor, Ends
    <2> QED
      BY <1>1, <1>2, <2>1, <2>2 DEF Givers
  <1>6. ASSUME NEW o \in Owners, NEW n \in Names
        PROVE  /\ Givers(o, n) \subseteq Givers(o, n)'
               /\ Givers(o, n)' \subseteq Givers(o, n) \cup {Last + 1}
    <2>1. Givers(o, n) \subseteq 1 .. Last /\ Givers(o, n)' \subseteq 1 .. (Last + 1)
      BY <1>2 DEF Givers
    <2> QED
      BY <1>1, <1>5, <2>1
  <1> QED
    BY <1>1, <1>2, <1>3, <1>4, <1>6

(* With the same messages delivered, the givers are the same.              *)
LEMMA SameGivers ==
    ASSUME UNCHANGED delivered
    PROVE  /\ Last' = Last /\ EndsUpTo(Last)' = EndsUpTo(Last)
           /\ EndsUpTo(Last - 1)' = EndsUpTo(Last - 1)
           /\ BroughtNewEdge(Last)' = BroughtNewEdge(Last)
           /\ \A o, n : Givers(o, n)' = Givers(o, n)
  BY DEF Last, EndsUpTo, BroughtNewEdge, Givers

(* A run that was given nothing has no giver and no value.                 *)
LEMMA FreshRun ==
    ASSUME delivered' = <<>>, edges' = {},
           property' = [o \in Owners |-> [n \in Names |-> NoValue]],
           step' \in {"stopped", "joining"}
    PROVE  PropertyInv'
  <1>1. Last' = 0 /\ EndsUpTo(Last)' = {}
    BY DEF Last, EndsUpTo
  <1>2. \A o, n : Givers(o, n)' = {}
    BY DEF Givers
  <1> QED
    BY <1>1, <1>2 DEF PropertyInv, EdgesOfDelivered, MissingInv, FirstInv, Objects

(* The property invariant holds at the beginning.                          *)
LEMMA InitProperties == Init => PropertyInv
  <1> SUFFICES ASSUME Init PROVE PropertyInv
    OBVIOUS
  <1>1. \A o, n : Givers(o, n) = {}
    BY DEF Init, Givers
  <1> QED
    BY <1>1 DEF Init, Store!GraphInit, Properties!MapInit, PropertyInv, EdgesOfDelivered,
                MissingInv, FirstInv, Objects

(* A message that is polled may become a giver, and is at work then.       *)
LEMMA PollProperties ==
    ASSUME TypeInv, PropertyInv, NEW p \in KafkaPartitions, PollEdge(p)
    PROVE  PropertyInv'
  <1>1. /\ step = "polling" /\ step' = "partition"
        /\ UNCHANGED <<edges, property>>
        /\ Fetched(p) \in Edges /\ delivered' = Append(delivered, Fetched(p))
    BY DEF PollEdge, Passed, store
  <1>2. /\ Last \in Nat /\ Last' = Last + 1
        /\ EndsUpTo(Last - 1)' = EndsUpTo(Last)
        /\ \A k \in 1 .. Last : delivered'[k] = delivered[k]
        /\ \A o \in Owners, n \in Names :
              /\ Givers(o, n) \subseteq Givers(o, n)'
              /\ Givers(o, n)' \subseteq Givers(o, n) \cup {Last + 1}
    BY <1>1, DeliveredGrows
  <1>3. \A o, n : Givers(o, n) \subseteq 1 .. Last
    BY DEF Givers, Last, TypeInv, MasterTypeOK
  <1>4. EdgesOfDelivered'
    BY <1>1, <1>2 DEF PropertyInv, EdgesOfDelivered, Objects
  <1>5. MissingInv'
    <2>1. \A o \in Owners, n \in Names : property[o][n] = NoValue => Givers(o, n) = {}
      BY <1>1 DEF PropertyInv, MissingInv, Working, Objects
    <2> QED
      BY <1>1, <1>2, <2>1 DEF MissingInv, Working, Objects
  <1>6. FirstInv'
    <2>1. ASSUME NEW o \in Owners, NEW n \in Names, property'[o][n] # NoValue
          PROVE  \E k \in Givers(o, n)' :
                    property'[o][n] = delivered'[k] /\ \A j \in Givers(o, n)' : k <= j
      <3>1. PICK k \in Givers(o, n) :
                property[o][n] = delivered[k] /\ \A j \in Givers(o, n) : k <= j
        BY <1>1, <2>1 DEF PropertyInv, FirstInv
      <3>2. k \in 1 .. Last /\ k \in Givers(o, n)'
        BY <1>2, <1>3
      <3>3. \A j \in Givers(o, n)' : k <= j
        BY <1>2, <1>3, <3>1, <3>2
      <3> QED
        BY <1>1, <1>2, <3>1, <3>2, <3>3
    <2> QED
      BY <2>1 DEF FirstInv
  <1> QED
    BY <1>4, <1>5, <1>6 DEF PropertyInv

(* A step that stores no property and polls no edge keeps the values; what  *)
(* is left of the message is for each such step to show.                   *)
LEMMA FirstStays ==
    ASSUME PropertyInv, UNCHANGED <<delivered, property>>
    PROVE  FirstInv'
  BY SameGivers DEF PropertyInv, FirstInv

(* Steps before the edge is added, and steps between messages.             *)
LEMMA QuietProperties ==
    ASSUME TypeInv, PropertyInv, UNCHANGED <<delivered, property, edges>>,
           \/ /\ step \in {"partition", "source", "destination"}
              /\ step' \in {"source", "destination", "edge"}
           \/ /\ step \in {"joining", "polling", "closing"}
              /\ step' \in {"polling", "closing", "closed", "stopped"}
           \/ step # "stopped" /\ step' = "stopped" /\ outcome' = "crashed"
           \/ step = "closed" /\ step' = "stopped"
           \/ step' = step /\ UNCHANGED <<outcome, message, names>>
    PROVE  PropertyInv'
  <1>1. Last' = Last /\ EndsUpTo(Last)' = EndsUpTo(Last)
        /\ EndsUpTo(Last - 1)' = EndsUpTo(Last - 1)
        /\ BroughtNewEdge(Last)' = BroughtNewEdge(Last)
        /\ \A o, n : Givers(o, n)' = Givers(o, n)
    BY SameGivers
  <1>2. EdgesOfDelivered'
    BY <1>1 DEF PropertyInv, EdgesOfDelivered, Objects
  <1>3. MissingInv'
    <2>1. CASE step' = step /\ UNCHANGED <<outcome, message, names>>
      <3>1. \A o, n : Left(o, n)' = Left(o, n)
        BY <2>1 DEF Left, OwnerOf, Rest, Ends
      <3> QED
        BY <1>1, <2>1, <3>1 DEF PropertyInv, MissingInv
    <2>2. CASE ~(step' = step /\ UNCHANGED <<outcome, message, names>>)
      BY <1>1, <2>2 DEF PropertyInv, MissingInv, Working, Objects
    <2> QED
      BY <2>1, <2>2
  <1> QED
    BY <1>2, <1>3, FirstStays DEF PropertyInv

(* What a message brings of a name, object by object.                      *)
LEMMA NamesByObject ==
    ASSUME NEW m \in Edges, m = message, NEW o, NEW n \in NamesFor(m, o)
    PROVE  \E object \in Objects : o = OwnerOf(object) /\ n \in m[object]
  <1>1. CASE o = Ends(m) /\ n \in m.properties
    BY <1>1 DEF OwnerOf, Objects
  <1>2. CASE o = m.source /\ n \in m.sourceProperties
    BY <1>2 DEF OwnerOf, Objects
  <1>3. CASE o = m.destination /\ n \in m.destinationProperties
    BY <1>3 DEF OwnerOf, Objects
  <1> QED
    BY <1>1, <1>2, <1>3 DEF NamesFor

(* What the loop over one property object has still to store.              *)
LEMMA NamesOfObject ==
    ASSUME NEW m \in Edges, m = message, NEW object \in Objects, NEW n \in m[object]
    PROVE  n \in NamesFor(m, OwnerOf(object))
  <1>1. n \in Names
    BY MessageTyped DEF Objects
  <1> QED
    BY <1>1 DEF NamesFor, OwnerOf, Objects

(* A new edge makes its message a giver of all its names.                  *)
LEMMA AddEdgeProperties ==
    ASSUME TypeInv, PropertyInv, AddEdge
    PROVE  PropertyInv'
  <1>1. /\ UNCHANGED <<delivered, property, message>>
        /\ step = "edge" /\ step' = "properties" /\ names' = message.properties
        /\ Ends(message) \notin edges /\ edges' = edges \cup {Ends(message)}
    BY DEF AddEdge, Store!AddNewEdge, Ends
  <1>2. message \in Edges /\ message = delivered[Last] /\ Last \in Nat \ {0}
    BY <1>1 DEF TypeInv, MasterTypeOK, MessageAtWork, Working, Last
  <1>3. edges = EndsUpTo(Last - 1)
    BY <1>1 DEF PropertyInv, EdgesOfDelivered
  <1>4. BroughtNewEdge(Last)
    BY <1>1, <1>2, <1>3 DEF EndsUpTo, BroughtNewEdge
  <1>5. edges' = EndsUpTo(Last)
    <2>1. 1 .. Last = (1 .. (Last - 1)) \cup {Last}
      BY <1>2
    <2> QED
      BY <1>1, <1>2, <1>3, <2>1 DEF EndsUpTo
  <1>6. EdgesOfDelivered'
    BY <1>1, <1>4, <1>5, SameGivers DEF EdgesOfDelivered, Objects
  <1>7. MissingInv'
    <2>1. ASSUME NEW o \in Owners, NEW n \in Names, property'[o][n] = NoValue,
                 NEW k \in Givers(o, n)'
          PROVE  k = Last' /\ Left(o, n)'
      <3>1. k \in Givers(o, n) /\ k = Last
        BY <1>1, <2>1, SameGivers DEF PropertyInv, MissingInv
      <3>2. n \in NamesFor(message, o)
        BY <1>2, <3>1, GiversTyped
      <3>3. PICK object \in Objects : o = OwnerOf(object) /\ n \in message[object]
        BY <1>2, <3>2, NamesByObject
      <3>4. Rest(object)' = message[object] /\ OwnerOf(object)' = OwnerOf(object)
        BY <1>1, <3>3 DEF Rest, OwnerOf, Objects, Ends
      <3> QED
        BY <1>1, <3>1, <3>3, <3>4, SameGivers DEF Left
    <2> QED
      BY <1>1, <2>1 DEF MissingInv, Working, Objects
  <1> QED
    BY <1>1, <1>6, <1>7, FirstStays DEF PropertyInv

(* The message of a stored edge is no giver.                               *)
LEMMA SkipProperties ==
    ASSUME TypeInv, PropertyInv, SkipEdge
    PROVE  PropertyInv'
  <1>1. /\ UNCHANGED <<delivered, property, edges>>
        /\ step = "edge" /\ step' = "polling" /\ Ends(message) \in edges
    BY DEF SkipEdge, store
  <1>2. message \in Edges /\ message = delivered[Last] /\ Last \in Nat \ {0}
    BY <1>1 DEF TypeInv, MasterTypeOK, MessageAtWork, Working, Last
  <1>3. edges = EndsUpTo(Last - 1)
    BY <1>1 DEF PropertyInv, EdgesOfDelivered
  <1>4. ~BroughtNewEdge(Last)
    BY <1>1, <1>2, <1>3 DEF EndsUpTo, BroughtNewEdge
  <1>5. edges = EndsUpTo(Last)
    <2>1. 1 .. Last = (1 .. (Last - 1)) \cup {Last}
      BY <1>2
    <2> QED
      BY <1>1, <1>2, <1>3, <2>1 DEF EndsUpTo
  <1>6. EdgesOfDelivered'
    BY <1>1, <1>5, SameGivers DEF EdgesOfDelivered, Objects
  <1>7. MissingInv'
    <2>1. \A o \in Owners, n \in Names : property[o][n] = NoValue => Givers(o, n) = {}
      BY <1>4, GiversTyped, <1>1 DEF PropertyInv, MissingInv, Objects
    <2> QED
      BY <1>1, <2>1, SameGivers DEF MissingInv
  <1> QED
    BY <1>1, <1>6, <1>7, FirstStays DEF PropertyInv

(* From one object to the next, and from the last to the next message.     *)
LEMMA ObjectProperties ==
    ASSUME TypeInv, PropertyInv, NextObject \/ EndMessage
    PROVE  PropertyInv'
  <1>1. /\ UNCHANGED <<delivered, property, edges>>
        /\ step \in Objects /\ names = {}
        /\ \/ /\ step = "properties" /\ step' = "sourceProperties"
              /\ names' = message[step'] /\ message' = message
           \/ /\ step = "sourceProperties" /\ step' = "destinationProperties"
              /\ names' = message[step'] /\ message' = message
           \/ step = "destinationProperties" /\ step' = "polling"
    BY DEF NextObject, EndMessage, Objects, store
  <1>2. EdgesOfDelivered'
    BY <1>1, SameGivers DEF PropertyInv, EdgesOfDelivered, Objects
  <1>3. ASSUME NEW o \in Owners, NEW n \in Names, Left(o, n)
        PROVE  step' \in Objects /\ Left(o, n)'
    <2>1. PICK object \in Objects : o = OwnerOf(object) /\ n \in Rest(object)
      BY <1>3 DEF Left
    <2>2. object # step /\ n \in message[object]
          /\ (step = "properties" \/ object = "destinationProperties")
      BY <1>1, <2>1 DEF Rest
    <2>3. step' \in Objects /\ message' = message
      BY <1>1, <2>1, <2>2 DEF Objects
    <2>4. Rest(object)' = message[object] /\ OwnerOf(object)' = OwnerOf(object)
      BY <1>1, <2>1, <2>2, <2>3 DEF Rest, OwnerOf, Objects, Ends
    <2> QED
      BY <2>1, <2>2, <2>3, <2>4 DEF Left
  <1>4. MissingInv'
    BY <1>1, <1>3, SameGivers DEF PropertyInv, MissingInv, Working, Objects
  <1> QED
    BY <1>1, <1>2, <1>4, FirstStays DEF PropertyInv

(* addProperty stores what is missing, and keeps what is there.            *)
LEMMA AddPropertyProperties ==
    ASSUME TypeInv, PropertyInv, AddProperty
    PROVE  PropertyInv'
  <1> DEFINE owner == OwnerOf(step)
  <1>1. /\ UNCHANGED <<delivered, edges, message, step, outcome>>
        /\ step \in Objects
    BY DEF AddProperty, process
  <1>2. PICK name \in names :
            /\ names' = names \ {name}
            /\ IF property[owner][name] = NoValue
               THEN property' = [property EXCEPT ![owner][name] = message]
               ELSE UNCHANGED property
    BY DEF AddProperty, Properties!Put
  <1>3. owner \in Owners /\ message \in Edges /\ message # NoValue
    BY <1>1, ObjectTyped, EdgesAssumption
  <1>4. message = delivered[Last] /\ Last \in DOMAIN delivered
    BY <1>3 DEF TypeInv, MasterTypeOK, MessageAtWork, Last
  <1>5. property \in [Owners -> [Names -> Edges \cup {NoValue}]] /\ name \in Names
    BY <1>2 DEF TypeInv, MasterTypeOK
  <1>6. \A o \in Owners, n \in Names :
            property'[o][n] = IF o = owner /\ n = name /\ property[o][n] = NoValue
                              THEN message ELSE property[o][n]
    BY <1>2, <1>3, <1>5
  <1> HIDE DEF owner
  <1>7. EdgesOfDelivered'
    BY <1>1, <1>2, SameGivers DEF PropertyInv, EdgesOfDelivered, Objects
  <1>8. MissingInv'
    <2>1. ASSUME NEW o \in Owners, NEW n \in Names, property'[o][n] = NoValue, Left(o, n)
          PROVE  Left(o, n)'
      <3>1. PICK object \in Objects : o = OwnerOf(object) /\ n \in Rest(object)
        BY <2>1 DEF Left
      <3>2. OwnerOf(object)' = OwnerOf(object)
        BY <1>1 DEF OwnerOf, Ends
      <3>3. CASE object # step
        <4>1. Rest(object)' = Rest(object)
          BY <1>1, <3>3 DEF Rest
        <4> QED
          BY <3>1, <3>2, <4>1 DEF Left
      <3>4. CASE object = step
        <4>1. ~(o = owner /\ n = name)
          BY <1>3, <1>6, <2>1
        <4>2. n # name
          BY <3>1, <3>4, <4>1 DEF owner
        <4>3. n \in Rest(object)'
          BY <1>1, <1>2, <3>1, <3>4, <4>2 DEF Rest
        <4> QED
          BY <3>1, <3>2, <4>3 DEF Left
      <3> QED
        BY <3>3, <3>4
    <2>2. \A o \in Owners, n \in Names : property'[o][n] = NoValue => property[o][n] = NoValue
      BY <1>3, <1>6
    <2> QED
      BY <1>1, <2>1, <2>2, SameGivers DEF PropertyInv, MissingInv, Working, Objects
  <1>9. FirstInv'
    <2>1. ASSUME NEW o \in Owners, NEW n \in Names, property'[o][n] # NoValue
          PROVE  \E k \in Givers(o, n) :
                    property'[o][n] = delivered[k] /\ \A j \in Givers(o, n) : k <= j
      <3>1. CASE property[o][n] # NoValue
        BY <1>6, <3>1 DEF PropertyInv, FirstInv
      <3>2. CASE property[o][n] = NoValue
        <4>1. o = owner /\ n = name /\ property'[o][n] = delivered[Last]
          BY <1>4, <1>6, <2>1, <3>2
        <4>2. n \in NamesFor(message, o)
          <5>1. name \in message[step]
            BY <1>1, <1>2 DEF PropertyInv, EdgesOfDelivered
          <5> QED
            BY <1>1, <1>3, <4>1, <5>1, NamesOfObject DEF owner
        <4>3. Last \in Givers(o, n)
          BY <1>1, <1>4, <4>2 DEF Givers, BroughtNewEdge, PropertyInv, EdgesOfDelivered
        <4>4. \A j \in Givers(o, n) : Last <= j
          <5>1. \A j \in Givers(o, n) : j = Last
            BY <3>2 DEF PropertyInv, MissingInv
          <5>2. Last \in Nat
            BY DEF TypeInv, MasterTypeOK, Last
          <5> QED
            BY <5>1, <5>2
        <4> QED
          BY <4>1, <4>3, <4>4
      <3> QED
        BY <3>1, <3>2
    <2> QED
      BY <1>1, <2>1, SameGivers DEF FirstInv
  <1> QED
    BY <1>7, <1>8, <1>9 DEF PropertyInv

(* Every step keeps the property invariant.                                *)
LEMMA NextProperties ==
    ASSUME TypeInv, PropertyInv, [Next]_vars
    PROVE  PropertyInv'
  <1>1. CASE Start
    BY <1>1, FreshRun DEF Start
  <1>2. CASE \E p \in KafkaPartitions : PollEdge(p)
    BY <1>2, PollProperties
  <1>3. CASE Partition \/ AddSource \/ AddDestination \/ Assign \/ Close \/ Exit
    BY <1>3, QuietProperties
       DEF Partition, AddSource, AddDestination, AddNode, Store!AddVertex, Assign, Close, Exit,
           Stop, store
  <1>4. CASE Crash \/ Commit \/ UNCHANGED vars
    BY <1>4, QuietProperties DEF Crash, Commit, Stop, offsets, process, store, vars
  <1>5. CASE \E p \in KafkaPartitions, payload \in Payloads : Produce(p, payload)
    BY <1>5, QuietProperties DEF Produce, offsets, process, store
  <1>6. CASE \E p \in KafkaPartitions : PollMalformed(p) \/ PollMarker(p)
    BY <1>6, QuietProperties DEF PollMalformed, PollMarker, Passed, Stop, store
  <1>7. CASE AddEdge
    BY <1>7, AddEdgeProperties
  <1>8. CASE SkipEdge
    BY <1>8, SkipProperties
  <1>9. CASE NextObject \/ EndMessage
    BY <1>9, ObjectProperties
  <1>10. CASE AddProperty
    BY <1>10, AddPropertyProperties
  <1> QED
    BY <1>1, <1>2, <1>3, <1>4, <1>5, <1>6, <1>7, <1>8, <1>9, <1>10 DEF Next, Work, Poll, Payloads

(* The least of a set of numbers.                                          *)
LEMMA LeastIsMin ==
    ASSUME NEW S \in SUBSET Nat, NEW k \in S, \A j \in S : k <= j
    PROVE  Min(S) = k
  <1>1. Min(S) \in S /\ \A y \in S : Min(S) <= y
    BY DEF Min
  <1>2. Min(S) <= k /\ k <= Min(S) /\ Min(S) \in Nat /\ k \in Nat
    BY <1>1
  <1> QED
    BY <1>2

(* Every name of every node and edge has the value that came first with a   *)
(* new edge, or waits for the message at work, or was lost with it.        *)
THEOREM PropertiesAreAlwaysOfNewEdges == Spec => []PropertiesAreOfNewEdges
  <1>1. ASSUME TypeInv, PropertyInv PROVE PropertiesAreOfNewEdges
    <2>1. ASSUME NEW o \in Owners, NEW n \in Names, Givers(o, n) = {}
          PROVE  property[o][n] = NoValue
      BY <1>1, <2>1 DEF PropertyInv, FirstInv
    <2>2. ASSUME NEW o \in Owners, NEW n \in Names, Givers(o, n) # {}
          PROVE  \/ property[o][n] = delivered[Min(Givers(o, n))]
                 \/ /\ property[o][n] = NoValue
                    /\ Min(Givers(o, n)) = Len(delivered)
                    /\ message # NoValue \/ outcome = "crashed"
      <3>1. Givers(o, n) \in SUBSET Nat
        BY <1>1 DEF Givers, TypeInv, MasterTypeOK
      <3>2. CASE property[o][n] # NoValue
        BY <1>1, <3>1, <3>2, LeastIsMin DEF PropertyInv, FirstInv
      <3>3. CASE property[o][n] = NoValue
        <4>1. PICK k \in Givers(o, n) : TRUE
          BY <2>2
        <4>2. k = Last /\ (step \in Working \/ outcome = "crashed")
              /\ \A j \in Givers(o, n) : j = k
          BY <1>1, <3>3, <4>1 DEF PropertyInv, MissingInv
        <4>3. Min(Givers(o, n)) = k
          BY <3>1, <4>1, <4>2, LeastIsMin
        <4>4. step \in Working => message # NoValue
          BY <1>1, EdgesAssumption DEF TypeInv, MessageAtWork
        <4> QED
          BY <3>3, <4>2, <4>3, <4>4 DEF Last
      <3> QED
        BY <3>2, <3>3
    <2> QED
      BY <2>1, <2>2 DEF PropertiesAreOfNewEdges
  <1> QED
    BY <1>1, InitTyped, NextTyped, InitProperties, NextProperties, PTL DEF Spec

-----------------------------------------------------------------------------
(* The offsets of the messages this run was given.                         *)
Passes(p) == (began[p] + 1) .. position[p]

(* A running master has passed edges only; one that ends has passed one     *)
(* marker, as its last message.                                            *)
OnlyEdgesPassed ==
    step \notin {"stopped", "closing", "closed"} =>
        \A p \in KafkaPartitions : \A k \in Passes(p) : log[p][k] \in Edges

MarkerIsLast ==
    step \in {"closing", "closed"} =>
        \E p \in KafkaPartitions :
            /\ position[p] \in Passes(p) /\ log[p][position[p]] = EndMarker
            /\ \A q \in KafkaPartitions : \A k \in Passes(q) :
                  <<q, k>> # <<p, position[p]>> => log[q][k] \in Edges

PassedInv == OnlyEdgesPassed /\ MarkerIsLast

(* Producers append behind what was passed.                                *)
LEMMA PassedStays ==
    ASSUME TypeInv, RunInv, PassedInv, NEW p \in KafkaPartitions, NEW payload \in Payloads,
           Produce(p, payload)
    PROVE  PassedInv'
  <1>1. UNCHANGED <<began, position, step>>
    BY DEF Produce, offsets
  <1>2. ASSUME NEW q \in KafkaPartitions, NEW k \in Passes(q)
        PROVE  log'[q][k] = log[q][k]
    <2>1. /\ log[q] \in Seq(Payloads) /\ k \in 1 .. Len(log[q])
      BY DEF TypeInv, MasterTypeOK, RunInv, OffsetsInv, Passes
    <2>2. log'[q] = IF q = p THEN Append(log[q], payload) ELSE log[q]
      BY DEF Produce, TypeInv, MasterTypeOK
    <2> QED
      BY <2>1, <2>2
  <1>3. \A q \in KafkaPartitions : Passes(q)' = Passes(q)
    BY <1>1 DEF Passes
  <1> QED
    BY <1>1, <1>2, <1>3 DEF PassedInv, OnlyEdgesPassed, MarkerIsLast

(* poll returns one more message, and what it is decides what comes next.  *)
LEMMA PassedGrows ==
    ASSUME TypeInv, RunInv, PassedInv, NEW p \in KafkaPartitions, Poll(p)
    PROVE  PassedInv'
  <1>1. CASE PollMalformed(p)
    BY <1>1 DEF PollMalformed, Stop, PassedInv, OnlyEdgesPassed, MarkerIsLast
  <1>2. CASE PollEdge(p) \/ PollMarker(p)
    <2>1. /\ step = "polling" /\ UNCHANGED <<log, began>>
          /\ \A q \in KafkaPartitions :
                position'[q] = IF q = p THEN position[p] + 1 ELSE position[q]
      BY <1>2 DEF PollEdge, PollMarker, Passed, TypeInv, MasterTypeOK
    <2>2. \A q \in KafkaPartitions : began[q] \in Nat /\ position[q] \in Nat /\ began[q] <= position[q]
      BY DEF TypeInv, MasterTypeOK, RunInv, OffsetsInv
    <2>3. /\ \A q \in KafkaPartitions : Passes(q)' = IF q = p THEN Passes(p) \cup {position'[p]} ELSE Passes(q)
          /\ position'[p] \notin Passes(p) /\ position'[p] \in Passes(p)'
      <3>1. /\ \A q \in KafkaPartitions \ {p} : Passes(q)' = Passes(q)
            /\ Passes(p)' = (began[p] + 1) .. (position[p] + 1)
        BY <2>1 DEF Passes
      <3>2. (began[p] + 1) .. (position[p] + 1) = ((began[p] + 1) .. position[p]) \cup {position[p] + 1}
        BY <2>2
      <3>3. position'[p] = position[p] + 1
        BY <2>1
      <3>4. position[p] + 1 \notin (began[p] + 1) .. position[p]
        BY <2>2
      <3>5. Passes(p)' = Passes(p) \cup {position'[p]} /\ position'[p] \notin Passes(p)
        BY <3>1, <3>2, <3>3, <3>4 DEF Passes
      <3> QED
        BY <3>1, <3>5
    <2>4. \A q \in KafkaPartitions : \A k \in Passes(q) : log'[q][k] \in Edges
      BY <2>1 DEF PassedInv, OnlyEdgesPassed
    <2>5. log'[p][position'[p]] = Fetched(p)
      BY <2>1 DEF Fetched
    <2>6. CASE PollEdge(p)
      <3>1. step' = "partition" /\ Fetched(p) \in Edges
        BY <2>6 DEF PollEdge
      <3> QED
        BY <2>3, <2>4, <2>5, <3>1 DEF PassedInv, OnlyEdgesPassed, MarkerIsLast
    <2>7. CASE PollMarker(p)
      <3>1. step' = "closing" /\ Fetched(p) = EndMarker
        BY <2>7 DEF PollMarker
      <3> QED
        BY <2>3, <2>4, <2>5, <3>1 DEF PassedInv, OnlyEdgesPassed, MarkerIsLast
    <2> QED
      BY <1>2, <2>6, <2>7
  <1> QED
    BY <1>1, <1>2 DEF Poll

(* Every step keeps what is behind the consumer edges, but for the         *)
(* marker.                                                                 *)
LEMMA NextPassed ==
    ASSUME TypeInv, RunInv, PassedInv, [Next]_vars
    PROVE  PassedInv'
  <1>1. CASE Start \/ Assign
    <2>1. step' \in {"joining", "polling"} /\ began' = position'
      BY <1>1 DEF Start, Assign
    <2>2. \A p \in KafkaPartitions : Passes(p)' = {}
      <3>1. \A p \in KafkaPartitions : position'[p] \in Int
        BY <1>1, NextTyped DEF TypeInv, MasterTypeOK
      <3> QED
        BY <2>1, <3>1 DEF Passes
    <2> QED
      BY <2>1, <2>2 DEF PassedInv, OnlyEdgesPassed, MarkerIsLast
  <1>2. CASE UNCHANGED <<log, position, began>> /\
             (step' = step \/ step' = "stopped" \/ {step, step'} \cap {"stopped", "closing", "closed"} = {}
              \/ (step = "closing" /\ step' = "closed"))
    BY <1>2 DEF PassedInv, OnlyEdgesPassed, MarkerIsLast, Passes
  <1>3. CASE Commit \/ Partition \/ AddSource \/ AddDestination \/ SkipEdge \/ AddEdge
             \/ AddProperty \/ NextObject \/ EndMessage
    BY <1>2, <1>3 DEF Commit, Partition, AddSource, AddDestination, SkipEdge, AddEdge,
       AddProperty, NextObject, EndMessage, offsets, Objects
  <1>4. CASE Close \/ Exit \/ Crash \/ UNCHANGED vars
    BY <1>2, <1>4 DEF Close, Exit, Crash, Stop, offsets, vars
  <1> QED
    BY <1>1, <1>3, <1>4, PassedStays, PassedGrows DEF Next, Work, Payloads

(* Nothing but edges is behind a running master, and one marker, the last   *)
(* message it took, behind one that ends (main.cpp, the -1 of its loop).   *)
THEOREM OnlyTheMarkerEndsARun == Spec => [](OnlyEdgesPassed /\ MarkerIsLast)
  <1>1. Init => PassedInv
    BY DEF Init, PassedInv, OnlyEdgesPassed, MarkerIsLast
  <1> QED
    BY <1>1, RunsCorrect, NextPassed, PTL DEF Spec, PassedInv

(* Between two messages partitioner and store hold the edges of the log      *)
(* from where the run began to where it is, every message of it.           *)
StoreIsTheLog ==
    step = "polling" =>
        LET ofTheLog == UNION {{Ends(log[p][k]) : k \in Passes(p)} : p \in KafkaPartitions}
        IN  edges = ofTheLog /\ partitioned = ofTheLog

(* No message of the log is left out and none is left half done when main  *)
(* polls again: the graph it holds is the graph of the log's segments.     *)
THEOREM BetweenMessagesStoreIsTheLog == Spec => []StoreIsTheLog
  <1>1. ASSUME TypeInv, RunInv, OnlyEdgesPassed, step = "polling"
        PROVE  /\ edges = UNION {{Ends(log[p][k]) : k \in Passes(p)} : p \in KafkaPartitions}
               /\ partitioned = edges
    <2>1. edges = Given
      BY <1>1 DEF RunInv, StoreHoldsGiven
    <2>2. Polled = UNION {{log[p][k] : k \in Passes(p)} : p \in KafkaPartitions}
      BY <1>1 DEF OnlyEdgesPassed, Polled, Passes
    <2>3. partitioned = edges
      BY <1>1, <2>1 DEF RunInv, MessagePlaced, Given
    <2> QED
      BY <2>1, <2>2, <2>3 DEF Given
  <1>2. TypeInv /\ RunInv /\ OnlyEdgesPassed => StoreIsTheLog
    BY <1>1 DEF StoreIsTheLog
  <1> QED
    BY <1>2, RunsCorrect, OnlyTheMarkerEndsARun, PTL

-----------------------------------------------------------------------------
(* How far main is from its next poll, or from its end.                    *)
StepsLeft ==
    CASE step = "partition"             -> 7
      [] step = "source"                -> 6
      [] step = "destination"           -> 5
      [] step = "edge"                  -> 4
      [] step = "properties"            -> 3
      [] step = "sourceProperties"      -> 2
      [] step = "destinationProperties" -> 1
      [] step = "closing"               -> 2
      [] step = "closed"                -> 1
      [] step = "joining"               -> 1
      [] OTHER                          -> 0

(* A step nearer, or the same loop over a property object with fewer names. *)
Nearer ==
    \/ StepsLeft' < StepsLeft
    \/ StepsLeft' = StepsLeft /\ names' \subseteq names /\ names' # names

(* Between two polls all that main does brings it nearer, and nothing that *)
(* producers or the commits of the timer do takes it back.                 *)
WorkAdvances ==
    step \notin {"stopped", "polling"} =>
        /\ StepsLeft \in Nat /\ StepsLeft' \in Nat
        /\ Work => Nearer
        /\ Nearer \/ UNCHANGED <<step, names>>

(* Each action of main leads on; a crash leads to the end.                 *)
LEMMA StepAdvances ==
    ASSUME TypeInv, [Next]_vars, step \notin {"stopped", "polling"}
    PROVE  /\ Work => Nearer
           /\ Nearer \/ UNCHANGED <<step, names>>
  <1> USE DEF StepsLeft, Nearer
  <1>1. CASE AddProperty
    <2>1. step' = step /\ step \in Objects /\ names' \subseteq names /\ names' # names
      BY <1>1 DEF AddProperty
    <2> QED
      BY <2>1 DEF Objects
  <1>2. CASE Assign \/ Partition \/ AddSource \/ AddDestination \/ SkipEdge \/ AddEdge \/ NextObject
             \/ EndMessage \/ Close \/ Exit
    BY <1>2 DEF Assign, Partition, AddSource, AddDestination, SkipEdge, AddEdge, NextObject,
       EndMessage, Close, Exit, Stop
  <1>3. Work => Nearer
    BY <1>1, <1>2 DEF Work
  <1>4. CASE Crash
    BY <1>4 DEF Crash, Stop, TypeInv, MasterTypeOK, Steps, Objects
  <1>5. CASE Commit \/ (\E p \in KafkaPartitions, payload \in Payloads : Produce(p, payload)) \/ UNCHANGED vars
    BY <1>3, <1>5 DEF Commit, Produce, vars
  <1> QED
    BY <1>3, <1>4, <1>5 DEF Next, Payloads, Start, Poll, PollEdge, PollMalformed, PollMarker, Passed

(* A message, the join and the close are worked off in finitely many       *)
(* steps: the safety half of MarkerEndsTheRun.                             *)
THEOREM MasterAdvances == Spec => [][WorkAdvances]_vars
  <1>1. StepsLeft \in Nat /\ StepsLeft' \in Nat
    BY DEF StepsLeft
  <1>2. TypeInv /\ [Next]_vars => [WorkAdvances]_vars
    BY <1>1, StepAdvances DEF WorkAdvances
  <1> QED
    BY <1>2, InitTyped, NextTyped, PTL DEF Spec
=============================================================================
