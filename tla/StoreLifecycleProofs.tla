------------------------ MODULE StoreLifecycleProofs ------------------------
(***************************************************************************)
(* Proofs about StoreLifecycle: the type invariant, the invariant that      *)
(* makes the store's promises inductive, and the promises themselves, for  *)
(* any number of IDs, epochs and blocks.                                   *)
(***************************************************************************)
EXTENDS StoreLifecycle, TLAPS

USE GarbageAssumption, LeftoversAssumption, BoundsAssumption

-----------------------------------------------------------------------------
(* A process that has stopped holds an index like any other.               *)
LEMMA EmptyIsAnIndex == EmptyIndex \in NodeIndex
  BY DEF EmptyIndex, NodeIndex, NotIndexed

(* Counters may start at 0.                                                *)
LEMMA ZeroInBounds ==
    /\ 0 \in 0 .. MaxBlocks /\ 0 \in 0 .. MaxStrays /\ 0 \in 0 .. MaxEpochs
    /\ \A e \in 0 .. MaxEpochs : 0 \in 0 .. e
  OBVIOUS

(* Every block written keeps the file a sequence of IDs, no longer than     *)
(* its bound while there is room, and no block lies straight behind it.    *)
LEMMA AppendIsTyped ==
    ASSUME TypeOK, NEW id \in Ids, AppendBlock(id), Len(nodesDB) < MaxBlocks
    PROVE  /\ nodesDB' \in Seq(Ids)
           /\ Len(nodesDB') = Len(nodesDB) + 1
           /\ straight' \in 0 .. Len(nodesDB')
           /\ strays' = strays
           /\ nodesDB'[Len(nodesDB) + 1] = id
           /\ \A k \in 1 .. Len(nodesDB) : nodesDB'[k] = nodesDB[k]
  BY DEF TypeOK, AppendBlock

(* A server starts with locals and a map of their types.                   *)
LEMMA NotLoadingIsTyped == NotLoading \in Locals /\ EmptyIndex \in ReaderIndexes
  BY DEF NotLoading, Locals, AnyKey, EmptyIndex, ReaderIndexes

(* A field that is there is one of an entry.                               *)
LEMMA ReachedIsAnEntry ==
    ASSUME TypeOK, NEW part \in Parts, Reaches(loading.entry + 1, part)
    PROVE  /\ indexDB[loading.entry + 1] \in Entry
           /\ loading.entry + 1 \in DOMAIN indexDB
  BY DEF TypeOK, Reaches, Locals

(* A stream has failed or not.                                             *)
LEMMA FailureIsTyped == TypeOK => FailedAfter \in BOOLEAN
  BY DEF FailedAfter, TypeOK, Locals

(* Whatever a read leaves in the key is of a key's type,                   *)
LEMMA KeyReadIsTyped ==
    ASSUME TypeOK, NEW key \in FieldRead(indexDB[loading.entry + 1].id, loading.key, AnyKey)
    PROVE  key \in AnyKey
<1>1. PartRead \in Parts
  BY DEF PartRead, Parts, Key, Whole
<1>2. loading.key \in AnyKey
  BY DEF TypeOK, Locals
<1> QED
  BY <1>1, <1>2, ReachedIsAnEntry DEF FieldRead, Entry, AnyKey

(* and in the block index of a number's, unless nobody has set it.         *)
LEMMA BlockReadIsTyped ==
    ASSUME TypeOK,
           NEW block \in FieldRead(indexDB[loading.entry + 1].block, loading.block, Leftovers)
    PROVE  block \in AnyBlock \cup {NotIndexed}
<1>1. PartRead \in Parts
  BY DEF PartRead, Parts, Key, Whole
<1>2. loading.block \in AnyBlock \cup {NotIndexed}
  BY DEF TypeOK, Locals
<1> QED
  BY <1>1, <1>2, ReachedIsAnEntry DEF FieldRead, Entry, AnyBlock

(* The map a writer loads has, for each ID of the file, one of its entries. *)
LEMMA LoadedIsAnIndex ==
    ASSUME TypeOK
    PROVE  /\ Loaded(indexDB) \in NodeIndex
           /\ Indexed(Loaded(indexDB)) = EntryIds(indexDB)
           /\ \A i \in EntryIds(indexDB) :
                 \E k \in DOMAIN indexDB :
                     indexDB[k].id = i /\ Loaded(indexDB)[i] = indexDB[k].block
<1>1. \A k \in DOMAIN indexDB : indexDB[k].id \in Ids /\ indexDB[k].block \in BlockIndexes
  <2>1. \A k \in DOMAIN indexDB : indexDB[k] \in Entry
    BY DEF TypeOK
  <2> QED
    BY <2>1 DEF Entry
<1>2. ASSUME NEW i \in EntryIds(indexDB)
      PROVE  \E k \in DOMAIN indexDB :
                 indexDB[k].id = i /\ Loaded(indexDB)[i] = indexDB[k].block
  <2> DEFINE found == CHOOSE k \in DOMAIN indexDB : indexDB[k].id = i
  <2>1. found \in DOMAIN indexDB /\ indexDB[found].id = i
    BY <1>2 DEF EntryIds
  <2>2. i \in Ids /\ Loaded(indexDB)[i] = indexDB[found].block
    BY <1>1, <1>2, <2>1 DEF Loaded
  <2> QED
    BY <2>1, <2>2
<1>3. \A i \in Ids \ EntryIds(indexDB) : Loaded(indexDB)[i] = NotIndexed
  BY DEF Loaded
<1>4. \A i \in EntryIds(indexDB) : i \in Ids /\ Loaded(indexDB)[i] \in BlockIndexes
  BY <1>1, <1>2 DEF EntryIds
<1>5. Loaded(indexDB) = [i \in Ids |-> Loaded(indexDB)[i]]
  BY DEF Loaded
<1>6. Loaded(indexDB) \in NodeIndex
  BY <1>3, <1>4, <1>5 DEF NodeIndex
<1>7. Indexed(Loaded(indexDB)) = EntryIds(indexDB)
  BY <1>3, <1>4 DEF Indexed, NotIndexed, BlockIndexes
<1> QED
  BY <1>2, <1>6, <1>7

(* The type invariant of the constructors, the writer and the reader.      *)
THEOREM TypeIsInvariant == Spec => []TypeOK
<1>1. Init => TypeOK
  <2> SUFFICES ASSUME Init PROVE TypeOK
    OBVIOUS
  <2>1. nodesDB \in Seq(Ids) /\ Len(nodesDB) <= MaxBlocks /\ straight \in 0 .. Len(nodesDB)
    BY DEF Init
  <2>2. epoch \in 0 .. MaxEpochs /\ nextNodeIndex \in 0 .. MaxBlocks /\ strays \in 0 .. MaxStrays
    BY DEF Init
  <2>3. writerEpoch \in 0 .. epoch /\ indexEpoch \in 0 .. epoch /\ readerEpoch \in 0 .. epoch
    BY DEF Init
  <2>4. writerFailed \in BOOLEAN /\ readerFailed \in BOOLEAN
        /\ crashed \in BOOLEAN /\ overtaken \in BOOLEAN
    BY DEF Init
  <2>5. /\ indexDB \in Seq(Entry) /\ lastPart \in Parts
        /\ nodeIndex \in NodeIndex /\ readerIndex \in ReaderIndexes /\ loading \in Locals
    BY EmptyIsAnIndex, NotLoadingIsTyped DEF Init, Whole, Parts
  <2>6. reused \subseteq Ids /\ writer = "stopped" /\ reader = "stopped"
    BY DEF Init
  <2> QED
    BY <2>1, <2>2, <2>3, <2>4, <2>5, <2>6 DEF TypeOK
<1>2. TypeOK /\ [Next]_vars => TypeOK'
  <2> SUFFICES ASSUME TypeOK, [Next]_vars PROVE TypeOK'
    OBVIOUS
  <2> USE DEF TypeOK, nodeFile, indexFile, writerState, readerState, history
  <2>1. CASE OpenTrunc
    <3>1. epoch' \in 0 .. MaxEpochs /\ \A e \in 0 .. epoch : e \in 0 .. epoch'
      BY <2>1 DEF OpenTrunc
    <3>2. nodesDB' \in Seq(Ids) /\ Len(nodesDB') <= MaxBlocks /\ straight' \in 0 .. Len(nodesDB')
      BY <2>1 DEF OpenTrunc
    <3>3. writerEpoch' \in 0 .. epoch' /\ indexEpoch' \in 0 .. epoch' /\ readerEpoch' \in 0 .. epoch'
      BY <2>1, <3>1 DEF OpenTrunc
    <3>4. strays' \in 0 .. MaxStrays /\ nextNodeIndex' \in 0 .. MaxBlocks
      BY <2>1, ZeroInBounds DEF OpenTrunc
    <3>5. writerFailed' \in BOOLEAN /\ crashed' \in BOOLEAN /\ reused' \subseteq Ids
          /\ writer' = "trunc" /\ nodeIndex' \in NodeIndex
      BY <2>1, EmptyIsAnIndex DEF OpenTrunc
    <3>6. UNCHANGED <<indexDB, lastPart, reader, loading, readerIndex, readerFailed, overtaken>>
      BY <2>1 DEF OpenTrunc
    <3> HIDE <2>1
    <3> QED
      BY <3>1, <3>2, <3>3, <3>4, <3>5, <3>6
  <2>2. CASE OpenApp
    BY <2>2, ZeroInBounds, LoadedIsAnIndex DEF OpenApp
  <2>3. ASSUME NEW id \in Ids, AddNode(id) PROVE TypeOK'
    <3>1. nodeIndex' \in NodeIndex /\ nextNodeIndex' \in 0 .. MaxBlocks
      BY <2>3 DEF AddNode, NodeIndex, BlockIndexes, NotIndexed
    <3>2. CASE UNCHANGED nodeFile
      BY <2>3, <3>1, <3>2 DEF AddNode
    <3>3. CASE AppendBlock(id)
      BY <2>3, <3>1, <3>3, AppendIsTyped DEF AddNode
    <3>4. CASE /\ nextNodeIndex < Len(nodesDB)
               /\ nodesDB' = [nodesDB EXCEPT ![nextNodeIndex + 1] = id]
               /\ UNCHANGED <<straight, strays>>
      <4>1. nodesDB' \in Seq(Ids) /\ Len(nodesDB') = Len(nodesDB)
        BY <3>4
      <4> QED
        BY <2>3, <3>1, <3>4, <4>1 DEF AddNode
    <3> QED
      BY <2>3, <3>2, <3>3, <3>4 DEF AddNode, SaveBlock, Writing
  <2>4. ASSUME NEW id \in Ids, GetNode(id) PROVE TypeOK'
    BY <2>4 DEF GetNode
  <2>5. ASSUME NEW id \in Ids, UpdateReference(id) PROVE TypeOK'
    BY <2>5 DEF UpdateReference
  <2>6. CASE PersistTruncate
    <3>1. loading' \in Locals /\ overtaken' \in BOOLEAN
      BY <2>6 DEF PersistTruncate, Overtake, Locals
    <3>2. indexDB' \in Seq(Entry) /\ lastPart' \in Parts
      BY <2>6 DEF PersistTruncate, Parts, Whole
    <3> QED
      BY <2>6, <3>1, <3>2 DEF PersistTruncate, Overtake
  <2>7. CASE PersistPiece
    <3>1. indexDB' \in Seq(Entry) /\ lastPart' \in Parts
      <4>1. CASE tornIndex /\ lastPart' = lastPart + 1 /\ UNCHANGED indexDB
        BY <4>1 DEF tornIndex, Parts, Whole
      <4>2. CASE ~tornIndex
        <5>1. PICK id \in Indexed(nodeIndex) :
                 indexDB' = Append(indexDB, [id |-> id, block |-> nodeIndex[id]])
          BY <2>7, <4>2 DEF PersistPiece
        <5>2. [id |-> id, block |-> nodeIndex[id]] \in Entry
          BY DEF Indexed, Entry, NodeIndex
        <5> QED
          BY <2>7, <4>2, <5>1, <5>2 DEF PersistPiece, Parts, KeyPart
      <4> QED
        BY <2>7, <4>1, <4>2 DEF PersistPiece
    <3> QED
      BY <2>7, <3>1 DEF PersistPiece
  <2>8. CASE PersistClose
    BY <2>8, EmptyIsAnIndex, ZeroInBounds DEF PersistClose, StopWriter
  <2>9. CASE Crash
    BY <2>9, EmptyIsAnIndex, ZeroInBounds DEF Crash, StopWriter
  <2>10. CASE StatIndex
    <3>1. loading' \in Locals
      <4>1. loading' = [NotLoading EXCEPT !.size = Len(indexDB)] /\ Len(indexDB) \in Nat
        BY <2>10 DEF StatIndex
      <4> HIDE DEF TypeOK
      <4> QED
        BY <4>1 DEF NotLoading, Locals, AnyKey
    <3> QED
      BY <2>10, <3>1 DEF StatIndex
  <2>10a. CASE ReadKey
    <3>1. PICK key \in AnyKey :
              loading' = [loading EXCEPT !.key = key, !.failed = FailedAfter, !.split = FALSE]
      BY <2>10a, KeyReadIsTyped DEF ReadKey
    <3>2. loading' \in Locals
      BY <3>1, FailureIsTyped DEF Locals
    <3> QED
      BY <2>10a, <3>2 DEF ReadKey
  <2>10b. CASE ReadBlock
    <3>1. PICK block \in AnyBlock \cup {NotIndexed} :
              /\ readerIndex' = [i \in Ids |-> IF i = loading.key THEN block ELSE readerIndex[i]]
              /\ loading' \in {NextEntry(block), NotLoading}
      BY <2>10b, BlockReadIsTyped DEF ReadBlock
    <3>2. loading' \in Locals
      <4>1. NextEntry(block) \in Locals
        BY FailureIsTyped DEF NextEntry, Locals
      <4> QED
        BY <3>1, <4>1, NotLoadingIsTyped
    <3>3. readerIndex' \in ReaderIndexes
      BY <3>1 DEF ReaderIndexes
    <3>4. reader' \in {"key", "opening"}
      BY <2>10b DEF ReadBlock
    <3> QED
      BY <2>10b, <3>2, <3>3, <3>4 DEF ReadBlock
  <2>11. CASE OpenFiles
    BY <2>11 DEF OpenFiles
  <2>12. CASE StopReader
    BY <2>12, EmptyIsAnIndex, NotLoadingIsTyped, ZeroInBounds DEF StopReader
  <2>13. ASSUME NEW id \in Ids, Get(id) PROVE TypeOK'
    BY <2>13 DEF Get
  <2>14. CASE UNCHANGED vars
    BY <2>14 DEF vars
  <2> QED
    BY <2>1, <2>2, <2>3, <2>4, <2>5, <2>6, <2>7, <2>8, <2>9, <2>10, <2>10a, <2>10b,
       <2>11, <2>12, <2>13, <2>14
    DEF Next
<1> QED
  BY <1>1, <1>2, PTL DEF Spec

-----------------------------------------------------------------------------
(* LifecycleInv holds before the first process starts.                     *)
LEMMA InitIsGood == Init => LifecycleInv
  BY DEF Init, LifecycleInv, InLine, NumbersAsWritten, EntriesAsInMemory, EntriesGood,
         CopiesGood, LoadingInLine, Loading, StoppedIsEmpty, CompleteSomewhere, tornIndex,
         Complete, Behind, FindsItsNodes, Indexed, EmptyIndex, NotIndexed

(* Emptying the file starts an epoch of which no index is a copy yet.      *)
LEMMA OpenTruncIsGood == TypeOK /\ LifecycleInv /\ OpenTrunc => LifecycleInv'
  <1> SUFFICES ASSUME TypeOK, LifecycleInv, OpenTrunc PROVE LifecycleInv'
    OBVIOUS
  <1>1. nodesDB' = <<>> /\ straight' = 0 /\ strays' = 0 /\ Len(nodesDB') = 0
    BY DEF OpenTrunc
  <1>2. indexEpoch' # epoch' /\ readerEpoch' # epoch'
    BY DEF OpenTrunc, TypeOK, indexFile, readerState
  <1>3. Indexed(nodeIndex)' = {}
    BY DEF OpenTrunc, Indexed, EmptyIndex
  <1>4. InLine' /\ NumbersAsWritten' /\ EntriesAsInMemory'
    BY <1>1 DEF OpenTrunc, InLine, NumbersAsWritten, EntriesAsInMemory
  <1>5. CopiesGood'
    BY <1>2, <1>3 DEF CopiesGood, Behind, FindsItsNodes
  <1>6. CompleteSomewhere'
    BY <1>1 DEF OpenTrunc, CompleteSomewhere, Complete
  <1>7. LoadingInLine' /\ StoppedIsEmpty'
    BY DEF OpenTrunc, LifecycleInv, LoadingInLine, Loading, StoppedIsEmpty, Reaches,
           indexFile, readerState
  <1> QED
    BY <1>4, <1>5, <1>6, <1>7 DEF LifecycleInv

(* A map loaded from good entries is good.                                 *)
LEMMA LoadedIsGood ==
    ASSUME TypeOK, EntriesGood
    PROVE  Behind(Loaded(indexDB)) /\ FindsItsNodes(Loaded(indexDB))
  BY LoadedIsAnIndex DEF EntriesGood, Behind, FindsItsNodes

(* What is said of an index depends on the node file and the history only.  *)
LEMMA SameFileSameIndex ==
    ASSUME UNCHANGED <<nodeFile, reused>>
    PROVE  /\ \A i : InFile(i)' = InFile(i) /\ BlockAt(i)' = BlockAt(i)
           /\ (UNCHANGED nodeIndex => /\ Behind(nodeIndex)' = Behind(nodeIndex)
                                      /\ FindsItsNodes(nodeIndex)' = FindsItsNodes(nodeIndex)
                                      /\ Complete(nodeIndex)' = Complete(nodeIndex))
           /\ (UNCHANGED readerIndex =>
                   /\ Behind(readerIndex)' = Behind(readerIndex)
                   /\ FindsItsNodes(readerIndex)' = FindsItsNodes(readerIndex))
           /\ (UNCHANGED indexDB => EntriesGood' = EntriesGood
                                    /\ Complete(Loaded(indexDB))' = Complete(Loaded(indexDB)))
<1>1. \A i : InFile(i)' = InFile(i) /\ BlockAt(i)' = BlockAt(i)
  BY DEF nodeFile, InFile, BlockAt, nodesDBSize
<1>2. reused' = reused /\ nodesDB' = nodesDB
  BY DEF nodeFile
<1>3. ASSUME UNCHANGED nodeIndex
      PROVE  /\ Behind(nodeIndex)' = Behind(nodeIndex)
             /\ FindsItsNodes(nodeIndex)' = FindsItsNodes(nodeIndex)
             /\ Complete(nodeIndex)' = Complete(nodeIndex)
  BY <1>1, <1>2, <1>3 DEF Behind, FindsItsNodes, Complete, Indexed
<1>4. ASSUME UNCHANGED readerIndex
      PROVE  /\ Behind(readerIndex)' = Behind(readerIndex)
             /\ FindsItsNodes(readerIndex)' = FindsItsNodes(readerIndex)
  BY <1>1, <1>2, <1>4 DEF Behind, FindsItsNodes, Indexed
<1>5. ASSUME UNCHANGED indexDB
      PROVE  /\ EntriesGood' = EntriesGood
             /\ Complete(Loaded(indexDB))' = Complete(Loaded(indexDB))
  BY <1>1, <1>2, <1>5 DEF EntriesGood, Complete, Indexed, Loaded, EntryIds
<1> QED
  BY <1>1, <1>3, <1>4, <1>5

(* The writer's steps beside the blocks: the index is loaded, written from  *)
(* memory, or lost with the process.                                       *)
LEMMA WriterStepsAreGood ==
    ASSUME TypeOK, LifecycleInv,
           OpenApp \/ PersistTruncate \/ PersistPiece \/ PersistClose \/ Crash
    PROVE  LifecycleInv'
  <1>1. UNCHANGED <<nodeFile, nodesDB, straight, strays, epoch, reused>>
    BY DEF OpenApp, PersistTruncate, PersistPiece, PersistClose, Crash, StopWriter, nodeFile, history
  <1>2. InLine'
    BY <1>1 DEF LifecycleInv, InLine
  <1>3. CASE OpenApp
    <2>1. UNCHANGED <<indexDB, lastPart, indexEpoch, readerState, crashed>>
      BY <1>3 DEF OpenApp, indexFile, history
    <2>2. /\ writer = "stopped" /\ writer' = "app" /\ ~writerFailed' /\ nextNodeIndex' = 0
          /\ nodeIndex' = Loaded(indexDB) /\ writerEpoch' = indexEpoch
      BY <1>3 DEF OpenApp
    <2>3. NumbersAsWritten' /\ EntriesAsInMemory'
      BY <1>1, <2>2 DEF NumbersAsWritten, EntriesAsInMemory, TypeOK
    <2>4. Behind(Loaded(indexDB))' = Behind(Loaded(indexDB))
          /\ FindsItsNodes(Loaded(indexDB))' = FindsItsNodes(Loaded(indexDB))
          /\ Loaded(indexDB)' = Loaded(indexDB)
      BY <1>1, <2>1, SameFileSameIndex DEF Behind, FindsItsNodes, Indexed, Loaded, EntryIds
    <2>5. CopiesGood'
      <3>1. indexEpoch = epoch => Behind(nodeIndex)' /\ FindsItsNodes(nodeIndex)'
        BY <2>2, <2>4, LoadedIsGood DEF LifecycleInv, CopiesGood, Behind, FindsItsNodes
      <3> QED
        BY <1>1, <2>1, <2>2, <3>1, SameFileSameIndex DEF LifecycleInv, CopiesGood, readerState
    <2>6. CompleteSomewhere'
      <3>1. Complete(Loaded(indexDB)) => Complete(nodeIndex)'
        BY <1>1, <2>2 DEF Complete, Indexed
      <3> QED
        BY <1>1, <2>1, <2>2, <3>1 DEF LifecycleInv, CompleteSomewhere
    <2>7. LoadingInLine' /\ StoppedIsEmpty'
      BY <2>1 DEF LifecycleInv, LoadingInLine, Loading, StoppedIsEmpty, Reaches, readerState
    <2> QED
      BY <1>2, <2>3, <2>5, <2>6, <2>7 DEF LifecycleInv
  <1>4. CASE PersistTruncate
    <2>1. /\ Writing /\ writer' = "persisting" /\ indexDB' = <<>> /\ indexEpoch' = writerEpoch
          /\ UNCHANGED <<crashed, nodeIndex, nextNodeIndex, writerFailed, writerEpoch>>
          /\ UNCHANGED <<reader, readerIndex, readerFailed, readerEpoch>>
      BY <1>4 DEF PersistTruncate, Overtake, history
    <2>2. IF Loading THEN overtaken' ELSE overtaken' = overtaken
      BY <1>4 DEF PersistTruncate, Overtake
    <2>3. NumbersAsWritten' /\ EntriesAsInMemory'
      BY <1>1, <2>1 DEF LifecycleInv, NumbersAsWritten, EntriesAsInMemory
    <2>4. CopiesGood'
      <3>1. EntriesGood'
        BY <2>1 DEF EntriesGood
      <3> QED
        BY <1>1, <2>1, <2>2, <3>1, SameFileSameIndex DEF LifecycleInv, CopiesGood, TypeOK
    <2>5. LoadingInLine' /\ StoppedIsEmpty'
      BY <2>1, <2>2 DEF LifecycleInv, LoadingInLine, Loading, StoppedIsEmpty
    <2>6. CompleteSomewhere'
      BY <1>1, <2>1, SameFileSameIndex DEF LifecycleInv, CompleteSomewhere, Writing
    <2> QED
      BY <1>2, <2>3, <2>4, <2>5, <2>6 DEF LifecycleInv
  <1>5. CASE PersistPiece
    <2>1. /\ writer = "persisting"
          /\ UNCHANGED <<indexEpoch, writer, nodeIndex, nextNodeIndex, writerFailed, writerEpoch>>
          /\ UNCHANGED <<reader, loading, readerIndex, readerFailed, readerEpoch, overtaken, crashed>>
      BY <1>5 DEF PersistPiece, writerState, readerState, history
    <2>2. CASE tornIndex /\ lastPart' = lastPart + 1 /\ UNCHANGED indexDB
      <3>1. NumbersAsWritten' /\ EntriesAsInMemory' /\ CompleteSomewhere'
        BY <1>1, <2>1, <2>2, SameFileSameIndex
        DEF LifecycleInv, NumbersAsWritten, EntriesAsInMemory, CompleteSomewhere, Indexed
      <3>2. CopiesGood'
        BY <1>1, <2>1, <2>2, SameFileSameIndex DEF LifecycleInv, CopiesGood
      <3>3. LoadingInLine' /\ StoppedIsEmpty'
        BY <2>1, <2>2 DEF LifecycleInv, LoadingInLine, Loading, StoppedIsEmpty, Reaches,
                          tornIndex, Whole, Parts, TypeOK
      <3> QED
        BY <1>2, <3>1, <3>2, <3>3 DEF LifecycleInv
    <2>3. CASE ~tornIndex
      <3>1. PICK id \in Indexed(nodeIndex) :
                indexDB' = Append(indexDB, [id |-> id, block |-> nodeIndex[id]])
        BY <1>5, <2>3 DEF PersistPiece
      <3> DEFINE last == Len(indexDB) + 1
      <3>2. /\ Len(indexDB) \in Nat /\ Len(indexDB') = last /\ DOMAIN indexDB' = 1 .. last
            /\ \A k \in 1 .. Len(indexDB) : indexDB'[k] = indexDB[k] /\ k \in DOMAIN indexDB
            /\ indexDB'[last].id = id /\ indexDB'[last].block = nodeIndex[id]
        BY <3>1 DEF TypeOK
      <3> HIDE DEF last
      <3>3. \A k \in DOMAIN indexDB' : k = last \/ k \in 1 .. Len(indexDB)
        BY <3>2 DEF last
      <3>4. NumbersAsWritten' /\ CompleteSomewhere'
        BY <1>1, <2>1, SameFileSameIndex DEF LifecycleInv, NumbersAsWritten, CompleteSomewhere
      <3>5. EntriesAsInMemory'
        BY <2>1, <3>2, <3>3 DEF LifecycleInv, EntriesAsInMemory, Indexed
      <3>6. ASSUME indexEpoch = epoch PROVE EntriesGood'
        <4>1. EntriesGood /\ Behind(nodeIndex) /\ FindsItsNodes(nodeIndex)
          BY <2>1, <3>6 DEF LifecycleInv, CopiesGood, NumbersAsWritten
        <4>2. /\ InFile(nodeIndex[id])
              /\ id \notin reused => BlockAt(nodeIndex[id]) = id
          BY <4>1 DEF Behind, FindsItsNodes
        <4> QED
          BY <1>1, <3>2, <3>3, <4>1, <4>2, SameFileSameIndex DEF EntriesGood
      <3>7. CopiesGood'
        BY <1>1, <2>1, <3>6, SameFileSameIndex DEF LifecycleInv, CopiesGood
      <3>8. ASSUME Loading, ~overtaken PROVE LoadingInLine'
        <4>1. /\ readerEpoch = indexEpoch /\ loading.entry < loading.size
              /\ loading.size <= Len(indexDB) /\ ~loading.failed /\ ~loading.split
              /\ reader = "block" => loading.key = indexDB[loading.entry + 1].id
          BY <3>8 DEF LifecycleInv, LoadingInLine
        <4>2. loading.size \in Nat /\ loading.entry + 1 \in 1 .. Len(indexDB)
          BY <3>2, <4>1 DEF TypeOK, Locals
        <4>3. loading.size <= Len(indexDB') /\ loading.size # Len(indexDB')
          BY <3>2, <4>1, <4>2 DEF last
        <4> QED
          BY <2>1, <3>2, <4>1, <4>2, <4>3 DEF LoadingInLine, Reaches
      <3>9. LoadingInLine' /\ StoppedIsEmpty'
        BY <2>1, <3>8 DEF LifecycleInv, LoadingInLine, Loading, StoppedIsEmpty
      <3> QED
        BY <1>2, <3>4, <3>5, <3>7, <3>9 DEF LifecycleInv
    <2> QED
      BY <1>5, <2>2, <2>3 DEF PersistPiece
  <1>6. CASE PersistClose \/ Crash
    <2>1. /\ writer # "stopped" /\ writer' = "stopped" /\ ~writerFailed' /\ nextNodeIndex' = 0
          /\ nodeIndex' = EmptyIndex /\ writerEpoch' = 0
      BY <1>6 DEF PersistClose, Crash, StopWriter
    <2>2. UNCHANGED <<indexDB, lastPart, indexEpoch, readerState>>
      BY <1>6 DEF PersistClose, Crash, indexFile
    <2>3. NumbersAsWritten' /\ EntriesAsInMemory'
      BY <2>1, <1>1 DEF NumbersAsWritten, EntriesAsInMemory, TypeOK
    <2>4. CopiesGood'
      <3>1. Behind(nodeIndex)' /\ FindsItsNodes(nodeIndex)'
        BY <2>1 DEF Behind, FindsItsNodes, Indexed, EmptyIndex
      <3> QED
        BY <1>1, <2>2, <3>1, SameFileSameIndex DEF LifecycleInv, CopiesGood, readerState
    <2>5. LoadingInLine' /\ StoppedIsEmpty'
      BY <2>2 DEF LifecycleInv, LoadingInLine, Loading, StoppedIsEmpty, Reaches, readerState
    <2>6. CompleteSomewhere'
      <3>1. CASE Crash
        BY <3>1 DEF Crash, CompleteSomewhere
      <3>2. ASSUME PersistClose, ~crashed PROVE CompleteSomewhere'
        <4>1. /\ writer = "persisting" /\ ~tornIndex
              /\ Indexed(nodeIndex) \subseteq EntryIds(indexDB)
          BY <3>2 DEF PersistClose
        <4>2. indexEpoch = epoch /\ Complete(nodeIndex)
          BY <3>2, <4>1 DEF LifecycleInv, CompleteSomewhere, NumbersAsWritten
        <4>3. \A id \in Indexed(nodeIndex) : /\ id \in Indexed(Loaded(indexDB))
                                             /\ Loaded(indexDB)[id] = nodeIndex[id]
          BY <4>1, LoadedIsAnIndex DEF LifecycleInv, EntriesAsInMemory
        <4>4. Complete(Loaded(indexDB))
          BY <4>2, <4>3 DEF Complete
        <4> QED
          BY <1>1, <2>1, <2>2, <4>1, <4>2, <4>4, SameFileSameIndex
          DEF CompleteSomewhere, tornIndex
      <3>3. CASE PersistClose /\ crashed
        BY <3>3 DEF PersistClose, CompleteSomewhere, history
      <3> QED
        BY <1>6, <3>1, <3>2, <3>3
    <2> QED
      BY <1>2, <2>3, <2>4, <2>5, <2>6 DEF LifecycleInv
  <1> QED
    BY <1>3, <1>4, <1>5, <1>6

(* The server's steps: unless it is overtaken, each pair it puts into its   *)
(* map is an entry of the file.                                            *)
LEMMA ServerStepsAreGood ==
    ASSUME TypeOK, LifecycleInv,
           StatIndex \/ ReadKey \/ ReadBlock \/ OpenFiles \/ StopReader \/ UNCHANGED vars
    PROVE  LifecycleInv'
  <1>1. /\ UNCHANGED <<nodeFile, nodesDB, straight, strays, epoch, reused, crashed>>
        /\ UNCHANGED <<indexDB, lastPart, indexEpoch>>
        /\ UNCHANGED <<writer, nodeIndex, nextNodeIndex, writerFailed, writerEpoch>>
    BY DEF StatIndex, ReadKey, ReadBlock, OpenFiles, StopReader, vars,
           nodeFile, indexFile, writerState, history
  <1>2. InLine' /\ NumbersAsWritten' /\ EntriesAsInMemory' /\ CompleteSomewhere'
    BY <1>1, SameFileSameIndex
    DEF LifecycleInv, InLine, NumbersAsWritten, EntriesAsInMemory, CompleteSomewhere,
        Indexed, tornIndex
  <1> DEFINE Promise == readerEpoch = epoch /\ ~overtaken =>
                            Behind(readerIndex) /\ FindsItsNodes(readerIndex) /\ ~readerFailed
  <1>3. Promise' => CopiesGood'
    BY <1>1, SameFileSameIndex DEF LifecycleInv, CopiesGood
  <1>4. Promise
    BY DEF LifecycleInv, CopiesGood
  <1>5. UNCHANGED <<readerIndex, readerFailed, readerEpoch, overtaken>> => Promise'
    BY <1>1, <1>4, SameFileSameIndex
  <1>6. CASE StatIndex
    <2>1. /\ reader = "stopped" /\ ~tornIndex /\ readerEpoch' = indexEpoch
          /\ readerIndex' = EmptyIndex /\ ~readerFailed' /\ ~overtaken'
          /\ reader' \in {"opening", "key"} /\ (reader' = "key" => indexDB # <<>>)
          /\ loading' = [NotLoading EXCEPT !.size = Len(indexDB)]
      BY <1>6 DEF StatIndex, LifecycleInv, StoppedIsEmpty
    <2>2. Promise'
      BY <2>1 DEF Behind, FindsItsNodes, Indexed, EmptyIndex
    <2>3. /\ loading'.size = Len(indexDB) /\ loading'.entry = 0
          /\ loading'.failed = FALSE /\ loading'.split = FALSE
      BY <2>1 DEF NotLoading
    <2>4. LoadingInLine' /\ StoppedIsEmpty'
      <3>1. indexDB # <<>> => 0 < Len(indexDB)
        BY DEF TypeOK
      <3> QED
        BY <1>1, <2>1, <2>3, <3>1
        DEF LoadingInLine, Loading, StoppedIsEmpty, Reaches, tornIndex, Whole, TypeOK
    <2> QED
      BY <1>2, <1>3, <2>2, <2>4 DEF LifecycleInv
  <1>7. ASSUME Loading, ~overtaken
        PROVE  /\ Reaches(loading.entry + 1, Key) /\ Reaches(loading.entry + 1, Whole)
               /\ loading.entry + 1 \in DOMAIN indexDB
               /\ PartRead \in {Key, Whole} /\ ~FailedAfter
               /\ ~loading.failed /\ ~loading.split
    <2>1. /\ loading.entry < loading.size /\ loading.size <= Len(indexDB)
          /\ Reaches(loading.size, Whole) /\ ~loading.failed /\ ~loading.split
      BY <1>7 DEF LifecycleInv, LoadingInLine
    <2>2. loading.entry \in Nat /\ loading.size \in Nat /\ lastPart \in Parts
          /\ Len(indexDB) \in Nat /\ DOMAIN indexDB = 1 .. Len(indexDB)
      BY DEF TypeOK, Locals
    <2>3. Reaches(loading.entry + 1, Key) /\ Reaches(loading.entry + 1, Whole)
      BY <2>1, <2>2 DEF Reaches, Key, Whole, Parts
    <2>4. PartRead \in {Key, Whole}
      BY DEF PartRead
    <2> QED
      BY <2>1, <2>2, <2>3, <2>4 DEF FailedAfter
  <1>8. CASE ReadKey
    <2>1. PICK key \in FieldRead(indexDB[loading.entry + 1].id, loading.key, AnyKey) :
              loading' = [loading EXCEPT !.key = key, !.failed = FailedAfter, !.split = FALSE]
      BY <1>8 DEF ReadKey
    <2>2. /\ reader = "key" /\ reader' = "block"
          /\ UNCHANGED <<readerIndex, readerFailed, readerEpoch, overtaken>>
      BY <1>8 DEF ReadKey
    <2>3. ASSUME ~overtaken PROVE LoadingInLine'
      <3>1. Loading
        BY <2>2 DEF Loading
      <3>2. key = indexDB[loading.entry + 1].id
        BY <1>7, <2>3, <3>1, <2>1 DEF FieldRead
      <3>3. /\ loading'.size = loading.size /\ loading'.entry = loading.entry
            /\ loading'.key = key /\ loading'.failed = FailedAfter /\ loading'.split = FALSE
        BY <2>1 DEF TypeOK, Locals
      <3> QED
        BY <1>1, <1>7, <2>2, <2>3, <3>1, <3>2, <3>3 DEF LifecycleInv, LoadingInLine, Reaches
    <2>4. LoadingInLine' /\ StoppedIsEmpty'
      BY <2>2, <2>3 DEF LoadingInLine, StoppedIsEmpty
    <2> QED
      BY <1>2, <1>3, <1>5, <2>2, <2>4 DEF LifecycleInv
  <1>9. CASE ReadBlock
    <2>1. PICK block \in FieldRead(indexDB[loading.entry + 1].block, loading.block, Leftovers) :
              /\ readerIndex' = [i \in Ids |-> IF i = loading.key THEN block ELSE readerIndex[i]]
              /\ IF loading.entry + 1 < loading.size
                 THEN reader' = "key" /\ loading' = NextEntry(block)
                 ELSE reader' = "opening" /\ loading' = NotLoading
      BY <1>9 DEF ReadBlock
    <2>2. reader = "block" /\ Loading /\ UNCHANGED <<readerFailed, readerEpoch, overtaken>>
      BY <1>9 DEF ReadBlock, Loading
    <2>3. ASSUME ~overtaken, readerEpoch = epoch
          PROVE  Behind(readerIndex)' /\ FindsItsNodes(readerIndex)' /\ ~readerFailed'
      <3>1. block = indexDB[loading.entry + 1].block
        BY <1>7, <2>3, <2>2, <2>1 DEF FieldRead
      <3>2. loading.key = indexDB[loading.entry + 1].id /\ readerEpoch = indexEpoch
        BY <2>2, <2>3 DEF LifecycleInv, LoadingInLine
      <3>3. InFile(block) /\ (loading.key \notin reused => BlockAt(block) = loading.key)
        BY <1>7, <2>2, <2>3, <3>1, <3>2 DEF LifecycleInv, CopiesGood, EntriesGood
      <3>4. \A i \in Ids : \/ (i = loading.key /\ readerIndex'[i] = block)
                            \/ readerIndex'[i] = readerIndex[i]
        BY <2>1
      <3> QED
        BY <1>1, <1>4, <2>2, <2>3, <3>3, <3>4, SameFileSameIndex
        DEF Behind, FindsItsNodes, Indexed
    <2>4. ASSUME ~overtaken PROVE LoadingInLine'
      <3>1. /\ NextEntry(block).size = loading.size
            /\ NextEntry(block).entry = loading.entry + 1
            /\ NextEntry(block).failed = FailedAfter /\ NextEntry(block).split = FALSE
        BY DEF NextEntry
      <3> QED
        BY <1>1, <1>7, <2>1, <2>2, <2>4, <3>1
        DEF LifecycleInv, LoadingInLine, Loading, Reaches
    <2>5. LoadingInLine' /\ StoppedIsEmpty'
      BY <2>1, <2>2, <2>4 DEF LoadingInLine, StoppedIsEmpty
    <2> QED
      BY <1>1, <1>2, <1>3, <2>2, <2>3, <2>5 DEF LifecycleInv
  <1>10. CASE OpenFiles
    BY <1>2, <1>3, <1>5, <1>10
    DEF OpenFiles, LifecycleInv, LoadingInLine, Loading, StoppedIsEmpty
  <1>11. CASE StopReader
    <2>1. Promise'
      BY <1>11 DEF StopReader, Behind, FindsItsNodes, Indexed, EmptyIndex
    <2> QED
      BY <1>2, <1>3, <1>11, <2>1
      DEF StopReader, LifecycleInv, LoadingInLine, Loading, StoppedIsEmpty
  <1>12. CASE UNCHANGED vars
    BY <1>1, <1>2, <1>3, <1>5, <1>12
    DEF vars, LifecycleInv, LoadingInLine, Loading, StoppedIsEmpty, Reaches
  <1> QED
    BY <1>6, <1>8, <1>9, <1>10, <1>11, <1>12

(* Where a block may be sought.                                            *)
LEMMA NumbersAreNats ==
    ASSUME TypeOK
    PROVE  /\ \A i \in Ids : nodeIndex[i] # NotIndexed => nodeIndex[i] \in Nat
           /\ \A i \in Ids : readerIndex[i] # NotIndexed => readerIndex[i] \in Nat
           /\ \A k \in DOMAIN indexDB : indexDB[k].block \in Nat
<1>1. \A i \in Ids : nodeIndex[i] # NotIndexed => nodeIndex[i] \in Nat
  <2>1. \A i \in Ids : nodeIndex[i] \in BlockIndexes \cup {NotIndexed}
    BY DEF TypeOK, NodeIndex
  <2> QED
    BY <2>1 DEF BlockIndexes
<1>2. \A i \in Ids : readerIndex[i] # NotIndexed => readerIndex[i] \in Nat
  <2>1. \A i \in Ids : readerIndex[i] \in AnyBlock \cup {NotIndexed}
    BY DEF TypeOK, ReaderIndexes
  <2>2. AnyBlock \subseteq Nat
    BY DEF AnyBlock, BlockIndexes
  <2> QED
    BY <2>1, <2>2
<1>3. \A k \in DOMAIN indexDB : indexDB[k] \in Entry
  BY DEF TypeOK
<1>4. \A k \in DOMAIN indexDB : indexDB[k].block \in Nat
  BY <1>3 DEF Entry, BlockIndexes
<1> QED
  BY <1>1, <1>2, <1>4

(* Reading a node's own block finds the block, and the stream stays good.   *)
LEMMA ReadsAreGood ==
    ASSUME TypeOK, LifecycleInv, NEW id \in Ids, GetNode(id) \/ Get(id)
    PROVE  LifecycleInv'
  <1>1. /\ UNCHANGED <<nodeFile, nodesDB, straight, strays, epoch, reused, crashed>>
        /\ UNCHANGED <<indexDB, lastPart, indexEpoch>>
        /\ UNCHANGED <<writer, nodeIndex, nextNodeIndex, writerEpoch>>
        /\ UNCHANGED <<reader, loading, readerIndex, readerEpoch, overtaken>>
    BY DEF GetNode, Get, nodeFile, indexFile, writerState, readerState, history
  <1>2. InLine' /\ EntriesAsInMemory' /\ CompleteSomewhere' /\ LoadingInLine'
    BY <1>1, SameFileSameIndex
    DEF LifecycleInv, InLine, EntriesAsInMemory, CompleteSomewhere, LoadingInLine,
        Loading, Reaches, Indexed, tornIndex
  <1>3. writerEpoch = epoch => ~writerFailed'
    <2>1. writerEpoch = epoch => ~writerFailed /\ Behind(nodeIndex)
      BY DEF LifecycleInv, NumbersAsWritten, CopiesGood
    <2> QED
      BY <2>1 DEF GetNode, Get, Behind, Indexed, writerState
  <1>4. readerEpoch = epoch /\ ~overtaken => ~readerFailed'
    <2>1. readerEpoch = epoch /\ ~overtaken => ~readerFailed /\ Behind(readerIndex)
      BY DEF LifecycleInv, CopiesGood
    <2> QED
      BY <2>1 DEF GetNode, Get, Behind, Indexed, readerState
  <1>5. reader = "stopped" => readerFailed' = readerFailed
    BY DEF GetNode, Get, readerState
  <1>6. NumbersAsWritten' /\ CopiesGood' /\ StoppedIsEmpty'
    BY <1>1, <1>3, <1>4, <1>5, SameFileSameIndex
    DEF LifecycleInv, NumbersAsWritten, CopiesGood, StoppedIsEmpty
  <1> QED
    BY <1>2, <1>6 DEF LifecycleInv

(* A stray reference only makes the file longer.                           *)
LEMMA UpdateReferenceIsGood ==
    ASSUME TypeOK, LifecycleInv, NEW id \in Ids, UpdateReference(id)
    PROVE  LifecycleInv'
  <1>1. strays \in Nat /\ strays' \in Nat /\ strays' >= strays
        /\ (writer = "trunc" => strays' = strays)
    BY DEF UpdateReference, TypeOK
  <1>2. UNCHANGED <<nodesDB, straight, indexFile, writerState, readerState, history>>
    BY DEF UpdateReference
  <1>3. \A i \in Nat : InFile(i) => InFile(i)'
    BY <1>1, <1>2 DEF TypeOK, InFile, nodesDBSize, BLOCK_SIZE, ReferenceSize
  <1>4. /\ \A i \in Ids : nodeIndex[i] # NotIndexed => nodeIndex[i] \in Nat
        /\ \A i \in Ids : readerIndex[i] # NotIndexed => readerIndex[i] \in Nat
        /\ \A k \in DOMAIN indexDB : indexDB[k].block \in Nat
    BY NumbersAreNats
  <1>5. InLine' /\ NumbersAsWritten' /\ EntriesAsInMemory' /\ CompleteSomewhere'
    <2>1. UNCHANGED <<indexDB, lastPart, indexEpoch, writer, nodeIndex, nextNodeIndex,
                      writerFailed, writerEpoch, epoch, reused, crashed>>
      BY <1>2 DEF indexFile, writerState, history
    <2>2. Complete(nodeIndex)' = Complete(nodeIndex)
          /\ Complete(Loaded(indexDB))' = Complete(Loaded(indexDB))
      BY <1>2, <2>1 DEF Complete, Loaded, EntryIds, Indexed
    <2>3. InLine' /\ NumbersAsWritten'
      BY <1>1, <1>2, <2>1 DEF LifecycleInv, InLine, NumbersAsWritten
    <2>4. EntriesAsInMemory' /\ CompleteSomewhere'
      BY <2>1, <2>2 DEF LifecycleInv, EntriesAsInMemory, CompleteSomewhere, Indexed, tornIndex
    <2> QED
      BY <2>3, <2>4
  <1>6. CopiesGood'
    BY <1>2, <1>3, <1>4 DEF LifecycleInv, CopiesGood, EntriesGood, Behind, FindsItsNodes,
                            Indexed, BlockAt, indexFile, writerState, readerState, history
  <1>7. LoadingInLine' /\ StoppedIsEmpty'
    BY <1>2 DEF LifecycleInv, LoadingInLine, Loading, StoppedIsEmpty, Reaches,
                indexFile, readerState
  <1> QED
    BY <1>5, <1>6, <1>7 DEF LifecycleInv

(* A new node: its block is appended, with trunc at the index it is given;  *)
(* or its stream has failed, which takes an index of an earlier epoch.     *)
LEMMA AddNodeIsGood ==
    ASSUME TypeOK, LifecycleInv, NEW id \in Ids, AddNode(id)
    PROVE  LifecycleInv'
  <1> DEFINE new == nextNodeIndex
  <1>1. /\ new \in BlockIndexes /\ nodeIndex[id] = NotIndexed
        /\ nodeIndex' \in NodeIndex
        /\ nodeIndex'[id] = new /\ new # NotIndexed
        /\ \A i \in Ids \ {id} : nodeIndex'[i] = nodeIndex[i]
        /\ nextNodeIndex' = new + 1
    BY DEF AddNode, TypeOK, NodeIndex, BlockIndexes, NotIndexed
  <1>2. /\ UNCHANGED <<indexFile, readerState, writer, writerFailed, writerEpoch, epoch, crashed>>
        /\ reused' = IF writer = "app" THEN reused \cup {id} ELSE reused
        /\ writer \in {"trunc", "app"}
    BY DEF AddNode, Writing
  <1>2a. EntriesAsInMemory' /\ LoadingInLine' /\ StoppedIsEmpty'
    BY <1>2 DEF LifecycleInv, EntriesAsInMemory, LoadingInLine, Loading, StoppedIsEmpty, Reaches,
                indexFile, readerState
  <1>3. CASE writerFailed
    <2>1. UNCHANGED nodeFile
      BY <1>3 DEF AddNode, SaveBlock
    <2>2. writerEpoch # epoch /\ crashed /\ writer = "app"
      BY <1>2, <1>3 DEF LifecycleInv, NumbersAsWritten, CompleteSomewhere
    <2>3. InLine' /\ NumbersAsWritten' /\ CompleteSomewhere'
      BY <1>2, <2>1, <2>2 DEF LifecycleInv, InLine, NumbersAsWritten, CompleteSomewhere, nodeFile
    <2>4. CopiesGood'
      BY <1>2, <2>1, <2>2 DEF LifecycleInv, CopiesGood, EntriesGood, Behind, FindsItsNodes,
                              Indexed, InFile, BlockAt, nodesDBSize, nodeFile, indexFile, readerState
    <2> QED
      BY <1>2a, <2>3, <2>4 DEF LifecycleInv
  <1>4. CASE ~writerFailed
    <2>1. AppendBlock(id) /\ Len(nodesDB) < MaxBlocks
      BY <1>2, <1>4 DEF AddNode, SaveBlock, LifecycleInv, NumbersAsWritten, TypeOK
    <2>2. /\ nodesDB \in Seq(Ids) /\ nodesDB' \in Seq(Ids)
          /\ Len(nodesDB) \in Nat /\ straight \in 0 .. Len(nodesDB)
          /\ Len(nodesDB') = Len(nodesDB) + 1
          /\ strays' = strays
          /\ nodesDB'[Len(nodesDB) + 1] = id
          /\ \A k \in 1 .. Len(nodesDB) : nodesDB'[k] = nodesDB[k]
          /\ straight' = IF strays = 0 THEN straight + 1 ELSE straight
      BY <2>1, AppendIsTyped DEF AppendBlock, TypeOK
    <2>3. /\ nodesDBSize' = nodesDBSize + BLOCK_SIZE
          /\ nodesDBSize \in Nat
          /\ \A i \in Nat : InFile(i) => BLOCK_SIZE * (i + 1) <= nodesDBSize'
          /\ \A i \in Nat : i <= Len(nodesDB) => BLOCK_SIZE * (i + 1) <= nodesDBSize'
      BY <2>2 DEF TypeOK, nodesDBSize, InFile, BLOCK_SIZE, ReferenceSize
    <2>3a. /\ \A i \in Ids : nodeIndex[i] # NotIndexed => nodeIndex[i] \in Nat
           /\ \A i \in Ids : readerIndex[i] # NotIndexed => readerIndex[i] \in Nat
           /\ \A k \in DOMAIN indexDB : indexDB[k].block \in Nat /\ indexDB[k].id \in Ids
           /\ new \in Nat
      <3>1. \A k \in DOMAIN indexDB : indexDB[k] \in Entry
        BY DEF TypeOK
      <3> QED
        BY <1>1, <3>1, NumbersAreNats DEF Entry, BlockIndexes
    <2>4. \A i \in Nat, j \in Ids :
              BlockAt(i) = j => i < straight' /\ nodesDB'[i + 1] = j
      <3> SUFFICES ASSUME NEW i \in Nat, NEW j \in Ids, BlockAt(i) = j
                   PROVE  i < straight' /\ nodesDB'[i + 1] = j
        OBVIOUS
      <3>1. i < straight /\ nodesDB[i + 1] = j
        BY DEF BlockAt
      <3>2. i + 1 \in 1 .. Len(nodesDB) /\ straight \in Nat
        BY <2>2, <3>1
      <3> QED
        BY <2>2, <3>1, <3>2
    <2>5. InLine'
      BY <2>2 DEF LifecycleInv, InLine
    <2>6. NumbersAsWritten'
      BY <1>1, <1>2, <2>2 DEF LifecycleInv, NumbersAsWritten, BlockIndexes, TypeOK
    <2>7. writer = "trunc" => new = Len(nodesDB) /\ new < straight' /\ writerEpoch = epoch
      BY <2>2 DEF LifecycleInv, NumbersAsWritten, InLine
    <2>8. ASSUME writerEpoch = epoch PROVE Behind(nodeIndex)' /\ FindsItsNodes(nodeIndex)'
      <3>1. Behind(nodeIndex) /\ FindsItsNodes(nodeIndex) /\ new <= Len(nodesDB)
        BY <2>8 DEF LifecycleInv, CopiesGood, NumbersAsWritten
      <3>2. Behind(nodeIndex)'
        BY <1>1, <2>3, <2>3a, <3>1 DEF Behind, Indexed, InFile, NodeIndex, NotIndexed
      <3>3. FindsItsNodes(nodeIndex)'
        <4> SUFFICES ASSUME NEW i \in Ids, nodeIndex'[i] # NotIndexed, i \notin reused'
                     PROVE  InFile(nodeIndex[i])' /\ BlockAt(nodeIndex[i])' = i
          BY DEF FindsItsNodes, Indexed
        <4>1. InFile(nodeIndex[i])'
          BY <3>2 DEF Behind, Indexed
        <4>2. CASE i = id
          <5>1. writer = "trunc"
            BY <1>2, <4>2
          <5>2. nodeIndex'[i] = Len(nodesDB) /\ Len(nodesDB) < straight'
            BY <1>1, <2>7, <4>2, <5>1
          <5> QED
            BY <2>2, <4>1, <4>2, <5>2 DEF BlockAt
        <4>3. CASE i # id
          <5>1. nodeIndex'[i] = nodeIndex[i] /\ nodeIndex[i] \in Nat /\ i \notin reused
            BY <1>1, <1>2, <2>3a, <4>3
          <5>2. BlockAt(nodeIndex[i]) = i
            BY <3>1, <5>1 DEF FindsItsNodes, Indexed
          <5> QED
            BY <2>4, <4>1, <5>1, <5>2 DEF BlockAt
        <4> QED
          BY <4>2, <4>3
      <3> QED
        BY <3>2, <3>3
    <2>9. indexEpoch = epoch => EntriesGood'
      BY <1>2, <2>3, <2>3a, <2>4 DEF LifecycleInv, CopiesGood, EntriesGood, InFile,
                                     BlockAt, indexFile
    <2>10. readerEpoch = epoch /\ ~overtaken =>
               Behind(readerIndex)' /\ FindsItsNodes(readerIndex)' /\ ~readerFailed'
      BY <1>2, <2>3, <2>3a, <2>4 DEF LifecycleInv, CopiesGood, FindsItsNodes, Behind, Indexed,
                                     InFile, BlockAt, readerState
    <2>11. CompleteSomewhere'
      <3> SUFFICES ASSUME ~crashed PROVE writerEpoch = epoch /\ Complete(nodeIndex)'
        BY <1>2 DEF CompleteSomewhere
      <3>1. writerEpoch = epoch /\ Complete(nodeIndex)
        BY <1>2 DEF LifecycleInv, CompleteSomewhere
      <3>2. Complete(nodeIndex)'
        BY <1>1, <1>2, <2>2, <2>7, <3>1 DEF Complete, Indexed
      <3> QED
        BY <3>1, <3>2
    <2> QED
      BY <1>2, <1>2a, <2>5, <2>6, <2>8, <2>9, <2>10, <2>11
      DEF LifecycleInv, CopiesGood, indexFile, readerState
  <1> QED
    BY <1>3, <1>4

-----------------------------------------------------------------------------
(* The invariant that makes the store's promises inductive.                *)
THEOREM LifecycleIsInvariant == Spec => []LifecycleInv
<1>1. TypeOK /\ LifecycleInv /\ [Next]_vars => LifecycleInv'
  <2> SUFFICES ASSUME TypeOK, LifecycleInv, [Next]_vars PROVE LifecycleInv'
    OBVIOUS
  <2>1. CASE OpenTrunc
    BY <2>1, OpenTruncIsGood
  <2>2. ASSUME NEW id \in Ids, AddNode(id) PROVE LifecycleInv'
    BY <2>2, AddNodeIsGood
  <2>3. ASSUME NEW id \in Ids, GetNode(id) \/ Get(id) PROVE LifecycleInv'
    BY <2>3, ReadsAreGood
  <2>4. ASSUME NEW id \in Ids, UpdateReference(id) PROVE LifecycleInv'
    BY <2>4, UpdateReferenceIsGood
  <2>5. CASE OpenApp \/ PersistTruncate \/ PersistPiece \/ PersistClose \/ Crash
    BY <2>5, WriterStepsAreGood
  <2>6. CASE StatIndex \/ ReadKey \/ ReadBlock \/ OpenFiles \/ StopReader \/ UNCHANGED vars
    BY <2>6, ServerStepsAreGood
  <2> QED
    BY <2>1, <2>2, <2>3, <2>4, <2>5, <2>6 DEF Next
<1> QED
  BY InitIsGood, TypeIsInvariant, <1>1, PTL DEF Spec

(* A REST server whose index is that of the files' present epoch answers    *)
(* with the node it is asked for, unless a close emptied the index while   *)
(* the server was reading it: whether it started after a close, in one     *)
(* that had emptied the index already, or after a crash in the middle of   *)
(* one.                                                                    *)
THEOREM ReadersAnswerOwnNodes == Spec => []AnswersOwnNodes
<1>1. LifecycleInv => AnswersOwnNodes
  BY DEF LifecycleInv, CopiesGood, AnswersOwnNodes
<1> QED
  BY LifecycleIsInvariant, <1>1, PTL

(* No entry of this epoch's index is for a block that is not in the file.   *)
THEOREM IndexNeverAhead == Spec => []IndexBehindBlocks
<1>1. LifecycleInv => IndexBehindBlocks
  BY DEF LifecycleInv, CopiesGood, EntriesGood, IndexBehindBlocks
<1> QED
  BY LifecycleIsInvariant, <1>1, PTL

(* Without a crash a stopped store is complete: the index on disk leads to  *)
(* every block of the file.                                                *)
THEOREM CloseLosesNothing == Spec => []ClosedStoreIsComplete
<1>1. TypeOK /\ LifecycleInv => ClosedStoreIsComplete
  BY LoadedIsAnIndex DEF LifecycleInv, CompleteSomewhere, ClosedStoreIsComplete, Complete
<1> QED
  BY TypeIsInvariant, LifecycleIsInvariant, <1>1, PTL

(* Until the file is emptied again no step moves or changes a block.        *)
THEOREM BlocksNeverMove == Spec => BlocksStay
<1>1. TypeOK /\ LifecycleInv /\ [Next]_vars => [KeepsBlocks]_vars
  <2> SUFFICES ASSUME TypeOK, LifecycleInv, Next PROVE KeepsBlocks
    OBVIOUS
  <2>1. CASE OpenTrunc
    BY <2>1 DEF OpenTrunc, KeepsBlocks, TypeOK
  <2>2. ASSUME NEW id \in Ids, AddNode(id) PROVE KeepsBlocks
    <3>1. CASE UNCHANGED nodeFile
      BY <3>1 DEF KeepsBlocks, nodeFile, BlockAt, TypeOK
    <3>2. CASE AppendBlock(id) /\ Len(nodesDB) < MaxBlocks
      <4>1. /\ Len(nodesDB') = Len(nodesDB) + 1
            /\ straight' >= straight
            /\ \A k \in 1 .. Len(nodesDB) : nodesDB'[k] = nodesDB[k]
        BY <3>2, AppendIsTyped DEF AppendBlock, TypeOK
      <4>2. \A i \in 0 .. (straight - 1) :
                i < straight /\ i < straight' /\ i + 1 \in 1 .. Len(nodesDB)
        BY <4>1, <3>2 DEF AppendBlock, TypeOK
      <4>3. \A i \in 0 .. (straight - 1) : BlockAt(i)' = BlockAt(i)
        BY <4>1, <4>2 DEF BlockAt
      <4> QED
        BY <4>1, <4>3 DEF KeepsBlocks, TypeOK
    <3> QED
      BY <2>2, <3>1, <3>2
      DEF AddNode, SaveBlock, Writing, LifecycleInv, NumbersAsWritten, TypeOK
  <2>3. CASE UNCHANGED <<nodesDB, straight>>
    BY <2>3 DEF KeepsBlocks, BlockAt, TypeOK
  <2>4. \A id \in Ids : GetNode(id) \/ UpdateReference(id) \/ Get(id) =>
            UNCHANGED <<nodesDB, straight>>
    BY DEF GetNode, UpdateReference, Get, nodeFile
  <2>5. (\/ OpenApp \/ PersistTruncate \/ PersistPiece \/ PersistClose \/ Crash
         \/ StatIndex \/ ReadKey \/ ReadBlock \/ OpenFiles \/ StopReader) =>
            UNCHANGED <<nodesDB, straight>>
    BY DEF OpenApp, PersistTruncate, PersistPiece, PersistClose, Crash, StatIndex, ReadKey,
           ReadBlock, OpenFiles, StopReader, nodeFile
  <2> QED
    BY <2>1, <2>2, <2>3, <2>4, <2>5 DEF Next
<1> QED
  BY TypeIsInvariant, LifecycleIsInvariant, <1>1, PTL DEF Spec, BlocksStay
=============================================================================
