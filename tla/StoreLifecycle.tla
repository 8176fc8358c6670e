--------------------------- MODULE StoreLifecycle ---------------------------
(***************************************************************************)
(* How a NodeManager comes and goes: its constructor in the two open modes *)
(* ("trunc", as graph_master uses it, and "app", as restAPI does),         *)
(* readNodeIndex, addNode, persistNodeIndex and close, over the node file  *)
(* and the index file, which outlive the process.  One process may write;  *)
(* another, the REST server, opens the same files and answers from them.   *)
(* Either can stop between any two steps.                                  *)
(*                                                                         *)
(* A node block is known by the ID it was written for.  A stream opened    *)
(* with app writes at the end of the file wherever it was sought: a block  *)
(* is then appended whole, and a reference inside a block becomes a stray  *)
(* record behind the last one, which shifts all blocks written after it.   *)
(* Once a read has gone beyond the end, the stream has failed and nobody   *)
(* clears it: it neither reads nor writes again.                           *)
(*                                                                         *)
(* The index file is read and written field by field.  Its streams have    *)
(* buffers, so that several fields move at once, which are several steps   *)
(* with no other in between, and a field may be moved in two parts.  Only  *)
(* the writer changes the file: what the writer reads itself, it reads at  *)
(* once.                                                                   *)
(*                                                                         *)
(* IDs are taken to fit the label field and the index key.                 *)
(***************************************************************************)
EXTENDS Integers, Sequences

CONSTANTS
    Ids,            (* node IDs the stream may carry                        *)
    Garbage,        (* what a read at a misplaced address yields            *)
    Leftovers,      (* what a failed read leaves in place of a block index  *)
    MaxEpochs,      (* bound: how often the files are opened with trunc     *)
    MaxBlocks,      (* bound: node blocks in the file                       *)
    MaxStrays       (* bound: stray references in the file                  *)

ASSUME GarbageAssumption == Garbage \notin Ids
ASSUME LeftoversAssumption == Leftovers \subseteq Nat
(* Fewer stray records than would bring the blocks into line again.        *)
ASSUME BoundsAssumption ==
    /\ MaxEpochs \in Nat
    /\ MaxBlocks \in Nat
    /\ MaxStrays \in 0 .. 14

VARIABLES
    nodesDB,            (* node file: the IDs of its blocks, in order       *)
    straight,           (* how many of them lie at their address            *)
    strays,             (* stray reference records behind those             *)
    indexDB,            (* index file: entries of an ID and a block index   *)
    lastPart,           (* how much of the last entry is there, see below   *)
    writer,             (* the writing process                              *)
    nodeIndex,          (* its NodeManager::nodeIndex                       *)
    nextNodeIndex,      (* its NodeManager::nextNodeIndex                   *)
    writerFailed,       (* has its stream of the node file failed           *)
    reader,             (* the REST server                                  *)
    loading,            (* the locals of its readNodeIndex                  *)
    readerIndex,        (* its nodeIndex, loaded once                       *)
    readerFailed,       (* has its stream of the node file failed           *)
    epoch,              (* history: how often the node file was truncated   *)
    writerEpoch,        (* history: the epoch of the writer's index,        *)
    indexEpoch,         (*   of the index file                              *)
    readerEpoch,        (*   and of the reader's index                      *)
    reused,             (* history: IDs added with app in this epoch        *)
    crashed,            (* history: has a writer crashed in this epoch      *)
    overtaken           (* history: was the index emptied while the server  *)
                        (*   was reading it                                 *)

nodeFile    == <<nodesDB, straight, strays>>
indexFile   == <<indexDB, lastPart, indexEpoch>>
writerState == <<writer, nodeIndex, nextNodeIndex, writerFailed, writerEpoch>>
readerState == <<reader, loading, readerIndex, readerFailed, readerEpoch, overtaken>>
history     == <<epoch, reused, crashed>>
vars        == <<nodesDB, straight, strays, indexDB, lastPart, writer, nodeIndex,
                 nextNodeIndex, writerFailed, reader, loading, readerIndex, readerFailed,
                 epoch, writerEpoch, indexEpoch, readerEpoch, reused, crashed, overtaken>>

NotIndexed  == -1
BlockIndexes == 0 .. (MaxBlocks - 1)
NodeIndex   == [Ids -> BlockIndexes \cup {NotIndexed}]
EmptyIndex  == [i \in Ids |-> NotIndexed]
Indexed(f)  == {i \in Ids : f[i] # NotIndexed}

(* The index file is a sequence of entries of two fields, of which the      *)
(* last may not be all there: a part of its key, its key, a part of its    *)
(* block index too, or both.                                               *)
Entry    == [id : Ids, block : BlockIndexes]
Parts    == 1 .. 4
KeyPart  == 1
Key      == 2
BlockPart == 3
Whole    == 4
EntryIds(file) == {file[k].id : k \in DOMAIN file}
tornIndex == lastPart # Whole

(* Does the file hold entry i up to that part?                              *)
Reaches(i, part) == i <= Len(indexDB) /\ (i = Len(indexDB) => part <= lastPart)

(* The map readNodeIndex makes of the entries it reads.                     *)
Loaded(file) ==
    [i \in Ids |-> IF i \in EntryIds(file)
                  THEN file[CHOOSE k \in DOMAIN file : file[k].id = i].block
                  ELSE NotIndexed]

(* What a failed read may leave in the locals of readNodeIndex: a key that  *)
(* is no ID or any ID, and some number for a block index.                  *)
AnyKey   == Ids \cup {Garbage}
AnyBlock == BlockIndexes \cup Leftovers

(* The locals, and the map they are put into.                              *)
Locals == [size : Nat, entry : Nat, key : AnyKey, block : AnyBlock \cup {NotIndexed},
           failed : BOOLEAN, split : BOOLEAN]
ReaderIndexes == [Ids -> AnyBlock \cup {NotIndexed}]

NotLoading == [size |-> 0, entry |-> 0, key |-> Garbage, block |-> NotIndexed,
               failed |-> FALSE, split |-> FALSE]

(* NodeBlock::BLOCK_SIZE, and the size of a reference.                     *)
BLOCK_SIZE    == 15
ReferenceSize == 4

-----------------------------------------------------------------------------
(* Reading the node file, as NodeManager::get does.                        *)

nodesDBSize == BLOCK_SIZE * Len(nodesDB) + ReferenceSize * strays

(* The check at the end of the constructor.                                *)
SizeComplies == nodesDBSize % BLOCK_SIZE = 0

InFile(i)  == BLOCK_SIZE * (i + 1) <= nodesDBSize
BlockAt(i) == IF i < straight THEN nodesDB[i + 1] ELSE Garbage

Init ==
    /\ nodesDB = <<>> /\ straight = 0 /\ strays = 0
    /\ indexDB = <<>> /\ lastPart = Whole
    /\ writer = "stopped" /\ nodeIndex = EmptyIndex
    /\ nextNodeIndex = 0 /\ writerFailed = FALSE
    /\ reader = "stopped" /\ loading = NotLoading
    /\ readerIndex = EmptyIndex /\ readerFailed = FALSE /\ overtaken = FALSE
    /\ epoch = 0 /\ writerEpoch = 0 /\ indexEpoch = 0 /\ readerEpoch = 0
    /\ reused = {} /\ crashed = FALSE

-----------------------------------------------------------------------------
(* The writing process.                                                    *)

(* The constructor without app: the node file is emptied, the index file   *)
(* is left as it was.                                                      *)
OpenTrunc ==
    /\ writer = "stopped"
    /\ epoch < MaxEpochs
    /\ nodesDB' = <<>> /\ straight' = 0 /\ strays' = 0
    /\ writer' = "trunc"
    /\ nodeIndex' = EmptyIndex /\ nextNodeIndex' = 0 /\ writerFailed' = FALSE
    /\ epoch' = epoch + 1 /\ writerEpoch' = epoch + 1
    /\ reused' = {} /\ crashed' = FALSE
    /\ UNCHANGED <<indexFile, readerState>>

(* The constructor with app.  readNodeIndex throws on a torn index, the    *)
(* size check on a file that is not made of whole blocks: the process ends *)
(* before it has changed anything.  nextNodeIndex starts at 0 all the same.*)
OpenApp ==
    /\ writer = "stopped"
    /\ ~tornIndex
    /\ SizeComplies
    /\ writer' = "app"
    /\ nodeIndex' = Loaded(indexDB) /\ nextNodeIndex' = 0 /\ writerFailed' = FALSE
    /\ writerEpoch' = indexEpoch
    /\ UNCHANGED <<nodeFile, indexFile, readerState, history>>

(* Mutants: definitions with a slip of the kind a change could bring in.    *)
(* PROJECT.json names the property that notices each; nothing uses them.   *)
AppendBlockLost(id) ==
    /\ straight' = IF strays = 0 THEN straight + 1 ELSE straight
    /\ UNCHANGED <<nodesDB, strays>>

(* A block appended whole: in line while no stray record is before it.     *)
AppendBlock(id) ==
    /\ nodesDB' = Append(nodesDB, id)
    /\ straight' = IF strays = 0 THEN straight + 1 ELSE straight
    /\ UNCHANGED strays

(* Mutant: the block is written at its address with app too.               *)
SaveBlockInPlace(i, id) ==
    IF i < Len(nodesDB)
    THEN nodesDB' = [nodesDB EXCEPT ![i + 1] = id] /\ UNCHANGED <<straight, strays>>
    ELSE AppendBlock(id)

(* NodeBlock::save at block index i: at its address, or at the end of the   *)
(* file, or nowhere.                                                       *)
SaveBlock(i, id) ==
    IF writerFailed THEN UNCHANGED nodeFile
    ELSE IF writer = "app" \/ i >= Len(nodesDB) THEN AppendBlock(id)
    ELSE nodesDB' = [nodesDB EXCEPT ![i + 1] = id] /\ UNCHANGED <<straight, strays>>

Writing == writer \in {"trunc", "app"}

(* addNode of an ID that is not in the index.                              *)
AddNode(id) ==
    /\ Writing
    /\ nodeIndex[id] = NotIndexed
    /\ Len(nodesDB) < MaxBlocks /\ nextNodeIndex < MaxBlocks
    /\ nodeIndex' = [nodeIndex EXCEPT ![id] = nextNodeIndex]
    /\ nextNodeIndex' = nextNodeIndex + 1
    /\ SaveBlock(nextNodeIndex, id)
    /\ reused' = IF writer = "app" THEN reused \cup {id} ELSE reused
    /\ UNCHANGED <<indexFile, readerState, writer, writerFailed, writerEpoch, epoch, crashed>>

(* addNode of an ID that is in the index reads its block; what it finds     *)
(* may also make it throw, which is a Crash.                               *)
GetNode(id) ==
    /\ Writing
    /\ nodeIndex[id] # NotIndexed
    /\ writerFailed' = (writerFailed \/ ~InFile(nodeIndex[id]))
    /\ UNCHANGED <<nodeFile, indexFile, readerState, history,
                   writer, nodeIndex, nextNodeIndex, writerEpoch>>

(* NodeBlock::setRelationHead, or addProperty's first reference, of a node  *)
(* in the index: four bytes of its block are written, in place or not.     *)
UpdateReference(id) ==
    /\ Writing
    /\ nodeIndex[id] # NotIndexed
    /\ IF writer = "app" /\ ~writerFailed
       THEN strays < MaxStrays /\ strays' = strays + 1
       ELSE UNCHANGED strays
    /\ UNCHANGED <<nodesDB, straight, indexFile, writerState, readerState, history>>

Loading == reader \in {"key", "block"}

(* The part of its entry that the server is about to have read.             *)
PartRead == IF reader = "key" THEN Key ELSE Whole

(* Emptying the file under a server that reads it: the server's buffer may  *)
(* hold the beginning of its next field, if that was there.                *)
Overtake ==
    /\ IF Loading
       THEN /\ overtaken' = TRUE
            /\ \E split \in {loading.split,
                             ~loading.failed /\ Reaches(loading.entry + 1, PartRead - 1)} :
                  loading' = [loading EXCEPT !.split = split]
       ELSE UNCHANGED <<overtaken, loading>>
    /\ UNCHANGED <<reader, readerIndex, readerFailed, readerEpoch>>

(* Mutant: the old index file is kept until it is overwritten.             *)
PersistOverOld ==
    /\ Writing
    /\ writer' = "persisting"
    /\ indexEpoch' = writerEpoch
    /\ UNCHANGED <<nodeFile, indexDB, lastPart, readerState, history,
                   nodeIndex, nextNodeIndex, writerFailed, writerEpoch>>

(* close begins with persistNodeIndex, which begins by emptying the file.  *)
PersistTruncate ==
    /\ Writing
    /\ writer' = "persisting"
    /\ indexDB' = <<>> /\ lastPart' = Whole /\ indexEpoch' = writerEpoch
    /\ Overtake
    /\ UNCHANGED <<nodeFile, history, nodeIndex, nextNodeIndex, writerFailed, writerEpoch>>

(* The entries reach the file in pieces, whose ends are not ends of entries *)
(* or of fields; the hash map gives the entries in any order.              *)
PersistPiece ==
    /\ writer = "persisting"
    /\ \/ /\ tornIndex
          /\ lastPart' = lastPart + 1
          /\ UNCHANGED indexDB
       \/ /\ ~tornIndex
          /\ \E id \in Indexed(nodeIndex) \ EntryIds(indexDB) :
                indexDB' = Append(indexDB, [id |-> id, block |-> nodeIndex[id]])
          /\ lastPart' = KeyPart
    /\ UNCHANGED <<nodeFile, indexEpoch, writerState, readerState, history>>

(* The end of the writing process, and of the memory it kept.              *)
StopWriter ==
    /\ writer' = "stopped"
    /\ nodeIndex' = EmptyIndex /\ nextNodeIndex' = 0 /\ writerFailed' = FALSE
    /\ writerEpoch' = 0

(* Mutant: the index file is not flushed when the process ends.            *)
PersistCloseUnflushed ==
    /\ writer = "persisting"
    /\ StopWriter
    /\ UNCHANGED <<nodeFile, indexFile, readerState, history>>

(* The index file is closed, which writes what was left of it, then the     *)
(* others; the process ends.                                               *)
PersistClose ==
    /\ writer = "persisting"
    /\ ~tornIndex
    /\ Indexed(nodeIndex) \subseteq EntryIds(indexDB)
    /\ StopWriter
    /\ UNCHANGED <<nodeFile, indexFile, readerState, history>>

(* An exception nobody catches, or a kill: close is not called, or not     *)
(* completed.  Every block has been flushed, nothing else remains.         *)
Crash ==
    /\ writer # "stopped"
    /\ crashed' = TRUE
    /\ StopWriter
    /\ UNCHANGED <<nodeFile, indexFile, readerState, epoch, reused>>

-----------------------------------------------------------------------------
(* The REST server, a NodeManager opened with app that only reads.         *)

(* readNodeIndex asks for the size of the file, throws if it is not made of *)
(* whole entries, and will read as many as fit that size.                  *)
StatIndex ==
    /\ reader = "stopped"
    /\ ~tornIndex
    /\ reader' = IF indexDB = <<>> THEN "opening" ELSE "key"
    /\ loading' = [NotLoading EXCEPT !.size = Len(indexDB)]
    /\ readerEpoch' = indexEpoch
    /\ UNCHANGED <<nodeFile, indexFile, writerState, history,
                   readerIndex, readerFailed, overtaken>>

(* What a read of a field leaves in its local variable.  A field that is    *)
(* there is read; one of which a part is there, or was there when the      *)
(* server's buffer was filled, is mixed with what was in the variable; the *)
(* variable keeps its value otherwise.  Nobody set it before the first     *)
(* entry.  A stream that has failed reads nothing.                         *)
FieldRead(here, before, any) ==
    LET i == loading.entry + 1
    IN  IF ~loading.failed /\ ~loading.split /\ Reaches(i, PartRead) THEN {here}
        ELSE IF \/ loading.entry = 0
                \/ ~loading.failed /\ (loading.split \/ Reaches(i, PartRead - 1))
             THEN any
        ELSE {before}

FailedAfter == loading.failed \/ ~Reaches(loading.entry + 1, PartRead)

(* A read that fails is logged, and the loop goes on.                       *)
ReadKey ==
    /\ reader = "key"
    /\ reader' = "block"
    /\ \E key \in FieldRead(indexDB[loading.entry + 1].id, loading.key, AnyKey) :
          loading' = [loading EXCEPT !.key = key, !.failed = FailedAfter, !.split = FALSE]
    /\ UNCHANGED <<nodeFile, indexFile, writerState, history,
                   readerIndex, readerFailed, readerEpoch, overtaken>>

(* The locals when the loop comes round: all but i keep their values.       *)
NextEntry(block) ==
    [size |-> loading.size, entry |-> loading.entry + 1, key |-> loading.key,
     block |-> block, failed |-> FailedAfter, split |-> FALSE]

(* The pair is put into the map, whatever the reads have left of it.        *)
ReadBlock ==
    /\ reader = "block"
    /\ \E block \in FieldRead(indexDB[loading.entry + 1].block, loading.block, Leftovers) :
          /\ readerIndex' = [i \in Ids |-> IF i = loading.key THEN block ELSE readerIndex[i]]
          /\ IF loading.entry + 1 < loading.size
             THEN /\ reader' = "key"
                  /\ loading' = NextEntry(block)
             ELSE /\ reader' = "opening"
                  /\ loading' = NotLoading
    /\ UNCHANGED <<nodeFile, indexFile, writerState, history,
                   readerFailed, readerEpoch, overtaken>>

(* The rest of the constructor, whose check of the file's size throws if    *)
(* it is not made of whole blocks: StopReader.                             *)
OpenFiles ==
    /\ reader = "opening"
    /\ SizeComplies
    /\ reader' = "serving"
    /\ UNCHANGED <<nodeFile, indexFile, writerState, history,
                   loading, readerIndex, readerFailed, readerEpoch, overtaken>>

(* doGetVertext of an ID in the index; for another it answers Not_Found    *)
(* without reading.                                                        *)
Get(id) ==
    /\ reader = "serving"
    /\ readerIndex[id] # NotIndexed
    /\ readerFailed' = (readerFailed \/ ~InFile(readerIndex[id]))
    /\ UNCHANGED <<nodeFile, indexFile, writerState, history,
                   reader, loading, readerIndex, readerEpoch, overtaken>>

(* The end of the server and of the memory it kept.                        *)
StopReader ==
    /\ reader # "stopped"
    /\ reader' = "stopped" /\ loading' = NotLoading
    /\ readerIndex' = EmptyIndex /\ readerFailed' = FALSE /\ readerEpoch' = 0
    /\ overtaken' = FALSE
    /\ UNCHANGED <<nodeFile, indexFile, writerState, history>>

Next ==
    \/ OpenTrunc \/ OpenApp
    \/ \E id \in Ids : AddNode(id) \/ GetNode(id) \/ UpdateReference(id)
    \/ PersistTruncate \/ PersistPiece \/ PersistClose \/ Crash
    \/ StatIndex \/ ReadKey \/ ReadBlock \/ OpenFiles \/ StopReader
    \/ \E id \in Ids : Get(id)

Spec == Init /\ [][Next]_vars

-----------------------------------------------------------------------------
TypeOK ==
    /\ nodesDB \in Seq(Ids) /\ Len(nodesDB) <= MaxBlocks
    /\ straight \in 0 .. Len(nodesDB)
    /\ strays \in 0 .. MaxStrays
    /\ indexDB \in Seq(Entry) /\ lastPart \in Parts
    /\ writer \in {"stopped", "trunc", "app", "persisting"}
    /\ nodeIndex \in NodeIndex
    /\ nextNodeIndex \in 0 .. MaxBlocks
    /\ writerFailed \in BOOLEAN
    /\ reader \in {"stopped", "key", "block", "opening", "serving"}
    /\ loading \in Locals
    /\ readerIndex \in ReaderIndexes
    /\ readerFailed \in BOOLEAN
    /\ epoch \in 0 .. MaxEpochs
    /\ writerEpoch \in 0 .. epoch /\ indexEpoch \in 0 .. epoch /\ readerEpoch \in 0 .. epoch
    /\ reused \subseteq Ids
    /\ crashed \in BOOLEAN /\ overtaken \in BOOLEAN

(* Where a process of this epoch finds the block of a node that was not     *)
(* added with app.                                                         *)
FindsItsNodes(index) ==
    \A id \in Indexed(index) \ reused : InFile(index[id]) /\ BlockAt(index[id]) = id

(* The REST server never answers with another node's block, and never runs *)
(* past the end of the file, while the node file is the one its index was  *)
(* written for, and unless a close emptied the index between the size it   *)
(* asked for and the last entry it read: readNodeIndex then puts stale or  *)
(* mixed pairs into its map, and so the promise is not made for a server   *)
(* that starts when a writer is about to close.  It is made for one that   *)
(* starts at any other time, also while a close that has emptied the file  *)
(* is writing it, however that close ends, and whatever is appended later. *)
(* Nodes added with app are left out too: their index entry is wrong.      *)
AnswersOwnNodes ==
    reader # "stopped" /\ readerEpoch = epoch /\ ~overtaken =>
        FindsItsNodes(readerIndex) /\ ~readerFailed

(* While no writer has crashed since the files were emptied, the stopped    *)
(* store is complete: every block in the file can be found by its node's   *)
(* ID, at the block itself if it was not added with app.                   *)
ClosedStoreIsComplete ==
    writer = "stopped" /\ ~crashed =>
        /\ indexEpoch = epoch
        /\ ~tornIndex
        /\ \A k \in DOMAIN nodesDB :
              /\ nodesDB[k] \in EntryIds(indexDB)
              /\ nodesDB[k] \notin reused => Loaded(indexDB)[nodesDB[k]] = k - 1

(* The index on disk is never ahead of the blocks: no entry written in an   *)
(* epoch, whole or not, is for a block that is not in the file yet, also   *)
(* when the block is one that will be read wrongly.                        *)
IndexBehindBlocks ==
    indexEpoch = epoch => \A k \in DOMAIN indexDB : InFile(indexDB[k].block)

(* Until the next truncation the node file only grows: a block stays where *)
(* it is and what it is, in both modes, so a reader may keep its address.  *)
KeepsBlocks ==
    epoch' = epoch =>
        /\ Len(nodesDB') >= Len(nodesDB)
        /\ \A i \in 0 .. (straight - 1) : BlockAt(i)' = BlockAt(i)

BlocksStay == [][KeepsBlocks]_vars

(***************************************************************************)
(* The strengthening that makes these invariants inductive.                *)
(***************************************************************************)
InLine == strays = 0 => straight = Len(nodesDB)

Behind(index) == \A id \in Indexed(index) : InFile(index[id])

Complete(index) ==
    \A k \in DOMAIN nodesDB :
        /\ nodesDB[k] \in Indexed(index)
        /\ nodesDB[k] \notin reused => index[nodesDB[k]] = k - 1

(* Whose numbering is still that of the file.                              *)
NumbersAsWritten ==
    /\ writer = "trunc" => /\ writerEpoch = epoch
                           /\ strays = 0
                           /\ nextNodeIndex = Len(nodesDB)
    /\ writer = "persisting" => indexEpoch = writerEpoch
    /\ writerEpoch = epoch => ~writerFailed /\ nextNodeIndex <= Len(nodesDB)

(* While the index is being written its entries are those of the memory.   *)
EntriesAsInMemory ==
    writer = "persisting" =>
        \A k \in DOMAIN indexDB : /\ nodeIndex[indexDB[k].id] = indexDB[k].block
                                  /\ indexDB[k].id \in Indexed(nodeIndex)

EntriesGood ==
    \A k \in DOMAIN indexDB :
        /\ InFile(indexDB[k].block)
        /\ indexDB[k].id \notin reused => BlockAt(indexDB[k].block) = indexDB[k].id

(* Every copy of the index made in this epoch is as good as the others.    *)
CopiesGood ==
    /\ writerEpoch = epoch => Behind(nodeIndex) /\ FindsItsNodes(nodeIndex)
    /\ indexEpoch = epoch => EntriesGood
    /\ readerEpoch = epoch /\ ~overtaken =>
          Behind(readerIndex) /\ FindsItsNodes(readerIndex) /\ ~readerFailed

(* A server that nobody overtakes has before it the entries it was promised *)
(* when it asked for the size, each whole, and is at one of them.          *)
LoadingInLine ==
    Loading /\ ~overtaken =>
        /\ readerEpoch = indexEpoch
        /\ loading.entry < loading.size
        /\ loading.size <= Len(indexDB)
        /\ Reaches(loading.size, Whole)
        /\ ~loading.failed /\ ~loading.split
        /\ reader = "block" => loading.key = indexDB[loading.entry + 1].id

(* A server that is not there has no index that could be wrong.            *)
StoppedIsEmpty ==
    reader = "stopped" => readerIndex = EmptyIndex /\ ~readerFailed /\ ~overtaken

(* Until a crash the complete index is in memory or on disk.                *)
CompleteSomewhere ==
    ~crashed =>
        IF writer = "stopped"
        THEN indexEpoch = epoch /\ ~tornIndex /\ Complete(Loaded(indexDB))
        ELSE writerEpoch = epoch /\ Complete(nodeIndex)

LifecycleInv ==
    /\ InLine /\ NumbersAsWritten /\ EntriesAsInMemory /\ CopiesGood
    /\ LoadingInLine /\ StoppedIsEmpty /\ CompleteSomewhere

(* NodeManager::setIndexKeySize: the node index database acts "as a lookup  *)
(* table for node IDs to their block address in node DB".                  *)
IndexIsLookupTable ==
    \A k \in DOMAIN indexDB : BlockAt(indexDB[k].block) = indexDB[k].id
=============================================================================
