--------------------------- MODULE PropertyStore ---------------------------
(***************************************************************************)
(* The property side of the streaming graph store: PropertyLink::create,   *)
(* insert, get and next, addProperty of NodeBlock and of RelationBlock,    *)
(* NodeBlock::save, and the part of main that hands the properties of one  *)
(* message to the relation and the two nodes addEdge returned.             *)
(*                                                                         *)
(* A node or a relation (an owner) refers to the head of a singly linked   *)
(* list of property blocks, which grows at its tail.  All lists share one  *)
(* file.  As in RelationStore an action is one file write or one turn of a *)
(* loop.  One write is not flushed: the one that links a new block to the  *)
(* tail stays in the stream's buffer until the file is sought again.       *)
(*                                                                         *)
(* A block's address is its index times PROPERTY_BLOCK_SIZE; the model     *)
(* keeps the index.  Index 0 is the null reference.                        *)
(***************************************************************************)
EXTENDS Integers, FiniteSets

CONSTANTS
    Nodes,          (* nodes, named by their IDs                            *)
    IdLength,       (* the length of each ID, in characters                 *)
    Relations,      (* relations addEdge may return                         *)
    Edges,          (* the pairs of IDs the stream may carry                *)
    Names,          (* property names, as numbers in their JSON order       *)
    LabelName,      (* the name "label"                                     *)
    Values,         (* property values the stream may carry                 *)
    NoValue,        (* reads as: there is no such property                  *)
    NoOwner,        (* fills the copies no call uses                        *)
    MaxLinks        (* capacity of the property file, in blocks             *)

Owners == Nodes \cup Relations
Data   == Values \cup Nodes

ASSUME OwnersAssumption == Nodes \cap Relations = {} /\ NoOwner \notin Owners
ASSUME NamesAssumption  == Names \subseteq Nat \ {0} /\ LabelName \in Names
ASSUME InputAssumption  ==
    /\ IdLength \in [Nodes -> Nat]
    /\ Edges \subseteq Nodes \X Nodes
    /\ NoValue \notin Data
    /\ MaxLinks \in Nat

VARIABLES
    saved,              (* nodes whose block is in the node file            *)
    ends,               (* the two nodes of each relation stored, or none   *)
    propRef,            (* property reference in each owner's block on disk *)
    property,           (* property file: name and value of each block      *)
    nextProp,           (* property file: next address of each block        *)
    unflushed,          (* block whose next address waits in the buffer     *)
    nextPropertyIndex,  (* PropertyLink::nextPropertyIndex                  *)
    pc,                 (* what the program does next                       *)
    target,             (* the in-memory block it is doing it for           *)
    copies,             (* the in-memory blocks: owner and propRef          *)
    name, value,        (* the arguments of addProperty                     *)
    cursor              (* the link insert stands on, or has created        *)

owners == <<saved, ends>>
file   == <<property, nextProp, unflushed, nextPropertyIndex>>
call   == <<target, copies, name, value, cursor>>
vars   == <<saved, ends, propRef, property, nextProp, unflushed, nextPropertyIndex,
            pc, target, copies, name, value, cursor>>

Null == 0
LinkIndexes == 1 .. MaxLinks
LinkRefs    == LinkIndexes \cup {Null}

(* The label field of a node block holds this many characters.             *)
LABEL_SIZE == 6

(* The in-memory blocks of one call: the node save writes, or the relation *)
(* and the nodes addEdge returns, in the order main walks through them.    *)
Targets == {"saved", "relation", "source", "destination"}

TargetAfter(t) == CASE t = "relation" -> "source"
                    [] t = "source" -> "destination"
                    [] OTHER -> "saved"

Blank    == [name |-> LabelName, value |-> NoValue]
NoCopies == [t \in Targets |-> [owner |-> NoOwner, ref |-> Null]]
NoName   == 0

-----------------------------------------------------------------------------
Init ==
    /\ saved = {}
    /\ ends = [r \in Relations |-> {}]
    /\ propRef = [o \in Owners |-> Null]
    /\ property = [l \in LinkIndexes |-> Blank]
    /\ nextProp = [l \in LinkIndexes |-> Null]
    /\ unflushed = Null
    /\ nextPropertyIndex = 1
    /\ pc = "idle"
    /\ target = "saved"
    /\ copies = NoCopies
    /\ name = NoName
    /\ value = NoValue
    /\ cursor = Null

Room == nextPropertyIndex <= MaxLinks

isSmallLabel(n) == IdLength[n] <= LABEL_SIZE

(* Mutant: a long ID is cut to the label field.                            *)
SaveNodeCutShort(n) ==
    /\ pc = "idle"
    /\ n \notin saved
    /\ saved' = saved \cup {n}
    /\ UNCHANGED <<ends, propRef, file, pc, call>>

(* NodeBlock::save of a new node: its block is written without properties;  *)
(* an ID that is too long for the label field becomes one.                 *)
SaveNode(n) ==
    /\ pc = "idle"
    /\ n \notin saved
    /\ saved' = saved \cup {n}
    /\ IF isSmallLabel(n)
       THEN UNCHANGED <<pc, call>>
       ELSE /\ Room
            /\ pc' = "create"
            /\ target' = "saved"
            /\ copies' = [NoCopies EXCEPT !["saved"] = [owner |-> n, ref |-> Null]]
            /\ name' = LabelName
            /\ value' = n
            /\ UNCHANGED cursor
    /\ UNCHANGED <<ends, propRef, file>>

(* addEdge stores a new relation and returns it with copies of its nodes:   *)
(* the references in the copies are those read from the blocks before.     *)
(* An edge that is stored already gives no relation, and main goes on to   *)
(* the next message without looking at the properties.                     *)
StoreRelation(r, s, d) ==
    /\ pc = "idle"
    /\ {s, d} \subseteq saved
    /\ ends[r] = {}
    /\ \A q \in Relations : ends[q] # {s, d}
    /\ ends' = [ends EXCEPT ![r] = {s, d}]
    /\ copies' = [t \in Targets |->
                    CASE t = "relation" -> [owner |-> r, ref |-> Null]
                      [] t = "source" -> [owner |-> s, ref |-> propRef[s]]
                      [] t = "destination" -> [owner |-> d, ref |-> propRef[d]]
                      [] OTHER -> [owner |-> NoOwner, ref |-> Null]]
    /\ target' = "relation"
    /\ pc' = "adding"
    /\ UNCHANGED <<saved, propRef, file, name, value, cursor>>

-----------------------------------------------------------------------------
(* Seeking in the property file writes what its buffer still holds: the     *)
(* address of the youngest block, into the tail of some list.              *)
Flushed ==
    IF unflushed = Null THEN nextProp
    ELSE [nextProp EXCEPT ![unflushed] = nextPropertyIndex - 1]

(* Mutant: the copy's reference is ignored, every list is begun anew.      *)
AddPropertyToNew(n, v) ==
    /\ pc = "adding"
    /\ target # "saved"
    /\ Room
    /\ n > name
    /\ name' = n
    /\ value' = v
    /\ pc' = "create"
    /\ UNCHANGED <<owners, propRef, file, target, copies, cursor>>

(* addProperty, called for the properties of one JSON object in the order  *)
(* of their names: the first link is created, any other is inserted,       *)
(* starting with the link the copy refers to, which getPropertyHead reads. *)
AddProperty(n, v) ==
    /\ pc = "adding"
    /\ target # "saved"
    /\ Room
    /\ n > name
    /\ name' = n
    /\ value' = v
    /\ IF copies[target].ref = Null
       THEN /\ pc' = "create"
            /\ UNCHANGED <<file, cursor>>
       ELSE /\ pc' = "insert"
            /\ cursor' = copies[target].ref
            /\ nextProp' = Flushed
            /\ unflushed' = Null
            /\ UNCHANGED <<property, nextPropertyIndex>>
    /\ UNCHANGED <<owners, propRef, target, copies>>

(* main is through with this object, or save with its label.               *)
NextTarget ==
    /\ pc = "adding"
    /\ name' = NoName
    /\ value' = NoValue
    /\ cursor' = Null
    /\ IF target \in {"relation", "source"}
       THEN /\ target' = TargetAfter(target)
            /\ UNCHANGED <<pc, copies>>
       ELSE /\ target' = "saved"
            /\ pc' = "idle"
            /\ copies' = NoCopies
    /\ UNCHANGED <<owners, propRef, file>>

(* Mutant: the address one past the link's.                                *)
setCopyRefPast(l) == copies' = [copies EXCEPT ![target] = [owner |-> @.owner, ref |-> l + 1]]

setCopyRef(l) == copies' = [copies EXCEPT ![target] = [owner |-> @.owner, ref |-> l]]

(* A new block at the end of the file, without a next address; it is       *)
(* flushed.  The seek before it flushes what was waiting.                  *)
writeLink ==
    /\ property' = [property EXCEPT ![nextPropertyIndex] = [name |-> name, value |-> value]]
    /\ nextProp' = [Flushed EXCEPT ![nextPropertyIndex] = Null]
    /\ unflushed' = Null

CreateLink ==
    /\ pc = "create"
    /\ writeLink
    /\ nextPropertyIndex' = nextPropertyIndex + 1
    /\ cursor' = nextPropertyIndex
    /\ setCopyRef(nextPropertyIndex)
    /\ pc' = "setRef"
    /\ UNCHANGED <<owners, propRef, target, name, value>>

(* The owner's block on disk gets the reference to its first link.         *)
SetPropertyRef ==
    /\ pc = "setRef"
    /\ propRef' = [propRef EXCEPT ![copies[target].owner] = cursor]
    /\ pc' = "adding"
    /\ UNCHANGED <<owners, file, call>>

-----------------------------------------------------------------------------
(* Mutant: the link is taken for its own successor.                        *)
StaysHere == cursor

(* PropertyLink::insert, one call of its recursion.  A link of the same     *)
(* name ends it and keeps its value; at the tail a new link is written;    *)
(* otherwise the next link is read.                                        *)
Found == property[cursor].name = name
Follow == nextProp[cursor]

FindName ==
    /\ pc = "insert"
    /\ Found
    /\ setCopyRef(cursor)
    /\ pc' = "adding"
    /\ UNCHANGED <<owners, propRef, file, target, name, value, cursor>>

FollowNext ==
    /\ pc = "insert"
    /\ ~Found
    /\ nextProp[cursor] # Null
    /\ cursor' = Follow
    /\ UNCHANGED <<owners, propRef, file, pc, target, copies, name, value>>

(* Mutant: the tail is not compared with the null reference.               *)
AppendLinkAnywhere ==
    /\ pc = "insert"
    /\ ~Found
    /\ writeLink
    /\ pc' = "chain"
    /\ UNCHANGED <<owners, propRef, nextPropertyIndex, call>>

AppendLink ==
    /\ pc = "insert"
    /\ ~Found
    /\ nextProp[cursor] = Null
    /\ writeLink
    /\ pc' = "chain"
    /\ UNCHANGED <<owners, propRef, nextPropertyIndex, call>>

(* Mutants: the counter is not advanced; the address is never written.      *)
ChainLinkWithoutCounting ==
    /\ pc = "chain"
    /\ unflushed' = cursor
    /\ setCopyRef(nextPropertyIndex)
    /\ pc' = "adding"
    /\ UNCHANGED <<owners, propRef, property, nextProp, nextPropertyIndex,
                   target, name, value, cursor>>

ChainLinkUnwritten ==
    /\ pc = "chain"
    /\ nextPropertyIndex' = nextPropertyIndex + 1
    /\ setCopyRef(nextPropertyIndex)
    /\ pc' = "adding"
    /\ UNCHANGED <<owners, propRef, property, nextProp, unflushed, target, name, value, cursor>>

(* The tail's next address is written into the stream, and not flushed.     *)
(* The copy goes on from the new link, not from the head of the list.      *)
ChainLink ==
    /\ pc = "chain"
    /\ unflushed' = cursor
    /\ nextPropertyIndex' = nextPropertyIndex + 1
    /\ setCopyRef(nextPropertyIndex)
    /\ pc' = "adding"
    /\ UNCHANGED <<owners, propRef, property, nextProp, target, name, value, cursor>>

-----------------------------------------------------------------------------
Step ==
    \/ CreateLink \/ SetPropertyRef
    \/ FindName \/ FollowNext \/ AppendLink \/ ChainLink

Next ==
    \/ \E n \in Nodes : SaveNode(n)
    \/ \E r \in Relations : \E e \in Edges : StoreRelation(r, e[1], e[2])
    \/ \E n \in Names : \E v \in Values : AddProperty(n, v)
    \/ NextTarget
    \/ Step

(* Single-threaded code: a call of addProperty, once made, runs.           *)
Spec == Init /\ [][Next]_vars /\ WF_vars(Step)

-----------------------------------------------------------------------------
(* Vocabulary of the properties.                                           *)

Written == 1 .. (nextPropertyIndex - 1)

(* getAllProperties: the list is walked to its end and the first value met *)
(* under a name is the one kept.  It reads the links from a given file     *)
(* content: the one on disk, or the one the writer's own stream shows.     *)
ReadFrom(ref, next, n) ==
    LET read[l \in LinkRefs] ==
            CASE l = Null -> NoValue
              [] l # Null /\ property[l].name = n -> property[l].value
              [] OTHER -> read[next[l]]
    IN  read[ref]

(* The links such a walk can meet: the least set that holds the first one   *)
(* and with a link the next.                                               *)
ClosedUnder(S, next) == \A k \in S : next[k] # Null => next[k] \in S

LinksOf(ref, next) ==
    {l \in LinkIndexes : \A S \in SUBSET LinkIndexes :
        ref \in S \cup {Null} /\ ClosedUnder(S, next) => l \in S}

TypeOK ==
    /\ saved \in SUBSET Nodes
    /\ ends \in [Relations -> SUBSET Nodes]
    /\ propRef \in [Owners -> LinkRefs]
    /\ property \in [LinkIndexes -> [name : Names, value : Data \cup {NoValue}]]
    /\ nextProp \in [LinkIndexes -> LinkRefs]
    /\ unflushed \in LinkRefs
    /\ nextPropertyIndex \in 1 .. (MaxLinks + 1)
    /\ pc \in {"idle", "adding", "create", "setRef", "insert", "chain"}
    /\ target \in Targets
    /\ copies \in [Targets -> [owner : Owners \cup {NoOwner}, ref : LinkRefs]]
    /\ name \in Names \cup {NoName}
    /\ value \in Data \cup {NoValue}
    /\ cursor \in LinkRefs

(* No property block belongs to two lists or twice to one: at most one     *)
(* reference on disk, of an owner or of another block, leads to it, and    *)
(* next addresses lead forward, so that every walk ends.                   *)
NoSharedLinks ==
    /\ \A o, p \in Owners : propRef[o] = propRef[p] => o = p \/ propRef[o] = Null
    /\ \A k, l \in Written : nextProp[k] = nextProp[l] => k = l \/ nextProp[k] = Null
    /\ \A o \in Owners, k \in Written : propRef[o] = nextProp[k] => propRef[o] = Null
    /\ \A k \in Written : nextProp[k] # Null => k < nextProp[k]

(* A crash loses at most the newest property: every older block can be     *)
(* reached on disk, although the addresses that lead to the blocks are     *)
(* written after them and one of them, the last, is not even flushed.      *)
NoLinkLost ==
    \A l \in Written :
        \/ \E o \in Owners : propRef[o] = l
        \/ \E k \in Written : nextProp[k] = l
        \/ l = nextPropertyIndex - 1 /\ (unflushed # Null \/ pc = "setRef")

(* An ID longer than the label field is found by NodeBlock::get as soon as  *)
(* save has returned, and from then on: it is the first property of the    *)
(* node, in front of any property called "label" that the stream brings    *)
(* later.  While save is between its writes the node has no name.  Nothing *)
(* is said of IDs that save puts into the field; there one of exactly      *)
(* LABEL_SIZE characters has no terminator, where NodeBlock.h promises it  *)
(* a property, and get reads on behind the field.                          *)
LongIdsReadable ==
    \A n \in saved : ~isSmallLabel(n) =>
        \/ pc \in {"create", "setRef"} /\ target = "saved" /\ copies["saved"].owner = n
        \/ propRef[n] # Null /\ property[propRef[n]] = [name |-> LabelName, value |-> n]

(***************************************************************************)
(* The strengthening that makes these invariants inductive.  It holds when *)
(* no edge of the stream is a self-loop of a node without properties.      *)
(***************************************************************************)
NoShortLoops == \A e \in Edges : e[1] = e[2] => ~isSmallLabel(e[1])

(* No reference on disk leads to the block.                                *)
Unreferred(l) ==
    /\ \A o \in Owners : propRef[o] # l
    /\ \A k \in LinkIndexes : nextProp[k] # l

(* References lead to counted blocks, those of blocks forward.             *)
RefsAreWritten ==
    /\ \A o \in Owners : propRef[o] \in Written \cup {Null}
    /\ \A k \in LinkIndexes : nextProp[k] # Null => nextProp[k] \in Written /\ k < nextProp[k]

(* What waits in the buffer is the address of the newest block, which no    *)
(* other reference leads to, for a block that is the tail of its list.     *)
BufferHoldsNewest ==
    unflushed # Null =>
        /\ pc \in {"idle", "adding", "create"}
        /\ unflushed + 1 < nextPropertyIndex
        /\ nextProp[unflushed] = Null
        /\ Unreferred(nextPropertyIndex - 1)

(* A call of addProperty has its arguments and room for one more block.     *)
CallIsPrepared ==
    /\ pc \in {"create", "insert", "chain"} => Room
    /\ pc \in {"create", "setRef", "insert", "chain"} => name \in Names /\ value \in Data
    /\ pc \in {"setRef", "insert", "chain"} => cursor # Null

(* The link the call stands on, and the one it has created.                *)
CursorIsWritten ==
    /\ pc = "create" => copies[target].ref = Null
    /\ pc \in {"setRef", "insert", "chain"} => cursor \in Written /\ unflushed = Null
    /\ pc = "chain" => nextProp[cursor] = Null
    /\ pc = "setRef" => /\ cursor = nextPropertyIndex - 1
                        /\ Unreferred(cursor)
                        /\ property[cursor] = [name |-> name, value |-> value]
                        /\ copies[target].ref = cursor

(* The owners whose blocks are in the files.                               *)
Stored == saved \cup {r \in Relations : ends[r] # {}}

(* The copies the call has yet to work with.                               *)
Pending ==
    CASE target = "relation" -> {"relation", "source", "destination"}
      [] target = "source" -> {"source", "destination"}
      [] OTHER -> {target}

(* A copy that knows of no list is right: its owner has none on disk, and   *)
(* no other such copy is of the same owner.                                *)
CopiesAreFresh ==
    /\ pc = "idle" => copies = NoCopies /\ target = "saved"
    /\ target # "saved" => copies["saved"].owner = NoOwner
    /\ pc # "idle" => \A t \in Pending :
          /\ copies[t].owner \in Stored
          /\ copies[t].ref \in Written \cup {Null}
          /\ copies[t].ref = Null \/ (pc = "setRef" /\ t = target) =>
                /\ propRef[copies[t].owner] = Null
                /\ \A u \in Pending \ {t} :
                      copies[u].ref = Null => copies[u].owner # copies[t].owner
    /\ \A o \in Owners \ Stored : propRef[o] = Null

IdsAreFirst ==
    \A n \in saved : ~isSmallLabel(n) =>
        \/ /\ pc \in {"create", "setRef"}
           /\ target = "saved"
           /\ copies["saved"].owner = n
           /\ name = LabelName
           /\ value = n
        \/ propRef[n] # Null /\ property[propRef[n]] = [name |-> LabelName, value |-> n]

StoreInv ==
    /\ CallIsPrepared
    /\ NoSharedLinks
    /\ NoLinkLost
    /\ RefsAreWritten
    /\ BufferHoldsNewest
    /\ CursorIsWritten
    /\ CopiesAreFresh
    /\ IdsAreFirst

(* Every block that counts has a value, and so has the one that is about    *)
(* to: a list that leads to it shows it.                                   *)
ValuesAreData ==
    /\ \A l \in Written : property[l].value \in Data
    /\ pc = "chain" => property[nextPropertyIndex] = [name |-> name, value |-> value]

(* A copy goes on with a link of its owner's list, wherever in the list it  *)
(* was left; so does the call that started from it.                        *)
CopiesOnLists ==
    /\ pc # "idle" => \A t \in Pending :
          copies[t].ref # Null /\ ~(pc = "setRef" /\ t = target) =>
              copies[t].ref \in LinksOf(propRef[copies[t].owner], Flushed)
    /\ pc \in {"insert", "chain"} => cursor \in LinksOf(propRef[copies[target].owner], nextProp)

(* What a reader of the files has seen of a list stays as it was: a next    *)
(* address is written once, a block that has been counted never again, and *)
(* an owner's reference only while it is empty.                            *)
WritesOnce ==
    /\ \A l \in Written : /\ property'[l] = property[l]
                          /\ nextProp[l] # Null => nextProp'[l] = nextProp[l]
    /\ \A o \in Owners : propRef[o] # Null => propRef'[o] = propRef[o]

PublishedIsImmutable == [][WritesOnce]_vars

(* addProperty keeps its promise: when it returns, the writer's stream      *)
(* shows a property of that name in the list of the node or the relation   *)
(* whose copy it was called on, from the head its block refers to.         *)
CallStoresProperty ==
    [][pc \notin {"idle", "adding"} /\ pc' = "adding" =>
          (ReadFrom(propRef[copies[target].owner], Flushed, name) # NoValue)']_vars

(* insert ends: its recursion cannot run around a list for ever.           *)
AddPropertyReturns == pc \notin {"idle", "adding"} ~> pc \in {"idle", "adding"}

(* The files refine write-once maps: a step makes at most one property of   *)
(* one owner readable, and no value that was read changes or disappears.   *)
Map == INSTANCE PropertyMap WITH
    properties <- [o \in Owners |-> [n \in Names |-> ReadFrom(propRef[o], nextProp, n)]]

ImplementsMap == Map!MapSpec

-----------------------------------------------------------------------------
(* What the source's comments say, and the code does not do.               *)

(* NodeBlock::addProperty: "If it was an empty prop link before inserting,  *)
(* Then update the property reference of this node block".                 *)
ReferenceUpdatedIfEmpty ==
    [][\A n \in Nodes : propRef'[n] # propRef[n] => propRef[n] = Null]_vars
=============================================================================
