------------------------ MODULE PropertyStoreProofs ------------------------
(***************************************************************************)
(* Proofs about PropertyStore, for every set of nodes, relations, names,   *)
(* values and edges and every capacity of the file: types, the shape of    *)
(* the lists, and, by induction along them, what their readers see: the    *)
(* refinement of PropertyMap and the promise of addProperty.               *)
(***************************************************************************)
EXTENDS PropertyStore, LinkRecursion, TLAPS

TypeInv == TypeOK /\ CallIsPrepared

(* The program starts with an empty file and no call.                      *)
LEMMA InitTyped == Init => TypeInv
<1> SUFFICES ASSUME Init PROVE TypeInv
  OBVIOUS
<1>1. NoCopies \in [Targets -> [owner : Owners \cup {NoOwner}, ref : LinkRefs]]
  BY DEF NoCopies, LinkRefs
<1>2. Blank \in [name : Names, value : Data \cup {NoValue}]
  BY NamesAssumption DEF Blank
<1>3. TypeOK
  BY <1>1, <1>2, InputAssumption DEF Init, TypeOK, LinkRefs, LinkIndexes, Targets
<1>4. CallIsPrepared
  BY DEF Init, CallIsPrepared
<1> QED
  BY <1>3, <1>4 DEF TypeInv

(* What the buffer holds, if anything, is the address of a counted block.   *)
LEMMA FlushedTyped ==
    ASSUME TypeOK
    PROVE  Flushed \in [LinkIndexes -> LinkRefs]
BY InputAssumption DEF TypeOK, Flushed, LinkRefs, LinkIndexes, Null

(* The copy a call works with gets an address within the file.             *)
LEMMA setCopyRefTyped ==
    ASSUME TypeOK, NEW l \in LinkRefs, setCopyRef(l)
    PROVE  copies' \in [Targets -> [owner : Owners \cup {NoOwner}, ref : LinkRefs]]
BY DEF TypeOK, setCopyRef

(* A block written at the counter is within the file.                      *)
LEMMA writeLinkTyped ==
    ASSUME TypeOK, Room, name \in Names, value \in Data, writeLink
    PROVE  /\ property' \in [LinkIndexes -> [name : Names, value : Data \cup {NoValue}]]
           /\ nextProp' \in [LinkIndexes -> LinkRefs]
           /\ unflushed' = Null
           /\ nextPropertyIndex \in LinkIndexes
<1>1. nextPropertyIndex \in LinkIndexes
  BY InputAssumption DEF TypeOK, Room, LinkIndexes
<1>2. [name |-> name, value |-> value] \in [name : Names, value : Data \cup {NoValue}]
  OBVIOUS
<1>3. property' \in [LinkIndexes -> [name : Names, value : Data \cup {NoValue}]]
  BY <1>1, <1>2 DEF writeLink, TypeOK
<1>4. nextProp' \in [LinkIndexes -> LinkRefs]
  BY <1>1, FlushedTyped DEF writeLink, LinkRefs
<1> QED
  BY <1>1, <1>3, <1>4 DEF writeLink

(* Every step keeps the types and the arguments of the call.               *)
LEMMA NextTyped == TypeInv /\ [Next]_vars => TypeInv'
<1> SUFFICES ASSUME TypeInv, [Next]_vars PROVE TypeInv'
  OBVIOUS
<1> USE DEF TypeInv
<1>n. Null \in LinkRefs /\ LinkIndexes \subseteq LinkRefs
  BY DEF LinkRefs
<1>c. NoCopies \in [Targets -> [owner : Owners \cup {NoOwner}, ref : LinkRefs]]
  BY <1>n DEF NoCopies
<1>1. ASSUME NEW n \in Nodes, SaveNode(n) PROVE TypeInv'
  <2>1. [NoCopies EXCEPT !["saved"] = [owner |-> n, ref |-> Null]]
            \in [Targets -> [owner : Owners \cup {NoOwner}, ref : LinkRefs]]
    BY <1>c, <1>n DEF Owners
  <2>2. TypeOK'
    BY <1>1, <2>1, NamesAssumption DEF SaveNode, TypeOK, file, call, Targets, Data
  <2>3. CallIsPrepared'
    BY <1>1, NamesAssumption DEF SaveNode, CallIsPrepared, Room, file, call, Data
  <2> QED
    BY <2>2, <2>3
<1>2. ASSUME NEW r \in Relations, NEW e \in Edges, StoreRelation(r, e[1], e[2]) PROVE TypeInv'
  <2>1. e[1] \in Nodes /\ e[2] \in Nodes
    BY InputAssumption
  <2>2. copies' \in [Targets -> [owner : Owners \cup {NoOwner}, ref : LinkRefs]]
    BY <1>2, <2>1, <1>n DEF StoreRelation, TypeOK, Owners, Targets
  <2>3. TypeOK'
    BY <1>2, <2>1, <2>2 DEF StoreRelation, TypeOK, file, Targets
  <2>4. CallIsPrepared'
    BY <1>2 DEF StoreRelation, CallIsPrepared
  <2> QED
    BY <2>3, <2>4
<1>3. ASSUME NEW n \in Names, NEW v \in Values, AddProperty(n, v) PROVE TypeInv'
  <2>1. copies[target].ref \in LinkRefs
    BY DEF TypeOK
  <2>2. TypeOK'
    BY <1>3, <2>1, <1>n, FlushedTyped DEF AddProperty, TypeOK, file, owners, Data
  <2>3. CallIsPrepared'
    BY <1>3 DEF AddProperty, CallIsPrepared, Room, file, Data
  <2> QED
    BY <2>2, <2>3
<1>4. CASE NextTarget
  <2>1. TargetAfter(target) \in Targets
    BY DEF TargetAfter, Targets
  <2>2. TypeOK'
    BY <1>4, <1>n, <1>c, <2>1 DEF NextTarget, TypeOK, file, owners, Targets
  <2>3. CallIsPrepared'
    BY <1>4 DEF NextTarget, CallIsPrepared
  <2> QED
    BY <2>2, <2>3
<1>5. CASE CreateLink
  <2>1. Room /\ name \in Names /\ value \in Data
    BY <1>5 DEF CreateLink, CallIsPrepared
  <2>2. /\ property' \in [LinkIndexes -> [name : Names, value : Data \cup {NoValue}]]
        /\ nextProp' \in [LinkIndexes -> LinkRefs]
        /\ unflushed' = Null
        /\ nextPropertyIndex \in LinkIndexes
    BY <1>5, <2>1, writeLinkTyped DEF CreateLink
  <2>3. copies' \in [Targets -> [owner : Owners \cup {NoOwner}, ref : LinkRefs]]
    BY <1>5, <2>2, <1>n, setCopyRefTyped DEF CreateLink
  <2>4. nextPropertyIndex' \in 1 .. (MaxLinks + 1)
    BY <1>5, <2>2, InputAssumption DEF CreateLink, LinkIndexes
  <2>5. TypeOK'
    BY <1>5, <1>n, <2>2, <2>3, <2>4 DEF CreateLink, TypeOK, owners
  <2>6. CallIsPrepared'
    BY <1>5, <2>1, <2>2 DEF CreateLink, CallIsPrepared, LinkIndexes, Null
  <2> QED
    BY <2>5, <2>6
<1>6. CASE SetPropertyRef
  BY <1>6 DEF SetPropertyRef, TypeOK, CallIsPrepared, owners, file, call
<1>7. CASE FindName
  <2>1. copies' \in [Targets -> [owner : Owners \cup {NoOwner}, ref : LinkRefs]]
    BY <1>7, setCopyRefTyped DEF FindName, TypeOK
  <2> QED
    BY <1>7, <2>1 DEF FindName, TypeOK, CallIsPrepared, owners, file
<1>8. CASE FollowNext
  <2>1. nextProp[cursor] \in LinkRefs
    BY <1>8 DEF FollowNext, CallIsPrepared, TypeOK, LinkRefs
  <2> QED
    BY <1>8, <2>1 DEF FollowNext, Follow, TypeOK, CallIsPrepared, Room, owners, file
<1>9. CASE AppendLink
  <2>1. Room /\ name \in Names /\ value \in Data
    BY <1>9 DEF AppendLink, CallIsPrepared
  <2>2. /\ property' \in [LinkIndexes -> [name : Names, value : Data \cup {NoValue}]]
        /\ nextProp' \in [LinkIndexes -> LinkRefs]
        /\ unflushed' = Null
    BY <1>9, <2>1, writeLinkTyped DEF AppendLink
  <2>3. TypeOK'
    BY <1>9, <1>n, <2>2 DEF AppendLink, TypeOK, owners, call
  <2>4. CallIsPrepared'
    BY <1>9, <2>1 DEF AppendLink, CallIsPrepared, Room, call
  <2> QED
    BY <2>3, <2>4
<1>10. CASE ChainLink
  <2>1. nextPropertyIndex \in LinkIndexes
    BY <1>10, InputAssumption DEF ChainLink, CallIsPrepared, Room, TypeOK, LinkIndexes
  <2>2. copies' \in [Targets -> [owner : Owners \cup {NoOwner}, ref : LinkRefs]]
    BY <1>10, <1>n, <2>1, setCopyRefTyped DEF ChainLink
  <2>3. nextPropertyIndex' \in 1 .. (MaxLinks + 1)
    BY <1>10, <2>1, InputAssumption DEF ChainLink, LinkIndexes
  <2>4. TypeOK'
    BY <1>10, <2>2, <2>3 DEF ChainLink, TypeOK, owners
  <2>5. CallIsPrepared'
    BY <1>10 DEF ChainLink, CallIsPrepared
  <2> QED
    BY <2>4, <2>5
<1>11. CASE UNCHANGED vars
  BY <1>11 DEF vars, TypeOK, CallIsPrepared, Room
<1> QED
  BY <1>1, <1>2, <1>3, <1>4, <1>5, <1>6, <1>7, <1>8, <1>9, <1>10, <1>11 DEF Next, Step

(* Every reference on disk and in memory is within the file, every copy is  *)
(* of an owner, whatever the stream carries (self-loops included).         *)
THEOREM TypeCorrect == Spec => []TypeOK
<1>1. Spec => []TypeInv
  BY InitTyped, NextTyped, PTL DEF Spec
<1> QED
  BY <1>1, PTL DEF TypeInv

-----------------------------------------------------------------------------
(***************************************************************************)
(* StoreInv is an inductive invariant of PropertyStore, if no edge of the  *)
(* stream is a self-loop of a node that has no properties when it arrives. *)
(* One lemma for each action; the theorems are at the end.                 *)
(***************************************************************************)

(* The state of the file as the writer's own stream shows it: NoSharedLinks *)
(* and NoLinkLost, without the link that waits in the buffer.              *)
ForwardIn(next) == \A k \in LinkIndexes : next[k] # Null => next[k] \in Written /\ k < next[k]

UnsharedIn(next) ==
    /\ \A k, l \in LinkIndexes : next[k] = next[l] => k = l \/ next[k] = Null
    /\ \A o \in Owners, k \in LinkIndexes : propRef[o] = next[k] => propRef[o] = Null

CompleteIn(next) ==
    \A l \in Written : \/ \E o \in Owners : propRef[o] = l
                       \/ \E k \in Written : next[k] = l

(* The counted blocks are within the file.                                  *)
LEMMA WrittenIndexes ==
    ASSUME TypeOK
    PROVE  /\ Written \subseteq LinkIndexes
           /\ Null \notin Written
           /\ nextPropertyIndex \in Nat
           /\ MaxLinks \in Nat
BY InputAssumption DEF TypeOK, Written, LinkIndexes, Null

(* What a seek leaves in the file.                                         *)
LEMMA FlushedIsExact ==
    ASSUME TypeInv, StoreInv, pc # "setRef"
    PROVE  /\ ForwardIn(Flushed) /\ UnsharedIn(Flushed) /\ CompleteIn(Flushed)
           /\ Flushed \in [LinkIndexes -> LinkRefs]
           /\ \A k \in LinkIndexes : nextProp[k] # Null => Flushed[k] = nextProp[k]
<1>t. TypeOK /\ NoSharedLinks /\ NoLinkLost /\ RefsAreWritten /\ BufferHoldsNewest
  BY DEF TypeInv, StoreInv
<1>w. /\ Written \subseteq LinkIndexes /\ Null \notin Written
      /\ nextPropertyIndex \in Nat /\ MaxLinks \in Nat
  BY <1>t, WrittenIndexes
<1>f. \A k \in LinkIndexes : nextProp[k] # Null => k \in Written
  BY <1>t, <1>w DEF RefsAreWritten, Written, LinkIndexes
<1>1. CASE unflushed = Null
  <2>1. Flushed = nextProp
    BY <1>1 DEF Flushed
  <2>2. ForwardIn(nextProp)
    BY <1>t DEF RefsAreWritten, ForwardIn
  <2>3. UnsharedIn(nextProp)
    BY <1>t, <1>f DEF NoSharedLinks, UnsharedIn
  <2>4. CompleteIn(nextProp)
    BY <1>t, <1>1 DEF NoLinkLost, CompleteIn
  <2> QED
    BY <1>t, <2>1, <2>2, <2>3, <2>4 DEF TypeOK
<1>2. CASE unflushed # Null
  <2> DEFINE last == nextPropertyIndex - 1
  <2>1. /\ unflushed \in LinkIndexes /\ unflushed < last /\ last \in Written /\ unflushed \in Written
        /\ nextProp[unflushed] = Null /\ Unreferred(last)
    BY <1>2, <1>t, <1>w DEF BufferHoldsNewest, TypeOK, LinkRefs, LinkIndexes, Written, Null
  <2>2. \A k \in LinkIndexes : Flushed[k] = IF k = unflushed THEN last ELSE nextProp[k]
    BY <1>2, <1>t DEF Flushed, TypeOK
  <2>3. ForwardIn(Flushed)
    BY <2>1, <2>2, <1>t DEF ForwardIn, RefsAreWritten
  <2>4. UnsharedIn(Flushed)
    BY <2>1, <2>2, <1>t, <1>f DEF UnsharedIn, NoSharedLinks, Unreferred
  <2>5. CompleteIn(Flushed)
    <3> SUFFICES ASSUME NEW l \in Written
                 PROVE  (\E o \in Owners : propRef[o] = l) \/ (\E k \in Written : Flushed[k] = l)
      BY DEF CompleteIn
    <3>1. CASE l = last
      BY <2>1, <2>2, <3>1
    <3>2. CASE \E o \in Owners : propRef[o] = l
      BY <3>2
    <3>3. CASE \E k \in Written : nextProp[k] = l
      <4>1. PICK k \in Written : nextProp[k] = l
        BY <3>3
      <4>2. k # unflushed /\ k \in LinkIndexes
        BY <4>1, <2>1, <1>w
      <4> QED
        BY <4>1, <4>2, <2>2
    <3> QED
      BY <1>t, <3>1, <3>2, <3>3 DEF NoLinkLost
  <2> QED
    BY <2>1, <2>2, <2>3, <2>4, <2>5, <1>t, FlushedTyped
<1> QED
  BY <1>1, <1>2

-----------------------------------------------------------------------------
(* The empty files satisfy the invariant.                                  *)
LEMMA InitLists == Init => StoreInv
<1> SUFFICES ASSUME Init PROVE StoreInv
  OBVIOUS
<1>1. TypeInv
  BY InitTyped
<1>2. Written = {}
  BY DEF Init, Written
<1>3. NoSharedLinks /\ NoLinkLost /\ RefsAreWritten
  BY <1>2 DEF Init, NoSharedLinks, NoLinkLost, RefsAreWritten
<1>4. BufferHoldsNewest /\ CursorIsWritten /\ IdsAreFirst
  BY DEF Init, BufferHoldsNewest, CursorIsWritten, IdsAreFirst
<1>5. CopiesAreFresh
  BY DEF Init, CopiesAreFresh, Owners
<1> QED
  BY <1>1, <1>3, <1>4, <1>5 DEF StoreInv, TypeInv

(* A new node has no properties: its copy is the only one, and fresh.       *)
LEMMA SaveNodeKeepsLists ==
    ASSUME TypeInv, StoreInv, NEW n \in Nodes, SaveNode(n)
    PROVE  StoreInv'
<1>t. TypeInv'
  BY NextTyped DEF Next
<1> USE DEF StoreInv
<1>1. NoSharedLinks' /\ NoLinkLost' /\ RefsAreWritten'
  BY DEF SaveNode, file, NoSharedLinks, NoLinkLost, RefsAreWritten, Written
<1>2. BufferHoldsNewest'
  BY DEF SaveNode, file, BufferHoldsNewest, Unreferred
<1>3. CursorIsWritten'
  BY DEF SaveNode, file, call, CursorIsWritten, NoCopies, Targets
<1>4. CopiesAreFresh'
  <2>1. CASE isSmallLabel(n)
    BY <2>1 DEF SaveNode, file, call, CopiesAreFresh, Stored, Pending, Written
  <2>2. CASE ~isSmallLabel(n)
    <3>1. /\ pc' = "create" /\ target' = "saved" /\ propRef' = propRef /\ ends' = ends
          /\ copies'["saved"] = [owner |-> n, ref |-> Null] /\ saved' = saved \cup {n}
      BY <2>2 DEF SaveNode, NoCopies, Targets
    <3>2. propRef[n] = Null
      BY OwnersAssumption DEF SaveNode, CopiesAreFresh, Stored, Owners
    <3>3. Pending' = {"saved"}
      BY <3>1 DEF Pending
    <3> QED
      BY <3>1, <3>2, <3>3 DEF CopiesAreFresh, Stored
  <2> QED
    BY <2>1, <2>2
<1>5. IdsAreFirst'
  BY DEF SaveNode, file, call, IdsAreFirst, NoCopies, Targets
<1> QED
  BY <1>t, <1>1, <1>2, <1>3, <1>4, <1>5 DEF TypeInv

(* The copies of the two nodes carry the references on disk; only a self-loop *)
(* could make two of them null for one owner.                              *)
LEMMA StoreRelationKeepsLists ==
    ASSUME TypeInv, StoreInv, NoShortLoops, NEW r \in Relations, NEW e \in Edges,
           StoreRelation(r, e[1], e[2])
    PROVE  StoreInv'
<1>t. TypeInv'
  BY NextTyped DEF Next
<1> USE DEF StoreInv
<1>1. NoSharedLinks' /\ NoLinkLost' /\ RefsAreWritten'
  BY DEF StoreRelation, file, NoSharedLinks, NoLinkLost, RefsAreWritten, Written
<1>2. BufferHoldsNewest'
  BY DEF StoreRelation, file, BufferHoldsNewest, Unreferred
<1>3. CursorIsWritten'
  BY DEF StoreRelation, CursorIsWritten
<1>4. CopiesAreFresh'
  <2> DEFINE s == e[1]
             d == e[2]
  <2>1. s \in Nodes /\ d \in Nodes /\ s \in saved /\ d \in saved
    BY InputAssumption DEF StoreRelation
  <2>2. /\ copies'["relation"] = [owner |-> r, ref |-> Null]
        /\ copies'["source"] = [owner |-> s, ref |-> propRef[s]]
        /\ copies'["destination"] = [owner |-> d, ref |-> propRef[d]]
        /\ copies'["saved"] = [owner |-> NoOwner, ref |-> Null]
    BY DEF StoreRelation, Targets
  <2>3. Pending' = {"relation", "source", "destination"}
    BY DEF StoreRelation, Pending
  <2>4. propRef[r] = Null /\ r # s /\ r # d
    <3>1. r \in Owners \ Stored
      BY OwnersAssumption DEF StoreRelation, Stored, Owners, TypeInv, TypeOK
    <3> QED
      BY <2>1, <3>1, OwnersAssumption DEF CopiesAreFresh
  <2>5. s = d => propRef[s] # Null
    BY <2>1 DEF StoreRelation, IdsAreFirst, NoShortLoops
  <2>6. /\ propRef' = propRef /\ pc' = "adding" /\ target' = "relation"
        /\ Stored' = Stored \cup {r} /\ Written' = Written
    BY <2>1 DEF StoreRelation, TypeInv, TypeOK, file, Written, Stored
  <2>7. \A o \in Owners : propRef[o] \in Written \cup {Null}
    BY DEF RefsAreWritten
  <2>8. \A t \in Pending' : /\ copies'[t].owner \in Stored'
                            /\ copies'[t].ref \in Written \cup {Null}
    BY <2>1, <2>2, <2>3, <2>6, <2>7 DEF Owners, Stored
  <2>9. ASSUME NEW t \in Pending', copies'[t].ref = Null
        PROVE  /\ propRef[copies'[t].owner] = Null
               /\ \A u \in Pending' \ {t} :
                     copies'[u].ref = Null => copies'[u].owner # copies'[t].owner
    BY <2>2, <2>3, <2>4, <2>5, <2>9
  <2> QED
    BY <2>2, <2>6, <2>8, <2>9 DEF CopiesAreFresh
<1>5. IdsAreFirst'
  BY DEF StoreRelation, file, IdsAreFirst
<1> QED
  BY <1>t, <1>1, <1>2, <1>3, <1>4, <1>5 DEF TypeInv

(* Beginning an insertion flushes the buffer, and nothing else.            *)
LEMMA AddPropertyKeepsLists ==
    ASSUME TypeInv, StoreInv, NEW n \in Names, NEW v \in Values, AddProperty(n, v)
    PROVE  StoreInv'
<1>t. TypeInv'
  BY NextTyped DEF Next
<1>p. pc = "adding" /\ propRef' = propRef /\ saved' = saved /\ ends' = ends
  BY DEF AddProperty, owners
<1>w. /\ Written \subseteq LinkIndexes /\ Null \notin Written
      /\ nextPropertyIndex \in Nat /\ MaxLinks \in Nat
  BY WrittenIndexes DEF TypeInv
<1>i. Written' = Written /\ property' = property /\ copies' = copies /\ target' = target
  BY DEF AddProperty, file, Written
<1>1. NoSharedLinks' /\ NoLinkLost' /\ RefsAreWritten' /\ BufferHoldsNewest'
  <2>1. CASE copies[target].ref = Null
    BY <2>1 DEF AddProperty, file, owners, StoreInv, NoSharedLinks, NoLinkLost, RefsAreWritten,
                BufferHoldsNewest, Unreferred, Written
  <2>2. CASE copies[target].ref # Null
    <3>1. nextProp' = Flushed /\ unflushed' = Null
      BY <2>2 DEF AddProperty
    <3>2. ForwardIn(Flushed) /\ UnsharedIn(Flushed) /\ CompleteIn(Flushed)
      BY <1>p, FlushedIsExact
    <3>3. NoSharedLinks'
      BY <3>1, <3>2, <1>p, <1>i, <1>w DEF ForwardIn, UnsharedIn, NoSharedLinks, StoreInv
    <3>4. NoLinkLost'
      BY <3>1, <3>2, <1>p, <1>i DEF CompleteIn, NoLinkLost
    <3>5. RefsAreWritten'
      BY <3>1, <3>2, <1>p, <1>i DEF ForwardIn, RefsAreWritten, StoreInv
    <3> QED
      BY <3>1, <3>3, <3>4, <3>5 DEF BufferHoldsNewest
  <2> QED
    BY <2>1, <2>2
<1>2. CursorIsWritten'
  <2>1. copies[target].ref \in Written \cup {Null}
    BY <1>p DEF StoreInv, CopiesAreFresh, AddProperty, Pending, TypeInv, TypeOK, Targets
  <2> QED
    BY <2>1, <1>i DEF AddProperty, CursorIsWritten
<1>3. CopiesAreFresh'
  <2>1. Pending' = Pending
    BY <1>i DEF Pending
  <2>2. pc' \notin {"idle", "setRef"}
    BY DEF AddProperty
  <2> QED
    BY <2>1, <2>2, <1>p, <1>i DEF StoreInv, CopiesAreFresh, Stored
<1>4. IdsAreFirst'
  BY <1>p, <1>i DEF StoreInv, IdsAreFirst
<1> QED
  BY <1>t, <1>1, <1>2, <1>3, <1>4 DEF StoreInv, TypeInv

(* The copies main is through with are not looked at again.                *)
LEMMA NextTargetKeepsLists ==
    ASSUME TypeInv, StoreInv, NextTarget
    PROVE  StoreInv'
<1>t. TypeInv'
  BY NextTyped DEF Next
<1> USE DEF StoreInv
<1>1. NoSharedLinks' /\ NoLinkLost' /\ RefsAreWritten'
  BY DEF NextTarget, file, NoSharedLinks, NoLinkLost, RefsAreWritten, Written
<1>2. BufferHoldsNewest' /\ CursorIsWritten' /\ IdsAreFirst'
  BY DEF NextTarget, file, owners, BufferHoldsNewest, Unreferred, CursorIsWritten, IdsAreFirst
<1>3. CopiesAreFresh'
  <2>1. CASE target \in {"relation", "source"}
    <3>1. Pending' \subseteq Pending /\ target # "saved" /\ target' # "saved"
      BY <2>1 DEF NextTarget, Pending, TargetAfter
    <3>2. /\ pc = "adding" /\ pc' = "adding" /\ copies' = copies /\ propRef' = propRef
          /\ saved' = saved /\ ends' = ends /\ Written' = Written
      BY <2>1 DEF NextTarget, owners, file, Written
    <3> QED
      BY <3>1, <3>2 DEF CopiesAreFresh, Stored
  <2>2. CASE target \notin {"relation", "source"}
    BY <2>2 DEF NextTarget, owners, CopiesAreFresh, Stored
  <2> QED
    BY <2>1, <2>2
<1> QED
  BY <1>t, <1>1, <1>2, <1>3 DEF TypeInv

(* A first link is written where no reference leads.                       *)
LEMMA CreateLinkKeepsLists ==
    ASSUME TypeInv, StoreInv, CreateLink
    PROVE  StoreInv'
<1>t. TypeInv'
  BY NextTyped DEF Next, Step
<1>p. /\ pc = "create" /\ pc' = "setRef" /\ propRef' = propRef /\ saved' = saved /\ ends' = ends
      /\ target' = target /\ name' = name /\ value' = value
      /\ cursor' = nextPropertyIndex /\ nextPropertyIndex' = nextPropertyIndex + 1
      /\ unflushed' = Null
  BY DEF CreateLink, owners, writeLink
<1>w. /\ Written \subseteq LinkIndexes /\ Null \notin Written
      /\ nextPropertyIndex \in Nat /\ MaxLinks \in Nat
  BY WrittenIndexes DEF TypeInv
<1>i. /\ nextPropertyIndex \in LinkIndexes
      /\ nextPropertyIndex \notin Written
      /\ Written' = Written \cup {nextPropertyIndex}
      /\ \A l \in Written : l < nextPropertyIndex
      /\ nextPropertyIndex # Null
  BY <1>p, <1>w DEF StoreInv, CallIsPrepared, Room, LinkIndexes, Written, TypeInv, TypeOK, Null
<1>f. /\ ForwardIn(Flushed) /\ UnsharedIn(Flushed) /\ CompleteIn(Flushed)
      /\ Flushed \in [LinkIndexes -> LinkRefs]
  BY <1>p, FlushedIsExact
<1>n. nextProp' = Flushed
  <2>1. Flushed[nextPropertyIndex] = Null
    BY <1>f, <1>i DEF ForwardIn, LinkIndexes, Written
  <2> QED
    BY <2>1, <1>f, <1>i DEF CreateLink, writeLink
<1>r. \A o \in Owners : propRef[o] \in Written \cup {Null}
  BY DEF StoreInv, RefsAreWritten
<1>1. NoSharedLinks'
  BY <1>f, <1>i, <1>n, <1>p, <1>w DEF ForwardIn, UnsharedIn, NoSharedLinks, StoreInv
<1>2. NoLinkLost'
  BY <1>f, <1>i, <1>n, <1>p, <1>w DEF CompleteIn, NoLinkLost
<1>3. RefsAreWritten'
  BY <1>f, <1>i, <1>n, <1>p, <1>r DEF ForwardIn, RefsAreWritten
<1>4. BufferHoldsNewest'
  BY <1>p DEF BufferHoldsNewest
<1>5. CursorIsWritten'
  <2>1. property'[nextPropertyIndex] = [name |-> name, value |-> value]
    BY <1>i DEF CreateLink, writeLink, TypeInv, TypeOK
  <2>2. Unreferred(cursor)'
    BY <1>f, <1>i, <1>n, <1>p, <1>r DEF ForwardIn, Unreferred
  <2>3. copies'[target].ref = nextPropertyIndex
    BY <1>i DEF CreateLink, setCopyRef, TypeInv, TypeOK
  <2> QED
    BY <2>1, <2>2, <2>3, <1>i, <1>p, <1>w DEF CursorIsWritten
<1>6. CopiesAreFresh'
  <2>1. Pending' = Pending /\ target \in Pending /\ target \in Targets /\ Pending \subseteq Targets
    BY <1>p DEF Pending, Targets, TypeInv, TypeOK
  <2>2. \A t \in Targets : /\ copies'[t].owner = copies[t].owner
                           /\ copies'[t].ref = IF t = target THEN nextPropertyIndex ELSE copies[t].ref
    BY <1>i, <2>1 DEF CreateLink, setCopyRef, TypeInv, TypeOK
  <2>3. copies[target].ref = Null
    BY <1>p DEF StoreInv, CursorIsWritten
  <2>4. copies["saved"].owner = copies'["saved"].owner
    BY <2>2 DEF Targets
  <2> QED
    BY <1>p, <1>i, <2>1, <2>2, <2>3, <2>4 DEF StoreInv, CopiesAreFresh, Stored
<1>7. IdsAreFirst'
  <2>1. \A l \in Written : property'[l] = property[l]
    BY <1>i, <1>w DEF CreateLink, writeLink, TypeInv, TypeOK
  <2>2. copies'["saved"].owner = copies["saved"].owner
    BY <1>i DEF CreateLink, setCopyRef, TypeInv, TypeOK, Targets
  <2>3. \A n \in saved : propRef[n] \in Written \cup {Null}
    BY <1>r DEF TypeInv, TypeOK, Owners
  <2> QED
    BY <1>p, <2>1, <2>2, <2>3 DEF StoreInv, IdsAreFirst
<1> QED
  BY <1>t, <1>1, <1>2, <1>3, <1>4, <1>5, <1>6, <1>7 DEF StoreInv, TypeInv

(* The owner had no list: the reference is written over a null one.        *)
LEMMA SetPropertyRefKeepsLists ==
    ASSUME TypeInv, StoreInv, SetPropertyRef
    PROVE  StoreInv'
<1>t. TypeInv'
  BY NextTyped DEF Next, Step
<1> DEFINE owner == copies[target].owner
<1>p. /\ pc = "setRef" /\ pc' = "adding" /\ saved' = saved /\ ends' = ends
      /\ target' = target /\ name' = name /\ value' = value /\ copies' = copies
      /\ cursor' = cursor /\ nextPropertyIndex' = nextPropertyIndex /\ Written' = Written
      /\ unflushed' = unflushed /\ nextProp' = nextProp /\ property' = property
  BY DEF SetPropertyRef, owners, file, call, Written
<1>w. /\ Written \subseteq LinkIndexes /\ Null \notin Written
      /\ nextPropertyIndex \in Nat /\ MaxLinks \in Nat
  BY WrittenIndexes DEF TypeInv
<1>c. /\ cursor \in Written /\ unflushed = Null /\ cursor = nextPropertyIndex - 1
      /\ Unreferred(cursor) /\ property[cursor] = [name |-> name, value |-> value]
      /\ copies[target].ref = cursor
  BY <1>p DEF StoreInv, CursorIsWritten
<1>o. /\ target \in Pending /\ owner \in Stored /\ owner \in Owners /\ propRef[owner] = Null
      /\ \A u \in Pending \ {target} : copies[u].ref = Null => copies[u].owner # owner
  BY <1>p DEF StoreInv, CopiesAreFresh, Pending, TypeInv, TypeOK, Targets,
                     Stored, Owners
<1>r. \A o \in Owners : propRef'[o] = IF o = owner THEN cursor ELSE propRef[o]
  BY <1>o DEF SetPropertyRef, TypeInv, TypeOK
<1>1. NoSharedLinks'
  BY <1>c, <1>o, <1>p, <1>r, <1>w DEF StoreInv, NoSharedLinks, Unreferred
<1>2. NoLinkLost'
  BY <1>c, <1>o, <1>p, <1>r, <1>w DEF StoreInv, NoLinkLost
<1>3. RefsAreWritten'
  BY <1>c, <1>p, <1>r DEF StoreInv, RefsAreWritten
<1>4. BufferHoldsNewest' /\ CursorIsWritten'
  BY <1>c, <1>p DEF BufferHoldsNewest, CursorIsWritten
<1>5. CopiesAreFresh'
  <2>1. Pending' = Pending /\ Stored' = Stored
    BY <1>p DEF Pending, Stored
  <2>2. \A u \in Pending \ {target} : copies[u].ref = Null => propRef'[copies[u].owner] = Null
    BY <1>p, <1>o, <1>r DEF StoreInv, CopiesAreFresh, Stored, Owners, TypeInv, TypeOK
  <2> QED
    BY <1>p, <1>o, <1>r, <1>c, <1>w, <2>1, <2>2 DEF StoreInv, CopiesAreFresh
<1>6. IdsAreFirst'
  <2> SUFFICES ASSUME NEW n \in saved, ~isSmallLabel(n)
               PROVE  /\ propRef'[n] # Null
                      /\ property[propRef'[n]] = [name |-> LabelName, value |-> n]
    BY <1>p DEF IdsAreFirst
  <2>1. n \in Owners
    BY DEF TypeInv, TypeOK, Owners
  <2>2. CASE target = "saved" /\ owner = n /\ name = LabelName /\ value = n
    BY <2>1, <2>2, <1>c, <1>r, <1>w
  <2>3. CASE propRef[n] # Null /\ property[propRef[n]] = [name |-> LabelName, value |-> n]
    BY <2>1, <2>3, <1>o, <1>r
  <2> QED
    BY <2>2, <2>3, <1>p DEF StoreInv, IdsAreFirst
<1> QED
  BY <1>t, <1>1, <1>2, <1>3, <1>4, <1>5, <1>6 DEF StoreInv, TypeInv

(* What the last step of an insertion does to the copies.                  *)
LEMMA CopyRefKeepsFresh ==
    ASSUME TypeInv, CopiesAreFresh, NEW l \in LinkIndexes, setCopyRef(l), l \in Written',
           Written \subseteq Written', pc \notin {"idle", "setRef"}, pc' = "adding",
           target' = target, propRef' = propRef, saved' = saved, ends' = ends, Null \notin Written'
    PROVE  CopiesAreFresh'
<1>1. /\ Pending' = Pending /\ target \in Pending /\ Pending \subseteq Targets
      /\ Stored' = Stored /\ target \in Targets
  BY DEF Pending, Targets, Stored, TypeInv, TypeOK
<1>2. \A t \in Targets : /\ copies'[t].owner = copies[t].owner
                         /\ copies'[t].ref = IF t = target THEN l ELSE copies[t].ref
  BY <1>1 DEF setCopyRef, TypeInv, TypeOK
<1>3. copies'["saved"].owner = copies["saved"].owner
  BY <1>2 DEF Targets
<1> QED
  BY <1>1, <1>2, <1>3 DEF CopiesAreFresh

(* A name found only moves the copy's reference along the list.            *)
LEMMA FindNameKeepsLists ==
    ASSUME TypeInv, StoreInv, FindName
    PROVE  StoreInv'
<1>t. TypeInv'
  BY NextTyped DEF Next, Step
<1>p. /\ pc = "insert" /\ pc' = "adding" /\ setCopyRef(cursor) /\ target' = target
      /\ propRef' = propRef /\ saved' = saved /\ ends' = ends
      /\ property' = property /\ nextProp' = nextProp /\ unflushed' = unflushed
      /\ nextPropertyIndex' = nextPropertyIndex /\ Written' = Written
  BY DEF FindName, owners, file, Written
<1>w. /\ Written \subseteq LinkIndexes /\ Null \notin Written
  BY WrittenIndexes DEF TypeInv
<1>1. NoSharedLinks' /\ NoLinkLost' /\ RefsAreWritten'
  BY <1>p DEF StoreInv, NoSharedLinks, NoLinkLost, RefsAreWritten
<1>2. BufferHoldsNewest' /\ CursorIsWritten'
  BY <1>p DEF StoreInv, BufferHoldsNewest, CursorIsWritten, Unreferred
<1>3. CopiesAreFresh'
  BY <1>p, <1>w, CopyRefKeepsFresh DEF StoreInv, CursorIsWritten
<1>4. IdsAreFirst'
  BY <1>p DEF StoreInv, IdsAreFirst
<1> QED
  BY <1>t, <1>1, <1>2, <1>3, <1>4 DEF StoreInv, TypeInv

(* The walk goes from a counted block to a counted one.                    *)
LEMMA FollowNextKeepsLists ==
    ASSUME TypeInv, StoreInv, FollowNext
    PROVE  StoreInv'
<1>t. TypeInv'
  BY NextTyped DEF Next, Step
<1>p. /\ pc = "insert" /\ pc' = pc /\ target' = target /\ copies' = copies
      /\ propRef' = propRef /\ saved' = saved /\ ends' = ends
      /\ property' = property /\ nextProp' = nextProp /\ unflushed' = unflushed
      /\ nextPropertyIndex' = nextPropertyIndex /\ Written' = Written
      /\ cursor' = nextProp[cursor] /\ nextProp[cursor] # Null
  BY DEF FollowNext, Follow, owners, file, Written
<1>1. NoSharedLinks' /\ NoLinkLost' /\ RefsAreWritten'
  BY <1>p DEF StoreInv, NoSharedLinks, NoLinkLost, RefsAreWritten
<1>2. BufferHoldsNewest' /\ CursorIsWritten'
  <2>1. cursor \in LinkIndexes
    BY <1>p, WrittenIndexes DEF StoreInv, CursorIsWritten, TypeInv
  <2> QED
    BY <1>p, <2>1 DEF StoreInv, BufferHoldsNewest, CursorIsWritten, Unreferred, RefsAreWritten
<1>3. CopiesAreFresh'
  BY <1>p DEF StoreInv, CopiesAreFresh, Pending, Stored
<1>4. IdsAreFirst'
  BY <1>p DEF StoreInv, IdsAreFirst
<1> QED
  BY <1>t, <1>1, <1>2, <1>3, <1>4 DEF StoreInv, TypeInv

(* A link is written behind the counted ones.                              *)
LEMMA AppendLinkKeepsLists ==
    ASSUME TypeInv, StoreInv, AppendLink
    PROVE  StoreInv'
<1>t. TypeInv'
  BY NextTyped DEF Next, Step
<1>p. /\ pc = "insert" /\ pc' = "chain" /\ target' = target /\ copies' = copies
      /\ propRef' = propRef /\ saved' = saved /\ ends' = ends /\ cursor' = cursor
      /\ nextPropertyIndex' = nextPropertyIndex /\ Written' = Written
      /\ nextProp[cursor] = Null /\ unflushed' = Null
  BY DEF AppendLink, owners, writeLink, call, Written
<1>w. /\ Written \subseteq LinkIndexes /\ Null \notin Written
      /\ nextPropertyIndex \in Nat /\ MaxLinks \in Nat
  BY WrittenIndexes DEF TypeInv
<1>i. nextPropertyIndex \in LinkIndexes /\ nextPropertyIndex \notin Written
  BY <1>p, <1>w DEF StoreInv, CallIsPrepared, Room, LinkIndexes, Written, TypeInv, TypeOK
<1>n. nextProp' = nextProp
  <2>1. Flushed = nextProp
    BY <1>p DEF StoreInv, CursorIsWritten, Flushed
  <2>2. nextProp[nextPropertyIndex] = Null
    BY <1>i, <1>w DEF StoreInv, RefsAreWritten, LinkIndexes, Written
  <2> QED
    BY <1>i, <2>1, <2>2 DEF AppendLink, writeLink, TypeInv, TypeOK
<1>d. \A l \in Written : property'[l] = property[l]
  BY <1>i, <1>w DEF AppendLink, writeLink, TypeInv, TypeOK
<1>u. unflushed = Null
  BY <1>p DEF StoreInv, CursorIsWritten
<1>1. NoSharedLinks' /\ NoLinkLost' /\ RefsAreWritten'
  BY <1>p, <1>n, <1>u DEF StoreInv, NoSharedLinks, NoLinkLost, RefsAreWritten
<1>2. BufferHoldsNewest' /\ CursorIsWritten'
  BY <1>p, <1>n DEF StoreInv, BufferHoldsNewest, CursorIsWritten
<1>3. CopiesAreFresh'
  BY <1>p DEF StoreInv, CopiesAreFresh, Pending, Stored
<1>4. IdsAreFirst'
  <2>1. \A n \in saved : propRef[n] \in Written \cup {Null}
    BY DEF StoreInv, RefsAreWritten, TypeInv, TypeOK, Owners
  <2> QED
    BY <1>p, <1>d, <2>1 DEF StoreInv, IdsAreFirst
<1> QED
  BY <1>t, <1>1, <1>2, <1>3, <1>4 DEF StoreInv, TypeInv

(* The link is counted, and its address waits in the buffer.               *)
LEMMA ChainLinkKeepsLists ==
    ASSUME TypeInv, StoreInv, ChainLink
    PROVE  StoreInv'
<1>t. TypeInv'
  BY NextTyped DEF Next, Step
<1>p. /\ pc = "chain" /\ pc' = "adding" /\ setCopyRef(nextPropertyIndex) /\ target' = target
      /\ propRef' = propRef /\ saved' = saved /\ ends' = ends
      /\ property' = property /\ nextProp' = nextProp /\ unflushed' = cursor
      /\ nextPropertyIndex' = nextPropertyIndex + 1
  BY DEF ChainLink, owners
<1>w. /\ Written \subseteq LinkIndexes /\ Null \notin Written
      /\ nextPropertyIndex \in Nat /\ MaxLinks \in Nat
  BY WrittenIndexes DEF TypeInv
<1>i. /\ nextPropertyIndex \in LinkIndexes
      /\ nextPropertyIndex \notin Written
      /\ Written' = Written \cup {nextPropertyIndex}
      /\ \A l \in Written : l < nextPropertyIndex
      /\ nextPropertyIndex # Null
  BY <1>p, <1>w DEF StoreInv, CallIsPrepared, Room, LinkIndexes, Written, TypeInv, TypeOK, Null
<1>c. cursor \in Written /\ unflushed = Null /\ nextProp[cursor] = Null
  BY <1>p DEF StoreInv, CursorIsWritten
<1>r. Unreferred(nextPropertyIndex)
  BY <1>i DEF StoreInv, RefsAreWritten, Unreferred
<1>1. NoSharedLinks'
  <2>1. nextProp[nextPropertyIndex] = Null
    BY <1>i, <1>w DEF StoreInv, RefsAreWritten, LinkIndexes, Written
  <2> QED
    BY <1>p, <1>i, <2>1 DEF StoreInv, NoSharedLinks
<1>2. NoLinkLost'
  BY <1>p, <1>i, <1>c, <1>w DEF StoreInv, NoLinkLost
<1>3. RefsAreWritten'
  BY <1>p, <1>i DEF StoreInv, RefsAreWritten
<1>4. BufferHoldsNewest' /\ CursorIsWritten'
  <2>1. cursor + 1 < nextPropertyIndex + 1
    BY <1>c, <1>i, <1>w DEF Written
  <2>2. nextPropertyIndex' - 1 = nextPropertyIndex
    BY <1>p, <1>w
  <2>3. BufferHoldsNewest'
    BY <1>p, <1>c, <1>r, <2>1, <2>2 DEF BufferHoldsNewest, Unreferred
  <2> QED
    BY <1>p, <2>3 DEF CursorIsWritten
<1>5. CopiesAreFresh'
  BY <1>p, <1>i, <1>w, CopyRefKeepsFresh DEF StoreInv
<1>6. IdsAreFirst'
  BY <1>p DEF StoreInv, IdsAreFirst
<1> QED
  BY <1>t, <1>1, <1>2, <1>3, <1>4, <1>5, <1>6 DEF StoreInv, TypeInv

(* Every step of the program keeps the invariant.                          *)
LEMMA NextKeepsLists ==
    ASSUME TypeInv, StoreInv, NoShortLoops, [Next]_vars
    PROVE  StoreInv'
<1>1. CASE \E n \in Nodes : SaveNode(n)
  BY <1>1, SaveNodeKeepsLists
<1>2. CASE \E r \in Relations : \E e \in Edges : StoreRelation(r, e[1], e[2])
  BY <1>2, StoreRelationKeepsLists
<1>3. CASE \E n \in Names : \E v \in Values : AddProperty(n, v)
  BY <1>3, AddPropertyKeepsLists
<1>4. CASE NextTarget
  BY <1>4, NextTargetKeepsLists
<1>5. CASE Step
  BY <1>5, CreateLinkKeepsLists, SetPropertyRefKeepsLists, FindNameKeepsLists,
     FollowNextKeepsLists, AppendLinkKeepsLists, ChainLinkKeepsLists DEF Step
<1>6. CASE UNCHANGED vars
  <2>1. /\ CallIsPrepared' = CallIsPrepared /\ NoSharedLinks' = NoSharedLinks
        /\ NoLinkLost' = NoLinkLost /\ RefsAreWritten' = RefsAreWritten
    BY <1>6 DEF vars, CallIsPrepared, Room, NoSharedLinks, NoLinkLost, RefsAreWritten, Written
  <2>2. BufferHoldsNewest' = BufferHoldsNewest /\ CursorIsWritten' = CursorIsWritten
    BY <1>6 DEF vars, BufferHoldsNewest, CursorIsWritten, Unreferred, Written
  <2>3. CopiesAreFresh' = CopiesAreFresh /\ IdsAreFirst' = IdsAreFirst
    BY <1>6 DEF vars, CopiesAreFresh, Pending, Stored, Written, IdsAreFirst
  <2> QED
    BY <2>1, <2>2, <2>3 DEF StoreInv
<1> QED
  BY <1>1, <1>2, <1>3, <1>4, <1>5, <1>6 DEF Next

-----------------------------------------------------------------------------
(* A step writes only where a reader cannot have been: the property blocks   *)
(* that are counted, the next addresses and references that are not null   *)
(* stay as they were.                                                      *)
LEMMA NextWritesOnce ==
    ASSUME TypeInv, StoreInv, [Next]_vars
    PROVE  WritesOnce
<1> USE DEF WritesOnce
<1>w. Written \subseteq LinkIndexes /\ nextPropertyIndex \notin Written
  BY WrittenIndexes DEF TypeInv, Written
<1>f. pc # "setRef" => /\ Flushed \in [LinkIndexes -> LinkRefs]
                       /\ \A k \in LinkIndexes : nextProp[k] # Null => Flushed[k] = nextProp[k]
  BY FlushedIsExact
<1>l. writeLink /\ pc # "setRef" /\ propRef' = propRef => WritesOnce
  BY <1>w, <1>f DEF writeLink, TypeInv, TypeOK
<1>1. CASE \E n \in Nodes : SaveNode(n)
  BY <1>1 DEF SaveNode, file
<1>2. CASE \E r \in Relations : \E e \in Edges : StoreRelation(r, e[1], e[2])
  BY <1>2 DEF StoreRelation, file
<1>3. CASE \E n \in Names : \E v \in Values : AddProperty(n, v)
  BY <1>3, <1>w, <1>f DEF AddProperty, file
<1>4. CASE NextTarget
  BY <1>4 DEF NextTarget, file
<1>5. CASE CreateLink
  <2>1. writeLink /\ pc # "setRef" /\ propRef' = propRef
    BY <1>5 DEF CreateLink
  <2> QED
    BY <2>1, <1>l
<1>6. CASE SetPropertyRef
  <2>1. propRef[copies[target].owner] = Null
    BY <1>6 DEF SetPropertyRef, StoreInv, CopiesAreFresh, Pending, TypeInv, TypeOK, Targets
  <2> QED
    BY <1>6, <2>1 DEF SetPropertyRef, file, TypeInv, TypeOK
<1>7. CASE FindName
  BY <1>7 DEF FindName, file
<1>8. CASE FollowNext
  BY <1>8 DEF FollowNext, file
<1>9. CASE AppendLink
  <2>1. writeLink /\ pc # "setRef" /\ propRef' = propRef
    BY <1>9 DEF AppendLink
  <2> QED
    BY <2>1, <1>l
<1>10. CASE ChainLink
  BY <1>10 DEF ChainLink
<1>11. CASE UNCHANGED vars
  BY <1>11 DEF vars
<1> QED
  BY <1>1, <1>2, <1>3, <1>4, <1>5, <1>6, <1>7, <1>8, <1>9, <1>10, <1>11 DEF Next, Step

-----------------------------------------------------------------------------
(* StoreInv and the types hold always, for every set of nodes, relations    *)
(* and properties, when no edge is a short self-loop.                      *)
LEMMA ListsInvariant == ASSUME NoShortLoops PROVE Spec => [](TypeInv /\ StoreInv)
<1>1. Init => TypeInv /\ StoreInv
  BY InitTyped, InitLists
<1>2. (TypeInv /\ StoreInv) /\ [Next]_vars => (TypeInv /\ StoreInv)'
  BY NextTyped, NextKeepsLists
<1> QED
  BY <1>1, <1>2, PTL DEF Spec

(* The strengthening itself: what every step of addProperty relies on about  *)
(* the references on disk, the stream's buffer and the in-memory copies.   *)
THEOREM ListsAreInvariant == ASSUME NoShortLoops PROVE Spec => []StoreInv
BY ListsInvariant, PTL

(* The lists of two owners never meet and no list is a ring, though main     *)
(* works with copies of references that were read before the lists grew.   *)
THEOREM ListsAreDisjoint == ASSUME NoShortLoops PROVE Spec => []NoSharedLinks
<1>1. TypeInv /\ StoreInv => NoSharedLinks
  BY DEF StoreInv
<1> QED
  BY <1>1, ListsInvariant, PTL

(* All but the newest block can be reached on disk at any time, with one     *)
(* address always left in the stream's buffer.                             *)
THEOREM LinksAreReachable == ASSUME NoShortLoops PROVE Spec => []NoLinkLost
<1>1. TypeInv /\ StoreInv => NoLinkLost
  BY DEF StoreInv
<1> QED
  BY <1>1, ListsInvariant, PTL

(* An ID longer than the label field is the first property NodeBlock::get    *)
(* reads, from the end of save on.                                         *)
THEOREM LongIdsStayReadable == ASSUME NoShortLoops PROVE Spec => []LongIdsReadable
<1>1. TypeInv /\ StoreInv => LongIdsReadable
  BY DEF StoreInv, IdsAreFirst, LongIdsReadable
<1> QED
  BY <1>1, ListsInvariant, PTL

(* Addresses and properties are written once: what a reader has followed     *)
(* does not change under it.                                               *)
THEOREM ListsOnlyGrow == ASSUME NoShortLoops PROVE Spec => PublishedIsImmutable
<1>1. TypeInv /\ StoreInv /\ [Next]_vars => [WritesOnce]_vars
  BY NextWritesOnce
<1> QED
  BY <1>1, ListsInvariant, PTL DEF Spec, PublishedIsImmutable

-----------------------------------------------------------------------------
(* ReadFrom over given contents of the file's blocks.                      *)
ReadOf(blocks, next, ref, n) ==
    LET read[l \in LinkRefs] ==
            CASE l = Null -> NoValue
              [] l # Null /\ blocks[l].name = n -> blocks[l].value
              [] OTHER -> read[next[l]]
    IN  read[ref]

(* The values the property file's two parts may have: links lead forward.  *)
Blocks == [LinkIndexes -> [name : Names, value : Data \cup {NoValue}]]
Nexts  == {next \in [LinkIndexes -> LinkRefs] : \A k \in LinkIndexes : next[k] # Null => k < next[k]}

(* For the contents of the file this is what a reader sees.                *)
LEMMA ReadOfIsReadFrom ==
    ASSUME NEW next, NEW ref, NEW n
    PROVE  ReadFrom(ref, next, n) = ReadOf(property, next, ref, n)
BY DEF ReadFrom, ReadOf

(* The walk ends, and what it returns is the first value under the name:    *)
(* its recursive definition has a solution because links lead forward.     *)
LEMMA ReadOfEquation ==
    ASSUME NEW blocks \in Blocks, NEW next \in Nexts, NEW n
    PROVE  /\ ReadOf(blocks, next, Null, n) = NoValue
           /\ \A l \in LinkIndexes :
                 ReadOf(blocks, next, l, n) =
                     IF blocks[l].name = n THEN blocks[l].value
                     ELSE ReadOf(blocks, next, next[l], n)
<1> DEFINE V == Data \cup {NoValue}
           step == [l \in LinkRefs |-> [v \in V |->
                       IF l # Null /\ blocks[l].name = n THEN blocks[l].value ELSE v]]
           rank == [l \in LinkRefs |-> IF l = Null THEN 0 ELSE MaxLinks + 1 - l]
           body(f) == [l \in LinkRefs |->
                          CASE l = Null -> NoValue
                            [] l # Null /\ blocks[l].name = n -> blocks[l].value
                            [] OTHER -> f[next[l]]]
           read[l \in LinkRefs] ==
               CASE l = Null -> NoValue
                 [] l # Null /\ blocks[l].name = n -> blocks[l].value
                 [] OTHER -> read[next[l]]
<1>1. /\ MaxLinks \in Nat /\ Null = 0
      /\ \A l : l \in LinkIndexes <=> l \in Nat /\ 1 <= l /\ l <= MaxLinks
      /\ \A l : l \in LinkRefs <=> l \in LinkIndexes \/ l = Null
  BY InputAssumption DEF Null, LinkIndexes, LinkRefs
<1>2. \A l \in LinkIndexes : blocks[l].value \in V /\ next[l] \in LinkRefs /\ (next[l] # Null => l < next[l])
  BY DEF Blocks, Nexts
<1>3. IsWalk(LinkRefs, V, Null, NoValue, step, next, rank, MaxLinks)
  <2>1. step \in [LinkRefs -> [V -> V]]
    BY <1>1, <1>2
  <2>2. rank \in [LinkRefs -> Nat] /\ \A l \in LinkRefs : rank[l] <= MaxLinks
    BY <1>1
  <2>3. \A l \in LinkRefs \ {Null} : next[l] \in LinkRefs /\ rank[next[l]] < rank[l]
    BY <1>1, <1>2
  <2> QED
    BY <1>1, <2>1, <2>2, <2>3 DEF IsWalk
<1>4. PICK f \in [LinkRefs -> V] :
          \A l \in LinkRefs : f[l] = IF l = Null THEN NoValue ELSE step[l][f[next[l]]]
  <2>1. HasResults(LinkRefs, V, Null, NoValue, step, next)
    BY <1>3, WalkHasResults
  <2> HIDE DEF step, V
  <2> QED
    BY <2>1 DEF HasResults, Turn
<1>5. \A l \in LinkIndexes : l \in LinkRefs /\ l # Null /\ f[next[l]] \in V
  BY <1>1, <1>2
<1>6. f = body(f)
  BY <1>1, <1>4, <1>5
<1>7. read = CHOOSE g : g = body(g)
  BY DEF read
<1>8. \A ref : ReadOf(blocks, next, ref, n) = read[ref]
  BY DEF ReadOf, read
<1> HIDE DEF read, V
<1>9. read = body(read)
  BY <1>6, <1>7
<1>10. read[Null] = NoValue /\ \A l \in LinkIndexes :
          read[l] = IF blocks[l].name = n THEN blocks[l].value ELSE read[next[l]]
  BY <1>9, <1>1
<1> QED
  BY <1>8, <1>10

(* The links of a list are those a walk from its head meets.               *)
LEMMA LinksFacts ==
    ASSUME NEW next \in Nexts, NEW ref \in LinkRefs
    PROVE  /\ LinksOf(ref, next) \subseteq LinkIndexes
           /\ ref # Null => ref \in LinksOf(ref, next)
           /\ ClosedUnder(LinksOf(ref, next), next)
           /\ \A S \in SUBSET LinkIndexes :
                 ref \in S \cup {Null} /\ ClosedUnder(S, next) => LinksOf(ref, next) \subseteq S
           /\ \A x \in LinksOf(ref, next) :
                 x = ref \/ \E k \in LinksOf(ref, next) : next[k] = x
<1> DEFINE L == LinksOf(ref, next)
<1>0. \A l : l \in L <=> l \in LinkIndexes /\ \A S \in SUBSET LinkIndexes :
                             ref \in S \cup {Null} /\ ClosedUnder(S, next) => l \in S
  BY DEF LinksOf
<1>n. \A k \in LinkIndexes : next[k] # Null => next[k] \in LinkIndexes
  BY DEF Nexts, LinkRefs
<1> HIDE DEF L
<1>1. ref # Null => ref \in L
  BY <1>0 DEF LinkRefs
<1>2. ClosedUnder(L, next)
  BY <1>0, <1>n DEF ClosedUnder
<1>3. \A S \in SUBSET LinkIndexes : ref \in S \cup {Null} /\ ClosedUnder(S, next) => L \subseteq S
  BY <1>0
<1>4. ASSUME NEW x \in L, x # ref, \A k \in L : next[k] # x PROVE FALSE
  <2> DEFINE S == L \ {x}
  <2>1. S \in SUBSET LinkIndexes /\ ref \in S \cup {Null} /\ x \notin S
    BY <1>0, <1>1, <1>4
  <2>2. ClosedUnder(S, next)
    BY <1>2, <1>4 DEF ClosedUnder
  <2> HIDE DEF S
  <2> QED
    BY <1>3, <2>1, <2>2
<1> QED
  BY <1>0, <1>1, <1>2, <1>3, <1>4 DEF L

(* The lists of two owners have no link in common.                         *)
LEMMA LinksUnshared ==
    ASSUME TypeOK, NoSharedLinks, NEW next \in Nexts, UnsharedIn(next),
           NEW o \in Owners, NEW p \in Owners, o # p
    PROVE  LinksOf(propRef[o], next) \cap LinksOf(propRef[p], next) = {}
<1> DEFINE L == LinksOf(propRef[o], next)
           M == LinksOf(propRef[p], next)
           T == L \cap M
<1>0. propRef[o] \in LinkRefs /\ propRef[p] \in LinkRefs /\ LinkIndexes \subseteq Nat /\ Null \notin LinkIndexes
  BY DEF TypeOK, LinkIndexes, Null
<1>1. /\ L \subseteq LinkIndexes /\ M \subseteq LinkIndexes
      /\ \A x \in L : x = propRef[o] \/ \E k \in L : next[k] = x
      /\ \A x \in M : x = propRef[p] \/ \E k \in M : next[k] = x
  BY <1>0, LinksFacts
<1>2. \A k \in LinkIndexes : next[k] # Null => k < next[k]
  BY DEF Nexts
<1> HIDE DEF L, M
<1>3. ASSUME T # {} PROVE FALSE
  <2>1. T \in SUBSET Nat
    BY <1>0, <1>1
  <2>2. PICK x \in T : \A y \in T : x <= y
    BY <1>3, <2>1, LeastNat
  <2>3. x \in L /\ x \in M /\ x # Null /\ x \in Nat
    BY <1>0, <1>1
  <2>4. CASE x = propRef[o]
    <3>1. propRef[p] # x
      BY <2>3, <2>4 DEF NoSharedLinks
    <3> QED
      BY <1>1, <2>3, <2>4, <3>1 DEF UnsharedIn
  <2>5. CASE x = propRef[p]
    <3>1. propRef[o] # x
      BY <2>3, <2>5 DEF NoSharedLinks
    <3> QED
      BY <1>1, <2>3, <2>5, <3>1 DEF UnsharedIn
  <2>6. CASE x # propRef[o] /\ x # propRef[p]
    <3>1. PICK k \in L : next[k] = x
      BY <1>1, <2>3, <2>6
    <3>2. PICK l \in M : next[l] = x
      BY <1>1, <2>3, <2>6
    <3>3. k = l /\ k < x /\ k \in Nat
      BY <1>0, <1>1, <1>2, <2>3, <3>1, <3>2 DEF UnsharedIn
    <3>4. k \in T /\ ~ (x <= k)
      BY <2>3, <3>3
    <3> QED
      BY <2>2, <3>4
  <2> QED
    BY <2>4, <2>5, <2>6
<1> QED
  BY <1>3 DEF L, M

(* A list whose links all have values shows every name that is in it.      *)
LEMMA ReadFindsName ==
    ASSUME NEW blocks \in Blocks, NEW next \in Nexts, NEW ref \in LinkRefs, NEW n,
           \A l \in LinksOf(ref, next) : blocks[l].value \in Data,
           NEW k \in LinksOf(ref, next), blocks[k].name = n
    PROVE  ReadOf(blocks, next, ref, n) # NoValue
<1> SUFFICES ASSUME ReadOf(blocks, next, ref, n) = NoValue PROVE FALSE
  OBVIOUS
<1> DEFINE L == LinksOf(ref, next)
           C == {l \in L : ReadOf(blocks, next, l, n) = NoValue}
<1>1. /\ L \subseteq LinkIndexes /\ (ref # Null => ref \in L) /\ ClosedUnder(L, next)
      /\ \A S \in SUBSET LinkIndexes : ref \in S \cup {Null} /\ ClosedUnder(S, next) => L \subseteq S
  BY LinksFacts
<1>2. \A l \in L : ReadOf(blocks, next, l, n) = IF blocks[l].name = n THEN blocks[l].value
                                                ELSE ReadOf(blocks, next, next[l], n)
  BY <1>1, ReadOfEquation
<1>3. \A l \in L : blocks[l].value # NoValue
  BY InputAssumption
<1>4. \A l : l \in C <=> l \in L /\ ReadOf(blocks, next, l, n) = NoValue
  OBVIOUS
<1>5. k \in L
  OBVIOUS
<1> HIDE DEF L, C
<1>6. C \in SUBSET LinkIndexes /\ ref \in C \cup {Null}
  BY <1>1, <1>4
<1>7. ClosedUnder(C, next)
  BY <1>1, <1>2, <1>3, <1>4 DEF ClosedUnder
<1> QED
  BY <1>1, <1>2, <1>3, <1>4, <1>5, <1>6, <1>7

(* What is read of a list depends on its links only.                       *)
LEMMA ReadSame ==
    ASSUME NEW b \in Blocks, NEW c \in Blocks, NEW next \in Nexts,
           NEW S \in SUBSET LinkIndexes, ClosedUnder(S, next),
           \A l \in S : c[l] = b[l],
           NEW n
    PROVE  \A l \in S \cup {Null} : ReadOf(c, next, l, n) = ReadOf(b, next, l, n)
<1> DEFINE Bad == {l \in S : ReadOf(c, next, l, n) # ReadOf(b, next, l, n)}
<1>1. /\ ReadOf(b, next, Null, n) = ReadOf(c, next, Null, n)
      /\ \A l \in S : /\ ReadOf(b, next, l, n) = IF b[l].name = n THEN b[l].value
                                                 ELSE ReadOf(b, next, next[l], n)
                      /\ ReadOf(c, next, l, n) = IF c[l].name = n THEN c[l].value
                                                 ELSE ReadOf(c, next, next[l], n)
  BY ReadOfEquation
<1>2. \A l : l \in Bad <=> l \in S /\ ReadOf(c, next, l, n) # ReadOf(b, next, l, n)
  OBVIOUS
<1> HIDE DEF Bad
<1>0. MaxLinks \in Nat /\ \A l \in LinkIndexes : l \in Nat /\ l \in 0 .. MaxLinks
  BY InputAssumption DEF LinkIndexes
<1>3. MaxLinks \in Nat /\ Bad \in SUBSET (0 .. MaxLinks) /\ \A l \in LinkIndexes : l \in Nat
  BY <1>0, <1>2
<1>4. Bad = {}
  <2> SUFFICES ASSUME Bad # {} PROVE FALSE
    OBVIOUS
  <2>1. PICK l \in Bad : \A k \in Bad : k <= l
    BY <1>3, GreatestNat
  <2>2. l \in S /\ l \in Nat /\ ReadOf(c, next, next[l], n) # ReadOf(b, next, next[l], n)
    BY <1>1, <1>2, <1>3, <2>1
  <2>3. next[l] # Null
    BY <1>1, <2>2
  <2>4. next[l] \in Bad /\ l < next[l] /\ next[l] \in Nat
    BY <1>2, <1>3, <2>2, <2>3 DEF ClosedUnder, Nexts
  <2>5. ~ (next[l] <= l)
    BY <2>2, <2>4
  <2> QED
    BY <2>1, <2>4, <2>5
<1> QED
  BY <1>1, <1>2, <1>4

(* The addresses next with the tail's link to the last block added.        *)
IsLonger(longer, next, tail, last) == longer = [next EXCEPT ![tail] = last]

(* What is read after a link has been chained to a tail.                   *)
LEMMA ReadAppended ==
    ASSUME NEW b \in Blocks, NEW next \in Nexts, NEW tail \in LinkIndexes, NEW last \in LinkIndexes,
           next[tail] = Null, next[last] = Null, tail < last,
           NEW longer, IsLonger(longer, next, tail, last),
           NEW ref \in LinkRefs, NEW n
    PROVE  /\ longer \in Nexts
           /\ \/ ReadOf(b, longer, ref, n) = ReadOf(b, next, ref, n)
              \/ /\ tail \in LinksOf(ref, next)
                 /\ ReadOf(b, next, ref, n) = NoValue
                 /\ b[last].name = n
                 /\ ReadOf(b, longer, ref, n) = b[last].value
<1> DEFINE L == LinksOf(ref, next)
           Kept(l) == ReadOf(b, longer, l, n) = ReadOf(b, next, l, n)
           Added(l) == /\ ReadOf(b, next, l, n) = NoValue
                       /\ b[last].name = n
                       /\ ReadOf(b, longer, l, n) = b[last].value
           Right(l) == Kept(l) \/ (Added(l) /\ tail \in L)
           Bad == {l \in L : ~ Right(l)}
<1>0. /\ MaxLinks \in Nat /\ LinkIndexes \subseteq 0 .. MaxLinks /\ Null \notin LinkIndexes
      /\ \A l \in LinkIndexes : l \in Nat
  BY InputAssumption DEF LinkIndexes, Null
<1>n. /\ longer \in [LinkIndexes -> LinkRefs] /\ longer[tail] = last
      /\ \A l \in LinkIndexes \ {tail} : longer[l] = next[l]
  BY DEF Nexts, LinkRefs, IsLonger
<1>1. longer \in Nexts
  BY <1>n DEF Nexts
<1>2. /\ ReadOf(b, next, Null, n) = NoValue /\ ReadOf(b, longer, Null, n) = NoValue
      /\ \A l \in LinkIndexes : /\ ReadOf(b, next, l, n) = IF b[l].name = n THEN b[l].value
                                                           ELSE ReadOf(b, next, next[l], n)
                                /\ ReadOf(b, longer, l, n) = IF b[l].name = n THEN b[l].value
                                                             ELSE ReadOf(b, longer, longer[l], n)
  BY <1>1, ReadOfEquation
<1>3. L \subseteq LinkIndexes /\ (ref # Null => ref \in L) /\ ClosedUnder(L, next)
  BY LinksFacts
<1>4. \A l : l \in Bad <=> l \in L /\ ~ Right(l)
  OBVIOUS
<1> HIDE DEF L, Bad
<1>5. tail \in L => Right(tail)
  <2>1. longer[last] = Null
    BY <1>0, <1>n
  <2>2. ReadOf(b, longer, last, n) = IF b[last].name = n THEN b[last].value ELSE NoValue
    BY <1>2, <2>1
  <2> QED
    BY <1>2, <1>n, <2>2
<1>6. Bad = {}
  <2> SUFFICES ASSUME Bad # {} PROVE FALSE
    OBVIOUS
  <2>0. Bad \in SUBSET (0 .. MaxLinks)
    BY <1>0, <1>3, <1>4
  <2>1. PICK l \in Bad : \A k \in Bad : k <= l
    BY <1>0, <2>0, GreatestNat
  <2>2. l \in L /\ l \in LinkIndexes /\ l # tail /\ longer[l] = next[l] /\ l \in Nat
    BY <1>0, <1>3, <1>4, <1>5, <1>n, <2>1
  <2>3. ~ Right(next[l])
    BY <1>2, <1>4, <2>1, <2>2
  <2>4. next[l] # Null
    BY <1>2, <2>3
  <2>5. next[l] \in Bad /\ l < next[l] /\ next[l] \in Nat
    BY <1>0, <1>3, <1>4, <2>2, <2>3, <2>4 DEF ClosedUnder, Nexts
  <2>6. ~ (next[l] <= l)
    BY <2>2, <2>5
  <2> QED
    BY <2>1, <2>5, <2>6
<1>7. Right(ref)
  BY <1>2, <1>3, <1>4, <1>6
<1> QED
  BY <1>1, <1>7 DEF L

-----------------------------------------------------------------------------
(* The files' blocks and addresses, as the lemmas about walks take them.    *)
LEMMA FilesAreWalkable ==
    ASSUME TypeInv, StoreInv
    PROVE  /\ property \in Blocks /\ nextProp \in Nexts
           /\ \A n \in Names : NoValue \notin Data /\ n \in Nat
           /\ pc # "setRef" => Flushed \in Nexts
<1>1. property \in Blocks /\ nextProp \in Nexts
  BY DEF TypeInv, TypeOK, StoreInv, RefsAreWritten, Blocks, Nexts
<1>2. pc # "setRef" => Flushed \in Nexts
  BY FlushedIsExact DEF ForwardIn, Nexts
<1> QED
  BY <1>1, <1>2, InputAssumption, NamesAssumption

(* Values of counted blocks are those of the stream or the IDs of nodes.    *)
LEMMA ValuesKept ==
    ASSUME TypeInv, StoreInv, ValuesAreData, [Next]_vars
    PROVE  ValuesAreData'
<1>w. /\ Written \subseteq LinkIndexes /\ nextPropertyIndex \in Nat
      /\ nextPropertyIndex \notin Written
  BY WrittenIndexes DEF TypeInv, Written
<1>g. nextPropertyIndex' = nextPropertyIndex + 1 => Written' = Written \cup {nextPropertyIndex}
  <2>1. nextPropertyIndex \in Nat /\ nextPropertyIndex >= 1
    BY InputAssumption DEF TypeInv, TypeOK
  <2> QED
    BY <2>1 DEF Written
<1>1. CASE UNCHANGED <<property, nextPropertyIndex>> /\ pc' # "chain"
  BY <1>1 DEF ValuesAreData, Written
<1>2. CASE writeLink /\ pc \in {"create", "insert"}
  <2>1. name \in Names /\ value \in Data /\ nextPropertyIndex \in LinkIndexes
    BY <1>2, <1>w DEF TypeInv, TypeOK, CallIsPrepared, Room, LinkIndexes
  <2>2. \A l \in Written : property'[l] = property[l]
    BY <1>2, <1>w DEF writeLink, TypeInv, TypeOK
  <2>3. property'[nextPropertyIndex] = [name |-> name, value |-> value]
    BY <1>2, <2>1 DEF writeLink, TypeInv, TypeOK
  <2>4. CASE CreateLink
    <3>1. Written' = Written \cup {nextPropertyIndex} /\ pc' # "chain"
      BY <2>4, <1>g DEF CreateLink
    <3> QED
      BY <2>1, <2>2, <2>3, <3>1 DEF ValuesAreData
  <2>5. CASE AppendLink
    <3>1. Written' = Written /\ UNCHANGED <<name, value, nextPropertyIndex>>
      BY <2>5 DEF AppendLink, Written, call
    <3> QED
      BY <2>1, <2>2, <2>3, <3>1 DEF ValuesAreData
  <2> QED
    BY <1>2, <2>4, <2>5
    DEF Next, Step, SaveNode, StoreRelation, AddProperty, NextTarget, SetPropertyRef, FindName,
        FollowNext, ChainLink, vars, file, ValuesAreData, Written
<1>3. CASE ChainLink
  <2>1. Written' = Written \cup {nextPropertyIndex} /\ property' = property /\ pc' # "chain"
    BY <1>3, <1>g DEF ChainLink
  <2>2. property[nextPropertyIndex].value = value /\ value \in Data
    BY <1>3 DEF ChainLink, ValuesAreData, TypeInv, CallIsPrepared
  <2> QED
    BY <2>1, <2>2 DEF ValuesAreData
<1>4. CASE UNCHANGED vars
  BY <1>4 DEF vars, ValuesAreData, Written
<1>5. CASE CreateLink \/ AppendLink
  BY <1>2, <1>5 DEF CreateLink, AppendLink
<1> QED
  BY <1>1, <1>3, <1>4, <1>5
  DEF Next, Step, SaveNode, StoreRelation, AddProperty, NextTarget, SetPropertyRef, FindName,
      FollowNext, file

-----------------------------------------------------------------------------
(* The maps the files stand for.                                           *)
ViewOf(blocks, next, refs) ==
    [o \in Owners |-> [n \in Names |-> ReadOf(blocks, next, refs[o], n)]]

(* One map from the other: by one new entry, or none.                       *)
PutsOrKeeps(v, w) ==
    \/ w = v
    \/ \E o \in Owners, n \in Names, d \in Data :
          v[o][n] = NoValue /\ w = [v EXCEPT ![o][n] = d]

(* A function of owners and of names, as the maps are.                     *)
IsTable(v) == v = [p \in Owners |-> [k \in Names |-> v[p][k]]]

(* A table of one entry more, entry by entry.                              *)
LEMMA EntryPut ==
    ASSUME NEW v, NEW w, IsTable(v), IsTable(w),
           NEW o \in Owners, NEW n \in Names, NEW d,
           \A p \in Owners, k \in Names : w[p][k] = IF p = o /\ k = n THEN d ELSE v[p][k]
    PROVE  w = [v EXCEPT ![o][n] = d]
<1> USE DEF IsTable
<1> DEFINE u == [v EXCEPT ![o][n] = d]
<1>1. DOMAIN v = Owners /\ DOMAIN w = Owners
  <2>1. DOMAIN [p \in Owners |-> [k \in Names |-> v[p][k]]] = Owners
        /\ DOMAIN [p \in Owners |-> [k \in Names |-> w[p][k]]] = Owners
    OBVIOUS
  <2> QED
    BY <2>1, Zenon
<1>2. \A p \in Owners : v[p] = [k \in Names |-> v[p][k]] /\ w[p] = [k \in Names |-> w[p][k]]
  <2> TAKE p \in Owners
  <2>1. [q \in Owners |-> [k \in Names |-> v[q][k]]][p] = [k \in Names |-> v[p][k]]
        /\ [q \in Owners |-> [k \in Names |-> w[q][k]]][p] = [k \in Names |-> w[p][k]]
    OBVIOUS
  <2> QED
    BY <2>1, Zenon
<1>3. u = [p \in Owners |-> IF p = o THEN [v[o] EXCEPT ![n] = d] ELSE v[p]]
  BY <1>1
<1>4. \A p \in Owners : w[p] = IF p = o THEN [v[o] EXCEPT ![n] = d] ELSE v[p]
  <2> TAKE p \in Owners
  <2>1. CASE p = o
    <3>1. [v[o] EXCEPT ![n] = d] = [k \in Names |-> IF k = n THEN d ELSE v[o][k]]
      BY <1>2
    <3>2. [k \in Names |-> w[o][k]] = [k \in Names |-> IF k = n THEN d ELSE v[o][k]]
      OBVIOUS
    <3> QED
      BY <1>2, <2>1, <3>1, <3>2
  <2>2. CASE p # o
    <3>1. [k \in Names |-> w[p][k]] = [k \in Names |-> v[p][k]]
      BY <2>2
    <3> QED
      BY <1>2, <2>2, <3>1
  <2> QED
    BY <2>1, <2>2
<1>5. w = [p \in Owners |-> w[p]]
  BY <1>1
<1>6. w = [p \in Owners |-> IF p = o THEN [v[o] EXCEPT ![n] = d] ELSE v[p]]
  BY <1>4, <1>5
<1> QED
  BY <1>3, <1>6

(* When the buffer is written to the file, the property whose address it    *)
(* held becomes readable, in the one list it belongs to.                   *)
LEMMA FlushPuts ==
    ASSUME TypeInv, StoreInv, ValuesAreData, pc # "setRef"
    PROVE  PutsOrKeeps(ViewOf(property, nextProp, propRef), ViewOf(property, Flushed, propRef))
<1>t. TypeOK /\ NoSharedLinks /\ property \in Blocks /\ nextProp \in Nexts
  BY FilesAreWalkable DEF TypeInv, StoreInv
<1>1. CASE unflushed = Null
  BY <1>1 DEF Flushed, PutsOrKeeps
<1>2. CASE unflushed # Null
  <2> DEFINE v == ViewOf(property, nextProp, propRef)
             w == ViewOf(property, Flushed, propRef)
             last == nextPropertyIndex - 1
             m == property[last].name
             d == property[last].value
  <2>1. /\ unflushed \in LinkIndexes /\ last \in LinkIndexes /\ unflushed < last /\ last \in Written
        /\ nextProp[unflushed] = Null
        /\ IsLonger(Flushed, nextProp, unflushed, last)
    <3>1. nextPropertyIndex \in Nat /\ MaxLinks \in Nat /\ unflushed \in LinkIndexes
          /\ unflushed + 1 < nextPropertyIndex /\ nextProp[unflushed] = Null
      BY <1>2, <1>t, InputAssumption DEF StoreInv, BufferHoldsNewest, TypeOK, LinkRefs
    <3> QED
      BY <1>2, <1>t, <3>1 DEF TypeOK, LinkIndexes, Flushed, Written, IsLonger
  <2>2. nextProp[last] = Null
    BY <2>1, <1>t DEF StoreInv, RefsAreWritten, Written, LinkIndexes, TypeOK
  <2>3. m \in Names /\ d \in Data
    BY <2>1, <1>t DEF ValuesAreData, TypeOK
  <2>r. \A o \in Owners : propRef[o] \in LinkRefs
    BY <1>t DEF TypeOK
  <2>4. ASSUME NEW o \in Owners, NEW n \in Names
        PROVE  \/ w[o][n] = v[o][n]
               \/ /\ unflushed \in LinksOf(propRef[o], nextProp)
                  /\ v[o][n] = NoValue /\ m = n /\ w[o][n] = d
    <3>1. /\ v[o][n] = ReadOf(property, nextProp, propRef[o], n)
          /\ w[o][n] = ReadOf(property, Flushed, propRef[o], n)
      BY DEF ViewOf
    <3>2. \/ w[o][n] = v[o][n]
          \/ /\ unflushed \in LinksOf(propRef[o], nextProp)
             /\ v[o][n] = NoValue
             /\ property[last].name = n
             /\ w[o][n] = property[last].value
      <4> HIDE DEF last, v, w
      <4> QED
        BY <1>t, <2>1, <2>2, <2>r, <3>1, ReadAppended
    <3> HIDE DEF v, w
    <3> QED
      BY <3>2
  <2>5. ASSUME NEW o \in Owners, NEW p \in Owners, o # p
        PROVE  ~ (unflushed \in LinksOf(propRef[o], nextProp) /\ unflushed \in LinksOf(propRef[p], nextProp))
    <3>1. UnsharedIn(nextProp)
      BY <1>t DEF StoreInv, NoSharedLinks, UnsharedIn, RefsAreWritten, Written, LinkIndexes, TypeOK
    <3> QED
      BY <1>t, <3>1, <2>5, LinksUnshared
  <2>v. IsTable(v) /\ IsTable(w)
    BY DEF ViewOf, IsTable
  <2> HIDE DEF v, w, m, d, last
  <2>6. CASE \A o \in Owners, n \in Names : w[o][n] = v[o][n]
    <3>1. w = v
      BY <2>v, <2>6 DEF IsTable
    <3> QED
      BY <3>1 DEF PutsOrKeeps, v, w
  <2>7. CASE \E o \in Owners, n \in Names : w[o][n] # v[o][n]
    <3>1. PICK o \in Owners, n \in Names : w[o][n] # v[o][n]
      BY <2>7
    <3>2. unflushed \in LinksOf(propRef[o], nextProp) /\ v[o][n] = NoValue /\ m = n /\ w[o][n] = d
      BY <2>4, <3>1
    <3>3. \A p \in Owners, k \in Names : w[p][k] = IF p = o /\ k = n THEN d ELSE v[p][k]
      BY <2>4, <2>5, <3>2
    <3>4. w = [v EXCEPT ![o][n] = d]
      BY <2>v, <3>3, EntryPut
    <3> QED
      BY <2>3, <3>2, <3>4 DEF PutsOrKeeps, v, w
  <2> QED
    BY <2>6, <2>7
<1> QED
  BY <1>1, <1>2

(* A new block at the end of the file is read by nobody.                   *)
LEMMA WriteLinkPuts ==
    ASSUME TypeInv, StoreInv, ValuesAreData, pc \in {"create", "insert"}, writeLink, propRef' = propRef
    PROVE  PutsOrKeeps(ViewOf(property, nextProp, propRef), ViewOf(property', nextProp', propRef'))
<1>w. /\ Written \subseteq LinkIndexes /\ nextPropertyIndex \notin Written /\ Null \notin Written
  BY WrittenIndexes DEF TypeInv, Written
<1>t. property \in Blocks /\ Flushed \in Nexts
  BY FilesAreWalkable
<1>1. nextPropertyIndex \in LinkIndexes /\ property' \in Blocks
  BY writeLinkTyped DEF TypeInv, CallIsPrepared, Blocks
<1>2. ForwardIn(Flushed)
  BY FlushedIsExact
<1>3. nextProp' = Flushed
  <2>1. Flushed[nextPropertyIndex] = Null
    BY <1>1, <1>2, <1>w DEF ForwardIn, Written, LinkIndexes
  <2> QED
    BY <1>1, <1>t, <2>1 DEF writeLink, Nexts
<1>4. \A l \in Written : property'[l] = property[l]
  BY <1>w DEF writeLink, TypeInv, TypeOK
<1>5. ClosedUnder(Written, Flushed)
  BY <1>2, <1>w DEF ForwardIn, ClosedUnder
<1>6. \A n \in Names : \A l \in Written \cup {Null} :
          ReadOf(property', Flushed, l, n) = ReadOf(property, Flushed, l, n)
  BY <1>1, <1>4, <1>5, <1>t, <1>w, ReadSame
<1>7. \A o \in Owners : propRef[o] \in Written \cup {Null}
  BY DEF StoreInv, RefsAreWritten
<1>8. ViewOf(property', nextProp', propRef') = ViewOf(property, Flushed, propRef)
  BY <1>3, <1>6, <1>7 DEF ViewOf
<1> QED
  BY <1>8, FlushPuts

(* The reference to a first link makes its property readable.              *)
LEMMA SetPropertyRefPuts ==
    ASSUME TypeInv, StoreInv, SetPropertyRef
    PROVE  PutsOrKeeps(ViewOf(property, nextProp, propRef), ViewOf(property', nextProp', propRef'))
<1> DEFINE v == ViewOf(property, nextProp, propRef)
           w == ViewOf(property', nextProp', propRef')
<1>t. property \in Blocks /\ nextProp \in Nexts /\ property' = property /\ nextProp' = nextProp
  BY FilesAreWalkable DEF SetPropertyRef, file
<1>c. /\ cursor \in LinkIndexes /\ cursor = nextPropertyIndex - 1
      /\ property[cursor] = [name |-> name, value |-> value] /\ name \in Names /\ value \in Data
  BY WrittenIndexes DEF SetPropertyRef, StoreInv, CursorIsWritten, TypeInv, CallIsPrepared
<1>n. nextProp[cursor] = Null
  BY <1>c DEF StoreInv, RefsAreWritten, Written, LinkIndexes, TypeInv, TypeOK
<1>o. PICK owner \in Owners : owner = copies[target].owner /\ propRef[owner] = Null
  BY DEF SetPropertyRef, StoreInv, CopiesAreFresh, Pending, TypeInv, TypeOK, Targets, Stored, Owners
<1>r. \A o \in Owners : propRef'[o] = IF o = owner THEN cursor ELSE propRef[o]
  BY <1>o DEF SetPropertyRef, TypeInv, TypeOK
<1>1. \A n \in Names : /\ ReadOf(property, nextProp, Null, n) = NoValue
                       /\ ReadOf(property, nextProp, cursor, n) = IF n = name THEN value ELSE NoValue
  BY <1>c, <1>n, <1>t, ReadOfEquation
<1>2. \A o \in Owners, n \in Names : w[o][n] = IF o = owner /\ n = name THEN value ELSE v[o][n]
  BY <1>1, <1>o, <1>r, <1>t DEF ViewOf
<1>3. v[owner][name] = NoValue
  BY <1>1, <1>c, <1>o DEF ViewOf
<1>v. IsTable(v) /\ IsTable(w)
  BY DEF ViewOf, IsTable
<1> HIDE DEF v, w
<1>4. w = [v EXCEPT ![owner][name] = value]
  BY <1>2, <1>v, <1>c, EntryPut
<1> QED
  BY <1>3, <1>4, <1>c DEF PutsOrKeeps, v, w

(* One step of the program puts at most one property where a reader finds it. *)
LEMMA NextPuts ==
    ASSUME TypeInv, StoreInv, ValuesAreData, [Next]_vars
    PROVE  PutsOrKeeps(ViewOf(property, nextProp, propRef), ViewOf(property', nextProp', propRef'))
<1>1. CASE UNCHANGED <<property, nextProp, propRef>>
  BY <1>1 DEF PutsOrKeeps
<1>2. CASE \E n \in Names : \E v \in Values : AddProperty(n, v)
  <2>1. pc = "adding" /\ UNCHANGED <<property, propRef>> /\ (nextProp' = Flushed \/ nextProp' = nextProp)
    BY <1>2 DEF AddProperty, file
  <2>2. CASE nextProp' = Flushed
    BY <2>1, <2>2, FlushPuts
  <2>3. CASE nextProp' = nextProp
    BY <1>1, <2>1, <2>3
  <2> QED
    BY <2>1, <2>2, <2>3
<1>3. CASE CreateLink \/ AppendLink
  BY <1>3, WriteLinkPuts DEF CreateLink, AppendLink
<1>4. CASE SetPropertyRef
  BY <1>4, SetPropertyRefPuts
<1> QED
  BY <1>1, <1>2, <1>3, <1>4
  DEF Next, Step, SaveNode, StoreRelation, NextTarget, FindName, FollowNext, ChainLink, vars, file

-----------------------------------------------------------------------------
(* At the start no reference leads anywhere.                               *)
LEMMA InitValues == Init => ValuesAreData
BY DEF Init, ValuesAreData, Written

(* No block is counted before it has a value.                              *)
LEMMA ValuesInvariant == ASSUME NoShortLoops PROVE Spec => [](TypeInv /\ StoreInv /\ ValuesAreData)
<1>1. TypeInv /\ StoreInv /\ ValuesAreData /\ [Next]_vars => ValuesAreData'
  BY ValuesKept
<1> QED
  BY <1>1, InitValues, ListsInvariant, PTL DEF Spec

(* The maps a reader of the file sees: those ImplementsMap speaks of.      *)
Shown == [o \in Owners |-> [n \in Names |-> ReadFrom(propRef[o], nextProp, n)]]

(* They are the view of the file's present contents, before and after.     *)
LEMMA ShownIsViewOf ==
    /\ Shown = ViewOf(property, nextProp, propRef)
    /\ Shown' = ViewOf(property', nextProp', propRef')
<1>1. \A o \in Owners, n \in Names :
          ReadFrom(propRef[o], nextProp, n)' = ReadOf(property', nextProp', propRef'[o], n)
  BY DEF ReadFrom, ReadOf
<1> QED
  BY <1>1, ReadOfIsReadFrom DEF Shown, ViewOf

(* The property files implement write-once maps: a step of the program      *)
(* makes one property of one node or relation readable, or none; no value  *)
(* a reader may have seen changes, though addresses are written late.      *)
THEOREM FilesImplementMap == ASSUME NoShortLoops PROVE Spec => ImplementsMap
<1>1. Init => Map!MapInit
  <2> SUFFICES ASSUME Init PROVE Map!MapInit
    OBVIOUS
  <2>1. TypeInv /\ StoreInv
    BY InitTyped, InitLists
  <2>2. property \in Blocks /\ nextProp \in Nexts
    BY <2>1, FilesAreWalkable
  <2>3. \A n \in Names : ReadOf(property, nextProp, Null, n) = NoValue
    BY <2>2, ReadOfEquation
  <2>4. \A o \in Owners : propRef[o] = Null
    BY DEF Init
  <2>5. Shown = [o \in Owners |-> [n \in Names |-> NoValue]]
    BY <2>3, <2>4, ShownIsViewOf DEF ViewOf
  <2> QED
    BY <2>5 DEF Shown, Map!MapInit
<1>2. TypeInv /\ StoreInv /\ ValuesAreData /\ [Next]_vars => [Map!MapNext]_Shown
  <2> SUFFICES ASSUME TypeInv, StoreInv, ValuesAreData, [Next]_vars
               PROVE  Map!MapNext \/ Shown' = Shown
    OBVIOUS
  <2>1. PutsOrKeeps(Shown, Shown')
    BY NextPuts, ShownIsViewOf
  <2> QED
    BY <2>1 DEF PutsOrKeeps, Map!MapNext, Map!Put, Shown
<1> QED
  BY <1>1, <1>2, ValuesInvariant, PTL DEF Spec, ImplementsMap, Map!MapSpec, Shown

-----------------------------------------------------------------------------
(* Lists only grow: links stay on a list when null addresses are filled.   *)
LEMMA LinksGrow ==
    ASSUME NEW next \in Nexts, NEW longer \in Nexts,
           \A k \in LinkIndexes : next[k] # Null => longer[k] = next[k],
           NEW ref \in LinkRefs
    PROVE  LinksOf(ref, next) \subseteq LinksOf(ref, longer)
<1> DEFINE L == LinksOf(ref, longer)
<1>1. L \in SUBSET LinkIndexes /\ (ref # Null => ref \in L) /\ ClosedUnder(L, longer)
  BY LinksFacts
<1> HIDE DEF L
<1>2. ClosedUnder(L, next)
  BY <1>1 DEF ClosedUnder
<1>3. ref \in L \cup {Null}
  BY <1>1
<1>4. LinksOf(ref, next) \subseteq L
  BY <1>1, <1>2, <1>3, LinksFacts
<1> QED
  BY <1>4 DEF L

(* The reference of the owner of a pending copy.                           *)
LEMMA PendingOwner ==
    ASSUME TypeInv, StoreInv, pc # "idle", NEW t \in Pending
    PROVE  /\ copies[t].owner \in Owners
           /\ propRef[copies[t].owner] \in LinkRefs
           /\ t \in Targets
           /\ target \in Pending
<1>1. t \in Targets /\ target \in Pending
  BY DEF Pending, Targets, TypeInv, TypeOK
<1>2. copies[t].owner \in Stored
  BY DEF StoreInv, CopiesAreFresh
<1>3. copies[t].owner \in Owners
  BY <1>2 DEF Stored, Owners, TypeInv, TypeOK
<1> QED
  BY <1>1, <1>3 DEF TypeInv, TypeOK

-----------------------------------------------------------------------------
(* An empty list has no links.                                             *)
LEMMA NoLinksOfNull ==
    ASSUME NEW next \in Nexts
    PROVE  LinksOf(Null, next) = {}
<1>1. ClosedUnder({}, next) /\ Null \in {} \cup {Null} /\ Null \in LinkRefs
  BY DEF ClosedUnder, LinkRefs
<1> QED
  BY <1>1, LinksFacts

(* The seek before a new block is written leaves the file as the stream     *)
(* showed it.                                                              *)
LEMMA WriteLinkFlushes ==
    ASSUME TypeInv, StoreInv, pc \in {"create", "insert"}, writeLink
    PROVE  nextProp' = Flushed /\ Flushed' = Flushed
<1>1. nextPropertyIndex \in LinkIndexes /\ Flushed \in Nexts
  BY writeLinkTyped, FilesAreWalkable DEF TypeInv, CallIsPrepared
<1>2. Flushed[nextPropertyIndex] = Null
  BY <1>1, WrittenIndexes, FlushedIsExact DEF ForwardIn, Written, LinkIndexes, TypeInv
<1>3. nextProp' = Flushed
  BY <1>1, <1>2 DEF writeLink, Nexts
<1> QED
  BY <1>3 DEF writeLink, Flushed

(* Before the first message there are no copies.                           *)
LEMMA InitCopies == Init => CopiesOnLists
BY DEF Init, CopiesOnLists

(* Every step leaves each copy on its owner's list.                        *)
LEMMA NextKeepsCopies ==
    ASSUME TypeInv, StoreInv, CopiesOnLists, [Next]_vars
    PROVE  CopiesOnLists'
<1> USE DEF CopiesOnLists
<1>p. pc # "idle" => /\ target \in Pending /\ Pending \subseteq Targets
                     /\ \A t \in Pending : copies[t].owner \in Owners /\ propRef[copies[t].owner] \in LinkRefs
  <2>1. target \in Pending /\ Pending \subseteq Targets
    BY DEF Pending, Targets, TypeInv, TypeOK
  <2> QED
    BY <2>1, PendingOwner
<1>f. /\ nextProp \in Nexts
      /\ pc # "setRef" => Flushed \in Nexts
      /\ pc \in {"setRef", "insert", "chain"} => unflushed = Null /\ Flushed = nextProp
  BY FilesAreWalkable DEF StoreInv, CursorIsWritten, Flushed
<1>1. ASSUME NEW n \in Nodes, SaveNode(n) PROVE CopiesOnLists'
  BY <1>1 DEF SaveNode, call, NoCopies, Pending, Targets
<1>2. ASSUME NEW r \in Relations, NEW e \in Edges, StoreRelation(r, e[1], e[2]) PROVE CopiesOnLists'
  <2>1. e[1] \in Nodes /\ e[2] \in Nodes /\ \A o \in Nodes : propRef[o] \in LinkRefs
    BY InputAssumption DEF TypeInv, TypeOK, Owners
  <2>2. Flushed' = Flushed /\ Flushed \in Nexts
    BY <1>2, <1>f DEF StoreRelation, file, Flushed
  <2>3. Pending' = {"relation", "source", "destination"}
    BY <1>2 DEF StoreRelation, Pending
  <2>4. /\ copies'["relation"].ref = Null
        /\ copies'["source"] = [owner |-> e[1], ref |-> propRef[e[1]]]
        /\ copies'["destination"] = [owner |-> e[2], ref |-> propRef[e[2]]]
    BY <1>2 DEF StoreRelation, Targets
  <2>5. \A o \in Nodes : propRef[o] # Null => propRef[o] \in LinksOf(propRef[o], Flushed)
    BY <2>1, <2>2, LinksFacts
  <2> QED
    BY <1>2, <2>1, <2>2, <2>3, <2>4, <2>5 DEF StoreRelation
<1>3. ASSUME NEW n \in Names, NEW v \in Values, AddProperty(n, v) PROVE CopiesOnLists'
  <2>1. Flushed' = Flushed
    BY <1>3 DEF AddProperty, file, Flushed
  <2>2. /\ pc = "adding" /\ pc' \in {"create", "insert"}
        /\ Pending' = Pending /\ copies' = copies /\ target' = target /\ propRef' = propRef
        /\ pc' = "insert" => cursor' = copies[target].ref /\ cursor' # Null /\ nextProp' = Flushed
    BY <1>3 DEF AddProperty, Pending
  <2> QED
    BY <1>p, <2>1, <2>2
<1>4. CASE NextTarget
  <2>1. Flushed' = Flushed /\ propRef' = propRef /\ pc = "adding"
    BY <1>4 DEF NextTarget, file, Flushed
  <2>2. pc' # "idle" => Pending' \subseteq Pending /\ copies' = copies /\ pc' = "adding"
    BY <1>4 DEF NextTarget, Pending, TargetAfter
  <2>3. pc' \in {"idle", "adding"}
    BY <1>4 DEF NextTarget
  <2> QED
    BY <2>1, <2>2, <2>3
<1>5. CASE CreateLink
  <2>1. Flushed' = Flushed
    BY <1>5, WriteLinkFlushes DEF CreateLink
  <2>2. /\ pc = "create" /\ pc' = "setRef" /\ Pending' = Pending /\ propRef' = propRef /\ target' = target
        /\ \A t \in Targets \ {target} : copies'[t] = copies[t]
    BY <1>5 DEF CreateLink, Pending, setCopyRef, TypeInv, TypeOK
  <2> QED
    BY <1>p, <2>1, <2>2
<1>6. CASE SetPropertyRef
  <2>1. /\ pc = "setRef" /\ pc' = "adding" /\ Pending' = Pending /\ copies' = copies /\ target' = target
        /\ Flushed' = Flushed
    BY <1>6 DEF SetPropertyRef, file, call, Pending, Flushed
  <2>2. copies[target].ref = cursor /\ cursor \in LinkRefs /\ cursor # Null
    BY <2>1 DEF StoreInv, CursorIsWritten, TypeInv, TypeOK, CallIsPrepared
  <2>3. propRef[copies[target].owner] = Null
    BY <1>p, <2>1 DEF StoreInv, CopiesAreFresh
  <2>4. \A o \in Owners : propRef'[o] = IF o = copies[target].owner THEN cursor ELSE propRef[o]
    BY <1>6, <1>p, <2>1 DEF SetPropertyRef, TypeInv, TypeOK
  <2>5. cursor \in LinksOf(cursor, Flushed) /\ LinksOf(Null, Flushed) = {}
    BY <1>f, <2>1, <2>2, LinksFacts, NoLinksOfNull
  <2> QED
    BY <1>p, <2>1, <2>2, <2>3, <2>4, <2>5
<1>7. CASE FindName
  <2>1. /\ pc = "insert" /\ pc' = "adding" /\ Pending' = Pending /\ propRef' = propRef /\ target' = target
        /\ Flushed' = Flushed
        /\ copies'[target] = [owner |-> copies[target].owner, ref |-> cursor]
        /\ \A t \in Targets \ {target} : copies'[t] = copies[t]
    BY <1>7 DEF FindName, file, Pending, setCopyRef, TypeInv, TypeOK, Flushed
  <2> QED
    BY <1>p, <1>f, <2>1
<1>8. CASE FollowNext
  <2>1. /\ pc = "insert" /\ pc' = "insert" /\ Pending' = Pending /\ propRef' = propRef /\ target' = target
        /\ Flushed' = Flushed /\ copies' = copies /\ nextProp' = nextProp
        /\ nextProp[cursor] # Null /\ cursor' = nextProp[cursor]
    BY <1>8 DEF FollowNext, file, Pending, Flushed, Follow
  <2>2. cursor' \in LinksOf(propRef[copies[target].owner], nextProp)
    BY <1>p, <1>f, <2>1, LinksFacts DEF ClosedUnder
  <2> QED
    BY <2>1, <2>2
<1>9. CASE AppendLink
  <2>1. /\ pc = "insert" /\ pc' = "chain" /\ Pending' = Pending /\ propRef' = propRef /\ target' = target
        /\ copies' = copies /\ cursor' = cursor
    BY <1>9 DEF AppendLink, call, Pending
  <2>2. nextProp' = Flushed /\ Flushed' = Flushed
    BY <1>9, <2>1, WriteLinkFlushes DEF AppendLink
  <2> QED
    BY <1>p, <1>f, <2>1, <2>2
<1>10. CASE ChainLink
  <2>1. /\ pc = "chain" /\ pc' = "adding" /\ Pending' = Pending /\ propRef' = propRef /\ target' = target
        /\ nextProp' = nextProp /\ unflushed' = cursor /\ nextPropertyIndex' = nextPropertyIndex + 1
        /\ copies'[target] = [owner |-> copies[target].owner, ref |-> nextPropertyIndex]
        /\ \A t \in Targets \ {target} : copies'[t] = copies[t]
    BY <1>10 DEF ChainLink, Pending, setCopyRef, TypeInv, TypeOK
  <2>2. /\ cursor \in LinkIndexes /\ cursor # Null /\ cursor < nextPropertyIndex
        /\ nextProp[cursor] = Null /\ nextPropertyIndex \in LinkIndexes /\ nextPropertyIndex # Null
        /\ nextPropertyIndex \in Nat
    BY <2>1, InputAssumption
    DEF StoreInv, CursorIsWritten, Written, LinkIndexes, TypeInv, TypeOK, CallIsPrepared, Room, Null
  <2>3. Flushed' = [nextProp EXCEPT ![cursor] = nextPropertyIndex]
    <3>1. nextPropertyIndex' - 1 = nextPropertyIndex
      BY <2>1, <2>2
    <3>2. Flushed' = [nextProp' EXCEPT ![unflushed'] = nextPropertyIndex' - 1]
      BY <2>1, <2>2 DEF Flushed
    <3> QED
      BY <2>1, <3>1, <3>2
  <2>4. /\ Flushed' \in Nexts /\ Flushed'[cursor] = nextPropertyIndex
        /\ \A k \in LinkIndexes : nextProp[k] # Null => Flushed'[k] = nextProp[k]
    BY <1>f, <2>2, <2>3 DEF Nexts, LinkRefs
  <2>5. \A ref \in LinkRefs : LinksOf(ref, Flushed) \subseteq LinksOf(ref, Flushed')
    BY <1>f, <2>1, <2>4, LinksGrow
  <2>6. cursor \in LinksOf(propRef[copies[target].owner], Flushed')
    BY <1>p, <1>f, <2>1, <2>5
  <2>7. nextPropertyIndex \in LinksOf(propRef[copies[target].owner], Flushed')
    BY <1>p, <2>1, <2>2, <2>4, <2>6, LinksFacts DEF ClosedUnder
  <2> QED
    BY <1>p, <2>1, <2>5, <2>7
<1>11. CASE UNCHANGED vars
  BY <1>11 DEF vars, Pending, Flushed
<1> QED
  BY <1>1, <1>2, <1>3, <1>4, <1>5, <1>6, <1>7, <1>8, <1>9, <1>10, <1>11 DEF Next, Step

-----------------------------------------------------------------------------
(* What a call of addProperty relies on from its start to its end.         *)
CallInv == TypeInv /\ StoreInv /\ ValuesAreData /\ CopiesOnLists

(* It holds always, when no edge is a short self-loop.                     *)
LEMMA CallInvariant == ASSUME NoShortLoops PROVE Spec => []CallInv
<1>1. Init => CallInv
  BY InitTyped, InitLists, InitValues, InitCopies DEF CallInv
<1>2. CallInv /\ [Next]_vars => CallInv'
  BY NextTyped, NextKeepsLists, ValuesKept, NextKeepsCopies DEF CallInv
<1> QED
  BY <1>1, <1>2, PTL DEF Spec

(* The copy the call worked on stands on a block with the name it stored.  *)
HasArrived ==
    pc = "adding" /\ copies[target].ref # Null /\ property[copies[target].ref].name = name

(* The owner's list, walked from its head, has a property of that name.    *)
IsShown == ReadFrom(propRef[copies[target].owner], Flushed, name) # NoValue

(* The block is on the list of the copy's owner, so a walk meets its name.  *)
LEMMA ArrivedIsShown == CallInv /\ HasArrived => IsShown
<1> SUFFICES ASSUME CallInv, HasArrived PROVE IsShown
  OBVIOUS
<1> USE DEF CallInv, HasArrived
<1> DEFINE ref == propRef[copies[target].owner]
<1>1. property \in Blocks /\ Flushed \in Nexts
  BY FilesAreWalkable
<1>2. target \in Pending /\ ref \in LinkRefs
  BY PendingOwner DEF TypeInv, TypeOK, Pending
<1>3. copies[target].ref \in LinksOf(ref, Flushed)
  BY <1>2 DEF CopiesOnLists
<1>4. LinksOf(ref, Flushed) \subseteq Written
  <2>1. Written \in SUBSET LinkIndexes
    BY WrittenIndexes DEF TypeInv
  <2>2. ClosedUnder(Written, Flushed)
    BY <2>1, FlushedIsExact DEF ClosedUnder, ForwardIn
  <2>3. ref \in Written \cup {Null}
    BY <1>2, PendingOwner DEF StoreInv, RefsAreWritten
  <2> QED
    BY <1>1, <1>2, <2>1, <2>2, <2>3, LinksFacts
<1>5. \A l \in LinksOf(ref, Flushed) : property[l].value \in Data
  BY <1>4 DEF ValuesAreData
<1>6. ReadOf(property, Flushed, ref, name) # NoValue
  <2> HIDE DEF ref
  <2> QED
    BY <1>1, <1>2, <1>3, <1>5, ReadFindsName
<1> QED
  BY <1>6, ReadOfIsReadFrom DEF IsShown

(* Each of the three ways out of addProperty leaves the copy on the block.  *)
LEMMA ReturnArrives ==
    ASSUME CallInv, Next, pc \notin {"idle", "adding"}, pc' = "adding"
    PROVE  HasArrived'
<1> USE DEF CallInv
<1>0. target \in Targets /\ copies \in [Targets -> [owner : Owners \cup {NoOwner}, ref : LinkRefs]]
  BY DEF TypeInv, TypeOK
<1>1. CASE SetPropertyRef
  BY <1>1 DEF SetPropertyRef, file, call, HasArrived, StoreInv, CursorIsWritten, TypeInv, CallIsPrepared
<1>2. CASE FindName
  <2>1. copies'[target].ref = cursor /\ cursor # Null
    BY <1>2, <1>0 DEF FindName, setCopyRef, TypeInv, CallIsPrepared
  <2> QED
    BY <1>2, <2>1 DEF FindName, Found, file, HasArrived
<1>3. CASE ChainLink
  <2>1. copies'[target].ref = nextPropertyIndex /\ nextPropertyIndex # Null
    BY <1>3, <1>0, InputAssumption DEF ChainLink, setCopyRef, TypeInv, TypeOK, Null
  <2> QED
    BY <1>3, <2>1 DEF ChainLink, HasArrived, ValuesAreData
<1> QED
  BY <1>1, <1>2, <1>3
  DEF Next, Step, SaveNode, StoreRelation, AddProperty, NextTarget, CreateLink, FollowNext, AppendLink

(* When addProperty returns, the node or the relation has a property of     *)
(* that name in its list, although it started from a copy of the reference *)
(* that was read earlier, and although its last address is not flushed.    *)
THEOREM CallsStoreTheirProperties == ASSUME NoShortLoops PROVE Spec => CallStoresProperty
<1>1. CallInv' /\ HasArrived' => IsShown'
  BY ArrivedIsShown, PTL
<1>2. CallInv /\ CallInv' /\ [Next]_vars =>
          [pc \notin {"idle", "adding"} /\ pc' = "adding" => IsShown']_vars
  BY <1>1, ReturnArrives
<1>3. CallInv /\ CallInv' /\ [Next]_vars =>
          [pc \notin {"idle", "adding"} /\ pc' = "adding" =>
              (ReadFrom(propRef[copies[target].owner], Flushed, name) # NoValue)']_vars
  BY <1>2 DEF IsShown
<1> QED
  BY <1>3, CallInvariant, PTL DEF Spec, CallStoresProperty

-----------------------------------------------------------------------------
(* A bound of the steps a call of addProperty has yet to make: a recursion  *)
(* of insert for each block behind the cursor, and the writes that follow. *)
StepsLeft ==
    CASE pc = "create" -> 2
      [] pc \in {"setRef", "chain"} -> 1
      [] pc = "insert" -> nextPropertyIndex - cursor + 1
      [] OTHER -> 0

(* No step of a call leaves as many to make as it found.                    *)
CallAdvances == Step => StepsLeft \in Nat /\ StepsLeft' \in Nat /\ StepsLeft' < StepsLeft

(* The links insert follows lead to blocks written later, of which there    *)
(* are finitely many.                                                      *)
LEMMA StepAdvances ==
    ASSUME TypeInv, StoreInv, Step
    PROVE  StepsLeft \in Nat /\ StepsLeft' \in Nat /\ StepsLeft' < StepsLeft
<1> USE DEF StepsLeft
<1>1. /\ nextPropertyIndex \in Nat /\ Written \subseteq Nat
      /\ \A l \in Written : l < nextPropertyIndex
      /\ pc = "insert" => cursor \in Written
  BY InputAssumption DEF TypeInv, TypeOK, Written, StoreInv, CursorIsWritten
<1>2. CASE FollowNext
  <2>1. /\ pc = "insert" /\ pc' = "insert" /\ nextPropertyIndex' = nextPropertyIndex
        /\ cursor' = nextProp[cursor] /\ nextProp[cursor] # Null
    BY <1>2 DEF FollowNext, Follow, file
  <2>2. cursor < nextProp[cursor] /\ nextProp[cursor] \in Written
    BY <1>1, <2>1, WrittenIndexes DEF StoreInv, RefsAreWritten, TypeInv
  <2> QED
    BY <1>1, <2>1, <2>2
<1>3. CASE CreateLink \/ SetPropertyRef \/ FindName \/ AppendLink \/ ChainLink
  BY <1>1, <1>3 DEF CreateLink, SetPropertyRef, FindName, AppendLink, ChainLink
<1> QED
  BY <1>2, <1>3 DEF Step

(* A call of addProperty makes at most nextPropertyIndex + 1 steps on lists *)
(* without a short loop: the safety half of AddPropertyReturns.             *)
THEOREM CallsAdvance == ASSUME NoShortLoops PROVE Spec => [][CallAdvances]_vars
<1>1. TypeInv /\ StoreInv /\ [Next]_vars => [CallAdvances]_vars
  BY StepAdvances DEF CallAdvances
<1> QED
  BY <1>1, ListsInvariant, PTL DEF Spec
=============================================================================
