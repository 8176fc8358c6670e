--------------------------- MODULE LinkRecursion ---------------------------
(***************************************************************************)
(* What the proofs about linked lists need of recursion.  A walk along     *)
(* links, as getEdges, getAllProperties and insert make it, is modelled by *)
(* a recursive function; TLA+ takes such a definition for a CHOOSE, which  *)
(* says nothing until some function is known to satisfy the equation.      *)
(* Here one is shown to exist whenever each link leads to an element of    *)
(* lower rank.                                                             *)
(***************************************************************************)
EXTENDS Integers, TLAPS, WellFoundedInduction

(* The order of the natural numbers, as a relation.                        *)
Below == {ss \in Nat \X Nat : ss[1] < ss[2]}

(* A set of natural numbers has a least element.  Induction along links is  *)
(* given this form: suppose some link is a counterexample, take the least. *)
LEMMA LeastNat ==
    ASSUME NEW T \in SUBSET Nat, T # {}
    PROVE  \E x \in T : \A y \in T : x <= y
<1>1. IsWellFoundedOn(Below, Nat)
  BY NatLessThanWellFounded DEF OpToRel, Below
<1>2. PICK x \in T : \A y \in T : <<y, x>> \notin Below
  BY <1>1, WFMin
<1>3. ASSUME NEW y \in T, y < x PROVE FALSE
  <2>1. y \in Nat /\ x \in Nat
    OBVIOUS
  <2>2. <<y, x>> \in Below
    BY <1>3, <2>1 DEF Below
  <2> QED
    BY <1>2, <2>2
<1>4. \A y \in T : y \in Nat /\ x \in Nat
  OBVIOUS
<1>5. \A y \in T : x <= y
  BY <1>3, <1>4
<1> QED
  BY <1>5

(* A bounded one has a greatest element.                                   *)
LEMMA GreatestNat ==
    ASSUME NEW N \in Nat, NEW T \in SUBSET (0 .. N), T # {}
    PROVE  \E x \in T : \A y \in T : y <= x
<1> DEFINE R == {N - t : t \in T}
<1>1. \A t \in T : N - t \in Nat
  OBVIOUS
<1>2. \A y \in T : N - y \in R
  OBVIOUS
<1>3. \A r \in R : \E x \in T : N - x = r
  OBVIOUS
<1> HIDE DEF R
<1>4. PICK r \in R : \A s \in R : r <= s
  <2>1. R \in SUBSET Nat /\ R # {}
    BY <1>1, <1>2, <1>3
  <2> QED
    BY <2>1, LeastNat
<1>5. PICK x \in T : N - x = r
  BY <1>3
<1>6. ASSUME NEW y \in T PROVE y <= x
  <2>1. N - x <= N - y
    BY <1>2, <1>4, <1>5
  <2> QED
    BY <2>1
<1> QED
  BY <1>6

(* The value at d, from the value at the element d links to.               *)
Turn(f, d, null, base, step, next) == IF d = null THEN base ELSE step[d][f[next[d]]]

(* f is right for all elements up to rank k.                               *)
RightUpTo(f, k, D, V, null, base, step, next, rank) ==
    /\ f \in [D -> V]
    /\ \A d \in D : rank[d] <= k => f[d] = Turn(f, d, null, base, step, next)

(* A walk over D with results in V: it ends at null, and every other        *)
(* element links to one of lower rank.                                     *)
IsWalk(D, V, null, base, step, next, rank, N) ==
    /\ null \in D /\ base \in V /\ step \in [D -> [V -> V]]
    /\ N \in Nat /\ rank \in [D -> Nat] /\ \A d \in D : rank[d] <= N
    /\ \A d \in D \ {null} : next[d] \in D /\ rank[next[d]] < rank[d]

(* The equation of its recursive function has a solution.                  *)
HasResults(D, V, null, base, step, next) ==
    \E f \in [D -> V] : \A d \in D : f[d] = Turn(f, d, null, base, step, next)

(* Such a walk has results.                                                *)
LEMMA WalkHasResults ==
    ASSUME NEW D, NEW V, NEW null, NEW base, NEW step, NEW next, NEW rank, NEW N,
           IsWalk(D, V, null, base, step, next, rank, N)
    PROVE  HasResults(D, V, null, base, step, next)
<1> USE DEF IsWalk
<1> DEFINE Turned(f, d) == Turn(f, d, null, base, step, next)
           UpTo(f, k)   == RightUpTo(f, k, D, V, null, base, step, next, rank)
           Bad          == {k \in Nat : ~ \E f : UpTo(f, k)}
<1>1. ASSUME NEW k \in Nat, NEW f \in [D -> V],
             \A d \in D : rank[d] < k => f[d] = Turned(f, d)
      PROVE  \E g : UpTo(g, k)
  <2> DEFINE g == [d \in D |-> IF rank[d] = k THEN Turned(f, d) ELSE f[d]]
  <2>1. \A d \in D : Turned(f, d) \in V
    BY DEF Turn
  <2>2. g \in [D -> V]
    BY <2>1
  <2>3. ASSUME NEW d \in D, rank[d] <= k PROVE g[d] = Turned(g, d)
    <3>1. d # null => g[next[d]] = f[next[d]]
      BY <2>3
    <3>2. Turned(g, d) = Turned(f, d)
      BY <3>1 DEF Turn
    <3>3. rank[d] = k \/ rank[d] < k
      BY <2>3
    <3> QED
      BY <1>1, <3>2, <3>3
  <2> HIDE DEF g
  <2> QED
    BY <2>2, <2>3 DEF RightUpTo
<1>2. \A k : k \in Bad <=> k \in Nat /\ ~ \E f : UpTo(f, k)
  BY Zenon
<1> HIDE DEF Bad
<1>3. Bad \in SUBSET Nat
  BY <1>2
<1>4. Bad = {}
  <2> SUFFICES ASSUME Bad # {} PROVE FALSE
    OBVIOUS
  <2>1. PICK k \in Bad : \A l \in Bad : k <= l
    BY <1>3, LeastNat
  <2>2. k \in Nat /\ ~ \E f : UpTo(f, k)
    BY <1>2, <2>1
  <2>3. CASE k = 0
    <3>1. [d \in D |-> base] \in [D -> V] /\ \A d \in D : ~ (rank[d] < 0)
      OBVIOUS
    <3> QED
      BY <1>1, <2>2, <2>3, <3>1
  <2>4. CASE k # 0
    <3>1. k - 1 \in Nat /\ ~ (k <= k - 1)
      BY <2>2, <2>4
    <3>2. k - 1 \notin Bad
      BY <2>1, <3>1
    <3>3. PICK f : UpTo(f, k - 1)
      BY <1>2, <3>1, <3>2
    <3>4. f \in [D -> V] /\ \A d \in D : rank[d] <= k - 1 => f[d] = Turned(f, d)
      BY <3>3 DEF RightUpTo
    <3>5. \A d \in D : rank[d] < k => rank[d] <= k - 1
      BY <2>2
    <3>6. \A d \in D : rank[d] < k => f[d] = Turned(f, d)
      BY <3>4, <3>5
    <3> QED
      BY <1>1, <2>2, <3>4, <3>6
  <2> QED
    BY <2>3, <2>4
<1>5. PICK f : UpTo(f, N)
  BY <1>2, <1>4
<1>6. f \in [D -> V] /\ \A d \in D : f[d] = Turned(f, d)
  BY <1>5 DEF RightUpTo
<1> QED
  BY <1>6 DEF HasResults
=============================================================================
