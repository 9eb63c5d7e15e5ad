---------------------- MODULE ManifestCommitmentProofs ----------------------
(***************************************************************************)
(* What the Merkle commitment promises, for manifests of any size, and what *)
(* ManifestCommitment makes of it.                                          *)
(*                                                                         *)
(* Three recursive functions of Manifest are defined by an equation; that   *)
(* the equation has a solution is proved for each of them first (LevelDef,  *)
(* HashesDef, ClimbDef), by partial solutions on 0..n.  Then the shape of   *)
(* the tree, and its two halves: what recomputes to a hash of the tree is a *)
(* leaf of it (Binding), and the inclusion proof of a leaf recomputes to    *)
(* the root (Complete).  An invariant says that what is on the wire is      *)
(* signed under the root of a manifest and comes with its proofs.           *)
(***************************************************************************)
EXTENDS ManifestCommitment, TLAPS, FiniteSetTheorems, WellFoundedInduction

(* Induction over Nat, for a set of numbers instead of a predicate. *)
LEMMA Induction ==
  ASSUME NEW S, 0 \in S, \A n \in Nat : n \in S => n + 1 \in S
  PROVE  Nat \subseteq S
<1> SUFFICES ASSUME Nat \ S # {} PROVE FALSE
  OBVIOUS
<1>1. PICK n \in Nat \ S : \A y \in Nat \ S : ~ (<<y, n>> \in OpToRel(<, Nat))
  <2>1. Nat \ S \subseteq Nat
    OBVIOUS
  <2> QED BY <2>1, WFMin, NatLessThanWellFounded
<1>2. \A y \in Nat \ S : ~ (y < n)
  BY <1>1 DEF OpToRel
<1>3. n # 0
  OBVIOUS
<1>4. n - 1 \in Nat /\ n - 1 \in S
  BY <1>2, <1>3
<1> QED BY <1>4

(* The smallest of a set of numbers. *)
LEMMA Smallest ==
  ASSUME NEW T \in SUBSET Nat, T # {}
  PROVE  \E n \in T : \A m \in T : n <= m
<1>1. PICK n \in T : \A y \in T : ~ (<<y, n>> \in OpToRel(<, Nat))
  BY WFMin, NatLessThanWellFounded
<1>2. \A y \in T : ~ (y < n)
  BY <1>1 DEF OpToRel
<1> QED BY <1>2

----------------------------------------------------------------------------
(* The recursive functions *)

(* The levels of a tree. *)
LEMMA LevelDef ==
  ASSUME NEW leaves
  PROVE  Level(leaves) = [k \in Nat |-> IF k = 0 THEN leaves ELSE Above(Level(leaves)[k - 1])]
<1> DEFINE F(f) == [k \in Nat |-> IF k = 0 THEN leaves ELSE Above(f[k - 1])]
           Part(f, n) == f = [k \in 0..n |-> IF k = 0 THEN leaves ELSE Above(f[k - 1])]
           At(n) == CHOOSE f : Part(f, n)
           All == [n \in Nat |-> At(n)[n]]
<1>1. ASSUME NEW n \in Nat, NEW f, Part(f, n), NEW m \in n..(n + 1), NEW g,
             Part(g, m), NEW k \in 0..n
      PROVE  f[k] = g[k]
  <2> DEFINE S == {i \in Nat : i <= n => f[i] = g[i]}
  <2>1. 0 \in S
    BY <1>1
  <2>2. \A i \in Nat : i \in S => i + 1 \in S
    <3> SUFFICES ASSUME NEW i \in Nat, i + 1 <= n, f[i] = g[i]
                 PROVE  f[i + 1] = g[i + 1]
      OBVIOUS
    <3>1. f[i + 1] = Above(f[i]) /\ g[i + 1] = Above(g[i])
      BY <1>1
    <3> QED BY <3>1
  <2> HIDE DEF S
  <2>3. Nat \subseteq S
    BY <2>1, <2>2, Induction
  <2> QED BY <2>3 DEF S
<1>2. \A n \in Nat : Part(At(n), n)
  <2> DEFINE S == {n \in Nat : \E f : Part(f, n)}
  <2>1. 0 \in S
    <3>1. Part([k \in 0..0 |-> leaves], 0)
      OBVIOUS
    <3> QED BY <3>1
  <2>2. \A n \in Nat : n \in S => n + 1 \in S
    <3> SUFFICES ASSUME NEW n \in Nat, NEW f, Part(f, n) PROVE \E g : Part(g, n + 1)
      OBVIOUS
    <3>1. Part([k \in 0..(n + 1) |-> IF k = n + 1 THEN Above(f[n]) ELSE f[k]],
               n + 1)
      OBVIOUS
    <3> QED BY <3>1
  <2> HIDE DEF S
  <2>3. \A n \in Nat : \E f : Part(f, n)
    BY <2>1, <2>2, Induction DEF S
  <2> HIDE DEF Part
  <2> QED BY <2>3
<1> HIDE DEF At
<1>3. ASSUME NEW n \in Nat PROVE All[n] = F(All)[n]
  <2>1. At(n)[n] = (IF n = 0 THEN leaves ELSE Above(At(n)[n - 1]))
    BY <1>2
  <2>2. CASE n = 0
    BY <2>1, <2>2
  <2>3. CASE n # 0
    <3>1. n - 1 \in Nat /\ n \in (n - 1)..((n - 1) + 1) /\ n - 1 \in 0..(n - 1)
      BY <2>3
    <3>2. At(n - 1)[n - 1] = At(n)[n - 1]
      <4> HIDE DEF Part
      <4> QED BY <3>1, <1>1, <1>2
    <3> QED BY <2>1, <2>3, <3>1, <3>2
  <2> QED BY <2>2, <2>3
<1>4. \E f : f = F(f)
  <2>1. All = F(All)
    <3> HIDE DEF All
    <3> QED BY <1>3 DEF All
  <2> QED BY <2>1
<1> HIDE DEF F
<1>5. (CHOOSE f : f = F(f)) = F(CHOOSE f : f = F(f))
  BY <1>4
<1> QED BY <1>5 DEF F, Level

(* The hashes on the way up. *)
LEMMA HashesDef ==
  ASSUME NEW leaf, NEW proof
  PROVE  Hashes(leaf, proof) = [j \in Nat |-> IF j = 0 THEN leaf ELSE Combine(Hashes(leaf, proof)[j - 1], proof[j])]
<1> DEFINE F(f) == [j \in Nat |-> IF j = 0 THEN leaf ELSE Combine(f[j - 1], proof[j])]
           Part(f, n) == f = [j \in 0..n |-> IF j = 0 THEN leaf ELSE Combine(f[j - 1], proof[j])]
           At(n) == CHOOSE f : Part(f, n)
           All == [n \in Nat |-> At(n)[n]]
<1>1. ASSUME NEW n \in Nat, NEW f, Part(f, n), NEW m \in n..(n + 1), NEW g,
             Part(g, m), NEW k \in 0..n
      PROVE  f[k] = g[k]
  <2> DEFINE S == {i \in Nat : i <= n => f[i] = g[i]}
  <2>1. 0 \in S
    BY <1>1
  <2>2. \A i \in Nat : i \in S => i + 1 \in S
    <3> SUFFICES ASSUME NEW i \in Nat, i + 1 <= n, f[i] = g[i]
                 PROVE  f[i + 1] = g[i + 1]
      OBVIOUS
    <3>1. f[i + 1] = Combine(f[i], proof[i + 1]) /\ g[i + 1] = Combine(g[i], proof[i + 1])
      BY <1>1
    <3> QED BY <3>1
  <2> HIDE DEF S
  <2>3. Nat \subseteq S
    BY <2>1, <2>2, Induction
  <2> QED BY <2>3 DEF S
<1>2. \A n \in Nat : Part(At(n), n)
  <2> DEFINE S == {n \in Nat : \E f : Part(f, n)}
  <2>1. 0 \in S
    <3>1. Part([j \in 0..0 |-> leaf], 0)
      OBVIOUS
    <3> QED BY <3>1
  <2>2. \A n \in Nat : n \in S => n + 1 \in S
    <3> SUFFICES ASSUME NEW n \in Nat, NEW f, Part(f, n) PROVE \E g : Part(g, n + 1)
      OBVIOUS
    <3>1. Part([j \in 0..(n + 1) |-> IF j = n + 1 THEN Combine(f[n], proof[n + 1]) ELSE f[j]],
               n + 1)
      OBVIOUS
    <3> QED BY <3>1
  <2> HIDE DEF S
  <2>3. \A n \in Nat : \E f : Part(f, n)
    BY <2>1, <2>2, Induction DEF S
  <2> HIDE DEF Part
  <2> QED BY <2>3
<1> HIDE DEF At
<1>3. ASSUME NEW n \in Nat PROVE All[n] = F(All)[n]
  <2>1. At(n)[n] = (IF n = 0 THEN leaf ELSE Combine(At(n)[n - 1], proof[n]))
    BY <1>2
  <2>2. CASE n = 0
    BY <2>1, <2>2
  <2>3. CASE n # 0
    <3>1. n - 1 \in Nat /\ n \in (n - 1)..((n - 1) + 1) /\ n - 1 \in 0..(n - 1)
      BY <2>3
    <3>2. At(n - 1)[n - 1] = At(n)[n - 1]
      <4> HIDE DEF Part
      <4> QED BY <3>1, <1>1, <1>2
    <3> QED BY <2>1, <2>3, <3>1, <3>2
  <2> QED BY <2>2, <2>3
<1>4. \E f : f = F(f)
  <2>1. All = F(All)
    <3> HIDE DEF All
    <3> QED BY <1>3 DEF All
  <2> QED BY <2>1
<1> HIDE DEF F
<1>5. (CHOOSE f : f = F(f)) = F(CHOOSE f : f = F(f))
  BY <1>4
<1> QED BY <1>5 DEF F, Hashes

(* The climb that collects a proof. *)
LEMMA ClimbDef ==
  ASSUME NEW levels, NEW index
  PROVE  Climb(levels, index) = [k \in Nat |-> IF k = 0 THEN [at |-> index, proof |-> <<>>] ELSE Past(levels[k], Climb(levels, index)[k - 1])]
<1> DEFINE start == [at |-> index, proof |-> <<>>]
<1> HIDE DEF start
<1> DEFINE F(f) == [k \in Nat |-> IF k = 0 THEN start ELSE Past(levels[k], f[k - 1])]
           Part(f, n) == f = [k \in 0..n |-> IF k = 0 THEN start ELSE Past(levels[k], f[k - 1])]
           At(n) == CHOOSE f : Part(f, n)
           All == [n \in Nat |-> At(n)[n]]
<1>1. ASSUME NEW n \in Nat, NEW f, Part(f, n), NEW m \in n..(n + 1), NEW g,
             Part(g, m), NEW k \in 0..n
      PROVE  f[k] = g[k]
  <2> DEFINE S == {i \in Nat : i <= n => f[i] = g[i]}
  <2>1. 0 \in S
    BY <1>1
  <2>2. \A i \in Nat : i \in S => i + 1 \in S
    <3> SUFFICES ASSUME NEW i \in Nat, i + 1 <= n, f[i] = g[i]
                 PROVE  f[i + 1] = g[i + 1]
      OBVIOUS
    <3>1. f[i + 1] = Past(levels[i + 1], f[i]) /\ g[i + 1] = Past(levels[i + 1], g[i])
      BY <1>1
    <3> QED BY <3>1
  <2> HIDE DEF S
  <2>3. Nat \subseteq S
    BY <2>1, <2>2, Induction
  <2> QED BY <2>3 DEF S
<1>2. \A n \in Nat : Part(At(n), n)
  <2> DEFINE S == {n \in Nat : \E f : Part(f, n)}
  <2>1. 0 \in S
    <3>1. Part([k \in 0..0 |-> start], 0)
      OBVIOUS
    <3> QED BY <3>1
  <2>2. \A n \in Nat : n \in S => n + 1 \in S
    <3> SUFFICES ASSUME NEW n \in Nat, NEW f, Part(f, n) PROVE \E g : Part(g, n + 1)
      OBVIOUS
    <3>1. Part([k \in 0..(n + 1) |-> IF k = n + 1 THEN Past(levels[n + 1], f[n]) ELSE f[k]],
               n + 1)
      OBVIOUS
    <3> QED BY <3>1
  <2> HIDE DEF S
  <2>3. \A n \in Nat : \E f : Part(f, n)
    BY <2>1, <2>2, Induction DEF S
  <2> HIDE DEF Part
  <2> QED BY <2>3
<1> HIDE DEF At
<1>3. ASSUME NEW n \in Nat PROVE All[n] = F(All)[n]
  <2>1. At(n)[n] = (IF n = 0 THEN start ELSE Past(levels[n], At(n)[n - 1]))
    BY <1>2
  <2>2. CASE n = 0
    BY <2>1, <2>2
  <2>3. CASE n # 0
    <3>1. n - 1 \in Nat /\ n \in (n - 1)..((n - 1) + 1) /\ n - 1 \in 0..(n - 1)
      BY <2>3
    <3>2. At(n - 1)[n - 1] = At(n)[n - 1]
      <4> HIDE DEF Part
      <4> QED BY <3>1, <1>1, <1>2
    <3> QED BY <2>1, <2>3, <3>1, <3>2
  <2> QED BY <2>2, <2>3
<1>4. \E f : f = F(f)
  <2>1. All = F(All)
    <3> HIDE DEF All
    <3> QED BY <1>3 DEF All
  <2> QED BY <2>1
<1> HIDE DEF F
<1>5. (CHOOSE f : f = F(f)) = F(CHOOSE f : f = F(f))
  BY <1>4
<1> QED BY <1>5 DEF F, start, Climb


----------------------------------------------------------------------------
(* The order of the leaves *)

LEMMA PlaceDef ==
  /\ PathOrder \in Seq(ToSet(PathOrder)) /\ Len(PathOrder) \in Nat
  /\ \A p \in ToSet(PathOrder) :
       Place[p] \in 1..Len(PathOrder) /\ PathOrder[Place[p]] = p
<1>1. PathOrder \in Seq(ToSet(PathOrder)) /\ Len(PathOrder) \in Nat
  BY PathAssumption
<1>2. DOMAIN PathOrder = 1..Len(PathOrder)
  BY <1>1
<1>3. ASSUME NEW p \in ToSet(PathOrder)
      PROVE  Place[p] \in DOMAIN PathOrder /\ PathOrder[Place[p]] = p
  BY DEF ToSet, Place
<1> QED BY <1>1, <1>2, <1>3

LEMMA FieldsFinite ==
  ASSUME NEW fields, DOMAIN fields \subseteq ToSet(PathOrder)
  PROVE  IsFiniteSet(DOMAIN fields) /\ Cardinality(DOMAIN fields) \in Nat
<1>1. PathOrder \in Surjection(1..Len(PathOrder), ToSet(PathOrder))
  BY PlaceDef DEF Surjection, ToSet
<1>2. IsFiniteSet(1..Len(PathOrder))
  BY FS_Interval, PlaceDef
<1>3. IsFiniteSet(ToSet(PathOrder))
  BY <1>1, <1>2, FS_Surjection
<1> QED BY <1>3, FS_Subset, FS_CardinalityType

(* Every field has a leaf of its own, and every leaf a field: the paths are  *)
(* the fields in the order of their indices.                                *)
LEMMA PathsDef ==
  ASSUME NEW fields, DOMAIN fields \subseteq ToSet(PathOrder)
  PROVE  LET D == DOMAIN fields IN
         /\ \A p \in D : /\ Index(fields, p) \in 0..(Cardinality(D) - 1)
                         /\ Paths(fields)[Index(fields, p) + 1] = p
         /\ \A i \in 1..Cardinality(D) : Paths(fields)[i] \in D
<1> DEFINE D == DOMAIN fields
           Below(p) == {q \in D : Place[q] < Place[p]}
           f == [p \in D |-> Cardinality(Below(p))]
           N == Cardinality(D)
<1>1. IsFiniteSet(D) /\ N \in Nat
  BY FieldsFinite
<1>2. ASSUME NEW p \in D
      PROVE  IsFiniteSet(Below(p)) /\ Cardinality(Below(p)) \in 0..(N - 1)
  <2>1. Below(p) \in SUBSET D /\ p \notin Below(p)
    BY PlaceDef
  <2> HIDE DEF Below
  <2>2. IsFiniteSet(Below(p)) /\ Cardinality(Below(p)) <= N /\ Cardinality(Below(p)) # N
    BY <1>1, <2>1, FS_Subset
  <2>3. Cardinality(Below(p)) \in Nat
    BY <2>2, FS_CardinalityType
  <2> QED BY <1>1, <2>2, <2>3
<1>3. ASSUME NEW p \in D, NEW q \in D, Place[p] < Place[q] PROVE f[p] # f[q]
  <2>1. Below(p) \in SUBSET Below(q) /\ p \in Below(q) /\ p \notin Below(p)
    BY <1>3, PlaceDef
  <2> HIDE DEF Below
  <2> QED BY <2>1, <1>2, FS_Subset
<1>4. f \in Injection(D, 0..(N - 1))
  <2>1. f \in [D -> 0..(N - 1)]
    BY <1>2
  <2>2. ASSUME NEW p \in D, NEW q \in D, f[p] = f[q] PROVE p = q
    <3>1. Place[p] = Place[q]
      <4> HIDE DEF f
      <4> QED BY <1>3, <2>2, PlaceDef
    <3> QED BY <3>1, PlaceDef
  <2> HIDE DEF f
  <2> QED BY <2>1, <2>2 DEF Injection, IsInjective
<1>5. f \in Surjection(D, 0..(N - 1))
  <2>1. IsFiniteSet(0..(N - 1)) /\ Cardinality(0..(N - 1)) = N
    BY <1>1, FS_Interval
  <2> HIDE DEF f
  <2> QED BY <1>1, <1>4, <2>1, FS_Injection
<1>6. \A p \in D : Index(fields, p) = f[p]
  BY DEF Index
<1>7. \A p \in D : f[p] \in 0..(N - 1)
  BY <1>2
<1>8. \A p, q \in D : f[p] = f[q] => p = q
  BY <1>4 DEF Injection, IsInjective
<1>9. \A n \in 0..(N - 1) : \E p \in D : f[p] = n
  BY <1>5 DEF Surjection
<1> HIDE DEF f
<1>10. ASSUME NEW i \in 1..N
       PROVE  Paths(fields)[i] \in D /\ f[Paths(fields)[i]] = i - 1
  <2>1. i - 1 \in 0..(N - 1)
    BY <1>1
  <2>2. \E p \in D : Index(fields, p) = i - 1
    BY <2>1, <1>6, <1>9
  <2>3. Paths(fields)[i] = CHOOSE p \in D : Index(fields, p) = i - 1
    BY DEF Paths
  <2> QED BY <2>2, <2>3, <1>6
<1>11. ASSUME NEW p \in D PROVE Paths(fields)[f[p] + 1] = p
  <2>1. f[p] + 1 \in 1..N /\ (f[p] + 1) - 1 = f[p]
    BY <1>1, <1>7
  <2> QED BY <2>1, <1>8, <1>10
<1> QED BY <1>6, <1>7, <1>10, <1>11

----------------------------------------------------------------------------
(* The shape of the tree *)

LEMMA NodeInjective ==
  ASSUME NEW a, NEW b, NEW c, NEW d, Node(a, b) = Node(c, d)
  PROVE  a = c /\ b = d
BY DEF Node

LEMMA LeafInjective ==
  ASSUME NEW a, NEW b, NEW c, NEW d, NEW e, NEW f, Leaf(a, b, c) = Leaf(d, e, f)
  PROVE  a = d /\ b = e /\ c = f
BY DEF Leaf

LEMMA LeafIsNoNode ==
  ASSUME NEW a, NEW b, NEW c, NEW d, NEW e
  PROVE  Leaf(a, b, c) # Node(d, e)
BY DEF Leaf, Node

(* What a level of a tree is: a sequence that is not empty. *)
IsLevel(s) == s \in Seq(ToSet(s)) /\ Len(s) \in Nat \ {0} /\ DOMAIN s = 1..Len(s)

LEMMA AboveLevel ==
  ASSUME NEW level, IsLevel(level)
  PROVE  /\ IsLevel(Above(level))
         /\ Len(Above(level)) = (Len(level) + 1) \div 2
<1> DEFINE n == (Len(level) + 1) \div 2
           A == Above(level)
<1>1. n \in Nat \ {0}
  BY DEF IsLevel
<1>2. DOMAIN A = 1..n
  BY DEF Above
<1>3. A = [i \in 1..n |-> A[i]]
  BY DEF Above
<1> HIDE DEF A, n
<1>4. \A i \in 1..n : A[i] \in ToSet(A)
  BY <1>2 DEF ToSet
<1>5. A \in Seq(ToSet(A)) /\ Len(A) = n
  BY <1>1, <1>3, <1>4
<1> QED BY <1>1, <1>2, <1>5 DEF IsLevel, A, n

LEMMA LevelUp ==
  ASSUME NEW leaves
  PROVE  /\ Level(leaves)[0] = leaves
         /\ \A k \in Nat : Level(leaves)[k + 1] = Above(Level(leaves)[k])
<1>1. ASSUME NEW k \in Nat
      PROVE  Level(leaves)[k] = IF k = 0 THEN leaves ELSE Above(Level(leaves)[k - 1])
  BY LevelDef
<1>2. ASSUME NEW k \in Nat PROVE Level(leaves)[k + 1] = Above(Level(leaves)[k])
  <2>1. k + 1 \in Nat /\ k + 1 # 0 /\ (k + 1) - 1 = k
    OBVIOUS
  <2> QED BY <2>1, <1>1
<1> QED BY <1>1, <1>2

(* How many nodes a level has. *)
Nodes(leaves, k) == Len(Level(leaves)[k])

(* Each level is shorter than the one below, as long as that has two nodes. *)
LEMMA LevelLen ==
  ASSUME NEW leaves, IsLevel(leaves)
  PROVE  \A k \in Nat :
           /\ IsLevel(Level(leaves)[k]) /\ Nodes(leaves, k) \in Nat \ {0}
           /\ Nodes(leaves, k + 1) = (Nodes(leaves, k) + 1) \div 2
           /\ Nodes(leaves, k) > 1 => Nodes(leaves, k) + k <= Nodes(leaves, 0)
<1> DEFINE L == Level(leaves)
           S == {k \in Nat : IsLevel(L[k])}
           R == {k \in Nat : Nodes(leaves, k) > 1 =>
                               Nodes(leaves, k) + k <= Nodes(leaves, 0)}
<1>1. L[0] = leaves /\ \A k \in Nat : L[k + 1] = Above(L[k])
  BY LevelUp
<1> HIDE DEF L
<1>2. Nat \subseteq S
  <2>1. 0 \in S
    BY <1>1
  <2>2. ASSUME NEW k \in Nat, k \in S PROVE k + 1 \in S
    BY <1>1, <2>2, AboveLevel
  <2> HIDE DEF S
  <2> QED BY <2>1, <2>2, Induction
<1>3. \A k \in Nat : IsLevel(L[k])
  BY <1>2
<1>4. ASSUME NEW k \in Nat
      PROVE  Nodes(leaves, k) \in Nat \ {0} /\ Nodes(leaves, k + 1) = (Nodes(leaves, k) + 1) \div 2
  BY <1>1, <1>3, AboveLevel DEF IsLevel, Nodes, L
<1>5. Nat \subseteq R
  <2>1. 0 \in R
    BY <1>4
  <2>2. ASSUME NEW k \in Nat, k \in R PROVE k + 1 \in R
    BY <1>4, <2>2
  <2> HIDE DEF R
  <2> QED BY <2>1, <2>2, Induction
<1> QED BY <1>3, <1>4, <1>5 DEF L

LEMMA HeightDef ==
  ASSUME NEW leaves, IsLevel(leaves)
  PROVE  /\ Height(leaves) \in Nat
         /\ Nodes(leaves, Height(leaves)) = 1
         /\ \A j \in 0..(Height(leaves) - 1) : Nodes(leaves, j) > 1
<1> DEFINE N == [k \in Nat |-> Nodes(leaves, k)]
           T == {k \in Nat : N[k] = 1}
           P(k) == Nodes(leaves, k) = 1 /\ \A j \in 0..(k - 1) : Nodes(leaves, j) > 1
<1>1. N \in [Nat -> Nat] /\ \A k \in Nat : N[k] = Nodes(leaves, k)
  BY LevelLen
<1> HIDE DEF N
<1>2. \A k \in Nat : N[k] > 0 /\ (N[k] > 1 => N[k] + k <= N[0])
  BY <1>1, LevelLen
<1>3. N[0] = Len(leaves)
  BY <1>1, LevelUp DEF Nodes
<1>4. N[0] \in T
  BY <1>1, <1>2
<1>5. PICK k \in T : \A m \in T : k <= m
  <2>1. T \in SUBSET Nat /\ T # {}
    BY <1>4
  <2> HIDE DEF T
  <2> QED BY <2>1, Smallest
<1>6. k \in 0..N[0] /\ P(k)
  <2>1. k <= N[0]
    BY <1>4, <1>5
  <2>2. ASSUME NEW j \in 0..(k - 1) PROVE N[j] > 1
    BY <1>1, <1>2, <1>5
  <2> QED BY <1>1, <2>1, <2>2
<1>7. Height(leaves) = CHOOSE x \in 0..N[0] : P(x)
  BY <1>3 DEF Height, Nodes
<1> HIDE DEF P
<1>8. Height(leaves) \in 0..N[0] /\ P(Height(leaves))
  BY <1>6, <1>7
<1> QED BY <1>1, <1>8 DEF P

LEMMA LevelsDef ==
  ASSUME NEW leaves, IsLevel(leaves)
  PROVE  /\ Len(Levels(leaves)) = Height(leaves) + 1
         /\ \A k \in 0..Height(leaves) : Levels(leaves)[k + 1] = Level(leaves)[k]
<1> DEFINE h == Height(leaves)
<1>1. h \in Nat
  BY HeightDef
<1>2. Levels(leaves) = [k \in 1..(h + 1) |-> Level(leaves)[k - 1]]
  BY DEF Levels
<1> HIDE DEF h
<1>3. Len(Levels(leaves)) = h + 1
  BY <1>1, <1>2
<1>4. ASSUME NEW k \in 0..h PROVE Levels(leaves)[k + 1] = Level(leaves)[k]
  <2>1. k + 1 \in 1..(h + 1) /\ (k + 1) - 1 = k
    BY <1>1
  <2> QED BY <2>1, <1>2
<1> QED BY <1>3, <1>4 DEF h

----------------------------------------------------------------------------
(* Binding: what recomputes to a hash of the tree is one of its leaves *)

(* All hashes of the tree over `leaves`. *)
Terms(leaves) == UNION {ToSet(Level(leaves)[k]) : k \in Nat}

(* A hash of the tree is a leaf or was made of two hashes of the tree. *)
LEMMA TermShape ==
  ASSUME NEW leaves, IsLevel(leaves), NEW x \in Terms(leaves)
  PROVE  x \in ToSet(leaves) \/ \E y, z \in Terms(leaves) : x = Node(y, z)
<1> DEFINE L == Level(leaves)
           Shape(h) == h \in ToSet(leaves) \/ \E y, z \in Terms(leaves) : h = Node(y, z)
           S == {k \in Nat : \A h \in ToSet(L[k]) : Shape(h)}
<1>1. L[0] = leaves /\ \A k \in Nat : L[k + 1] = Above(L[k])
  BY LevelUp
<1>2. \A k \in Nat : IsLevel(L[k]) /\ ToSet(L[k]) \subseteq Terms(leaves)
  BY LevelLen DEF Terms
<1> HIDE DEF L
<1>3. 0 \in S
  BY <1>1
<1>4. ASSUME NEW k \in Nat, k \in S PROVE k + 1 \in S
  <2> DEFINE low == L[k]
  <2>1. IsLevel(low) /\ ToSet(low) \subseteq Terms(leaves)
    BY <1>2
  <2>2. \A h \in ToSet(low) : Shape(h)
    BY <1>4
  <2>3. L[k + 1] = Above(low)
    BY <1>1
  <2> HIDE DEF low, Shape
  <2>4. Len(low) \in Nat \ {0} /\ \A i \in 1..Len(low) : low[i] \in ToSet(low)
    BY <2>1 DEF IsLevel, ToSet
  <2>5. ASSUME NEW h \in ToSet(Above(low)) PROVE Shape(h)
    <3>1. PICK i \in 1..((Len(low) + 1) \div 2) : h = Above(low)[i]
      BY DEF ToSet, Above
    <3>2. CASE 2 * i <= Len(low)
      <4>1. h = Node(low[2 * i - 1], low[2 * i])
        BY <3>1, <3>2 DEF Above
      <4>2. 2 * i - 1 \in 1..Len(low) /\ 2 * i \in 1..Len(low)
        BY <2>4, <3>2
      <4>3. low[2 * i - 1] \in Terms(leaves) /\ low[2 * i] \in Terms(leaves)
        BY <2>1, <2>4, <4>2
      <4> QED BY <4>1, <4>3 DEF Shape
    <3>3. CASE ~(2 * i <= Len(low))
      <4>1. h = low[Len(low)]
        BY <3>1, <3>3 DEF Above
      <4>2. Len(low) \in 1..Len(low)
        BY <2>4
      <4> QED BY <4>1, <4>2, <2>2, <2>4
    <3> QED BY <3>2, <3>3
  <2> QED BY <2>3, <2>5
<1>5. Nat \subseteq S
  <2> HIDE DEF S
  <2> QED BY <1>3, <1>4, Induction
<1>6. PICK k \in Nat : x \in ToSet(L[k])
  BY DEF Terms, L
<1> HIDE DEF Shape
<1>7. Shape(x)
  BY <1>5, <1>6
<1> QED BY <1>7 DEF Shape

LEMMA HashUp ==
  ASSUME NEW leaf, NEW proof
  PROVE  /\ Hashes(leaf, proof)[0] = leaf
         /\ \A n \in Nat : Hashes(leaf, proof)[n + 1] =
                             Combine(Hashes(leaf, proof)[n], proof[n + 1])
<1>1. ASSUME NEW n \in Nat
      PROVE  Hashes(leaf, proof)[n] =
               IF n = 0 THEN leaf ELSE Combine(Hashes(leaf, proof)[n - 1], proof[n])
  BY HashesDef
<1>2. ASSUME NEW n \in Nat
      PROVE  Hashes(leaf, proof)[n + 1] = Combine(Hashes(leaf, proof)[n], proof[n + 1])
  <2>1. n + 1 \in Nat /\ n + 1 # 0 /\ (n + 1) - 1 = n
    OBVIOUS
  <2> QED BY <2>1, <1>1
<1> QED BY <1>1, <1>2

(* No other field, value or salt recomputes to a hash of the tree, whatever   *)
(* the siblings it comes with.                                              *)
THEOREM Binding ==
  ASSUME NEW leaves, IsLevel(leaves),
         \A x \in ToSet(leaves) : \E p, v, s : x = Leaf(p, v, s),
         NEW path, NEW value, NEW salt, NEW proof, Len(proof) \in Nat,
         RootFromProof(Leaf(path, value, salt), proof) \in Terms(leaves)
  PROVE  Leaf(path, value, salt) \in ToSet(leaves)
<1> DEFINE leaf == Leaf(path, value, salt)
           h == Hashes(leaf, proof)
           len == Len(proof)
           S == {n \in Nat : n <= len => h[len - n] \in Terms(leaves)}
<1>1. h[0] = leaf /\ \A n \in Nat : h[n + 1] = Combine(h[n], proof[n + 1])
  BY HashUp
<1>2. h[len] \in Terms(leaves)
  BY DEF RootFromProof
<1>3. len \in Nat
  OBVIOUS
<1> HIDE DEF h, len
<1>4. 0 \in S
  BY <1>2, <1>3
<1>5. ASSUME NEW n \in Nat, n \in S PROVE n + 1 \in S
  <2> SUFFICES ASSUME n + 1 <= len PROVE h[len - (n + 1)] \in Terms(leaves)
    OBVIOUS
  <2> DEFINE m == len - (n + 1)
  <2>1. m \in Nat /\ m + 1 = len - n /\ n <= len
    BY <1>3
  <2>2. h[m + 1] \in Terms(leaves)
    BY <1>5, <2>1
  <2>3. h[m + 1] = Combine(h[m], proof[m + 1])
    BY <1>1, <2>1
  <2> HIDE DEF m
  <2>4. PICK a, b : h[m + 1] = Node(a, b) /\ (h[m] = a \/ h[m] = b)
    BY <2>3 DEF Combine
  <2>5. h[m + 1] \notin ToSet(leaves)
    BY <2>4, LeafIsNoNode
  <2>6. PICK y, z \in Terms(leaves) : h[m + 1] = Node(y, z)
    BY <2>2, <2>5, TermShape
  <2>7. a = y /\ b = z
    BY <2>4, <2>6, NodeInjective
  <2>8. h[m] \in Terms(leaves)
    BY <2>4, <2>7
  <2> QED BY <2>8 DEF m
<1>6. Nat \subseteq S
  <2> HIDE DEF S
  <2> QED BY <1>4, <1>5, Induction
<1>7. leaf \in Terms(leaves)
  <2>1. len \in S /\ len - len = 0
    BY <1>3, <1>6
  <2> QED BY <1>1, <1>3, <2>1
<1> QED BY <1>7, TermShape, LeafIsNoNode

----------------------------------------------------------------------------
(* Completeness: the inclusion proof of a leaf recomputes to the root *)

IsSequence(s) == s \in Seq(ToSet(s))

LEMMA AppendDef ==
  ASSUME NEW s, IsSequence(s), NEW e
  PROVE  /\ IsSequence(Append(s, e))
         /\ Len(s) \in Nat /\ Len(Append(s, e)) = Len(s) + 1
         /\ \A i \in 1..Len(s) : Append(s, e)[i] = s[i]
         /\ Append(s, e)[Len(s) + 1] = e
<1> DEFINE T == ToSet(s) \cup {e}
           a == Append(s, e)
<1>1. s \in Seq(T)
  <2>1. s \in Seq(ToSet(s)) /\ ToSet(s) \subseteq T
    BY DEF IsSequence
  <2> HIDE DEF T
  <2> QED BY <2>1
<1>2. e \in T
  OBVIOUS
<1> HIDE DEF T
<1>3. Len(s) \in Nat /\ a \in Seq(T) /\ Len(a) = Len(s) + 1 /\ a[Len(s) + 1] = e
      /\ \A i \in 1..Len(s) : a[i] = s[i]
  BY <1>1, <1>2
<1> HIDE DEF a
<1>4. DOMAIN a = 1..Len(a) /\ \A i \in 1..Len(a) : a[i] \in ToSet(a)
  BY <1>3 DEF ToSet
<1>5. a = [i \in 1..Len(a) |-> a[i]] /\ Len(a) \in Nat
  BY <1>3, <1>4
<1>6. a \in Seq(ToSet(a))
  BY <1>4, <1>5
<1> QED BY <1>3, <1>6 DEF IsSequence, a

(* One more sibling is one more hash on top. *)
LEMMA OneMore ==
  ASSUME NEW leaf, NEW proof, IsSequence(proof), NEW step
  PROVE  RootFromProof(leaf, Append(proof, step)) = Combine(RootFromProof(leaf, proof), step)
<1> DEFINE longer == Append(proof, step)
           f == Hashes(leaf, proof)
           g == Hashes(leaf, longer)
           len == Len(proof)
           S == {n \in Nat : n <= len => g[n] = f[n]}
<1>1. /\ f[0] = leaf /\ \A n \in Nat : f[n + 1] = Combine(f[n], proof[n + 1])
      /\ g[0] = leaf /\ \A n \in Nat : g[n + 1] = Combine(g[n], longer[n + 1])
  <2> HIDE DEF longer
  <2> QED BY HashUp
<1>2. /\ len \in Nat /\ Len(longer) = len + 1 /\ longer[len + 1] = step
      /\ \A i \in 1..len : longer[i] = proof[i]
  BY AppendDef
<1> HIDE DEF f, g, len, longer
<1>3. 0 \in S
  BY <1>1
<1>4. ASSUME NEW n \in Nat, n \in S PROVE n + 1 \in S
  <2> SUFFICES ASSUME n + 1 <= len PROVE g[n + 1] = f[n + 1]
    OBVIOUS
  <2>1. g[n] = f[n]
    BY <1>2, <1>4
  <2>2. n + 1 \in 1..len
    BY <1>2
  <2> QED BY <1>1, <1>2, <2>1, <2>2
<1>5. Nat \subseteq S
  <2> HIDE DEF S
  <2> QED BY <1>3, <1>4, Induction
<1>6. g[len] = f[len]
  BY <1>2, <1>5
<1>7. g[len + 1] = Combine(f[len], step)
  BY <1>1, <1>2, <1>6
<1> QED BY <1>2, <1>7 DEF RootFromProof, f, g, len, longer

(* What Past() makes of a level agrees with what Above() makes of it. *)
LEMMA PastAbove ==
  ASSUME NEW level, IsLevel(level), NEW was, IsSequence(was.proof),
         was.at \in 0..(Len(level) - 1)
  PROVE  LET now == Past(level, was) IN
         /\ now.at \in 0..(Len(Above(level)) - 1)
         /\ IsSequence(now.proof)
         /\ \A leaf : RootFromProof(leaf, was.proof) = level[was.at + 1] =>
              RootFromProof(leaf, now.proof) = Above(level)[now.at + 1]
<1> DEFINE at == was.at
           len == Len(level)
           up == at \div 2
           sibling == Sibling(at)
           step == Beside(level, at)
           now == Past(level, was)
           root(h) == \A leaf : RootFromProof(leaf, was.proof) = level[at + 1] =>
                                RootFromProof(leaf, now.proof) = h
<1>1. len \in Nat \ {0} /\ at \in 0..(len - 1)
  BY DEF IsLevel
<1>2. now.at = up /\ now.proof = IF sibling < len THEN Append(was.proof, step) ELSE was.proof
  BY DEF Past
<1>3. Len(Above(level)) = (len + 1) \div 2
  BY AboveLevel
<1>4. \A i \in 1..((len + 1) \div 2) :
        Above(level)[i] = IF 2 * i <= len THEN Node(level[2 * i - 1], level[2 * i])
                          ELSE level[len]
  BY DEF Above
<1>5. IsSequence(now.proof)
  BY <1>2, AppendDef
<1>6. up = at \div 2 /\ sibling = IF at % 2 = 0 THEN at + 1 ELSE at - 1
  BY DEF Sibling
<1>7. step.side = (IF sibling < at THEN "L" ELSE "R") /\ step.hash = level[sibling + 1]
  BY DEF Beside
<1>8. ASSUME sibling < len
      PROVE  root(IF sibling < at THEN Node(level[sibling + 1], level[at + 1])
                  ELSE Node(level[at + 1], level[sibling + 1]))
  <2> HIDE DEF step, sibling, at, len, now
  <2>1. now.proof = Append(was.proof, step)
    BY <1>2, <1>8
  <2>2. \A leaf : RootFromProof(leaf, now.proof)
                    = Combine(RootFromProof(leaf, was.proof), step)
    BY <2>1, OneMore
  <2> QED BY <1>7, <2>2 DEF Combine
<1>9. ASSUME ~(sibling < len) PROVE root(level[at + 1])
  <2> HIDE DEF step, sibling, at, len, now
  <2> QED BY <1>2, <1>9
<1> SUFFICES up \in 0..(((len + 1) \div 2) - 1) /\ root(Above(level)[up + 1])
  <2> HIDE DEF len, up
  <2> QED BY <1>2, <1>3, <1>5 DEF now
<1> HIDE DEF at, len, up, sibling, step, now, root
<1>10. CASE at % 2 = 0
  <2>1. at = 2 * up /\ up \in Nat /\ sibling = at + 1
    BY <1>1, <1>6, <1>10
  <2>2. /\ up + 1 \in 1..((len + 1) \div 2)
        /\ 2 * (up + 1) - 1 = at + 1 /\ 2 * (up + 1) = at + 2
    BY <1>1, <2>1
  <2>3. CASE sibling < len
    <3>1. ~(sibling < at) /\ sibling + 1 = at + 2 /\ 2 * (up + 1) <= len
      BY <1>1, <2>1, <2>2, <2>3
    <3>2. Above(level)[up + 1] = Node(level[at + 1], level[at + 2])
      BY <1>4, <2>2, <3>1
    <3> QED BY <1>8, <2>2, <2>3, <3>1, <3>2, <1>1, <2>1
  <2>4. CASE ~(sibling < len)
    <3>1. at + 1 = len /\ ~(2 * (up + 1) <= len)
      BY <1>1, <2>1, <2>2, <2>4
    <3>2. Above(level)[up + 1] = level[at + 1]
      BY <1>4, <2>2, <3>1
    <3> QED BY <1>9, <2>2, <2>4, <3>2, <1>1, <2>1
  <2> QED BY <2>3, <2>4
<1>11. CASE at % 2 # 0
  <2>1. at = 2 * up + 1 /\ up \in Nat /\ sibling = at - 1
    BY <1>1, <1>6, <1>11
  <2>2. /\ up + 1 \in 1..((len + 1) \div 2)
        /\ 2 * (up + 1) - 1 = at /\ 2 * (up + 1) = at + 1 /\ 2 * (up + 1) <= len
        /\ sibling < len /\ sibling < at /\ sibling + 1 = at
    BY <1>1, <2>1
  <2>3. Above(level)[up + 1] = Node(level[at], level[at + 1])
    BY <1>4, <2>2
  <2> QED BY <1>8, <2>2, <2>3, <1>1, <2>1
<1> QED BY <1>10, <1>11, <1>1

(* The root of a tree. *)
Top(leaves) == Level(leaves)[Height(leaves)][1]

(* The inclusion proof of every leaf recomputes to the root, wherever in the *)
(* tree nodes go up unpaired.                                               *)
THEOREM Complete ==
  ASSUME NEW leaves, IsLevel(leaves), NEW index \in 0..(Len(leaves) - 1)
  PROVE  /\ IsSequence(InclusionProof(Levels(leaves), index))
         /\ RootFromProof(leaves[index + 1], InclusionProof(Levels(leaves), index))
              = Top(leaves)
<1> DEFINE L == Level(leaves)
           V == Levels(leaves)
           C == Climb(V, index)
           height == Height(leaves)
           leaf == leaves[index + 1]
           Good(k) == /\ C[k].at \in 0..(Nodes(leaves, k) - 1)
                      /\ IsSequence(C[k].proof)
                      /\ RootFromProof(leaf, C[k].proof) = L[k][C[k].at + 1]
           S == {k \in Nat : k <= height => Good(k)}
<1>1. /\ height \in Nat /\ Nodes(leaves, height) = 1
      /\ Len(V) = height + 1 /\ \A k \in 0..height : V[k + 1] = L[k]
  BY HeightDef, LevelsDef
<1>2. /\ C[0] = [at |-> index, proof |-> <<>>]
      /\ \A k \in Nat : C[k + 1] = Past(V[k + 1], C[k])
  <2>1. ASSUME NEW k \in Nat
        PROVE  C[k] = IF k = 0 THEN [at |-> index, proof |-> <<>>]
                      ELSE Past(V[k], C[k - 1])
    <3> HIDE DEF V
    <3> QED BY ClimbDef
  <2> HIDE DEF C, V
  <2>2. ASSUME NEW k \in Nat PROVE C[k + 1] = Past(V[k + 1], C[k])
    <3>1. k + 1 \in Nat /\ k + 1 # 0 /\ (k + 1) - 1 = k
      OBVIOUS
    <3> QED BY <3>1, <2>1
  <2> QED BY <2>1, <2>2
<1>3. L[0] = leaves /\ \A k \in Nat : L[k + 1] = Above(L[k]) /\ IsLevel(L[k])
  BY LevelUp, LevelLen
<1>4. \A k \in Nat : Nodes(leaves, k) = Len(L[k])
  BY DEF Nodes
<1> HIDE DEF L, V, C, height
<1>5. 0 \in S
  <2>1. C[0].at = index /\ C[0].proof = <<>>
    BY <1>2
  <2>2. IsSequence(<<>>)
    BY DEF IsSequence
  <2>3. RootFromProof(leaf, <<>>) = leaf
    BY HashUp DEF RootFromProof
  <2>4. Nodes(leaves, 0) = Len(leaves)
    BY <1>3, <1>4
  <2> QED BY <1>3, <2>1, <2>2, <2>3, <2>4
<1>6. ASSUME NEW k \in Nat, k \in S PROVE k + 1 \in S
  <2> SUFFICES ASSUME k + 1 <= height PROVE Good(k + 1)
    OBVIOUS
  <2>1. k \in 0..height
    BY <1>1
  <2>2. Good(k)
    BY <1>6, <2>1
  <2> DEFINE was == C[k]
             now == Past(L[k], was)
  <2>3. C[k + 1] = now /\ L[k + 1] = Above(L[k]) /\ IsLevel(L[k])
        /\ Nodes(leaves, k) = Len(L[k]) /\ Nodes(leaves, k + 1) = Len(Above(L[k]))
    <3>1. V[k + 1] = L[k]
      BY <1>1, <2>1
    <3>2. C[k + 1] = now
      BY <1>2, <3>1
    <3>3. L[k + 1] = Above(L[k]) /\ IsLevel(L[k])
      BY <1>3
    <3>4. k + 1 \in Nat
      OBVIOUS
    <3>5. Nodes(leaves, k) = Len(L[k]) /\ Nodes(leaves, k + 1) = Len(L[k + 1])
      BY <1>4, <3>4
    <3> HIDE DEF now
    <3> QED BY <3>2, <3>3, <3>5
  <2>4. was.at \in 0..(Len(L[k]) - 1) /\ IsSequence(was.proof)
        /\ RootFromProof(leaf, was.proof) = L[k][was.at + 1]
    BY <2>2, <2>3
  <2> HIDE DEF was
  <2>5. /\ now.at \in 0..(Len(Above(L[k])) - 1)
        /\ IsSequence(now.proof)
        /\ RootFromProof(leaf, was.proof) = L[k][was.at + 1] =>
             RootFromProof(leaf, now.proof) = Above(L[k])[now.at + 1]
    BY <2>3, <2>4, PastAbove
  <2> HIDE DEF now
  <2> QED BY <2>3, <2>4, <2>5
<1>7. Nat \subseteq S
  <2> HIDE DEF S
  <2> QED BY <1>5, <1>6, Induction
<1>8. Good(height)
  BY <1>1, <1>7
<1>9. C[height].at = 0
  BY <1>1, <1>8
<1>10. InclusionProof(V, index) = C[height].proof
  <2>1. Len(V) - 1 = height
    BY <1>1
  <2> QED BY <2>1 DEF InclusionProof, C
<1>11. Top(leaves) = L[height][0 + 1]
  BY DEF Top, L, height
<1> QED BY <1>8, <1>9, <1>10, <1>11 DEF V

----------------------------------------------------------------------------
(* A manifest's tree *)

(* A manifest as build() makes it. *)
Built(m) ==
  /\ m.owner \in Did /\ m.fields \in Content[m.owner]
  /\ m.levels = Levels(Leaves(m.issue, m.fields))

(* The leaves are those of the manifest's fields, each with its own salt, and *)
(* the index of a field is the place of its leaf.                           *)
LEMMA LeavesDef ==
  ASSUME NEW m, Built(m)
  PROVE  LET leaves == Leaves(m.issue, m.fields)
             D == DOMAIN m.fields IN
         /\ DidPath \in D /\ m.fields[DidPath] = m.owner
         /\ IsLevel(leaves)
         /\ \A x \in ToSet(leaves) :
              \E p \in D : x = Leaf(p, m.fields[p], Salt(m.issue, p))
         /\ \A p \in D :
              /\ Index(m.fields, p) \in 0..(Len(leaves) - 1)
              /\ leaves[Index(m.fields, p) + 1] = Leaf(p, m.fields[p], Salt(m.issue, p))
<1> DEFINE D == DOMAIN m.fields
           n == Cardinality(D)
           l == Leaves(m.issue, m.fields)
           leafOf(p) == Leaf(p, m.fields[p], Salt(m.issue, p))
<1>1. D \subseteq ToSet(PathOrder) /\ DidPath \in D /\ m.fields[DidPath] = m.owner
  BY ContentAssumption DEF Built
<1>2. n \in Nat
  BY <1>1, FieldsFinite
<1>3. /\ \A p \in D : Index(m.fields, p) \in 0..(n - 1) /\ Paths(m.fields)[Index(m.fields, p) + 1] = p
      /\ \A i \in 1..n : Paths(m.fields)[i] \in D
  BY <1>1, PathsDef
<1>4. n # 0
  BY <1>1, <1>2, <1>3
<1>5. l = [i \in 1..n |-> leafOf(Paths(m.fields)[i])]
  BY DEF Leaves
<1> HIDE DEF n, l, leafOf
<1>6. DOMAIN l = 1..n /\ \A i \in 1..n : l[i] \in ToSet(l)
  BY <1>5 DEF ToSet
<1>7. l \in Seq(ToSet(l)) /\ Len(l) = n
  <2>1. l = [i \in 1..n |-> l[i]]
    BY <1>5
  <2> QED BY <1>2, <1>6, <2>1
<1>8. IsLevel(l)
  BY <1>2, <1>4, <1>6, <1>7 DEF IsLevel
<1>9. ASSUME NEW x \in ToSet(l) PROVE \E p \in D : x = leafOf(p)
  BY <1>3, <1>5 DEF ToSet
<1>10. ASSUME NEW p \in D
       PROVE  Index(m.fields, p) \in 0..(Len(l) - 1) /\ l[Index(m.fields, p) + 1] = leafOf(p)
  <2>1. Index(m.fields, p) \in 0..(n - 1) /\ Paths(m.fields)[Index(m.fields, p) + 1] = p
    BY <1>3
  <2>2. Index(m.fields, p) + 1 \in 1..n
    BY <1>2, <2>1
  <2> QED BY <1>5, <1>7, <2>1, <2>2
<1> QED BY <1>1, <1>8, <1>9, <1>10 DEF l, leafOf

LEMMA RootIsTop ==
  ASSUME NEW m, Built(m)
  PROVE  LET leaves == Leaves(m.issue, m.fields) IN
         Root(m) = Top(leaves) /\ Root(m) \in Terms(leaves)
<1> DEFINE l == Leaves(m.issue, m.fields)
           h == Height(l)
<1>1. IsLevel(l) /\ m.levels = Levels(l)
  BY LeavesDef DEF Built
<1> HIDE DEF l
<1>2. h \in Nat /\ Nodes(l, h) = 1
  BY <1>1, HeightDef
<1>3. Len(Levels(l)) = h + 1 /\ Levels(l)[h + 1] = Level(l)[h]
  BY <1>1, <1>2, LevelsDef
<1>4. Root(m) = Level(l)[h][1]
  BY <1>1, <1>3 DEF Root
<1>5. IsLevel(Level(l)[h]) /\ Len(Level(l)[h]) = 1
  BY <1>1, <1>2, LevelLen DEF Nodes
<1>6. Level(l)[h][1] \in ToSet(Level(l)[h])
  BY <1>5 DEF IsLevel, ToSet
<1> QED BY <1>2, <1>4, <1>6 DEF Top, Terms, l

(* What recomputes to a manifest's root is a field of that manifest, under its *)
(* salt.                                                                    *)
LEMMA RootBinds ==
  ASSUME NEW m, Built(m), NEW p, NEW v, NEW s, NEW proof, Len(proof) \in Nat,
         RootFromProof(Leaf(p, v, s), proof) = Root(m)
  PROVE  p \in DOMAIN m.fields /\ v = m.fields[p] /\ s = Salt(m.issue, p)
<1> DEFINE l == Leaves(m.issue, m.fields)
<1>1. IsLevel(l) /\ Root(m) \in Terms(l)
      /\ \A x \in ToSet(l) : \E q \in DOMAIN m.fields : x = Leaf(q, m.fields[q], Salt(m.issue, q))
  BY LeavesDef, RootIsTop
<1> HIDE DEF l
<1>2. Leaf(p, v, s) \in ToSet(l)
  BY <1>1, Binding
<1>3. PICK q \in DOMAIN m.fields : Leaf(p, v, s) = Leaf(q, m.fields[q], Salt(m.issue, q))
  BY <1>1, <1>2
<1> QED BY <1>3, LeafInjective

LEMMA RootComplete ==
  ASSUME NEW m, Built(m), NEW p \in DOMAIN m.fields
  PROVE  LET proof == InclusionProof(m.levels, Index(m.fields, p)) IN
         /\ IsSequence(proof)
         /\ RootFromProof(Leaf(p, m.fields[p], Salt(m.issue, p)), proof) = Root(m)
<1> DEFINE l == Leaves(m.issue, m.fields)
           i == Index(m.fields, p)
<1>1. /\ IsLevel(l) /\ m.levels = Levels(l) /\ Root(m) = Top(l) /\ i \in 0..(Len(l) - 1)
      /\ l[i + 1] = Leaf(p, m.fields[p], Salt(m.issue, p))
  BY LeavesDef, RootIsTop DEF Built
<1> HIDE DEF l, i
<1>2. /\ IsSequence(InclusionProof(Levels(l), i))
      /\ RootFromProof(l[i + 1], InclusionProof(Levels(l), i)) = Top(l)
  BY <1>1, Complete
<1> QED BY <1>1, <1>2 DEF i

----------------------------------------------------------------------------
(* The invariant *)

\* Every manifest is built, under a number of its own.
IssuedInv ==
  /\ issued \in Seq(ToSet(issued))
  /\ \A i \in 1..Len(issued) : Built(issued[i]) /\ issued[i].issue = i

\* What is on the wire is a reveal of a manifest.
WireInv ==
  \A b \in wire : \E i \in 1..Len(issued), t \in ToSet(TierOrder) :
    b = Reveal(issued[i], t)

ViewInv == view # None => view.did \in Did /\ view.verified \in BOOLEAN

CommitInv == IssuedInv /\ WireInv /\ ViewInv /\ RevealsVerify /\ AcceptedIsCommitted

LEMMA IssuedDef ==
  ASSUME IssuedInv
  PROVE  /\ Len(issued) \in Nat /\ DOMAIN issued = 1..Len(issued)
         /\ \A i \in 1..Len(issued) : Built(issued[i])
BY DEF IssuedInv

(* What a reveal is made of. *)
LEMMA RevealDef ==
  ASSUME NEW m, Built(m), NEW t
  PROVE  LET b == Reveal(m, t) IN
         /\ b = [revealed |-> b.revealed, proofs |-> b.proofs, root |-> Root(m),
                 signature |-> [key |-> m.owner, root |-> Root(m)]]
         /\ DOMAIN b.revealed = Shown(m, t) /\ DOMAIN b.proofs = Shown(m, t)
         /\ \A p \in Shown(m, t) :
              /\ p \in DOMAIN m.fields
              /\ b.revealed[p] = m.fields[p]
              /\ b.proofs[p].salt = Salt(m.issue, p)
              /\ IsSequence(b.proofs[p].siblings)
              /\ RootFromProof(Leaf(p, m.fields[p], Salt(m.issue, p)), b.proofs[p].siblings)
                   = Root(m)
         /\ DidPath \in Shown(m, t)
<1> DEFINE b == Reveal(m, t)
           way(p) == InclusionProof(m.levels, Index(m.fields, p))
<1>1. /\ b.revealed = [p \in Shown(m, t) |-> m.fields[p]]
      /\ b.proofs = [p \in Shown(m, t) |-> [salt |-> Salt(m.issue, p), siblings |-> way(p)]]
      /\ b = [revealed |-> b.revealed, proofs |-> b.proofs, root |-> Root(m),
              signature |-> [key |-> m.owner, root |-> Root(m)]]
  BY DEF Reveal
<1>2. \A p \in Shown(m, t) : p \in DOMAIN m.fields
  BY DEF Shown
<1>3. \A p \in DOMAIN m.fields :
        /\ IsSequence(way(p))
        /\ RootFromProof(Leaf(p, m.fields[p], Salt(m.issue, p)), way(p)) = Root(m)
  BY RootComplete
<1>4. DidPath \in Shown(m, t)
  BY LeavesDef, ContentAssumption DEF Shown
<1> HIDE DEF b, way
<1>5. \A p \in Shown(m, t) :
        /\ b.revealed[p] = m.fields[p]
        /\ b.proofs[p].salt = Salt(m.issue, p) /\ b.proofs[p].siblings = way(p)
  BY <1>1
<1>6. DOMAIN b.revealed = Shown(m, t) /\ DOMAIN b.proofs = Shown(m, t)
  BY <1>1
<1>7. \A p \in Shown(m, t) :
        /\ IsSequence(b.proofs[p].siblings)
        /\ RootFromProof(Leaf(p, m.fields[p], Salt(m.issue, p)), b.proofs[p].siblings)
             = Root(m)
  BY <1>2, <1>3, <1>5
<1> QED BY <1>1, <1>2, <1>4, <1>5, <1>6, <1>7 DEF b

(* However two reveals are changed or mixed, the signature is one of theirs, *)
(* and so is the proof that comes with each field.                          *)
LEMMA CopyShape ==
  ASSUME NEW m, NEW n, NEW s, NEW t, Built(m), Built(n),
         NEW copy \in Changed(Reveal(m, s)) \cup Mixed(Reveal(m, s), Reveal(n, t))
                        \cup {Joined(Reveal(m, s), Reveal(n, t))}
  PROVE  /\ copy.signature \in {[key |-> m.owner, root |-> Root(m)],
                                [key |-> n.owner, root |-> Root(n)]}
         /\ \A p \in DOMAIN copy.proofs : IsSequence(copy.proofs[p].siblings)
<1> DEFINE b == Reveal(m, s)
           c == Reveal(n, t)
           Proofs(f) == \A p \in DOMAIN f : IsSequence(f[p].siblings)
<1>1. /\ b = [revealed |-> b.revealed, proofs |-> b.proofs, root |-> Root(m),
              signature |-> [key |-> m.owner, root |-> Root(m)]]
      /\ c = [revealed |-> c.revealed, proofs |-> c.proofs, root |-> Root(n),
              signature |-> [key |-> n.owner, root |-> Root(n)]]
      /\ DOMAIN b.revealed = DOMAIN b.proofs
      /\ Proofs(b.proofs) /\ Proofs(c.proofs)
  BY RevealDef
<1> HIDE DEF b, c
<1>2. /\ b.signature = [key |-> m.owner, root |-> Root(m)]
      /\ c.signature = [key |-> n.owner, root |-> Root(n)]
  BY <1>1
<1>3. CASE copy = Joined(b, c)
  <2> DEFINE f == [p \in DOMAIN b.proofs \cup DOMAIN c.proofs |->
                     IF p \in DOMAIN b.proofs THEN b.proofs[p] ELSE c.proofs[p]]
  <2>1. copy.signature = b.signature /\ copy.proofs = f
    BY <1>1, <1>3 DEF Joined
  <2>2. Proofs(f)
    BY <1>1
  <2> HIDE DEF f
  <2> QED BY <1>2, <2>1, <2>2
<1>4. CASE copy \in Mixed(b, c) /\ copy # Joined(b, c)
  <2>1. copy.proofs = b.proofs /\ copy.signature \in {b.signature, c.signature}
    BY <1>1, <1>4 DEF Mixed
  <2> QED BY <1>1, <1>2, <2>1
<1>5. CASE copy \in Changed(b)
  <2>1. PICK p \in DOMAIN b.revealed, q \in DOMAIN b.revealed :
          \/ \E v : copy = [b EXCEPT !.revealed[p] = v]
          \/ copy = [b EXCEPT !.revealed[p] = b.revealed[q], !.proofs[p] = b.proofs[q]]
          \/ copy = [b EXCEPT !.revealed = Without(b.revealed, p)]
          \/ copy = [b EXCEPT !.proofs = Without(b.proofs, p)]
    <3>1. PICK p \in DOMAIN b.revealed : copy \in ChangedAt(b, p)
      BY <1>5 DEF Changed
    <3> QED BY <3>1 DEF ChangedAt
  <2>2. copy.signature = b.signature
    BY <1>1, <2>1
  <2>3. Proofs(copy.proofs)
    <3>1. CASE copy.proofs = b.proofs
      BY <1>1, <3>1
    <3>2. CASE copy.proofs = [b.proofs EXCEPT ![p] = b.proofs[q]]
      BY <1>1, <3>2
    <3>3. CASE copy.proofs = Without(b.proofs, p)
      BY <1>1, <3>3 DEF Without
    <3> QED BY <1>1, <2>1, <3>1, <3>2, <3>3
  <2> QED BY <1>2, <2>2, <2>3
<1> QED BY <1>3, <1>4, <1>5 DEF b, c

LEMMA FieldsDef ==
  ASSUME NEW f, NEW g, Fields(f) \subseteq Fields(g), NEW p \in DOMAIN f
  PROVE  p \in DOMAIN g /\ g[p] = f[p]
<1>1. <<p, f[p]>> \in Fields(g)
  BY DEF Fields
<1>2. PICK q \in DOMAIN g : <<p, f[p]>> = <<q, g[q]>>
  BY <1>1 DEF Fields
<1> QED BY <1>2

(* Whatever verifies of a copy was committed to in one manifest of that did. *)
LEMMA VerifiedIsCommitted ==
  ASSUME NEW m, NEW n, NEW s, NEW t, Built(m), Built(n), NEW did,
         NEW copy \in Changed(Reveal(m, s)) \cup Mixed(Reveal(m, s), Reveal(n, t))
                        \cup {Joined(Reveal(m, s), Reveal(n, t))},
         Verifies(copy, did)
  PROVE  \E x \in {m, n} : x.owner = did /\ Fields(copy.revealed) \subseteq Fields(x.fields)
<1>1. copy.signature = [key |-> did, root |-> copy.root]
  BY DEF Verifies
<1>2. PICK x \in {m, n} : copy.signature = [key |-> x.owner, root |-> Root(x)]
  BY CopyShape
<1>3. x.owner = did /\ Root(x) = copy.root /\ Built(x)
  BY <1>1, <1>2
<1>4. ASSUME NEW p \in DOMAIN copy.revealed
      PROVE  p \in DOMAIN x.fields /\ copy.revealed[p] = x.fields[p]
  <2>1. /\ p \in DOMAIN copy.proofs
        /\ RootFromProof(Leaf(p, copy.revealed[p], copy.proofs[p].salt),
                         copy.proofs[p].siblings) = Root(x)
    BY <1>3 DEF Verifies
  <2>2. IsSequence(copy.proofs[p].siblings)
    BY <2>1, CopyShape
  <2>3. Len(copy.proofs[p].siblings) \in Nat
    BY <2>2 DEF IsSequence
  <2> QED BY <1>3, <2>1, <2>3, RootBinds
<1>5. Fields(copy.revealed) \subseteq Fields(x.fields)
  BY <1>4 DEF Fields
<1> QED BY <1>3, <1>5

(* No two manifests have the same root. *)
LEMMA RootIsOwn ==
  ASSUME NEW m, NEW n, Built(m), Built(n), Root(m) = Root(n)
  PROVE  m.issue = n.issue
<1> DEFINE p == DidPath
           proof == InclusionProof(m.levels, Index(m.fields, p))
<1>1. p \in DOMAIN m.fields
  BY LeavesDef
<1>2. /\ IsSequence(proof)
      /\ RootFromProof(Leaf(p, m.fields[p], Salt(m.issue, p)), proof) = Root(n)
  BY <1>1, RootComplete
<1>3. Len(proof) \in Nat
  BY <1>2 DEF IsSequence
<1>4. Salt(m.issue, p) = Salt(n.issue, p)
  BY <1>2, <1>3, RootBinds
<1> QED BY <1>4 DEF Salt

(* Two reveals of one manifest, put together, verify under its owner. *)
LEMMA JoinedVerifies ==
  ASSUME NEW m, Built(m), NEW s, NEW t
  PROVE  LET joined == Joined(Reveal(m, s), Reveal(m, t)) IN
         joined.revealed[DidPath] = m.owner /\ Verifies(joined, m.owner)
<1> DEFINE b == Reveal(m, s)
           c == Reveal(m, t)
           j == Joined(b, c)
           D == Shown(m, s) \cup Shown(m, t)
           Right(x, p) == /\ x.revealed[p] = m.fields[p]
                          /\ x.proofs[p].salt = Salt(m.issue, p)
                          /\ RootFromProof(Leaf(p, m.fields[p], Salt(m.issue, p)),
                                           x.proofs[p].siblings) = Root(m)
<1>1. /\ b = [revealed |-> b.revealed, proofs |-> b.proofs, root |-> Root(m),
              signature |-> [key |-> m.owner, root |-> Root(m)]]
      /\ DOMAIN b.revealed = Shown(m, s) /\ DOMAIN b.proofs = Shown(m, s)
      /\ \A p \in Shown(m, s) : Right(b, p)
      /\ DidPath \in Shown(m, s)
      /\ DOMAIN c.revealed = Shown(m, t) /\ DOMAIN c.proofs = Shown(m, t)
      /\ \A p \in Shown(m, t) : Right(c, p)
  BY RevealDef
<1>2. m.fields[DidPath] = m.owner
  BY LeavesDef
<1> HIDE DEF b, c
<1>3. /\ j.root = Root(m) /\ j.signature = [key |-> m.owner, root |-> Root(m)]
      /\ j.revealed = [p \in D |-> IF p \in Shown(m, s) THEN b.revealed[p] ELSE c.revealed[p]]
      /\ j.proofs = [p \in D |-> IF p \in Shown(m, s) THEN b.proofs[p] ELSE c.proofs[p]]
  BY <1>1 DEF Joined
<1> HIDE DEF j
<1>4. ASSUME NEW p \in D PROVE Right(j, p)
  <2>1. CASE p \in Shown(m, s)
    BY <1>1, <1>3, <2>1
  <2>2. CASE p \notin Shown(m, s)
    BY <1>1, <1>3, <2>2
  <2> QED BY <2>1, <2>2
<1>5. DOMAIN j.revealed = D /\ DOMAIN j.proofs = D /\ DidPath \in D
  BY <1>1, <1>3
<1>6. j.revealed[DidPath] = m.owner
  BY <1>2, <1>4, <1>5
<1>7. Verifies(j, m.owner)
  BY <1>3, <1>4, <1>5, <1>6 DEF Verifies
<1> QED BY <1>6, <1>7 DEF j, b, c

LEMMA InitInv == Init => CommitInv
<1> SUFFICES ASSUME Init PROVE CommitInv
  OBVIOUS
<1>1. issued = <<>> /\ wire = {} /\ view = None
  BY DEF Init
<1>2. IssuedInv
  BY <1>1 DEF IssuedInv
<1> QED BY <1>1, <1>2 DEF CommitInv, WireInv, ViewInv, RevealsVerify, AcceptedIsCommitted

LEMMA BuildInv ==
  ASSUME CommitInv, NEW owner \in Did, NEW content \in Content[owner],
         Build(owner, content)
  PROVE  CommitInv'
<1> DEFINE n == Len(issued) + 1
           m == Manifest(n, owner, content)
<1>1. issued \in Seq(ToSet(issued)) /\ \A i \in 1..Len(issued) : Built(issued[i]) /\ issued[i].issue = i
  BY DEF CommitInv, IssuedInv
<1>2. m.issue = n /\ Built(m)
  BY DEF Manifest, Built
<1>3. issued' = Append(issued, m) /\ wire' = wire /\ view' = view
  BY DEF Build
<1> HIDE DEF m
<1>4. /\ issued' \in Seq(ToSet(issued')) /\ Len(issued) \in Nat /\ Len(issued') = n
      /\ \A i \in 1..Len(issued) : issued'[i] = issued[i]
      /\ issued'[n] = m
  BY <1>1, <1>3, AppendDef DEF IsSequence
<1>5. 1..Len(issued') = 1..Len(issued) \cup {n} /\ 1..Len(issued) \subseteq 1..Len(issued')
  BY <1>4
<1>6. IssuedInv'
  BY <1>1, <1>2, <1>4, <1>5 DEF IssuedInv, Built
<1>7. WireInv'
  BY <1>3, <1>4, <1>5 DEF CommitInv, WireInv
<1>8. AcceptedIsCommitted'
  <2>1. DOMAIN issued = 1..Len(issued) /\ DOMAIN issued' = 1..Len(issued')
    BY <1>1, <1>4
  <2> QED BY <1>3, <1>4, <1>5, <2>1 DEF CommitInv, AcceptedIsCommitted, Fields
<1> QED BY <1>3, <1>6, <1>7, <1>8 DEF CommitInv, ViewInv, RevealsVerify

LEMMA ShipInv ==
  ASSUME CommitInv, NEW i \in DOMAIN issued, NEW j \in DOMAIN TierOrder,
         Ship(issued[i], TierOrder[j])
  PROVE  CommitInv'
<1>1. issued' = issued /\ view' = view /\ wire' = wire \cup {Reveal(issued[i], TierOrder[j])}
  BY DEF Ship
<1>2. i \in 1..Len(issued) /\ TierOrder[j] \in ToSet(TierOrder)
  BY DEF CommitInv, IssuedInv, ToSet
<1>3. WireInv'
  BY <1>1, <1>2 DEF CommitInv, WireInv
<1> QED BY <1>1, <1>3 DEF CommitInv, IssuedInv, Built, ViewInv, RevealsVerify, AcceptedIsCommitted

(* What was sent is unchanged when a receiver looks at it. *)
LEMMA LookedAt ==
  ASSUME CommitInv, UNCHANGED <<issued, wire>>, NEW did \in Did,
         NEW b \in wire, NEW c \in wire,
         NEW copy \in Changed(b) \cup Mixed(b, c) \cup {Joined(b, c)},
         NEW intact \in BOOLEAN,
         view' = [did |-> did, fields |-> copy.revealed, intact |-> intact,
                  verified |-> Verifies(copy, did)],
         intact => copy = Joined(b, c) /\ b.root = c.root
  PROVE  CommitInv'
<1>1. IssuedInv' /\ WireInv'
  BY DEF CommitInv, IssuedInv, WireInv, Built
<1>2. PICK i \in 1..Len(issued), s \in ToSet(TierOrder) : b = Reveal(issued[i], s)
  BY DEF CommitInv, WireInv
<1>3. PICK j \in 1..Len(issued), t \in ToSet(TierOrder) : c = Reveal(issued[j], t)
  BY DEF CommitInv, WireInv
<1>4. /\ Built(issued[i]) /\ issued[i].issue = i /\ Built(issued[j]) /\ issued[j].issue = j
      /\ DOMAIN issued = 1..Len(issued)
  BY DEF CommitInv, IssuedInv
<1>5. AcceptedIsCommitted'
  <2> SUFFICES ASSUME Verifies(copy, did)
               PROVE  \E k \in DOMAIN issued :
                        /\ issued[k].owner = did
                        /\ Fields(copy.revealed) \subseteq Fields(issued[k].fields)
    BY DEF AcceptedIsCommitted, Fields
  <2> QED BY <1>2, <1>3, <1>4, VerifiedIsCommitted
<1>6. RevealsVerify'
  <2> SUFFICES ASSUME intact, copy.revealed[DidPath] = did PROVE Verifies(copy, did)
    BY DEF RevealsVerify
  <2>1. Root(issued[i]) = Root(issued[j])
    BY <1>2, <1>3 DEF Reveal
  <2>2. i = j
    BY <1>4, <2>1, RootIsOwn
  <2>3. copy.revealed[DidPath] = issued[i].owner /\ Verifies(copy, issued[i].owner)
    BY <1>2, <1>3, <1>4, <2>2, JoinedVerifies
  <2> QED BY <2>3
<1>7. ViewInv'
  BY DEF ViewInv, Verifies
<1> QED BY <1>1, <1>5, <1>6, <1>7 DEF CommitInv

LEMMA NextInv == CommitInv /\ [Next]_vars => CommitInv'
<1> SUFFICES ASSUME CommitInv, [Next]_vars PROVE CommitInv'
  OBVIOUS
<1>1. CASE \E owner \in Did : \E content \in Content[owner] : Build(owner, content)
  BY <1>1, BuildInv
<1>2. CASE \E i \in DOMAIN issued, j \in DOMAIN TierOrder : Ship(issued[i], TierOrder[j])
  BY <1>2, ShipInv
<1>3. ASSUME UNCHANGED <<issued, wire>>, NEW b \in wire, NEW c \in wire, NEW did \in Did,
             ReceiveIntact(b, c, did)
      PROVE  CommitInv'
  <2>1. view' = [did |-> did, fields |-> Joined(b, c).revealed, intact |-> TRUE,
                 verified |-> Verifies(Joined(b, c), did)]
    BY <1>3 DEF ReceiveIntact
  <2>2. b.root = c.root
    BY <1>3 DEF ReceiveIntact
  <2> QED BY <1>3, <2>1, <2>2, LookedAt
<1>4. ASSUME UNCHANGED <<issued, wire>>, NEW b \in wire, NEW c \in wire, NEW did \in Did,
             NEW copy \in Changed(b) \cup Mixed(b, c), Receive(copy, did)
      PROVE  CommitInv'
  <2>1. view' = [did |-> did, fields |-> copy.revealed, intact |-> FALSE,
                 verified |-> Verifies(copy, did)]
    BY <1>4 DEF Receive
  <2> QED BY <1>4, <2>1, LookedAt
<1>5. CASE UNCHANGED vars
  BY <1>5 DEF vars, CommitInv, IssuedInv, Built, WireInv, ViewInv, RevealsVerify,
              AcceptedIsCommitted
<1> QED BY <1>1, <1>2, <1>3, <1>4, <1>5 DEF Next

(* Manifests, bundles and what was received stay as CommitInv describes them, *)
(* whatever is built, shipped, joined and changed (manifest.py:144-259).      *)
THEOREM Invariance == Spec => []CommitInv
<1> QED BY InitInv, NextInv, PTL DEF Spec

(* With any announcers, contents and bounds, every manifest has salts of its  *)
(* own and what is on the wire is under the root of a manifest              *)
(* (manifest.py:158-184).                                                   *)
THEOREM TypeCorrect == Spec => []TypeOK
<1>1. CommitInv => TypeOK
  <2> SUFFICES ASSUME CommitInv PROVE TypeOK
    OBVIOUS
  <2>1. DOMAIN issued = 1..Len(issued)
    BY DEF CommitInv, IssuedInv
  <2>2. ASSUME NEW b \in wire
        PROVE  \E i \in DOMAIN issued :
                 b.root = Root(issued[i]) /\ b.signature.key = issued[i].owner
    <3>1. PICK i \in 1..Len(issued), t \in ToSet(TierOrder) : b = Reveal(issued[i], t)
      BY DEF CommitInv, WireInv
    <3> QED BY <2>1, <3>1 DEF Reveal
  <2> QED BY <2>1, <2>2 DEF CommitInv, IssuedInv, Built, ViewInv, TypeOK
<1> QED BY <1>1, Invariance, PTL

(* With any manifests, of any number of leaves: every reveal, and two reveals *)
(* of one manifest put together, verify under its owner's did               *)
(* (manifest.py:72-104, 223-248).                                           *)
THEOREM EveryRevealVerifies == Spec => []RevealsVerify
<1>1. CommitInv => RevealsVerify
  BY DEF CommitInv
<1> QED BY <1>1, Invariance, PTL

(* With any manifests and any copies of what was sent, the fields that verify *)
(* under a did are all of one manifest that did committed to                *)
(* (manifest.py:223-248).                                                   *)
THEOREM NothingElseVerifies == Spec => []AcceptedIsCommitted
<1>1. CommitInv => AcceptedIsCommitted
  BY DEF CommitInv
<1> QED BY <1>1, Invariance, PTL

(* A price belongs to exactly one band, the one HonestBand names. *)
LEMMA BandOf ==
  ASSUME NEW band, NEW cost \in DOMAIN Price
  PROVE  BandMismatch(band, cost) <=> band # HonestBand(cost)
<1> DEFINE price == Price[cost]
           B == DOMAIN Bounds
           Best(x) == /\ Bounds[x].lo <= price
                      /\ \A other \in B : Bounds[other].lo <= price =>
                                            Bounds[other].lo <= Bounds[x].lo
           In(x) == Bounds[x].lo <= price /\ price < Bounds[x].hi
           T == {n \in Nat : \E x \in B : Bounds[x].lo <= price /\ n = price - Bounds[x].lo}
<1>1. /\ price \in Nat
      /\ \A x \in B : /\ Bounds[x].lo \in Nat /\ Bounds[x].hi \in Nat
                      /\ Bounds[x].lo < Bounds[x].hi
                      /\ price < Bounds[x].hi \/ \E y \in B : Bounds[y].lo = Bounds[x].hi
      /\ \E x \in B : Bounds[x].lo = 0
      /\ \A x, y \in B : x = y \/ Bounds[x].hi <= Bounds[y].lo \/ Bounds[y].hi <= Bounds[x].lo
  BY BandAssumption
<1> HIDE DEF price, B
<1>2. \E x \in B : Best(x)
  <2>1. T \in SUBSET Nat /\ T # {}
    BY <1>1
  <2>2. PICK n \in T : \A k \in T : n <= k
    <3> HIDE DEF T
    <3> QED BY <2>1, Smallest
  <2>3. PICK x \in B : Bounds[x].lo <= price /\ n = price - Bounds[x].lo
    BY <2>2
  <2>4. ASSUME NEW y \in B, Bounds[y].lo <= price PROVE Bounds[y].lo <= Bounds[x].lo
    <3>1. price - Bounds[y].lo \in T
      BY <1>1, <2>4
    <3>2. n <= price - Bounds[y].lo
      BY <2>2, <3>1
    <3> QED BY <1>1, <2>3, <3>2
  <2> QED BY <2>3, <2>4
<1>3. ASSUME NEW x \in B, Best(x) PROVE In(x)
  BY <1>1, <1>3
<1>4. ASSUME NEW x \in B, NEW y \in B, In(x), Best(y) PROVE x = y
  <2>1. In(y)
    BY <1>3, <1>4
  <2> QED BY <1>1, <1>4, <2>1
<1>5. HonestBand(cost) = CHOOSE x \in B : Best(x)
  BY DEF HonestBand, B, price
<1>6. HonestBand(cost) \in B /\ Best(HonestBand(cost))
  <2> HIDE DEF Best
  <2> QED BY <1>2, <1>5
<1>7. BandMismatch(band, cost) <=> band \notin B \/ ~In(band)
  BY DEF BandMismatch, B, price
<1>8. CASE band = HonestBand(cost)
  BY <1>3, <1>6, <1>7, <1>8
<1>9. CASE band # HonestBand(cost)
  <2> HIDE DEF Best, In
  <2> QED BY <1>4, <1>6, <1>7, <1>9
<1> QED BY <1>8, <1>9

(* With bounds that leave no gap and no overlap, a receiver that verified a   *)
(* band and a price finds a mismatch exactly if the announcer committed to a *)
(* band the price does not belong to (manifest.py:335-358).                 *)
THEOREM ExactBlame == Spec => []BlameIsExact
<1>1. ASSUME CommitInv PROVE BlameIsExact
  <2> SUFFICES ASSUME view # None, view.verified,
                      BandPath \in DOMAIN view.fields, CostPath \in DOMAIN view.fields
               PROVE  BandMismatch(view.fields[BandPath], view.fields[CostPath]) <=>
                        \E i \in DOMAIN issued :
                          /\ issued[i].owner = view.did
                          /\ Fields(view.fields) \subseteq Fields(issued[i].fields)
                          /\ issued[i].fields[BandPath] # HonestBand(issued[i].fields[CostPath])
    BY DEF BlameIsExact
  <2> DEFINE Of(i) == /\ issued[i].owner = view.did
                      /\ Fields(view.fields) \subseteq Fields(issued[i].fields)
  <2>1. \E i \in DOMAIN issued : Of(i)
    BY <1>1 DEF CommitInv, AcceptedIsCommitted
  <2>2. ASSUME NEW i \in DOMAIN issued, Of(i)
        PROVE  /\ issued[i].fields[BandPath] = view.fields[BandPath]
               /\ issued[i].fields[CostPath] = view.fields[CostPath]
               /\ view.fields[CostPath] \in DOMAIN Price
    <3>1. \A p \in DOMAIN view.fields :
            p \in DOMAIN issued[i].fields /\ issued[i].fields[p] = view.fields[p]
      BY <2>2, FieldsDef
    <3>2. Built(issued[i])
      BY <1>1 DEF CommitInv, IssuedInv
    <3>3. issued[i].fields[CostPath] \in DOMAIN Price
      BY <3>1, <3>2, ContentAssumption DEF Built
    <3> QED BY <3>1, <3>3
  <2> HIDE DEF Of
  <2>3. BandMismatch(view.fields[BandPath], view.fields[CostPath]) <=>
          view.fields[BandPath] # HonestBand(view.fields[CostPath])
    BY <2>1, <2>2, BandOf
  <2>4. (\E i \in DOMAIN issued :
           Of(i) /\ issued[i].fields[BandPath] # HonestBand(issued[i].fields[CostPath]))
        <=> view.fields[BandPath] # HonestBand(view.fields[CostPath])
    BY <2>1, <2>2
  <2> QED BY <2>3, <2>4 DEF Of
<1> QED BY <1>1, Invariance, PTL
=============================================================================
