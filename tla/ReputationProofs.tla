-------------------------- MODULE ReputationProofs --------------------------
(***************************************************************************)
(* Proofs about flp/reputation.py: sums and folds, one Cooperation object,  *)
(* and the search of trust() over a ledger of many.                         *)
(*                                                                         *)
(* Cooperation.  What is said of arrivals is not inductive: the object keeps*)
(* only the last attestation of each party.  The invariant ties the two     *)
(* together: once anything has arrived, a party counts as having signed if  *)
(* and only if it is not silent.                                            *)
(*                                                                         *)
(* TrustGraph.  The ledger is any ledger; what is proved is what the search *)
(* makes of it.  Each of its three loops is unrolled into a chain of its    *)
(* states, and an invariant is carried along the chain: who has been        *)
(* visited, over which ways the agents of the next level were found, and    *)
(* that the evidence counted is the sum over those visited, each over one   *)
(* of the shortest ways.                                                    *)
(***************************************************************************)
EXTENDS Cooperation, TrustGraph, WellFoundedInduction, FiniteSetTheorems, TLAPS

(* Induction over Nat, for a set of numbers instead of a predicate. *)
LEMMA Induction ==
  ASSUME NEW S, 0 \in S, \A n \in Nat : n \in S => n + 1 \in S
  PROVE  Nat \subseteq S
  <1> SUFFICES ASSUME Nat \ S # {} PROVE FALSE
    OBVIOUS
  <1>1. PICK n \in Nat \ S : \A y \in Nat \ S : ~ (<<y, n>> \in OpToRel(<, Nat))
    <2>1. Nat \ S \subseteq Nat
      OBVIOUS
    <2> QED BY <2>1, WFMin, NatLessThanWellFounded
  <1>2. \A y \in Nat \ S : ~ (y < n)
    BY <1>1 DEF OpToRel
  <1>3. n - 1 \in Nat /\ n - 1 \in S
    BY <1>2
  <1> QED BY <1>3

(***************************************************************************)
(* Folds.  A fold over a finite set takes away the element that pick says,  *)
(* the greatest index (FoldLeft) or any one (SumFunction); its recursive    *)
(* function is shown to exist on the sets of at most k elements, for every k.*)
(***************************************************************************)

\* A subset with one element taken away.
LEMMA OneLess ==
  ASSUME NEW T, IsFiniteSet(T), NEW s \in SUBSET T
  PROVE  /\ Cardinality(s) \in Nat
         /\ Cardinality(s) = 0 <=> s = {}
         /\ \A x \in s : Cardinality(s \ {x}) = Cardinality(s) - 1
  <1>1. IsFiniteSet(s)
    BY FS_Subset
  <1> QED BY <1>1, FS_CardinalityType, FS_EmptySet, FS_RemoveElement

\* A fold of values of D over T: pick says which element is taken next, G[x] what
\* it does to the value.
Foldable(T, pick, D, base, G) ==
  /\ IsFiniteSet(T) /\ base \in D
  /\ \A s \in SUBSET T : s # {} => pick[s] \in s
  /\ \A x \in T : G[x] \in [D -> D]

FoldOf(T, pick, base, G, f) ==
  \A s \in SUBSET T : f[s] = IF s = {} THEN base ELSE G[pick[s]][f[s \ {pick[s]}]]

LEMMA FoldExists ==
  ASSUME NEW T, NEW pick, NEW D, NEW base, NEW G, Foldable(T, pick, D, base, G)
  PROVE  \E f \in [SUBSET T -> D] : FoldOf(T, pick, base, G, f)
  <1> USE DEF Foldable, FoldOf
  <1> DEFINE Body(f, s) == IF s = {} THEN base ELSE G[pick[s]][f[s \ {pick[s]}]]
             Upto(k) == {s \in SUBSET T : Cardinality(s) <= k}
             S == {k \in Nat : \E f \in [Upto(k) -> D] : f = [s \in Upto(k) |-> Body(f, s)]}
  <1>1. 0 \in S
    <2>1. Upto(0) = {{}}
      BY OneLess, FS_EmptySet
    <2> DEFINE g == [s \in {{}} |-> base]
    <2>2. g = [s \in {{}} |-> Body(g, s)] /\ g \in [{{}} -> D]
      OBVIOUS
    <2> HIDE DEF g, Body, Upto
    <2> QED BY <2>1, <2>2
  <1>2. ASSUME NEW k \in Nat, k \in S PROVE k + 1 \in S
    <2>1. PICK f \in [Upto(k) -> D] : f = [s \in Upto(k) |-> Body(f, s)]
      BY <1>2
    <2> DEFINE g == [s \in Upto(k + 1) |-> IF s \in Upto(k) THEN f[s] ELSE Body(f, s)]
    <2>2. ASSUME NEW s \in Upto(k + 1), s # {}
          PROVE  pick[s] \in T /\ s \ {pick[s]} \in Upto(k) /\ s \ {pick[s]} \in Upto(k + 1)
      <3>1. pick[s] \in s /\ s \in SUBSET T
        BY <2>2
      <3>2. Cardinality(s) \in Nat /\ Cardinality(s \ {pick[s]}) = Cardinality(s) - 1
        BY <3>1, OneLess
      <3> QED BY <3>1, <3>2
    <2>3. ASSUME NEW s \in Upto(k + 1) PROVE g[s] = Body(g, s) /\ g[s] \in D
      <3>1. CASE s = {}
        <4>1. {} \in Upto(k)
          BY FS_EmptySet
        <4> QED BY <2>1, <3>1, <4>1
      <3>2. CASE s # {}
        <4> DEFINE r == s \ {pick[s]}
        <4>1. pick[s] \in T /\ r \in Upto(k) /\ r \in Upto(k + 1)
          BY <2>2, <3>2
        <4>2. g[r] = f[r] /\ f[r] \in D
          BY <4>1
        <4>3. g[s] = Body(f, s)
          BY <2>1
        <4>4. Body(g, s) = Body(f, s) /\ Body(f, s) \in D
          BY <3>2, <4>1, <4>2
        <4> QED BY <4>3, <4>4
      <3> QED BY <3>1, <3>2
    <2> HIDE DEF Body, Upto
    <2>4. DOMAIN g = Upto(k + 1) /\ g = [s \in Upto(k + 1) |-> g[s]]
      OBVIOUS
    <2> HIDE DEF g
    <2>5. g \in [Upto(k + 1) -> D] /\ g = [s \in Upto(k + 1) |-> Body(g, s)]
      BY <2>3, <2>4
    <2> QED BY <2>5
  <1>3. Cardinality(T) \in S
    <2> HIDE DEF S
    <2> QED BY <1>1, <1>2, Induction, FS_CardinalityType
  <1>4. Upto(Cardinality(T)) = SUBSET T
    <2>1. \A s \in SUBSET T : Cardinality(s) <= Cardinality(T)
      BY FS_Subset
    <2> QED BY <2>1
  <1> HIDE DEF Upto
  <1> QED BY <1>3, <1>4

----------------------------------------------------------------------------
\* What a fold of numbers to their sum is made of.
Sums(f, T, sum) ==
  sum = [s \in SUBSET T |-> IF s = {} THEN 0
           ELSE f[CHOOSE x \in s : TRUE] + sum[s \ {CHOOSE x \in s : TRUE}]]

\* The recursive function that a sum stands for exists, and is what SumFunction() takes.
LEMMA SumsExist ==
  ASSUME NEW T, IsFiniteSet(T), NEW f \in [T -> Int]
  PROVE  \E sum \in [SUBSET T -> Int] : Sums(f, T, sum)
  <1> DEFINE pick == [s \in SUBSET T |-> CHOOSE x \in s : TRUE]
             G == [x \in T |-> [d \in Int |-> f[x] + d]]
  <1>1. \A s \in SUBSET T : s # {} => pick[s] \in s
    OBVIOUS
  <1>2. \A x \in T : G[x] \in [Int -> Int]
    OBVIOUS
  <1>3. PICK g \in [SUBSET T -> Int] : \A s \in SUBSET T :
          g[s] = IF s = {} THEN 0 ELSE G[pick[s]][g[s \ {pick[s]}]]
    <2>1. Foldable(T, pick, Int, 0, G)
      BY <1>1, <1>2 DEF Foldable
    <2>2. \E g \in [SUBSET T -> Int] : FoldOf(T, pick, 0, G, g)
      <3> HIDE DEF pick, G
      <3> QED BY <2>1, FoldExists
    <2> QED BY <2>2 DEF FoldOf
  <1>4. ASSUME NEW s \in SUBSET T, s # {}
        PROVE  G[pick[s]][g[s \ {pick[s]}]]
                 = f[CHOOSE x \in s : TRUE] + g[s \ {CHOOSE x \in s : TRUE}]
    <2>1. pick[s] \in T /\ g[s \ {pick[s]}] \in Int /\ pick[s] = CHOOSE x \in s : TRUE
      BY <1>1, <1>4
    <2> HIDE DEF pick
    <2> QED BY <2>1
  <1> HIDE DEF pick, G
  <1>5. g = [s \in SUBSET T |-> IF s = {} THEN 0
               ELSE f[CHOOSE x \in s : TRUE] + g[s \ {CHOOSE x \in s : TRUE}]]
    BY <1>3, <1>4
  <1> QED BY <1>5 DEF Sums

LEMMA SumFunctionDef ==
  ASSUME NEW T, IsFiniteSet(T), NEW f \in [T -> Int]
  PROVE  \E sum : Sums(f, T, sum) /\ SumFunction(f) = sum[T]
  <1> DEFINE sum == CHOOSE sum : Sums(f, T, sum)
  <1>1. Sums(f, T, sum)
    BY SumsExist
  <1>2. SumFunction(f) = (CHOOSE g : g = [s \in SUBSET T |-> IF s = {} THEN 0
           ELSE f[CHOOSE x \in s : TRUE] + g[s \ {CHOOSE x \in s : TRUE}]])[T]
    <2>1. DOMAIN f = T
      OBVIOUS
    <2> QED BY <2>1 DEF SumFunction, SumFunctionOnSet, FoldFunctionOnSet, MapThenFoldSet
  <1>3. SumFunction(f) = sum[T]
    BY <1>2 DEF Sums
  <1> QED BY <1>1, <1>3

\* Sums of integers are integers.
LEMMA SumsType ==
  ASSUME NEW T, IsFiniteSet(T), NEW f \in [T -> Int], NEW sum, Sums(f, T, sum)
  PROVE  \A s \in SUBSET T : sum[s] \in Int
  <1> DEFINE S == {k \in Nat : \A s \in SUBSET T : Cardinality(s) = k => sum[s] \in Int}
  <1>1. 0 \in S
    <2>1. ASSUME NEW s \in SUBSET T, Cardinality(s) = 0 PROVE sum[s] \in Int
      <3>1. s = {}
        BY <2>1, OneLess
      <3> QED BY <3>1 DEF Sums
    <2> QED BY <2>1
  <1>2. ASSUME NEW k \in Nat, k \in S PROVE k + 1 \in S
    <2> SUFFICES ASSUME NEW s \in SUBSET T, Cardinality(s) = k + 1 PROVE sum[s] \in Int
      OBVIOUS
    <2> DEFINE x == CHOOSE y \in s : TRUE
    <2>1. s # {} /\ \A y \in s : Cardinality(s \ {y}) = k /\ s \ {y} \in SUBSET T
      BY OneLess
    <2>2. x \in s
      BY <2>1
    <2>3. sum[s] = f[x] + sum[s \ {x}]
      BY <2>1 DEF Sums
    <2> HIDE DEF x
    <2> QED BY <1>2, <2>1, <2>2, <2>3
  <1>3. ASSUME NEW s \in SUBSET T PROVE sum[s] \in Int
    <2>1. Cardinality(s) \in Nat
      BY OneLess
    <2>2. Cardinality(s) \in S
      <3> HIDE DEF S
      <3> QED BY <1>1, <1>2, <2>1, Induction
    <2> QED BY <2>2
  <1> QED BY <1>3

\* The order of the summands does not matter.
LEMMA SumsSplit ==
  ASSUME NEW T, IsFiniteSet(T), NEW f \in [T -> Int], NEW sum, Sums(f, T, sum)
  PROVE  \A s \in SUBSET T : \A p \in s : sum[s] = f[p] + sum[s \ {p}]
  <1> DEFINE Split(s) == \A p \in s : sum[s] = f[p] + sum[s \ {p}]
             S == {k \in Nat : \A s \in SUBSET T : Cardinality(s) = k => Split(s)}
  <1>1. 0 \in S
    BY OneLess
  <1>2. ASSUME NEW k \in Nat, k \in S PROVE k + 1 \in S
    <2> SUFFICES ASSUME NEW s \in SUBSET T, Cardinality(s) = k + 1, NEW p \in s
                 PROVE  sum[s] = f[p] + sum[s \ {p}]
      OBVIOUS
    <2> DEFINE x == CHOOSE y \in s : TRUE
    <2>1. \A y \in s : Cardinality(s \ {y}) = k /\ s \ {y} \in SUBSET T
      BY OneLess
    <2>2. x \in s
      OBVIOUS
    <2>3. sum[s] = f[x] + sum[s \ {x}]
      BY DEF Sums
    <2> HIDE DEF x
    <2>4. \A y \in s : Split(s \ {y})
      BY <1>2, <2>1
    <2>5. CASE p = x
      BY <2>3, <2>5
    <2>6. CASE p # x
      <3> DEFINE r == (s \ {x}) \ {p}
      <3>1. r = (s \ {p}) \ {x} /\ p \in s \ {x} /\ x \in s \ {p} /\ r \in SUBSET T
        BY <2>2, <2>6
      <3>2. sum[s \ {x}] = f[p] + sum[r]
        BY <2>2, <2>4, <3>1
      <3>3. sum[s \ {p}] = f[x] + sum[r]
        BY <2>4, <3>1
      <3>4. sum[r] \in Int /\ f[p] \in Int /\ f[x] \in Int
        BY <2>2, <3>1, SumsType
      <3> HIDE DEF r
      <3> QED BY <2>3, <3>2, <3>3, <3>4
    <2> QED BY <2>5, <2>6
  <1>3. ASSUME NEW s \in SUBSET T PROVE Split(s)
    <2>1. Cardinality(s) \in Nat
      BY OneLess
    <2>2. Cardinality(s) \in S
      <3> HIDE DEF S
      <3> QED BY <1>1, <1>2, <2>1, Induction
    <2> QED BY <2>2
  <1> QED BY <1>3

\* Two functions that agree on a set sum up the same over its subsets.
LEMMA SumsAgree ==
  ASSUME NEW T, IsFiniteSet(T), NEW f \in [T -> Int], NEW sum, Sums(f, T, sum),
         NEW U \in SUBSET T, NEW g \in [U -> Int], NEW other, Sums(g, U, other),
         \A x \in U : g[x] = f[x]
  PROVE  other[U] = sum[U]
  <1> DEFINE S == {k \in Nat : \A s \in SUBSET U : Cardinality(s) = k => other[s] = sum[s]}
  <1>0. IsFiniteSet(U)
    BY FS_Subset
  <1>1. 0 \in S
    <2>1. ASSUME NEW s \in SUBSET U, Cardinality(s) = 0 PROVE other[s] = sum[s]
      <3>1. s = {} /\ s \in SUBSET T
        BY <1>0, <2>1, OneLess
      <3> QED BY <3>1 DEF Sums
    <2> QED BY <2>1
  <1>2. ASSUME NEW k \in Nat, k \in S PROVE k + 1 \in S
    <2> SUFFICES ASSUME NEW s \in SUBSET U, Cardinality(s) = k + 1 PROVE other[s] = sum[s]
      OBVIOUS
    <2> DEFINE x == CHOOSE y \in s : TRUE
    <2>1. s # {} /\ \A y \in s : Cardinality(s \ {y}) = k /\ s \ {y} \in SUBSET U
      BY <1>0, OneLess
    <2>2. x \in s
      BY <2>1
    <2>3. sum[s] = f[x] + sum[s \ {x}] /\ other[s] = g[x] + other[s \ {x}]
      BY <2>1 DEF Sums
    <2> HIDE DEF x
    <2> QED BY <1>2, <2>1, <2>2, <2>3
  <1>3. Cardinality(U) \in S
    <2>1. Cardinality(U) \in Nat
      BY <1>0, FS_CardinalityType
    <2> HIDE DEF S
    <2> QED BY <1>1, <1>2, <2>1, Induction
  <1> QED BY <1>3

\* What SumFunction() is, one summand at a time.
LEMMA SumSplit ==
  ASSUME NEW T, IsFiniteSet(T), NEW f \in [T -> Int]
  PROVE  /\ SumFunction(f) \in Int
         /\ T = {} => SumFunction(f) = 0
         /\ \A p \in T : SumFunction(f) = f[p] + SumFunction([q \in T \ {p} |-> f[q]])
  <1>1. PICK sum : Sums(f, T, sum) /\ SumFunction(f) = sum[T]
    BY SumFunctionDef
  <1>2. SumFunction(f) \in Int
    BY <1>1, SumsType
  <1>3. T = {} => SumFunction(f) = 0
    BY <1>1 DEF Sums
  <1>4. ASSUME NEW p \in T PROVE SumFunction(f) = f[p] + SumFunction([q \in T \ {p} |-> f[q]])
    <2> DEFINE U == T \ {p}
               g == [q \in U |-> f[q]]
    <2>1. IsFiniteSet(U) /\ U \in SUBSET T /\ g \in [U -> Int] /\ \A x \in U : g[x] = f[x]
      BY FS_Subset
    <2> HIDE DEF g
    <2>2. PICK other : Sums(g, U, other) /\ SumFunction(g) = other[U]
      BY <2>1, SumFunctionDef
    <2>3. other[U] = sum[U]
      BY <1>1, <2>1, <2>2, SumsAgree
    <2>4. sum[T] = f[p] + sum[U]
      BY <1>1, SumsSplit
    <2> QED BY <1>1, <2>2, <2>3, <2>4 DEF g
  <1> QED BY <1>2, <1>3, <1>4

\* One summand taken out.
LEMMA SumTake ==
  ASSUME NEW T, IsFiniteSet(T), NEW f \in [T -> Int], NEW p \in T,
         NEW g, g = [q \in T \ {p} |-> f[q]]
  PROVE  SumFunction(f) = f[p] + SumFunction(g)
  BY SumSplit

\* What a bound on every summand says of the sum.
LEMMA SumBound ==
  ASSUME NEW T, IsFiniteSet(T), NEW f \in [T -> Int], NEW B \in Nat, \A x \in T : f[x] <= B
  PROVE  SumFunction(f) <= B * Cardinality(T)
  <1> DEFINE Bounded(s) == SumFunction([x \in s |-> f[x]]) <= B * Cardinality(s)
             S == {k \in Nat : \A s \in SUBSET T : Cardinality(s) = k => Bounded(s)}
  <1>1. \A s \in SUBSET T : IsFiniteSet(s) /\ [x \in s |-> f[x]] \in [s -> Int]
    BY FS_Subset
  <1>2. 0 \in S
    <2>1. ASSUME NEW s \in SUBSET T, Cardinality(s) = 0 PROVE Bounded(s)
      <3> DEFINE g == [x \in s |-> f[x]]
      <3>1. s = {} /\ IsFiniteSet(s) /\ g \in [s -> Int]
        BY <1>1, <2>1, OneLess
      <3> HIDE DEF g
      <3>2. SumFunction(g) = 0
        BY <3>1, SumSplit
      <3> QED BY <2>1, <3>2 DEF g
    <2> QED BY <2>1
  <1>3. ASSUME NEW k \in Nat, k \in S PROVE k + 1 \in S
    <2> SUFFICES ASSUME NEW s \in SUBSET T, Cardinality(s) = k + 1 PROVE Bounded(s)
      OBVIOUS
    <2>1. PICK p \in s : TRUE
      BY OneLess
    <2> DEFINE g == [x \in s |-> f[x]]
               r == s \ {p}
               h == [x \in r |-> g[x]]
    <2>2. Cardinality(r) = k /\ r \in SUBSET T
      BY <2>1, OneLess
    <2>3. IsFiniteSet(s) /\ g \in [s -> Int] /\ IsFiniteSet(r) /\ h \in [r -> Int] /\ g[p] = f[p]
      BY <1>1, <2>1, <2>2
    <2>4. h = [x \in r |-> f[x]]
      OBVIOUS
    <2>5. SumFunction(h) <= B * k
      BY <1>3, <2>2, <2>4
    <2> HIDE DEF g
    <2>6. SumFunction(g) = g[p] + SumFunction(h)
      BY <2>1, <2>3, SumSplit
    <2> HIDE DEF h, r
    <2>7. SumFunction(h) \in Int /\ g[p] \in Int /\ g[p] <= B
      BY <2>1, <2>3, SumSplit
    <2>8. SumFunction(g) <= B * k + B
      <3>1. B * k \in Int
        OBVIOUS
      <3> QED BY <2>5, <2>6, <2>7, <3>1
    <2>9. B * k + B = B * (k + 1)
      OBVIOUS
    <2> QED BY <2>8, <2>9 DEF g
  <1>4. Bounded(T)
    <2>1. Cardinality(T) \in S
      <3> HIDE DEF S
      <3> QED BY <1>2, <1>3, Induction, FS_CardinalityType
    <2> QED BY <2>1
  <1>5. f = [x \in T |-> f[x]]
    OBVIOUS
  <1> QED BY <1>4, <1>5

\* Sums over a set and over a part of it, when the rest adds nothing.
Padded(T, f, U, g) ==
  /\ U \subseteq T /\ f \in [T -> Int] /\ g \in [U -> Int]
  /\ \A x \in T \ U : f[x] = 0

Below(U, f, g) == \A x \in U : f[x] <= g[x]

LEMMA SumCompare ==
  ASSUME NEW T, IsFiniteSet(T), NEW f, NEW U, NEW g, Padded(T, f, U, g)
  PROVE  /\ Below(U, f, g) => SumFunction(f) <= SumFunction(g)
         /\ Below(U, g, f) => SumFunction(g) <= SumFunction(f)
  <1> DEFINE F(s) == [x \in s |-> f[x]]
             H(s) == [x \in s \cap U |-> g[x]]
             Holds(s) == /\ Below(U, f, g) => SumFunction(F(s)) <= SumFunction(H(s))
                         /\ Below(U, g, f) => SumFunction(H(s)) <= SumFunction(F(s))
             S == {k \in Nat : \A s \in SUBSET T : Cardinality(s) = k => Holds(s)}
  <1>1. ASSUME NEW s \in SUBSET T
        PROVE  /\ IsFiniteSet(s) /\ IsFiniteSet(s \cap U)
               /\ F(s) \in [s -> Int] /\ H(s) \in [s \cap U -> Int]
               /\ SumFunction(F(s)) \in Int /\ SumFunction(H(s)) \in Int
               /\ s = {} => SumFunction(F(s)) = 0 /\ SumFunction(H(s)) = 0
    <2>1. /\ IsFiniteSet(s) /\ IsFiniteSet(s \cap U)
          /\ F(s) \in [s -> Int] /\ H(s) \in [s \cap U -> Int]
      BY FS_Subset DEF Padded
    <2> HIDE DEF F, H
    <2> QED BY <2>1, SumSplit
  <1>2. ASSUME NEW s \in SUBSET T, NEW p \in s
        PROVE  /\ SumFunction(F(s)) = f[p] + SumFunction(F(s \ {p}))
               /\ p \in U => SumFunction(H(s)) = g[p] + SumFunction(H(s \ {p}))
               /\ p \notin U => H(s) = H(s \ {p})
    <2>1. F(s \ {p}) = [x \in s \ {p} |-> F(s)[x]] /\ F(s)[p] = f[p]
      OBVIOUS
    <2>2. p \in U => H(s \ {p}) = [x \in (s \cap U) \ {p} |-> H(s)[x]] /\ H(s)[p] = g[p]
      <3>1. (s \ {p}) \cap U = (s \cap U) \ {p}
        OBVIOUS
      <3> QED BY <3>1
    <2>3. p \notin U => H(s) = H(s \ {p})
      <3>1. p \notin U => (s \ {p}) \cap U = s \cap U
        OBVIOUS
      <3> QED BY <3>1
    <2> DEFINE a == F(s)
               b == F(s \ {p})
               c == H(s)
               d == H(s \ {p})
    <2>4. SumFunction(a) = f[p] + SumFunction(b)
      <3>1. a \in [s -> Int] /\ IsFiniteSet(s) /\ p \in s
        BY <1>1
      <3>2. b = [x \in s \ {p} |-> a[x]] /\ a[p] = f[p]
        BY <2>1
      <3> HIDE DEF a, b
      <3>3. SumFunction(a) = a[p] + SumFunction([x \in s \ {p} |-> a[x]])
        BY <3>1, SumSplit
      <3> QED BY <3>2, <3>3
    <2>5. ASSUME p \in U PROVE SumFunction(c) = g[p] + SumFunction(d)
      <3>1. c \in [s \cap U -> Int] /\ IsFiniteSet(s \cap U) /\ p \in s \cap U
        BY <1>1, <2>5
      <3>2. d = [x \in (s \cap U) \ {p} |-> c[x]] /\ c[p] = g[p]
        BY <2>2, <2>5
      <3> HIDE DEF c, d
      <3> QED BY <3>1, <3>2, SumSplit
    <2> QED BY <2>3, <2>4, <2>5
  <1>3. 0 \in S
    <2>1. ASSUME NEW s \in SUBSET T, Cardinality(s) = 0 PROVE Holds(s)
      <3>1. s = {}
        BY <2>1, OneLess
      <3>2. SumFunction(F(s)) = 0 /\ SumFunction(H(s)) = 0
        BY <1>1, <3>1
      <3> QED BY <3>2
    <2> QED BY <2>1
  <1>4. ASSUME NEW k \in Nat, k \in S PROVE k + 1 \in S
    <2> SUFFICES ASSUME NEW s \in SUBSET T, Cardinality(s) = k + 1 PROVE Holds(s)
      OBVIOUS
    <2>1. PICK p \in s : TRUE
      BY OneLess
    <2>2. Cardinality(s \ {p}) = k /\ s \ {p} \in SUBSET T
      BY <2>1, OneLess
    <2>3. Holds(s \ {p})
      BY <1>4, <2>2
    <2>4. /\ f[p] \in Int /\ (p \notin U => f[p] = 0)
          /\ p \in U => g[p] \in Int
          /\ Below(U, f, g) /\ p \in U => f[p] <= g[p]
          /\ Below(U, g, f) /\ p \in U => g[p] <= f[p]
      BY <2>1 DEF Padded, Below
    <2> DEFINE a == SumFunction(F(s))
               b == SumFunction(F(s \ {p}))
               c == SumFunction(H(s))
               d == SumFunction(H(s \ {p}))
    <2>5. /\ a \in Int /\ b \in Int /\ c \in Int /\ d \in Int
          /\ Below(U, f, g) => b <= d
          /\ Below(U, g, f) => d <= b
      BY <1>1, <2>2, <2>3
    <2>6. a = f[p] + b /\ (p \in U => c = g[p] + d) /\ (p \notin U => c = d)
      BY <1>2, <2>1
    <2>7. (Below(U, f, g) => a <= c) /\ (Below(U, g, f) => c <= a)
      <3> HIDE DEF a, b, c, d
      <3>1. CASE p \in U
        BY <2>4, <2>5, <2>6, <3>1
      <3>2. CASE p \notin U
        BY <2>4, <2>5, <2>6, <3>2
      <3> QED BY <3>1, <3>2
    <2> QED BY <2>7
  <1>5. Holds(T)
    <2>1. Cardinality(T) \in S
      <3> HIDE DEF S
      <3> QED BY <1>3, <1>4, Induction, FS_CardinalityType
    <2> QED BY <2>1
  <1>6. F(T) = f /\ H(T) = g
    <2>1. T \cap U = U
      BY DEF Padded
    <2> QED BY <2>1 DEF Padded
  <1> HIDE DEF F, H
  <1> QED BY <1>5, <1>6

----------------------------------------------------------------------------
\* Induction along 0..n.
LEMMA Along ==
  ASSUME NEW n \in Nat, NEW P, 0 \in P, \A k \in 1..n : k - 1 \in P => k \in P
  PROVE  \A k \in 0..n : k \in P
  <1> DEFINE S == {k \in Nat : k \in 0..n => k \in P}
  <1>1. 0 \in S
    OBVIOUS
  <1>2. ASSUME NEW k \in Nat, k \in S PROVE k + 1 \in S
    <2>1. k + 1 \in 0..n => k \in P /\ k + 1 \in 1..n /\ (k + 1) - 1 = k
      BY <1>2
    <2> QED BY <2>1
  <1> HIDE DEF S
  <1>3. Nat \subseteq S
    BY <1>1, <1>2, Induction
  <1> QED BY <1>3 DEF S

\* A function on 0..n by recursion: the value at k is made of the one before.
Steppable(n, D, base, G) == n \in Nat /\ base \in D /\ \A k \in 1..n : G[k] \in [D -> D]

Recursive(n, base, G, f) == \A k \in 0..n : f[k] = IF k = 0 THEN base ELSE G[k][f[k - 1]]

LEMMA Recursion ==
  ASSUME NEW n, NEW D, NEW base, NEW G, Steppable(n, D, base, G)
  PROVE  \E f \in [0..n -> D] : Recursive(n, base, G, f)
  <1> USE DEF Steppable
  <1> DEFINE P == {m \in 0..n : \E f \in [0..m -> D] : Recursive(m, base, G, f)}
  <1>1. 0 \in P
    <2> DEFINE f == [k \in 0..0 |-> base]
    <2>1. f \in [0..0 -> D] /\ Recursive(0, base, G, f)
      BY DEF Recursive
    <2> HIDE DEF f
    <2> QED BY <2>1
  <1>2. ASSUME NEW m \in 1..n, m - 1 \in P PROVE m \in P
    <2>1. PICK f \in [0..(m - 1) -> D] : Recursive(m - 1, base, G, f)
      BY <1>2
    <2> DEFINE g == [k \in 0..m |-> IF k = m THEN G[m][f[m - 1]] ELSE f[k]]
    <2>2. g[m] \in D /\ \A k \in 0..(m - 1) : g[k] = f[k]
      OBVIOUS
    <2>3. g \in [0..m -> D]
      BY <2>2
    <2>4. ASSUME NEW k \in 0..m PROVE g[k] = IF k = 0 THEN base ELSE G[k][g[k - 1]]
      <3>1. CASE k = m
        <4>1. g[m - 1] = f[m - 1] /\ g[m] = G[m][f[m - 1]] /\ m # 0
          OBVIOUS
        <4> QED BY <3>1, <4>1
      <3>2. CASE k # m
        <4>1. k \in 0..(m - 1) /\ (k # 0 => k - 1 \in 0..(m - 1))
          BY <3>2
        <4>2. f[k] = IF k = 0 THEN base ELSE G[k][f[k - 1]]
          BY <2>1, <4>1 DEF Recursive
        <4> HIDE DEF g
        <4> QED BY <2>2, <4>1, <4>2
      <3> QED BY <3>1, <3>2
    <2> HIDE DEF g
    <2> QED BY <2>3, <2>4 DEF Recursive
  <1> HIDE DEF P
  <1>3. \A m \in 0..n : m \in P
    BY <1>1, <1>2, Along
  <1>4. n \in 0..n
    OBVIOUS
  <1> QED BY <1>3, <1>4 DEF P

\* Min() and Max() do what they say.
LEMMA Least ==
  ASSUME NEW s \in SUBSET Nat, s # {}
  PROVE  Min(s) \in s /\ \A y \in s : Min(s) <= y
  <1>1. PICK n \in s : \A y \in s : ~ (<<y, n>> \in OpToRel(<, Nat))
    BY WFMin, NatLessThanWellFounded
  <1>2. n \in Nat /\ \A y \in s : y \in Nat /\ ~ (y < n)
    BY <1>1 DEF OpToRel
  <1>3. \A y \in s : n <= y
    BY <1>2
  <1> QED BY <1>3 DEF Min

LEMMA Largest ==
  ASSUME NEW n \in Nat, NEW s \in SUBSET (0..n), s # {}
  PROVE  Max(s) \in s /\ \A y \in s : y <= Max(s)
  <1> DEFINE r == {k \in Nat : \A y \in s : y <= k}
  <1>1. n \in r
    OBVIOUS
  <1>2. Min(r) \in r /\ \A y \in r : Min(r) <= y
    BY <1>1, Least
  <1> DEFINE m == Min(r)
  <1>3. m \in s
    <2> SUFFICES ASSUME m \notin s PROVE FALSE
      OBVIOUS
    <2>1. m \in Nat /\ \A y \in s : y \in Nat /\ y < m
      BY <1>2
    <2>2. m - 1 \in r
      <3> HIDE DEF m
      <3>1. PICK y \in s : TRUE
        OBVIOUS
      <3>2. y \in Nat /\ y < m
        BY <2>1
      <3>3. m - 1 \in Nat
        BY <2>1, <3>2
      <3>4. \A z \in s : z <= m - 1
        BY <2>1
      <3> QED BY <3>3, <3>4
    <2> QED BY <1>2, <2>1, <2>2
  <1>4. \A y \in s : y <= m
    BY <1>2
  <1> HIDE DEF m
  <1> QED BY <1>3, <1>4 DEF Max

LEMMA Prefix ==
  ASSUME NEW k \in Nat, k # 0
  PROVE  Max(1..k) = k /\ (1..k) \ {k} = 1..(k - 1)
  <1>1. 1..k \in SUBSET (0..k) /\ k \in 1..k
    OBVIOUS
  <1>2. Max(1..k) \in 1..k /\ \A y \in 1..k : y <= Max(1..k)
    BY <1>1, Largest
  <1>3. Max(1..k) = k
    <2> DEFINE m == Max(1..k)
    <2>1. m \in 1..k /\ k <= m
      BY <1>1, <1>2
    <2> HIDE DEF m
    <2>2. m \in Int /\ m <= k
      BY <2>1
    <2>3. m = k
      BY <2>1, <2>2
    <2> QED BY <2>3 DEF m
  <1> QED BY <1>3

\* What a fold over a sequence of length n takes last, of its first k elements.
LEMMA TakenLast ==
  ASSUME NEW n \in Nat, NEW k \in 1..n
  PROVE  /\ 1..k \in SUBSET (1..n) /\ 1..k # {} /\ k \in 0..n /\ k - 1 \in 0..n
         /\ Max(1..k) = k /\ (1..k) \ {Max(1..k)} = 1..(k - 1)
  <1>1. k \in Nat /\ k # 0 /\ 1..k \in SUBSET (1..n) /\ k \in 1..k /\ k \in 0..n /\ k - 1 \in 0..n
    OBVIOUS
  <1>2. Max(1..k) = k /\ (1..k) \ {k} = 1..(k - 1)
    BY <1>1, Prefix
  <1> QED BY <1>1, <1>2

LeftFoldOf(n, base, G, f) ==
  \A s \in SUBSET (1..n) : f[s] = IF s = {} THEN base ELSE G[Max(s)][f[s \ {Max(s)}]]

\* FoldLeft()'s recursive function, over a sequence of length n.
LEMMA LeftFold ==
  ASSUME NEW n, NEW D, NEW base, NEW G, Steppable(n, D, base, G)
  PROVE  \E f \in [SUBSET (1..n) -> D] : LeftFoldOf(n, base, G, f)
  <1> DEFINE pick == [s \in SUBSET (1..n) |-> Max(s)]
  <1>1. \A s \in SUBSET (1..n) : s # {} => pick[s] \in s
    <2> SUFFICES ASSUME NEW s \in SUBSET (1..n), s # {} PROVE pick[s] \in s
      OBVIOUS
    <2>1. n \in Nat /\ s \in SUBSET (0..n)
      BY DEF Steppable
    <2>2. Max(s) \in s
      BY <2>1, Largest
    <2> QED BY <2>2
  <1>2. IsFiniteSet(1..n)
    BY FS_Interval DEF Steppable
  <1>3. Foldable(1..n, pick, D, base, G)
    BY <1>1, <1>2 DEF Foldable, Steppable
  <1>4. \E f \in [SUBSET (1..n) -> D] : FoldOf(1..n, pick, base, G, f)
    <2> HIDE DEF pick
    <2> QED BY <1>3, FoldExists
  <1> QED BY <1>4 DEF FoldOf, LeftFoldOf

----------------------------------------------------------------------------
(****************************************************************************)
(* One Cooperation object, for any grace, half-life, weights, drift of the  *)
(* clocks and number of attestations.                                       *)
(****************************************************************************)
Coop == [a: {Holder}, b: {Peer}, started: {0}, att: [Party -> Verdict \cup {Unsigned}],
         issued: [Party -> Dated]]

\* Who has signed, by what has arrived.
Heard == \A p \in Party : Signed(coop, p) <=> arrived # {} /\ ~Silent(p)

IInv == TypeOK /\ Heard

----------------------------------------------------------------------------
\* An attestation counts as issued at some time, dated or not.
LEMMA IssuedAtType ==
  ASSUME now \in 0..Horizon, NEW l \in Letter
  PROVE  IssuedAt(l) \in Dated
  <1>1. l.issued \in Dated \cup {Undated}
    BY DEF Letter
  <1>2. now \in Dated
    BY TimeAssumption DEF Dated
  <1> QED BY <1>1, <1>2 DEF IssuedAt

\* add_attestation() overwrites the entry of its signer and no other.
LEMMA AddParts ==
  ASSUME now \in 0..Horizon, NEW c \in Coop, NEW l \in Letter
  PROVE  /\ Add(c, l) \in Coop
         /\ Add(c, l).att = [c.att EXCEPT ![l.by] = l.verdict]
  <1>1. IssuedAt(l) \in Dated /\ l.by \in Party /\ l.verdict \in Verdict
    BY IssuedAtType DEF Letter
  <1> QED BY <1>1 DEF Add, Coop

\* An attestation is signed with a verdict, never with nothing.
LEMMA VerdictSigns == Unsigned \notin Verdict
  BY DEF Unsigned, Verdict

\* After it, its signer has signed, and whoever had signed has.
LEMMA AddSigns ==
  ASSUME now \in 0..Horizon, NEW c \in Coop, NEW l \in Letter
  PROVE  \A p \in Party : Signed(Add(c, l), p) <=> p = l.by \/ Signed(c, p)
  <1>1. l.by \in Party /\ l.verdict # Unsigned
    BY VerdictSigns DEF Letter
  <1>2. DOMAIN c.att = Party
    BY DEF Coop
  <1> DEFINE d == Add(c, l)
  <1>3. d.att = [c.att EXCEPT ![l.by] = l.verdict]
    BY AddParts
  <1> HIDE DEF d
  <1>4. \A p \in Party : Signed(d, p) <=> p = l.by \/ Signed(c, p)
    BY <1>1, <1>2, <1>3 DEF Signed
  <1> QED BY <1>4 DEF d

LEMMA TypesAgree ==
  TypeOK => /\ coop \in Coop /\ letters \subseteq Letter /\ arrived \subseteq letters
            /\ now \in 0..Horizon
  BY DEF TypeOK, Coop

LEMMA InitInv == Init => IInv
  <1> SUFFICES ASSUME Init PROVE IInv
    OBVIOUS
  <1>1. TypeOK
    BY TimeAssumption DEF Init, TypeOK, Party, Unsigned, Dated
  <1>2. \A p \in Party : ~Signed(coop, p)
    BY DEF Init, Signed
  <1> QED BY <1>1, <1>2 DEF Init, IInv, Heard

LEMMA TickInv ==
  ASSUME IInv, Tick
  PROVE  IInv'
  BY TimeAssumption DEF IInv, Tick, TypeOK, Heard, Silent, Signed

LEMMA SignInv ==
  ASSUME IInv, NEW p \in Party, NEW v \in Verdict,
         NEW issued \in ((now - Drift)..(now + Drift)) \cup {Undated}, Sign(p, v, issued)
  PROVE  IInv'
  <1>1. issued \in Dated \cup {Undated}
    BY TimeAssumption DEF IInv, TypeOK, Dated
  <1>2. TypeOK'
    BY <1>1 DEF IInv, TypeOK, Sign, Letter
  <1> QED BY <1>2 DEF IInv, Sign, Heard, Silent, Signed

\* A ledger: one object, one attestation.
LEMMA DeliverInv ==
  ASSUME IInv, NEW l \in letters, Deliver(l)
  PROVE  IInv'
  <1>1. coop \in Coop /\ l \in Letter /\ now \in 0..Horizon /\ l.by \in Party
    BY TypesAgree DEF IInv, Letter
  <1>2. /\ keeper = "ledger" /\ coop' = Add(coop, l) /\ arrived' = arrived \cup {l}
        /\ UNCHANGED <<keeper, now, letters>>
    BY DEF Deliver
  <1>3. TypeOK'
    BY <1>1, <1>2, AddParts DEF IInv, TypeOK, Coop
  <1>4. \A p \in Party : Signed(coop', p) <=> p = l.by \/ Signed(coop, p)
    BY <1>1, <1>2, AddSigns
  <1>5. Heard'
    BY <1>2, <1>4 DEF IInv, Heard, Silent
  <1> QED BY <1>3, <1>5 DEF IInv

\* An agent: the attestation, whoever signed it, and its own.
LEMMA CounterSignInv ==
  ASSUME IInv, NEW l \in letters, CounterSign(l)
  PROVE  IInv'
  <1> DEFINE own == [by |-> Holder, verdict |-> "fulfilled", issued |-> now]
             mid == Add(coop, l)
  <1>1. coop \in Coop /\ l \in Letter /\ now \in 0..Horizon /\ l.by \in Party
    BY TypesAgree DEF IInv, Letter
  <1>2. own \in Letter
    BY TimeAssumption DEF IInv, TypeOK, Letter, Party, Verdict, Dated
  <1>3. /\ keeper = "agent" /\ coop' = Add(mid, own)
        /\ arrived' = arrived \cup {l} /\ UNCHANGED <<keeper, now, letters>>
    BY DEF CounterSign
  <1>4. own.by = Holder
    OBVIOUS
  <1> HIDE DEF own, mid
  <1>5. mid \in Coop /\ \A p \in Party : Signed(mid, p) <=> p = l.by \/ Signed(coop, p)
    BY <1>1, AddParts, AddSigns DEF mid
  <1>6. /\ coop' \in Coop
        /\ \A p \in Party : Signed(coop', p) <=> p \in {Holder, l.by} \/ Signed(coop, p)
    BY <1>1, <1>2, <1>3, <1>4, <1>5, AddParts, AddSigns
  <1>7. TypeOK'
    BY <1>3, <1>6 DEF IInv, TypeOK, Coop
  <1>8. Heard'
    BY <1>3, <1>6 DEF IInv, Heard, Silent
  <1> QED BY <1>7, <1>8 DEF IInv

LEMMA NextInv == IInv /\ [Next]_vars => IInv'
  <1> SUFFICES ASSUME IInv, [Next]_vars PROVE IInv'
    OBVIOUS
  <1>1. CASE UNCHANGED vars
    BY <1>1 DEF vars, IInv, TypeOK, Heard, Silent, Signed
  <1> QED BY <1>1, TickInv, SignInv, DeliverInv, CounterSignInv DEF Next

LEMMA Invariance == Spec => []IInv
  BY InitInv, NextInv, PTL DEF Spec

----------------------------------------------------------------------------
\* The object, the attestations and the history keep their types.
THEOREM TypeCorrect == Spec => []TypeOK
  <1>1. IInv => TypeOK
    BY DEF IInv
  <1> QED BY <1>1, Invariance, PTL

LEMMA InvSilence == IInv => OnlySilencePenalized
  <1> SUFFICES ASSUME IInv, Late, arrived # {}
               PROVE  Penalized(coop, Late) = {p \in Party : Silent(p)}
    BY DEF OnlySilencePenalized, Penalized
  <1>1. coop.a = Holder /\ coop.b = Peer /\ Party = {Holder, Peer}
    BY DEF IInv, TypeOK, Party
  <1>2. PICK l \in arrived : l.by \in Party
    BY TypesAgree DEF IInv, Letter
  <1>3. \A p \in Party : Signed(coop, p) <=> ~Silent(p)
    BY DEF IInv, Heard
  <1>4. Signed(coop, l.by)
    BY <1>2, <1>3 DEF IInv, TypeOK, Silent
  <1> QED BY <1>1, <1>2, <1>3, <1>4 DEF Penalized

\* After the grace those penalized are those none of whose attestations ever
\* arrived, if anyone's did: whatever came late, again or out of order, whoever
\* signed stays signed (reputation.py:110-113, 128-139).
THEOREM SilenceAlone == Spec => []OnlySilencePenalized
  BY InvSilence, Invariance, PTL

\* Nobody's signature is ever taken back, and a grace that is over stays over.
LEMMA OnlyForward ==
  ASSUME IInv, [Next]_vars
  PROVE  (Closed(coop) => Closed(coop')) /\ (Late => Late')
  <1>0. /\ coop \in Coop /\ letters \subseteq Letter /\ now \in 0..Horizon /\ now \in Int
        /\ DanglingTimeout \in Int
    BY TypesAgree, TimeAssumption DEF IInv, TypeOK
  <1>1. CASE UNCHANGED coop /\ now' >= now /\ now' \in Int
    <2>1. coop.started \in Int
      BY <1>0 DEF Coop
    <2> QED BY <1>0, <1>1, <2>1 DEF Closed, Signed, Late
  <1>2. CASE UNCHANGED now /\ \E l \in Letter : coop' = Add(coop, l)
    <2>1. coop.a \in Party /\ coop.b \in Party
      BY <1>0 DEF Coop, Party
    <2>2. PICK l \in Letter : coop' = Add(coop, l)
      BY <1>2
    <2>3. coop' \in Coop /\ \A p \in Party : Signed(coop, p) => Signed(coop', p)
      BY <1>0, <2>2, AddParts, AddSigns
    <2>4. coop'.a = coop.a /\ coop'.b = coop.b /\ coop'.started = coop.started
      BY <1>0, <2>3 DEF Coop
    <2> QED BY <1>2, <2>1, <2>3, <2>4 DEF Closed, Late
  <1>3. CASE UNCHANGED now /\ \E l, m \in Letter : coop' = Add(Add(coop, l), m)
    <2>1. coop.a \in Party /\ coop.b \in Party
      BY <1>0 DEF Coop, Party
    <2>2. PICK l \in Letter, m \in Letter : coop' = Add(Add(coop, l), m)
      BY <1>3
    <2>3. Add(coop, l) \in Coop /\ \A p \in Party : Signed(coop, p) => Signed(Add(coop, l), p)
      BY <1>0, AddParts, AddSigns
    <2>4. coop' \in Coop /\ \A p \in Party : Signed(coop, p) => Signed(coop', p)
      BY <1>0, <2>2, <2>3, AddParts, AddSigns
    <2>5. coop'.a = coop.a /\ coop'.b = coop.b /\ coop'.started = coop.started
      BY <1>0, <2>4 DEF Coop
    <2> QED BY <1>3, <2>1, <2>4, <2>5 DEF Closed, Late
  <1>4. CASE UNCHANGED vars
    BY <1>0, <1>1, <1>4 DEF vars
  <1>5. CASE Tick
    BY <1>0, <1>1, <1>5 DEF Tick
  <1>6. ASSUME NEW p \in Party, NEW v \in Verdict, NEW issued, Sign(p, v, issued)
        PROVE  UNCHANGED <<coop, now>>
    BY <1>6 DEF Sign
  <1>7. ASSUME NEW l \in letters, Deliver(l)
        PROVE  UNCHANGED now /\ \E m \in Letter : coop' = Add(coop, m)
    BY <1>0, <1>7 DEF Deliver
  <1>8. ASSUME NEW l \in letters, CounterSign(l)
        PROVE  UNCHANGED now /\ \E k, m \in Letter : coop' = Add(Add(coop, k), m)
    <2>1. [by |-> Holder, verdict |-> "fulfilled", issued |-> now] \in Letter
      BY TimeAssumption DEF IInv, TypeOK, Letter, Party, Verdict, Dated
    <2> QED BY <1>0, <1>8, <2>1 DEF CounterSign
  <1> QED BY <1>0, <1>1, <1>2, <1>3, <1>4, <1>5, <1>6, <1>7, <1>8 DEF Next

\* What resolve() says, by signatures and grace alone.
Parts ==
  /\ Standing = "pending" <=> ~Closed(coop) /\ ~Late
  /\ Standing = "dangling" <=> ~Closed(coop) /\ Late

LEMMA StandingParts == IInv => Parts
  <1> SUFFICES ASSUME IInv PROVE Parts
    OBVIOUS
  <1>1. coop.att[coop.a] \in Verdict \cup {Unsigned} /\ coop.att[coop.b] \in Verdict \cup {Unsigned}
    BY DEF IInv, TypeOK, Party
  <1> QED BY <1>1 DEF Parts, Standing, State, Closed, Signed, Verdict

\* A cooperation leaves "pending" once and for all, and a closed one is never
\* open again (reputation.py:115-139).
THEOREM OnceClosedClosed == Spec => NeverReopened
  <1>1. IInv /\ IInv' /\ [Next]_vars =>
          [/\ Standing' = "pending" => Standing = "pending"
           /\ Standing' = "dangling" => Standing \in {"pending", "dangling"}]_vars
    <2> SUFFICES ASSUME IInv, IInv', [Next]_vars
                 PROVE  /\ Standing' = "pending" => Standing = "pending"
                        /\ Standing' = "dangling" => Standing \in {"pending", "dangling"}
      OBVIOUS
    <2>1. Parts /\ Parts'
      BY StandingParts, PTL
    <2>2. (Closed(coop) => Closed(coop')) /\ (Late => Late')
      BY OnlyForward
    <2> QED BY <2>1, <2>2 DEF Parts
  <1> QED BY <1>1, Invariance, PTL DEF Spec, NeverReopened

----------------------------------------------------------------------------

(* Halved is what its equation says. *)
LEMMA HalvedDef ==
  Halved = [k \in Nat |-> IF k = 0 THEN FullWeight ELSE Halved[k - 1] \div 2]
<1> DEFINE F(f) == [k \in Nat |-> IF k = 0 THEN FullWeight ELSE f[k - 1] \div 2]
           Part(f, n) == f = [k \in 0..n |-> IF k = 0 THEN FullWeight ELSE f[k - 1] \div 2]
           At(n) == CHOOSE f : Part(f, n)
           All == [n \in Nat |-> At(n)[n]]
<1>1. ASSUME NEW n \in Nat, NEW f, Part(f, n), NEW m \in n..(n + 1), NEW g,
             Part(g, m), NEW k \in 0..n
      PROVE  f[k] = g[k]
  <2> DEFINE S == {i \in Nat : i <= n => f[i] = g[i]}
  <2>1. 0 \in S
    BY <1>1
  <2>2. \A i \in Nat : i \in S => i + 1 \in S
    <3> SUFFICES ASSUME NEW i \in Nat, i + 1 <= n, f[i] = g[i]
                 PROVE  f[i + 1] = g[i + 1]
      OBVIOUS
    <3>1. f[i + 1] = f[i] \div 2 /\ g[i + 1] = g[i] \div 2
      BY <1>1
    <3> QED BY <3>1
  <2> HIDE DEF S
  <2>3. Nat \subseteq S
    BY <2>1, <2>2, Induction
  <2> QED BY <2>3 DEF S
<1>2. \A n \in Nat : Part(At(n), n)
  <2> DEFINE S == {n \in Nat : \E f : Part(f, n)}
  <2>1. 0 \in S
    <3>1. Part([k \in 0..0 |-> FullWeight], 0)
      OBVIOUS
    <3> QED BY <3>1
  <2>2. \A n \in Nat : n \in S => n + 1 \in S
    <3> SUFFICES ASSUME NEW n \in Nat, NEW f, Part(f, n) PROVE \E g : Part(g, n + 1)
      OBVIOUS
    <3>1. Part([k \in 0..(n + 1) |-> IF k = n + 1 THEN f[n] \div 2 ELSE f[k]],
               n + 1)
      OBVIOUS
    <3> QED BY <3>1
  <2> HIDE DEF S
  <2>3. \A n \in Nat : \E f : Part(f, n)
    BY <2>1, <2>2, Induction DEF S
  <2> HIDE DEF Part
  <2> QED BY <2>3
<1> HIDE DEF At
<1>3. ASSUME NEW n \in Nat PROVE All[n] = F(All)[n]
  <2>1. At(n)[n] = (IF n = 0 THEN FullWeight ELSE At(n)[n - 1] \div 2)
    BY <1>2
  <2>2. CASE n = 0
    BY <2>1, <2>2
  <2>3. CASE n # 0
    <3>1. n - 1 \in Nat /\ n \in (n - 1)..((n - 1) + 1) /\ n - 1 \in 0..(n - 1)
      BY <2>3
    <3>2. At(n - 1)[n - 1] = At(n)[n - 1]
      <4> HIDE DEF Part
      <4> QED BY <3>1, <1>1, <1>2
    <3> QED BY <2>1, <2>3, <3>1, <3>2
  <2> QED BY <2>2, <2>3
<1>4. \E f : f = F(f)
  <2>1. All = F(All)
    <3> HIDE DEF All
    <3> QED BY <1>3 DEF All
  <2> QED BY <2>1
<1> HIDE DEF F
<1>5. (CHOOSE f : f = F(f)) = F(CHOOSE f : f = F(f))
  BY <1>4
<1> QED BY <1>5 DEF F, Halved

\* Each half-life takes away half of what is left: the weight only falls.
LEMMA HalvedFalls ==
  /\ \A n \in Nat : Halved[n] \in Nat
  /\ \A m, n \in Nat : m <= n => Halved[n] <= Halved[m]
<1>1. /\ Halved[0] = FullWeight
      /\ \A n \in Nat : Halved[n + 1] = Halved[n] \div 2
  BY HalvedDef
<1>2. \A n \in Nat : Halved[n] \in Nat
  <2> DEFINE S == {n \in Nat : Halved[n] \in Nat}
  <2>1. 0 \in S /\ \A n \in Nat : n \in S => n + 1 \in S
    BY <1>1, TimeAssumption
  <2> HIDE DEF S
  <2>2. Nat \subseteq S
    BY <2>1, Induction
  <2> QED BY <2>2 DEF S
<1>3. \A n \in Nat : Halved[n + 1] <= Halved[n]
  BY <1>1, <1>2
<1>4. ASSUME NEW m \in Nat PROVE \A d \in Nat : Halved[m + d] <= Halved[m]
  <2> DEFINE S == {d \in Nat : Halved[m + d] <= Halved[m]}
  <2>1. 0 \in S
    BY <1>2
  <2>2. ASSUME NEW d \in Nat, d \in S PROVE d + 1 \in S
    <3>1. m + d \in Nat /\ (m + d) + 1 = m + (d + 1) /\ m + (d + 1) \in Nat
      OBVIOUS
    <3>2. Halved[m + (d + 1)] <= Halved[m + d]
      BY <1>3, <3>1
    <3>3. /\ Halved[m] \in Nat /\ Halved[m + d] \in Nat /\ Halved[m + (d + 1)] \in Nat
      BY <1>2, <3>1
    <3> QED BY <2>2, <3>2, <3>3
  <2> HIDE DEF S
  <2>3. Nat \subseteq S
    BY <2>1, <2>2, Induction
  <2> QED BY <2>3 DEF S
<1>5. ASSUME NEW m \in Nat, NEW n \in Nat, m <= n PROVE Halved[n] <= Halved[m]
  <2>1. n - m \in Nat /\ n = m + (n - m)
    BY <1>5
  <2> QED BY <1>4, <2>1
<1> QED BY <1>2, <1>5

\* As many whole half-lives fit in more time, at least.
LEMMA DivGrows ==
  ASSUME NEW h \in Nat \ {0}, NEW m \in Nat, NEW n \in Nat, m <= n
  PROVE  m \div h \in Nat /\ n \div h \in Nat /\ m \div h <= n \div h
<1> DEFINE q == m \div h
           r == n \div h
<1>1. q \in Int /\ h * q <= m /\ m < h * q + h
  OBVIOUS
<1>2. r \in Int /\ h * r <= n /\ n < h * r + h
  OBVIOUS
<1> HIDE DEF q, r
<1>3. q >= 0
  <2> SUFFICES ASSUME q <= -1 PROVE FALSE
    BY <1>1
  <2>1. h * q <= -h
    BY <1>1
  <2> QED BY <1>1, <2>1
<1>4. r >= 0
  <2> SUFFICES ASSUME r <= -1 PROVE FALSE
    BY <1>2
  <2>1. h * r <= -h
    BY <1>2
  <2> QED BY <1>2, <2>1
<1>5. q <= r
  <2> SUFFICES ASSUME r + 1 <= q PROVE FALSE
    BY <1>1, <1>2
  <2>1. h * (r + 1) <= h * q
    BY <1>1, <1>2
  <2>2. h * (r + 1) = h * r + h
    BY <1>2
  <2>3. h * r \in Int /\ h * q \in Int /\ h * (r + 1) \in Int
    BY <1>1, <1>2
  <2> QED BY <1>1, <1>2, <2>1, <2>2, <2>3
<1> QED BY <1>1, <1>2, <1>3, <1>4, <1>5 DEF q, r

LEMMA WeightFalls ==
  ASSUME NEW a \in Int, NEW b \in Int, a <= b
  PROVE  Weight(a) \in Nat /\ Weight(b) \in Nat /\ Weight(b) <= Weight(a)
<1>1. Newer(a, 0) \in Nat /\ Newer(b, 0) \in Nat /\ Newer(a, 0) <= Newer(b, 0)
  BY DEF Newer
<1>2. HalfLife \in Nat \ {0}
  BY TimeAssumption
<1> DEFINE m == Newer(a, 0)
           n == Newer(b, 0)
<1> HIDE DEF m, n
<1>3. m \div HalfLife \in Nat /\ n \div HalfLife \in Nat /\ m \div HalfLife <= n \div HalfLife
  BY <1>1, <1>2, DivGrows DEF m, n
<1> QED BY <1>3, HalvedFalls DEF Weight, m, n

\* What the outcome stands for does not change while it stands.
LEMMA SameEvidence ==
  ASSUME IInv, Tick, Standing' = Standing
  PROVE  /\ Evidence(coop, Late, Holder, Peer)' = Evidence(coop, Late, Holder, Peer)
         /\ Evidence(coop, Late, Holder, Peer) \in Int
<1>1. /\ coop' = coop /\ Party = {Holder, Peer} /\ coop.a = Holder /\ coop.b = Peer
      /\ WGood \in Int /\ WBad \in Int /\ WDangle \in Int
  BY WeightAssumption DEF Tick, IInv, TypeOK, Party
<1>2. Late => Late'
  BY OnlyForward DEF Next
<1>3. Parts
  BY StandingParts
<1>4. Standing = "dangling" => Late
  BY <1>3 DEF Parts
<1>5. /\ Standing = "dangling" => Penalized(coop', Late') = Penalized(coop, Late)
      /\ State(coop', Late') = State(coop, Late)
  BY <1>1, <1>2, <1>4 DEF Penalized, Standing
<1>6. Evidence(coop', Late', Holder, Peer) = Evidence(coop, Late, Holder, Peer)
  BY <1>1, <1>5 DEF Evidence, Standing
<1>7. Evidence(coop, Late, Holder, Peer) \in Int
  BY <1>1 DEF Evidence
<1> QED BY <1>6, <1>7

\* While the clock runs and the outcome stands, its age does not decrease.
LEMMA AgeGrows ==
  ASSUME IInv, Tick, Standing' = Standing
  PROVE  Age \in Int /\ Age' \in Int /\ Age <= Age'
<1>1. /\ coop' = coop /\ now' = now + 1 /\ now \in Int /\ coop.started \in Int
      /\ Newer(coop.issued[Holder], coop.issued[Peer]) \in Int
  <2>1. coop.issued[Holder] \in Int /\ coop.issued[Peer] \in Int /\ coop.started \in Int
    BY TimeAssumption DEF IInv, TypeOK, Party, Dated
  <2> QED BY <2>1, TimeAssumption DEF Tick, IInv, TypeOK, Newer
<1>2. Closed(coop') <=> Closed(coop)
  BY <1>1
<1>3. Newer(coop'.issued[Holder], coop'.issued[Peer]) = Newer(coop.issued[Holder], coop.issued[Peer])
  BY <1>1
<1>4. ~(Closed(coop) /\ Standing = "dangling")
  BY StandingParts DEF Parts
<1> DEFINE newer == Newer(coop.issued[Holder], coop.issued[Peer])
<1>5. Age = IF Closed(coop) THEN now - newer
            ELSE IF Standing = "dangling" THEN now - coop.started ELSE 0
  BY <1>4 DEF Age
<1>6. Age' = IF Closed(coop) THEN now + 1 - newer
             ELSE IF Standing = "dangling" THEN now + 1 - coop.started ELSE 0
  BY <1>1, <1>2, <1>3, <1>4 DEF Age
<1> HIDE DEF newer
<1>7. newer \in Int
  BY <1>1 DEF newer
<1> QED BY <1>1, <1>5, <1>6, <1>7

\* A smaller weight makes the same evidence weaker.
LEMMA Weaker ==
  ASSUME NEW e \in Int, NEW v \in Nat, NEW w \in Nat, v <= w
  PROVE  (IF e * v < 0 THEN -(e * v) ELSE e * v) <= (IF e * w < 0 THEN -(e * w) ELSE e * w)
<1>1. CASE e >= 0
  <2>1. e * v \in Int /\ e * w \in Int /\ 0 <= e * v /\ e * v <= e * w
    BY <1>1
  <2> QED BY <2>1
<1>2. CASE e < 0
  <2>1. e * v \in Int /\ e * w \in Int /\ e * v <= 0 /\ e * w <= e * v
    BY <1>2
  <2> QED BY <2>1
<1> QED BY <1>1, <1>2

\* As long as the outcome stands, time alone weakens what it says, for or
\* against the peer, whatever clocks the signers had (reputation.py:164-165,
\* 198-213).
THEOREM OnlyFades == Spec => TimeOnlyFades
<1>1. IInv /\ [Next]_vars => [(Tick /\ Standing' = Standing) => Strength' <= Strength]_vars
  <2> SUFFICES ASSUME IInv, Tick, Standing' = Standing PROVE Strength' <= Strength
    OBVIOUS
  <2> DEFINE e == Evidence(coop, Late, Holder, Peer)
  <2>1. e' = e /\ e \in Int
    BY SameEvidence
  <2>2. Age \in Int /\ Age' \in Int /\ Age <= Age'
    BY AgeGrows
  <2>3. PICK was : was = Age
    OBVIOUS
  <2>4. PICK is : is = Age'
    OBVIOUS
  <2>5. Weight(was) \in Nat /\ Weight(is) \in Nat /\ Weight(is) <= Weight(was)
    BY <2>2, <2>3, <2>4, WeightFalls
  <2>6. Worth = e * Weight(was) /\ Worth' = e * Weight(is)
    <3>1. Weight(Age)' = Weight(is)
      BY <2>4 DEF Weight, Newer
    <3> HIDE DEF e
    <3> QED BY <2>1, <2>3, <3>1 DEF Worth, e
  <2> HIDE DEF e
  <2> QED BY <2>1, <2>5, <2>6, Weaker DEF Strength
<1> QED BY <1>1, Invariance, PTL DEF Spec, TimeOnlyFades

----------------------------------------------------------------------------
(****************************************************************************)
(* The trust graph, for any agents, weights, curve of trust and depth.      *)
(****************************************************************************)
Entry == [a: Agent, b: Agent, late: BOOLEAN, att: [Agent -> Verdict \cup {Unsigned}]]

Ledger ==
  {l \in Seq(Entry) : Len(l) <= MaxRecords /\ \A i \in DOMAIN l : l[i].a # l[i].b}

Node == [node: Agent, path: Nat]

Search == [visited: SUBSET Agent, next: Seq(Node), heard: Int]

\* No cooperation is worth more than a good one, and it says nothing of others.
LEMMA EvidenceBound ==
  ASSUME NEW c \in Entry, NEW o \in Agent, NEW x \in Agent
  PROVE  /\ Evidence(c, c.late, o, x) \in Int
         /\ Evidence(c, c.late, o, x) <= WGood
         /\ o = x \/ {o, x} # {c.a, c.b} => Evidence(c, c.late, o, x) = 0
  BY WeightAssumption DEF Evidence

LEMMA LedgerEntry ==
  ASSUME NEW l \in Ledger
  PROVE  /\ Len(l) \in Nat /\ Len(l) <= MaxRecords /\ DOMAIN l = 1..Len(l) /\ l \in Seq(Entry)
         /\ IsFiniteSet(DOMAIN l) /\ Cardinality(DOMAIN l) = Len(l)
         /\ \A i \in DOMAIN l : l[i] \in Entry /\ l[i].a \in Agent /\ l[i].b \in Agent /\ l[i].a # l[i].b
  <1>1. l \in Seq(Entry) /\ Len(l) <= MaxRecords /\ \A i \in DOMAIN l : l[i].a # l[i].b
    BY DEF Ledger
  <1>2. Len(l) \in Nat /\ DOMAIN l = 1..Len(l) /\ \A i \in DOMAIN l : l[i] \in Entry
    BY <1>1
  <1>3. IsFiniteSet(1..Len(l)) /\ Cardinality(1..Len(l)) = Len(l)
    BY <1>2, FS_Interval
  <1> QED BY <1>1, <1>2, <1>3 DEF Entry

LEMMA TimesMonotone ==
  ASSUME NEW a \in Nat, NEW b \in Int, NEW c \in Int, b <= c
  PROVE  a * b <= a * c
  OBVIOUS

\* Direct trust is earned together, and there is only so much of it.
LEMMA DirectBound ==
  ASSUME NEW l \in Ledger, NEW o \in Agent, NEW x \in Agent
  PROVE  /\ Direct(l, o, x) \in Int
         /\ Direct(l, o, x) <= WGood * MaxRecords
         /\ Direct(l, o, x) > 0 => o # x /\ \E i \in DOMAIN l : {o, x} = {l[i].a, l[i].b}
  <1> DEFINE f == [i \in DOMAIN l |-> Evidence(l[i], l[i].late, o, x)]
  <1>1. \A i \in DOMAIN l : l[i] \in Entry
    BY LedgerEntry
  <1>2. f \in [DOMAIN l -> Int] /\ \A i \in DOMAIN l : f[i] <= WGood
    BY <1>1, EvidenceBound
  <1>3. ASSUME o = x \/ \A i \in DOMAIN l : {o, x} # {l[i].a, l[i].b}
        PROVE  \A i \in DOMAIN l : f[i] <= 0
    BY <1>1, <1>3, EvidenceBound
  <1>4. Direct(l, o, x) = SumFunction(f)
    BY DEF Direct
  <1> HIDE DEF f
  <1>5. SumFunction(f) \in Int
    BY <1>2, LedgerEntry, SumSplit
  <1>6. SumFunction(f) <= WGood * Len(l)
    BY <1>2, LedgerEntry, SumBound, WeightAssumption
  <1>7. WGood * Len(l) <= WGood * MaxRecords
    <2>1. WGood \in Nat /\ MaxRecords \in Nat /\ Len(l) \in Nat /\ Len(l) <= MaxRecords
      BY LedgerEntry, WeightAssumption, GraphAssumption
    <2> QED BY <2>1, TimesMonotone
  <1>8. (\A i \in DOMAIN l : f[i] <= 0) => SumFunction(f) <= 0
    <2> SUFFICES ASSUME \A i \in DOMAIN l : f[i] <= 0 PROVE SumFunction(f) <= 0
      OBVIOUS
    <2>1. SumFunction(f) <= 0 * Cardinality(DOMAIN l)
      BY <1>2, LedgerEntry, SumBound
    <2> QED BY <2>1, LedgerEntry
  <1>9. WGood * Len(l) \in Int /\ WGood * MaxRecords \in Int
    BY LedgerEntry, WeightAssumption, GraphAssumption
  <1>10. SumFunction(f) <= WGood * MaxRecords
    <2> DEFINE v == SumFunction(f)
               b == WGood * Len(l)
               c == WGood * MaxRecords
    <2>1. v \in Int /\ b \in Int /\ c \in Int /\ v <= b /\ b <= c
      BY <1>5, <1>6, <1>7, <1>9
    <2> HIDE DEF v, b, c
    <2>2. v <= c
      BY <2>1
    <2> QED BY <2>2 DEF v, c
  <1>11. SumFunction(f) > 0 => o # x /\ \E i \in DOMAIN l : {o, x} = {l[i].a, l[i].b}
    <2> SUFFICES ASSUME o = x \/ \A i \in DOMAIN l : {o, x} # {l[i].a, l[i].b}
                 PROVE  ~ (SumFunction(f) > 0)
      OBVIOUS
    <2>1. SumFunction(f) <= 0
      BY <1>3, <1>8
    <2> QED BY <1>5, <2>1
  <1> QED BY <1>4, <1>5, <1>10, <1>11

LEMMA GoodsType ==
  ASSUME NEW l \in Ledger, NEW p, NEW x
  PROVE  Goods(l, p, x) \in Nat
  <1> DEFINE s == {i \in DOMAIN l : {p, x} = {l[i].a, l[i].b} /\ Good(l[i])}
  <1>1. s \in SUBSET DOMAIN l /\ IsFiniteSet(DOMAIN l)
    BY LedgerEntry
  <1> HIDE DEF s
  <1>2. Cardinality(s) \in Nat
    BY <1>1, FS_Subset, FS_CardinalityType
  <1> QED BY <1>2 DEF Goods, s

LEMMA ScaleType == \A d \in 0..MaxDepth : Scale[d] \in Nat
  <1> DEFINE base == 1
             G == [k \in 1..MaxDepth |-> [v \in Nat |-> Unit * DecayBase * v]]
  <1>1. Unit * DecayBase \in Nat
    BY GraphAssumption
  <1>2. Steppable(MaxDepth, Nat, base, G)
    BY <1>1, GraphAssumption DEF Steppable
  <1>3. PICK f \in [0..MaxDepth -> Nat] : Recursive(MaxDepth, base, G, f)
    <2> HIDE DEF base, G
    <2> QED BY <1>2, Recursion
  <1>4. ASSUME NEW n \in 0..MaxDepth
        PROVE  f[n] = IF n = 0 THEN 1 ELSE Unit * DecayBase * f[n - 1]
    <2>1. n # 0 => n \in 1..MaxDepth /\ n - 1 \in 0..MaxDepth
      BY GraphAssumption
    <2> QED BY <1>3, <2>1 DEF Recursive
  <1>5. f = [n \in 0..MaxDepth |-> IF n = 0 THEN 1 ELSE Unit * DecayBase * f[n - 1]]
    BY <1>4
  <1>6. Scale = [n \in 0..MaxDepth |-> IF n = 0 THEN 1 ELSE Unit * DecayBase * Scale[n - 1]]
    BY <1>5 DEF Scale
  <1> DEFINE P == {n \in 0..MaxDepth : Scale[n] \in Nat}
  <1>7. 0 \in P
    BY <1>6, GraphAssumption
  <1>8. ASSUME NEW k \in 1..MaxDepth, k - 1 \in P PROVE k \in P
    <2>1. Scale[k] = Unit * DecayBase * Scale[k - 1] /\ Scale[k - 1] \in Nat
      BY <1>6, <1>8
    <2> QED BY <1>1, <2>1
  <1> HIDE DEF P
  <1>9. \A k \in 0..MaxDepth : k \in P
    BY <1>7, <1>8, Along, GraphAssumption
  <1> QED BY <1>9 DEF P

\* What is behind a path is a whole number of Full-ths.
LEMMA GateType ==
  ASSUME NEW path \in Nat, NEW d \in 0..MaxDepth
  PROVE  Gate(path, d) \in Nat
  <1>1. MaxDepth - d \in 0..MaxDepth
    BY GraphAssumption
  <1>2. Scale[MaxDepth - d] \in Nat
    BY <1>1, ScaleType
  <1> QED BY <1>2 DEF Gate

\* What the search makes of a peer it has not met, over an edge of trust.
Met(l, x, depth, from, s, peer) ==
  LET path == from.path * Curve[Direct(l, from.node, peer)]
  IN  [visited |-> s.visited \cup {peer},
       next |-> Append(s.next, [node |-> peer, path |-> path]),
       heard |-> s.heard + WGood * Goods(l, peer, x) * Gate(path, depth)]

New(l, x, from, s, peer) == peer \notin s.visited \cup {x} /\ Direct(l, from.node, peer) > 0

\* A turn of the innermost loop either meets the peer or leaves the search alone.
LEMMA VisitCases ==
  ASSUME NEW l \in Ledger, NEW x \in Agent, NEW d \in 1..MaxDepth, NEW from \in Node,
         NEW s \in Search, NEW peer \in Agent
  PROVE  /\ Visit(l, x, d, from, s, peer) =
              IF New(l, x, from, s, peer) THEN Met(l, x, d, from, s, peer) ELSE s
         /\ Visit(l, x, d, from, s, peer) \in Search
         /\ New(l, x, from, s, peer) => from.path * Curve[Direct(l, from.node, peer)] \in Nat
  <1>1. from.node \in Agent /\ from.path \in Nat
    BY DEF Node
  <1>2. Direct(l, from.node, peer) \in Int /\ Direct(l, from.node, peer) <= WGood * MaxRecords
    BY <1>1, DirectBound
  <1>3. Visit(l, x, d, from, s, peer) =
              IF New(l, x, from, s, peer) THEN Met(l, x, d, from, s, peer) ELSE s
    BY <1>2 DEF Visit, New, Met
  <1>4. ASSUME New(l, x, from, s, peer)
        PROVE  /\ from.path * Curve[Direct(l, from.node, peer)] \in Nat
               /\ Met(l, x, d, from, s, peer) \in Search
    <2> DEFINE n == Direct(l, from.node, peer)
               path == from.path * Curve[n]
    <2>0. WGood * MaxRecords \in Int
      BY WeightAssumption, GraphAssumption
    <2>1. n \in 1..(WGood * MaxRecords)
      BY <1>2, <1>4, <2>0 DEF New
    <2>2. Curve[n] \in Nat
      <3> HIDE DEF n
      <3> QED BY <2>1, GraphAssumption
    <2>3. path \in Nat
      <3> HIDE DEF n
      <3> QED BY <1>1, <2>2
    <2>4. Gate(path, d) \in Nat
      <3> HIDE DEF path
      <3> QED BY <2>3, GateType
    <2>5. Goods(l, peer, x) \in Nat
      BY GoodsType
    <2> DEFINE more == WGood * Goods(l, peer, x) * Gate(path, d)
    <2>6. more \in Int
      <3> DEFINE g == Goods(l, peer, x)
                 h == Gate(path, d)
      <3>1. g \in Nat /\ h \in Nat
        BY <2>4, <2>5
      <3> HIDE DEF g, h
      <3>2. WGood * g * h \in Int
        BY <3>1, WeightAssumption
      <3> QED BY <3>2 DEF g, h
    <2> DEFINE entry == [node |-> peer, path |-> path]
    <2>7. entry \in Node
      BY <2>3 DEF Node
    <2>8. Met(l, x, d, from, s, peer) =
            [visited |-> s.visited \cup {peer}, next |-> Append(s.next, entry),
             heard |-> s.heard + more]
      BY DEF Met
    <2> HIDE DEF entry, more
    <2>9. s.visited \in SUBSET Agent /\ s.next \in Seq(Node) /\ s.heard \in Int
      BY DEF Search
    <2>10. Append(s.next, entry) \in Seq(Node) /\ s.heard + more \in Int
      BY <2>6, <2>7, <2>9
    <2>11. Met(l, x, d, from, s, peer) \in Search
      BY <2>8, <2>9, <2>10 DEF Search
    <2> QED BY <2>3, <2>11
  <1> QED BY <1>3, <1>4

\* The two turns that one cooperation of the ledger causes, and the search as the
\* chain of them.
Turn(l, x, d, from, t, c) == Visit(l, x, d, from, Visit(l, x, d, from, t, c.a), c.b)

ExpandSteps(l, x, d, from, s, t) ==
  /\ t[0] = s /\ t[Len(l)] = Expand(l, x, d, from, s)
  /\ \A k \in 1..Len(l) : t[k] = Turn(l, x, d, from, t[k - 1], l[k])

LEMMA ExpandChain ==
  ASSUME NEW l \in Ledger, NEW x \in Agent, NEW d \in 1..MaxDepth, NEW from \in Node,
         NEW s \in Search
  PROVE  \E t \in [0..Len(l) -> Search] : ExpandSteps(l, x, d, from, s, t)
  <1> DEFINE n == Len(l)
             step(t, c) == Turn(l, x, d, from, t, c)
             G == [k \in 1..n |-> [t \in Search |-> step(t, l[k])]]
             E(f) == f = [u \in SUBSET (1..n) |->
                            IF u = {} THEN s ELSE step(f[u \ {Max(u)}], l[Max(u)])]
  <1>1. n \in Nat /\ DOMAIN l = 1..n /\ \A k \in 1..n : l[k].a \in Agent /\ l[k].b \in Agent
    BY LedgerEntry
  <1>2. \A t \in Search, k \in 1..n : step(t, l[k]) \in Search
    BY <1>1, VisitCases DEF Turn
  <1>3. Expand(l, x, d, from, s) = (CHOOSE f : E(f))[1..n]
    BY <1>1 DEF Expand, FoldLeft, MapThenFoldSet, Turn
  <1> HIDE DEF n, step
  <1>4. Steppable(n, Search, s, G)
    BY <1>1, <1>2 DEF Steppable
  <1>5. PICK g \in [SUBSET (1..n) -> Search] : LeftFoldOf(n, s, G, g)
    <2> HIDE DEF G
    <2> QED BY <1>4, LeftFold
  <1>6. ASSUME NEW u \in SUBSET (1..n), u # {}
        PROVE  G[Max(u)][g[u \ {Max(u)}]] = step(g[u \ {Max(u)}], l[Max(u)])
    <2>1. u \in SUBSET (0..n)
      OBVIOUS
    <2>2. Max(u) \in 1..n
      BY <1>1, <1>6, <2>1, Largest
    <2> QED BY <2>2
  <1>7. E(g)
    <2> HIDE DEF G
    <2> QED BY <1>5, <1>6 DEF LeftFoldOf
  <1> DEFINE iter == CHOOSE f : E(f)
  <1>8. E(iter)
    BY <1>7
  <1> HIDE DEF iter
  <1> DEFINE t == [k \in 0..n |-> iter[1..k]]
  <1>9. t[0] = s /\ t[n] = iter[1..n]
    <2>1. 1..0 = {} /\ {} \in SUBSET (1..n)
      OBVIOUS
    <2>2. iter[{}] = s
      BY <1>8, <2>1
    <2> QED BY <1>1, <2>1, <2>2
  <1>10. ASSUME NEW k \in 1..n PROVE t[k] = step(t[k - 1], l[k])
    <2>1. /\ 1..k \in SUBSET (1..n) /\ 1..k # {} /\ k \in 0..n /\ k - 1 \in 0..n
          /\ Max(1..k) = k /\ (1..k) \ {Max(1..k)} = 1..(k - 1)
      BY <1>1, TakenLast
    <2> QED BY <1>8, <2>1
  <1> HIDE DEF t
  <1>11. \A k \in 0..n : t[k] \in Search
    <2> DEFINE P == {k \in 0..n : t[k] \in Search}
    <2>1. 0 \in P
      BY <1>1, <1>9
    <2>2. \A k \in 1..n : k - 1 \in P => k \in P
      BY <1>1, <1>2, <1>10
    <2> HIDE DEF P
    <2>3. \A k \in 0..n : k \in P
      BY <1>1, <2>1, <2>2, Along
    <2> QED BY <2>3 DEF P
  <1>12. t \in [0..n -> Search]
    BY <1>11 DEF t
  <1> QED BY <1>3, <1>9, <1>10, <1>12 DEF ExpandSteps, n, step, iter

LEMMA ExpandType ==
  ASSUME NEW l \in Ledger, NEW x \in Agent, NEW d \in 1..MaxDepth, NEW from \in Node,
         NEW s \in Search
  PROVE  Expand(l, x, d, from, s) \in Search
  <1>1. PICK t \in [0..Len(l) -> Search] : ExpandSteps(l, x, d, from, s, t)
    BY ExpandChain
  <1>2. Len(l) \in 0..Len(l)
    BY LedgerEntry
  <1> QED BY <1>1, <1>2 DEF ExpandSteps

\* A level as the chain of the nodes it expands.
LevelSteps(l, x, d, s, t) ==
  /\ t[0] = [s EXCEPT !.next = <<>>] /\ t[Len(s.next)] = Level(l, x, d, s)
  /\ \A k \in 1..Len(s.next) : t[k] = Expand(l, x, d, s.next[k], t[k - 1])

LEMMA LevelChain ==
  ASSUME NEW l \in Ledger, NEW x \in Agent, NEW d \in 1..MaxDepth, NEW s \in Search
  PROVE  \E t \in [0..Len(s.next) -> Search] : LevelSteps(l, x, d, s, t)
  <1> DEFINE e == s.next
             n == Len(e)
             base == [s EXCEPT !.next = <<>>]
             step(t, c) == Expand(l, x, d, c, t)
             G == [k \in 1..n |-> [t \in Search |-> step(t, e[k])]]
             E(f) == f = [u \in SUBSET (1..n) |->
                            IF u = {} THEN base ELSE step(f[u \ {Max(u)}], e[Max(u)])]
  <1>1. n \in Nat /\ DOMAIN e = 1..n /\ base \in Search /\ \A k \in 1..n : e[k] \in Node
    <2>1. e \in Seq(Node) /\ <<>> \in Seq(Node)
      BY DEF Search
    <2>2. base \in Search
      BY <2>1 DEF Search
    <2> HIDE DEF e
    <2>3. n \in Nat /\ DOMAIN e = 1..n /\ \A k \in 1..n : e[k] \in Node
      BY <2>1
    <2> QED BY <2>2, <2>3
  <1>2. \A t \in Search, k \in 1..n : step(t, e[k]) \in Search
    BY <1>1, ExpandType
  <1>3. Level(l, x, d, s) = (CHOOSE f : E(f))[1..n]
    BY <1>1 DEF Level, FoldLeft, MapThenFoldSet
  <1> HIDE DEF n, step, e, base
  <1>4. Steppable(n, Search, base, G)
    BY <1>1, <1>2 DEF Steppable
  <1>5. PICK g \in [SUBSET (1..n) -> Search] : LeftFoldOf(n, base, G, g)
    <2> HIDE DEF G
    <2> QED BY <1>4, LeftFold
  <1>6. ASSUME NEW u \in SUBSET (1..n), u # {}
        PROVE  G[Max(u)][g[u \ {Max(u)}]] = step(g[u \ {Max(u)}], e[Max(u)])
    <2>1. u \in SUBSET (0..n)
      OBVIOUS
    <2>2. Max(u) \in 1..n
      BY <1>1, <1>6, <2>1, Largest
    <2> QED BY <2>2
  <1>7. E(g)
    <2> HIDE DEF G
    <2> QED BY <1>5, <1>6 DEF LeftFoldOf
  <1> DEFINE iter == CHOOSE f : E(f)
  <1>8. E(iter)
    BY <1>7
  <1> HIDE DEF iter
  <1> DEFINE t == [k \in 0..n |-> iter[1..k]]
  <1>9. t[0] = base /\ t[n] = iter[1..n]
    <2>1. 1..0 = {} /\ {} \in SUBSET (1..n)
      OBVIOUS
    <2>2. iter[{}] = base
      BY <1>8, <2>1
    <2> QED BY <1>1, <2>1, <2>2
  <1>10. ASSUME NEW k \in 1..n PROVE t[k] = step(t[k - 1], e[k])
    <2>1. /\ 1..k \in SUBSET (1..n) /\ 1..k # {} /\ k \in 0..n /\ k - 1 \in 0..n
          /\ Max(1..k) = k /\ (1..k) \ {Max(1..k)} = 1..(k - 1)
      BY <1>1, TakenLast
    <2> QED BY <1>8, <2>1
  <1> HIDE DEF t
  <1>11. \A k \in 0..n : t[k] \in Search
    <2> DEFINE P == {k \in 0..n : t[k] \in Search}
    <2>1. 0 \in P
      BY <1>1, <1>9
    <2>2. \A k \in 1..n : k - 1 \in P => k \in P
      BY <1>1, <1>2, <1>10
    <2> HIDE DEF P
    <2>3. \A k \in 0..n : k \in P
      BY <1>1, <2>1, <2>2, Along
    <2> QED BY <2>3 DEF P
  <1>12. t \in [0..n -> Search]
    BY <1>11 DEF t
  <1> QED BY <1>3, <1>9, <1>10, <1>12 DEF LevelSteps, n, step, iter, e, base

LEMMA LevelType ==
  ASSUME NEW l \in Ledger, NEW x \in Agent, NEW d \in 1..MaxDepth, NEW s \in Search
  PROVE  Level(l, x, d, s) \in Search
  <1>1. PICK t \in [0..Len(s.next) -> Search] : LevelSteps(l, x, d, s, t)
    BY LevelChain
  <1>2. Len(s.next) \in 0..Len(s.next)
    BY DEF Search
  <1> QED BY <1>1, <1>2 DEF LevelSteps

Start(o) == [visited |-> {o}, next |-> <<[node |-> o, path |-> 1]>>, heard |-> 0]

\* The search as the chain of its levels.
TestimonySteps(l, o, x, t) ==
  /\ t[0] = Start(o) /\ t[MaxDepth].heard = Testimony(l, o, x)
  /\ \A d \in 1..MaxDepth : t[d] = Level(l, x, d, t[d - 1])

LEMMA TestimonyChain ==
  ASSUME NEW l \in Ledger, NEW o \in Agent, NEW x \in Agent
  PROVE  \E t \in [0..MaxDepth -> Search] : TestimonySteps(l, o, x, t)
  <1> DEFINE e == [depth \in 1..MaxDepth |-> depth]
             n == MaxDepth
             base == Start(o)
             step(t, c) == Level(l, x, c, t)
             G == [k \in 1..n |-> [t \in Search |-> step(t, e[k])]]
             E(f) == f = [u \in SUBSET (1..n) |->
                            IF u = {} THEN base ELSE step(f[u \ {Max(u)}], e[Max(u)])]
  <1>1. n \in Nat /\ DOMAIN e = 1..n /\ base \in Search /\ \A k \in 1..n : e[k] = k
    BY GraphAssumption DEF Search, Start, Node
  <1>2. \A t \in Search, k \in 1..n : step(t, e[k]) \in Search
    BY <1>1, LevelType
  <1>3. Testimony(l, o, x) = (CHOOSE f : E(f))[1..n].heard
    BY <1>1 DEF Testimony, FoldLeft, MapThenFoldSet, Start
  <1> HIDE DEF n, step, e, base
  <1>4. Steppable(n, Search, base, G)
    BY <1>1, <1>2 DEF Steppable
  <1>5. PICK g \in [SUBSET (1..n) -> Search] : LeftFoldOf(n, base, G, g)
    <2> HIDE DEF G
    <2> QED BY <1>4, LeftFold
  <1>6. ASSUME NEW u \in SUBSET (1..n), u # {}
        PROVE  G[Max(u)][g[u \ {Max(u)}]] = step(g[u \ {Max(u)}], e[Max(u)])
    <2>1. u \in SUBSET (0..n)
      OBVIOUS
    <2>2. Max(u) \in 1..n
      BY <1>1, <1>6, <2>1, Largest
    <2> QED BY <2>2
  <1>7. E(g)
    <2> HIDE DEF G
    <2> QED BY <1>5, <1>6 DEF LeftFoldOf
  <1> DEFINE iter == CHOOSE f : E(f)
  <1>8. E(iter)
    BY <1>7
  <1> HIDE DEF iter
  <1> DEFINE t == [k \in 0..n |-> iter[1..k]]
  <1>9. t[0] = base /\ t[n] = iter[1..n]
    <2>1. 1..0 = {} /\ {} \in SUBSET (1..n)
      OBVIOUS
    <2>2. iter[{}] = base
      BY <1>8, <2>1
    <2> QED BY <1>1, <2>1, <2>2
  <1>10. ASSUME NEW k \in 1..n PROVE t[k] = step(t[k - 1], e[k])
    <2>1. /\ 1..k \in SUBSET (1..n) /\ 1..k # {} /\ k \in 0..n /\ k - 1 \in 0..n
          /\ Max(1..k) = k /\ (1..k) \ {Max(1..k)} = 1..(k - 1)
      BY <1>1, TakenLast
    <2> QED BY <1>8, <2>1
  <1> HIDE DEF t
  <1>11. \A k \in 0..n : t[k] \in Search
    <2> DEFINE P == {k \in 0..n : t[k] \in Search}
    <2>1. 0 \in P
      BY <1>1, <1>9
    <2>2. \A k \in 1..n : k - 1 \in P => k \in P
      BY <1>1, <1>2, <1>10
    <2> HIDE DEF P
    <2>3. \A k \in 0..n : k \in P
      BY <1>1, <2>1, <2>2, Along
    <2> QED BY <2>3 DEF P
  <1>12. t \in [0..n -> Search]
    BY <1>11 DEF t
  <1>13. \A k \in 1..n : e[k] = k
    BY <1>1
  <1> QED BY <1>3, <1>9, <1>10, <1>12, <1>13 DEF TestimonySteps, n, step, iter, base

\* What every turn keeps, the expansion of a node keeps.
LEMMA ExpandKeeps ==
  ASSUME NEW l \in Ledger, NEW x \in Agent, NEW d \in 1..MaxDepth, NEW from \in Node,
         NEW I \in SUBSET Search, NEW s \in I,
         \A t \in I, peer \in Agent : Visit(l, x, d, from, t, peer) \in I
  PROVE  Expand(l, x, d, from, s) \in I
  <1>1. PICK t \in [0..Len(l) -> Search] : ExpandSteps(l, x, d, from, s, t)
    BY ExpandChain
  <1>2. Len(l) \in Nat /\ DOMAIN l = 1..Len(l)
        /\ \A k \in 1..Len(l) : l[k].a \in Agent /\ l[k].b \in Agent
    BY LedgerEntry
  <1> DEFINE P == {k \in 0..Len(l) : t[k] \in I}
  <1>3. 0 \in P
    BY <1>1, <1>2 DEF ExpandSteps
  <1>4. ASSUME NEW k \in 1..Len(l), k - 1 \in P PROVE k \in P
    <2>1. t[k - 1] \in I /\ l[k].a \in Agent /\ l[k].b \in Agent
      BY <1>2, <1>4
    <2>2. t[k] = Visit(l, x, d, from, Visit(l, x, d, from, t[k - 1], l[k].a), l[k].b)
      BY <1>1 DEF ExpandSteps, Turn
    <2> QED BY <2>1, <2>2
  <1> HIDE DEF P
  <1>5. \A k \in 0..Len(l) : k \in P
    BY <1>2, <1>3, <1>4, Along
  <1> QED BY <1>1, <1>2, <1>5 DEF P, ExpandSteps

\* Visited stays visited; a trusted peer is, afterwards.
LEMMA VisitMeets ==
  ASSUME NEW l \in Ledger, NEW x \in Agent, NEW d \in 1..MaxDepth, NEW from \in Node,
         NEW s \in Search, NEW peer \in Agent
  PROVE  LET v == Visit(l, x, d, from, s, peer)
         IN  /\ s.visited \subseteq v.visited
             /\ Direct(l, from.node, peer) > 0 /\ peer # x => peer \in v.visited
             /\ peer \in s.visited \cup {x} => v = s
  <1> DEFINE v == Visit(l, x, d, from, s, peer)
  <1>1. CASE New(l, x, from, s, peer)
    <2>1. v = Met(l, x, d, from, s, peer)
      BY <1>1, VisitCases
    <2>2. v.visited = s.visited \cup {peer}
      BY <2>1 DEF Met
    <2> QED BY <1>1, <2>2 DEF New
  <1>2. CASE ~New(l, x, from, s, peer)
    <2>1. v = s
      BY <1>2, VisitCases
    <2> QED BY <1>2, <2>1 DEF New
  <1> QED BY <1>1, <1>2

\* The search passes over no one whom the agent it stands at trusts.
LEMMA ExpandMeets ==
  ASSUME NEW l \in Ledger, NEW x \in Agent, NEW d \in 1..MaxDepth, NEW from \in Node,
         NEW s \in Search
  PROVE  LET e == Expand(l, x, d, from, s)
         IN  /\ s.visited \subseteq e.visited
             /\ \A p \in Agent : Direct(l, from.node, p) > 0 /\ p # x => p \in e.visited
  <1>0. ASSUME NEW p \in Agent, Direct(l, from.node, p) > 0
        PROVE  \E i \in DOMAIN l : {from.node, p} = {l[i].a, l[i].b}
    <2> DEFINE n == from.node
    <2>1. n \in Agent /\ Direct(l, n, p) > 0
      BY <1>0 DEF Node
    <2> HIDE DEF n
    <2>2. \E i \in DOMAIN l : {n, p} = {l[i].a, l[i].b}
      BY <2>1, DirectBound
    <2> QED BY <2>2 DEF n
  <1>1. PICK t \in [0..Len(l) -> Search] : ExpandSteps(l, x, d, from, s, t)
    BY ExpandChain
  <1>2. Len(l) \in Nat /\ DOMAIN l = 1..Len(l)
        /\ \A k \in 1..Len(l) : l[k].a \in Agent /\ l[k].b \in Agent
    BY LedgerEntry
  <1> DEFINE Trusted(p) == Direct(l, from.node, p) > 0 /\ p # x
             Met1(k) == /\ s.visited \subseteq t[k].visited
                        /\ \A i \in 1..k : /\ Trusted(l[i].a) => l[i].a \in t[k].visited
                                           /\ Trusted(l[i].b) => l[i].b \in t[k].visited
             P == {k \in 0..Len(l) : Met1(k)}
  <1>3. 0 \in P
    BY <1>1, <1>2 DEF ExpandSteps
  <1>4. ASSUME NEW k \in 1..Len(l), k - 1 \in P PROVE k \in P
    <2>1. l[k].a \in Agent /\ l[k].b \in Agent /\ k - 1 \in 0..Len(l) /\ k \in 0..Len(l)
      BY <1>2
    <2> DEFINE v == Visit(l, x, d, from, t[k - 1], l[k].a)
    <2>2. t[k] = Visit(l, x, d, from, v, l[k].b) /\ t[k - 1] \in Search
      BY <1>1, <2>1 DEF ExpandSteps, Turn
    <2>3. /\ v \in Search /\ t[k - 1].visited \subseteq v.visited
          /\ Trusted(l[k].a) => l[k].a \in v.visited
      BY <2>1, <2>2, VisitCases, VisitMeets
    <2> HIDE DEF v
    <2>4. /\ v.visited \subseteq t[k].visited
          /\ Trusted(l[k].b) => l[k].b \in t[k].visited
      BY <2>1, <2>2, <2>3, VisitMeets
    <2> HIDE DEF Trusted
    <2>5. Met1(k - 1)
      BY <1>4
    <2>6. \A i \in 1..k : i \in 1..(k - 1) \/ i = k
      BY <1>2
    <2>7. Met1(k)
      BY <2>3, <2>4, <2>5, <2>6
    <2> QED BY <2>1, <2>7
  <1> HIDE DEF P
  <1>5. Len(l) \in P
    <2>1. \A k \in 0..Len(l) : k \in P
      BY <1>2, <1>3, <1>4, Along
    <2> QED BY <1>2, <2>1
  <1>6. t[Len(l)] = Expand(l, x, d, from, s)
    BY <1>1 DEF ExpandSteps
  <1>7. ASSUME NEW p \in Agent, Trusted(p) PROVE p \in t[Len(l)].visited
    <2>1. PICK i \in DOMAIN l : {from.node, p} = {l[i].a, l[i].b}
      BY <1>0, <1>7
    <2>2. p \in {l[i].a, l[i].b}
      BY <2>1
    <2> HIDE DEF Trusted
    <2> QED BY <1>2, <1>5, <1>7, <2>1, <2>2 DEF P
  <1> QED BY <1>5, <1>6, <1>7 DEF P

----------------------------------------------------------------------------
\* The agents of the next level are all in r.
Within(s, r) == \A i \in DOMAIN s.next : s.next[i].node \in r

LEMMA WithinExpand ==
  ASSUME NEW l \in Ledger, NEW x \in Agent, NEW d \in 1..MaxDepth, NEW from \in Node,
         NEW s \in Search, NEW r, Within(s, r),
         \A p \in Agent : Direct(l, from.node, p) > 0 /\ p # x => p \in r
  PROVE  Within(Expand(l, x, d, from, s), r)
  <1> DEFINE I == {t \in Search : Within(t, r)}
  <1>1. ASSUME NEW t \in I, NEW peer \in Agent PROVE Visit(l, x, d, from, t, peer) \in I
    <2> DEFINE v == Visit(l, x, d, from, t, peer)
    <2>1. t \in Search /\ v \in Search /\ t.next \in Seq(Node)
      BY VisitCases DEF Search
    <2>2. CASE ~New(l, x, from, t, peer)
      BY <2>1, <2>2, VisitCases
    <2>3. CASE New(l, x, from, t, peer)
      <3> DEFINE entry == [node |-> peer, path |-> from.path * Curve[Direct(l, from.node, peer)]]
      <3>1. v.next = Append(t.next, entry) /\ entry \in Node
        BY <2>1, <2>3, VisitCases DEF Met, Node
      <3>2. entry.node \in r
        BY <2>3 DEF New
      <3> HIDE DEF entry, v
      <3>3. ASSUME NEW i \in DOMAIN v.next PROVE v.next[i].node \in r
        <4>1. i = Len(t.next) + 1 \/ i \in DOMAIN t.next
          BY <2>1, <3>1
        <4>2. CASE i = Len(t.next) + 1
          BY <2>1, <3>1, <3>2, <4>2
        <4>3. CASE i \in DOMAIN t.next
          <5>1. v.next[i] = t.next[i]
            BY <2>1, <3>1, <4>3
          <5> QED BY <4>3, <5>1 DEF Within
        <4> QED BY <4>1, <4>2, <4>3
      <3> QED BY <2>1, <3>3 DEF Within, v
    <2> QED BY <2>2, <2>3
  <1>2. I \in SUBSET Search /\ s \in I
    OBVIOUS
  <1> HIDE DEF I
  <1>3. Expand(l, x, d, from, s) \in I
    BY <1>1, <1>2, ExpandKeeps
  <1> QED BY <1>3 DEF I

\* A ledger that names the same parties, and perhaps one pair more.
Longer(l, m) ==
  /\ Len(m) = Len(l) \/ Len(m) = Len(l) + 1
  /\ \A i \in DOMAIN l : m[i].a = l[i].a /\ m[i].b = l[i].b

LEMMA LongerParts ==
  ASSUME NEW l \in Ledger, NEW m \in Ledger, Longer(l, m)
  PROVE  /\ \A k \in 1..Len(l) : k \in 1..Len(m) /\ m[k].a = l[k].a /\ m[k].b = l[k].b
         /\ Len(m) # Len(l) => Len(m) \in 1..Len(m) /\ Len(m) - 1 = Len(l)
  <1> DEFINE a == Len(l)
             b == Len(m)
  <1>1. a \in Nat /\ b \in Nat /\ DOMAIN l = 1..a
    BY LedgerEntry
  <1>2. b = a \/ b = a + 1
    BY DEF Longer
  <1>3. \A k \in 1..a : m[k].a = l[k].a /\ m[k].b = l[k].b
    BY <1>1 DEF Longer
  <1> HIDE DEF a, b
  <1>4. (\A k \in 1..a : k \in 1..b) /\ (b # a => b \in 1..b /\ b - 1 = a)
    BY <1>1, <1>2
  <1> QED BY <1>3, <1>4 DEF a, b

SameVisits(l, m, x, d, from) ==
  \A t \in Search, p \in Agent : Visit(m, x, d, from, t, p) = Visit(l, x, d, from, t, p)

NoNews(l, m, x, d, from, e) ==
  Len(m) # Len(l) => /\ Visit(l, x, d, from, e, m[Len(m)].a) = e
                     /\ Visit(l, x, d, from, e, m[Len(m)].b) = e

\* Two ledgers that make the same of every turn, the last pair causing none.
LEMMA SameExpand ==
  ASSUME NEW l \in Ledger, NEW m \in Ledger, Longer(l, m),
         NEW x \in Agent, NEW d \in 1..MaxDepth, NEW from \in Node, NEW s \in Search,
         SameVisits(l, m, x, d, from), NoNews(l, m, x, d, from, Expand(l, x, d, from, s))
  PROVE  Expand(m, x, d, from, s) = Expand(l, x, d, from, s)
  <1>1. PICK t \in [0..Len(l) -> Search] : ExpandSteps(l, x, d, from, s, t)
    BY ExpandChain
  <1>2. PICK u \in [0..Len(m) -> Search] : ExpandSteps(m, x, d, from, s, u)
    BY ExpandChain
  <1>3. /\ Len(l) \in Nat /\ DOMAIN l = 1..Len(l)
        /\ \A k \in 1..Len(l) : l[k].a \in Agent /\ l[k].b \in Agent
    BY LedgerEntry
  <1>4. /\ Len(m) \in Nat /\ DOMAIN m = 1..Len(m)
        /\ \A k \in 1..Len(m) : m[k].a \in Agent /\ m[k].b \in Agent
    BY LedgerEntry
  <1>5. \A k \in 1..Len(l) : k \in 1..Len(m) /\ m[k].a = l[k].a /\ m[k].b = l[k].b
    BY LongerParts
  <1>6. \A t1 \in Search, p \in Agent : Visit(l, x, d, from, t1, p) \in Search
    BY VisitCases
  <1> DEFINE P == {k \in 0..Len(l) : u[k] = t[k]}
  <1>7. 0 \in P
    BY <1>1, <1>2, <1>3 DEF ExpandSteps
  <1>8. ASSUME NEW k \in 1..Len(l), k - 1 \in P PROVE k \in P
    <2>1. k - 1 \in 0..Len(l) /\ k \in 1..Len(m) /\ u[k - 1] = t[k - 1] /\ t[k - 1] \in Search
      BY <1>5, <1>8
    <2>2. t[k] = Turn(l, x, d, from, t[k - 1], l[k]) /\ u[k] = Turn(m, x, d, from, t[k - 1], m[k])
      BY <1>1, <1>2, <2>1 DEF ExpandSteps
    <2>3. Turn(m, x, d, from, t[k - 1], m[k]) = Turn(l, x, d, from, t[k - 1], l[k])
      BY <1>3, <1>5, <1>6, <2>1 DEF Turn, SameVisits
    <2> QED BY <2>2, <2>3
  <1> HIDE DEF P
  <1>9. u[Len(l)] = Expand(l, x, d, from, s)
    <2>1. \A k \in 0..Len(l) : k \in P
      BY <1>3, <1>7, <1>8, Along
    <2> QED BY <1>1, <1>3, <2>1 DEF P, ExpandSteps
  <1>10. CASE Len(m) = Len(l)
    BY <1>2, <1>9, <1>10 DEF ExpandSteps
  <1>11. CASE Len(m) # Len(l)
    <2> DEFINE e == Expand(l, x, d, from, s)
    <2>1. Len(m) \in 1..Len(m) /\ Len(m) - 1 = Len(l)
      BY <1>11, LongerParts
    <2>2. u[Len(m)] = Turn(m, x, d, from, e, m[Len(m)])
      BY <1>2, <1>9, <2>1 DEF ExpandSteps
    <2>3. e \in Search
      BY ExpandType
    <2>4. Turn(m, x, d, from, e, m[Len(m)]) = e
      BY <1>4, <1>6, <1>11, <2>1, <2>3 DEF Turn, SameVisits, NoNews
    <2> QED BY <1>2, <2>2, <2>4 DEF ExpandSteps
  <1> QED BY <1>10, <1>11

\* From the agents of r the search goes the same way in both ledgers, to agents of q.
SameFrom(l, m, x, d, r, q) ==
  \A from \in Node, s \in Search : from.node \in r =>
    /\ Expand(m, x, d, from, s) = Expand(l, x, d, from, s)
    /\ Within(s, q) => Within(Expand(l, x, d, from, s), q)

LEMMA SameLevel ==
  ASSUME NEW l \in Ledger, NEW m \in Ledger, NEW x \in Agent, NEW d \in 1..MaxDepth,
         NEW r, NEW q, NEW s \in Search, Within(s, r), SameFrom(l, m, x, d, r, q)
  PROVE  Level(m, x, d, s) = Level(l, x, d, s) /\ Within(Level(l, x, d, s), q)
  <1>1. PICK t \in [0..Len(s.next) -> Search] : LevelSteps(l, x, d, s, t)
    BY LevelChain
  <1>2. PICK u \in [0..Len(s.next) -> Search] : LevelSteps(m, x, d, s, u)
    BY LevelChain
  <1>3. Len(s.next) \in Nat /\ \A k \in 1..Len(s.next) : s.next[k] \in Node /\ s.next[k].node \in r
    <2>1. s.next \in Seq(Node)
      BY DEF Search
    <2> QED BY <2>1 DEF Within
  <1> DEFINE n == Len(s.next)
             P == {k \in 0..n : u[k] = t[k] /\ Within(t[k], q)}
  <1>4. 0 \in P
    <2>1. t[0].next = <<>> /\ u[0] = t[0]
      BY <1>1, <1>2 DEF LevelSteps, Search
    <2> QED BY <1>3, <2>1 DEF Within
  <1>5. ASSUME NEW k \in 1..n, k - 1 \in P PROVE k \in P
    <2>1. k - 1 \in 0..n /\ t[k - 1] \in Search /\ u[k - 1] = t[k - 1] /\ Within(t[k - 1], q)
      BY <1>5
    <2>2. t[k] = Expand(l, x, d, s.next[k], t[k - 1]) /\ u[k] = Expand(m, x, d, s.next[k], t[k - 1])
      BY <1>1, <1>2, <2>1 DEF LevelSteps
    <2> QED BY <1>3, <2>1, <2>2 DEF SameFrom
  <1> HIDE DEF P
  <1>6. \A k \in 0..n : k \in P
    BY <1>3, <1>4, <1>5, Along
  <1> QED BY <1>1, <1>2, <1>3, <1>6 DEF P, LevelSteps

\* Two ledgers that look the same from wherever the search gets.
LEMMA SameTestimony ==
  ASSUME NEW l \in Ledger, NEW m \in Ledger, NEW o \in Agent, NEW x \in Agent,
         NEW R, o \in R[0], \A d \in 1..MaxDepth : SameFrom(l, m, x, d, R[d - 1], R[d])
  PROVE  Testimony(m, o, x) = Testimony(l, o, x)
  <1>1. PICK t \in [0..MaxDepth -> Search] : TestimonySteps(l, o, x, t)
    BY TestimonyChain
  <1>2. PICK u \in [0..MaxDepth -> Search] : TestimonySteps(m, o, x, u)
    BY TestimonyChain
  <1>3. MaxDepth \in Nat
    BY GraphAssumption
  <1> DEFINE P == {d \in 0..MaxDepth : u[d] = t[d] /\ Within(t[d], R[d])}
  <1>4. 0 \in P
    <2>1. t[0] = Start(o) /\ u[0] = t[0]
      BY <1>1, <1>2 DEF TestimonySteps
    <2>2. Within(Start(o), R[0])
      BY DEF Within, Start
    <2> QED BY <1>3, <2>1, <2>2
  <1>5. ASSUME NEW d \in 1..MaxDepth, d - 1 \in P PROVE d \in P
    <2>1. d - 1 \in 0..MaxDepth /\ t[d - 1] \in Search /\ u[d - 1] = t[d - 1]
          /\ Within(t[d - 1], R[d - 1])
      BY <1>5
    <2>2. t[d] = Level(l, x, d, t[d - 1]) /\ u[d] = Level(m, x, d, t[d - 1])
      BY <1>1, <1>2, <2>1 DEF TestimonySteps
    <2> QED BY <2>1, <2>2, SameLevel
  <1> HIDE DEF P
  <1>6. \A d \in 0..MaxDepth : d \in P
    BY <1>3, <1>4, <1>5, Along
  <1> QED BY <1>1, <1>2, <1>3, <1>6 DEF P, TestimonySteps

\* A turn looks at one direct trust and, if it meets the peer, at one testimony.
LEMMA SameVisit ==
  ASSUME NEW l \in Ledger, NEW m \in Ledger, NEW x \in Agent, NEW d \in 1..MaxDepth,
         NEW from \in Node, NEW s \in Search, NEW p \in Agent,
         Direct(m, from.node, p) = Direct(l, from.node, p),
         New(l, x, from, s, p) => Goods(m, p, x) = Goods(l, p, x)
  PROVE  Visit(m, x, d, from, s, p) = Visit(l, x, d, from, s, p)
  <1>1. New(m, x, from, s, p) <=> New(l, x, from, s, p)
    BY DEF New
  <1>2. New(l, x, from, s, p) => Met(m, x, d, from, s, p) = Met(l, x, d, from, s, p)
    BY DEF Met
  <1>3. Visit(m, x, d, from, s, p) = IF New(m, x, from, s, p) THEN Met(m, x, d, from, s, p) ELSE s
    BY VisitCases
  <1>4. Visit(l, x, d, from, s, p) = IF New(l, x, from, s, p) THEN Met(l, x, d, from, s, p) ELSE s
    BY VisitCases
  <1> QED BY <1>1, <1>2, <1>3, <1>4

\* One cooperation is new, or not what it was.
Moved(l, m, c) ==
  /\ Longer(l, m) /\ (Len(m) # Len(l) => m[Len(m)] = c)
  /\ c.a \in Agent /\ c.b \in Agent
  /\ \A n \in Agent, p \in Agent :
       {n, p} # {c.a, c.b} => Direct(m, n, p) = Direct(l, n, p) /\ Goods(m, n, p) = Goods(l, n, p)
  /\ ~Good(c) => \A n \in Agent, p \in Agent : Goods(m, n, p) = Goods(l, n, p)

\* record() of one more cooperation concerns its parties only.
LEMMA AppendMoves ==
  ASSUME NEW l \in Ledger, NEW c \in Entry, Append(l, c) \in Ledger
  PROVE  Moved(l, Append(l, c), c) /\ Touched(l, Append(l, c)) = c
  <1> DEFINE m == Append(l, c)
             k == Len(l) + 1
  <1>1. /\ Len(l) \in Nat /\ DOMAIN l = 1..Len(l) /\ IsFiniteSet(DOMAIN m)
        /\ \A i \in DOMAIN l : l[i] \in Entry
        /\ \A i \in DOMAIN m : m[i] \in Entry
    BY LedgerEntry
  <1>2. /\ Len(m) = k /\ DOMAIN m = 1..k /\ k \in 1..k /\ m[k] = c
        /\ \A i \in DOMAIN l : i \in 1..k /\ m[i] = l[i]
        /\ (1..k) \ {k} = DOMAIN l
    <2>1. l \in Seq(Entry)
      BY DEF Ledger
    <2>2. (1..k) \ {k} = 1..Len(l)
      BY <1>1
    <2> QED BY <1>1, <2>1, <2>2
  <1> HIDE DEF m
  <1>3. Longer(l, m) /\ m[Len(m)] = c
    BY <1>2 DEF Longer
  <1>4. ASSUME NEW n \in Agent, NEW p \in Agent, {n, p} # {c.a, c.b}
        PROVE  Direct(m, n, p) = Direct(l, n, p)
    <2> DEFINE f == [i \in DOMAIN m |-> Evidence(m[i], m[i].late, n, p)]
               g == [i \in DOMAIN l |-> Evidence(l[i], l[i].late, n, p)]
    <2>1. f \in [DOMAIN m -> Int] /\ g \in [DOMAIN l -> Int] /\ f[k] = 0
      BY <1>1, <1>2, <1>4, EvidenceBound
    <2>2. g = [i \in (DOMAIN m) \ {k} |-> f[i]]
      BY <1>2
    <2> HIDE DEF f, g
    <2>3. SumFunction(f) = f[k] + SumFunction(g)
      <3> DEFINE T == DOMAIN m
      <3>1. IsFiniteSet(T) /\ f \in [T -> Int] /\ k \in T
        BY <1>1, <1>2, <2>1
      <3>2. g = [i \in T \ {k} |-> f[i]]
        BY <2>2
      <3> HIDE DEF T, k
      <3> QED BY <3>1, <3>2, SumTake
    <2>4. SumFunction(g) \in Int
      BY <2>1, LedgerEntry, SumSplit
    <2>5. SumFunction(f) = SumFunction(g)
      BY <2>1, <2>3, <2>4
    <2> QED BY <2>5 DEF Direct, f, g
  <1>5. ASSUME NEW n, NEW p, {n, p} # {c.a, c.b} \/ ~Good(c)
        PROVE  Goods(m, n, p) = Goods(l, n, p)
    <2>1. {i \in DOMAIN m : {n, p} = {m[i].a, m[i].b} /\ Good(m[i])}
            = {i \in DOMAIN l : {n, p} = {l[i].a, l[i].b} /\ Good(l[i])}
      BY <1>2, <1>5
    <2> QED BY <2>1 DEF Goods
  <1>6. Touched(l, m) = c
    BY <1>1, <1>2 DEF Touched
  <1>7. c.a \in Agent /\ c.b \in Agent
    BY DEF Entry
  <1> QED BY <1>3, <1>4, <1>5, <1>6, <1>7 DEF Moved, m

\* Of a cooperation that is not closed, nothing good is known, late or not.
LEMMA LateMoves ==
  ASSUME NEW l \in Ledger, NEW i \in DOMAIN l, ~l[i].late, ~Closed(l[i]),
         NEW m \in Ledger, m = [l EXCEPT ![i].late = TRUE]
  PROVE  \E c : Moved(l, m, c) /\ Touched(l, m) = c
  <1> DEFINE c == m[i]
  <1>1. /\ Len(l) \in Nat /\ DOMAIN l = 1..Len(l)
        /\ \A j \in DOMAIN l : l[j] \in Entry
        /\ \A j \in DOMAIN m : m[j] \in Entry
    BY LedgerEntry
  <1>2. DOMAIN m = DOMAIN l /\ Len(m) = Len(l)
    BY <1>1
  <1>3. \A j \in DOMAIN l : j # i => m[j] = l[j]
    OBVIOUS
  <1>4. c = [l[i] EXCEPT !.late = TRUE]
    OBVIOUS
  <1>5. c.late = TRUE /\ c.a = l[i].a /\ c.b = l[i].b /\ c.att = l[i].att
    BY <1>1, <1>4 DEF Entry
  <1>6. Touched(l, m) = c
    <2>1. \A j \in DOMAIN m : m[j] # l[j] <=> j = i
      BY <1>2, <1>3, <1>5
    <2>2. (CHOOSE j \in DOMAIN m : m[j] # l[j]) = i
      BY <1>2, <2>1
    <2>3. ~ (Len(m) > Len(l))
      BY <1>1, <1>2
    <2> HIDE DEF c
    <2>4. Touched(l, m) = m[CHOOSE j \in DOMAIN m : m[j] # l[j]]
      BY <2>3 DEF Touched
    <2> QED BY <2>2, <2>4 DEF c
  <1>7. ~Good(l[i]) /\ ~Good(c)
    BY <1>5 DEF Good, State, Closed, Signed
  <1>8. Longer(l, m)
    <2>1. \A j \in DOMAIN l : m[j].a = l[j].a /\ m[j].b = l[j].b
      BY <1>3, <1>5
    <2> QED BY <1>2, <2>1 DEF Longer
  <1>9. c \in Entry /\ c.a \in Agent /\ c.b \in Agent
    BY <1>1, <1>2 DEF Entry
  <1> HIDE DEF c
  <1>10. ASSUME NEW n \in Agent, NEW p \in Agent, {n, p} # {c.a, c.b}
        PROVE  Direct(m, n, p) = Direct(l, n, p)
    <2>1. Evidence(c, c.late, n, p) = 0
      BY <1>9, <1>10, EvidenceBound
    <2>2. Evidence(l[i], l[i].late, n, p) = 0
      BY <1>1, <1>5, <1>10, EvidenceBound
    <2>3. \A j \in DOMAIN l : Evidence(m[j], m[j].late, n, p) = Evidence(l[j], l[j].late, n, p)
      BY <1>3, <2>1, <2>2 DEF c
    <2> QED BY <1>2, <2>3 DEF Direct
  <1>11. ASSUME NEW n, NEW p PROVE Goods(m, n, p) = Goods(l, n, p)
    <2>1. {j \in DOMAIN m : {n, p} = {m[j].a, m[j].b} /\ Good(m[j])}
            = {j \in DOMAIN l : {n, p} = {l[j].a, l[j].b} /\ Good(l[j])}
      BY <1>2, <1>3, <1>7 DEF c
    <2> QED BY <2>1 DEF Goods
  <1>12. Moved(l, m, c)
    BY <1>2, <1>8, <1>9, <1>10, <1>11 DEF Moved
  <1> QED BY <1>6, <1>12

LEMMA RecordStep ==
  ASSUME ledger \in Ledger, NEW pair \in Pair, NEW out \in Outcome, Record(pair, out)
  PROVE  \E c \in Entry : ledger' = Append(ledger, c) /\ ledger' \in Ledger
  <1> DEFINE att == [p \in Agent |-> CASE p = pair[1] -> out[1] [] p = pair[2] -> out[2]
                                       [] OTHER -> Unsigned]
             c == [a |-> pair[1], b |-> pair[2], late |-> FALSE, att |-> att]
  <1>1. /\ pair[1] \in Agent /\ pair[2] \in Agent /\ pair[1] # pair[2]
        /\ out[1] \in Verdict /\ out[2] \in Verdict \cup {Unsigned}
    BY GraphAssumption
  <1>2. att \in [Agent -> Verdict \cup {Unsigned}]
    BY <1>1
  <1>3. c \in Entry /\ c.a # c.b
    <2> HIDE DEF att
    <2> QED BY <1>1, <1>2 DEF Entry
  <1>4. ledger' = Append(ledger, c) /\ Len(ledger') + Sour(ledger') <= MaxRecords
    BY DEF Record
  <1> HIDE DEF c
  <1> DEFINE m == Append(ledger, c)
             n == Len(ledger)
  <1>5. /\ ledger \in Seq(Entry) /\ n \in Nat /\ DOMAIN ledger = 1..n
        /\ \A i \in DOMAIN ledger : ledger[i].a # ledger[i].b
    BY DEF Ledger
  <1>6. /\ m \in Seq(Entry) /\ Len(m) = n + 1 /\ DOMAIN m = 1..(n + 1) /\ m[n + 1] = c
        /\ \A i \in 1..n : m[i] = ledger[i]
    BY <1>3, <1>5
  <1>7. \A i \in DOMAIN m : m[i].a # m[i].b
    <2>1. \A i \in 1..(n + 1) : i \in 1..n \/ i = n + 1
      BY <1>5
    <2> HIDE DEF m
    <2> QED BY <1>3, <1>5, <1>6, <2>1
  <1>8. Sour(m) \in Nat
    <2> DEFINE s == {i \in DOMAIN m : ~Good(m[i])}
    <2>1. IsFiniteSet(1..(n + 1))
      BY <1>5, FS_Interval
    <2>2. s \in SUBSET (1..(n + 1))
      BY <1>6
    <2> HIDE DEF s
    <2>3. Cardinality(s) \in Nat
      BY <2>1, <2>2, FS_Subset, FS_CardinalityType
    <2> QED BY <2>3 DEF Sour, s
  <1>9. Len(m) <= MaxRecords
    <2> DEFINE a == Len(m)
               b == Sour(m)
    <2>1. a \in Nat /\ b \in Nat /\ a + b <= MaxRecords /\ MaxRecords \in Nat
      BY <1>4, <1>5, <1>6, <1>8, GraphAssumption
    <2> HIDE DEF a, b
    <2>2. a <= MaxRecords
      BY <2>1
    <2> QED BY <2>2 DEF a
  <1> QED BY <1>3, <1>4, <1>6, <1>7, <1>9 DEF Ledger

\* Ledgers stay ledgers, and a step moves the one cooperation it touches.
LEMMA GraphStep ==
  ASSUME ledger \in Ledger, GraphNext
  PROVE  ledger' \in Ledger /\ Moved(ledger, ledger', Touched(ledger, ledger'))
  <1>1. ASSUME NEW pair \in Pair, NEW out \in Outcome, Record(pair, out)
        PROVE  ledger' \in Ledger /\ Moved(ledger, ledger', Touched(ledger, ledger'))
    <2>1. PICK c \in Entry : ledger' = Append(ledger, c) /\ ledger' \in Ledger
      BY <1>1, RecordStep
    <2> QED BY <2>1, AppendMoves
  <1>2. ASSUME NEW i \in DOMAIN ledger, GraceEnds(i)
        PROVE  ledger' \in Ledger /\ Moved(ledger, ledger', Touched(ledger, ledger'))
    <2>1. /\ ~ledger[i].late /\ ~Closed(ledger[i])
          /\ ledger' = [ledger EXCEPT ![i].late = TRUE]
      BY <1>2 DEF GraceEnds
    <2>2. ledger' \in Ledger
      <3> DEFINE m == [ledger EXCEPT ![i].late = TRUE]
      <3>1. /\ ledger \in Seq(Entry) /\ Len(ledger) \in Nat /\ DOMAIN ledger = 1..Len(ledger)
            /\ Len(ledger) <= MaxRecords
            /\ \A j \in DOMAIN ledger : ledger[j].a # ledger[j].b /\ ledger[j] \in Entry
        BY DEF Ledger
      <3>2. \A j \in DOMAIN ledger : m[j] \in Entry /\ m[j].a = ledger[j].a /\ m[j].b = ledger[j].b
        BY <3>1 DEF Entry
      <3>3. m \in [1..Len(ledger) -> Entry] /\ DOMAIN m = DOMAIN ledger
        BY <3>1, <3>2
      <3> HIDE DEF m
      <3>4. m \in Seq(Entry) /\ Len(m) = Len(ledger)
        BY <3>1, <3>3
      <3>5. m \in Ledger
        BY <3>1, <3>2, <3>3, <3>4 DEF Ledger
      <3> QED BY <2>1, <3>5 DEF m
    <2> QED BY <2>1, <2>2, LateMoves
  <1> QED BY <1>1, <1>2 DEF GraphNext

LEMMA InitLedger == GraphInit => ledger \in Ledger
  BY GraphAssumption DEF GraphInit, Ledger

\* Who is within d hops of trust.
Rings(l, o, R) ==
  /\ o \in R[0] /\ \A d \in 0..MaxDepth : R[d] \subseteq Circle(l, o)
  /\ \A d \in 1..MaxDepth : \A p \in R[d - 1] : Trusts(l, p) \subseteq R[d]

LEMMA RingsExist ==
  ASSUME NEW l \in Ledger, NEW o \in Agent
  PROVE  \E R \in [0..MaxDepth -> SUBSET Agent] : Rings(l, o, R)
  <1> DEFINE wider(r) == r \cup UNION {Trusts(l, p) : p \in r}
             G == [d \in 1..MaxDepth |-> [r \in SUBSET Agent |-> wider(r)]]
             E(f) == f = [d \in 0..MaxDepth |-> IF d = 0 THEN {o} ELSE wider(f[d - 1])]
             base == {o}
  <1>1. \A r \in SUBSET Agent : wider(r) \in SUBSET Agent
    BY DEF Trusts
  <1>2. Circle(l, o) = (CHOOSE f : E(f))[MaxDepth]
    BY DEF Circle
  <1>3. \A r : r \subseteq wider(r) /\ \A p \in r : Trusts(l, p) \subseteq wider(r)
    OBVIOUS
  <1> HIDE DEF wider
  <1>4. Steppable(MaxDepth, SUBSET Agent, base, G)
    BY <1>1, GraphAssumption DEF Steppable
  <1>5. PICK g \in [0..MaxDepth -> SUBSET Agent] : Recursive(MaxDepth, base, G, g)
    <2> HIDE DEF G, base
    <2> QED BY <1>4, Recursion
  <1>6. MaxDepth \in Nat
    BY GraphAssumption
  <1>7. E(g)
    <2>1. ASSUME NEW d \in 0..MaxDepth
          PROVE  g[d] = IF d = 0 THEN {o} ELSE wider(g[d - 1])
      <3>1. d # 0 => d \in 1..MaxDepth /\ d - 1 \in 0..MaxDepth
        BY <1>6
      <3> QED BY <1>5, <3>1 DEF Recursive
    <2> QED BY <2>1
  <1> DEFINE R == CHOOSE f : E(f)
  <1>8. E(R)
    BY <1>7
  <1> HIDE DEF R, G
  <1>9. R[0] = {o} /\ \A d \in 1..MaxDepth : R[d] = wider(R[d - 1])
    <2>1. R = [d \in 0..MaxDepth |-> IF d = 0 THEN {o} ELSE wider(R[d - 1])]
      BY <1>8
    <2>2. 0 \in 0..MaxDepth /\ \A d \in 1..MaxDepth : d \in 0..MaxDepth /\ d # 0
      BY <1>6
    <2>3. \A d \in 0..MaxDepth : R[d] = IF d = 0 THEN {o} ELSE wider(R[d - 1])
      BY <2>1
    <2> HIDE DEF E
    <2> QED BY <2>2, <2>3
  <1> DEFINE P == {d \in 0..MaxDepth : R[d] \in SUBSET Agent /\ \A e \in 0..d : R[e] \subseteq R[d]}
  <1>10. 0 \in P
    BY <1>6, <1>9
  <1>11. ASSUME NEW d \in 1..MaxDepth, d - 1 \in P PROVE d \in P
    <2>1. R[d] = wider(R[d - 1]) /\ R[d - 1] \in SUBSET Agent
          /\ \A e \in 0..(d - 1) : R[e] \subseteq R[d - 1]
      BY <1>9, <1>11
    <2>2. \A e \in 0..d : e \in 0..(d - 1) \/ e = d
      BY <1>6
    <2>3. R[d - 1] \subseteq R[d] /\ R[d] \in SUBSET Agent
      BY <1>1, <1>3, <2>1
    <2>4. \A e \in 0..d : R[e] \subseteq R[d]
      BY <2>1, <2>2, <2>3
    <2> QED BY <2>3, <2>4
  <1> HIDE DEF P
  <1>12. \A d \in 0..MaxDepth : d \in P
    BY <1>6, <1>10, <1>11, Along
  <1>13. R \in [0..MaxDepth -> SUBSET Agent]
    BY <1>8, <1>12 DEF P
  <1>14. \A d \in 0..MaxDepth : R[d] \subseteq R[MaxDepth]
    BY <1>6, <1>12 DEF P
  <1>15. Rings(l, o, R)
    <2>1. R[MaxDepth] = Circle(l, o)
      BY <1>2 DEF R
    <2>2. \A d \in 1..MaxDepth : \A p \in R[d - 1] : Trusts(l, p) \subseteq R[d]
      BY <1>3, <1>9
    <2> HIDE DEF E
    <2> QED BY <1>9, <1>14, <2>1, <2>2 DEF Rings
  <1> QED BY <1>13, <1>15

\* From within the circle the search sees nothing of what its outside does: no edge
\* out of a ring changes, and who is met is in the circle.
LEMMA CliqueUnheard ==
  ASSUME NEW l \in Ledger, NEW m \in Ledger, NEW c, Moved(l, m, c),
         {c.a, c.b} \cap Circle(l, Owner) = {}, NEW x \in Agent \ {Owner}
  PROVE  Net(m, Owner, x) = Net(l, Owner, x)
  <1>1. Owner \in Agent /\ MaxDepth \in Nat /\ c.a \in Agent /\ c.b \in Agent /\ Longer(l, m)
    BY GraphAssumption DEF Moved
  <1>2. PICK R \in [0..MaxDepth -> SUBSET Agent] : Rings(l, Owner, R)
    BY <1>1, RingsExist
  <1>3. ASSUME NEW n \in Circle(l, Owner), n \in Agent, NEW p \in Agent
        PROVE  {n, p} # {c.a, c.b} /\ Direct(m, n, p) = Direct(l, n, p)
               /\ Direct(m, p, n) = Direct(l, p, n) /\ Goods(m, n, p) = Goods(l, n, p)
    <2>1. {n, p} # {c.a, c.b} /\ {p, n} # {c.a, c.b}
      OBVIOUS
    <2> QED BY <1>3, <2>1 DEF Moved
  <1>4. Owner \in Circle(l, Owner)
    BY <1>1, <1>2 DEF Rings
  <1>5. ASSUME NEW d \in 1..MaxDepth PROVE SameFrom(l, m, x, d, R[d - 1], R[d])
    <2> SUFFICES ASSUME NEW from \in Node, NEW s \in Search, from.node \in R[d - 1]
                 PROVE  /\ Expand(m, x, d, from, s) = Expand(l, x, d, from, s)
                        /\ Within(s, R[d]) => Within(Expand(l, x, d, from, s), R[d])
      BY DEF SameFrom
    <2> DEFINE n == from.node
    <2>1. n \in Agent /\ n \in Circle(l, Owner)
      <3>1. d - 1 \in 0..MaxDepth
        BY <1>1
      <3> QED BY <1>2, <3>1 DEF Rings, Node
    <2>2. ASSUME NEW p \in Agent, Direct(l, n, p) > 0
          PROVE  p \in R[d] /\ p \in Circle(l, Owner)
      <3> HIDE DEF n
      <3>1. n # p
        BY <2>1, <2>2, DirectBound
      <3>2. p \in Trusts(l, n)
        BY <2>2, <3>1 DEF Trusts
      <3>3. p \in R[d]
        BY <1>2, <3>2 DEF Rings, n
      <3>4. d \in 0..MaxDepth
        BY <1>1
      <3> QED BY <1>2, <3>3, <3>4 DEF Rings
    <2>3. SameVisits(l, m, x, d, from)
      <3> SUFFICES ASSUME NEW t \in Search, NEW p \in Agent
                   PROVE  Visit(m, x, d, from, t, p) = Visit(l, x, d, from, t, p)
        BY DEF SameVisits
      <3>1. Direct(m, n, p) = Direct(l, n, p)
        BY <1>3, <2>1
      <3>2. New(l, x, from, t, p) => Goods(m, p, x) = Goods(l, p, x)
        BY <1>3, <2>2 DEF New
      <3> QED BY <3>1, <3>2, SameVisit
    <2>4. NoNews(l, m, x, d, from, Expand(l, x, d, from, s))
      <3> DEFINE e == Expand(l, x, d, from, s)
      <3>1. e \in Search
        BY ExpandType
      <3>2. ASSUME NEW p \in {c.a, c.b} PROVE Visit(l, x, d, from, e, p) = e
        <4>1. p \in Agent /\ p \notin Circle(l, Owner)
          BY <1>1
        <4>2. ~New(l, x, from, e, p)
          BY <2>2, <4>1 DEF New
        <4> HIDE DEF e
        <4> QED BY <3>1, <4>1, <4>2, VisitCases
      <3> HIDE DEF e
      <3>3. NoNews(l, m, x, d, from, e)
        BY <3>2 DEF NoNews, Moved
      <3> QED BY <3>3 DEF e
    <2>5. Expand(m, x, d, from, s) = Expand(l, x, d, from, s)
      BY <1>1, <2>3, <2>4, SameExpand
    <2>6. Within(s, R[d]) => Within(Expand(l, x, d, from, s), R[d])
      BY <2>2, WithinExpand
    <2> QED BY <2>5, <2>6
  <1>6. Testimony(m, Owner, x) = Testimony(l, Owner, x)
    <2>1. Owner \in R[0]
      BY <1>2 DEF Rings
    <2> QED BY <1>1, <1>5, <2>1, SameTestimony
  <1>7. Direct(m, Owner, x) = Direct(l, Owner, x)
    BY <1>1, <1>3, <1>4
  <1> QED BY <1>6, <1>7 DEF Net

\* The search never passes x, so the only edge that changed is not on its way; the
\* other party is met before the new cooperation names it, if at all.
LEMMA NegativeStaysLocal ==
  ASSUME NEW l \in Ledger, NEW m \in Ledger, NEW c, Moved(l, m, c), ~Good(c),
         Owner \notin {c.a, c.b}, NEW x \in {c.a, c.b}
  PROVE  Net(m, Owner, x) = Net(l, Owner, x)
  <1>1. /\ Owner \in Agent /\ MaxDepth \in Nat /\ c.a \in Agent /\ c.b \in Agent
        /\ Longer(l, m) /\ x \in Agent /\ Owner # x
    BY GraphAssumption DEF Moved
  <1> DEFINE R == [d \in 0..MaxDepth |-> Agent \ {x}]
  <1>2. ASSUME NEW n \in Agent \ {x}, NEW p \in Agent \ {x}
        PROVE  Direct(m, n, p) = Direct(l, n, p)
    <2>1. {n, p} # {c.a, c.b}
      OBVIOUS
    <2> QED BY <2>1 DEF Moved
  <1>3. ASSUME NEW d \in 1..MaxDepth PROVE SameFrom(l, m, x, d, R[d - 1], R[d])
    <2>0. R[d - 1] = Agent \ {x} /\ R[d] = Agent \ {x}
      BY <1>1
    <2> SUFFICES ASSUME NEW from \in Node, NEW s \in Search, from.node \in Agent \ {x}
                 PROVE  /\ Expand(m, x, d, from, s) = Expand(l, x, d, from, s)
                        /\ Within(s, R[d]) => Within(Expand(l, x, d, from, s), R[d])
      BY <2>0 DEF SameFrom
    <2> DEFINE n == from.node
    <2>1. SameVisits(l, m, x, d, from)
      <3> SUFFICES ASSUME NEW t \in Search, NEW p \in Agent
                   PROVE  Visit(m, x, d, from, t, p) = Visit(l, x, d, from, t, p)
        BY DEF SameVisits
      <3>1. CASE p = x
        BY <1>1, <3>1, VisitMeets
      <3>2. CASE p # x
        <4>1. Direct(m, n, p) = Direct(l, n, p)
          BY <1>2, <3>2
        <4>2. Goods(m, p, x) = Goods(l, p, x)
          BY <1>1 DEF Moved
        <4> QED BY <1>1, <4>1, <4>2, SameVisit
      <3> QED BY <3>1, <3>2
    <2>2. NoNews(l, m, x, d, from, Expand(l, x, d, from, s))
      <3> DEFINE e == Expand(l, x, d, from, s)
      <3>1. e \in Search
        BY <1>1, ExpandType
      <3>2. ASSUME NEW p \in {c.a, c.b} PROVE Visit(l, x, d, from, e, p) = e
        <4>1. p \in Agent
          BY <1>1
        <4>2. Direct(l, n, p) > 0 => p \in e.visited \cup {x}
          BY <1>1, <4>1, ExpandMeets
        <4> HIDE DEF e
        <4>3. ~New(l, x, from, e, p)
          BY <4>2 DEF New
        <4> QED BY <1>1, <3>1, <4>1, <4>3, VisitCases
      <3> HIDE DEF e
      <3>3. NoNews(l, m, x, d, from, e)
        BY <3>2 DEF NoNews, Moved
      <3> QED BY <3>3 DEF e
    <2>3. Expand(m, x, d, from, s) = Expand(l, x, d, from, s)
      BY <1>1, <2>1, <2>2, SameExpand
    <2>4. Within(s, R[d]) => Within(Expand(l, x, d, from, s), R[d])
      BY <1>1, <2>0, WithinExpand
    <2> QED BY <2>3, <2>4
  <1>4. Testimony(m, Owner, x) = Testimony(l, Owner, x)
    <2>1. Owner \in R[0]
      BY <1>1
    <2> HIDE DEF R
    <2> QED BY <1>1, <1>3, <2>1, SameTestimony
  <1>5. Direct(m, Owner, x) = Direct(l, Owner, x)
    <2>1. {Owner, x} # {c.a, c.b}
      OBVIOUS
    <2> QED BY <1>1, <2>1 DEF Moved
  <1> QED BY <1>4, <1>5 DEF Net

----------------------------------------------------------------------------
\* An edge of trust is worth something between nothing and Unit.
LEMMA EdgeType ==
  ASSUME NEW l \in Ledger, NEW n \in Agent, NEW p \in Trusts(l, n)
  PROVE  /\ p \in Agent /\ Curve[Direct(l, n, p)] \in Nat /\ Curve[Direct(l, n, p)] <= Unit
  <1> DEFINE k == Direct(l, n, p)
  <1>1. p \in Agent /\ k \in Int /\ k > 0 /\ k <= WGood * MaxRecords
    BY DirectBound DEF Trusts
  <1>2. WGood * MaxRecords \in Int
    BY WeightAssumption, GraphAssumption
  <1> HIDE DEF k
  <1>3. k \in 1..(WGood * MaxRecords)
    BY <1>1, <1>2
  <1>4. Curve[k] \in Nat /\ Curve[k] <= Unit
    BY <1>3, GraphAssumption
  <1> QED BY <1>1, <1>4 DEF k

\* One step further along every way of v.
Onward(l, x, v) ==
  UNION {{<<p, w[2] * Curve[Direct(l, w[1], p)]>> : p \in Trusts(l, w[1]) \ {x}} : w \in v}

LEMMA OnwardType ==
  ASSUME NEW l \in Ledger, NEW x, NEW v \in SUBSET (Agent \X Nat)
  PROVE  /\ Onward(l, x, v) \in SUBSET (Agent \X Nat)
         /\ \A B \in Nat : (\A w \in v : w[2] <= B) => \A w \in Onward(l, x, v) : w[2] <= B * Unit
  <1>1. ASSUME NEW w \in v, NEW p \in Trusts(l, w[1]) \ {x}
        PROVE  /\ w[1] \in Agent /\ w[2] \in Nat /\ p \in Agent
               /\ Curve[Direct(l, w[1], p)] \in Nat /\ Curve[Direct(l, w[1], p)] <= Unit
               /\ w[2] * Curve[Direct(l, w[1], p)] \in Nat
    <2> DEFINE n == w[1]
    <2>1. n \in Agent /\ w[2] \in Nat /\ p \in Trusts(l, n)
      OBVIOUS
    <2> HIDE DEF n
    <2>2. p \in Agent /\ Curve[Direct(l, n, p)] \in Nat /\ Curve[Direct(l, n, p)] <= Unit
      BY <2>1, EdgeType
    <2> DEFINE c == Curve[Direct(l, n, p)]
               b == w[2]
    <2>3. b \in Nat /\ c \in Nat
      BY <2>1, <2>2
    <2> HIDE DEF b, c
    <2>4. b * c \in Nat
      BY <2>3
    <2> QED BY <2>1, <2>2, <2>4 DEF n, b, c
  <1>2. Onward(l, x, v) \in SUBSET (Agent \X Nat)
    BY <1>1 DEF Onward
  <1>3. ASSUME NEW B \in Nat, \A w \in v : w[2] <= B, NEW y \in Onward(l, x, v)
        PROVE  y[2] <= B * Unit
    <2>1. PICK w \in v : \E p \in Trusts(l, w[1]) \ {x} : y = <<p, w[2] * Curve[Direct(l, w[1], p)]>>
      BY DEF Onward
    <2>2. PICK p \in Trusts(l, w[1]) \ {x} : y = <<p, w[2] * Curve[Direct(l, w[1], p)]>>
      BY <2>1
    <2> DEFINE c == Curve[Direct(l, w[1], p)]
               b == w[2]
    <2>3. b \in Nat /\ c \in Nat /\ b <= B /\ c <= Unit /\ Unit \in Nat /\ y[2] = b * c
      BY <1>1, <1>3, <2>2, GraphAssumption
    <2> HIDE DEF b, c
    <2>4. b * c <= b * Unit
      BY <2>3, TimesMonotone
    <2>5. b * Unit <= B * Unit
      <3>1. Unit * b <= Unit * B
        BY <2>3, TimesMonotone
      <3> QED BY <2>3, <3>1
    <2>6. b * c \in Int /\ b * Unit \in Int /\ B * Unit \in Int
      BY <2>3
    <2> QED BY <2>3, <2>4, <2>5, <2>6
  <1> QED BY <1>2, <1>3

\* The ways of trust, step by step.
WaysOf(l, x, W) ==
  /\ W \in [0..MaxDepth -> SUBSET (Agent \X Nat)]
  /\ W[0] = {<<Owner, 1>>}
  /\ \A d \in 1..MaxDepth : W[d] = Onward(l, x, W[d - 1])

\* Ways() grows from the observer one step at a time.
LEMMA WaysSteps ==
  ASSUME NEW l \in Ledger, NEW x
  PROVE  WaysOf(l, x, Ways(l, x))
  <1> DEFINE base == {<<Owner, 1>>}
             D == SUBSET (Agent \X Nat)
             G == [d \in 1..MaxDepth |-> [v \in D |-> Onward(l, x, v)]]
             E(f) == f = [d \in 0..MaxDepth |-> IF d = 0 THEN base ELSE Onward(l, x, f[d - 1])]
  <1>1. Ways(l, x) = CHOOSE f : E(f)
    BY DEF Ways, Onward
  <1>2. base \in D /\ \A v \in D : Onward(l, x, v) \in D
    BY OnwardType, GraphAssumption
  <1> HIDE DEF base, D
  <1>3. Steppable(MaxDepth, D, base, G)
    BY <1>2, GraphAssumption DEF Steppable
  <1>4. PICK g \in [0..MaxDepth -> D] : Recursive(MaxDepth, base, G, g)
    <2> HIDE DEF G
    <2> QED BY <1>3, Recursion
  <1>5. MaxDepth \in Nat /\ 0 \in 0..MaxDepth
        /\ \A d \in 1..MaxDepth : d \in 0..MaxDepth /\ d - 1 \in 0..MaxDepth /\ d # 0
    BY GraphAssumption
  <1>6. E(g)
    <2>1. ASSUME NEW d \in 0..MaxDepth
          PROVE  g[d] = IF d = 0 THEN base ELSE Onward(l, x, g[d - 1])
      <3>1. d # 0 => d \in 1..MaxDepth /\ d - 1 \in 0..MaxDepth
        BY <1>5
      <3> QED BY <1>4, <3>1 DEF Recursive
    <2> QED BY <2>1
  <1> DEFINE W == CHOOSE f : E(f)
  <1>7. E(W)
    BY <1>6
  <1> HIDE DEF W, G
  <1>8. \A d \in 0..MaxDepth : W[d] = IF d = 0 THEN base ELSE Onward(l, x, W[d - 1])
    BY <1>7
  <1>9. W = [d \in 0..MaxDepth |-> W[d]]
    BY <1>7
  <1> HIDE DEF E
  <1>10. W[0] = base /\ \A d \in 1..MaxDepth : W[d] = Onward(l, x, W[d - 1])
    BY <1>5, <1>8
  <1> DEFINE P == {d \in 0..MaxDepth : W[d] \in D}
  <1>11. 0 \in P
    BY <1>2, <1>5, <1>10
  <1>12. ASSUME NEW d \in 1..MaxDepth, d - 1 \in P PROVE d \in P
    BY <1>2, <1>5, <1>10, <1>12
  <1> HIDE DEF P
  <1>13. \A d \in 0..MaxDepth : d \in P
    BY <1>5, <1>11, <1>12, Along
  <1>14. W \in [0..MaxDepth -> D]
    BY <1>9, <1>13 DEF P
  <1>15. WaysOf(l, x, W)
    BY <1>10, <1>14 DEF WaysOf, base, D
  <1> QED BY <1>1, <1>15 DEF W

\* What any way is worth has a bound.
LEMMA WaysBound ==
  ASSUME NEW l \in Ledger, NEW x, NEW W, WaysOf(l, x, W)
  PROVE  \E C \in Nat : \A d \in 0..MaxDepth : \A w \in W[d] : Gate(w[2], d) \in 0..C
  <1>1. MaxDepth \in Nat /\ Unit \in Nat /\ 0 \in 0..MaxDepth
        /\ \A d \in 1..MaxDepth : d \in 0..MaxDepth /\ d - 1 \in 0..MaxDepth
    BY GraphAssumption
  <1>2. ASSUME NEW d \in 0..MaxDepth
        PROVE  W[d] \in SUBSET (Agent \X Nat) /\ \A w \in W[d] : w[2] \in Nat /\ Gate(w[2], d) \in Nat
    <2>1. W[d] \in SUBSET (Agent \X Nat)
      BY DEF WaysOf
    <2>2. \A w \in W[d] : w[2] \in Nat
      BY <2>1
    <2> QED BY <2>1, <2>2, GateType
  <1> DEFINE P == {d \in 0..MaxDepth : \E B \in Nat : \A w \in W[d] : w[2] <= B}
  <1>3. 0 \in P
    BY <1>1 DEF WaysOf
  <1>4. ASSUME NEW d \in 1..MaxDepth, d - 1 \in P PROVE d \in P
    <2>1. PICK B \in Nat : \A w \in W[d - 1] : w[2] <= B
      BY <1>4
    <2>2. W[d] = Onward(l, x, W[d - 1]) /\ W[d - 1] \in SUBSET (Agent \X Nat)
      BY <1>1, <1>2 DEF WaysOf
    <2>3. \A w \in W[d] : w[2] <= B * Unit
      BY <2>1, <2>2, OnwardType
    <2>4. B * Unit \in Nat
      BY <1>1
    <2> QED BY <1>1, <2>3, <2>4
  <1> HIDE DEF P
  <1>5. \A d \in 0..MaxDepth : d \in P
    BY <1>1, <1>3, <1>4, Along
  <1>6. ASSUME NEW d \in 0..MaxDepth
        PROVE  \E C \in Nat : \A w \in W[d] : Gate(w[2], d) <= C
    <2>1. PICK B \in Nat : \A w \in W[d] : w[2] <= B
      BY <1>5 DEF P
    <2> DEFINE g == Scale[MaxDepth - d]
    <2>2. g \in Nat
      BY <1>1, ScaleType
    <2> HIDE DEF g
    <2>3. ASSUME NEW w \in W[d] PROVE w[2] * g <= B * g
      <3> DEFINE b == w[2]
      <3>1. b \in Nat /\ b <= B
        BY <1>2, <2>1
      <3> HIDE DEF b
      <3>2. g * b <= g * B
        BY <2>2, <3>1, TimesMonotone
      <3>3. b * g <= B * g
        BY <2>2, <3>1, <3>2
      <3> QED BY <3>3 DEF b
    <2>4. B * g \in Nat
      BY <2>2
    <2> QED BY <2>3, <2>4 DEF Gate, g
  <1> DEFINE Q == {d \in 0..MaxDepth : \E C \in Nat : \A e \in 0..d : \A w \in W[e] : Gate(w[2], e) <= C}
  <1>7. 0 \in Q
    <2>1. PICK C \in Nat : \A w \in W[0] : Gate(w[2], 0) <= C
      BY <1>1, <1>6
    <2>2. \A e \in 0..0 : e = 0
      OBVIOUS
    <2> QED BY <1>1, <2>1, <2>2
  <1>8. ASSUME NEW d \in 1..MaxDepth, d - 1 \in Q PROVE d \in Q
    <2>1. PICK C \in Nat : \A e \in 0..(d - 1) : \A w \in W[e] : Gate(w[2], e) <= C
      BY <1>8
    <2>2. PICK B \in Nat : \A w \in W[d] : Gate(w[2], d) <= B
      BY <1>1, <1>6
    <2>3. C + B \in Nat /\ \A e \in 0..d : e \in 0..MaxDepth /\ (e \in 0..(d - 1) \/ e = d)
      BY <1>1
    <2>4. ASSUME NEW e \in 0..d, NEW w \in W[e] PROVE Gate(w[2], e) <= C + B
      <3> DEFINE g == Gate(w[2], e)
      <3>1. g \in Nat /\ (g <= C \/ g <= B)
        BY <1>2, <2>1, <2>2, <2>3
      <3> HIDE DEF g
      <3>2. g <= C + B
        BY <3>1
      <3> QED BY <3>2 DEF g
    <2> QED BY <1>1, <2>3, <2>4
  <1> HIDE DEF Q
  <1>9. \A d \in 0..MaxDepth : d \in Q
    BY <1>1, <1>7, <1>8, Along
  <1>10. PICK C \in Nat : \A e \in 0..MaxDepth : \A w \in W[e] : Gate(w[2], e) <= C
    <2>1. MaxDepth \in 0..MaxDepth
      BY <1>1
    <2>2. MaxDepth \in Q
      BY <1>9, <2>1
    <2> QED BY <2>2 DEF Q
  <1> QED BY <1>2, <1>10

\* Where ways of at most d steps lead.
Reached(W, d) == {p \in Agent : \E e \in 0..d : \E w \in W[e] : w[1] = p}

\* Who is reached first in d steps is trusted by someone first reached in d - 1.
LEMMA ReachedSteps ==
  ASSUME NEW l \in Ledger, NEW x, NEW W, WaysOf(l, x, W), NEW d \in 1..MaxDepth
  PROVE  /\ Reached(W, d - 1) \subseteq Reached(W, d)
         /\ \A w \in W[d - 1] : \A p \in Trusts(l, w[1]) \ {x} :
              /\ <<p, w[2] * Curve[Direct(l, w[1], p)]>> \in W[d]
              /\ p \in Reached(W, d)
         /\ \A p \in Reached(W, d) : p \notin Reached(W, d - 1) =>
              \E q \in Reached(W, d - 1) : p \in Trusts(l, q) \ {x} /\ q \notin Reached(W, d - 2)
  <1>1. MaxDepth \in Nat /\ d \in 0..MaxDepth /\ d - 1 \in 0..MaxDepth /\ d \in 0..d
        /\ \A e \in 0..(d - 1) : e \in 0..d
    BY GraphAssumption
  <1>2. W[d] = Onward(l, x, W[d - 1])
    BY DEF WaysOf
  <1>3. Reached(W, d - 1) \subseteq Reached(W, d)
    BY <1>1 DEF Reached
  <1>4. ASSUME NEW e \in 1..d, NEW w \in W[e - 1], NEW p \in Trusts(l, w[1]) \ {x}
        PROVE  <<p, w[2] * Curve[Direct(l, w[1], p)]>> \in W[e] /\ p \in Reached(W, e)
    <2>1. W[e] = Onward(l, x, W[e - 1]) /\ e \in 0..e
      BY <1>1 DEF WaysOf
    <2>2. <<p, w[2] * Curve[Direct(l, w[1], p)]>> \in W[e]
      BY <2>1 DEF Onward
    <2>3. p \in Agent
      BY DEF Trusts
    <2> DEFINE v == <<p, w[2] * Curve[Direct(l, w[1], p)]>>
    <2>4. v \in W[e] /\ v[1] = p
      BY <2>2
    <2> HIDE DEF v
    <2>5. p \in Reached(W, e)
      BY <2>1, <2>3, <2>4 DEF Reached
    <2> QED BY <2>2, <2>5
  <1>5. ASSUME NEW p \in Reached(W, d), p \notin Reached(W, d - 1)
        PROVE  \E q \in Reached(W, d - 1) : p \in Trusts(l, q) \ {x} /\ q \notin Reached(W, d - 2)
    <2>1. PICK e \in 0..d : \E w \in W[e] : w[1] = p
      BY DEF Reached
    <2>2. p \in Agent /\ e \notin 0..(d - 1)
      BY <1>5, <2>1 DEF Reached
    <2>3. e = d
      BY <1>1, <2>2
    <2>4. PICK v \in W[d] : v[1] = p
      BY <2>1, <2>3
    <2>5. PICK w \in W[d - 1] : \E r \in Trusts(l, w[1]) \ {x} :
            v = <<r, w[2] * Curve[Direct(l, w[1], r)]>>
      BY <1>2, <2>4 DEF Onward
    <2>6. p \in Trusts(l, w[1]) \ {x}
      BY <2>4, <2>5
    <2> DEFINE q == w[1]
    <2>7. q \in Reached(W, d - 1)
      <3>1. w \in Agent \X Nat /\ d - 1 \in 0..(d - 1)
        BY <1>1 DEF WaysOf
      <3> QED BY <3>1 DEF Reached
    <2>8. ASSUME q \in Reached(W, d - 2) PROVE FALSE
      <3> HIDE DEF q
      <3>1. PICK f \in 0..(d - 2) : \E u \in W[f] : u[1] = q
        BY <2>8 DEF Reached
      <3>2. PICK u \in W[f] : u[1] = q
        BY <3>1
      <3>3. f + 1 \in 1..d /\ (f + 1) - 1 = f /\ f + 1 \in 0..(d - 1)
            /\ \A e1 \in 0..(f + 1) : e1 \in 0..(d - 1)
        BY <1>1
      <3>4. p \in Reached(W, f + 1)
        BY <1>4, <2>6, <3>2, <3>3 DEF q
      <3>5. p \in Reached(W, d - 1)
        BY <3>3, <3>4 DEF Reached
      <3> QED BY <1>5, <3>5
    <2> QED BY <2>6, <2>7, <2>8
  <1>6. d \in 1..d
    BY <1>1
  <1> QED BY <1>3, <1>4, <1>5, <1>6

\* A way found at the depth where its end is first reached is one of the shortest.
LEMMA RoutesParts ==
  ASSUME NEW l \in Ledger, NEW x, NEW W, WaysOf(l, x, W), NEW p \in Agent
  PROVE  /\ \A d \in 1..MaxDepth : \A w \in W[d] :
              w[1] = p /\ p \notin Reached(W, d - 1) => Gate(w[2], d) \in Routes(W, p)
         /\ Routes(W, p) # {} => p \in Reached(W, MaxDepth)
         /\ \A r \in Routes(W, p) : r \in Nat /\ Min(Routes(W, p)) <= r /\ r <= Max(Routes(W, p))
         /\ Routes(W, p) # {} => Min(Routes(W, p)) \in Nat /\ Max(Routes(W, p)) \in Nat
  <1> DEFINE to(d) == {w \in W[d] : w[1] = p}
             shortest == {d \in 1..MaxDepth : \A e \in 0..(d - 1) : to(e) = {}}
  <1>0. MaxDepth \in Nat /\ \A d \in 1..MaxDepth : d \in 0..MaxDepth
    BY GraphAssumption
  <1>1. Routes(W, p) = UNION {{Gate(w[2], d) : w \in to(d)} : d \in shortest}
    BY DEF Routes
  <1>2. ASSUME NEW d \in 1..MaxDepth, NEW w \in W[d], w[1] = p, p \notin Reached(W, d - 1)
        PROVE  Gate(w[2], d) \in Routes(W, p)
    <2>1. \A e \in 0..(d - 1) : to(e) = {}
      BY <1>2 DEF Reached
    <2>2. d \in shortest /\ w \in to(d)
      BY <1>2, <2>1
    <2> HIDE DEF to, shortest
    <2> QED BY <1>1, <2>2
  <1>3. PICK C \in Nat : \A d \in 0..MaxDepth : \A w \in W[d] : Gate(w[2], d) \in 0..C
    BY WaysBound
  <1>4. ASSUME NEW r \in Routes(W, p) PROVE p \in Reached(W, MaxDepth) /\ r \in 0..C
    <2>1. PICK d \in 1..MaxDepth : \E w \in W[d] : w[1] = p /\ r = Gate(w[2], d)
      BY <1>1
    <2> QED BY <1>0, <1>3, <2>1 DEF Reached
  <1> DEFINE R == Routes(W, p)
  <1>5. R \subseteq 0..C /\ R \subseteq Nat
    BY <1>4
  <1>6. R # {} => p \in Reached(W, MaxDepth)
    BY <1>4
  <1> HIDE DEF R
  <1>7. ASSUME R # {}
        PROVE  /\ Min(R) \in R /\ \A r \in R : Min(R) <= r
               /\ Max(R) \in R /\ \A r \in R : r <= Max(R)
    BY <1>5, <1>7, Least, Largest
  <1>8. /\ \A r \in R : r \in Nat /\ Min(R) <= r /\ r <= Max(R)
        /\ R # {} => Min(R) \in Nat /\ Max(R) \in Nat
    BY <1>5, <1>7
  <1> QED BY <1>2, <1>6, <1>8 DEF R

\* What the search has counted, when each witness was met over the route given.
Told(l, x, v, route) == [p \in v |-> WGood * Goods(l, p, x) * route[p]]

Counted(l, x, W, s, route) ==
  /\ route \in [s.visited \ {Owner} -> Nat]
  /\ \A p \in s.visited \ {Owner} : p # x /\ route[p] \in Routes(W, p)
  /\ s.heard = SumFunction(Told(l, x, s.visited \ {Owner}, route))

\* The search while it goes through the level of depth d.
Sound(l, x, W, d) ==
  {s \in Search :
     /\ Owner \in s.visited
     /\ Reached(W, d - 1) \subseteq s.visited /\ s.visited \subseteq Reached(W, d)
     /\ \A i \in DOMAIN s.next : <<s.next[i].node, s.next[i].path>> \in W[d]
     /\ \A p \in s.visited \ Reached(W, d - 1) : \E i \in DOMAIN s.next : s.next[i].node = p
     /\ \E route : Counted(l, x, W, s, route)}

LEMMA ToldType ==
  ASSUME NEW l \in Ledger, NEW x, NEW v \in SUBSET Agent, NEW route \in [v -> Nat]
  PROVE  /\ Told(l, x, v, route) \in [v -> Int] /\ IsFiniteSet(v)
         /\ \A p \in v : Told(l, x, v, route)[p] = WGood * Goods(l, p, x) * route[p]
  <1>1. ASSUME NEW p \in v PROVE WGood * Goods(l, p, x) * route[p] \in Int
    <2> DEFINE g == Goods(l, p, x)
               r == route[p]
    <2>1. g \in Nat /\ r \in Nat /\ WGood \in Nat
      BY GoodsType, WeightAssumption
    <2> HIDE DEF g, r
    <2>2. WGood * g * r \in Int
      BY <2>1
    <2> QED BY <2>2 DEF g, r
  <1>2. IsFiniteSet(v)
    BY GraphAssumption, FS_Subset
  <1> QED BY <1>1, <1>2 DEF Told

\* One more witness adds what it tells.
LEMMA ToldOne ==
  ASSUME NEW l \in Ledger, NEW x, NEW u \in SUBSET Agent, NEW peer \in u,
         NEW v, v = u \ {peer}, NEW route \in [v -> Nat], NEW other \in [u -> Nat],
         \A p \in v : other[p] = route[p]
  PROVE  SumFunction(Told(l, x, u, other))
           = SumFunction(Told(l, x, v, route)) + WGood * Goods(l, peer, x) * other[peer]
  <1> DEFINE f == Told(l, x, u, other)
             g == Told(l, x, v, route)
             more == WGood * Goods(l, peer, x) * other[peer]
  <1>1. f \in [u -> Int] /\ IsFiniteSet(u)
    BY ToldType
  <1>2. g \in [v -> Int] /\ IsFiniteSet(v)
    BY ToldType
  <1>3. f[peer] = more
    BY DEF Told
  <1>4. g = [p \in u \ {peer} |-> f[p]]
    BY DEF Told
  <1> HIDE DEF f, g, more
  <1>5. SumFunction(f) = f[peer] + SumFunction(g)
    BY <1>1, <1>4, SumTake
  <1>6. SumFunction(g) \in Int /\ more \in Int
    BY <1>1, <1>2, <1>3, SumSplit
  <1>7. SumFunction(f) = SumFunction(g) + more
    BY <1>3, <1>5, <1>6
  <1> QED BY <1>7 DEF f, g, more

LEMMA CountOne ==
  ASSUME NEW l \in Ledger, NEW x \in Agent, NEW W, NEW s \in Search, NEW route,
         Counted(l, x, W, s, route), NEW peer \in Agent, peer \notin s.visited, peer # x,
         peer # Owner, NEW gate \in Nat, gate \in Routes(W, peer), NEW e \in Search,
         e.visited = s.visited \cup {peer}, e.heard = s.heard + WGood * Goods(l, peer, x) * gate
  PROVE  \E other : Counted(l, x, W, e, other)
  <1> DEFINE v == s.visited \ {Owner}
             u == e.visited \ {Owner}
             other == [p \in u |-> IF p = peer THEN gate ELSE route[p]]
  <1>1. /\ route \in [v -> Nat] /\ u \in SUBSET Agent
        /\ peer \in u /\ v = u \ {peer}
    BY DEF Counted, Search
  <1>2. other \in [u -> Nat] /\ other[peer] = gate /\ \A p \in v : other[p] = route[p]
    BY <1>1
  <1>3. \A p \in u : p # x /\ other[p] \in Routes(W, p)
    BY <1>1, <1>2 DEF Counted
  <1>4. s.heard = SumFunction(Told(l, x, v, route))
    BY DEF Counted
  <1> HIDE DEF v, u, other
  <1>5. SumFunction(Told(l, x, u, other))
          = SumFunction(Told(l, x, v, route)) + WGood * Goods(l, peer, x) * other[peer]
    BY <1>1, <1>2, ToldOne
  <1>6. e.heard = SumFunction(Told(l, x, u, other))
    BY <1>2, <1>4, <1>5
  <1>7. Counted(l, x, W, e, other)
    BY <1>2, <1>3, <1>6 DEF Counted, u
  <1> QED BY <1>7

\* A turn keeps the search sound.
LEMMA VisitSound ==
  ASSUME NEW l \in Ledger, NEW x \in Agent, NEW W, WaysOf(l, x, W), NEW d \in 1..MaxDepth,
         NEW from \in Node, <<from.node, from.path>> \in W[d - 1],
         NEW s \in Sound(l, x, W, d), NEW peer \in Agent
  PROVE  Visit(l, x, d, from, s, peer) \in Sound(l, x, W, d)
  <1>1. s \in Search
    BY DEF Sound
  <1>2. CASE ~New(l, x, from, s, peer)
    BY <1>1, <1>2, VisitCases
  <1>3. CASE New(l, x, from, s, peer)
    <2> DEFINE path == from.path * Curve[Direct(l, from.node, peer)]
               entry == [node |-> peer, path |-> path]
               e == Visit(l, x, d, from, s, peer)
    <2>1. e = Met(l, x, d, from, s, peer) /\ e \in Search /\ path \in Nat
      BY <1>1, <1>3, VisitCases
    <2>2. /\ e.visited = s.visited \cup {peer} /\ e.next = Append(s.next, entry)
          /\ e.heard = s.heard + WGood * Goods(l, peer, x) * Gate(path, d)
      BY <2>1 DEF Met
    <2>3. peer \notin s.visited /\ peer # x /\ Direct(l, from.node, peer) > 0
      BY <1>3 DEF New
    <2>4. peer \in Trusts(l, from.node) \ {x}
      <3> DEFINE n == from.node
      <3>1. n \in Agent /\ Direct(l, n, peer) > 0
        BY <2>3 DEF Node
      <3> HIDE DEF n
      <3>2. n # peer
        BY <3>1, DirectBound
      <3> QED BY <2>3, <3>1, <3>2 DEF Trusts, n
    <2>5. <<peer, path>> \in W[d] /\ peer \in Reached(W, d)
      <3> DEFINE w == <<from.node, from.path>>
      <3>1. w \in W[d - 1] /\ w[1] = from.node /\ w[2] = from.path
        OBVIOUS
      <3> HIDE DEF w
      <3> QED BY <2>4, <3>1, ReachedSteps
    <2>6. peer \notin Reached(W, d - 1) /\ peer # Owner
      BY <2>3 DEF Sound
    <2>7. Gate(path, d) \in Routes(W, peer) /\ Gate(path, d) \in Nat
      <3> HIDE DEF path
      <3> DEFINE w == <<peer, path>>
      <3>1. w \in W[d] /\ w[1] = peer /\ w[2] = path
        BY <2>5
      <3>2. d \in 0..MaxDepth
        BY GraphAssumption
      <3> HIDE DEF w
      <3> QED BY <2>1, <2>6, <3>1, <3>2, RoutesParts, GateType
    <2>8. PICK route : Counted(l, x, W, s, route)
      BY DEF Sound
    <2> HIDE DEF path, e
    <2>9. \E other : Counted(l, x, W, e, other)
      BY <1>1, <2>1, <2>2, <2>3, <2>6, <2>7, <2>8, CountOne
    <2>10. s.next \in Seq(Node) /\ entry.node = peer /\ entry.path = path
      BY <1>1 DEF Search
    <2> HIDE DEF entry
    <2>11. /\ DOMAIN e.next = DOMAIN s.next \cup {Len(s.next) + 1}
           /\ \A i \in DOMAIN s.next : e.next[i] = s.next[i]
           /\ e.next[Len(s.next) + 1] = entry
      BY <2>2, <2>10
    <2>12. \A i \in DOMAIN e.next : <<e.next[i].node, e.next[i].path>> \in W[d]
      BY <2>5, <2>10, <2>11 DEF Sound
    <2>13. \A p \in e.visited \ Reached(W, d - 1) : \E i \in DOMAIN e.next : e.next[i].node = p
      <3> SUFFICES ASSUME NEW p \in e.visited, p \notin Reached(W, d - 1)
                   PROVE  \E i \in DOMAIN e.next : e.next[i].node = p
        OBVIOUS
      <3>1. CASE p = peer
        BY <2>10, <2>11, <3>1
      <3>2. CASE p # peer
        <4>1. PICK i \in DOMAIN s.next : s.next[i].node = p
          BY <2>2, <3>2 DEF Sound
        <4> QED BY <2>11, <4>1
      <3> QED BY <3>1, <3>2
    <2>14. Owner \in e.visited /\ Reached(W, d - 1) \subseteq e.visited
           /\ e.visited \subseteq Reached(W, d)
      BY <2>2, <2>5 DEF Sound
    <2>15. e \in Sound(l, x, W, d)
      BY <2>1, <2>9, <2>12, <2>13, <2>14 DEF Sound
    <2> QED BY <2>15 DEF e
  <1> QED BY <1>2, <1>3

\* A level that starts with those reached so far ends with those one step further.
LEMMA LevelSound ==
  ASSUME NEW l \in Ledger, NEW x \in Agent, NEW W, WaysOf(l, x, W), NEW d \in 1..MaxDepth,
         NEW s \in Sound(l, x, W, d - 1), s.visited = Reached(W, d - 1)
  PROVE  /\ Level(l, x, d, s) \in Sound(l, x, W, d)
         /\ Level(l, x, d, s).visited = Reached(W, d)
  <1>1. s \in Search /\ s.next \in Seq(Node)
    BY DEF Sound, Search
  <1>2. PICK t \in [0..Len(s.next) -> Search] : LevelSteps(l, x, d, s, t)
    BY <1>1, LevelChain
  <1> DEFINE n == Len(s.next)
             Passed(k) == \A j \in 1..k : Trusts(l, s.next[j].node) \ {x} \subseteq t[k].visited
             P == {k \in 0..n : t[k] \in Sound(l, x, W, d) /\ Passed(k)}
  <1>3. /\ n \in Nat /\ DOMAIN s.next = 1..n
        /\ \A k \in 1..n : s.next[k] \in Node /\ <<s.next[k].node, s.next[k].path>> \in W[d - 1]
    BY <1>1 DEF Sound
  <1>4. 0 \in P
    <2> DEFINE b == [s EXCEPT !.next = <<>>]
    <2>1. b.visited = s.visited /\ b.next = <<>> /\ b.heard = s.heard /\ b \in Search
      BY <1>1 DEF Search
    <2>2. t[0] = b
      BY <1>2 DEF LevelSteps
    <2> HIDE DEF b
    <2>3. PICK route : Counted(l, x, W, s, route)
      BY DEF Sound
    <2>4. Counted(l, x, W, b, route)
      BY <2>1, <2>3 DEF Counted
    <2>5. Reached(W, d - 1) \subseteq Reached(W, d) /\ Owner \in s.visited
      BY ReachedSteps DEF Sound
    <2>6. b \in Sound(l, x, W, d)
      BY <2>1, <2>4, <2>5 DEF Sound
    <2> QED BY <1>3, <2>2, <2>6
  <1>5. ASSUME NEW k \in 1..n, k - 1 \in P PROVE k \in P
    <2> DEFINE from == s.next[k]
               q == from.node
    <2>1. /\ k - 1 \in 0..n /\ t[k - 1] \in Sound(l, x, W, d) /\ t[k - 1] \in Search /\ Passed(k - 1)
          /\ k \in 0..n /\ \A j \in 1..k : j \in 1..(k - 1) \/ j = k
      BY <1>3, <1>5
    <2>2. t[k] = Expand(l, x, d, from, t[k - 1])
      BY <1>2 DEF LevelSteps
    <2>3. from \in Node /\ <<from.node, from.path>> \in W[d - 1]
      BY <1>3
    <2> HIDE DEF from
    <2>4. t[k] \in Sound(l, x, W, d)
      <3>1. Sound(l, x, W, d) \in SUBSET Search
        BY DEF Sound
      <3>2. \A e \in Sound(l, x, W, d), peer \in Agent : Visit(l, x, d, from, e, peer) \in Sound(l, x, W, d)
        BY <2>3, VisitSound
      <3> QED BY <2>1, <2>2, <2>3, <3>1, <3>2, ExpandKeeps
    <2>5. /\ t[k - 1].visited \subseteq t[k].visited
          /\ \A p \in Agent : Direct(l, from.node, p) > 0 /\ p # x => p \in t[k].visited
      BY <2>1, <2>2, <2>3, ExpandMeets
    <2>6. Trusts(l, from.node) \ {x} \subseteq t[k].visited
      BY <2>5 DEF Trusts
    <2>7. Passed(k)
      BY <2>1, <2>5, <2>6 DEF from
    <2> QED BY <2>1, <2>4, <2>7
  <1> HIDE DEF P
  <1>6. n \in P
    <2>1. \A k \in 0..n : k \in P
      BY <1>3, <1>4, <1>5, Along
    <2> QED BY <1>3, <2>1
  <1>7. t[n] = Level(l, x, d, s)
    BY <1>2 DEF LevelSteps
  <1>8. t[n] \in Sound(l, x, W, d) /\ Passed(n)
    BY <1>6 DEF P
  <1>9. ASSUME NEW p \in Reached(W, d) PROVE p \in t[n].visited
    <2>1. CASE p \in Reached(W, d - 1)
      BY <1>8, <2>1 DEF Sound
    <2>2. CASE p \notin Reached(W, d - 1)
      <3>1. PICK q \in Reached(W, d - 1) : p \in Trusts(l, q) \ {x} /\ q \notin Reached(W, d - 2)
        BY <2>2, ReachedSteps
      <3>2. (d - 1) - 1 = d - 2
        BY GraphAssumption
      <3>3. \A r \in s.visited \ Reached(W, (d - 1) - 1) : \E i \in DOMAIN s.next : s.next[i].node = r
        BY DEF Sound
      <3>4. PICK i \in DOMAIN s.next : s.next[i].node = q
        BY <3>1, <3>2, <3>3
      <3> QED BY <1>3, <1>8, <3>1, <3>4
    <2> QED BY <2>1, <2>2
  <1>10. t[n].visited = Reached(W, d)
    BY <1>8, <1>9 DEF Sound
  <1> QED BY <1>7, <1>8, <1>10

\* The search ends with everyone within the horizon visited and counted.
LEMMA TestimonySound ==
  ASSUME NEW l \in Ledger, NEW x \in Agent \ {Owner}, NEW W, WaysOf(l, x, W)
  PROVE  \E s \in Sound(l, x, W, MaxDepth) :
           s.visited = Reached(W, MaxDepth) /\ s.heard = Testimony(l, Owner, x)
  <1>1. MaxDepth \in Nat /\ Owner \in Agent /\ x \in Agent
    BY GraphAssumption
  <1>2. PICK t \in [0..MaxDepth -> Search] : TestimonySteps(l, Owner, x, t)
    BY <1>1, TestimonyChain
  <1> DEFINE P == {d \in 0..MaxDepth : t[d] \in Sound(l, x, W, d) /\ t[d].visited = Reached(W, d)}
  <1>3. 0 \in P
    <2> DEFINE b == Start(Owner)
    <2>0. 0 \in 0..MaxDepth
      BY <1>1
    <2>1. t[0] = b /\ b \in Search
      BY <1>2, <2>0 DEF TestimonySteps
    <2>2. /\ b.visited = {Owner} /\ b.heard = 0 /\ DOMAIN b.next = {1}
          /\ b.next[1].node = Owner /\ b.next[1].path = 1
      BY DEF Start
    <2> HIDE DEF b
    <2>3. W[0] = {<<Owner, 1>>}
      BY DEF WaysOf
    <2>4. Reached(W, 0) = {Owner}
      <3>1. \A e : e \in 0..0 <=> e = 0
        OBVIOUS
      <3>2. \A p : (\E w \in W[0] : w[1] = p) <=> p = Owner
        BY <2>3
      <3> QED BY <1>1, <3>1, <3>2 DEF Reached
    <2>5. Reached(W, 0 - 1) = {}
      <3>1. 0..(0 - 1) = {}
        OBVIOUS
      <3> QED BY <3>1 DEF Reached
    <2>6. \E route : Counted(l, x, W, b, route)
      <3> DEFINE v == b.visited \ {Owner}
                 route == [p \in v |-> 0]
      <3>1. v = {} /\ route \in [v -> Nat]
        BY <2>2
      <3> HIDE DEF v, route
      <3>2. SumFunction(Told(l, x, v, route)) = 0
        <4>1. Told(l, x, v, route) \in [v -> Int] /\ IsFiniteSet(v)
          BY <3>1, ToldType
        <4> QED BY <3>1, <4>1, SumSplit
      <3>3. Counted(l, x, W, b, route)
        BY <2>2, <3>1, <3>2 DEF Counted, v
      <3> QED BY <3>3
    <2>7. b \in Sound(l, x, W, 0)
      BY <2>1, <2>2, <2>3, <2>4, <2>5, <2>6 DEF Sound
    <2> QED BY <2>0, <2>1, <2>2, <2>4, <2>7
  <1>4. ASSUME NEW d \in 1..MaxDepth, d - 1 \in P PROVE d \in P
    <2>1. d - 1 \in 0..MaxDepth /\ t[d - 1] \in Sound(l, x, W, d - 1)
          /\ t[d - 1].visited = Reached(W, d - 1)
      BY <1>4
    <2>2. t[d] = Level(l, x, d, t[d - 1])
      BY <1>2 DEF TestimonySteps
    <2>3. d \in 0..MaxDepth
      BY <1>1
    <2> QED BY <1>1, <2>1, <2>2, <2>3, LevelSound
  <1> HIDE DEF P
  <1>5. MaxDepth \in P
    <2>1. \A d \in 0..MaxDepth : d \in P
      BY <1>1, <1>3, <1>4, Along
    <2> QED BY <1>1, <2>1
  <1> QED BY <1>2, <1>5 DEF P, TestimonySteps

\* Summed up over the worst and over the best of the shortest ways.
LEMMA HeardBetween ==
  ASSUME NEW l \in Ledger, NEW x \in Agent \ {Owner}
  PROVE  LET ways == Ways(l, x)
             told(p, route) == WGood * Goods(l, p, x) * route
             witnesses == {p \in Agent \ {Owner, x} : Goods(l, p, x) > 0 /\ Routes(ways, p) # {}}
             heard == Testimony(l, Owner, x)
         IN  /\ heard >= SumFunction([p \in witnesses |-> told(p, Min(Routes(ways, p)))])
             /\ heard <= SumFunction([p \in witnesses |-> told(p, Max(Routes(ways, p)))])
  <1> DEFINE W == Ways(l, x)
             told(p, r) == WGood * Goods(l, p, x) * r
             witnesses == {p \in Agent \ {Owner, x} : Goods(l, p, x) > 0 /\ Routes(W, p) # {}}
             low == [p \in witnesses |-> told(p, Min(Routes(W, p)))]
             high == [p \in witnesses |-> told(p, Max(Routes(W, p)))]
  <1>1. WaysOf(l, x, W)
    BY WaysSteps
  <1> HIDE DEF W
  <1>2. PICK s \in Sound(l, x, W, MaxDepth) :
          s.visited = Reached(W, MaxDepth) /\ s.heard = Testimony(l, Owner, x)
    BY <1>1, TestimonySound
  <1>3. PICK route : Counted(l, x, W, s, route)
    BY DEF Sound
  <1> DEFINE v == s.visited \ {Owner}
             f == Told(l, x, v, route)
  <1>4. /\ v \in SUBSET Agent /\ route \in [v -> Nat]
        /\ \A p \in v : p # x /\ p # Owner /\ p \in Agent /\ route[p] \in Routes(W, p)
        /\ Testimony(l, Owner, x) = SumFunction(f)
    BY <1>2, <1>3 DEF Counted, Sound, Search
  <1>5. witnesses \subseteq v
    BY <1>1, <1>2, RoutesParts
  <1> HIDE DEF v
  <1>6. ASSUME NEW p \in witnesses
        PROVE  /\ low[p] \in Int /\ high[p] \in Int
               /\ low[p] <= f[p] /\ f[p] <= high[p]
    <2> DEFINE k == WGood * Goods(l, p, x)
               a == Min(Routes(W, p))
               b == Max(Routes(W, p))
               r == route[p]
    <2>1. p \in Agent /\ p \in v /\ Routes(W, p) # {} /\ r \in Routes(W, p)
      BY <1>4, <1>5
    <2>2. a \in Nat /\ b \in Nat /\ r \in Nat /\ a <= r /\ r <= b
      BY <1>1, <2>1, RoutesParts
    <2>3. k \in Nat
      <3> DEFINE g == Goods(l, p, x)
      <3>1. g \in Nat /\ WGood \in Nat
        BY GoodsType, WeightAssumption
      <3> HIDE DEF g
      <3>2. WGood * g \in Nat
        BY <3>1
      <3> QED BY <3>2 DEF g
    <2>4. low[p] = k * a /\ high[p] = k * b /\ f[p] = k * r
      BY <2>1 DEF Told
    <2> HIDE DEF k, a, b, r, low, high, f
    <2>5. k * a <= k * r /\ k * r <= k * b
      BY <2>2, <2>3, TimesMonotone
    <2>6. k * a \in Int /\ k * b \in Int
      BY <2>2, <2>3
    <2> QED BY <2>4, <2>5, <2>6
  <1>7. ASSUME NEW p \in v \ witnesses PROVE f[p] = 0
    <2> DEFINE g == Goods(l, p, x)
               r == route[p]
    <2>1. p \in Agent \ {Owner, x} /\ Routes(W, p) # {} /\ r \in Nat
      BY <1>4
    <2>2. g \in Nat /\ ~ (g > 0)
      BY <1>7, <2>1, GoodsType
    <2>3. f[p] = WGood * g * r
      BY DEF Told
    <2> HIDE DEF g, r, f
    <2>4. g = 0
      BY <2>2
    <2>5. WGood * 0 * r = 0
      BY <2>1, WeightAssumption
    <2> QED BY <2>3, <2>4, <2>5
  <1>8. f \in [v -> Int] /\ IsFiniteSet(v)
    BY <1>4, ToldType
  <1>9. DOMAIN low = witnesses /\ DOMAIN high = witnesses
        /\ low = [p \in witnesses |-> low[p]] /\ high = [p \in witnesses |-> high[p]]
    OBVIOUS
  <1> HIDE DEF f, low, high, witnesses
  <1>10. low \in [witnesses -> Int] /\ high \in [witnesses -> Int]
    BY <1>6, <1>9
  <1>11. Padded(v, f, witnesses, low) /\ Padded(v, f, witnesses, high)
    BY <1>5, <1>7, <1>8, <1>10 DEF Padded
  <1>12. Below(witnesses, low, f) /\ Below(witnesses, f, high)
    BY <1>6 DEF Below
  <1>13. SumFunction(low) <= SumFunction(f) /\ SumFunction(f) <= SumFunction(high)
    BY <1>8, <1>11, <1>12, SumCompare
  <1>14. SumFunction(low) \in Int /\ SumFunction(f) \in Int
    <2>1. IsFiniteSet(witnesses)
      BY <1>5, <1>8, FS_Subset
    <2> QED BY <1>8, <1>10, <2>1, SumSplit
  <1>15. SumFunction(f) >= SumFunction(low)
    <2> DEFINE a == SumFunction(low)
               b == SumFunction(f)
    <2>1. a \in Int /\ b \in Int /\ a <= b
      BY <1>13, <1>14
    <2> HIDE DEF a, b
    <2>2. b >= a
      BY <2>1
    <2> QED BY <2>2 DEF a, b
  <1> QED BY <1>4, <1>13, <1>15 DEF low, high, witnesses, W

----------------------------------------------------------------------------
\* A failure, a dispute or a silence between two agents moves no third party's trust
\* in either, through any ledger: the search passes over the one it is asked about
\* and passes on only good outcomes (reputation.py:256-289).
THEOREM NegativesStay == GraphSpec => NegativesStayLocal
  <1> DEFINE Step ==
        LET c == Touched(ledger, ledger')
        IN  ~Good(c) /\ Owner \notin {c.a, c.b} => \A x \in {c.a, c.b} :
              Net(ledger', Owner, x) = Net(ledger, Owner, x)
  <1>1. ledger \in Ledger /\ [GraphNext]_ledger => [Step]_ledger
    BY GraphStep, NegativeStaysLocal
  <1>2. ledger \in Ledger /\ [GraphNext]_ledger => (ledger \in Ledger)'
    BY GraphStep
  <1> QED BY <1>1, <1>2, InitLedger, PTL DEF GraphSpec, NegativesStayLocal

\* What agents beyond the observer's circle of trust sign with each other, and what
\* becomes of it, moves its trust in no one (reputation.py:256-289).
THEOREM CliquesStayUnheard == GraphSpec => CliquesUnheard
  <1> DEFINE Step ==
        LET c == Touched(ledger, ledger')
        IN  {c.a, c.b} \cap Circle(ledger, Owner) = {} => \A x \in Agent \ {Owner} :
              Net(ledger', Owner, x) = Net(ledger, Owner, x)
  <1>1. ledger \in Ledger /\ [GraphNext]_ledger => [Step]_ledger
    BY GraphStep, CliqueUnheard
  <1>2. ledger \in Ledger /\ [GraphNext]_ledger => (ledger \in Ledger)'
    BY GraphStep
  <1> QED BY <1>1, <1>2, InitLedger, PTL DEF GraphSpec, CliquesUnheard

\* Whatever the order of the ledger, testimony is the sum over everyone within the
\* horizon, each heard once and over one of the shortest ways to it.
THEOREM EachHeardOnce == GraphSpec => []HeardOnce
  <1>1. ledger \in Ledger => HeardOnce
    BY HeardBetween DEF HeardOnce
  <1>2. ledger \in Ledger /\ [GraphNext]_ledger => (ledger \in Ledger)'
    BY GraphStep
  <1> QED BY <1>1, <1>2, InitLedger, PTL DEF GraphSpec
=============================================================================
