------------------------------ MODULE Manifest ------------------------------
(***************************************************************************)
(* The commitment of flp/manifest.py: every field of a capability manifest *)
(* is a salted leaf of one Merkle tree, the announcer signs the root, and a *)
(* reveal ships some of the fields with their inclusion proofs.            *)
(*                                                                         *)
(* A hash is the term of what was hashed, so that two hashes are equal only *)
(* if their inputs are.  A salt is drawn for one leaf of one manifest.  A  *)
(* manifest is a record: its issue number, its owner's did, its fields and  *)
(* the levels of its tree.                                                 *)
(***************************************************************************)
EXTENDS Integers, FiniteSets, SequencesExt

CONSTANTS
  PathOrder,   \* every path a manifest may have, in the order of sorted()
  TierOf,      \* for each path, the tier it is disclosed in, or Baseline
  Baseline,    \* the agent's fields, ids and namespaces: always revealed
  TierOrder,   \* the announcer's tiers, the open tier first
  DidPath,     \* "agent.did"
  Bounds,      \* for each cost band its [lo, hi)
  Price        \* the value of a committed cost

ASSUME TierAssumption ==
  /\ TierOrder \in Seq(ToSet(TierOrder)) /\ TierOrder # <<>>
  /\ \A i, j \in DOMAIN TierOrder : TierOrder[i] = TierOrder[j] => i = j
ASSUME PathAssumption ==
  /\ PathOrder \in Seq(ToSet(PathOrder))
  /\ \A i, j \in DOMAIN PathOrder : PathOrder[i] = PathOrder[j] => i = j

OpenTier == TierOrder[1]
Known(tier) == \E i \in DOMAIN TierOrder : TierOrder[i] = tier
Rank(tier) == CHOOSE i \in DOMAIN TierOrder : TierOrder[i] = tier

----------------------------------------------------------------------------
(* The tree *)

\* Mutant of Leaf: a leaf does not say which field it is.
LeafPathless(path, value, salt) == <<"leaf", value, salt>>

Leaf(path, value, salt) == <<"leaf", path, value, salt>>
Node(left, right) == <<"node", left, right>>

\* Nodes are paired; an odd one goes up unpaired.
Above(level) ==
  [i \in 1..((Len(level) + 1) \div 2) |->
     IF 2 * i <= Len(level) THEN Node(level[2 * i - 1], level[2 * i])
     ELSE level[Len(level)]]

\* The levels above the leaves, level 0; the last of them is repeated for ever.
Level(leaves) ==
  LET level[k \in Nat] == IF k = 0 THEN leaves ELSE Above(level[k - 1])
  IN  level

\* The first level that holds the root alone.
Height(leaves) ==
  CHOOSE k \in 0..Len(leaves) :
    /\ Len(Level(leaves)[k]) = 1
    /\ \A j \in 0..(k - 1) : Len(Level(leaves)[j]) > 1

Levels(leaves) == [k \in 1..(Height(leaves) + 1) |-> Level(leaves)[k - 1]]

Sibling(at) == IF at % 2 = 0 THEN at + 1 ELSE at - 1

\* The sibling's hash, and the side it is on, of the node at `at`.
Beside(level, at) ==
  [side |-> IF Sibling(at) < at THEN "L" ELSE "R", hash |-> level[Sibling(at) + 1]]

\* Mutant of Past: the index is not halved where a node has no sibling.
PastSkips(level, was) ==
  IF Sibling(was.at) < Len(level)
  THEN [at |-> was.at \div 2, proof |-> Append(was.proof, Beside(level, was.at))]
  ELSE was

\* Where the way up from a leaf is, and the proof so far, once it is past a level.
Past(level, was) ==
  [at |-> was.at \div 2,
   proof |-> IF Sibling(was.at) < Len(level)
             THEN Append(was.proof, Beside(level, was.at)) ELSE was.proof]

Climb(levels, index) ==
  LET up[k \in Nat] == IF k = 0 THEN [at |-> index, proof |-> <<>>]
                       ELSE Past(levels[k], up[k - 1])
  IN  up

InclusionProof(levels, index) == Climb(levels, index)[Len(levels) - 1].proof

Combine(h, step) ==
  IF step.side = "L" THEN Node(step.hash, h) ELSE Node(h, step.hash)

\* The hashes on the way up from `leaf`.
Hashes(leaf, proof) ==
  LET h[n \in Nat] == IF n = 0 THEN leaf ELSE Combine(h[n - 1], proof[n])
  IN  h

RootFromProof(leaf, proof) == Hashes(leaf, proof)[Len(proof)]

----------------------------------------------------------------------------
(* The announcer: build() and reveal() *)

\* The place of a path among those of the fields, counted from 0: `_index`.
Place == [path \in ToSet(PathOrder) |->
            CHOOSE i \in DOMAIN PathOrder : PathOrder[i] = path]
Index(fields, path) ==
  Cardinality({p \in DOMAIN fields : Place[p] < Place[path]})

Paths(fields) ==
  [i \in 1..Cardinality(DOMAIN fields) |->
     CHOOSE p \in DOMAIN fields : Index(fields, p) = i - 1]
Salt(issue, path) == <<issue, path>>
Leaves(issue, fields) ==
  [i \in 1..Cardinality(DOMAIN fields) |->
     LET p == Paths(fields)[i] IN Leaf(p, fields[p], Salt(issue, p))]

Manifest(issue, owner, fields) ==
  [issue |-> issue, owner |-> owner, fields |-> fields,
   levels |-> Levels(Leaves(issue, fields))]
Root(m) == m.levels[Len(m.levels)][1]

\* Disclosure is cumulative; a field whose tier is not among the announcer's
\* is committed to and never revealed.
Shown(m, tier) ==
  {p \in DOMAIN m.fields :
     \/ TierOf[p] = Baseline
     \/ Known(TierOf[p]) /\ Rank(TierOf[p]) <= Rank(tier)}

Reveal(m, tier) ==
  [revealed |-> [p \in Shown(m, tier) |-> m.fields[p]],
   proofs |-> [p \in Shown(m, tier) |->
                 [salt |-> Salt(m.issue, p),
                  siblings |-> InclusionProof(m.levels, Index(m.fields, p))]],
   root |-> Root(m),
   signature |-> [key |-> m.owner, root |-> Root(m)]]

----------------------------------------------------------------------------
(* The receiver: verify_manifest() and band_mismatch() *)

Verifies(bundle, did) ==
  /\ bundle.signature = [key |-> did, root |-> bundle.root]
  /\ \A p \in DOMAIN bundle.revealed :
       /\ p \in DOMAIN bundle.proofs
       /\ RootFromProof(Leaf(p, bundle.revealed[p], bundle.proofs[p].salt),
                        bundle.proofs[p].siblings) = bundle.root
  /\ DidPath \in DOMAIN bundle.revealed
  /\ bundle.revealed[DidPath] = did

\* Mutant of BandMismatch: a price on the boundary belongs to both bands.
BandMismatchClosed(band, cost) ==
  \/ band \notin DOMAIN Bounds
  \/ ~(Bounds[band].lo <= Price[cost] /\ Price[cost] <= Bounds[band].hi)

BandMismatch(band, cost) ==
  \/ band \notin DOMAIN Bounds
  \/ ~(Bounds[band].lo <= Price[cost] /\ Price[cost] < Bounds[band].hi)
=============================================================================
