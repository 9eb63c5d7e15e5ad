----------------------------- MODULE TrustGraph -----------------------------
(***************************************************************************)
(* What an observer makes of a ledger it has gathered: its own experience   *)
(* and the testimony of those it trusts (ReputationLedger.trust() in        *)
(* flp/reputation.py), a breadth-first search over positive direct trust in *)
(* which who comes first depends on the order of the ledger.                *)
(*                                                                         *)
(* All evidence is of one age.  An edge is worth Curve[n] Unit-ths when its *)
(* net evidence is n; evidence behind a path is counted in Full-ths, which  *)
(* keeps products of trusts and powers of the decay whole.                  *)
(***************************************************************************)
EXTENDS Outcomes, Sequences, FiniteSets, FiniteSetsExt, SequencesExt

CONSTANTS
  Agent,
  Owner,      \* owner_id, the observer trust is asked for
  Unit,       \* trust 1.0
  Curve,      \* 1 - exp(-n / TRUST_SCALE), for a net evidence n
  DecayBase,  \* 1 / DECAY
  MaxDepth,   \* MAX_DEPTH
  Pair,       \* bound: who cooperates with whom, as <<party_a, party_b>>
  Outcome,    \* bound: what the two of them sign
  MaxRecords, \* bound: the cooperations that are recorded, those that did not
              \* go well counted twice
  MaxSour     \* bound: those that did not

ASSUME GraphAssumption ==
  /\ Unit \in Nat \ {0} /\ DecayBase \in Nat \ {0, 1} /\ MaxDepth \in Nat \ {0}
  /\ IsFiniteSet(Agent) /\ MaxRecords \in Nat /\ MaxSour \in Nat /\ Owner \in Agent
  /\ Pair \subseteq Agent \X Agent
  /\ Outcome \subseteq Verdict \X (Verdict \cup {Unsigned})
  /\ \A p \in Pair : p[1] # p[2]
  /\ \A n \in 1..(WGood * MaxRecords) : Curve[n] \in 1..Unit

VARIABLE ledger  \* _coops, in the order of record()

----------------------------------------------------------------------------
(* _direct_evidence(), positive less negative.                              *)
Direct(l, o, x) == SumFunction([i \in DOMAIN l |-> Evidence(l[i], l[i].late, o, x)])

Good(c) == State(c, c.late) = "confirmed_good"

\* Mutant of Goods: whoever x did well with.
GoodsOfAnyone(l, p, x) == Cardinality({i \in DOMAIN l : x \in {l[i].a, l[i].b} /\ Good(l[i])})

\* Mutant of Goods: every outcome between the two is passed on.
GoodsAndBads(l, p, x) == Direct(l, p, x)

(* The confirmed-good cooperations between p and x (_good_partners() and    *)
(* the loop over the ledger).                                               *)
Goods(l, p, x) == Cardinality({i \in DOMAIN l : {p, x} = {l[i].a, l[i].b} /\ Good(l[i])})

(* The powers of Unit / DECAY.                                              *)
Scale[n \in 0..MaxDepth] == IF n = 0 THEN 1 ELSE Unit * DecayBase * Scale[n - 1]

Full == Scale[MaxDepth]

(* path_trust * edge_trust * DECAY ** depth, in Full-ths: `path` is the     *)
(* product of as many trusts as the depth says.                             *)
Gate(path, depth) == path * Scale[MaxDepth - depth]

\* Mutant of Visit: one who was heard is heard again.
VisitAgain(l, x, depth, from, s, peer) ==
  IF peer = x \/ Direct(l, from.node, peer) <= 0 THEN s
  ELSE LET path == from.path * Curve[Direct(l, from.node, peer)]
       IN  [visited |-> s.visited \cup {peer},
            next |-> Append(s.next, [node |-> peer, path |-> path]),
            heard |-> s.heard + WGood * Goods(l, peer, x) * Gate(path, depth)]

\* One turn of the innermost loop.  A peer is marked as visited at once: of two
\* ways to it at one depth the first is taken, and the max() never chooses.
Visit(l, x, depth, from, s, peer) ==
  IF peer \in s.visited \cup {x} \/ Direct(l, from.node, peer) <= 0 THEN s
  ELSE LET path == from.path * Curve[Direct(l, from.node, peer)]
       IN  [visited |-> s.visited \cup {peer},
            next |-> Append(s.next, [node |-> peer, path |-> path]),
            heard |-> s.heard + WGood * Goods(l, peer, x) * Gate(path, depth)]

(* The peers of one node (_direct_trust_pairs()), in the order in which the *)
(* ledger names them.  One that it names again has been visited by then.    *)
Expand(l, x, depth, from, s) ==
  FoldLeft(LAMBDA t, c : Visit(l, x, depth, from, Visit(l, x, depth, from, t, c.a), c.b), s, l)

Level(l, x, depth, s) ==
  FoldLeft(LAMBDA t, from : Expand(l, x, depth, from, t), [s EXCEPT !.next = <<>>], s.next)

(* The testimony horizon of trust(), in Full-ths.                           *)
Testimony(l, o, x) ==
  FoldLeft(LAMBDA s, depth : Level(l, x, depth, s),
           [visited |-> {o}, next |-> <<[node |-> o, path |-> 1]>>, heard |-> 0],
           [depth \in 1..MaxDepth |-> depth]).heard

(* trust() is a growing function of this, and 0 where it is not positive.   *)
Net(l, o, x) == Direct(l, o, x) * Full + Testimony(l, o, x)

----------------------------------------------------------------------------
GraphInit == ledger = <<>>

Sour(l) == Cardinality({i \in DOMAIN l : ~Good(l[i])})

Record(pair, out) ==
  /\ ledger' = Append(ledger,
       [a |-> pair[1], b |-> pair[2], late |-> FALSE,
        att |-> [p \in Agent |->
                   CASE p = pair[1] -> out[1] [] p = pair[2] -> out[2] [] OTHER -> Unsigned]])
  /\ Len(ledger') + Sour(ledger') <= MaxRecords /\ Sour(ledger') <= MaxSour

(* The grace of a cooperation one of whose parties has not signed is over.  *)
GraceEnds(i) ==
  /\ ~ledger[i].late /\ ~Closed(ledger[i])
  /\ ledger' = [ledger EXCEPT ![i].late = TRUE]

GraphNext ==
  \/ \E pair \in Pair, out \in Outcome : Record(pair, out)
  \/ \E i \in DOMAIN ledger : GraceEnds(i)

GraphSpec == GraphInit /\ [][GraphNext]_ledger

----------------------------------------------------------------------------
\* The cooperation that a step adds or changes.
Touched(l, m) == IF Len(m) > Len(l) THEN m[Len(m)] ELSE m[CHOOSE i \in DOMAIN m : m[i] # l[i]]

\* Trust that one agent puts in another directly.
Trusts(l, o) == {p \in Agent \ {o} : Direct(l, o, p) > 0}

Circle(l, o) ==
  LET ring[d \in 0..MaxDepth] ==
        IF d = 0 THEN {o} ELSE ring[d - 1] \cup UNION {Trusts(l, p) : p \in ring[d - 1]}
  IN  ring[MaxDepth]

\* Failures, disputes and silence tell a third party nothing about the two it
\* happened between: its trust in either stays what it was (reputation.py:20-23,
\* 283; PROTOCOL.md 4.5.1).
NegativesStayLocal ==
  [][LET c == Touched(ledger, ledger')
     IN  ~Good(c) /\ Owner \notin {c.a, c.b} => \A x \in {c.a, c.b} :
           Net(ledger', Owner, x) = Net(ledger, Owner, x)]_ledger

\* What happens among agents an observer has no short trusted path to moves its
\* trust in no one, however often they praise each other (PROTOCOL.md 4.5).
CliquesUnheard ==
  [][LET c == Touched(ledger, ledger')
     IN  {c.a, c.b} \cap Circle(ledger, Owner) = {} => \A x \in Agent \ {Owner} :
           Net(ledger', Owner, x) = Net(ledger, Owner, x)]_ledger

\* The ways of trust from the observer that avoid x: where those of each length
\* lead, with the product of the trusts along them.
Ways(l, x) ==
  LET ways[d \in 0..MaxDepth] ==
        IF d = 0 THEN {<<Owner, 1>>}
        ELSE UNION {{<<p, w[2] * Curve[Direct(l, w[1], p)]>> : p \in Trusts(l, w[1]) \ {x}} :
                      w \in ways[d - 1]}
  IN  ways

\* What the shortest of these ways to p are worth.
Routes(ways, p) ==
  LET to(d) == {w \in ways[d] : w[1] = p}
      shortest == {d \in 1..MaxDepth : \A e \in 0..(d - 1) : to(e) = {}}
  IN  UNION {{Gate(w[2], d) : w \in to(d)} : d \in shortest}

\* Everyone within the horizon is heard, once, over one of the shortest ways to
\* it, and no one else: testimony lies between what the worst and what the best
\* of these ways give (reputation.py:256-289).
HeardOnce ==
  \A x \in Agent \ {Owner} :
    LET ways == Ways(ledger, x)
        told(p, route) == WGood * Goods(ledger, p, x) * route
        witnesses == {p \in Agent \ {Owner, x} : Goods(ledger, p, x) > 0 /\ Routes(ways, p) # {}}
        heard == Testimony(ledger, Owner, x)
    IN  /\ heard >= SumFunction([p \in witnesses |-> told(p, Min(Routes(ways, p)))])
        /\ heard <= SumFunction([p \in witnesses |-> told(p, Max(Routes(ways, p)))])
=============================================================================
