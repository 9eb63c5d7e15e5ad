-------------------------- MODULE EncounterProofs --------------------------
(***************************************************************************)
(* Proofs about Encounter, for every cost profile, vocabulary file and     *)
(* semantic matcher: what it takes to be accepted only falls with trust,   *)
(* stakes and doubt; a counter-offer can be met, and nothing is accepted   *)
(* above it; a card that gives more is never asked less; what only the     *)
(* semantic layer matches is taken for less; and a vocabulary file and its *)
(* forks say what their entries list.                                      *)
(***************************************************************************)
EXTENDS Encounter, TLAPS, FiniteSetTheorems, WellFoundedInduction

\* A product grows with either factor, the other one being nonnegative.
LEMMA ProductMonotone ==
  ASSUME NEW a \in Nat, NEW b \in Int, NEW c \in Int, b <= c
  PROVE  a * b <= a * c
<1>1. c - b \in Nat
  OBVIOUS
<1>2. a * (c - b) >= 0
  BY <1>1
<1>3. a * (c - b) = a * c - a * b
  OBVIOUS
<1> QED
  BY <1>2, <1>3

\* Risk is positive and falls with trust; certainty is positive and grows
\* with the match confidence (risk(), evaluate_item()).
LEMMA RiskFalls ==
  ASSUME NEW s \in 0..Unit, NEW t \in 0..Unit, s <= t
  PROVE  /\ Risk(s) \in Int /\ Risk(t) \in Int
         /\ 0 < Risk(t) /\ Risk(t) <= Risk(s)
<1> DEFINE d == RiskMax - RiskMin
<1>1. d \in Nat /\ Unit \in Nat /\ Unit > 0 /\ RiskMin > 0 /\ RiskMin \in Nat /\ RiskMax \in Nat
  BY CostAssumption
<1>2. Risk(s) = RiskMax * Unit - s * d /\ Risk(t) = RiskMax * Unit - t * d
  BY <1>1 DEF Risk, Clip
<1>3. d * s <= d * t /\ d * t <= d * Unit
  BY <1>1, ProductMonotone
<1>4. s * d = d * s /\ t * d = d * t
  BY <1>1
<1>5. RiskMax * Unit - d * Unit = RiskMin * Unit
  BY <1>1
<1>6. RiskMin * Unit > 0
  BY <1>1
<1>7. RiskMax * Unit \in Int /\ d * s \in Int /\ d * t \in Int /\ d * Unit \in Int
  BY <1>1
<1> QED
  BY <1>2, <1>3, <1>4, <1>5, <1>6, <1>7

\* The confidence used is positive, and grows with the one claimed.
LEMMA SureGrows ==
  ASSUME NEW c \in Int, NEW e \in Int, c <= e
  PROVE  /\ Sure(c) \in Nat /\ Sure(e) \in Nat
         /\ 0 < Sure(c) /\ Sure(c) <= Sure(e)
BY CostAssumption DEF Sure, Clip

\* An item that clears still clears with more trust, less at stake or a surer
\* match (cost_model.py:94-105).
LEMMA ClearsMonotone ==
  ASSUME NEW cap \in Capability, NEW s \in 0..Unit, NEW t \in 0..Unit, s <= t,
         NEW i, i.mag \in Nat, i.conf \in Int, NEW j, j.mag \in Nat, j.conf \in Int,
         j.mag <= i.mag, i.conf <= j.conf, Clears(cap, s, i)
  PROVE  Clears(cap, t, j)
<1> DEFINE h == Headroom(cap)
<1>0. h \in Int
  BY CostAssumption DEF Headroom
<1>1. /\ Risk(s) \in Int /\ Risk(t) \in Int
      /\ 0 < Risk(t) /\ Risk(t) <= Risk(s)
  BY RiskFalls
<1>2. /\ Sure(i.conf) \in Nat /\ Sure(j.conf) \in Nat
      /\ 0 < Sure(i.conf) /\ Sure(i.conf) <= Sure(j.conf)
  BY <1>0, SureGrows
<1>3. Risk(s) * i.mag < h * Sure(i.conf)
  BY DEF Clears
<1>4. Risk(t) * j.mag <= Risk(s) * i.mag
  <2>1. Risk(t) * j.mag <= Risk(t) * i.mag
    BY <1>0, <1>1, ProductMonotone
  <2>2. i.mag * Risk(t) <= i.mag * Risk(s)
    BY <1>0, <1>1, ProductMonotone
  <2>3. i.mag * Risk(t) = Risk(t) * i.mag /\ i.mag * Risk(s) = Risk(s) * i.mag
    BY <1>0, <1>1
  <2>4. Risk(t) * j.mag \in Int /\ Risk(t) * i.mag \in Int /\ Risk(s) * i.mag \in Int
    BY <1>0, <1>1
  <2> QED
    BY <2>1, <2>2, <2>3, <2>4
<1>5. h > 0
  <2>1. Risk(s) * i.mag >= 0
    BY <1>0, <1>1
  <2>2. h * Sure(i.conf) > 0
    BY <2>1, <1>0, <1>1, <1>2, <1>3
  <2> QED
    BY <2>2, <1>0, <1>2
<1>6. h * Sure(i.conf) <= h * Sure(j.conf)
  BY <1>0, <1>2, <1>5, ProductMonotone
<1>7. /\ Risk(t) * j.mag \in Int /\ Risk(s) * i.mag \in Int
      /\ h * Sure(i.conf) \in Int /\ h * Sure(j.conf) \in Int
  BY <1>0, <1>1, <1>2
<1>8. Risk(t) * j.mag < h * Sure(j.conf)
  BY <1>3, <1>4, <1>6, <1>7
<1> QED
  BY <1>8 DEF Clears

----------------------------------------------------------------------------
\* The strengthening: the last answer is what the items deserved at the trust
\* of the moment.
Deserved ==
  /\ trust \in 0..Unit
  /\ answer = Unanswered \/
       /\ answer.trust \in 0..Unit
       /\ answer.items \in Offers
       /\ answer.decision = Decision(answer.trust, answer.items)

\* No answer has been given at the start.
LEMMA InitDeserved == Init => Deserved
BY CostAssumption DEF Init, InitAppraisal, Unanswered, Deserved

\* Every step keeps the last answer deserved: only handle_respond() writes it.
LEMMA NextDeserved == Deserved /\ [Next]_vars => Deserved'
<1> SUFFICES ASSUME Deserved, [Next]_vars
             PROVE  Deserved'
  OBVIOUS
<1> USE CostAssumption DEF Deserved
<1>1. ASSUME NEW card \in Card, NEW file \in File, NEW semantic \in Semantic,
             Encountered(card, file, semantic)
      PROVE  Deserved'
  BY <1>1 DEF Encountered
<1>2. ASSUME NEW items \in Offers, Responds(items)
      PROVE  Deserved'
  BY <1>2 DEF Responds, Respond
<1>3. ASSUME NEW net \in Evidence, TrustMoves(net)
      PROVE  Deserved'
  BY <1>3 DEF TrustMoves, Clip
<1>4. CASE UNCHANGED vars
  BY <1>4 DEF vars
<1> QED
  BY <1>1, <1>2, <1>3, <1>4 DEF Next

\* An acceptance is an acceptance of every item on its own.
LEMMA AcceptedClears ==
  ASSUME NEW t, NEW items
  PROVE  Decision(t, items) = "accept" <=>
           DOMAIN items # {} /\ \A cap \in DOMAIN items : Clears(cap, t, items[cap])
BY DEF Decision

\* The decision rule itself: an offer that asks no more than one accepted at
\* no more trust is accepted.
LEMMA LessIsAccepted ==
  ASSUME NEW s \in 0..Unit, NEW t \in 0..Unit, s <= t,
         NEW before \in Offers, NEW after \in Offers, NoMoreThan(after, before),
         Decision(s, before) = "accept"
  PROVE  Decision(t, after) = "accept"
<1>1. \A cap \in DOMAIN before : Clears(cap, s, before[cap])
  BY AcceptedClears
<1>2. DOMAIN after # {} /\ DOMAIN after \subseteq DOMAIN before
  BY DEF NoMoreThan
<1>3. ASSUME NEW cap \in DOMAIN after
      PROVE  Clears(cap, t, after[cap])
  <2>1. cap \in DOMAIN before /\ cap \in Capability
    BY <1>2 DEF Offers
  <2>2. before[cap] \in Item /\ after[cap] \in Item
    BY <2>1 DEF Offers
  <2>3. /\ before[cap].mag \in Nat /\ after[cap].mag \in Nat
        /\ before[cap].conf \in Int /\ after[cap].conf \in Int
        /\ after[cap].mag <= before[cap].mag /\ before[cap].conf <= after[cap].conf
    BY <2>2, CostAssumption DEF NoMoreThan, Item
  <2> QED
    BY <1>1, <2>1, <2>2, <2>3, ClearsMonotone
<1> QED
  BY <1>2, <1>3, AcceptedClears

\* More trust, smaller stakes or a surer match never turn an acceptance into a
\* refusal, whatever the cost constants (cost_model.py:43, 94-105).
THEOREM MoreTrustNeverHurts == Spec => NeverPunished
<1> DEFINE Kept ==
      /\ answer.decision = "accept" /\ answer'.decision # "none"
      /\ NoMoreThan(answer'.items, answer.items) /\ answer'.trust >= answer.trust
      => answer'.decision = "accept"
<1>1. Deserved /\ Deserved' /\ [Next]_vars => [Kept]_appraisal
  <2> SUFFICES ASSUME Deserved, Deserved', answer.decision = "accept",
                      answer'.decision # "none",
                      NoMoreThan(answer'.items, answer.items),
                      answer'.trust >= answer.trust
               PROVE  answer'.decision = "accept"
    OBVIOUS
  <2>1. /\ answer.trust \in 0..Unit /\ answer.items \in Offers
        /\ Decision(answer.trust, answer.items) = "accept"
    BY DEF Deserved, Unanswered
  <2>2. /\ answer'.trust \in 0..Unit /\ answer'.items \in Offers
        /\ answer'.decision = Decision(answer'.trust, answer'.items)
    BY DEF Deserved, Unanswered
  <2>3. answer.trust <= answer'.trust
    BY <2>1, <2>2
  <2> QED
    BY <2>1, <2>2, <2>3, LessIsAccepted
<1>2. Deserved /\ [Next]_vars => Deserved'
  BY NextDeserved
<1> QED
  BY <1>1, <1>2, InitDeserved, PTL DEF Spec, NeverPunished

----------------------------------------------------------------------------
(* The ceiling of a counter-offer                                           *)

\* Rounded() is within half a step of the fraction.
LEMMA RoundedNear ==
  ASSUME NEW n \in Int, NEW d \in Nat \ {0}
  PROVE  /\ Rounded(n, d) \in Int /\ d * Rounded(n, d) \in Int
         /\ 2 * (d * Rounded(n, d)) - d <= 2 * n
         /\ 2 * n <= 2 * (d * Rounded(n, d)) + d
<1> DEFINE q == n \div d
           r == n % d
<1>1. q \in Int /\ r \in 0..(d - 1) /\ n = d * q + r
  OBVIOUS
<1>2. CASE Rounded(n, d) = q
  <2>1. 2 * r <= d
    BY <1>1, <1>2 DEF Rounded
  <2>2. d * q \in Int
    BY <1>1
  <2> HIDE DEF q, r
  <2> QED
    BY <1>1, <1>2, <2>1, <2>2
<1>3. CASE Rounded(n, d) = q + 1
  <2>1. 2 * r >= d
    BY <1>1, <1>3 DEF Rounded
  <2>2. d * q \in Int /\ d * (q + 1) = d * q + d
    BY <1>1
  <2> HIDE DEF q, r
  <2> QED
    BY <1>1, <1>3, <2>1, <2>2
<1>4. Rounded(n, d) \in {q, q + 1}
  BY <1>1 DEF Rounded
<1> QED
  BY <1>2, <1>3, <1>4

\* What rounding does to the comparisons of the cost model.
LEMMA RoundedBounds ==
  ASSUME NEW n \in Int, NEW d \in Nat \ {0}
  PROVE  /\ Rounded(n, d) \in Int
         /\ n >= 0 => Rounded(n, d) >= 0
         /\ d * (Rounded(n, d) - 1) < n
         /\ \A k \in Int : d * k < n => k <= Rounded(n, d)
         /\ \A m \in Int : n <= m => Rounded(n, d) <= Rounded(m, d)
         /\ \A m \in Int : n + d < m => Rounded(n, d) < Rounded(m, d)
<1> DEFINE x == Rounded(n, d)
<1>1. x \in Int /\ d * x \in Int /\ 2 * (d * x) - d <= 2 * n /\ 2 * n <= 2 * (d * x) + d
  BY RoundedNear
<1> HIDE DEF x
<1>2. ASSUME n >= 0 PROVE x >= 0
  <2> SUFFICES ASSUME x <= -1 PROVE FALSE
    BY <1>1
  <2>1. d * x <= d * (-1)
    BY <1>1, ProductMonotone
  <2>2. d * (-1) = -d
    OBVIOUS
  <2> QED
    BY <1>1, <1>2, <2>1, <2>2
<1>3. d * (x - 1) < n
  <2>1. d * (x - 1) = d * x - d
    BY <1>1
  <2> QED
    BY <1>1, <2>1
<1>4. ASSUME NEW k \in Int, d * k < n PROVE k <= x
  <2> SUFFICES ASSUME x + 1 <= k PROVE FALSE
    BY <1>1
  <2>1. d * (x + 1) <= d * k
    BY <1>1, ProductMonotone
  <2>2. d * (x + 1) = d * x + d /\ d * k \in Int
    BY <1>1
  <2> QED
    BY <1>1, <1>4, <2>1, <2>2
<1>5. ASSUME NEW m \in Int
      PROVE  /\ n <= m => x <= Rounded(m, d)
             /\ n + d < m => x < Rounded(m, d)
  <2> DEFINE y == Rounded(m, d)
  <2>1. y \in Int /\ d * y \in Int /\ 2 * (d * y) - d <= 2 * m /\ 2 * m <= 2 * (d * y) + d
    BY RoundedNear
  <2> HIDE DEF y
  <2>2. ASSUME n + d < m PROVE x < y
    <3> SUFFICES ASSUME y <= x PROVE FALSE
      BY <1>1, <2>1
    <3>1. d * y <= d * x
      BY <1>1, <2>1, ProductMonotone
    <3> QED
      BY <1>1, <2>1, <2>2, <3>1
  <2>3. ASSUME n < m PROVE x <= y
    <3> SUFFICES ASSUME y + 1 <= x PROVE FALSE
      BY <1>1, <2>1
    <3>1. d * (y + 1) <= d * x
      BY <1>1, <2>1, ProductMonotone
    <3>2. d * (y + 1) = d * y + d
      BY <2>1
    <3> QED
      BY <1>1, <2>1, <2>3, <3>1, <3>2
  <2>4. n = m => x = y
    BY DEF x, y
  <2>5. /\ n <= m => x <= y
        /\ n + d < m => x < y
    BY <1>1, <2>1, <2>2, <2>3, <2>4
  <2> QED
    BY <2>5 DEF y
<1>6. /\ x \in Int /\ (n >= 0 => x >= 0) /\ d * (x - 1) < n
      /\ \A k \in Int : d * k < n => k <= x
      /\ \A m \in Int : n <= m => x <= Rounded(m, d)
      /\ \A m \in Int : n + d < m => x < Rounded(m, d)
  BY <1>1, <1>2, <1>3, <1>4, <1>5
<1> QED
  BY <1>6 DEF x

\* The two sides of evaluate_item()'s comparison are integers, risk positive.
LEMMA CostTypes ==
  ASSUME NEW cap \in Capability, NEW t \in 0..Unit, NEW c \in Int
  PROVE  /\ Risk(t) \in Nat \ {0}
         /\ Headroom(cap) \in Int
         /\ Sure(c) \in Nat \ {0}
         /\ Headroom(cap) * Sure(c) \in Int
<1>1. Risk(t) \in Nat \ {0}
  BY RiskFalls
<1>2. Headroom(cap) \in Int
  BY CostAssumption DEF Headroom
<1>3. Sure(c) \in Nat \ {0}
  BY SureGrows
<1> QED
  BY <1>1, <1>2, <1>3

\* What is countered is named at a magnitude that is not negative, and one
\* step below it the item clears at the same trust or more.
LEMMA CounterClears ==
  ASSUME NEW cap \in Capability, NEW s \in 0..Unit, NEW t \in 0..Unit, s <= t,
         NEW c \in Int, Headroom(cap) > 0
  PROVE  /\ SafeMagnitude(cap, s, c) \in Nat
         /\ Clears(cap, t, [mag |-> SafeMagnitude(cap, s, c) - 1, conf |-> c])
<1> DEFINE n == Headroom(cap) * Sure(c)
           x == SafeMagnitude(cap, s, c)
<1>1. /\ Risk(s) \in Nat \ {0} /\ Risk(t) \in Nat \ {0} /\ Risk(t) <= Risk(s)
      /\ n \in Int /\ Headroom(cap) \in Int /\ Sure(c) \in Nat \ {0}
  BY RiskFalls, CostTypes
<1>2. n > 0
  BY <1>1
<1> HIDE DEF n
<1>3. x \in Int /\ x >= 0 /\ Risk(s) * (x - 1) < n
  <2> DEFINE d == Risk(s)
  <2>1. x = Rounded(n, d)
    BY DEF SafeMagnitude, n
  <2>2. d \in Nat \ {0}
    BY <1>1
  <2> HIDE DEF x, d
  <2>3. x \in Int /\ (n >= 0 => x >= 0) /\ d * (x - 1) < n
    BY <1>1, <2>1, <2>2, RoundedBounds
  <2> QED
    BY <1>1, <1>2, <2>3 DEF d
<1> HIDE DEF x
<1>4. Risk(t) * (x - 1) < n
  <2>1. CASE x = 0
    <3>1. Risk(t) * (x - 1) = -Risk(t)
      BY <1>1, <2>1
    <3> QED
      BY <1>1, <1>2, <3>1
  <2>2. CASE x # 0
    <3>1. x - 1 \in Nat
      BY <1>3, <2>2
    <3>2. (x - 1) * Risk(t) <= (x - 1) * Risk(s)
      BY <1>1, <3>1, ProductMonotone
    <3>3. (x - 1) * Risk(t) = Risk(t) * (x - 1) /\ (x - 1) * Risk(s) = Risk(s) * (x - 1)
      BY <1>1, <3>1
    <3>4. Risk(t) * (x - 1) \in Int /\ Risk(s) * (x - 1) \in Int
      BY <1>1, <3>1
    <3> QED
      BY <1>1, <1>3, <3>2, <3>3, <3>4
  <2> QED
    BY <2>1, <2>2
<1> QED
  BY <1>3, <1>4 DEF Clears, x, n

\* What clears is no larger than the ceiling a counter-offer would name.
LEMMA ClearsBelowCeiling ==
  ASSUME NEW cap \in Capability, NEW t \in 0..Unit, NEW i, i.mag \in Nat, i.conf \in Int,
         Clears(cap, t, i)
  PROVE  i.mag <= SafeMagnitude(cap, t, i.conf)
<1>1. Risk(t) \in Nat \ {0} /\ Headroom(cap) * Sure(i.conf) \in Int
  BY CostTypes
<1> DEFINE n == Headroom(cap) * Sure(i.conf)
           d == Risk(t)
           k == i.mag
<1>2. d * k < n
  BY DEF Clears
<1>3. n \in Int /\ d \in Nat \ {0} /\ k \in Int
  BY <1>1
<1> HIDE DEF n, d, k
<1>4. k <= Rounded(n, d)
  BY <1>2, <1>3, RoundedBounds
<1> QED
  BY <1>4 DEF SafeMagnitude, n, d, k

LEMMA OfferItems ==
  ASSUME NEW items \in Offers, NEW cap \in DOMAIN items
  PROVE  cap \in Capability /\ items[cap].mag \in Nat /\ items[cap].conf \in Int
<1>1. cap \in Capability /\ items[cap] \in Item
  BY DEF Offers
<1> QED
  BY <1>1, CostAssumption DEF Item

\* The counters are those of the offer answered.
Counters ==
  answer # Unanswered => answer.counters = CounterItems(answer.trust, answer.items)

LEMMA InitCounters == Init => Counters
BY DEF Init, InitAppraisal, Counters

LEMMA NextCounters == Counters /\ [Next]_vars => Counters'
<1> SUFFICES ASSUME Counters, [Next]_vars
             PROVE  Counters'
  OBVIOUS
<1> USE DEF Counters
<1>1. ASSUME NEW card \in Card, NEW file \in File, NEW semantic \in Semantic,
             Encountered(card, file, semantic)
      PROVE  Counters'
  BY <1>1 DEF Encountered
<1>2. ASSUME NEW items \in Offers, Responds(items)
      PROVE  Counters'
  <2>1. /\ answer'.trust = trust /\ answer'.items = items
        /\ answer'.counters = CounterItems(trust, items)
    BY <1>2 DEF Responds, Respond
  <2> QED
    BY <2>1
<1>3. ASSUME NEW net \in Evidence, TrustMoves(net)
      PROVE  Counters'
  BY <1>3 DEF TrustMoves
<1>4. CASE UNCHANGED vars
  BY <1>4 DEF vars
<1> QED
  BY <1>1, <1>2, <1>3, <1>4 DEF Next

\* A counter-offer comes with a counter, and each of them is one of an item
\* that did not clear.
LEMMA CounterShape ==
  ASSUME NEW t \in 0..Unit, NEW items \in Offers
  PROVE  /\ DOMAIN CounterItems(t, items) \subseteq DOMAIN items
         /\ \A cap \in DOMAIN CounterItems(t, items) :
              /\ cap \in Capability /\ Headroom(cap) > 0
              /\ CounterItems(t, items)[cap] = SafeMagnitude(cap, t, items[cap].conf)
         /\ Decision(t, items) = "counter" => DOMAIN CounterItems(t, items) # {}
BY OfferItems DEF CounterItems, Countered, Decision

\* Whoever comes back with the items of a counter-offer, one thousandth below
\* what it names and at no less trust, is accepted, for every cost profile
\* (cost_model.py:94-139, agent.py:135-146).
THEOREM CountersWork == Spec => []CounterIsWorkable
<1>1. Deserved /\ Counters => CounterIsWorkable
  <2> SUFFICES ASSUME Deserved, Counters, answer.decision = "counter", trust >= answer.trust
               PROVE  Decision(trust, ShavedCounter(answer)) = "accept"
    BY DEF CounterIsWorkable
  <2> DEFINE s == answer.trust
             items == answer.items
             back == ShavedCounter(answer)
  <2>1. /\ s \in 0..Unit /\ trust \in 0..Unit /\ s <= trust
        /\ items \in Offers
        /\ Decision(s, items) = "counter"
        /\ answer.counters = CounterItems(s, items)
    BY DEF Deserved, Counters, Unanswered
  <2>2. DOMAIN back = DOMAIN answer.counters /\ DOMAIN back # {}
    BY <2>1, CounterShape DEF ShavedCounter
  <2>3. ASSUME NEW cap \in DOMAIN back PROVE Clears(cap, trust, back[cap])
    <3> DEFINE c == items[cap].conf
    <3>1. /\ cap \in Capability /\ cap \in DOMAIN items /\ Headroom(cap) > 0
          /\ answer.counters[cap] = SafeMagnitude(cap, s, c)
      BY <2>1, <2>2, CounterShape
    <3>2. c \in Int
      BY <2>1, <3>1, OfferItems
    <3>3. back[cap] = [mag |-> SafeMagnitude(cap, s, c) - 1, conf |-> c]
      BY <2>2, <3>1 DEF ShavedCounter
    <3> HIDE DEF s, c, back
    <3> QED
      BY <2>1, <3>1, <3>2, <3>3, CounterClears
  <2> QED
    BY <2>2, <2>3, AcceptedClears
<1> QED
  BY <1>1, InitDeserved, NextDeserved, InitCounters, NextCounters, PTL DEF Spec

\* Nothing is accepted above the ceiling a counter-offer at the same trust
\* would have named, for every cost profile (cost_model.py:94-139).
THEOREM AcceptanceHasCeiling == Spec => []StakesBounded
<1>1. Deserved => StakesBounded
  <2> SUFFICES ASSUME Deserved, answer.decision = "accept", NEW cap \in DOMAIN answer.items
               PROVE  answer.items[cap].mag
                        <= SafeMagnitude(cap, answer.trust, answer.items[cap].conf)
    BY DEF StakesBounded
  <2>1. answer.trust \in 0..Unit /\ answer.items \in Offers
        /\ Decision(answer.trust, answer.items) = "accept"
    BY DEF Deserved, Unanswered
  <2>2. Clears(cap, answer.trust, answer.items[cap])
    BY <2>1, AcceptedClears
  <2> QED
    BY <2>1, <2>2, OfferItems, ClearsBelowCeiling
<1> QED
  BY <1>1, InitDeserved, NextDeserved, PTL DEF Spec

----------------------------------------------------------------------------
(* The confidence of a match                                                *)

\* The largest of a set of numbers is in it, if there is any.
LEMMA Largest ==
  ASSUME NEW e \in Nat, NEW T \in SUBSET (0..e), T # {}
  PROVE  Max(T) \in T /\ \A k \in T : k <= Max(T)
<1> DEFINE S == {n \in Nat : e - n \in T}
<1>1. S \in SUBSET Nat /\ S # {}
  <2>1. PICK k \in T : TRUE
    OBVIOUS
  <2>2. e - k \in Nat /\ e - (e - k) = k
    OBVIOUS
  <2> QED
    BY <2>1, <2>2
<1>2. PICK n \in S : \A y \in S : ~ (<<y, n>> \in OpToRel(<, Nat))
  <2> HIDE DEF S
  <2> QED
    BY <1>1, WFMin, NatLessThanWellFounded
<1>3. ASSUME NEW y \in S PROVE n <= y
  <2> HIDE DEF S
  <2>1. y \in Nat /\ n \in Nat /\ ~(y < n)
    BY <1>1, <1>2 DEF OpToRel
  <2> QED
    BY <2>1
<1>4. e - n \in T /\ \A k \in T : k <= e - n
  <2>1. ASSUME NEW k \in T PROVE k <= e - n
    <3>1. e - k \in S /\ k \in Nat /\ n \in Nat
      OBVIOUS
    <3>2. n <= e - k
      <4> HIDE DEF S
      <4> QED
        BY <1>3, <3>1
    <3> QED
      BY <3>1, <3>2
  <2> QED
    BY <2>1
<1>5. \E x \in T : \A y \in T : x >= y
  BY <1>4
<1>6. Max(T) \in T /\ \A y \in T : Max(T) >= y
  BY <1>5 DEF Max
<1> QED
  BY <1>6

LEMMA MinOfTwo ==
  ASSUME NEW a \in Int, NEW b \in Int
  PROVE  Min({a, b}) = IF a <= b THEN a ELSE b
<1>1. \E x \in {a, b} : \A y \in {a, b} : x <= y
  OBVIOUS
<1>2. Min({a, b}) \in {a, b} /\ \A y \in {a, b} : Min({a, b}) <= y
  BY <1>1 DEF Min
<1> QED
  BY <1>2

\* Advice is a number, and none without a semantic layer.
LEMMA AdviceType ==
  ASSUME NEW semantic \in Semantic, NEW n \in Capability, NEW s \in Capability
  PROVE  Advice(semantic, n, s) \in Nat /\ (semantic = "off" => Advice(semantic, n, s) = 0)
<1> DEFINE sim == Similarity[<<n, s>>]
<1>1. sim \in Int /\ Threshold \in Nat /\ SemanticMax \in Nat /\ Unit \in Nat
      /\ Threshold < Unit
  BY LayerAssumption, CostAssumption
<1> HIDE DEF sim
<1>2. SimToConfidence(sim) \in Nat
  <2>1. CASE sim < Threshold
    BY <2>1 DEF SimToConfidence
  <2>2. CASE sim >= Threshold
    <3> DEFINE a == (sim - Threshold) * SemanticMax
               d == Unit - Threshold
    <3>1. a \in Int /\ a >= 0 /\ d \in Nat \ {0}
      BY <1>1, <2>2
    <3>2. SimToConfidence(sim) = Rounded(a, d)
      BY <1>1, <2>2 DEF SimToConfidence
    <3> HIDE DEF a, d
    <3>3. Rounded(a, d) \in Int /\ Rounded(a, d) >= 0
      BY <3>1, RoundedBounds
    <3> QED
      BY <3>2, <3>3
  <2> QED
    BY <1>1, <2>1, <2>2
<1>3. Plugged(n, s) \in Nat
  BY LayerAssumption DEF Plugged
<1> QED
  BY <1>2, <1>3 DEF Advice, Semantic, sim

\* The layers give a confidence; only the semantic one gives as little as its
\* cap allows, the other two give at least the vocabulary's.
LEMMA LayersType ==
  ASSUME NEW m, m.semantic \in Semantic, NEW n \in Capability, NEW s \in Capability
  PROVE  /\ Layers(m, n, s) \in 0..ExactConf
         /\ IF Canonical(m.map, n) = Canonical(m.map, s)
            THEN Layers(m, n, s) >= VocabConf
            ELSE Layers(m, n, s) <= (IF m.semantic = "off" THEN 0 ELSE SemanticMax)
<1> DEFINE a == Advice(m.semantic, n, s)
<1>1. a \in Nat /\ (m.semantic = "off" => a = 0)
  BY AdviceType
<1>2. /\ SemanticMax \in Nat /\ VocabConf \in Nat /\ ExactConf \in Nat
      /\ 0 < SemanticMax /\ SemanticMax < VocabConf /\ VocabConf < ExactConf
  BY LayerAssumption
<1> HIDE DEF a
<1>3. Min({a, SemanticMax}) = IF a <= SemanticMax THEN a ELSE SemanticMax
  BY <1>1, <1>2, MinOfTwo
<1>4. Layers(m, n, s) = IF n = s THEN ExactConf
                        ELSE IF Canonical(m.map, n) = Canonical(m.map, s) THEN VocabConf
                        ELSE Min({a, SemanticMax})
  BY DEF Layers, a
<1> QED
  BY <1>1, <1>2, <1>3, <1>4

\* Confidence looks at the normal forms only.
LEMMA ConfidenceType ==
  ASSUME NEW m, m.semantic \in Semantic, NEW n \in Name, NEW s \in Name
  PROVE  /\ MatchConfidence(m, n, s) \in 0..ExactConf
         /\ MatchConfidence(m, n, s) > 0 => Raw[n] \in Capability /\ Raw[s] \in Capability
         /\ Raw[n] \in Capability /\ Raw[s] \in Capability =>
              IF Canonical(m.map, Raw[n]) = Canonical(m.map, Raw[s])
              THEN MatchConfidence(m, n, s) >= VocabConf
              ELSE MatchConfidence(m, n, s) <= (IF m.semantic = "off" THEN 0 ELSE SemanticMax)
         /\ Raw[n] \in Capability =>
              MatchConfidence(m, Raw[n], s) = MatchConfidence(m, n, s)
<1>1. Raw[n] \in Capability \cup {Malformed} /\ Raw[s] \in Capability \cup {Malformed}
      /\ Malformed \notin Capability /\ \A cap \in Capability : Raw[cap] = cap
  BY NameAssumption
<1>2. CASE Malformed \in {Raw[n], Raw[s]}
  <2>1. MatchConfidence(m, n, s) = 0 /\ ExactConf \in Nat
    BY <1>2, LayerAssumption DEF MatchConfidence
  <2> QED
    BY <1>1, <1>2, <2>1 DEF MatchConfidence
<1>3. CASE Malformed \notin {Raw[n], Raw[s]}
  <2>1. MatchConfidence(m, n, s) = Layers(m, Raw[n], Raw[s])
    BY <1>3 DEF MatchConfidence
  <2>2. MatchConfidence(m, Raw[n], s) = Layers(m, Raw[n], Raw[s])
    BY <1>1, <1>3 DEF MatchConfidence
  <2>3. Raw[n] \in Capability /\ Raw[s] \in Capability
    BY <1>1, <1>3
  <2> QED
    BY <2>1, <2>2, <2>3, LayersType
<1> QED
  BY <1>2, <1>3

\* The best surplus for a need is one of them, and no other is better.
LEMMA BestDef ==
  ASSUME NEW m, m.semantic \in Semantic, NEW n \in Name, NEW S \in SUBSET Name
  PROVE  /\ Best(m, n, S) \in 0..ExactConf
         /\ \A s \in S : MatchConfidence(m, n, s) <= Best(m, n, S)
         /\ Best(m, n, S) > 0 => \E s \in S : MatchConfidence(m, n, s) = Best(m, n, S)
<1> DEFINE T == {MatchConfidence(m, n, s) : s \in S} \cup {0}
<1>1. ExactConf \in Nat /\ T \in SUBSET (0..ExactConf) /\ T # {}
  <2>1. \A s \in S : MatchConfidence(m, n, s) \in 0..ExactConf
    BY ConfidenceType
  <2>2. ExactConf \in Nat /\ 0 \in 0..ExactConf
    BY LayerAssumption
  <2> QED
    BY <2>1, <2>2
<1>2. Max(T) \in T /\ \A k \in T : k <= Max(T)
  <2> HIDE DEF T
  <2> QED
    BY <1>1, Largest
<1>3. Best(m, n, S) = Max(T)
  BY DEF Best
<1>4. Max(T) \in 0..ExactConf
  <2> HIDE DEF T
  <2> QED
    BY <1>1, <1>2
<1>5. \A s \in S : MatchConfidence(m, n, s) \in T
  OBVIOUS
<1>6. Max(T) > 0 => \E s \in S : MatchConfidence(m, n, s) = Max(T)
  <2> SUFFICES ASSUME Max(T) > 0 PROVE \E s \in S : MatchConfidence(m, n, s) = Max(T)
    OBVIOUS
  <2> DEFINE x == Max(T)
  <2>1. x \in T /\ x > 0
    BY <1>2
  <2> HIDE DEF x
  <2>2. \E s \in S : MatchConfidence(m, n, s) = x
    BY <2>1
  <2> QED
    BY <2>2 DEF x
<1> HIDE DEF T
<1> QED
  BY <1>2, <1>3, <1>4, <1>5, <1>6

\* The best surplus for a need is the best for its normal form.
LEMMA BestOfNormal ==
  ASSUME NEW m, m.semantic \in Semantic, NEW n \in Name, Raw[n] \in Capability,
         NEW S \in SUBSET Name
  PROVE  Best(m, Raw[n], S) = Best(m, n, S)
<1>1. {MatchConfidence(m, Raw[n], s) : s \in S} = {MatchConfidence(m, n, s) : s \in S}
  BY ConfidenceType
<1> QED
  BY <1>1 DEF Best

\* The items of a match: needs that can be met, under their normal form.
LEMMA MatchDef ==
  ASSUME NEW m, m.semantic \in Semantic, NEW needs \in SUBSET Name, NEW S \in SUBSET Name,
         NEW magnitude \in [Capability -> Nat],
         NEW items, items = Match(m, needs, S, magnitude)
  PROVE  /\ \A n \in needs : Best(m, n, S) > 0 => Raw[n] \in DOMAIN items
         /\ \A cap \in DOMAIN items :
              /\ cap \in Capability
              /\ \E n \in needs : cap = Raw[n] /\ Best(m, n, S) > 0
              /\ items[cap].mag = magnitude[cap] /\ items[cap].mag \in Nat
              /\ items[cap].conf = Best(m, cap, S) /\ items[cap].conf \in 1..ExactConf
<1>1. /\ DOMAIN items = {Raw[n] : n \in {k \in needs : Best(m, k, S) > 0}}
      /\ \A cap \in DOMAIN items :
           items[cap] = [mag |-> magnitude[cap], conf |-> Best(m, cap, S)]
  BY DEF Match
<1>2. ASSUME NEW cap \in DOMAIN items
      PROVE  /\ cap \in Capability
             /\ \E n \in needs : cap = Raw[n] /\ Best(m, n, S) > 0
             /\ items[cap].mag = magnitude[cap] /\ items[cap].mag \in Nat
             /\ items[cap].conf = Best(m, cap, S) /\ items[cap].conf \in 1..ExactConf
  <2>1. PICK n \in needs : cap = Raw[n] /\ Best(m, n, S) > 0
    BY <1>1
  <2>2. PICK s \in S : MatchConfidence(m, n, s) > 0
    BY <2>1, BestDef
  <2>3. cap \in Capability
    BY <2>1, <2>2, ConfidenceType
  <2>4. Best(m, cap, S) = Best(m, n, S)
    BY <2>1, <2>3, BestOfNormal
  <2>5. Best(m, n, S) \in 0..ExactConf /\ ExactConf \in Nat
    BY BestDef, LayerAssumption
  <2>6. items[cap] = [mag |-> magnitude[cap], conf |-> Best(m, cap, S)]
    BY <1>1
  <2>7. Best(m, cap, S) \in 1..ExactConf
    BY <2>1, <2>4, <2>5
  <2> QED
    BY <2>1, <2>3, <2>6, <2>7
<1> QED
  BY <1>1, <1>2

----------------------------------------------------------------------------
(* What is asked and offered                                                *)

\* The strengthening: the last encounter was answered by what matched and
\* cleared at the trust of the moment.
Prompted ==
  Met =>
    /\ proposal.decision \in {"pass", "propose"}
    /\ proposal.trust \in 0..Unit
    /\ proposal.card \in Card /\ proposal.file \in File
    /\ proposal.matcher.semantic \in Semantic
    /\ proposal.matcher.map = Vocabulary(proposal.file)
    /\ proposal.asks = Cleared(proposal.trust, Matched(proposal.matcher, proposal.card))
    /\ proposal.offers = Offered(proposal.matcher, proposal.card)

LEMMA InitPrompted == Init => Prompted
BY DEF Init, Prompted, Met, Unmet

LEMMA NextPrompted == Deserved /\ Prompted /\ [Next]_vars => Prompted'
<1> SUFFICES ASSUME Deserved, Prompted, [Next]_vars
             PROVE  Prompted'
  OBVIOUS
<1>1. ASSUME NEW card \in Card, NEW file \in File, NEW semantic \in Semantic,
             Encountered(card, file, semantic)
      PROVE  Prompted'
  <2> DEFINE m == [map |-> Vocabulary(file), semantic |-> semantic]
             asks == Cleared(trust, Matched(m, card))
             offers == Offered(m, card)
             d == IF DOMAIN asks = {} /\ DOMAIN offers = {} THEN "pass" ELSE "propose"
  <2>1. proposal' = [decision |-> d, card |-> card, trust |-> trust, file |-> file,
                     matcher |-> m, asks |-> asks, offers |-> offers]
    BY <1>1 DEF Encountered
  <2>2. d \in {"pass", "propose"} /\ trust \in 0..Unit
    BY DEF Deserved
  <2>3. m.map = Vocabulary(file) /\ m.semantic = semantic
    OBVIOUS
  <2>4. asks = Cleared(trust, Matched(m, card)) /\ offers = Offered(m, card)
    OBVIOUS
  <2> HIDE DEF m, asks, offers, d
  <2>5. /\ proposal'.decision = d /\ proposal'.card = card /\ proposal'.trust = trust
        /\ proposal'.file = file /\ proposal'.matcher = m
        /\ proposal'.asks = asks /\ proposal'.offers = offers
    BY <2>1
  <2> QED
    BY <2>2, <2>3, <2>4, <2>5 DEF Prompted
<1>2. ASSUME NEW items \in Offers, Responds(items)
      PROVE  Prompted'
  BY <1>2 DEF Responds, Prompted, Met, Unmet
<1>3. ASSUME NEW net \in Evidence, TrustMoves(net), UNCHANGED proposal
      PROVE  Prompted'
  BY <1>3 DEF Prompted, Met
<1>4. CASE UNCHANGED vars
  BY <1>4 DEF vars, Prompted, Met
<1> QED
  BY <1>1, <1>2, <1>3, <1>4 DEF Next

\* The needs that the card's surplus meets.
LEMMA MatchedDef ==
  ASSUME NEW m, m.semantic \in Semantic, NEW card \in Card
  PROVE  /\ \A n \in Need : Best(m, n, card.surplus) > 0 => Raw[n] \in DOMAIN Matched(m, card)
         /\ \A cap \in DOMAIN Matched(m, card) :
              /\ cap \in Capability
              /\ \E n \in Need : cap = Raw[n] /\ Best(m, n, card.surplus) > 0
              /\ Matched(m, card)[cap].mag = MyMagnitude[cap]
              /\ Matched(m, card)[cap].mag \in Nat
              /\ Matched(m, card)[cap].conf = Best(m, cap, card.surplus)
              /\ Matched(m, card)[cap].conf \in 1..ExactConf
<1>1. /\ Need \in SUBSET Name /\ card.surplus \in SUBSET Name
      /\ MyMagnitude \in [Capability -> Nat]
      /\ Matched(m, card) = Match(m, Need, card.surplus, MyMagnitude)
  BY AgentAssumption DEF Matched
<1> QED
  BY <1>1, MatchDef

\* The items asked for: matched needs that clear.
LEMMA AsksDef ==
  ASSUME NEW m, m.semantic \in Semantic, NEW t \in 0..Unit, NEW card \in Card
  PROVE  LET asks == Cleared(t, Matched(m, card))
         IN  \A cap \in DOMAIN asks :
               /\ cap \in Capability /\ cap \in {Raw[n] : n \in Need}
               /\ asks[cap] = Matched(m, card)[cap]
               /\ asks[cap].mag = MyMagnitude[cap] /\ asks[cap].mag \in Nat
               /\ asks[cap].conf = Best(m, cap, card.surplus)
               /\ asks[cap].conf \in 1..ExactConf
               /\ Clears(cap, t, asks[cap])
<1> DEFINE matched == Matched(m, card)
           asks == Cleared(t, matched)
<1>2. \A cap \in DOMAIN matched :
        /\ cap \in Capability /\ cap \in {Raw[n] : n \in Need}
        /\ matched[cap].mag = MyMagnitude[cap] /\ matched[cap].mag \in Nat
        /\ matched[cap].conf = Best(m, cap, card.surplus)
        /\ matched[cap].conf \in 1..ExactConf
  BY MatchedDef
<1> HIDE DEF matched
<1>3. /\ DOMAIN asks = {k \in DOMAIN matched : Clears(k, t, matched[k])}
      /\ \A cap \in DOMAIN asks : asks[cap] = matched[cap]
  BY DEF Cleared
<1> HIDE DEF asks
<1>4. \A cap \in DOMAIN asks :
        /\ cap \in Capability /\ cap \in {Raw[n] : n \in Need}
        /\ asks[cap] = matched[cap]
        /\ asks[cap].mag = MyMagnitude[cap] /\ asks[cap].mag \in Nat
        /\ asks[cap].conf = Best(m, cap, card.surplus)
        /\ asks[cap].conf \in 1..ExactConf
        /\ Clears(cap, t, asks[cap])
  BY <1>2, <1>3
<1> QED
  BY <1>4 DEF asks, matched

\* The items offered: needs of the card that something of ours meets.
LEMMA OffersDef ==
  ASSUME NEW m, m.semantic \in Semantic, NEW card \in Card
  PROVE  /\ \A n \in card.needs : Best(m, n, Surplus) > 0 => Raw[n] \in DOMAIN Offered(m, card)
         /\ \A cap \in DOMAIN Offered(m, card) :
              /\ cap \in Capability
              /\ \E n \in card.needs : cap = Raw[n] /\ Best(m, n, Surplus) > 0
              /\ Offered(m, card)[cap].mag \in Nat
              /\ Offered(m, card)[cap].conf = Best(m, cap, Surplus)
              /\ Offered(m, card)[cap].conf \in 1..ExactConf
<1>1. /\ Surplus \in SUBSET Name /\ card.needs \in SUBSET Name
      /\ Defaults \in [Capability -> Nat]
      /\ Offered(m, card) = Match(m, card.needs, Surplus, Defaults)
  BY AgentAssumption DEF Defaults, Offered
<1>2. /\ \A n \in card.needs : Best(m, n, Surplus) > 0 => Raw[n] \in DOMAIN Offered(m, card)
      /\ \A cap \in DOMAIN Offered(m, card) :
           /\ cap \in Capability
           /\ \E n \in card.needs : cap = Raw[n] /\ Best(m, n, Surplus) > 0
           /\ Offered(m, card)[cap].mag = Defaults[cap]
           /\ Offered(m, card)[cap].mag \in Nat
           /\ Offered(m, card)[cap].conf = Best(m, cap, Surplus)
           /\ Offered(m, card)[cap].conf \in 1..ExactConf
  BY <1>1, MatchDef
<1> QED
  BY <1>2

LEMMA AnswerTyped == Deserved /\ Counters => AppraisalTyped
<1> SUFFICES ASSUME Deserved, Counters, answer # Unanswered
             PROVE  /\ answer.decision \in {"accept", "counter", "decline"}
                    /\ DOMAIN answer.counters \subseteq DOMAIN answer.items
                    /\ \A cap \in DOMAIN answer.counters : answer.counters[cap] \in Nat
  BY DEF AppraisalTyped, Deserved
<1> DEFINE s == answer.trust
           items == answer.items
           counters == answer.counters
<1>1. /\ s \in 0..Unit /\ items \in Offers /\ answer.decision = Decision(s, items)
      /\ counters = CounterItems(s, items)
  BY DEF Deserved, Counters
<1>2. answer.decision \in {"accept", "counter", "decline"}
  BY <1>1 DEF Decision
<1>3. DOMAIN counters \subseteq DOMAIN items
  BY <1>1, CounterShape
<1>4. ASSUME NEW cap \in DOMAIN counters PROVE counters[cap] \in Nat
  <2>1. /\ cap \in Capability /\ Headroom(cap) > 0
        /\ counters[cap] = SafeMagnitude(cap, s, items[cap].conf)
    BY <1>1, CounterShape
  <2>2. items[cap].conf \in Int
    BY <1>1, <1>3, OfferItems
  <2> DEFINE c == items[cap].conf
  <2> HIDE DEF s, c
  <2>3. c \in Int /\ s <= s
    BY <1>1, <2>2 DEF c
  <2>4. /\ SafeMagnitude(cap, s, c) \in Nat
        /\ Clears(cap, s, [mag |-> SafeMagnitude(cap, s, c) - 1, conf |-> c])
    BY <1>1, <2>1, <2>3, CounterClears
  <2> QED
    BY <2>1, <2>4 DEF c
<1> QED
  BY <1>2, <1>3, <1>4

\* Every answer and every proposal has its type: asked are needs of the agent,
\* offered needs of the card, each with a confidence a layer really gives.
THEOREM TypeCorrect == Spec => []TypeOK
<1>1. Deserved /\ Counters /\ Prompted => TypeOK
  <2> SUFFICES ASSUME Deserved, Counters, Prompted, Met
               PROVE  /\ proposal.decision \in {"pass", "propose"} /\ proposal.trust \in 0..Unit
                      /\ DOMAIN proposal.asks \subseteq Capability \cap {Raw[n] : n \in Need}
                      /\ DOMAIN proposal.offers
                           \subseteq Capability \cap {Raw[n] : n \in proposal.card.needs}
                      /\ \A items \in {proposal.asks, proposal.offers} :
                           \A cap \in DOMAIN items :
                             items[cap].mag \in Nat /\ items[cap].conf \in 1..ExactConf
    BY AnswerTyped DEF TypeOK
  <2>1. proposal.decision \in {"pass", "propose"} /\ proposal.trust \in 0..Unit
    BY DEF Prompted
  <2>2. \A cap \in DOMAIN proposal.asks :
          /\ cap \in Capability /\ cap \in {Raw[n] : n \in Need}
          /\ proposal.asks[cap].mag \in Nat /\ proposal.asks[cap].conf \in 1..ExactConf
    BY AsksDef DEF Prompted
  <2>3. \A cap \in DOMAIN proposal.offers :
          /\ cap \in Capability /\ cap \in {Raw[n] : n \in proposal.card.needs}
          /\ proposal.offers[cap].mag \in Nat /\ proposal.offers[cap].conf \in 1..ExactConf
    BY OffersDef DEF Prompted
  <2> QED
    BY <2>1, <2>2, <2>3
<1> QED
  BY <1>1, InitDeserved, NextDeserved, InitCounters, NextCounters,
     InitPrompted, NextPrompted, PTL DEF Spec

\* A larger choice of surpluses has no worse a best.
LEMMA BestGrows ==
  ASSUME NEW m, m.semantic \in Semantic, NEW n \in Name,
         NEW S \in SUBSET Name, NEW T \in SUBSET Name, S \subseteq T
  PROVE  Best(m, n, S) <= Best(m, n, T)
<1>1. Best(m, n, S) \in 0..ExactConf /\ Best(m, n, T) \in 0..ExactConf /\ ExactConf \in Nat
  BY BestDef, LayerAssumption
<1>2. CASE Best(m, n, S) = 0
  BY <1>1, <1>2
<1>3. CASE Best(m, n, S) > 0
  <2>1. PICK s \in S : MatchConfidence(m, n, s) = Best(m, n, S)
    BY <1>3, BestDef
  <2>2. s \in T
    OBVIOUS
  <2> QED
    BY <2>1, <2>2, BestDef
<1> QED
  BY <1>1, <1>2, <1>3

\* More surplus on the card and no less trust: no item is lost or less certain.
LEMMA AsksGrow ==
  ASSUME NEW m, m.semantic \in Semantic, NEW s \in 0..Unit, NEW t \in 0..Unit, s <= t,
         NEW c \in Card, NEW d \in Card, c.surplus \subseteq d.surplus
  PROVE  Grows(Cleared(s, Matched(m, c)), Cleared(t, Matched(m, d)))
<1> DEFINE asks == Cleared(s, Matched(m, c))
           more == Cleared(t, Matched(m, d))
           matched == Matched(m, d)
<1> SUFFICES ASSUME NEW cap \in DOMAIN asks
             PROVE  cap \in DOMAIN more /\ asks[cap].conf <= more[cap].conf
  BY DEF Grows
<1>1. /\ cap \in Capability
      /\ asks[cap].mag = MyMagnitude[cap] /\ asks[cap].mag \in Nat
      /\ asks[cap].conf = Best(m, cap, c.surplus) /\ asks[cap].conf \in 1..ExactConf
      /\ Clears(cap, s, asks[cap])
  BY AsksDef
<1>2. cap \in DOMAIN Matched(m, c)
  BY DEF Cleared
<1>3. /\ Need \in SUBSET Name /\ c.surplus \in SUBSET Name /\ d.surplus \in SUBSET Name
      /\ MyMagnitude \in [Capability -> Nat]
  BY AgentAssumption
<1>4. PICK n \in Need : cap = Raw[n] /\ Best(m, n, c.surplus) > 0
  BY <1>2, MatchedDef
<1>5. /\ Best(m, n, c.surplus) <= Best(m, n, d.surplus)
      /\ Best(m, n, c.surplus) \in Int /\ Best(m, n, d.surplus) \in Int
  <2>1. n \in Name /\ ExactConf \in Nat
    BY <1>3, LayerAssumption
  <2> QED
    BY <1>3, <2>1, BestGrows, BestDef
<1>6. cap \in DOMAIN matched
  <2>1. Best(m, n, d.surplus) > 0
    BY <1>4, <1>5
  <2> QED
    BY <1>4, <2>1, MatchedDef
<1>7. /\ matched[cap].mag = MyMagnitude[cap] /\ matched[cap].conf = Best(m, cap, d.surplus)
      /\ matched[cap].conf \in 1..ExactConf
  BY <1>6, MatchedDef
<1>8. asks[cap].conf <= matched[cap].conf
  BY <1>1, <1>3, <1>4, <1>5, <1>7, BestOfNormal
<1>9. Clears(cap, t, matched[cap])
  <2> DEFINE i == asks[cap]
             j == matched[cap]
  <2>1. /\ i.mag \in Nat /\ i.conf \in Int /\ j.mag \in Nat /\ j.conf \in Int
        /\ j.mag <= i.mag /\ i.conf <= j.conf /\ Clears(cap, s, i)
    BY <1>1, <1>7, <1>8, LayerAssumption
  <2> HIDE DEF i, j
  <2>2. Clears(cap, t, j)
    BY <1>1, <2>1, ClearsMonotone
  <2> QED
    BY <2>2 DEF j
<1>10. cap \in DOMAIN more /\ more[cap] = matched[cap]
  <2> HIDE DEF matched
  <2>1. cap \in {k \in DOMAIN matched : Clears(k, t, matched[k])}
    BY <1>6, <1>9
  <2>2. more = [k \in {k \in DOMAIN matched : Clears(k, t, matched[k])} |-> matched[k]]
    BY DEF Cleared, matched
  <2> QED
    BY <2>1, <2>2
<1> QED
  BY <1>8, <1>10

\* More needs on the card: no offer is lost or less certain.
LEMMA OffersGrow ==
  ASSUME NEW m, m.semantic \in Semantic,
         NEW c \in Card, NEW d \in Card, c.needs \subseteq d.needs
  PROVE  Grows(Offered(m, c), Offered(m, d))
<1> SUFFICES ASSUME NEW cap \in DOMAIN Offered(m, c)
             PROVE  /\ cap \in DOMAIN Offered(m, d)
                    /\ Offered(m, c)[cap].conf <= Offered(m, d)[cap].conf
  BY DEF Grows
<1>1. cap \in DOMAIN Offered(m, d)
  BY OffersDef
<1>2. /\ Offered(m, c)[cap].conf = Best(m, cap, Surplus)
      /\ Offered(m, d)[cap].conf = Best(m, cap, Surplus)
      /\ Offered(m, c)[cap].conf \in 1..ExactConf
  BY <1>1, OffersDef
<1> QED
  BY <1>1, <1>2, LayerAssumption

\* A card with more to give, from a peer trusted no less, never gets less asked
\* or asked with less certainty, and one that needs more is never offered less,
\* for any matcher and cost profile (matching.py:197-228, cost_model.py:113-122).
THEOREM MoreIsNeverLess == Spec => MoreNeverHurts
<1> DEFINE Kept ==
      LET p == proposal  q == proposal'
      IN  p.decision # "none" /\ q.decision # "none" /\ p.matcher = q.matcher =>
            /\ p.card.surplus \subseteq q.card.surplus /\ p.trust <= q.trust
                 => Grows(p.asks, q.asks)
            /\ p.card.needs \subseteq q.card.needs => Grows(p.offers, q.offers)
<1>1. Prompted /\ Prompted' => Kept
  <2> SUFFICES ASSUME Prompted, Prompted', proposal.decision # "none",
                      proposal'.decision # "none", proposal.matcher = proposal'.matcher
               PROVE  /\ proposal.card.surplus \subseteq proposal'.card.surplus
                         /\ proposal.trust <= proposal'.trust
                           => Grows(proposal.asks, proposal'.asks)
                      /\ proposal.card.needs \subseteq proposal'.card.needs
                           => Grows(proposal.offers, proposal'.offers)
    OBVIOUS
  <2> DEFINE m == proposal.matcher
             c == proposal.card
             d == proposal'.card
             s == proposal.trust
             t == proposal'.trust
  <2>1. /\ m.semantic \in Semantic /\ c \in Card /\ d \in Card
        /\ s \in 0..Unit /\ t \in 0..Unit
        /\ proposal.asks = Cleared(s, Matched(m, c)) /\ proposal.offers = Offered(m, c)
        /\ proposal'.asks = Cleared(t, Matched(m, d)) /\ proposal'.offers = Offered(m, d)
    BY DEF Prompted, Met
  <2> HIDE DEF m, c, d, s, t
  <2>2. c.surplus \subseteq d.surplus /\ s <= t => Grows(proposal.asks, proposal'.asks)
    BY <2>1, AsksGrow
  <2>3. c.needs \subseteq d.needs => Grows(proposal.offers, proposal'.offers)
    BY <2>1, OffersGrow
  <2> QED
    BY <2>2, <2>3 DEF c, d, s, t
<1> QED
  BY <1>1, InitDeserved, NextDeserved, InitPrompted, NextPrompted, PTL DEF Spec, MoreNeverHurts

\* The step of the counter-offer's rounding is finer than what lies between the
\* vocabulary's confidence and the cap of the semantic layer.  With the
\* defaults of the code this is 1 < 1000 * headroom * (0.8 - 0.5).
FineRounding ==
  \A cap \in Capability :
    Headroom(cap) > 0 =>
      Headroom(cap) * (Sure(VocabConf) - Sure(SemanticMax)) > RiskMax * Unit

LEMMA RiskBelowMax == ASSUME NEW t \in 0..Unit PROVE Risk(t) <= RiskMax * Unit
<1>1. Risk(t) <= Risk(0) /\ 0 \in 0..Unit
  BY RiskFalls, CostAssumption
<1>2. Risk(0) = RiskMax * Unit
  BY CostAssumption DEF Risk, Clip
<1> QED
  BY <1>1, <1>2

\* With no more confidence than the semantic cap a smaller magnitude is safe.
LEMMA SemanticCeiling ==
  ASSUME FineRounding, NEW cap \in Capability, NEW t \in 0..Unit, NEW c \in Int,
         c <= SemanticMax, Headroom(cap) > 0
  PROVE  SafeMagnitude(cap, t, c) < SafeMagnitude(cap, t, VocabConf)
<1> DEFINE h == Headroom(cap)
           low == Sure(c)
           cut == Sure(SemanticMax)
           high == Sure(VocabConf)
           d == Risk(t)
<1>1. /\ h \in Nat /\ low \in Nat /\ cut \in Nat /\ high \in Nat /\ d \in Nat \ {0}
      /\ low <= cut /\ d <= RiskMax * Unit /\ RiskMax * Unit \in Int
      /\ h * (high - cut) > RiskMax * Unit
  <2>1. SemanticMax \in Int /\ VocabConf \in Int /\ RiskMax * Unit \in Int
    BY LayerAssumption, CostAssumption
  <2>2. low <= cut
    BY <2>1, SureGrows
  <2> QED
    BY <2>1, <2>2, CostTypes, RiskBelowMax DEF FineRounding
<1>2. SafeMagnitude(cap, t, c) = Rounded(h * low, d)
      /\ SafeMagnitude(cap, t, VocabConf) = Rounded(h * high, d)
  BY DEF SafeMagnitude
<1> HIDE DEF h, low, cut, high, d
<1>3. h * low <= h * cut /\ h * (high - cut) = h * high - h * cut
  BY <1>1, ProductMonotone
<1>4. h * low \in Int /\ h * cut \in Int /\ h * high \in Int
  BY <1>1
<1> DEFINE n == h * low
           k == h * high
<1>5. n \in Int /\ k \in Int /\ n + d < k
  BY <1>1, <1>3, <1>4
<1> HIDE DEF n, k
<1>6. Rounded(n, d) < Rounded(k, d)
  BY <1>1, <1>5, RoundedBounds
<1> QED
  BY <1>2, <1>6 DEF n, k

\* Only an item with headroom clears.
LEMMA ClearsHeadroom ==
  ASSUME NEW cap \in Capability, NEW t \in 0..Unit, NEW i, i.mag \in Nat, i.conf \in Int,
         Clears(cap, t, i)
  PROVE  Headroom(cap) > 0
<1>1. /\ Risk(t) \in Nat /\ Headroom(cap) \in Int /\ Sure(i.conf) \in Nat
      /\ Headroom(cap) * Sure(i.conf) \in Int
  BY CostTypes
<1>2. Risk(t) * i.mag >= 0
  BY <1>1
<1>3. Headroom(cap) * Sure(i.conf) > 0
  BY <1>1, <1>2 DEF Clears
<1> QED
  BY <1>1, <1>3

\* Without a synonym on the card the best match is the semantic layer's.
LEMMA NoSynonym ==
  ASSUME NEW m, m.semantic \in Semantic, NEW cap \in Capability, NEW S \in SUBSET Name,
         Best(m, cap, S) > 0, Synonyms(m, cap, S) = {}
  PROVE  m.semantic # "off" /\ Best(m, cap, S) <= SemanticMax
<1>1. cap \in Name /\ Raw[cap] = cap
  BY NameAssumption
<1>2. PICK s \in S : MatchConfidence(m, cap, s) = Best(m, cap, S)
  BY <1>1, BestDef
<1>3. Raw[s] \in Capability /\ s \in Name
  BY <1>1, <1>2, ConfidenceType
<1>4. Canonical(m.map, Raw[s]) # Canonical(m.map, cap)
  BY <1>3, NameAssumption DEF Synonyms
<1>5. MatchConfidence(m, cap, s) <= (IF m.semantic = "off" THEN 0 ELSE SemanticMax)
  BY <1>1, <1>3, <1>4, ConfidenceType
<1>6. Best(m, cap, S) \in Int
  BY <1>1, BestDef, LayerAssumption
<1> QED
  BY <1>2, <1>5, <1>6

\* What only the semantic layer matches is taken for less than a synonym would
\* be, whichever matcher is plugged in, wherever rounding does not hide the
\* difference; without that layer, what is asked is met by a synonym
\* (semantic.py:24-27, matching.py:193, cost_model.py:124-139).
THEOREM AdviceIsCapped == FineRounding => (Spec => []SemanticIsSmaller)
<1> SUFFICES ASSUME FineRounding PROVE Spec => []SemanticIsSmaller
  OBVIOUS
<1>1. Prompted => SemanticIsSmaller
  <2> SUFFICES ASSUME Prompted, Met, NEW cap \in DOMAIN proposal.asks
               PROVE  /\ Synonyms(proposal.matcher, cap, proposal.card.surplus) = {}
                           => SafeMagnitude(cap, proposal.trust, proposal.asks[cap].conf)
                                < SafeMagnitude(cap, proposal.trust, VocabConf)
                      /\ proposal.matcher.semantic = "off"
                           => Synonyms(proposal.matcher, cap, proposal.card.surplus) # {}
    BY DEF SemanticIsSmaller
  <2> DEFINE m == proposal.matcher
             S == proposal.card.surplus
             t == proposal.trust
             i == proposal.asks[cap]
  <2>1. /\ m.semantic \in Semantic /\ t \in 0..Unit /\ proposal.card \in Card
        /\ proposal.asks = Cleared(t, Matched(m, proposal.card))
    BY DEF Prompted
  <2>2. /\ cap \in Capability /\ i.mag \in Nat /\ i.conf = Best(m, cap, S)
        /\ i.conf \in 1..ExactConf /\ Clears(cap, t, i)
    BY <2>1, AsksDef
  <2>3. S \in SUBSET Name /\ i.conf \in Int /\ i.conf > 0
    BY <2>1, <2>2, AgentAssumption, LayerAssumption
  <2> HIDE DEF m, S, t, i
  <2>4. Headroom(cap) > 0
    BY <2>1, <2>2, <2>3, ClearsHeadroom
  <2>5. Synonyms(m, cap, S) = {} => m.semantic # "off" /\ i.conf <= SemanticMax
    BY <2>1, <2>2, <2>3, NoSynonym
  <2>6. Synonyms(m, cap, S) = {} => SafeMagnitude(cap, t, i.conf) < SafeMagnitude(cap, t, VocabConf)
    BY <2>1, <2>2, <2>3, <2>4, <2>5, SemanticCeiling
  <2> QED
    BY <2>5, <2>6 DEF m, S, t, i
<1> QED
  BY <1>1, InitDeserved, NextDeserved, InitPrompted, NextPrompted, PTL DEF Spec

----------------------------------------------------------------------------
(* The vocabulary.  Reading a file is a fold, whose recursive function is   *)
(* shown to exist on the sets of at most n entries, for n up to all.        *)

Forms(entry) == {Raw[s] : s \in Listed(entry)}

\* What the sets of entries are read as, given the smaller sets.
Reads(file, map) ==
  [s \in SUBSET DOMAIN file |->
     IF s = {} THEN [u \in {} |-> u]
     ELSE ReadEntry(map[s \ {Max(s)}], file[Max(s)])]

\* Induction over Nat, for a set of numbers instead of a predicate.
LEMMA Induction ==
  ASSUME NEW S, 0 \in S, \A n \in Nat : n \in S => n + 1 \in S
  PROVE  Nat \subseteq S
<1> SUFFICES ASSUME Nat \ S # {} PROVE FALSE
  OBVIOUS
<1>1. PICK n \in Nat \ S : \A y \in Nat \ S : ~ (<<y, n>> \in OpToRel(<, Nat))
  <2>1. Nat \ S \subseteq Nat
    OBVIOUS
  <2> QED
    BY <2>1, WFMin, NatLessThanWellFounded
<1>2. \A y \in Nat \ S : ~ (y < n)
  BY <1>1 DEF OpToRel
<1>3. n - 1 \in Nat /\ n - 1 \in S
  BY <1>2
<1> QED
  BY <1>3

\* A set of entries loses its last one, and one of its cardinality.
LEMMA OneLess ==
  ASSUME NEW n \in Nat, NEW s \in SUBSET (1..n)
  PROVE  /\ Cardinality(s) \in 0..n
         /\ Cardinality(s) = 0 <=> s = {}
         /\ s # {} => Max(s) \in s /\ Cardinality(s \ {Max(s)}) = Cardinality(s) - 1
<1>1. IsFiniteSet(1..n) /\ Cardinality(1..n) = n
  BY FS_Interval
<1>2. IsFiniteSet(s) /\ Cardinality(s) <= n
  BY <1>1, FS_Subset
<1>3. Cardinality(s) \in Nat /\ (Cardinality(s) = 0 <=> s = {})
  BY <1>2, FS_CardinalityType, FS_EmptySet
<1>4. ASSUME s # {} PROVE Max(s) \in s
  <2>1. s \in SUBSET (0..n)
    OBVIOUS
  <2> QED
    BY <1>4, <2>1, Largest
<1>5. s # {} => Cardinality(s \ {Max(s)}) = Cardinality(s) - 1
  BY <1>2, <1>4, FS_RemoveElement
<1> QED
  BY <1>2, <1>3, <1>4, <1>5

LEMMA ReadsExist ==
  ASSUME NEW n \in Nat, NEW file, DOMAIN file = 1..n
  PROVE  \E map : Vocabulary(file) = map[1..n] /\ map = Reads(file, map)
<1> DEFINE Body(f, s) == IF s = {} THEN [u \in {} |-> u]
                         ELSE ReadEntry(f[s \ {Max(s)}], file[Max(s)])
           F(f) == [s \in SUBSET DOMAIN file |-> Body(f, s)]
           Upto(k) == {s \in SUBSET (1..n) : Cardinality(s) <= k}
           S == {k \in Nat : \E f : f = [s \in Upto(k) |-> Body(f, s)]}
<1>1. 0 \in S
  <2>1. Upto(0) = {{}}
    <3>1. ASSUME NEW s \in SUBSET (1..n), Cardinality(s) <= 0 PROVE s = {}
      <4>1. Cardinality(s) \in 0..n /\ (Cardinality(s) = 0 <=> s = {})
        BY OneLess
      <4> QED
        BY <3>1, <4>1
    <3>2. {} \in SUBSET (1..n) /\ Cardinality({}) <= 0
      BY FS_EmptySet
    <3> QED
      BY <3>1, <3>2
  <2> DEFINE e == [u \in {} |-> u]
  <2>2. [s \in {{}} |-> e] = [s \in {{}} |-> Body([t \in {{}} |-> e], s)]
    OBVIOUS
  <2> QED
    BY <2>1, <2>2
<1>2. ASSUME NEW k \in Nat, k \in S PROVE k + 1 \in S
  <2>1. PICK f : f = [s \in Upto(k) |-> Body(f, s)]
    BY <1>2
  <2> DEFINE g == [s \in Upto(k + 1) |-> IF s \in Upto(k) THEN f[s] ELSE Body(f, s)]
  <2>2. ASSUME NEW s \in Upto(k + 1) PROVE g[s] = Body(g, s)
    <3>1. CASE s = {}
      BY <2>1, <3>1
    <3>2. CASE s # {}
      <4> DEFINE r == s \ {Max(s)}
      <4>1. r \in Upto(k) /\ r \in Upto(k + 1)
        <5>1. s \in SUBSET (1..n) /\ Cardinality(s) <= k + 1
          OBVIOUS
        <5>2. Cardinality(s) \in 0..n /\ Cardinality(r) = Cardinality(s) - 1
          BY <3>2, <5>1, OneLess
        <5>3. r \in SUBSET (1..n)
          BY <5>1
        <5> HIDE DEF r
        <5> QED
          BY <5>1, <5>2, <5>3
      <4>2. g[r] = f[r]
        BY <4>1
      <4>3. g[s] = Body(f, s)
        BY <2>1
      <4> QED
        BY <3>2, <4>2, <4>3
    <3> QED
      BY <3>1, <3>2
  <2>3. g = [s \in Upto(k + 1) |-> Body(g, s)]
    <3> HIDE DEF Body
    <3>1. [s \in Upto(k + 1) |-> g[s]] = [s \in Upto(k + 1) |-> Body(g, s)]
      BY <2>2
    <3> QED
      BY <3>1
  <2> HIDE DEF g, Body, Upto
  <2> QED
    BY <2>3
<1>3. n \in S
  <2> HIDE DEF S
  <2> QED
    BY <1>1, <1>2, Induction
<1>4. Upto(n) = SUBSET DOMAIN file
  <2>1. \A s \in SUBSET (1..n) : Cardinality(s) \in 0..n
    BY OneLess
  <2> QED
    BY <2>1
<1>5. \E f : f = F(f)
  <2> HIDE DEF Body, Upto
  <2> QED
    BY <1>3, <1>4
<1>6. Vocabulary(file) = (CHOOSE f : f = F(f))[DOMAIN file]
  BY DEF Vocabulary, FoldLeft, MapThenFoldSet
<1> HIDE DEF F
<1>7. (CHOOSE f : f = F(f)) = F(CHOOSE f : f = F(f))
  BY <1>5
<1> QED
  BY <1>6, <1>7 DEF F, Reads

\* A clean file says of each form what its entry is called, and of nothing else.
LEMMA VocabularyDef ==
  ASSUME NEW n \in Nat, NEW file, DOMAIN file = 1..n, Clean(file)
  PROVE  /\ DOMAIN Vocabulary(file) = UNION {Forms(file[i]) : i \in 1..n}
         /\ \A i \in 1..n : \A u \in Forms(file[i]) : Vocabulary(file)[u] = Raw[file[i].name]
         /\ Vocabulary(file) = [u \in DOMAIN Vocabulary(file) |-> Vocabulary(file)[u]]
<1>1. PICK map : Vocabulary(file) = map[1..n] /\ map = Reads(file, map)
  BY ReadsExist
<1> DEFINE Good(M, k) ==
             /\ DOMAIN M = UNION {Forms(file[i]) : i \in 1..k}
             /\ \A i \in 1..k : \A u \in Forms(file[i]) : M[u] = Raw[file[i].name]
             /\ M = [u \in DOMAIN M |-> M[u]]
           S == {k \in Nat : k <= n => Good(map[1..k], k)}
<1>2. 0 \in S
  <2>1. 1..0 = {} /\ map[{}] = [u \in {} |-> u]
    BY <1>1 DEF Reads
  <2> QED
    BY <2>1
<1>3. ASSUME NEW k \in Nat, k \in S PROVE k + 1 \in S
  <2> SUFFICES ASSUME k + 1 <= n PROVE Good(map[1..(k + 1)], k + 1)
    OBVIOUS
  <2> DEFINE old == map[1..k]
             new == map[1..(k + 1)]
             entry == file[k + 1]
  <2>1. Good(old, k)
    BY <1>3
  <2>2. new = ReadEntry(old, entry)
    <3> DEFINE s == 1..(k + 1)
    <3>1. s \in SUBSET DOMAIN file /\ s # {} /\ s \in SUBSET (0..n)
      OBVIOUS
    <3>2. Max(s) \in s /\ \A j \in s : j <= Max(s)
      <4> HIDE DEF s
      <4> QED
        BY <3>1, Largest
    <3>3. Max(s) = k + 1 /\ s \ {k + 1} = 1..k
      BY <3>2
    <3>4. map[s] = ReadEntry(map[s \ {Max(s)}], file[Max(s)])
      <4> HIDE DEF s
      <4> QED
        BY <1>1, <3>1 DEF Reads
    <3> QED
      BY <3>3, <3>4
  <2>3. /\ DOMAIN new = DOMAIN old \cup Forms(entry)
        /\ \A u \in DOMAIN new :
             new[u] = IF u \in Forms(entry) THEN Raw[entry.name] ELSE old[u]
        /\ new = [u \in DOMAIN new |-> new[u]]
    BY <2>2 DEF ReadEntry, Forms
  <2>4. \A i \in 1..k : Forms(file[i]) \cap Forms(entry) = {}
    BY DEF Clean, Forms
  <2> HIDE DEF old, new
  <2>5. DOMAIN new = UNION {Forms(file[i]) : i \in 1..(k + 1)}
    <3>1. UNION {Forms(file[i]) : i \in 1..(k + 1)}
            = (UNION {Forms(file[i]) : i \in 1..k}) \cup Forms(entry)
      <4>1. 1..(k + 1) = (1..k) \cup {k + 1}
        OBVIOUS
      <4> QED
        BY <4>1
    <3> QED
      BY <2>1, <2>3, <3>1
  <2>6. ASSUME NEW i \in 1..(k + 1), NEW u \in Forms(file[i])
        PROVE  new[u] = Raw[file[i].name]
    <3>1. u \in DOMAIN new
      BY <2>5
    <3>2. CASE i = k + 1
      BY <2>3, <3>1, <3>2
    <3>3. CASE i # k + 1
      <4>1. i \in 1..k
        BY <3>3
      <4>2. u \notin Forms(entry) /\ old[u] = Raw[file[i].name]
        BY <2>1, <2>4, <4>1
      <4> QED
        BY <2>3, <3>1, <4>2
    <3> QED
      BY <3>2, <3>3
  <2>7. Good(new, k + 1)
    BY <2>3, <2>5, <2>6
  <2> QED
    BY <2>7 DEF new
<1>4. Good(map[1..n], n)
  <2> HIDE DEF Good
  <2>1. n \in S
    <3> HIDE DEF S
    <3> QED
      BY <1>2, <1>3, Induction
  <2> QED
    BY <2>1
<1> QED
  BY <1>1, <1>4

\* The files an agent is started with are sequences of well-formed entries.
LEMMA FileDef ==
  ASSUME NEW file \in File
  PROVE  \E n \in Nat :
           /\ DOMAIN file = 1..n
           /\ \A i \in 1..n :
                /\ Forms(file[i]) \subseteq Capability
                /\ Raw[file[i].name] \in Forms(file[i])
<1>1. file \in Seq([name: Name, aliases: SUBSET Name]) /\ Loads(file)
  BY AgentAssumption
<1> DEFINE Entry == [name: Name, aliases: SUBSET Name]
<1> HIDE DEF Entry
<1>2. /\ Len(file) \in Nat /\ DOMAIN file = 1..Len(file)
      /\ \A i \in 1..Len(file) : file[i] \in Entry
  <2>1. file \in Seq(Entry)
    BY <1>1 DEF Entry
  <2> QED
    BY <2>1
<1>3. ASSUME NEW i \in 1..Len(file)
      PROVE  Forms(file[i]) \subseteq Capability /\ Raw[file[i].name] \in Forms(file[i])
  <2>1. file[i] \in [name: Name, aliases: SUBSET Name]
    BY <1>2 DEF Entry
  <2>2. Listed(file[i]) \subseteq Name /\ file[i].name \in Listed(file[i])
    BY <2>1 DEF Listed
  <2>3. \A s \in Listed(file[i]) : Raw[s] \in Capability
    BY <1>1, <1>2, <2>2, NameAssumption DEF Loads
  <2> QED
    BY <2>2, <2>3 DEF Forms
<1> QED
  BY <1>2, <1>3

\* In a clean file the entry of a form is the only one, and what it is called
\* is one of its forms.
LEMMA CleanMeaning ==
  ASSUME NEW file \in File, Clean(file), NEW map, map = Vocabulary(file)
  PROVE  /\ DOMAIN map \subseteq Capability
         /\ \A u \in DOMAIN map : map[u] \in DOMAIN map /\ map[map[u]] = map[u]
         /\ \A u, w \in Capability :
              (u = w \/ \E i \in DOMAIN file : {u, w} \subseteq Forms(file[i]))
                <=> Canonical(map, u) = Canonical(map, w)
<1>1. PICK n \in Nat : /\ DOMAIN file = 1..n
                       /\ \A i \in 1..n : /\ Forms(file[i]) \subseteq Capability
                                          /\ Raw[file[i].name] \in Forms(file[i])
  BY FileDef
<1>2. /\ DOMAIN map = UNION {Forms(file[i]) : i \in 1..n}
      /\ \A i \in 1..n : \A u \in Forms(file[i]) : map[u] = Raw[file[i].name]
  <2>1. /\ DOMAIN Vocabulary(file) = UNION {Forms(file[i]) : i \in 1..n}
        /\ \A i \in 1..n : \A u \in Forms(file[i]) :
             Vocabulary(file)[u] = Raw[file[i].name]
    BY <1>1, VocabularyDef
  <2> QED
    BY <2>1
<1>3. \A i, j \in 1..n : i # j => Forms(file[i]) \cap Forms(file[j]) = {}
  BY <1>1 DEF Clean, Forms
<1>4. DOMAIN map \subseteq Capability
  BY <1>1, <1>2
<1>5. \A u \in DOMAIN map : \E i \in 1..n : u \in Forms(file[i])
  BY <1>2
<1>6. \A i \in 1..n : Forms(file[i]) \subseteq DOMAIN map
  BY <1>2
<1>7. ASSUME NEW u \in DOMAIN map PROVE map[u] \in DOMAIN map /\ map[map[u]] = map[u]
  <2>1. PICK i \in 1..n : u \in Forms(file[i])
    BY <1>5
  <2>2. map[u] = Raw[file[i].name] /\ map[u] \in Forms(file[i])
    BY <1>1, <1>2, <2>1
  <2> QED
    BY <1>2, <1>6, <2>2
<1>8. ASSUME NEW u \in Capability, NEW w \in Capability,
             NEW i \in 1..n, u \in Forms(file[i]), w \in Forms(file[i])
      PROVE  Canonical(map, u) = Canonical(map, w)
  BY <1>2, <1>6, <1>8 DEF Canonical
<1>9. ASSUME NEW u \in Capability, NEW w \in Capability, u # w,
             Canonical(map, u) = Canonical(map, w)
      PROVE  \E i \in 1..n : {u, w} \subseteq Forms(file[i])
  <2>1. CASE u \in DOMAIN map /\ w \in DOMAIN map
    <3>1. PICK i \in 1..n : u \in Forms(file[i])
      BY <1>5, <2>1
    <3>2. PICK j \in 1..n : w \in Forms(file[j])
      BY <1>5, <2>1
    <3>3. Raw[file[i].name] = Raw[file[j].name]
      BY <1>2, <1>9, <2>1, <3>1, <3>2 DEF Canonical
    <3>4. i = j
      BY <1>1, <1>3, <3>3
    <3> QED
      BY <3>1, <3>2, <3>4
  <2>2. CASE u \in DOMAIN map /\ w \notin DOMAIN map
    BY <1>7, <1>9, <2>2 DEF Canonical
  <2>3. CASE u \notin DOMAIN map /\ w \in DOMAIN map
    BY <1>7, <1>9, <2>3 DEF Canonical
  <2>4. CASE u \notin DOMAIN map /\ w \notin DOMAIN map
    BY <1>9, <2>4 DEF Canonical
  <2> QED
    BY <2>1, <2>2, <2>3, <2>4
<1> QED
  BY <1>1, <1>4, <1>7, <1>8, <1>9

\* The entry to_dict() writes for a canonical name.
EntryOf(map, c) == [name |-> c, aliases |-> {u \in DOMAIN map : map[u] = c /\ u # c}]

LEMMA EntryForms ==
  ASSUME NEW map, DOMAIN map \subseteq Capability,
         NEW c \in DOMAIN map, map[c] = c
  PROVE  Forms(EntryOf(map, c)) = {u \in DOMAIN map : map[u] = c}
         /\ Raw[EntryOf(map, c).name] = c
<1>1. Listed(EntryOf(map, c)) = {u \in DOMAIN map : map[u] = c}
  BY DEF Listed, EntryOf
<1>2. \A u \in DOMAIN map : Raw[u] = u
  BY NameAssumption
<1>3. {Raw[u] : u \in {w \in DOMAIN map : map[w] = c}} = {u \in DOMAIN map : map[u] = c}
  BY <1>2
<1>4. EntryOf(map, c).name = c
  BY DEF EntryOf
<1> QED
  BY <1>1, <1>2, <1>3, <1>4 DEF Forms

\* to_dict() writes finitely many entries.
LEMMA ToDictFinite ==
  ASSUME NEW file \in File, Clean(file)
  PROVE  IsFiniteSet(ToDict(Vocabulary(file)))
<1> DEFINE map == Vocabulary(file)
<1>1. PICK n \in Nat : /\ DOMAIN file = 1..n
                       /\ \A i \in 1..n : Raw[file[i].name] \in Forms(file[i])
  BY FileDef
<1>2. /\ DOMAIN map = UNION {Forms(file[i]) : i \in 1..n}
      /\ \A i \in 1..n : \A u \in Forms(file[i]) : map[u] = Raw[file[i].name]
  BY <1>1, VocabularyDef
<1> DEFINE D == ToDict(map)
           f == [i \in 1..n |-> EntryOf(map, Raw[file[i].name])]
<1>3. D = {EntryOf(map, c) : c \in {map[u] : u \in DOMAIN map}}
  BY DEF ToDict, EntryOf
<1> HIDE DEF map, D
<1>4. {map[u] : u \in DOMAIN map} = {Raw[file[i].name] : i \in 1..n}
  BY <1>1, <1>2
<1>5. D = {EntryOf(map, Raw[file[i].name]) : i \in 1..n}
  BY <1>3, <1>4
<1>6. f \in Surjection(1..n, D)
  BY <1>5 DEF Surjection
<1>7. IsFiniteSet(1..n)
  BY FS_Interval
<1>8. IsFiniteSet(D)
  BY <1>6, <1>7, FS_Surjection
<1> QED
  BY <1>8 DEF D, map

\* A fork of a clean vocabulary means the same in whatever order it is read.
LEMMA ForkMeaning ==
  ASSUME NEW file \in File, Clean(file), NEW fork \in SetToSeqs(ToDict(Vocabulary(file)))
  PROVE  Vocabulary(fork) = Vocabulary(file)
<1> DEFINE map == Vocabulary(file)
           D == ToDict(map)
           k == Cardinality(D)
<1>1. /\ DOMAIN map \subseteq Capability
      /\ \A u \in DOMAIN map : map[u] \in DOMAIN map /\ map[map[u]] = map[u]
  BY CleanMeaning
<1>2. map = [u \in DOMAIN map |-> map[u]]
  <2>1. PICK n \in Nat : DOMAIN file = 1..n
    BY FileDef
  <2> QED
    BY <2>1, VocabularyDef
<1>3. IsFiniteSet(D) /\ k \in Nat
  BY ToDictFinite, FS_CardinalityType
<1>4. D = {EntryOf(map, c) : c \in {map[u] : u \in DOMAIN map}}
  BY DEF ToDict, EntryOf
<1>5. /\ fork \in [1..k -> D] /\ DOMAIN fork = 1..k
      /\ \A i, j \in 1..k : i # j => fork[i] # fork[j]
  BY DEF SetToSeqs
<1> HIDE DEF map, D, k
<1>6. \A e \in D : \E i \in 1..k : fork[i] = e
  <2>1. fork \in Injection(1..k, D)
    BY <1>5 DEF Injection, IsInjective
  <2>2. IsFiniteSet(1..k) /\ Cardinality(1..k) = k
    BY <1>3, FS_Interval
  <2>3. fork \in Surjection(1..k, D)
    BY <1>3, <2>1, <2>2, FS_Injection DEF k
  <2> QED
    BY <2>3 DEF Surjection
<1>7. ASSUME NEW i \in 1..k
      PROVE  \E c \in DOMAIN map : /\ map[c] = c /\ fork[i] = EntryOf(map, c)
                                   /\ Forms(fork[i]) = {u \in DOMAIN map : map[u] = c}
                                   /\ Raw[fork[i].name] = c
  <2>1. PICK c \in {map[u] : u \in DOMAIN map} : fork[i] = EntryOf(map, c)
    BY <1>4, <1>5
  <2>2. c \in DOMAIN map /\ map[c] = c
    BY <1>1
  <2>3. Forms(EntryOf(map, c)) = {u \in DOMAIN map : map[u] = c}
        /\ Raw[EntryOf(map, c).name] = c
    BY <1>1, <2>2, EntryForms
  <2> QED
    BY <2>1, <2>2, <2>3
<1>8. Clean(fork)
  <2> SUFFICES ASSUME NEW i \in 1..k, NEW j \in 1..k, i # j
               PROVE  Forms(fork[i]) \cap Forms(fork[j]) = {}
    BY <1>5 DEF Clean, Forms
  <2>1. PICK c \in DOMAIN map : /\ fork[i] = EntryOf(map, c)
                                /\ Forms(fork[i]) = {u \in DOMAIN map : map[u] = c}
    BY <1>7
  <2>2. PICK d \in DOMAIN map : /\ fork[j] = EntryOf(map, d)
                                /\ Forms(fork[j]) = {u \in DOMAIN map : map[u] = d}
    BY <1>7
  <2>3. c # d
    BY <1>5, <2>1, <2>2
  <2> QED
    BY <2>1, <2>2, <2>3
<1>9. /\ DOMAIN Vocabulary(fork) = UNION {Forms(fork[i]) : i \in 1..k}
      /\ \A i \in 1..k : \A u \in Forms(fork[i]) : Vocabulary(fork)[u] = Raw[fork[i].name]
      /\ Vocabulary(fork) = [u \in DOMAIN Vocabulary(fork) |-> Vocabulary(fork)[u]]
  BY <1>3, <1>5, <1>8, VocabularyDef
<1> DEFINE back == Vocabulary(fork)
<1> HIDE DEF back
<1>10. ASSUME NEW u \in DOMAIN map PROVE u \in DOMAIN back /\ back[u] = map[u]
  <2>1. EntryOf(map, map[u]) \in D
    BY <1>4
  <2>2. PICK i \in 1..k : fork[i] = EntryOf(map, map[u])
    BY <1>6, <2>1
  <2>3. /\ Forms(fork[i]) = {w \in DOMAIN map : map[w] = map[u]}
        /\ Raw[fork[i].name] = map[u]
    BY <1>1, <2>2, EntryForms
  <2>4. u \in Forms(fork[i])
    BY <2>3
  <2> QED
    BY <1>9, <2>3, <2>4 DEF back
<1>11. DOMAIN back \subseteq DOMAIN map
  BY <1>7, <1>9 DEF back
<1>12. DOMAIN back = DOMAIN map
  BY <1>10, <1>11
<1>13. back = map
  BY <1>2, <1>9, <1>10, <1>12 DEF back
<1> QED
  BY <1>13 DEF back, map

\* With a clean file, what one entry lists is understood both ways however it
\* is spelled, nothing else is without a semantic layer, and a fork written by
\* to_dict() means the same, for every vocabulary file and every matcher
\* (matching.py:85-98, 142-150, 169-195).
THEOREM EntriesAreUnderstood == Spec => []ListedIsUnderstood
<1>1. Prompted => ListedIsUnderstood
  <2> SUFFICES ASSUME Prompted, Met, Clean(proposal.file)
               PROVE  LET m == proposal.matcher
                      IN  /\ \A n, s \in {k \in Name : Raw[k] # Malformed} :
                               IF SameEntry(proposal.file, n, s)
                               THEN MatchConfidence(m, n, s) >= VocabConf
                               ELSE MatchConfidence(m, n, s)
                                      <= (IF m.semantic = "off" THEN 0 ELSE SemanticMax)
                          /\ \A fork \in SetToSeqs(ToDict(m.map)) : Vocabulary(fork) = m.map
    BY DEF ListedIsUnderstood
  <2> DEFINE m == proposal.matcher
             file == proposal.file
  <2>1. m.semantic \in Semantic /\ file \in File /\ m.map = Vocabulary(file)
    BY DEF Prompted
  <2> HIDE DEF m, file
  <2>2. ASSUME NEW n \in Name, Raw[n] # Malformed, NEW s \in Name, Raw[s] # Malformed
        PROVE  IF SameEntry(file, n, s)
               THEN MatchConfidence(m, n, s) >= VocabConf
               ELSE MatchConfidence(m, n, s) <= (IF m.semantic = "off" THEN 0 ELSE SemanticMax)
    <3>1. Raw[n] \in Capability /\ Raw[s] \in Capability
      BY <2>2, NameAssumption
    <3>2. SameEntry(file, n, s) <=>
            Raw[n] = Raw[s]
              \/ \E i \in DOMAIN file : {Raw[n], Raw[s]} \subseteq Forms(file[i])
      BY DEF SameEntry, Forms
    <3>3. SameEntry(file, n, s) <=> Canonical(m.map, Raw[n]) = Canonical(m.map, Raw[s])
      BY <2>1, <3>1, <3>2, CleanMeaning DEF file
    <3> QED
      BY <2>1, <3>1, <3>3, ConfidenceType
  <2>3. \A fork \in SetToSeqs(ToDict(m.map)) : Vocabulary(fork) = m.map
    BY <2>1, ForkMeaning DEF file
  <2> QED
    BY <2>2, <2>3 DEF m, file
<1> QED
  BY <1>1, InitDeserved, NextDeserved, InitPrompted, NextPrompted, PTL DEF Spec
=============================================================================
