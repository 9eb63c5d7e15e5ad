----------------------------- MODULE Appraisal -----------------------------
(***************************************************************************)
(* The cost model (flp/cost_model.py) and what handle_respond() does with   *)
(* it (flp/agent.py): the offered items are appraised at the responder's    *)
(* trust in the proposer; all are taken, or some are answered with the      *)
(* largest safe magnitude, or the proposal is declined.  Trust moves        *)
(* between two appraisals, and the proposer may come back with less.        *)
(*                                                                         *)
(* Fractions are exact: trust and confidence count Unit-ths, magnitudes are *)
(* whole thousandths (the counter-offer's rounding), and risk per magnitude *)
(* and cost are integers in a common unit.  Encounter puts these operations *)
(* beside the encounter handler of the same agent.                          *)
(***************************************************************************)
EXTENDS Integers

CONSTANTS
  Unit,              \* trust 1.0 and match confidence 1.0
  MinConf,           \* the floor under the confidence, 1e-6
  RiskMax, RiskMin,  \* RISK_MAX and RISK_MIN
  Transport,         \* transport_cost
  Capability,
  Solo,              \* solo_cost of each capability
  Magnitude,         \* bound: the magnitudes offered
  Confidence,        \* bound: the match confidences claimed, in range or not
  Evidence           \* bound: the values trust is computed from, floored at 0

ASSUME CostAssumption ==
  /\ Unit \in Nat \ {0} /\ MinConf \in 1..Unit
  /\ RiskMin \in Nat \ {0} /\ RiskMax \in Nat /\ RiskMin <= RiskMax
  /\ Transport \in Nat /\ Solo \in [Capability -> Nat]
  /\ Magnitude \subseteq Nat /\ Confidence \subseteq Int /\ Evidence \subseteq Int

VARIABLES
  trust,   \* ledger.trust(proposer)
  answer   \* the last response: what was offered, at which trust, and the reply

appraisal == <<trust, answer>>

Item == [mag: Magnitude, conf: Confidence]

Unanswered == [decision |-> "none"]

InitAppraisal ==
  /\ trust = 0
  /\ answer = Unanswered

----------------------------------------------------------------------------
Clip(x, lo, hi) == IF x < lo THEN lo ELSE IF x > hi THEN hi ELSE x

\* Mutant of Risk: the two ends of the scale are swapped.
RiskRises(t) == RiskMin * Unit + Clip(t, 0, Unit) * (RiskMax - RiskMin)

(* risk(), in Unit-ths: falls from RiskMax at trust 0 to RiskMin at trust 1. *)
Risk(t) == RiskMax * Unit - Clip(t, 0, Unit) * (RiskMax - RiskMin)

Sure(c) == Clip(c, MinConf, Unit)

Headroom(cap) == Solo[cap] - Transport

(* evaluate_item(): transport + (risk / confidence) * magnitude < solo,     *)
(* multiplied out.                                                          *)
Clears(cap, t, item) == Risk(t) * item.mag < Headroom(cap) * Sure(item.conf)

\* round() of n / d: to the nearest, a tie to the even neighbour.
Rounded(n, d) ==
  LET q == n \div d
      r == n % d
  IN  IF 2 * r < d \/ (2 * r = d /\ q % 2 = 0) THEN q ELSE q + 1

\* Mutant of SafeMagnitude: the match confidence is left out.
SafeAsIfExact(cap, t, c) == Rounded(Headroom(cap) * Unit, Risk(t))

(* max_safe_magnitude() as the counter-offer carries it.                    *)
SafeMagnitude(cap, t, c) == Rounded(Headroom(cap) * Sure(c), Risk(t))

Countered(cap, t, item) == ~Clears(cap, t, item) /\ Headroom(cap) > 0

\* Mutant of Decision: all(decisions), where "counter" counts as true.
DecisionTruthy(t, items) ==
  IF DOMAIN items # {}
     /\ \A cap \in DOMAIN items :
          Clears(cap, t, items[cap]) \/ Countered(cap, t, items[cap]) THEN "accept"
  ELSE IF \E cap \in DOMAIN items : Countered(cap, t, items[cap]) THEN "counter"
  ELSE "decline"

(* The decision on the items received, and the counters that go with it.    *)
Decision(t, items) ==
  IF DOMAIN items # {} /\ \A cap \in DOMAIN items : Clears(cap, t, items[cap]) THEN "accept"
  ELSE IF \E cap \in DOMAIN items : Countered(cap, t, items[cap]) THEN "counter"
  ELSE "decline"

CounterItems(t, items) ==
  [cap \in {k \in DOMAIN items : Countered(k, t, items[k])} |->
     SafeMagnitude(cap, t, items[cap].conf)]

Respond(items) ==
  /\ answer' = [decision |-> Decision(trust, items), items |-> items, trust |-> trust,
                counters |-> CounterItems(trust, items)]
  /\ UNCHANGED trust

(* _evidence_to_trust(): nothing below the floor, nothing above 1.           *)
TrustMoves(net) ==
  /\ trust' = Clip(net, 0, Unit)
  /\ UNCHANGED answer

Offers == UNION {[caps -> Item] : caps \in SUBSET Capability}

----------------------------------------------------------------------------
\* Trust stays in [0, 1], no counter-offer is negative.
AppraisalTyped ==
  /\ trust \in 0..Unit
  /\ \/ answer = Unanswered
     \/ /\ answer.decision \in {"accept", "counter", "decline"}
        /\ answer.items \in Offers
        /\ answer.trust \in 0..Unit
        /\ DOMAIN answer.counters \subseteq DOMAIN answer.items
        /\ \A cap \in DOMAIN answer.counters : answer.counters[cap] \in Nat

\* An offer that asks no more, of one that was accepted, and is no less sure.
NoMoreThan(items, accepted) ==
  /\ DOMAIN items # {} /\ DOMAIN items \subseteq DOMAIN accepted
  /\ \A cap \in DOMAIN items :
       items[cap].mag <= accepted[cap].mag /\ items[cap].conf >= accepted[cap].conf

\* More trust, a smaller magnitude or a surer match never turns an acceptance
\* into a refusal (cost_model.py:43, 95-105; PROTOCOL.md 5.3).
NeverPunished ==
  [][/\ answer.decision = "accept" /\ answer'.decision # "none"
     /\ NoMoreThan(answer'.items, answer.items) /\ answer'.trust >= answer.trust
     => answer'.decision = "accept"]_appraisal

\* The items of a counter-offer, each one thousandth below what it names.
ShavedCounter(a) ==
  [cap \in DOMAIN a.counters |->
     [mag |-> a.counters[cap] - 1, conf |-> a.items[cap].conf]]

\* A counter-offer is workable: whoever comes back with its items, a rounding
\* step below what was asked and at no less trust, is accepted.
CounterIsWorkable ==
  answer.decision = "counter" /\ trust >= answer.trust =>
    Decision(trust, ShavedCounter(answer)) = "accept"

\* Nothing is accepted above the ceiling a counter-offer at the same trust
\* would have named: evaluate_item() and max_safe_magnitude() agree.
StakesBounded ==
  answer.decision = "accept" =>
    \A cap \in DOMAIN answer.items :
      answer.items[cap].mag <= SafeMagnitude(cap, answer.trust, answer.items[cap].conf)
=============================================================================
