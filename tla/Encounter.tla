----------------------------- MODULE Encounter -----------------------------
(***************************************************************************)
(* One agent before a stranger: the encounter handler, which matches the    *)
(* two cards and asks for what clears (FLPAgent.handle_encounter() with     *)
(* Matcher.match_cards() and CostModel.proposal_items()), beside the        *)
(* responder of Appraisal.  Trust moves between any two requests, and the   *)
(* agent may have been started with any vocabulary file and semantic layer. *)
(*                                                                         *)
(* Proposal ids, the cooperation that is registered and signatures are the  *)
(* matter of Handshake.                                                     *)
(***************************************************************************)
EXTENDS Matching

CONSTANTS
  Need, Surplus,     \* the agent's own lists
  MyMagnitude,       \* FLPAgent.magnitudes, DefaultMagnitude where it says nothing
  DefaultMagnitude,
  Card,              \* bound: the cards that come
  File,              \* bound: the vocabulary files
  MaxItems           \* bound: the items of an offer

ASSUME AgentAssumption ==
  /\ Need \subseteq Name /\ Surplus \subseteq Name
  /\ MyMagnitude \in [Capability -> Nat] /\ DefaultMagnitude \in Nat
  /\ Card \subseteq [needs: SUBSET Name, surplus: SUBSET Name]
  /\ File \subseteq Seq([name: Name, aliases: SUBSET Name])
  /\ \A file \in File : Loads(file)

VARIABLE
  proposal  \* the answer to the last request, if that was an encounter

vars == <<trust, answer, proposal>>

Unmet == [decision |-> "none"]

Init == InitAppraisal /\ proposal = Unmet

----------------------------------------------------------------------------
Semantic == {"off", "embeddings", "own"}

Defaults == [cap \in Capability |-> DefaultMagnitude]

(* match_cards(), the items I need and those I offer; proposal_items().     *)
Matched(m, card) == Match(m, Need, card.surplus, MyMagnitude)
Offered(m, card) == Match(m, card.needs, Surplus, Defaults)

Cleared(t, items) ==
  [cap \in {k \in DOMAIN items : Clears(k, t, items[k])} |-> items[cap]]

\* handle_encounter(): nothing asked and nothing offered is a pass.
Encountered(card, file, semantic) ==
  LET m == [map |-> Vocabulary(file), semantic |-> semantic]
      asks == Cleared(trust, Matched(m, card))
      offers == Offered(m, card)
  IN  /\ proposal' =
           [decision |-> IF DOMAIN asks = {} /\ DOMAIN offers = {} THEN "pass" ELSE "propose",
            card |-> card, trust |-> trust, file |-> file, matcher |-> m,
            asks |-> asks, offers |-> offers]
      /\ answer' = Unanswered
      /\ UNCHANGED trust

Responds(items) ==
  /\ Cardinality(DOMAIN items) <= MaxItems
  /\ Respond(items)
  /\ proposal' = Unmet

Next ==
  \/ \E card \in Card, file \in File, semantic \in Semantic : Encountered(card, file, semantic)
  \/ \E items \in Offers : Responds(items)
  \/ \E net \in Evidence : TrustMoves(net) /\ UNCHANGED proposal

Spec == Init /\ [][Next]_vars

----------------------------------------------------------------------------
Met == proposal.decision # "none"

\* Type invariant: what is asked are needs of the agent's own, what is offered
\* needs of the card, each under its normal form and with a real confidence.
TypeOK ==
  /\ AppraisalTyped
  /\ Met =>
       /\ proposal.decision \in {"pass", "propose"} /\ proposal.trust \in 0..Unit
       /\ DOMAIN proposal.asks \subseteq Capability \cap {Raw[n] : n \in Need}
       /\ DOMAIN proposal.offers \subseteq Capability \cap {Raw[n] : n \in proposal.card.needs}
       /\ \A items \in {proposal.asks, proposal.offers} : \A cap \in DOMAIN items :
            items[cap].mag \in Nat /\ items[cap].conf \in 1..ExactConf

Grows(items, more) ==
  \A cap \in DOMAIN items : cap \in DOMAIN more /\ items[cap].conf <= more[cap].conf

\* A card that has more to give, from a peer that is trusted no less, never
\* gets less asked or asked with less certainty; one that needs more is never
\* offered less (matching.py:214-219, the best of all surpluses;
\* cost_model.py:105).
MoreNeverHurts ==
  [][LET p == proposal  q == proposal'
     IN  p.decision # "none" /\ q.decision # "none" /\ p.matcher = q.matcher =>
           /\ p.card.surplus \subseteq q.card.surplus /\ p.trust <= q.trust
                => Grows(p.asks, q.asks)
           /\ p.card.needs \subseteq q.card.needs => Grows(p.offers, q.offers)]_vars

\* The names of a card that mean the same as cap, by spelling or vocabulary.
Synonyms(m, cap, names) ==
  {s \in names : Raw[s] # Malformed /\ Canonical(m.map, Raw[s]) = Canonical(m.map, cap)}

\* What only the semantic layer matches is taken for less, at the same trust,
\* than a synonym would be, whichever semantic matcher is plugged in and
\* however sure it is (semantic.py:24-27, matching.py:193).
SemanticIsSmaller ==
  Met => \A cap \in DOMAIN proposal.asks :
    /\ Synonyms(proposal.matcher, cap, proposal.card.surplus) = {}
         => SafeMagnitude(cap, proposal.trust, proposal.asks[cap].conf)
              < SafeMagnitude(cap, proposal.trust, VocabConf)
    /\ proposal.matcher.semantic = "off"
         => Synonyms(proposal.matcher, cap, proposal.card.surplus) # {}

\* A file that lists no capability twice, whatever the spelling.
Clean(file) ==
  \A i, j \in DOMAIN file : i # j =>
    {Raw[s] : s \in Listed(file[i])} \cap {Raw[s] : s \in Listed(file[j])} = {}

SameEntry(file, n, s) ==
  Raw[n] = Raw[s] \/ \E i \in DOMAIN file : {Raw[n], Raw[s]} \subseteq {Raw[u] : u \in Listed(file[i])}

\* With a clean file, what one entry lists is understood both ways, however it
\* is spelled; nothing else is without a semantic layer; and a fork written by
\* to_dict() means the same, in whatever order its entries are read
\* (matching.py:89-93, 142-150, 175-187).
ListedIsUnderstood ==
  Met /\ Clean(proposal.file) =>
    LET m == proposal.matcher
    IN  /\ \A n, s \in {k \in Name : Raw[k] # Malformed} :
             IF SameEntry(proposal.file, n, s) THEN MatchConfidence(m, n, s) >= VocabConf
             ELSE MatchConfidence(m, n, s) <= (IF m.semantic = "off" THEN 0 ELSE SemanticMax)
        /\ \A fork \in SetToSeqs(ToDict(m.map)) : Vocabulary(fork) = m.map
=============================================================================
