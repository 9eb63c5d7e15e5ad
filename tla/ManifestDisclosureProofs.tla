---------------------- MODULE ManifestDisclosureProofs ----------------------
(* A challenge buys one reveal, only its owner can spend it, and nothing is  *)
(* shown above the policy, with any number of sessions, dids, tiers,         *)
(* policies and reissues.                                                    *)
EXTENDS ManifestDisclosure, TLAPS

Challenged == DOMAIN drawn

Phase == {"new", "challenged", "answered", "done"}

\* What is pending for a did was drawn for it and has bought nothing yet.
PendingUnspent ==
  \A d \in Did : challenges[d] # None =>
    /\ challenges[d] \in Challenged
    /\ drawn[challenges[d]].did = d
    /\ drawn[challenges[d]].reveals = 0

Typed ==
  /\ challenges \in [Did -> Nat \cup {None}]
  /\ drawn \in Seq([did: Did, reveals: Nat])
  /\ responses \subseteq Response
  /\ stage \in [Session -> [at: Phase, nonce: Nat \cup {None}]]
  /\ \A s \in Session : stage[s].at # "new" => stage[s].nonce \in Nat

\* The answer a session is about to send has been signed.
AnswersSigned ==
  \A s \in Session : stage[s].at = "answered" =>
    [agent |-> Key[s], challenge |-> stage[s].nonce] \in responses

\* The inductive invariant.
IInv ==
  /\ Typed
  /\ PendingUnspent
  /\ AnswersSigned
  /\ OneRevealPerChallenge
  /\ KeyProven

\* At first there is no challenge (manifest.py:283).
LEMMA InitEstablishes == Init => IInv
<1> SUFFICES ASSUME Init PROVE IInv
  OBVIOUS
<1>1. challenges = [d \in Did |-> None] /\ drawn = <<>> /\ responses = {}
      /\ stage = [s \in Session |-> [at |-> "new", nonce |-> None]]
  BY DEF Init
<1>2. Typed
  <2>1. challenges \in [Did -> Nat \cup {None}]
    BY <1>1
  <2>2. drawn \in Seq([did: Did, reveals: Nat])
    BY <1>1
  <2>3. stage \in [Session -> [at: Phase, nonce: Nat \cup {None}]]
    BY <1>1 DEF Phase
  <2> QED BY <1>1, <2>1, <2>2, <2>3 DEF Typed
<1>3. PendingUnspent /\ AnswersSigned
  BY <1>1 DEF PendingUnspent, AnswersSigned
<1>4. OneRevealPerChallenge /\ KeyProven
  BY <1>1 DEF OneRevealPerChallenge, KeyProven, Nonce
<1> QED BY <1>2, <1>3, <1>4 DEF IInv

\* challenge() appends a fresh one and makes it the pending one.
LEMMA ChallengeKeeps ==
  ASSUME IInv, NEW s \in Session, Challenge(s)
  PROVE  IInv'
<1> DEFINE n == Len(drawn) + 1
           entry == [did |-> Claim[s], reveals |-> 0]
<1>1. /\ drawn' = Append(drawn, entry)
      /\ challenges' = [challenges EXCEPT ![Claim[s]] = n]
      /\ responses' = responses
      /\ stage' = [stage EXCEPT ![s] = [at |-> "challenged", nonce |-> n]]
  BY DEF Challenge
<1>2. Claim[s] \in Did /\ entry \in [did: Did, reveals: Nat]
  BY SessionAssumption
<1>3. /\ Len(drawn) \in Nat /\ n \in Nat /\ n # None
      /\ Nonce = 1..Len(drawn) /\ Nonce' = 1..n
      /\ Challenged = Nonce /\ Challenged' = Nonce'
      /\ drawn'[n] = entry
      /\ \A i \in Nonce : drawn'[i] = drawn[i]
  BY <1>1, <1>2, NoneAssumption DEF IInv, Typed, Nonce, Challenged
<1>4. Typed'
  <2>1. drawn' \in Seq([did: Did, reveals: Nat])
    BY <1>1, <1>2 DEF IInv, Typed
  <2>2. challenges' \in [Did -> Nat \cup {None}]
    BY <1>1, <1>2, <1>3 DEF IInv, Typed
  <2>3. /\ stage' \in [Session -> [at: Phase, nonce: Nat \cup {None}]]
        /\ \A t \in Session : stage'[t].at # "new" => stage'[t].nonce \in Nat
    BY <1>1, <1>3 DEF IInv, Typed, Phase
  <2> QED BY <1>1, <2>1, <2>2, <2>3 DEF IInv, Typed
<1>5. PendingUnspent'
  <2> SUFFICES ASSUME NEW d \in Did, challenges'[d] # None
               PROVE  /\ challenges'[d] \in Challenged'
                      /\ drawn'[challenges'[d]].did = d
                      /\ drawn'[challenges'[d]].reveals = 0
    BY DEF PendingUnspent
  <2>1. CASE d = Claim[s]
    BY <1>1, <1>2, <1>3, <2>1 DEF IInv, Typed
  <2>2. CASE d # Claim[s]
    BY <1>1, <1>2, <1>3, <2>2 DEF IInv, Typed, PendingUnspent
  <2> QED BY <2>1, <2>2
<1>6. OneRevealPerChallenge'
  BY <1>3 DEF IInv, OneRevealPerChallenge
<1>7. KeyProven'
  BY <1>1, <1>3 DEF IInv, KeyProven
<1>8. AnswersSigned'
  BY <1>1 DEF IInv, Typed, AnswersSigned
<1> QED BY <1>4, <1>5, <1>6, <1>7, <1>8 DEF IInv

\* What is in a sequence is of its set.
LEMMA ElementsOf == ASSUME NEW S, NEW q \in Seq(S)
                    PROVE  \A i \in DOMAIN q : q[i] \in S
  OBVIOUS

\* A request leaves its session where it was, or has done with its challenge.
LEMMA AfterKeeps ==
  ASSUME IInv, NEW s \in Session, NEW r, stage' = After(s, r),
         responses' = responses
  PROVE  /\ stage' \in [Session -> [at: Phase, nonce: Nat \cup {None}]]
         /\ \A t \in Session : stage'[t].at # "new" => stage'[t].nonce \in Nat
         /\ AnswersSigned'
<1>1. CASE stage' = stage
  BY <1>1 DEF IInv, Typed, AnswersSigned
<1>2. CASE stage' = [stage EXCEPT ![s].at = "done"] /\ stage[s].at = "answered"
  <2>1. stage' \in [Session -> [at: Phase, nonce: Nat \cup {None}]]
    BY <1>2 DEF IInv, Typed, Phase
  <2>2. \A t \in Session : /\ stage'[t].nonce = stage[t].nonce
                            /\ t # s => stage'[t].at = stage[t].at
    BY <1>2 DEF IInv, Typed
  <2>3. stage'[s].at = "done"
    BY <1>2 DEF IInv, Typed
  <2> QED BY <1>2, <2>1, <2>2, <2>3 DEF IInv, Typed, AnswersSigned
<1> QED BY <1>1, <1>2 DEF After

\* A request that takes a pending challenge away and shows nothing for it.
LEMMA PopKeeps ==
  ASSUME IInv, NEW s \in Session, NEW r, NEW d \in Did, challenges' = Popped(d),
         drawn' = drawn, responses' = responses, stage' = After(s, r)
  PROVE  IInv'
<1>1. \A e \in Did : challenges'[e] # None => challenges'[e] = challenges[e]
  BY DEF Popped, IInv, Typed
<1>2. Typed' /\ AnswersSigned'
  BY AfterKeeps DEF Popped, IInv, Typed
<1>3. PendingUnspent'
  BY <1>1 DEF IInv, PendingUnspent, Challenged
<1>4. OneRevealPerChallenge' /\ KeyProven'
  BY DEF IInv, OneRevealPerChallenge, KeyProven, Nonce
<1> QED BY <1>2, <1>3, <1>4 DEF IInv

\* The request that is served: its challenge had bought nothing, and goes.
LEMMA ProvenKeeps ==
  ASSUME IInv, NEW s \in Session, NEW tier,
         NEW r \in responses, RequestProven(s, tier, r)
  PROVE  IInv'
<1> DEFINE d == Claim[s]
           n == challenges[d]
<1>1. /\ challenges' = Popped(d) /\ responses' = responses
      /\ drawn' = [drawn EXCEPT ![n].reveals = @ + 1]
      /\ n # None /\ r.challenge = n /\ r.agent = d
  BY DEF RequestProven, Proves
<1>2. d \in Did
  BY SessionAssumption
<1>3. /\ n \in DOMAIN drawn /\ n \in Nonce
      /\ drawn[n].did = d /\ drawn[n].reveals = 0
  BY <1>1, <1>2 DEF IInv, PendingUnspent, Nonce, Challenged
<1>4. /\ drawn' \in Seq([did: Did, reveals: Nat])
      /\ Nonce' = Nonce /\ Challenged' = Challenged /\ Challenged = Nonce
      /\ drawn'[n] = [did |-> d, reveals |-> 1]
      /\ \A i \in Nonce : i # n => drawn'[i] = drawn[i]
  <2>1. drawn[n] = [did |-> d, reveals |-> 0]
    <3>1. drawn \in Seq([did: Did, reveals: Nat])
      BY DEF IInv, Typed
    <3>2. \A i \in DOMAIN drawn : drawn[i] \in [did: Did, reveals: Nat]
      BY ONLY <3>1, ElementsOf
    <3> QED BY <3>2, <1>3
  <2>2. [drawn[n] EXCEPT !.reveals = @ + 1] = [did |-> d, reveals |-> 1]
    BY <2>1
  <2>3. drawn' = [drawn EXCEPT ![n] = [did |-> d, reveals |-> 1]]
    BY <1>1, <2>2
  <2> QED BY <1>2, <1>3, <2>3 DEF IInv, Typed, Nonce, Challenged
<1>5. Typed' /\ AnswersSigned'
  BY <1>1, <1>2, <1>4, AfterKeeps DEF IInv, Typed, Popped, RequestProven
<1>6. PendingUnspent'
  <2> SUFFICES ASSUME NEW e \in Did, challenges'[e] # None
               PROVE  /\ challenges'[e] \in Challenged'
                      /\ drawn'[challenges'[e]].did = e
                      /\ drawn'[challenges'[e]].reveals = 0
    BY DEF PendingUnspent
  <2>1. e # d /\ challenges'[e] = challenges[e]
    BY <1>1, <1>2 DEF IInv, Typed, Popped
  <2>2. /\ challenges[e] \in Nonce /\ drawn[challenges[e]].did = e
        /\ drawn[challenges[e]].reveals = 0
    BY <2>1, <1>4 DEF IInv, PendingUnspent
  <2> QED BY <2>1, <2>2, <1>3, <1>4
<1>7. OneRevealPerChallenge'
  BY <1>4 DEF IInv, OneRevealPerChallenge
<1>8. KeyProven'
  <2>1. r = [agent |-> d, challenge |-> n]
    BY <1>1 DEF IInv, Typed, Response
  <2> QED BY <1>1, <1>4, <2>1 DEF IInv, KeyProven
<1> QED BY <1>5, <1>6, <1>7, <1>8 DEF IInv

\* Every action keeps the invariant; one lemma each for those that touch the
\* challenges.
LEMMA NextKeeps == IInv /\ [Next]_vars => IInv'
<1> SUFFICES ASSUME IInv, [Next]_vars PROVE IInv'
  OBVIOUS
<1> USE SessionAssumption
<1>1. ASSUME NEW s \in Session, Challenge(s) PROVE IInv'
  BY <1>1, ChallengeKeeps
<1>2. ASSUME NEW s \in Session, Sign(s) PROVE IInv'
  <2> DEFINE r == [agent |-> Key[s], challenge |-> stage[s].nonce]
  <2>1. /\ responses' = responses \cup {r}
        /\ stage' = [stage EXCEPT ![s].at = "answered"]
        /\ challenges' = challenges /\ drawn' = drawn
        /\ stage[s].at = "challenged"
    BY <1>2 DEF Sign
  <2>2. r \in Response
    BY <2>1 DEF IInv, Typed, Response
  <2>3. /\ stage' \in [Session -> [at: Phase, nonce: Nat \cup {None}]]
        /\ \A t \in Session : /\ stage'[t].nonce = stage[t].nonce
                               /\ t # s => stage'[t].at = stage[t].at
    BY <2>1 DEF IInv, Typed, Phase
  <2>4. Typed'
    BY <2>1, <2>2, <2>3 DEF IInv, Typed
  <2>5. AnswersSigned'
    BY <2>1, <2>3 DEF IInv, AnswersSigned
  <2>6. PendingUnspent' /\ OneRevealPerChallenge' /\ KeyProven'
    BY <2>1 DEF IInv, PendingUnspent, OneRevealPerChallenge, KeyProven, Nonce,
                Challenged
  <2> QED BY <2>4, <2>5, <2>6 DEF IInv
<1>3. ASSUME UNCHANGED <<challenges, drawn, responses, stage>> PROVE IInv'
  BY <1>3 DEF IInv, Typed, PendingUnspent, AnswersSigned, OneRevealPerChallenge,
              KeyProven, Nonce, Challenged
<1>4. ASSUME NEW s \in Session, NEW tier, NEW r \in responses \cup {None},
             Request(s, tier, r)
      PROVE  IInv'
  <2>1. CASE RequestProven(s, tier, r)
    BY <2>1, <1>4, ProvenKeeps DEF RequestProven, Proves
  <2>2. CASE RequestUnproven(s, r) \/ RequestUnknown(s, tier, r)
    BY <2>2, PopKeeps DEF RequestUnproven, RequestUnknown
  <2> QED BY <1>4, <2>1, <2>2 DEF Request
<1>5. ASSUME NEW s \in Session, RequestOwn(s) PROVE IInv'
  BY <1>5, <1>4 DEF RequestOwn, IInv, AnswersSigned
<1>6. ASSUME NEW s \in Session, RequestAny(s) PROVE IInv'
  BY <1>6, <1>4 DEF RequestAny
<1>7. ASSUME NEW content \in Content, Reissue(content) PROVE IInv'
  BY <1>7 DEF Reissue, IInv, Typed, PendingUnspent, AnswersSigned,
              OneRevealPerChallenge, KeyProven, Nonce, Challenged
<1>8. ASSUME NEW did \in Did, PolicyMoves(did) PROVE IInv'
  BY <1>8, <1>3 DEF PolicyMoves
<1>9. ASSUME NEW s \in Session, RequestOpen(s) PROVE IInv'
  BY <1>9, <1>3 DEF RequestOpen
<1>10. CASE UNCHANGED vars
  BY <1>10, <1>3 DEF vars
<1> QED BY <1>1, <1>2, <1>5, <1>6, <1>7, <1>8, <1>9, <1>10 DEF Next

\* The invariant holds in every reachable state.
LEMMA Invariance == Spec => []IInv
  BY InitEstablishes, NextKeeps, PTL DEF Spec

\* However many sessions contend for it and however often its answer is sent,
\* a challenge buys one reveal at most.
THEOREM OneReveal == Spec => []OneRevealPerChallenge
<1>1. IInv => OneRevealPerChallenge
  BY DEF IInv
<1> QED BY <1>1, Invariance, PTL

\* What is above the open tier is only shown for a challenge that the owner of
\* the did it was drawn for has signed.
THEOREM OnlyTheOwner == Spec => []KeyProven
<1>1. IInv => KeyProven
  BY DEF IInv
<1> QED BY <1>1, Invariance, PTL

----------------------------------------------------------------------------
\* A tier the announcer has is ranked by its one place in the order.
LEMMA RankPlaces ==
  ASSUME NEW i \in DOMAIN TierOrder
  PROVE  Known(TierOrder[i]) /\ Rank(TierOrder[i]) = i
  BY TierAssumption DEF Known, Rank

LEMMA KnownRanks ==
  ASSUME NEW tier, Known(tier)
  PROVE  Rank(tier) \in DOMAIN TierOrder /\ TierOrder[Rank(tier)] = tier /\ Rank(tier) \in Int
<1>1. PICK i \in DOMAIN TierOrder : TierOrder[i] = tier
  BY DEF Known
<1>2. i \in Int
  BY TierAssumption
<1> QED BY <1>1, <1>2, RankPlaces

\* What a policy that goes as far as `tier` lets a session see of a path.
Allowed(p, tier) ==
  \/ TierOf[p] \in {Baseline, OpenTier}
  \/ Known(TierOf[p]) /\ Rank(TierOf[p]) <= Rank(tier)

\* The open tier is the lowest, so that showing it shows nothing above it.
LEMMA OpenShows ==
  ASSUME NEW p \in Show(OpenTier).paths
  PROVE  TierOf[p] \in {Baseline, OpenTier}
<1>1. 1 \in DOMAIN TierOrder /\ OpenTier = TierOrder[1] /\ DOMAIN TierOrder \subseteq Nat \ {0}
  BY TierAssumption DEF OpenTier
<1>2. Rank(OpenTier) = 1
  BY <1>1, RankPlaces
<1>3. TierOf[p] = Baseline \/ (Known(TierOf[p]) /\ Rank(TierOf[p]) <= 1)
  BY <1>2 DEF Show, Shown
<1>4. CASE Known(TierOf[p]) /\ Rank(TierOf[p]) <= 1
  BY <1>1, <1>4, KnownRanks
<1> QED BY <1>3, <1>4

\* The lower of two tiers shows no more than the second of them.
LEMMA LowerShows ==
  ASSUME NEW tier, NEW granted, Known(tier), Known(granted),
         NEW p \in Show(Lower(tier, granted)).paths
  PROVE  Allowed(p, granted)
<1>1. Rank(Lower(tier, granted)) <= Rank(granted)
  BY KnownRanks DEF Lower
<1>2. Rank(Lower(tier, granted)) \in Int /\ Rank(granted) \in Int
  BY KnownRanks DEF Lower
<1>3. TierOf[p] = Baseline
      \/ (Known(TierOf[p]) /\ Rank(TierOf[p]) <= Rank(Lower(tier, granted)))
  BY DEF Show, Shown
<1> QED BY <1>1, <1>2, <1>3, KnownRanks DEF Allowed

\* Every session has a bundle, or None.
LEMMA BundlesStay == Spec => [](DOMAIN bundle = Session)
<1>1. Init => DOMAIN bundle = Session
  BY DEF Init
<1>2. DOMAIN bundle = Session /\ [Next]_vars => (DOMAIN bundle = Session)'
  BY DEF Next, vars, Challenge, Sign, RequestOpen, RequestOwn, RequestAny, Request,
         RequestUnproven, RequestProven, RequestUnknown, PolicyMoves, Reissue
<1> QED BY <1>1, <1>2, PTL DEF Spec

\* A request of whatever tier with whatever response.
LEMMA RequestShows ==
  ASSUME DOMAIN bundle = Session, NEW s \in Session, NEW tier, NEW r, Request(s, tier, r),
         NEW t \in Session, bundle'[t] # bundle[t], NEW p \in bundle'[t].paths
  PROVE  Allowed(p, policy[Claim[t]])
<1>1. CASE RequestUnproven(s, r)
  <2>1. t = s /\ bundle'[t] = Show(OpenTier)
    BY <1>1 DEF RequestUnproven
  <2> QED BY <2>1, OpenShows DEF Allowed
<1>2. CASE RequestProven(s, tier, r)
  <2>1. /\ t = s /\ bundle'[t] = Show(Lower(tier, policy[Claim[s]]))
        /\ Known(tier) /\ Known(policy[Claim[s]])
    BY <1>2 DEF RequestProven
  <2> QED BY <2>1, LowerShows
<1>3. ~RequestUnknown(s, tier, r)
  BY DEF RequestUnknown
<1> QED BY <1>1, <1>2, <1>3 DEF Request

\* Whatever is asked for, with whatever response, no field is shown above both
\* the open tier and what the policy of that moment grants (manifest.py:302-305,
\* 202-209).
THEOREM WithinPolicy == Spec => NeverAbovePolicy
<1> DEFINE Within ==
      \A s \in Session : bundle'[s] # bundle[s] =>
        \A p \in bundle'[s].paths :
          \/ TierOf[p] \in {Baseline, OpenTier}
          \/ Known(TierOf[p]) /\ Rank(TierOf[p]) <= Rank(policy[Claim[s]])
<1>1. DOMAIN bundle = Session /\ [Next]_vars => [Within]_vars
  <2> SUFFICES ASSUME DOMAIN bundle = Session, Next,
                      NEW t \in Session, bundle'[t] # bundle[t], NEW p \in bundle'[t].paths
               PROVE  Allowed(p, policy[Claim[t]])
    BY DEF Allowed
  <2>1. CASE \E s \in Session : RequestOpen(s)
    <3>1. bundle'[t] = Show(OpenTier)
      BY <2>1 DEF RequestOpen
    <3> QED BY <3>1, OpenShows DEF Allowed
  <2>2. CASE \E s \in Session : \E tier, r : Request(s, tier, r)
    BY <2>2, RequestShows
  <2>3. CASE bundle' = bundle
    BY <2>3
  <2> QED BY <2>1, <2>2, <2>3 DEF Next, Challenge, Sign, RequestOwn, RequestAny,
                                  PolicyMoves, Reissue
<1> QED BY <1>1, BundlesStay, PTL DEF Spec, NeverAbovePolicy

----------------------------------------------------------------------------
(* The type invariant.  IInv types the challenges; the rest is what the      *)
(* sessions hold: nonces that were drawn, and bundles of manifests that were *)
(* issued, with no more than their paths.                                    *)

Served(b) ==
  b = None \/ \E m \in issued : b.issue = m.issue /\ b.paths \subseteq DOMAIN m.fields

Held ==
  /\ manifest \in issued
  /\ policy \in [Did -> Tier]
  /\ \A r \in responses : r.challenge \in Nonce
  /\ \A s \in Session : stage[s].nonce \in Nonce \cup {None}
  /\ DOMAIN bundle = Session /\ \A s \in Session : Served(bundle[s])
  /\ tries \in [Session -> Nat] /\ \A s \in Session : tries[s] <= MaxTries[s]

LEMMA HeldTyped == IInv /\ Held => TypeOK
<1> SUFFICES ASSUME IInv, Held PROVE TypeOK
  OBVIOUS
<1>1. manifest \in issued /\ drawn \in Seq([did: Did, reveals: Nat]) /\ policy \in [Did -> Tier]
  BY DEF IInv, Typed, Held
<1>2. \A d \in Did : \/ challenges[d] = None
                     \/ challenges[d] \in Nonce /\ drawn[challenges[d]].did = d
  BY DEF IInv, PendingUnspent, Nonce, Challenged
<1>3. \A r \in responses : r \in Response /\ r.challenge \in Nonce
  BY DEF IInv, Typed, Held
<1>4. ASSUME NEW s \in Session
      PROVE  /\ stage[s].at \in {"new", "challenged", "answered", "done"}
             /\ stage[s].nonce \in Nonce \cup {None}
             /\ \/ bundle[s] = None
                \/ \E m \in issued : /\ bundle[s].issue = m.issue
                                     /\ bundle[s].paths \subseteq DOMAIN m.fields
             /\ tries[s] \in 0..MaxTries[s]
  <2>1. stage[s].at \in Phase
    BY DEF IInv, Typed
  <2>2. tries[s] \in Nat /\ tries[s] <= MaxTries[s] /\ MaxTries[s] \in Nat
    BY BoundAssumption DEF Held
  <2> QED BY <2>1, <2>2 DEF Phase, Held, Served
<1> QED BY <1>1, <1>2, <1>3, <1>4 DEF TypeOK

LEMMA InitHeld == Init => Held
<1> SUFFICES ASSUME Init PROVE Held
  OBVIOUS
<1>1. /\ issued = {manifest} /\ responses = {}
      /\ policy \in [Did -> Tier]
      /\ stage = [s \in Session |-> [at |-> "new", nonce |-> None]]
      /\ bundle = [s \in Session |-> None]
      /\ tries = [s \in Session |-> 0]
  BY DEF Init, Tier
<1>2. \A s \in Session : 0 <= MaxTries[s]
  BY BoundAssumption
<1> QED BY <1>1, <1>2 DEF Held, Served

\* What is shown is of the manifest there is.
LEMMA ShowServes == ASSUME manifest \in issued, NEW tier PROVE Served(Show(tier))
<1>1. Show(tier).issue = manifest.issue /\ Show(tier).paths \subseteq DOMAIN manifest.fields
  BY DEF Show, Shown
<1> QED BY <1>1 DEF Served

\* A request changes no nonce, and what it shows is of the present manifest.
LEMMA RequestHolds ==
  ASSUME IInv, Held, NEW s \in Session, NEW tier, NEW r, Request(s, tier, r)
  PROVE  Held'
<1>1. /\ UNCHANGED <<manifest, issued, policy, responses, tries>>
      /\ stage' = After(s, r)
  BY DEF Request, RequestUnproven, RequestProven, RequestUnknown
<1>2. \/ bundle' = bundle
      \/ \E t : bundle' = [bundle EXCEPT ![s] = Show(t)]
  BY DEF Request, RequestUnproven, RequestProven, RequestUnknown
<1>3. Nonce' = Nonce
  BY DEF Request, RequestUnproven, RequestProven, RequestUnknown, Nonce
<1>4. \A t \in Session : stage'[t].nonce = stage[t].nonce
  BY <1>1 DEF After, IInv, Typed
<1>5. DOMAIN bundle' = Session /\ \A t \in Session : bundle'[t] = bundle[t] \/ Served(bundle'[t])
  <2>1. CASE bundle' = bundle
    BY <2>1 DEF Held
  <2>2. ASSUME NEW u, bundle' = [bundle EXCEPT ![s] = Show(u)]
        PROVE  DOMAIN bundle' = Session
               /\ \A t \in Session : bundle'[t] = bundle[t] \/ Served(bundle'[t])
    <3>1. Served(Show(u))
      BY ShowServes DEF Held
    <3>2. DOMAIN bundle = Session
      BY DEF Held
    <3>3. /\ DOMAIN bundle' = Session /\ bundle'[s] = Show(u)
          /\ \A t \in Session : t # s => bundle'[t] = bundle[t]
      BY <2>2, <3>2
    <3> QED BY <3>1, <3>3
  <2> QED BY <1>2, <2>1, <2>2
<1>6. \A t \in Session : Served(bundle'[t])
  BY <1>5 DEF Held
<1> QED BY <1>1, <1>3, <1>4, <1>5, <1>6 DEF Held, Served

LEMMA NextHeld == IInv /\ Held /\ [Next]_vars => Held'
<1> SUFFICES ASSUME IInv, Held, [Next]_vars PROVE Held'
  OBVIOUS
<1>1. ASSUME NEW s \in Session, Challenge(s) PROVE Held'
  <2> DEFINE n == Len(drawn) + 1
             entry == [did |-> Claim[s], reveals |-> 0]
  <2>1. /\ drawn' = Append(drawn, entry)
        /\ stage' = [stage EXCEPT ![s] = [at |-> "challenged", nonce |-> n]]
        /\ tries[s] < MaxTries[s] /\ tries' = [tries EXCEPT ![s] = @ + 1]
        /\ UNCHANGED <<manifest, issued, policy, responses, bundle>>
    BY <1>1 DEF Challenge
  <2>2. Nonce \subseteq Nonce' /\ n \in Nonce'
    <3>1. drawn \in Seq([did: Did, reveals: Nat]) /\ entry \in [did: Did, reveals: Nat]
      BY SessionAssumption DEF IInv, Typed
    <3> QED BY <2>1, <3>1 DEF Nonce
  <2>3. \A t \in Session : stage'[t].nonce \in Nonce' \cup {None}
    BY <2>1, <2>2 DEF Held, IInv, Typed
  <2>4. tries' \in [Session -> Nat] /\ \A t \in Session : tries'[t] <= MaxTries[t]
    <3>1. /\ tries \in [Session -> Nat]
          /\ \A t \in Session : tries[t] <= MaxTries[t]
          /\ \A t \in Session : MaxTries[t] \in Nat
      BY BoundAssumption DEF Held
    <3>2. tries[s] \in Nat /\ MaxTries[s] \in Nat /\ tries[s] + 1 <= MaxTries[s]
      BY <2>1, <3>1
    <3>3. \A t \in Session : tries'[t] = IF t = s THEN tries[s] + 1 ELSE tries[t]
      BY <2>1, <3>1
    <3>4. tries' \in [Session -> Nat]
      BY <2>1, <3>1, <3>2
    <3> QED BY <3>1, <3>2, <3>3, <3>4
  <2> QED BY <2>1, <2>2, <2>3, <2>4 DEF Held, Served
<1>2. ASSUME NEW s \in Session, Sign(s) PROVE Held'
  <2> DEFINE r == [agent |-> Key[s], challenge |-> stage[s].nonce]
  <2>1. /\ responses' = responses \cup {r}
        /\ stage' = [stage EXCEPT ![s].at = "answered"]
        /\ stage[s].at = "challenged"
        /\ UNCHANGED <<manifest, issued, drawn, policy, bundle, tries>>
    BY <1>2 DEF Sign
  <2>2. r.challenge \in Nonce
    BY <2>1, NoneAssumption DEF Held, IInv, Typed
  <2>3. \A t \in Session : stage'[t].nonce = stage[t].nonce
    BY <2>1 DEF IInv, Typed
  <2> HIDE DEF r
  <2> QED BY <2>1, <2>2, <2>3 DEF Held, Served, Nonce
<1>3. ASSUME NEW s \in Session, RequestOpen(s) PROVE Held'
  <2>1. /\ bundle' = [bundle EXCEPT ![s] = Show(OpenTier)]
        /\ UNCHANGED <<manifest, issued, drawn, policy, responses, stage, tries>>
    BY <1>3 DEF RequestOpen
  <2>2. Served(Show(OpenTier)) /\ DOMAIN bundle = Session
    BY ShowServes DEF Held
  <2>3. DOMAIN bundle' = Session /\ \A t \in Session : Served(bundle'[t])
    BY <2>1, <2>2 DEF Held
  <2> QED BY <2>1, <2>3 DEF Held, Served, Nonce
<1>4. ASSUME NEW s \in Session, RequestOwn(s) \/ RequestAny(s) PROVE Held'
  BY <1>4, RequestHolds DEF RequestOwn, RequestAny
<1>5. ASSUME NEW d \in Did, PolicyMoves(d) PROVE Held'
  <2>1. PICK tier \in Policies[d] : policy' = [policy EXCEPT ![d] = tier]
    BY <1>5 DEF PolicyMoves
  <2>2. policy' \in [Did -> Tier]
    BY <2>1 DEF Held, Tier
  <2>3. UNCHANGED <<manifest, issued, drawn, responses, stage, bundle, tries>>
    BY <1>5 DEF PolicyMoves
  <2> QED BY <2>2, <2>3 DEF Held, Served, Nonce
<1>6. ASSUME NEW content \in Content, Reissue(content) PROVE Held'
  <2>1. /\ issued' = issued \cup {manifest'}
        /\ UNCHANGED <<drawn, policy, responses, stage, bundle, tries>>
    BY <1>6 DEF Reissue
  <2> QED BY <2>1 DEF Held, Served, Nonce
<1>7. CASE UNCHANGED vars
  BY <1>7 DEF vars, Held, Served, Nonce
<1> QED BY <1>1, <1>2, <1>3, <1>4, <1>5, <1>6, <1>7 DEF Next

\* Every pending challenge was drawn for its did, every answer is to a challenge
\* that was drawn, and what a session was served are paths of a manifest that
\* was issued (manifest.py:272-325).
THEOREM TypeCorrect == Spec => []TypeOK
  BY InitEstablishes, NextKeeps, InitHeld, NextHeld, HeldTyped, PTL DEF Spec
=============================================================================
