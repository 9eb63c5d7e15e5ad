------------------------- MODULE ManifestDisclosure -------------------------
(***************************************************************************)
(* ManifestDiscloser of flp/manifest.py: an announcer shows the open tier   *)
(* of its manifest to anyone, and more to who proves the key of the did it  *)
(* names, as far as the announcer's policy goes.                            *)
(*                                                                         *)
(* A session is one client at work: it names a did, asks for a challenge,   *)
(* signs it, and requests a tier with some response, or with none.  Several *)
(* sessions may name one did.  The announcer keeps one pending challenge    *)
(* for each did, and none when it reissues its manifest.                    *)
(***************************************************************************)
EXTENDS Manifest

CONSTANTS
  Did,         \* those who may ask
  Announcer,
  Session,
  Claim,       \* the did a session names
  Key,         \* the did whose key a session signs with
  Careless,    \* the sessions that may request anything at any moment
  Asked,       \* the tiers they ask for, known to the announcer or not
  Content,     \* the fields a manifest may be built from
  Policies,    \* for each did, the tiers the policy may name for it
  None,        \* no challenge, no bundle, no response
  MaxIssues,   \* bound: manifests built after the first
  MaxTries     \* bound: for each session, the challenges it asks for

ASSUME SessionAssumption == \A s \in Session : Claim[s] \in Did /\ Key[s] \in Did
ASSUME NoneAssumption == None \notin Nat
ASSUME PolicyAssumption == \A d \in Did : Policies[d] # {}
ASSUME BoundAssumption == MaxIssues \in Nat /\ MaxTries \in [Session -> Nat]

VARIABLES
  manifest,    \* the manifest of the present discloser
  issued,      \* history: every manifest built so far
  challenges,  \* _challenges: for each did its pending challenge, or None
  drawn,       \* history: the challenges drawn; each is known by its place
  policy,      \* what tier_policy answers at present
  responses,   \* the signed answers sent so far
  stage,       \* how far each session is with its present challenge
  bundle,      \* what each session was served last
  tries        \* the challenges each session has asked for

vars == <<manifest, issued, challenges, drawn, policy, responses, stage,
          bundle, tries>>

Response == [agent: Did, challenge: Nat]

\* What is left of a reveal when its proofs are left to ManifestCommitment.
Show(tier) == [issue |-> manifest.issue, paths |-> Shown(manifest, tier)]

Build(n, content) == [issue |-> n, owner |-> Announcer, fields |-> content]

Init ==
  /\ \E content \in Content : manifest = Build(0, content)
  /\ issued = {manifest}
  /\ challenges = [d \in Did |-> None]
  /\ drawn = <<>>
  /\ policy \in {f \in [Did -> UNION {Policies[d] : d \in Did}] :
                   \A d \in Did : f[d] \in Policies[d]}
  /\ responses = {}
  /\ stage = [s \in Session |-> [at |-> "new", nonce |-> None]]
  /\ bundle = [s \in Session |-> None]
  /\ tries = [s \in Session |-> 0]

----------------------------------------------------------------------------
\* Mutant of Challenge: the nonce is kept for the did whose key is used.
ChallengeKey(s) ==
  /\ tries[s] < MaxTries[s]
  /\ stage[s].at \in {"new", "done"}
  /\ LET nonce == Len(drawn) + 1
     IN  /\ drawn' = Append(drawn, [did |-> Claim[s], reveals |-> 0])
         /\ challenges' = [challenges EXCEPT ![Key[s]] = nonce]
         /\ stage' = [stage EXCEPT ![s] = [at |-> "challenged", nonce |-> nonce]]
  /\ tries' = [tries EXCEPT ![s] = @ + 1]
  /\ UNCHANGED <<manifest, issued, policy, responses, bundle>>

\* challenge(): a fresh nonce takes the place of the one that was pending.
Challenge(s) ==
  /\ tries[s] < MaxTries[s]
  /\ stage[s].at \in {"new", "done"}
  /\ LET nonce == Len(drawn) + 1
     IN  /\ drawn' = Append(drawn, [did |-> Claim[s], reveals |-> 0])
         /\ challenges' = [challenges EXCEPT ![Claim[s]] = nonce]
         /\ stage' = [stage EXCEPT ![s] = [at |-> "challenged", nonce |-> nonce]]
  /\ tries' = [tries EXCEPT ![s] = @ + 1]
  /\ UNCHANGED <<manifest, issued, policy, responses, bundle>>

\* answer_challenge()
Sign(s) ==
  /\ stage[s].at = "challenged"
  /\ responses' = responses \cup {[agent |-> Key[s], challenge |-> stage[s].nonce]}
  /\ stage' = [stage EXCEPT ![s].at = "answered"]
  /\ UNCHANGED <<manifest, issued, challenges, drawn, policy, bundle, tries>>

\* Mutant of Proves: whose key signed is not compared with the did named.
ProvesAnyKey(did, r) ==
  /\ challenges[did] # None
  /\ r # None
  /\ r.challenge = challenges[did]

\* A response that does not verify, or of another type, counts as None.
Proves(did, r) ==
  /\ challenges[did] # None
  /\ r # None
  /\ r.challenge = challenges[did]
  /\ r.agent = did

\* Mutant of Popped: the challenge is read and stays.
PoppedNot(did) == challenges

\* What is left of the pending challenges when the one of `did` was looked at.
Popped(did) == [challenges EXCEPT ![did] = None]

\* Mutant of RequestOpen: the challenge is consumed before the tier is read.
RequestOpenPops(s) ==
  /\ bundle' = [bundle EXCEPT ![s] = Show(OpenTier)]
  /\ challenges' = Popped(Claim[s])
  /\ UNCHANGED <<manifest, issued, drawn, policy, responses, stage, tries>>

\* A request for the open tier, or for no tier in particular, looks at nothing.
RequestOpen(s) ==
  /\ bundle' = [bundle EXCEPT ![s] = Show(OpenTier)]
  /\ UNCHANGED <<manifest, issued, challenges, drawn, policy, responses, stage,
                 tries>>

\* A session that used its own response has done with its challenge.
After(s, r) ==
  IF stage[s].at = "answered" /\ r # None /\ r.challenge = stage[s].nonce
  THEN [stage EXCEPT ![s].at = "done"] ELSE stage

RequestUnproven(s, r) ==
  /\ ~Proves(Claim[s], r)
  /\ challenges' = Popped(Claim[s])
  /\ bundle' = [bundle EXCEPT ![s] = Show(OpenTier)]
  /\ stage' = After(s, r)
  /\ UNCHANGED <<manifest, issued, drawn, policy, responses, tries>>

\* Mutant of Lower: the comparison is the wrong way round.
Higher(tier, granted) == IF Rank(tier) >= Rank(granted) THEN tier ELSE granted

Lower(tier, granted) == IF Rank(tier) <= Rank(granted) THEN tier ELSE granted

RequestProven(s, tier, r) ==
  /\ Proves(Claim[s], r)
  /\ Known(tier) /\ Known(policy[Claim[s]])
  /\ challenges' = Popped(Claim[s])
  /\ drawn' = [drawn EXCEPT ![challenges[Claim[s]]].reveals = @ + 1]
  /\ bundle' = [bundle EXCEPT ![s] =
                  Show(Lower(tier, policy[Claim[s]]))]
  /\ stage' = After(s, r)
  /\ UNCHANGED <<manifest, issued, policy, responses, tries>>

\* order.index() raises; the challenge is gone by then.
RequestUnknown(s, tier, r) ==
  /\ Proves(Claim[s], r)
  /\ ~Known(tier) \/ ~Known(policy[Claim[s]])
  /\ challenges' = Popped(Claim[s])
  /\ stage' = After(s, r)
  /\ UNCHANGED <<manifest, issued, drawn, policy, responses, bundle, tries>>

\* request() for a tier above the open one.
Request(s, tier, r) ==
  \/ RequestUnproven(s, r)
  \/ RequestProven(s, tier, r)
  \/ RequestUnknown(s, tier, r)

PolicyMoves(did) ==
  /\ \E tier \in Policies[did] : policy' = [policy EXCEPT ![did] = tier]
  /\ UNCHANGED <<manifest, issued, challenges, drawn, responses, stage, bundle,
                 tries>>

\* A new manifest comes with a new discloser, which has no challenges.
Reissue(content) ==
  /\ manifest.issue < MaxIssues
  /\ manifest' = Build(manifest.issue + 1, content)
  /\ issued' = issued \cup {manifest'}
  /\ challenges' = [d \in Did |-> None]
  /\ UNCHANGED <<drawn, policy, responses, stage, bundle, tries>>

(* The others request what the announcer has, with the answer to their       *)
(* present challenge; a careless one sends any response it has seen, or none. *)
RequestOwn(s) ==
  /\ stage[s].at = "answered"
  /\ \E i \in 2..Len(TierOrder) :
       Request(s, TierOrder[i], [agent |-> Key[s], challenge |-> stage[s].nonce])

RequestAny(s) ==
  /\ s \in Careless
  /\ \E tier \in Asked, r \in responses \cup {None} : Request(s, tier, r)

Next ==
  \/ \E s \in Session :
       \/ Challenge(s)
       \/ Sign(s)
       \/ RequestOpen(s)
       \/ RequestOwn(s)
       \/ RequestAny(s)
  \/ \E did \in Did : PolicyMoves(did)
  \/ \E content \in Content : Reissue(content)

\* A careful client goes on with what it has begun, and tries again.
Fairness ==
  \A s \in Session \ Careless :
    WF_vars(Challenge(s)) /\ WF_vars(Sign(s)) /\ WF_vars(RequestOwn(s))

Spec == Init /\ [][Next]_vars /\ Fairness

----------------------------------------------------------------------------
Tier == UNION {Policies[d] : d \in Did}
Nonce == DOMAIN drawn

\* Type invariant; what is pending for a did was drawn for it.
TypeOK ==
  /\ manifest \in issued
  /\ drawn \in Seq([did: Did, reveals: Nat])
  /\ \A d \in Did :
       \/ challenges[d] = None
       \/ challenges[d] \in Nonce /\ drawn[challenges[d]].did = d
  /\ policy \in [Did -> Tier]
  /\ \A r \in responses : r \in Response /\ r.challenge \in Nonce
  /\ \A s \in Session :
       /\ stage[s].at \in {"new", "challenged", "answered", "done"}
       /\ stage[s].nonce \in Nonce \cup {None}
       /\ \/ bundle[s] = None
          \/ \E m \in issued : /\ bundle[s].issue = m.issue
                               /\ bundle[s].paths \subseteq DOMAIN m.fields
       /\ tries[s] \in 0..MaxTries[s]

\* A challenge buys one reveal at most, whoever sends its answer and however
\* often (manifest.py:308, `pop`).
OneRevealPerChallenge == \A n \in Nonce : drawn[n].reveals <= 1

\* Whatever the other sessions send, more than the open tier is shown for a
\* challenge only after the owner of the did it was drawn for signed it
\* (manifest.py:316-320; spec 3).
KeyProven ==
  \A n \in Nonce :
    drawn[n].reveals > 0 => [agent |-> drawn[n].did, challenge |-> n] \in responses

\* No field above the open tier is shown unless the policy of
\* that moment goes as far for the did that is named (manifest.py:302-305,
\* 202-209).
NeverAbovePolicy ==
  [][\A s \in Session : bundle'[s] # bundle[s] =>
       \A p \in bundle'[s].paths :
         \/ TierOf[p] \in {Baseline, OpenTier}
         \/ Known(TierOf[p]) /\ Rank(TierOf[p]) <= Rank(policy[Claim[s]])]_vars

Alone(s) == \A t \in Session \ {s} : Claim[t] # Claim[s]

\* A careful client that is alone under its did and holds its key is shown in
\* the end what the policy allows, though it looks at the open tier in between
\* and the announcer reissues its manifest (manifest.py:297-305).
PatientServed ==
  \A s \in Session \ Careless :
    Alone(s) /\ Key[s] = Claim[s] =>
      <>(\E n \in Nonce : drawn[n].did = Claim[s] /\ drawn[n].reveals > 0)
=============================================================================
