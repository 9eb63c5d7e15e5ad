# Flower of Life Protocol: a TLA+ verification project

This directory holds TLA+ models of the reference implementation of the Flower
of Life Protocol (`flp/`), the TLC configurations that check them on small
instances, and proofs, checked by TLAPS, of the properties that matter most.
Every definition is translated from the Python source; PROJECT.json maps each
one to its lines.

## 1. The system

An *agent* (`flp/agent.py`) is an Ed25519 key, a list of capabilities it needs
and one it offers, a cost model and a private ledger of past cooperations. It is
served over HTTP by a threaded server and driven by clients. A cooperation goes

    card -> POST /flp/encounter -> proposal -> POST /flp/respond -> response
         -> signed verdict -> POST /flp/outcome -> counter-signed verdict

| Component | State | Operations | Hard parts |
|---|---|---|---|
| `identity.py`: envelopes, `verify`, `NonceCache` | `_seen`: nonce -> time | `sign`, `verify`, `check_and_add`, `_evict` | clock skew against retention, order of the checks, sharing between threads |
| `server.py` | one agent shared by all request threads | dispatch of GET and POST, client fetches | interleaving, errors answered 500, no lock anywhere |
| `agent.py` | `_coops`, `ledger`, `nonces`, `_stats` (all in memory) | `signed_card`, `handle_encounter`, `handle_respond`, `handle_outcome`, `status` | late, repeated, reordered posts; restarts; two sides that must agree |
| `reputation.py`: `Cooperation` | verdict and issue time of each party | `add_attestation`, `resolve` | grace, late arrivals, signers' clocks |
| `reputation.py`: `ReputationLedger` | list of cooperations | `record`, `trust` | evidence, decay, testimony over the graph |
| `cost_model.py` | none | `risk`, `evaluate_item`, `max_safe_magnitude` | two formulas that must agree, rounding |
| `matching.py` | alias map | `canonical`, `confidence`, `match_cards` | order dependence, best of several layers |
| `semantic.py` | embedding cache on disk | `get`, `set` | rewrite in place, several processes |
| `manifest.py`: commitment | salted leaves, Merkle levels | `build`, `reveal`, `verify_manifest` | odd levels, proofs against the root |
| `manifest.py`: `ManifestDiscloser` | pending challenge per did | `challenge`, `request` | overwritten and consumed challenges |
| `net.py` | none | `validate_endpoint` | pure I/O guard |
| `stranger_harness.py`, `demo/` | scripts | drive the above | |

What makes each of them correct, in a sentence: a message is acted on at most
once and a genuine one is refused only for a reason (identity); this still holds
when requests overlap (server); all who hold a cooperation name its
proposer, hold only verdicts that were signed, lose none of them, and trust a peer
only for what it signed itself (agent); a cooperation's state only moves forward and its weight only fades
(cooperation); more trust never makes the answer worse (cost model), nor does a
richer card (matching); what others hold against each other stays with them, and
strangers cannot praise each other into trust (trust graph); a cache changes no
answer (semantic); what is revealed verifies, and only the key's owner sees more
(manifest).

## 2. Modules

| Module | Models | Proofs |
|---|---|---|
| `Freshness` | the freshness tests of `verify()` and the pure part of `NonceCache` | |
| `EnvelopeVerify` (MC) | `sign()` and `verify()` at one endpoint, one request at a time | `EnvelopeVerifyProofs` |
| `VerifyThreads` (MC) | the same `verify()` run by concurrent request threads | `VerifyThreadsProofs` |
| `Outcomes` | `Cooperation.resolve()` and one cooperation's share of `_direct_evidence()` | |
| `Handshake` (MC) | agents, their three handlers and their clients, the network, restarts | `HandshakeProofs` |
| `OutcomeBooks` | abstract: what agents may expect of each other's records of a cooperation | `HandshakeProofs` |
| `Cooperation` | one cooperation over time, kept by a ledger or by an agent | `ReputationProofs` |
| `TrustGraph` (MC) | `trust()` over a ledger that also holds the cooperations of others | `ReputationProofs` |
| `Appraisal` | the cost model and the accept / counter / decline rule | `EncounterProofs` |
| `Matching` | vocabulary files, the layers of the matcher, the match of two lists | `EncounterProofs` |
| `Encounter` (MC) | one agent before a stranger: `Matching` and `Appraisal` in the encounter handler, beside the responder | `EncounterProofs` |
| `EmbedCache` (MC) | the embedding cache in memory and on disk, under threads, processes and failures | `EmbedCacheProofs` |
| `Manifest` | the Merkle commitment: tree, inclusion proofs, `reveal`, `verify_manifest`, `band_mismatch` | `ManifestCommitmentProofs` |
| `ManifestCommitment` (MC) | announcers that build and ship, bundles on their way, a receiver that verifies | `ManifestCommitmentProofs` |
| `ManifestDisclosure` (MC) | `ManifestDiscloser` and the sessions of its clients | `ManifestDisclosureProofs` |

`EnvelopeVerify` and `VerifyThreads` extend `Freshness`; `Handshake`,
`Cooperation` and `TrustGraph` extend `Outcomes`; `Encounter` extends `Matching`,
which extends `Appraisal`; `ManifestCommitment` and `ManifestDisclosure` extend
`Manifest`; `Handshake` instantiates `OutcomeBooks`. An operator whose comment begins with "Mutant
of" is a plausible bug in that operation; nothing in a specification uses it. It
is there to show that a property notices (PROJECT.json lists the pairs).

### EnvelopeVerify
`wire` is every copy ever sent, so that an envelope can arrive late, any number
of times, or damaged. `seen` is `NonceCache._seen`, `verified` the history of
what `verify()` returned. There is one action per path of `verify()`, in the
code's order: `RejectUnverified`, `RejectFuture`, `RejectExpired`,
`RejectReplay`, `Accept`. The last two evict first. `require_fresh=False`, used
for outcomes, skips both freshness and the cache: it is the signature test alone
and is modelled in `Handshake` as the authenticity of posted attestations. A
signature is a flag of the copy; a copy that does not verify is refused before
anything else of it is read, whatever is malformed in it.

### VerifyThreads
One thread per request, all on one cache without a lock, as
`ThreadingHTTPServer` runs them. A step ends wherever CPython (3.10 and later,
with the global interpreter lock) may switch threads: at calls and backward
jumps. `ScanBegin`/`ScanEnd`/`ScanDisturbed` are the comprehension over the dict,
`Delete`/`DeleteMissing` the deletions; a dict that changed size while iterated
raises, one that lost and gained an entry may or may not, so the model allows
both. The membership test and the insertion are one step because nothing between
them gives the lock up; a free-threaded build is not modelled. `Hold` bounds how
many ticks a thread may fall behind the clock it has read.

### Handshake
`coops[y][p]` is `_coops` of agent y, `ledger[y][p]` the number of times
`record()` appended it. Each handler is one action including everything it calls:
`Propose` registers the cooperation with the proposal, `Respond` decides and mirrors,
`Outcome` stores the signer's verdict, counter-signs, stores that, and records,
closed or not. Whatever was signed may be posted to any agent: a handler asks who
signed it and never whom it is addressed to, so that a third agent or the proposer
itself answers a proposal (`to_agent` is read nowhere), and an agent may be handed its
own attestation or counter-signature. The peer of a proposal is the id the card's body
names (`agent_id` of a `Card`), which nobody compares with its signer (`by`). Which cards are
posted is the constant `Cards`.

Posted objects stay in their sets: loss, delay, repetition and reordering are
free. How often `verify()` lets a card or a proposal through is the subject of
`EnvelopeVerify` and `VerifyThreads`; here any of them may come through again at any
time, which is more than the code lets happen. What matching
finds is the constant `Supplies`; the cost model appears as a bar on net evidence
and as `Headroom`, which is what `Appraisal` shows it to be for one item. An agent
records only cooperations of its own, so that testimony adds nothing to its trust in
another; it may add to its trust in itself (`Trusting`). `Net` leaves
the time weights out: they are positive, and the properties only use its sign.
`AttestsAnyway` names the clients that attest whatever was decided, as
`demo/demo_live_handshake.py` does; the others wait for an acceptance.

`Promise` is the refinement mapping to `OutcomeBooks`: an attestation is a verdict
given, `_coops` the record, and a cooperation counts once the ledger holds it. Cards,
proposals, answers and the passing of time are stutters there. `OutcomeBooks` has two
ways for a record to count: `Close`, by a verdict of each party, which is what
PROTOCOL.md 4.3 asks for, and `Repeat`, by the agent's own alone, which is what happens
when its own attestation is posted to it.

### Cooperation
`Deliver` is `add_attestation()` in a ledger, `CounterSign` the same followed by
the agent's own verdict, whichever party's attestation it was. An attestation without
a date (`Undated`) counts as issued when it arrives (`IssuedAt`). `keeper` says which of the two this object has. The half-life
is in ticks; `Halved` is the weight after whole half-lives, rounded down.

### TrustGraph
`ledger` is the list `_coops` of an observer that gathers the cooperations of others
as well. The search in `trust()` is three nested folds, as its loops are: `Testimony`
over the depths, `Level` over the nodes of the frontier, `Expand` over the peers of a
node, each turn of which is a `Visit`. `_direct_trust_pairs()` lists the peers in the
order in which the ledger names them, so that `Expand` goes through the cooperations
and both parties of each: one that is named again has been visited by then. Products
of trusts and powers of the decay are kept whole by counting in `Full`-ths (`Gate`);
`Curve` stands for `1 - exp(-n / SCALE)`. All evidence has one age. Since `trust()` grows with
the evidence, the properties compare the evidence itself (`Net`).

### Appraisal, Matching, Encounter
Inequalities are multiplied out and exact. Magnitudes are whole thousandths, since
a counter-offer is rounded to three decimals. `answer` keeps the last response
with the trust it was given at; trust then moves freely (`TrustMoves`).

A name is what a card or a file says, `Raw` what `Capability.parse()` makes of it. A
vocabulary is read by a fold over the entries of its file (`ReadEntry` overwrites, as
the loop does) and looked up once. The layers fire in order; a semantic layer is
absent, made of embeddings (`SimToConfidence`), or the agent's own (`Plugged`, which is the one of
`stranger_harness.py`: two names of the market are alike, and nothing else is).
Confidence 0 stands for None. `Encountered` is `handle_encounter()` for a card, with the
matcher the agent was started with; `proposal` keeps its result with the trust
and the matcher of that moment. A need that a card lists in two spellings yields two
equal items in the code and one here. A negative stake (`magnitudes`) is left out.

### EmbedCache
`memory` is `_data` of each process, `file` the text of the one file. A call runs as
the code does: `sentence_transformer_semantic()` looks both vectors up first (`Begin`),
`ollama_semantic()` each when it comes to it (`LookUp`). `set()` is four steps, since a
thread can be interrupted between them: the entry in memory (`Compute`), the text
(`Dump`), the truncation (`Open`), the writing (`Write`). The text is handed to the
system in one piece; of a longer text that another thread wrote meanwhile a tail may
remain, and a killed process may leave a part (`Mess`). `WriteFails` and `ModelFails`
are the two ways into `except`. `Own(model, text)` is the embedding.

### Manifest, ManifestCommitment
A hash is the term of what was hashed, a salt the pair of manifest and path, so
that equal hashes mean equal inputs and no salt occurs twice. A manifest keeps the
levels of its tree, as `_levels` does: `Level` applies `Above` once for each of them,
`Height` is where only the root is left. `Climb` is the loop of `_inclusion_proof()`
with its index and the proof so far, one `Past` for each level; `Hashes` is that of
`_root_from_proof()`. `Place` is the order of `sorted()`, `Index` a leaf's place
among the fields. The tag that keeps
root signatures apart from envelope signatures is left out: nothing else is signed
here. A field carries its tier, so that splitting a path at its dots is left out
(tier names hold none). `Build` and `Ship` are `build()` and `reveal()`; what
arrives is a bundle as it was sent, two of one manifest put together
(`ReceiveIntact`), or one changed in one place or mixed with another (`Receive`);
either is verified under any announcer's did. `view` is the verdict.

### ManifestDisclosure
A session is one client: `Challenge`, `Sign`, and a request. `request()` has four
outcomes, each an action: `RequestOpen` (no tier or the open one: the challenge
is not looked at), `RequestUnproven`, `RequestProven` and `RequestUnknown`, where
`order.index()` raises with the challenge already gone. `drawn` is the history of
challenges with the number of reveals each one bought. Of a reveal only the
fields matter here; its proofs are `ManifestCommitment`'s. A careless session sends
whatever it has seen, or nothing, with any tier; the others send the answer to
their own challenge.

## 3. Runs

Bounds are named in the modules ("bound:"). `Encounter` and `EmbedCache` are checked
for deadlock. The other runs are not: clocks and histories are bounded, and a system
nobody sends anything to stops.

| Run | Result | Bounds, and why they are enough |
|---|---|---|
| `EnvelopeVerify` | holds | Skew 1, window 2 as in the code's ratio; horizon 4, so that a nonce accepted at the earliest moment can be evicted and come back at the last; drift 2, so that copies are too new and too old; one lifetime inside the horizon and one beyond; two nonces, three acceptances. |
| `VerifyThreads` | holds | Three threads: one lags, one evicts, one disturbs. Window 3 = 2 * skew + `Hold`. A message without expiry and a card that never expires. |
| `ThreadsAtDefaults` | violated | The same with window 2 = 2 * skew. |
| `Handshake` | holds | Three agents: two that supply each other, `bo` asking strangers and `ana` only after one good cooperation, so that trust matters, and `cy`, which answers what reaches it. Two proposals (both directions or two in one). A card of each of the two, and one of `bo` that names `cy`. Four signed objects in all: two proposals and two verdicts, or one with three. `bo` records each cooperation up to twice; `ana` restarts once, and its clients attest without waiting for an acceptance. |
| `RecordedOnce` | violated | As `Handshake`, with own cards only, without restart, with clients that wait. |
| `SilenceIsPenalized` | violated | As `RecordedOnce`. |
| `Cooperation` | holds | Three attestations in all (so that a party can contradict itself), dated by clocks off by one tick or not at all, grace 2, half-life 1, horizon 5: three ticks of decay after the grace. |
| `Encounter` | holds | Three capabilities, one without headroom, and two more spellings, one malformed; five files, of which one lists an alias twice and one renames a canonical name; the three semantic layers; three lists of needs and every list of surpluses; three magnitudes, confidences from below 0 to above 1, trust at the floor, in the middle and at 1. |
| `ManifestCommitment` | holds | Two manifests, of the same or of two announcers, with three, five and six leaves: odd levels at the leaves, above them, and both. Two bundles of any tiers; one change to a copy. Prices below and on a boundary. |
| `ManifestDisclosure` | holds | Two careless sessions name one did, one with another's key, and a careful one names its own; one challenge each, two for the careful one since the manifest is reissued once. A policy below what is asked, and one that names no tier. |
| `TrustGraph` | holds | Five agents: the observer, two it may trust (interchangeable), a third behind both, a fourth beyond the horizon of two hops. Six cooperations, one of which may fail or be left open (it counts twice), in every order. |
| `EmbedCache` | holds | Two threads of one process and one of another, each at one pair; the two processes may use different models; one pair whose two capabilities read the same; one restart or one reply without an embedding, at any moment. |

What the passing runs show:

* `ReplayWindowHolds`, `AtMostOnce`, `RejectionJustified`: retention and freshness
  fit together at their boundary, and no damaged, early or late copy uses up the
  nonce of the genuine one.
* `MessagesOnce`, `NothingBurned`: without a lock, messages are still acted on
  once if the window exceeds twice the skew by what a thread may lag; a request
  that ends in an error leaves no nonce behind.
* `PartiesAgree`, `AuthenticVerdicts`, `RecordsSurvive`: hold through repetition,
  misdirection, a client that attests too early, and a restart. Whoever answers, all
  who hold a proposal name the same proposer; the two it is between name each
  other as long as the proposer was not restarted, and a third agent counts itself in
  the other's place. An answer or an outcome that comes again takes no party, no
  signature and no record away. `NoStrandedOutcome`: no outcome that reaches the
  agent it names meets an unknown proposal there, if that one was not restarted.
  `TrustIsEarned`: evidence in favour of x needs a `fulfilled` x itself signed about
  a cooperation with this partner. `KeepsBooks` is the refinement of `OutcomeBooks`: a
  cooperation is opened by one of its parties after the same proposer, and nothing
  enters the ledger without the agent's own verdict and one that a party gave.
* `NeverReopened`, `OnlySilencePenalized`, `TimeOnlyFades`: a cooperation only moves
  forward; once anything has arrived, those held to account after the grace are exactly
  the parties that are silent; and time weakens. Of a cooperation neither party has
  signed nothing is said (section 4).
* `HeardOnce`, `NegativesStayLocal`, `CliquesUnheard`: everyone within the horizon
  is heard once, over one of the shortest trusted paths; a failure or a silence
  between two others leaves the observer's trust in both what it was; what happens
  out of its reach moves its trust in no one.
* `NeverPunished`, `CounterIsWorkable`, `StakesBounded`: acceptance is monotone,
  a counter-offer undercut by one rounding step is accepted while trust does not
  fall, and acceptance agrees with the ceiling.
* `MoreNeverHurts`, `SemanticIsSmaller`, `ListedIsUnderstood`: a richer card never
  gets less; what only the semantic layer matches is taken for strictly less than a
  synonym, however sure that layer is; a vocabulary without double listings is
  understood both ways, in any spelling, after any number of forks.
* `CacheIsTransparent`, `ComputedOnce`: however the file was garbled, a call answers
  None or with the vectors of its own model and capabilities, and a process has
  a vector computed at most once by each of its threads.
* `RevealsVerify`, `AcceptedIsCommitted`, `BlameIsExact`: every reveal verifies,
  for each size of tree, alone and with others of its manifest; what verifies was
  committed to by that did in one manifest; a price is blamed on its band exactly
  when it belongs to another.
* `OneRevealPerChallenge`, `KeyProven`, `NeverAbovePolicy`: with sessions
  overwriting and spending each other's challenges, a challenge buys one reveal,
  for its owner, within the policy of that moment. `PatientServed` (liveness): a
  careful client alone under its did is served in the end.

The code schedules nothing by itself: every step is a request somebody sends, or
time. Fairness is stated in `ManifestDisclosure` alone, and of its careful clients
only: one that can ask, sign or request goes on doing so (weak fairness). Nothing
is assumed of the others or of the announcer, and nothing is promised to two
clients of one did, who can take each other's challenges for ever.

## 4. Disagreements between code and documents

Three have a run that shows them (PROJECT.json "findings"): a message accepted
twice by a request that lags (`ThreadsAtDefaults`), one cooperation recorded several
times (`RecordedOnce`), silence that costs nothing at an agent
(`SilenceIsPenalized`).

Others were met while modelling and have no run of their own:

* a body with `expires_at` is exempt from the skew window (`identity.py:270`;
  PROTOCOL.md 2.4 rejects anything outside it);
* `RuntimeError` or `KeyError` in `_evict()` answers a fresh request with 500
  (`identity.py:123-125`), and a stale list can delete a nonce that was added
  again (the actions `ScanDisturbed`, `DeleteMissing`, `Delete`);
* the counter-signature names its own signer as counterparty, because it copies
  the peer's field (`agent.py:182`; PROTOCOL.md 4.3);
* an agent registers a cooperation when it proposes, not when it is accepted
  (`agent.py:105`; `reputation.py:91`), and closes it on the peer's word alone;
* it always counter-signs `fulfilled`, even if its own client signed `failed`
  (`agent.py:180-184`, which says so);
* `to_agent` is read nowhere (`agent.py:119-167`; PROTOCOL.md:811): any agent that is
  sent a proposal answers it and mirrors a cooperation between the proposer and
  itself, while the proposer holds one with the agent it meant;
* an outcome closes on whatever party's word (`agent.py:179-185`,
  `reputation.py:107-110`): an agent that is posted its own attestation, or the
  counter-signature it returned, signs again and records a cooperation the other party
  has not signed, which PROTOCOL.md:841 calls a bilateral close and which counts
  against the other party after the grace (`Repeat` in `OutcomeBooks`);
* the `agent_id` in a card's body is not compared with the envelope's signer
  (`agent.py:87`): the proposal is made to, and trust read for, the id it names;
* nobody is penalized if neither party signs (`reputation.py:135`, whose comment
  says "penalize both", as PROTOCOL.md:286-289 would have it);
* a repeated outcome is counter-signed with a fresh date and renews old evidence
  (`agent.py:181-184`); an attestation that carries no date is dated by each of its
  arrivals (`reputation.py:112`; PROTOCOL.md:147 has a date in every signed object);
* `max_safe_magnitude()` returns the first magnitude that does not clear, and
  rounding may raise it further (`cost_model.py:126`, `agent.py:143`);
* `flp_version` is read nowhere (`identity.py:246`; PROTOCOL.md:898-900 says not to
  act on the body of another major);
* of two trusted paths of one length the first is taken, not the better
  (`reputation.py:286-287`: `visited` is set at once, so that `max()` never chooses;
  PROTOCOL.md:1053 has the maximum over all paths). The order of the ledger decides
  which: a good cooperation between two others can lower my trust in a third, by
  making someone appear first whose path is worth less;
* a failure between two others lowers what one of them is worth to me as a
  testifier about a third (`reputation.py:233-245`; PROTOCOL.md:1058-1060 says it
  never enters another observer's path product); `NegativesStayLocal` is therefore
  about trust in the two themselves;
* testimony is added to direct evidence (`reputation.py:257, 285`) and can outweigh
  a failure I saw myself (PROTOCOL.md:240, "direct experience always dominates");
* in a vocabulary file that lists a name twice the last entry wins, whatever stands
  before it; a canonical name that another entry lists as an alias is looked up only
  once, so that `to_dict()` and reading again may change what is understood
  (`matching.py:89-98, 142-150`);
* a reply of Ollama without an embedding is kept as null, in memory and on disk, and
  replaces a vector another thread has stored (`semantic.py:188-189`);
* `issued_at` and `expires_at` of a manifest are committed to and read by nobody
  (`manifest.py:168`; manifest spec 6 says that `expires_at` governs freshness);
* a capability disclosed in a tier that is not in the announcer's order is
  committed to and never revealed (`manifest.py:204`).

## 5. Proofs

All proofs are for every value of the constants, from the named ASSUMEs: skew and
window are naturals and the window is at least twice the skew
(`WindowAssumption`); dates are integers and a nonce names one envelope
(`ThreadAssumption`); weights are positive; the two parties of a cooperation differ
(`PartyAssumption`) and the absence of a date is no number (`UndatedAssumption`); `RiskMin` is positive and at most `RiskMax`; a tier has one place in
the announcer's order (`TierAssumption`), a path one in the sorted order
(`PathAssumption`); a manifest's fields have paths, its owner's did is among them and
always revealed, and a committed cost is a number (`ContentAssumption`); the bands begin
at 0 and each ends where the next begins (`BandAssumption`); the layers' confidences are
ordered (`LayerAssumption`), a vocabulary file is a list of entries (`AgentAssumption`
of `Encounter`); uuids are finitely many (`PidAssumption`) and so are a program's
threads (`CacheAssumption`); agents are finitely many, and a positive net evidence is worth a
positive trust of at most one (`GraphAssumption`); `None` is no nonce. They are about the models: a signature
verifies only if its owner made it, and nonces, uuids and hashes do not collide.

The library's induction theorems are stated for an operator, which the provers cannot
instantiate. Where a proof needs induction, a lemma `Induction` of its module states it
for a set of numbers, from `WFMin`; a recursive function is shown to satisfy its equation
by partial solutions on 0..n before anything else is said of it (`LevelDef`,
`HashesDef`, `ClimbDef`, `HalvedDef`, `NetDef`; `Recursion` states it once for any step
given as a function). The sums and folds of the community modules are recursive
functions over the subsets of a finite set: `FoldExists` and `SumsExist` find their
solution, `SumSplit` takes one summand off, `SumCompare` and `SumBound` compare sums, and
`LeftFold` makes of a fold over a sequence the chain of its intermediate results.

* `EnvelopeVerifyProofs`: `TypeCorrect`, `NoReplayInWindow`, `MessagesOnce`,
  `RefusalsAreJustified`. None of these is inductive: eviction forgets what the
  history remembers. The invariant adds that every cache entry is an acceptance
  (`SeenBacked`), that every acceptance inside the window has its entry
  (`Remembered`), that what was accepted was fresh then (`AcceptedFresh`), and
  that copies of one nonce agree on their times (`NonceUnique`). `MessagesOnce`
  then follows by arithmetic: two acceptances are both within the skew of one
  issue time, hence at most twice the skew apart, hence not beyond the window.
* `VerifyThreadsProofs`: `TypeCorrect`, `OnceAmongThreads`, `ErrorsBurnNothing`, for
  any number of threads. A thread may delete by a list that is out of date, so the
  invariant does not say that what was accepted is remembered inside the window; it
  says that a message is forgotten only when it is too late for it (`Remembered`): so
  much time has passed that no thread still at work can have read its clock while it
  was fresh. The
  thread that deleted had read its clock more than a window after the acceptance, and
  the margin `Roomy` is what carries this over to the threads that lag.
* `HandshakeProofs`: `TypeCorrect`, `HoldersNameTheProposer`, `VerdictsAreAuthentic`,
  `NothingStranded`, `NothingIsTakenBack`, `TrustNeedsSignature`, `AgentsKeepBooks`, with any
  number of agents, cards, proposals and restarts, and any post to any agent. To
  `PartiesAgree` and `AuthenticVerdicts` the invariant adds that an id has one proposal
  (`PidUnique`), that nothing else is held or accepted (`Proposed`), that an agent holds
  what it proposed or accepted until it is restarted (`Mirrored`), and that an
  attestation names the proposer or an agent that accepted (`Named`): `NothingStranded`
  is the last two together. `NothingIsTakenBack` is about single steps: only
  `Respond` could open what is already held, and does not; `Outcome` only adds.
  `TrustNeedsSignature` is about a sum over all proposals, taken in the order
  `CHOOSE` gives: a positive sum has a positive share (`SomeShare`), by induction on
  the number of those summed; a positive share is a recorded cooperation, both of
  whose verdicts were signed by their parties (`ShareIsEarned`).
  `AgentsKeepBooks` says that `Handshake` implements `OutcomeBooks`: under
  the invariant the first state maps to a first state, and every handler to a step or a
  stutter. `Propose` and `Respond` open a record after the proposer that all who have
  one name, `Attest` gives a verdict, `Outcome` closes if the other party signed what
  was posted and repeats if the agent did, `Restart` loses; the rest touches nothing
  that is mapped.
* `ReputationProofs`, of `Cooperation`: `TypeCorrect`, `SilenceAlone`, `OnceClosedClosed`,
  `OnlyFades`, for any grace, drift and number of attestations. `SilenceAlone` says
  something of arrivals the object has forgotten, since it keeps the last attestation of a
  party; the invariant ties them together (`Heard`): a party counts as having signed
  exactly if something arrived and it is not silent. `OnlyFades` rests on a weight that
  falls with every half-life (`HalvedFalls`), whole half-lives that only grow in number
  (`DivGrows`), and evidence that stays what it was (`SameEvidence`).
* `ReputationProofs`, of `TrustGraph`: `NegativesStay`, `CliquesStayUnheard`,
  `EachHeardOnce`, for any finite set of agents, any weights, any curve with values in
  1..Unit, and any depth. Each of the three loops is unrolled into a chain of search
  states, one for each turn (`ExpandChain`, `LevelChain`, `TestimonyChain`), so that what
  holds of a turn of the innermost loop (`VisitCases`) is carried through all of them.
  - `NegativesStay` compares the searches before and after a step that adds or changes a
    cooperation that did not go well. The search for x never goes through x, and it
    meets the new cooperation from its other party only: that one is visited already,
    or is nobody the node trusts, so that both searches stay in step.
  - `CliquesStayUnheard` follows the rings of `Circle`: at depth d the frontier lies in
    ring d (`RingsExist`), an edge between two outside the rings is never looked at, and
    what they did well together vouches for no one the search asks about (`SameTestimony`).
  - `EachHeardOnce` needs an invariant of the search (`Sound`). After d levels those
    visited are exactly the ones some way of length d or less leads to (`Reached`), each
    on the next frontier holds the product along a way of length d, and what was heard is a sum
    over those visited, each with one of its shortest ways. In the middle of a level
    the visited lie between the reached of d - 1 and of d, and what is still missing
    is trusted by a node of the frontier whose turn has not come. The bounds then follow from
    comparing three sums over the same witnesses.
* `EmbedCacheProofs`: `AnswersAreOwn`, for any processes, threads, texts, restarts and
  replies without an embedding. A vector travels from one call through memory, the text to
  be written, the file and a restart into another call; the invariant says of each
  of these places that what stands under a key is null or the key's own vector.
  `OnceForEachThread`, that a vector is computed once for each side of each thread at
  most, needs an account for every key (`Account`): while memory has no vector, none
  was computed since the last null; once it has one, what was computed and the sides
  that still lack it (`Due`) stay within the room there is, since each computation
  takes a side away and no call that begins now adds one.
* `EncounterProofs`: `MoreTrustNeverHurts`, `CountersWork`, `AcceptanceHasCeiling`,
  `MoreIsNeverLess`, `AdviceIsCapped`, `EntriesAreUnderstood`, `TypeCorrect`, for every
  cost profile, vocabulary file and semantic matcher. The invariants say that the last
  answer was deserved at the trust of its moment (`Deserved`), that its counters are
  what the cost model gives for its items (`Counters`), and that a proposal is the
  match of a card and a matcher (`Prompted`). Underneath lie the monotonicity of the
  multiplied-out inequality in trust, magnitude and confidence, the rounding of a
  counter-offer (off the ceiling by half a thousandth at most, so that a thousandth
  less clears), the best of several surpluses as a maximum that a larger
  list only raises, and the vocabulary as a fold that, in a clean file, leaves every
  entry as the one that lists it wrote it.
  `AdviceIsCapped` has a hypothesis, `FineRounding`: one thousandth is finer than what
  lies between the two confidences, measured in magnitude. Rounding could make the two
  ceilings equal otherwise, for headrooms close to zero. It holds for the constants of
  the run and for the defaults of the code by three orders of magnitude.
* `ManifestCommitmentProofs`: `Binding` (what recomputes to a hash of a tree, with
  whatever siblings, is a leaf of it) and `Complete` (the inclusion proof of each leaf
  recomputes to the root), for any number of leaves; both by induction, down the
  tree for the first, since a leaf's hash is no node's and a node has one pair of
  children, and up for the second, since at each level the hash so far is the one at
  the halved index. From these `EveryRevealVerifies`, `NothingElseVerifies` and
  `ExactBlame`: the invariant says that each manifest has its own number and
  hence salts and root (`IssuedInv`), and that each bundle is a reveal of one
  (`WireInv`). A receiver's bundle under another's root fails, since a leaf with a salt
  of one manifest is in no other.
* `ManifestDisclosureProofs`: `TypeCorrect`, `OneReveal`, `OnlyTheOwner`, `WithinPolicy`, for any dids,
  sessions, tiers, policies and reissues. The invariant adds that what is pending for a did was
  drawn for it and has bought nothing (`PendingUnspent`), and that a session that
  is about to send its answer has signed it (`AnswersSigned`).

Only model-checked: `PatientServed`, which is liveness under fairness and outside the
prover's reach, as ENABLED is. Every other property of a passing run is a theorem.

## 6. Not modelled

Byte-level encoding and cryptography, HTTP, JSON and body limits; `net.py` (a
stateless guard on URLs and resolved addresses); `status()` counters; the printed
output of the demos and of `stranger_harness.py`, which drive what is modelled here;
the regular expression of a capability name and the names in `core.json`; what an
embedding model makes of a text. A clock that steps backwards, free-threaded
Python and floating point are excluded by the models' assumptions.

## 7. Plan

What would come next, in this order:

1. A second abstract specification, `OnceOnly` (a channel that hands each message
   over at most once), implemented by `EnvelopeVerify`.
2. The experiment of `tests/test_inflated_claim.py`: an agent that keeps what it is
   entrusted with above a stake, over every schedule of opportunities.
3. Liveness of a handshake under fair clients; a clock that steps back.
