----------------------------- MODULE Handshake -----------------------------
(***************************************************************************)
(* Agents that meet, propose, answer and close a cooperation: the three    *)
(* POST handlers of flp/agent.py, each a whole action, and the clients     *)
(* that drive them (demo/demo_roundtrip.py, demo/demo_live_handshake.py).  *)
(*                                                                         *)
(* Whatever was signed may be posted to any agent: a handler asks who      *)
(* signed it, never whom it was meant for.  A posted object stays in its   *)
(* set: it may arrive late, again, out of order, in the wrong place, at    *)
(* its own signer, or never.                                               *)
(*                                                                         *)
(* What verify() turns away changes nothing here.  EnvelopeVerify and      *)
(* VerifyThreads say how long a nonce is remembered; a card or a proposal  *)
(* may come through again after that, when a request lags, or after a      *)
(* restart, and an outcome, which is verified without the cache, always.   *)
(* The handlers below take any of them at any time.                        *)
(***************************************************************************)
EXTENDS Outcomes, FiniteSetsExt

CONSTANTS
  Agent,         \* the agents, named by their did:key
  Pid,           \* the proposal ids uuid4() may draw
  Cards,         \* the cards that are posted: who signed them, whom they name
  Supplies,      \* <<y, x>>: y's surplus matches something x needs
  AskBar,        \* net evidence y wants before it asks for what it needs
  UnitBar,       \* net evidence x wants before it takes an offer as it stands
  Headroom,      \* the agents whose max_safe_magnitude() is positive
  AttestsAnyway, \* the clients that attest whatever was decided, as the demos do
  MaxSigned,     \* bound: proposals and attestations signed in all
  MaxRecords,    \* bound: how often each agent records one cooperation
  MaxRestarts,   \* bound: restarts of each agent
  NoPid          \* the entry of a proposal an agent does not know

Card == [by: Agent, agent_id: Agent]

ASSUME AgentAssumption ==
  /\ Cards \subseteq Card
  /\ Supplies \subseteq Agent \X Agent
  /\ AskBar \in [Agent -> Nat]
  /\ UnitBar \in [Agent -> Nat]
  /\ Headroom \subseteq Agent
  /\ AttestsAnyway \subseteq Agent
  /\ MaxSigned \in Nat
  /\ MaxRecords \in [Agent -> Nat] /\ MaxRestarts \in [Agent -> Nat]

\* A uuid4() is one of finitely many numbers.
ASSUME PidAssumption == IsFiniteSet(Pid)

VARIABLES
  proposals,     \* the signed proposals
  attestations,  \* the signed outcome attestations, counter-signatures included
  coops,         \* _coops: what each agent holds under each proposal id
  ledger,        \* ledger._coops: how often each cooperation was recorded
  overdue,       \* the proposals older than DANGLING_TIMEOUT_SEC
  accepted,      \* history: <<x, p>>, x answered "accept" to p
  restarts       \* how often each agent was restarted

vars == <<proposals, attestations, coops, ledger, overdue, accepted, restarts>>

Proposal == [pid: Pid, from: Agent, to: Agent, gives: BOOLEAN]
Attestation == [pid: Pid, by: Agent, counterparty: Agent, verdict: Verdict]
Coop == [a: Agent, b: Agent, att: [Agent -> Verdict \cup {Unsigned}]]

ASSUME NoPidAssumption == NoPid \notin Coop

Decision == {"accept", "counter", "decline"}

Known(y, p) == coops[y][p] # NoPid
NewCoop(a, b) == [a |-> a, b |-> b, att |-> [s \in Agent |-> Unsigned]]
Parties(c) == {c.a, c.b}
Used(p) == \E m \in proposals : m.pid = p

\* The bound on what is signed, once a step has signed.
Bounded == Cardinality(proposals') + Cardinality(attestations') <= MaxSigned

Init ==
  /\ proposals = {}
  /\ attestations = {}
  /\ coops = [y \in Agent |-> [p \in Pid |-> NoPid]]
  /\ ledger = [y \in Agent |-> [p \in Pid |-> 0]]
  /\ overdue = {}
  /\ accepted = {}
  /\ restarts = [y \in Agent |-> 0]

----------------------------------------------------------------------------
(* ReputationLedger._direct_evidence() over the agent's ledger.             *)
Net(y, x) ==
  MapThenSumSet(
    LAMBDA p : IF Known(y, p)
               THEN ledger[y][p] * Evidence(coops[y][p], p \in overdue, y, x) ELSE 0,
    Pid)

(* Whether trust(x) of y clears a bar.  An agent only records cooperations   *)
(* of its own, so that testimony adds nothing about another; it does about   *)
(* the agent itself, from those it trusts, and may lift it over the bar.     *)
Trusting(y, x, bar) ==
  {Net(y, x) >= bar}
    \cup (IF x = y /\ \E z \in Agent : Net(y, z) > 0 THEN {TRUE} ELSE {})

(* CostModel.proposal_items() for y before a card: risk falls with trust, so *)
(* that an item clears from some net evidence on.                            *)
Asks(y, c) ==
  {t /\ <<c.by, y>> \in Supplies : t \in Trusting(y, c.agent_id, AskBar[y])}
Gives(y, c) == <<y, c.by>> \in Supplies

\* handle_encounter() of y: a proposal to the agent the card names, whoever
\* signed it, and the cooperation registered with it.  If nothing clears and y
\* has nothing to offer it passes, and nothing changes.
Propose(y, c, p) ==
  /\ ~Used(p)
  /\ Gives(y, c) \/ TRUE \in Asks(y, c)
  /\ coops' = [coops EXCEPT ![y][p] = NewCoop(y, c.agent_id)]
  /\ proposals' = proposals \cup {[pid |-> p, from |-> y, to |-> c.agent_id,
                                   gives |-> Gives(y, c)]}
  /\ UNCHANGED <<attestations, ledger, overdue, accepted, restarts>>
  /\ Bounded

Decisions(x, m) ==
  IF ~m.gives THEN {"decline"}
  ELSE {IF t THEN "accept" ELSE IF x \in Headroom THEN "counter" ELSE "decline" :
          t \in Trusting(x, m.from, UnitBar[x])}

Answered(x, m, d) ==
  /\ accepted' = IF d = "accept" THEN accepted \cup {<<x, m.pid>>} ELSE accepted
  /\ UNCHANGED <<proposals, attestations, ledger, overdue, restarts>>

\* Mutant of Respond: the responder puts itself down as the proposer.
RespondSwapsParties(x, m, d) ==
  /\ Answered(x, m, d)
  /\ coops' = [coops EXCEPT ![x][m.pid] =
                 IF @ = NoPid /\ d # "decline" THEN NewCoop(x, m.from) ELSE @]

\* Mutant of Respond: the cooperation is mirrored only for a counter-offer.
RespondMirrorsCounters(x, m, d) ==
  /\ Answered(x, m, d)
  /\ coops' = [coops EXCEPT ![x][m.pid] =
                 IF @ = NoPid /\ d = "counter" THEN NewCoop(m.from, x) ELSE @]

\* Mutant of Respond: what is known under the id is not looked at.
RespondMirrorsAgain(x, m, d) ==
  /\ Answered(x, m, d)
  /\ coops' = [coops EXCEPT ![x][m.pid] = IF d # "decline" THEN NewCoop(m.from, x) ELSE @]

(* handle_respond() of x, be it the agent the proposal is addressed to or    *)
(* another: mirror the cooperation between the signer and x, unless x        *)
(* declines or has one under this id.                                        *)
Respond(x, m, d) ==
  /\ Answered(x, m, d)
  /\ coops' = [coops EXCEPT ![x][m.pid] =
                 IF @ = NoPid /\ d # "decline" THEN NewCoop(m.from, x) ELSE @]

(* make_attestation() by the client of x: for the proposer, after x's own    *)
(* acceptance or whatever was decided; or for the agent it proposed to, once *)
(* that one has accepted.                                                    *)
Attest(x, m, v) ==
  /\ \E z \in {m.from, m.to} :
       /\ \/ z = m.from /\ (<<x, m.pid>> \in accepted \/ (x = m.to /\ x \in AttestsAnyway))
          \/ z = m.to /\ x = m.from /\ <<m.to, m.pid>> \in accepted
       /\ attestations' = attestations \cup
            {[pid |-> m.pid, by |-> x, counterparty |-> z, verdict |-> v]}
  /\ UNCHANGED <<proposals, coops, ledger, overdue, accepted, restarts>>
  /\ Bounded

\* y has recorded the cooperation, with its counter-signature, which names whom
\* the body posted to it names.
Recorded(y, m) ==
  /\ Known(y, m.pid) /\ m.by \in Parties(coops[y][m.pid])
  /\ ledger[y][m.pid] < MaxRecords[y]
  /\ ledger' = [ledger EXCEPT ![y][m.pid] = @ + 1]
  /\ attestations' = attestations \cup
       {[pid |-> m.pid, by |-> y, counterparty |-> m.counterparty,
         verdict |-> "fulfilled"]}
  /\ UNCHANGED <<proposals, overdue, accepted, restarts>>
  /\ Bounded

\* Mutant of Outcome: our verdict is stored by its name, not its value.
OutcomeStoresName(y, m) ==
  /\ Recorded(y, m)
  /\ coops' = [coops EXCEPT ![y][m.pid].att =
                 [@ EXCEPT ![m.by] = m.verdict, ![y] = "FULFILLED"]]

\* Mutant of Outcome: what is stored for the peer is what we report.
OutcomeTakesOwnWord(y, m) ==
  /\ Recorded(y, m)
  /\ coops' = [coops EXCEPT ![y][m.pid].att =
                 [@ EXCEPT ![m.by] = "fulfilled", ![y] = "fulfilled"]]

\* Mutant of Outcome: the counter-signature is sent but not stored.
OutcomeWithoutCounter(y, m) ==
  /\ Recorded(y, m)
  /\ coops' = [coops EXCEPT ![y][m.pid].att = [@ EXCEPT ![m.by] = m.verdict]]

(* handle_outcome() of y for any attestation, its own included: the signer's *)
(* verdict is stored if it is a party, a `fulfilled` of y's own is signed,    *)
(* stored over it and returned, and the cooperation recorded, closed or not.  *)
Outcome(y, m) ==
  /\ Recorded(y, m)
  /\ coops' = [coops EXCEPT ![y][m.pid].att =
                 [@ EXCEPT ![m.by] = m.verdict, ![y] = "fulfilled"]]

\* DANGLING_TIMEOUT_SEC passes for a cooperation.
GraceEnds(p) ==
  /\ Used(p) /\ p \notin overdue
  /\ overdue' = overdue \cup {p}
  /\ UNCHANGED <<proposals, attestations, coops, ledger, accepted, restarts>>

\* FLPAgent.__post_init__(): nonces, cooperations and ledger live in memory.
Restart(y) ==
  /\ restarts[y] < MaxRestarts[y]
  /\ restarts' = [restarts EXCEPT ![y] = @ + 1]
  /\ coops' = [coops EXCEPT ![y] = [p \in Pid |-> NoPid]]
  /\ ledger' = [ledger EXCEPT ![y] = [p \in Pid |-> 0]]
  /\ UNCHANGED <<proposals, attestations, overdue, accepted>>

Next ==
  \/ \E y \in Agent :
       \/ \E c \in Cards, p \in Pid : Propose(y, c, p)
       \/ \E m \in proposals :
            \/ \E d \in Decisions(y, m) : Respond(y, m, d)
            \/ \E v \in Verdict : Attest(y, m, v)
       \/ \E m \in attestations : Outcome(y, m)
       \/ Restart(y)
  \/ \E p \in Pid : GraceEnds(p)

Spec == Init /\ [][Next]_vars

----------------------------------------------------------------------------
\* Type invariant of the agents' memories and of what they have signed.
TypeOK ==
  /\ proposals \subseteq Proposal
  /\ attestations \subseteq Attestation
  /\ coops \in [Agent -> [Pid -> Coop \cup {NoPid}]]
  /\ ledger \in [Agent -> [Pid -> Nat]]
  /\ overdue \subseteq Pid
  /\ accepted \subseteq Agent \X Pid
  /\ restarts \in [Agent -> Nat]

\* All who hold a proposal name its signer as the proposer.  The agent it is
\* addressed to and a proposer that was not restarted agree on the other party
\* as well; anyone else who answered it counts itself in its place
\* (agent.py:105, :158).
PartiesAgree ==
  \A n \in proposals, y \in Agent :
    Known(y, n.pid) =>
      /\ coops[y][n.pid].a = n.from
      /\ coops[y][n.pid].b \in {y, n.to}
      /\ y = n.from /\ restarts[y] = 0 => coops[y][n.pid].b = n.to
      /\ y # n.from => coops[y][n.pid].b = y

\* A verdict an agent holds was signed by the party it stands for, about this
\* cooperation, whatever was restarted, repeated, late or misdirected in between.
AuthenticVerdicts ==
  \A y, s \in Agent, p \in Pid :
    Known(y, p) /\ Signed(coops[y][p], s) =>
      \E m \in attestations :
        m.pid = p /\ m.by = s /\ m.verdict = coops[y][p].att[s]

\* A proposal answered again (by the same agent, by another or by its
\* own proposer) takes nothing from what is held under its id: as
\* long as an agent is not restarted its cooperations keep their parties, who
\* has signed stays signed, and the ledger keeps them (agent.py:157).
RecordsSurvive ==
  [][\A y \in Agent, p \in Pid :
       restarts'[y] = restarts[y] /\ Known(y, p) =>
         /\ Known(y, p)'
         /\ coops'[y][p].a = coops[y][p].a /\ coops'[y][p].b = coops[y][p].b
         /\ \A s \in Agent : Signed(coops[y][p], s) => Signed(coops[y][p], s)'
         /\ ledger'[y][p] >= ledger[y][p]]_vars

\* Trust in a peer is earned: an agent that is owed evidence in favour of x
\* holds a `fulfilled` x signed itself, about a cooperation it holds with x,
\* which x proposed or which was proposed to x.
TrustIsEarned ==
  \A y, x \in Agent :
    Net(y, x) > 0 =>
      \E m \in attestations, n \in proposals :
        /\ m.by = x /\ m.verdict = "fulfilled" /\ m.pid = n.pid
        /\ Known(y, n.pid) /\ Parties(coops[y][n.pid]) = {x, y}
        /\ n.from = x \/ (n.from = y /\ n.to = x)

\* An outcome that reaches the agent it names is not refused there as unknown
\* as long as that agent was not restarted, whatever its peer went through and
\* although some clients attest what was never accepted; nor is its signer, if
\* it is one of the two the proposal is between (agent.py:176-178,
\* reputation.py:107-109).
NoStrandedOutcome ==
  \A m \in attestations, n \in proposals :
    m.pid = n.pid /\ restarts[m.counterparty] = 0 =>
      /\ Known(m.counterparty, m.pid)
      /\ m.by \in {n.from, n.to} /\ m.counterparty \in {n.from, n.to} =>
           m.by \in Parties(coops[m.counterparty][m.pid])

(* The agents implement OutcomeBooks: an attestation is a verdict given, what *)
(* _coops holds is the record, and a cooperation counts once the ledger has   *)
(* it.                                                                        *)
Given == {<<m.pid, m.by, m.verdict>> : m \in attestations}
Counted == [y \in Agent |-> {p \in Pid : ledger[y][p] > 0}]

Promise == INSTANCE OutcomeBooks WITH given <- Given, held <- coops, counted <- Counted

\* Refinement: every step of the handlers, whatever arrives late, twice, in the
\* wrong place or after a restart, is one the abstract specification allows: a
\* cooperation is opened by one of its parties after the same proposer, and what
\* enters the ledger bears, from that step on, the agent's own verdict and the
\* one a party gave, which may be the agent itself (agent.py:105, :158, :179-185).
KeepsBooks == Promise!Spec

\* One cooperation is recorded once and weighs W_GOOD or W_BAD once
\* (reputation.py:45, "evidence mass of one confirmed-good cooperation").
RecordedOnce == \A y \in Agent, p \in Pid : ledger[y][p] <= 1

\* A peer that has let the grace pass without signing what it owes has lost
\* trust with the party that did sign (PROTOCOL.md 4.4).
SilenceIsPenalized ==
  \A n \in proposals : \A y, x \in {n.from, n.to} :
    /\ y # x /\ n.pid \in overdue
    /\ \E m \in attestations : m.pid = n.pid /\ m.by = y
    /\ \A m \in attestations : ~(m.pid = n.pid /\ m.by = x)
    /\ \A p \in Pid : p # n.pid => ledger[y][p] = 0
    => Net(y, x) < 0
=============================================================================
