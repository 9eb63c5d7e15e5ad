--------------------------- MODULE HandshakeProofs ---------------------------
(***************************************************************************)
(* Proofs about Handshake: for any agents, cards, proposals, wishes and    *)
(* bounds, and whatever is posted wherever and again, all who hold a       *)
(* proposal name its signer, every verdict an agent holds was signed by    *)
(* the party it stands for, nothing an agent holds is lost before it is    *)
(* restarted, trust is earned from the trusted, no outcome meets an        *)
(* unknown proposal at an agent that was not restarted, and the handlers   *)
(* implement OutcomeBooks.                                                 *)
(***************************************************************************)
EXTENDS Handshake, TLAPS, FiniteSetTheorems, WellFoundedInduction

\* One proposal for an id.
PidUnique == \A m, n \in proposals : m.pid = n.pid => m = n

\* Only what was proposed is held or accepted.
Proposed ==
  \A y \in Agent, p \in Pid :
    Known(y, p) \/ <<y, p>> \in accepted => Used(p)

\* What an agent proposed or accepted it holds until it is restarted.
Mirrored ==
  \A n \in proposals, y \in Agent :
    restarts[y] = 0 /\ (y = n.from \/ <<y, n.pid>> \in accepted) => Known(y, n.pid)

\* An attestation names the proposer, or an agent that accepted.
Named ==
  \A m \in attestations :
    \E n \in proposals :
      /\ n.pid = m.pid
      /\ m.counterparty = n.from \/ <<m.counterparty, n.pid>> \in accepted

\* The inductive invariant.
IInv ==
  /\ TypeOK
  /\ PidUnique
  /\ Proposed
  /\ PartiesAgree
  /\ AuthenticVerdicts
  /\ Mirrored
  /\ Named

\* What is signed has its type, and so has each of its fields.
LEMMA Fields ==
  ASSUME IInv
  PROVE  /\ \A m \in proposals : /\ m \in Proposal /\ m.pid \in Pid
                                 /\ m.from \in Agent /\ m.to \in Agent
         /\ \A m \in attestations :
              /\ m \in Attestation /\ m.pid \in Pid /\ m.by \in Agent
              /\ m.counterparty \in Agent /\ m.verdict \in Verdict
  BY DEF IInv, TypeOK, Proposal, Attestation

\* A fresh cooperation has its parties and no verdict yet.
LEMMA NewCoopType ==
  ASSUME NEW a \in Agent, NEW b \in Agent
  PROVE  /\ NewCoop(a, b) \in Coop
         /\ NewCoop(a, b).a = a /\ NewCoop(a, b).b = b
         /\ \A s \in Agent : ~Signed(NewCoop(a, b), s)
         /\ NewCoop(a, b) # NoPid
  BY NoPidAssumption DEF NewCoop, Coop, Signed, Unsigned

\* Whoever holds a cooperation is a party of it.
LEMMA HolderIsParty ==
  ASSUME IInv, NEW y \in Agent, NEW p \in Pid, Known(y, p)
  PROVE  y \in Parties(coops[y][p])
  <1>1. PICK n \in proposals : n.pid = p
    BY DEF IInv, Proposed, Used
  <1> QED BY <1>1 DEF IInv, PartiesAgree, Parties

\* An outcome that reaches the agent it names is known there, and its signer is
\* a party if the two are the proposal's.
LEMMA NamedKnown == IInv => NoStrandedOutcome
  <1> SUFFICES ASSUME IInv, NEW m \in attestations, NEW n \in proposals,
                      m.pid = n.pid, restarts[m.counterparty] = 0
               PROVE  /\ Known(m.counterparty, m.pid)
                      /\ m.by \in {n.from, n.to} /\ m.counterparty \in {n.from, n.to} =>
                           m.by \in Parties(coops[m.counterparty][m.pid])
    BY DEF NoStrandedOutcome
  <1>1. m.counterparty \in Agent /\ m.pid \in Pid
    BY Fields
  <1>2. Known(m.counterparty, m.pid)
    BY <1>1 DEF IInv, Mirrored, Named
  <1>3. /\ coops[m.counterparty][m.pid].a = n.from
        /\ m.counterparty = n.from => coops[m.counterparty][m.pid].b = n.to
        /\ m.counterparty # n.from => coops[m.counterparty][m.pid].b = m.counterparty
    BY <1>1, <1>2 DEF IInv, PartiesAgree
  <1> QED BY <1>2, <1>3 DEF Parties

\* Nothing is signed, held or recorded at the start.
LEMMA InitIInv == Init => IInv
  <1> SUFFICES ASSUME Init PROVE IInv
    OBVIOUS
  <1>1. TypeOK
    BY AgentAssumption DEF Init, TypeOK
  <1> QED BY <1>1 DEF Init, IInv, PidUnique, Proposed, PartiesAgree, AuthenticVerdicts,
                      Mirrored, Named, Known

\* The end of a grace changes no verdict and no record.
LEMMA GraceEndsStep == ASSUME IInv, NEW p \in Pid, GraceEnds(p) PROVE IInv'
  <1>1. TypeOK'
    BY DEF IInv, TypeOK, GraceEnds
  <1>2. (PidUnique /\ Proposed /\ PartiesAgree /\ AuthenticVerdicts /\ Mirrored /\ Named)'
    BY DEF GraceEnds, IInv, PidUnique, Proposed, PartiesAgree, AuthenticVerdicts, Mirrored,
           Named, Known, Signed, Used
  <1> QED BY <1>1, <1>2 DEF IInv

\* A proposal under a fresh id: y registers the cooperation it names.
LEMMA ProposeStep ==
  ASSUME IInv, NEW y \in Agent, NEW c \in Card, NEW p \in Pid, Propose(y, c, p)
  PROVE  IInv'
  <1> DEFINE new  == NewCoop(y, c.agent_id)
             prop == [pid |-> p, from |-> y, to |-> c.agent_id, gives |-> Gives(y, c)]
  <1>1. c.agent_id \in Agent
    BY DEF Card
  <1>2. /\ new \in Coop /\ new.a = y /\ new.b = c.agent_id /\ new # NoPid
        /\ \A s \in Agent : ~Signed(new, s)
    BY <1>1, NewCoopType
  <1>3. prop \in Proposal /\ prop.pid = p /\ prop.from = y /\ prop.to = c.agent_id
    BY <1>1 DEF Proposal, Gives
  <1>4. /\ coops' = [coops EXCEPT ![y][p] = new]
        /\ proposals' = proposals \cup {prop}
        /\ UNCHANGED <<attestations, ledger, overdue, accepted, restarts>>
        /\ \A m \in proposals : m.pid # p
    BY DEF Propose, Used
  <1> HIDE DEF new, prop
  <1>5. TypeOK'
    BY <1>2, <1>3, <1>4 DEF IInv, TypeOK
  <1>6. PidUnique'
    BY <1>3, <1>4 DEF IInv, PidUnique
  <1>7. \A z \in Agent, q \in Pid :
          coops'[z][q] = IF z = y /\ q = p THEN new ELSE coops[z][q]
    BY <1>4 DEF IInv, TypeOK
  <1>8. \A z \in Agent : ~Known(z, p) /\ <<z, p>> \notin accepted
    BY <1>4 DEF IInv, Proposed, Used
  <1>9. Proposed'
    BY <1>3, <1>4, <1>7 DEF IInv, Proposed, Known, Used
  <1>10. PartiesAgree'
    <2> SUFFICES ASSUME NEW n \in proposals', NEW z \in Agent, coops'[z][n.pid] # NoPid
                 PROVE  /\ coops'[z][n.pid].a = n.from
                        /\ coops'[z][n.pid].b \in {z, n.to}
                        /\ z = n.from /\ restarts'[z] = 0 => coops'[z][n.pid].b = n.to
                        /\ z # n.from => coops'[z][n.pid].b = z
      BY DEF PartiesAgree, Known
    <2>1. CASE n = prop
      <3>1. z = y
        BY <1>3, <1>7, <1>8, <2>1 DEF Known
      <3> QED BY <1>2, <1>3, <1>7, <2>1, <3>1
    <2>2. CASE n \in proposals
      <3>1. n.pid \in Pid /\ n.pid # p
        BY <1>4, <2>2, Fields
      <3> QED BY <1>4, <1>7, <2>2, <3>1 DEF IInv, PartiesAgree, Known
    <2> QED BY <1>4, <2>1, <2>2
  <1>11. AuthenticVerdicts'
    BY <1>2, <1>4, <1>7 DEF IInv, AuthenticVerdicts, Known, Signed
  <1>12. Mirrored'
    <2> SUFFICES ASSUME NEW n \in proposals', NEW z \in Agent, restarts[z] = 0,
                        z = n.from \/ <<z, n.pid>> \in accepted
                 PROVE  coops'[z][n.pid] # NoPid
      BY <1>4 DEF Mirrored, Known
    <2>1. CASE n = prop
      BY <1>2, <1>3, <1>7, <1>8, <2>1
    <2>2. CASE n \in proposals
      <3>1. n.pid \in Pid
        BY <2>2, Fields
      <3> QED BY <1>2, <1>7, <2>2, <3>1 DEF IInv, Mirrored, Known
    <2> QED BY <1>4, <2>1, <2>2
  <1>13. Named'
    BY <1>4 DEF IInv, Named
  <1> QED BY <1>5, <1>6, <1>9, <1>10, <1>11, <1>12, <1>13 DEF IInv

\* An answer mirrors, if anything, the cooperation between the signer and
\* whoever answers; a proposer that was not restarted has one already.
LEMMA RespondStep ==
  ASSUME IInv, NEW x \in Agent, NEW m \in proposals, NEW d \in Decision, Respond(x, m, d)
  PROVE  IInv'
  <1> DEFINE new == NewCoop(m.from, x)
             c   == IF coops[x][m.pid] = NoPid /\ d # "decline" THEN new
                    ELSE coops[x][m.pid]
             acc == IF d = "accept" THEN accepted \cup {<<x, m.pid>>} ELSE accepted
  <1>1. m \in Proposal /\ m.from \in Agent /\ m.pid \in Pid
    BY Fields
  <1>2. /\ new \in Coop /\ new.a = m.from /\ new.b = x /\ new # NoPid
        /\ \A s \in Agent : ~Signed(new, s)
    BY <1>1, NewCoopType
  <1>3. /\ coops' = [coops EXCEPT ![x][m.pid] = c]
        /\ accepted' = acc
        /\ UNCHANGED <<proposals, attestations, ledger, overdue, restarts>>
    BY DEF Respond, Answered
  <1>4. c \in Coop \cup {NoPid}
    BY <1>1, <1>2 DEF IInv, TypeOK
  <1>5. /\ c = coops[x][m.pid] \/ (c = new /\ ~Known(x, m.pid))
        /\ d = "accept" => c # NoPid
    BY <1>2 DEF Known
  <1>6. /\ accepted \subseteq accepted'
        /\ \A z \in Agent, q \in Pid :
             <<z, q>> \in accepted' =>
               <<z, q>> \in accepted \/ (z = x /\ q = m.pid /\ d = "accept")
        /\ accepted' \subseteq Agent \X Pid
    BY <1>1, <1>3 DEF IInv, TypeOK
  <1> HIDE DEF new, c, acc
  <1>7. TypeOK'
    BY <1>1, <1>3, <1>4, <1>6 DEF IInv, TypeOK
  <1>8. \A z \in Agent, q \in Pid :
          coops'[z][q] = IF z = x /\ q = m.pid THEN c ELSE coops[z][q]
    BY <1>1, <1>3 DEF IInv, TypeOK
  <1>9. PidUnique'
    BY <1>3 DEF IInv, PidUnique
  <1>10. Proposed'
    BY <1>3, <1>6, <1>8 DEF IInv, Proposed, Known, Used
  <1>11. PartiesAgree'
    <2> SUFFICES ASSUME NEW n \in proposals, NEW z \in Agent, coops'[z][n.pid] # NoPid
                 PROVE  /\ coops'[z][n.pid].a = n.from
                        /\ coops'[z][n.pid].b \in {z, n.to}
                        /\ z = n.from /\ restarts[z] = 0 => coops'[z][n.pid].b = n.to
                        /\ z # n.from => coops'[z][n.pid].b = z
      BY <1>3 DEF PartiesAgree, Known
    <2>1. n.pid \in Pid
      BY Fields
    <2>2. CASE coops'[z][n.pid] = coops[z][n.pid]
      BY <2>1, <2>2 DEF IInv, PartiesAgree, Known
    <2>3. CASE z = x /\ n.pid = m.pid /\ c = new /\ ~Known(x, m.pid)
      <3>1. n = m /\ coops'[z][n.pid] = new
        BY <1>8, <2>1, <2>3 DEF IInv, PidUnique
      <3>2. x = m.from => restarts[x] # 0
        BY <2>3 DEF IInv, Mirrored
      <3> QED BY <1>2, <2>3, <3>1, <3>2
    <2> QED BY <1>5, <1>8, <2>1, <2>2, <2>3
  <1>12. AuthenticVerdicts'
    BY <1>2, <1>3, <1>5, <1>8 DEF IInv, AuthenticVerdicts, Known, Signed
  <1>13. Mirrored'
    <2> SUFFICES ASSUME NEW n \in proposals, NEW z \in Agent, restarts[z] = 0,
                        z = n.from \/ <<z, n.pid>> \in accepted'
                 PROVE  coops'[z][n.pid] # NoPid
      BY <1>3 DEF Mirrored, Known
    <2>1. n.pid \in Pid
      BY Fields
    <2>2. CASE z = x /\ n.pid = m.pid /\ d = "accept"
      BY <1>5, <1>8, <2>1, <2>2
    <2>3. CASE z = n.from \/ <<z, n.pid>> \in accepted
      <3>1. coops[z][n.pid] # NoPid
        BY <2>3 DEF IInv, Mirrored, Known
      <3> QED BY <1>2, <1>5, <1>8, <2>1, <3>1 DEF Known
    <2> QED BY <1>6, <2>1, <2>2, <2>3
  <1>14. Named'
    BY <1>3, <1>6 DEF IInv, Named
  <1> QED BY <1>7, <1>9, <1>10, <1>11, <1>12, <1>13, <1>14 DEF IInv

\* One more attestation takes none away, and names the proposer or one that accepted.
LEMMA AttestStep ==
  ASSUME IInv, NEW x \in Agent, NEW m \in proposals, NEW v \in Verdict, Attest(x, m, v)
  PROVE  IInv'
  <1>1. m.from \in Agent /\ m.to \in Agent /\ m.pid \in Pid
    BY Fields
  <1>2. PICK z \in {m.from, m.to} :
          /\ z = m.from \/ <<z, m.pid>> \in accepted
          /\ attestations' = attestations \cup
               {[pid |-> m.pid, by |-> x, counterparty |-> z, verdict |-> v]}
    BY DEF Attest
  <1> DEFINE a == [pid |-> m.pid, by |-> x, counterparty |-> z, verdict |-> v]
  <1>3. a \in Attestation /\ a.pid = m.pid /\ a.counterparty = z
    BY <1>1 DEF Attestation
  <1>4. attestations' = attestations \cup {a}
    BY <1>2
  <1> HIDE DEF a
  <1>5. UNCHANGED <<proposals, coops, ledger, overdue, accepted, restarts>>
    BY DEF Attest
  <1>6. TypeOK'
    BY <1>3, <1>4, <1>5 DEF IInv, TypeOK
  <1>7. (PidUnique /\ Proposed /\ PartiesAgree /\ Mirrored)'
    BY <1>5 DEF IInv, PidUnique, Proposed, PartiesAgree, Mirrored, Known, Used
  <1>8. AuthenticVerdicts'
    BY <1>4, <1>5 DEF IInv, AuthenticVerdicts, Known, Signed
  <1>9. Named'
    BY <1>2, <1>3, <1>4, <1>5 DEF IInv, Named
  <1> QED BY <1>6, <1>7, <1>8, <1>9 DEF IInv

\* What handle_outcome() makes of the cooperation: the same parties, the verdict
\* posted and a `fulfilled` of y's own, which may take its place.
LEMMA OutcomeCoop ==
  ASSUME IInv, NEW y \in Agent, NEW m \in attestations, Outcome(y, m)
  PROVE  LET old  == coops[y][m.pid]
             new  == coops'[y][m.pid]
             ours == [pid |-> m.pid, by |-> y, counterparty |-> m.counterparty,
                      verdict |-> "fulfilled"]
         IN  /\ old \in Coop /\ old # NoPid /\ m.by \in {old.a, old.b}
             /\ new \in Coop /\ new # NoPid /\ new.a = old.a /\ new.b = old.b
             /\ new.att[y] = "fulfilled"
             /\ m.by # y => new.att[m.by] = m.verdict
             /\ \A s \in Agent \ {y, m.by} : new.att[s] = old.att[s]
             /\ \A z \in Agent, q \in Pid :
                  ~(z = y /\ q = m.pid) => coops'[z][q] = coops[z][q]
             /\ coops' \in [Agent -> [Pid -> Coop \cup {NoPid}]]
             /\ attestations' = attestations \cup {ours}
             /\ ours \in Attestation
             /\ ledger' = [ledger EXCEPT ![y][m.pid] = @ + 1]
             /\ UNCHANGED <<proposals, overdue, accepted, restarts>>
  <1> DEFINE old  == coops[y][m.pid]
             new  == [old EXCEPT !.att = [@ EXCEPT ![m.by] = m.verdict, ![y] = "fulfilled"]]
             ours == [pid |-> m.pid, by |-> y, counterparty |-> m.counterparty,
                      verdict |-> "fulfilled"]
  <1>1. m.pid \in Pid /\ m.by \in Agent /\ m.counterparty \in Agent /\ m.verdict \in Verdict
    BY Fields
  <1>2. /\ old # NoPid /\ m.by \in {old.a, old.b}
        /\ coops' = [coops EXCEPT ![y][m.pid] = new]
        /\ attestations' = attestations \cup {ours}
        /\ ledger' = [ledger EXCEPT ![y][m.pid] = @ + 1]
        /\ UNCHANGED <<proposals, overdue, accepted, restarts>>
    BY DEF Outcome, Recorded, Known, Parties
  <1>3. old \in Coop
    BY <1>1, <1>2 DEF IInv, TypeOK
  <1>4. /\ new \in Coop /\ new.a = old.a /\ new.b = old.b
        /\ new.att[y] = "fulfilled"
        /\ m.by # y => new.att[m.by] = m.verdict
        /\ \A s \in Agent \ {y, m.by} : new.att[s] = old.att[s]
    BY <1>1, <1>3 DEF Coop, Verdict
  <1>5. new # NoPid
    BY <1>4, NoPidAssumption
  <1>6. ours \in Attestation
    BY <1>1 DEF Attestation, Verdict
  <1> HIDE DEF new
  <1>7. /\ coops'[y][m.pid] = new
        /\ \A z \in Agent, q \in Pid :
             ~(z = y /\ q = m.pid) => coops'[z][q] = coops[z][q]
        /\ coops' \in [Agent -> [Pid -> Coop \cup {NoPid}]]
    BY <1>1, <1>2, <1>4 DEF IInv, TypeOK
  <1> QED BY <1>2, <1>3, <1>4, <1>5, <1>6, <1>7

\* Recording: every verdict stored is signed by its party, in this step if not before.
LEMMA OutcomeStep ==
  ASSUME IInv, NEW y \in Agent, NEW m \in attestations, Outcome(y, m)
  PROVE  IInv'
  <1> DEFINE old  == coops[y][m.pid]
             new  == coops'[y][m.pid]
             ours == [pid |-> m.pid, by |-> y, counterparty |-> m.counterparty,
                      verdict |-> "fulfilled"]
  <1>1. m.pid \in Pid /\ m.by \in Agent
    BY Fields
  <1>2. /\ old # NoPid /\ new # NoPid /\ new.a = old.a /\ new.b = old.b
        /\ new.att[y] = "fulfilled"
        /\ m.by # y => new.att[m.by] = m.verdict
        /\ \A s \in Agent \ {y, m.by} : new.att[s] = old.att[s]
        /\ \A z \in Agent, q \in Pid :
             ~(z = y /\ q = m.pid) => coops'[z][q] = coops[z][q]
        /\ coops' \in [Agent -> [Pid -> Coop \cup {NoPid}]]
        /\ attestations' = attestations \cup {ours}
        /\ ours \in Attestation
        /\ ledger' = [ledger EXCEPT ![y][m.pid] = @ + 1]
        /\ UNCHANGED <<proposals, overdue, accepted, restarts>>
    BY OutcomeCoop
  <1>3. /\ ours.pid = m.pid /\ ours.by = y /\ ours.verdict = "fulfilled"
        /\ ours.counterparty = m.counterparty
    OBVIOUS
  <1> HIDE DEF ours
  <1>4. TypeOK'
    <2>1. ledger' \in [Agent -> [Pid -> Nat]]
      <3>1. ledger[y][m.pid] + 1 \in Nat
        BY <1>1 DEF IInv, TypeOK
      <3>2. ledger' = [ledger EXCEPT ![y] = [@ EXCEPT ![m.pid] = ledger[y][m.pid] + 1]]
        BY <1>2
      <3> QED BY <1>1, <3>1, <3>2 DEF IInv, TypeOK
    <2> QED BY <1>2, <2>1 DEF IInv, TypeOK
  <1>5. \A z \in Agent, q \in Pid :
          /\ Known(z, q) <=> coops'[z][q] # NoPid
          /\ Known(z, q) => coops'[z][q].a = coops[z][q].a /\ coops'[z][q].b = coops[z][q].b
    BY <1>2 DEF Known
  <1>6. (PidUnique /\ Proposed)'
    BY <1>2, <1>5 DEF IInv, PidUnique, Proposed, Known, Used
  <1>7. PartiesAgree'
    <2> SUFFICES ASSUME NEW n \in proposals, NEW z \in Agent, coops'[z][n.pid] # NoPid
                 PROVE  /\ coops'[z][n.pid].a = n.from
                        /\ coops'[z][n.pid].b \in {z, n.to}
                        /\ z = n.from /\ restarts[z] = 0 => coops'[z][n.pid].b = n.to
                        /\ z # n.from => coops'[z][n.pid].b = z
      BY <1>2 DEF PartiesAgree, Known
    <2>1. n.pid \in Pid
      BY Fields
    <2> QED BY <1>5, <2>1 DEF IInv, PartiesAgree
  <1>8. AuthenticVerdicts'
    <2> SUFFICES ASSUME NEW z \in Agent, NEW s \in Agent, NEW q \in Pid,
                        coops'[z][q] # NoPid, coops'[z][q].att[s] # Unsigned
                 PROVE  \E n \in attestations' :
                          n.pid = q /\ n.by = s /\ n.verdict = coops'[z][q].att[s]
      BY DEF AuthenticVerdicts, Known, Signed
    <2>1. CASE z = y /\ q = m.pid /\ s = y
      BY <1>2, <1>3, <2>1
    <2>2. CASE z = y /\ q = m.pid /\ s = m.by /\ s # y
      BY <1>2, <2>2
    <2>3. CASE z = y /\ q = m.pid /\ s \notin {y, m.by}
      <3>1. coops[z][q] # NoPid /\ coops'[z][q].att[s] = coops[z][q].att[s]
        BY <1>2, <2>3
      <3>2. attestations \subseteq attestations'
        BY <1>2
      <3> QED BY <3>1, <3>2 DEF IInv, AuthenticVerdicts, Known, Signed
    <2>4. CASE ~(z = y /\ q = m.pid)
      BY <1>2, <2>4 DEF IInv, AuthenticVerdicts, Known, Signed
    <2> QED BY <2>1, <2>2, <2>3, <2>4
  <1>9. Mirrored'
    <2> SUFFICES ASSUME NEW n \in proposals, NEW z \in Agent, restarts[z] = 0,
                        z = n.from \/ <<z, n.pid>> \in accepted
                 PROVE  coops'[z][n.pid] # NoPid
      BY <1>2 DEF Mirrored, Known
    <2>1. n.pid \in Pid
      BY Fields
    <2> QED BY <1>5, <2>1 DEF IInv, Mirrored
  <1>10. Named'
    BY <1>2, <1>3 DEF IInv, Named
  <1> QED BY <1>4, <1>6, <1>7, <1>8, <1>9, <1>10 DEF IInv

\* A restarted agent knows nothing; what the others hold stays.
LEMMA RestartStep == ASSUME IInv, NEW y \in Agent, Restart(y) PROVE IInv'
  <1>1. /\ restarts' = [restarts EXCEPT ![y] = @ + 1]
        /\ coops' = [coops EXCEPT ![y] = [p \in Pid |-> NoPid]]
        /\ ledger' = [ledger EXCEPT ![y] = [p \in Pid |-> 0]]
        /\ UNCHANGED <<proposals, attestations, overdue, accepted>>
    BY DEF Restart
  <1>2. TypeOK'
    BY <1>1 DEF IInv, TypeOK
  <1>3. \A z \in Agent, p \in Pid : coops'[z][p] = IF z = y THEN NoPid ELSE coops[z][p]
    BY <1>1 DEF IInv, TypeOK
  <1>4. /\ restarts'[y] # 0
        /\ \A z \in Agent : restarts'[z] = 0 => z # y /\ restarts[z] = 0
    BY <1>1 DEF IInv, TypeOK
  <1>5. (PidUnique /\ Proposed /\ Named)'
    BY <1>1, <1>3 DEF IInv, PidUnique, Proposed, Named, Known, Used
  <1>6. AuthenticVerdicts'
    BY <1>1, <1>3 DEF IInv, AuthenticVerdicts, Known, Signed
  <1>7. PartiesAgree'
    <2>1. \A n \in proposals : n.pid \in Pid
      BY Fields
    <2> QED BY <1>1, <1>3, <1>4, <2>1 DEF IInv, PartiesAgree, Known
  <1>8. Mirrored'
    <2>1. \A n \in proposals : n.pid \in Pid
      BY Fields
    <2> QED BY <1>1, <1>3, <1>4, <2>1 DEF IInv, Mirrored, Known
  <1> QED BY <1>2, <1>5, <1>6, <1>7, <1>8 DEF IInv

LEMMA DecisionsType == ASSUME NEW x, NEW m PROVE Decisions(x, m) \subseteq Decision
  BY DEF Decisions, Decision

\* The steps of Next, one by one.
LEMMA Steps ==
  ASSUME Next
  PROVE  \/ \E y \in Agent, c \in Card, p \in Pid : Propose(y, c, p)
         \/ \E x \in Agent, m \in proposals, d \in Decision : Respond(x, m, d)
         \/ \E x \in Agent, m \in proposals, v \in Verdict : Attest(x, m, v)
         \/ \E y \in Agent, m \in attestations : Outcome(y, m)
         \/ \E y \in Agent : Restart(y)
         \/ \E p \in Pid : GraceEnds(p)
  <1>1. Cards \subseteq Card
    BY AgentAssumption
  <1> QED BY <1>1, DecisionsType DEF Next

\* Every step keeps the invariant.
LEMMA NextIInv == IInv /\ [Next]_vars => IInv'
  <1> SUFFICES ASSUME IInv, [Next]_vars PROVE IInv'
    OBVIOUS
  <1>1. CASE Next
    BY <1>1, Steps, ProposeStep, RespondStep, AttestStep, OutcomeStep, RestartStep,
       GraceEndsStep
  <1>2. CASE UNCHANGED vars
    BY <1>2 DEF vars, IInv, TypeOK, PidUnique, Proposed, PartiesAgree, AuthenticVerdicts,
                Mirrored, Named, Known, Signed, Used
  <1> QED BY <1>1, <1>2

\* The invariant holds throughout: what agents hold is what was proposed and signed.
THEOREM Invariance == Spec => []IInv
  BY InitIInv, NextIInv, PTL DEF Spec

\* The agents' memories and the signed objects keep their types.
THEOREM TypeCorrect == Spec => []TypeOK
  BY Invariance, PTL DEF IInv

\* All who hold a proposal name its signer; whoever else answers counts itself
\* as the other party, and a proposer that was not restarted the addressee.
THEOREM HoldersNameTheProposer == Spec => []PartiesAgree
  BY Invariance, PTL DEF IInv

\* Every verdict held anywhere was signed by its party, restarts included.
THEOREM VerdictsAreAuthentic == Spec => []AuthenticVerdicts
  BY Invariance, PTL DEF IInv

\* No outcome that reaches the agent it names is refused there as unknown, or
\* as signed by a stranger, before that agent is restarted, whatever its peer went
\* through (agent.py:105, 148-160, 176-178).
THEOREM NothingStranded == Spec => []NoStrandedOutcome
  BY Invariance, NamedKnown, PTL

----------------------------------------------------------------------------
(* That records survive, step by step.                                      *)

Survives ==
  \A y \in Agent, p \in Pid :
    restarts'[y] = restarts[y] /\ Known(y, p) =>
      /\ Known(y, p)'
      /\ coops'[y][p].a = coops[y][p].a /\ coops'[y][p].b = coops[y][p].b
      /\ \A s \in Agent : Signed(coops[y][p], s) => Signed(coops[y][p], s)'
      /\ ledger'[y][p] >= ledger[y][p]

\* A record that is not touched survives.
LEMMA KeptSurvives ==
  ASSUME IInv, NEW y \in Agent, NEW p \in Pid, Known(y, p),
         coops'[y][p] = coops[y][p], ledger'[y][p] = ledger[y][p]
  PROVE  /\ Known(y, p)'
         /\ coops'[y][p].a = coops[y][p].a /\ coops'[y][p].b = coops[y][p].b
         /\ \A s \in Agent : Signed(coops[y][p], s) => Signed(coops[y][p], s)'
         /\ ledger'[y][p] >= ledger[y][p]
  <1>1. ledger[y][p] \in Nat
    BY DEF IInv, TypeOK
  <1> QED BY <1>1 DEF Known, Signed

\* handle_encounter() and handle_respond() write under an id the agent does not know.
LEMMA OpenSurvives ==
  ASSUME IInv, NEW x \in Agent, NEW q \in Pid, NEW c, UNCHANGED ledger,
         coops[x][q] = NoPid \/ c = coops[x][q], coops' = [coops EXCEPT ![x][q] = c]
  PROVE  Survives
  <1> SUFFICES ASSUME NEW y \in Agent, NEW p \in Pid, Known(y, p)
               PROVE  coops'[y][p] = coops[y][p] /\ ledger'[y][p] = ledger[y][p]
    BY KeptSurvives DEF Survives
  <1> QED BY DEF IInv, TypeOK, Known

LEMMA OutcomeSurvives ==
  ASSUME IInv, NEW x \in Agent, NEW m \in attestations, Outcome(x, m)
  PROVE  Survives
  <1> DEFINE old == coops[x][m.pid]
             new == coops'[x][m.pid]
  <1>1. m.pid \in Pid /\ m.by \in Agent /\ m.verdict \in Verdict
    BY Fields
  <1>2. /\ new # NoPid /\ new.a = old.a /\ new.b = old.b
        /\ new.att[x] = "fulfilled"
        /\ m.by # x => new.att[m.by] = m.verdict
        /\ \A s \in Agent \ {x, m.by} : new.att[s] = old.att[s]
        /\ \A z \in Agent, q \in Pid :
             ~(z = x /\ q = m.pid) => coops'[z][q] = coops[z][q]
        /\ ledger' = [ledger EXCEPT ![x][m.pid] = @ + 1]
    BY OutcomeCoop
  <1>3. \A z \in Agent, q \in Pid :
          ledger'[z][q] = IF z = x /\ q = m.pid THEN ledger[z][q] + 1 ELSE ledger[z][q]
    BY <1>1, <1>2 DEF IInv, TypeOK
  <1> SUFFICES ASSUME NEW y \in Agent, NEW p \in Pid, Known(y, p)
               PROVE  /\ Known(y, p)'
                      /\ coops'[y][p].a = coops[y][p].a /\ coops'[y][p].b = coops[y][p].b
                      /\ \A s \in Agent : Signed(coops[y][p], s) => Signed(coops[y][p], s)'
                      /\ ledger'[y][p] >= ledger[y][p]
    BY DEF Survives
  <1>4. CASE y = x /\ p = m.pid
    <2>1. Known(y, p)' /\ new.a = old.a /\ new.b = old.b
      BY <1>2, <1>4 DEF Known
    <2>2. ledger'[y][p] >= ledger[y][p]
      BY <1>3, <1>4 DEF IInv, TypeOK
    <2>3. \A s \in Agent : Signed(coops[y][p], s) => Signed(coops[y][p], s)'
      BY <1>1, <1>2, <1>4 DEF Signed, Unsigned, Verdict
    <2> QED BY <1>4, <2>1, <2>2, <2>3
  <1>5. CASE ~(y = x /\ p = m.pid)
    BY <1>2, <1>3, <1>5, KeptSurvives
  <1> QED BY <1>4, <1>5

LEMMA NextSurvives == IInv /\ [Next]_vars => Survives
  <1> SUFFICES ASSUME IInv, [Next]_vars PROVE Survives
    OBVIOUS
  <1>1. ASSUME NEW y \in Agent, NEW c \in Card, NEW p \in Pid, Propose(y, c, p)
        PROVE  Survives
    <2>1. coops[y][p] = NoPid
      BY <1>1 DEF Propose, IInv, Proposed, Known
    <2> QED BY <1>1, <2>1, OpenSurvives DEF Propose
  <1>2. ASSUME NEW x \in Agent, NEW m \in proposals, NEW d \in Decision, Respond(x, m, d)
        PROVE  Survives
    <2> DEFINE c == IF coops[x][m.pid] = NoPid /\ d # "decline" THEN NewCoop(m.from, x)
                    ELSE coops[x][m.pid]
    <2>1. /\ coops' = [coops EXCEPT ![x][m.pid] = c] /\ UNCHANGED ledger
          /\ coops[x][m.pid] = NoPid \/ c = coops[x][m.pid]
      BY <1>2 DEF Respond, Answered
    <2> HIDE DEF c
    <2>2. m.pid \in Pid
      BY Fields
    <2> QED BY <2>1, <2>2, OpenSurvives
  <1>3. ASSUME UNCHANGED <<coops, ledger>> PROVE Survives
    BY <1>3, KeptSurvives DEF Survives
  <1>4. ASSUME NEW z \in Agent, Restart(z) PROVE Survives
    <2>1. /\ restarts' = [restarts EXCEPT ![z] = @ + 1]
          /\ coops' = [coops EXCEPT ![z] = [p \in Pid |-> NoPid]]
          /\ ledger' = [ledger EXCEPT ![z] = [p \in Pid |-> 0]]
      BY <1>4 DEF Restart
    <2>2. \A y \in Agent : restarts'[y] = restarts[y] =>
            coops'[y] = coops[y] /\ ledger'[y] = ledger[y]
      BY <2>1 DEF IInv, TypeOK
    <2> QED BY <2>2, KeptSurvives DEF Survives
  <1>5. CASE Next
    BY <1>1, <1>2, <1>3, <1>4, <1>5, Steps, OutcomeSurvives DEF Attest, GraceEnds
  <1>6. CASE UNCHANGED vars
    BY <1>3, <1>6 DEF vars
  <1> QED BY <1>5, <1>6

\* What an agent holds keeps its parties and its signatures, and the ledger its
\* entries, until the agent is restarted, whatever is answered or posted again.
THEOREM NothingIsTakenBack == Spec => RecordsSurvive
  <1>1. IInv /\ [Next]_vars => [Survives]_vars
    BY NextSurvives
  <1> QED BY <1>1, Invariance, PTL DEF Spec, RecordsSurvive, Survives

----------------------------------------------------------------------------
(* That trust is earned.  Net adds up one share per proposal id: the fold   *)
(* behind it is a recursive function, which is shown to exist first, on the *)
(* sets of at most n ids; then a sum of shares none of which is positive is *)
(* not positive.                                                            *)

Share(y, x, p) ==
  IF Known(y, p) THEN ledger[y][p] * Evidence(coops[y][p], p \in overdue, y, x) ELSE 0

\* What the sums over the sets of ids are, given the sums over smaller ones.
Sums(y, x, sum) ==
  [s \in SUBSET Pid |->
     IF s = {} THEN 0
     ELSE Share(y, x, CHOOSE p \in s : TRUE) + sum[s \ {CHOOSE p \in s : TRUE}]]

\* Induction over Nat, for a set of numbers instead of a predicate.
LEMMA Induction ==
  ASSUME NEW S, 0 \in S, \A n \in Nat : n \in S => n + 1 \in S
  PROVE  Nat \subseteq S
  <1> SUFFICES ASSUME Nat \ S # {} PROVE FALSE
    OBVIOUS
  <1>1. PICK n \in Nat \ S : \A y \in Nat \ S : ~ (<<y, n>> \in OpToRel(<, Nat))
    <2>1. Nat \ S \subseteq Nat
      OBVIOUS
    <2> QED BY <2>1, WFMin, NatLessThanWellFounded
  <1>2. \A y \in Nat \ S : ~ (y < n)
    BY <1>1 DEF OpToRel
  <1>3. n - 1 \in Nat /\ n - 1 \in S
    BY <1>2
  <1> QED BY <1>3

\* The sets of ids lose one element and one of their cardinality at a time.
LEMMA OneLess ==
  ASSUME NEW s \in SUBSET Pid
  PROVE  /\ Cardinality(s) \in Nat
         /\ Cardinality(s) <= Cardinality(Pid)
         /\ Cardinality(s) = 0 <=> s = {}
         /\ s # {} => /\ (CHOOSE p \in s : TRUE) \in s
                      /\ Cardinality(s \ {CHOOSE p \in s : TRUE}) = Cardinality(s) - 1
  <1>1. IsFiniteSet(s) /\ Cardinality(s) <= Cardinality(Pid)
    BY PidAssumption, FS_Subset
  <1>2. Cardinality(s) \in Nat /\ (Cardinality(s) = 0 <=> s = {})
    BY <1>1, FS_CardinalityType, FS_EmptySet
  <1>3. \A p \in s : Cardinality(s \ {p}) = Cardinality(s) - 1
    BY <1>1, FS_RemoveElement
  <1> QED BY <1>1, <1>2, <1>3

\* The sum over a set of ids: nothing, or one share and the sum of the rest.
LEMMA NetDef ==
  ASSUME NEW y, NEW x
  PROVE  \E sum : Net(y, x) = sum[Pid] /\ sum = Sums(y, x, sum)
  <1> DEFINE Body(f, s) == IF s = {} THEN 0
                           ELSE Share(y, x, CHOOSE p \in s : TRUE)
                                  + f[s \ {CHOOSE p \in s : TRUE}]
             F(f) == [s \in SUBSET Pid |-> Body(f, s)]
             Upto(n) == {s \in SUBSET Pid : Cardinality(s) <= n}
             S == {n \in Nat : \E f : f = [s \in Upto(n) |-> Body(f, s)]}
  <1>1. 0 \in S
    <2>1. Upto(0) = {{}}
      <3>1. ASSUME NEW s \in SUBSET Pid, Cardinality(s) <= 0 PROVE s = {}
        <4>1. Cardinality(s) \in Nat /\ (Cardinality(s) = 0 <=> s = {})
          BY OneLess
        <4> QED BY <3>1, <4>1
      <3>2. {} \in SUBSET Pid /\ Cardinality({}) <= 0
        BY FS_EmptySet
      <3> QED BY <3>1, <3>2
    <2>2. [s \in {{}} |-> 0] = [s \in {{}} |-> Body([t \in {{}} |-> 0], s)]
      OBVIOUS
    <2> QED BY <2>1, <2>2
  <1>2. ASSUME NEW n \in Nat, n \in S PROVE n + 1 \in S
    <2>1. PICK f : f = [s \in Upto(n) |-> Body(f, s)]
      BY <1>2
    <2> DEFINE g == [s \in Upto(n + 1) |-> IF s \in Upto(n) THEN f[s] ELSE Body(f, s)]
    <2>2. ASSUME NEW s \in Upto(n + 1) PROVE g[s] = Body(g, s)
      <3>1. CASE s = {}
        BY <2>1, <3>1
      <3>2. CASE s # {}
        <4> DEFINE r == s \ {CHOOSE p \in s : TRUE}
        <4>1. r \in Upto(n) /\ r \in Upto(n + 1)
          BY <3>2, OneLess
        <4>2. g[r] = f[r]
          BY <4>1
        <4>3. g[s] = Body(f, s)
          BY <2>1
        <4> QED BY <3>2, <4>2, <4>3
      <3> QED BY <3>1, <3>2
    <2>3. g = [s \in Upto(n + 1) |-> Body(g, s)]
      <3> HIDE DEF Body
      <3>1. [s \in Upto(n + 1) |-> g[s]] = [s \in Upto(n + 1) |-> Body(g, s)]
        BY <2>2
      <3> QED BY <3>1
    <2> HIDE DEF g, Body, Upto
    <2> QED BY <2>3
  <1>3. Cardinality(Pid) \in Nat /\ Cardinality(Pid) \in S
    <2> HIDE DEF S
    <2> QED BY <1>1, <1>2, Induction, OneLess
  <1>4. Upto(Cardinality(Pid)) = SUBSET Pid
    BY OneLess
  <1>5. \E f : f = F(f)
    <2> HIDE DEF Body, Upto
    <2> QED BY <1>3, <1>4
  <1>6. Net(y, x) = (CHOOSE f : f = F(f))[Pid]
    BY DEF Net, MapThenSumSet, MapThenFoldSet, Share
  <1> HIDE DEF F
  <1>7. (CHOOSE f : f = F(f)) = F(CHOOSE f : f = F(f))
    BY <1>5
  <1> QED BY <1>6, <1>7 DEF F, Sums

\* Evidence in favour needs a share in favour.
LEMMA SomeShare ==
  ASSUME NEW y, NEW x, \A p \in Pid : Share(y, x, p) \in Int, Net(y, x) > 0
  PROVE  \E p \in Pid : Share(y, x, p) > 0
  <1> SUFFICES ASSUME \A p \in Pid : Share(y, x, p) <= 0
               PROVE  Net(y, x) \in Int /\ Net(y, x) <= 0
    OBVIOUS
  <1>1. PICK sum : Net(y, x) = sum[Pid] /\ sum = Sums(y, x, sum)
    BY NetDef
  <1> DEFINE S == {n \in Nat : \A s \in SUBSET Pid :
                     Cardinality(s) = n => sum[s] \in Int /\ sum[s] <= 0}
  <1>2. 0 \in S
    BY <1>1, OneLess DEF Sums
  <1>3. ASSUME NEW n \in Nat, n \in S PROVE n + 1 \in S
    <2> SUFFICES ASSUME NEW s \in SUBSET Pid, Cardinality(s) = n + 1
                 PROVE  sum[s] \in Int /\ sum[s] <= 0
      OBVIOUS
    <2> DEFINE p == CHOOSE p \in s : TRUE
    <2>1. s # {} /\ p \in Pid /\ Cardinality(s \ {p}) = n
      BY OneLess
    <2>2. sum[s] = Share(y, x, p) + sum[s \ {p}]
      BY <1>1, <2>1 DEF Sums
    <2>3. sum[s \ {p}] \in Int /\ sum[s \ {p}] <= 0
      BY <1>3, <2>1
    <2> HIDE DEF p
    <2> QED BY <2>1, <2>2, <2>3
  <1>4. Cardinality(Pid) \in Nat /\ Cardinality(Pid) \in S
    <2> HIDE DEF S
    <2> QED BY <1>2, <1>3, Induction, OneLess
  <1> QED BY <1>1, <1>4

LEMMA ShareType ==
  ASSUME IInv, NEW y \in Agent, NEW x \in Agent, NEW p \in Pid
  PROVE  Share(y, x, p) \in Int
  <1> DEFINE e == Evidence(coops[y][p], p \in overdue, y, x)
  <1>1. e \in Int
    BY WeightAssumption DEF Evidence
  <1>2. ledger[y][p] \in Nat
    BY DEF IInv, TypeOK
  <1> HIDE DEF e
  <1>3. ledger[y][p] * e \in Int
    BY <1>1, <1>2
  <1> QED BY <1>3 DEF Share, e

\* A share in favour comes from a closed cooperation of the two that went well,
\* which one of them proposed, and proposed to the other if it is the observer.
LEMMA ShareIsEarned ==
  ASSUME IInv, NEW y \in Agent, NEW x \in Agent, NEW p \in Pid, Share(y, x, p) > 0
  PROVE  \E m \in attestations, n \in proposals :
           /\ m.by = x /\ m.verdict = "fulfilled" /\ m.pid = n.pid
           /\ Known(y, n.pid) /\ Parties(coops[y][n.pid]) = {x, y}
           /\ n.from = x \/ (n.from = y /\ n.to = x)
  <1> DEFINE c == coops[y][p]
             e == Evidence(c, p \in overdue, y, x)
  <1>1. Known(y, p) /\ ledger[y][p] * e > 0
    BY DEF Share
  <1>2. ledger[y][p] \in Nat /\ e \in Int
    BY WeightAssumption DEF IInv, TypeOK, Evidence
  <1>3. e > 0
    <2> HIDE DEF e
    <2>1. e \in Int /\ e <= 0 => ledger[y][p] * e <= 0
      BY <1>2, SMT
    <2> QED BY <1>1, <1>2, <2>1
  <1>4. x # y /\ {y, x} = {c.a, c.b} /\ State(c, p \in overdue) = "confirmed_good"
    BY <1>3, WeightAssumption DEF Evidence
  <1>5. Closed(c) /\ c.att[c.a] = "fulfilled" /\ c.att[c.b] = "fulfilled"
    <2>1. c \in Coop
      BY <1>1 DEF IInv, TypeOK, Known
    <2>2. \A z \in Agent : c.att[z] \in {"fulfilled", "failed", "unsigned"}
      BY <2>1 DEF Coop, Verdict, Unsigned
    <2> HIDE DEF c
    <2>3. c.a \in Agent /\ c.b \in Agent
      BY <2>1 DEF Coop
    <2> QED BY <1>4, <2>2, <2>3 DEF State, Closed, Signed, Unsigned
  <1>6. c.att[x] = "fulfilled"
    BY <1>4, <1>5
  <1>7. Signed(c, x)
    BY <1>6 DEF Signed, Unsigned
  <1>8. PICK m \in attestations : m.pid = p /\ m.by = x /\ m.verdict = "fulfilled"
    BY <1>1, <1>6, <1>7 DEF IInv, AuthenticVerdicts
  <1>9. PICK n \in proposals : n.pid = p
    BY <1>1 DEF IInv, Proposed, Used
  <1>10. c.a = n.from /\ c.b \in {y, n.to}
    BY <1>1, <1>9 DEF IInv, PartiesAgree
  <1>11. Parties(coops[y][p]) = {x, y} /\ (n.from = x \/ (n.from = y /\ n.to = x))
    BY <1>4, <1>10 DEF Parties
  <1> QED BY <1>1, <1>8, <1>9, <1>11

\* Net evidence in favour of a peer rests on a `fulfilled` the peer signed
\* itself about a cooperation of the two: no restart, repetition, testimony or
\* answer of a third can put it there (reputation.py:198-218, agent.py:119-186).
THEOREM TrustNeedsSignature == Spec => []TrustIsEarned
  <1>1. IInv => TrustIsEarned
    <2> SUFFICES ASSUME IInv, NEW y \in Agent, NEW x \in Agent, Net(y, x) > 0
                 PROVE  \E m \in attestations, n \in proposals :
                          /\ m.by = x /\ m.verdict = "fulfilled" /\ m.pid = n.pid
                          /\ Known(y, n.pid) /\ Parties(coops[y][n.pid]) = {x, y}
                          /\ n.from = x \/ (n.from = y /\ n.to = x)
      BY DEF TrustIsEarned
    <2>1. PICK p \in Pid : Share(y, x, p) > 0
      BY ShareType, SomeShare
    <2> QED BY <2>1, ShareIsEarned
  <1> QED BY <1>1, Invariance, PTL

----------------------------------------------------------------------------
(* The handlers implement OutcomeBooks: under the mapping of Handshake the   *)
(* first state is one of the abstract specification, and every step of a     *)
(* handler is one of its steps or changes nothing it sees.                   *)

\* Nothing is given, held or counted at the start.
LEMMA InitPromise == Init => Promise!Init
  BY DEF Init, Promise!Init, Given, Counted

\* A step that touches no attestation, record or ledger is a stutter.
LEMMA QuietPromise ==
  ASSUME UNCHANGED <<attestations, coops, ledger>>
  PROVE  UNCHANGED <<Given, coops, Counted>>
  BY DEF Given, Counted

\* A further attestation is a further verdict given.
LEMMA GivenGrows ==
  ASSUME NEW n, attestations' = attestations \cup {n}
  PROVE  Given' = Given \cup {<<n.pid, n.by, n.verdict>>}
  BY DEF Given

\* handle_encounter() opens, as the proposer, what no one holds yet.
LEMMA ProposePromise ==
  ASSUME IInv, NEW y \in Agent, NEW c \in Card, NEW p \in Pid, Propose(y, c, p)
  PROVE  Promise!Next
  <1>1. c.agent_id \in Agent
    BY DEF Card
  <1>2. \A x \in Agent : coops[x][p] = NoPid
    BY DEF Propose, IInv, Proposed, Known
  <1>3. coops' = [coops EXCEPT ![y][p] = NewCoop(y, c.agent_id)]
        /\ UNCHANGED <<attestations, ledger>>
    BY DEF Propose
  <1>4. Promise!Open(y, p, y, c.agent_id)
    BY <1>2, <1>3 DEF Promise!Open, NewCoop, Given, Counted
  <1> QED BY <1>1, <1>4 DEF Promise!Next

\* handle_respond() opens, after the proposer, unless it declines or has a record.
LEMMA RespondPromise ==
  ASSUME IInv, NEW x \in Agent, NEW m \in proposals, NEW d \in Decision, Respond(x, m, d)
  PROVE  Promise!Next \/ UNCHANGED <<Given, coops, Counted>>
  <1>1. m.pid \in Pid /\ m.from \in Agent
    BY Fields
  <1>2. coops \in [Agent -> [Pid -> Coop \cup {NoPid}]]
    BY DEF IInv, TypeOK
  <1>3. UNCHANGED <<attestations, ledger>>
    BY DEF Respond, Answered
  <1>4. CASE coops[x][m.pid] = NoPid /\ d # "decline"
    <2>1. coops' = [coops EXCEPT ![x][m.pid] = NewCoop(m.from, x)]
      BY <1>4 DEF Respond
    <2>2. \A z \in Agent : coops[z][m.pid] # NoPid => coops[z][m.pid].a = m.from
      BY DEF IInv, PartiesAgree, Known
    <2>3. Promise!Open(x, m.pid, m.from, x)
      BY <1>1, <1>3, <1>4, <2>1, <2>2 DEF Promise!Open, NewCoop, Given, Counted
    <2> QED BY <1>1, <2>3 DEF Promise!Next
  <1>5. CASE ~(coops[x][m.pid] = NoPid /\ d # "decline")
    <2>1. coops' = [coops EXCEPT ![x][m.pid] = coops[x][m.pid]]
      BY <1>5 DEF Respond
    <2>2. coops' = coops
      BY <1>1, <1>2, <2>1
    <2> QED BY <1>3, <2>2, QuietPromise
  <1> QED BY <1>4, <1>5

\* A client's attestation gives a verdict of its own.
LEMMA AttestPromise ==
  ASSUME IInv, NEW x \in Agent, NEW m \in proposals, NEW v \in Verdict, Attest(x, m, v)
  PROVE  Promise!Next
  <1>1. m.pid \in Pid
    BY Fields
  <1>2. PICK z \in {m.from, m.to} :
          attestations' = attestations \cup
            {[pid |-> m.pid, by |-> x, counterparty |-> z, verdict |-> v]}
    BY DEF Attest
  <1> DEFINE n == [pid |-> m.pid, by |-> x, counterparty |-> z, verdict |-> v]
  <1>3. Given' = Given \cup {<<m.pid, x, v>>}
    <2>1. n.pid = m.pid /\ n.by = x /\ n.verdict = v /\ attestations' = attestations \cup {n}
      BY <1>2
    <2> HIDE DEF n
    <2> QED BY <2>1, GivenGrows
  <1>4. UNCHANGED <<coops, ledger>>
    BY DEF Attest
  <1>5. Promise!Give(m.pid, x, v)
    BY <1>3, <1>4 DEF Promise!Give, Counted
  <1> QED BY <1>1, <1>5 DEF Promise!Next

\* handle_outcome() enters the verdict posted, which was given, and a `fulfilled`
\* given in the same step; if the verdict is its own, that one only.
LEMMA OutcomePromise ==
  ASSUME IInv, NEW y \in Agent, NEW m \in attestations, Outcome(y, m)
  PROVE  Promise!Next
  <1> DEFINE n == [pid |-> m.pid, by |-> y, counterparty |-> m.counterparty,
                   verdict |-> "fulfilled"]
  <1>1. m.pid \in Pid /\ m.by \in Agent /\ m.verdict \in Verdict
    BY Fields
  <1>2. /\ coops[y][m.pid] # NoPid
        /\ m.by \in {coops[y][m.pid].a, coops[y][m.pid].b}
        /\ coops' = [coops EXCEPT ![y][m.pid].att =
                       [@ EXCEPT ![m.by] = m.verdict, ![y] = "fulfilled"]]
        /\ attestations' = attestations \cup {n}
        /\ ledger' = [ledger EXCEPT ![y][m.pid] = @ + 1]
    BY DEF Outcome, Recorded, Known, Parties
  <1>3. y \in {coops[y][m.pid].a, coops[y][m.pid].b}
    BY <1>1, <1>2, HolderIsParty DEF Known, Parties
  <1>4. <<m.pid, m.by, m.verdict>> \in Given
    BY DEF Given
  <1>5. Given' = Given \cup {<<m.pid, y, "fulfilled">>}
    <2>1. n.pid = m.pid /\ n.by = y /\ n.verdict = "fulfilled"
      OBVIOUS
    <2> HIDE DEF n
    <2> QED BY <1>2, <2>1, GivenGrows
  <1>6. Counted' = [Counted EXCEPT ![y] = @ \cup {m.pid}]
    <2>1. ledger \in [Agent -> [Pid -> Nat]]
      BY DEF IInv, TypeOK
    <2>2. \A z \in Agent, q \in Pid :
            ledger'[z][q] = IF z = y /\ q = m.pid THEN ledger[z][q] + 1 ELSE ledger[z][q]
      BY <1>1, <1>2, <2>1
    <2>3. \A z \in Agent : {q \in Pid : ledger'[z][q] > 0} =
            IF z = y THEN {q \in Pid : ledger[z][q] > 0} \cup {m.pid}
            ELSE {q \in Pid : ledger[z][q] > 0}
      BY <1>1, <2>1, <2>2
    <2> QED BY <2>3 DEF Counted
  <1>7. "fulfilled" \in Verdict
    BY DEF Verdict
  <1>8. CASE m.by # y
    <2>1. {coops[y][m.pid].a, coops[y][m.pid].b} = {m.by, y}
      BY <1>2, <1>3, <1>8
    <2>2. Promise!Close(y, m.pid, m.by, m.verdict, "fulfilled")
      BY <1>2, <1>4, <1>5, <1>6, <2>1 DEF Promise!Close
    <2> QED BY <1>1, <1>7, <1>8, <2>2 DEF Promise!Next
  <1>9. CASE m.by = y
    <2>1. coops' = [coops EXCEPT ![y][m.pid].att = [@ EXCEPT ![y] = "fulfilled"]]
      <3>1. coops[y][m.pid] \in Coop
        BY <1>1, <1>2 DEF IInv, TypeOK
      <3> DEFINE att == coops[y][m.pid].att
      <3>2. att \in [Agent -> Verdict \cup {Unsigned}]
        BY <3>1 DEF Coop
      <3>3. [att EXCEPT ![y] = m.verdict, ![y] = "fulfilled"] = [att EXCEPT ![y] = "fulfilled"]
        BY <3>2
      <3> QED BY <1>2, <1>9, <3>3
    <2>2. Promise!Repeat(y, m.pid, "fulfilled")
      BY <1>1, <1>2, <1>3, <1>4, <1>5, <1>6, <1>9, <2>1 DEF Promise!Repeat
    <2> QED BY <1>1, <1>7, <2>2 DEF Promise!Next
  <1> QED BY <1>8, <1>9

\* A restart loses what the agent held and what counted, together.
LEMMA RestartPromise ==
  ASSUME IInv, NEW y \in Agent, Restart(y)
  PROVE  Promise!Next
  <1>1. /\ coops' = [coops EXCEPT ![y] = [p \in Pid |-> NoPid]]
        /\ ledger' = [ledger EXCEPT ![y] = [p \in Pid |-> 0]]
        /\ UNCHANGED attestations
    BY DEF Restart
  <1>2. Counted' = [Counted EXCEPT ![y] = {}]
    <2>1. \A z \in Agent : ledger'[z] = IF z = y THEN [p \in Pid |-> 0] ELSE ledger[z]
      BY <1>1 DEF IInv, TypeOK
    <2>2. \A z \in Agent : {q \in Pid : ledger'[z][q] > 0} =
            IF z = y THEN {} ELSE {q \in Pid : ledger[z][q] > 0}
      BY <2>1
    <2> QED BY <2>2 DEF Counted
  <1>3. Promise!Lose(y)
    BY <1>1, <1>2 DEF Promise!Lose, Given
  <1> QED BY <1>3 DEF Promise!Next

\* Every step of the agents is a step of the books, or nothing to them.
LEMMA NextPromise ==
  IInv /\ [Next]_vars => [Promise!Next]_<<Given, coops, Counted>>
  <1> SUFFICES ASSUME IInv, [Next]_vars
               PROVE  Promise!Next \/ UNCHANGED <<Given, coops, Counted>>
    OBVIOUS
  <1>1. ASSUME NEW p \in Pid, GraceEnds(p)
        PROVE  UNCHANGED <<Given, coops, Counted>>
    BY <1>1, QuietPromise DEF GraceEnds
  <1>2. CASE Next
    BY <1>1, <1>2, Steps, ProposePromise, RespondPromise, AttestPromise, OutcomePromise,
       RestartPromise
  <1>3. CASE UNCHANGED vars
    BY <1>3, QuietPromise DEF vars
  <1> QED BY <1>2, <1>3

\* The handlers keep the books: whatever arrives late, twice, in the wrong place
\* or after a restart, cooperations open after one proposer, with the holder for
\* a party, and every verdict in them was given by its party; nothing counts
\* without the holder's own.
THEOREM AgentsKeepBooks == Spec => KeepsBooks
  BY InitPromise, NextPromise, Invariance, PTL
     DEF Spec, KeepsBooks, Promise!Spec, Promise!vars
=============================================================================
