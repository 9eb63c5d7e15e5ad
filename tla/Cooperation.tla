---------------------------- MODULE Cooperation ----------------------------
(***************************************************************************)
(* One Cooperation object of flp/reputation.py over time: its two parties  *)
(* sign attestations, the attestations arrive in any order and any number  *)
(* of times, the grace runs out, and the evidence it stands for fades.     *)
(* The object is kept by a ledger that is handed the attestations, or by   *)
(* an FLPAgent, which counter-signs every one it gets (flp/agent.py).      *)
(***************************************************************************)
EXTENDS Outcomes, FiniteSets

CONSTANTS
  Holder, Peer,     \* the party that keeps the object, and the other one
  DanglingTimeout,  \* DANGLING_TIMEOUT_SEC
  HalfLife,         \* HALF_LIFE_DAYS
  FullWeight,       \* the weight of fresh evidence, in units of the smallest
  Undated,          \* stands for issued_at where an attestation has none
  Drift,            \* bound: how far the signers' clocks are off
  MaxLetters,       \* bound: attestations the parties sign by their own hand
  Horizon           \* bound: the clock stops here

ASSUME TimeAssumption ==
  /\ DanglingTimeout \in Nat /\ HalfLife \in Nat \ {0} /\ FullWeight \in Nat
  /\ Drift \in Nat /\ MaxLetters \in Nat /\ Horizon \in Nat

ASSUME PartyAssumption == Holder # Peer

ASSUME UndatedAssumption == Undated \notin Int

VARIABLES
  keeper,   \* who keeps the object: "ledger" or "agent"
  now,      \* time.time()
  coop,     \* the object: parties, verdicts, and the issue time of each
  letters,  \* the attestations signed so far
  arrived   \* history: those that have arrived at least once

vars == <<keeper, now, coop, letters, arrived>>

Party == {Holder, Peer}
Dated == (-Drift)..(Horizon + Drift)
Letter == [by: Party, verdict: Verdict, issued: Dated \cup {Undated}]

Init ==
  /\ keeper \in {"ledger", "agent"}
  /\ now = 0
  /\ coop = [a |-> Holder, b |-> Peer, started |-> 0,
             att |-> [p \in Party |-> Unsigned], issued |-> [p \in Party |-> 0]]
  /\ letters = {}
  /\ arrived = {}

----------------------------------------------------------------------------
Late == now - coop.started >= DanglingTimeout
Standing == State(coop, Late)

Newer(s, t) == IF s < t THEN t ELSE s

(* Resolved.age_sec, by the state resolve() returns. *)
Age ==
  CASE Closed(coop) -> now - Newer(coop.issued[Holder], coop.issued[Peer])
    [] Standing = "dangling" -> now - coop.started
    [] OTHER -> 0

(* The weight after so many half-lives, in whole units. *)
Halved[n \in Nat] == IF n = 0 THEN FullWeight ELSE Halved[n - 1] \div 2

\* Mutant of Weight: the age counts whatever its sign.
WeightAbsolute(age) == Halved[(IF age < 0 THEN -age ELSE age) \div HalfLife]

(* _time_weight(): halved with every half-life, never above fresh. *)
Weight(age) == Halved[Newer(age, 0) \div HalfLife]

(* What the object adds to _direct_evidence(Holder, Peer). *)
Worth == Evidence(coop, Late, Holder, Peer) * Weight(Age)
Strength == IF Worth < 0 THEN -Worth ELSE Worth

----------------------------------------------------------------------------
Tick ==
  /\ now < Horizon
  /\ now' = now + 1
  /\ UNCHANGED <<keeper, coop, letters, arrived>>

\* An attestation by one of the parties, stamped by its own clock as
\* make_attestation() does, or signed elsewhere and not dated at all.
Sign(p, v, issued) ==
  /\ Cardinality(letters) < MaxLetters
  /\ letters' = letters \cup {[by |-> p, verdict |-> v, issued |-> issued]}
  /\ UNCHANGED <<keeper, now, coop, arrived>>

\* When an attestation counts as issued: if it does not say, as it arrives.
IssuedAt(l) == IF l.issued = Undated THEN now ELSE l.issued

\* Mutant of Add: a verdict is stored by its name, not its value.
AddStoresName(c, l) ==
  [c EXCEPT !.att[l.by] = IF l.verdict = "failed" THEN "FAILED" ELSE "FULFILLED",
            !.issued[l.by] = IssuedAt(l)]

(* Cooperation.add_attestation(): what arrives last stands. *)
Add(c, l) == [c EXCEPT !.att[l.by] = l.verdict, !.issued[l.by] = IssuedAt(l)]

\* A ledger is handed an attestation.
Deliver(l) ==
  /\ keeper = "ledger"
  /\ coop' = Add(coop, l)
  /\ arrived' = arrived \cup {l}
  /\ UNCHANGED <<keeper, now, letters>>

\* handle_outcome() of the holder: the attestation, be it the peer's or one of
\* its own, and its own `fulfilled` signed at this moment.
CounterSign(l) ==
  /\ keeper = "agent"
  /\ coop' = Add(Add(coop, l), [by |-> Holder, verdict |-> "fulfilled", issued |-> now])
  /\ arrived' = arrived \cup {l}
  /\ UNCHANGED <<keeper, now, letters>>

Next ==
  \/ Tick
  \/ \E p \in Party, v \in Verdict, issued \in ((now - Drift)..(now + Drift)) \cup {Undated} :
       Sign(p, v, issued)
  \/ \E l \in letters : Deliver(l) \/ CounterSign(l)

Spec == Init /\ [][Next]_vars

----------------------------------------------------------------------------
\* Type invariant of the object and of the attestations about it.
TypeOK ==
  /\ keeper \in {"ledger", "agent"}
  /\ now \in 0..Horizon
  /\ coop \in [a: {Holder}, b: {Peer}, started: {0},
               att: [Party -> Verdict \cup {Unsigned}],
               issued: [Party -> Dated]]
  /\ letters \subseteq Letter
  /\ arrived \subseteq letters

\* A cooperation leaves "pending" once and for all: it may still be closed
\* after it dangled, but no arrival, however late or stale, reopens it
\* (reputation.py:115-139).
NeverReopened ==
  [][/\ Standing' = "pending" => Standing = "pending"
     /\ Standing' = "dangling" => Standing \in {"pending", "dangling"}]_vars

\* Time alone only weakens what a cooperation says, for or against the peer,
\* with one exception: the moment its grace ends (PROTOCOL.md 4.4, 4.6).
TimeOnlyFades ==
  [][(Tick /\ Standing' = Standing) => Strength' <= Strength]_vars

\* None of p's attestations has arrived, and p is not the agent that answers
\* each with one of its own.
Silent(p) == (\A l \in arrived : l.by # p) /\ ~(keeper = "agent" /\ p = Holder)

\* After the grace, once anything at all has arrived, those who are penalized
\* are exactly those who are silent, in whatever order and however late the
\* others signed, and no one is before (reputation.py:130-139, PROTOCOL.md 4.4).
\* Nothing is said of a cooperation neither has signed: the code names no one.
OnlySilencePenalized ==
  /\ ~Late => Penalized(coop, Late) = {}
  /\ Late /\ arrived # {} => Penalized(coop, Late) = {p \in Party : Silent(p)}
=============================================================================
