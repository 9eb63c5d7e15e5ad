------------------------------ MODULE Outcomes ------------------------------
(***************************************************************************)
(* How a Cooperation resolves, and what a resolved one says of a party     *)
(* (flp/reputation.py).  A cooperation is a record with its two parties a  *)
(* and b and att, the verdict each of them has signed; an entry for anyone *)
(* else stays Unsigned.  `late` says that the grace of 4.4 is over.        *)
(***************************************************************************)
EXTENDS Integers

CONSTANTS
  WGood,     \* W_GOOD: one confirmed-good cooperation
  WBad,      \* W_BAD: one confirmed-bad or disputed cooperation
  WDangle    \* W_DANGLE: one cooperation left open

ASSUME WeightAssumption ==
  /\ WGood \in Nat \ {0}
  /\ WBad \in Nat \ {0}
  /\ WDangle \in Nat \ {0}

Unsigned == "unsigned"
Verdict == {"fulfilled", "failed"}

Signed(c, p) == c.att[p] # Unsigned
Closed(c) == Signed(c, c.a) /\ Signed(c, c.b)

\* Mutant of State: one `fulfilled` is enough for a good outcome.
StateAnyFulfilled(c, late) ==
  CASE Closed(c) /\ (c.att[c.a] = "fulfilled" \/ c.att[c.b] = "fulfilled") -> "confirmed_good"
    [] Closed(c) /\ c.att[c.a] = "failed" /\ c.att[c.b] = "failed" -> "confirmed_bad"
    [] ~Closed(c) /\ ~late -> "pending"
    [] ~Closed(c) /\ late -> "dangling"

\* Mutant of State: the grace is looked at before the signatures.
StateGraceFirst(c, late) ==
  CASE late -> "dangling"
    [] ~late /\ Closed(c) /\ c.att[c.a] = "fulfilled" /\ c.att[c.b] = "fulfilled" -> "confirmed_good"
    [] ~late /\ Closed(c) /\ (c.att[c.a] = "failed" \/ c.att[c.b] = "failed") -> "confirmed_bad"
    [] ~late /\ ~Closed(c) -> "pending"

(* Cooperation.resolve(): the state, and the party that is penalized. *)
State(c, late) ==
  CASE Closed(c) /\ c.att[c.a] = "fulfilled" /\ c.att[c.b] = "fulfilled" -> "confirmed_good"
    [] Closed(c) /\ (c.att[c.a] = "failed" \/ c.att[c.b] = "failed") -> "confirmed_bad"
    [] ~Closed(c) /\ ~late -> "pending"
    [] ~Closed(c) /\ late -> "dangling"

\* Mutant of Penalized: the party that did sign is named.
PenalizedSigner(c, late) ==
  {p \in {c.a, c.b} : late /\ Signed(c, p) /\ \E q \in {c.a, c.b} : ~Signed(c, q)}

\* Neither signed: resolve() names no one.
Penalized(c, late) ==
  {p \in {c.a, c.b} : late /\ ~Signed(c, p) /\ \E q \in {c.a, c.b} : Signed(c, q)}

(* One cooperation's share of _direct_evidence(observer, x). *)
Evidence(c, late, observer, x) ==
  IF observer = x \/ {observer, x} # {c.a, c.b} THEN 0
  ELSE CASE State(c, late) = "confirmed_good" -> WGood
         [] State(c, late) = "confirmed_bad" -> -WBad
         [] State(c, late) = "dangling" /\ x \in Penalized(c, late) -> -WDangle
         [] OTHER -> 0
=============================================================================
