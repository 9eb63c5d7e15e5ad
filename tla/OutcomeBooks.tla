---------------------------- MODULE OutcomeBooks ----------------------------
(***************************************************************************)
(* What agents may expect of each other's records of a cooperation, with   *)
(* no cards, proposals, answers or messages in sight.  Each opens a record *)
(* between itself and another, all after the same proposer; it enters      *)
(* verdicts that their parties really gave, its own with every entry; from *)
(* its first entry on a record counts.  Whoever loses its memory loses its *)
(* records and what counted together.                                      *)
(*                                                                         *)
(* PROTOCOL.md 4.3 asks for more, an entry by both parties before a record *)
(* counts; that is Close alone, without Repeat.                            *)
(***************************************************************************)
CONSTANTS Agent, Pid, Verdict, Unsigned, NoPid

VARIABLES
  given,    \* the verdicts ever signed: <<cooperation, party, verdict>>
  held,     \* each agent's record of each cooperation, or NoPid
  counted   \* the cooperations that count for each agent

vars == <<given, held, counted>>

Init ==
  /\ given = {}
  /\ held = [y \in Agent |-> [p \in Pid |-> NoPid]]
  /\ counted = [y \in Agent |-> {}]

\* A party signs a verdict of its own.
Give(p, s, v) ==
  /\ given' = given \cup {<<p, s, v>>}
  /\ UNCHANGED <<held, counted>>

\* An agent opens its record, after the proposer all others name.
Open(y, p, a, b) ==
  /\ held[y][p] = NoPid
  /\ y \in {a, b}
  /\ \A x \in Agent : held[x][p] # NoPid => held[x][p].a = a
  /\ held' = [held EXCEPT ![y][p] = [a |-> a, b |-> b, att |-> [s \in Agent |-> Unsigned]]]
  /\ UNCHANGED <<given, counted>>

\* An agent closes its record with a verdict the other party has given and one
\* of its own, and from then on it counts.
Close(y, p, x, v, w) ==
  /\ held[y][p] # NoPid
  /\ {held[y][p].a, held[y][p].b} = {x, y}
  /\ <<p, x, v>> \in given
  /\ given' = given \cup {<<p, y, w>>}
  /\ held' = [held EXCEPT ![y][p].att = [@ EXCEPT ![x] = v, ![y] = w]]
  /\ counted' = [counted EXCEPT ![y] = @ \cup {p}]

\* An agent takes a verdict of its own for an answer: it enters one again, and
\* the record counts, whether the other party has signed or not.
Repeat(y, p, w) ==
  /\ held[y][p] # NoPid
  /\ y \in {held[y][p].a, held[y][p].b}
  /\ \E v \in Verdict : <<p, y, v>> \in given
  /\ given' = given \cup {<<p, y, w>>}
  /\ held' = [held EXCEPT ![y][p].att = [@ EXCEPT ![y] = w]]
  /\ counted' = [counted EXCEPT ![y] = @ \cup {p}]

Lose(y) ==
  /\ held' = [held EXCEPT ![y] = [p \in Pid |-> NoPid]]
  /\ counted' = [counted EXCEPT ![y] = {}]
  /\ UNCHANGED given

Next ==
  \E y \in Agent :
    \/ Lose(y)
    \/ \E p \in Pid :
         \/ \E v \in Verdict : Give(p, y, v)
         \/ \E a, b \in Agent : Open(y, p, a, b)
         \/ \E x \in Agent \ {y}, v, w \in Verdict : Close(y, p, x, v, w)
         \/ \E w \in Verdict : Repeat(y, p, w)

Spec == Init /\ [][Next]_vars
=============================================================================
