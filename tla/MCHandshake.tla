----------------------------- MODULE MCHandshake -----------------------------
(* Model checking Handshake: two agents that supply each other, and a third  *)
(* that answers what reaches it.                                             *)
EXTENDS Handshake, TLC

CONSTANTS ana, bo, cy

\* Each of two has what the other needs.
BothSupply == {<<ana, bo>>, <<bo, ana>>}

OwnCard(x) == [by |-> x, agent_id |-> x]

\* ana and bo post their own cards; bo also one that still names cy.
OwnCards == {OwnCard(ana), OwnCard(bo)}
MCCards == OwnCards \cup {[by |-> bo, agent_id |-> cy]}

\* bo asks a stranger for what it needs and takes offers as they stand; ana
\* does neither before one cooperation has gone well.
MCBar == [x \in Agent |-> IF x = ana THEN 1 ELSE 0]

\* Every agent records a cooperation up to twice, or bo only.
Twice == [x \in Agent |-> 2]
BoTwice == [x \in Agent |-> IF x = bo THEN 2 ELSE 1]

\* No agent restarts, or only ana.
NoRestart == [x \in Agent |-> 0]
AnaRestarts == [x \in Agent |-> IF x = ana THEN 1 ELSE 0]

PidSymmetry == Permutations(Pid)
=============================================================================
