--------------------------- MODULE MCTrustGraph ---------------------------
(* Model checking TrustGraph: a chain that leads out of the horizon, and a   *)
(* second way to its middle.                                                *)
EXTENDS TrustGraph, TLC

CONSTANTS me, ann, bob, cy, dan

MCPair == {<<me, ann>>, <<me, bob>>, <<ann, cy>>, <<bob, cy>>, <<cy, dan>>}

MCOutcome ==
  {<<"fulfilled", "fulfilled">>, <<"failed", "fulfilled">>, <<"fulfilled", Unsigned>>}

\* Steep: one good cooperation is worth half, four nine tenths.
MCCurve == [n \in 1..6 |-> CASE n = 1 -> 5 [] n = 2 -> 7 [] n = 3 -> 8 [] OTHER -> 9]

\* The two ways look alike.
WaySymmetry == Permutations({ann, bob})
=============================================================================
