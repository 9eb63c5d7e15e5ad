-------------------------- MODULE MCEnvelopeVerify --------------------------
(* Model checking EnvelopeVerify: two nonces and clocks of a few ticks.     *)
EXTENDS EnvelopeVerify, TLC

\* One lifetime that ends inside the horizon, and one that outlives it, as
\* the 9_999_999_999 of an agent's card does.
MCLifetime == {1, Horizon + Drift}

NonceSymmetry == Permutations(Nonce)
=============================================================================
