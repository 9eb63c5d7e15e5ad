--------------------------- MODULE MCVerifyThreads ---------------------------
(* Model checking VerifyThreads.                                            *)
EXTENDS VerifyThreads, TLC

CONSTANTS n1, n2

\* A proposal (no expiry) signed at tick 1, and a card that never expires.
MCTraffic == {[nonce |-> n1, issued |-> 1, expires |-> Absent],
              [nonce |-> n2, issued |-> 0, expires |-> 2 * Horizon]}

ThreadSymmetry == Permutations(Thread)
=============================================================================
