---------------------------- MODULE MCEmbedCache ----------------------------
(* Model checking EmbedCache: a server with two threads, and a script of the *)
(* same user; two of the three capabilities read the same.                  *)
EXTENDS EmbedCache, TLC

CONSTANTS server, script, t1, t2, t3, nested, dashed, other

MCProcessOf == [t \in Thread |-> IF t = t3 THEN script ELSE server]
MCSymmetry == Permutations({t1, t2})
MCText == [c \in Capability |-> IF c = other THEN "b" ELSE "a"]
MCQuery ==
  [p \in Process |-> IF p = server THEN {<<nested, dashed>>} ELSE {<<dashed, other>>}]
=============================================================================
