----------------------------- MODULE Freshness -----------------------------
(***************************************************************************)
(* The freshness conditions of verify() (flp/identity.py) and the pure part *)
(* of its NonceCache.  An envelope is a record with at least the fields     *)
(* nonce, issued ("issued_at") and expires ("expires_at"); the cache is the *)
(* set of its entries [nonce, at].                                          *)
(***************************************************************************)
EXTENDS Integers

CONSTANTS
  ClockSkew,     \* DEFAULT_CLOCK_SKEW_SEC
  ReplayWindow,  \* DEFAULT_REPLAY_WINDOW_SEC
  Absent,        \* body without an "expires_at" field (proposals, responses)
  Null           \* body whose "expires_at" is null

ASSUME SkewAssumption == ClockSkew \in Nat /\ ReplayWindow \in Nat

ASSUME MarkerAssumption == Absent \notin Int /\ Null \notin Int /\ Absent # Null

\* Mutant of TooOld: the tolerance is the width of the window.
TooOldTwice(e, t) == e.issued < t - 2 * ClockSkew /\ e.expires = Absent

(* In the order verify() tests them. *)
TooNew(e, t) == e.issued > t + ClockSkew
TooOld(e, t) == e.issued < t - ClockSkew /\ e.expires = Absent
PastExpiry(e, t) == e.expires \notin {Absent, Null} /\ e.expires < t
Fresh(e, t) == ~TooNew(e, t) /\ ~TooOld(e, t) /\ ~PastExpiry(e, t)

\* Mutant of Stale: an entry as old as the window is dropped.
StaleAtCutoff(cache, t) == {s \in cache : s.at <= t - ReplayWindow}

(* NonceCache._evict(): what is dropped, what stays; and `nonce in _seen`. *)
Stale(cache, t) == {s \in cache : s.at < t - ReplayWindow}
Evict(cache, t) == cache \ Stale(cache, t)
Holds(cache, n) == \E s \in cache : s.nonce = n
=============================================================================
