--------------------------- MODULE EnvelopeVerify ---------------------------
(***************************************************************************)
(* verify() of flp/identity.py with its NonceCache, as one receiving       *)
(* endpoint (/flp/encounter, /flp/respond) runs it, one request at a time. *)
(*                                                                         *)
(* Signers put envelopes on the wire; their clocks are off by up to Drift. *)
(* The network keeps every copy, so that an envelope may arrive late, many *)
(* times, or damaged.  Every arrival runs the whole of verify(): the       *)
(* signature, then freshness, then the replay check, in that order.        *)
(***************************************************************************)
EXTENDS Freshness, Sequences

CONSTANTS
  Nonce,         \* the 128-bit nonces; sign() never draws one twice
  Drift,         \* bound: how far a signer's clock is from the receiver's
  Lifetime,      \* the lifetimes a signer may give a body in "expires_at"
  Horizon,       \* bound: the receiver's clock stops here
  MaxVerified    \* bound: acceptances per behaviour

ASSUME ClockAssumption ==
  /\ Drift \in Nat
  /\ Horizon \in Nat
  /\ Lifetime \subseteq Nat

\* The defaults are 300 and 600: the retention is exactly the width of the
\* interval in which one envelope is fresh.
ASSUME WindowAssumption == ReplayWindow >= 2 * ClockSkew

VARIABLES
  now,       \* the receiver's clock, time.time()
  wire,      \* every copy of every envelope sent so far
  seen,      \* NonceCache._seen: entries [nonce, at]
  verified,  \* history: the envelopes verify() returned, with the time of each
  answer     \* the outcome of the last verify(), with its envelope and time

vars == <<now, wire, seen, verified, answer>>

Envelope == [nonce: Nonce, issued: Int, expires: Int \cup {Absent, Null},
             authentic: BOOLEAN]
Code == {"none", "ok", "invalid_signature", "validation_failed", "expired",
         "replay_detected"}

Init ==
  /\ now = 0
  /\ wire = {}
  /\ seen = {}
  /\ verified = <<>>
  /\ answer = [code |-> "none"]

Answer(e, code) == answer' = [code |-> code, env |-> e, at |-> now]

(* Identity.sign(): issued_at and nonce are filled in, the signer's clock   *)
(* being off by at most Drift; expires_at is the caller's.  Nothing reads    *)
(* the flp_version that is set beside the signed body.                      *)
Sign(n, offset, expires) ==
  /\ \A e \in wire : e.nonce # n
  /\ wire' = wire \cup {[nonce |-> n, issued |-> now + offset,
                         expires |-> expires, authentic |-> TRUE]}
  /\ UNCHANGED <<now, seen, verified, answer>>

\* A copy damaged on the way: its signature no longer verifies.
Damage(e) ==
  /\ wire' = wire \cup {[e EXCEPT !.authentic = FALSE]}
  /\ UNCHANGED <<now, seen, verified, answer>>

Tick ==
  /\ now < Horizon
  /\ now' = now + 1
  /\ UNCHANGED <<wire, seen, verified, answer>>

----------------------------------------------------------------------------
\* Which of the two codes depends on the field that was damaged.
RejectUnverified(e) ==
  /\ ~e.authentic
  /\ \E code \in {"invalid_signature", "validation_failed"} : Answer(e, code)
  /\ UNCHANGED <<now, wire, seen, verified>>

\* Mutant of RejectFuture: replay is checked before freshness.
RejectFutureRegisters(e) ==
  /\ e.authentic
  /\ TooNew(e, now)
  /\ seen' = Evict(seen, now) \cup {[nonce |-> e.nonce, at |-> now]}
  /\ Answer(e, "validation_failed")
  /\ UNCHANGED <<now, wire, verified>>

RejectFuture(e) ==
  /\ e.authentic
  /\ TooNew(e, now)
  /\ Answer(e, "validation_failed")
  /\ UNCHANGED <<now, wire, seen, verified>>

RejectExpired(e) ==
  /\ e.authentic
  /\ ~TooNew(e, now)
  /\ TooOld(e, now) \/ PastExpiry(e, now)
  /\ Answer(e, "expired")
  /\ UNCHANGED <<now, wire, seen, verified>>

RejectReplay(e) ==
  /\ e.authentic
  /\ Fresh(e, now)
  /\ Holds(Evict(seen, now), e.nonce)
  /\ seen' = Evict(seen, now)
  /\ Answer(e, "replay_detected")
  /\ UNCHANGED <<now, wire, verified>>

\* Mutant of Accept: the cache is stamped with the sender's clock.
AcceptStampsIssued(e) ==
  /\ Len(verified) < MaxVerified
  /\ e.authentic
  /\ Fresh(e, now)
  /\ ~Holds(Evict(seen, now), e.nonce)
  /\ seen' = Evict(seen, now) \cup {[nonce |-> e.nonce, at |-> e.issued]}
  /\ verified' = Append(verified, [env |-> e, at |-> now])
  /\ Answer(e, "ok")
  /\ UNCHANGED <<now, wire>>

Accept(e) ==
  /\ Len(verified) < MaxVerified
  /\ e.authentic
  /\ Fresh(e, now)
  /\ ~Holds(Evict(seen, now), e.nonce)
  /\ seen' = Evict(seen, now) \cup {[nonce |-> e.nonce, at |-> now]}
  /\ verified' = Append(verified, [env |-> e, at |-> now])
  /\ Answer(e, "ok")
  /\ UNCHANGED <<now, wire>>

Next ==
  \/ Tick
  \/ \E n \in Nonce, offset \in (-Drift)..Drift :
       \/ Sign(n, offset, Absent)
       \/ Sign(n, offset, Null)
       \/ \E life \in Lifetime : Sign(n, offset, now + offset + life)
  \/ \E e \in wire :
       \/ Damage(e)
       \/ RejectUnverified(e)
       \/ RejectFuture(e)
       \/ RejectExpired(e)
       \/ RejectReplay(e)
       \/ Accept(e)

Spec == Init /\ [][Next]_vars

----------------------------------------------------------------------------
Acceptance == [env: Envelope, at: Nat]
Reply == [code: {"none"}] \cup [code: Code \ {"none"}, env: Envelope, at: Nat]

\* Type invariant of the receiver's clock, cache and answers.
TypeOK ==
  /\ now \in Nat
  /\ wire \subseteq Envelope
  /\ seen \subseteq [nonce: Nonce, at: Nat]
  /\ verified \in Seq(Acceptance)
  /\ answer \in Reply

\* Two acceptances of one nonce lie more than the whole replay window apart,
\* whatever verify() evicted in between (PROTOCOL.md 2.4, identity.py:121-125).
ReplayWindowHolds ==
  \A i, j \in DOMAIN verified :
    i < j /\ verified[i].env.nonce = verified[j].env.nonce =>
      verified[j].at - verified[i].at > ReplayWindow

\* A message without expires_at is acted on at most once, for ever: by the
\* time its nonce may be forgotten it is outside the clock-skew window.
AtMostOnce ==
  \A i, j \in DOMAIN verified :
    verified[i].env.expires = Absent
    /\ verified[i].env.nonce = verified[j].env.nonce => i = j

\* An authentic envelope that is fresh on arrival is turned away only if the
\* same nonce was really accepted within the window: no damaged, early or late
\* copy of it ever uses its nonce up (identity.py:264-282).
RejectionJustified ==
  answer.code \in Code \ {"none", "ok"} =>
    \/ ~answer.env.authentic
    \/ ~Fresh(answer.env, answer.at)
    \/ \E i \in DOMAIN verified :
         /\ verified[i].env.nonce = answer.env.nonce
         /\ answer.at - verified[i].at <= ReplayWindow
=============================================================================
