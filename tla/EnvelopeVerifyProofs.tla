------------------------ MODULE EnvelopeVerifyProofs ------------------------
(***************************************************************************)
(* Proofs that the receiver of EnvelopeVerify is typed, that no nonce is   *)
(* accepted twice within the replay window, that a message without expiry  *)
(* is accepted at most once, and that a fresh envelope is refused only for *)
(* a real replay.  The invariant ties the cache to the acceptances it      *)
(* stands for: every entry of the cache is an acceptance, and every        *)
(* acceptance that is still inside the window has its entry.               *)
(***************************************************************************)
EXTENDS EnvelopeVerify, TLAPS

\* Every cache entry records an acceptance that happened, not later than now.
SeenBacked ==
  \A s \in seen :
    /\ s.at <= now
    /\ \E i \in DOMAIN verified :
         verified[i].env.nonce = s.nonce /\ verified[i].at = s.at

\* An acceptance still inside the replay window has its entry in the cache.
Remembered ==
  \A i \in DOMAIN verified :
    verified[i].at >= now - ReplayWindow =>
      [nonce |-> verified[i].env.nonce, at |-> verified[i].at] \in seen

\* What was accepted was fresh when it was accepted, and is on the wire.
AcceptedFresh ==
  \A i \in DOMAIN verified :
    /\ verified[i].at <= now
    /\ verified[i].env \in wire
    /\ Fresh(verified[i].env, verified[i].at)

\* Copies with one nonce carry one issue time and one expiry.
NonceUnique ==
  \A e, f \in wire : e.nonce = f.nonce =>
    e.issued = f.issued /\ e.expires = f.expires

\* The inductive invariant.
IInv ==
  /\ TypeOK
  /\ SeenBacked
  /\ Remembered
  /\ AcceptedFresh
  /\ NonceUnique
  /\ ReplayWindowHolds
  /\ RejectionJustified

\* Eviction keeps exactly the entries that are still inside the window.
LEMMA EvictKeeps ==
  ASSUME NEW t \in Int, NEW s \in seen, TypeOK
  PROVE  /\ s \in Evict(seen, t) <=> s.at >= t - ReplayWindow
         /\ Evict(seen, t) \subseteq seen
  BY SkewAssumption, ClockAssumption DEF Evict, Stale, TypeOK

\* Components of an acceptance in the history.
LEMMA HistoryTypes ==
  ASSUME TypeOK, NEW i \in DOMAIN verified
  PROVE  /\ verified[i].at \in Nat
         /\ verified[i].env \in Envelope
  <1>1. verified[i] \in Acceptance
    BY DEF TypeOK
  <1> QED BY <1>1 DEF Acceptance

\* The receiver starts in the invariant.
LEMMA InitIInv == Init => IInv
  BY SkewAssumption, ClockAssumption, MarkerAssumption
  DEF Init, IInv, TypeOK, SeenBacked, Remembered, AcceptedFresh, NonceUnique,
      ReplayWindowHolds, RejectionJustified, Reply, Code, Acceptance

\* Putting a copy on the wire leaves the invariant, when the copy agrees with
\* the copies of the same nonce that are there already.
LEMMA WireStep ==
  ASSUME IInv, NEW e \in Envelope,
         \A f \in wire : e.nonce = f.nonce =>
            e.issued = f.issued /\ e.expires = f.expires,
         wire' = wire \cup {e},
         UNCHANGED <<now, seen, verified, answer>>
  PROVE  IInv'
  <1>1. TypeOK'
    BY DEF IInv, TypeOK
  <1>2. NonceUnique'
    BY DEF IInv, NonceUnique
  <1>3. AcceptedFresh'
    BY DEF IInv, AcceptedFresh, Fresh, TooNew, TooOld, PastExpiry
  <1>4. (SeenBacked /\ Remembered /\ ReplayWindowHolds /\ RejectionJustified)'
    BY DEF IInv, SeenBacked, Remembered, ReplayWindowHolds, RejectionJustified,
           Fresh, TooNew, TooOld, PastExpiry
  <1> QED BY <1>1, <1>2, <1>3, <1>4 DEF IInv

\* sign() keeps the invariant: it only adds a copy with a fresh nonce.
LEMMA SignStep ==
  ASSUME IInv, NEW n \in Nonce, NEW offset \in (-Drift)..Drift,
         NEW x \in Int \cup {Absent, Null},
         Sign(n, offset, x)
  PROVE  IInv'
  <1> DEFINE e == [nonce |-> n, issued |-> now + offset, expires |-> x,
                   authentic |-> TRUE]
  <1>1. e \in Envelope
    BY SkewAssumption, ClockAssumption DEF IInv, TypeOK, Envelope
  <1>2. \A f \in wire : e.nonce # f.nonce
    BY DEF Sign
  <1> QED BY <1>1, <1>2, WireStep DEF Sign

\* A damaged copy keeps nonce, issue time and expiry of the original.
LEMMA DamageStep ==
  ASSUME IInv, NEW e \in wire, Damage(e)
  PROVE  IInv'
  <1> DEFINE d == [e EXCEPT !.authentic = FALSE]
  <1>1. e \in Envelope
    BY DEF IInv, TypeOK
  <1>2. d \in Envelope /\ d.nonce = e.nonce /\ d.issued = e.issued /\ d.expires = e.expires
    BY <1>1 DEF Envelope
  <1>3. \A f \in wire : d.nonce = f.nonce => d.issued = f.issued /\ d.expires = f.expires
    BY <1>2 DEF IInv, NonceUnique
  <1> HIDE DEF d
  <1>4. wire' = wire \cup {d} /\ UNCHANGED <<now, seen, verified, answer>>
    BY DEF Damage, d
  <1> QED BY <1>2, <1>3, <1>4, WireStep

\* Time passes: fewer acceptances are inside the window.
LEMMA TickStep ==
  ASSUME IInv, Tick
  PROVE  IInv'
  <1> USE DEF IInv, Tick
  <1>1. TypeOK'
    BY DEF TypeOK
  <1>2. now \in Nat /\ now' = now + 1
    BY DEF TypeOK
  <1>3. SeenBacked'
    BY DEF TypeOK, SeenBacked
  <1>4. Remembered'
    <2>1. ASSUME NEW i \in DOMAIN verified
          PROVE  verified[i].at >= now' - ReplayWindow =>
                   verified[i].at >= now - ReplayWindow
      BY <1>2, HistoryTypes, SkewAssumption, ClockAssumption
    <2> QED BY <2>1 DEF Remembered
  <1>5. AcceptedFresh'
    <2>1. ASSUME NEW i \in DOMAIN verified
          PROVE  verified[i].at <= now'
      BY <1>2, HistoryTypes DEF AcceptedFresh
    <2> QED BY <2>1 DEF AcceptedFresh, Fresh, TooNew, TooOld, PastExpiry
  <1>6. (NonceUnique /\ ReplayWindowHolds /\ RejectionJustified)'
    BY DEF NonceUnique, ReplayWindowHolds, RejectionJustified, Fresh, TooNew,
           TooOld, PastExpiry
  <1> QED BY <1>1, <1>3, <1>4, <1>5, <1>6

\* The three refusals that leave the cache alone.
LEMMA RejectStep ==
  ASSUME IInv, NEW e \in wire,
         RejectUnverified(e) \/ RejectFuture(e) \/ RejectExpired(e)
  PROVE  IInv'
  <1>1. e \in Envelope /\ now \in Nat
    BY DEF IInv, TypeOK
  <1>2. UNCHANGED <<now, wire, seen, verified>>
    BY DEF RejectUnverified, RejectFuture, RejectExpired
  <1>3. PICK code \in Code \ {"none", "ok"} :
          answer' = [code |-> code, env |-> e, at |-> now]
    BY DEF RejectUnverified, RejectFuture, RejectExpired, Answer, Code
  <1>4. TypeOK'
    BY <1>1, <1>2, <1>3 DEF IInv, TypeOK, Reply
  <1>5. (SeenBacked /\ Remembered /\ AcceptedFresh /\ NonceUnique /\ ReplayWindowHolds)'
    BY <1>2 DEF IInv, SeenBacked, Remembered, AcceptedFresh, NonceUnique,
                ReplayWindowHolds, Fresh, TooNew, TooOld, PastExpiry
  <1>6. ~e.authentic \/ ~Fresh(e, now)
    BY DEF RejectUnverified, RejectFuture, RejectExpired, Fresh
  <1>7. RejectionJustified'
    BY <1>3, <1>6 DEF RejectionJustified, Fresh, TooNew, TooOld, PastExpiry
  <1> QED BY <1>4, <1>5, <1>7 DEF IInv

\* A refused replay only evicts; the entry it hit is a real acceptance.
LEMMA ReplayStep ==
  ASSUME IInv, NEW e \in wire, RejectReplay(e)
  PROVE  IInv'
  <1> DEFINE kept == Evict(seen, now)
  <1>1. e \in Envelope /\ now \in Nat /\ TypeOK
    BY DEF IInv, TypeOK
  <1>2. UNCHANGED <<now, wire, verified>> /\ seen' = kept
        /\ answer' = [code |-> "replay_detected", env |-> e, at |-> now]
    BY DEF RejectReplay, Answer
  <1>3. kept \subseteq seen
    BY DEF Evict, Stale
  <1>4. TypeOK'
    BY <1>1, <1>2, <1>3 DEF TypeOK, Reply, Code
  <1>5. SeenBacked'
    BY <1>2, <1>3 DEF IInv, SeenBacked
  <1>6. Remembered'
    <2>1. ASSUME NEW i \in DOMAIN verified,
                 verified[i].at >= now - ReplayWindow
          PROVE  [nonce |-> verified[i].env.nonce, at |-> verified[i].at] \in kept
      <3>1. [nonce |-> verified[i].env.nonce, at |-> verified[i].at] \in seen
        BY <2>1 DEF IInv, Remembered
      <3> QED BY <1>1, <2>1, <3>1, EvictKeeps
    <2> QED BY <1>2, <2>1 DEF Remembered
  <1>7. (AcceptedFresh /\ NonceUnique /\ ReplayWindowHolds)'
    BY <1>2 DEF IInv, AcceptedFresh, NonceUnique, ReplayWindowHolds, Fresh,
                TooNew, TooOld, PastExpiry
  <1>8. RejectionJustified'
    <2>1. PICK s \in kept : s.nonce = e.nonce
      BY DEF RejectReplay, Holds
    <2>2. s \in seen /\ s.at >= now - ReplayWindow /\ s.at \in Nat
      BY <1>1, <1>3, <2>1, EvictKeeps DEF TypeOK
    <2>3. PICK i \in DOMAIN verified :
            verified[i].env.nonce = s.nonce /\ verified[i].at = s.at
      BY <2>2 DEF IInv, SeenBacked
    <2>4. now - verified[i].at <= ReplayWindow
      BY <1>1, <2>2, <2>3, SkewAssumption, ClockAssumption
    <2> QED BY <1>2, <2>1, <2>3, <2>4 DEF RejectionJustified
  <1> QED BY <1>4, <1>5, <1>6, <1>7, <1>8 DEF IInv

\* An acceptance: the cache held no entry of this nonce, so that every earlier
\* acceptance of it has left the window.
LEMMA AcceptStep ==
  ASSUME IInv, NEW e \in wire, Accept(e)
  PROVE  IInv'
  <1> DEFINE kept == Evict(seen, now)
             new  == [nonce |-> e.nonce, at |-> now]
             acc  == [env |-> e, at |-> now]
  <1>1. e \in Envelope /\ now \in Nat /\ TypeOK /\ e.nonce \in Nonce
    BY DEF IInv, TypeOK, Envelope
  <1>2. /\ UNCHANGED <<now, wire>>
        /\ seen' = kept \cup {new}
        /\ verified' = Append(verified, acc)
        /\ answer' = [code |-> "ok", env |-> e, at |-> now]
        /\ \A s \in kept : s.nonce # e.nonce
        /\ Fresh(e, now)
    BY DEF Accept, Answer, Holds
  <1>3. kept \subseteq seen
    BY DEF Evict, Stale
  <1>4. acc \in Acceptance /\ verified \in Seq(Acceptance)
    BY <1>1 DEF Acceptance, TypeOK
  <1>5. /\ DOMAIN verified' = DOMAIN verified \cup {Len(verified) + 1}
        /\ \A i \in DOMAIN verified : verified'[i] = verified[i]
        /\ verified'[Len(verified) + 1] = acc
        /\ \A i \in DOMAIN verified : i \in Nat /\ i < Len(verified) + 1
        /\ Len(verified) \in Nat
    BY <1>2, <1>4
  <1> HIDE DEF kept, new, acc
  <1>6. TypeOK'
    <2>1. seen' \subseteq [nonce : Nonce, at : Nat]
      BY <1>1, <1>2, <1>3 DEF TypeOK, new
    <2>2. verified' \in Seq(Acceptance)
      BY <1>2, <1>4
    <2>3. answer' \in Reply
      BY <1>1, <1>2 DEF Reply, Code
    <2> QED BY <1>1, <1>2, <2>1, <2>2, <2>3 DEF TypeOK
  <1>7. SeenBacked'
    <2>1. ASSUME NEW s \in kept
          PROVE  /\ s.at <= now
                 /\ \E i \in DOMAIN verified' :
                      verified'[i].env.nonce = s.nonce /\ verified'[i].at = s.at
      BY <1>3, <1>5 DEF IInv, SeenBacked
    <2>2. /\ new.at <= now /\ new.nonce = e.nonce
          /\ verified'[Len(verified) + 1].env.nonce = new.nonce
          /\ verified'[Len(verified) + 1].at = new.at
      BY <1>1, <1>5 DEF new, acc
    <2> QED BY <1>2, <1>5, <2>1, <2>2 DEF SeenBacked
  <1>8. ASSUME NEW i \in DOMAIN verified, verified[i].at >= now - ReplayWindow
        PROVE  [nonce |-> verified[i].env.nonce, at |-> verified[i].at] \in kept
    <2>1. [nonce |-> verified[i].env.nonce, at |-> verified[i].at] \in seen
      BY <1>8 DEF IInv, Remembered
    <2> QED BY <1>1, <1>8, <2>1, EvictKeeps DEF kept
  <1>9. Remembered'
    BY <1>2, <1>5, <1>8 DEF Remembered, new, acc
  <1>10. AcceptedFresh'
    <2>1. acc.at <= now /\ acc.env \in wire /\ Fresh(acc.env, acc.at)
      BY <1>1, <1>2 DEF acc
    <2> QED BY <1>2, <1>5, <2>1 DEF IInv, AcceptedFresh, Fresh, TooNew, TooOld, PastExpiry
  <1>11. NonceUnique'
    BY <1>2 DEF IInv, NonceUnique
  <1>12. ReplayWindowHolds'
    <2>1. ASSUME NEW i \in DOMAIN verified, verified[i].env.nonce = e.nonce
          PROVE  now - verified[i].at > ReplayWindow
      <3>1. ~(verified[i].at >= now - ReplayWindow)
        BY <1>2, <1>8, <2>1
      <3> QED BY <1>1, <3>1, HistoryTypes, SkewAssumption, ClockAssumption
    <2> QED BY <1>5, <2>1 DEF IInv, ReplayWindowHolds, acc
  <1>13. RejectionJustified'
    BY <1>2 DEF RejectionJustified
  <1> QED BY <1>6, <1>7, <1>9, <1>10, <1>11, <1>12, <1>13 DEF IInv

\* Every step keeps the invariant.
LEMMA NextIInv == IInv /\ [Next]_vars => IInv'
  <1> SUFFICES ASSUME IInv, [Next]_vars PROVE IInv'
    OBVIOUS
  <1>1. CASE Tick
    BY <1>1, TickStep
  <1>2. ASSUME NEW n \in Nonce, NEW offset \in (-Drift)..Drift,
               \/ Sign(n, offset, Absent)
               \/ Sign(n, offset, Null)
               \/ \E life \in Lifetime : Sign(n, offset, now + offset + life)
        PROVE  IInv'
    <2>1. \A life \in Lifetime : now + offset + life \in Int
      BY SkewAssumption, ClockAssumption DEF IInv, TypeOK
    <2> QED BY <1>2, <2>1, SignStep
  <1>3. ASSUME NEW e \in wire,
               \/ Damage(e) \/ RejectUnverified(e) \/ RejectFuture(e)
               \/ RejectExpired(e) \/ RejectReplay(e) \/ Accept(e)
        PROVE  IInv'
    BY <1>3, DamageStep, RejectStep, ReplayStep, AcceptStep
  <1>4. CASE UNCHANGED vars
    BY <1>4 DEF vars, IInv, TypeOK, SeenBacked, Remembered, AcceptedFresh,
                NonceUnique, ReplayWindowHolds, RejectionJustified, Fresh,
                TooNew, TooOld, PastExpiry
  <1> QED BY <1>1, <1>2, <1>3, <1>4 DEF Next

\* The invariant holds throughout: cache and history of acceptances agree.
THEOREM Invariance == Spec => []IInv
  BY InitIInv, NextIInv, PTL DEF Spec

\* The receiver's clock, cache, history and answers keep their types.
THEOREM TypeCorrect == Spec => []TypeOK
  BY Invariance, PTL DEF IInv

\* No nonce is accepted twice within the replay window, whatever the window,
\* the clock skew and the order of arrivals.
THEOREM NoReplayInWindow == Spec => []ReplayWindowHolds
  BY Invariance, PTL DEF IInv

\* verify() refuses an authentic fresh envelope only when the same nonce was
\* accepted within the window.
THEOREM RefusalsAreJustified == Spec => []RejectionJustified
  BY Invariance, PTL DEF IInv

\* A message without an expiry is accepted at most once.  This is where the
\* window has to be at least twice the clock skew.
THEOREM MessagesOnce == Spec => []AtMostOnce
  <1>1. IInv => AtMostOnce
    <2> SUFFICES ASSUME IInv,
                        NEW i \in DOMAIN verified, NEW j \in DOMAIN verified,
                        verified[i].env.expires = Absent,
                        verified[i].env.nonce = verified[j].env.nonce,
                        i # j
                 PROVE  FALSE
      BY DEF AtMostOnce
    <2>1. /\ verified[i].env \in wire /\ Fresh(verified[i].env, verified[i].at)
          /\ verified[j].env \in wire /\ Fresh(verified[j].env, verified[j].at)
      BY DEF IInv, AcceptedFresh
    <2>2. verified[j].env.issued = verified[i].env.issued
          /\ verified[j].env.expires = Absent
      BY <2>1 DEF IInv, NonceUnique
    <2>3. /\ verified[i].at \in Nat /\ verified[j].at \in Nat
          /\ verified[i].env \in Envelope
      BY HistoryTypes DEF IInv
    <2>4. verified[i].env.issued \in Int
      BY <2>3 DEF Envelope
    <2>5. i \in Nat /\ j \in Nat
      BY DEF IInv, TypeOK
    <2>6. /\ verified[i].at - verified[j].at <= 2 * ClockSkew
          /\ verified[j].at - verified[i].at <= 2 * ClockSkew
      BY <2>1, <2>2, <2>3, <2>4, SkewAssumption, ClockAssumption DEF Fresh, TooNew, TooOld
    <2>7. \/ verified[i].at - verified[j].at > ReplayWindow
          \/ verified[j].at - verified[i].at > ReplayWindow
      BY <2>5 DEF IInv, ReplayWindowHolds
    <2> QED BY <2>3, <2>6, <2>7, SkewAssumption, ClockAssumption, WindowAssumption
  <1> QED BY <1>1, Invariance, PTL
=============================================================================
