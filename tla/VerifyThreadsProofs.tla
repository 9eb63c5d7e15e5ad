------------------------- MODULE VerifyThreadsProofs -------------------------
(***************************************************************************)
(* Proofs about verify() under threads that share one cache without a lock, *)
(* for any number of threads, any traffic, skew, window, Hold and horizon.  *)
(*                                                                         *)
(* MessagesOnce is not inductive: it says nothing of the cache, and a       *)
(* thread may delete by a list that is out of date.  The invariant says     *)
(* what an entry forgotten means: so much time has passed that no thread    *)
(* still at work can hold a reading of the clock that finds the message     *)
(* fresh.  That is what the margin Roomy asks for is needed for.            *)
(***************************************************************************)
EXTENDS VerifyThreads, TLAPS

Acceptance == [env: Traffic, at: 0..Horizon]

\* The entry of the cache was an acceptance.
Backed(s) ==
  \E i \in DOMAIN accepted : accepted[i].env.nonce = s.nonce /\ accepted[i].at = s.at

\* What a thread holds between its steps.
InTime(x) == x.clock <= now /\ now - x.clock <= Hold

Sound(x) ==
  /\ x.at \notin {"idle", "done"} => InTime(x)
  /\ x.at \in {"evict", "scan", "delete", "check"} => Fresh(x.env, x.clock)
  /\ x.at = "scan" => \A s \in x.found : Backed(s)
  /\ x.at = "delete" => \A s \in x.stale : Backed(s) /\ s.at < x.clock - ReplayWindow

\* Too late for any thread to find the envelope fresh.
TooLate(e) == now > e.issued + ClockSkew + Hold

\* What was accepted is remembered until it is too late for it.
Remembered ==
  Roomy => \A i \in DOMAIN accepted :
             accepted[i].env.expires = Absent =>
               Holds(seen, accepted[i].env.nonce) \/ TooLate(accepted[i].env)

IInv ==
  /\ TypeOK
  /\ DOMAIN thread = Thread
  /\ accepted \in Seq(Acceptance)
  /\ \A i \in DOMAIN accepted : Fresh(accepted[i].env, accepted[i].at)
  /\ \A t \in Thread : Sound(thread[t])
  /\ NothingBurned
  /\ Remembered
  /\ MessagesOnce

----------------------------------------------------------------------------
\* What is fresh is within the skew of its date, unless it has an expiry.
LEMMA FreshBounds ==
  ASSUME NEW e, NEW t \in Int, e.issued \in Int, Fresh(e, t)
  PROVE  /\ t >= e.issued - ClockSkew
         /\ e.expires = Absent => t <= e.issued + ClockSkew
  BY SkewAssumption, MarkerAssumption DEF Fresh, TooNew, TooOld, PastExpiry

LEMMA AcceptedParts ==
  ASSUME IInv
  PROVE  \A i \in DOMAIN accepted : accepted[i] \in Acceptance
  BY DEF IInv

LEMMA InitInv == Init => IInv
  <1> SUFFICES ASSUME Init PROVE IInv
    OBVIOUS
  <1>1. TypeOK
    BY ThreadAssumption DEF Init, TypeOK, ThreadState
  <1>2. /\ accepted = <<>> /\ seen = {} /\ DOMAIN thread = Thread
        /\ \A t \in Thread : thread[t].at = "idle"
    BY DEF Init, Idle
  <1> QED BY <1>1, <1>2 DEF IInv, Sound, NothingBurned, Remembered, MessagesOnce

\* A step of one thread that leaves cache and history alone.
LEMMA MoveInv ==
  ASSUME IInv, NEW t \in Thread, NEW x \in ThreadState, Sound(x),
         thread' = [thread EXCEPT ![t] = x], UNCHANGED <<now, seen, accepted>>
  PROVE  IInv'
  <1>1. DOMAIN thread' = Thread /\ \A u \in Thread : thread'[u] = IF u = t THEN x ELSE thread[u]
    BY DEF IInv
  <1>2. TypeOK'
    BY <1>1 DEF IInv, TypeOK
  <1>3. \A u \in Thread : Sound(thread[u])'
    <2> SUFFICES ASSUME NEW u \in Thread PROVE Sound(thread[u])'
      OBVIOUS
    <2>1. Sound(thread'[u])
      BY <1>1 DEF IInv
    <2> QED BY <2>1 DEF Sound, InTime, Backed
  <1> QED BY <1>1, <1>2, <1>3 DEF IInv, NothingBurned, Remembered, MessagesOnce, TooLate

\* The locals a thread has at each place.
Waiting == [at: {"judge", "evict", "check"}, env: Traffic, clock: 0..Horizon]
Scanning == [at: {"scan"}, env: Traffic, clock: 0..Horizon, found: SUBSET Entry]
Deleting == [at: {"delete"}, env: Traffic, clock: 0..Horizon, stale: SUBSET Entry]

LEMMA Locals ==
  ASSUME IInv, NEW t \in Thread
  PROVE  /\ thread[t].at \in {"judge", "evict", "check"} => thread[t] \in Waiting
         /\ thread[t].at = "scan" => thread[t] \in Scanning
         /\ thread[t].at = "delete" => thread[t] \in Deleting
  BY DEF IInv, TypeOK, ThreadState, Idle, Waiting, Scanning, Deleting

LEMMA TickInv ==
  ASSUME IInv, Tick
  PROVE  IInv'
  <1>1. /\ now \in 0..Horizon /\ now' = now + 1 /\ now' \in 0..Horizon
        /\ UNCHANGED <<seen, thread, accepted>>
    BY ThreadAssumption DEF Tick, IInv, TypeOK
  <1>2. TypeOK'
    BY <1>1 DEF IInv, TypeOK
  <1>3. \A t \in Thread : Sound(thread[t])'
    <2> SUFFICES ASSUME NEW t \in Thread PROVE Sound(thread[t])'
      OBVIOUS
    <2>1. thread[t].at \notin {"idle", "done"} => thread[t].clock \in Int
      BY Locals DEF Waiting, Scanning, Deleting, IInv, TypeOK, ThreadState, Idle
    <2>2. Sound(thread[t])
      BY DEF IInv
    <2>3. Serving(t) => now + 1 - thread[t].clock <= Hold
      BY DEF Tick
    <2> QED BY <1>1, <2>1, <2>2, <2>3 DEF Sound, InTime, Serving, At, Backed
  <1>4. Remembered'
    <2>1. \A i \in DOMAIN accepted : accepted[i].env.issued \in Int
      BY AcceptedParts, ThreadAssumption DEF Acceptance
    <2>2. \A i \in DOMAIN accepted : TooLate(accepted[i].env) => TooLate(accepted[i].env)'
      BY <1>1, <2>1, SkewAssumption, ThreadAssumption DEF TooLate
    <2> QED BY <1>1, <2>2 DEF IInv, Remembered
  <1> QED BY <1>1, <1>2, <1>3, <1>4 DEF IInv, NothingBurned, MessagesOnce

\* Every step that only moves its thread on.
LEMMA ArriveInv ==
  ASSUME IInv, NEW t \in Thread, NEW e \in Traffic, Arrive(t, e)
  PROVE  IInv'
  <1> DEFINE x == [at |-> "judge", env |-> e, clock |-> now]
  <1>1. x \in ThreadState /\ Sound(x)
    BY ThreadAssumption DEF IInv, TypeOK, ThreadState, Sound, InTime
  <1> QED BY <1>1, MoveInv DEF Arrive, Goto

LEMMA ReplyInv ==
  ASSUME IInv, NEW t \in Thread, NEW code \in Code, Reply(t, code),
         thread[t].at \in {"judge", "evict", "check", "scan", "delete"},
         UNCHANGED <<now, seen, accepted>>
  PROVE  IInv'
  <1> DEFINE x == [at |-> "done", env |-> thread[t].env, code |-> code]
  <1>1. thread[t].env \in Traffic
    BY Locals DEF Waiting, Scanning, Deleting
  <1>2. x \in ThreadState /\ Sound(x)
    BY <1>1 DEF ThreadState, Sound
  <1> QED BY <1>2, MoveInv DEF Reply, Goto

LEMMA JudgeInv ==
  ASSUME IInv, NEW t \in Thread, Judge(t)
  PROVE  IInv'
  <1>1. thread[t] \in Waiting /\ Sound(thread[t]) /\ thread[t].at = "judge"
    BY Locals DEF Judge, At, IInv
  <1>2. CASE Fresh(thread[t].env, thread[t].clock)
    <2> DEFINE x == [thread[t] EXCEPT !.at = "evict"]
    <2>1. /\ x \in Waiting /\ x.at = "evict"
          /\ x.env = thread[t].env /\ x.clock = thread[t].clock
      BY <1>1 DEF Waiting
    <2>2. x \in ThreadState /\ Sound(x)
      BY <1>1, <1>2, <2>1 DEF ThreadState, Waiting, Sound, InTime
    <2> QED BY <1>2, <2>2, MoveInv DEF Judge, Goto
  <1>3. CASE ~Fresh(thread[t].env, thread[t].clock)
    BY <1>1, <1>3, ReplyInv DEF Judge, Code
  <1> QED BY <1>2, <1>3

\* The entries of the cache were accepted, and of these the stale ones before the cutoff.
LEMMA ScanBeginInv ==
  ASSUME IInv, NEW t \in Thread, ScanBegin(t)
  PROVE  IInv'
  <1> DEFINE x == [at |-> "scan", env |-> thread[t].env, clock |-> thread[t].clock, found |-> seen]
  <1>1. thread[t] \in Waiting /\ Sound(thread[t]) /\ thread[t].at = "evict"
    BY Locals DEF ScanBegin, At, IInv
  <1>2. \A s \in seen : Backed(s)
    BY DEF IInv, NothingBurned, Backed
  <1>3. x \in ThreadState
    BY <1>1 DEF IInv, TypeOK, ThreadState, Waiting
  <1>4. Sound(x)
    BY <1>1, <1>2 DEF Sound, InTime
  <1> QED BY <1>3, <1>4, MoveInv DEF ScanBegin, Goto

LEMMA ScanEndInv ==
  ASSUME IInv, NEW t \in Thread, ScanEnd(t)
  PROVE  IInv'
  <1> DEFINE old == Stale(thread[t].found, thread[t].clock)
             new == Stale(seen, thread[t].clock)
  <1>1. thread[t] \in Scanning /\ Sound(thread[t]) /\ thread[t].at = "scan"
    BY Locals DEF ScanEnd, At, IInv
  <1>2. \A s \in seen \cup thread[t].found : s \in Entry /\ Backed(s)
    BY <1>1 DEF IInv, TypeOK, NothingBurned, Backed, Sound, Scanning
  <1>3. \A s \in old \cup new : s \in Entry /\ Backed(s) /\ s.at < thread[t].clock - ReplayWindow
    BY <1>2 DEF Stale
  <1>4. PICK stale \in {old, old \cap new, old \cup new, new} :
          Goto(t, [at |-> "delete", env |-> thread[t].env, clock |-> thread[t].clock,
                   stale |-> stale])
    BY DEF ScanEnd
  <1>5. stale \subseteq old \cup new
    BY <1>4
  <1> DEFINE x == [at |-> "delete", env |-> thread[t].env, clock |-> thread[t].clock, stale |-> stale]
  <1> HIDE DEF old, new
  <1>6. x \in ThreadState
    BY <1>1, <1>3, <1>5 DEF ThreadState, Scanning
  <1>7. Sound(x)
    BY <1>1, <1>3, <1>5 DEF Sound, InTime
  <1> QED BY <1>4, <1>6, <1>7, MoveInv DEF ScanEnd, Goto

LEMMA EvictedInv ==
  ASSUME IInv, NEW t \in Thread, Evicted(t)
  PROVE  IInv'
  <1> DEFINE x == [at |-> "check", env |-> thread[t].env, clock |-> thread[t].clock]
  <1>1. thread[t] \in Deleting /\ Sound(thread[t]) /\ thread[t].at = "delete"
    BY Locals DEF Evicted, At, IInv
  <1>2. x \in ThreadState /\ Sound(x)
    BY <1>1 DEF ThreadState, Deleting, Sound, InTime
  <1> QED BY <1>2, MoveInv DEF Evicted, Goto

\* An entry is only deleted when it is too late for the message it stands for:
\* the thread whose list says so has read its clock beyond the window, and the
\* message was accepted within the skew of its date.
LEMMA DeletedIsTooLate ==
  ASSUME IInv, Roomy, NEW t \in Thread, thread[t].at = "delete",
         NEW s \in thread[t].stale, NEW i \in DOMAIN accepted,
         accepted[i].env.nonce = s.nonce, accepted[i].env.expires = Absent
  PROVE  TooLate(accepted[i].env)
  <1>1. thread[t] \in Deleting /\ Sound(thread[t])
    BY Locals DEF IInv
  <1>2. PICK j \in DOMAIN accepted : accepted[j].env.nonce = s.nonce /\ accepted[j].at = s.at
    BY <1>1 DEF Sound, Backed
  <1>3. accepted[i].env \in Traffic /\ accepted[j].env \in Traffic /\ accepted[j].at \in Int
    BY AcceptedParts DEF Acceptance
  <1>4. accepted[j].env = accepted[i].env
    BY <1>2, <1>3, ThreadAssumption
  <1> DEFINE e == accepted[i].env
  <1>5. Fresh(e, s.at) /\ e.expires = Absent /\ e.issued \in Int /\ s.at \in Int
    BY <1>2, <1>3, <1>4, ThreadAssumption DEF IInv
  <1>6. e.issued - ClockSkew <= s.at
    BY <1>5, FreshBounds
  <1>7. s.at < thread[t].clock - ReplayWindow /\ thread[t].clock <= now
    BY <1>1 DEF Sound, InTime, Deleting
  <1>8. thread[t].clock \in Int /\ now \in Int
    BY <1>1 DEF Deleting, IInv, TypeOK
  <1> HIDE DEF e
  <1>9. now > e.issued + ClockSkew + Hold
    BY <1>5, <1>6, <1>7, <1>8, SkewAssumption, ThreadAssumption DEF Roomy
  <1> QED BY <1>9 DEF e, TooLate

LEMMA DeleteInv ==
  ASSUME IInv, NEW t \in Thread, NEW s \in Pending(t), Delete(t, s)
  PROVE  IInv'
  <1>1. /\ thread[t].at = "delete" /\ s \in thread[t].stale
        /\ thread[t] \in Deleting /\ Sound(thread[t])
    BY Locals DEF Pending, At, IInv
  <1> DEFINE x == [thread[t] EXCEPT !.stale = @ \ {s}]
  <1>2. /\ seen' = {r \in seen : r.nonce # s.nonce} /\ now' = now /\ accepted' = accepted
        /\ thread' = [thread EXCEPT ![t] = x]
    BY DEF Delete, Goto
  <1>3. /\ x \in Deleting /\ x.env = thread[t].env /\ x.clock = thread[t].clock
        /\ x.at = "delete" /\ x.stale = thread[t].stale \ {s}
    BY <1>1 DEF Deleting
  <1> HIDE DEF x
  <1>4. x \in ThreadState /\ Sound(x)
    BY <1>1, <1>3 DEF ThreadState, Deleting, Sound, InTime
  <1>5. DOMAIN thread' = Thread /\ \A u \in Thread : thread'[u] = IF u = t THEN x ELSE thread[u]
    BY <1>2 DEF IInv
  <1>6. TypeOK'
    BY <1>2, <1>4, <1>5 DEF IInv, TypeOK
  <1>7. \A u \in Thread : Sound(thread[u])'
    <2> SUFFICES ASSUME NEW u \in Thread PROVE Sound(thread[u])'
      OBVIOUS
    <2>1. Sound(thread'[u])
      BY <1>4, <1>5 DEF IInv
    <2> QED BY <1>2, <2>1 DEF Sound, InTime, Backed
  <1>8. Remembered'
    <2> SUFFICES ASSUME Roomy, NEW i \in DOMAIN accepted, accepted[i].env.expires = Absent
                 PROVE  Holds(seen', accepted[i].env.nonce) \/ TooLate(accepted[i].env)
      BY <1>2 DEF Remembered, TooLate
    <2>1. CASE accepted[i].env.nonce = s.nonce
      BY <1>1, <2>1, DeletedIsTooLate
    <2>2. CASE accepted[i].env.nonce # s.nonce
      BY <1>2, <2>2 DEF IInv, Remembered, Holds
    <2> QED BY <2>1, <2>2
  <1> QED BY <1>2, <1>5, <1>6, <1>7, <1>8 DEF IInv, NothingBurned, MessagesOnce

LEMMA AcceptInv ==
  ASSUME IInv, NEW t \in Thread, Accept(t)
  PROVE  IInv'
  <1> DEFINE e == thread[t].env
             clock == thread[t].clock
             a == [env |-> e, at |-> clock]
             entry == [nonce |-> e.nonce, at |-> clock]
             x == [at |-> "done", env |-> e, code |-> "ok"]
  <1>1. thread[t] \in Waiting /\ Sound(thread[t]) /\ thread[t].at = "check"
    BY Locals DEF Accept, At, IInv
  <1>2. /\ e \in Traffic /\ clock \in 0..Horizon /\ a \in Acceptance /\ entry \in Entry
        /\ entry.nonce = e.nonce /\ entry.at = clock /\ a.env = e /\ a.at = clock
        /\ Fresh(e, clock) /\ clock <= now /\ now - clock <= Hold /\ now \in 0..Horizon
    BY <1>1 DEF Waiting, Sound, InTime, Acceptance, Entry, Nonces, IInv, TypeOK
  <1>3. /\ seen' = seen \cup {entry} /\ accepted' = Append(accepted, a) /\ now' = now
        /\ thread' = [thread EXCEPT ![t] = x] /\ ~Holds(seen, e.nonce)
    BY DEF Accept, Reply, Goto
  <1>4. x \in ThreadState /\ x.at = "done"
    BY <1>2 DEF ThreadState, Code
  <1> HIDE DEF e, clock, a, entry, x
  <1>5. DOMAIN thread' = Thread /\ \A u \in Thread : thread'[u] = IF u = t THEN x ELSE thread[u]
    BY <1>3 DEF IInv
  <1> DEFINE n == Len(accepted) + 1
  <1>6. /\ accepted' \in Seq(Acceptance) /\ n \in Int
        /\ DOMAIN accepted' = DOMAIN accepted \cup {n} /\ n \notin DOMAIN accepted
        /\ accepted'[n] = a /\ \A i \in DOMAIN accepted : accepted'[i] = accepted[i]
    BY <1>2, <1>3 DEF IInv
  <1> HIDE DEF n
  <1>7. TypeOK'
    BY <1>2, <1>3, <1>4, <1>5 DEF IInv, TypeOK, Holds
  <1>8. \A i \in DOMAIN accepted' : Fresh(accepted'[i].env, accepted'[i].at)
    BY <1>2, <1>6 DEF IInv
  <1>9. \A s : Backed(s) => Backed(s)'
    BY <1>6 DEF Backed
  <1>10. \A u \in Thread : Sound(thread[u])'
    <2> SUFFICES ASSUME NEW u \in Thread PROVE Sound(thread[u])'
      OBVIOUS
    <2>1. CASE u = t
      BY <1>4, <1>5, <2>1 DEF Sound
    <2>2. CASE u # t
      BY <1>3, <1>5, <1>9, <2>2 DEF IInv, Sound, InTime
    <2> QED BY <2>1, <2>2
  <1>11. NothingBurned'
    <2>1. n \in DOMAIN accepted' /\ accepted'[n].env.nonce = entry.nonce /\ accepted'[n].at = entry.at
      BY <1>2, <1>6
    <2>2. \A s \in seen : Backed(s)'
      BY <1>9 DEF IInv, NothingBurned, Backed
    <2>3. \A s \in seen' : \E i \in DOMAIN accepted' :
             accepted'[i].env.nonce = s.nonce /\ accepted'[i].at = s.at
      BY <1>3, <2>1, <2>2 DEF Backed
    <2> QED BY <2>3 DEF NothingBurned
  <1>12. Remembered'
    BY <1>2, <1>3, <1>6 DEF IInv, Remembered, Holds, TooLate
  <1>13. MessagesOnce'
    <2> SUFFICES ASSUME Roomy, NEW i \in DOMAIN accepted, accepted[i].env = e,
                        e.expires = Absent
                 PROVE  FALSE
      BY <1>2, <1>6 DEF IInv, MessagesOnce
    <2>1. now > e.issued + ClockSkew + Hold
      BY <1>3 DEF IInv, Remembered, TooLate
    <2>2. clock <= e.issued + ClockSkew
      BY <1>2, FreshBounds, ThreadAssumption
    <2> QED BY <1>2, <2>1, <2>2, SkewAssumption, ThreadAssumption
  <1> QED BY <1>5, <1>6, <1>7, <1>8, <1>10, <1>11, <1>12, <1>13 DEF IInv

LEMMA NextInv == IInv /\ [Next]_vars => IInv'
  <1> SUFFICES ASSUME IInv, [Next]_vars PROVE IInv'
    OBVIOUS
  <1>1. ASSUME NEW t \in Thread, ScanDisturbed(t) PROVE IInv'
    BY <1>1, ReplyInv DEF ScanDisturbed, At, Code
  <1>2. ASSUME NEW t \in Thread, NEW s \in Pending(t), DeleteMissing(t, s) PROVE IInv'
    BY <1>2, ReplyInv DEF DeleteMissing, Pending, At, Code
  <1>3. ASSUME NEW t \in Thread, Replay(t) PROVE IInv'
    BY <1>3, ReplyInv DEF Replay, At, Code
  <1>4. CASE UNCHANGED vars
    BY <1>4 DEF vars, IInv, TypeOK, Sound, InTime, Backed, NothingBurned, Remembered,
                TooLate, MessagesOnce
  <1> QED BY <1>1, <1>2, <1>3, <1>4, TickInv, ArriveInv, JudgeInv, ScanBeginInv, ScanEndInv,
             EvictedInv, DeleteInv, AcceptInv DEF Next

LEMMA Invariance == Spec => []IInv
  BY InitInv, NextInv, PTL DEF Spec

----------------------------------------------------------------------------
\* The cache stays a dict with one entry for a nonce, and every thread has the
\* locals of the place it is at.
THEOREM TypeCorrect == Spec => []TypeOK
  <1>1. IInv => TypeOK
    BY DEF IInv
  <1> QED BY <1>1, Invariance, PTL

\* With the margin of Roomy, any number of threads that share the cache without a
\* lock act on a message at most once (identity.py:247, 113-125).
THEOREM OnceAmongThreads == Spec => []MessagesOnce
  <1>1. IInv => MessagesOnce
    BY DEF IInv
  <1> QED BY <1>1, Invariance, PTL

\* Whatever a thread does to another's eviction, a request that ends in an error
\* leaves no nonce behind (identity.py:113-125).
THEOREM ErrorsBurnNothing == Spec => []NothingBurned
  <1>1. IInv => NothingBurned
    BY DEF IInv
  <1> QED BY <1>1, Invariance, PTL
=============================================================================
