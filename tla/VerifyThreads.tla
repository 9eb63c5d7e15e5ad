--------------------------- MODULE VerifyThreads ---------------------------
(***************************************************************************)
(* The same verify(), run by the threads of ThreadingHTTPServer            *)
(* (flp/server.py): every request has its own thread, all of them share    *)
(* one NonceCache, and nothing locks it.  A thread reads its clock once    *)
(* (identity.py:247), works on that reading to the end, and can lose the   *)
(* interpreter                                                             *)
(*   - between reading the clock and evicting,                             *)
(*   - inside the comprehension over _seen and between two deletions,      *)
(*   - between _evict() and the membership test.                           *)
(* The test and the insertion that follows it are one step: the global     *)
(* interpreter lock is offered only at calls and backward jumps, and there *)
(* is neither between identity.py:116 and :118.                            *)
(***************************************************************************)
EXTENDS Freshness, Sequences, FiniteSets

CONSTANTS
  Thread,       \* bound: requests being served at one time
  Traffic,      \* the authentic envelopes that arrive, any number of times
  Hold,         \* bound: ticks a thread may fall behind after reading its clock
  Horizon,      \* bound: the clock stops here
  MaxAccepted   \* bound: acceptances per behaviour

ASSUME ThreadAssumption ==
  /\ Hold \in Nat
  /\ Horizon \in Nat
  /\ \A e \in Traffic : e.issued \in Int
  /\ \A e, f \in Traffic : e.nonce = f.nonce => e = f

\* The retention that makes messages safe when threads may fall behind.
Roomy == ReplayWindow >= 2 * ClockSkew + Hold

VARIABLES
  now,       \* time.time()
  seen,      \* NonceCache._seen, shared
  thread,    \* what each thread is at, with its locals
  accepted   \* history: the envelopes accepted, with the clock each was judged by

vars == <<now, seen, thread, accepted>>

Idle == [at |-> "idle"]

Init ==
  /\ now = 0
  /\ seen = {}
  /\ thread = [t \in Thread |-> Idle]
  /\ accepted = <<>>

At(t, place) == thread[t].at = place
Goto(t, state) == thread' = [thread EXCEPT ![t] = state]
Reply(t, code) == Goto(t, [at |-> "done", env |-> thread[t].env, code |-> code])

\* Inside verify(), with a clock reading in hand.
Serving(t) == ~At(t, "idle") /\ ~At(t, "done")

\* No thread falls more than Hold ticks behind the clock it has read.
Tick ==
  /\ now < Horizon
  /\ \A t \in Thread : Serving(t) => now + 1 - thread[t].clock <= Hold
  /\ now' = now + 1
  /\ UNCHANGED <<seen, thread, accepted>>

\* A request arrives; verify() reads the clock.
Arrive(t, e) ==
  /\ At(t, "idle") \/ At(t, "done")
  /\ Goto(t, [at |-> "judge", env |-> e, clock |-> now])
  /\ UNCHANGED <<now, seen, accepted>>

\* Mutant of Judge: the nonce is added first and the checks come after.
JudgeRegisters(t) ==
  /\ At(t, "judge")
  /\ IF Fresh(thread[t].env, thread[t].clock)
     THEN Goto(t, [thread[t] EXCEPT !.at = "evict"])
     ELSE Reply(t, "refused")
  /\ seen' = {s \in seen : s.nonce # thread[t].env.nonce}
             \cup {[nonce |-> thread[t].env.nonce, at |-> thread[t].clock]}
  /\ UNCHANGED <<now, accepted>>

\* Signature and freshness touch nothing that is shared.
Judge(t) ==
  /\ At(t, "judge")
  /\ IF Fresh(thread[t].env, thread[t].clock)
     THEN Goto(t, [thread[t] EXCEPT !.at = "evict"])
     ELSE Reply(t, "refused")
  /\ UNCHANGED <<now, seen, accepted>>

\* _evict() starts to iterate over the shared dict.
ScanBegin(t) ==
  /\ At(t, "evict")
  /\ Goto(t, [at |-> "scan", env |-> thread[t].env, clock |-> thread[t].clock,
              found |-> seen])
  /\ UNCHANGED <<now, seen, accepted>>

(* The iteration ends.  A dict whose size has changed raises RuntimeError;  *)
(* one that lost and gained the same number of entries may raise it or may  *)
(* go on with what it has seen.                                             *)
ScanDisturbed(t) ==
  /\ At(t, "scan")
  /\ seen # thread[t].found
  /\ Reply(t, "internal_error")
  /\ UNCHANGED <<now, seen, accepted>>

ScanEnd(t) ==
  /\ At(t, "scan")
  /\ Cardinality(seen) = Cardinality(thread[t].found)
  /\ LET old == Stale(thread[t].found, thread[t].clock)
         new == Stale(seen, thread[t].clock)
     IN  \E stale \in {old, old \cap new, old \cup new, new} :
           Goto(t, [at |-> "delete", env |-> thread[t].env, clock |-> thread[t].clock,
                    stale |-> stale])
  /\ UNCHANGED <<now, seen, accepted>>

\* The entries _evict() still has to delete.
Pending(t) == IF At(t, "delete") THEN thread[t].stale ELSE {}

\* `del self._seen[n]` of a nonce that is there, and of one that another
\* thread has deleted first.
Delete(t, s) ==
  /\ s \in Pending(t)
  /\ Holds(seen, s.nonce)
  /\ seen' = {r \in seen : r.nonce # s.nonce}
  /\ Goto(t, [thread[t] EXCEPT !.stale = @ \ {s}])
  /\ UNCHANGED <<now, accepted>>

DeleteMissing(t, s) ==
  /\ s \in Pending(t)
  /\ ~Holds(seen, s.nonce)
  /\ Reply(t, "internal_error")
  /\ UNCHANGED <<now, seen, accepted>>

Evicted(t) ==
  /\ At(t, "delete")
  /\ thread[t].stale = {}
  /\ Goto(t, [at |-> "check", env |-> thread[t].env, clock |-> thread[t].clock])
  /\ UNCHANGED <<now, seen, accepted>>

Replay(t) ==
  /\ At(t, "check")
  /\ Holds(seen, thread[t].env.nonce)
  /\ Reply(t, "replay_detected")
  /\ UNCHANGED <<now, seen, accepted>>

\* Mutant of Accept: the nonce is added without the membership test.
AcceptUnchecked(t) ==
  /\ At(t, "check")
  /\ Len(accepted) < MaxAccepted
  /\ seen' = seen \cup {[nonce |-> thread[t].env.nonce, at |-> thread[t].clock]}
  /\ accepted' = Append(accepted, [env |-> thread[t].env, at |-> thread[t].clock])
  /\ Reply(t, "ok")
  /\ UNCHANGED now

Accept(t) ==
  /\ At(t, "check")
  /\ Len(accepted) < MaxAccepted
  /\ ~Holds(seen, thread[t].env.nonce)
  /\ seen' = seen \cup {[nonce |-> thread[t].env.nonce, at |-> thread[t].clock]}
  /\ accepted' = Append(accepted, [env |-> thread[t].env, at |-> thread[t].clock])
  /\ Reply(t, "ok")
  /\ UNCHANGED now

Next ==
  \/ Tick
  \/ \E t \in Thread :
       \/ \E e \in Traffic : Arrive(t, e)
       \/ Judge(t) \/ ScanBegin(t) \/ ScanDisturbed(t) \/ ScanEnd(t)
       \/ \E s \in Pending(t) : Delete(t, s) \/ DeleteMissing(t, s)
       \/ Evicted(t) \/ Replay(t) \/ Accept(t)

Spec == Init /\ [][Next]_vars

----------------------------------------------------------------------------
Nonces == {e.nonce : e \in Traffic}
Entry == [nonce: Nonces, at: 0..Horizon]
Code == {"ok", "refused", "replay_detected", "internal_error"}
ThreadState ==
  {Idle}
  \cup [at: {"judge", "evict", "check"}, env: Traffic, clock: 0..Horizon]
  \cup [at: {"scan"}, env: Traffic, clock: 0..Horizon, found: SUBSET Entry]
  \cup [at: {"delete"}, env: Traffic, clock: 0..Horizon, stale: SUBSET Entry]
  \cup [at: {"done"}, env: Traffic, code: Code]

\* Type invariant of the shared cache and of the threads' locals; the cache is
\* a dict, so that it has at most one entry for a nonce.
TypeOK ==
  /\ now \in 0..Horizon
  /\ seen \subseteq Entry
  /\ \A r, s \in seen : r.nonce = s.nonce => r = s
  /\ \A t \in Thread : thread[t] \in ThreadState

\* A message without expiry is acted on at most once although the threads
\* share the cache without a lock, if the retention exceeds the freshness
\* interval by what a thread may fall behind (identity.py:247, 113-125).
MessagesOnce ==
  Roomy =>
    \A i, j \in DOMAIN accepted :
      accepted[i].env = accepted[j].env /\ accepted[i].env.expires = Absent => i = j

\* The same without that margin: what PROTOCOL.md 2.4 promises of the defaults.
MessagesOnceAtDefaults ==
  \A i, j \in DOMAIN accepted :
    accepted[i].env = accepted[j].env /\ accepted[i].env.expires = Absent => i = j

\* A request that ends in an error uses no nonce up: every entry of the cache
\* belongs to a request that was accepted, so that its sender can retry.
NothingBurned ==
  \A s \in seen :
    \E i \in DOMAIN accepted :
      accepted[i].env.nonce = s.nonce /\ accepted[i].at = s.at
=============================================================================
