-------------------------- MODULE EmbedCacheProofs --------------------------
(***************************************************************************)
(* Proofs that the embedding cache changes no answer and has no vector      *)
(* computed more often than its threads look for it, for any processes,     *)
(* threads, capabilities, texts, queries, restarts and missing replies.     *)
(*                                                                         *)
(* CacheIsTransparent is not inductive: a vector travels from one call      *)
(* through memory, the text about to be written, the file and a restart     *)
(* into another call.  The invariant says of each of these places that what *)
(* stands under a key is nothing or the vector the key was made for.        *)
(***************************************************************************)
EXTENDS EmbedCache, FiniteSetTheorems, TLAPS

Busy == {"lookup", "vector", "dump", "open", "write"}

\* What a call may hold for a text: nothing, or the model's own vector.
Fit(model, text) == {Null, Own(model, text)}

Vector == {Null} \cup {Own(model, Text[cap]) : model \in Model, cap \in Capability}

\* Under every key its own vector, or null.
Sound(entries) == \A k \in DOMAIN entries : entries[k] \in Fit(k[1], k[2])

SoundFile(f) == f = Empty \/ f = Mess \/ \E entries : Sound(entries) /\ f = Object(entries)

Call == [at: Busy, model: Model, pair: Capability \X Capability, side: {1, 2},
         vecs: [{1, 2} -> Vector]]

Running(c) == c \in Call /\ \A s \in {1, 2} : c.vecs[s] \in Fit(c.model, Text[c.pair[s]])

Answered(c) ==
  /\ c.at = "returned"
  /\ c.vecs = <<>> \/ \A s \in {1, 2} : c.vecs[s] = Own(c.model, Text[c.pair[s]])

SoundCall(c) == c = Idle \/ Running(c) \/ Answered(c)

IInv ==
  /\ semantic \in [Process -> Model]
  /\ DOMAIN memory = Process /\ \A p \in Process : Sound(memory[p])
  /\ SoundFile(file)
  /\ DOMAIN call = Thread /\ \A t \in Thread : SoundCall(call[t])
  /\ DOMAIN dump = Thread /\ \A t \in Thread : Sound(dump[t])

----------------------------------------------------------------------------
LEMMA NoEntriesSound == Sound(NoEntries)
  BY DEF Sound, NoEntries

LEMMA InitInv == Init => IInv
  BY NoEntriesSound DEF Init, IInv, SoundFile, SoundCall

\* What is looked up under a key fits the text of the key.
LEMMA GetFits ==
  ASSUME IInv, NEW p \in Process, NEW model, NEW text
  PROVE  Get(p, Key(model, text)) \in Fit(model, text)
  <1>1. Key(model, text)[1] = model /\ Key(model, text)[2] = text
    BY DEF Key
  <1>2. Sound(memory[p])
    BY DEF IInv
  <1> QED BY <1>1, <1>2 DEF Get, Sound, Fit

\* A file that is read gives sound entries.
LEMMA LoadedSound ==
  ASSUME NEW f, SoundFile(f)
  PROVE  Sound(Loaded(f))
  <1>1. CASE f \in {Empty, Mess}
    BY <1>1, NoEntriesSound DEF Loaded
  <1>2. CASE f \notin {Empty, Mess}
    <2>1. PICK entries : Sound(entries) /\ f = Object(entries)
      BY <1>2 DEF SoundFile
    <2> QED BY <1>2, <2>1 DEF Loaded, Object
  <1> QED BY <1>1, <1>2

\* What fits a capability's text is a vector or null.
LEMMA FitIsVector ==
  ASSUME NEW model \in Model, NEW pair \in Capability \X Capability, NEW s \in {1, 2}
  PROVE  Fit(model, Text[pair[s]]) \subseteq Vector
  <1>1. pair[s] \in Capability
    OBVIOUS
  <1> QED BY <1>1 DEF Fit, Vector

\* A call that takes in a vector that fits the side it was at runs on.
LEMMA TookSound ==
  ASSUME NEW c, Running(c), NEW vec \in Fit(c.model, Text[c.pair[c.side]]),
         NEW d \in [at: Busy, model: {c.model}, pair: {c.pair}, side: {1, 2},
                    vecs: {[c.vecs EXCEPT ![c.side] = vec]}]
  PROVE  Running(d)
  <1>1. c \in Call /\ \A s \in {1, 2} : c.vecs[s] \in Fit(c.model, Text[c.pair[s]])
    BY DEF Running
  <1>2. vec \in Vector
    BY <1>1, FitIsVector DEF Call
  <1>3. [c.vecs EXCEPT ![c.side] = vec] \in [{1, 2} -> Vector]
    BY <1>1, <1>2 DEF Call
  <1>4. d \in Call
    BY <1>1, <1>3 DEF Call
  <1> QED BY <1>1, <1>4 DEF Running, Call

\* A running call may move on to another place.
LEMMA MovedSound ==
  ASSUME NEW c, Running(c), NEW at \in Busy
  PROVE  Running([c EXCEPT !.at = at])
  BY DEF Running, Call

\* It may take in a vector on the way.
LEMMA FilledSound ==
  ASSUME NEW c, Running(c), NEW at \in Busy,
         NEW vec \in Fit(c.model, Text[c.pair[c.side]])
  PROVE  Running([c EXCEPT !.at = at, !.vecs[c.side] = vec])
  <1> DEFINE d == [c EXCEPT !.at = at, !.vecs[c.side] = vec]
  <1>1. d \in [at: Busy, model: {c.model}, pair: {c.pair}, side: {1, 2},
               vecs: {[c.vecs EXCEPT ![c.side] = vec]}]
    BY DEF Running, Call
  <1> HIDE DEF d
  <1>2. Running(d)
    BY <1>1, TookSound
  <1> QED BY <1>2 DEF d

\* A call that goes on keeps what fits; one that ends answers with vectors of
\* its own or not at all.
LEMMA OnwardSound ==
  ASSUME NEW c, Running(c), NEW vec \in Fit(c.model, Text[c.pair[c.side]])
  PROVE  SoundCall(Onward(c, vec))
  <1> DEFINE vecs == [c.vecs EXCEPT ![c.side] = vec]
  <1>1. c \in Call /\ \A s \in {1, 2} : c.vecs[s] \in Fit(c.model, Text[c.pair[s]])
    BY DEF Running
  <1>2. CASE c.side = 1
    <2>1. Turn(c) \in Busy
      BY DEF Turn, Busy
    <2>2. Running([c EXCEPT !.side = 2, !.at = Turn(c), !.vecs = vecs])
      <3> DEFINE d == [c EXCEPT !.side = 2, !.at = Turn(c), !.vecs = vecs]
      <3>1. d \in [at: Busy, model: {c.model}, pair: {c.pair}, side: {1, 2}, vecs: {vecs}]
        BY <1>1, <2>1 DEF Call
      <3> HIDE DEF d
      <3>2. Running(d)
        BY <3>1, TookSound
      <3> QED BY <3>2 DEF d
    <2>3. Onward(c, vec) = [c EXCEPT !.side = 2, !.at = Turn(c), !.vecs = vecs]
      BY <1>2 DEF Onward
    <2> QED BY <2>2, <2>3 DEF SoundCall
  <1>3. CASE c.side # 1
    <2> DEFINE d == [at |-> "returned", model |-> c.model, pair |-> c.pair,
                     vecs |-> IF Null \in {vecs[1], vecs[2]} THEN <<>> ELSE vecs]
    <2>1. Onward(c, vec) = d
      BY <1>3 DEF Onward
    <2>2. \A s \in {1, 2} : vecs[s] \in {Null, Own(c.model, Text[c.pair[s]])}
      BY <1>1 DEF Call, Fit
    <2>3. Answered(d)
      BY <2>2 DEF Answered
    <2> QED BY <2>1, <2>3 DEF SoundCall
  <1> QED BY <1>2, <1>3

LEMMA GivenUpSound ==
  ASSUME NEW c, Running(c)
  PROVE  SoundCall(GivenUp(c))
  <1>1. CASE c.model = "ollama"
    <2>1. Null \in Fit(c.model, Text[c.pair[c.side]])
      BY DEF Fit
    <2> QED BY <1>1, <2>1, OnwardSound DEF GivenUp
  <1>2. CASE c.model # "ollama"
    BY <1>2 DEF GivenUp, SoundCall, Answered
  <1> QED BY <1>1, <1>2

----------------------------------------------------------------------------
LEMMA BusyRuns ==
  ASSUME IInv, NEW t \in Thread, call[t].at \in Busy
  PROVE  Running(call[t])
  <1>1. SoundCall(call[t])
    BY DEF IInv
  <1> QED BY <1>1 DEF SoundCall, Idle, Answered, Busy

\* The part of the invariant that is about calls, after a step of one thread.
LEMMA CallStep ==
  ASSUME IInv, NEW t \in Thread, NEW c, SoundCall(c), call' = [call EXCEPT ![t] = c]
  PROVE  DOMAIN call' = Thread /\ \A u \in Thread : SoundCall(call'[u])
  BY DEF IInv

LEMMA DumpStep ==
  ASSUME IInv, NEW t \in Thread, NEW entries, Sound(entries),
         dump' = [dump EXCEPT ![t] = entries]
  PROVE  DOMAIN dump' = Thread /\ \A u \in Thread : Sound(dump'[u])
  BY DEF IInv

LEMMA BeginInv ==
  ASSUME IInv, NEW t \in Thread, NEW pair \in Query[ProcessOf[t]], Begin(t, pair)
  PROVE  IInv'
  <1> DEFINE p == ProcessOf[t]
             model == semantic[p]
             seen(side) == IF model = "ollama" THEN Null ELSE Get(p, Key(model, Text[pair[side]]))
             c == [at |-> "idle", model |-> model, pair |-> pair, side |-> 1,
                   vecs |-> <<seen(1), seen(2)>>]
             d == [c EXCEPT !.at = Turn(c)]
  <1>1. p \in Process /\ pair \in Capability \X Capability /\ model \in Model
    BY CacheAssumption DEF IInv
  <1>2. \A s \in {1, 2} : seen(s) \in Fit(model, Text[pair[s]])
    BY <1>1, GetFits DEF Fit
  <1>3. Turn(c) \in Busy
    BY DEF Turn, Busy
  <1>4. Running(d)
    <2>1. \A s \in {1, 2} : seen(s) \in Vector
      BY <1>1, <1>2, FitIsVector
    <2> DEFINE vecs == <<seen(1), seen(2)>>
    <2>2. vecs \in [{1, 2} -> Vector] /\ vecs[1] = seen(1) /\ vecs[2] = seen(2)
      <3> HIDE DEF seen
      <3> QED BY <2>1
    <2>3. \A s \in {1, 2} : vecs[s] \in Fit(model, Text[pair[s]])
      BY <1>2, <2>2
    <2> HIDE DEF vecs, model
    <2>4. d = [at |-> Turn(c), model |-> model, pair |-> pair, side |-> 1, vecs |-> vecs]
      BY DEF vecs
    <2> QED BY <1>1, <1>3, <2>2, <2>3, <2>4 DEF Running, Call
  <1>5. SoundCall(d)
    BY <1>4 DEF SoundCall
  <1>6. call' = [call EXCEPT ![t] = d] /\ UNCHANGED <<semantic, memory, file, dump>>
    BY DEF Begin
  <1> HIDE DEF d
  <1> QED BY <1>5, <1>6, CallStep DEF IInv

LEMMA LookUpInv ==
  ASSUME IInv, NEW t \in Thread, LookUp(t)
  PROVE  IInv'
  <1> DEFINE c == call[t]
             vec == Get(ProcessOf[t], KeyOn(c))
             d == [c EXCEPT !.at = "vector", !.vecs[c.side] = vec]
  <1>1. Running(c)
    BY BusyRuns DEF LookUp, Busy
  <1>2. vec \in Fit(c.model, Text[c.pair[c.side]])
    BY CacheAssumption, GetFits DEF KeyOn
  <1>3. SoundCall(d)
    <2>1. "vector" \in Busy
      BY DEF Busy
    <2> QED BY <1>1, <1>2, <2>1, FilledSound DEF SoundCall
  <1>4. call' = [call EXCEPT ![t] = d] /\ UNCHANGED <<semantic, memory, file, dump>>
    BY DEF LookUp
  <1> HIDE DEF d
  <1> QED BY <1>3, <1>4, CallStep DEF IInv

LEMMA HitInv ==
  ASSUME IInv, NEW t \in Thread, Hit(t)
  PROVE  IInv'
  <1>1. Running(call[t])
    BY BusyRuns DEF Hit, Busy
  <1>2. Known(t) \in Fit(call[t].model, Text[call[t].pair[call[t].side]])
    BY <1>1 DEF Running, Call, Known
  <1>3. SoundCall(Onward(call[t], Known(t)))
    BY <1>1, <1>2, OnwardSound
  <1>4. call' = [call EXCEPT ![t] = Onward(call[t], Known(t))]
        /\ UNCHANGED <<semantic, memory, file, dump>>
    BY DEF Hit
  <1> QED BY <1>3, <1>4, CallStep DEF IInv

\* set() with the model's own vector, or with null.
LEMMA SetInv ==
  ASSUME IInv, NEW t \in Thread, NEW vec,
         vec \in Fit(call[t].model, Text[call[t].pair[call[t].side]]), Set(t, vec)
  PROVE  IInv'
  <1> DEFINE c == call[t]
             p == ProcessOf[t]
             entries == [k \in DOMAIN memory[p] \cup {KeyOn(c)} |->
                           IF k = KeyOn(c) THEN vec ELSE memory[p][k]]
             d == [c EXCEPT !.at = "dump", !.vecs[c.side] = vec]
  <1>1. Running(c)
    BY BusyRuns DEF Set, Busy
  <1>2. SoundCall(d)
    <2>1. "dump" \in Busy
      BY DEF Busy
    <2> QED BY <1>1, <2>1, FilledSound DEF SoundCall
  <1>3. p \in Process /\ Sound(memory[p])
    BY CacheAssumption DEF IInv
  <1>4. Sound(entries)
    <2>1. KeyOn(c)[1] = c.model /\ KeyOn(c)[2] = Text[c.pair[c.side]]
      BY DEF KeyOn, Key
    <2>2. vec \in Fit(KeyOn(c)[1], KeyOn(c)[2])
      BY <2>1
    <2> QED BY <1>3, <2>2 DEF Sound
  <1>5. memory' = [memory EXCEPT ![p] = entries] /\ call' = [call EXCEPT ![t] = d]
        /\ UNCHANGED <<semantic, file, dump>>
    BY DEF Set
  <1> HIDE DEF d, entries
  <1>6. DOMAIN memory' = Process /\ \A q \in Process : Sound(memory'[q])
    BY <1>3, <1>4, <1>5 DEF IInv
  <1>7. DOMAIN call' = Thread /\ \A u \in Thread : SoundCall(call'[u])
    BY <1>2, <1>5, CallStep
  <1> QED BY <1>5, <1>6, <1>7 DEF IInv

LEMMA ModelFailsInv ==
  ASSUME IInv, NEW t \in Thread, ModelFails(t)
  PROVE  IInv'
  <1>1. SoundCall(GivenUp(call[t]))
    BY BusyRuns, GivenUpSound DEF ModelFails, Busy
  <1>2. call' = [call EXCEPT ![t] = GivenUp(call[t])]
        /\ UNCHANGED <<semantic, memory, file, dump>>
    BY DEF ModelFails
  <1> QED BY <1>1, <1>2, CallStep DEF IInv

LEMMA DumpInv ==
  ASSUME IInv, NEW t \in Thread, Dump(t)
  PROVE  IInv'
  <1> DEFINE d == [call[t] EXCEPT !.at = "open"]
  <1>1. SoundCall(d)
    <2>1. Running(call[t])
      BY BusyRuns DEF Dump, Busy
    <2>2. "open" \in Busy
      BY DEF Busy
    <2> QED BY <2>1, <2>2, MovedSound DEF SoundCall
  <1>2. Sound(memory[ProcessOf[t]])
    BY CacheAssumption DEF IInv
  <1>3. call' = [call EXCEPT ![t] = d] /\ dump' = [dump EXCEPT ![t] = memory[ProcessOf[t]]]
        /\ UNCHANGED <<semantic, memory, file>>
    BY DEF Dump
  <1> HIDE DEF d
  <1>4. DOMAIN call' = Thread /\ \A u \in Thread : SoundCall(call'[u])
    BY <1>1, <1>3, CallStep
  <1>5. DOMAIN dump' = Thread /\ \A u \in Thread : Sound(dump'[u])
    BY <1>2, <1>3, DumpStep
  <1> QED BY <1>3, <1>4, <1>5 DEF IInv

LEMMA OpenInv ==
  ASSUME IInv, NEW t \in Thread, Open(t)
  PROVE  IInv'
  <1> DEFINE d == [call[t] EXCEPT !.at = "write"]
  <1>1. SoundCall(d)
    <2>1. Running(call[t])
      BY BusyRuns DEF Open, Busy
    <2>2. "write" \in Busy
      BY DEF Busy
    <2> QED BY <2>1, <2>2, MovedSound DEF SoundCall
  <1>2. call' = [call EXCEPT ![t] = d] /\ file' = Empty /\ UNCHANGED <<semantic, memory, dump>>
    BY DEF Open
  <1> HIDE DEF d
  <1> QED BY <1>1, <1>2, CallStep DEF IInv, SoundFile

\* The text a thread made of its memory, or a mess of two.
LEMMA WriteInv ==
  ASSUME IInv, NEW t \in Thread, Write(t)
  PROVE  IInv'
  <1>1. Running(call[t])
    BY BusyRuns DEF Write, Busy
  <1>2. SoundCall(Onward(call[t], call[t].vecs[call[t].side]))
    BY <1>1, OnwardSound DEF Running, Call
  <1>3. /\ call' = [call EXCEPT ![t] = Onward(call[t], call[t].vecs[call[t].side])]
        /\ dump' = [dump EXCEPT ![t] = NoEntries]
        /\ file' = Object(dump[t]) \/ file' = Mess
        /\ UNCHANGED <<semantic, memory>>
    BY DEF Write
  <1>4. SoundFile(file')
    BY <1>3 DEF SoundFile, IInv
  <1>5. DOMAIN call' = Thread /\ \A u \in Thread : SoundCall(call'[u])
    BY <1>2, <1>3, CallStep
  <1>6. DOMAIN dump' = Thread /\ \A u \in Thread : Sound(dump'[u])
    BY <1>3, NoEntriesSound, DumpStep
  <1> QED BY <1>3, <1>4, <1>5, <1>6 DEF IInv

LEMMA WriteFailsInv ==
  ASSUME IInv, NEW t \in Thread, WriteFails(t)
  PROVE  IInv'
  <1>1. SoundCall(GivenUp(call[t]))
    BY BusyRuns, GivenUpSound DEF WriteFails, Busy
  <1>2. /\ call' = [call EXCEPT ![t] = GivenUp(call[t])]
        /\ dump' = [dump EXCEPT ![t] = NoEntries]
        /\ file' = file \/ file' = Mess
        /\ UNCHANGED <<semantic, memory>>
    BY DEF WriteFails
  <1>3. SoundFile(file')
    BY <1>2 DEF SoundFile, IInv
  <1>4. DOMAIN call' = Thread /\ \A u \in Thread : SoundCall(call'[u])
    BY <1>1, <1>2, CallStep
  <1>5. DOMAIN dump' = Thread /\ \A u \in Thread : Sound(dump'[u])
    BY <1>2, NoEntriesSound, DumpStep
  <1> QED BY <1>2, <1>3, <1>4, <1>5 DEF IInv

\* A process that starts again takes what the file holds.
LEMMA RestartInv ==
  ASSUME IInv, NEW p \in Process, Restart(p)
  PROVE  IInv'
  <1>1. /\ file' = file \/ file' = Mess
        /\ memory' = [memory EXCEPT ![p] = Loaded(file')]
        /\ call' = [t \in Thread |-> IF ProcessOf[t] = p THEN Idle ELSE call[t]]
        /\ dump' = [t \in Thread |-> IF ProcessOf[t] = p THEN NoEntries ELSE dump[t]]
        /\ UNCHANGED semantic
    BY DEF Restart
  <1>2. SoundFile(file')
    BY <1>1 DEF SoundFile, IInv
  <1>3. Sound(Loaded(file'))
    BY <1>2, LoadedSound
  <1>4. DOMAIN memory' = Process /\ \A q \in Process : Sound(memory'[q])
    BY <1>1, <1>3 DEF IInv
  <1>5. DOMAIN call' = Thread /\ \A u \in Thread : SoundCall(call'[u])
    BY <1>1 DEF IInv, SoundCall
  <1>6. DOMAIN dump' = Thread /\ \A u \in Thread : Sound(dump'[u])
    BY <1>1, NoEntriesSound DEF IInv
  <1> QED BY <1>1, <1>2, <1>4, <1>5, <1>6 DEF IInv

LEMMA NextInv == IInv /\ [Next]_vars => IInv'
  <1> SUFFICES ASSUME IInv, [Next]_vars PROVE IInv'
    OBVIOUS
  <1>1. ASSUME NEW t \in Thread, Compute(t) PROVE IInv'
    BY <1>1, SetInv DEF Compute, Fit
  <1>2. ASSUME NEW t \in Thread, ComputeNull(t) PROVE IInv'
    BY <1>2, SetInv DEF ComputeNull, Fit
  <1>3. CASE UNCHANGED vars
    BY <1>3 DEF vars, IInv
  <1> QED BY <1>1, <1>2, <1>3, BeginInv, LookUpInv, HitInv, ModelFailsInv, DumpInv, OpenInv,
             WriteInv, WriteFailsInv, RestartInv DEF Next

\* A call that has an answer has it from vectors of its own model and texts.
LEMMA InvTransparent == IInv => CacheIsTransparent
  BY DEF IInv, CacheIsTransparent, SoundCall, Idle, Running, Call, Busy, Answered

\* The cache changes no answer, whatever is lost, garbled or written over
\* (semantic.py:128-148, 173-200).
THEOREM AnswersAreOwn == Spec => []CacheIsTransparent
  BY InitInv, NextInv, InvTransparent, PTL DEF Spec

----------------------------------------------------------------------------
(* ComputedOnce.  Once a vector is in memory, only threads that looked before  *)
(* compute it again, and each of them once for every side it still has to do. *)
(* So what was computed and what is still due stay within one computation for  *)
(* every side of every thread, until a null takes the vector's place.         *)

KeyAt(c, side) == Key(c.model, Text[c.pair[side]])

\* The call will compute the vector of that side, unless it gives up.
Pending(c, side) ==
  /\ c.at \in Busy /\ c.vecs[side] = Null
  /\ \/ c.at = "vector" /\ side = c.side
     \/ c.model = "sentence_transformers" /\ side > c.side

Due(p, key, side) ==
  {t \in Threads(p) : Pending(call[t], side) /\ KeyAt(call[t], side) = key}
Left(p, key) == Cardinality(Due(p, key, 1)) + Cardinality(Due(p, key, 2))

Room(p, key) == Cardinality(Threads(p)) * Sides(p, key)

Asked ==
  \A t \in Thread : call[t].at \in Busy =>
    call[t].model = semantic[ProcessOf[t]] /\ call[t].pair \in Query[ProcessOf[t]]

\* The account of one key in one process.
Account(p, key) ==
  /\ Get(p, key) = Null => computed[p][key] <= Room(p, key) * nulls
  /\ Get(p, key) # Null => computed[p][key] + Left(p, key) <= Room(p, key) * (1 + nulls)

Counted ==
  /\ nulls \in Nat /\ computed \in [Process -> [Keys -> Nat]]
  /\ Asked
  /\ \A p \in Process, key \in Keys : Account(p, key)

LEMMA Product ==
  ASSUME NEW r \in Nat, NEW n \in Nat
  PROVE  r * n \in Nat /\ r * (1 + n) = r * n + r
<1>1. r * n \in Nat
  OBVIOUS
<1>2. r * (1 + n) = r * n + r
  OBVIOUS
<1> QED BY <1>1, <1>2

\* How many sides of a pair of p's read the key.
SidesOf(p, key, pair) ==
  Cardinality({side \in 1..2 : Key(semantic[p], Text[pair[side]]) = key})

\* The sides of one pair are none, one or both of them.
LEMMA SidesCount ==
  ASSUME NEW p, NEW key, NEW pair
  PROVE  /\ SidesOf(p, key, pair) \in 0..2
         /\ SidesOf(p, key, pair) = 0 =>
              \A side \in 1..2 : Key(semantic[p], Text[pair[side]]) # key
         /\ SidesOf(p, key, pair) <= 1 =>
              ~(\A side \in 1..2 : Key(semantic[p], Text[pair[side]]) = key)
<1> DEFINE S == {side \in 1..2 : Key(semantic[p], Text[pair[side]]) = key}
<1>1. IsFiniteSet(1..2) /\ Cardinality(1..2) = 2
  <2>1. /\ IsFiniteSet(1..2)
        /\ Cardinality(1..2) = IF 1 > 2 THEN 0 ELSE 2 - 1 + 1
    BY 1 \in Int, 2 \in Int, FS_Interval, Zenon
  <2> QED BY <2>1
<1>2. S \in SUBSET (1..2)
  OBVIOUS
<1>3. IsFiniteSet(S) /\ Cardinality(S) <= 2 /\ Cardinality(S) \in Nat
  BY <1>1, <1>2, FS_Subset, FS_CardinalityType
<1>4. Cardinality(S) = 0 => S = {}
  BY <1>3, FS_EmptySet
<1>5. S = 1..2 => Cardinality(S) = 2
  BY <1>1
<1> QED BY <1>3, <1>4, <1>5 DEF SidesOf

\* Sides is the largest of them.
LEMMA SidesBound ==
  ASSUME NEW p, NEW key
  PROVE  /\ Sides(p, key) \in 0..2
         /\ \A pair \in Query[p] : SidesOf(p, key, pair) <= Sides(p, key)
<1> DEFINE N == {0} \cup {SidesOf(p, key, pair) : pair \in Query[p]}
<1>1. N \subseteq 0..2 /\ 0 \in N
  BY SidesCount
<1>2. \E n \in N : \A k \in N : n >= k
  <2>1. CASE 2 \in N
    BY <1>1, <2>1
  <2>2. CASE 2 \notin N /\ 1 \in N
    BY <1>1, <2>2
  <2>3. CASE 2 \notin N /\ 1 \notin N
    BY <1>1, <2>3
  <2> QED BY <2>1, <2>2, <2>3
<1>3. Sides(p, key) = CHOOSE n \in N : \A k \in N : n >= k
  BY DEF Sides, SidesOf, Max
<1>4. Sides(p, key) \in N /\ \A k \in N : Sides(p, key) >= k
  BY <1>2, <1>3
<1>5. ASSUME NEW pair \in Query[p] PROVE SidesOf(p, key, pair) <= Sides(p, key)
  <2>1. SidesOf(p, key, pair) \in N
    OBVIOUS
  <2> QED BY <1>1, <1>4, <2>1
<1> QED BY <1>1, <1>4, <1>5

\* What is due are threads of the process, finitely many.
LEMMA DueFinite ==
  ASSUME NEW p, NEW key, NEW side
  PROVE  /\ IsFiniteSet(Threads(p)) /\ Cardinality(Threads(p)) \in Nat
         /\ IsFiniteSet(Due(p, key, side)) /\ Cardinality(Due(p, key, side)) \in Nat
         /\ Cardinality(Due(p, key, side)) <= Cardinality(Threads(p))
<1>1. Threads(p) \in SUBSET Thread /\ Due(p, key, side) \in SUBSET Threads(p)
  BY DEF Threads, Due
<1>2. IsFiniteSet(Threads(p))
  BY <1>1, CacheAssumption, FS_Subset
<1>3. IsFiniteSet(Due(p, key, side)) /\ Cardinality(Due(p, key, side)) <= Cardinality(Threads(p))
  BY <1>1, <1>2, FS_Subset
<1> QED BY <1>2, <1>3, FS_CardinalityType

LEMMA RoomNat ==
  ASSUME NEW p, NEW key
  PROVE  Room(p, key) \in Nat
<1>1. Cardinality(Threads(p)) \in Nat /\ Sides(p, key) \in Nat
  BY DueFinite, SidesBound
<1> QED BY <1>1, Product DEF Room

LEMMA LeftNat ==
  ASSUME NEW p, NEW key
  PROVE  Left(p, key) \in Nat
BY DueFinite DEF Left

\* There is never more due than there is room for.
LEMMA LeftFits ==
  ASSUME Asked, NEW p \in Process, NEW key
  PROVE  Left(p, key) <= Room(p, key)
<1> DEFINE T == Cardinality(Threads(p))
           D1 == Due(p, key, 1)
           D2 == Due(p, key, 2)
<1>1. /\ T \in Nat /\ IsFiniteSet(D1) /\ IsFiniteSet(D2) /\ IsFiniteSet(Threads(p))
      /\ Cardinality(D1) \in Nat /\ Cardinality(D2) \in Nat
      /\ Cardinality(D1) <= T /\ Cardinality(D2) <= T
  BY DueFinite
<1>2. \A side \in 1..2 : \A t \in Due(p, key, side) :
        call[t].pair \in Query[p] /\ Key(semantic[p], Text[call[t].pair[side]]) = key
  BY DEF Asked, Due, Pending, KeyAt, Threads
<1>3. CASE Sides(p, key) = 0
  <2>1. \A side \in 1..2 : \A t \in Due(p, key, side) : FALSE
    <3> SUFFICES ASSUME NEW side \in 1..2, NEW t \in Due(p, key, side) PROVE FALSE
      OBVIOUS
    <3>1. call[t].pair \in Query[p] /\ Key(semantic[p], Text[call[t].pair[side]]) = key
      BY <1>2
    <3>2. SidesOf(p, key, call[t].pair) = 0
      BY <1>3, <3>1, SidesBound, SidesCount
    <3> QED BY <3>1, <3>2, SidesCount
  <2>2. D1 = {} /\ D2 = {}
    BY <2>1
  <2>3. Cardinality(D1) = 0 /\ Cardinality(D2) = 0
    BY <2>2, FS_EmptySet
  <2> QED BY <1>1, <1>3, <2>3 DEF Left, Room
<1>4. CASE Sides(p, key) = 1
  <2>1. D1 \cap D2 = {}
    <3> SUFFICES ASSUME NEW t, t \in D1, t \in D2 PROVE FALSE
      OBVIOUS
    <3>1. /\ call[t].pair \in Query[p]
          /\ Key(semantic[p], Text[call[t].pair[1]]) = key
          /\ Key(semantic[p], Text[call[t].pair[2]]) = key
      BY <1>2
    <3>2. SidesOf(p, key, call[t].pair) <= 1
      BY <1>4, <3>1, SidesBound
    <3>3. \A side \in 1..2 : Key(semantic[p], Text[call[t].pair[side]]) = key
      BY <3>1
    <3> QED BY <3>2, <3>3, SidesCount
  <2>2. Cardinality(D1 \cup D2) = Cardinality(D1) + Cardinality(D2)
    <3>1. Cardinality(D1 \cap D2) = 0
      BY <2>1, FS_EmptySet
    <3>2. Cardinality(D1 \cup D2) = Cardinality(D1) + Cardinality(D2) - Cardinality(D1 \cap D2)
      BY <1>1, FS_Union
    <3> QED BY <1>1, <3>1, <3>2
  <2>3. D1 \cup D2 \in SUBSET Threads(p)
    BY DEF Due
  <2>4. Cardinality(D1 \cup D2) <= T
    BY <1>1, <2>3, FS_Subset
  <2> QED BY <1>1, <1>4, <2>2, <2>4 DEF Left, Room
<1>5. CASE Sides(p, key) = 2
  BY <1>1, <1>5 DEF Left, Room
<1> QED BY <1>3, <1>4, <1>5, SidesBound

----------------------------------------------------------------------------
\* Nothing becomes due in a step that leaves a thread with no more to do.
LEMMA DueShrinks ==
  ASSUME IInv, UNCHANGED semantic, NEW t \in Thread, NEW d, call' = [call EXCEPT ![t] = d],
         NEW p, NEW key, NEW side,
         ProcessOf[t] = p /\ Pending(d, side) /\ KeyAt(d, side) = key
           => Pending(call[t], side) /\ KeyAt(call[t], side) = key
  PROVE  Due(p, key, side)' \subseteq Due(p, key, side)
<1> SUFFICES ASSUME NEW u \in Threads(p), Pending(call'[u], side), KeyAt(call'[u], side) = key
             PROVE  u \in Due(p, key, side)
  BY DEF Due, Threads, Pending, KeyAt
<1>1. u \in Thread /\ ProcessOf[u] = p /\ DOMAIN call = Thread
  BY DEF Threads, IInv
<1>2. CASE u = t
  <2>1. call'[u] = d
    BY <1>1, <1>2
  <2> QED BY <1>1, <1>2, <2>1 DEF Due
<1>3. CASE u # t
  <2>1. call'[u] = call[u]
    BY <1>1, <1>3
  <2> QED BY <2>1 DEF Due
<1> QED BY <1>2, <1>3

\* Then there is not more left either.
LEMMA LeftShrinks ==
  ASSUME NEW p, NEW key,
         Due(p, key, 1)' \subseteq Due(p, key, 1), Due(p, key, 2)' \subseteq Due(p, key, 2)
  PROVE  Left(p, key)' \in Nat /\ Left(p, key)' <= Left(p, key)
<1>1. /\ IsFiniteSet(Due(p, key, 1)) /\ IsFiniteSet(Due(p, key, 2))
      /\ Cardinality(Due(p, key, 1)) \in Nat /\ Cardinality(Due(p, key, 2)) \in Nat
  BY DueFinite
<1>2. /\ IsFiniteSet(Due(p, key, 1)') /\ Cardinality(Due(p, key, 1)') <= Cardinality(Due(p, key, 1))
      /\ IsFiniteSet(Due(p, key, 2)') /\ Cardinality(Due(p, key, 2)') <= Cardinality(Due(p, key, 2))
  BY <1>1, FS_Subset
<1>3. Cardinality(Due(p, key, 1)') \in Nat /\ Cardinality(Due(p, key, 2)') \in Nat
  BY <1>2, FS_CardinalityType
<1>4. Left(p, key)' = Cardinality(Due(p, key, 1)') + Cardinality(Due(p, key, 2)')
  BY DEF Left
<1> QED BY <1>1, <1>2, <1>3, <1>4 DEF Left

\* Going on, to the other side or to the end, makes nothing due.
LEMMA OnwardDue ==
  ASSUME NEW c, Running(c), NEW vec, NEW side \in {1, 2}, Pending(Onward(c, vec), side)
  PROVE  Pending(c, side) /\ KeyAt(Onward(c, vec), side) = KeyAt(c, side)
<1>1. c \in Call
  BY DEF Running
<1>2. Onward(c, vec).at \in Busy
  BY DEF Pending
<1>3. c.side = 1
  BY <1>2 DEF Onward, Busy
<1> DEFINE vecs == [c.vecs EXCEPT ![1] = vec]
<1>4. Onward(c, vec) = [c EXCEPT !.side = 2, !.at = Turn(c), !.vecs = vecs]
  BY <1>3 DEF Onward
<1> DEFINE d == [c EXCEPT !.side = 2, !.at = Turn(c), !.vecs = vecs]
<1>5. /\ d.side = 2 /\ d.at = Turn(c) /\ d.vecs = vecs /\ d.model = c.model /\ d.pair = c.pair
  BY <1>1 DEF Call
<1>6. Pending(d, side)
  BY <1>4
<1> HIDE DEF d
<1>7. side = 2 /\ vecs[2] = Null /\ Turn(c) = "vector"
  BY <1>5, <1>6 DEF Pending
<1>8. c.model = "sentence_transformers" /\ c.vecs[2] = Null /\ c.at \in Busy
  BY <1>1, <1>7 DEF Turn, Call, Model
<1>9. Pending(c, side)
  BY <1>3, <1>7, <1>8 DEF Pending
<1>10. KeyAt(d, side) = KeyAt(c, side)
  BY <1>5 DEF KeyAt
<1> QED BY <1>4, <1>9, <1>10 DEF d

LEMMA GivenUpDue ==
  ASSUME NEW c, Running(c), NEW side \in {1, 2}, Pending(GivenUp(c), side)
  PROVE  Pending(c, side) /\ KeyAt(GivenUp(c), side) = KeyAt(c, side)
<1>1. CASE c.model = "ollama"
  <2>1. GivenUp(c) = Onward(c, Null)
    BY <1>1 DEF GivenUp
  <2> QED BY <2>1, OnwardDue
<1>2. CASE c.model # "ollama"
  BY <1>2 DEF GivenUp, Pending, Busy
<1> QED BY <1>1, <1>2

\* A call goes on asking what it was asked.
LEMMA OnwardAsks ==
  ASSUME NEW c, Running(c), NEW vec
  PROVE  Onward(c, vec).model = c.model /\ Onward(c, vec).pair = c.pair
<1>1. CASE c.side = 1
  <2> DEFINE vecs == [c.vecs EXCEPT ![c.side] = vec]
  <2>1. Onward(c, vec) = [c EXCEPT !.side = 2, !.at = Turn(c), !.vecs = vecs]
    BY <1>1 DEF Onward
  <2>2. c \in Call
    BY DEF Running
  <2> HIDE DEF vecs
  <2> QED BY <2>1, <2>2 DEF Call
<1>2. CASE c.side # 1
  BY <1>2 DEF Onward
<1> QED BY <1>1, <1>2

LEMMA GivenUpAsks ==
  ASSUME NEW c, Running(c)
  PROVE  GivenUp(c).model = c.model /\ GivenUp(c).pair = c.pair
BY OnwardAsks DEF GivenUp

LEMMA AskedStep ==
  ASSUME IInv, Asked, UNCHANGED semantic, NEW t \in Thread, call[t].at \in Busy,
         NEW d, d.model = call[t].model, d.pair = call[t].pair,
         call' = [call EXCEPT ![t] = d]
  PROVE  Asked'
<1>1. \A u \in Thread : call'[u] = IF u = t THEN d ELSE call[u]
  BY DEF IInv
<1>2. ASSUME NEW u \in Thread, call'[u].at \in Busy
      PROVE  call'[u].model = semantic[ProcessOf[u]] /\ call'[u].pair \in Query[ProcessOf[u]]
  <2>1. CASE u = t
    BY <1>1, <2>1 DEF Asked
  <2>2. CASE u # t
    BY <1>1, <1>2, <2>2 DEF Asked
  <2> QED BY <2>1, <2>2
<1> QED BY <1>2 DEF Asked

\* The account of a key that nothing was computed for, and of which no more is
\* left where it is known.
LEMMA AccountKept ==
  ASSUME NEW p, NEW key, Account(p, key), UNCHANGED <<semantic, nulls>>,
         computed'[p][key] = computed[p][key], computed[p][key] \in Nat, nulls \in Nat,
         Get(p, key)' = Get(p, key),
         Get(p, key) # Null => /\ Due(p, key, 1)' \subseteq Due(p, key, 1)
                               /\ Due(p, key, 2)' \subseteq Due(p, key, 2)
  PROVE  Account(p, key)'
<1>1. Room(p, key)' = Room(p, key)
  BY DEF Room, Sides, Threads
<1>2. CASE Get(p, key) = Null
  BY <1>1, <1>2 DEF Account
<1>3. CASE Get(p, key) # Null
  <2>1. Left(p, key)' \in Nat /\ Left(p, key)' <= Left(p, key) /\ Left(p, key) \in Nat
    BY <1>3, LeftShrinks, LeftNat
  <2>2. computed[p][key] + Left(p, key) <= Room(p, key) * (1 + nulls)
    BY <1>3 DEF Account
  <2> DEFINE bound == Room(p, key) * (1 + nulls)
  <2>3. bound \in Nat
    BY RoomNat, Product, 1 + nulls \in Nat
  <2> HIDE DEF bound
  <2>4. computed[p][key] + Left(p, key)' <= bound
    BY <2>1, <2>2, <2>3 DEF bound
  <2> QED BY <1>1, <1>3, <2>4 DEF Account, bound
<1> QED BY <1>2, <1>3

\* A step of one thread that computes nothing and leaves memory alone.
LEMMA QuietCounted ==
  ASSUME IInv, Counted, NEW t \in Thread, NEW d, call' = [call EXCEPT ![t] = d],
         UNCHANGED <<semantic, memory, computed, nulls>>, Asked',
         \A key \in Keys : \A side \in {1, 2} :
           Get(ProcessOf[t], key) # Null /\ Pending(d, side) /\ KeyAt(d, side) = key
             => Pending(call[t], side) /\ KeyAt(call[t], side) = key
  PROVE  Counted'
<1>1. ASSUME NEW p \in Process, NEW key \in Keys PROVE Account(p, key)'
  <2>1. /\ Account(p, key) /\ nulls \in Nat /\ computed[p][key] \in Nat
        /\ computed'[p][key] = computed[p][key]
    BY DEF Counted
  <2>2. Get(p, key)' = Get(p, key)
    BY DEF Get
  <2>3. ASSUME Get(p, key) # Null, NEW side \in {1, 2}
        PROVE  Due(p, key, side)' \subseteq Due(p, key, side)
    <3>1. ProcessOf[t] = p /\ Pending(d, side) /\ KeyAt(d, side) = key
            => Pending(call[t], side) /\ KeyAt(call[t], side) = key
      BY <2>3
    <3> QED BY <3>1, DueShrinks
  <2> QED BY <2>1, <2>2, <2>3, AccountKept
<1> QED BY <1>1 DEF Counted

LEMMA BeginCounted ==
  ASSUME IInv, Counted, NEW t \in Thread, NEW pair \in Query[ProcessOf[t]], Begin(t, pair)
  PROVE  Counted'
<1> DEFINE p == ProcessOf[t]
           model == semantic[p]
           seen(side) == IF model = "ollama" THEN Null ELSE Get(p, Key(model, Text[pair[side]]))
           c == [at |-> "idle", model |-> model, pair |-> pair, side |-> 1,
                 vecs |-> <<seen(1), seen(2)>>]
           d == [c EXCEPT !.at = Turn(c)]
<1>1. /\ call' = [call EXCEPT ![t] = d]
      /\ UNCHANGED <<semantic, memory, computed, nulls>>
  BY DEF Begin
<1>2. /\ d.at = IF model = "ollama" THEN "lookup" ELSE "vector"
      /\ d.model = model /\ d.pair = pair /\ d.side = 1
      /\ d.vecs[1] = seen(1) /\ d.vecs[2] = seen(2)
  BY DEF Turn
<1>3. model \in Model
  BY CacheAssumption DEF IInv
<1> HIDE DEF d
<1>4. ASSUME NEW key \in Keys, NEW side \in {1, 2},
             Get(p, key) # Null, Pending(d, side), KeyAt(d, side) = key
      PROVE  FALSE
  <2>1. CASE model = "ollama"
    BY <1>2, <1>4, <2>1 DEF Pending
  <2>2. CASE model # "ollama"
    <3>1. key = Key(model, Text[pair[side]])
      BY <1>2, <1>4 DEF KeyAt
    <3>2. d.vecs[side] = Get(p, key)
      BY <1>2, <2>2, <3>1
    <3> QED BY <1>4, <3>2 DEF Pending
  <2> QED BY <2>1, <2>2
<1>5. Asked'
  <2>1. \A u \in Thread : call'[u] = IF u = t THEN d ELSE call[u]
    BY <1>1 DEF IInv
  <2>2. ASSUME NEW u \in Thread, call'[u].at \in Busy
        PROVE  call'[u].model = semantic[ProcessOf[u]] /\ call'[u].pair \in Query[ProcessOf[u]]
    <3>1. CASE u = t
      BY <1>2, <2>1, <3>1
    <3>2. CASE u # t
      BY <2>1, <2>2, <3>2 DEF Counted, Asked
    <3> QED BY <3>1, <3>2
  <2> QED BY <1>1, <2>2 DEF Asked
<1> QED BY <1>1, <1>4, <1>5, QuietCounted

LEMMA LookUpCounted ==
  ASSUME IInv, Counted, NEW t \in Thread, LookUp(t)
  PROVE  Counted'
<1> DEFINE c == call[t]
           vec == Get(ProcessOf[t], KeyOn(c))
           d == [c EXCEPT !.at = "vector", !.vecs[c.side] = vec]
<1>1. Running(c) /\ c.at \in Busy
  BY BusyRuns DEF LookUp, Busy
<1>2. call' = [call EXCEPT ![t] = d] /\ UNCHANGED <<semantic, memory, computed, nulls>>
  BY DEF LookUp
<1>3. /\ d.side = c.side /\ d.model = c.model /\ d.pair = c.pair /\ d.vecs[c.side] = vec
      /\ \A side \in {1, 2} : side # c.side => d.vecs[side] = c.vecs[side]
  BY <1>1 DEF Running, Call
<1> HIDE DEF d
<1>4. ASSUME NEW key \in Keys, NEW side \in {1, 2},
             Get(ProcessOf[t], key) # Null, Pending(d, side), KeyAt(d, side) = key
      PROVE  Pending(c, side) /\ KeyAt(c, side) = key
  <2>1. KeyAt(c, side) = key
    BY <1>3, <1>4 DEF KeyAt
  <2>2. side # c.side
    <3> SUFFICES ASSUME side = c.side PROVE FALSE
      OBVIOUS
    <3>1. vec = Get(ProcessOf[t], key)
      BY <2>1 DEF KeyAt, KeyOn
    <3> QED BY <1>3, <1>4, <3>1 DEF Pending
  <2> QED BY <1>1, <1>3, <1>4, <2>1, <2>2 DEF Pending
<1>5. Asked'
  BY <1>1, <1>2, <1>3, AskedStep DEF Counted
<1> QED BY <1>2, <1>4, <1>5, QuietCounted

\* A call goes on, or gives up.
LEMMA OnwardCounted ==
  ASSUME IInv, Counted, NEW t \in Thread, Running(call[t]), NEW d,
         d = GivenUp(call[t]) \/ \E vec : d = Onward(call[t], vec),
         call' = [call EXCEPT ![t] = d],
         UNCHANGED <<semantic, memory, computed, nulls>>
  PROVE  Counted'
<1>1. d.model = call[t].model /\ d.pair = call[t].pair
  BY OnwardAsks, GivenUpAsks
<1>2. call[t].at \in Busy
  BY DEF Running, Call
<1>3. Asked'
  BY <1>1, <1>2, AskedStep DEF Counted
<1>4. ASSUME NEW side \in {1, 2}, Pending(d, side)
      PROVE  Pending(call[t], side) /\ KeyAt(d, side) = KeyAt(call[t], side)
  BY <1>4, OnwardDue, GivenUpDue
<1> QED BY <1>3, <1>4, QuietCounted

\* Between the steps of set() a call only moves on.
LEMMA MovedCounted ==
  ASSUME IInv, Counted, NEW t \in Thread, Running(call[t]), NEW at \in {"open", "write"},
         call' = [call EXCEPT ![t].at = at],
         UNCHANGED <<semantic, memory, computed, nulls>>
  PROVE  Counted'
<1> DEFINE d == [call[t] EXCEPT !.at = at]
<1>1. /\ d.at = at /\ d.model = call[t].model /\ d.pair = call[t].pair
      /\ d.side = call[t].side /\ d.vecs = call[t].vecs
  BY DEF Running, Call
<1>2. call' = [call EXCEPT ![t] = d]
  OBVIOUS
<1> HIDE DEF d
<1>3. call[t].at \in Busy
  BY DEF Running, Call
<1>4. Asked'
  BY <1>1, <1>2, <1>3, AskedStep DEF Counted
<1>5. ASSUME NEW side \in {1, 2}, Pending(d, side)
      PROVE  Pending(call[t], side) /\ KeyAt(d, side) = KeyAt(call[t], side)
  BY <1>1, <1>3, <1>5 DEF Pending, KeyAt
<1>6. \A key \in Keys : \A side \in {1, 2} :
        Get(ProcessOf[t], key) # Null /\ Pending(d, side) /\ KeyAt(d, side) = key
          => Pending(call[t], side) /\ KeyAt(call[t], side) = key
  BY <1>5
<1> QED BY <1>2, <1>4, <1>6, QuietCounted

\* set(): the entry of the call's key is now the vector, all others are kept.
LEMMA SetEffect ==
  ASSUME IInv, Counted, NEW t \in Thread, NEW vec, Set(t, vec),
         NEW k, k = KeyOn(call[t]), NEW s, s = call[t].side
  PROVE  /\ Running(call[t]) /\ call[t].at = "vector" /\ Known(t) = Null
         /\ UNCHANGED semantic /\ Asked'
         /\ \A p \in Process, key \in Keys :
              Get(p, key)' = IF p = ProcessOf[t] /\ key = k THEN vec ELSE Get(p, key)
         /\ \A p \in Process, key \in Keys, side \in {1, 2} :
              Due(p, key, side)' \subseteq Due(p, key, side)
         /\ Due(ProcessOf[t], k, s)' \subseteq Due(ProcessOf[t], k, s) \ {t}
<1> DEFINE c == call[t]
           q == ProcessOf[t]
           entries == [j \in DOMAIN memory[q] \cup {k} |-> IF j = k THEN vec ELSE memory[q][j]]
           d == [c EXCEPT !.at = "dump", !.vecs[c.side] = vec]
<1>1. Running(c) /\ c.at = "vector" /\ Known(t) = Null /\ c.at \in Busy
  BY BusyRuns DEF Set, Busy
<1>2. /\ call' = [call EXCEPT ![t] = d] /\ UNCHANGED semantic
      /\ memory' = [memory EXCEPT ![q] = entries]
  BY DEF Set
<1>3. /\ d.at = "dump" /\ d.side = c.side /\ d.model = c.model /\ d.pair = c.pair
      /\ \A side \in {1, 2} : side # c.side => d.vecs[side] = c.vecs[side]
  BY <1>1 DEF Running, Call
<1> HIDE DEF d
<1>4. Asked'
  BY <1>1, <1>2, <1>3, AskedStep DEF Counted
<1>5. ASSUME NEW p \in Process, NEW key \in Keys
      PROVE  Get(p, key)' = IF p = q /\ key = k THEN vec ELSE Get(p, key)
  <2>1. q \in Process /\ DOMAIN memory = Process
    BY CacheAssumption DEF IInv
  <2>2. CASE p # q
    <3>1. memory'[p] = memory[p]
      BY <1>2, <2>1, <2>2
    <3> QED BY <2>2, <3>1 DEF Get
  <2>3. CASE p = q
    <3>1. memory'[q] = entries
      BY <1>2, <2>1
    <3>2. /\ DOMAIN entries = DOMAIN memory[q] \cup {k}
          /\ entries[k] = vec
          /\ \A j \in DOMAIN memory[q] : j # k => entries[j] = memory[q][j]
      OBVIOUS
    <3> HIDE DEF entries
    <3>3. CASE key = k
      BY <2>3, <3>1, <3>2, <3>3 DEF Get
    <3>4. CASE key # k
      BY <2>3, <3>1, <3>2, <3>4 DEF Get
    <3> QED BY <3>3, <3>4
  <2> QED BY <2>2, <2>3
<1>6. ASSUME NEW side \in {1, 2}, Pending(d, side)
      PROVE  /\ side # c.side /\ Pending(c, side)
             /\ KeyAt(d, side) = KeyAt(c, side)
  <2>1. side > c.side /\ c.model = "sentence_transformers"
    BY <1>3, <1>6 DEF Pending
  <2>2. side # c.side
    BY <1>1, <2>1 DEF Running, Call
  <2> QED BY <1>1, <1>3, <1>6, <2>1, <2>2 DEF Pending, KeyAt
<1>7. ASSUME NEW p \in Process, NEW key \in Keys, NEW side \in {1, 2}
      PROVE  Due(p, key, side)' \subseteq Due(p, key, side)
  <2>1. ProcessOf[t] = p /\ Pending(d, side) /\ KeyAt(d, side) = key
          => Pending(c, side) /\ KeyAt(c, side) = key
    BY <1>6
  <2> QED BY <1>2, <2>1, DueShrinks
<1>8. Due(q, k, s)' \subseteq Due(q, k, s) \ {t}
  <2>1. s \in {1, 2} /\ q \in Process
    BY <1>1, CacheAssumption DEF Running, Call
  <2>2. ~Pending(d, s)
    BY <1>6, <2>1
  <2>3. call'[t] = d
    BY <1>2 DEF IInv
  <2>4. t \notin Due(q, k, s)'
    BY <2>2, <2>3 DEF Due
  <2>5. Due(q, k, s)' \subseteq Due(q, k, s)
    BY <1>2, <2>2, DueShrinks
  <2> QED BY <2>4, <2>5
<1> QED BY <1>1, <1>2, <1>4, <1>5, <1>7, <1>8

\* One computation more, one less that is due.
LEMMA ComputeCounted ==
  ASSUME IInv, Counted, NEW t \in Thread, Compute(t)
  PROVE  Counted'
<1> DEFINE c == call[t]
           q == ProcessOf[t]
           own == Own(c.model, Text[c.pair[c.side]])
<1>1. PICK k, s : k = KeyOn(c) /\ s = c.side
  OBVIOUS
<1>2. Set(t, own) /\ UNCHANGED nulls
      /\ computed' = [computed EXCEPT ![q][k] = @ + 1]
  BY <1>1 DEF Compute
<1>3. own # Null /\ q \in Process
  BY CacheAssumption DEF Own, Null
<1> HIDE DEF own
<1>4. /\ Running(c) /\ c.at = "vector" /\ Known(t) = Null
      /\ UNCHANGED semantic /\ Asked'
      /\ \A p \in Process, key \in Keys :
           Get(p, key)' = IF p = q /\ key = k THEN own ELSE Get(p, key)
      /\ \A p \in Process, key \in Keys, side \in {1, 2} :
           Due(p, key, side)' \subseteq Due(p, key, side)
      /\ Due(q, k, s)' \subseteq Due(q, k, s) \ {t}
  BY <1>1, <1>2, SetEffect
<1>5. /\ nulls \in Nat /\ computed \in [Process -> [Keys -> Nat]] /\ Asked
      /\ \A p \in Process, key \in Keys : Account(p, key)
  BY DEF Counted
<1>6. ASSUME NEW p \in Process, NEW key \in Keys
      PROVE  computed'[p][key] = IF p = q /\ key = k THEN computed[p][key] + 1
                                 ELSE computed[p][key]
  BY <1>2, <1>5
<1>7. computed' \in [Process -> [Keys -> Nat]]
  <2>1. CASE k \in Keys
    <3>1. computed[q][k] + 1 \in Nat /\ computed[q] \in [Keys -> Nat]
      BY <1>3, <1>5, <2>1
    <3>2. [computed[q] EXCEPT ![k] = @ + 1] \in [Keys -> Nat]
      BY <2>1, <3>1
    <3> QED BY <1>2, <1>3, <1>5, <3>2
  <2>2. CASE k \notin Keys
    <3>1. [computed[q] EXCEPT ![k] = @ + 1] = computed[q]
      BY <1>3, <1>5, <2>2
    <3> QED BY <1>2, <1>3, <1>5, <3>1
  <2> QED BY <2>1, <2>2
<1>8. ASSUME NEW p \in Process, NEW key \in Keys, ~(p = q /\ key = k)
      PROVE  Account(p, key)'
  <2>1. Get(p, key)' = Get(p, key) /\ computed'[p][key] = computed[p][key]
    BY <1>4, <1>6, <1>8
  <2>2. computed[p][key] \in Nat /\ Account(p, key)
    BY <1>5
  <2> QED BY <1>2, <1>4, <1>5, <2>1, <2>2, AccountKept
<1>9. ASSUME k \in Keys PROVE Account(q, k)'
  <2> DEFINE room == Room(q, k)
             n == computed[q][k]
             left == Left(q, k)
  <2>1. Get(q, k)' = own /\ computed'[q][k] = n + 1 /\ n \in Nat
    BY <1>3, <1>4, <1>5, <1>6, <1>9
  <2>2. t \in Due(q, k, s) /\ s \in {1, 2}
    <3>1. t \in Threads(q) /\ c.at \in Busy /\ c.side \in {1, 2} /\ c.vecs[c.side] = Null
      BY <1>4 DEF Threads, Busy, Known, Running, Call
    <3> QED BY <1>1, <1>4, <3>1 DEF Due, Pending, KeyAt, KeyOn
  <2>3. Left(q, k)' \in Nat /\ Left(q, k)' + 1 <= left
    <3> DEFINE other == 3 - s
               size(side) == Cardinality(Due(q, k, side))
               later(side) == Cardinality(Due(q, k, side)')
    <3>1. /\ IsFiniteSet(Due(q, k, 1)) /\ IsFiniteSet(Due(q, k, 2))
          /\ size(1) \in Nat /\ size(2) \in Nat
      BY DueFinite
    <3>2. ASSUME NEW side \in {1, 2}
          PROVE  later(side) \in Nat /\ later(side) <= size(side)
      <4>1. Due(q, k, side)' \in SUBSET Due(q, k, side) /\ IsFiniteSet(Due(q, k, side))
        BY <1>3, <1>4, <1>9, <3>1
      <4> QED BY <4>1, FS_Subset, FS_CardinalityType
    <3>3. later(s) <= size(s) - 1
      <4>1. IsFiniteSet(Due(q, k, s)) /\ size(s) \in Nat
        BY <2>2, <3>1
      <4>2. /\ IsFiniteSet(Due(q, k, s) \ {t})
            /\ Cardinality(Due(q, k, s) \ {t}) = size(s) - 1
        BY <2>2, <4>1, FS_RemoveElement
      <4>3. Due(q, k, s)' \in SUBSET (Due(q, k, s) \ {t})
        BY <1>4
      <4>4. later(s) <= Cardinality(Due(q, k, s) \ {t})
        BY <4>2, <4>3, FS_Subset
      <4> QED BY <4>2, <4>4
    <3>4. Left(q, k)' = later(1) + later(2) /\ left = size(1) + size(2)
      BY DEF Left
    <3> HIDE DEF later, size
    <3> QED BY <2>2, <3>1, <3>2, <3>3, <3>4
  <2>4. room \in Nat /\ left \in Nat /\ left <= room
    BY <1>3, <1>5, RoomNat, LeftNat, LeftFits
  <2>5. room * nulls \in Nat /\ room * (1 + nulls) = room * nulls + room
    BY <1>5, <2>4, Product
  <2>6. /\ Get(q, k) = Null => n <= room * nulls
        /\ Get(q, k) # Null => n + left <= room * (1 + nulls)
    BY <1>3, <1>5, <1>9 DEF Account
  <2>7. Room(q, k)' = room
    BY <1>4 DEF Room, Sides, Threads
  <2> HIDE DEF room, n, left
  <2>8. n + 1 + Left(q, k)' <= room * (1 + nulls)
    <3> DEFINE spent == room * nulls
               bound == room * (1 + nulls)
    <3>1. spent \in Nat /\ bound = spent + room
      BY <2>5
    <3>2. \/ n <= spent
          \/ n + left <= bound
      BY <2>6
    <3> HIDE DEF spent, bound
    <3>3. n + 1 + Left(q, k)' <= bound
      BY <2>1, <2>3, <2>4, <3>1, <3>2
    <3> QED BY <3>3 DEF bound
  <2> QED BY <1>2, <1>3, <2>1, <2>7, <2>8 DEF Account
<1>10. \A p \in Process, key \in Keys : Account(p, key)'
  BY <1>3, <1>8, <1>9
<1> QED BY <1>2, <1>4, <1>5, <1>7, <1>10 DEF Counted

\* A null takes the vector's place: everything may be computed once more.
LEMMA ComputeNullCounted ==
  ASSUME IInv, Counted, NEW t \in Thread, ComputeNull(t)
  PROVE  Counted'
<1> DEFINE c == call[t]
           q == ProcessOf[t]
<1>1. PICK k, s : k = KeyOn(c) /\ s = c.side
  OBVIOUS
<1>2. Set(t, Null) /\ nulls' = nulls + 1 /\ UNCHANGED computed
  BY DEF ComputeNull
<1>3. /\ UNCHANGED semantic /\ Asked'
      /\ \A p \in Process, key \in Keys :
           Get(p, key)' = IF p = q /\ key = k THEN Null ELSE Get(p, key)
      /\ \A p \in Process, key \in Keys, side \in {1, 2} :
           Due(p, key, side)' \subseteq Due(p, key, side)
  BY <1>1, <1>2, SetEffect
<1>4. /\ nulls \in Nat /\ computed \in [Process -> [Keys -> Nat]] /\ Asked
      /\ \A p \in Process, key \in Keys : Account(p, key)
  BY DEF Counted
<1>5. ASSUME NEW p \in Process, NEW key \in Keys
      PROVE  Account(p, key)'
  <2> DEFINE room == Room(p, key)
             n == computed[p][key]
             left == Left(p, key)
             spent == room * nulls
  <2>1. n \in Nat /\ room \in Nat /\ left \in Nat
    BY <1>4, RoomNat, LeftNat
  <2>2. /\ spent \in Nat /\ room * (1 + nulls) = spent + room
    BY <1>4, <2>1, Product
  <2>3. room * (nulls + 1) = spent + room /\ room * (1 + (nulls + 1)) = spent + room + room
    <3>1. nulls + 1 \in Nat /\ 1 + nulls = nulls + 1
      BY <1>4
    <3>2. room * (1 + (nulls + 1)) = room * (nulls + 1) + room
      BY <2>1, <3>1, Product
    <3> QED BY <2>2, <3>1, <3>2
  <2>4. /\ Get(p, key) = Null => n <= spent
        /\ Get(p, key) # Null => n + left <= spent + room
    BY <1>4, <2>2 DEF Account
  <2>5. Room(p, key)' = room /\ nulls' = nulls + 1 /\ computed'[p][key] = n
    BY <1>2, <1>3 DEF Room, Sides, Threads
  <2>6. Left(p, key)' \in Nat /\ Left(p, key)' <= left
    BY <1>3, LeftShrinks
  <2>7. left <= room
    BY <1>4, LeftFits
  <2> HIDE DEF room, n, left, spent
  <2>8. n <= spent + room /\ n + Left(p, key)' <= spent + room + room
    BY <2>1, <2>2, <2>4, <2>6, <2>7
  <2>9. /\ computed'[p][key] <= Room(p, key)' * nulls'
        /\ computed'[p][key] + Left(p, key)' <= Room(p, key)' * (1 + nulls')
    BY <2>3, <2>5, <2>8
  <2> QED BY <2>9 DEF Account
<1>6. nulls' \in Nat
  BY <1>2, <1>4
<1> QED BY <1>2, <1>3, <1>4, <1>5, <1>6 DEF Counted

\* A process that starts again has computed nothing, and nothing is due in it.
LEMMA RestartCounted ==
  ASSUME IInv, Counted, NEW p \in Process, Restart(p)
  PROVE  Counted'
<1>1. /\ memory' = [memory EXCEPT ![p] = Loaded(file')]
      /\ computed' = [computed EXCEPT ![p] = [k \in Keys |-> 0]]
      /\ call' = [t \in Thread |-> IF ProcessOf[t] = p THEN Idle ELSE call[t]]
      /\ UNCHANGED <<semantic, nulls>>
  BY DEF Restart
<1>2. /\ nulls \in Nat /\ computed \in [Process -> [Keys -> Nat]] /\ Asked
      /\ \A q \in Process, key \in Keys : Account(q, key)
  BY DEF Counted
<1>3. Idle.at \notin Busy
  BY DEF Idle, Busy
<1>4. \A t \in Thread : call'[t] = IF ProcessOf[t] = p THEN Idle ELSE call[t]
  BY <1>1
<1>5. Asked'
  BY <1>1, <1>2, <1>3, <1>4 DEF Asked
<1>6. computed' \in [Process -> [Keys -> Nat]]
  BY <1>1, <1>2
<1>7. ASSUME NEW key \in Keys PROVE Account(p, key)'
  <2>1. \A side : Due(p, key, side)' = {}
    BY <1>3, <1>4 DEF Due, Pending, Threads
  <2>2. Left(p, key)' = 0
    <3>1. Left(p, key)' = Cardinality(Due(p, key, 1)') + Cardinality(Due(p, key, 2)')
      BY DEF Left
    <3>2. Cardinality({}) = 0
      BY FS_EmptySet
    <3> QED BY <2>1, <3>1, <3>2
  <2>3. computed'[p][key] = 0
    BY <1>1, <1>2
  <2>4. Room(p, key)' \in Nat /\ nulls' \in Nat
    <3>1. Room(p, key)' = Room(p, key)
      BY <1>1 DEF Room, Sides, Threads
    <3> QED BY <1>1, <1>2, <3>1, RoomNat
  <2>5. Room(p, key)' * nulls' \in Nat /\ Room(p, key)' * (1 + nulls') \in Nat
    <3>1. 1 + nulls' \in Nat
      BY <1>1, <1>2
    <3> QED BY <2>4, <3>1, Product
  <2> QED BY <2>2, <2>3, <2>5 DEF Account
<1>8. ASSUME NEW q \in Process, q # p, NEW key \in Keys PROVE Account(q, key)'
  <2>1. computed'[q][key] = computed[q][key] /\ computed[q][key] \in Nat
    BY <1>1, <1>2, <1>8
  <2>2. memory'[q] = memory[q]
    BY <1>1, <1>8 DEF IInv
  <2>3. Get(q, key)' = Get(q, key)
    BY <2>2 DEF Get
  <2>4. \A side : Due(q, key, side)' = Due(q, key, side)
    BY <1>4, <1>8 DEF Due, Threads, Pending, KeyAt
  <2> QED BY <1>1, <1>2, <2>1, <2>3, <2>4, AccountKept
<1> QED BY <1>1, <1>2, <1>5, <1>6, <1>7, <1>8 DEF Counted

LEMMA InitCounted == Init => Counted
<1> SUFFICES ASSUME Init PROVE Counted
  OBVIOUS
<1>1. nulls = 0 /\ computed = [p \in Process |-> [k \in Keys |-> 0]]
  BY DEF Init
<1>2. \A t \in Thread : call[t].at \notin Busy
  BY DEF Init, Idle, Busy
<1>3. ASSUME NEW p \in Process, NEW key \in Keys PROVE Account(p, key)
  <2>1. \A side : Due(p, key, side) = {}
    BY <1>2 DEF Due, Pending, Threads
  <2>2. Left(p, key) = 0
    BY <2>1, FS_EmptySet DEF Left
  <2>3. Room(p, key) \in Nat /\ computed[p][key] = 0
    BY <1>1, RoomNat
  <2>4. Room(p, key) * nulls \in Nat /\ Room(p, key) * (1 + nulls) \in Nat
    BY <1>1, <2>3
  <2> QED BY <2>2, <2>3, <2>4 DEF Account
<1> QED BY <1>1, <1>2, <1>3 DEF Counted, Asked

LEMMA NextCounted == IInv /\ Counted /\ [Next]_vars => Counted'
<1> SUFFICES ASSUME IInv, Counted, [Next]_vars PROVE Counted'
  OBVIOUS
<1>1. ASSUME NEW t \in Thread, Hit(t) PROVE Counted'
  BY <1>1, BusyRuns, OnwardCounted DEF Hit, Busy
<1>2. ASSUME NEW t \in Thread, ModelFails(t) PROVE Counted'
  BY <1>2, BusyRuns, OnwardCounted DEF ModelFails, Busy
<1>3. ASSUME NEW t \in Thread, Dump(t) PROVE Counted'
  BY <1>3, BusyRuns, MovedCounted DEF Dump, Busy
<1>4. ASSUME NEW t \in Thread, Open(t) PROVE Counted'
  BY <1>4, BusyRuns, MovedCounted DEF Open, Busy
<1>5. ASSUME NEW t \in Thread, Write(t) PROVE Counted'
  BY <1>5, BusyRuns, OnwardCounted DEF Write, Busy
<1>6. ASSUME NEW t \in Thread, WriteFails(t) PROVE Counted'
  BY <1>6, BusyRuns, OnwardCounted DEF WriteFails, Busy
<1>7. CASE UNCHANGED vars
  <2>1. UNCHANGED <<semantic, memory, call, computed, nulls>>
    BY <1>7 DEF vars
  <2>2. ASSUME NEW p \in Process, NEW key \in Keys PROVE Account(p, key)'
    <3>1. Get(p, key)' = Get(p, key) /\ \A side : Due(p, key, side)' = Due(p, key, side)
      BY <2>1 DEF Get, Due, Threads, Pending, KeyAt
    <3>2. computed[p][key] \in Nat /\ nulls \in Nat /\ Account(p, key)
      BY DEF Counted
    <3> QED BY <2>1, <3>1, <3>2, AccountKept
  <2>3. Asked'
    BY <2>1 DEF Counted, Asked
  <2> QED BY <2>1, <2>2, <2>3 DEF Counted
<1> QED BY <1>1, <1>2, <1>3, <1>4, <1>5, <1>6, <1>7, BeginCounted, LookUpCounted,
           ComputeCounted, ComputeNullCounted, RestartCounted DEF Next

LEMMA CountedOnce == Counted => ComputedOnce
<1> SUFFICES ASSUME Counted, NEW p \in Process, NEW key \in Keys
             PROVE  computed[p][key] <= Cardinality(Threads(p)) * Sides(p, key) * (1 + nulls)
  BY DEF ComputedOnce
<1> DEFINE spent == Room(p, key) * nulls
<1>1. /\ nulls \in Nat /\ computed[p][key] \in Nat /\ Account(p, key)
      /\ Room(p, key) \in Nat /\ Left(p, key) \in Nat
  BY RoomNat, LeftNat DEF Counted
<1>2. spent \in Nat /\ Room(p, key) * (1 + nulls) = spent + Room(p, key)
  BY <1>1, Product
<1>3. \/ computed[p][key] <= spent
      \/ computed[p][key] + Left(p, key) <= spent + Room(p, key)
  BY <1>1, <1>2 DEF Account
<1> HIDE DEF spent
<1>4. computed[p][key] <= Room(p, key) * (1 + nulls)
  BY <1>1, <1>2, <1>3
<1> QED BY <1>4 DEF Room

\* A process has a vector computed once for each side of each of its threads at
\* most, however often writing the file fails and whatever others make of it,
\* and again only after a reply without an embedding (semantic.py:74-76, 133-143,
\* 179-189).
THEOREM OnceForEachThread == Spec => []ComputedOnce
  BY InitInv, NextInv, InitCounted, NextCounted, CountedOnce, PTL DEF Spec
=============================================================================
