----------------------------- MODULE EmbedCache -----------------------------
(***************************************************************************)
(* The embedding cache of the semantic layer (_EmbedCache and the two       *)
(* semantic functions of flp/semantic.py): every process has the cache in   *)
(* memory, read once when it starts, and its threads rewrite the one file   *)
(* of the user, in place and without a lock, after each new vector.         *)
(*                                                                         *)
(* Own(model, text) is the embedding the model gives of a text; the cosine  *)
(* of two vectors and the confidence made of it are in Matching.            *)
(***************************************************************************)
EXTENDS Integers, FiniteSets, FiniteSetsExt

CONSTANTS
  Process, Thread,
  ProcessOf,    \* the process of each thread
  Capability,
  Text,         \* _cap_to_text(): two capabilities may read the same
  Query,        \* bound: the pairs the matcher of each process asks about
  MaxTroubles   \* bound: the restarts of all processes, and the replies of Ollama
                \* that carry no embedding

ASSUME CacheAssumption ==
  /\ ProcessOf \in [Thread -> Process] /\ Capability \subseteq DOMAIN Text
  /\ Query \in [Process -> SUBSET (Capability \X Capability)]
  /\ MaxTroubles \in Nat /\ IsFiniteSet(Thread)

VARIABLES
  semantic,  \* the semantic function each process has in its Matcher
  memory,    \* _data of each process
  file,      \* the text of CACHE_FILE: an object, Empty or Mess
  call,      \* what each thread is doing
  dump,      \* what each thread is about to write
  computed,  \* history: the vectors each process had computed since it started
  nulls,     \* history: the replies without an embedding
  restarts

vars == <<semantic, memory, file, call, dump, computed, nulls, restarts>>

Model == {"sentence_transformers", "ollama"}
Own(model, text) == <<model, text>>
Null == <<>>  \* None, and the JSON null

NoEntries == [k \in {} |-> Null]
Empty == [is |-> "empty"]  \* a file that was truncated, or never written
Mess == [is |-> "mess"]    \* one that json.loads() refuses
Object(entries) == [is |-> "object", entries |-> entries]

\* Mutant of Key: the name of the model is left out of what is hashed.
KeyOfText(model, text) == text

Key(model, text) == <<model, text>>
Keys == {Key(model, Text[c]) : model \in Model, c \in Capability}

Get(p, key) == IF key \in DOMAIN memory[p] THEN memory[p][key] ELSE Null

(* What __init__() makes of a file: nothing, if it cannot be parsed.        *)
Loaded(f) == IF f \in {Empty, Mess} THEN NoEntries ELSE f.entries

Idle == [at |-> "idle"]

Init ==
  /\ semantic \in [Process -> Model]
  /\ memory = [p \in Process |-> NoEntries]
  /\ file = Empty
  /\ call = [t \in Thread |-> Idle]
  /\ dump = [t \in Thread |-> NoEntries]
  /\ computed = [p \in Process |-> [k \in Keys |-> 0]]
  /\ nulls = 0
  /\ restarts = 0

----------------------------------------------------------------------------
KeyOn(c) == Key(c.model, Text[c.pair[c.side]])

(* sentence_transformer_semantic() looks up both vectors before anything    *)
(* else, ollama_semantic() each one when it comes to it.                    *)
Turn(c) == IF c.model = "ollama" THEN "lookup" ELSE "vector"

Begin(t, pair) ==
  LET p == ProcessOf[t]
      model == semantic[p]
      seen(side) == IF model = "ollama" THEN Null ELSE Get(p, Key(model, Text[pair[side]]))
      c == [at |-> "idle", model |-> model, pair |-> pair, side |-> 1,
            vecs |-> <<seen(1), seen(2)>>]
  IN  /\ call[t].at \in {"idle", "returned"}
      /\ call' = [call EXCEPT ![t] = [c EXCEPT !.at = Turn(c)]]
      /\ UNCHANGED <<semantic, memory, file, dump, computed, nulls, restarts>>

LookUp(t) ==
  /\ call[t].at = "lookup"
  /\ call' = [call EXCEPT ![t].at = "vector",
                          ![t].vecs[call[t].side] = Get(ProcessOf[t], KeyOn(call[t]))]
  /\ UNCHANGED <<semantic, memory, file, dump, computed, nulls, restarts>>

(* On to the other side, or the end: a call that lacks a vector answers None. *)
Onward(c, vec) ==
  LET vecs == [c.vecs EXCEPT ![c.side] = vec]
  IN  IF c.side = 1 THEN [c EXCEPT !.side = 2, !.at = Turn(c), !.vecs = vecs]
      ELSE [at |-> "returned", model |-> c.model, pair |-> c.pair,
            vecs |-> IF Null \in {vecs[1], vecs[2]} THEN <<>> ELSE vecs]

(* The model or the file is not to be had: sentence_transformer_semantic()  *)
(* gives up, ollama_semantic() goes on to the other side.                   *)
GivenUp(c) ==
  IF c.model = "ollama" THEN Onward(c, Null)
  ELSE [at |-> "returned", model |-> c.model, pair |-> c.pair, vecs |-> <<>>]

(* The vector the call has of its present side.                             *)
Known(t) == call[t].vecs[call[t].side]

Hit(t) ==
  /\ call[t].at = "vector" /\ Known(t) # Null
  /\ call' = [call EXCEPT ![t] = Onward(call[t], Known(t))]
  /\ UNCHANGED <<semantic, memory, file, dump, computed, nulls, restarts>>

\* set() keeps a vector in memory at once; it is on its way to the file then.
Set(t, vec) ==
  /\ call[t].at = "vector" /\ Known(t) = Null
  /\ memory' = [memory EXCEPT ![ProcessOf[t]] =
       [k \in DOMAIN @ \cup {KeyOn(call[t])} |-> IF k = KeyOn(call[t]) THEN vec ELSE @[k]]]
  /\ call' = [call EXCEPT ![t].at = "dump", ![t].vecs[call[t].side] = vec]
  /\ UNCHANGED <<semantic, file, dump, restarts>>

Compute(t) ==
  /\ Set(t, Own(call[t].model, Text[call[t].pair[call[t].side]]))
  /\ computed' = [computed EXCEPT ![ProcessOf[t]][KeyOn(call[t])] = @ + 1]
  /\ UNCHANGED nulls

\* A reply of Ollama with neither field for embeddings is kept as null.
ComputeNull(t) ==
  /\ call[t].at = "vector" /\ call[t].model = "ollama" /\ restarts + nulls < MaxTroubles
  /\ Set(t, Null)
  /\ nulls' = nulls + 1
  /\ UNCHANGED computed

\* Sentence-transformers are loaded before anything else, once in a process.
ModelFails(t) ==
  /\ call[t].at = "vector"
  /\ \/ Known(t) = Null
     \/ /\ call[t].model = "sentence_transformers" /\ call[t].side = 1
        /\ \A c \in Capability :
             computed[ProcessOf[t]][Key("sentence_transformers", Text[c])] = 0
  /\ call' = [call EXCEPT ![t] = GivenUp(call[t])]
  /\ UNCHANGED <<semantic, memory, file, dump, computed, nulls, restarts>>

\* What is written is what is in memory by now, the entries of other threads
\* among it.
Dump(t) ==
  /\ call[t].at = "dump"
  /\ dump' = [dump EXCEPT ![t] = memory[ProcessOf[t]]]
  /\ call' = [call EXCEPT ![t].at = "open"]
  /\ UNCHANGED <<semantic, memory, file, computed, nulls, restarts>>

\* Opening a file to write it empties it.
Open(t) ==
  /\ call[t].at = "open"
  /\ file' = Empty
  /\ call' = [call EXCEPT ![t].at = "write"]
  /\ UNCHANGED <<semantic, memory, dump, computed, nulls, restarts>>

\* Written from the start over what others have written since: of a text that
\* was longer the tail remains.
Write(t) ==
  LET longer == file = Mess \/ ~DOMAIN Loaded(file) \subseteq DOMAIN dump[t]
  IN  /\ call[t].at = "write"
      /\ file' \in {Object(dump[t])} \cup {m \in {Mess} : longer}
      /\ call' = [call EXCEPT ![t] = Onward(call[t], call[t].vecs[call[t].side])]
      /\ dump' = [dump EXCEPT ![t] = NoEntries]
      /\ UNCHANGED <<semantic, memory, computed, nulls, restarts>>

\* Mutant of WriteFails: memory is only set once the file is written.
WriteFailsUnset(t) ==
  /\ call[t].at \in {"open", "write"}
  /\ call' = [call EXCEPT ![t] = GivenUp(call[t])]
  /\ dump' = [dump EXCEPT ![t] = NoEntries]
  /\ memory' = [memory EXCEPT ![ProcessOf[t]] = [k \in DOMAIN @ \ {KeyOn(call[t])} |-> @[k]]]
  /\ UNCHANGED <<semantic, file, computed, nulls, restarts>>

\* open() or write() raises, the latter in the middle perhaps; the vector stays
\* in memory.
WriteFails(t) ==
  /\ \/ call[t].at = "open" /\ UNCHANGED file
     \/ call[t].at = "write" /\ file' \in {file, Mess}
  /\ call' = [call EXCEPT ![t] = GivenUp(call[t])]
  /\ dump' = [dump EXCEPT ![t] = NoEntries]
  /\ UNCHANGED <<semantic, memory, computed, nulls, restarts>>

\* A process ends, at whatever its threads are, and reads the file anew.
Restart(p) ==
  /\ restarts + nulls < MaxTroubles
  /\ restarts' = restarts + 1
  /\ file' \in {file} \cup {m \in {Mess} : \E t \in Thread : ProcessOf[t] = p /\ call[t].at = "write"}
  /\ memory' = [memory EXCEPT ![p] = Loaded(file')]
  /\ computed' = [computed EXCEPT ![p] = [k \in Keys |-> 0]]
  /\ call' = [t \in Thread |-> IF ProcessOf[t] = p THEN Idle ELSE call[t]]
  /\ dump' = [t \in Thread |-> IF ProcessOf[t] = p THEN NoEntries ELSE dump[t]]
  /\ UNCHANGED <<semantic, nulls>>

Next ==
  \/ \E t \in Thread :
       \/ \E pair \in Query[ProcessOf[t]] : Begin(t, pair)
       \/ LookUp(t) \/ Hit(t) \/ Compute(t) \/ ComputeNull(t) \/ ModelFails(t)
       \/ Dump(t) \/ Open(t) \/ Write(t) \/ WriteFails(t)
  \/ \E p \in Process : Restart(p)

Spec == Init /\ [][Next]_vars

----------------------------------------------------------------------------
\* The cache changes no answer: whatever was lost, garbled or written over, a
\* call answers None or with the very vectors its model gives of its two
\* capabilities (semantic.py:128-148, 173-200).
CacheIsTransparent ==
  \A t \in Thread : call[t].at = "returned" /\ call[t].vecs # <<>> =>
    \A side \in 1..2 : call[t].vecs[side] = Own(call[t].model, Text[call[t].pair[side]])

Threads(p) == {t \in Thread : ProcessOf[t] = p}
Sides(p, key) ==
  Max({0} \cup {Cardinality({side \in 1..2 : Key(semantic[p], Text[pair[side]]) = key}) : pair \in Query[p]})

\* A process has a vector computed once by each of its threads at most (or once
\* for each side of a pair that reads the same), however often writing the file
\* fails and whatever another process does to it; only a reply of Ollama without
\* an embedding has them begin again (semantic.py:74-76, 133-143, 179-189).
ComputedOnce ==
  \A p \in Process, key \in Keys :
    computed[p][key] <= Cardinality(Threads(p)) * Sides(p, key) * (1 + nulls)
=============================================================================
