------------------------------ MODULE Matching ------------------------------
(***************************************************************************)
(* The vocabulary and the matcher (flp/matching.py), with the similarity    *)
(* of the semantic layer (flp/semantic.py) as far as it is arithmetic.      *)
(*                                                                         *)
(* A name is what a card or a vocabulary file says; Raw is what             *)
(* Capability.parse() makes of it, trimmed and in lower case, or Malformed. *)
(* Confidences count Unit-ths, and 0 stands for None: a layer that fires    *)
(* gives more than 0.  A list of needs or of surpluses is the set of its    *)
(* names: a name that is there twice only repeats its item.                 *)
(***************************************************************************)
EXTENDS Appraisal, Sequences, FiniteSets, FiniteSetsExt, SequencesExt

CONSTANTS
  Raw,         \* the normal form of every name, or Malformed
  Malformed,
  ExactConf, VocabConf, SemanticMax,  \* the fields of a Matcher
  Threshold,   \* below it two embeddings have nothing in common
  Similarity,  \* cosine of the embeddings of two normal forms
  MarketTerm, PluggedConf  \* what an agent's own matcher takes for alike, how surely

Name == DOMAIN Raw

ASSUME NameAssumption ==
  /\ Malformed \notin Capability /\ Capability \subseteq Name
  /\ \A s \in Name : Raw[s] \in Capability \cup {Malformed}
  /\ \A cap \in Capability : Raw[cap] = cap

ASSUME LayerAssumption ==
  /\ {SemanticMax, VocabConf, ExactConf, Threshold} \subseteq Nat
  /\ 0 < SemanticMax /\ SemanticMax < VocabConf /\ VocabConf < ExactConf
  /\ ExactConf <= Unit /\ Threshold < Unit /\ PluggedConf \in Nat
  /\ \A c, d \in Capability : Similarity[<<c, d>>] \in Int /\ Similarity[<<c, d>>] <= Unit

----------------------------------------------------------------------------
(* A vocabulary file is the sequence of its entries, each a canonical name  *)
(* and the set of its aliases; Vocabulary._to_canonical is a function.      *)
Listed(entry) == {entry.name} \cup entry.aliases

\* Vocabulary.__init__() raises on a file with a malformed name.
Loads(file) == \A i \in DOMAIN file : \A s \in Listed(file[i]) : Raw[s] # Malformed

\* Mutant of ReadEntry: the aliases are kept as they were written.
ReadEntryAsWritten(map, entry) ==
  [u \in DOMAIN map \cup Listed(entry) |->
     IF u \in Listed(entry) THEN Raw[entry.name] ELSE map[u]]

\* One turn of the loop in Vocabulary.__init__(): it overwrites.
ReadEntry(map, entry) ==
  LET forms == {Raw[s] : s \in Listed(entry)}
  IN  [u \in DOMAIN map \cup forms |-> IF u \in forms THEN Raw[entry.name] ELSE map[u]]

Vocabulary(file) == FoldLeft(ReadEntry, [u \in {} |-> u], file)

(* Looked up once: what an alias stands for may be an alias itself.         *)
Canonical(map, u) == IF u \in DOMAIN map THEN map[u] ELSE u

(* Vocabulary.to_dict(), its entries in no particular order.                *)
ToDict(map) ==
  {[name |-> c, aliases |-> {u \in DOMAIN map : map[u] = c /\ u # c}] :
     c \in {map[u] : u \in DOMAIN map}}

----------------------------------------------------------------------------
(* _sim_to_confidence(): [Threshold, 1.0] is spread over [0, SemanticMax].  *)
SimToConfidence(sim) ==
  IF sim < Threshold THEN 0 ELSE Rounded((sim - Threshold) * SemanticMax, Unit - Threshold)

(* naive_semantic(): a matcher of the agent's own, equally sure of any two   *)
(* of its terms and of nothing else.                                        *)
Plugged(n, s) == IF {n, s} \subseteq MarketTerm THEN PluggedConf ELSE 0

(* What Matcher.semantic says of two normal forms.                          *)
Advice(semantic, n, s) ==
  CASE semantic = "off" -> 0
    [] semantic = "embeddings" -> SimToConfidence(Similarity[<<n, s>>])
    [] semantic = "own" -> Plugged(n, s)

\* Mutant of Layers: the third layer is not capped.
LayersUncapped(m, n, s) ==
  IF n = s THEN ExactConf
  ELSE IF Canonical(m.map, n) = Canonical(m.map, s) THEN VocabConf
  ELSE Advice(m.semantic, n, s)

(* Exact, then the vocabulary, then advice, which is capped.                *)
Layers(m, n, s) ==
  IF n = s THEN ExactConf
  ELSE IF Canonical(m.map, n) = Canonical(m.map, s) THEN VocabConf
  ELSE Min({Advice(m.semantic, n, s), SemanticMax})

(* Matcher.confidence(): a malformed name matches nothing.  A matcher has a *)
(* map (the empty one does as much as none) and a semantic layer.           *)
MatchConfidence(m, need, surplus) ==
  IF Malformed \in {Raw[need], Raw[surplus]} THEN 0 ELSE Layers(m, Raw[need], Raw[surplus])

\* Mutant of Best: a worse surplus replaces a better one.
BestIsWorst(m, need, surplus) ==
  LET found == {MatchConfidence(m, need, s) : s \in surplus} \ {0}
  IN  IF found = {} THEN 0 ELSE Min(found)

Best(m, need, surplus) == Max({MatchConfidence(m, need, s) : s \in surplus} \cup {0})

\* Mutant of Match: a need that nothing meets gets an item all the same.
MatchUnmet(m, needs, surplus, magnitude) ==
  [cap \in Capability \cap {Raw[n] : n \in needs} |->
     [mag |-> magnitude[cap], conf |-> Best(m, cap, surplus)]]

(* Matcher.match(): an item for each need that some surplus meets, under    *)
(* the normal form of the need.                                             *)
Match(m, needs, surplus, magnitude) ==
  [cap \in {Raw[n] : n \in {k \in needs : Best(m, k, surplus) > 0}} |->
     [mag |-> magnitude[cap], conf |-> Best(m, cap, surplus)]]
=============================================================================
