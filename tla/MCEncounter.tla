---------------------------- MODULE MCEncounter ----------------------------
(* Model checking Encounter: three capabilities, one of which costs less    *)
(* alone than the transport does, and two more spellings: `LOUD` is data in *)
(* other letters, `broken` is no capability at all.                         *)
EXTENDS Encounter

CONSTANTS data, intel, venue, LOUD, broken

MCRaw ==
  [s \in {data, intel, venue, LOUD, broken} |->
     CASE s = LOUD -> data [] s = broken -> Malformed [] OTHER -> s]

MCSolo == [cap \in Capability |-> IF cap = venue THEN 1 ELSE 8]
MCMyMagnitude == [cap \in Capability |-> IF cap = data THEN 2 ELSE 1]

MCSimilarity ==
  [p \in Capability \X Capability |->
     CASE p[1] = p[2] -> 10 [] venue \in {p[1], p[2]} -> 4 [] OTHER -> 9]

MCMagnitude == {0, 2, 4}
MCConfidence == {-1, 5, 11}
MCEvidence == {-1, 5, 12}

MCNeed == {LOUD, venue}
MCSurplus == {data, venue, broken}

MCCard ==
  [needs: {{}, {data, broken}, {LOUD, data, intel}}, surplus: SUBSET {data, intel, venue}]

Entry(name, aliases) == [name |-> name, aliases |-> aliases]

\* Clean ones, one that lists an alias twice, one that renames a canonical name.
MCFile ==
  {<<>>,
   <<Entry(intel, {LOUD})>>,
   <<Entry(LOUD, {intel, data}), Entry(venue, {})>>,
   <<Entry(data, {intel}), Entry(venue, {intel})>>,
   <<Entry(data, {intel}), Entry(venue, {data})>>}
=============================================================================
