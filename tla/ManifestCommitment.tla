------------------------- MODULE ManifestCommitment -------------------------
(***************************************************************************)
(* Manifests on their way: announcers build them and ship reveals of them,  *)
(* and a receiver verifies what arrives.  A bundle arrives as it was sent,   *)
(* together with another one, or changed on the way; it may be verified      *)
(* under the did of the wrong announcer.                                    *)
(***************************************************************************)
EXTENDS Manifest

CONSTANTS
  Did,        \* the announcers
  Content,    \* for each announcer, the fields it may build a manifest from
  BandPath,   \* where the cost band is
  CostPath,   \* where the committed cost is
  None,       \* nothing was received yet
  MaxIssues,  \* bound: manifests built
  MaxShipped  \* bound: bundles shipped

ASSUME BoundAssumption == MaxIssues \in Nat /\ MaxShipped \in Nat

\* build() itself adds the owner's did, which is always revealed; a cost that is
\* committed to is a number.
ASSUME ContentAssumption ==
  /\ TierOf[DidPath] = Baseline
  /\ \A d \in Did : \A content \in Content[d] :
       /\ DOMAIN content \subseteq ToSet(PathOrder)
       /\ DidPath \in DOMAIN content /\ content[DidPath] = d
       /\ CostPath \in DOMAIN content => content[CostPath] \in DOMAIN Price

\* REFERENCE_BAND_BOUNDS: the bands begin at 0, each ends where the next one
\* begins, and the last one ends beyond every price.
ASSUME BandAssumption ==
  /\ \A cost \in DOMAIN Price : Price[cost] \in Nat
  /\ \A band \in DOMAIN Bounds : Bounds[band].lo \in Nat /\ Bounds[band].hi \in Nat
  /\ \E band \in DOMAIN Bounds : Bounds[band].lo = 0
  /\ \A a, b \in DOMAIN Bounds : a = b \/ Bounds[a].hi <= Bounds[b].lo
                                      \/ Bounds[b].hi <= Bounds[a].lo
  /\ \A a \in DOMAIN Bounds :
       /\ Bounds[a].lo < Bounds[a].hi
       /\ \/ \A cost \in DOMAIN Price : Price[cost] < Bounds[a].hi
          \/ \E b \in DOMAIN Bounds : Bounds[b].lo = Bounds[a].hi

VARIABLES
  issued,  \* the manifests built so far, in order
  wire,    \* the bundles shipped
  view     \* what was received last, and what verify_manifest() said of it

vars == <<issued, wire, view>>

Init == issued = <<>> /\ wire = {} /\ view = None

\* Mutant of Build: the salts are those of the first manifest.
BuildResalted(owner, content) ==
  /\ Len(issued) < MaxIssues
  /\ issued' = Append(issued, Manifest(1, owner, content))
  /\ UNCHANGED <<wire, view>>

Build(owner, content) ==
  /\ Len(issued) < MaxIssues
  /\ issued' = Append(issued, Manifest(Len(issued) + 1, owner, content))
  /\ UNCHANGED <<wire, view>>

Ship(m, tier) ==
  /\ Cardinality(wire) < MaxShipped
  /\ wire' = wire \cup {Reveal(m, tier)}
  /\ UNCHANGED <<issued, view>>

\* What b says together with what c says, under b's root.
Joined(b, c) ==
  LET either(f, g) == [p \in DOMAIN f \cup DOMAIN g |->
                         IF p \in DOMAIN f THEN f[p] ELSE g[p]]
  IN  [b EXCEPT !.revealed = either(b.revealed, c.revealed),
                !.proofs = either(b.proofs, c.proofs)]

Values(path) ==
  {content[path] :
     content \in {f \in UNION {Content[d] : d \in Did} : path \in DOMAIN f}}
Without(f, path) == [p \in DOMAIN f \ {path} |-> f[p]]

\* A value changes, another value with its proof is taken for it, or the field is
\* lost without or with its proof.
ChangedAt(b, path) ==
  {[b EXCEPT !.revealed[path] = v] : v \in Values(path)}
    \cup {[b EXCEPT !.revealed[path] = b.revealed[p], !.proofs[path] = b.proofs[p]] :
            p \in DOMAIN b.revealed}
    \cup {[b EXCEPT !.revealed = Without(b.revealed, path)],
          [b EXCEPT !.proofs = Without(b.proofs, path)]}

Changed(b) == UNION {ChangedAt(b, path) : path \in DOMAIN b.revealed}

\* Two bundles are taken together, or one comes with the other's root.
Mixed(b, c) ==
  {Joined(b, c), [b EXCEPT !.root = c.root],
   [b EXCEPT !.root = c.root, !.signature = c.signature]}

\* verify_manifest() learns nothing of a bundle but what is in it.
Receive(b, did) ==
  view' = [did |-> did, fields |-> b.revealed, intact |-> FALSE,
           verified |-> Verifies(b, did)]

\* As it was sent, or with another reveal of the same manifest.
ReceiveIntact(b, c, did) ==
  /\ b.root = c.root
  /\ LET joined == Joined(b, c)
     IN  view' = [did |-> did, fields |-> joined.revealed, intact |-> TRUE,
                  verified |-> Verifies(joined, did)]

Next ==
  \/ \E owner \in Did : \E content \in Content[owner] : Build(owner, content)
  \/ \E i \in DOMAIN issued, j \in DOMAIN TierOrder : Ship(issued[i], TierOrder[j])
  \/ /\ UNCHANGED <<issued, wire>>
     /\ \E b, c \in wire, did \in Did :
          \/ ReceiveIntact(b, c, did)
          \/ \E copy \in Changed(b) \cup Mixed(b, c) : Receive(copy, did)

Spec == Init /\ [][Next]_vars

----------------------------------------------------------------------------
Fields(f) == {<<p, f[p]>> : p \in DOMAIN f}

\* Type invariant: every manifest has salts of its own, and what was shipped is
\* under the root of one that was built.
TypeOK ==
  /\ \A i \in DOMAIN issued :
       issued[i].issue = i /\ issued[i].owner \in Did /\ issued[i].fields \in Content[issued[i].owner]
  /\ \A b \in wire : \E i \in DOMAIN issued :
       b.root = Root(issued[i]) /\ b.signature.key = issued[i].owner
  /\ view # None => view.did \in Did /\ view.verified \in BOOLEAN

\* One signed manifest serves every tier: each reveal, and reveals of one
\* manifest put together, verify under its owner's did, whatever the number of
\* leaves (spec 4; test_round_trip_all_tiers_same_root).
RevealsVerify ==
  view # None /\ view.intact /\ view.fields[DidPath] = view.did => view.verified

\* Whatever verifies under a did, all of it was committed to by that did in one
\* and the same manifest, even if it is not the bundle that was sent
\* (manifest.py:223-248; test_tampered_field_fails_verification).
AcceptedIsCommitted ==
  view # None /\ view.verified =>
    \E i \in DOMAIN issued :
      /\ issued[i].owner = view.did
      /\ Fields(view.fields) \subseteq Fields(issued[i].fields)

\* The band a price belongs to is the highest that begins at or below it.
HonestBand(cost) ==
  CHOOSE band \in DOMAIN Bounds :
    /\ Bounds[band].lo <= Price[cost]
    /\ \A other \in DOMAIN Bounds :
         Bounds[other].lo <= Price[cost] => Bounds[other].lo <= Bounds[band].lo

\* A receiver that verified band and price of a manifest finds a mismatch
\* exactly if an announcer committed to a band the price does not belong to: no
\* boundary belongs to two bands or to none, and no honest announcer is blamed
\* for fields of two manifests (manifest.py:340-358; spec 5).
BlameIsExact ==
  view # None /\ view.verified /\ {BandPath, CostPath} \subseteq DOMAIN view.fields =>
    (BandMismatch(view.fields[BandPath], view.fields[CostPath]) <=>
       \E i \in DOMAIN issued :
         /\ issued[i].owner = view.did
         /\ Fields(view.fields) \subseteq Fields(issued[i].fields)
         /\ issued[i].fields[BandPath] # HonestBand(issued[i].fields[CostPath]))
=============================================================================
