------------------------ MODULE MCManifestCommitment ------------------------
(* Model checking ManifestCommitment: two announcers, and manifests of three, *)
(* five and six leaves, so that odd levels occur low and high in the tree.   *)
EXTENDS ManifestCommitment

\* In the order of sorted(): the owner's, one for each tier, and an id;
\* "partner" is a tier the announcer's order does not have.
MCPathOrder == <<"did", "cost", "partner", "band", "hint", "id">>
MCTierOf == [did |-> "base", id |-> "base", cost |-> "known",
             partner |-> "partner", band |-> "public", hint |-> "trusted"]
MCTierOrder == <<"public", "known", "trusted">>

\* Prices in hundredths; the last bound is beyond all of them.
MCBounds == [low |-> [lo |-> 0, hi |-> 1], mid |-> [lo |-> 1, hi |-> 100],
             high |-> [lo |-> 100, hi |-> 100000]]
MCPrice == [nil |-> 0, cent |-> 1]

\* ana prices on the boundary, honestly and not; bo's band does not exist.
MCContent ==
  [ana |-> {[did |-> "ana", id |-> "port", cost |-> "cent", partner |-> "yes",
             band |-> "mid", hint |-> "url"],
            [did |-> "ana", id |-> "port", cost |-> "cent", band |-> "low",
             hint |-> "lru"]},
   bo |-> {[did |-> "bo", cost |-> "nil", band |-> "free"]}]
=============================================================================
