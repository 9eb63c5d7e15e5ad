------------------------ MODULE MCManifestDisclosure ------------------------
(* Model checking ManifestDisclosure: two sessions that both name ana, one   *)
(* of which signs with bo's key, and one of bo.                              *)
EXTENDS ManifestDisclosure

\* In the order of sorted(): the owner's, one for each tier, and an id;
\* "partner" is a tier the announcer's order does not have.
MCPathOrder == <<"did", "cost", "partner", "band", "hint", "id">>
MCTierOf == [did |-> "base", id |-> "base", cost |-> "known",
             partner |-> "partner", band |-> "public", hint |-> "trusted"]
MCTierOrder == <<"public", "known", "trusted">>

\* A manifest with something in every tier, and one with nothing to gate.
MCContent ==
  {[did |-> "zoe", id |-> "port", cost |-> "cent", partner |-> "yes",
    band |-> "mid", hint |-> "url"],
   [did |-> "zoe", band |-> "low"]}
MCNothing == [x \in {} |-> x]

MCClaim == [first |-> "ana", second |-> "ana", lone |-> "bo"]
MCKey == [first |-> "ana", second |-> "bo", lone |-> "bo"]
MCPolicies == [ana |-> {"known", "vip"}, bo |-> {"known"}]
MCTries == [first |-> 1, second |-> 1, lone |-> 2]
=============================================================================
