----------------------------- MODULE MCGuardrails ----------------------------
(* One agent, two classes (one redacted, one blocked by default), a text of  *)
(* eight characters, "Jo 1-234", and the hits two tiers of detectors may     *)
(* report of it.                                                             *)
EXTENDS Guardrails, TLC

CONSTANTS e1, e2

MCKinds == <<"letter", "letter", "other", "digit", "other", "digit", "digit", "digit">>

MCDefaults ==
  [name |-> [level |-> "redact", scopes |-> {"output"}, style |-> "initial",
             floor |-> 5, consensus |-> "no"],
   card |-> [level |-> "block", scopes |-> {"output"}, style |-> "last",
             floor |-> 8, consensus |-> "no"]]

Hit(c, lo, hi, conf, rule, tier) ==
  [class |-> c, lo |-> lo, hi |-> hi, conf |-> conf, rules |-> {rule}, tier |-> tier]

MCFindings ==
  {<<>>,
   <<Hit("name", 0, 2, 6, "r1", "tier1")>>,
   <<Hit("name", 0, 2, 4, "r1", "tier1"), Hit("name", 1, 3, 7, "r2", "tier2")>>,
   <<Hit("name", 0, 1, 6, "r1", "tier1"), Hit("card", 1, 5, 9, "r2", "tier1")>>,
   <<Hit("card", 3, 8, 9, "r2", "tier1"), Hit("name", 0, 2, 7, "r1", "tier2"),
     Hit("name", 2, 3, 9, "r1", "tier1")>>,
   <<Hit("name", 0, 8, 8, "r1", "tier1"), Hit("card", 1, 2, 9, "r2", "tier1")>>}

MCBodies ==
  {[level |-> "redact", scopes |-> {"output"}, style |-> "strip", floor |-> 7, consensus |-> Inherit],
   [level |-> "allow", scopes |-> {}, style |-> "first", floor |-> NoFloor, consensus |-> "yes"]}

MCGrantBodies ==
  {[owner |-> "a", class |-> "card", scopes |-> {"output"}, level |-> "allow", lasting |-> FALSE],
   [owner |-> Everyone, class |-> "card", scopes |-> {"output"}, level |-> "redact", lasting |-> TRUE]}

MCPoints == {<<Global, "card">>, <<"a", "card">>}

Interchangeable == Permutations({e1, e2})
=============================================================================
