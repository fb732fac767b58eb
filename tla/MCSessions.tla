----------------------------- MODULE MCSessions -----------------------------
(* Instances of Sessions for TLC.                                          *)
EXTENDS Sessions, TLC

CONSTANTS c1, alice, bob, read, r1

(* Two tenants, a token without the scope, and one that does not verify.   *)
MCTokens ==
  {[good |-> TRUE, scopes |-> {read}, client |-> alice],
   [good |-> TRUE, scopes |-> {read}, client |-> bob],
   [good |-> TRUE, scopes |-> {}, client |-> alice],
   [good |-> FALSE, scopes |-> {read}, client |-> bob]}

Setting(transport, auth, loopback) ==
  [transport |-> transport, auth |-> auth, loopback |-> loopback, key |-> TRUE, issuer |-> TRUE,
   memory |-> TRUE, writes |-> TRUE, upkeep |-> TRUE, tier |-> {}]

MCConfigs ==
  {Setting("stdio", "none", TRUE), Setting("http", "none", TRUE), Setting("http", "none", FALSE),
   Setting("http", "bearer", FALSE), Setting("http", "oauth", FALSE),
   [Setting("http", "bearer", FALSE) EXCEPT !.key = FALSE],
   [Setting("http", "oauth", TRUE) EXCEPT !.issuer = FALSE],
   [Setting("http", "oauth", TRUE) EXCEPT !.writes = FALSE],
   [Setting("http", "oauth", FALSE) EXCEPT !.tier = {r1}],
   [Setting("stdio", "bearer", TRUE) EXCEPT !.memory = FALSE]}
=============================================================================
