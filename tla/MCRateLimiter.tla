---------------------------- MODULE MCRateLimiter ----------------------------
(* Instances of RateLimiter: a rule as short as the bounds on time allow,  *)
(* and a second one that shares no bucket with it.                         *)
EXTENDS RateLimiter

TwoRules ==
  [submissions |-> [capacity |-> 2, period |-> 2], login |-> [capacity |-> 1, period |-> 1]]
OneRule == [submissions |-> [capacity |-> 2, period |-> 2]]
OtherRoutes == {"problems"}
=============================================================================
