----------------------------- MODULE MCMetrics -----------------------------
(* Instances of Metrics: a path with a template of its own, one that is     *)
(* rate-limited, one that is unknown, and the scrape; a duration on the     *)
(* lowest bucket and one above all.                                         *)
EXTENDS Metrics, TLC

MCTemplate ==
  [path \in {"/contests/1", "/auth/login", "/metrics"} |->
     IF path = "/contests/1" THEN "/contests/{contest_id}" ELSE path]
MCBuckets == <<5, 10>>
MCSymmetry == Permutations(Requests) \cup Permutations(Processes)
=============================================================================
