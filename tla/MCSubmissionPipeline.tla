------------------------ MODULE MCSubmissionPipeline ------------------------
(***************************************************************************)
(* Instances of SubmissionPipeline for TLC.                                *)
(***************************************************************************)
EXTENDS SubmissionPipeline, TLC

CONSTANTS s1, s2, w1, w2, p1

OneSub == {s1}
TwoSubs == {s1, s2}

(* Both submissions are for one problem, so that one deletion removes both.*)
SameProblem == [s \in Subs |-> p1]

WorkerSymmetry == Permutations(Workers)
=============================================================================
