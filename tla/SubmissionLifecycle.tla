------------------------ MODULE SubmissionLifecycle ------------------------
(***************************************************************************)
(* What the submissions table promises its readers (the submission pages,  *)
(* the leaderboard, the progress reports): a row appears once, as PENDING; *)
(* a verdict is only ever written over JUDGING or over an earlier verdict; *)
(* a judged row may be judged again, but is never PENDING again; and a row *)
(* that was removed, or whose request was rejected, never appears.         *)
(***************************************************************************)
CONSTANTS Subs, Verdicts

VARIABLE life

Init == life = [s \in Subs |-> "ABSENT"]

Become(s, from, to) ==
  /\ life[s] \in from
  /\ life' = [life EXCEPT ![s] = to]

Save(s) == Become(s, {"ABSENT"}, "PENDING")
Reject(s) == Become(s, {"ABSENT"}, "REJECTED")
Start(s) == Become(s, {"PENDING"} \cup Verdicts, "JUDGING")
Conclude(s) == \E v \in Verdicts : Become(s, {"JUDGING"} \cup Verdicts, v)

(* A problem is deleted, and with it all its submissions.                  *)
Remove(gone) ==
  /\ \A s \in gone : life[s] \in {"PENDING", "JUDGING"} \cup Verdicts
  /\ life' = [s \in Subs |-> IF s \in gone THEN "REMOVED" ELSE life[s]]

Next ==
  \/ \E s \in Subs : Save(s) \/ Reject(s) \/ Start(s) \/ Conclude(s)
  \/ \E gone \in SUBSET Subs : Remove(gone)

Spec == Init /\ [][Next]_life
=============================================================================
