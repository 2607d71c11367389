---------------------------- MODULE MCLeaderboard ----------------------------
(* Instances of Leaderboard: a contest of two minutes that is prolonged or *)
(* turned into an IOI contest, and submissions on both sides of a minute   *)
(* and of its end.                                                         *)
EXTENDS Leaderboard

Names == [alice |-> 1, bob |-> 2]
UserSet == {"alice", "bob"}
ProblemSet == {"A", "B"}
AssignedSets == {ProblemSet, {"A"}}
Points == [A |-> 100, B |-> 300]
Setting(start, end, mode) == [start |-> start, end |-> end, mode |-> mode, penalty |-> 1]
Settings == {Setting(10, 130, "ICPC"), Setting(10, 200, "IOI")}
MomentSet == {69, 70, 131}
=============================================================================
