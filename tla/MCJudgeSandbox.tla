--------------------------- MODULE MCJudgeSandbox ---------------------------
(* Instances of JudgeSandbox.  The times are the boundaries of the limit,  *)
(* of the timeout and of the CPU limit of a one second problem.            *)
EXTENDS JudgeSandbox

JobNames == {"c1", "py", "jv", "none", "new"}
Languages == [c1 |-> "c", py |-> "python", jv |-> "java", none |-> "cpp", new |-> "kotlin"]
Counts == [c1 |-> 2, py |-> 1, jv |-> 1, none |-> 0, new |-> 1]

Times == {TimeLimit, TimeLimit + 1, TimeLimit + 500, 1000 * CpuLimitSec, TimeLimit - 1}

Line(t, b) == [text |-> t, trail |-> b]
A == Line("a", FALSE)
B == Line("b", FALSE)
AnswerLines == <<A, B>>
OutputLines ==
  { <<>>, <<A>>, <<A, B>>, <<B, A>>, <<Line("a", TRUE), B, Line("", TRUE)>>,
    <<A, B, BlankLine, BlankLine>>, <<BlankLine, A, B>> }
=============================================================================
