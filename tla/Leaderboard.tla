----------------------------- MODULE Leaderboard -----------------------------
(***************************************************************************)
(* The contest leaderboard.  It is not stored: every request computes it   *)
(* from the contest, its problems and the submissions, which other         *)
(* requests and the judge change meanwhile.  A request reads the contest   *)
(* and its problems first and the submissions by a later query, so what it *)
(* combines may never have been true at one moment.  Submissions are       *)
(* judged in any order, their created_at (the start of the transaction     *)
(* that inserts them) need not follow the order of the commits, and a      *)
(* judged one may be judged again.                                         *)
(***************************************************************************)
EXTENDS Integers, SequencesExt, FiniteSetsExt

CONSTANTS
  Users, Problems,
  NameOf,        \* usernames, as numbers that sort alike
  PointsOf,      \* ContestProblem.points
  Contests,      \* the settings an educator gives the contest: start_at,
                 \* end_at (seconds), mode, penalty (minutes)
  Moments,       \* created_at of submissions (seconds); no two have the same
  Assigned,      \* the sets of problems the contest may start with
  Verdicts,      \* statuses a judging ends with
  MaxSubs,       \* bound: submissions
  MaxEdits,      \* bound: changes of the contest
  NoView

ASSUME LeaderboardAssumption ==
  /\ \A ps \in Assigned : ps \subseteq Problems /\ IsFiniteSet(ps)
  /\ NameOf \in [Users -> Int] /\ \A u, v \in Users : NameOf[u] = NameOf[v] => u = v
  /\ PointsOf \in [Problems -> Int] /\ Moments \subseteq Nat
  /\ Contests \subseteq [start : Int, end : Int, mode : {"ICPC", "IOI"}, penalty : Int]
  /\ MaxSubs \in Nat /\ MaxEdits \in Nat
  /\ NoView \notin Contests \X SUBSET Problems

VARIABLES
  contest,   \* the contest row
  problems,  \* the problems assigned to it
  subs,      \* committed submissions with its contest_id
  view,      \* what a leaderboard request has read so far
  edits      \* changes so far

vars == <<contest, problems, subs, view, edits>>

-----------------------------------------------------------------------------
(* What ORDER BY and list.sort return of rows that op puts in a strict     *)
(* order.  (SortSeq of TLC has no definition a proof could use.)           *)
Sorted(S, op(_, _)) ==
  CHOOSE s \in [1..Cardinality(S) -> S] :
    \A i, j \in 1..Cardinality(S) : i < j => op(s[i], s[j])

(* LeaderboardService.compute of a contest c with problems ps, from the    *)
(* submissions ss.                                                         *)

Penalised == {"WRONG_ANSWER", "TIME_LIMIT", "MEMORY_LIMIT", "RUNTIME_ERROR"}

(* An entry of per_user_problem; first_ac_at is -1 while there is none.    *)
EmptyCell(u, p) == [user |-> u, problem |-> p, attempts |-> 0, firstAc |-> -1, best |-> 0]
IsSolved(cell) == cell.firstAc # -1

(* The second query.                                                       *)
InWindow(c, ps, ss) ==
  {s \in ss : s.problem \in ps /\ c.start <= s.at /\ s.at <= c.end}

(* Mutants of Scan: a wrong answer after the accepted one still counts;    *)
(* the last submission decides.                                            *)
ScanAll(cell, s) ==
  CASE s.status = "ACCEPTED" /\ ~ IsSolved(cell) ->
         [cell EXCEPT !.firstAc = s.at, !.best = PointsOf[s.problem]]
    [] s.status \in Penalised -> [cell EXCEPT !.attempts = @ + 1]
    [] OTHER -> cell
ScanLast(cell, s) ==
  CASE s.status = "ACCEPTED" -> [cell EXCEPT !.firstAc = s.at, !.best = PointsOf[s.problem]]
    [] s.status \in Penalised -> [cell EXCEPT !.attempts = @ + 1, !.firstAc = -1, !.best = 0]
    [] OTHER -> cell

Scan(cell, s) ==
  CASE IsSolved(cell) -> cell
    [] ~ IsSolved(cell) /\ s.status = "ACCEPTED" ->
         [cell EXCEPT !.firstAc = s.at, !.best = PointsOf[s.problem]]
    [] ~ IsSolved(cell) /\ s.status \in Penalised -> [cell EXCEPT !.attempts = @ + 1]
    [] OTHER -> cell

(* The loop over the submissions in the order of created_at.               *)
CellOf(c, ps, ss, u, p) ==
  LET own == {s \in InWindow(c, ps, ss) : s.user = u /\ s.problem = p}
  IN FoldLeft(Scan, EmptyCell(u, p), Sorted(own, LAMBDA s, t : s.at < t.at))

Minutes(c, at) == (at - c.start) \div 60

(* Mutant of IsFirst: the latest.                                          *)
IsLast(cells, cell) ==
  \A other \in cells : other.problem = cell.problem => other.firstAc <= cell.firstAc

IsFirst(cells, cell) ==
  \A other \in cells :
    other.problem = cell.problem /\ IsSolved(other) => cell.firstAc <= other.firstAc

(* A ProblemCell.  cells: the cells of all users and problems.             *)
Shown(c, cells, cell) ==
  LET Problem(status, attempts) ==
        [problem |-> cell.problem, status |-> status, attempts |-> attempts]
  IN IF IsSolved(cell)
     THEN Problem(IF IsFirst(cells, cell) THEN "first_ac" ELSE "accepted", cell.attempts + 1)
     ELSE Problem(IF cell.attempts > 0 THEN "wrong" ELSE "none", cell.attempts)

RowOf(c, cells, u) ==
  LET own == {cell \in cells : cell.user = u}
      solved == {cell \in own : IsSolved(cell)}
  IN [user    |-> u,
      cells   |-> {Shown(c, cells, cell) : cell \in own},
      solved  |-> Cardinality(solved),
      penalty |-> SumFunction([cell \in solved |-> Minutes(c, cell.firstAc)
                                                     + cell.attempts * c.penalty]),
      score   |-> SumFunction([cell \in solved |-> cell.best])]

(* Mutant of SortKey: the higher penalty comes first.                      *)
SortKeyMorePenalty(c, r) ==
  IF c.mode = "IOI" THEN <<-r.score, 0, NameOf[r.user]>>
                    ELSE <<-r.solved, -r.penalty, NameOf[r.user]>>

SortKey(c, r) ==
  IF c.mode = "IOI" THEN <<-r.score, 0, NameOf[r.user]>>
                    ELSE <<-r.solved, r.penalty, NameOf[r.user]>>

(* Tuples compare lexicographically.                                       *)
Before(k, l) ==
  \E i \in 1..3 : k[i] < l[i] /\ \A j \in 1..(i - 1) : k[j] = l[j]

(* The rows; a row's rank is its index.                                    *)
Board(c, ps, ss) ==
  LET users == {s.user : s \in InWindow(c, ps, ss)}
      cells == {CellOf(c, ps, ss, u, p) : u \in users, p \in ps}
  IN Sorted({RowOf(c, cells, u) : u \in users},
            LAMBDA r, s : Before(SortKey(c, r), SortKey(c, s)))

-----------------------------------------------------------------------------
(* A submission with this contest_id is committed: nothing ties it to the  *)
(* contest's window or problems.                                           *)
Submit(u, p, t) ==
  /\ Cardinality(subs) < MaxSubs
  /\ \A s \in subs : s.at # t
  /\ subs' = subs \cup {[user |-> u, problem |-> p, at |-> t, status |-> "PENDING"]}
  /\ UNCHANGED <<contest, problems, view, edits>>

(* Mutant of SetStatus: the row is copied.                                 *)
SetStatusOfCopy(s, st) == subs' = subs \cup {[s EXCEPT !.status = st]}

SetStatus(s, st) == subs' = (subs \ {s}) \cup {[s EXCEPT !.status = st]}

(* update_verdict, whatever the row says: of two workers that judge one    *)
(* submission the second may replace an ACCEPTED.                          *)
UpdateVerdict(s, v) ==
  /\ SetStatus(s, v)
  /\ UNCHANGED <<contest, problems, view, edits>>

(* mark_judging, also of a submission that has been judged.                *)
MarkJudging(s) ==
  /\ edits < MaxEdits /\ edits' = edits + 1
  /\ SetStatus(s, "JUDGING")
  /\ UNCHANGED <<contest, problems, view>>

UpdateContest(c) ==
  /\ edits < MaxEdits /\ edits' = edits + 1
  /\ contest' = c
  /\ UNCHANGED <<problems, subs, view>>

AssignProblem(p) ==
  /\ edits < MaxEdits /\ edits' = edits + 1
  /\ p \notin problems /\ problems' = problems \cup {p}
  /\ UNCHANGED <<contest, subs, view>>

UnassignProblem(p) ==
  /\ edits < MaxEdits /\ edits' = edits + 1
  /\ p \in problems /\ problems' = problems \ {p}
  /\ UNCHANGED <<contest, subs, view>>

(* A leaderboard request reads the contest and its problems, and at some   *)
(* later moment the submissions.                                           *)
OpenView ==
  /\ view = NoView
  /\ view' = <<contest, problems>>
  /\ UNCHANGED <<contest, problems, subs, edits>>

CloseView ==
  /\ view # NoView
  /\ view' = NoView
  /\ UNCHANGED <<contest, problems, subs, edits>>

Init ==
  /\ contest \in Contests
  /\ problems \in Assigned
  /\ subs = {}
  /\ view = NoView
  /\ edits = 0

Next ==
  \/ \E u \in Users, p \in Problems, t \in Moments : Submit(u, p, t)
  \/ \E s \in subs : MarkJudging(s) \/ \E v \in Verdicts : UpdateVerdict(s, v)
  \/ \E c \in Contests : UpdateContest(c)
  \/ \E p \in Problems : AssignProblem(p) \/ UnassignProblem(p)
  \/ OpenView \/ CloseView

Spec == Init /\ [][Next]_vars

-----------------------------------------------------------------------------
(* Rows are updated in place, and a request sees one contest row           *)
(* (db.py:78-109, leaderboard.py:49-76).                                   *)
TypeOK ==
  /\ contest \in Contests /\ problems \subseteq Problems
  /\ subs \subseteq [user : Users, problem : Problems, at : Moments,
                     status : Verdicts \cup {"PENDING", "JUDGING"}]
  /\ \A s, t \in subs : s.at = t.at => s = t
  /\ Cardinality(subs) <= MaxSubs /\ edits \in 0..MaxEdits
  /\ view # NoView => view \in Contests \X SUBSET Problems

(* What the request would show now.                                        *)
Rows == IF view = NoView THEN <<>> ELSE Board(view[1], view[2], subs)

(* The submissions the shown contest counts for u and p.                   *)
Counted(u, p) ==
  {s \in subs : /\ s.user = u /\ s.problem = p /\ p \in view[2]
                /\ s.at \in view[1].start..view[1].end}

AcceptedOf(u, p) == {s \in Counted(u, p) : s.status = "ACCEPTED"}
FirstAt(u, p) == Min({s.at : s \in AcceptedOf(u, p)})
WrongBefore(u, p) ==
  {s \in Counted(u, p) :
     s.status \in Penalised /\ \A a \in AcceptedOf(u, p) : s.at < a.at}

(* Who takes part is listed once; a problem counts as solved exactly when  *)
(* a submission in the window was accepted, for the minutes until the first*)
(* such one plus a penalty for each failed one before it; after it nothing *)
(* counts (leaderboard.py:3-9, 87-148).                                    *)
BoardIsScoring ==
  view # NoView =>
    LET rows == Rows IN
    /\ {rows[k].user : k \in DOMAIN rows} = {u \in Users : \E p \in Problems : Counted(u, p) # {}}
    /\ \A k \in DOMAIN rows :
         LET u == rows[k].user
             solved == {p \in view[2] : AcceptedOf(u, p) # {}}
             failures == UNION {WrongBefore(u, p) : p \in solved}
         IN /\ rows[k].solved = Cardinality(solved)
            /\ rows[k].penalty =
                 SumFunction([p \in solved |-> (FirstAt(u, p) - view[1].start) \div 60])
                   + view[1].penalty * Cardinality(failures)
            /\ rows[k].score = SumFunction([p \in solved |-> PointsOf[p]])
            /\ \A cell \in rows[k].cells :
                 cell.attempts = Cardinality(WrongBefore(u, cell.problem))
                                   + (IF cell.problem \in solved THEN 1 ELSE 0)

(* The rank is a standing: whoever is listed earlier has solved more, or   *)
(* as much with no more penalty, or more points in an IOI contest; equal   *)
(* ones are in the order of their names (leaderboard.py:150-160).          *)
RanksAreStandings ==
  LET rows == Rows IN
  \A j, k \in DOMAIN rows : j < k =>
    LET r == rows[j]
        s == rows[k]
        byName == NameOf[r.user] < NameOf[s.user]
    IN IF view[1].mode = "IOI"
       THEN r.score >= s.score /\ (r.score = s.score => byName)
       ELSE /\ r.solved >= s.solved
            /\ r.solved = s.solved => r.penalty <= s.penalty
            /\ r.solved = s.solved /\ r.penalty = s.penalty => byName

(* Exactly the user who solved a problem first is marked for it            *)
(* (leaderboard.py:162-180).                                               *)
FirstSolverIsMarked ==
  view # NoView =>
    LET rows == Rows IN
    \A k \in DOMAIN rows : \A cell \in rows[k].cells :
      LET u == rows[k].user
          p == cell.problem
      IN cell.status = "first_ac" <=>
           /\ AcceptedOf(u, p) # {}
           /\ \A v \in Users : AcceptedOf(v, p) # {} => FirstAt(u, p) <= FirstAt(v, p)

SolvedOf(rows, u) ==
  LET own == {k \in DOMAIN rows : rows[k].user = u}
  IN IF own = {} THEN <<0, 0>>
     ELSE LET k == CHOOSE k \in own : TRUE IN <<rows[k].solved, rows[k].score>>

(* A step of the judge changes the score of nobody but the submitter, and  *)
(* that by one problem: it adds one that no submission had solved, or takes*)
(* one whose only acceptance it overwrites.  Verdicts that arrive late, in *)
(* another order or twice take nothing else (leaderboard.py:94-109,        *)
(* worker/db.py:78-109).                                                   *)
OnlyOverwritingTakes ==
  [][\A s \in subs :
       view # NoView /\ (MarkJudging(s) \/ \E v \in Verdicts : UpdateVerdict(s, v)) =>
         LET rows == Board(view[1], view[2], subs)
             rowsAfter == Board(view[1], view[2], subs')
             points == PointsOf[s.problem]
         IN \A u \in Users :
              LET old == SolvedOf(rows, u)
                  new == SolvedOf(rowsAfter, u)
              IN \/ new = old
                 \/ /\ s.user = u /\ AcceptedOf(u, s.problem) = {}
                    /\ new = <<old[1] + 1, old[2] + points>>
                 \/ /\ s.user = u /\ AcceptedOf(u, s.problem) = {s}
                    /\ new = <<old[1] - 1, old[2] - points>>]_vars
=============================================================================
