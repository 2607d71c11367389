------------------------------- MODULE Schema -------------------------------
(***************************************************************************)
(* The tables of the web application's database as its ORM models declare  *)
(* them: the columns the checks and handlers look at, the unique           *)
(* constraints and the foreign keys, each with the table it refers to (a   *)
(* function from columns to tables).  Text columns no decision depends on  *)
(* (titles, descriptions, Markdown) are one column or left out.  A row is  *)
(* a record with the name of its table; rows refer to rows by id.          *)
(***************************************************************************)
EXTENDS FiniteSets, Sequences, TLC

CONSTANT Null  \* SQL NULL; never equal to itself in a unique constraint

NoRow == [table |-> "none"]           \* the row does not exist
Untouched == [table |-> "untouched"]  \* the transaction has not written it

UserTables ==
  [user |-> [columns |-> {"email", "username", "student_code", "role", "active"},
             unique  |-> {<<"email">>, <<"username">>, <<"student_code">>},
             foreign |-> <<>>]]

(* ondelete is SET NULL for the author and CASCADE for every other foreign *)
(* key; no request deletes a user, so only CASCADE is ever exercised.      *)
ProblemTables ==
  [problem |-> [columns |-> {"body", "author"}, unique |-> {},
               foreign |-> [author |-> "user"]]]

TestcaseTables ==
  [testcase |-> [columns |-> {"problem", "order"}, unique |-> {},
                foreign |-> [problem |-> "problem"]]]

TagTables ==
  [tag |-> [columns |-> {"slug"}, unique |-> {<<"slug">>}, foreign |-> <<>>],
   problem_tag |-> [columns |-> {"problem", "tag"}, unique |-> {<<"problem", "tag">>},
                    foreign |-> [problem |-> "problem", tag |-> "tag"]]]

SubmissionTables ==
  [submission |-> [columns |-> {"user", "problem", "accepted"}, unique |-> {},
                   foreign |-> [user |-> "user", problem |-> "problem"]]]

(* Mutant of ContestTables: a registration has no uq_contest_user.         *)
ContestTablesUnkeyed ==
  [contest |-> [columns |-> {"slug", "start", "end", "public", "locked", "owner"},
                unique  |-> {<<"slug">>}, foreign |-> [owner |-> "user"]],
   contest_problem |-> [columns |-> {"contest", "problem", "letter"},
                        unique  |-> {<<"contest", "problem">>, <<"contest", "letter">>},
                        foreign |-> [contest |-> "contest", problem |-> "problem"]],
   registration |-> [columns |-> {"contest", "user"}, unique |-> {},
                     foreign |-> [contest |-> "contest", user |-> "user"]]]

ContestTables ==
  [contest |-> [columns |-> {"slug", "start", "end", "public", "locked", "owner"},
                unique  |-> {<<"slug">>}, foreign |-> [owner |-> "user"]],
   contest_problem |-> [columns |-> {"contest", "problem", "letter"},
                        unique  |-> {<<"contest", "problem">>, <<"contest", "letter">>},
                        foreign |-> [contest |-> "contest", problem |-> "problem"]],
   registration |-> [columns |-> {"contest", "user"}, unique |-> {<<"contest", "user">>},
                     foreign |-> [contest |-> "contest", user |-> "user"]]]

(* Mutant of CourseTables: an assignment does not refer to its problem.    *)
CourseTablesLoose ==
  [course |-> [columns |-> {"code", "invite", "owner"},
               unique  |-> {<<"code">>, <<"invite">>}, foreign |-> [owner |-> "user"]],
   enrollment |-> [columns |-> {"course", "user"}, unique |-> {<<"course", "user">>},
                   foreign |-> [course |-> "course", user |-> "user"]],
   assignment |-> [columns |-> {"course", "problem"}, unique |-> {<<"course", "problem">>},
                   foreign |-> [course |-> "course"]]]

CourseTables ==
  [course |-> [columns |-> {"code", "invite", "owner"},
               unique  |-> {<<"code">>, <<"invite">>}, foreign |-> [owner |-> "user"]],
   enrollment |-> [columns |-> {"course", "user"}, unique |-> {<<"course", "user">>},
                   foreign |-> [course |-> "course", user |-> "user"]],
   assignment |-> [columns |-> {"course", "problem"}, unique |-> {<<"course", "problem">>},
                   foreign |-> [course |-> "course", problem |-> "problem"]]]

Tables ==
  [user |-> UserTables.user, problem |-> ProblemTables.problem,
   testcase |-> TestcaseTables.testcase, tag |-> TagTables.tag,
   problem_tag |-> TagTables.problem_tag, submission |-> SubmissionTables.submission,
   contest |-> ContestTables.contest, contest_problem |-> ContestTables.contest_problem,
   registration |-> ContestTables.registration, course |-> CourseTables.course,
   enrollment |-> CourseTables.enrollment, assignment |-> CourseTables.assignment]

IsRow(row) ==
  /\ row.table \in DOMAIN Tables
  /\ DOMAIN row = {"table"} \cup Tables[row.table].columns

-----------------------------------------------------------------------------
(* What a row occupies and what it depends on; a row that is not there, or *)
(* not written, neither.                                                   *)

Exists(row) == row.table \in DOMAIN Tables

Keys(row) ==
  IF ~Exists(row) THEN {}
  ELSE { <<row.table, cols, [k \in DOMAIN cols |-> row[cols[k]]]>> :
           cols \in { c \in Tables[row.table].unique :
                        \A k \in DOMAIN c : row[c[k]] # Null } }

(* The foreign keys of a row: the table and the id each refers to.         *)
Parents(row) ==
  IF ~Exists(row) THEN {}
  ELSE LET foreign == Tables[row.table].foreign
       IN { <<foreign[c], row[c]>> : c \in DOMAIN foreign }
Refer(keys, i) == \E p \in keys : p[2] = i

(* The rows of d that refer to row i: what deleting i deletes as well.     *)
Children(d, i) == { j \in DOMAIN d : Refer(Parents(d[j]), i) }

RowsOf(d, table) == { i \in DOMAIN d : d[i].table = table }
Holds(d, p) == p[2] \in RowsOf(d, p[1])

Overlay(w, d) == [i \in DOMAIN d |-> IF w[i] = Untouched THEN d[i] ELSE w[i]]

(* Two rows never occupy one key, and what a row refers to is there.       *)
Unique(d) == \A i, j \in DOMAIN d : i # j => Keys(d[i]) \cap Keys(d[j]) = {}
Anchored(d) == \A i \in DOMAIN d : \A p \in Parents(d[i]) : Holds(d, p)
Consistent(d) == Unique(d) /\ Anchored(d)
=============================================================================
