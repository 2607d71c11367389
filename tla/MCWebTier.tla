------------------------------ MODULE MCWebTier -----------------------------
(* Instances of WebTier: a database with a contest, a course, two problems *)
(* and their rows, and requests that may ask for any operation on them.    *)
EXTENDS WebTier

CONSTANTS r1, r2

S(name) == <<"seed", name>>
User(name, domain, role, active) ==
  [table |-> "user", email |-> <<name, domain>>, username |-> <<name, "">>,
   student_code |-> Null, role |-> role, active |-> active]
Contest(slug, public, locked, owner) ==
  [table |-> "contest", slug |-> slug, start |-> 2, end |-> 4, public |-> public,
   locked |-> locked, owner |-> owner]

MCRows ==
  [teacher |-> User("teacher", "@x", "educator", TRUE),
   tutor   |-> User("tutor", "@x", "educator", TRUE),
   student |-> User("student", "@x", "student", TRUE),
   ghost   |-> User("ghost", "@x", "student", FALSE),
   round   |-> Contest("round", FALSE, TRUE, S("teacher")),
   cup     |-> Contest("cup", TRUE, FALSE, S("tutor")),
   pa      |-> [table |-> "contest_problem", contest |-> S("round"),
                problem |-> S("sum"), letter |-> <<"a", "upper">>],
   algo    |-> [table |-> "course", code |-> "algo", invite |-> S("algo"),
                owner |-> S("teacher")],
   member  |-> [table |-> "enrollment", course |-> S("algo"), user |-> S("student")],
   task    |-> [table |-> "assignment", course |-> S("algo"), problem |-> S("sum")],
   sum     |-> [table |-> "problem", body |-> "b0", author |-> S("teacher")],
   path    |-> [table |-> "problem", body |-> "b0", author |-> S("tutor")],
   dp      |-> [table |-> "tag", slug |-> <<"dp", "lower">>],
   sumdp   |-> [table |-> "problem_tag", problem |-> S("sum"), tag |-> S("dp")],
   case1   |-> [table |-> "testcase", problem |-> S("sum"), order |-> 0],
   ac1     |-> [table |-> "submission", user |-> S("student"), problem |-> S("sum"),
                accepted |-> TRUE],
   ac2     |-> [table |-> "submission", user |-> S("student"), problem |-> S("path"),
                accepted |-> TRUE]]

MCSeed == [i \in {"seed"} \X DOMAIN MCRows |-> MCRows[i[2]]]

(* A request of a user about one row.                                      *)
O(kind, user, name) ==
  [kind |-> kind, user |-> IF user = "" THEN Nobody ELSE S(user), id |-> S(name)]
T(kind, name) == O(kind, "teacher", name)

AccountOps ==
  { O("register", "", "sum") @@ [email |-> <<"ann", "@x">>, username |-> n, role |-> "student"] :
      n \in { <<"ann", "">>, <<"ghost", "">> } }
  \cup { O("register", "", "sum")
           @@ [email |-> <<"ghost", "@x">>, username |-> <<"ann", "">>, role |-> "student"] }
  \cup { O("login", "", "sum") @@ [identifier |-> i, matches |-> TRUE] :
           i \in { <<"ann", "@x">>, <<"tutor", "">> } }
  \cup { O("profile", "", "sum") @@ [username |-> <<"ann", "">>],
         O("forgot_password", "", "sum"), O("reset_password", "", "sum"),
         O("me", "student", "sum"), O("me", "", "sum") }

ContestOps ==
  { T("create_contest", "sum") @@ [slug |-> s, start |-> 1, end |-> e, naive |-> {},
                                   public |-> TRUE, locked |-> FALSE] :
      s \in {"open", "cup"}, e \in {1, 3} }
  \cup { T("create_contest", "sum") @@ [slug |-> "open", start |-> 1, end |-> 3,
                                        naive |-> {"end"}, public |-> TRUE, locked |-> FALSE] }
  \cup { T("update_contest", "round") @@ [set |-> set, naive |-> {}] :
           set \in { [start |-> 3], [end |-> 3], [slug |-> "open"], [slug |-> "cup"],
                     [public |-> TRUE], [public |-> FALSE] } }
  \cup { T("update_contest", "round") @@ [set |-> [start |-> 3, end |-> 4],
                                           naive |-> naive] :
           naive \in { {"start"}, {"start", "end"} } }
  \cup { T("delete_contest", "round"), O("delete_contest", "tutor", "round"),
         O("list_contests", "", "round") }
  \cup { O("register_contest", "student", "round") @@ [matches |-> m] : m \in BOOLEAN }
  \cup { T("assign_contest_problem", "round") @@ [problem |-> S("path"), letter |-> l] :
           l \in { <<"a", "lower">>, <<"b", "lower">>, <<"b", "upper">> } }
  \cup { T("unassign_contest_problem", "round") @@ [row |-> S("pa")] }
  \cup { O(kind, u, "round") : kind \in {"contest_detail", "leaderboard"},
                               u \in {"", "student", "teacher"} }

Csv(email, code) == [email |-> email, code |-> code, ragged |-> FALSE]
Ann == Csv(<<"ann", "@x">>, "c1")
Bob == Csv(<<"bob", "@x">>, "c1")
Named == Csv(<<"tutor", "">>, Null)
Known == Csv(<<"student", "@x">>, Null)
Blank == Csv(Null, Null)
Ragged == [Blank EXCEPT !.ragged = TRUE]

CourseOps ==
  { O("list_courses", u, "algo") : u \in {"teacher", "tutor", "student"} }
  \cup {
    T("create_course", "algo") @@ [code |-> "graph"],
    O("create_course", "student", "algo") @@ [code |-> "tree"],
    T("update_course", "algo") @@ [set |-> [code |-> "graph"]],
    O("update_course", "tutor", "algo") @@ [set |-> [code |-> "tree"]],
    T("delete_course", "algo"),
    O("join_course_by_invite", "tutor", "algo") @@ [invite |-> S("algo")],
    O("join_course_by_invite", "tutor", "algo") @@ [invite |-> S("none")],
    T("invite_member", "algo") @@ [identifier |-> <<"tutor", "">>],
    T("remove_member", "algo") @@ [row |-> S("member")],
    T("assign_course_problem", "algo") @@ [problem |-> S("path")],
    T("unassign_course_problem", "algo") @@ [row |-> S("task")],
    T("course_detail", "algo"), O("course_detail", "student", "algo"),
    O("course_detail", "tutor", "algo"), T("export_course_scores", "algo") }
  \cup { T("import_students", "algo") @@ [csv |-> csv] :
           csv \in { <<Ann, Bob>>, <<Bob, Blank>>, <<Named, Known>>, <<Ann, Bob, Known>>,
                     <<Bob, Ragged>> } }

NewAlt == << <<"new", "upper">>, <<"alt", "lower">> >>
AltNew == << <<"alt", "lower">>, <<"new", "lower">> >>
NewNew == << <<"new", "lower">>, <<"new", "upper">> >>

ProblemOps ==
  { T("create_problem", "sum") @@ [body |-> "b1", tags |-> <<>>],
    T("create_problem", "sum") @@ [body |-> "b1", tags |-> << <<"dp", "upper">> >>] }
  \cup { T("update_problem", "sum") @@ [body |-> b, tags |-> tags] :
           b \in {"b0", "b1", "b2"},
           tags \in { << <<"dp", "lower">> >>, NewAlt, AltNew } }
  \cup { T("update_problem", "sum")
           @@ [body |-> "b1", tags |-> NewNew],
         T("update_problem", "sum") @@ [body |-> "b1", tags |-> <<>>],
         T("delete_problem", "sum"), T("delete_problem", "path"),
         O("problem_detail", "", "sum"),
         T("list_testcases", "sum"), T("list_testcases", "path"),
         T("create_testcase", "sum") @@ [order |-> 1],
         T("update_testcase", "case1") @@ [set |-> [order |-> 2]],
         T("delete_testcase", "case1"),
         T("upload_testcases_zip", "sum") @@ [pairs |-> 2] }

(* Contests and courses have no table in common but users and problems.    *)
Deletions == { T("delete_problem", "sum"), T("delete_problem", "path") }
MCMixes == { ContestOps \cup Deletions, AccountOps \cup CourseOps \cup Deletions,
             ProblemOps }

(* Operations that hold locks or wait for them, and an import that fails.  *)
LockMixes ==
  { { o \in ContestOps \cup Deletions :
        \/ o.kind = "register_contest" /\ o.matches
        \/ o.kind = "assign_contest_problem" /\ o.letter = <<"b", "lower">>
        \/ o = T("delete_contest", "round")
        \/ o = T("delete_problem", "path") },
    { o \in CourseOps : \/ o.kind = "import_students" /\ o.csv = <<Ann, Bob>>
                       \/ o.kind = "delete_course" },
    { o \in ProblemOps : o.kind = "update_problem"
                        /\ <<o.body, o.tags>> \in { <<"b0", NewAlt>>, <<"b0", AltNew>>,
                                                   <<"b1", NewNew>> } } }
ImportMixes == { { o \in CourseOps : o.kind \in {"import_students", "list_courses"} } }

MCRequestSymmetry == Permutations(Requests)
=============================================================================
