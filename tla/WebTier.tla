------------------------------- MODULE WebTier ------------------------------
(***************************************************************************)
(* The web application but for submissions: concurrent requests for the    *)
(* routes of accounts, contests, courses, problems and test cases over one *)
(* database.  Submissions have a module of their own, SubmissionPipeline.  *)
(***************************************************************************)
EXTENDS Contests, Courses, ProblemSet

CONSTANT Mixes  \* sets of operations concurrent requests may ask for

Ops == UNION Mixes

(* The columns the bodies of the update routes may give.                   *)
Settable == [update_contest  |-> {"slug", "start", "end", "public", "locked"},
             update_course   |-> {"code"},
             update_testcase |-> {"order"}]

ASSUME OpsAssumption ==
  \A o \in Ops :
    /\ o.kind \in DOMAIN Settable => DOMAIN o.set \subseteq Settable[o.kind]
    /\ o.kind = "assign_contest_problem" => Upper(o.letter) # Null
    /\ o.kind = "update_contest" =>
         \A c \in o.naive : c \in DOMAIN o.set /\ o.set[c] # Null
ASSUME LettersAssumption ==
  \A i \in RowsOf(Seed, "contest_problem") :
    Seed[i].letter = Upper(Seed[i].letter) /\ Seed[i].letter # Null
(* No course of the seed has the invite code of a new one.                 *)
ASSUME InviteAssumption ==
  \A i \in RowsOf(Seed, "course") : Seed[i].invite \notin Requests \X Nat
(* MaxNew is no limit: the rows a request may insert, at most.             *)
TagKinds == {"create_problem", "update_problem"}
RowsNeeded(o) ==
  CASE o.kind = "import_students" -> 2 * Len(o.csv)
    [] o.kind \in TagKinds -> 1 + 2 * Len(o.tags)
    [] o.kind = "upload_testcases_zip" -> o.pairs
    [] OTHER -> 1
SeqOfItsOwn(s) == s \in Seq({ s[k] : k \in DOMAIN s })
ASSUME RoomAssumption ==
  \A o \in Ops :
    /\ o.kind = "import_students" => SeqOfItsOwn(o.csv)
    /\ o.kind \in TagKinds => SeqOfItsOwn(o.tags)
    /\ RowsNeeded(o) <= MaxNew
ASSUME WindowsAssumption ==
  \A i \in RowsOf(Seed, "contest") :
    Seed[i].start \in Int /\ Seed[i].end \in Int /\ Seed[i].start < Seed[i].end

Init == SessionInit /\ \E mix \in Mixes : op \in [Requests -> mix]

Step(r) ==
  \/ Authenticate(r) \/ Execute(r) \/ Serialize(r) \/ Respond(r) \/ Refresh(r)
  \/ Commit(r)
  \/ AccountStep(r) \/ ContestStep(r) \/ CourseStep(r) \/ ProblemStep(r)

Move(r) == Step(r) /\ Watch
Abort(r) == DeadlockVictim(r) /\ Watch
Crash(r) == ConnectionLost(r) /\ Watch

Next == \E r \in Requests : Move(r) \/ Abort(r) \/ Crash(r)

Spec == Init /\ [][Next]_vars

(* The event loop runs every handler that can run, and PostgreSQL detects  *)
(* every deadlock; connections need not fail.                              *)
Fairness ==
  /\ \A r \in Requests : WF_vars(Move(r))
  /\ WF_vars(\E r \in Requests : Abort(r))
FairSpec == Spec /\ Fairness

-----------------------------------------------------------------------------
Rows(table) == RowsOf(db, table)
Alone(r) == met[r] = {}
MetSaved(r, kinds) == \E o \in met[r] \cap saved : op[o].kind \in kinds

TypeOK ==
  /\ op \in [Requests -> Ops]
  /\ answer \in [Requests -> Answers]
  /\ \A i \in Ids : db[i] = NoRow \/ IsRow(db[i])
  /\ \A r \in Requests : \A i \in Ids :
       writes[r][i] \in {NoRow, Untouched} \/ IsRow(writes[r][i])
  /\ broken \subseteq Requests /\ saved \subseteq Requests
  /\ met \in [Requests -> SUBSET Requests]

(* A user is registered once in a contest, and a contest has a problem and *)
(* a letter once, although the checks in service.register and assign run   *)
(* before the insert of a concurrent request is visible.                   *)
RegisteredOnce ==
  /\ \A i, j \in Rows("registration") :
       db[i].contest = db[j].contest /\ db[i].user = db[j].user => i = j
  /\ \A i, j \in Rows("contest_problem") :
       /\ db[i].contest = db[j].contest
       /\ \/ db[i].problem = db[j].problem
          \/ Upper(db[i].letter) = Upper(db[j].letter)
       => i = j

(* Whatever a contest, a course or a tag link refers to is there, when the *)
(* problem, contest or course is deleted while it is being assigned.       *)
NothingDangles ==
  /\ \A i \in Rows("assignment") :
       db[i].course \in Rows("course") /\ db[i].problem \in Rows("problem")
  /\ \A i \in Rows("contest_problem") :
       db[i].contest \in Rows("contest") /\ db[i].problem \in Rows("problem")
  /\ \A i \in Rows("problem_tag") :
       db[i].tag \in Rows("tag") /\ db[i].problem \in Rows("problem")

(* A contest ends after it starts, unless two accepted updates of it ran   *)
(* at the same time: each checks the window against the row it read.       *)
WindowNeedsTwo ==
  \A i \in Rows("contest") :
    db[i].end <= db[i].start =>
      \E a, b \in saved :
        /\ a # b /\ b \in met[a]
        /\ \A o \in {a, b} : op[o].kind = "update_contest" /\ op[o].id = i

(* The pages that query twice agree with themselves unless a request they  *)
(* met saved a change between the queries: progress is at most 100% but    *)
(* for a concurrent assignment, and a board has the columns of the page.   *)
PagesAgree ==
  \A r \in Requests :
    /\ pc[r] = "progress" /\ local[r].good > local[r].bad =>
         MetSaved(r, {"assign_course_problem"})
    /\ op[r].kind = "leaderboard" /\ pc[r] = "page"
         /\ local[r].seen # local[r].again =>
         MetSaved(r, {"assign_contest_problem", "unassign_contest_problem",
                      "delete_contest", "delete_problem"})

(* Requests that have created or updated problem p, and those of them that *)
(* have replaced its tags.                                                 *)
Editors(p) == { r \in saved : op[r].kind \in TagKinds /\ ProblemOf(r) = p }
Taggers(p) == { r \in Editors(p) : op[r].tags # <<>> }
LowerTags(r) == { Lower(op[r].tags[k]) : k \in DOMAIN op[r].tags }

(* Every one of them changed the problem: it gave it a body it had never   *)
(* had, and so locked its row.                                             *)
Rewritten(p) ==
  \A a \in Editors(p) :
    /\ p \in DOMAIN Seed => op[a].body # Seed[p].body
    /\ \A b \in Editors(p) \ {a} : op[a].body # op[b].body

(* A problem's tags are those of one of the requests that set them, or the *)
(* first ones: requests that set them one after the other, or that all     *)
(* change the problem and so wait for each other, do not mix their tags.   *)
TagsAreWhole ==
  \A p \in Rows("problem") :
    LET T == Taggers(p)
        apart == \A a, b \in T : a # b => b \notin met[a]
    IN apart \/ Rewritten(p) =>
         \/ T = {} /\ TagsOf(db, p) = TagsOf(Seed, p)
         \/ \E a \in T : TagsOf(db, p) = LowerTags(a)

(* An import that is saved has enrolled everyone the file names: no row of *)
(* it was rolled back on the way, unless a concurrent request removed the  *)
(* member or the course.                                                   *)
ImportIsWhole ==
  [][\A r \in saved' \ saved :
       /\ op[r].kind = "import_students"
       /\ ~MetSaved(r, {"remove_member", "delete_course"})
       => \A k \in DOMAIN op[r].csv :
            op[r].csv[k].email # Null =>
              \E u \in ByEmail(db', op[r].csv[k].email) :
                EnrollmentOf(db', op[r].id, u) # {}]_vars

(* An import that is answered with a count of imported rows can still save *)
(* them: a row that fails is skipped and reported.                         *)
ReportedIsSaved ==
  \A r \in Requests :
    op[r].kind = "import_students" /\ pc[r] = "answered" /\ local[r].good > 0
    => r \notin broken

(* What makes the server fail at a request nothing runs concurrently with: *)
(* a contest or course that is not there; a route that cannot work (three  *)
(* of the accounts, the four pages that return a row of the ORM); a list   *)
(* with such a row in it, or an export with a member; an identifier that   *)
(* is one user's e-mail and another's name; ends of a contest with and     *)
(* without a time zone; a lower-case letter that is taken; a tag given     *)
(* twice; a test case of a problem that is not there; and an import with a *)
(* ragged row or that goes on after a row that failed.  Values are taken   *)
(* to fit their columns.                                                   *)
FailsAlone(r) ==
  LET o == op[r] IN
  \/ o.kind \in {"update_contest", "delete_contest", "assign_contest_problem",
                 "unassign_contest_problem"}
     /\ ~Exists(Row(r, "contest", o.id))
  \/ o.kind \in {"update_course", "delete_course", "invite_member", "remove_member",
                 "import_students", "export_course_scores",
                 "assign_course_problem", "unassign_course_problem"}
     /\ ~Exists(Row(r, "course", o.id))
  \/ o.kind \in {"profile", "forgot_password", "reset_password"} \cup RowPages
  \/ o.kind = "list_contests" /\ RowsOf(View(r), "contest") # {}
  \/ o.kind = "list_courses" /\ ListForViewer(View(r), o.user) # {}
  \/ o.kind = "list_testcases" /\ TestcasesOf(View(r), o.id) # {}
  \/ o.kind = "export_course_scores" /\ MembersOf(View(r), o.id) # {}
  \/ o.kind \in {"login", "invite_member"} /\ Ambiguous(View(r), o.identifier)
  \/ o.kind \in {"create_contest", "update_contest"} /\ Incomparable(r)
  \/ /\ o.kind = "assign_contest_problem" /\ o.letter # Upper(o.letter)
     /\ \E i \in ProblemsOfContest(View(r), o.id) : View(r)[i].letter = Upper(o.letter)
  \/ /\ o.kind \in {"create_problem", "update_problem"}
     /\ \E j, k \in DOMAIN o.tags : j # k /\ Lower(o.tags[j]) = Lower(o.tags[k])
  \/ o.kind = "create_testcase" /\ ~Exists(Row(r, "problem", o.id))
  \/ /\ o.kind = "import_students"
     /\ r \in broken \/ \E k \in DOMAIN o.csv : o.csv[k].ragged

ServerErrorsExplained ==
  [][\A r \in Requests :
       answer[r] = "none" /\ answer'[r] = "500" => ~Alone(r) \/ FailsAlone(r)]_vars

(* Every request ends: none waits for ever for a lock.                     *)
EveryRequestEnds == \A r \in Requests : <>(pc[r] = "done")

(* The refinement: see AtomicStore.                                        *)
Store == INSTANCE AtomicStore
  WITH Requests <- Requests, Null <- Null, Own <- Own, Answers <- Answers,
       First <- [i \in Ids |-> IF i \in DOMAIN Seed THEN Seed[i] ELSE NoRow],
       db <- db, answer <- answer, saved <- saved
StoreSpec == Store!Spec
=============================================================================
