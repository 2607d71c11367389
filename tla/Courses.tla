------------------------------- MODULE Courses ------------------------------
(***************************************************************************)
(* Courses, enrolments, assignments and progress: the routes of            *)
(* courses/router.py over CourseService, EnrollmentService,                *)
(* AssignmentService and ProgressService.  An invite code is eight random  *)
(* hex digits; it is taken to be unique and modelled by the course's id.   *)
(***************************************************************************)
EXTENDS Accounts

CONSTANT Stamps  \* the suffixes int(time.time()*1000) can give a user name

ByCode(d, code) == { i \in RowsOf(d, "course") : d[i].code = code }
ByInviteCode(d, code) == { i \in RowsOf(d, "course") : d[i].invite = code }
CoursesOfEducator(d, u) == { i \in RowsOf(d, "course") : d[i].owner = u }
CoursesOfStudent(d, u) ==
  { i \in RowsOf(d, "course") :
      \E e \in RowsOf(d, "enrollment") : d[e].course = i /\ d[e].user = u }
MembersOf(d, c) == { i \in RowsOf(d, "enrollment") : d[i].course = c }
EnrollmentOf(d, c, u) == { i \in MembersOf(d, c) : d[i].user = u }
AssignmentsOf(d, c) == { i \in RowsOf(d, "assignment") : d[i].course = c }

CanManageCourse(c, r) ==
  CurrentUser(r).role = "admin" \/ c.owner = op[r].user

(* service.get, then can_manage; the session keeps the row.                *)
ManageCourse(r, kind) ==
  /\ At(r, kind, "handler")
  /\ LET c == Row(r, "course", op[r].id)
     IN IF ~Exists(c) THEN Refuse(r, "500")
        ELSE IF ~CanManageCourse(c, r) THEN Refuse(r, "403")
        ELSE Keep(r, [local[r] EXCEPT !.row = c], "managed")

-----------------------------------------------------------------------------

ListForViewer(d, u) ==
  CASE d[u].role = "admin" -> RowsOf(d, "course")
    [] d[u].role = "educator" -> CoursesOfEducator(d, u)
    [] OTHER -> CoursesOfStudent(d, u)

ListCourses(r) ==
  /\ At(r, "list_courses", "handler")
  /\ Keep(r, [local[r] EXCEPT !.seen = ListForViewer(View(r), op[r].user)], "page")

StoreCourse(r) ==
  IF ByCode(View(r), op[r].code) # {} THEN Refuse(r, "400")
  ELSE Issue(r, Put(NewId(r), [table |-> "course", code |-> op[r].code,
                               invite |-> NewId(r), owner |-> op[r].user]), "reply")

CreateCourse(r) == At(r, "create_course", "handler") /\ StoreCourse(r)

StoreCourseUpdate(r) ==
  LET set == op[r].set
  IN IF /\ "code" \in DOMAIN set /\ set.code # local[r].row.code
        /\ \E i \in ByCode(View(r), set.code) : i # op[r].id
       THEN Refuse(r, "400")
     ELSE Issue(r, Update(op[r].id, set, local[r].row), "refresh")

UpdateCourse(r) ==
  \/ ManageCourse(r, "update_course")
  \/ At(r, "update_course", "managed") /\ StoreCourseUpdate(r)

DeleteCourse(r) ==
  \/ ManageCourse(r, "delete_course")
  \/ At(r, "delete_course", "managed") /\ Issue(r, Delete({op[r].id}), "reply")

-----------------------------------------------------------------------------
(* Enrolment.                                                              *)

Enrollment(c, u) == [table |-> "enrollment", course |-> c, user |-> u]

(* By invite code: the student joins.  local.ids holds the course found.   *)
EnrollByInviteCode(r) ==
  \/ /\ At(r, "join_course_by_invite", "handler")
     /\ IF ByInviteCode(View(r), op[r].invite) = {} THEN Refuse(r, "400")
        ELSE \E c \in ByInviteCode(View(r), op[r].invite) :
               Keep(r, [local[r] EXCEPT !.ids = <<c>>], "course_found")
  \/ /\ At(r, "join_course_by_invite", "course_found")
     /\ LET c == local[r].ids[1]
        IN IF EnrollmentOf(View(r), c, op[r].user) # {} THEN Refuse(r, "400")
           ELSE Issue(r, Put(NewId(r), Enrollment(c, op[r].user)), "reply")

JoinCourse(r) == op[r].kind = "join_course_by_invite" /\ EnrollByInviteCode(r)

(* By identifier: the educator adds a user.  local.ids holds the user.     *)
EnrollByIdentifier(r) ==
  \/ /\ At(r, "invite_member", "managed")
     /\ IF ByIdentifier(View(r), op[r].identifier) = {} THEN Refuse(r, "400")
        ELSE IF Ambiguous(View(r), op[r].identifier) THEN Refuse(r, "500")
        ELSE \E u \in ByIdentifier(View(r), op[r].identifier) :
               Keep(r, [local[r] EXCEPT !.ids = <<u>>], "user_found")
  \/ /\ At(r, "invite_member", "user_found")
     /\ LET u == local[r].ids[1]
        IN IF EnrollmentOf(View(r), op[r].id, u) # {} THEN Refuse(r, "400")
           ELSE Issue(r, Put(NewId(r), Enrollment(op[r].id, u)), "reply")

InviteMember(r) == ManageCourse(r, "invite_member") \/ EnrollByIdentifier(r)

RemoveMember(r) ==
  \/ ManageCourse(r, "remove_member")
  \/ /\ At(r, "remove_member", "managed")
     /\ IF Exists(Row(r, "enrollment", op[r].row))
          THEN Issue(r, Delete({op[r].row}), "reply") ELSE Go(r, "reply")

-----------------------------------------------------------------------------
(* Import of a CSV file, a row at a time: local.n rows are done, of which  *)
(* good were counted as imported and bad as failed.  On a deactivated      *)
(* session the next look-up raises, outside any try.                       *)

CsvRow(r) == op[r].csv[local[r].n + 1]
RowDone(r, good, bad) ==
  Keep(r, [local[r] EXCEPT !.n = @ + 1, !.good = @ + good, !.bad = @ + bad], "row")

(* The row's user: looked up by e-mail, else created with the e-mail's     *)
(* local part as user name, suffixed with the time when that is taken.  In *)
(* a ragged row a field is None or a list and has no strip.                *)
FindUser(r) ==
  /\ At(r, "import_students", "row")
  /\ local[r].n < Len(op[r].csv)
  /\ IF CsvRow(r).ragged THEN Refuse(r, "500")
     ELSE IF CsvRow(r).email = Null THEN RowDone(r, 0, 1)
     ELSE IF r \in broken THEN Refuse(r, "500")
     ELSE IF ByEmail(View(r), CsvRow(r).email) = {} THEN Go(r, "no_user")
     ELSE \E u \in ByEmail(View(r), CsvRow(r).email) :
            Keep(r, [local[r] EXCEPT !.ids = <<u>>], "user_added")

CreateUser(r, name) ==
  Proceed(r, [local[r] EXCEPT !.ids = <<NewId(r)>>],
          Put(NewId(r), [NewUser(CsvRow(r).email, name, "student")
                           EXCEPT !.student_code = CsvRow(r).code]),
          "user_added")

NameUser(r) ==
  LET plain == <<CsvRow(r).email[1], "">>
  IN \/ /\ At(r, "import_students", "no_user")
        /\ IF ByUsername(View(r), plain) = {} THEN CreateUser(r, plain)
           ELSE Go(r, "name_taken")
     \/ /\ At(r, "import_students", "name_taken")
        /\ \E t \in Stamps :
             /\ ByUsername(View(r), <<plain[1], t>>) = {}
             /\ CreateUser(r, <<plain[1], t>>)

EnrollUser(r) ==
  LET u == local[r].ids[1]
  IN \/ /\ At(r, "import_students", "user_added")
        /\ IF EnrollmentOf(View(r), op[r].id, u) # {} THEN RowDone(r, 1, 0)
           ELSE Issue(r, Put(NewId(r), Enrollment(op[r].id, u)), "enrolled")
     \/ At(r, "import_students", "enrolled") /\ RowDone(r, 1, 0)
     \/ At(r, "import_students", "excepted") /\ RowDone(r, 0, 1)

ImportStudents(r) ==
  \/ ManageCourse(r, "import_students")
  \/ At(r, "import_students", "managed") /\ Go(r, "row")
  \/ FindUser(r) \/ NameUser(r) \/ EnrollUser(r)
  \/ /\ At(r, "import_students", "row")
     /\ local[r].n = Len(op[r].csv)
     /\ Go(r, "reply")

-----------------------------------------------------------------------------
(* Assignments.                                                            *)

StoreAssignment(r) ==
  IF \E i \in AssignmentsOf(View(r), op[r].id) : View(r)[i].problem = op[r].problem
    THEN Refuse(r, "400")
    ELSE Issue(r, Put(NewId(r), [table |-> "assignment", course |-> op[r].id,
                                 problem |-> op[r].problem]), "reply")

AssignCourseProblem(r) ==
  \/ ManageCourse(r, "assign_course_problem")
  \/ /\ At(r, "assign_course_problem", "managed")
     /\ IF Exists(Row(r, "problem", op[r].problem)) THEN Go(r, "problem_found")
        ELSE Refuse(r, "404")
  \/ At(r, "assign_course_problem", "problem_found") /\ StoreAssignment(r)

UnassignCourseProblem(r) ==
  \/ ManageCourse(r, "unassign_course_problem")
  \/ /\ At(r, "unassign_course_problem", "managed")
     /\ IF Exists(Row(r, "assignment", op[r].row))
          THEN Issue(r, Delete({op[r].row}), "reply") ELSE Go(r, "reply")

-----------------------------------------------------------------------------
(* Progress: the assignments are counted (local.n), then the members are   *)
(* listed (local.seen), then the assigned problems (local.again), then the *)
(* accepted ones among these counted for each member; local.good is the    *)
(* largest of these counts, and local.bad the count it is divided by.      *)

(* Mutant of AcceptedBy: the accepted problems outside the course count.   *)
AcceptedByAnywhere(d, u, ps) ==
  { p \in RowsOf(d, "problem") :
      \E s \in RowsOf(d, "submission") :
        d[s].user = u /\ d[s].problem = p /\ d[s].accepted }

AcceptedBy(d, u, ps) ==
  { p \in ps : \E s \in RowsOf(d, "submission") :
                 d[s].user = u /\ d[s].problem = p /\ d[s].accepted }

MemberProgress(r, kind) ==
  LET v == View(r)  c == op[r].id
  IN \/ /\ At(r, kind, "count")
        /\ Keep(r, [local[r] EXCEPT !.n = Cardinality(AssignmentsOf(v, c))], "members")
     \/ /\ At(r, kind, "members")
        /\ Keep(r, [local[r] EXCEPT !.seen = { v[i].user : i \in MembersOf(v, c) }],
                "problems")
     \/ /\ At(r, kind, "problems")
        /\ Keep(r, [local[r] EXCEPT
                      !.again = { v[i].problem : i \in AssignmentsOf(v, c) }], "accepted")
     \/ /\ At(r, kind, "accepted")
        /\ LET most == { Cardinality(AcceptedBy(v, u, local[r].again)) : u \in local[r].seen }
           IN Keep(r, [local[r] EXCEPT
                         !.good = IF most = {} THEN 0
                                  ELSE CHOOSE k \in most : \A j \in most : j <= k,
                         !.bad = IF local[r].again = {} THEN 0 ELSE local[r].n],
                   "progress")

(* Members only see the page; who manages the course sees the progress.    *)
CourseDetail(r) ==
  \/ /\ At(r, "course_detail", "handler")
     /\ LET c == Row(r, "course", op[r].id)
        IN IF ~Exists(c) THEN Refuse(r, "404")
           ELSE Keep(r, [local[r] EXCEPT !.row = c], "loaded")
  \/ /\ At(r, "course_detail", "loaded")
     /\ IF CanManageCourse(local[r].row, r) THEN Go(r, "count")
        ELSE IF EnrollmentOf(View(r), op[r].id, op[r].user) # {} THEN Go(r, "page")
        ELSE Refuse(r, "403")
  \/ MemberProgress(r, "course_detail")
  \/ At(r, "course_detail", "progress") /\ Go(r, "page")

(* The export reads fields MemberProgress does not have.                   *)
ExportCourseScores(r) ==
  \/ ManageCourse(r, "export_course_scores")
  \/ At(r, "export_course_scores", "managed") /\ Go(r, "count")
  \/ MemberProgress(r, "export_course_scores")
  \/ /\ At(r, "export_course_scores", "progress")
     /\ IF local[r].seen = {} THEN Go(r, "reply") ELSE Refuse(r, "500")

CourseStep(r) ==
  \/ ListCourses(r) \/ CreateCourse(r) \/ UpdateCourse(r) \/ DeleteCourse(r)
  \/ JoinCourse(r) \/ InviteMember(r) \/ RemoveMember(r) \/ ImportStudents(r)
  \/ AssignCourseProblem(r) \/ UnassignCourseProblem(r)
  \/ CourseDetail(r) \/ ExportCourseScores(r)
=============================================================================
