---------------------------- MODULE WebTierProofs ---------------------------
(***************************************************************************)
(* Every handler of the web tier only takes steps a session can take, so   *)
(* what WebSessionProofs shows of sessions holds of the web tier; the      *)
(* letters of contest problems are stored in upper case; an id keeps its   *)
(* table; a contest that ends before it starts was updated twice; a page's *)
(* rows and total agree unless a commit came between the two queries; the  *)
(* tags of a problem are those of one request; an answered import has      *)
(* every student of its file; and a request by itself fails only for the   *)
(* reasons FailsAlone names.                                               *)
(***************************************************************************)
EXTENDS WebTier, WebSessionProofs, FiniteSetTheorems

(* A letter as it is stored; Null is none.                                 *)
Lettered(row) ==
  row.table = "contest_problem" =>
    "letter" \in DOMAIN row /\ row.letter = Upper(row.letter) /\ row.letter # Null
(* A course's invite code is its own.                                      *)
Coded(i, row) ==
  row.table = "course" =>
    "invite" \in DOMAIN row /\ (row.invite \in Requests \X Nat => row.invite = i)
LettersIn(w) ==
  \A i \in Ids : /\ Updates(w, i) => {"letter", "invite"} \cap DOMAIN w[i] = {}
                 /\ Inserts(w, i) => Lettered(w[i]) /\ Coded(i, w[i])

(* The window of a contest: a new one has it in order, and only the update *)
(* of a contest sets it.                                                   *)
Window == {"start", "end"}
Windowed(row) == row.table = "contest" => Window \subseteq DOMAIN row
Backwards(row) == row.table = "contest" /\ row.end <= row.start
SetsWindow(r, i) == op[r].kind = "update_contest" /\ op[r].id = i
WindowsIn(r, w) ==
  \A i \in Ids : /\ Updates(w, i) /\ ~SetsWindow(r, i) => Window \cap DOMAIN w[i] = {}
                 /\ Inserts(w, i) => Windowed(w[i]) /\ ~Backwards(w[i])

(* The tables the requests of a kind insert rows into and delete rows of,  *)
(* and those whose rows they update; Mutable are the ones updated at all.  *)
Mutable == {"contest", "course", "problem", "testcase"}
Sets(kind) ==
  CASE kind = "update_contest" -> {"contest"}
    [] kind = "update_course" -> {"course"}
    [] kind = "update_problem" -> {"problem"}
    [] kind = "update_testcase" -> {"testcase"}
    [] OTHER -> {}
Adds(kind) ==
  CASE kind = "register" -> {"user"}
    [] kind = "create_contest" -> {"contest"}
    [] kind = "register_contest" -> {"registration"}
    [] kind = "assign_contest_problem" -> {"contest_problem"}
    [] kind = "create_course" -> {"course"}
    [] kind \in {"join_course_by_invite", "invite_member"} -> {"enrollment"}
    [] kind = "import_students" -> {"user", "enrollment"}
    [] kind = "assign_course_problem" -> {"assignment"}
    [] kind = "create_problem" -> {"problem", "tag", "problem_tag"}
    [] kind = "update_problem" -> {"tag", "problem_tag"}
    [] kind \in {"create_testcase", "upload_testcases_zip"} -> {"testcase"}
    [] OTHER -> {}
Removes(kind) ==
  CASE kind = "delete_contest" -> {"contest", "contest_problem", "registration"}
    [] kind = "unassign_contest_problem" -> {"contest_problem"}
    [] kind = "delete_course" -> {"course", "enrollment", "assignment"}
    [] kind = "remove_member" -> {"enrollment"}
    [] kind = "unassign_course_problem" -> {"assignment"}
    [] kind = "delete_problem" -> {"problem", "testcase", "problem_tag", "submission",
                                   "contest_problem", "assignment"}
    [] kind = "delete_testcase" -> {"testcase"}
    [] kind \in TagKinds -> {"problem_tag"}
    [] OTHER -> {}

(* Row i, if it is there, is of table t for r, and remains so: no other    *)
(* request that is not saved has an id i to insert a row at.               *)
Stored(row) == row = NoRow \/ IsRow(row)
Typed(row) == row = Untouched \/ Stored(row)
KnownAs(r, i, t) ==
  i \in Ids => /\ \A o \in Requests \ {r} : i \in Own(o) => o \in saved
               /\ Exists(View(r)[i]) => View(r)[i].table = t
FitsIn(r, w) ==
  \A i \in Ids : /\ Deletes(w, i) => \E t \in Removes(op[r].kind) : KnownAs(r, i, t)
                 /\ Updates(w, i) =>
                      \E t \in Sets(op[r].kind) :
                        DOMAIN w[i] \subseteq Tables[t].columns /\ KnownAs(r, i, t)
                 /\ Inserts(w, i) => IsRow(w[i]) /\ w[i].table \in Adds(op[r].kind)

(* What a request goes by when it has been found that the user may make it.*)
Managed(r) ==
  /\ op[r].kind \in {"update_contest", "delete_contest"} => KnownAs(r, op[r].id, "contest")
  /\ op[r].kind \in {"update_course", "delete_course"} => KnownAs(r, op[r].id, "course")
ProgressKinds == {"course_detail", "export_course_scores"}
Labelled(r, w, label) ==
  /\ label = "managed" => w = NoWrite /\ Managed(r)
  /\ label \in {"tags", "unlinked"} => op[r].kind \in TagKinds
  /\ label = "progress" => op[r].kind \in ProgressKinds

(* A statement a handler may issue, and what a handler does with it.       *)
Issuable(r, w) ==
  /\ StmtOK(r, w) /\ w = [i \in Ids |-> w[i]]
  /\ LettersIn(w) /\ WindowsIn(r, w) /\ FitsIn(r, w)
Handled(r) ==
  \/ \E w, label : Continues(r, w, label) /\ Issuable(r, w) /\ Labelled(r, w, label)
  \/ Active(r) /\ Reply(r)
  \/ RollsBack(r)

LEMMA ProceedHandled ==
  ASSUME NEW r \in Requests, Active(r), NEW mem, NEW w, NEW label,
         label \notin {"start", "answered", "done"}, Issuable(r, w), Proceed(r, mem, w, label),
         Labelled(r, w, label)
  PROVE  Handled(r)
<1>1. Continues(r, w, label)
  BY DEF Proceed, Continues, Issuable
<1> QED
  BY <1>1 DEF Handled

LEMMA NoWriteIssuable == ASSUME NEW r \in Requests PROVE Issuable(r, NoWrite)
<1>1. \A i \in Ids : NoWrite[i] = Untouched
  BY NothingTouched
<1>2. \A i \in Ids : ~Updates(NoWrite, i) /\ ~Inserts(NoWrite, i) /\ ~Deletes(NoWrite, i)
  BY <1>1, Absent DEF Updates, Inserts, Deletes, Untouched
<1> QED
  BY <1>1, <1>2 DEF Issuable, StmtOK, LettersIn, WindowsIn, FitsIn, NoWrite

LEMMA OnlyDeletes ==
  ASSUME NEW r \in Requests, NEW S
  PROVE  /\ StmtOK(r, Delete(S)) /\ LettersIn(Delete(S)) /\ WindowsIn(r, Delete(S))
         /\ \A i \in Ids : /\ Deletes(Delete(S), i) => i \in S
                          /\ ~Updates(Delete(S), i) /\ ~Inserts(Delete(S), i)
<1>1. \A i \in Ids : \/ Delete(S)[i] = NoRow /\ i \in S
                     \/ Delete(S)[i] = Untouched
  BY DEF Delete
<1>2. \A i \in Ids : ~Updates(Delete(S), i) /\ ~Inserts(Delete(S), i)
  BY <1>1 DEF Updates, Inserts, Untouched, NoRow
<1>3. \A i \in Ids : Deletes(Delete(S), i) => i \in S
  BY <1>1, Absent DEF Deletes
<1> QED
  BY <1>1, <1>2, <1>3 DEF StmtOK, LettersIn, WindowsIn, Deletes

LEMMA DeleteIssuable ==
  ASSUME NEW r \in Requests, NEW S, NEW t \in Removes(op[r].kind),
         \A i \in S : KnownAs(r, i, t)
  PROVE  Issuable(r, Delete(S))
<1>1. FitsIn(r, Delete(S))
  BY OnlyDeletes DEF FitsIn
<1> QED
  BY <1>1, OnlyDeletes DEF Issuable, Delete

(* The tables requests delete rows of themselves.                          *)
LEMMA DeletedTables ==
  /\ {"contest", "contest_problem", "course", "enrollment", "assignment", "problem",
      "testcase", "problem_tag"} \subseteq DOMAIN Tables
  /\ "contest" \in Removes("delete_contest")
  /\ "contest_problem" \in Removes("unassign_contest_problem")
  /\ "course" \in Removes("delete_course")
  /\ "enrollment" \in Removes("remove_member")
  /\ "assignment" \in Removes("unassign_course_problem")
  /\ "problem" \in Removes("delete_problem")
  /\ "testcase" \in Removes("delete_testcase")
  /\ \A kind \in TagKinds : "problem_tag" \in Removes(kind)
  BY DEF Removes, Tables, TagKinds

(* The id of a row to insert is one of the request's own.                  *)
LEMMA NewIdOwn == ASSUME NEW r \in Requests, NewId(r) \in Ids PROVE NewId(r) \in Own(r)
<1> DEFINE S == Touched(writes[r]) \cap Own(r)
<1>1. IsFiniteSet(1..MaxNew)
  BY FS_Interval, MaxNewAssumption
<1>2. IsFiniteSet(Own(r))
  BY <1>1, FS_Singleton, FS_Product DEF Own
<1>3. IsFiniteSet(S)
  BY <1>2, FS_Subset
<1>4. Cardinality(S) \in Nat
  BY <1>3, FS_CardinalityType
<1>5. NewId(r) \in Requests \X Nat
  BY <1>4 DEF NewId
<1>6. NewId(r) \in Requests \X (1..MaxNew)
  BY <1>5, SeedAssumption DEF Ids
<1> QED
  BY <1>6 DEF NewId, Own

LEMMA InsertIssuable ==
  ASSUME NEW r \in Requests, NEW row, IsRow(row), row.table \in Adds(op[r].kind),
         \/ row.table \notin {"contest", "contest_problem"}
         \/ Lettered(row) /\ Windowed(row) /\ ~Backwards(row),
         row.table = "course" => row.invite = NewId(r)
  PROVE  Issuable(r, Put(NewId(r), row))
<1> DEFINE w == Put(NewId(r), row)
<1>1. \A i \in Ids : \/ w[i] = Untouched
                     \/ i = NewId(r) /\ w[i] = row
  BY DEF Put, NoWrite
<1>2. w = [i \in Ids |-> w[i]]
  BY DEF Put, NoWrite
<1>3. row # Untouched /\ row # NoRow /\ "table" \in DOMAIN row /\ Exists(row)
  BY Absent DEF IsRow, Exists
<1>4. ~("table" \notin DOMAIN Untouched)
  BY DEF Untouched
<1>5. StmtOK(r, w)
  BY <1>1, <1>3, NewIdOwn DEF StmtOK, Inserts, Updates
<1>6. LettersIn(w) /\ WindowsIn(r, w) /\ FitsIn(r, w)
  <2>1. Lettered(row) /\ Windowed(row) /\ ~Backwards(row) /\ Coded(NewId(r), row)
    BY DEF Lettered, Windowed, Backwards, Coded, IsRow, Tables, CourseTables
  <2>2. \A i \in Ids : /\ ~Updates(w, i) /\ ~Deletes(w, i)
                       /\ Inserts(w, i) => w[i] = row /\ i = NewId(r)
    BY <1>1, <1>3, <1>4, Absent DEF Inserts, Updates, Deletes
  <2> QED
    BY <2>1, <2>2 DEF LettersIn, WindowsIn, FitsIn
<1> QED
  BY <1>2, <1>5, <1>6 DEF Issuable

LEMMA UpdateIssuable ==
  ASSUME NEW r \in Requests, NEW id, NEW set, NEW row,
         NEW t \in Sets(op[r].kind), DOMAIN set \subseteq Tables[t].columns, KnownAs(r, id, t),
         {"table", "letter", "invite"} \cap DOMAIN set = {},
         SetsWindow(r, id) \/ Window \cap DOMAIN set = {}
  PROVE  Issuable(r, Update(id, set, row))
<1> DEFINE change == Changed(set, row)
           w == Put(id, change)
<1>1. /\ "table" \notin DOMAIN change /\ {"letter", "invite"} \cap DOMAIN change = {}
      /\ DOMAIN change \subseteq Tables[t].columns
      /\ SetsWindow(r, id) \/ Window \cap DOMAIN change = {}
  BY DEF Changed
<1>2. \A i \in Ids : w[i] = Untouched \/ (i = id /\ w[i] = change)
  BY DEF Put, NoWrite
<1>3. w = [i \in Ids |-> w[i]]
  BY DEF Put, NoWrite
<1>4. "table" \in DOMAIN Untouched
  BY DEF Untouched
<1>5. \A i \in Ids : /\ ~Inserts(w, i) /\ ~Deletes(w, i)
                     /\ Updates(w, i) => w[i] = change
  <2>1. NoRow # change /\ NoRow # Untouched
    BY <1>1, Absent DEF NoRow
  <2> QED
    BY <1>1, <1>2, <1>4, <2>1 DEF Inserts, Updates, Deletes
<1>6. StmtOK(r, w)
  BY <1>1, <1>2, <1>5 DEF StmtOK, Updates
<1>7. LettersIn(w)
  BY <1>1, <1>5 DEF LettersIn
<1>8. WindowsIn(r, w)
  BY <1>1, <1>2, <1>4, <1>5 DEF WindowsIn, Updates
<1>9. FitsIn(r, w)
  BY <1>1, <1>2, <1>4, <1>5 DEF FitsIn, Updates
<1> QED
  BY <1>3, <1>6, <1>7, <1>8, <1>9, NoWriteIssuable DEF Issuable, Update

LEMMA RefuseHandled ==
  ASSUME NEW r \in Requests, Active(r), NEW status \in Answers \ {"none"}, Refuse(r, status)
  PROVE  Handled(r)
<1>1. pc[r] # "done"
  BY DEF Active
<1> QED
  BY <1>1, RefuseRollsBack DEF Handled

(* The same for the ways of going on that have a name.                     *)
LEMMA GoHandled ==
  ASSUME NEW r \in Requests, Active(r), NEW label,
         label \notin {"start", "managed", "tags", "unlinked", "progress", "answered", "done"}, Go(r, label)
  PROVE  Handled(r)
<1>1. Proceed(r, local[r], NoWrite, label)
  BY DEF Go
<1> QED
  BY <1>1, ProceedHandled, NoWriteIssuable DEF Labelled

LEMMA KeepHandled ==
  ASSUME NEW r \in Requests, Active(r), NEW mem, NEW label,
         label \notin {"start", "managed", "tags", "unlinked", "progress", "answered", "done"}, Keep(r, mem, label)
  PROVE  Handled(r)
  BY ProceedHandled, NoWriteIssuable DEF Keep, Labelled

LEMMA IssueHandled ==
  ASSUME NEW r \in Requests, Active(r), NEW w, NEW label,
         label \notin {"start", "managed", "tags", "unlinked", "progress", "answered", "done"}, Issuable(r, w), Issue(r, w, label)
  PROVE  Handled(r)
<1>1. Proceed(r, local[r], w, label)
  BY DEF Issue
<1> QED
  BY <1>1, ProceedHandled DEF Labelled

(* A row that is seen or found is of the table it was looked for in.       *)
LEMMA SeenKnown ==
  ASSUME IInv, NEW r \in Requests, NEW t \in DOMAIN Tables, NEW i \in RowsOf(View(r), t)
  PROVE  i \in Ids /\ View(r)[i].table = t /\ KnownAs(r, i, t)
<1>1. i \in Ids /\ View(r)[i].table = t /\ Exists(View(r)[i])
  BY Domains DEF RowsOf, Exists, IInv
<1>2. ASSUME NEW o \in Requests \ {r}, i \in Own(o) PROVE o \in saved
  <2>1. i \notin Own(r)
    BY <1>2 DEF Own
  <2>2. Exists(db[i])
    BY <1>1, <2>1, ViewAt DEF IInv, Identity
  <2> QED
    BY <1>1, <1>2, <2>2 DEF IInv, Identity
<1> QED
  BY <1>1, <1>2 DEF KnownAs

LEMMA FoundKnown ==
  ASSUME IInv, NEW r \in Requests, NEW t \in DOMAIN Tables, NEW i, Exists(Row(r, t, i))
  PROVE  i \in Ids /\ Row(r, t, i) = View(r)[i] /\ View(r)[i].table = t /\ KnownAs(r, i, t)
<1>1. i \in RowsOf(View(r), t) /\ Row(r, t, i) = View(r)[i]
  BY Absent DEF Row
<1> QED
  BY <1>1, SeenKnown

LEMMA AtActive ==
  ASSUME NEW r \in Requests, NEW kind, NEW label, At(r, kind, label),
         label \notin {"answered", "done"}
  PROVE  Active(r)
  BY DEF At, Active

-----------------------------------------------------------------------------
(* The handlers of Accounts.                                               *)

LEMMA AccountHandled == ASSUME NEW r \in Requests, AccountStep(r) PROVE Handled(r)
<1>1. CASE RegisterUser(r)
  <2> DEFINE row == NewUser(op[r].email, op[r].username, op[r].role)
  <2>1. IsRow(row) /\ row.table = "user"
    BY DEF NewUser, IsRow, Tables, UserTables, ProblemTables,
       TestcaseTables, TagTables, ContestTables, CourseTables
  <2>2. op[r].kind = "register" /\ Active(r)
    BY <1>1, AtActive DEF RegisterUser, At
  <2>3. Issuable(r, Put(NewId(r), row))
    BY <2>1, <2>2, InsertIssuable DEF Adds
  <2>4. \/ Refuse(r, "400") \/ Go(r, "email_free") \/ Issue(r, Put(NewId(r), row), "reply")
    BY <1>1 DEF RegisterUser
  <2> HIDE DEF row
  <2> QED
    BY <2>2, <2>3, <2>4, RefuseHandled, GoHandled, IssueHandled DEF Answers
<1>2. CASE Login(r) \/ Me(r)
  BY <1>2, AtActive, RefuseHandled, GoHandled DEF Login, Me, Answers
<1>3. CASE Profile(r) \/ ForgotPassword(r) \/ ResetPassword(r)
  BY <1>3, AtActive, RefuseHandled DEF Profile, ForgotPassword, ResetPassword, Answers
<1> QED
  BY <1>1, <1>2, <1>3 DEF AccountStep

LEMMA AuthenticateHandled ==
  ASSUME IInv, NEW r \in Requests, Authenticate(r) PROVE Handled(r)
<1>1. Active(r)
  BY DEF Authenticate, IInv, Order, Active
<1>2. Refuse(r, "401") \/ Refuse(r, "403") \/ Go(r, "handler")
  BY DEF Authenticate
<1> QED
  BY <1>1, <1>2, RefuseHandled, GoHandled DEF Answers

LEMMA SerializeHandled == ASSUME NEW r \in Requests, Serialize(r) PROVE Handled(r)
<1>1. Active(r) /\ (Go(r, "reply") \/ Refuse(r, "500"))
  BY DEF Serialize, Active
<1> QED
  BY <1>1, RefuseHandled, GoHandled DEF Answers

LEMMA RefreshHandled == ASSUME NEW r \in Requests, Refresh(r) PROVE Handled(r)
<1>1. Active(r) /\ (Go(r, "reply") \/ Refuse(r, "500"))
  BY DEF Refresh, Active
<1> QED
  BY <1>1, RefuseHandled, GoHandled DEF Answers

-----------------------------------------------------------------------------
(* The handlers of Contests.                                               *)

LEMMA ManageContestHandled ==
  ASSUME IInv, NEW r \in Requests, NEW kind, kind \notin {"update_course", "delete_course"},
         ManageContest(r, kind)
  PROVE  Handled(r)
<1>1. Active(r) /\ op[r].kind = kind
  BY AtActive DEF ManageContest, At
<1>2. \/ Refuse(r, "500") \/ Refuse(r, "403")
      \/ Exists(Row(r, "contest", op[r].id)) /\ \E mem : Keep(r, mem, "managed")
  BY DEF ManageContest
<1>3. Exists(Row(r, "contest", op[r].id)) => Managed(r)
  BY <1>1, FoundKnown DEF Managed, Tables
<1> QED
  BY <1>1, <1>2, <1>3, RefuseHandled, ProceedHandled, NoWriteIssuable
  DEF Answers, Keep, Labelled

LEMMA SetIsSettable ==
  ASSUME NEW r \in Requests, op[r] \in Ops,
         op[r].kind \in {"update_contest", "update_course", "update_testcase"}
  PROVE  /\ {"table", "letter", "invite"} \cap DOMAIN op[r].set = {}
         /\ SetsWindow(r, op[r].id) \/ Window \cap DOMAIN op[r].set = {}
         /\ op[r].kind = "update_contest" => DOMAIN op[r].set \subseteq Tables["contest"].columns
         /\ op[r].kind = "update_course" => DOMAIN op[r].set \subseteq Tables["course"].columns
         /\ op[r].kind = "update_testcase" =>
              DOMAIN op[r].set \subseteq Tables["testcase"].columns
<1>1. DOMAIN op[r].set \subseteq Settable[op[r].kind]
  BY OpsAssumption DEF Settable
<1>2. /\ Settable["update_contest"] \subseteq Tables["contest"].columns
      /\ Settable["update_course"] \subseteq Tables["course"].columns
      /\ Settable["update_testcase"] \subseteq Tables["testcase"].columns
  BY DEF Settable, Tables, ContestTables, CourseTables, TestcaseTables
<1> QED
  BY <1>1, <1>2 DEF Settable, SetsWindow, Window

LEMMA ContestHandled ==
  ASSUME NEW r \in Requests, op[r] \in Ops, IInv, pc[r] = "managed" => Managed(r),
         ContestStep(r)
  PROVE  Handled(r)
<1>1. CASE CreateContest(r)
  <2> DEFINE row == NewContest(r)
  <2>1. IsRow(row) /\ Lettered(row) /\ Windowed(row)
    BY DEF NewContest, IsRow, Tables, UserTables, ProblemTables,
       TestcaseTables, TagTables, ContestTables, CourseTables, Lettered, Windowed, Window
  <2>2. op[r].kind = "create_contest" /\ Active(r) /\ row.table = "contest"
    BY <1>1, AtActive DEF CreateContest, At, NewContest
  <2>3. ~Backwards(row) => Issuable(r, Put(NewId(r), row))
    BY <2>1, <2>2, InsertIssuable DEF Adds
  <2>4. \/ Refuse(r, "400") \/ Refuse(r, "500")
        \/ Issue(r, Put(NewId(r), row), "reply") /\ ~Backwards(row)
    BY <1>1 DEF CreateContest, Backwards, NewContest
  <2> HIDE DEF row
  <2> QED
    BY <2>2, <2>3, <2>4, RefuseHandled, IssueHandled DEF Answers
<1>2. CASE UpdateContest(r)
  <2>1. CASE ManageContest(r, "update_contest")
    BY <2>1, ManageContestHandled
  <2>2. CASE At(r, "update_contest", "managed") /\ StoreContestUpdate(r)
    <3> DEFINE w == Update(op[r].id, op[r].set, Compared(r))
    <3>1. op[r].kind = "update_contest" /\ Active(r) /\ KnownAs(r, op[r].id, "contest")
      BY <2>2, AtActive DEF At, Managed
    <3>2. Issuable(r, w)
      BY <3>1, SetIsSettable, UpdateIssuable DEF Sets
    <3>3. Refuse(r, "400") \/ Refuse(r, "500") \/ Issue(r, w, "refresh")
      BY <2>2 DEF StoreContestUpdate
    <3> HIDE DEF w
    <3> QED
      BY <3>1, <3>2, <3>3, RefuseHandled, IssueHandled DEF Answers
  <2> QED
    BY <1>2, <2>1, <2>2 DEF UpdateContest
<1>3. CASE DeleteContest(r)
  <2>1. CASE ManageContest(r, "delete_contest")
    BY <2>1, ManageContestHandled
  <2>2. CASE At(r, "delete_contest", "managed") /\ Issue(r, Delete({op[r].id}), "reply")
    <3>1. Active(r) /\ op[r].kind = "delete_contest" /\ KnownAs(r, op[r].id, "contest")
      BY <2>2, AtActive DEF At, Managed
    <3>2. Issuable(r, Delete({op[r].id}))
      BY <3>1, DeletedTables, DeleteIssuable
    <3> QED
      BY <2>2, <3>1, <3>2, IssueHandled
  <2> QED
    BY <1>3, <2>1, <2>2 DEF DeleteContest
<1>4. CASE RegisterForContest(r)
  <2> DEFINE row == [table |-> "registration", contest |-> op[r].id, user |-> op[r].user]
  <2>1. IsRow(row) /\ row.table = "registration"
    BY DEF IsRow, Tables, UserTables, ProblemTables,
       TestcaseTables, TagTables, ContestTables, CourseTables
  <2>2. op[r].kind = "register_contest" /\ Active(r)
    BY <1>4, AtActive DEF RegisterForContest, At
  <2>3. Issuable(r, Put(NewId(r), row))
    BY <2>1, <2>2, InsertIssuable DEF Adds
  <2>4. \/ Refuse(r, "400") \/ Go(r, "unlocked") \/ Go(r, "reply")
        \/ Issue(r, Put(NewId(r), row), "reply")
    BY <1>4 DEF RegisterForContest, StoreRegistration
  <2> HIDE DEF row
  <2> QED
    BY <2>2, <2>3, <2>4, RefuseHandled, GoHandled, IssueHandled DEF Answers
<1>5. CASE AssignContestProblem(r)
  <2>1. CASE ManageContest(r, "assign_contest_problem")
    BY <2>1, ManageContestHandled
  <2>2. CASE ~ManageContest(r, "assign_contest_problem")
    <3> DEFINE row == [table |-> "contest_problem", contest |-> op[r].id,
                       problem |-> op[r].problem, letter |-> Upper(op[r].letter)]
    <3>1. Active(r) /\ op[r].kind = "assign_contest_problem"
      BY <1>5, <2>2, AtActive DEF AssignContestProblem, At
    <3>2. Upper(op[r].letter) # Null /\ Upper(Upper(op[r].letter)) = Upper(op[r].letter)
      BY <3>1, OpsAssumption DEF Upper
    <3>3. /\ IsRow(row)
          /\ Lettered(row) /\ Windowed(row) /\ ~Backwards(row)
      BY <3>2 DEF IsRow, Tables, UserTables, ProblemTables,
       TestcaseTables, TagTables, ContestTables, CourseTables, Lettered, Windowed, Backwards
    <3>4. Issuable(r, Put(NewId(r), row))
      BY <3>1, <3>3, InsertIssuable DEF Adds
    <3>5. \/ Refuse(r, "400") \/ Refuse(r, "404") \/ Go(r, "problem_found")
          \/ Issue(r, Put(NewId(r), row), "reply")
      BY <1>5, <2>2 DEF AssignContestProblem, StoreContestProblem
    <3> HIDE DEF row
    <3> QED
      BY <3>1, <3>4, <3>5, RefuseHandled, GoHandled, IssueHandled DEF Answers
  <2> QED
    BY <2>1, <2>2
<1>6. CASE UnassignContestProblem(r)
  <2>1. CASE ManageContest(r, "unassign_contest_problem")
    BY <2>1, ManageContestHandled
  <2>2. CASE ~ManageContest(r, "unassign_contest_problem")
    <3>1. /\ Active(r) /\ op[r].kind = "unassign_contest_problem"
          /\ \/ /\ Exists(Row(r, "contest_problem", op[r].row))
                /\ Issue(r, Delete({op[r].row}), "reply")
             \/ Go(r, "reply")
      BY <1>6, <2>2, AtActive DEF UnassignContestProblem, At
    <3>2. Exists(Row(r, "contest_problem", op[r].row)) => Issuable(r, Delete({op[r].row}))
      BY <3>1, FoundKnown, DeletedTables, DeleteIssuable
    <3> QED
      BY <3>1, <3>2, IssueHandled, GoHandled
  <2> QED
    BY <2>1, <2>2
<1>7. CASE ListContests(r)
  BY <1>7, AtActive, KeepHandled DEF ListContests
<1>8. CASE ContestDetail(r)
  <2>1. Active(r)
    BY <1>8, AtActive DEF ContestDetail
  <2>2. \/ Refuse(r, "404")
        \/ \E mem : Keep(r, mem, "viewed") \/ Keep(r, mem, "listed") \/ Keep(r, mem, "page")
    BY <1>8 DEF ContestDetail
  <2> QED
    BY <2>1, <2>2, RefuseHandled, KeepHandled DEF Answers
<1>9. CASE ShowLeaderboard(r)
  <2>1. Active(r)
    BY <1>9, AtActive DEF ShowLeaderboard
  <2>2. \/ Refuse(r, "500") \/ Refuse(r, "403") \/ Go(r, "viewed")
        \/ \E mem : Keep(r, mem, "listed") \/ Keep(r, mem, "page")
    BY <1>9 DEF ShowLeaderboard
  <2> QED
    BY <2>1, <2>2, RefuseHandled, GoHandled, KeepHandled DEF Answers
<1> QED
  BY <1>1, <1>2, <1>3, <1>4, <1>5, <1>6, <1>7, <1>8, <1>9 DEF ContestStep

-----------------------------------------------------------------------------
(* The handlers of Courses.                                                *)

LEMMA ManageCourseHandled ==
  ASSUME IInv, NEW r \in Requests, NEW kind, kind \notin {"update_contest", "delete_contest"},
         ManageCourse(r, kind)
  PROVE  Handled(r)
<1>1. Active(r) /\ op[r].kind = kind
  BY AtActive DEF ManageCourse, At
<1>2. \/ Refuse(r, "500") \/ Refuse(r, "403")
      \/ Exists(Row(r, "course", op[r].id)) /\ \E mem : Keep(r, mem, "managed")
  BY DEF ManageCourse
<1>3. Exists(Row(r, "course", op[r].id)) => Managed(r)
  BY <1>1, FoundKnown DEF Managed, Tables
<1> QED
  BY <1>1, <1>2, <1>3, RefuseHandled, ProceedHandled, NoWriteIssuable
  DEF Answers, Keep, Labelled

LEMMA EnrollmentIssuable ==
  ASSUME NEW r \in Requests, NEW c, NEW u,
         op[r].kind \in {"join_course_by_invite", "invite_member", "import_students"}
  PROVE  Issuable(r, Put(NewId(r), Enrollment(c, u)))
<1>1. LET row == Enrollment(c, u)
      IN IsRow(row) /\ row.table = "enrollment"
  BY DEF Enrollment, IsRow, Tables, UserTables, ProblemTables,
       TestcaseTables, TagTables, ContestTables, CourseTables
<1> QED
  BY <1>1, InsertIssuable DEF Adds

LEMMA ImportHandled ==
  ASSUME IInv, NEW r \in Requests, ImportStudents(r) PROVE Handled(r)
<1>1. CASE ManageCourse(r, "import_students")
  BY <1>1, ManageCourseHandled
<1>2. CASE At(r, "import_students", "managed") /\ Go(r, "row")
  BY <1>2, AtActive, GoHandled
<1>3. CASE FindUser(r)
  <2>1. Active(r)
    BY <1>3, AtActive DEF FindUser
  <2>2. \/ Refuse(r, "500") \/ Go(r, "no_user")
        \/ \E mem : Keep(r, mem, "row") \/ Keep(r, mem, "user_added")
    BY <1>3 DEF FindUser, RowDone
  <2> QED
    BY <2>1, <2>2, RefuseHandled, GoHandled, KeepHandled DEF Answers
<1>4. CASE NameUser(r)
  <2>1. Active(r) /\ op[r].kind = "import_students"
    BY <1>4, AtActive DEF NameUser, At
  <2>2. ASSUME NEW name, CreateUser(r, name) PROVE Handled(r)
    <3> DEFINE row == [NewUser(CsvRow(r).email, name, "student")
                         EXCEPT !.student_code = CsvRow(r).code]
               mem == [local[r] EXCEPT !.ids = <<NewId(r)>>]
    <3>1. IsRow(row) /\ row.table = "user"
      BY DEF NewUser, IsRow, Tables, UserTables, ProblemTables,
       TestcaseTables, TagTables, ContestTables, CourseTables
    <3>2. Issuable(r, Put(NewId(r), row))
      <4>1. row.table \in Adds(op[r].kind)
        BY <2>1, <3>1 DEF Adds
      <4> QED
        BY <3>1, <4>1, InsertIssuable
    <3>3. Proceed(r, mem, Put(NewId(r), row), "user_added")
      BY <2>2 DEF CreateUser
    <3> HIDE DEF row, mem
    <3> QED
      BY <2>1, <3>2, <3>3, ProceedHandled DEF Labelled
  <2>3. Go(r, "name_taken") \/ \E name : CreateUser(r, name)
    BY <1>4 DEF NameUser
  <2> QED
    BY <2>1, <2>2, <2>3, GoHandled
<1>5. CASE EnrollUser(r)
  <2> DEFINE w == Put(NewId(r), Enrollment(op[r].id, local[r].ids[1]))
  <2>1. Active(r) /\ op[r].kind = "import_students"
    BY <1>5, AtActive DEF EnrollUser, At
  <2>2. Issue(r, w, "enrolled") \/ \E mem : Keep(r, mem, "row")
    BY <1>5 DEF EnrollUser, RowDone
  <2>3. Issuable(r, w)
    BY <2>1, EnrollmentIssuable
  <2> HIDE DEF w
  <2> QED
    BY <2>1, <2>2, <2>3, IssueHandled, KeepHandled
<1>6. CASE At(r, "import_students", "row") /\ Go(r, "reply")
  BY <1>6, AtActive, GoHandled
<1> QED
  BY <1>1, <1>2, <1>3, <1>4, <1>5, <1>6 DEF ImportStudents

LEMMA MemberProgressHandled ==
  ASSUME NEW r \in Requests, NEW kind \in ProgressKinds, MemberProgress(r, kind)
  PROVE  Handled(r)
<1>1. Active(r) /\ op[r].kind = kind
  BY AtActive DEF MemberProgress, At
<1>2. \E mem : \/ Keep(r, mem, "members") \/ Keep(r, mem, "problems")
               \/ Keep(r, mem, "accepted") \/ Keep(r, mem, "progress")
  BY DEF MemberProgress
<1> QED
  BY <1>1, <1>2, ProceedHandled, NoWriteIssuable DEF Keep, Labelled

LEMMA CourseHandled ==
  ASSUME NEW r \in Requests, op[r] \in Ops, IInv, pc[r] = "managed" => Managed(r),
         CourseStep(r)
  PROVE  Handled(r)
<1>1. CASE ListCourses(r)
  BY <1>1, AtActive, KeepHandled DEF ListCourses
<1>2. CASE CreateCourse(r)
  <2> DEFINE row == [table |-> "course", code |-> op[r].code, invite |-> NewId(r),
                     owner |-> op[r].user]
  <2>1. IsRow(row) /\ row.table = "course"
    BY DEF IsRow, Tables, UserTables, ProblemTables,
       TestcaseTables, TagTables, ContestTables, CourseTables
  <2>2. op[r].kind = "create_course" /\ Active(r)
    BY <1>2, AtActive DEF CreateCourse, At
  <2>3. Issuable(r, Put(NewId(r), row))
    BY <2>1, <2>2, InsertIssuable DEF Adds
  <2>4. Refuse(r, "400") \/ Issue(r, Put(NewId(r), row), "reply")
    BY <1>2 DEF CreateCourse, StoreCourse
  <2> HIDE DEF row
  <2> QED
    BY <2>2, <2>3, <2>4, RefuseHandled, IssueHandled DEF Answers
<1>3. CASE UpdateCourse(r)
  <2>1. CASE ManageCourse(r, "update_course")
    BY <2>1, ManageCourseHandled
  <2>2. CASE At(r, "update_course", "managed") /\ StoreCourseUpdate(r)
    <3> DEFINE w == Update(op[r].id, op[r].set, local[r].row)
    <3>1. op[r].kind = "update_course" /\ Active(r) /\ KnownAs(r, op[r].id, "course")
      BY <2>2, AtActive DEF At, Managed
    <3>2. Issuable(r, w)
      BY <3>1, SetIsSettable, UpdateIssuable DEF Sets
    <3>3. Refuse(r, "400") \/ Issue(r, w, "refresh")
      BY <2>2 DEF StoreCourseUpdate
    <3> HIDE DEF w
    <3> QED
      BY <3>1, <3>2, <3>3, RefuseHandled, IssueHandled DEF Answers
  <2> QED
    BY <1>3, <2>1, <2>2 DEF UpdateCourse
<1>4. CASE DeleteCourse(r)
  <2>1. CASE ManageCourse(r, "delete_course")
    BY <2>1, ManageCourseHandled
  <2>2. CASE At(r, "delete_course", "managed") /\ Issue(r, Delete({op[r].id}), "reply")
    <3>1. Active(r) /\ op[r].kind = "delete_course" /\ KnownAs(r, op[r].id, "course")
      BY <2>2, AtActive DEF At, Managed
    <3>2. Issuable(r, Delete({op[r].id}))
      BY <3>1, DeletedTables, DeleteIssuable
    <3> QED
      BY <2>2, <3>1, <3>2, IssueHandled
  <2> QED
    BY <1>4, <2>1, <2>2 DEF DeleteCourse
<1>5. CASE JoinCourse(r)
  <2> DEFINE w == Put(NewId(r), Enrollment(local[r].ids[1], op[r].user))
  <2>1. Active(r) /\ op[r].kind = "join_course_by_invite"
    BY <1>5, AtActive DEF JoinCourse, EnrollByInviteCode, At
  <2>2. \/ Refuse(r, "400") \/ Issue(r, w, "reply")
        \/ \E mem : Keep(r, mem, "course_found")
    BY <1>5 DEF JoinCourse, EnrollByInviteCode
  <2>3. Issuable(r, w)
    BY <2>1, EnrollmentIssuable
  <2> HIDE DEF w
  <2> QED
    BY <2>1, <2>2, <2>3, RefuseHandled, IssueHandled, KeepHandled DEF Answers
<1>6. CASE InviteMember(r)
  <2>1. CASE ManageCourse(r, "invite_member")
    BY <2>1, ManageCourseHandled
  <2>2. CASE EnrollByIdentifier(r)
    <3> DEFINE w == Put(NewId(r), Enrollment(op[r].id, local[r].ids[1]))
    <3>1. Active(r) /\ op[r].kind = "invite_member"
      BY <2>2, AtActive DEF EnrollByIdentifier, At
    <3>2. \/ Refuse(r, "400") \/ Refuse(r, "500") \/ Issue(r, w, "reply")
          \/ \E mem : Keep(r, mem, "user_found")
      BY <2>2 DEF EnrollByIdentifier
    <3>3. Issuable(r, w)
      BY <3>1, EnrollmentIssuable
    <3> HIDE DEF w
    <3> QED
      BY <3>1, <3>2, <3>3, RefuseHandled, IssueHandled, KeepHandled DEF Answers
  <2> QED
    BY <1>6, <2>1, <2>2 DEF InviteMember
<1>7. CASE RemoveMember(r)
  <2>1. CASE ManageCourse(r, "remove_member")
    BY <2>1, ManageCourseHandled
  <2>2. CASE ~ManageCourse(r, "remove_member")
    <3>1. /\ Active(r) /\ op[r].kind = "remove_member"
          /\ \/ /\ Exists(Row(r, "enrollment", op[r].row))
                /\ Issue(r, Delete({op[r].row}), "reply")
             \/ Go(r, "reply")
      BY <1>7, <2>2, AtActive DEF RemoveMember, At
    <3>2. Exists(Row(r, "enrollment", op[r].row)) => Issuable(r, Delete({op[r].row}))
      BY <3>1, FoundKnown, DeletedTables, DeleteIssuable
    <3> QED
      BY <3>1, <3>2, IssueHandled, GoHandled
  <2> QED
    BY <2>1, <2>2
<1>8. CASE ImportStudents(r)
  BY <1>8, ImportHandled
<1>9. CASE AssignCourseProblem(r)
  <2>1. CASE ManageCourse(r, "assign_course_problem")
    BY <2>1, ManageCourseHandled
  <2>2. CASE ~ManageCourse(r, "assign_course_problem")
    <3> DEFINE row == [table |-> "assignment", course |-> op[r].id,
                       problem |-> op[r].problem]
    <3>1. IsRow(row) /\ row.table = "assignment"
      BY DEF IsRow, Tables, UserTables, ProblemTables,
       TestcaseTables, TagTables, ContestTables, CourseTables
    <3>2. op[r].kind = "assign_course_problem" /\ Active(r)
      BY <1>9, <2>2, AtActive DEF AssignCourseProblem, At
    <3>3. Issuable(r, Put(NewId(r), row))
      BY <3>1, <3>2, InsertIssuable DEF Adds
    <3>4. \/ Refuse(r, "400") \/ Refuse(r, "404") \/ Go(r, "problem_found")
          \/ Issue(r, Put(NewId(r), row), "reply")
      BY <1>9, <2>2 DEF AssignCourseProblem, StoreAssignment
    <3> HIDE DEF row
    <3> QED
      BY <3>2, <3>3, <3>4, RefuseHandled, GoHandled, IssueHandled DEF Answers
  <2> QED
    BY <2>1, <2>2
<1>10. CASE UnassignCourseProblem(r)
  <2>1. CASE ManageCourse(r, "unassign_course_problem")
    BY <2>1, ManageCourseHandled
  <2>2. CASE ~ManageCourse(r, "unassign_course_problem")
    <3>1. /\ Active(r) /\ op[r].kind = "unassign_course_problem"
          /\ \/ /\ Exists(Row(r, "assignment", op[r].row))
                /\ Issue(r, Delete({op[r].row}), "reply")
             \/ Go(r, "reply")
      BY <1>10, <2>2, AtActive DEF UnassignCourseProblem, At
    <3>2. Exists(Row(r, "assignment", op[r].row)) => Issuable(r, Delete({op[r].row}))
      BY <3>1, FoundKnown, DeletedTables, DeleteIssuable
    <3> QED
      BY <3>1, <3>2, IssueHandled, GoHandled
  <2> QED
    BY <2>1, <2>2
<1>11. CASE CourseDetail(r)
  <2>1. CASE MemberProgress(r, "course_detail")
    BY <2>1, MemberProgressHandled DEF ProgressKinds
  <2>2. CASE ~MemberProgress(r, "course_detail")
    <3>1. Active(r)
      BY <1>11, <2>2, AtActive DEF CourseDetail
    <3>2. \/ Refuse(r, "404") \/ Refuse(r, "403") \/ Go(r, "count") \/ Go(r, "page")
          \/ \E mem : Keep(r, mem, "loaded")
      BY <1>11, <2>2 DEF CourseDetail
    <3> QED
      BY <3>1, <3>2, RefuseHandled, GoHandled, KeepHandled DEF Answers
  <2> QED
    BY <2>1, <2>2
<1>12. CASE ExportCourseScores(r)
  <2>1. CASE ManageCourse(r, "export_course_scores")
    BY <2>1, ManageCourseHandled
  <2>2. CASE MemberProgress(r, "export_course_scores")
    BY <2>2, MemberProgressHandled DEF ProgressKinds
  <2>3. CASE ~ManageCourse(r, "export_course_scores")
             /\ ~MemberProgress(r, "export_course_scores")
    <3>1. Active(r)
      BY <1>12, <2>3, AtActive DEF ExportCourseScores
    <3>2. Refuse(r, "500") \/ Go(r, "count") \/ Go(r, "reply")
      BY <1>12, <2>3 DEF ExportCourseScores
    <3> QED
      BY <3>1, <3>2, RefuseHandled, GoHandled DEF Answers
  <2> QED
    BY <2>1, <2>2, <2>3
<1> QED
  BY <1>1, <1>2, <1>3, <1>4, <1>5, <1>6, <1>7, <1>8, <1>9, <1>10, <1>11, <1>12 DEF CourseStep

-----------------------------------------------------------------------------
(* The handlers of ProblemSet.                                             *)

LEMMA GetOrCreateTagHandled ==
  ASSUME NEW r \in Requests, op[r].kind \in TagKinds, GetOrCreateTag(r) PROVE Handled(r)
<1> DEFINE row == [table |-> "tag", slug |-> Lower(op[r].tags[Len(local[r].ids) + 1])]
<1>1. IsRow(row) /\ row.table = "tag"
  BY DEF IsRow, Tables, UserTables, ProblemTables,
       TestcaseTables, TagTables, ContestTables, CourseTables
<1>2. Issuable(r, Put(NewId(r), row))
  BY <1>1, InsertIssuable DEF Adds, TagKinds
<1>3. Active(r)
  BY DEF GetOrCreateTag, Active
<1>4. \E mem : Proceed(r, mem, Put(NewId(r), row), "tags") \/ Keep(r, mem, "tags")
  BY DEF GetOrCreateTag
<1> HIDE DEF row
<1> QED
  BY <1>2, <1>3, <1>4, ProceedHandled, NoWriteIssuable DEF Keep, Labelled

LEMMA ReplaceTagsHandled ==
  ASSUME IInv, NEW r \in Requests, op[r].kind \in TagKinds, ReplaceTags(r) PROVE Handled(r)
<1> DEFINE row == [table |-> "problem_tag", problem |-> ProblemOf(r),
                   tag |-> local[r].ids[local[r].n + 1]]
           old == Delete(TagLinks(View(r), ProblemOf(r)))
<1>1. IsRow(row) /\ row.table = "problem_tag"
  BY DEF IsRow, Tables, UserTables, ProblemTables,
       TestcaseTables, TagTables, ContestTables, CourseTables
<1>2. Issuable(r, Put(NewId(r), row))
  BY <1>1, InsertIssuable DEF Adds, TagKinds
<1>0. Issuable(r, old)
  <2>1. \A i \in TagLinks(View(r), ProblemOf(r)) : KnownAs(r, i, "problem_tag")
    BY SeenKnown DEF TagLinks, Tables
  <2>2. "problem_tag" \in Removes(op[r].kind)
    BY DeletedTables
  <2> QED
    BY <2>1, <2>2, DeleteIssuable
<1>3. Active(r)
  BY DEF ReplaceTags, Active
<1>4. \/ Go(r, "reply") \/ Issue(r, old, "unlinked")
      \/ \E mem : Proceed(r, mem, Put(NewId(r), row), "unlinked")
  BY DEF ReplaceTags
<1> HIDE DEF row, old
<1> QED
  BY <1>0, <1>2, <1>3, <1>4, GoHandled, ProceedHandled DEF Issue, Labelled

LEMMA TestcaseIssuable ==
  ASSUME NEW r \in Requests, NEW order,
         op[r].kind \in {"create_testcase", "upload_testcases_zip"}
  PROVE  Issuable(r, Put(NewId(r), Testcase(r, order)))
<1>1. LET row == Testcase(r, order)
      IN IsRow(row) /\ row.table = "testcase"
  BY DEF Testcase, IsRow, Tables, UserTables, ProblemTables,
       TestcaseTables, TagTables, ContestTables, CourseTables
<1> QED
  BY <1>1, InsertIssuable DEF Adds

LEMMA ProblemHandled ==
  ASSUME NEW r \in Requests, op[r] \in Ops, IInv,
         pc[r] \in {"tags", "unlinked"} => op[r].kind \in TagKinds, ProblemStep(r)
  PROVE  Handled(r)
<1>1. TagsOrReply(r) \notin {"start", "managed", "progress", "answered", "done"}
  BY DEF TagsOrReply
<1>2. CASE GetOrCreateTag(r) \/ ReplaceTags(r)
  <2>1. op[r].kind \in TagKinds
    BY <1>2 DEF GetOrCreateTag, ReplaceTags
  <2> QED
    BY <1>2, <2>1, GetOrCreateTagHandled, ReplaceTagsHandled
<1>3. CASE CreateProblem(r)
  <2> DEFINE row == [table |-> "problem", body |-> op[r].body, author |-> op[r].user]
  <2>1. IsRow(row) /\ row.table = "problem"
    BY DEF IsRow, Tables, UserTables, ProblemTables,
       TestcaseTables, TagTables, ContestTables, CourseTables
  <2>2. /\ op[r].kind = "create_problem" /\ Active(r)
        /\ Proceed(r, local[r], Put(NewId(r), row), TagsOrReply(r))
    BY <1>3, AtActive DEF CreateProblem, At, Issue
  <2>3. Issuable(r, Put(NewId(r), row))
    BY <2>1, <2>2, InsertIssuable DEF Adds
  <2>4. Labelled(r, Put(NewId(r), row), TagsOrReply(r))
    BY <1>1, <2>2 DEF Labelled, TagKinds
  <2> HIDE DEF row
  <2> QED
    BY <1>1, <2>2, <2>3, <2>4, ProceedHandled
<1>4. CASE UpdateProblem(r)
  <2> DEFINE w == Update(op[r].id, [body |-> op[r].body], Row(r, "problem", op[r].id))
  <2>1. Exists(Row(r, "problem", op[r].id)) => Issuable(r, w)
    <3>1. {"body"} \subseteq Tables["problem"].columns /\ "problem" \in DOMAIN Tables
      BY DEF Tables, ProblemTables
    <3> QED
      BY <1>4, <3>1, FoundKnown, UpdateIssuable DEF Window, Sets, UpdateProblem, At
  <2>2. Active(r) /\ op[r].kind = "update_problem"
    BY <1>4, AtActive DEF UpdateProblem, At
  <2>3. \/ Exists(Row(r, "problem", op[r].id)) /\ Issue(r, w, "updated")
        \/ Go(r, TagsOrReply(r))
        \/ Refuse(r, "404") \/ Refuse(r, "500")
    BY <1>4 DEF UpdateProblem
  <2> HIDE DEF w
  <2> QED
    BY <1>1, <2>1, <2>2, <2>3, IssueHandled, ProceedHandled, NoWriteIssuable, RefuseHandled
    DEF Answers, Go, Labelled, TagKinds
<1>5. CASE DeleteProblem(r) \/ DeleteTestcase(r)
  <2>1. Active(r)
    BY <1>5, AtActive DEF DeleteProblem, DeleteTestcase
  <2>2. \/ \E t \in {"problem", "testcase"} :
             /\ <<op[r].kind, t>> \in {<<"delete_problem", "problem">>,
                                       <<"delete_testcase", "testcase">>}
             /\ Exists(Row(r, t, op[r].id)) /\ Issue(r, Delete({op[r].id}), "reply")
        \/ Go(r, "reply") \/ Refuse(r, "404")
    BY <1>5 DEF DeleteProblem, DeleteTestcase, At
  <2>3. ASSUME NEW t \in {"problem", "testcase"}, Exists(Row(r, t, op[r].id)),
               <<op[r].kind, t>> \in {<<"delete_problem", "problem">>,
                                      <<"delete_testcase", "testcase">>}
        PROVE  Issuable(r, Delete({op[r].id}))
    <3>1. t \in DOMAIN Tables /\ t \in Removes(op[r].kind)
      BY <2>3, DeletedTables
    <3> QED
      BY <2>3, <3>1, FoundKnown, DeleteIssuable
  <2> QED
    BY <2>1, <2>2, <2>3, IssueHandled, GoHandled, RefuseHandled DEF Answers
<1>6. CASE ProblemDetail(r) \/ ListTestcases(r)
  <2>1. Active(r)
    BY <1>6, AtActive DEF ProblemDetail, ListTestcases
  <2>2. \/ Go(r, "found") \/ Refuse(r, "404")
        \/ \E mem : Keep(r, mem, "cases") \/ Keep(r, mem, "page")
    BY <1>6 DEF ProblemDetail, ListTestcases
  <2> QED
    BY <2>1, <2>2, GoHandled, RefuseHandled, KeepHandled DEF Answers
<1>7. CASE CreateTestcase(r)
  <2> DEFINE w == Put(NewId(r), Testcase(r, op[r].order))
  <2>1. Active(r) /\ Issue(r, w, "reply") /\ op[r].kind = "create_testcase"
    BY <1>7, AtActive DEF CreateTestcase, At
  <2>2. Issuable(r, w)
    BY <2>1, TestcaseIssuable
  <2> HIDE DEF w
  <2> QED
    BY <2>1, <2>2, IssueHandled
<1>8. CASE UpdateTestcase(r)
  <2> DEFINE w == Update(op[r].id, op[r].set, Row(r, "testcase", op[r].id))
  <2>1. Active(r) /\ op[r].kind = "update_testcase"
    BY <1>8, AtActive DEF UpdateTestcase, At
  <2>2. Exists(Row(r, "testcase", op[r].id)) => Issuable(r, w)
    BY <2>1, FoundKnown, SetIsSettable, UpdateIssuable DEF Tables, Sets
  <2>3. (Exists(Row(r, "testcase", op[r].id)) /\ Issue(r, w, "refresh")) \/ Go(r, "reply")
    BY <1>8 DEF UpdateTestcase
  <2> HIDE DEF w
  <2> QED
    BY <2>1, <2>2, <2>3, IssueHandled, GoHandled
<1>9. CASE UploadTestcasesZip(r)
  <2> DEFINE w == Put(NewId(r), Testcase(r, local[r].good))
  <2>1. Active(r) /\ op[r].kind = "upload_testcases_zip"
    BY <1>9, AtActive DEF UploadTestcasesZip, At
  <2>2. Issuable(r, w)
    BY <2>1, TestcaseIssuable
  <2>3. \/ Go(r, "pair") \/ Go(r, "reply") \/ Issue(r, w, "testcase_added")
        \/ \E mem : Keep(r, mem, "pair")
    BY <1>9 DEF UploadTestcasesZip
  <2> HIDE DEF w
  <2> QED
    BY <2>1, <2>2, <2>3, IssueHandled, GoHandled, KeepHandled
<1> QED
  BY <1>2, <1>3, <1>4, <1>5, <1>6, <1>7, <1>8, <1>9 DEF ProblemStep

-----------------------------------------------------------------------------
(* The rows are rows of the schema, and statements fit them.               *)
Typing ==
  /\ \A i \in Ids : Stored(db[i])
  /\ \A r \in Requests : \A i \in Ids : Typed(writes[r][i])
  /\ \A r \in Requests : FitsIn(r, stmt[r])
  /\ \A r \in Requests : Labelled(r, stmt[r], pc[r])

(* The invariant of the web tier.                                          *)
WInv == IInv /\ op \in [Requests -> Ops] /\ Typing

(* Every step is a step of the request's session.                          *)

WebStep(r) ==
  \/ Handled(r)
  \/ stmt[r] # NoWrite /\ Executed(r)
  \/ Commits(r)

Acts(r) == Step(r) \/ DeadlockVictim(r) \/ ConnectionLost(r)

LEMMA ActsIsWebStep ==
  ASSUME WInv, NEW r \in Requests, Acts(r)
  PROVE  WebStep(r)
<1> USE DEF WInv
<1>1. Step(r) \/ DeadlockVictim(r) \/ ConnectionLost(r)
  BY DEF Acts
<1>2. /\ op[r] \in Ops /\ (pc[r] = "managed" => Managed(r))
      /\ pc[r] \in {"tags", "unlinked"} => op[r].kind \in TagKinds
  BY DEF Typing, Labelled
<1>3. CASE Authenticate(r)
  BY <1>3, AuthenticateHandled DEF WebStep
<1>4. CASE Execute(r)
  BY <1>4, ExecuteShape DEF WebStep, Handled
<1>5. CASE Respond(r)
  BY <1>5, RespondReplies DEF WebStep, Handled
<1>6. CASE Refresh(r)
  BY <1>6, RefreshHandled DEF WebStep
<1>7. CASE Commit(r)
  BY <1>7, CommitShape DEF WebStep, Handled
<1>8. CASE AccountStep(r) \/ ContestStep(r) \/ CourseStep(r) \/ ProblemStep(r)
  BY <1>2, <1>8, AccountHandled, ContestHandled, CourseHandled, ProblemHandled DEF WebStep
<1>9. CASE DeadlockVictim(r) \/ ConnectionLost(r)
  BY <1>9, VictimRollsBack, LostRollsBack DEF WebStep, Handled
<1>10. CASE Serialize(r)
  BY <1>10, SerializeHandled DEF WebStep
<1> QED
  BY <1>1, <1>3, <1>4, <1>5, <1>6, <1>7, <1>8, <1>9, <1>10 DEF Step

LEMMA NextIsWebStep ==
  ASSUME WInv, Next
  PROVE  \E r \in Requests : Acts(r) /\ WebStep(r) /\ Watch
<1>1. PICK r \in Requests : Acts(r) /\ Watch
  BY DEF Next, Move, Abort, Crash, Acts
<1> QED
  BY <1>1, ActsIsWebStep

LEMMA WebStepIInv ==
  ASSUME IInv, NEW r \in Requests, WebStep(r) PROVE IInv' /\ op' = op
<1>1. SessionStep(r)
  BY DEF WebStep, Handled, SessionStep
<1>2. op' = op
  BY DEF WebStep, Handled, Continues, Reply, RollsBack, Executed, Commits
<1> QED
  BY <1>1, <1>2, SessionIInv

LEMMA NothingTyped ==
  /\ Typed(NoRow) /\ Typed(Untouched)
  /\ \A r \in Requests : FitsIn(r, NoWrite)
  BY NoWriteIssuable DEF Typed, Stored, Issuable

LEMMA SeenTyped ==
  ASSUME Shape, Typing, NEW r \in Requests, NEW i \in Ids PROVE Stored(View(r)[i])
  BY ViewAt DEF Typing, Typed, Touched

(* Only a commit changes what another request sees, and it leaves every    *)
(* row that is there in its table.                                         *)
LEMMA KnownStays ==
  ASSUME IInv, NEW o \in Requests, WebStep(o), NEW r \in Requests,
         writes'[r] = writes[r], db' = db \/ r # o, NEW i, NEW t, KnownAs(r, i, t)
  PROVE  KnownAs(r, i, t)'
<1> USE DEF IInv
<1>1. saved \subseteq saved'
  BY DEF WebStep, Handled, Continues, Reply, RollsBack, Executed, Commits
<1> SUFFICES ASSUME i \in Ids PROVE Exists(View(r)[i])' => View(r)'[i].table = t
  BY <1>1 DEF KnownAs, Own, Exists
<1>2. CASE db' = db
  BY <1>2 DEF KnownAs, View, Exists
<1>3. CASE db' # db
  <2>1. Commits(o) /\ r # o
    BY <1>3 DEF WebStep, Handled, Continues, Reply, RollsBack, Executed
  <2>2. o \notin saved
    BY <2>1 DEF Commits, Order
  <2>3. i \notin Own(o)
    BY <2>1, <2>2 DEF KnownAs
  <2>4. CASE i \in Touched(writes[r])
    <3>1. View(r)'[i] = View(r)[i]
      BY <2>1, <2>4, SeenAfterCommit, ViewAt DEF View
    <3> QED
      BY <3>1 DEF KnownAs, Exists
  <2>5. CASE i \notin Touched(writes[r])
    <3>1. View(r)'[i] = View(o)[i] /\ View(r)[i] = db[i]
      BY <2>1, <2>5, SeenAfterCommit, ViewAt DEF View
    <3>2. ASSUME Exists(View(o)[i]) PROVE Exists(db[i]) /\ View(o)[i].table = db[i].table
      BY <2>3, <3>2, ViewAt DEF Identity
    <3> QED
      BY <3>1, <3>2 DEF KnownAs, Exists
  <2> QED
    BY <2>4, <2>5
<1> QED
  BY <1>2, <1>3

LEMMA ResultTyped ==
  ASSUME IInv, Typing, NEW r \in Requests, ~Stale(r), ~Duplicate(r), NEW i \in Touched(Result(r))
  PROVE  Typed(Result(r)[i])
<1> DEFINE s == stmt[r][i]
           v == View(r)[i]
           n == Result(r)[i]
<1> USE DEF IInv
<1>0. i \in Ids
  BY DEF Touched
<1>1. FitsIn(r, stmt[r]) /\ Stored(v)
  BY <1>0, SeenTyped DEF Typing
<1>2. n = IF s = Untouched THEN Untouched
          ELSE IF s = NoRow THEN IF Exists(v) THEN NoRow ELSE Untouched
          ELSE Merge(v, s)
  BY <1>0 DEF Result, Deletes
<1>3. CASE Removed(r, i)
  BY <1>3, NothingTyped DEF Removed
<1>4. CASE Added(r, i)
  <2>1. Inserts(stmt[r], i) /\ IsRow(s) /\ ~Exists(v)
    BY <1>0, <1>1, <1>4 DEF Added, FitsIn
  <2>2. n = Merge(v, s) /\ n.table = s.table
    BY <1>2, <2>1, MergedTable DEF Inserts, Updates
  <2>3. v \in {NoRow, Untouched}
    BY <1>1, <2>1 DEF Stored, IsRow, Exists
  <2>4. DOMAIN v = {"table"}
    BY <2>3 DEF NoRow, Untouched
  <2>5. DOMAIN n = DOMAIN s
    BY <2>1, <2>2, <2>4 DEF Merge, IsRow
  <2> QED
    BY <2>1, <2>2, <2>5 DEF Typed, Stored, IsRow
<1>5. CASE Changes(r, i)
  <2>1. Updates(stmt[r], i) /\ Exists(v) /\ n.table = v.table
    BY <1>5 DEF Changes
  <2>2. n = Merge(v, s)
    BY <1>2, <2>1 DEF Updates, NoRow, Untouched
  <2>3. IsRow(v)
    BY <1>1, <2>1, Absent DEF Stored
  <2>4. DOMAIN s \subseteq Tables[v.table].columns
    BY <1>0, <1>1, <2>1 DEF FitsIn, KnownAs
  <2>5. DOMAIN n = DOMAIN v
    BY <2>2, <2>3, <2>4 DEF Merge, IsRow
  <2> QED
    BY <2>1, <2>3, <2>5 DEF Typed, Stored, IsRow
<1> QED
  BY <1>0, <1>3, <1>4, <1>5, ResultAt

(* Whatever refers to a row of a table requests of a kind delete rows of   *)
(* is of such a table itself.                                              *)
LEMMA RemovesClosed ==
  ASSUME NEW kind, NEW row, NEW p \in Parents(row), p[1] \in Removes(kind)
  PROVE  row.table \in Removes(kind)
<1>1. Exists(row)
  BY DEF Parents
<1>2. PICK c \in DOMAIN Tables[row.table].foreign : Tables[row.table].foreign[c] = p[1]
  BY <1>1 DEF Parents
<1>3. \A t \in DOMAIN Tables : \A k \in DOMAIN Tables[t].foreign :
        Tables[t].foreign[k] \in Removes(kind) => t \in Removes(kind)
  BY SMTT(30) DEF Tables, UserTables, ProblemTables, TestcaseTables, TagTables, SubmissionTables,
         ContestTables, CourseTables, Removes, TagKinds
<1> QED
  BY <1>1, <1>2, <1>3 DEF Exists

(* A cascade deletes rows that refer to what the statement deletes.        *)
LEMMA CascadeRefers ==
  ASSUME IInv, Typing, NEW r \in Requests, Executed(r), NEW i \in Ids, Deletes(Cascade(r), i)
  PROVE  \E p \in Parents(View(r)[i]) :
           /\ p[2] \in Ids /\ Removed(r, p[2]) /\ Holds(View(r), p)
           /\ p[1] \in Removes(op[r].kind)
<1> USE DEF IInv
<1>1. ~Stale(r) /\ ~Duplicate(r) /\ ~Orphan(r)
  BY DEF Executed
<1> DEFINE gone == { g \in Touched(Result(r)) : Result(r)[g] = NoRow }
           S == UNION { Children(After(r), g) : g \in gone }
<1>2. i \in S
  BY OnlyDeletes DEF Cascade
<1>3. PICK g \in gone : i \in Children(After(r), g)
  BY <1>2
<1>4. PICK p \in Parents(After(r)[i]) : p[2] = g
  BY <1>3 DEF Children, Refer
<1>5. g \in Ids /\ Removed(r, g) /\ After(r)[g] = NoRow
  BY <1>1, ResultAt, AfterAt, Absent DEF Touched, Changes, Added
<1>6. p \in Parents(View(r)[i])
  <2>1. CASE i \in Touched(Result(r))
    <3>1. ~Holds(After(r), p)
      BY <1>4, <1>5, ParentTable, Absent DEF Holds, RowsOf, Exists
    <3>2. p \notin NewParents(r, i)
      BY <1>1, <2>1, <3>1 DEF Orphan
    <3> QED
      BY <1>4, <2>1, <3>2, AfterAt DEF NewParents
  <2>2. CASE i \notin Touched(Result(r))
    BY <1>4, <2>2, AfterAt
  <2> QED
    BY <2>1, <2>2
<1>7. Holds(View(r), p)
  <2>1. ~Deletes(writes[r], g)
    BY <1>5, ViewAt, Absent DEF Removed, Deletes, Touched
  <2> QED
    BY <1>4, <1>6, <2>1 DEF ParentsThere, Pending
<1>8. p[1] \in Removes(op[r].kind)
  <2>1. PICK t \in Removes(op[r].kind) : KnownAs(r, g, t)
    BY <1>5 DEF Removed, Typing, FitsIn
  <2> QED
    BY <1>4, <1>5, <1>7, <2>1 DEF Removed, KnownAs, Holds, RowsOf
<1> QED
  BY <1>4, <1>5, <1>6, <1>7, <1>8

(* No other request could have inserted them meanwhile, so the cascade     *)
(* fits as well.                                                           *)
LEMMA CascadeFits ==
  ASSUME IInv, Typing, NEW r \in Requests, Executed(r) PROVE FitsIn(r, stmt[r])'
<1> USE DEF IInv
<1>1. /\ stmt'[r] = Cascade(r) /\ View(r)' = After(r) /\ saved' = saved /\ op' = op
      /\ ~Stale(r) /\ ~Duplicate(r)
  BY ExecutedView DEF Executed, Shape, View
<1>2. \A i \in Ids : ~Updates(stmt'[r], i) /\ ~Inserts(stmt'[r], i)
  BY <1>1, OnlyDeletes DEF Cascade
<1>3. ASSUME NEW i \in Ids, Deletes(stmt'[r], i)
      PROVE  \E t \in Removes(op[r].kind) : KnownAs(r, i, t)'
  <2>1. PICK p \in Parents(View(r)[i]) : p[1] \in Removes(op[r].kind)
    BY <1>1, <1>3, CascadeRefers DEF Deletes
  <2> DEFINE t == View(r)[i].table
  <2>2. t \in Removes(op[r].kind) /\ t \in DOMAIN Tables
    BY <2>1, RemovesClosed, ParentTable DEF Exists
  <2>3. KnownAs(r, i, t)
    BY <2>2, SeenKnown, Domains DEF RowsOf
  <2>4. Exists(After(r)[i]) => After(r)[i].table = t
    <3>1. CASE i \in Touched(Result(r))
      BY <1>1, <2>2, <3>1, AfterAt, ResultAt, Absent DEF Removed, Changes, Added, Exists
    <3>2. CASE i \notin Touched(Result(r))
      BY <3>2, AfterAt
    <3> QED
      BY <3>1, <3>2
  <2>5. PICK u \in Removes(op[r].kind) :
          KnownAs(r, i, u) /\ (Exists(After(r)[i]) => After(r)[i].table = u)
    BY <2>2, <2>3, <2>4
  <2>6. KnownAs(r, i, u)'
    BY <1>1, <2>5 DEF KnownAs, Own, Exists
  <2> QED
    BY <2>6
<1> QED
  BY <1>1, <1>2, <1>3 DEF FitsIn, Updates, Inserts, Deletes

LEMMA WebStepTyping ==
  ASSUME IInv, Typing, NEW r \in Requests, WebStep(r) PROVE Typing'
<1> USE DEF IInv
<1>1. /\ op' = op
      /\ \A o \in Requests : o # r =>
           pc'[o] = pc[o] /\ stmt'[o] = stmt[o] /\ writes'[o] = writes[o]
  BY DEF WebStep, Handled, Continues, Reply, RollsBack, Executed, Commits, Shape
<1>2. ASSUME NEW o \in Requests, o # r
      PROVE  /\ \A i \in Ids : Typed(writes'[o][i])
             /\ FitsIn(o, stmt[o])'
             /\ Labelled(o, stmt[o], pc[o])'
  <2>1. \A i, t : KnownAs(o, i, t) => KnownAs(o, i, t)'
    BY <1>1, <1>2, KnownStays
  <2>2. FitsIn(o, stmt[o])'
    BY <1>1, <1>2, <2>1 DEF Typing, FitsIn, Updates, Inserts, Deletes
  <2>3. Managed(o) => Managed(o)'
    BY <1>1, <2>1 DEF Managed
  <2> QED
    BY <1>1, <1>2, <2>2, <2>3 DEF Typing, Labelled
<1>3. SUFFICES /\ \A i \in Ids : Stored(db'[i])
               /\ \A i \in Ids : Typed(writes'[r][i])
               /\ FitsIn(r, stmt[r])'
               /\ Labelled(r, stmt[r], pc[r])'
  BY <1>2 DEF Typing
<1>4. stmt'[r] = NoWrite => FitsIn(r, stmt[r])'
  BY NothingTouched, Absent DEF FitsIn, Updates, Inserts, Deletes, Untouched
<1>5. CASE \E w, label : Continues(r, w, label) /\ Issuable(r, w) /\ Labelled(r, w, label)
  <2>1. PICK w, label : Continues(r, w, label) /\ Issuable(r, w) /\ Labelled(r, w, label)
    BY <1>5
  <2>2. stmt'[r] = w /\ pc'[r] = label /\ db' = db /\ writes' = writes
    BY <2>1 DEF Continues, Shape
  <2>3. \A i, t : KnownAs(r, i, t) => KnownAs(r, i, t)'
    BY <2>2, KnownStays
  <2>4. FitsIn(r, stmt[r])'
    BY <1>1, <2>1, <2>2, <2>3 DEF Issuable, FitsIn, Updates, Inserts, Deletes
  <2>5. Managed(r) => Managed(r)'
    BY <1>1, <2>3 DEF Managed
  <2> QED
    BY <1>1, <2>1, <2>2, <2>4, <2>5 DEF Typing, Labelled
<1>6. CASE Active(r) /\ Reply(r)
  <2>1. /\ stmt' = stmt /\ db' = db /\ writes' = writes /\ pc'[r] = "answered"
        /\ stmt[r] = NoWrite
    BY <1>6 DEF Reply, Active, Shape
  <2> QED
    BY <1>4, <2>1 DEF Typing, Labelled
<1>7. CASE RollsBack(r)
  <2>1. /\ stmt'[r] = NoWrite /\ writes'[r] = NoWrite /\ db' = db
        /\ pc'[r] \in {"excepted", "done"}
    BY <1>7 DEF RollsBack, Shape
  <2> QED
    BY <1>4, <2>1, NothingTyped, NothingTouched DEF Typing, Labelled
<1>8. CASE stmt[r] # NoWrite /\ Executed(r)
  <2>1. /\ db' = db /\ pc' = pc /\ ~Stale(r) /\ ~Duplicate(r)
    BY <1>8 DEF Executed, Shape
  <2>2. ASSUME NEW i \in Ids PROVE Typed(writes'[r][i])
    BY <1>8, <2>1, ExecutedAt, ResultTyped DEF Typing
  <2>3. Labelled(r, stmt[r], pc[r])'
    BY <1>1, <1>8, <2>1 DEF Typing, Labelled
  <2> QED
    BY <1>8, <2>1, <2>2, <2>3, CascadeFits DEF Typing
<1>9. CASE Commits(r)
  <2>1. /\ stmt' = stmt /\ writes'[r] = NoWrite /\ db' = View(r)
        /\ pc'[r] = "done" /\ stmt[r] = NoWrite
    BY <1>9, CommitsAt DEF Commits, Order, Shape
  <2> QED
    BY <1>4, <2>1, SeenTyped, NothingTyped, NothingTouched DEF Labelled
<1> QED
  BY <1>5, <1>6, <1>7, <1>8, <1>9 DEF WebStep, Handled

LEMMA InitTyping == ASSUME Init PROVE Typing
<1>1. /\ db = [i \in Ids |-> IF i \in DOMAIN Seed THEN Seed[i] ELSE NoRow]
      /\ writes = [r \in Requests |-> NoWrite] /\ stmt = [r \in Requests |-> NoWrite]
      /\ pc = [r \in Requests |-> "start"]
  BY DEF Init, SessionInit
<1>2. \A i \in Ids : Stored(db[i])
  BY <1>1, SeedAssumption DEF Stored
<1> QED
  BY <1>1, <1>2, NothingTyped, NothingTouched DEF Typing, Labelled

LEMMA StutterIInv == ASSUME IInv, UNCHANGED vars PROVE IInv'
<1>1. /\ pc' = pc /\ answer' = answer /\ db' = db /\ writes' = writes
      /\ stmt' = stmt /\ saved' = saved
  BY DEF vars
<1>2. Shape' /\ Order'
  BY <1>1 DEF IInv, Shape, Order
<1>3. Identity' /\ KeysOnce'
  BY <1>1 DEF IInv, Identity, KeysOnce, View
<1>4. ParentsThere'
  BY <1>1 DEF IInv, ParentsThere, View, Pending, Keeps
<1> QED
  BY <1>2, <1>3, <1>4 DEF IInv

(* Whatever the requests ask for, the committed rows and what every open   *)
(* transaction sees of them satisfy the tables' unique constraints and     *)
(* foreign keys, up to deletions that are still cascading.                 *)
THEOREM SessionsKeepTables == Spec => []WInv
<1>1. Init => WInv
  <2> SUFFICES ASSUME Init PROVE WInv
    OBVIOUS
  <2>1. op \in [Requests -> Ops]
    BY DEF Init, Ops
  <2> QED
    BY <2>1, InitIInv, InitTyping DEF Init, WInv
<1>2. WInv /\ [Next]_vars => WInv'
  <2> SUFFICES ASSUME WInv, [Next]_vars PROVE WInv'
    OBVIOUS
  <2>1. CASE Next
    BY <2>1, NextIsWebStep, WebStepIInv, WebStepTyping DEF WInv
  <2>2. CASE UNCHANGED vars
    <3>1. IInv'
      BY <2>2, StutterIInv DEF WInv
    <3>2. op' = op
      BY <2>2 DEF vars
    <3>3. Typing'
      BY <2>2 DEF vars, WInv, Typing, FitsIn, Updates, Inserts, Deletes, Labelled, Managed,
                    KnownAs, View
    <3> QED
      BY <3>1, <3>2, <3>3 DEF WInv
  <2> QED
    BY <2>1, <2>2
<1> QED
  BY <1>1, <1>2, PTL DEF Spec

(* The other variables.                                                    *)
Books ==
  /\ answer \in [Requests -> Answers]
  /\ broken \subseteq Requests /\ saved \subseteq Requests
  /\ met \in [Requests -> SUBSET Requests]

LEMMA BooksInvariance == Spec => []Books
<1>1. Init => Books
  BY DEF Init, SessionInit, Books, Answers
<1>2. WInv /\ Books /\ [Next]_vars => Books'
  <2> SUFFICES ASSUME WInv, Books, [Next]_vars PROVE Books'
    OBVIOUS
  <2>1. CASE Next
    <3>1. PICK r \in Requests : WebStep(r) /\ Watch
      BY <2>1, NextIsWebStep
    <3>2. met' \in [Requests -> SUBSET Requests]
      BY <3>1 DEF Watch, Books
    <3>3. broken' \subseteq Requests /\ saved' \subseteq Requests
      BY <3>1 DEF Books, WebStep, Handled, Continues, Reply, RollsBack, Executed, Commits
    <3>4. answer' \in [Requests -> Answers]
      <4>1. \/ answer' = answer \/ answer' = [answer EXCEPT ![r] = "200"]
            \/ \E status \in Answers \ {"none"} :
                 answer' = [answer EXCEPT ![r] = IF @ = "none" THEN status ELSE @]
        BY <3>1 DEF WebStep, Handled, Continues, Reply, RollsBack, Executed, Commits
      <4> QED
        BY <4>1 DEF Books, Answers
    <3> QED
      BY <3>2, <3>3, <3>4 DEF Books
  <2>2. CASE UNCHANGED vars
    BY <2>2 DEF vars, Books
  <2> QED
    BY <2>1, <2>2
<1> QED
  BY <1>1, <1>2, SessionsKeepTables, PTL DEF Spec

(* Every row a request stores has the columns of its table, and every      *)
(* variable the values it is declared with.                                *)
THEOREM TypeCorrect == Spec => []TypeOK
<1>1. WInv /\ Books => TypeOK
  <2> SUFFICES ASSUME WInv, Books PROVE TypeOK
    OBVIOUS
  <2>1. \A r \in Requests : \A i \in Ids :
          writes[r][i] \in {NoRow, Untouched} \/ IsRow(writes[r][i])
    BY DEF WInv, Typing, Typed, Stored
  <2> QED
    BY <2>1 DEF TypeOK, WInv, Typing, Stored, Books
<1> QED
  BY <1>1, SessionsKeepTables, BooksInvariance, PTL

-----------------------------------------------------------------------------
(* The refinement of AtomicStore.                                          *)

(* AtomicStore has the same tables.                                        *)
LEMMA SameTables == Store!Tables = Tables
  BY DEF Store!Tables, Store!UserTables, Store!ProblemTables, Store!TestcaseTables,
         Store!TagTables, Store!SubmissionTables, Store!ContestTables, Store!CourseTables,
         Tables, UserTables, ProblemTables, TestcaseTables, TagTables, SubmissionTables,
         ContestTables, CourseTables

LEMMA SameRows ==
  ASSUME NEW row
  PROVE  /\ Store!Exists(row) <=> Exists(row)
         /\ Store!Keys(row) = Keys(row)
         /\ Store!Parents(row) = Parents(row)
  BY SameTables DEF Store!Exists, Exists, Store!Keys, Keys, Store!Parents, Parents

LEMMA SameConsistency ==
  ASSUME NEW d, Unique(d), Anchored(d) PROVE Store!Consistent(d)
<1>1. Store!Unique(d)
  BY SameRows DEF Store!Unique, Unique
<1>2. Store!Anchored(d)
  BY SameRows DEF Store!Anchored, Anchored, Store!Holds, Holds, Store!RowsOf, RowsOf
<1> QED
  BY <1>1, <1>2 DEF Store!Consistent

LEMMA InitRefines == ASSUME Init PROVE Store!Init
  BY DEF Init, SessionInit, Store!Init

LEMMA AnswerRefines ==
  ASSUME IInv, NEW r \in Requests, NEW status \in Answers \ {"none"},
         answer[r] = "none", answer' = [answer EXCEPT ![r] = status], UNCHANGED <<db, saved>>
  PROVE  Store!Next
<1>1. Store!Answer(r)
  BY DEF Store!Answer
<1> QED
  BY <1>1 DEF Store!Next

LEMMA CommitRefines ==
  ASSUME IInv, NEW r \in Requests, Commits(r) PROVE Store!Next
<1> USE DEF IInv
<1>1. answer[r] = "200" /\ answer' = answer /\ r \notin saved /\ saved' = saved \cup {r}
  BY DEF Commits, Order
<1>2. DOMAIN db = Ids /\ DOMAIN db' = Ids
  BY CommitsAt DEF Shape
<1>3. IInv'
  BY CommitsIInv
<1>4. Unique(db') /\ Anchored(db')
  BY <1>3 DEF KeysOnce, ParentsThere
<1>5. ASSUME NEW i \in Ids, Exists(db'[i]), ~Exists(db[i]) PROVE i \in Own(r)
  <2>1. db'[i] = writes[r][i] \/ db'[i] = db[i]
    BY CommitsAt, ViewAt
  <2> QED
    BY <1>5, <2>1 DEF Identity
<1>6. Store!Save(r)
  <2>1. Store!Consistent(db')
    BY <1>4, SameConsistency
  <2>2. \A i \in DOMAIN db : Store!Exists(db'[i]) /\ ~Store!Exists(db[i]) => i \in Own(r)
    BY <1>2, <1>5, SameRows
  <2> QED
    BY <1>1, <1>2, <2>1, <2>2 DEF Store!Save
<1> QED
  BY <1>6 DEF Store!Next

LEMMA StepRefines ==
  ASSUME IInv, NEW r \in Requests, WebStep(r)
  PROVE  Store!Next \/ UNCHANGED <<db, answer, saved>>
<1> USE DEF IInv
<1>1. CASE \E w, label : Continues(r, w, label)
  BY <1>1 DEF Continues
<1>2. CASE Active(r) /\ Reply(r)
  <2>1. answer[r] = "none" /\ answer' = [answer EXCEPT ![r] = "200"] /\ UNCHANGED <<db, saved>>
    BY <1>2 DEF Active, Reply, Order
  <2> QED
    BY <2>1, AnswerRefines DEF Answers
<1>3. CASE RollsBack(r)
  <2>1. UNCHANGED <<db, saved>>
    BY <1>3 DEF RollsBack
  <2>2. CASE answer' = answer
    BY <2>1, <2>2
  <2>3. CASE answer' # answer
    <3>1. PICK status \in Answers \ {"none"} :
            answer' = [answer EXCEPT ![r] = IF @ = "none" THEN status ELSE @]
      BY <1>3, <2>3 DEF RollsBack
    <3>2. answer[r] = "none"
      BY <2>3, <3>1 DEF Shape
    <3>3. answer' = [answer EXCEPT ![r] = status]
      BY <3>1, <3>2
    <3> QED
      BY <2>1, <3>2, <3>3, AnswerRefines
  <2> QED
    BY <2>2, <2>3
<1>4. CASE Executed(r)
  BY <1>4 DEF Executed
<1>5. CASE Commits(r)
  BY <1>5, CommitRefines
<1> QED
  BY <1>1, <1>2, <1>3, <1>4, <1>5 DEF WebStep, Handled

(* A request's rows appear all at once, once, and after it was told 200;   *)
(* what is there keeps every unique constraint and foreign key; and ids    *)
(* are given by one request each: the web tier implements AtomicStore.     *)
THEOREM WebTierImplementsAtomicStore == Spec => StoreSpec
<1>1. Init => Store!Init
  BY InitRefines
<1>2. WInv /\ [Next]_vars => [Store!Next]_<<db, answer, saved>>
  <2> SUFFICES ASSUME WInv, [Next]_vars
               PROVE  Store!Next \/ UNCHANGED <<db, answer, saved>>
    OBVIOUS
  <2>1. CASE Next
    BY <2>1, NextIsWebStep, StepRefines DEF WInv
  <2>2. CASE UNCHANGED vars
    BY <2>2 DEF vars
  <2> QED
    BY <2>1, <2>2
<1> QED
  BY <1>1, <1>2, SessionsKeepTables, PTL DEF Spec, StoreSpec, Store!Spec

-----------------------------------------------------------------------------
(* What the constraints mean for contests, courses and tags.               *)

LEMMA AnchoredForeign ==
  ASSUME Anchored(db), NEW i \in DOMAIN db, Exists(db[i]),
         NEW c \in DOMAIN Tables[db[i].table].foreign
  PROVE  db[i][c] \in RowsOf(db, Tables[db[i].table].foreign[c])
<1>1. <<Tables[db[i].table].foreign[c], db[i][c]>> \in Parents(db[i])
  BY DEF Parents
<1> QED
  BY <1>1 DEF Anchored, Holds

(* A contest, a course or a tag link never refers to a row that is gone.   *)
THEOREM NoDanglingRows == Spec => []NothingDangles
<1>1. WInv => NothingDangles
  <2> SUFFICES ASSUME WInv PROVE NothingDangles
    OBVIOUS
  <2>1. Anchored(db)
    BY DEF WInv, IInv, ParentsThere
  <2>2. ASSUME NEW i \in Rows("assignment")
        PROVE  db[i].course \in Rows("course") /\ db[i].problem \in Rows("problem")
    <3>1. i \in DOMAIN db /\ db[i].table = "assignment"
      BY DEF Rows, RowsOf
    <3>2. Tables["assignment"].foreign = [course |-> "course", problem |-> "problem"]
      BY DEF Tables, CourseTables
    <3>3. Exists(db[i])
      BY <3>1 DEF Exists, Tables
    <3> QED
      BY <2>1, <3>1, <3>2, <3>3, AnchoredForeign DEF Rows
  <2>3. ASSUME NEW i \in Rows("contest_problem")
        PROVE  db[i].contest \in Rows("contest") /\ db[i].problem \in Rows("problem")
    <3>1. i \in DOMAIN db /\ db[i].table = "contest_problem"
      BY DEF Rows, RowsOf
    <3>2. Tables["contest_problem"].foreign = [contest |-> "contest", problem |-> "problem"]
      BY DEF Tables, ContestTables
    <3>3. Exists(db[i])
      BY <3>1 DEF Exists, Tables
    <3> QED
      BY <2>1, <3>1, <3>2, <3>3, AnchoredForeign DEF Rows
  <2>4. ASSUME NEW i \in Rows("problem_tag")
        PROVE  db[i].tag \in Rows("tag") /\ db[i].problem \in Rows("problem")
    <3>1. i \in DOMAIN db /\ db[i].table = "problem_tag"
      BY DEF Rows, RowsOf
    <3>2. Tables["problem_tag"].foreign = [problem |-> "problem", tag |-> "tag"]
      BY DEF Tables, TagTables
    <3>3. Exists(db[i])
      BY <3>1 DEF Exists, Tables
    <3> QED
      BY <2>1, <3>1, <3>2, <3>3, AnchoredForeign DEF Rows
  <2> QED
    BY <2>2, <2>3, <2>4 DEF NothingDangles
<1> QED
  BY <1>1, SessionsKeepTables, PTL

(* Letters are stored in upper case, and are never Null, and invite codes  *)
(* are their courses' own: committed, seen by a transaction or about to be *)
(* written.                                                                *)
Marked(i, row) == Lettered(row) /\ Coded(i, row)
LettersUpper ==
  /\ \A i \in Ids : Marked(i, db[i])
  /\ \A r \in Requests : LettersIn(stmt[r]) /\ \A i \in Ids : Marked(i, writes[r][i])

LEMMA NoLetters ==
  /\ \A i : Marked(i, NoRow) /\ Marked(i, Untouched)
  /\ LettersIn(NoWrite)
<1>1. \A i : Marked(i, NoRow) /\ Marked(i, Untouched)
  BY DEF Marked, Lettered, Coded, NoRow, Untouched
<1>2. \A i \in Ids : NoWrite[i] = Untouched
  BY NothingTouched
<1>3. LettersIn(NoWrite)
  BY <1>2 DEF LettersIn, Updates, Inserts, Untouched
<1> QED
  BY <1>1, <1>3

LEMMA SeenLettered ==
  ASSUME Shape, LettersUpper, NEW r \in Requests, NEW i \in Ids PROVE Marked(i, View(r)[i])
  BY ViewAt DEF LettersUpper

LEMMA ResultLettered ==
  ASSUME Shape, LettersUpper, NEW r \in Requests, ~Stale(r), ~Duplicate(r), NEW i \in Ids
  PROVE  Marked(i, Result(r)[i])
<1> DEFINE s == stmt[r][i]
           v == View(r)[i]
<1>1. LettersIn(stmt[r]) /\ Marked(i, v)
  BY SeenLettered DEF LettersUpper
<1>2. Result(r)[i] = IF s = Untouched THEN Untouched
                     ELSE IF s = NoRow THEN IF Exists(v) THEN NoRow ELSE Untouched
                     ELSE Merge(v, s)
  BY DEF Result, Deletes
<1>3. CASE i \notin Touched(Result(r)) \/ Removed(r, i)
  BY <1>3, NoLetters, ResultAt DEF Removed
<1>4. CASE i \in Touched(Result(r)) /\ Changes(r, i)
  <2>1. "table" \notin DOMAIN s /\ {"letter", "invite"} \cap DOMAIN s = {}
    BY <1>1, <1>4 DEF Changes, Updates, LettersIn
  <2>2. Result(r)[i] = Merge(v, s)
    BY <1>2, <2>1 DEF NoRow, Untouched
  <2>3. Result(r)[i].table = v.table
    BY <1>4 DEF Changes
  <2>4. \A c \in {"letter", "invite"} :
          c \in DOMAIN v => c \in DOMAIN Merge(v, s) /\ Merge(v, s)[c] = v[c]
    BY <2>1 DEF Merge
  <2> QED
    BY <1>1, <2>2, <2>3, <2>4 DEF Marked, Lettered, Coded
<1>5. CASE i \in Touched(Result(r)) /\ Added(r, i)
  <2>1. Inserts(stmt[r], i) /\ Marked(i, s)
    BY <1>1, <1>5 DEF Added, LettersIn, Marked
  <2>2. Result(r)[i] = Merge(v, s) /\ "table" \in DOMAIN s
    BY <1>2, <2>1 DEF Inserts, Updates
  <2>3. Merge(v, s).table = s.table
    BY <2>2, MergedTable
  <2>4. \A c \in {"letter", "invite"} :
          c \in DOMAIN s => c \in DOMAIN Merge(v, s) /\ Merge(v, s)[c] = s[c]
    BY DEF Merge
  <2> QED
    BY <2>1, <2>2, <2>3, <2>4 DEF Marked, Lettered, Coded
<1> QED
  BY <1>3, <1>4, <1>5, ResultAt

LEMMA CascadeLetters == ASSUME NEW r \in Requests PROVE LettersIn(Cascade(r))
  BY OnlyDeletes DEF Cascade

LEMMA WebStepLetters ==
  ASSUME IInv, LettersUpper, NEW r \in Requests, WebStep(r) PROVE LettersUpper'
<1> USE DEF IInv
<1>1. CASE \E w, label : Continues(r, w, label) /\ Issuable(r, w)
  <2>1. PICK w, label : Continues(r, w, label) /\ LettersIn(w)
    BY <1>1 DEF Issuable
  <2>2. /\ stmt' = [stmt EXCEPT ![r] = w] /\ db' = db /\ writes' = writes
    BY <2>1 DEF Continues
  <2> QED
    BY <2>1, <2>2 DEF LettersUpper, Shape
<1>2. CASE Active(r) /\ Reply(r)
  BY <1>2 DEF Reply, LettersUpper
<1>3. CASE RollsBack(r)
  <2>1. /\ stmt' = [stmt EXCEPT ![r] = NoWrite] /\ writes' = [writes EXCEPT ![r] = NoWrite]
        /\ db' = db
    BY <1>3 DEF RollsBack
  <2>2. \A i \in Ids : Marked(i, NoWrite[i])
    BY NoLetters, NothingTouched
  <2> QED
    BY <2>1, <2>2, NoLetters DEF LettersUpper, Shape
<1>4. CASE Executed(r)
  <2>1. db' = db /\ stmt' = [stmt EXCEPT ![r] = Cascade(r)] /\ ~Stale(r) /\ ~Duplicate(r)
    BY <1>4 DEF Executed
  <2>2. ASSUME NEW o \in Requests, NEW i \in Ids PROVE Marked(i, writes'[o][i])
    <3>1. writes'[o][i] = writes[o][i] \/ writes'[o][i] = Result(r)[i]
      BY <1>4, ExecutedAt, ExecutedOther
    <3> QED
      BY <2>1, <3>1, ResultLettered DEF LettersUpper
  <2>3. ASSUME NEW o \in Requests PROVE LettersIn(stmt'[o])
    BY <2>1, CascadeLetters DEF LettersUpper, Shape
  <2> QED
    BY <2>1, <2>2, <2>3 DEF LettersUpper
<1>5. CASE Commits(r)
  <2>1. \A i \in Ids : Marked(i, db'[i])
    BY <1>5, CommitsAt, SeenLettered
  <2>2. ASSUME NEW o \in Requests, NEW i \in Ids PROVE Marked(i, writes'[o][i])
    BY <1>5, CommitsAt, NothingTouched, NoLetters DEF LettersUpper
  <2>3. \A o \in Requests : LettersIn(stmt'[o])
    BY <1>5, CommitsAt DEF LettersUpper
  <2> QED
    BY <2>1, <2>2, <2>3 DEF LettersUpper
<1> QED
  BY <1>1, <1>2, <1>3, <1>4, <1>5 DEF WebStep, Handled

LEMMA InitLetters == ASSUME Init PROVE LettersUpper
<1>1. /\ db = [i \in Ids |-> IF i \in DOMAIN Seed THEN Seed[i] ELSE NoRow]
      /\ writes = [r \in Requests |-> NoWrite] /\ stmt = [r \in Requests |-> NoWrite]
  BY DEF Init, SessionInit
<1>2. ASSUME NEW i \in Ids PROVE Marked(i, db[i])
  <2>1. CASE i \in DOMAIN Seed /\ Seed[i].table = "contest_problem"
    <3>1. i \in RowsOf(Seed, "contest_problem") /\ db[i] = Seed[i]
      BY <1>1, <2>1 DEF RowsOf
    <3>2. "letter" \in Tables["contest_problem"].columns
      BY DEF Tables, ContestTables
    <3>3. DOMAIN Seed[i] = {"table"} \cup Tables["contest_problem"].columns
      BY <2>1, SeedAssumption DEF IsRow
    <3> QED
      BY <2>1, <3>1, <3>2, <3>3, LettersAssumption DEF Marked, Lettered, Coded
  <2>2. CASE i \in DOMAIN Seed /\ Seed[i].table = "course"
    <3>1. i \in RowsOf(Seed, "course") /\ db[i] = Seed[i]
      BY <1>1, <2>2 DEF RowsOf
    <3>2. "invite" \in Tables["course"].columns
      BY DEF Tables, CourseTables
    <3>3. DOMAIN Seed[i] = {"table"} \cup Tables["course"].columns
      BY <2>2, SeedAssumption DEF IsRow
    <3> QED
      BY <2>2, <3>1, <3>2, <3>3, InviteAssumption DEF Marked, Lettered, Coded
  <2>3. CASE i \in DOMAIN Seed /\ Seed[i].table \notin {"contest_problem", "course"}
    BY <1>1, <2>3 DEF Marked, Lettered, Coded
  <2>4. CASE i \notin DOMAIN Seed
    BY <1>1, <2>4, NoLetters
  <2> QED
    BY <2>1, <2>2, <2>3, <2>4
<1> QED
  BY <1>1, <1>2, NoLetters, NothingTouched DEF LettersUpper

LEMMA LettersInvariance == Spec => []LettersUpper
<1>1. Init => LettersUpper
  BY InitLetters
<1>2. WInv /\ LettersUpper /\ [Next]_vars => LettersUpper'
  <2> SUFFICES ASSUME WInv, LettersUpper, [Next]_vars PROVE LettersUpper'
    OBVIOUS
  <2>1. CASE Next
    BY <2>1, NextIsWebStep, WebStepLetters DEF WInv
  <2>2. CASE UNCHANGED vars
    BY <2>2 DEF vars, LettersUpper
  <2> QED
    BY <2>1, <2>2
<1> QED
  BY <1>1, <1>2, SessionsKeepTables, PTL DEF Spec

LEMMA KeyShared ==
  ASSUME NEW a, NEW b, Exists(a), a.table = b.table, NEW c \in Tables[a.table].unique,
         \A k \in DOMAIN c : a[c[k]] = b[c[k]] /\ a[c[k]] # Null
  PROVE  Keys(a) \cap Keys(b) # {}
<1> DEFINE key == <<a.table, c, [k \in DOMAIN c |-> a[c[k]]]>>
<1>1. Exists(b) /\ c \in Tables[b.table].unique
  BY DEF Exists
<1>2. \A k \in DOMAIN c : b[c[k]] # Null
  OBVIOUS
<1>3. [k \in DOMAIN c |-> a[c[k]]] = [k \in DOMAIN c |-> b[c[k]]]
  OBVIOUS
<1>4. key \in Keys(a)
  BY DEF Keys
<1>5. <<b.table, c, [k \in DOMAIN c |-> b[c[k]]]>> \in Keys(b)
  BY <1>1, <1>2 DEF Keys
<1> QED
  BY <1>3, <1>4, <1>5

(* A user is registered once in a contest, and a contest has a problem and *)
(* a letter once, in whatever order concurrent requests check and insert.  *)
THEOREM NothingRegisteredTwice == Spec => []RegisteredOnce
<1>1. WInv /\ LettersUpper => RegisteredOnce
  <2> SUFFICES ASSUME WInv, LettersUpper PROVE RegisteredOnce
    OBVIOUS
  <2> USE DEF WInv, IInv
  <2>1. Anchored(db) /\ Unique(db) /\ DOMAIN db = Ids
    BY DEF ParentsThere, KeysOnce, Shape
  <2>2. \A i, j \in Ids : Keys(db[i]) \cap Keys(db[j]) # {} => i = j
    BY <2>1 DEF Unique
  <2>3. ASSUME NEW i \in Rows("registration"), NEW j \in Rows("registration"),
               db[i].contest = db[j].contest, db[i].user = db[j].user
        PROVE  i = j
    <3> DEFINE c == <<"contest", "user">>
    <3>1. /\ i \in Ids /\ db[i].table = "registration"
          /\ j \in Ids /\ db[j].table = "registration"
      BY <2>1, <2>3 DEF Rows, RowsOf
    <3>2. /\ Tables["registration"].foreign = [contest |-> "contest", user |-> "user"]
          /\ c \in Tables["registration"].unique
      BY DEF Tables, ContestTables
    <3>3. Exists(db[i])
      BY <3>1 DEF Exists, Tables
    <3>4. db[i]["contest"] \in Ids /\ db[i]["user"] \in Ids
      BY <2>1, <3>1, <3>2, <3>3, AnchoredForeign DEF RowsOf
    <3>5. \A k \in DOMAIN c : db[i][c[k]] = db[j][c[k]] /\ db[i][c[k]] # Null
      BY <2>3, <3>4, NullAssumption
    <3> QED
      BY <2>2, <3>1, <3>2, <3>3, <3>5, KeyShared
  <2>4. ASSUME NEW i \in Rows("contest_problem"), NEW j \in Rows("contest_problem"),
               db[i].contest = db[j].contest
        PROVE  /\ db[i].problem = db[j].problem => i = j
               /\ Upper(db[i].letter) = Upper(db[j].letter) => i = j
    <3>1. /\ i \in Ids /\ db[i].table = "contest_problem"
          /\ j \in Ids /\ db[j].table = "contest_problem"
      BY <2>1, <2>4 DEF Rows, RowsOf
    <3>2. /\ Tables["contest_problem"].foreign = [contest |-> "contest", problem |-> "problem"]
          /\ <<"contest", "problem">> \in Tables["contest_problem"].unique
          /\ <<"contest", "letter">> \in Tables["contest_problem"].unique
      BY DEF Tables, ContestTables
    <3>3. Exists(db[i])
      BY <3>1 DEF Exists, Tables
    <3>4. db[i]["contest"] \in Ids /\ db[i]["problem"] \in Ids
      BY <2>1, <3>1, <3>2, <3>3, AnchoredForeign DEF RowsOf
    <3>5. ASSUME db[i].problem = db[j].problem PROVE i = j
      <4> DEFINE c == <<"contest", "problem">>
      <4>1. \A k \in DOMAIN c : db[i][c[k]] = db[j][c[k]] /\ db[i][c[k]] # Null
        BY <2>4, <3>4, <3>5, NullAssumption
      <4> QED
        BY <2>2, <3>1, <3>2, <3>3, <4>1, KeyShared
    <3>6. ASSUME Upper(db[i].letter) = Upper(db[j].letter) PROVE i = j
      <4> DEFINE c == <<"contest", "letter">>
      <4>1. db[i].letter = db[j].letter /\ db[i].letter # Null
        BY <3>1, <3>6 DEF LettersUpper, Marked, Lettered
      <4>2. \A k \in DOMAIN c : db[i][c[k]] = db[j][c[k]] /\ db[i][c[k]] # Null
        BY <2>4, <3>4, <4>1, NullAssumption
      <4> QED
        BY <2>2, <3>1, <3>2, <3>3, <4>2, KeyShared
    <3> QED
      BY <3>5, <3>6
  <2> QED
    BY <2>3, <2>4 DEF RegisteredOnce
<1> QED
  BY <1>1, SessionsKeepTables, LettersInvariance, PTL

-----------------------------------------------------------------------------
(* The windows of contests.                                                *)

SameWindow(a, b) == a.start = b.start /\ a.end = b.end

(* Requests that ran at the same time have met.                            *)
MetInv ==
  \A r, o \in Requests : r # o /\ Running(r) /\ Running(o) => o \in met[r]

(* Another update of the contest was saved while r ran; two updates of     *)
(* contest i that were saved ran at the same time.                         *)
Overtaken(r) == \E o \in saved \cap met[r] : SetsWindow(o, op[r].id)
Disputed(i) ==
  \E a, b \in saved : a # b /\ b \in met[a] /\ SetsWindow(a, i) /\ SetsWindow(b, i)

(* A window that is not in order is disputed, or will be when the          *)
(* transaction that wrote it commits; no other kind of request changes it. *)
Windows ==
  /\ \A i \in Ids : Windowed(db[i]) /\ (Backwards(db[i]) => Disputed(i))
  /\ \A r \in Requests : WindowsIn(r, stmt[r])
  /\ \A r \in Requests : \A i \in Ids :
       /\ Windowed(writes[r][i])
       /\ writes[r][i].table = "contest" /\ Exists(db[i]) /\ ~SetsWindow(r, i) =>
            SameWindow(writes[r][i], db[i])
       /\ Backwards(writes[r][i]) =>
            Disputed(i) \/ (SetsWindow(r, i) /\ Overtaken(r))

(* The row an update of a contest has read is the committed one, unless it *)
(* was overtaken; what it is about to write has been checked with that row.*)
Read(r) ==
  \A i \in Ids : i = op[r].id =>
    /\ \A o \in Requests : i \in Own(o) => o \in saved
    /\ db[i].table = "contest" =>
         \/ Overtaken(r)
         \/ Window \subseteq DOMAIN local[r].row /\ SameWindow(local[r].row, db[i])
UpdateLabels ==
  {"start", "handler", "managed", "refresh", "reply", "answered", "done"}
UpdateSound(r) ==
  op[r].kind = "update_contest" =>
    /\ pc[r] \in UpdateLabels
    /\ pc[r] \in {"start", "handler"} => local[r] = NoLocals
    /\ pc[r] \in {"start", "handler", "managed"} => writes[r] = NoWrite /\ stmt[r] = NoWrite
    /\ pc[r] = "managed" => Read(r)
    /\ stmt[r] # NoWrite =>
         /\ pc[r] = "refresh" /\ writes[r] = NoWrite /\ Read(r)
         /\ stmt[r] = Update(op[r].id, op[r].set, Compared(r))
         /\ ~(Given(r, "end") <= Given(r, "start"))
Updating ==
  local = [r \in Requests |-> local[r]] /\ \A r \in Requests : UpdateSound(r)

WindowInv == MetInv /\ Windows /\ Updating

LEMMA NoWindows ==
  /\ \A row \in {NoRow, Untouched} : Windowed(row) /\ ~Backwards(row) /\ row.table # "contest"
  /\ \A r \in Requests : WindowsIn(r, NoWrite)
<1>1. \A row \in {NoRow, Untouched} : row.table # "contest"
  BY DEF NoRow, Untouched
<1> QED
  BY <1>1, NoWriteIssuable DEF Windowed, Backwards, Issuable

LEMMA CascadeWindows == ASSUME NEW r \in Requests PROVE WindowsIn(r, Cascade(r))
  BY OnlyDeletes DEF Cascade

(* A statement that sets neither end of a window leaves it as it is.       *)
LEMMA MergedWindow ==
  ASSUME NEW row, NEW set, Window \cap DOMAIN set = {}, Windowed(row), row.table = "contest"
  PROVE  SameWindow(Merge(row, set), row)
<1>1. Window \subseteq DOMAIN row
  BY DEF Windowed
<1>2. \A c \in Window : Merge(row, set)[c] = row[c]
  BY <1>1 DEF Merge
<1> QED
  BY <1>2 DEF Window, SameWindow

LEMMA SeenWindows ==
  ASSUME Shape, Identity, Windows, NEW r \in Requests, NEW i \in Ids
  PROVE  /\ Windowed(View(r)[i])
         /\ View(r)[i].table = "contest" /\ Exists(db[i]) /\ ~SetsWindow(r, i) =>
              SameWindow(View(r)[i], db[i])
         /\ Backwards(View(r)[i]) => Disputed(i) \/ (SetsWindow(r, i) /\ Overtaken(r))
<1>1. CASE i \in Touched(writes[r])
  <2>1. View(r)[i] = writes[r][i]
    BY <1>1, ViewAt
  <2> QED
    BY <2>1 DEF Windows
<1>2. CASE i \notin Touched(writes[r])
  <2>1. View(r)[i] = db[i]
    BY <1>2, ViewAt
  <2> QED
    BY <2>1 DEF Windows, SameWindow
<1> QED
  BY <1>1, <1>2

(* What is disputed or overtaken remains so.                               *)
LEMMA DisputesStay ==
  ASSUME op' = op, saved \subseteq saved', met \in [Requests -> SUBSET Requests], Watch,
         saved \subseteq Requests
  PROVE  /\ \A r \in Requests : met[r] \subseteq met'[r]
         /\ \A i \in Ids : Disputed(i) => Disputed(i)'
         /\ \A r \in Requests : Overtaken(r) => Overtaken(r)'
<1>1. \A r \in Requests : met[r] \subseteq met'[r]
  BY DEF Watch
<1>2. \A r \in Requests, i \in Ids : SetsWindow(r, i)' <=> SetsWindow(r, i)
  BY DEF SetsWindow
<1>3. ASSUME NEW i \in Ids, Disputed(i) PROVE Disputed(i)'
  <2>1. PICK a, b \in saved :
          a # b /\ b \in met[a] /\ SetsWindow(a, i) /\ SetsWindow(b, i)
    BY <1>3 DEF Disputed
  <2>2. a \in saved' /\ b \in saved' /\ b \in met'[a]
    BY <1>1, <2>1
  <2> QED
    BY <1>2, <2>1, <2>2 DEF Disputed
<1>4. ASSUME NEW r \in Requests, Overtaken(r) PROVE Overtaken(r)'
  <2>1. PICK o \in saved \cap met[r] : SetsWindow(o, op[r].id)
    BY <1>4 DEF Overtaken
  <2>2. o \in saved' \cap met'[r] /\ SetsWindow(o, op[r].id)'
    BY <1>1, <2>1 DEF SetsWindow
  <2> QED
    BY <2>2 DEF Overtaken
<1> QED
  BY <1>1, <1>3, <1>4

(* A row that a statement leaves: a new contest was checked; an update     *)
(* that sets the window was checked with the row as read, which is the     *)
(* committed one unless the request was overtaken.                         *)
LEMMA ResultWindows ==
  ASSUME IInv, Windows, NEW r \in Requests, op[r] \in Ops, UpdateSound(r),
         stmt[r] # NoWrite, ~Stale(r), ~Duplicate(r),
         NEW i \in Touched(Result(r))
  PROVE  /\ Windowed(Result(r)[i])
         /\ Result(r)[i].table = "contest" /\ Exists(db[i]) /\ ~SetsWindow(r, i) =>
              SameWindow(Result(r)[i], db[i])
         /\ Backwards(Result(r)[i]) => Disputed(i) \/ (SetsWindow(r, i) /\ Overtaken(r))
<1> DEFINE s == stmt[r][i]
           v == View(r)[i]
           n == Result(r)[i]
<1> USE DEF IInv
<1>0. i \in Ids
  BY DEF Touched
<1>1. /\ WindowsIn(r, stmt[r]) /\ Windowed(v)
      /\ v.table = "contest" /\ Exists(db[i]) /\ ~SetsWindow(r, i) => SameWindow(v, db[i])
      /\ Backwards(v) => Disputed(i) \/ (SetsWindow(r, i) /\ Overtaken(r))
  BY <1>0, SeenWindows DEF Windows
<1>2. n = IF s = Untouched THEN Untouched
          ELSE IF s = NoRow THEN IF Exists(v) THEN NoRow ELSE Untouched
          ELSE Merge(v, s)
  BY <1>0 DEF Result, Deletes
<1>3. CASE Removed(r, i)
  BY <1>3, NoWindows DEF Removed
<1>4. CASE Added(r, i)
  <2>1. Inserts(stmt[r], i) /\ Windowed(s) /\ ~Backwards(s)
    BY <1>0, <1>1, <1>4 DEF Added, WindowsIn
  <2>2. n = Merge(v, s) /\ n.table = s.table
    BY <1>2, <2>1, MergedTable DEF Inserts, Updates
  <2>3. s.table = "contest" => Window \subseteq DOMAIN n /\ n.start = s.start /\ n.end = s.end
    BY <2>1, <2>2 DEF Windowed, Window, Merge
  <2>4. r \notin saved /\ ~Exists(db[i])
    BY <1>0, <1>4 DEF Added, Order, Identity
  <2> QED
    BY <2>1, <2>2, <2>3, <2>4 DEF Windowed, Backwards
<1>5. CASE Changes(r, i) /\ n.table # "contest"
  BY <1>5 DEF Windowed, Backwards
<1>6. CASE Changes(r, i) /\ n.table = "contest"
  <2>1. Updates(stmt[r], i) /\ v.table = "contest"
    BY <1>6 DEF Changes
  <2>2. n = Merge(v, s)
    BY <1>2, <2>1 DEF Updates, NoRow, Untouched
  <2>3. Windowed(n)
    BY <1>1, <2>1, <2>2 DEF Windowed, Merge
  <2>4. CASE ~SetsWindow(r, i)
    <3>1. Window \cap DOMAIN s = {}
      BY <1>0, <1>1, <2>1, <2>4 DEF WindowsIn
    <3>2. SameWindow(n, v)
      BY <1>1, <2>1, <2>2, <3>1, MergedWindow
    <3> QED
      BY <1>1, <1>6, <2>1, <2>3, <2>4, <3>2 DEF SameWindow, Backwards
  <2>5. CASE SetsWindow(r, i)
    <3> DEFINE row == local[r].row
               set == op[r].set
    <3>1. /\ op[r].kind = "update_contest" /\ op[r].id = i
          /\ writes[r] = NoWrite /\ Read(r) /\ stmt[r] = Update(i, set, Compared(r))
          /\ ~(Given(r, "end") <= Given(r, "start"))
      BY <2>5 DEF SetsWindow, UpdateSound
    <3>2. v = db[i]
      BY <3>1, ViewOfNothing
    <3>3. s = Changed(set, Compared(r))
      BY <1>0, <2>1, <3>1, NothingTouched DEF Update, Put, Updates, Untouched, NoWrite
    <3>4. ASSUME ~Overtaken(r) PROVE ~Backwards(n)
      <4>1. Window \subseteq DOMAIN row /\ SameWindow(row, v)
        BY <1>0, <2>1, <3>1, <3>2, <3>4 DEF Read
      <4>2. \A c \in Window : row[c] = v[c]
        BY <4>1 DEF Window, SameWindow
      <4>3. \A c \in Window : n[c] = Given(r, c)
        <5> SUFFICES ASSUME NEW c \in Window PROVE n[c] = Given(r, c)
          OBVIOUS
        <5>1. c \in DOMAIN v /\ n[c] = IF c \in DOMAIN s THEN s[c] ELSE v[c]
          BY <1>1, <2>1, <2>2 DEF Windowed, Merge
        <5>2. c \in DOMAIN s <=> c \in DOMAIN set /\ set[c] # Compared(r)[c]
          BY <3>3 DEF Changed
        <5>3. c \in DOMAIN s => s[c] = set[c]
          BY <3>3 DEF Changed
        <5>4. Compared(r)[c] = IF c \in op[r].naive THEN Null ELSE row[c]
          BY <4>1 DEF Compared
        <5>5. c \in op[r].naive => c \in DOMAIN set /\ set[c] # Null
          BY <3>1, OpsAssumption
        <5> QED
          BY <4>2, <5>1, <5>2, <5>3, <5>4, <5>5 DEF Given
      <4>4. n.end = Given(r, "end") /\ n.start = Given(r, "start")
        BY <4>3 DEF Window
      <4> QED
        BY <3>1, <4>4 DEF Backwards
    <3> QED
      BY <2>3, <2>5, <3>4
  <2> QED
    BY <2>4, <2>5
<1> QED
  BY <1>0, <1>3, <1>4, <1>5, <1>6, ResultAt

(* Each kind of step keeps what is said of the rows.                       *)
LEMMA StepWindows ==
  ASSUME IInv, WindowInv, met \in [Requests -> SUBSET Requests], saved \subseteq Requests,
         NEW r \in Requests, op[r] \in Ops, WebStep(r), Watch
  PROVE  Windows'
<1> USE DEF IInv
<1>0. /\ op' = op /\ saved \subseteq saved'
      /\ \A o \in Requests, i \in Ids : SetsWindow(o, i)' <=> SetsWindow(o, i)
  BY DEF WebStep, Handled, Continues, Reply, RollsBack, Executed, Commits, SetsWindow
<1>1. /\ \A i \in Ids : Disputed(i) => Disputed(i)'
      /\ \A o \in Requests : Overtaken(o) => Overtaken(o)'
  BY <1>0, DisputesStay
<1>2. Windows
  BY DEF WindowInv
<1>3. ASSUME NEW o \in Requests, WindowsIn(o, stmt'[o]) PROVE WindowsIn(o, stmt[o])'
  BY <1>0, <1>3 DEF WindowsIn, Updates, Inserts, Windowed, Backwards
<1>4. ASSUME db' = db, \A o \in Requests : WindowsIn(o, stmt'[o]),
             \A o \in Requests, i \in Ids :
               \/ writes'[o][i] \in {writes[o][i], NoRow, Untouched}
               \/ /\ Windowed(writes'[o][i])
                  /\ writes'[o][i].table = "contest" /\ Exists(db[i]) /\ ~SetsWindow(o, i) =>
                       SameWindow(writes'[o][i], db[i])
                  /\ Backwards(writes'[o][i]) =>
                       Disputed(i) \/ (SetsWindow(o, i) /\ Overtaken(o))
      PROVE  Windows'
  <2>1. \A i \in Ids : Windowed(db'[i]) /\ (Backwards(db'[i]) => Disputed(i)')
    BY <1>1, <1>2, <1>4 DEF Windows
  <2>2. ASSUME NEW o \in Requests, NEW i \in Ids
        PROVE  /\ Windowed(writes'[o][i])
               /\ writes'[o][i].table = "contest" /\ Exists(db[i]) /\ ~SetsWindow(o, i) =>
                    SameWindow(writes'[o][i], db[i])
               /\ Backwards(writes'[o][i]) =>
                    Disputed(i) \/ (SetsWindow(o, i) /\ Overtaken(o))
    <3>1. CASE writes'[o][i] = writes[o][i]
      BY <1>2, <3>1 DEF Windows
    <3>2. CASE writes'[o][i] \in {NoRow, Untouched}
      BY <3>2, NoWindows
    <3> QED
      BY <1>4, <3>1, <3>2
  <2>3. ASSUME NEW o \in Requests, NEW i \in Ids
        PROVE  /\ Windowed(writes'[o][i])
               /\ writes'[o][i].table = "contest" /\ Exists(db'[i]) /\ ~SetsWindow(o, i)' =>
                    SameWindow(writes'[o][i], db'[i])
               /\ Backwards(writes'[o][i]) =>
                    Disputed(i)' \/ (SetsWindow(o, i)' /\ Overtaken(o)')
    BY <1>0, <1>1, <1>4, <2>2
  <2>4. \A o \in Requests : WindowsIn(o, stmt[o])'
    BY <1>3, <1>4
  <2> QED
    BY <2>1, <2>3, <2>4 DEF Windows, Windowed, Backwards, Exists, SameWindow
<1>5. CASE \E w, label : Continues(r, w, label) /\ Issuable(r, w)
  <2>1. PICK w, label : Continues(r, w, label) /\ WindowsIn(r, w)
    BY <1>5 DEF Issuable
  <2>2. stmt' = [stmt EXCEPT ![r] = w] /\ db' = db /\ writes' = writes
    BY <2>1 DEF Continues
  <2>3. \A o \in Requests : WindowsIn(o, stmt'[o])
    BY <1>2, <2>1, <2>2 DEF Shape, Windows
  <2> QED
    BY <1>4, <2>2, <2>3
<1>6. CASE Active(r) /\ Reply(r)
  <2>1. stmt' = stmt /\ db' = db /\ writes' = writes
    BY <1>6 DEF Reply
  <2> QED
    BY <1>2, <1>4, <2>1 DEF Windows
<1>7. CASE RollsBack(r)
  <2>1. /\ stmt' = [stmt EXCEPT ![r] = NoWrite] /\ writes' = [writes EXCEPT ![r] = NoWrite]
        /\ db' = db
    BY <1>7 DEF RollsBack
  <2>2. \A o \in Requests : WindowsIn(o, stmt'[o])
    BY <1>2, <2>1, NoWindows DEF Shape, Windows
  <2>3. \A o \in Requests, i \in Ids : writes'[o][i] \in {writes[o][i], Untouched}
    BY <2>1, NothingTouched DEF Shape
  <2> QED
    BY <1>4, <2>1, <2>2, <2>3
<1>8. CASE stmt[r] # NoWrite /\ Executed(r)
  <2>1. db' = db /\ stmt' = [stmt EXCEPT ![r] = Cascade(r)] /\ ~Stale(r) /\ ~Duplicate(r)
    BY <1>8 DEF Executed
  <2>2. \A o \in Requests : WindowsIn(o, stmt'[o])
    BY <1>2, <2>1, CascadeWindows DEF Shape, Windows
  <2>3. UpdateSound(r)
    BY DEF WindowInv, Updating
  <2>4. ASSUME NEW o \in Requests, NEW i \in Ids, writes'[o][i] # writes[o][i]
        PROVE  /\ Windowed(writes'[o][i])
               /\ writes'[o][i].table = "contest" /\ Exists(db[i]) /\ ~SetsWindow(o, i) =>
                    SameWindow(writes'[o][i], db[i])
               /\ Backwards(writes'[o][i]) =>
                    Disputed(i) \/ (SetsWindow(o, i) /\ Overtaken(o))
    <3>1. o = r
      BY <1>8, <2>4, ExecutedOther
    <3>2. i \in Touched(Result(r)) /\ writes'[r][i] = Result(r)[i]
      BY <1>8, <2>4, <3>1, ExecutedAt
    <3> QED
      BY <1>2, <1>8, <2>1, <2>3, <3>1, <3>2, ResultWindows
  <2> QED
    BY <1>4, <2>1, <2>2, <2>4
<1>9. CASE Commits(r)
  <2>1. /\ db' = View(r) /\ saved' = saved \cup {r} /\ stmt' = stmt /\ writes'[r] = NoWrite
        /\ \A o \in Requests : o # r => writes'[o] = writes[o]
    BY <1>9, CommitsAt DEF Commits
  <2>2. \A o \in Requests : WindowsIn(o, stmt[o])'
    BY <1>2, <1>3, <2>1 DEF Windows
  <2>3. ASSUME NEW i \in Ids PROVE Windowed(db'[i]) /\ (Backwards(db'[i]) => Disputed(i)')
    <3>1. /\ Windowed(View(r)[i])
          /\ Backwards(View(r)[i]) => Disputed(i) \/ (SetsWindow(r, i) /\ Overtaken(r))
      BY <1>2, SeenWindows
    <3>2. ASSUME SetsWindow(r, i), Overtaken(r) PROVE Disputed(i)'
      <4>1. PICK o \in saved \cap met[r] : SetsWindow(o, op[r].id)
        BY <3>2 DEF Overtaken
      <4>2. op[r].id = i /\ SetsWindow(o, i)
        BY <3>2, <4>1 DEF SetsWindow
      <4>3. o # r
        BY <1>9, <4>1 DEF Commits, Order
      <4>4. o \in saved' /\ r \in saved' /\ o \in met'[r]
        BY <2>1, <4>1 DEF Watch
      <4>5. SetsWindow(o, i)' /\ SetsWindow(r, i)'
        BY <1>0, <3>2, <4>1, <4>2
      <4> QED
        BY <4>3, <4>4, <4>5 DEF Disputed
    <3> QED
      BY <1>1, <2>1, <3>1, <3>2
  <2>4. ASSUME NEW o \in Requests, NEW i \in Ids
        PROVE  /\ Windowed(writes'[o][i])
               /\ writes'[o][i].table = "contest" /\ Exists(db'[i]) /\ ~SetsWindow(o, i)' =>
                    SameWindow(writes'[o][i], db'[i])
               /\ Backwards(writes'[o][i]) =>
                    Disputed(i)' \/ (SetsWindow(o, i)' /\ Overtaken(o)')
    <3>1. CASE o = r
      BY <2>1, <3>1, NothingTouched, NoWindows
    <3>2. CASE o # r /\ i \notin Touched(writes[o])
      BY <2>1, <3>2, NoWindows DEF Touched
    <3>3. CASE o # r /\ i \in Touched(writes[o])
      <4>1. i \notin Touched(writes[r])
        BY <3>3 DEF KeysOnce, Apart
      <4>2. db'[i] = db[i] /\ writes'[o][i] = writes[o][i]
        BY <2>1, <3>3, <4>1, ViewAt
      <4> QED
        BY <1>0, <1>1, <1>2, <4>2 DEF Windows
    <3> QED
      BY <3>1, <3>2, <3>3
  <2> QED
    BY <2>2, <2>3, <2>4 DEF Windows, Windowed, Backwards, Exists, SameWindow
<1> QED
  BY <1>5, <1>6, <1>7, <1>8, <1>9 DEF WebStep, Handled

LEMMA StepMet ==
  ASSUME met \in [Requests -> SUBSET Requests], Watch
  PROVE  MetInv'
  BY DEF Watch, MetInv

(* What a request that updates a contest may do, and no other handler.     *)
UpdateActs(r) ==
  \/ Authenticate(r) \/ ManageContest(r, "update_contest")
  \/ At(r, "update_contest", "managed") /\ StoreContestUpdate(r)
  \/ Respond(r) \/ Refresh(r) \/ Execute(r) \/ Commit(r)
  \/ DeadlockVictim(r) \/ ConnectionLost(r)

LEMMA UpdateActsOnly ==
  ASSUME NEW r \in Requests, op[r].kind = "update_contest", pc[r] \in UpdateLabels, Acts(r)
  PROVE  UpdateActs(r)
<1> DEFINE kind == op[r].kind
           other == \E k, label : At(r, k, label) /\ k # "update_contest"
<1>1. ~other
  BY DEF At
<1>2. pc[r] \notin {"tags", "unlinked"}
  BY DEF UpdateLabels
<1>3. ~AccountStep(r)
  BY <1>1 DEF AccountStep, RegisterUser, Login, Me, Profile, ForgotPassword, ResetPassword
<1>4. ~CourseStep(r)
  <2>1. \A k : ManageCourse(r, k) /\ k # "update_contest" => other
    BY DEF ManageCourse
  <2>2. \A k : MemberProgress(r, k) /\ k # "update_contest" => other
    BY DEF MemberProgress
  <2>3. ~ImportStudents(r)
    <3>1. ~FindUser(r)
      BY <1>1 DEF FindUser
    <3>2. NameUser(r) => \/ At(r, "import_students", "no_user")
                        \/ At(r, "import_students", "name_taken")
      BY Zenon DEF NameUser
    <3>3. ~EnrollUser(r)
      BY <1>1 DEF EnrollUser
    <3> QED
      BY <1>1, <2>1, <3>1, <3>2, <3>3 DEF ImportStudents
  <2>4. ~(UpdateCourse(r) \/ DeleteCourse(r) \/ InviteMember(r) \/ RemoveMember(r))
    BY <1>1, <2>1 DEF UpdateCourse, DeleteCourse, InviteMember, EnrollByIdentifier,
       RemoveMember
  <2>5. ~(AssignCourseProblem(r) \/ UnassignCourseProblem(r))
    BY <1>1, <2>1 DEF AssignCourseProblem, UnassignCourseProblem
  <2>6. ~(ListCourses(r) \/ CreateCourse(r) \/ JoinCourse(r))
    BY <1>1 DEF ListCourses, CreateCourse, JoinCourse
  <2>7. ~(CourseDetail(r) \/ ExportCourseScores(r))
    BY <1>1, <2>1, <2>2 DEF CourseDetail, ExportCourseScores
  <2> QED
    BY <2>3, <2>4, <2>5, <2>6, <2>7 DEF CourseStep
<1>5. ~ProblemStep(r)
  <2>1. ~(GetOrCreateTag(r) \/ ReplaceTags(r))
    BY <1>2 DEF GetOrCreateTag, ReplaceTags
  <2>2. ~(CreateProblem(r) \/ UpdateProblem(r) \/ DeleteProblem(r) \/ ProblemDetail(r))
    BY <1>1 DEF CreateProblem, UpdateProblem, DeleteProblem, ProblemDetail
  <2>3. ~(ListTestcases(r) \/ CreateTestcase(r) \/ UpdateTestcase(r) \/ DeleteTestcase(r))
    BY <1>1 DEF ListTestcases, CreateTestcase, UpdateTestcase, DeleteTestcase
  <2>4. ~UploadTestcasesZip(r)
    BY <1>1 DEF UploadTestcasesZip
  <2> QED
    BY <2>1, <2>2, <2>3, <2>4 DEF ProblemStep
<1>6. ContestStep(r) => UpdateContest(r)
  <2>1. \A k : ManageContest(r, k) /\ k # "update_contest" => other
    BY DEF ManageContest
  <2>2. ~(CreateContest(r) \/ DeleteContest(r) \/ RegisterForContest(r))
    BY <1>1, <2>1 DEF CreateContest, DeleteContest, RegisterForContest
  <2>3. ~(AssignContestProblem(r) \/ UnassignContestProblem(r))
    BY <1>1, <2>1 DEF AssignContestProblem, UnassignContestProblem
  <2>4. ~(ListContests(r) \/ ContestDetail(r) \/ ShowLeaderboard(r))
    BY <1>1 DEF ListContests, ContestDetail, ShowLeaderboard
  <2> QED
    BY <2>2, <2>3, <2>4 DEF ContestStep
<1>7. ~Serialize(r)
  BY DEF Serialize, UpdateLabels
<1> QED
  BY <1>3, <1>4, <1>5, <1>6, <1>7 DEF Acts, Step, UpdateActs, UpdateContest

(* A commit of another request leaves what an update has read as it was,   *)
(* or overtakes it.                                                        *)
LEMMA ReadStays ==
  ASSUME IInv, WindowInv, met \in [Requests -> SUBSET Requests], saved \subseteq Requests,
         NEW o \in Requests, WebStep(o), Watch, op' = op,
         NEW r \in Requests, Running(r), Read(r), local'[r] = local[r], db' = db \/ r # o
  PROVE  Read(r)'
<1> USE DEF IInv
<1>1. saved \subseteq saved'
  BY DEF WebStep, Handled, Continues, Reply, RollsBack, Executed, Commits
<1>2. Overtaken(r) => Overtaken(r)'
  BY <1>1, DisputesStay
<1>3. SUFFICES ASSUME NEW i \in Ids, i = op[r].id, db'[i].table = "contest", db' # db
               PROVE  \/ Overtaken(r)'
                      \/ Window \subseteq DOMAIN local[r].row /\ SameWindow(local[r].row, db'[i])
  BY <1>1, <1>2 DEF Read, SameWindow, Own
<1>4. Commits(o) /\ r # o
  BY <1>3 DEF WebStep, Handled, Continues, Reply, RollsBack, Executed
<1>5. db' = View(o) /\ saved' = saved \cup {o} /\ pc[o] = "answered"
  BY <1>4 DEF Commits
<1>6. CASE i \notin Touched(writes[o])
  <2>1. db'[i] = db[i]
    BY <1>5, <1>6, ViewAt
  <2> QED
    BY <1>2, <1>3, <2>1 DEF Read
<1>7. CASE i \in Touched(writes[o])
  <2>1. db'[i] = writes[o][i] /\ Exists(writes[o][i])
    BY <1>3, <1>5, <1>7, ViewAt DEF Exists, Tables
  <2>2. i \notin Own(o)
    BY <1>3, <1>5 DEF Read, Order
  <2>3. Exists(db[i]) /\ db[i].table = "contest"
    BY <1>3, <2>1, <2>2 DEF Identity
  <2>4. CASE SetsWindow(o, i)
    <3>1. o \in met[r]
      BY <1>4, <1>5 DEF WindowInv, MetInv, Running
    <3>2. o \in saved' \cap met'[r] /\ SetsWindow(o, op[r].id)'
      BY <1>3, <1>5, <2>4, <3>1 DEF Watch, SetsWindow
    <3> QED
      BY <3>2 DEF Overtaken
  <2>5. CASE ~SetsWindow(o, i)
    <3>1. SameWindow(writes[o][i], db[i])
      BY <1>3, <2>1, <2>3, <2>5 DEF WindowInv, Windows
    <3>2. Overtaken(r) \/ (Window \subseteq DOMAIN local[r].row /\ SameWindow(local[r].row, db[i]))
      BY <1>3, <2>3 DEF Read
    <3> QED
      BY <1>2, <2>1, <3>1, <3>2 DEF SameWindow
  <2> QED
    BY <2>4, <2>5
<1> QED
  BY <1>6, <1>7

(* An UPDATE names columns, deletes nothing and so cascades to nothing.    *)
LEMMA UpdateDeletesNothing ==
  ASSUME IInv, NEW r \in Requests, op[r] \in Ops, op[r].kind = "update_contest",
         stmt[r] = Update(op[r].id, op[r].set, Compared(r)), ~Stale(r), ~Duplicate(r)
  PROVE  Cascade(r) = NoWrite
<1> DEFINE gone == { i \in Touched(Result(r)) : Result(r)[i] = NoRow }
<1>1. \A i \in Ids : stmt[r][i] # NoRow
  <2> DEFINE change == Changed(op[r].set, Compared(r))
  <2>1. "table" \notin DOMAIN change
    BY SetIsSettable DEF Changed
  <2>2. change # NoRow /\ Untouched # NoRow
    BY <2>1 DEF NoRow, Untouched
  <2>3. \A i \in Ids : stmt[r][i] = Untouched \/ stmt[r][i] = change
    BY DEF Update, Put, NoWrite
  <2> QED
    BY <2>2, <2>3
<1>2. gone = {}
  <2> SUFFICES ASSUME NEW i \in gone PROVE FALSE
    OBVIOUS
  <2>1. i \in Ids /\ i \in Touched(Result(r)) /\ Result(r)[i] = NoRow
    BY DEF Touched
  <2>2. Removed(r, i)
    BY <2>1, ResultAt, Absent DEF IInv, Changes, Added
  <2> QED
    BY <1>1, <2>1, <2>2 DEF Removed, Deletes
<1>3. UNION { Children(After(r), i) : i \in gone } = {}
  BY <1>2
<1> QED
  BY <1>3 DEF Cascade, Delete, NoWrite

(* What a request that updates a contest does keeps what is said of it.    *)
LEMMA OwnStepSound ==
  ASSUME WInv, WindowInv, met \in [Requests -> SUBSET Requests], saved \subseteq Requests,
         NEW r \in Requests, Acts(r), WebStep(r), Watch
  PROVE  UpdateSound(r)'
<1> USE DEF WInv, IInv
<1>0. op' = op /\ saved \subseteq saved' /\ op[r] \in Ops
  BY DEF WebStep, Handled, Continues, Reply, RollsBack, Executed, Commits
<1>1. UpdateSound(r) /\ local = [q \in Requests |-> local[q]] /\ Windows
  BY DEF WindowInv, Updating
<1> SUFFICES ASSUME op[r].kind = "update_contest"
             PROVE  /\ pc'[r] \in UpdateLabels
                    /\ pc'[r] \in {"start", "handler"} => local'[r] = NoLocals
                    /\ pc'[r] \in {"start", "handler", "managed"} =>
                         writes'[r] = NoWrite /\ stmt'[r] = NoWrite
                    /\ pc'[r] = "managed" => Read(r)'
                    /\ stmt'[r] # NoWrite =>
                         /\ pc'[r] = "refresh" /\ writes'[r] = NoWrite /\ Read(r)'
                         /\ stmt'[r] = Update(op[r].id, op[r].set, Compared(r)')
                         /\ ~(Given(r, "end") <= Given(r, "start"))'
  BY <1>0 DEF UpdateSound
<1>2. UpdateActs(r)
  BY <1>1, UpdateActsOnly DEF UpdateSound
<1>3. ASSUME NEW status, Refuse(r, status)
      PROVE  pc'[r] = "done" /\ stmt'[r] = NoWrite
  BY <1>3 DEF Refuse, Shape
<1>4. ASSUME NEW label, Go(r, label)
      PROVE  /\ pc'[r] = label /\ stmt'[r] = NoWrite /\ writes' = writes /\ db' = db
             /\ local' = local
  BY <1>1, <1>4 DEF Go, Proceed, Shape
<1>5. CASE Authenticate(r)
  <2>1. Refuse(r, "401") \/ Refuse(r, "403") \/ Go(r, "handler")
    BY <1>5 DEF Authenticate
  <2>2. pc[r] = "start"
    BY <1>5 DEF Authenticate
  <2> QED
    BY <1>1, <1>3, <1>4, <2>1, <2>2 DEF UpdateSound, UpdateLabels
<1>6. CASE ManageContest(r, "update_contest")
  <2> DEFINE c == Row(r, "contest", op[r].id)
             mem == [local[r] EXCEPT !.row = c]
  <2>1. pc[r] = "handler" /\ writes[r] = NoWrite /\ local[r] = NoLocals
    BY <1>1, <1>6 DEF ManageContest, At, UpdateSound
  <2>2. Refuse(r, "500") \/ Refuse(r, "403") \/ (Exists(c) /\ Keep(r, mem, "managed"))
    BY <1>6 DEF ManageContest
  <2>3. CASE Exists(c) /\ Keep(r, mem, "managed")
    <3>1. /\ pc'[r] = "managed" /\ stmt'[r] = NoWrite /\ writes' = writes /\ db' = db
          /\ local'[r] = mem /\ saved' = saved
      BY <1>1, <2>3 DEF Keep, Proceed, Shape
    <3>2. mem.row = c
      BY <2>1 DEF NoLocals
    <3>3. Read(r)'
      <4> SUFFICES ASSUME NEW i \in Ids, i = op[r].id
                   PROVE  /\ \A o \in Requests : i \in Own(o) => o \in saved
                          /\ db[i].table = "contest" =>
                               Window \subseteq DOMAIN c /\ SameWindow(c, db[i])
        BY <1>0, <3>1, <3>2 DEF Read, SameWindow, Own
      <4>1. c = db[i]
        BY <2>1, <2>3, FoundKnown, ViewOfNothing DEF Tables
      <4>2. \A o \in Requests : i \in Own(o) => o \in saved
        BY <2>3, <4>1 DEF Identity
      <4> QED
        BY <1>1, <4>1, <4>2 DEF Windows, Windowed, SameWindow
    <3> QED
      BY <2>1, <3>1, <3>3 DEF UpdateLabels
  <2> QED
    BY <1>3, <2>2, <2>3 DEF UpdateLabels
<1>7. CASE At(r, "update_contest", "managed") /\ StoreContestUpdate(r)
  <2> DEFINE w == Update(op[r].id, op[r].set, Compared(r))
  <2>1. pc[r] = "managed" /\ writes[r] = NoWrite /\ Read(r)
    BY <1>1, <1>7 DEF At, UpdateSound
  <2>2. \/ Refuse(r, "400") \/ Refuse(r, "500")
        \/ ~(Given(r, "end") <= Given(r, "start")) /\ Issue(r, w, "refresh")
    BY <1>7 DEF StoreContestUpdate
  <2>3. CASE ~(Given(r, "end") <= Given(r, "start")) /\ Issue(r, w, "refresh")
    <3>1. /\ pc'[r] = "refresh" /\ stmt'[r] = w /\ writes' = writes /\ db' = db
          /\ local' = local
      BY <1>1, <2>3 DEF Issue, Proceed, Shape
    <3>2. Read(r)'
      BY <1>0, <2>1, <3>1, ReadStays DEF Running
    <3>3. ~(Given(r, "end") <= Given(r, "start"))'
      BY <1>0, <2>3, <3>1 DEF Given
    <3>4. Compared(r)' = Compared(r)
      BY <1>0, <3>1 DEF Compared
    <3> QED
      BY <2>1, <3>1, <3>2, <3>3, <3>4 DEF UpdateLabels
  <2> QED
    BY <1>3, <2>2, <2>3 DEF UpdateLabels
<1>8. CASE Respond(r)
  BY <1>8 DEF Respond, Reply, Shape, UpdateLabels
<1>9. CASE Refresh(r)
  <2>1. Refuse(r, "500") \/ Go(r, "reply")
    BY <1>9 DEF Refresh
  <2> QED
    BY <1>3, <1>4, <2>1 DEF UpdateLabels
<1>10. ASSUME FlushFails(r) PROVE pc'[r] = "done" /\ stmt'[r] = NoWrite
  <2>1. ~Caught(r)
    BY <1>1 DEF Caught, UpdateSound, UpdateLabels
  <2> QED
    BY <1>3, <1>10, <2>1 DEF FlushFails
<1>11. CASE Execute(r)
  <2>1. CASE Stale(r) \/ Duplicate(r) \/ Orphan(r)
    BY <1>10, <1>11, <2>1 DEF Execute, UpdateLabels
  <2>2. CASE ~(Stale(r) \/ Duplicate(r) \/ Orphan(r))
    <3>1. pc' = pc /\ stmt' = [stmt EXCEPT ![r] = Cascade(r)] /\ stmt[r] # NoWrite
      BY <1>11, <2>2 DEF Execute
    <3>2. pc[r] = "refresh" /\ stmt[r] = Update(op[r].id, op[r].set, Compared(r))
      BY <1>1, <3>1 DEF UpdateSound
    <3>3. Cascade(r) = NoWrite
      BY <1>0, <2>2, <3>2, UpdateDeletesNothing
    <3> QED
      BY <3>1, <3>2, <3>3 DEF Shape, UpdateLabels
  <2> QED
    BY <2>1, <2>2
<1>12. CASE Commit(r)
  BY <1>12 DEF Commit, Finish, Shape, Order, UpdateLabels
<1>13. CASE DeadlockVictim(r)
  BY <1>10, <1>13 DEF DeadlockVictim, UpdateLabels
<1>14. CASE ConnectionLost(r)
  BY <1>3, <1>14 DEF ConnectionLost, UpdateLabels
<1> QED
  BY <1>2, <1>5, <1>6, <1>7, <1>8, <1>9, <1>11, <1>12, <1>13, <1>14 DEF UpdateActs

LEMMA StepUpdating ==
  ASSUME WInv, WindowInv, met \in [Requests -> SUBSET Requests], saved \subseteq Requests,
         NEW o \in Requests, Acts(o), WebStep(o), Watch
  PROVE  Updating'
<1> USE DEF WInv, IInv
<1>1. /\ op' = op
      /\ \A r \in Requests : r # o => pc'[r] = pc[r] /\ stmt'[r] = stmt[r]
                                      /\ writes'[r] = writes[r]
  BY DEF WebStep, Handled, Continues, Reply, RollsBack, Executed, Commits, Shape
<1>2. /\ local = [q \in Requests |-> local[q]]
      /\ local' = local \/ \E mem : local' = [local EXCEPT ![o] = mem]
  BY DEF WindowInv, Updating, WebStep, Handled, Continues, Reply, RollsBack, Executed, Commits
<1>3. local' = [q \in Requests |-> local'[q]]
  BY <1>2
<1>4. ASSUME NEW r \in Requests, r # o PROVE UpdateSound(r)'
  <2>1. local'[r] = local[r]
    BY <1>2, <1>4
  <2>2. UpdateSound(r)
    BY DEF WindowInv, Updating
  <2>3. Running(r) /\ Read(r) => Read(r)'
    BY <1>1, <1>4, <2>1, ReadStays
  <2>4. (Given(r, "end") <= Given(r, "start"))' <=> Given(r, "end") <= Given(r, "start")
    BY <1>1, <2>1 DEF Given
  <2>5. Compared(r)' = Compared(r)
    BY <1>1, <2>1 DEF Compared
  <2> QED
    BY <1>1, <1>4, <2>1, <2>2, <2>3, <2>4, <2>5 DEF UpdateSound, Running
<1> QED
  BY <1>3, <1>4, OwnStepSound DEF Updating

LEMMA InitWindows ==
  ASSUME Init PROVE WindowInv
<1>1. /\ db = [i \in Ids |-> IF i \in DOMAIN Seed THEN Seed[i] ELSE NoRow]
      /\ writes = [r \in Requests |-> NoWrite] /\ stmt = [r \in Requests |-> NoWrite]
      /\ pc = [r \in Requests |-> "start"] /\ local = [r \in Requests |-> NoLocals]
      /\ met = [r \in Requests |-> {}] /\ saved = {}
  BY DEF Init, SessionInit
<1>2. MetInv
  BY <1>1 DEF MetInv, Running
<1>3. ASSUME NEW i \in Ids PROVE Windowed(db[i]) /\ ~Backwards(db[i])
  <2>1. CASE i \in DOMAIN Seed /\ Seed[i].table = "contest"
    <3>1. i \in RowsOf(Seed, "contest") /\ db[i] = Seed[i]
      BY <1>1, <2>1 DEF RowsOf
    <3>2. Window \subseteq Tables["contest"].columns
      BY DEF Tables, ContestTables, Window
    <3>3. DOMAIN Seed[i] = {"table"} \cup Tables["contest"].columns
      BY <2>1, SeedAssumption DEF IsRow
    <3>4. Windowed(db[i])
      BY <3>1, <3>2, <3>3 DEF Windowed
    <3>5. ~Backwards(db[i])
      BY <3>1, WindowsAssumption DEF Backwards
    <3> QED
      BY <3>4, <3>5
  <2>2. CASE i \in DOMAIN Seed /\ Seed[i].table # "contest"
    BY <1>1, <2>2 DEF Windowed, Backwards
  <2>3. CASE i \notin DOMAIN Seed
    BY <1>1, <2>3, NoWindows
  <2> QED
    BY <2>1, <2>2, <2>3
<1>4. Windows
  BY <1>1, <1>3, NoWindows, NothingTouched DEF Windows
<1>5. Updating
  BY <1>1 DEF Updating, UpdateSound, UpdateLabels
<1> QED
  BY <1>1, <1>2, <1>4, <1>5 DEF WindowInv

LEMMA WindowInvariance == Spec => []WindowInv
<1>1. Init => WindowInv
  BY InitWindows
<1>2. WInv /\ Books /\ WindowInv /\ [Next]_vars => WindowInv'
  <2> SUFFICES ASSUME WInv, Books, WindowInv, [Next]_vars PROVE WindowInv'
    OBVIOUS
  <2> USE DEF Books
  <2>1. CASE Next
    <3>1. PICK r \in Requests : Acts(r) /\ WebStep(r) /\ Watch
      BY <2>1, NextIsWebStep DEF WInv
    <3>2. Windows'
      BY <3>1, StepWindows DEF WInv
    <3>3. MetInv'
      BY <3>1, StepMet
    <3>4. Updating'
      BY <3>1, StepUpdating
    <3> QED
      BY <3>2, <3>3, <3>4 DEF WindowInv
  <2>2. CASE UNCHANGED vars
    BY <2>2 DEF vars, WindowInv, MetInv, Running, Windows, Disputed, Overtaken, SetsWindow,
       WindowsIn, Updating, UpdateSound, Read, Given, Compared
  <2> QED
    BY <2>1, <2>2
<1> QED
  BY <1>1, <1>2, SessionsKeepTables, BooksInvariance, PTL DEF Spec

(* A committed contest ends after it starts, unless two updates of it that *)
(* ran at the same time were saved: one update alone never breaks it, with *)
(* whatever else runs, since each is checked with the row it has read.     *)
THEOREM WindowsBreakOnlyInPairs == Spec => []WindowNeedsTwo
<1>1. WInv /\ WindowInv => WindowNeedsTwo
  <2> SUFFICES ASSUME WInv, WindowInv, NEW i \in Rows("contest"), db[i].end <= db[i].start
               PROVE  \E a, b \in saved :
                        /\ a # b /\ b \in met[a]
                        /\ \A o \in {a, b} : op[o].kind = "update_contest" /\ op[o].id = i
    BY DEF WindowNeedsTwo
  <2>1. i \in Ids /\ Backwards(db[i])
    BY DEF Rows, RowsOf, Backwards, WInv, IInv, Shape
  <2>2. Disputed(i)
    BY <2>1 DEF WindowInv, Windows
  <2> QED
    BY <2>2 DEF Disputed, SetsWindow
<1> QED
  BY <1>1, SessionsKeepTables, WindowInvariance, PTL

-----------------------------------------------------------------------------
(* What the requests of each kind do to the tables.                        *)

(* What r has written deletes rows of tables its kind deletes rows of, and *)
(* adds rows to those it inserts into; other rows it has written are of a  *)
(* table whose rows are updated.                                           *)
Effect(r, i) ==
  /\ Exists(db[i]) /\ writes[r][i] = NoRow => db[i].table \in Removes(op[r].kind)
  /\ Exists(db[i]) /\ Exists(writes[r][i]) => db[i].table \in Sets(op[r].kind)
  /\ ~Exists(db[i]) /\ Exists(writes[r][i]) => writes[r][i].table \in Adds(op[r].kind)
Effects == \A r \in Requests : \A i \in Ids : Effect(r, i)

LEMMA ResultEffect ==
  ASSUME WInv, Effects, NEW r \in Requests, stmt[r] # NoWrite, ~Stale(r), ~Duplicate(r),
         NEW i \in Touched(Result(r))
  PROVE  /\ Exists(db[i]) /\ Result(r)[i] = NoRow => db[i].table \in Removes(op[r].kind)
         /\ Exists(db[i]) /\ Exists(Result(r)[i]) => db[i].table \in Sets(op[r].kind)
         /\ ~Exists(db[i]) /\ Exists(Result(r)[i]) =>
              Result(r)[i].table \in Adds(op[r].kind)
<1> USE DEF WInv, IInv
<1>1. i \in Ids /\ FitsIn(r, stmt[r]) /\ Effect(r, i)
  BY DEF Touched, Typing, Effects
<1>2. Exists(db[i]) /\ Exists(View(r)[i]) => View(r)[i].table = db[i].table
  BY <1>1, ViewAt DEF Identity
<1>3. CASE Removed(r, i)
  <2>1. PICK t \in Removes(op[r].kind) : KnownAs(r, i, t)
    BY <1>1, <1>3 DEF Removed, FitsIn
  <2> QED
    BY <1>1, <1>2, <1>3, <2>1, Absent DEF Removed, KnownAs
<1>4. CASE Changes(r, i)
  <2>1. PICK t \in Sets(op[r].kind) : KnownAs(r, i, t)
    BY <1>1, <1>4 DEF Changes, FitsIn
  <2>2. View(r)[i].table \in Sets(op[r].kind) /\ Result(r)[i].table = View(r)[i].table
    BY <1>1, <1>4, <2>1 DEF Changes, KnownAs
  <2>3. ~Exists(db[i]) => View(r)[i].table \in Adds(op[r].kind)
    BY <1>1, <1>4, ViewAt DEF Changes, Effect
  <2> QED
    BY <1>2, <1>4, <2>2, <2>3, Absent DEF Changes
<1>5. CASE Added(r, i)
  <2>1. r \notin saved
    BY DEF Order
  <2>2. ~Exists(db[i])
    BY <1>1, <1>5, <2>1 DEF Added, Identity
  <2>3. Result(r)[i] = Merge(View(r)[i], stmt[r][i]) /\ "table" \in DOMAIN stmt[r][i]
    BY <1>1, <1>5, Absent DEF Added, Inserts, Updates, Result, Deletes
  <2>4. Result(r)[i].table = stmt[r][i].table
    BY <2>3, MergedTable
  <2> QED
    BY <1>1, <1>5, <2>2, <2>4, Absent DEF Added, FitsIn
<1> QED
  BY <1>1, <1>3, <1>4, <1>5, ResultAt

LEMMA WebStepEffects ==
  ASSUME WInv, Effects, NEW o \in Requests, WebStep(o) PROVE Effects'
<1> USE DEF WInv, IInv
<1>1. op' = op
  BY DEF WebStep, Handled, Continues, Reply, RollsBack, Executed, Commits
<1>2. SUFFICES ASSUME NEW r \in Requests, NEW i \in Ids
               PROVE  /\ Exists(db'[i]) /\ writes'[r][i] = NoRow =>
                           db'[i].table \in Removes(op[r].kind)
                      /\ Exists(db'[i]) /\ Exists(writes'[r][i]) =>
                           db'[i].table \in Sets(op[r].kind)
                      /\ ~Exists(db'[i]) /\ Exists(writes'[r][i]) =>
                           writes'[r][i].table \in Adds(op[r].kind)
  BY <1>1 DEF Effects, Effect
<1>3. CASE i \notin Touched(writes'[r])
  BY <1>3, Absent DEF Touched
<1>4. CASE db' = db /\ writes'[r][i] = writes[r][i]
  BY <1>4 DEF Effects, Effect
<1>5. CASE Executed(o) /\ stmt[o] # NoWrite
  <2>1. CASE r = o /\ i \in Touched(Result(r))
    <3>1. ~Stale(r) /\ ~Duplicate(r) /\ db' = db /\ writes'[r][i] = Result(r)[i]
      BY <1>5, <2>1, ExecutedAt DEF Executed
    <3> QED
      BY <1>5, <2>1, <3>1, ResultEffect
  <2>2. CASE r # o \/ i \notin Touched(Result(r))
    <3>1. db' = db /\ writes'[r][i] = writes[r][i]
      BY ZenonT(60), <1>5, <2>2, ExecutedAt, ExecutedOther DEF Executed
    <3> QED
      BY <1>4, <3>1
  <2> QED
    BY <2>1, <2>2
<1>6. CASE Commits(o) /\ i \in Touched(writes'[r])
  <2>1. r # o /\ writes'[r] = writes[r] /\ i \in Touched(writes[r])
    BY <1>6, CommitsAt, NothingTouched
  <2>2. i \notin Touched(writes[o])
    BY <2>1 DEF KeysOnce, Apart
  <2>3. db'[i] = db[i]
    BY <1>6, <2>2, CommitsAt, ViewAt
  <2> QED
    BY <2>1, <2>3 DEF Effects, Effect
<1>7. CASE RollsBack(o)
  <2>1. db' = db /\ (r # o => writes'[r] = writes[r]) /\ (r = o => writes'[r] = NoWrite)
    BY <1>7 DEF RollsBack, Shape
  <2> QED
    BY <1>3, <1>4, <2>1, NothingTouched
<1>8. CASE (\E w, label : Continues(o, w, label)) \/ Reply(o)
  BY <1>4, <1>8 DEF Continues, Reply
<1> QED
  BY <1>3, <1>5, <1>6, <1>7, <1>8 DEF WebStep, Handled

LEMMA EffectsInvariance == Spec => []Effects
<1>1. Init => Effects
  <2> SUFFICES ASSUME Init, NEW r \in Requests, NEW i \in Ids PROVE Effect(r, i)
    BY DEF Effects
  <2>1. writes[r][i] = Untouched
    BY NothingTouched DEF Init, SessionInit
  <2> QED
    BY <2>1, Absent DEF Effect
<1>2. WInv /\ Effects /\ [Next]_vars => Effects'
  <2> SUFFICES ASSUME WInv, Effects, [Next]_vars PROVE Effects'
    OBVIOUS
  <2>1. CASE Next
    BY <2>1, NextIsWebStep, WebStepEffects
  <2>2. CASE UNCHANGED vars
    BY <2>2 DEF vars, Effects, Effect
  <2> QED
    BY <2>1, <2>2
<1> QED
  BY <1>1, <1>2, SessionsKeepTables, PTL DEF Spec

LEMMA SetsMutable == \A kind : Sets(kind) \subseteq Mutable
  BY DEF Sets, Mutable

(* What a commit does to row i.                                            *)
Vanishes(i) == Exists(db[i]) /\ ~Exists(db'[i])
Appears(i) == ~Exists(db[i]) /\ Exists(db'[i])

LEMMA CommitEffect ==
  ASSUME WInv, Effects, NEW o \in Requests, Commits(o), NEW i \in Ids
  PROVE  /\ Vanishes(i) => db[i].table \in Removes(op[o].kind) /\ writes[o][i] = NoRow
         /\ Appears(i) => i \in Own(o) /\ db'[i].table \in Adds(op[o].kind)
                          /\ db'[i] = writes[o][i]
         /\ Exists(db[i]) /\ Exists(db'[i]) =>
              /\ db'[i].table = db[i].table
              /\ db'[i] = db[i] \/ (db'[i] = writes[o][i] /\ db[i].table \in Sets(op[o].kind))
              /\ db[i].table \notin Mutable => db'[i] = db[i]
<1> USE DEF WInv, IInv
<1>1. db'[i] = View(o)[i] /\ Effect(o, i)
  BY CommitsAt DEF Effects
<1>2. CASE i \notin Touched(writes[o])
  BY <1>1, <1>2, ViewAt DEF Vanishes, Appears
<1>3. CASE i \in Touched(writes[o])
  <2>1. db'[i] = writes[o][i] /\ Written(writes[o][i])
    BY <1>1, <1>3, ViewAt
  <2>2. writes[o][i] = NoRow \/ Exists(writes[o][i])
    BY <1>3, <2>1 DEF Written, Touched
  <2> QED
    BY <1>1, <2>1, <2>2, SetsMutable, Absent DEF Effect, Identity, Vanishes, Appears
<1> QED
  BY <1>2, <1>3

(* Only a commit changes the database, and then it saves a request.        *)
LEMMA OnlyCommits ==
  ASSUME WInv, NEW o \in Requests, WebStep(o)
  PROVE  /\ op' = op /\ ((db' = db /\ saved' = saved) \/ Commits(o))
         /\ \A r \in Requests : r # o => /\ pc'[r] = pc[r] /\ stmt'[r] = stmt[r]
                                         /\ writes'[r] = writes[r]
  BY DEF WebStep, Handled, Continues, Reply, RollsBack, Executed, Commits, WInv, IInv, Shape

(* What commits do to the rows of a table: none appears unless the request *)
(* inserts into it, none vanishes unless it deletes from it.               *)
LEMMA NoneAppears ==
  ASSUME WInv, Effects, NEW o \in Requests, WebStep(o), NEW t \in DOMAIN Tables \ Mutable,
         Commits(o) => t \notin Adds(op[o].kind), NEW i \in RowsOf(db', t)
  PROVE  i \in RowsOf(db, t) /\ db'[i] = db[i]
<1>1. CASE db' = db
  BY <1>1
<1>2. CASE db' # db
  <2>1. Commits(o) /\ DOMAIN db = Ids /\ DOMAIN db' = Ids
    BY <1>2, OnlyCommits, CommitsAt, Domains DEF WInv, IInv
  <2>2. i \in Ids /\ db'[i].table = t /\ Exists(db'[i])
    BY <2>1 DEF RowsOf, Exists
  <2>3. Exists(db[i])
    BY <2>1, <2>2, CommitEffect DEF Appears
  <2>4. db'[i] = db[i]
    BY <2>1, <2>2, <2>3, CommitEffect
  <2> QED
    BY <2>1, <2>2, <2>4 DEF RowsOf
<1> QED
  BY <1>1, <1>2

LEMMA NoneVanishes ==
  ASSUME WInv, Effects, NEW o \in Requests, WebStep(o), NEW t \in DOMAIN Tables,
         Commits(o) => t \notin Removes(op[o].kind), NEW i \in RowsOf(db, t)
  PROVE  i \in RowsOf(db', t) /\ (t \notin Mutable => db'[i] = db[i])
<1>1. CASE db' = db
  BY <1>1
<1>2. CASE db' # db
  <2>1. Commits(o) /\ DOMAIN db = Ids /\ DOMAIN db' = Ids
    BY <1>2, OnlyCommits, CommitsAt, Domains DEF WInv, IInv
  <2>2. i \in Ids /\ db[i].table = t /\ Exists(db[i])
    BY <2>1 DEF RowsOf, Exists
  <2>3. Exists(db'[i])
    BY <2>1, <2>2, CommitEffect DEF Vanishes
  <2> QED
    BY <2>1, <2>2, <2>3, CommitEffect DEF RowsOf
<1> QED
  BY <1>1, <1>2

-----------------------------------------------------------------------------
(* What a request of a kind that is followed below may do.                 *)
PageKinds == {"leaderboard"} \cup ProgressKinds
Followed == PageKinds \cup TagKinds \cup {"delete_problem", "import_students"}
Common(r) ==
  \/ Authenticate(r) \/ Serialize(r) \/ Respond(r) \/ Refresh(r) \/ Execute(r)
  \/ Commit(r) \/ DeadlockVictim(r) \/ ConnectionLost(r)

LEMMA ActsOfKind ==
  ASSUME NEW r \in Requests, op[r].kind \in Followed, Acts(r)
  PROVE  \/ Common(r) \/ GetOrCreateTag(r) \/ ReplaceTags(r)
         \/ op[r].kind = "leaderboard" /\ ShowLeaderboard(r)
         \/ op[r].kind = "course_detail" /\ CourseDetail(r)
         \/ op[r].kind = "export_course_scores" /\ ExportCourseScores(r)
         \/ op[r].kind = "import_students" /\ ImportStudents(r)
         \/ op[r].kind = "create_problem" /\ CreateProblem(r)
         \/ op[r].kind = "update_problem" /\ UpdateProblem(r)
         \/ op[r].kind = "delete_problem" /\ DeleteProblem(r)
<1> DEFINE other == \E k, label : At(r, k, label) /\ k \notin Followed
<1>0. ~other /\ \A k, label : At(r, k, label) => op[r].kind = k
  BY DEF At
<1> USE DEF Followed, PageKinds, ProgressKinds, TagKinds
<1>1. ~AccountStep(r)
  BY <1>0 DEF AccountStep, RegisterUser, Login, Me, Profile, ForgotPassword, ResetPassword
<1>2. CourseStep(r) => \/ ImportStudents(r) /\ op[r].kind = "import_students"
                       \/ CourseDetail(r) /\ op[r].kind = "course_detail"
                       \/ ExportCourseScores(r) /\ op[r].kind = "export_course_scores"
  <2>1. \A k : ManageCourse(r, k) => op[r].kind = k
    BY <1>0 DEF ManageCourse
  <2>2. \A k : MemberProgress(r, k) => op[r].kind = k
    BY <1>0 DEF MemberProgress
  <2>3. ImportStudents(r) => op[r].kind = "import_students"
    <3>1. FindUser(r) \/ EnrollUser(r) => op[r].kind = "import_students"
      BY <1>0 DEF FindUser, EnrollUser
    <3>2. NameUser(r) => \/ At(r, "import_students", "no_user")
                        \/ At(r, "import_students", "name_taken")
      BY Zenon DEF NameUser
    <3> QED
      BY <1>0, <2>1, <3>1, <3>2 DEF ImportStudents
  <2>4. ~(UpdateCourse(r) \/ DeleteCourse(r) \/ InviteMember(r) \/ RemoveMember(r))
    BY <1>0, <2>1 DEF UpdateCourse, DeleteCourse, InviteMember, EnrollByIdentifier,
       RemoveMember
  <2>5. ~(AssignCourseProblem(r) \/ UnassignCourseProblem(r))
    BY <1>0, <2>1 DEF AssignCourseProblem, UnassignCourseProblem
  <2>6. ~(ListCourses(r) \/ CreateCourse(r) \/ JoinCourse(r))
    BY <1>0 DEF ListCourses, CreateCourse, JoinCourse
  <2>7. CourseDetail(r) => op[r].kind = "course_detail"
    BY <1>0, <2>2 DEF CourseDetail
  <2>8. ExportCourseScores(r) => op[r].kind = "export_course_scores"
    BY <1>0, <2>1, <2>2 DEF ExportCourseScores
  <2> QED
    BY <2>3, <2>4, <2>5, <2>6, <2>7, <2>8 DEF CourseStep
<1>3. ProblemStep(r) => \/ GetOrCreateTag(r) \/ ReplaceTags(r)
                        \/ CreateProblem(r) /\ op[r].kind = "create_problem"
                        \/ UpdateProblem(r) /\ op[r].kind = "update_problem"
                        \/ DeleteProblem(r) /\ op[r].kind = "delete_problem"
  <2>1. CreateProblem(r) => op[r].kind = "create_problem"
    BY <1>0 DEF CreateProblem
  <2>2. UpdateProblem(r) => op[r].kind = "update_problem"
    BY <1>0 DEF UpdateProblem
  <2>3. ~(ProblemDetail(r) \/ ListTestcases(r) \/ CreateTestcase(r))
    BY <1>0 DEF ProblemDetail, ListTestcases, CreateTestcase
  <2>4. ~(UpdateTestcase(r) \/ DeleteTestcase(r) \/ UploadTestcasesZip(r))
    BY <1>0 DEF UpdateTestcase, DeleteTestcase, UploadTestcasesZip
  <2>5. DeleteProblem(r) => op[r].kind = "delete_problem"
    BY <1>0 DEF DeleteProblem
  <2> QED
    BY <2>1, <2>2, <2>3, <2>4, <2>5 DEF ProblemStep
<1>4. ContestStep(r) => ShowLeaderboard(r) /\ op[r].kind = "leaderboard"
  <2>1. \A k : ManageContest(r, k) => op[r].kind = k
    BY <1>0 DEF ManageContest
  <2>2. ~(CreateContest(r) \/ UpdateContest(r) \/ DeleteContest(r) \/ RegisterForContest(r))
    BY <1>0, <2>1 DEF CreateContest, UpdateContest, DeleteContest, RegisterForContest
  <2>3. ~(AssignContestProblem(r) \/ UnassignContestProblem(r))
    BY <1>0, <2>1 DEF AssignContestProblem, UnassignContestProblem
  <2>4. ~(ListContests(r) \/ ContestDetail(r))
    BY <1>0 DEF ListContests, ContestDetail
  <2>5. ShowLeaderboard(r) => op[r].kind = "leaderboard"
    BY <1>0 DEF ShowLeaderboard
  <2> QED
    BY <2>2, <2>3, <2>4, <2>5 DEF ContestStep
<1> QED
  BY <1>1, <1>2, <1>3, <1>4 DEF Acts, Step, Common

-----------------------------------------------------------------------------
(* The history variables.                                                  *)

LEMMA MetStays ==
  ASSUME op' = op, saved \subseteq saved', Watch, met \in [Requests -> SUBSET Requests],
         NEW r \in Requests, NEW kinds, MetSaved(r, kinds)
  PROVE  MetSaved(r, kinds)'
<1>1. PICK o \in met[r] \cap saved : op[o].kind \in kinds
  BY DEF MetSaved
<1>2. o \in met'[r] \cap saved' /\ op'[o].kind \in kinds
  BY <1>1 DEF Watch
<1> QED
  BY <1>2 DEF MetSaved

LEMMA CommitIsMet ==
  ASSUME MetInv, Watch, met \in [Requests -> SUBSET Requests],
         NEW o \in Requests, Commits(o), NEW r \in Requests \ {o}, Running(r)
  PROVE  /\ o \in met'[r] \cap saved' /\ op'[o] = op[o]
         /\ \A kinds : op[o].kind \in kinds => MetSaved(r, kinds)'
<1>1. Running(o) /\ saved' = saved \cup {o} /\ op' = op
  BY DEF Commits, Running
<1>2. o \in met[r]
  BY <1>1 DEF MetInv
<1>3. o \in met'[r]
  BY <1>2 DEF Watch
<1> QED
  BY <1>1, <1>3 DEF MetSaved

-----------------------------------------------------------------------------
(* The pages that query twice.                                             *)
BoardKinds == {"assign_contest_problem", "unassign_contest_problem",
               "delete_contest", "delete_problem"}
PageLabels == {"start", "handler", "viewed", "listed", "managed", "loaded", "count",
               "members", "problems", "accepted", "progress", "page", "reply", "answered",
               "done"}

(* A board: what it listed first is there still.                           *)
Board(r) ==
  op[r].kind = "leaderboard" /\ ~MetSaved(r, BoardKinds) =>
    /\ pc[r] = "listed" => local[r].seen = ProblemsOfContest(db, op[r].id)
    /\ pc[r] = "page" => local[r].seen = local[r].again

(* Progress: no more problems are assigned than it counted.                *)
Progress(r) ==
  op[r].kind \in ProgressKinds /\ ~MetSaved(r, {"assign_course_problem"}) =>
    /\ pc[r] \in {"members", "problems", "accepted"} => local[r].n \in Nat
    /\ pc[r] \in {"members", "problems"} =>
         Cardinality(AssignmentsOf(db, op[r].id)) <= local[r].n
    /\ pc[r] = "accepted" => /\ IsFiniteSet(local[r].again)
                             /\ Cardinality(local[r].again) <= local[r].n
    /\ pc[r] = "progress" => ~(local[r].good > local[r].bad)

PageSound(r) ==
  op[r].kind \in PageKinds =>
    /\ DOMAIN local[r] = DOMAIN NoLocals
    /\ pc[r] \in PageLabels /\ stmt[r] = NoWrite /\ writes[r] = NoWrite
    /\ Board(r) /\ Progress(r)
FewRows == IsFiniteSet({ i \in Ids : Exists(db[i]) })
Paging == FewRows /\ \A r \in Requests : PageSound(r)

(* Every request has finitely many rows of its own.                        *)
LEMMA OwnFinite ==
  ASSUME NEW r \in Requests
  PROVE  IsFiniteSet(Own(r)) /\ Cardinality(Own(r)) = MaxNew
<1>1. IsFiniteSet(1..MaxNew) /\ Cardinality(1..MaxNew) = MaxNew
  BY FS_Interval, MaxNewAssumption
<1>2. IsFiniteSet({r}) /\ Cardinality({r}) = 1
  BY FS_Singleton
<1> QED
  BY <1>1, <1>2, FS_Product, MaxNewAssumption DEF Own

LEMMA StepFewRows ==
  ASSUME WInv, Effects, FewRows, NEW o \in Requests, WebStep(o)
  PROVE  FewRows'
<1> DEFINE old == { i \in Ids : Exists(db[i]) }
           new == { i \in Ids : Exists(db'[i]) }
<1>1. IsFiniteSet(old \cup Own(o))
  BY OwnFinite, FS_Union DEF FewRows
<1>2. new \subseteq old \cup Own(o)
  <2>1. CASE db' = db
    BY <2>1
  <2>2. CASE Commits(o)
    BY <2>2, CommitEffect DEF Appears
  <2> QED
    BY <2>1, <2>2, OnlyCommits
<1>3. IsFiniteSet(new)
  BY <1>1, <1>2, FS_Subset
<1> QED
  BY <1>3 DEF FewRows

LEMMA AssignmentsFinite ==
  ASSUME DOMAIN db = Ids, FewRows, NEW c
  PROVE  /\ IsFiniteSet(AssignmentsOf(db, c)) /\ Cardinality(AssignmentsOf(db, c)) \in Nat
<1>1. AssignmentsOf(db, c) \in SUBSET { i \in Ids : Exists(db[i]) }
  BY DeletedTables DEF AssignmentsOf, RowsOf, Exists
<1>2. IsFiniteSet(AssignmentsOf(db, c))
  BY <1>1, FS_Subset DEF FewRows
<1> QED
  BY <1>2, FS_CardinalityType

(* The numbers of a bounded set have a greatest.                           *)
LEMMA GreatestThere ==
  ASSUME NEW S \in SUBSET Nat, S # {}, NEW n \in Nat, \A k \in S : k <= n
  PROVE  LET top == CHOOSE k \in S : \A j \in S : j <= k IN top \in S
<1> DEFINE T == { m \in Nat : \E k \in S : m = n - k }
<1>1. T # {} /\ T \subseteq Nat
  <2>1. PICK k \in S : k <= n
    OBVIOUS
  <2>2. n - k \in T
    BY <2>1
  <2> QED
    BY <2>2
<1>2. PICK m \in T : \A y \in T : <<y, m>> \notin OpToRel(<, Nat)
  BY <1>1, NatLessThanWellFounded, WFMin, Zenon
<1>3. \A y \in T : ~(y < m)
  BY <1>1, <1>2, Zenon DEF OpToRel
<1>4. PICK k \in S : m = n - k
  BY <1>2
<1>5. \A j \in S : j <= k
  <2> SUFFICES ASSUME NEW j \in S PROVE j <= k
    OBVIOUS
  <2>1. n - j \in T
    OBVIOUS
  <2> QED
    BY <1>3, <1>4, <2>1
<1> QED
  BY <1>4, <1>5

LEMMA ImageSmaller ==
  ASSUME NEW S, IsFiniteSet(S), NEW f, DOMAIN f = S
  PROVE  /\ IsFiniteSet({ f[i] : i \in S })
         /\ Cardinality({ f[i] : i \in S }) <= Cardinality(S)
<1> DEFINE T == { f[i] : i \in S }
           g == [i \in S |-> f[i]]
<1>1. g \in Surjection(S, T)
  BY DEF Surjection
<1> HIDE DEF T, g
<1>2. IsFiniteSet(T) /\ Cardinality(T) <= Cardinality(S)
  BY <1>1, FS_Surjection
<1> QED
  BY <1>2 DEF T

-----------------------------------------------------------------------------
(* The steps of other requests.                                            *)

LEMMA ProblemsStay ==
  ASSUME WInv, Effects, NEW o \in Requests, WebStep(o),
         Commits(o) => op[o].kind \notin BoardKinds, NEW c
  PROVE  ProblemsOfContest(db', c) = ProblemsOfContest(db, c)
<1>1. "contest_problem" \in DOMAIN Tables \ Mutable
  BY DeletedTables DEF Mutable
<1>2. Commits(o) => "contest_problem" \notin Adds(op[o].kind)
  BY DEF Adds, BoardKinds
<1>3. Commits(o) => "contest_problem" \notin Removes(op[o].kind)
  BY DEF Removes, BoardKinds, TagKinds
<1>4. \A i \in RowsOf(db', "contest_problem") :
        i \in RowsOf(db, "contest_problem") /\ db'[i] = db[i]
  BY <1>1, <1>2, NoneAppears
<1>5. \A i \in RowsOf(db, "contest_problem") :
        i \in RowsOf(db', "contest_problem") /\ db'[i] = db[i]
  BY <1>1, <1>3, NoneVanishes
<1> QED
  BY <1>4, <1>5 DEF ProblemsOfContest

LEMMA AssignmentsShrink ==
  ASSUME WInv, Effects, NEW o \in Requests, WebStep(o),
         Commits(o) => op[o].kind # "assign_course_problem", NEW c
  PROVE  AssignmentsOf(db', c) \subseteq AssignmentsOf(db, c)
<1>1. "assignment" \in DOMAIN Tables \ Mutable
  BY DeletedTables DEF Mutable
<1>2. Commits(o) => "assignment" \notin Adds(op[o].kind)
  BY DEF Adds
<1>3. \A i \in RowsOf(db', "assignment") :
        i \in RowsOf(db, "assignment") /\ db'[i] = db[i]
  BY <1>1, <1>2, NoneAppears
<1> QED
  BY <1>3 DEF AssignmentsOf

(* What is said of the history of a request still holds if it was said of  *)
(* the history before, and no request it met has been saved since.         *)
Hist == /\ Books /\ MetInv /\ met \in [Requests -> SUBSET Requests]
        /\ local = [q \in Requests |-> local[q]]

LEMMA StillUnmet ==
  ASSUME WInv, Hist, NEW o \in Requests, WebStep(o), Watch, NEW r \in Requests, NEW kinds,
         ~MetSaved(r, kinds)'
  PROVE  /\ ~MetSaved(r, kinds)
         /\ Commits(o) /\ r # o /\ Running(r) => op[o].kind \notin kinds
<1>1. op' = op /\ saved \subseteq saved'
  BY OnlyCommits DEF Commits
<1>2. ~MetSaved(r, kinds)
  BY <1>1, MetStays DEF Hist
<1>3. Commits(o) /\ r # o /\ Running(r) => op[o].kind \notin kinds
  BY CommitIsMet DEF Hist
<1> QED
  BY <1>2, <1>3

LEMMA OtherPage ==
  ASSUME WInv, Effects, Hist, Paging, NEW o \in Requests, WebStep(o), Watch,
         NEW r \in Requests, r # o
  PROVE  PageSound(r)'
<1> USE DEF WInv, IInv
<1>1. /\ op' = op /\ pc'[r] = pc[r] /\ stmt'[r] = stmt[r] /\ writes'[r] = writes[r]
  BY OnlyCommits
<1>2. local'[r] = local[r]
  BY DEF Hist, WebStep, Handled, Continues, Reply, RollsBack, Executed, Commits
<1>3. PageSound(r)
  BY DEF Paging
<1>4. Board(r) => Board(r)'
  <2> SUFFICES ASSUME Board(r), op[r].kind = "leaderboard", ~MetSaved(r, BoardKinds)'
               PROVE  /\ pc[r] = "listed" => local[r].seen = ProblemsOfContest(db', op[r].id)
                      /\ pc[r] = "page" => local[r].seen = local[r].again
    BY <1>1, <1>2 DEF Board
  <2>1. ~MetSaved(r, BoardKinds)
    BY StillUnmet
  <2>2. pc[r] = "listed" => ProblemsOfContest(db', op[r].id) = ProblemsOfContest(db, op[r].id)
    BY StillUnmet, ProblemsStay DEF Running
  <2> QED
    BY <2>1, <2>2 DEF Board
<1>5. Progress(r) => Progress(r)'
  <2> DEFINE there == AssignmentsOf(db, op[r].id)
             new == AssignmentsOf(db', op[r].id)
             kinds == {"assign_course_problem"}
  <2> SUFFICES ASSUME Progress(r), op[r].kind \in ProgressKinds, ~MetSaved(r, kinds)'
               PROVE  /\ pc[r] \in {"members", "problems"} => Cardinality(new) <= local[r].n
                      /\ ~MetSaved(r, kinds)
    BY <1>1, <1>2 DEF Progress
  <2>1. ~MetSaved(r, kinds)
    BY StillUnmet
  <2>2. ASSUME pc[r] \in {"members", "problems"} PROVE Cardinality(new) <= local[r].n
    <3>1. new \subseteq there
      BY <2>2, StillUnmet, AssignmentsShrink DEF Running
    <3>2. IsFiniteSet(there) /\ Cardinality(there) \in Nat
      BY AssignmentsFinite, Domains DEF Paging, Shape
    <3>3. IsFiniteSet(new) /\ Cardinality(new) <= Cardinality(there)
      BY <3>1, <3>2, FS_Subset
    <3>4. Cardinality(new) \in Nat
      BY <3>3, FS_CardinalityType
    <3>5. local[r].n \in Nat /\ Cardinality(there) <= local[r].n
      BY <2>1, <2>2 DEF Progress
    <3> HIDE DEF new, there
    <3> QED
      BY <3>2, <3>3, <3>4, <3>5
  <2> QED
    BY <2>1, <2>2
<1> QED
  BY <1>1, <1>2, <1>3, <1>4, <1>5 DEF PageSound

-----------------------------------------------------------------------------
(* The steps of the page itself.                                           *)

(* A page goes on, with the locals mem, or ends.                           *)
LEMMA PageGoesOn ==
  ASSUME NEW r \in Requests, op[r].kind \in PageKinds, PageSound(r), Hist, WInv,
         NEW mem, NEW label, Proceed(r, mem, NoWrite, label),
         label \in PageLabels, DOMAIN mem = DOMAIN NoLocals,
         label \in {"listed", "page"} => Board(r)',
         label \in {"members", "problems", "accepted", "progress"} => Progress(r)'
  PROVE  PageSound(r)'
  BY DEF WInv, IInv, Shape, Proceed, PageSound, Board, Progress, Hist

LEMMA PageEnds ==
  ASSUME NEW r \in Requests, op[r].kind \in PageKinds, PageSound(r), Hist, WInv,
         \/ \E status : Refuse(r, status)
         \/ Commit(r)
         \/ Respond(r)
  PROVE  PageSound(r)'
<1> USE DEF WInv, IInv, Shape, Hist
<1>1. /\ op' = op /\ writes'[r] = NoWrite /\ stmt'[r] = NoWrite /\ local' = local
      /\ pc'[r] \in {"done", "answered"}
  BY DEF Refuse, Commit, Finish, Respond, Reply, PageSound
<1> QED
  BY <1>1 DEF PageSound, PageLabels, Board, Progress

LEMMA BoardTurns ==
  ASSUME WInv, Effects, Hist, Paging, NEW r \in Requests, WebStep(r), Watch,
         op[r].kind = "leaderboard", ShowLeaderboard(r)
  PROVE  PageSound(r)'
<1> USE DEF WInv, IInv
<1>1. /\ PageSound(r) /\ op[r].kind \in PageKinds /\ op[r].kind \notin ProgressKinds
      /\ DOMAIN local[r] = DOMAIN NoLocals /\ View(r) = db
  BY ViewOfNothing DEF Paging, PageKinds, ProgressKinds, PageSound
<1>2. CASE \E status : Refuse(r, status)
  BY <1>1, <1>2, PageEnds
<1>3. CASE At(r, "leaderboard", "handler") /\ Go(r, "viewed")
  <2>1. Proceed(r, local[r], NoWrite, "viewed")
    BY <1>3 DEF Go
  <2> QED
    BY <1>1, <2>1, PageGoesOn DEF PageLabels
<1>4. CASE At(r, "leaderboard", "viewed")
  <2> DEFINE mem == [local[r] EXCEPT !.seen = ProblemsOfContest(View(r), op[r].id)]
  <2>1. Proceed(r, mem, NoWrite, "listed")
    BY <1>4 DEF ShowLeaderboard, At, Keep
  <2>2. mem.seen = ProblemsOfContest(db, op[r].id) /\ DOMAIN mem = DOMAIN NoLocals
    BY <1>1 DEF NoLocals
  <2> HIDE DEF mem
  <2>3. pc'[r] = "listed" /\ local'[r] = mem /\ db' = db /\ op' = op
    BY <2>1 DEF Proceed, Shape, Hist
  <2>4. Board(r)'
    BY <2>2, <2>3 DEF Board
  <2> QED
    BY <1>1, <2>1, <2>2, <2>4, PageGoesOn DEF PageLabels
<1>5. CASE At(r, "leaderboard", "listed")
  <2> DEFINE mem == [local[r] EXCEPT !.again = ProblemsOfContest(View(r), op[r].id)]
  <2>1. Proceed(r, mem, NoWrite, "page")
    BY <1>5 DEF ShowLeaderboard, At, Keep
  <2>2. /\ mem.again = ProblemsOfContest(db, op[r].id) /\ mem.seen = local[r].seen
        /\ DOMAIN mem = DOMAIN NoLocals
    BY <1>1 DEF NoLocals
  <2> HIDE DEF mem
  <2>3. pc'[r] = "page" /\ local'[r] = mem /\ db' = db /\ op' = op
    BY <2>1 DEF Proceed, Shape, Hist
  <2>4. Board(r)'
    <3> SUFFICES ASSUME ~MetSaved(r, BoardKinds)' PROVE mem.seen = mem.again
      BY <2>3 DEF Board
    <3>1. ~MetSaved(r, BoardKinds)
      BY StillUnmet
    <3>2. local[r].seen = ProblemsOfContest(db, op[r].id)
      BY <1>1, <1>5, <3>1 DEF PageSound, Board, At
    <3> QED
      BY <2>2, <3>2
  <2> QED
    BY <1>1, <2>1, <2>2, <2>4, PageGoesOn DEF PageLabels
<1> QED
  BY <1>2, <1>3, <1>4, <1>5 DEF ShowLeaderboard

LEMMA ProgressTurns ==
  ASSUME WInv, Effects, Hist, Paging, NEW r \in Requests, WebStep(r), Watch,
         op[r].kind \in ProgressKinds, NEW kind, MemberProgress(r, kind)
  PROVE  PageSound(r)'
<1> USE DEF WInv, IInv
<1> DEFINE there == AssignmentsOf(View(r), op[r].id)
<1>1. /\ PageSound(r) /\ op[r].kind \in PageKinds /\ op[r].kind # "leaderboard"
      /\ DOMAIN local[r] = DOMAIN NoLocals /\ View(r) = db /\ op' = op
  BY ViewOfNothing, OnlyCommits DEF Paging, PageKinds, ProgressKinds, PageSound
<1>2. IsFiniteSet(there) /\ Cardinality(there) \in Nat
  BY <1>1, AssignmentsFinite, Domains DEF Paging, Shape
<1>3. ~MetSaved(r, {"assign_course_problem"})' => ~MetSaved(r, {"assign_course_problem"})
  BY StillUnmet
<1>4. CASE At(r, kind, "count")
  <2> DEFINE mem == [local[r] EXCEPT !.n = Cardinality(there)]
  <2>1. Proceed(r, mem, NoWrite, "members")
    BY <1>4 DEF MemberProgress, At, Keep
  <2>2. mem.n = Cardinality(there) /\ DOMAIN mem = DOMAIN NoLocals
    BY <1>1 DEF NoLocals
  <2> HIDE DEF mem
  <2>3. pc'[r] = "members" /\ local'[r] = mem /\ db' = db
    BY <2>1 DEF Proceed, Shape, Hist
  <2>4. Progress(r)'
    BY <1>1, <1>2, <2>2, <2>3 DEF Progress
  <2> QED
    BY <1>1, <2>1, <2>2, <2>4, PageGoesOn DEF PageLabels
<1>5. CASE At(r, kind, "members")
  <2> DEFINE mem == [local[r] EXCEPT
               !.seen = { View(r)[i].user : i \in MembersOf(View(r), op[r].id) }]
  <2>1. Proceed(r, mem, NoWrite, "problems")
    BY <1>5 DEF MemberProgress, At, Keep
  <2>2. mem.n = local[r].n /\ DOMAIN mem = DOMAIN NoLocals
    BY <1>1 DEF NoLocals
  <2> HIDE DEF mem
  <2>3. pc'[r] = "problems" /\ local'[r] = mem /\ db' = db /\ pc[r] = "members"
    BY <1>5, <2>1 DEF Proceed, Shape, Hist, At
  <2>4. Progress(r)'
    BY <1>1, <1>3, <2>2, <2>3 DEF Progress, PageSound
  <2> QED
    BY <1>1, <2>1, <2>2, <2>4, PageGoesOn DEF PageLabels
<1>6. CASE At(r, kind, "problems")
  <2> DEFINE f == [i \in there |-> View(r)[i].problem]
             again == { f[i] : i \in there }
             mem == [local[r] EXCEPT !.again = again]
  <2>1. Proceed(r, mem, NoWrite, "accepted")
    <3>1. again = { View(r)[i].problem : i \in there }
      OBVIOUS
    <3> QED
      BY <1>6, <3>1 DEF MemberProgress, At, Keep
  <2>2. mem.n = local[r].n /\ mem.again = again /\ DOMAIN mem = DOMAIN NoLocals
    BY <1>1 DEF NoLocals
  <2>3. IsFiniteSet(again) /\ Cardinality(again) <= Cardinality(there)
    BY <1>2, ImageSmaller, Zenon
  <2>4. Cardinality(again) \in Nat
    BY <2>3, FS_CardinalityType
  <2> HIDE DEF mem, again
  <2>5. pc'[r] = "accepted" /\ local'[r] = mem /\ pc[r] = "problems"
    BY <1>6, <2>1 DEF Proceed, Shape, Hist, At
  <2>6. Progress(r)'
    <3> SUFFICES ASSUME ~MetSaved(r, {"assign_course_problem"})
                 PROVE  mem.n \in Nat /\ Cardinality(again) <= mem.n
      BY <1>1, <1>3, <2>2, <2>3, <2>5 DEF Progress
    <3>1. local[r].n \in Nat /\ Cardinality(there) <= local[r].n
      BY <1>1, <2>5 DEF PageSound, Progress
    <3> HIDE DEF there
    <3> QED
      BY <1>2, <2>2, <2>3, <2>4, <3>1
  <2> QED
    BY <1>1, <2>1, <2>2, <2>6, PageGoesOn DEF PageLabels
<1>7. CASE At(r, kind, "accepted")
  <2> DEFINE again == local[r].again
             most == { Cardinality(AcceptedBy(View(r), u, again)) : u \in local[r].seen }
             top == CHOOSE k \in most : \A j \in most : j <= k
             mem == [local[r] EXCEPT !.good = IF most = {} THEN 0 ELSE top,
                                     !.bad = IF again = {} THEN 0 ELSE local[r].n]
  <2>1. Proceed(r, mem, NoWrite, "progress")
    BY <1>7 DEF MemberProgress, At, Keep
  <2>2. /\ mem.good = (IF most = {} THEN 0 ELSE top)
        /\ mem.bad = (IF again = {} THEN 0 ELSE local[r].n)
        /\ DOMAIN mem = DOMAIN NoLocals
    BY <1>1 DEF NoLocals
  <2>3. IsFiniteSet(again) => \A m \in most : m \in Nat /\ m <= Cardinality(again)
    <3> SUFFICES ASSUME IsFiniteSet(again), NEW u \in local[r].seen
                 PROVE  /\ Cardinality(AcceptedBy(View(r), u, again)) \in Nat
                        /\ Cardinality(AcceptedBy(View(r), u, again)) <= Cardinality(again)
      OBVIOUS
    <3>1. AcceptedBy(View(r), u, again) \in SUBSET again
      BY DEF AcceptedBy
    <3> QED
      BY <3>1, FS_Subset, FS_CardinalityType
  <2> HIDE DEF mem, most
  <2>4. pc'[r] = "progress" /\ local'[r] = mem /\ pc[r] = "accepted"
    BY <1>7, <2>1 DEF Proceed, Shape, Hist, At
  <2>5. Progress(r)'
    <3> SUFFICES ASSUME ~MetSaved(r, {"assign_course_problem"})
                 PROVE  ~(mem.good > mem.bad)
      BY <1>1, <1>3, <2>4 DEF Progress
    <3>1. local[r].n \in Nat /\ IsFiniteSet(again) /\ Cardinality(again) <= local[r].n
      BY <1>1, <2>4 DEF PageSound, Progress
    <3>2. Cardinality(again) \in Nat /\ (again = {} => Cardinality(again) = 0)
      BY <3>1, FS_CardinalityType, FS_EmptySet
    <3>3. most # {} => top \in most
      BY <2>3, <3>1, <3>2, GreatestThere
    <3>4. Cardinality(again) <= mem.bad
      BY <2>2, <3>1, <3>2
    <3>5. mem.good \in Nat /\ mem.good <= Cardinality(again) /\ mem.bad \in Nat
      BY <2>2, <2>3, <3>1, <3>2, <3>3
    <3> QED
      BY <3>2, <3>4, <3>5
  <2> QED
    BY <1>1, <2>1, <2>2, <2>5, PageGoesOn DEF PageLabels
<1> QED
  BY <1>4, <1>5, <1>6, <1>7 DEF MemberProgress

LEMMA PageMoves ==
  ASSUME WInv, Hist, Paging, NEW r \in Requests, op[r].kind \in PageKinds,
         NEW label \in {"handler", "viewed", "count", "managed", "loaded", "page", "reply"},
         op[r].kind = "leaderboard" => label # "page",
         \/ Go(r, label)
         \/ \E c : Keep(r, [local[r] EXCEPT !.row = c], label)
  PROVE  PageSound(r)'
<1>1. PageSound(r) /\ DOMAIN local[r] = DOMAIN NoLocals
  BY DEF Paging, PageSound
<1>2. label \in PageLabels
  BY DEF PageLabels
<1>3. PICK mem : Proceed(r, mem, NoWrite, label) /\ DOMAIN mem = DOMAIN NoLocals
  <2>1. CASE Go(r, label)
    BY <1>1, <2>1 DEF Go
  <2>2. ASSUME NEW c, Keep(r, [local[r] EXCEPT !.row = c], label)
        PROVE  \E mem : Proceed(r, mem, NoWrite, label) /\ DOMAIN mem = DOMAIN NoLocals
    <3> DEFINE mem == [local[r] EXCEPT !.row = c]
    <3>1. Proceed(r, mem, NoWrite, label)
      BY <2>2 DEF Keep
    <3>2. DOMAIN mem = DOMAIN NoLocals
      BY <1>1
    <3> QED
      BY <3>1, <3>2
  <2> QED
    BY <2>1, <2>2
<1>4. label \in {"listed", "page"} => Board(r)'
  BY <1>3 DEF Board, Proceed
<1> QED
  BY <1>1, <1>2, <1>3, <1>4, PageGoesOn

LEMMA OwnPage ==
  ASSUME WInv, Effects, Hist, Paging, NEW r \in Requests, Acts(r), WebStep(r), Watch
  PROVE  PageSound(r)'
<1> SUFFICES ASSUME op[r].kind \in PageKinds PROVE PageSound(r)'
  <2>1. op' = op
    BY OnlyCommits
  <2> QED
    BY <2>1 DEF PageSound
<1>1. PageSound(r) /\ pc[r] \in PageLabels /\ stmt[r] = NoWrite
  BY DEF Paging, PageSound
<1>2. CASE (\E status : Refuse(r, status)) \/ Commit(r) \/ Respond(r)
  BY <1>1, <1>2, PageEnds
<1>3. CASE Authenticate(r)
  BY <1>2, <1>3, PageMoves DEF Authenticate
<1>4. CASE Refresh(r) \/ Execute(r) \/ DeadlockVictim(r)
  BY <1>1, <1>4 DEF Refresh, Execute, DeadlockVictim, Deadlocked, Waiting, PageLabels
<1>10. CASE Serialize(r)
  BY <1>2, <1>10, PageMoves DEF Serialize
<1>5. CASE ConnectionLost(r)
  BY <1>2, <1>5 DEF ConnectionLost
<1>6. CASE op[r].kind = "leaderboard" /\ ShowLeaderboard(r)
  BY <1>6, BoardTurns
<1>7. CASE op[r].kind = "course_detail" /\ CourseDetail(r)
  <2>1. op[r].kind \in ProgressKinds
    BY <1>7 DEF ProgressKinds
  <2>2. CASE MemberProgress(r, "course_detail")
    BY <2>1, <2>2, ProgressTurns
  <2>3. CASE ~MemberProgress(r, "course_detail")
    <3>1. \/ \E c : Keep(r, [local[r] EXCEPT !.row = c], "loaded")
          \/ Go(r, "count") \/ Go(r, "page")
          \/ \E status : Refuse(r, status)
      BY <1>7, <2>3 DEF CourseDetail
    <3> QED
      BY <1>2, <1>7, <3>1, PageMoves
  <2> QED
    BY <2>2, <2>3
<1>8. CASE op[r].kind = "export_course_scores" /\ ExportCourseScores(r)
  <2>1. op[r].kind \in ProgressKinds
    BY <1>8 DEF ProgressKinds
  <2>2. CASE MemberProgress(r, "export_course_scores")
    BY <2>1, <2>2, ProgressTurns
  <2>3. CASE ~MemberProgress(r, "export_course_scores")
    <3>1. \/ \E c : Keep(r, [local[r] EXCEPT !.row = c], "managed")
          \/ Go(r, "count") \/ Go(r, "reply")
          \/ \E status : Refuse(r, status)
      BY <1>8, <2>3 DEF ExportCourseScores, ManageCourse
    <3> QED
      BY <1>2, <1>8, <3>1, PageMoves
  <2> QED
    BY <2>2, <2>3
<1>9. CASE GetOrCreateTag(r) \/ ReplaceTags(r)
  BY <1>1, <1>9 DEF GetOrCreateTag, ReplaceTags, PageLabels
<1> QED
  BY <1>2, <1>3, <1>4, <1>5, <1>6, <1>7, <1>8, <1>9, <1>10, ActsOfKind
  DEF Common, Followed, PageKinds, ProgressKinds, TagKinds

LEMMA HistInvariance == Spec => []Hist
<1>1. Books /\ WindowInv => Hist
  BY DEF Books, WindowInv, Updating, Hist
<1> QED
  BY <1>1, BooksInvariance, WindowInvariance, PTL

LEMMA PagingInvariance == Spec => []Paging
<1>1. Init => Paging
  <2> SUFFICES ASSUME Init PROVE Paging
    OBVIOUS
  <2>1. { i \in Ids : Exists(db[i]) } \in SUBSET DOMAIN Seed
    BY Absent DEF Init, SessionInit
  <2>2. FewRows
    BY <2>1, SeedAssumption, FS_Subset DEF FewRows
  <2>3. \A r \in Requests : PageSound(r)
    BY DEF Init, SessionInit, PageSound, PageLabels, Board, Progress
  <2> QED
    BY <2>2, <2>3 DEF Paging
<1>2. WInv /\ Effects /\ Hist /\ Paging /\ [Next]_vars => Paging'
  <2> SUFFICES ASSUME WInv, Effects, Hist, Paging, [Next]_vars PROVE Paging'
    OBVIOUS
  <2>1. CASE Next
    <3>1. PICK o \in Requests : Acts(o) /\ WebStep(o) /\ Watch
      BY <2>1, NextIsWebStep
    <3>2. FewRows'
      BY <3>1, StepFewRows DEF Paging
    <3>3. \A r \in Requests : PageSound(r)'
      BY <3>1, OtherPage, OwnPage
    <3> QED
      BY <3>2, <3>3 DEF Paging
  <2>2. CASE UNCHANGED vars
    BY <2>2 DEF vars, Paging, FewRows, PageSound, Board, Progress, MetSaved
  <2> QED
    BY <2>1, <2>2
<1> QED
  BY <1>1, <1>2, SessionsKeepTables, EffectsInvariance, HistInvariance, PTL DEF Spec

(* The progress of a course's members is at most 100%, and a contest's     *)
(* board has the columns of its page, unless the page met a request that   *)
(* assigned a problem (or, for the board, took one away) and was saved     *)
(* between the two queries: nothing else that runs disturbs them.          *)
THEOREM PagesAgreeUnlessMet == Spec => []PagesAgree
<1>1. WInv /\ Paging => PagesAgree
  <2> SUFFICES ASSUME WInv, Paging, NEW r \in Requests
               PROVE  /\ pc[r] = "progress" /\ local[r].good > local[r].bad =>
                           MetSaved(r, {"assign_course_problem"})
                      /\ op[r].kind = "leaderboard" /\ pc[r] = "page"
                           /\ local[r].seen # local[r].again => MetSaved(r, BoardKinds)
    BY DEF PagesAgree, BoardKinds
  <2>1. PageSound(r) /\ (pc[r] = "progress" => op[r].kind \in ProgressKinds)
    BY DEF Paging, WInv, Typing, Labelled
  <2> QED
    BY <2>1 DEF PageSound, PageKinds, Board, Progress
<1> QED
  BY <1>1, SessionsKeepTables, PagingInvariance, PTL

-----------------------------------------------------------------------------
(* What a transaction sees after a step.                                   *)

(* A commit of another request changes rows the transaction has not        *)
(* written, and of those it sees only rows of the tables it changes.       *)
LEMMA OthersSee ==
  ASSUME WInv, Effects, NEW o \in Requests, WebStep(o), NEW r \in Requests, r # o, NEW i \in Ids
  PROVE  /\ i \in Touched(writes[r]) => View(r)'[i] = View(r)[i]
         /\ i \notin Touched(writes[r]) => View(r)'[i] = db'[i] /\ View(r)[i] = db[i]
         /\ Exists(View(r)[i]) /\ View(r)[i].table \notin Mutable
              /\ (Commits(o) => View(r)[i].table \notin Removes(op[o].kind)) =>
              View(r)'[i] = View(r)[i]
<1> USE DEF WInv, IInv
<1>1. writes'[r] = writes[r] /\ (db' = db \/ Commits(o))
  BY OnlyCommits
<1>2. DOMAIN db = Ids /\ DOMAIN db' = Ids
  BY <1>1, CommitsAt, Domains
<1>3. i \in Touched(writes[r]) => View(r)'[i] = View(r)[i]
  BY <1>1, <1>2, OverlayAt DEF View, Touched
<1>4. i \notin Touched(writes[r]) => View(r)'[i] = db'[i] /\ View(r)[i] = db[i]
  BY <1>1, <1>2, OverlayAt DEF View, Touched
<1>5. ASSUME Exists(View(r)[i]), View(r)[i].table \notin Mutable, i \notin Touched(writes[r]),
             Commits(o) => View(r)[i].table \notin Removes(op[o].kind)
      PROVE  View(r)'[i] = View(r)[i]
  <2>1. CASE db' = db
    BY <1>4, <1>5, <2>1
  <2>2. CASE Commits(o)
    <3>1. Exists(db'[i])
      BY <1>4, <1>5, <2>2, CommitEffect DEF Vanishes
    <3> QED
      BY <1>4, <1>5, <2>2, <3>1, CommitEffect
  <2> QED
    BY <1>1, <2>1, <2>2
<1> QED
  BY <1>3, <1>4, <1>5

(* What the execution of a statement does to row i.                        *)
LEMMA ExecutedRow ==
  ASSUME WInv, NEW r \in Requests, stmt[r] # NoWrite, Executed(r), NEW i \in Ids
  PROVE  /\ i \in Touched(Result(r)) => /\ writes'[r][i] = Result(r)[i]
                                        /\ View(r)'[i] = Result(r)[i]
         /\ i \notin Touched(Result(r)) => /\ writes'[r][i] = writes[r][i]
                                           /\ View(r)'[i] = View(r)[i]
         /\ Inserts(stmt[r], i) \/ Updates(stmt[r], i) =>
              /\ i \in Touched(Result(r)) /\ Exists(Result(r)[i])
              /\ \A c \in DOMAIN stmt[r][i] : Result(r)[i][c] = stmt[r][i][c]
         /\ Deletes(stmt[r], i) =>
              ~Exists(View(r)'[i]) /\ (i \in Touched(Result(r)) => Result(r)[i] = NoRow)
         /\ i \in Touched(Result(r)) =>
              \/ Deletes(stmt[r], i) /\ Exists(View(r)[i])
              \/ Updates(stmt[r], i) /\ Exists(View(r)[i])
                   /\ Result(r)[i].table = View(r)[i].table
              \/ Inserts(stmt[r], i) /\ ~Exists(View(r)[i]) /\ i \in Own(r)
<1> USE DEF WInv, IInv
<1>1. ~Stale(r) /\ ~Duplicate(r) /\ View(r)' = After(r)
  BY ExecutedView DEF Executed, View
<1>2. ASSUME Inserts(stmt[r], i) \/ Updates(stmt[r], i)
      PROVE  /\ Result(r)[i] = Merge(View(r)[i], stmt[r][i])
             /\ Exists(Result(r)[i]) /\ i \in Touched(Result(r))
  <2>1. stmt[r][i] # Untouched /\ ~Deletes(stmt[r], i)
    BY <1>2 DEF Inserts, Updates, Deletes, Untouched, NoRow
  <2>2. Result(r)[i] = Merge(View(r)[i], stmt[r][i])
    BY <2>1 DEF Result
  <2>3. CASE Inserts(stmt[r], i)
    <3>1. Exists(stmt[r][i]) /\ "table" \in DOMAIN stmt[r][i]
      BY <2>1, <2>3 DEF Shape, StmtOK, Inserts, Updates
    <3>2. Exists(Result(r)[i])
      BY <2>2, <3>1, MergedTable DEF Exists
    <3> QED
      BY <2>2, <3>2, Absent DEF Touched
  <2>4. CASE Updates(stmt[r], i)
    <3>1. Exists(View(r)[i])
      BY <1>1, <2>4 DEF Stale
    <3>2. "table" \in DOMAIN View(r)[i]
      BY <3>1, ViewAt, Absent DEF Written
    <3>3. Exists(Result(r)[i])
      BY <2>2, <2>4, <3>1, <3>2, MergedTable DEF Exists, Updates
    <3> QED
      BY <2>2, <3>3, Absent DEF Touched
  <2> QED
    BY <1>2, <2>3, <2>4
<1>3. Inserts(stmt[r], i) \/ Updates(stmt[r], i) =>
        \A c \in DOMAIN stmt[r][i] : Result(r)[i][c] = stmt[r][i][c]
  BY <1>2 DEF Merge
<1>4. Deletes(stmt[r], i) /\ i \in Touched(Result(r)) => Result(r)[i] = NoRow
  BY <1>1, ResultAt, Absent DEF Removed, Changes, Added, Deletes, Updates, Inserts, NoRow
<1>5. Deletes(stmt[r], i) => ~Exists(View(r)'[i])
  BY <1>1, <1>4, AfterAt, ResultAt, Absent
<1>6. i \in Touched(Result(r)) =>
        \/ Deletes(stmt[r], i) /\ Exists(View(r)[i])
        \/ Updates(stmt[r], i) /\ Exists(View(r)[i]) /\ Result(r)[i].table = View(r)[i].table
        \/ Inserts(stmt[r], i) /\ ~Exists(View(r)[i]) /\ i \in Own(r)
  BY <1>1, ResultAt DEF Removed, Changes, Added
<1> QED
  BY <1>1, <1>2, <1>3, <1>4, <1>5, <1>6, ExecutedAt, AfterAt

(* The rows of its own a request has taken, and where the next one goes.   *)
Taken(r) == { i \in Own(r) \cap Ids : i \in Touched(writes[r]) \/ Inserts(stmt[r], i) }

LEMMA TakenFinite ==
  ASSUME NEW r \in Requests
  PROVE  IsFiniteSet(Taken(r)) /\ Cardinality(Taken(r)) \in Nat
<1>1. Taken(r) \in SUBSET Own(r)
  BY DEF Taken
<1> QED
  BY <1>1, OwnFinite, FS_Subset, FS_CardinalityType

LEMMA NothingIssued ==
  \A i \in Ids : ~Inserts(NoWrite, i) /\ ~Updates(NoWrite, i) /\ ~Deletes(NoWrite, i)
  BY NothingTouched, Absent DEF Inserts, Updates, Deletes, Untouched

LEMMA RoomLeft ==
  ASSUME NEW r \in Requests, stmt[r] = NoWrite, Cardinality(Taken(r)) < MaxNew
  PROVE  /\ NewId(r) \in Own(r) /\ NewId(r) \in Ids
         /\ Cardinality(Taken(r)) = 0 => NewId(r) = <<r, 1>>
<1> DEFINE S == Touched(writes[r]) \cap Own(r)
<1>1. Taken(r) = S
  BY NothingIssued DEF Taken, Touched
<1> HIDE DEF S
<1>2. NewId(r) = <<r, 1 + Cardinality(Taken(r))>>
  BY <1>1 DEF NewId, S
<1>3. Cardinality(Taken(r)) \in Nat
  BY TakenFinite
<1>4. 1 + Cardinality(Taken(r)) \in 1..MaxNew
  BY <1>3, MaxNewAssumption
<1>5. NewId(r) \in Own(r) /\ NewId(r) \in Ids
  BY <1>2, <1>4 DEF Own, Ids
<1> QED
  BY <1>2, <1>5

LEMMA OneMoreTaken ==
  ASSUME NEW r \in Requests, writes'[r] = writes[r], stmt[r] = NoWrite, NEW row,
         stmt'[r] = Put(NewId(r), row)
  PROVE  Cardinality(Taken(r)') <= Cardinality(Taken(r)) + 1
<1>1. Taken(r)' \in SUBSET (Taken(r) \cup {NewId(r)})
  <2>1. \A i \in Ids : Inserts(stmt'[r], i) => i = NewId(r)
    BY DEF Inserts, Put, NoWrite
  <2> QED
    BY <2>1 DEF Taken, Touched, Own
<1>2. /\ IsFiniteSet(Taken(r) \cup {NewId(r)})
      /\ Cardinality(Taken(r) \cup {NewId(r)}) <= Cardinality(Taken(r)) + 1
      /\ Cardinality(Taken(r) \cup {NewId(r)}) \in Nat
  <2>1. IsFiniteSet(Taken(r)) /\ Cardinality(Taken(r)) \in Nat
    BY TakenFinite
  <2>2. /\ IsFiniteSet(Taken(r) \cup {NewId(r)})
        /\ \/ Cardinality(Taken(r) \cup {NewId(r)}) = Cardinality(Taken(r))
           \/ Cardinality(Taken(r) \cup {NewId(r)}) = Cardinality(Taken(r)) + 1
    BY <2>1, FS_AddElement
  <2> QED
    BY <2>1, <2>2
<1>3. IsFiniteSet(Taken(r)') /\ Cardinality(Taken(r)') <= Cardinality(Taken(r) \cup {NewId(r)})
  BY <1>1, <1>2, FS_Subset
<1>4. Cardinality(Taken(r)') \in Nat
  BY <1>3, FS_CardinalityType
<1> QED
  BY <1>2, <1>3, <1>4, TakenFinite

LEMMA NoMoreTaken ==
  ASSUME NEW r \in Requests, Taken(r)' \subseteq Taken(r)
  PROVE  Cardinality(Taken(r)') <= Cardinality(Taken(r)) /\ Cardinality(Taken(r)') \in Nat
<1>1. IsFiniteSet(Taken(r)') /\ Cardinality(Taken(r)') <= Cardinality(Taken(r))
  BY TakenFinite, FS_Subset
<1> QED
  BY <1>1, FS_CardinalityType

LEMMA ExecutedTaken ==
  ASSUME WInv, NEW r \in Requests, stmt[r] # NoWrite, Executed(r)
  PROVE  Taken(r)' \subseteq Taken(r)
<1> USE DEF WInv, IInv
<1>1. r \notin saved
  BY DEF Order
<1>2. stmt'[r] = Cascade(r) /\ \A i \in Ids : ~Inserts(stmt'[r], i)
  BY OnlyDeletes DEF Executed, Cascade, Shape, Inserts, Updates
<1>3. ASSUME NEW i \in Own(r) \cap Ids, i \in Touched(writes'[r])
      PROVE  i \in Touched(writes[r]) \/ Inserts(stmt[r], i)
  <2>1. CASE i \in Touched(Result(r)) /\ Exists(View(r)[i])
    BY <1>1, <2>1, ViewAt DEF Identity
  <2>2. CASE i \in Touched(Result(r)) /\ ~Exists(View(r)[i])
    BY <2>2, ExecutedRow
  <2>3. CASE i \notin Touched(Result(r))
    BY <1>3, <2>3, ExecutedRow DEF Touched
  <2> QED
    BY <2>1, <2>2, <2>3
<1> QED
  BY <1>2, <1>3 DEF Taken, Own

-----------------------------------------------------------------------------
(* The requests that set the tags of a problem.                            *)

Link(row, p) == row.table = "problem_tag" /\ row.problem = p
IsTag(row, slug) == row.table = "tag" /\ row.slug = slug

(* A request's body is none the problem has had so far, as the bodies of   *)
(* those that were saved are; and it met one that set the tags.            *)
Differ(E, p) ==
  \A a \in E : /\ p \in DOMAIN Seed => op[a].body # Seed[p].body
               /\ \A b \in E \ {a} : op[a].body # op[b].body
Fresh(r) == Differ(Editors(ProblemOf(r)) \cup {r}, ProblemOf(r))
Contested(r) == Taggers(ProblemOf(r)) \cap met[r] # {}

(* A tag, or a link to it, that the transaction sees or is about to insert.*)
TagThere(r, i, slug) ==
  IsTag(View(r)[i], slug) \/ (Inserts(stmt[r], i) /\ IsTag(stmt[r][i], slug))
IsLink(row, p, t) == Link(row, p) /\ row.tag = t
LinkThere(r, i, t) ==
  /\ i \in Own(r)
  /\ \/ IsLink(View(r)[i], ProblemOf(r), t)
     \/ Inserts(stmt[r], i) /\ IsLink(stmt[r][i], ProblemOf(r), t)

TagLabels == {"start", "handler", "updated", "tags", "unlinked", "reply", "answered", "done"}
Writing(r) == pc[r] \in {"updated", "tags", "unlinked", "reply", "answered"}

(* Where it is says how many of its tags it has found and linked.          *)
TagPlace(r) ==
  LET ids == local[r].ids  n == local[r].n  tags == op[r].tags
  IN /\ DOMAIN local[r] = DOMAIN NoLocals
     /\ pc[r] \in TagLabels
     /\ ids \in Seq(Ids) /\ n \in 0..Len(ids) /\ Len(ids) <= Len(tags)
     /\ pc[r] \in {"start", "handler"} => writes[r] = NoWrite /\ stmt[r] = NoWrite
     /\ pc[r] \in {"start", "handler", "updated"} => Len(ids) = 0
     /\ pc[r] = "tags" => n = 0 /\ tags # <<>>
     /\ pc[r] = "unlinked" => Len(ids) = Len(tags) /\ tags # <<>>
     /\ pc[r] \in {"reply", "answered"} => n = Len(ids) /\ n = Len(tags)

(* The problem has an id no running request may insert, and the request    *)
(* writes it, and so locks it, if its body is a fresh one.                 *)
ProblemKnown(r) ==
  Writing(r) \/ r \in saved =>
    /\ ProblemOf(r) \in Ids
    /\ ProblemOf(r) \in Own(r) => op[r].kind = "create_problem"
    /\ \A o \in Requests \ {r} : ProblemOf(r) \in Own(o) => o \in saved
BodyWritten(r) ==
  \A i \in Ids :
    /\ writes[r][i].table = "problem" => i = ProblemOf(r) /\ writes[r][i].body = op[r].body
    /\ Updates(stmt[r], i) =>
         /\ i = ProblemOf(r)
         /\ "body" \in DOMAIN stmt[r][i] /\ stmt[r][i].body = op[r].body
    /\ Inserts(stmt[r], i) /\ stmt[r][i].table = "problem" =>
         i = ProblemOf(r) /\ stmt[r][i].body = op[r].body
FreshLocks(r) ==
  Fresh(r) /\ Writing(r) =>
    \/ writes[r][ProblemOf(r)].table = "problem"
    \/ /\ \/ Updates(stmt[r], ProblemOf(r))
          \/ Inserts(stmt[r], ProblemOf(r)) /\ stmt[r][ProblemOf(r)].table = "problem"
       /\ pc[r] \in {"updated", "tags"} \/ op[r].tags = <<>>

(* The tags are there, and the links it inserts are to them.               *)
TagsFound(r) ==
  pc[r] # "done" =>
    \A k \in 1..Len(local[r].ids) : TagThere(r, local[r].ids[k], Lower(op[r].tags[k]))
OfItsTags(r, row) ==
  row.table = "problem_tag" =>
    /\ row.problem = ProblemOf(r)
    /\ \E k \in 1..Len(local[r].ids) : row.tag = local[r].ids[k]
LinksFit(r) ==
  \A i \in Ids : /\ OfItsTags(r, writes[r][i])
                 /\ Inserts(stmt[r], i) => OfItsTags(r, stmt[r][i])
LinksMade(r) ==
  /\ pc[r] # "done" =>
       \A k \in 1..local[r].n : \E i \in Ids : LinkThere(r, i, local[r].ids[k])
  /\ local[r].n > 0 => \A i \in Ids : ~Deletes(stmt[r], i)

(* It deletes links of the problem only, and all it sees, but for those a  *)
(* request it met has inserted meanwhile.                                  *)
OnlyUnlinks(r) ==
  \A i \in Ids : Deletes(stmt[r], i) \/ writes[r][i] = NoRow =>
    op[r].tags # <<>> /\ (Exists(db[i]) => Link(db[i], ProblemOf(r)))
Unlinked(r) ==
  pc[r] \in {"unlinked", "reply", "answered"} /\ op[r].tags # <<>>
    /\ (Contested(r) => Fresh(r)) =>
      \A i \in Ids : Link(View(r)[i], ProblemOf(r)) => i \in Own(r) \/ Deletes(stmt[r], i)

Placed(r) == IF op[r].kind = "create_problem" /\ Writing(r) THEN 1 ELSE 0
TagRoom(r) == Cardinality(Taken(r)) <= Placed(r) + Len(local[r].ids) + local[r].n

TagSound(r) ==
  /\ TagPlace(r) /\ ProblemKnown(r) /\ BodyWritten(r) /\ FreshLocks(r)
  /\ TagsFound(r) /\ LinksFit(r) /\ LinksMade(r)
  /\ OnlyUnlinks(r) /\ Unlinked(r) /\ TagRoom(r)
Tagging == \A r \in Requests : op[r].kind \in TagKinds => TagSound(r)
Bodies ==
  \A p \in Ids : db[p].table = "problem" =>
    \/ p \in DOMAIN Seed /\ db[p].body = Seed[p].body
    \/ \E a \in Editors(p) : db[p].body = op[a].body

(* What is so of the history stays so, or was so before.                   *)
LEMMA HistoryGrows ==
  ASSUME op' = op, saved \subseteq saved', Watch, met \in [Requests -> SUBSET Requests],
         NEW r \in Requests
  PROVE  /\ \A p : Editors(p) \subseteq Editors(p)' /\ Taggers(p) \subseteq Taggers(p)'
         /\ ProblemOf(r)' = ProblemOf(r)
         /\ Fresh(r)' => Fresh(r)
         /\ Contested(r) => Contested(r)'
         /\ (Contested(r)' => Fresh(r)') => (Contested(r) => Fresh(r))
<1>1. ProblemOf(r)' = ProblemOf(r)
  BY DEF ProblemOf
<1>2. \A p : Editors(p) \subseteq Editors(p)'
  BY DEF Editors, ProblemOf
<1>3. \A p : Taggers(p) \subseteq Taggers(p)'
  BY <1>2 DEF Taggers
<1>4. Fresh(r)' => Fresh(r)
  BY <1>1, <1>2 DEF Fresh, Differ
<1>5. Contested(r) => Contested(r)'
  BY <1>1, <1>3 DEF Contested, Watch
<1> QED
  BY <1>1, <1>2, <1>3, <1>4, <1>5

LEMMA StepGrows ==
  ASSUME WInv, NEW o \in Requests, WebStep(o)
  PROVE  op' = op /\ saved \subseteq saved' /\ saved' \subseteq saved \cup {o}
  BY OnlyCommits DEF Commits

LEMMA TagKindsOnly ==
  /\ \A kind \in TagKinds : Removes(kind) = {"problem_tag"} /\ Sets(kind) \subseteq {"problem"}
  /\ \A kind : "problem_tag" \in Adds(kind) => kind \in TagKinds
  /\ \A kind : "tag" \notin Removes(kind)
  /\ {"tag", "problem_tag"} \cap Mutable = {} /\ {"tag", "problem_tag"} \subseteq DOMAIN Tables
  BY DEF TagKinds, Removes, Sets, Adds, Mutable, Tables

(* A link a request commits makes it one of those that set the tags of the *)
(* problem of the link.                                                    *)
LEMMA LinkCommitted ==
  ASSUME WInv, Effects, Tagging, NEW o \in Requests, Commits(o), NEW i \in Ids,
         Appears(i), db'[i].table = "problem_tag"
  PROVE  /\ op[o].kind \in TagKinds /\ db'[i].problem = ProblemOf(o) /\ op[o].tags # <<>>
         /\ \E k \in 1..Len(local[o].ids) : db'[i].tag = local[o].ids[k]
<1>1. i \in Own(o) /\ db'[i] = writes[o][i] /\ op[o].kind \in TagKinds
  BY CommitEffect, TagKindsOnly
<1>2. TagSound(o)
  BY <1>1 DEF Tagging
<1>3. /\ db'[i].problem = ProblemOf(o)
      /\ \E k \in 1..Len(local[o].ids) : db'[i].tag = local[o].ids[k]
  BY <1>1, <1>2 DEF TagSound, LinksFit, OfItsTags
<1>4. local[o].ids \in Seq(Ids) /\ Len(local[o].ids) <= Len(op[o].tags)
  BY <1>2 DEF TagSound, TagPlace
<1>5. op[o].tags # <<>>
  BY <1>3, <1>4
<1> QED
  BY <1>1, <1>3, <1>5

LEMMA OtherTags ==
  ASSUME WInv, Effects, Hist, Tagging, NEW o \in Requests, WebStep(o), Watch,
         NEW r \in Requests, r # o, op[r].kind \in TagKinds
  PROVE  TagSound(r)'
<1> USE DEF WInv, IInv
<1>1. /\ op' = op /\ pc'[r] = pc[r] /\ stmt'[r] = stmt[r] /\ writes'[r] = writes[r]
  BY OnlyCommits
<1>2. local'[r] = local[r]
  BY DEF Hist, WebStep, Handled, Continues, Reply, RollsBack, Executed, Commits
<1>3. TagSound(r)
  BY DEF Tagging
<1>4. /\ saved \subseteq saved' /\ (r \in saved' => r \in saved)
      /\ ProblemOf(r)' = ProblemOf(r) /\ (Fresh(r)' => Fresh(r))
      /\ (Contested(r)' => Fresh(r)') => (Contested(r) => Fresh(r))
  BY <1>1, StepGrows, HistoryGrows DEF Hist
<1>5. TagPlace(r)'
  BY <1>1, <1>2, <1>3 DEF TagSound, TagPlace
<1>6. ProblemKnown(r)'
  BY <1>1, <1>3, <1>4 DEF TagSound, ProblemKnown, Writing, Own
<1>7. BodyWritten(r)'
  BY <1>1, <1>3, <1>4 DEF TagSound, BodyWritten, Updates, Inserts
<1>8. FreshLocks(r)'
  BY <1>1, <1>3, <1>4 DEF TagSound, FreshLocks, Writing, Updates, Inserts
<1>9. TagsFound(r)'
  <2> SUFFICES ASSUME pc[r] # "done", NEW k \in 1..Len(local[r].ids)
               PROVE  TagThere(r, local[r].ids[k], Lower(op[r].tags[k]))'
    BY <1>1, <1>2 DEF TagsFound
  <2> DEFINE i == local[r].ids[k]
  <2>1. i \in Ids /\ TagThere(r, i, Lower(op[r].tags[k]))
    BY <1>3 DEF TagSound, TagPlace, TagsFound
  <2>2. View(r)[i].table = "tag" => View(r)'[i] = View(r)[i]
    BY <2>1, OthersSee, TagKindsOnly DEF Exists
  <2> QED
    BY <1>1, <1>2, <2>1, <2>2 DEF TagThere, IsTag, Inserts, Updates, Lower
<1>10. LinksFit(r)'
  BY <1>1, <1>2, <1>3, <1>4 DEF TagSound, LinksFit, OfItsTags, Updates, Inserts
<1>11. LinksMade(r)'
  <2>1. \A i \in Ids : Deletes(stmt'[r], i) <=> Deletes(stmt[r], i)
    BY <1>1 DEF Deletes
  <2>2. ASSUME pc[r] # "done", NEW k \in 1..local[r].n
        PROVE  \E i \in Ids : LinkThere(r, i, local[r].ids[k])'
    <3>1. PICK i \in Ids : LinkThere(r, i, local[r].ids[k])
      BY <1>3, <2>2 DEF TagSound, LinksMade
    <3>2. r \notin saved /\ i \in Own(r) /\ ~Exists(db[i])
      BY <2>2, <3>1 DEF LinkThere, Order, Identity
    <3>3. Exists(View(r)[i]) => View(r)'[i] = View(r)[i]
      BY <3>2, OthersSee
    <3>4. IsLink(View(r)[i], ProblemOf(r), local[r].ids[k]) => Exists(View(r)[i])
      BY TagKindsOnly DEF IsLink, Link, Exists
    <3>5. LinkThere(r, i, local[r].ids[k])'
      BY <1>1, <1>2, <1>4, <3>1, <3>3, <3>4 DEF LinkThere, IsLink, Link, Inserts, Updates, Own
    <3> QED
      BY <3>5
  <2> QED
    BY <1>1, <1>2, <1>3, <2>1, <2>2 DEF TagSound, LinksMade
<1>12. OnlyUnlinks(r)'
  <2> SUFFICES ASSUME NEW i \in Ids, Deletes(stmt[r], i) \/ writes[r][i] = NoRow,
                      Exists(db'[i])
               PROVE  Link(db'[i], ProblemOf(r))
    BY <1>1, <1>3, <1>4 DEF TagSound, OnlyUnlinks, Deletes, Exists, Link
  <2>1. Exists(db[i]) => Link(db[i], ProblemOf(r))
    BY <1>3 DEF TagSound, OnlyUnlinks
  <2>2. CASE db' = db
    BY <2>1, <2>2
  <2>3. CASE Commits(o) /\ Exists(db[i])
    BY <2>1, <2>3, CommitEffect, TagKindsOnly DEF Link
  <2>4. CASE Commits(o) /\ ~Exists(db[i])
    <3>1. i \in Own(o) /\ Exists(writes[o][i]) /\ o \notin saved
      BY <2>4, CommitEffect DEF Appears, Commits, Order
    <3>2. ~Deletes(stmt[r], i)
      BY <3>1 DEF Typing, FitsIn, KnownAs
    <3>3. i \in Touched(writes[o]) /\ i \in Touched(writes[r])
      BY <3>1, <3>2, Absent DEF Touched
    <3> QED
      BY <3>3 DEF KeysOnce, Apart
  <2> QED
    BY <2>2, <2>3, <2>4, OnlyCommits
<1>13. Unlinked(r)'
  <2> SUFFICES ASSUME pc[r] \in {"unlinked", "reply", "answered"}, op[r].tags # <<>>,
                      Contested(r)' => Fresh(r)',
                      NEW i \in Ids, Link(View(r)'[i], ProblemOf(r))
               PROVE  i \in Own(r) \/ Deletes(stmt[r], i)
    BY <1>1, <1>4 DEF Unlinked, Link, Deletes, Own
  <2>1. Link(View(r)[i], ProblemOf(r)) => i \in Own(r) \/ Deletes(stmt[r], i)
    BY <1>3, <1>4 DEF TagSound, Unlinked
  <2>2. CASE View(r)'[i] = View(r)[i]
    BY <2>1, <2>2
  <2>3. CASE View(r)'[i] # View(r)[i]
    <3>1. i \notin Touched(writes[r]) /\ View(r)'[i] = db'[i] /\ View(r)[i] = db[i]
      BY <2>3, OthersSee
    <3>2. Commits(o) /\ Exists(db'[i]) /\ db'[i].table = "problem_tag"
          /\ db'[i].problem = ProblemOf(r)
      BY <2>3, <3>1, OnlyCommits, TagKindsOnly DEF Link, Exists
    <3>3. Appears(i)
      BY <2>3, <3>1, <3>2, CommitEffect, TagKindsOnly DEF Appears
    <3>4. /\ op[o].kind \in TagKinds /\ ProblemOf(o) = ProblemOf(r) /\ op[o].tags # <<>>
          /\ TagSound(o)
      BY <3>2, <3>3, LinkCommitted DEF Tagging
    <3>5. o \in saved' /\ o \in met'[r]
      BY <1>1, <3>2, CommitIsMet DEF Hist, Running
    <3>6. o \in Taggers(ProblemOf(r))'
      BY <1>1, <3>4, <3>5 DEF Taggers, Editors, ProblemOf
    <3>7. Fresh(r)' /\ Fresh(r)
      BY <1>4, <3>5, <3>6 DEF Contested
    <3>8. Fresh(o)
      <4>1. Editors(ProblemOf(o)) \cup {o} \subseteq Editors(ProblemOf(r))'
        BY <1>1, <1>4, <3>4, <3>5 DEF Editors, ProblemOf
      <4> QED
        BY <1>1, <1>4, <3>4, <3>7, <4>1 DEF Fresh, Differ
    <3>9. ProblemOf(r) \in Ids /\ writes[r][ProblemOf(r)].table = "problem"
      BY <1>3, <3>7 DEF TagSound, FreshLocks, ProblemKnown, Writing
    <3>10. writes[o][ProblemOf(r)].table = "problem"
      <4>1. pc[o] = "answered" /\ stmt[o] = NoWrite
        BY <3>2 DEF Commits, Order
      <4> QED
        BY <3>4, <3>8, <3>9, <4>1, NothingIssued DEF TagSound, FreshLocks, Writing
    <3>11. ProblemOf(r) \in Touched(writes[r]) /\ ProblemOf(r) \in Touched(writes[o])
      BY <3>9, <3>10 DEF Touched, Untouched
    <3> QED
      BY <3>11 DEF KeysOnce, Apart
  <2> QED
    BY <2>2, <2>3
<1>14. TagRoom(r)'
  <2>1. Taken(r)' = Taken(r)
    BY <1>1 DEF Taken, Touched, Inserts, Updates, Own
  <2> QED
    BY <1>1, <1>2, <1>3, <2>1 DEF TagSound, TagRoom, Placed, Writing
<1> QED
  BY <1>5, <1>6, <1>7, <1>8, <1>9, <1>10, <1>11, <1>12, <1>13, <1>14 DEF TagSound

(* What a statement of a request that sets tags may hold, and what it      *)
(* leaves: nothing that refers to a link, so no cascade.                   *)
LEMMA TagStatements ==
  ASSUME WInv, Effects, NEW r \in Requests, op[r].kind \in TagKinds, NEW i \in Ids
  PROVE  /\ Deletes(stmt[r], i) /\ Exists(View(r)[i]) => View(r)[i].table = "problem_tag"
         /\ Updates(stmt[r], i) /\ Exists(View(r)[i]) => View(r)[i].table = "problem"
         /\ Inserts(stmt[r], i) => IsRow(stmt[r][i])
         /\ writes[r][i] = NoRow /\ Exists(db[i]) => db[i].table = "problem_tag"
         /\ Exists(writes[r][i]) /\ Exists(db[i]) => writes[r][i].table = "problem"
<1> USE DEF WInv, IInv
<1>1. FitsIn(r, stmt[r]) /\ Effect(r, i)
  BY DEF Typing, Effects
<1>2. Deletes(stmt[r], i) /\ Exists(View(r)[i]) => View(r)[i].table = "problem_tag"
  BY <1>1, TagKindsOnly DEF FitsIn, KnownAs
<1>3. Updates(stmt[r], i) /\ Exists(View(r)[i]) => View(r)[i].table = "problem"
  BY <1>1, TagKindsOnly DEF FitsIn, KnownAs
<1>4. Inserts(stmt[r], i) => IsRow(stmt[r][i])
  BY <1>1 DEF FitsIn
<1>5. writes[r][i] = NoRow /\ Exists(db[i]) => db[i].table = "problem_tag"
  BY <1>1, TagKindsOnly DEF Effect
<1>6. Exists(writes[r][i]) /\ Exists(db[i]) => writes[r][i].table = "problem"
  BY <1>1, TagKindsOnly DEF Effect, Identity
<1> QED
  BY <1>2, <1>3, <1>4, <1>5, <1>6

LEMMA TagsCascadeNothing ==
  ASSUME WInv, NEW r \in Requests, op[r].kind \in TagKinds, Executed(r), NEW i \in Ids
  PROVE  ~Deletes(stmt'[r], i) /\ ~Inserts(stmt'[r], i) /\ ~Updates(stmt'[r], i)
<1> USE DEF WInv, IInv
<1>1. stmt'[r] = Cascade(r) /\ ~Inserts(stmt'[r], i) /\ ~Updates(stmt'[r], i)
  BY OnlyDeletes DEF Executed, Cascade, Shape
<1>2. ASSUME Deletes(Cascade(r), i) PROVE FALSE
  <2>1. PICK p \in Parents(View(r)[i]) : p[1] \in Removes(op[r].kind)
    BY <1>2, CascadeRefers
  <2>2. p[1] = "problem_tag"
    BY <2>1, TagKindsOnly
  <2>3. PICK c \in DOMAIN Tables[View(r)[i].table].foreign :
          Tables[View(r)[i].table].foreign[c] = "problem_tag" /\ Exists(View(r)[i])
    BY <2>1, <2>2 DEF Parents
  <2>4. \A t \in DOMAIN Tables : \A k \in DOMAIN Tables[t].foreign :
          Tables[t].foreign[k] # "problem_tag"
    BY DEF Tables, UserTables, ProblemTables, TestcaseTables, TagTables, SubmissionTables,
       ContestTables, CourseTables
  <2> QED
    BY <2>3, <2>4 DEF Exists
<1> QED
  BY <1>1, <1>2 DEF Deletes

LEMMA ColumnsOf ==
  ASSUME NEW row, IsRow(row)
  PROVE  /\ "table" \in DOMAIN row
         /\ row.table = "problem" => "body" \in DOMAIN row
         /\ row.table = "tag" => "slug" \in DOMAIN row
         /\ row.table = "problem_tag" => {"problem", "tag"} \subseteq DOMAIN row
         /\ row.table = "user" => "email" \in DOMAIN row
         /\ row.table = "enrollment" => {"course", "user"} \subseteq DOMAIN row
  BY DEF IsRow, Tables, UserTables, ProblemTables, TagTables, CourseTables

LEMMA ExecutedTags ==
  ASSUME WInv, Effects, Hist, Tagging, NEW r \in Requests, stmt[r] # NoWrite, Executed(r), Watch,
         op[r].kind \in TagKinds
  PROVE  TagSound(r)'
<1> USE DEF WInv, IInv
<1>1. op' = op /\ pc' = pc /\ local' = local /\ db' = db /\ saved' = saved
  BY DEF Executed
<1>2. TagSound(r)
  BY DEF Tagging
<1>3. /\ ProblemOf(r)' = ProblemOf(r) /\ (Fresh(r)' => Fresh(r))
      /\ (Contested(r)' => Fresh(r)') => (Contested(r) => Fresh(r))
  BY <1>1, HistoryGrows DEF Hist
<1>4. \A i \in Ids : ~Deletes(stmt'[r], i) /\ ~Inserts(stmt'[r], i) /\ ~Updates(stmt'[r], i)
  BY TagsCascadeNothing
<1>5. pc[r] \notin {"start", "handler", "answered", "done"} /\ r \notin saved
  BY <1>2 DEF TagSound, TagPlace, Order
<1> DEFINE T == Touched(Result(r))
(* How a row came to be as it is now.                                      *)
<1>6. ASSUME NEW i \in Ids, Exists(writes'[r][i])
      PROVE  \/ i \notin T /\ writes'[r][i] = writes[r][i]
             \/ /\ i \in T /\ Updates(stmt[r], i) /\ writes'[r][i].table = "problem"
                /\ Exists(View(r)[i])
                /\ \A c \in DOMAIN stmt[r][i] : writes'[r][i][c] = stmt[r][i][c]
             \/ /\ i \in T /\ Inserts(stmt[r], i) /\ i \in Own(r) /\ IsRow(stmt[r][i])
                /\ ~Exists(View(r)[i])
                /\ \A c \in DOMAIN stmt[r][i] : writes'[r][i][c] = stmt[r][i][c]
  BY <1>6, ExecutedRow, TagStatements, Absent
<1>7. \A i \in Ids : i \in T => View(r)'[i] = writes'[r][i]
  BY ExecutedRow
<1>8. \A i \in Ids : i \notin T => View(r)'[i] = View(r)[i] /\ writes'[r][i] = writes[r][i]
                                   /\ ~Inserts(stmt[r], i) /\ ~Updates(stmt[r], i)
  BY ExecutedRow
<1> HIDE DEF T
<1>9. TagPlace(r)'
  BY <1>1, <1>2, <1>5 DEF TagSound, TagPlace
<1>10. ProblemKnown(r)'
  BY <1>1, <1>2, <1>3 DEF TagSound, ProblemKnown, Writing, Own
<1>11. BodyWritten(r)'
  <2> SUFFICES ASSUME NEW i \in Ids, writes'[r][i].table = "problem"
               PROVE  i = ProblemOf(r) /\ writes'[r][i].body = op[r].body
    BY <1>1, <1>3, <1>4 DEF BodyWritten, Inserts, Updates
  <2>1. Exists(writes'[r][i])
    BY DeletedTables DEF Exists
  <2>2. CASE writes'[r][i] = writes[r][i]
    BY <1>2, <2>2 DEF TagSound, BodyWritten
  <2>3. CASE Updates(stmt[r], i)
             /\ \A c \in DOMAIN stmt[r][i] : writes'[r][i][c] = stmt[r][i][c]
    BY <1>2, <2>3 DEF TagSound, BodyWritten
  <2>4. CASE Inserts(stmt[r], i) /\ IsRow(stmt[r][i])
             /\ \A c \in DOMAIN stmt[r][i] : writes'[r][i][c] = stmt[r][i][c]
    <3>1. stmt[r][i].table = "problem" /\ writes'[r][i].body = stmt[r][i].body
      BY <2>4, ColumnsOf
    <3> QED
      BY <1>2, <2>4, <3>1 DEF TagSound, BodyWritten
  <2> QED
    BY <1>6, <2>1, <2>2, <2>3, <2>4
<1>12. FreshLocks(r)'
  <2> DEFINE p == ProblemOf(r)
  <2> SUFFICES ASSUME Fresh(r), Writing(r) PROVE writes'[r][p].table = "problem"
    BY <1>1, <1>3 DEF FreshLocks, Writing
  <2>1. p \in Ids
    BY <1>2 DEF TagSound, ProblemKnown
  <2>2. CASE p \notin T
    BY <1>2, <1>8, <2>1, <2>2 DEF TagSound, FreshLocks
  <2>3. CASE p \in T
    <3>1. CASE Updates(stmt[r], p)
      <4>1. writes'[r][p] = Result(r)[p] /\ Exists(Result(r)[p])
        BY <2>1, <2>3, <3>1, ExecutedRow DEF T
      <4> QED
        BY <1>6, <2>1, <2>3, <3>1, <4>1, ExecutedRow, TagStatements DEF Inserts, T
    <3>2. CASE Inserts(stmt[r], p)
      <4>1. stmt[r][p].table = "problem"
        <5>1. ~Updates(stmt[r], p) /\ ~Exists(View(r)[p])
          BY <2>1, <2>3, <3>2, ExecutedRow DEF Inserts, Deletes, T
        <5>2. writes[r][p].table # "problem"
          BY <2>1, <5>1, ViewAt, DeletedTables, Absent DEF Touched, Exists, Untouched
        <5> QED
          BY <1>2, <5>1, <5>2 DEF TagSound, FreshLocks
      <4> QED
        BY <2>1, <2>3, <3>2, <4>1, ExecutedRow, TagStatements, ColumnsOf DEF T
    <3>3. CASE ~Updates(stmt[r], p) /\ ~Inserts(stmt[r], p)
      <4>1. Deletes(stmt[r], p) /\ Exists(View(r)[p]) /\ View(r)[p].table = "problem_tag"
        BY <2>1, <2>3, <3>3, ExecutedRow, TagStatements DEF T
      <4>2. writes[r][p].table = "problem"
        BY <1>2, <3>3 DEF TagSound, FreshLocks
      <4> QED
        BY <2>1, <4>1, <4>2, ViewAt DEF Touched, Untouched
    <3> QED
      BY <3>1, <3>2, <3>3
  <2> QED
    BY <2>2, <2>3
<1>13. TagsFound(r)'
  <2> SUFFICES ASSUME NEW k \in 1..Len(local[r].ids)
               PROVE  IsTag(View(r)'[local[r].ids[k]], Lower(op[r].tags[k]))
    BY <1>1 DEF TagsFound, TagThere, IsTag, Lower
  <2> DEFINE i == local[r].ids[k]
  <2>1. i \in Ids /\ TagThere(r, i, Lower(op[r].tags[k]))
    BY <1>2, <1>5 DEF TagSound, TagPlace, TagsFound
  <2> HIDE DEF i
  <2>2. CASE IsTag(View(r)[i], Lower(op[r].tags[k]))
    <3>1. Exists(View(r)[i]) /\ View(r)[i].table = "tag"
      BY <2>2, TagKindsOnly DEF IsTag, Exists
    <3>2. i \notin T
      BY <2>1, <3>1, ExecutedRow, TagStatements DEF T
    <3> QED
      BY <1>8, <2>1, <2>2, <3>2 DEF i
  <2>3. CASE Inserts(stmt[r], i) /\ IsTag(stmt[r][i], Lower(op[r].tags[k]))
    BY <2>1, <2>3, ExecutedRow, TagStatements, ColumnsOf DEF IsTag, i
  <2> QED
    BY <2>1, <2>2, <2>3 DEF TagThere
<1>14. LinksFit(r)'
  <2> SUFFICES ASSUME NEW i \in Ids, writes'[r][i].table = "problem_tag"
               PROVE  OfItsTags(r, writes'[r][i])
    BY <1>1, <1>3, <1>4 DEF LinksFit, OfItsTags, Inserts, Updates
  <2>1. Exists(writes'[r][i])
    BY DeletedTables DEF Exists
  <2>2. CASE writes'[r][i] = writes[r][i]
    BY <1>2, <2>2 DEF TagSound, LinksFit
  <2>3. CASE Inserts(stmt[r], i) /\ IsRow(stmt[r][i])
             /\ \A c \in DOMAIN stmt[r][i] : writes'[r][i][c] = stmt[r][i][c]
    <3>1. /\ stmt[r][i].table = "problem_tag" /\ writes'[r][i].problem = stmt[r][i].problem
          /\ writes'[r][i].tag = stmt[r][i].tag
      BY <2>3, ColumnsOf
    <3> QED
      BY <1>2, <2>3, <3>1 DEF TagSound, LinksFit, OfItsTags
  <2> QED
    BY <1>6, <2>1, <2>2, <2>3
<1>15. LinksMade(r)'
  <2>1. ASSUME NEW k \in 1..local[r].n
        PROVE  \E i \in Ids : LinkThere(r, i, local[r].ids[k])'
    <3>1. PICK i \in Ids : LinkThere(r, i, local[r].ids[k])
      BY <1>2, <1>5, <2>1 DEF TagSound, LinksMade
    <3>2. ~Deletes(stmt[r], i)
      BY <1>2, <2>1 DEF TagSound, TagPlace, LinksMade
    <3>3. IsLink(View(r)'[i], ProblemOf(r), local[r].ids[k])
      <4>1. CASE IsLink(View(r)[i], ProblemOf(r), local[r].ids[k])
        <5>1. Exists(View(r)[i]) /\ View(r)[i].table = "problem_tag"
          BY <4>1, TagKindsOnly DEF IsLink, Link, Exists
        <5>2. i \notin T
          BY <3>2, <5>1, ExecutedRow, TagStatements DEF T
        <5> QED
          BY <1>8, <4>1, <5>2
      <4>2. CASE Inserts(stmt[r], i) /\ IsLink(stmt[r][i], ProblemOf(r), local[r].ids[k])
        BY <4>2, ExecutedRow, TagStatements, ColumnsOf DEF IsLink, Link
      <4> QED
        BY <3>1, <4>1, <4>2 DEF LinkThere
    <3>4. LinkThere(r, i, local[r].ids[k])'
      BY <1>1, <1>3, <3>1, <3>3 DEF LinkThere, IsLink, Link, Own
    <3> QED
      BY <3>4
  <2> QED
    BY <1>1, <1>4, <2>1 DEF LinksMade, Deletes
<1>16. OnlyUnlinks(r)'
  <2> SUFFICES ASSUME NEW i \in Ids, writes'[r][i] = NoRow
               PROVE  op[r].tags # <<>> /\ (Exists(db[i]) => Link(db[i], ProblemOf(r)))
    BY <1>1, <1>3, <1>4 DEF OnlyUnlinks, Deletes, Exists, Link
  <2>1. Deletes(stmt[r], i) \/ writes[r][i] = NoRow
    BY ExecutedRow, Absent
  <2> QED
    BY <1>2, <2>1 DEF TagSound, OnlyUnlinks
<1>17. Unlinked(r)'
  <2> SUFFICES ASSUME pc[r] \in {"unlinked", "reply", "answered"}, op[r].tags # <<>>,
                      Contested(r)' => Fresh(r)',
                      NEW i \in Ids, Link(View(r)'[i], ProblemOf(r))
               PROVE  i \in Own(r)
    BY <1>1, <1>3 DEF Unlinked, Link, Own
  <2>1. Exists(View(r)'[i]) /\ View(r)'[i].table = "problem_tag"
    BY TagKindsOnly DEF Link, Exists
  <2>2. ~Deletes(stmt[r], i)
    BY <2>1, ExecutedRow
  <2>3. CASE i \in T
    BY <1>6, <1>7, <2>1, <2>3
  <2>4. CASE i \notin T
    BY <1>2, <1>3, <1>8, <2>2, <2>4 DEF TagSound, Unlinked
  <2> QED
    BY <2>3, <2>4
<1>18. TagRoom(r)'
  <2>1. Cardinality(Taken(r)') <= Cardinality(Taken(r)) /\ Cardinality(Taken(r)') \in Nat
    BY ExecutedTaken, NoMoreTaken
  <2>2. local[r].n \in Nat /\ Len(local[r].ids) \in Nat
    BY <1>2 DEF TagSound, TagPlace
  <2>3. Placed(r)' = Placed(r) /\ Placed(r) \in Nat
    BY <1>1 DEF Placed, Writing
  <2>4. Cardinality(Taken(r)) <= Placed(r) + Len(local[r].ids) + local[r].n
    BY <1>2 DEF TagSound, TagRoom
  <2>5. Cardinality(Taken(r)) \in Nat
    BY TakenFinite
  <2>6. Cardinality(Taken(r)') <= Placed(r) + Len(local[r].ids) + local[r].n
    BY <2>1, <2>2, <2>3, <2>4, <2>5
  <2> QED
    BY <1>1, <2>3, <2>6 DEF TagRoom
<1> QED
  BY <1>9, <1>10, <1>11, <1>12, <1>13, <1>14, <1>15, <1>16, <1>17, <1>18 DEF TagSound

-----------------------------------------------------------------------------
(* The steps of a request that sets tags.                                  *)

LEMMA TagsSequence ==
  ASSUME WInv, NEW r \in Requests, op[r].kind \in TagKinds
  PROVE  /\ Len(op[r].tags) \in Nat /\ 1 + 2 * Len(op[r].tags) <= MaxNew
         /\ op[r].tags = <<>> <=> Len(op[r].tags) = 0
         /\ DOMAIN op[r].tags = 1..Len(op[r].tags)
<1>1. op[r] \in Ops
  BY DEF WInv, Typing
<1>2. SeqOfItsOwn(op[r].tags) /\ RowsNeeded(op[r]) <= MaxNew
  BY <1>1, RoomAssumption
<1>3. RowsNeeded(op[r]) = 1 + 2 * Len(op[r].tags)
  BY DEF RowsNeeded, TagKinds
<1>4. op[r].tags \in Seq({ op[r].tags[k] : k \in DOMAIN op[r].tags })
  BY <1>2 DEF SeqOfItsOwn
<1> QED
  BY <1>2, <1>3, <1>4

LEMMA Proceeded ==
  ASSUME WInv, Hist, Watch, NEW r \in Requests, NEW mem, NEW w, NEW label,
         Proceed(r, mem, w, label)
  PROVE  /\ local'[r] = mem /\ stmt'[r] = w /\ pc'[r] = label
         /\ op' = op /\ writes' = writes /\ db' = db /\ saved' = saved
         /\ View(r)' = View(r) /\ ProblemOf(r)' = ProblemOf(r) /\ (Fresh(r)' => Fresh(r))
         /\ (Contested(r)' => Fresh(r)') => (Contested(r) => Fresh(r))
<1> USE DEF WInv, IInv, Shape, Hist
<1>1. /\ op' = op /\ writes' = writes /\ db' = db /\ saved' = saved
  BY DEF Proceed
<1>2. local'[r] = mem /\ stmt'[r] = w /\ pc'[r] = label
  BY DEF Proceed
<1>3. View(r)' = View(r)
  BY <1>1 DEF View
<1> QED
  BY <1>1, <1>2, <1>3, HistoryGrows

(* A request ends: it is saved or rolled back.                             *)
LEMMA TagEnds ==
  ASSUME WInv, Hist, Tagging, NEW r \in Requests, op[r].kind \in TagKinds,
         RollsBack(r) \/ Commits(r), pc'[r] = "done"
  PROVE  TagSound(r)'
<1> USE DEF WInv, IInv
<1>1. /\ op' = op /\ local' = local /\ pc[r] # "done"
      /\ saved \subseteq saved' /\ (r \in saved' => r \in saved \/ Commits(r))
      /\ writes'[r] = NoWrite /\ stmt'[r] = NoWrite
  BY DEF RollsBack, Commits, Shape, Order
<1>2. TagSound(r) /\ r \notin saved
  BY <1>1 DEF Tagging, Order
<1>3. \A i \in Ids : /\ ~Inserts(stmt'[r], i) /\ ~Updates(stmt'[r], i) /\ ~Deletes(stmt'[r], i)
                     /\ writes'[r][i] = Untouched
  BY <1>1, NothingIssued, NothingTouched
<1>4. TagPlace(r)'
  BY <1>1, <1>2 DEF TagSound, TagPlace, TagLabels
<1>5. ProblemKnown(r)'
  <2>1. r \in saved' => Writing(r)
    BY <1>1, <1>2 DEF Commits, Writing
  <2> QED
    BY <1>1, <1>2, <2>1 DEF TagSound, ProblemKnown, ProblemOf, Own, Writing
<1>6. BodyWritten(r)' /\ LinksFit(r)'
  BY <1>3 DEF BodyWritten, LinksFit, OfItsTags, Inserts, Updates, Untouched
<1>7. FreshLocks(r)' /\ TagsFound(r)' /\ Unlinked(r)'
  BY DEF FreshLocks, TagsFound, Unlinked, Writing
<1>8. LinksMade(r)' /\ OnlyUnlinks(r)'
  BY <1>3, Absent DEF LinksMade, OnlyUnlinks, Deletes
<1>9. TagRoom(r)'
  <2>1. Taken(r)' = {}
    BY <1>3 DEF Taken, Touched, Inserts, Updates
  <2>2. Cardinality(Taken(r)') = 0
    BY <2>1, FS_EmptySet
  <2>3. local'[r].n \in Nat /\ Len(local'[r].ids) \in Nat
    BY <1>4 DEF TagPlace
  <2>4. Placed(r)' \in Nat
    BY DEF Placed
  <2>5. 0 <= Placed(r)' + Len(local'[r].ids) + local'[r].n
    BY <2>3, <2>4
  <2> QED
    BY <2>2, <2>5 DEF TagRoom
<1> QED
  BY <1>4, <1>5, <1>6, <1>7, <1>8, <1>9 DEF TagSound

(* It goes on, with the tags and the links it had and perhaps one more.    *)
LEMMA TagGoesOn ==
  ASSUME WInv, Hist, Tagging, Watch, NEW r \in Requests, op[r].kind \in TagKinds,
         stmt[r] = NoWrite, pc[r] # "done",
         NEW mem, NEW w, NEW label, Proceed(r, mem, w, label),
         label # "answered", TagPlace(r)', ProblemKnown(r)', FreshLocks(r)', TagRoom(r)',
         Len(local[r].ids) <= Len(mem.ids), local[r].n <= mem.n,
         \A k \in 1..Len(local[r].ids) : mem.ids[k] = local[r].ids[k],
         \A k \in 1..Len(mem.ids) :
           k <= Len(local[r].ids) \/ TagThere(r, mem.ids[k], Lower(op[r].tags[k]))',
         \A k \in 1..mem.n :
           k <= local[r].n \/ \E i \in Ids : LinkThere(r, i, mem.ids[k])',
         \A i \in Ids :
           /\ Deletes(w, i) =>
                mem.n = 0 /\ op[r].tags # <<>> /\ Link(View(r)[i], ProblemOf(r))
           /\ Updates(w, i) =>
                i = ProblemOf(r) /\ "body" \in DOMAIN w[i] /\ w[i].body = op[r].body
           /\ Inserts(w, i) =>
                /\ w[i].table = "problem" => i = ProblemOf(r) /\ w[i].body = op[r].body
                /\ w[i].table = "problem_tag" =>
                     /\ w[i].problem = ProblemOf(r)
                     /\ \E k \in 1..Len(mem.ids) : w[i].tag = mem.ids[k],
         label \in {"unlinked", "reply"} /\ op[r].tags # <<>> =>
           pc[r] = "unlinked" \/ w = Delete(TagLinks(View(r), ProblemOf(r))),
         Effects
  PROVE  TagSound(r)'
<1> USE DEF WInv, IInv
<1>1. /\ local'[r] = mem /\ stmt'[r] = w /\ pc'[r] = label
      /\ op' = op /\ writes' = writes /\ db' = db /\ saved' = saved
      /\ View(r)' = View(r) /\ ProblemOf(r)' = ProblemOf(r) /\ (Fresh(r)' => Fresh(r))
      /\ (Contested(r)' => Fresh(r)') => (Contested(r) => Fresh(r))
  BY Proceeded
<1>2. TagSound(r) /\ \A i \in Ids : ~Inserts(stmt[r], i) /\ ~Updates(stmt[r], i)
                                    /\ ~Deletes(stmt[r], i)
  BY NothingIssued DEF Tagging
<1>3. /\ local[r].n \in Nat /\ local[r].n <= Len(local[r].ids) /\ Len(local[r].ids) \in Nat
      /\ mem.n \in Nat /\ mem.n <= Len(mem.ids) /\ Len(mem.ids) \in Nat
  BY <1>1, <1>2 DEF TagSound, TagPlace
<1>4. BodyWritten(r)'
  BY <1>1, <1>2 DEF TagSound, BodyWritten, Inserts, Updates
<1>5. TagsFound(r)'
  <2> SUFFICES ASSUME NEW k \in 1..Len(mem.ids)
               PROVE  TagThere(r, mem.ids[k], Lower(op[r].tags[k]))'
    BY <1>1 DEF TagsFound, TagThere, IsTag, Lower, Inserts, Updates
  <2>1. CASE k <= Len(local[r].ids)
    <3>1. k \in 1..Len(local[r].ids) /\ local[r].ids[k] \in Ids /\ mem.ids[k] = local[r].ids[k]
      BY <1>2, <1>3, <2>1 DEF TagSound, TagPlace
    <3>2. TagThere(r, mem.ids[k], Lower(op[r].tags[k]))
      BY <1>2, <3>1 DEF TagSound, TagsFound
    <3>3. IsTag(View(r)[mem.ids[k]], Lower(op[r].tags[k]))
      BY <1>2, <3>1, <3>2 DEF TagThere
    <3> QED
      BY <1>1, <3>3 DEF TagThere, IsTag, Lower
  <2> QED
    BY <2>1
<1>6. LinksFit(r)'
  <2> DEFINE OfMem(row) ==
               row.table = "problem_tag" =>
                 /\ row.problem = ProblemOf(r)
                 /\ \E k \in 1..Len(mem.ids) : row.tag = mem.ids[k]
  <2>1. ASSUME NEW i \in Ids PROVE OfMem(writes[r][i])
    <3>1. OfItsTags(r, writes[r][i])
      BY <1>2 DEF TagSound, LinksFit
    <3>2. \A k \in 1..Len(local[r].ids) : k \in 1..Len(mem.ids)
      BY <1>3
    <3> QED
      BY <3>1, <3>2 DEF OfItsTags
  <2>2. \A i \in Ids : Inserts(w, i) => OfMem(w[i])
    OBVIOUS
  <2> QED
    BY <1>1, <2>1, <2>2 DEF LinksFit, OfItsTags, Inserts, Updates
<1>7. LinksMade(r)'
  <2>1. ASSUME NEW k \in 1..mem.n PROVE \E i \in Ids : LinkThere(r, i, mem.ids[k])'
    <3>1. CASE k <= local[r].n
      <4>1. k \in 1..local[r].n /\ mem.ids[k] = local[r].ids[k]
        BY <1>3, <3>1
      <4>2. PICK i \in Ids : LinkThere(r, i, mem.ids[k])
        BY <1>2, <4>1 DEF TagSound, LinksMade
      <4>3. LinkThere(r, i, mem.ids[k])'
        BY <1>1, <1>2, <4>2 DEF LinkThere, IsLink, Link, Own
      <4> QED
        BY <4>3
    <3> QED
      BY <3>1
  <2>2. mem.n > 0 => \A i \in Ids : ~Deletes(w, i)
    BY <1>3
  <2> QED
    BY <1>1, <2>1, <2>2 DEF LinksMade, LinkThere, IsLink, Link, Own, Deletes, Inserts, Updates
<1>8. OnlyUnlinks(r)'
  <2> SUFFICES ASSUME NEW i \in Ids, Deletes(w, i) \/ writes[r][i] = NoRow
               PROVE  op[r].tags # <<>> /\ (Exists(db[i]) => Link(db[i], ProblemOf(r)))
    BY <1>1 DEF OnlyUnlinks, Deletes, Exists, Link
  <2>1. CASE writes[r][i] = NoRow
    BY <1>2, <2>1 DEF TagSound, OnlyUnlinks
  <2>2. CASE Deletes(w, i)
    <3>1. op[r].tags # <<>> /\ Link(View(r)[i], ProblemOf(r)) /\ Exists(View(r)[i])
      BY <2>2, TagKindsOnly DEF Link, Exists
    <3>2. i \in Touched(writes[r]) => ~Exists(db[i])
      BY <3>1, ViewAt, TagStatements DEF Link
    <3> QED
      BY <3>1, <3>2, ViewAt
  <2> QED
    BY <2>1, <2>2
<1>9. Unlinked(r)'
  <2> SUFFICES ASSUME label \in {"unlinked", "reply", "answered"}, op[r].tags # <<>>,
                      Contested(r)' => Fresh(r)',
                      NEW i \in Ids, Link(View(r)[i], ProblemOf(r))
               PROVE  i \in Own(r) \/ Deletes(w, i)
    BY <1>1 DEF Unlinked, Link, Deletes, Own
  <2>1. CASE pc[r] \in {"unlinked", "reply", "answered"}
    BY <1>1, <1>2, <2>1 DEF TagSound, Unlinked
  <2>2. CASE w = Delete(TagLinks(View(r), ProblemOf(r)))
    <3>1. i \in TagLinks(View(r), ProblemOf(r))
      BY Domains DEF TagLinks, RowsOf, Link
    <3> QED
      BY <2>2, <3>1 DEF Delete, Deletes
  <2> QED
    BY <2>1, <2>2
<1> QED
  BY <1>4, <1>5, <1>6, <1>7, <1>8, <1>9 DEF TagSound

(* It goes on with what it has.                                            *)
LEMMA TagMoves ==
  ASSUME WInv, Effects, Hist, Tagging, Watch, NEW r \in Requests, op[r].kind \in TagKinds,
         stmt[r] = NoWrite,
         NEW label, Go(r, label),
         \/ pc[r] = "start" /\ label = "handler"
         \/ pc[r] = "updated" /\ op[r].tags = <<>> /\ label = "reply"
         \/ pc[r] = "updated" /\ op[r].tags # <<>> /\ label = "tags"
         \/ pc[r] = "unlinked" /\ local[r].n = Len(local[r].ids) /\ label = "reply"
  PROVE  TagSound(r)'
<1> DEFINE mem == local[r]
<1>1. Proceed(r, mem, NoWrite, label)
  BY DEF Go
<1>2. /\ local'[r] = mem /\ stmt'[r] = NoWrite /\ pc'[r] = label
      /\ op' = op /\ writes' = writes /\ db' = db /\ saved' = saved
      /\ View(r)' = View(r) /\ ProblemOf(r)' = ProblemOf(r) /\ (Fresh(r)' => Fresh(r))
      /\ (Contested(r)' => Fresh(r)') => (Contested(r) => Fresh(r))
  BY <1>1, Proceeded
<1>3. TagSound(r) /\ \A i \in Ids : ~Inserts(NoWrite, i) /\ ~Updates(NoWrite, i)
                                    /\ ~Deletes(NoWrite, i)
  BY NothingIssued DEF Tagging
<1>4. Len(op[r].tags) \in Nat /\ (op[r].tags = <<>> <=> Len(op[r].tags) = 0)
  BY TagsSequence
<1>5. TagPlace(r)'
  BY <1>2, <1>3, <1>4 DEF TagSound, TagPlace, TagLabels
<1>6. ProblemKnown(r)'
  <2>1. label # "handler" => Writing(r)
    BY DEF Writing
  <2>2. label = "handler" => r \notin saved
    BY DEF WInv, IInv, Order
  <2> QED
    BY <1>2, <1>3, <2>1, <2>2 DEF TagSound, ProblemKnown, Writing, Own
<1>7. FreshLocks(r)'
  BY <1>2, <1>3 DEF TagSound, FreshLocks, Writing, Updates, Inserts
<1>8. TagRoom(r)'
  <2>1. Taken(r)' = Taken(r)
    BY <1>2 DEF Taken, Touched, Inserts, Updates, Own
  <2>2. Placed(r) <= Placed(r)' /\ Placed(r) \in Nat /\ Placed(r)' \in Nat
    BY <1>2 DEF Placed, Writing
  <2>3. /\ local[r].n \in Nat /\ Len(local[r].ids) \in Nat
        /\ Cardinality(Taken(r)) \in Nat
    BY <1>3, TakenFinite DEF TagSound, TagPlace
  <2>4. Cardinality(Taken(r)) <= Placed(r) + Len(local[r].ids) + local[r].n
    BY <1>3 DEF TagSound, TagRoom
  <2> QED
    BY <1>2, <2>1, <2>2, <2>3, <2>4 DEF TagRoom
<1>9. /\ pc[r] # "done" /\ label # "answered" /\ local[r].n \in Nat
      /\ Len(local[r].ids) \in Nat
  BY <1>3 DEF TagSound, TagPlace
<1>10. label \in {"unlinked", "reply"} /\ op[r].tags # <<>> => pc[r] = "unlinked"
  OBVIOUS
<1> HIDE DEF mem
<1> QED
  BY <1>1, <1>3, <1>5, <1>6, <1>7, <1>8, <1>9, <1>10, TagGoesOn DEF mem

LEMMA TagResponds ==
  ASSUME WInv, Hist, Tagging, Watch, NEW r \in Requests, op[r].kind \in TagKinds, Respond(r)
  PROVE  TagSound(r)'
<1> USE DEF WInv, IInv, Shape
<1>1. /\ pc[r] = "reply" /\ pc'[r] = "answered" /\ op' = op /\ local' = local /\ db' = db
      /\ writes' = writes /\ stmt' = stmt /\ saved' = saved
  BY DEF Respond, Reply
<1>2. View(r)' = View(r)
  BY <1>1 DEF View
<1>3. /\ ProblemOf(r)' = ProblemOf(r) /\ (Fresh(r)' => Fresh(r))
      /\ (Contested(r)' => Fresh(r)') => (Contested(r) => Fresh(r))
  BY <1>1, HistoryGrows DEF Hist
<1>4. TagSound(r)
  BY DEF Tagging
<1>5. TagPlace(r)' /\ ProblemKnown(r)'
  BY <1>1, <1>3, <1>4 DEF TagSound, TagPlace, TagLabels, ProblemKnown, Writing, Own
<1>6. BodyWritten(r)' /\ LinksFit(r)' /\ OnlyUnlinks(r)'
  BY <1>1, <1>3, <1>4 DEF TagSound, BodyWritten, LinksFit, OfItsTags, OnlyUnlinks, Inserts,
     Updates, Deletes, Exists, Link
<1>7. FreshLocks(r)'
  BY <1>1, <1>3, <1>4 DEF TagSound, FreshLocks, Writing, Inserts, Updates
<1>8. TagsFound(r)' /\ LinksMade(r)'
  <2>1. \A i, slug : TagThere(r, i, slug) => TagThere(r, i, slug)'
    BY <1>1, <1>2 DEF TagThere, IsTag, Inserts, Updates
  <2>2. \A i, t : LinkThere(r, i, t) => LinkThere(r, i, t)'
    BY <1>1, <1>2, <1>3 DEF LinkThere, IsLink, Link, Inserts, Updates, Own
  <2>3. TagsFound(r)'
    BY <1>1, <1>4, <2>1 DEF TagSound, TagsFound, Lower
  <2>4. LinksMade(r)'
    BY <1>1, <1>4, <2>2 DEF TagSound, LinksMade, Deletes
  <2> QED
    BY <2>3, <2>4
<1>9. Unlinked(r)'
  BY <1>1, <1>2, <1>3, <1>4 DEF TagSound, Unlinked, Link, Deletes, Own
<1>10. TagRoom(r)'
  <2>1. Taken(r)' = Taken(r) /\ Placed(r)' = Placed(r)
    BY <1>1 DEF Taken, Touched, Inserts, Updates, Own, Placed, Writing
  <2> QED
    BY <1>1, <1>4, <2>1 DEF TagSound, TagRoom
<1> QED
  BY <1>5, <1>6, <1>7, <1>8, <1>9, <1>10 DEF TagSound

(* What a statement that inserts a row holds.                              *)
LEMMA PutRow ==
  ASSUME NEW i0 \in Ids, NEW row, row # Untouched, row # NoRow, "table" \in DOMAIN row,
         NEW i \in Ids
  PROVE  /\ ~Deletes(Put(i0, row), i) /\ ~Updates(Put(i0, row), i)
         /\ Inserts(Put(i0, row), i) <=> i = i0
         /\ Put(i0, row)[i0] = row /\ (i # i0 => Put(i0, row)[i] = Untouched)
<1>1. Put(i0, row)[i0] = row /\ (i # i0 => Put(i0, row)[i] = Untouched)
  BY DEF Put, NoWrite
<1>2. "table" \in DOMAIN Untouched
  BY DEF Untouched
<1> QED
  BY <1>1, <1>2, Absent DEF Deletes, Updates, Inserts

LEMMA PutColumns ==
  ASSUME NEW i0 \in Ids, NEW set, "table" \notin DOMAIN set, NEW i \in Ids
  PROVE  /\ ~Deletes(Put(i0, set), i) /\ ~Inserts(Put(i0, set), i)
         /\ Updates(Put(i0, set), i) <=> i = i0
         /\ Put(i0, set)[i0] = set
<1>1. Put(i0, set)[i0] = set /\ (i # i0 => Put(i0, set)[i] = Untouched)
  BY DEF Put, NoWrite
<1>2. "table" \in DOMAIN Untouched /\ "table" \in DOMAIN NoRow
  BY DEF Untouched, NoRow
<1> QED
  BY <1>1, <1>2, Absent DEF Deletes, Updates, Inserts

LEMMA CreateTags ==
  ASSUME WInv, Effects, Hist, Tagging, Watch, NEW r \in Requests, op[r].kind = "create_problem",
         CreateProblem(r)
  PROVE  TagSound(r)'
<1> DEFINE row == [table |-> "problem", body |-> op[r].body, author |-> op[r].user]
           w == Put(NewId(r), row)
           mem == local[r]
           label == TagsOrReply(r)
<1>1. /\ Proceed(r, mem, w, label) /\ pc[r] = "handler" /\ stmt[r] = NoWrite
      /\ op[r].kind \in TagKinds
  BY DEF CreateProblem, Issue, At, TagKinds
<1>2. /\ local'[r] = mem /\ stmt'[r] = w /\ pc'[r] = label
      /\ op' = op /\ writes' = writes /\ db' = db /\ saved' = saved
      /\ View(r)' = View(r) /\ ProblemOf(r)' = ProblemOf(r) /\ (Fresh(r)' => Fresh(r))
  BY <1>1, Proceeded
<1>3. TagSound(r) /\ writes[r] = NoWrite
  BY <1>1 DEF Tagging, TagSound, TagPlace
<1>4. /\ Len(op[r].tags) \in Nat /\ 1 + 2 * Len(op[r].tags) <= MaxNew
      /\ op[r].tags = <<>> <=> Len(op[r].tags) = 0
  BY <1>1, TagsSequence
<1>5. /\ DOMAIN mem = DOMAIN NoLocals /\ mem.ids \in Seq(Ids) /\ Len(mem.ids) = 0 /\ mem.n = 0
  BY <1>1, <1>3 DEF TagSound, TagPlace
<1>6. Cardinality(Taken(r)) = 0
  <2>1. Taken(r) = {}
    BY <1>1, <1>3, NothingIssued, NothingTouched DEF Taken
  <2> QED
    BY <2>1, FS_EmptySet
<1>7. NewId(r) = ProblemOf(r) /\ NewId(r) \in Ids /\ NewId(r) = <<r, 1>>
  <2>1. 0 < MaxNew
    BY <1>4, MaxNewAssumption
  <2> QED
    BY <1>1, <1>6, <2>1, RoomLeft DEF ProblemOf
<1>8. \A i \in Ids : /\ ~Deletes(w, i) /\ ~Updates(w, i)
                     /\ Inserts(w, i) <=> i = NewId(r)
                     /\ w[NewId(r)] = row
  <2>1. row # Untouched /\ row # NoRow /\ "table" \in DOMAIN row
    BY DEF Untouched, NoRow
  <2> HIDE DEF row
  <2> QED
    BY <1>7, <2>1, PutRow
<1>9. \/ label = "reply" /\ op[r].tags = <<>>
      \/ label = "tags" /\ op[r].tags # <<>>
  BY DEF TagsOrReply
<1>10. Cardinality(Taken(r)') <= 1
  <2>1. Cardinality(Taken(r)') <= Cardinality(Taken(r)) + 1
    BY <1>1, <1>2, OneMoreTaken
  <2> QED
    BY <1>6, <2>1
<1> HIDE DEF w, mem, label
<1>11. TagPlace(r)'
  BY <1>2, <1>4, <1>5, <1>9 DEF TagPlace, TagLabels
<1>12. ProblemKnown(r)'
  BY <1>2, <1>7 DEF ProblemKnown, Own
<1>13. FreshLocks(r)'
  BY <1>2, <1>7, <1>8, <1>9 DEF FreshLocks, Inserts, Updates
<1>14. TagRoom(r)'
  BY <1>2, <1>5, <1>9, <1>10 DEF TagRoom, Placed, Writing
<1>15. \A i \in Ids : Inserts(w, i) =>
         /\ i = ProblemOf(r) /\ w[i].body = op[r].body /\ w[i].table # "problem_tag"
  BY <1>7, <1>8
<1> QED
  BY <1>1, <1>5, <1>8, <1>9, <1>11, <1>12, <1>13, <1>14, <1>15, TagGoesOn DEF mem

(* An update of the body writes the row unless the body is the one it has. *)
LEMMA UpdateBody ==
  ASSUME NEW p \in Ids, NEW body, NEW row
  PROVE  LET w == Update(p, [body |-> body], row)
         IN /\ \A i \in Ids : /\ ~Deletes(w, i) /\ ~Inserts(w, i)
                              /\ Updates(w, i) =>
                                   i = p /\ "body" \in DOMAIN w[i] /\ w[i].body = body
            /\ row.body # body => Updates(w, p)
<1> DEFINE set == [body |-> body]
           change == Changed(set, row)
<1>1. DOMAIN change \subseteq {"body"} /\ (row.body # body => DOMAIN change # {})
  BY DEF Changed
<1>2. CASE DOMAIN change = {}
  BY <1>1, <1>2, NothingIssued DEF Update
<1>3. CASE DOMAIN change # {}
  <2>1. "body" \in DOMAIN change /\ "table" \notin DOMAIN change
    BY <1>1, <1>3
  <2>2. change.body = body
    BY <2>1 DEF Changed
  <2>3. Update(p, set, row) = Put(p, change)
    BY <1>3 DEF Update
  <2> HIDE DEF change
  <2> QED
    BY <2>1, <2>2, <2>3, PutColumns
<1> QED
  BY <1>2, <1>3

LEMMA UpdateTags ==
  ASSUME WInv, Effects, Hist, Tagging, Bodies, Watch, NEW r \in Requests,
         op[r].kind = "update_problem",
         Exists(Row(r, "problem", op[r].id)), At(r, "update_problem", "handler"),
         Issue(r, Update(op[r].id, [body |-> op[r].body], Row(r, "problem", op[r].id)),
               "updated")
  PROVE  TagSound(r)'
<1> USE DEF WInv, IInv
<1> DEFINE p == op[r].id
           w == Update(p, [body |-> op[r].body], View(r)[p])
           mem == local[r]
<1>1. /\ p \in Ids /\ View(r)[p].table = "problem" /\ KnownAs(r, p, "problem")
      /\ Row(r, "problem", p) = View(r)[p] /\ ProblemOf(r) = p
  BY FoundKnown DEF Tables, ProblemOf
<1>2. /\ Proceed(r, mem, w, "updated") /\ pc[r] = "handler" /\ stmt[r] = NoWrite
      /\ op[r].kind \in TagKinds
  BY <1>1 DEF Issue, At, TagKinds
<1>3. /\ local'[r] = mem /\ stmt'[r] = w /\ pc'[r] = "updated"
      /\ op' = op /\ writes' = writes /\ db' = db /\ saved' = saved
      /\ View(r)' = View(r) /\ ProblemOf(r)' = ProblemOf(r) /\ (Fresh(r)' => Fresh(r))
  BY <1>2, Proceeded
<1>4. TagSound(r) /\ writes[r] = NoWrite /\ View(r) = db
  BY <1>2, ViewOfNothing DEF Tagging, TagSound, TagPlace
<1>5. /\ \A i \in Ids : /\ ~Deletes(w, i) /\ ~Inserts(w, i)
                        /\ Updates(w, i) =>
                             i = p /\ "body" \in DOMAIN w[i] /\ w[i].body = op[r].body
      /\ View(r)[p].body # op[r].body => Updates(w, p)
  BY <1>1, UpdateBody
<1>6. /\ DOMAIN mem = DOMAIN NoLocals /\ mem.ids \in Seq(Ids) /\ Len(mem.ids) = 0 /\ mem.n = 0
      /\ Len(mem.ids) <= Len(op[r].tags)
  BY <1>2, <1>4 DEF TagSound, TagPlace
<1>7. Fresh(r) => View(r)[p].body # op[r].body
  <2> SUFFICES ASSUME Fresh(r), View(r)[p].body = op[r].body PROVE FALSE
    OBVIOUS
  <2>1. \A a \in Editors(p) : a # r /\ op[a].body # op[r].body
    BY <1>1, <1>2 DEF Fresh, Differ, Editors, Order
  <2>2. p \in DOMAIN Seed => op[r].body # Seed[p].body
    BY <1>1 DEF Fresh, Differ
  <2> QED
    BY <1>1, <1>4, <2>1, <2>2 DEF Bodies
<1> HIDE DEF w, mem
<1>8. TagPlace(r)'
  BY <1>3, <1>6 DEF TagPlace, TagLabels
<1>9. ProblemKnown(r)'
  <2>1. r \notin saved
    BY <1>2 DEF Order
  <2>2. p \notin Own(r)
    BY <1>1, <1>4, <2>1 DEF Identity, Exists, Tables
  <2> QED
    BY <1>1, <1>3, <2>2 DEF ProblemKnown, KnownAs, Own
<1>10. FreshLocks(r)'
  BY <1>1, <1>3, <1>5, <1>7 DEF FreshLocks, Updates
<1>11. TagRoom(r)'
  <2>1. Taken(r)' = {}
    BY <1>3, <1>4, <1>5, NothingTouched DEF Taken, Touched, Inserts, Updates
  <2>2. Cardinality(Taken(r)') = 0 /\ Placed(r)' \in Nat
    BY <2>1, FS_EmptySet DEF Placed
  <2> QED
    BY <1>3, <1>6, <2>2 DEF TagRoom
<1>12. /\ \A k \in 1..Len(local[r].ids) : mem.ids[k] = local[r].ids[k]
       /\ Len(local[r].ids) <= Len(mem.ids) /\ local[r].n <= mem.n
  BY <1>6 DEF mem
<1> QED
  BY <1>1, <1>2, <1>4, <1>5, <1>6, <1>8, <1>9, <1>10, <1>11, <1>12, TagGoesOn

LEMMA TagTurns ==
  ASSUME WInv, Effects, Hist, Tagging, Watch, NEW r \in Requests, op[r].kind \in TagKinds,
         GetOrCreateTag(r)
  PROVE  TagSound(r)'
<1> DEFINE slug == Lower(op[r].tags[Len(local[r].ids) + 1])
           row == [table |-> "tag", slug |-> slug]
           With(i) == [local[r] EXCEPT !.ids = Append(@, i)]
<1>1. /\ pc[r] = "tags" /\ stmt[r] = NoWrite /\ Len(local[r].ids) < Len(op[r].tags)
      /\ TagSound(r)
  BY DEF GetOrCreateTag, Tagging
<1>2. /\ DOMAIN local[r] = DOMAIN NoLocals /\ local[r].ids \in Seq(Ids) /\ local[r].n = 0
      /\ op[r].tags # <<>> /\ Len(op[r].tags) \in Nat /\ 1 + 2 * Len(op[r].tags) <= MaxNew
      /\ Len(local[r].ids) \in Nat
  BY <1>1, TagsSequence DEF TagSound, TagPlace
<1>3. /\ Cardinality(Taken(r)) \in Nat /\ Placed(r) \in Nat /\ Placed(r) <= 1
      /\ Cardinality(Taken(r)) <= Placed(r) + Len(local[r].ids)
  <2>1. Cardinality(Taken(r)) \in Nat /\ Placed(r) \in Nat /\ Placed(r) <= 1
    BY TakenFinite DEF Placed
  <2>2. Cardinality(Taken(r)) <= Placed(r) + Len(local[r].ids) + local[r].n
    BY <1>1 DEF TagSound, TagRoom
  <2> QED
    BY <1>2, <2>1, <2>2
<1>4. PICK i \in Ids : \E w :
        /\ Proceed(r, With(i), w, "tags")
        /\ \A j \in Ids : ~Deletes(w, j) /\ ~Updates(w, j)
        /\ \/ w = NoWrite /\ IsTag(View(r)[i], slug)
           \/ /\ w = Put(NewId(r), row) /\ i = NewId(r)
              /\ \A j \in Ids : Inserts(w, j) <=> j = i
              /\ w[i] = row
  <2>1. CASE BySlugOfTag(View(r), slug) = {}
    <3>1. NewId(r) \in Ids
      BY <1>1, <1>2, <1>3, RoomLeft, MaxNewAssumption
    <3>2. row # Untouched /\ row # NoRow /\ "table" \in DOMAIN row
      BY DEF Untouched, NoRow
    <3> DEFINE w == Put(NewId(r), row)
    <3>3. Proceed(r, With(NewId(r)), w, "tags")
      BY <2>1 DEF GetOrCreateTag
    <3> HIDE DEF row, With
    <3>4. /\ \A j \in Ids : ~Deletes(w, j) /\ ~Updates(w, j)
          /\ \A j \in Ids : Inserts(w, j) <=> j = NewId(r)
          /\ w[NewId(r)] = row
      BY <3>1, <3>2, PutRow
    <3>5. \E u : /\ Proceed(r, With(NewId(r)), u, "tags")
                 /\ \A j \in Ids : ~Deletes(u, j) /\ ~Updates(u, j)
                 /\ u = w /\ \A j \in Ids : Inserts(u, j) <=> j = NewId(r)
                 /\ u[NewId(r)] = row
      BY <3>3, <3>4
    <3> QED
      BY <3>1, <3>5
  <2>2. CASE BySlugOfTag(View(r), slug) # {}
    <3>1. PICK i \in BySlugOfTag(View(r), slug) : Proceed(r, With(i), NoWrite, "tags")
      BY <2>2 DEF GetOrCreateTag, Keep
    <3>2. i \in Ids /\ IsTag(View(r)[i], slug)
      BY <3>1, Domains DEF BySlugOfTag, RowsOf, IsTag, WInv, IInv
    <3> QED
      BY <3>1, <3>2, NothingIssued
  <2> QED
    BY <2>1, <2>2
<1>0. PICK mem, w :
        /\ Proceed(r, mem, w, "tags") /\ mem = With(i)
        /\ \A j \in Ids : ~Deletes(w, j) /\ ~Updates(w, j)
        /\ \/ w = NoWrite /\ IsTag(View(r)[i], slug)
           \/ /\ w = Put(NewId(r), row) /\ i = NewId(r)
              /\ \A j \in Ids : Inserts(w, j) <=> j = i
              /\ w[i] = row
  <2> HIDE DEF With, row, slug
  <2> QED
    BY <1>4
<1>5. /\ local'[r] = mem /\ stmt'[r] = w /\ pc'[r] = "tags"
      /\ op' = op /\ writes' = writes /\ db' = db /\ saved' = saved
      /\ View(r)' = View(r) /\ ProblemOf(r)' = ProblemOf(r) /\ (Fresh(r)' => Fresh(r))
  BY <1>0, Proceeded
<1>6. /\ DOMAIN mem = DOMAIN NoLocals /\ mem.ids = Append(local[r].ids, i) /\ mem.n = 0
      /\ mem.ids \in Seq(Ids) /\ Len(mem.ids) = Len(local[r].ids) + 1
      /\ \A k \in 1..Len(local[r].ids) : mem.ids[k] = local[r].ids[k]
      /\ mem.ids[Len(mem.ids)] = i
  BY <1>0, <1>2 DEF NoLocals
<1>7. TagPlace(r)'
  BY SMTT(30), <1>1, <1>2, <1>5, <1>6 DEF TagPlace, TagLabels
<1>8. ProblemKnown(r)'
  BY <1>1, <1>5 DEF TagSound, ProblemKnown, Writing, Own
<1>9. FreshLocks(r)'
  <2>1. Fresh(r) => writes[r][ProblemOf(r)].table = "problem"
    <3>1. Fresh(r) => ProblemOf(r) \in Ids
      BY <1>1 DEF TagSound, ProblemKnown, Writing
    <3> QED
      BY <1>1, <3>1, NothingIssued DEF TagSound, FreshLocks, Writing
  <2> QED
    BY <1>5, <2>1 DEF FreshLocks
<1>10. TagRoom(r)'
  <2>1. Placed(r)' = Placed(r)
    BY <1>1, <1>5 DEF Placed, Writing
  <2>2. Cardinality(Taken(r)') <= Cardinality(Taken(r)) + 1 /\ Cardinality(Taken(r)') \in Nat
    <3>1. CASE w = NoWrite
      <4>1. Taken(r)' \subseteq Taken(r)
        BY <1>1, <1>5, <3>1 DEF Taken, Touched, Inserts, Updates, Own
      <4> QED
        BY <1>3, <4>1, NoMoreTaken
    <3>2. CASE w = Put(NewId(r), row)
      <4>1. \A j \in Own(r) : j \in Taken(r)' => j \in Own(r)
        OBVIOUS
      <4>2. Cardinality(Taken(r)') <= Cardinality(Taken(r)) + 1
        BY <1>1, <1>5, <3>2, OneMoreTaken
      <4>3. Cardinality(Taken(r)') \in Nat
        <5>1. Taken(r)' \in SUBSET Own(r)
          BY DEF Taken, Own
        <5> QED
          BY <5>1, OwnFinite, FS_Subset, FS_CardinalityType
      <4> QED
        BY <4>2, <4>3
    <3> QED
      BY <1>0, <3>1, <3>2
  <2> QED
    BY <1>2, <1>3, <1>5, <1>6, <2>1, <2>2 DEF TagRoom
<1>11. \A k \in 1..Len(mem.ids) :
         k <= Len(local[r].ids) \/ TagThere(r, mem.ids[k], Lower(op[r].tags[k]))'
  <2> SUFFICES ASSUME NEW k \in 1..Len(mem.ids), ~(k <= Len(local[r].ids))
               PROVE  TagThere(r, mem.ids[k], Lower(op[r].tags[k]))'
    OBVIOUS
  <2>1. k = Len(local[r].ids) + 1 /\ mem.ids[k] = i
    BY <1>2, <1>6
  <2>2. IsTag(View(r)[i], slug) \/ (Inserts(w, i) /\ IsTag(w[i], slug))
    BY <1>0 DEF IsTag
  <2>3. Lower(op[r].tags[k])' = slug
    BY <1>5, <2>1 DEF Lower
  <2> HIDE DEF slug
  <2>4. IsTag(View(r)'[i], slug) \/ (Inserts(stmt'[r], i) /\ IsTag(stmt'[r][i], slug))
    BY <1>5, <2>2
  <2> QED
    BY <2>1, <2>3, <2>4 DEF TagThere, IsTag, Inserts, Updates
<1>12. \A j \in Ids : Inserts(w, j) => w[j].table \notin {"problem", "problem_tag"}
  BY <1>0, NothingIssued
<1>13. Len(local[r].ids) <= Len(mem.ids) /\ local[r].n <= mem.n /\ \A k \in 1..mem.n : k <= local[r].n
  BY <1>2, <1>6
<1>14. \A j \in Ids :
         /\ Deletes(w, j) =>
              mem.n = 0 /\ op[r].tags # <<>> /\ Link(View(r)[j], ProblemOf(r))
         /\ Updates(w, j) =>
              j = ProblemOf(r) /\ "body" \in DOMAIN w[j] /\ w[j].body = op[r].body
         /\ Inserts(w, j) =>
              /\ w[j].table = "problem" => j = ProblemOf(r) /\ w[j].body = op[r].body
              /\ w[j].table = "problem_tag" =>
                   /\ w[j].problem = ProblemOf(r)
                   /\ \E k \in 1..Len(mem.ids) : w[j].tag = mem.ids[k]
  BY <1>0, <1>12
<1>15. Proceed(r, mem, w, "tags")
  BY <1>0
<1>16. pc[r] # "done" /\ stmt[r] = NoWrite
  BY <1>1
<1>17. \A k \in 1..mem.n :
         k <= local[r].n \/ \E j \in Ids : LinkThere(r, j, mem.ids[k])'
  BY <1>13
<1>18. /\ \A k \in 1..Len(local[r].ids) : mem.ids[k] = local[r].ids[k]
       /\ Len(local[r].ids) <= Len(mem.ids) /\ local[r].n <= mem.n
  BY <1>6, <1>13
<1> HIDE DEF row, slug
<1> QED
  BY <1>7, <1>8, <1>9, <1>10, <1>11, <1>14, <1>15, <1>16, <1>17, <1>18, TagGoesOn

LEMMA UnlinkTurns ==
  ASSUME WInv, Effects, Hist, Tagging, Watch, NEW r \in Requests, op[r].kind \in TagKinds,
         pc[r] = "tags", stmt[r] = NoWrite, Len(local[r].ids) = Len(op[r].tags),
         Issue(r, Delete(TagLinks(View(r), ProblemOf(r))), "unlinked")
  PROVE  TagSound(r)'
<1> DEFINE w == Delete(TagLinks(View(r), ProblemOf(r)))
           mem == local[r]
<1>1. Proceed(r, mem, w, "unlinked")
  BY DEF Issue
<1>2. /\ local'[r] = mem /\ stmt'[r] = w /\ pc'[r] = "unlinked"
      /\ op' = op /\ writes' = writes /\ db' = db /\ saved' = saved
      /\ View(r)' = View(r) /\ ProblemOf(r)' = ProblemOf(r) /\ (Fresh(r)' => Fresh(r))
  BY <1>1, Proceeded
<1>3. TagSound(r) /\ op[r].tags # <<>> /\ mem.n = 0 /\ Len(mem.ids) \in Nat
  BY DEF Tagging, TagSound, TagPlace
<1>4. \A i \in Ids : /\ Deletes(w, i) => Link(View(r)[i], ProblemOf(r))
                     /\ ~Updates(w, i) /\ ~Inserts(w, i)
  BY OnlyDeletes DEF TagLinks, RowsOf, Link
<1> HIDE DEF w
<1>5. TagPlace(r)'
  BY <1>2, <1>3 DEF TagSound, TagPlace, TagLabels
<1>6. ProblemKnown(r)'
  BY <1>2, <1>3 DEF TagSound, ProblemKnown, Writing, Own
<1>7. FreshLocks(r)'
  <2>1. Fresh(r) => writes[r][ProblemOf(r)].table = "problem"
    <3>1. Fresh(r) => ProblemOf(r) \in Ids
      BY <1>3 DEF TagSound, ProblemKnown, Writing
    <3> QED
      BY <1>3, <3>1, NothingIssued DEF TagSound, FreshLocks, Writing
  <2> QED
    BY <1>2, <2>1 DEF FreshLocks
<1>8. TagRoom(r)'
  <2>1. Taken(r)' \subseteq Taken(r) /\ Placed(r)' = Placed(r)
    BY <1>2, <1>4 DEF Taken, Touched, Inserts, Updates, Own, Placed, Writing
  <2>2. Cardinality(Taken(r)') <= Cardinality(Taken(r)) /\ Cardinality(Taken(r)') \in Nat
    BY <2>1, NoMoreTaken
  <2>3. /\ Cardinality(Taken(r)) \in Nat /\ Placed(r) \in Nat
        /\ Cardinality(Taken(r)) <= Placed(r) + Len(mem.ids) + mem.n
    BY <1>3, TakenFinite DEF TagSound, TagRoom, Placed
  <2> QED
    BY <1>2, <1>3, <2>1, <2>2, <2>3 DEF TagRoom
<1>9. w = Delete(TagLinks(View(r), ProblemOf(r)))
  BY DEF w
<1>10. /\ pc[r] # "done" /\ local[r].n <= mem.n /\ Len(local[r].ids) <= Len(mem.ids)
       /\ \A k \in 1..Len(mem.ids) : k <= Len(local[r].ids)
       /\ \A k \in 1..mem.n : k <= local[r].n
  BY <1>3
<1> QED
  BY <1>1, <1>3, <1>4, <1>5, <1>6, <1>7, <1>8, <1>9, <1>10, TagGoesOn

LEMMA LinkTurns ==
  ASSUME WInv, Effects, Hist, Tagging, Watch, NEW r \in Requests, op[r].kind \in TagKinds,
         pc[r] = "unlinked", stmt[r] = NoWrite, local[r].n # Len(local[r].ids),
         Proceed(r, [local[r] EXCEPT !.n = @ + 1],
                 Put(NewId(r), [table |-> "problem_tag", problem |-> ProblemOf(r),
                                tag |-> local[r].ids[local[r].n + 1]]),
                 "unlinked")
  PROVE  TagSound(r)'
<1> DEFINE row == [table |-> "problem_tag", problem |-> ProblemOf(r),
                   tag |-> local[r].ids[local[r].n + 1]]
<1>1. PICK mem, w : /\ mem = [local[r] EXCEPT !.n = @ + 1] /\ w = Put(NewId(r), row)
                    /\ Proceed(r, mem, w, "unlinked")
  OBVIOUS
<1>2. /\ local'[r] = mem /\ stmt'[r] = w /\ pc'[r] = "unlinked"
      /\ op' = op /\ writes' = writes /\ db' = db /\ saved' = saved
      /\ View(r)' = View(r) /\ ProblemOf(r)' = ProblemOf(r) /\ (Fresh(r)' => Fresh(r))
  BY <1>1, Proceeded
<1>3. /\ TagSound(r) /\ DOMAIN local[r] = DOMAIN NoLocals
      /\ local[r].ids \in Seq(Ids) /\ Len(local[r].ids) \in Nat /\ local[r].n \in Nat
      /\ local[r].n < Len(local[r].ids) /\ Len(local[r].ids) = Len(op[r].tags)
      /\ op[r].tags # <<>>
  BY DEF Tagging, TagSound, TagPlace
<1>4. /\ DOMAIN mem = DOMAIN NoLocals /\ mem.ids = local[r].ids /\ mem.n = local[r].n + 1
      /\ mem.n \in Nat /\ mem.n \in 0..Len(mem.ids)
  BY <1>1, <1>3 DEF NoLocals
<1>5. /\ Cardinality(Taken(r)) \in Nat /\ Placed(r) \in Nat /\ Placed(r) <= 1
      /\ Cardinality(Taken(r)) <= Placed(r) + Len(local[r].ids) + local[r].n
  <2>1. Cardinality(Taken(r)) \in Nat /\ Placed(r) \in Nat /\ Placed(r) <= 1
    BY TakenFinite DEF Placed
  <2> QED
    BY <1>3, <2>1 DEF TagSound, TagRoom
<1>6. NewId(r) \in Own(r) /\ NewId(r) \in Ids
  <2>1. 1 + 2 * Len(local[r].ids) <= MaxNew
    BY <1>3, TagsSequence
  <2> QED
    BY SMTT(30), <1>3, <1>5, <2>1, RoomLeft, MaxNewAssumption
<1>7. /\ \A j \in Ids : ~Deletes(w, j) /\ ~Updates(w, j)
      /\ \A j \in Ids : Inserts(w, j) <=> j = NewId(r)
      /\ w[NewId(r)] = row
  <2>1. row # Untouched /\ row # NoRow /\ "table" \in DOMAIN row
    BY DEF Untouched, NoRow
  <2> HIDE DEF row
  <2> QED
    BY <1>1, <1>6, <2>1, PutRow
<1>8. TagPlace(r)'
  BY <1>2, <1>3, <1>4 DEF TagPlace, TagLabels
<1>9. ProblemKnown(r)'
  BY <1>2, <1>3 DEF TagSound, ProblemKnown, Writing, Own
<1>10. FreshLocks(r)'
  <2>1. Fresh(r) => writes[r][ProblemOf(r)].table = "problem"
    <3>1. Fresh(r) => ProblemOf(r) \in Ids
      BY <1>3 DEF TagSound, ProblemKnown, Writing
    <3> QED
      BY <1>3, <3>1, NothingIssued DEF TagSound, FreshLocks, Writing
  <2> QED
    BY <1>2, <2>1 DEF FreshLocks
<1>11. TagRoom(r)'
  <2>1. Placed(r)' = Placed(r)
    BY <1>2 DEF Placed, Writing
  <2>2. Cardinality(Taken(r)') <= Cardinality(Taken(r)) + 1
    BY <1>1, <1>2, OneMoreTaken
  <2>3. Cardinality(Taken(r)') \in Nat
    <3>1. Taken(r)' \in SUBSET Own(r)
      BY DEF Taken, Own
    <3> QED
      BY <3>1, OwnFinite, FS_Subset, FS_CardinalityType
  <2> DEFINE c == Cardinality(Taken(r))  d == Cardinality(Taken(r)')  p == Placed(r)
             len == Len(local[r].ids)  n == local[r].n
  <2>4. d \in Nat /\ c \in Nat /\ p \in Nat /\ len \in Nat /\ n \in Nat
        /\ d <= c + 1 /\ c <= p + len + n
    BY <1>3, <1>5, <2>2, <2>3
  <2> HIDE DEF c, d, p, len, n
  <2>5. d <= p + len + (n + 1)
    BY <2>4
  <2>6. Cardinality(Taken(r)') <= Placed(r) + Len(mem.ids) + mem.n
    BY <1>4, <2>5 DEF d, p, len, n
  <2> QED
    BY <1>2, <2>1, <2>6 DEF TagRoom
<1>12. \A k \in 1..mem.n :
         k <= local[r].n \/ \E j \in Ids : LinkThere(r, j, mem.ids[k])'
  <2> SUFFICES ASSUME NEW k \in 1..mem.n, ~(k <= local[r].n)
               PROVE  LinkThere(r, NewId(r), mem.ids[k])'
    BY <1>2, <1>6 DEF NewId
  <2>1. k = local[r].n + 1
    BY <1>3, <1>4
  <2>2. NewId(r)' = NewId(r)
    BY <1>2 DEF NewId, Touched, Own
  <2>3. IsLink(w[NewId(r)], ProblemOf(r), mem.ids[k])
    BY <1>4, <1>7, <2>1 DEF IsLink, Link
  <2> QED
    BY <1>2, <1>6, <1>7, <2>2, <2>3 DEF LinkThere, IsLink, Link, Inserts, Updates, Own
<1>13. \A j \in Ids : Inserts(w, j) =>
         /\ w[j].table = "problem_tag" /\ w[j].problem = ProblemOf(r)
         /\ \E k \in 1..Len(mem.ids) : w[j].tag = mem.ids[k]
  <2>1. local[r].n + 1 \in 1..Len(mem.ids)
    BY <1>3, <1>4
  <2> QED
    BY <1>4, <1>7, <2>1
<1>14. \A j \in Ids :
         /\ Deletes(w, j) =>
              mem.n = 0 /\ op[r].tags # <<>> /\ Link(View(r)[j], ProblemOf(r))
         /\ Updates(w, j) =>
              j = ProblemOf(r) /\ "body" \in DOMAIN w[j] /\ w[j].body = op[r].body
         /\ Inserts(w, j) =>
              /\ w[j].table = "problem" => j = ProblemOf(r) /\ w[j].body = op[r].body
              /\ w[j].table = "problem_tag" =>
                   /\ w[j].problem = ProblemOf(r)
                   /\ \E k \in 1..Len(mem.ids) : w[j].tag = mem.ids[k]
  BY <1>7, <1>13
<1>15. /\ \A k \in 1..Len(local[r].ids) : mem.ids[k] = local[r].ids[k]
       /\ Len(local[r].ids) <= Len(mem.ids) /\ local[r].n <= mem.n
       /\ \A k \in 1..Len(mem.ids) :
            k <= Len(local[r].ids) \/ TagThere(r, mem.ids[k], Lower(op[r].tags[k]))'
  BY <1>3, <1>4
<1>16. Proceed(r, mem, w, "unlinked") /\ pc[r] # "done"
  BY <1>1
<1> HIDE DEF row
<1> QED
  BY <1>8, <1>9, <1>10, <1>11, <1>12, <1>14, <1>15, <1>16, TagGoesOn

LEMMA OwnTags ==
  ASSUME WInv, Effects, Hist, Tagging, Bodies, NEW r \in Requests, Acts(r), WebStep(r), Watch,
         op[r].kind \in TagKinds
  PROVE  TagSound(r)'
<1> USE DEF WInv, IInv
<1>1. /\ pc[r] \in TagLabels /\ local[r].n \in Nat /\ DOMAIN local[r] = DOMAIN NoLocals
      /\ pc = [q \in Requests |-> pc[q]]
  BY DEF Tagging, TagSound, TagPlace, Shape
<1>2. CASE \E status : Refuse(r, status) /\ pc[r] # "done"
  <2>1. pc'[r] = "done" /\ WebStep(r)
    BY <1>1, <1>2 DEF Refuse
  <2>2. ~Executed(r)
    BY <1>1, <1>2 DEF Refuse, Executed
  <2>3. RollsBack(r) \/ Commits(r)
    BY <1>1, <2>1, <2>2 DEF WebStep, Handled, Continues, Reply
  <2> QED
    BY <2>1, <2>3, TagEnds
<1>3. CASE Commit(r)
  BY <1>1, <1>3, CommitShape, TagEnds DEF Commit, Finish
<1>4. CASE Respond(r)
  BY <1>4, TagResponds
<1>5. CASE Authenticate(r)
  <2>1. stmt[r] = NoWrite /\ pc[r] = "start"
    BY <1>5 DEF Authenticate, Order
  <2> QED
    BY <1>2, <1>5, <2>1, TagMoves DEF Authenticate
<1>6. CASE Refresh(r) \/ Serialize(r)
  BY <1>1, <1>6 DEF Refresh, Serialize, TagLabels
<1>7. CASE DeadlockVictim(r) \/ ConnectionLost(r)
  <2>1. \E status : Refuse(r, status)
    BY <1>1, <1>7 DEF DeadlockVictim, FlushFails, Caught, ConnectionLost, TagLabels
  <2>2. pc[r] # "done"
    BY <1>7 DEF DeadlockVictim, Deadlocked, Waiting, ConnectionLost, Order
  <2> QED
    BY <1>2, <2>1, <2>2
<1>8. CASE Execute(r)
  <2>1. stmt[r] # NoWrite /\ pc[r] # "done"
    BY <1>8 DEF Execute, Order
  <2>2. CASE Stale(r) \/ Duplicate(r) \/ Orphan(r)
    <3>1. Refuse(r, "500")
      BY <1>1, <1>8, <2>2 DEF Execute, FlushFails, Caught, TagLabels
    <3> QED
      BY <1>2, <2>1, <3>1
  <2>3. CASE ~(Stale(r) \/ Duplicate(r) \/ Orphan(r))
    <3>1. Executed(r)
      BY <1>8, <2>3 DEF Execute, Executed
    <3> QED
      BY <2>1, <3>1, ExecutedTags
  <2> QED
    BY <2>2, <2>3
<1>9. CASE GetOrCreateTag(r)
  BY <1>9, TagTurns
<1>10. CASE ReplaceTags(r)
  <2>1. pc[r] \in {"tags", "unlinked"} /\ stmt[r] = NoWrite
    BY <1>10 DEF ReplaceTags
  <2>2. CASE pc[r] = "tags"
    BY <1>10, <2>1, <2>2, UnlinkTurns DEF ReplaceTags
  <2>3. CASE pc[r] = "unlinked" /\ local[r].n = Len(local[r].ids)
    BY <1>10, <2>1, <2>3, TagMoves DEF ReplaceTags
  <2>4. CASE pc[r] = "unlinked" /\ local[r].n # Len(local[r].ids)
    BY <1>10, <2>1, <2>4, LinkTurns DEF ReplaceTags
  <2> QED
    BY <2>1, <2>2, <2>3, <2>4
<1>11. CASE op[r].kind = "create_problem" /\ CreateProblem(r)
  BY <1>11, CreateTags
<1>12. CASE op[r].kind = "update_problem" /\ UpdateProblem(r)
  <2>1. stmt[r] = NoWrite /\ pc[r] \in {"handler", "updated"}
    BY <1>12 DEF UpdateProblem, At
  <2>2. CASE \E status : Refuse(r, status)
    BY <1>2, <2>1, <2>2
  <2>3. CASE pc[r] = "handler" /\ ~(\E status : Refuse(r, status))
    BY <1>12, <2>3, UpdateTags DEF UpdateProblem, At
  <2>4. CASE pc[r] = "updated" /\ ~(\E status : Refuse(r, status))
    <3>1. Go(r, TagsOrReply(r))
      BY <1>12, <2>4 DEF UpdateProblem, At
    <3> QED
      BY <2>1, <2>4, <3>1, TagMoves DEF TagsOrReply
  <2> QED
    BY <2>1, <2>2, <2>3, <2>4
<1> QED
  BY <1>3, <1>4, <1>5, <1>6, <1>7, <1>8, <1>9, <1>10, <1>11, <1>12, ActsOfKind
  DEF Common, Followed, TagKinds

LEMMA BodiesOf ==
  ASSUME WInv, Effects, Tagging, Bodies, NEW o \in Requests, WebStep(o)
  PROVE  Bodies'
<1> USE DEF WInv, IInv
<1> SUFFICES ASSUME NEW p \in Ids, db'[p].table = "problem"
             PROVE  \/ p \in DOMAIN Seed /\ db'[p].body = Seed[p].body
                    \/ \E a \in Editors(p)' : db'[p].body = op'[a].body
  BY DEF Bodies
<1>1. op' = op /\ saved \subseteq saved' /\ Editors(p) \subseteq Editors(p)'
  BY OnlyCommits DEF Commits, Editors, ProblemOf
<1>2. CASE db'[p] = db[p]
  BY <1>1, <1>2 DEF Bodies
<1>3. CASE db'[p] # db[p]
  <2>1. Commits(o) /\ Exists(db'[p])
    BY <1>3, OnlyCommits DEF Exists, Tables
  <2>2. db'[p] = writes[o][p] /\ "problem" \in Sets(op[o].kind) \cup Adds(op[o].kind)
    BY <1>3, <2>1, CommitEffect DEF Appears
  <2>3. op[o].kind \in TagKinds
    BY <2>2 DEF Sets, Adds, TagKinds
  <2>4. p = ProblemOf(o) /\ db'[p].body = op[o].body
    BY <2>2, <2>3 DEF Tagging, TagSound, BodyWritten
  <2>5. o \in Editors(p)'
    BY <1>1, <2>1, <2>3, <2>4 DEF Editors, ProblemOf, Commits
  <2> QED
    BY <1>1, <2>4, <2>5
<1> QED
  BY <1>2, <1>3

LEMMA TaggingInvariance == Spec => [](Tagging /\ Bodies)
<1>1. Init => Tagging /\ Bodies
  <2> SUFFICES ASSUME Init PROVE Tagging /\ Bodies
    OBVIOUS
  <2>1. Bodies
    BY DEF Init, SessionInit, Bodies, NoRow
  <2>2. ASSUME NEW r \in Requests, op[r].kind \in TagKinds PROVE TagSound(r)
    <3>1. /\ pc[r] = "start" /\ local[r] = NoLocals /\ writes[r] = NoWrite /\ stmt[r] = NoWrite
          /\ saved = {} /\ db = [i \in Ids |-> IF i \in DOMAIN Seed THEN Seed[i] ELSE NoRow]
      BY DEF Init, SessionInit
    <3>2. \A i \in Ids : /\ ~Inserts(NoWrite, i) /\ ~Updates(NoWrite, i)
                         /\ ~Deletes(NoWrite, i) /\ NoWrite[i] = Untouched
      BY NothingIssued, NothingTouched
    <3>3. op[r] \in Ops
      BY DEF Init, Ops
    <3>4. Len(op[r].tags) \in Nat
      <4>1. SeqOfItsOwn(op[r].tags)
        BY <2>2, <3>3, RoomAssumption
      <4> QED
        BY <4>1 DEF SeqOfItsOwn
    <3>5. TagPlace(r)
      BY <3>1, <3>4 DEF TagPlace, TagLabels, NoLocals
    <3>6. ProblemKnown(r) /\ FreshLocks(r) /\ Unlinked(r)
      BY <3>1 DEF ProblemKnown, FreshLocks, Unlinked, Writing
    <3>7. BodyWritten(r) /\ LinksFit(r) /\ OnlyUnlinks(r)
      BY <3>1, <3>2, Absent DEF BodyWritten, LinksFit, OfItsTags, OnlyUnlinks, Untouched
    <3>8. TagsFound(r) /\ LinksMade(r)
      BY <3>1 DEF TagsFound, LinksMade, NoLocals
    <3>9. TagRoom(r)
      <4>1. Taken(r) = {}
        BY <3>1, <3>2 DEF Taken, Touched
      <4>2. Cardinality(Taken(r)) = 0 /\ Placed(r) \in Nat
        BY <4>1, FS_EmptySet DEF Placed
      <4> QED
        BY <3>1, <4>2 DEF TagRoom, NoLocals
    <3> QED
      BY <3>5, <3>6, <3>7, <3>8, <3>9 DEF TagSound
  <2> QED
    BY <2>1, <2>2 DEF Tagging
<1>2. WInv /\ Effects /\ Hist /\ Tagging /\ Bodies /\ [Next]_vars => Tagging' /\ Bodies'
  <2> SUFFICES ASSUME WInv, Effects, Hist, Tagging, Bodies, [Next]_vars
               PROVE  Tagging' /\ Bodies'
    OBVIOUS
  <2>1. CASE Next
    <3>1. PICK o \in Requests : Acts(o) /\ WebStep(o) /\ Watch
      BY <2>1, NextIsWebStep
    <3>2. op' = op
      BY <3>1, OnlyCommits
    <3>3. ASSUME NEW r \in Requests, op[r].kind \in TagKinds PROVE TagSound(r)'
      BY <3>1, <3>3, OtherTags, OwnTags
    <3>4. Bodies'
      BY <3>1, BodiesOf
    <3> QED
      BY <3>2, <3>3, <3>4 DEF Tagging
  <2>2. CASE UNCHANGED vars
    <3>1. /\ op' = op /\ pc' = pc /\ local' = local /\ db' = db /\ writes' = writes
          /\ stmt' = stmt /\ saved' = saved /\ met' = met
      BY <2>2 DEF vars
    <3>2. Bodies'
      BY <3>1 DEF Bodies, Editors, ProblemOf
    <3>3. ASSUME NEW r \in Requests, TagSound(r) PROVE TagSound(r)'
      <4>1. TagPlace(r)' /\ ProblemKnown(r)' /\ BodyWritten(r)' /\ LinksFit(r)' /\ OnlyUnlinks(r)'
        BY <3>1, <3>3 DEF TagSound, TagPlace, ProblemKnown, BodyWritten, LinksFit, OfItsTags,
           OnlyUnlinks, Writing, ProblemOf, Own, Inserts, Updates, Deletes, Exists, Link
      <4>2. View(r)' = View(r) /\ Fresh(r)' = Fresh(r) /\ Contested(r)' = Contested(r)
            /\ ProblemOf(r)' = ProblemOf(r)
        BY <3>1 DEF View, Fresh, Differ, Contested, Taggers, Editors, ProblemOf
      <4>3. FreshLocks(r)' /\ Unlinked(r)'
        BY <3>1, <3>3, <4>2 DEF TagSound, FreshLocks, Unlinked, Writing, Inserts, Updates, Deletes,
           Link, Own
      <4>4. TagsFound(r)' /\ LinksMade(r)'
        <5>1. TagsFound(r)'
          BY <3>1, <3>3, <4>2 DEF TagSound, TagsFound, TagThere, IsTag, Lower, Inserts, Updates
        <5>2. \A i, t : LinkThere(r, i, t)' <=> LinkThere(r, i, t)
          BY <3>1, <4>2 DEF LinkThere, IsLink, Link, Inserts, Updates, Own
        <5>3. LinksMade(r)'
          BY <3>1, <3>3, <5>2 DEF TagSound, LinksMade, Deletes
        <5> QED
          BY <5>1, <5>3
      <4>5. TagRoom(r)'
        BY <3>1, <3>3 DEF TagSound, TagRoom, Taken, Placed, Writing, Touched, Inserts, Updates, Own
      <4> QED
        BY <4>1, <4>3, <4>4, <4>5 DEF TagSound
    <3>4. Tagging'
      BY <3>1, <3>3 DEF Tagging
    <3> QED
      BY <3>2, <3>4
  <2> QED
    BY <2>1, <2>2
<1> QED
  BY <1>1, <1>2, SessionsKeepTables, EffectsInvariance, HistInvariance, PTL DEF Spec

-----------------------------------------------------------------------------
(* A request that deletes a problem deletes the links of that problem only.*)
UnlinksGone(r) ==
  \A i \in Ids :
    (Deletes(stmt[r], i) \/ writes[r][i] = NoRow) /\ db[i].table = "problem_tag" =>
      writes[r][db[i].problem] = NoRow
Unlinking == \A r \in Requests : op[r].kind = "delete_problem" => UnlinksGone(r)

LEMMA LinkParents ==
  ASSUME NEW row, row.table = "problem_tag"
  PROVE  /\ Exists(row) /\ Parents(row) = {<<"problem", row.problem>>, <<"tag", row.tag>>}
<1>1. row.table \in DOMAIN Tables
  BY DEF Tables
<1>2. Tables[row.table].foreign = [problem |-> "problem", tag |-> "tag"]
  BY DEF Tables, TagTables
<1> QED
  BY <1>1, <1>2 DEF Exists, Parents

LEMMA DeletesOnly ==
  ASSUME WInv, Effects, NEW r \in Requests, op[r].kind = "delete_problem", NEW i \in Ids
  PROVE  /\ ~Inserts(stmt[r], i)
         /\ ~Exists(writes[r][i]) /\ (Exists(View(r)[i]) => View(r)[i] = db[i])
<1> USE DEF WInv, IInv
<1>1. Sets(op[r].kind) = {} /\ Adds(op[r].kind) = {}
  BY DEF Sets, Adds
<1>2. Effect(r, i) /\ FitsIn(r, stmt[r])
  BY DEF Effects, Typing
<1>3. ~Exists(writes[r][i])
  BY <1>1, <1>2 DEF Effect
<1> QED
  BY <1>1, <1>2, <1>3, ViewAt DEF FitsIn

LEMMA OtherUnlinks ==
  ASSUME WInv, Effects, Unlinking, NEW o \in Requests, WebStep(o),
         NEW r \in Requests, r # o, op[r].kind = "delete_problem"
  PROVE  UnlinksGone(r)'
<1> USE DEF WInv, IInv
<1>1. stmt'[r] = stmt[r] /\ writes'[r] = writes[r] /\ UnlinksGone(r)
  BY OnlyCommits DEF Unlinking
<1> SUFFICES ASSUME NEW i \in Ids, Deletes(stmt[r], i) \/ writes[r][i] = NoRow,
                    db'[i].table = "problem_tag"
             PROVE  db'[i] = db[i]
  BY <1>1 DEF UnlinksGone, Deletes
<1>2. CASE db' = db
  BY <1>2
<1>3. CASE Commits(o)
  <2>1. Exists(db'[i]) /\ "problem_tag" \notin Mutable
    BY LinkParents DEF Mutable
  <2>2. CASE Exists(db[i])
    BY <1>3, <2>1, <2>2, CommitEffect
  <2>3. CASE ~Exists(db[i])
    <3>1. i \in Own(o) /\ Exists(writes[o][i]) /\ o \notin saved
      BY <1>3, <2>1, <2>3, CommitEffect DEF Appears, Commits, Order
    <3>2. ~Deletes(stmt[r], i)
      BY <3>1 DEF Typing, FitsIn, KnownAs
    <3>3. i \in Touched(writes[o]) /\ i \in Touched(writes[r])
      BY <3>1, <3>2, Absent DEF Touched
    <3> QED
      BY <3>3 DEF KeysOnce, Apart
  <2> QED
    BY <2>2, <2>3
<1> QED
  BY <1>2, <1>3, OnlyCommits

LEMMA ExecutedUnlinks ==
  ASSUME WInv, Effects, Unlinking, NEW r \in Requests, op[r].kind = "delete_problem",
         stmt[r] # NoWrite, Executed(r)
  PROVE  UnlinksGone(r)'
<1> USE DEF WInv, IInv
<1>1. UnlinksGone(r) /\ db' = db /\ stmt'[r] = Cascade(r)
  BY DEF Unlinking, Executed, Shape
<1>2. ASSUME NEW p \in Ids, writes[r][p] = NoRow PROVE writes'[r][p] = NoRow
  <2>1. ~Exists(View(r)[p])
    BY <1>2, ViewAt, Absent DEF Touched
  <2>2. p \notin Touched(Result(r))
    BY <2>1, ExecutedRow, DeletesOnly
  <2> QED
    BY <1>2, <2>2, ExecutedRow
<1>3. ASSUME NEW i \in Ids, db[i].table = "problem_tag", writes'[r][i] = NoRow
      PROVE  writes'[r][db[i].problem] = NoRow
  <2>1. Deletes(stmt[r], i) \/ writes[r][i] = NoRow
    BY <1>3, ExecutedRow, DeletesOnly, Absent
  <2>2. writes[r][db[i].problem] = NoRow
    BY <1>1, <1>3, <2>1 DEF UnlinksGone
  <2>3. db[i].problem \in Ids
    <3>1. Holds(db, <<"problem", db[i].problem>>)
      BY <1>3, LinkParents, Domains DEF ParentsThere, Anchored
    <3> QED
      BY <3>1, Domains DEF Holds, RowsOf
  <2> QED
    BY <1>2, <2>2, <2>3
<1>4. ASSUME NEW i \in Ids, db[i].table = "problem_tag", Deletes(stmt'[r], i)
      PROVE  writes'[r][db[i].problem] = NoRow
  <2>1. PICK p \in Parents(View(r)[i]) :
          p[2] \in Ids /\ Removed(r, p[2]) /\ p[1] \in Removes(op[r].kind)
    BY <1>1, <1>4, CascadeRefers DEF Deletes
  <2>2. View(r)[i] = db[i]
    BY <2>1, DeletesOnly DEF Parents
  <2>3. p = <<"problem", db[i].problem>>
    BY <1>4, <2>1, <2>2, LinkParents, TagKindsOnly
  <2>4. p[2] \in Touched(Result(r)) /\ Result(r)[p[2]] = NoRow
    BY <2>1, Absent DEF Removed, Touched
  <2> QED
    BY <2>1, <2>3, <2>4, ExecutedRow
<1> QED
  BY <1>1, <1>3, <1>4 DEF UnlinksGone

LEMMA OwnUnlinks ==
  ASSUME WInv, Effects, Unlinking, NEW r \in Requests, op[r].kind = "delete_problem",
         Acts(r), WebStep(r)
  PROVE  UnlinksGone(r)'
<1> USE DEF WInv, IInv, Shape
<1>1. UnlinksGone(r)
  BY DEF Unlinking
<1>2. CASE RollsBack(r) \/ Commits(r)
  <2>1. writes'[r] = NoWrite /\ stmt'[r] = NoWrite
    BY <1>2 DEF RollsBack, Commits, Order
  <2> QED
    BY <2>1, NothingIssued, NothingTouched, Absent DEF UnlinksGone
<1>3. CASE stmt[r] # NoWrite /\ Executed(r)
  BY <1>3, ExecutedUnlinks
<1>4. CASE Reply(r)
  BY <1>1, <1>4 DEF Reply, UnlinksGone, Deletes
<1>5. CASE \E label : Go(r, label)
  <2>1. stmt'[r] = NoWrite /\ writes' = writes /\ db' = db
    BY <1>5 DEF Go, Proceed
  <2> QED
    BY <1>1, <2>1, NothingIssued DEF UnlinksGone
<1>6. CASE At(r, "delete_problem", "handler") /\ Exists(Row(r, "problem", op[r].id))
           /\ Issue(r, Delete({op[r].id}), "reply")
  <2>1. /\ stmt'[r] = Delete({op[r].id}) /\ writes' = writes /\ db' = db
    BY <1>6 DEF Issue, Proceed
  <2>2. View(r)[op[r].id].table = "problem" /\ op[r].id \in Ids
    BY <1>6, FoundKnown DEF Tables
  <2>3. db[op[r].id].table = "problem"
    BY <2>2, DeletesOnly DEF Exists, Tables
  <2>4. \A i \in Ids : Deletes(stmt'[r], i) => i = op[r].id
    BY <2>1, OnlyDeletes
  <2> QED
    BY <1>1, <2>1, <2>3, <2>4 DEF UnlinksGone
<1>7. pc[r] \notin {"tags", "unlinked"}
  BY DEF Typing, Labelled, TagKinds
<1>8. CASE Authenticate(r) \/ Serialize(r) \/ Refresh(r) \/ DeleteProblem(r)
  <2>1. \/ \E label : Go(r, label)
        \/ \E status : Refuse(r, status)
        \/ At(r, "delete_problem", "handler") /\ Exists(Row(r, "problem", op[r].id))
           /\ Issue(r, Delete({op[r].id}), "reply")
    BY <1>8 DEF Authenticate, Serialize, Refresh, DeleteProblem
  <2>2. (\E status : Refuse(r, status)) => writes'[r] = NoWrite /\ stmt'[r] = NoWrite
    BY DEF Refuse
  <2>3. writes'[r] = NoWrite /\ stmt'[r] = NoWrite => UnlinksGone(r)'
    BY NothingIssued, NothingTouched, Absent DEF UnlinksGone
  <2> QED
    BY <1>5, <1>6, <2>1, <2>2, <2>3
<1>9. CASE Execute(r) \/ Commit(r) \/ DeadlockVictim(r) \/ ConnectionLost(r)
  BY <1>2, <1>3, <1>9, ExecuteShape, CommitShape, VictimRollsBack, LostRollsBack
<1>10. CASE Respond(r)
  BY <1>4, <1>10 DEF Respond
<1> QED
  BY <1>7, <1>8, <1>9, <1>10, ActsOfKind
  DEF Common, Followed, GetOrCreateTag, ReplaceTags

-----------------------------------------------------------------------------
(* The tags of a problem are the first ones, or those of a request that    *)
(* set them, or two of those met and not all of them changed the problem.  *)
Met(p) == \E a, b \in Taggers(p) : a # b /\ b \in met[a]
WholeOf(p) ==
  \/ Taggers(p) = {} /\ TagsOf(db, p) = TagsOf(Seed, p)
  \/ \E a \in Taggers(p) : TagsOf(db, p) = LowerTags(a)
  \/ ~Rewritten(p) /\ Met(p)
Whole == \A p \in Rows("problem") : WholeOf(p)

LEMMA SlugThere ==
  ASSUME NEW d, Anchored(d), NEW i \in DOMAIN d, d[i].table = "problem_tag"
  PROVE  /\ d[i].tag \in DOMAIN d /\ d[d[i].tag].table = "tag"
         /\ d[i].problem \in DOMAIN d /\ d[d[i].problem].table = "problem"
<1>1. Holds(d, <<"problem", d[i].problem>>) /\ Holds(d, <<"tag", d[i].tag>>)
  BY LinkParents DEF Anchored
<1> QED
  BY <1>1 DEF Holds, RowsOf

(* Rows that are there and refer to the problem, and their tags, are as    *)
(* they were after a request that has not set its tags is saved.           *)
LEMMA TagsStay ==
  ASSUME WInv, Effects, Tagging, Unlinking, NEW o \in Requests, Commits(o), NEW p \in Ids,
         db'[p].table = "problem",
         ~(op[o].kind \in TagKinds /\ ProblemOf(o) = p /\ op[o].tags # <<>>)
  PROVE  TagLinks(db', p) = TagLinks(db, p) /\ TagsOf(db', p) = TagsOf(db, p)
<1> USE DEF WInv, IInv
<1>1. DOMAIN db = Ids /\ DOMAIN db' = Ids /\ WebStep(o)
  BY Domains, CommitsAt DEF WebStep
<1>2. ASSUME NEW i \in Ids, Link(db[i], p) PROVE db'[i] = db[i]
  <2>1. Exists(db[i]) /\ db[i].table \notin Mutable
    BY <1>2, LinkParents DEF Link, Mutable
  <2>2. CASE Exists(db'[i])
    BY <2>1, <2>2, CommitEffect
  <2>3. CASE ~Exists(db'[i])
    <3>1. "problem_tag" \in Removes(op[o].kind) /\ writes[o][i] = NoRow
      BY <1>2, <2>1, <2>3, CommitEffect DEF Vanishes, Link
    <3>2. CASE op[o].kind \in TagKinds
      BY <1>2, <2>1, <3>1, <3>2 DEF Tagging, TagSound, OnlyUnlinks, Link
    <3>3. CASE op[o].kind = "delete_problem"
      <4>1. writes[o][p] = NoRow
        BY <1>2, <3>1, <3>3 DEF Unlinking, UnlinksGone, Link
      <4>2. db'[p] = NoRow
        BY <4>1, CommitsAt, ViewAt, Absent DEF Touched
      <4> QED
        BY <4>2 DEF NoRow
    <3>4. op[o].kind \in TagKinds \cup {"delete_problem"}
      BY <3>1 DEF Removes, TagKinds
    <3> QED
      BY <3>2, <3>3, <3>4
  <2> QED
    BY <2>2, <2>3
<1>3. ASSUME NEW i \in Ids, Link(db'[i], p) PROVE db'[i] = db[i]
  <2>1. Exists(db'[i]) /\ "problem_tag" \notin Mutable
    BY <1>3, LinkParents DEF Link, Mutable
  <2>2. CASE Exists(db[i])
    BY <1>3, <2>1, <2>2, CommitEffect DEF Link
  <2>3. CASE ~Exists(db[i])
    BY <1>3, <2>1, <2>3, LinkCommitted DEF Appears, Link
  <2> QED
    BY <2>2, <2>3
<1>4. TagLinks(db', p) = TagLinks(db, p)
      /\ \A i \in TagLinks(db, p) : i \in Ids /\ Link(db[i], p) /\ db'[i] = db[i]
  BY <1>1, <1>2, <1>3 DEF TagLinks, RowsOf, Link
<1>5. ASSUME NEW i \in TagLinks(db, p) PROVE db'[db'[i].tag] = db[db[i].tag]
  <2>1. db[i].tag \in RowsOf(db, "tag")
    BY <1>1, <1>4, SlugThere DEF ParentsThere, Link, RowsOf
  <2>2. db'[db[i].tag] = db[db[i].tag]
    BY <1>1, <2>1, NoneVanishes, TagKindsOnly
  <2> QED
    BY <1>4, <2>2
<1> QED
  BY <1>4, <1>5 DEF TagsOf

(* What a request that sets tags leaves is its tags, unless it met another *)
(* one that did and its body is not a fresh one.                           *)
LEMMA TagsSet ==
  ASSUME WInv, Effects, Tagging, NEW o \in Requests, Commits(o), op[o].kind \in TagKinds,
         op[o].tags # <<>>, Contested(o) => Fresh(o)
  PROVE  TagsOf(db', ProblemOf(o)) = LowerTags(o)
<1> USE DEF WInv, IInv
<1> DEFINE p == ProblemOf(o)
<1>1. /\ DOMAIN db' = Ids /\ db' = View(o) /\ pc[o] = "answered" /\ stmt[o] = NoWrite
      /\ o \notin saved /\ TagSound(o)
  BY CommitsAt DEF Commits, Order, Tagging
<1>2. /\ local[o].n = Len(op[o].tags) /\ Len(local[o].ids) = Len(op[o].tags)
      /\ DOMAIN op[o].tags = 1..Len(op[o].tags) /\ local[o].ids \in Seq(Ids)
  BY <1>1, TagsSequence DEF TagSound, TagPlace
<1>3. ASSUME NEW k \in DOMAIN op[o].tags
      PROVE  local[o].ids[k] \in Ids /\ db'[local[o].ids[k]].slug = Lower(op[o].tags[k])
  BY <1>1, <1>2, <1>3, NothingIssued DEF TagSound, TagsFound, TagThere, IsTag
<1>4. ASSUME NEW i \in TagLinks(db', p)
      PROVE  \E k \in DOMAIN op[o].tags : db'[i].tag = local[o].ids[k]
  <2>1. i \in Ids /\ Link(View(o)[i], p)
    BY <1>1 DEF TagLinks, RowsOf, Link
  <2>2. i \in Own(o)
    BY <1>1, <2>1, NothingIssued DEF TagSound, Unlinked
  <2>3. ~Exists(db[i]) /\ Exists(View(o)[i])
    BY <1>1, <2>1, <2>2, LinkParents DEF Identity, Link
  <2>4. View(o)[i] = writes[o][i]
    BY <2>1, <2>3, ViewAt
  <2> QED
    BY <1>1, <1>2, <2>1, <2>4 DEF TagSound, LinksFit, OfItsTags, Link
<1>5. ASSUME NEW k \in DOMAIN op[o].tags
      PROVE  \E i \in TagLinks(db', p) : db'[i].tag = local[o].ids[k]
  <2>1. PICK i \in Ids : LinkThere(o, i, local[o].ids[k])
    BY <1>1, <1>2 DEF TagSound, LinksMade
  <2>2. IsLink(View(o)[i], p, local[o].ids[k])
    BY <1>1, <2>1, NothingIssued DEF LinkThere
  <2> QED
    BY <1>1, <2>1, <2>2 DEF IsLink, Link, TagLinks, RowsOf
<1>6. ASSUME NEW s \in TagsOf(db', p) PROVE s \in LowerTags(o)
  <2>1. PICK i \in TagLinks(db', p) : s = db'[db'[i].tag].slug
    BY <1>6 DEF TagsOf
  <2> QED
    BY <1>3, <1>4, <2>1 DEF LowerTags
<1>7. ASSUME NEW s \in LowerTags(o) PROVE s \in TagsOf(db', p)
  <2>1. PICK k \in DOMAIN op[o].tags : s = Lower(op[o].tags[k])
    BY <1>7 DEF LowerTags
  <2> QED
    BY <1>3, <1>5, <2>1 DEF TagsOf
<1> QED
  BY <1>6, <1>7

LEMMA NewProblem ==
  ASSUME WInv, Effects, Hist, Tagging, Unlinking, NEW o \in Requests, Commits(o), NEW p \in Ids,
         db'[p].table = "problem", db[p].table # "problem",
         ~(op[o].kind \in TagKinds /\ ProblemOf(o) = p /\ op[o].tags # <<>>)
  PROVE  Taggers(p) = {} /\ TagsOf(db', p) = TagsOf(Seed, p)
<1> USE DEF WInv, IInv
<1>1. Exists(db'[p])
  BY DeletedTables DEF Exists
<1>2. ~Exists(db[p])
  BY <1>1, CommitEffect
<1>3. p \in Own(o) /\ o \notin saved
  BY <1>1, <1>2, CommitEffect DEF Appears, Commits, Order
<1>4. Taggers(p) = {}
  <2> SUFFICES ASSUME NEW a \in Taggers(p) PROVE FALSE
    OBVIOUS
  <2>1. a \in saved /\ op[a].kind \in TagKinds /\ ProblemOf(a) = p
    BY DEF Taggers, Editors
  <2>2. TagSound(a) /\ a \in Requests
    BY <2>1 DEF Tagging, Hist, Books
  <2> QED
    BY <1>3, <2>1, <2>2 DEF TagSound, ProblemKnown
<1>5. TagLinks(db, p) = {}
  <2>1. ASSUME NEW i \in TagLinks(db, p) PROVE FALSE
    <3>1. i \in DOMAIN db /\ db[i].table = "problem_tag" /\ db[i].problem = p
      BY DEF TagLinks, RowsOf
    <3> QED
      BY <3>1, SlugThere DEF ParentsThere
  <2> QED
    BY <2>1
<1>6. TagLinks(Seed, p) = {}
  <2>1. ASSUME NEW i \in TagLinks(Seed, p) PROVE FALSE
    <3>1. i \in DOMAIN Seed /\ Seed[i].table = "problem_tag" /\ Seed[i].problem = p
      BY DEF TagLinks, RowsOf
    <3>2. p \in DOMAIN Seed
      BY <3>1, SlugThere, SeedAssumption DEF Consistent
    <3>3. p \in Requests \X Nat
      BY <1>3 DEF Own
    <3> QED
      BY <3>2, <3>3, SeedAssumption
  <2> QED
    BY <2>1
<1>7. TagLinks(db', p) = {}
  BY <1>5, TagsStay
<1> QED
  BY <1>4, <1>6, <1>7 DEF TagsOf

LEMMA CommitWhole ==
  ASSUME WInv, Effects, Hist, Tagging, Unlinking, Whole, NEW o \in Requests, Commits(o), Watch,
         NEW p \in Ids, db'[p].table = "problem"
  PROVE  WholeOf(p)'
<1> USE DEF WInv, IInv
<1>1. /\ op' = op /\ saved' = saved \cup {o} /\ o \notin saved /\ DOMAIN db = Ids
      /\ \A a \in Requests : met[a] \subseteq met'[a]
  BY Domains DEF Commits, Order, Watch, Hist
<1>2. /\ Editors(p) \subseteq Editors(p)' /\ Editors(p)' \subseteq Editors(p) \cup {o}
      /\ Taggers(p) \subseteq Taggers(p)' /\ Taggers(p) \subseteq Requests
      /\ Taggers(p)' = Taggers(p)
         \/ (o \in Taggers(p)' /\ op[o].kind \in TagKinds /\ ProblemOf(o) = p
             /\ op[o].tags # <<>>)
      /\ \A a \in Requests : LowerTags(a)' = LowerTags(a)
  BY <1>1 DEF Editors, Taggers, ProblemOf, LowerTags, Lower, Hist, Books
<1>3. Rewritten(p)' => Rewritten(p)
  BY <1>1, <1>2 DEF Rewritten
<1>4. CASE op[o].kind \in TagKinds /\ ProblemOf(o) = p /\ op[o].tags # <<>>
  <2>1. o \in Taggers(p)' /\ Editors(p)' = Editors(p) \cup {o}
    BY <1>1, <1>2, <1>4 DEF Taggers, Editors, ProblemOf
  <2>2. CASE Contested(o) => Fresh(o)
    BY <1>2, <1>4, <2>1, <2>2, TagsSet DEF WholeOf
  <2>3. CASE Contested(o) /\ ~Fresh(o)
    <3>1. PICK b \in Taggers(p) : b \in met[o]
      BY <1>4, <2>3 DEF Contested
    <3>2. b # o /\ b \in met'[o] /\ b \in Taggers(p)'
      BY <1>1, <1>2, <3>1 DEF Taggers, Editors
    <3>3. ~Rewritten(p)'
      BY <1>1, <1>4, <2>1, <2>3 DEF Rewritten, Fresh, Differ
    <3> QED
      BY <2>1, <3>2, <3>3 DEF WholeOf, Met
  <2> QED
    BY <2>2, <2>3
<1>5. CASE ~(op[o].kind \in TagKinds /\ ProblemOf(o) = p /\ op[o].tags # <<>>)
  <2>1. Taggers(p)' = Taggers(p)
    BY <1>2, <1>5
  <2>2. CASE db[p].table = "problem"
    <3>1. WholeOf(p) /\ TagsOf(db', p) = TagsOf(db, p)
      BY <1>1, <1>5, <2>2, TagsStay DEF Whole, Rows, RowsOf
    <3>2. Met(p) => Met(p)'
      BY <1>1, <1>2, <2>1 DEF Met
    <3>3. TagsOf(Seed, p)' = TagsOf(Seed, p)
      BY DEF TagsOf, TagLinks, RowsOf
    <3> QED
      BY <1>2, <1>3, <2>1, <3>1, <3>2, <3>3 DEF WholeOf
  <2>3. CASE db[p].table # "problem"
    BY <1>5, <2>1, <2>3, NewProblem DEF WholeOf, TagsOf, TagLinks, RowsOf
  <2> QED
    BY <2>2, <2>3
<1> QED
  BY <1>4, <1>5

LEMMA StepWhole ==
  ASSUME WInv, Effects, Hist, Tagging, Unlinking, Whole, NEW o \in Requests, WebStep(o), Watch
  PROVE  Whole'
<1> SUFFICES ASSUME NEW p \in Rows("problem")' PROVE WholeOf(p)'
  BY DEF Whole
<1>1. CASE Commits(o)
  <2>1. p \in Ids /\ db'[p].table = "problem"
    BY <1>1, CommitsAt DEF Rows, RowsOf, WInv, IInv
  <2> QED
    BY <1>1, <2>1, CommitWhole
<1>2. CASE ~Commits(o)
  <2>1. op' = op /\ db' = db /\ saved' = saved
    BY <1>2, OnlyCommits
  <2>2. \A a \in Requests : met[a] \subseteq met'[a]
    BY DEF Watch, Hist
  <2>3. WholeOf(p)
    BY <2>1 DEF Whole, Rows
  <2>4. /\ Taggers(p)' = Taggers(p) /\ Taggers(p) \subseteq Requests
        /\ Rewritten(p)' = Rewritten(p) /\ \A a : LowerTags(a)' = LowerTags(a)
    BY <2>1 DEF Taggers, Editors, ProblemOf, Rewritten, LowerTags, Lower, Hist, Books
  <2>5. Met(p) => Met(p)'
    BY <2>2, <2>4 DEF Met
  <2>6. TagsOf(db, p)' = TagsOf(db, p) /\ TagsOf(Seed, p)' = TagsOf(Seed, p)
    BY <2>1 DEF TagsOf, TagLinks, RowsOf
  <2> QED
    BY <2>3, <2>4, <2>5, <2>6 DEF WholeOf
<1> QED
  BY <1>1, <1>2

LEMMA InitWhole == ASSUME Init PROVE Whole /\ Unlinking
<1>1. /\ db = [i \in Ids |-> IF i \in DOMAIN Seed THEN Seed[i] ELSE NoRow] /\ saved = {}
      /\ \A r \in Requests : stmt[r] = NoWrite /\ writes[r] = NoWrite
  BY DEF Init, SessionInit
<1>2. Unlinking
  BY <1>1, NothingIssued, NothingTouched, Absent DEF Unlinking, UnlinksGone
<1>3. ASSUME NEW p \in Rows("problem") PROVE WholeOf(p)
  <2>1. Taggers(p) = {}
    BY <1>1 DEF Taggers, Editors
  <2>2. \A i \in DOMAIN Seed : i \in Ids /\ db[i] = Seed[i]
    BY <1>1 DEF Ids
  <2>3. TagLinks(db, p) = TagLinks(Seed, p)
    BY <1>1, <2>2 DEF TagLinks, RowsOf, NoRow
  <2>4. \A i \in TagLinks(Seed, p) : i \in DOMAIN Seed /\ Seed[i].tag \in DOMAIN Seed
    BY SlugThere, SeedAssumption DEF TagLinks, RowsOf, Consistent
  <2>5. TagsOf(db, p) = TagsOf(Seed, p)
    BY <2>2, <2>3, <2>4 DEF TagsOf
  <2> QED
    BY <2>1, <2>5 DEF WholeOf
<1> QED
  BY <1>2, <1>3 DEF Whole

LEMMA WholeInvariance == Spec => [](Whole /\ Unlinking)
<1>1. Init => Whole /\ Unlinking
  BY InitWhole
<1>2. WInv /\ Effects /\ Hist /\ Tagging /\ Bodies /\ Whole /\ Unlinking /\ [Next]_vars
        => Whole' /\ Unlinking'
  <2> SUFFICES ASSUME WInv, Effects, Hist, Tagging, Whole, Unlinking, [Next]_vars
               PROVE  Whole' /\ Unlinking'
    OBVIOUS
  <2>1. CASE Next
    <3>1. PICK o \in Requests : Acts(o) /\ WebStep(o) /\ Watch
      BY <2>1, NextIsWebStep
    <3>2. op' = op
      BY <3>1, OnlyCommits
    <3>3. \A r \in Requests : op[r].kind = "delete_problem" => UnlinksGone(r)'
      BY <3>1, OtherUnlinks, OwnUnlinks
    <3> QED
      BY <3>1, <3>2, <3>3, StepWhole DEF Unlinking
  <2>2. CASE UNCHANGED vars
    <3>1. /\ op' = op /\ db' = db /\ writes' = writes /\ stmt' = stmt /\ saved' = saved
          /\ met' = met
      BY <2>2 DEF vars
    <3>2. Unlinking'
      BY <3>1 DEF Unlinking, UnlinksGone, Deletes
    <3>3. ASSUME NEW p PROVE WholeOf(p)' <=> WholeOf(p)
      <4>1. /\ Taggers(p)' = Taggers(p) /\ Rewritten(p)' = Rewritten(p)
            /\ \A a : LowerTags(a)' = LowerTags(a)
        BY <3>1 DEF Taggers, Editors, ProblemOf, Rewritten, LowerTags, Lower
      <4>2. TagsOf(db, p)' = TagsOf(db, p) /\ TagsOf(Seed, p)' = TagsOf(Seed, p)
        BY <3>1 DEF TagsOf, TagLinks, RowsOf
      <4>3. Met(p)' <=> Met(p)
        BY <3>1, <4>1 DEF Met
      <4> QED
        BY <4>1, <4>2, <4>3 DEF WholeOf
    <3>4. Whole'
      BY <3>1, <3>3 DEF Whole, Rows
    <3> QED
      BY <3>2, <3>4
  <2> QED
    BY <2>1, <2>2
<1> QED
  BY <1>1, <1>2, SessionsKeepTables, EffectsInvariance, HistInvariance, TaggingInvariance,
     PTL DEF Spec

(* Requests that set the tags of a problem one after the other, or that    *)
(* all give it a body it never had, do not mix their tags: the second has  *)
(* seen the links of the first, or waited for it to commit at the row of   *)
(* the problem, before it deletes the old links and inserts its own.       *)
THEOREM ConcurrentTagsAreWhole == Spec => []TagsAreWhole
<1>1. Whole => TagsAreWhole
  BY DEF Whole, WholeOf, Met, TagsAreWhole
<1> QED
  BY <1>1, WholeInvariance, PTL

-----------------------------------------------------------------------------
(* The import of a class.                                                  *)
Removers == {"remove_member", "delete_course"}
ImportLabels == {"start", "handler", "managed", "row", "no_user", "name_taken", "user_added",
                 "enrolled", "excepted", "reply", "answered", "done"}

(* A user, and a member of a course; those the transaction sees.           *)
Email(r, k) == op[r].csv[k].email
IsUser(row, email) == row.table = "user" /\ row.email = email
IsMember(row, c, u) == row.table = "enrollment" /\ row.course = c /\ row.user = u
MemberSeen(r, u) == \E i \in Ids : IsMember(View(r)[i], op[r].id, u)
NamedMember(r, k) ==
  \E u \in Ids : IsUser(View(r)[u], Email(r, k)) /\ MemberSeen(r, u)

(* Where it is in the file: the rows done, and the one it is at.           *)
ImportPlace(r) ==
  LET n == local[r].n  rows == Len(op[r].csv)
  IN /\ DOMAIN local[r] = DOMAIN NoLocals
     /\ pc[r] \in ImportLabels /\ n \in 0..rows
     /\ pc[r] \in {"start", "handler", "managed"} =>
          n = 0 /\ writes[r] = NoWrite /\ stmt[r] = NoWrite
     /\ pc[r] \in {"no_user", "name_taken", "user_added", "enrolled", "excepted"} =>
          n < rows /\ Email(r, n + 1) # Null
     /\ pc[r] = "excepted" => r \in broken
     /\ pc[r] \in {"reply", "answered"} => n = rows

(* Each row takes two ids at most.                                         *)
OfRow(label) == CASE label = "user_added" -> 1 [] label = "enrolled" -> 2 [] OTHER -> 0
ImportRoom(r) == Cardinality(Taken(r)) <= 2 * local[r].n + OfRow(pc[r])

(* Everyone in the rows done is a member, unless a row failed or a request *)
(* it met has removed members; so is the user of the row it is at, as far  *)
(* as it got.                                                              *)
Intact(r) == r \notin broken /\ ~MetSaved(r, Removers) /\ pc[r] # "done"
RowsEnrolled(r) ==
  Intact(r) => \A k \in 1..local[r].n : Email(r, k) # Null => NamedMember(r, k)
UserFound(r) ==
  Intact(r) /\ pc[r] = "user_added" =>
    LET u == local[r].ids[1]  email == Email(r, local[r].n + 1)
    IN /\ u \in Ids
       /\ IsUser(View(r)[u], email) \/ (Inserts(stmt[r], u) /\ IsUser(stmt[r][u], email))
UserEnrolled(r) ==
  Intact(r) /\ pc[r] = "enrolled" =>
    \E u \in Ids :
      /\ IsUser(View(r)[u], Email(r, local[r].n + 1))
      /\ \/ MemberSeen(r, u)
         \/ \E i \in Ids : Inserts(stmt[r], i) /\ IsMember(stmt[r][i], op[r].id, u)

ImportSound(r) ==
  /\ ImportPlace(r) /\ ImportRoom(r)
  /\ RowsEnrolled(r) /\ UserFound(r) /\ UserEnrolled(r)
Importing == \A r \in Requests : op[r].kind = "import_students" => ImportSound(r)

LEMMA FileRows ==
  ASSUME WInv, NEW r \in Requests, op[r].kind = "import_students"
  PROVE  /\ Len(op[r].csv) \in Nat /\ 2 * Len(op[r].csv) <= MaxNew
         /\ DOMAIN op[r].csv = 1..Len(op[r].csv)
<1>1. op[r] \in Ops
  BY DEF WInv, Typing
<1>2. SeqOfItsOwn(op[r].csv) /\ RowsNeeded(op[r]) <= MaxNew
  BY <1>1, RoomAssumption
<1>3. RowsNeeded(op[r]) = 2 * Len(op[r].csv)
  BY DEF RowsNeeded, TagKinds
<1>4. op[r].csv \in Seq({ op[r].csv[k] : k \in DOMAIN op[r].csv })
  BY <1>2 DEF SeqOfItsOwn
<1> QED
  BY <1>2, <1>3, <1>4

(* It only inserts.                                                        *)
LEMMA ImportInserts ==
  ASSUME WInv, NEW r \in Requests, op[r].kind = "import_students", NEW i \in Ids
  PROVE  /\ ~Deletes(stmt[r], i) /\ ~Updates(stmt[r], i)
         /\ Inserts(stmt[r], i) => IsRow(stmt[r][i])
<1>1. FitsIn(r, stmt[r])
  BY DEF WInv, Typing
<1>2. Removes(op[r].kind) = {} /\ Sets(op[r].kind) = {}
  BY DEF Removes, Sets, TagKinds
<1> QED
  BY <1>1, <1>2 DEF FitsIn

(* Users and members it saw are there as long as no step takes their rows. *)
LEMMA MembersStay ==
  ASSUME NEW r \in Requests, op' = op,
         \A i \in Ids : View(r)[i].table \in {"user", "enrollment"} => View(r)'[i] = View(r)[i]
  PROVE  /\ \A u \in Ids : \A email :
              IsUser(View(r)[u], email) => IsUser(View(r)'[u], email)
         /\ \A u : MemberSeen(r, u) => MemberSeen(r, u)'
         /\ \A k : NamedMember(r, k) => NamedMember(r, k)'
<1>1. ASSUME NEW u \in Ids, NEW email, IsUser(View(r)[u], email)
      PROVE  IsUser(View(r)'[u], email)
  BY <1>1 DEF IsUser
<1>2. ASSUME NEW u, MemberSeen(r, u) PROVE MemberSeen(r, u)'
  <2>1. PICK i \in Ids : IsMember(View(r)[i], op[r].id, u)
    BY <1>2 DEF MemberSeen
  <2>2. IsMember(View(r)'[i], op[r].id, u)
    BY <2>1 DEF IsMember
  <2> QED
    BY <2>2 DEF MemberSeen, IsMember
<1>3. ASSUME NEW k, NamedMember(r, k) PROVE NamedMember(r, k)'
  <2>1. PICK u \in Ids : IsUser(View(r)[u], Email(r, k)) /\ MemberSeen(r, u)
    BY <1>3 DEF NamedMember
  <2>2. IsUser(View(r)'[u], Email(r, k)) /\ MemberSeen(r, u)'
    BY <1>1, <1>2, <2>1
  <2> QED
    BY <2>2 DEF NamedMember, IsUser, Email
<1> QED
  BY <1>1, <1>2, <1>3

(* What was found stays found while users and members are there.           *)
LEMMA FoundStays ==
  ASSUME NEW r \in Requests, ImportSound(r), op' = op, pc'[r] = pc[r], local'[r] = local[r],
         Intact(r)' => Intact(r),
         Intact(r)' => \A i \in Ids : View(r)[i].table \in {"user", "enrollment"} =>
                         View(r)'[i] = View(r)[i],
         Intact(r)' => \A i \in Ids : Inserts(stmt[r], i) =>
                         \/ Inserts(stmt'[r], i) /\ stmt'[r][i] = stmt[r][i]
                         \/ /\ \A email : IsUser(stmt[r][i], email) =>
                                 IsUser(View(r)'[i], email)
                            /\ \A c, u : IsMember(stmt[r][i], c, u) =>
                                 IsMember(View(r)'[i], c, u)
  PROVE  RowsEnrolled(r)' /\ UserFound(r)' /\ UserEnrolled(r)'
<1> SUFFICES ASSUME Intact(r)' PROVE RowsEnrolled(r)' /\ UserFound(r)' /\ UserEnrolled(r)'
  BY DEF RowsEnrolled, UserFound, UserEnrolled
<1>1. Intact(r) /\ RowsEnrolled(r) /\ UserFound(r) /\ UserEnrolled(r)
  BY DEF ImportSound
<1>2. /\ \A u \in Ids : \A email : IsUser(View(r)[u], email) => IsUser(View(r)'[u], email)
      /\ \A u : MemberSeen(r, u) => MemberSeen(r, u)'
      /\ \A k : NamedMember(r, k) => NamedMember(r, k)'
  BY MembersStay
<1>3. RowsEnrolled(r)'
  BY <1>1, <1>2 DEF RowsEnrolled, Email
<1>4. UserFound(r)'
  <2> DEFINE u == local[r].ids[1]
             email == Email(r, local[r].n + 1)
  <2> SUFFICES ASSUME pc[r] = "user_added"
               PROVE  /\ u \in Ids
                      /\ \/ IsUser(View(r)'[u], email)
                         \/ Inserts(stmt'[r], u) /\ IsUser(stmt'[r][u], email)
    BY DEF UserFound, IsUser, Email, Inserts, Updates
  <2>1. /\ u \in Ids
        /\ IsUser(View(r)[u], email) \/ (Inserts(stmt[r], u) /\ IsUser(stmt[r][u], email))
    BY <1>1 DEF UserFound
  <2> HIDE DEF u, email
  <2> QED
    BY <1>2, <2>1
<1>5. UserEnrolled(r)'
  <2> DEFINE email == Email(r, local[r].n + 1)
  <2> SUFFICES ASSUME pc[r] = "enrolled"
               PROVE  \E u \in Ids :
                        /\ IsUser(View(r)'[u], email)
                        /\ \/ MemberSeen(r, u)'
                           \/ \E i \in Ids : Inserts(stmt'[r], i)
                                             /\ IsMember(stmt'[r][i], op[r].id, u)
    BY DEF UserEnrolled, IsUser, Email, IsMember, Inserts, Updates
  <2>1. PICK u \in Ids :
          /\ IsUser(View(r)[u], email)
          /\ \/ MemberSeen(r, u)
             \/ \E i \in Ids : Inserts(stmt[r], i) /\ IsMember(stmt[r][i], op[r].id, u)
    BY <1>1 DEF UserEnrolled
  <2> HIDE DEF email
  <2>2. IsUser(View(r)'[u], email)
    BY <1>2, <2>1
  <2>3. CASE MemberSeen(r, u)
    BY <1>2, <2>2, <2>3
  <2>4. ASSUME NEW i \in Ids, Inserts(stmt[r], i), IsMember(stmt[r][i], op[r].id, u)
        PROVE  \/ MemberSeen(r, u)'
               \/ Inserts(stmt'[r], i) /\ IsMember(stmt'[r][i], op[r].id, u)
    <3>1. IsMember(View(r)'[i], op[r].id, u) => MemberSeen(r, u)'
      BY DEF MemberSeen, IsMember
    <3> QED
      BY <2>4, <3>1
  <2> QED
    BY <2>1, <2>2, <2>3, <2>4
<1> QED
  BY <1>3, <1>4, <1>5

LEMMA OtherImport ==
  ASSUME WInv, Effects, Hist, Importing, NEW o \in Requests, WebStep(o), Watch,
         NEW r \in Requests, r # o, op[r].kind = "import_students"
  PROVE  ImportSound(r)'
<1> USE DEF WInv, IInv
<1>1. /\ op' = op /\ pc'[r] = pc[r] /\ stmt'[r] = stmt[r] /\ writes'[r] = writes[r]
  BY OnlyCommits
<1>2. local'[r] = local[r] /\ (r \in broken' <=> r \in broken)
  BY DEF Hist, WebStep, Handled, Continues, Reply, RollsBack, Executed, Commits
<1>3. ImportSound(r)
  BY DEF Importing
<1>4. ImportPlace(r)'
  BY <1>1, <1>2, <1>3 DEF ImportSound, ImportPlace, Email
<1>5. ImportRoom(r)'
  <2>1. Taken(r)' = Taken(r)
    BY <1>1 DEF Taken, Touched, Inserts, Updates, Own
  <2> QED
    BY <1>1, <1>2, <1>3, <2>1 DEF ImportSound, ImportRoom, OfRow
<1>6. Intact(r)' => Intact(r)
  BY <1>1, <1>2, StillUnmet DEF Intact
<1>7. ASSUME Intact(r)', pc[r] # "start", NEW i \in Ids, View(r)[i].table \in {"user", "enrollment"}
      PROVE  View(r)'[i] = View(r)[i]
  <2>1. Exists(View(r)[i]) /\ View(r)[i].table \notin Mutable
    BY <1>7 DEF Exists, Tables, Mutable
  <2>2. Commits(o) => op[o].kind \notin Removers
    BY <1>1, <1>7, StillUnmet DEF Running, Intact
  <2>3. Commits(o) => View(r)[i].table \notin Removes(op[o].kind)
    BY <1>7, <2>2 DEF Removes, Removers, TagKinds
  <2> QED
    BY <2>1, <2>3, OthersSee
<1>8. \A i \in Ids : Inserts(stmt[r], i) => Inserts(stmt'[r], i) /\ stmt'[r][i] = stmt[r][i]
  BY <1>1 DEF Inserts, Updates
<1>9. CASE pc[r] = "start"
  BY <1>1, <1>2, <1>3, <1>4, <1>5, <1>9
  DEF ImportSound, ImportPlace, RowsEnrolled, UserFound, UserEnrolled
<1>10. CASE pc[r] # "start"
  <2>1. RowsEnrolled(r)' /\ UserFound(r)' /\ UserEnrolled(r)'
    BY <1>1, <1>2, <1>3, <1>6, <1>7, <1>8, <1>10, FoundStays
  <2> QED
    BY <1>4, <1>5, <2>1 DEF ImportSound
<1> QED
  BY <1>9, <1>10

(* The steps of the import itself.                                         *)
LEMMA ImportNat ==
  ASSUME WInv, NEW r \in Requests, op[r].kind = "import_students", ImportSound(r)
  PROVE  /\ local[r].n \in Nat /\ Len(op[r].csv) \in Nat /\ OfRow(pc[r]) \in Nat
         /\ Cardinality(Taken(r)) \in Nat
         /\ Cardinality(Taken(r)) <= 2 * local[r].n + OfRow(pc[r])
         /\ 2 * Len(op[r].csv) <= MaxNew /\ local[r].n <= Len(op[r].csv)
  BY FileRows, TakenFinite DEF ImportSound, ImportPlace, ImportRoom, OfRow

LEMMA ExecutedImport ==
  ASSUME WInv, WInv', Effects, Hist, Importing, NEW r \in Requests, stmt[r] # NoWrite, Executed(r),
         WebStep(r), Watch, op[r].kind = "import_students"
  PROVE  ImportSound(r)'
<1> USE DEF WInv, IInv
<1>1. op' = op /\ pc' = pc /\ local' = local /\ db' = db /\ saved' = saved /\ broken' = broken
  BY DEF Executed
<1>2. ImportSound(r)
  BY DEF Importing
<1>3. pc[r] \notin {"start", "handler", "managed"}
  BY <1>2 DEF ImportSound, ImportPlace
<1>4. ImportPlace(r)'
  BY <1>1, <1>2, <1>3 DEF ImportSound, ImportPlace, Email
<1>5. ImportRoom(r)'
  <2>1. Cardinality(Taken(r)') <= Cardinality(Taken(r)) /\ Cardinality(Taken(r)') \in Nat
    BY ExecutedTaken, NoMoreTaken
  <2>2. Cardinality(Taken(r)') <= 2 * local[r].n + OfRow(pc[r])
    BY <1>2, <2>1, ImportNat
  <2> QED
    BY <1>1, <2>2 DEF ImportRoom, OfRow
<1>6. Intact(r)' => Intact(r)
  BY <1>1, StillUnmet DEF Intact
<1>7. ASSUME NEW i \in Ids, View(r)[i].table \in {"user", "enrollment"}
      PROVE  View(r)'[i] = View(r)[i]
  <2>1. Exists(View(r)[i])
    BY <1>7 DEF Exists, Tables
  <2>2. i \notin Touched(Result(r))
    BY <2>1, ExecutedRow, ImportInserts
  <2> QED
    BY <2>2, ExecutedRow
<1>8. ASSUME NEW i \in Ids, Inserts(stmt[r], i)
      PROVE  /\ \A email : IsUser(stmt[r][i], email) => IsUser(View(r)'[i], email)
             /\ \A c, u : IsMember(stmt[r][i], c, u) => IsMember(View(r)'[i], c, u)
  <2>1. /\ i \in Touched(Result(r)) /\ View(r)'[i] = Result(r)[i]
        /\ \A c \in DOMAIN stmt[r][i] : Result(r)[i][c] = stmt[r][i][c]
    BY <1>8, ExecutedRow
  <2>2. IsRow(stmt[r][i])
    BY <1>8, ImportInserts
  <2> QED
    BY <2>1, <2>2, ColumnsOf DEF IsUser, IsMember
<1>9. pc'[r] = pc[r] /\ local'[r] = local[r]
  BY <1>1
<1>10. RowsEnrolled(r)' /\ UserFound(r)' /\ UserEnrolled(r)'
  BY <1>1, <1>2, <1>6, <1>7, <1>8, <1>9, FoundStays
<1> QED
  BY <1>4, <1>5, <1>10 DEF ImportSound

(* It ends, or a row fails and with it the transaction.                    *)
LEMMA ImportEnds ==
  ASSUME WInv, Hist, Importing, NEW r \in Requests, op[r].kind = "import_students",
         RollsBack(r) \/ Commits(r),
         \/ pc'[r] = "done"
         \/ pc'[r] = "excepted" /\ r \in broken' /\ pc[r] \in {"user_added", "enrolled"}
  PROVE  ImportSound(r)'
<1> USE DEF WInv, IInv
<1>1. /\ op' = op /\ local' = local /\ writes'[r] = NoWrite /\ stmt'[r] = NoWrite
  BY DEF RollsBack, Commits, Shape, Order
<1>2. ImportSound(r)
  BY DEF Importing
<1>3. ImportPlace(r)'
  BY <1>1, <1>2 DEF ImportSound, ImportPlace, ImportLabels, Email
<1>4. ImportRoom(r)'
  <2>1. Taken(r)' = {}
    BY <1>1, NothingIssued, NothingTouched DEF Taken, Touched, Inserts, Updates
  <2>2. Cardinality(Taken(r)') = 0
    BY <2>1, FS_EmptySet
  <2>3. local'[r].n \in Nat /\ OfRow(pc'[r]) \in Nat
    BY <1>1, <1>2, ImportNat DEF OfRow
  <2>4. 0 <= 2 * local'[r].n + OfRow(pc'[r])
    BY <2>3
  <2> QED
    BY <2>2, <2>4 DEF ImportRoom, OfRow
<1>5. ~Intact(r)'
  BY DEF Intact
<1> QED
  BY <1>3, <1>4, <1>5 DEF ImportSound, RowsEnrolled, UserFound, UserEnrolled

LEMMA ImportResponds ==
  ASSUME WInv, Hist, Importing, Watch, NEW r \in Requests, WebStep(r),
         op[r].kind = "import_students", Respond(r)
  PROVE  ImportSound(r)'
<1> USE DEF WInv, IInv, Shape
<1>1. /\ pc[r] = "reply" /\ pc'[r] = "answered" /\ op' = op /\ local' = local /\ db' = db
      /\ writes' = writes /\ stmt' = stmt /\ saved' = saved /\ broken' = broken
  BY DEF Respond, Reply
<1>2. View(r)' = View(r)
  BY <1>1 DEF View
<1>3. ImportSound(r)
  BY DEF Importing
<1>4. ImportPlace(r)'
  BY <1>1, <1>3 DEF ImportSound, ImportPlace, ImportLabels, Email
<1>5. ImportRoom(r)'
  <2>1. Taken(r)' = Taken(r) /\ OfRow(pc'[r]) = OfRow(pc[r])
    BY <1>1 DEF Taken, Touched, Inserts, Updates, Own, OfRow
  <2> QED
    BY <1>1, <1>3, <2>1 DEF ImportSound, ImportRoom, OfRow
<1>6. Intact(r)' => Intact(r)
  BY <1>1, StillUnmet DEF Intact
<1>7. \A k : NamedMember(r, k) => NamedMember(r, k)'
  BY <1>1, <1>2, MembersStay
<1>8. RowsEnrolled(r)'
  BY <1>1, <1>3, <1>6, <1>7 DEF ImportSound, RowsEnrolled, Email
<1> QED
  BY <1>1, <1>4, <1>5, <1>8 DEF ImportSound, UserFound, UserEnrolled

(* It goes on, with the rows it had done and perhaps one more.             *)
LEMMA ImportGoesOn ==
  ASSUME WInv, Hist, Importing, Watch, NEW r \in Requests, op[r].kind = "import_students",
         WebStep(r), pc[r] # "done",
         NEW mem, NEW w, NEW label, Proceed(r, mem, w, label), ImportPlace(r)', ImportRoom(r)',
         Intact(r) => \/ mem.n = local[r].n
                      \/ /\ mem.n = local[r].n + 1
                         /\ Email(r, mem.n) # Null => NamedMember(r, mem.n),
         Intact(r) /\ label = "user_added" =>
           /\ mem.ids[1] \in Ids
           /\ \/ IsUser(View(r)[mem.ids[1]], Email(r, mem.n + 1))
              \/ /\ Inserts(w, mem.ids[1])
                 /\ IsUser(w[mem.ids[1]], Email(r, mem.n + 1)),
         Intact(r) /\ label = "enrolled" =>
           \E u \in Ids : /\ IsUser(View(r)[u], Email(r, mem.n + 1))
                          /\ \E i \in Ids : Inserts(w, i) /\ IsMember(w[i], op[r].id, u)
  PROVE  ImportSound(r)'
<1> USE DEF WInv, IInv
<1>1. /\ local'[r] = mem /\ stmt'[r] = w /\ pc'[r] = label
      /\ op' = op /\ writes' = writes /\ db' = db /\ saved' = saved /\ broken' = broken
      /\ View(r)' = View(r)
  BY Proceeded DEF Proceed
<1>2. Intact(r)' => Intact(r)
  BY <1>1, StillUnmet DEF Intact
<1>3. ImportSound(r)
  BY DEF Importing
<1>4. \A k : NamedMember(r, k) => NamedMember(r, k)'
  BY <1>1, MembersStay
<1>5. RowsEnrolled(r)'
  <2> SUFFICES ASSUME Intact(r), NEW k \in 1..mem.n, Email(r, k) # Null PROVE NamedMember(r, k)
    BY <1>1, <1>2, <1>4 DEF RowsEnrolled, Email
  <2>1. local[r].n \in Nat
    BY <1>3, ImportNat
  <2>2. CASE k \in 1..local[r].n
    BY <1>3, <2>2 DEF ImportSound, RowsEnrolled
  <2>3. CASE k \notin 1..local[r].n
    <3>1. mem.n = local[r].n + 1 /\ k = mem.n
      BY <2>1, <2>3
    <3> QED
      BY <3>1, <2>1
  <2> QED
    BY <2>2, <2>3
<1>6. UserFound(r)'
  BY <1>1, <1>2 DEF UserFound, IsUser, Email, Inserts, Updates
<1>7. UserEnrolled(r)'
  <2> SUFFICES ASSUME Intact(r), label = "enrolled"
               PROVE  \E u \in Ids :
                        /\ IsUser(View(r)[u], Email(r, mem.n + 1))
                        /\ \E i \in Ids : Inserts(w, i) /\ IsMember(w[i], op[r].id, u)
    BY <1>1, <1>2 DEF UserEnrolled, IsUser, Email, IsMember, Inserts, Updates
  <2> QED
    OBVIOUS
<1> QED
  BY <1>5, <1>6, <1>7 DEF ImportSound

(* It moves within a row, or from what comes before the rows or after.     *)
LEMMA ImportMoves ==
  ASSUME WInv, Hist, Importing, Watch, NEW r \in Requests, op[r].kind = "import_students",
         WebStep(r), stmt[r] = NoWrite,
         NEW mem, NEW label, Proceed(r, mem, NoWrite, label),
         DOMAIN mem = DOMAIN NoLocals, mem.n = local[r].n,
         \/ <<pc[r], label>> \in {<<"start", "handler">>, <<"handler", "managed">>,
                                  <<"managed", "row">>, <<"no_user", "name_taken">>}
         \/ pc[r] = "row" /\ local[r].n = Len(op[r].csv) /\ label = "reply"
         \/ /\ pc[r] = "row" /\ local[r].n < Len(op[r].csv) /\ Email(r, local[r].n + 1) # Null
            /\ \/ label = "no_user"
               \/ label = "user_added" /\ mem.ids[1] \in ByEmail(View(r), Email(r, local[r].n + 1))
  PROVE  ImportSound(r)'
<1> USE DEF WInv, IInv
<1>1. /\ local'[r] = mem /\ stmt'[r] = NoWrite /\ pc'[r] = label
      /\ op' = op /\ writes' = writes /\ db' = db /\ saved' = saved /\ broken' = broken
  BY Proceeded DEF Proceed
<1>2. ImportSound(r) /\ local[r].n \in Nat /\ Len(op[r].csv) \in Nat
  BY ImportNat DEF Importing
<1>3. ImportPlace(r)'
  BY <1>1, <1>2 DEF ImportSound, ImportPlace, ImportLabels, Email
<1>4. ImportRoom(r)'
  <2>1. Taken(r)' = Taken(r)
    BY <1>1 DEF Taken, Touched, Inserts, Updates, Own
  <2>2. OfRow(pc[r]) = 0 /\ OfRow(label) \in Nat
    BY DEF OfRow
  <2>3. Cardinality(Taken(r)) <= 2 * local[r].n + OfRow(label)
    BY <1>2, <2>2, ImportNat
  <2> QED
    BY <1>1, <2>1, <2>3 DEF ImportRoom
<1>5. label = "user_added" =>
        mem.ids[1] \in Ids /\ IsUser(View(r)[mem.ids[1]], Email(r, mem.n + 1))
  BY Domains DEF ByEmail, RowsOf, IsUser
<1>6. label # "enrolled" /\ pc[r] # "done"
  OBVIOUS
<1> QED
  BY <1>3, <1>4, <1>5, <1>6, ImportGoesOn

LEMMA RowIsDone ==
  ASSUME WInv, Hist, Importing, Watch, NEW r \in Requests, op[r].kind = "import_students",
         WebStep(r), stmt[r] = NoWrite, local[r].n < Len(op[r].csv),
         NEW good, NEW bad, RowDone(r, good, bad),
         pc[r] \in {"row", "user_added", "enrolled", "excepted"},
         Intact(r) /\ Email(r, local[r].n + 1) # Null => NamedMember(r, local[r].n + 1)
  PROVE  ImportSound(r)'
<1> USE DEF WInv, IInv
<1>1. PICK mem : /\ mem = [local[r] EXCEPT !.n = @ + 1, !.good = @ + good, !.bad = @ + bad]
                 /\ Proceed(r, mem, NoWrite, "row")
  BY DEF RowDone, Keep
<1>2. /\ local'[r] = mem /\ stmt'[r] = NoWrite /\ pc'[r] = "row"
      /\ op' = op /\ writes' = writes /\ db' = db /\ saved' = saved /\ broken' = broken
  <2>1. Proceed(r, mem, NoWrite, "row")
    BY <1>1
  <2>2. broken' = broken
    BY <2>1 DEF Proceed
  <2> QED
    BY <2>1, <2>2, Proceeded
<1>3. /\ ImportSound(r) /\ local[r].n \in Nat /\ Len(op[r].csv) \in Nat
      /\ DOMAIN local[r] = DOMAIN NoLocals
  BY ImportNat DEF Importing, ImportSound, ImportPlace
<1>4. mem.n = local[r].n + 1 /\ DOMAIN mem = DOMAIN NoLocals
  BY <1>1, <1>3 DEF NoLocals
<1>5. ImportPlace(r)'
  BY <1>2, <1>3, <1>4 DEF ImportPlace, ImportLabels
<1>6. ImportRoom(r)'
  <2>1. Taken(r)' = Taken(r)
    BY <1>2 DEF Taken, Touched, Inserts, Updates, Own
  <2>2. OfRow(pc[r]) \in 0..2 /\ OfRow("row") = 0
    BY DEF OfRow
  <2>3. Cardinality(Taken(r)) <= 2 * mem.n
    BY <1>3, <1>4, <2>2, ImportNat
  <2>4. Cardinality(Taken(r)) <= 2 * mem.n + OfRow("row")
    BY <1>3, <1>4, <2>2, <2>3, ImportNat
  <2> QED
    BY <1>2, <2>1, <2>4 DEF ImportRoom
<1>7. pc[r] # "done" /\ "row" # "user_added" /\ "row" # "enrolled"
  OBVIOUS
<1> QED
  BY <1>1, <1>4, <1>5, <1>6, <1>7, ImportGoesOn

(* It inserts a row at an id of its own.                                   *)
LEMMA ImportPuts ==
  ASSUME WInv, Hist, Importing, Watch, NEW r \in Requests, op[r].kind = "import_students",
         stmt[r] = NoWrite, OfRow(pc[r]) \in {0, 1}, local[r].n < Len(op[r].csv),
         Email(r, local[r].n + 1) # Null,
         NEW row, row.table \in {"user", "enrollment"}, "table" \in DOMAIN row,
         NEW mem, DOMAIN mem = DOMAIN NoLocals, mem.n = local[r].n,
         NEW label, label \in {"user_added", "enrolled"}, OfRow(label) = OfRow(pc[r]) + 1,
         NEW w, w = Put(NewId(r), row), Proceed(r, mem, w, label)
  PROVE  /\ ImportPlace(r)' /\ ImportRoom(r)'
         /\ NewId(r) \in Ids /\ Inserts(w, NewId(r)) /\ w[NewId(r)] = row
<1> USE DEF WInv, IInv
<1>1. /\ local'[r] = mem /\ stmt'[r] = w /\ pc'[r] = label
      /\ op' = op /\ writes' = writes /\ broken' = broken
  BY ZenonT(60), Proceeded DEF Proceed
<1>2. /\ ImportSound(r) /\ local[r].n \in Nat /\ Len(op[r].csv) \in Nat
      /\ Cardinality(Taken(r)) \in Nat
      /\ Cardinality(Taken(r)) <= 2 * local[r].n + OfRow(pc[r])
      /\ 2 * Len(op[r].csv) <= MaxNew
  BY ImportNat DEF Importing
<1>3. NewId(r) \in Ids
  <2>1. Cardinality(Taken(r)) < MaxNew
    BY <1>2, MaxNewAssumption
  <2> QED
    BY <2>1, RoomLeft
<1>4. Inserts(w, NewId(r)) /\ w[NewId(r)] = row
  <2>1. row # Untouched /\ row # NoRow
    BY DEF Untouched, NoRow
  <2> QED
    BY <1>3, <2>1, PutRow
<1>5. ImportPlace(r)'
  BY SMTT(30), <1>1, <1>2 DEF ImportPlace, ImportLabels, Email
<1>6. ImportRoom(r)'
  <2>1. Cardinality(Taken(r)') <= Cardinality(Taken(r)) + 1 /\ Cardinality(Taken(r)') \in Nat
    <3>1. Cardinality(Taken(r)') <= Cardinality(Taken(r)) + 1
      BY <1>1, OneMoreTaken
    <3>2. Taken(r)' \in SUBSET Own(r)
      BY DEF Taken, Own
    <3>3. Cardinality(Taken(r)') \in Nat
      BY <3>2, OwnFinite, FS_Subset, FS_CardinalityType
    <3> QED
      BY <3>1, <3>3
  <2>2. Cardinality(Taken(r)') <= 2 * mem.n + OfRow(label)
    BY <1>2, <2>1
  <2> QED
    BY <1>1, <2>2 DEF ImportRoom
<1> QED
  BY <1>3, <1>4, <1>5, <1>6

LEMMA UserCreated ==
  ASSUME WInv, Hist, Importing, Watch, NEW r \in Requests, op[r].kind = "import_students",
         WebStep(r), stmt[r] = NoWrite, pc[r] \in {"no_user", "name_taken"},
         NEW name, CreateUser(r, name)
  PROVE  ImportSound(r)'
<1> USE DEF WInv, IInv
<1> DEFINE email == Email(r, local[r].n + 1)
<1>1. PICK row, mem, w :
        /\ row = [NewUser(email, name, "student") EXCEPT !.student_code = CsvRow(r).code]
        /\ mem = [local[r] EXCEPT !.ids = <<NewId(r)>>]
        /\ w = Put(NewId(r), row) /\ Proceed(r, mem, w, "user_added")
  BY DEF CreateUser, Email, CsvRow
<1>2. /\ ImportSound(r) /\ DOMAIN local[r] = DOMAIN NoLocals
      /\ local[r].n < Len(op[r].csv) /\ email # Null
  BY DEF Importing, ImportSound, ImportPlace
<1>3. mem.n = local[r].n /\ mem.ids = <<NewId(r)>> /\ DOMAIN mem = DOMAIN NoLocals
  BY <1>1, <1>2 DEF NoLocals
<1>4. IsUser(row, email) /\ "table" \in DOMAIN row /\ row.table = "user"
  BY <1>1 DEF IsUser, NewUser
<1>5. /\ OfRow(pc[r]) \in {0, 1} /\ OfRow("user_added") = OfRow(pc[r]) + 1
      /\ row.table \in {"user", "enrollment"}
      /\ "user_added" \in {"user_added", "enrolled"}
  BY <1>4 DEF OfRow
<1> HIDE DEF email
<1>6. /\ ImportPlace(r)' /\ ImportRoom(r)'
      /\ NewId(r) \in Ids /\ Inserts(w, NewId(r)) /\ w[NewId(r)] = row
  <2>1. w = Put(NewId(r), row) /\ Proceed(r, mem, w, "user_added") /\ "table" \in DOMAIN row
    BY <1>1, <1>4
  <2>2. local[r].n < Len(op[r].csv) /\ Email(r, local[r].n + 1) # Null
    BY <1>2 DEF email
  <2> QED
    BY <1>3, <1>5, <2>1, <2>2, ImportPuts
<1>7. mem.ids[1] = NewId(r) /\ "user_added" # "enrolled" /\ pc[r] # "done"
  BY <1>3
<1>8. /\ mem.ids[1] \in Ids /\ Inserts(w, mem.ids[1])
      /\ IsUser(w[mem.ids[1]], Email(r, mem.n + 1))
  BY <1>3, <1>4, <1>6, <1>7 DEF email
<1> QED
  BY <1>1, <1>3, <1>6, <1>7, <1>8, ImportGoesOn

LEMMA UserEnrols ==
  ASSUME WInv, Hist, Importing, Watch, NEW r \in Requests, op[r].kind = "import_students",
         WebStep(r), stmt[r] = NoWrite, pc[r] = "user_added",
         Issue(r, Put(NewId(r), Enrollment(op[r].id, local[r].ids[1])), "enrolled")
  PROVE  ImportSound(r)'
<1> USE DEF WInv, IInv
<1> DEFINE u == local[r].ids[1]
<1>1. PICK row, mem, w :
        /\ row = Enrollment(op[r].id, u) /\ mem = local[r]
        /\ w = Put(NewId(r), row) /\ Proceed(r, mem, w, "enrolled")
  BY DEF Issue
<1>2. /\ ImportSound(r) /\ DOMAIN local[r] = DOMAIN NoLocals
      /\ local[r].n < Len(op[r].csv) /\ Email(r, local[r].n + 1) # Null
  BY DEF Importing, ImportSound, ImportPlace
<1>3. mem.n = local[r].n /\ DOMAIN mem = DOMAIN NoLocals
  BY <1>1, <1>2
<1>4. IsMember(row, op[r].id, u) /\ "table" \in DOMAIN row /\ row.table = "enrollment"
  BY <1>1 DEF IsMember, Enrollment
<1>5. OfRow(pc[r]) = 1 /\ OfRow("enrolled") = 2
  BY DEF OfRow
<1>6. /\ ImportPlace(r)' /\ ImportRoom(r)'
      /\ NewId(r) \in Ids /\ Inserts(w, NewId(r)) /\ w[NewId(r)] = row
  BY <1>1, <1>2, <1>3, <1>4, <1>5, ImportPuts
<1>7. Intact(r) => u \in Ids /\ IsUser(View(r)[u], Email(r, local[r].n + 1))
  BY <1>2, NothingIssued DEF ImportSound, UserFound
<1> HIDE DEF u
<1>8. Intact(r) =>
        \E v \in Ids : /\ IsUser(View(r)[v], Email(r, mem.n + 1))
                       /\ \E i \in Ids : Inserts(w, i) /\ IsMember(w[i], op[r].id, v)
  BY <1>3, <1>4, <1>6, <1>7
<1>9. "enrolled" # "user_added" /\ pc[r] # "done"
  OBVIOUS
<1> QED
  BY <1>1, <1>3, <1>6, <1>8, <1>9, ImportGoesOn

LEMMA FileTurns ==
  ASSUME WInv, Hist, Importing, Watch, NEW r \in Requests, op[r].kind = "import_students",
         WebStep(r), FindUser(r) \/ NameUser(r) \/ EnrollUser(r),
         ~(\E status : Refuse(r, status))
  PROVE  ImportSound(r)'
<1> USE DEF WInv, IInv
<1> DEFINE email == Email(r, local[r].n + 1)
<1>1. /\ ImportSound(r) /\ local[r].n \in Nat /\ Len(op[r].csv) \in Nat
      /\ DOMAIN local[r] = DOMAIN NoLocals /\ CsvRow(r).email = email
  BY ImportNat DEF Importing, ImportSound, ImportPlace, CsvRow, Email
<1>2. CASE FindUser(r)
  <2>1. /\ pc[r] = "row" /\ stmt[r] = NoWrite /\ local[r].n < Len(op[r].csv)
        /\ \/ email = Null /\ RowDone(r, 0, 1)
           \/ email # Null /\ Go(r, "no_user")
           \/ email # Null /\ \E u \in ByEmail(View(r), email) :
                Keep(r, [local[r] EXCEPT !.ids = <<u>>], "user_added")
    BY <1>1, <1>2 DEF FindUser, At
  <2>2. CASE email = Null /\ RowDone(r, 0, 1)
    BY <2>1, <2>2, RowIsDone
  <2>3. CASE email # Null /\ Go(r, "no_user")
    <3>1. Proceed(r, local[r], NoWrite, "no_user")
      BY <2>3 DEF Go
    <3> QED
      BY <1>1, <2>1, <2>3, <3>1, ImportMoves
  <2>4. ASSUME email # Null, NEW u \in ByEmail(View(r), email),
               Keep(r, [local[r] EXCEPT !.ids = <<u>>], "user_added")
        PROVE  ImportSound(r)'
    <3>1. PICK mem : mem = [local[r] EXCEPT !.ids = <<u>>]
                     /\ Proceed(r, mem, NoWrite, "user_added")
      BY <2>4 DEF Keep
    <3>2. mem.n = local[r].n /\ mem.ids[1] = u /\ DOMAIN mem = DOMAIN NoLocals
      BY <1>1, <3>1 DEF NoLocals
    <3> QED
      BY <2>1, <2>4, <3>1, <3>2, ImportMoves
  <2> QED
    BY <2>1, <2>2, <2>3, <2>4
<1>3. CASE NameUser(r)
  <2>1. /\ pc[r] \in {"no_user", "name_taken"} /\ stmt[r] = NoWrite
        /\ \/ \E name : CreateUser(r, name)
           \/ pc[r] = "no_user" /\ Go(r, "name_taken")
    BY <1>3 DEF NameUser, At
  <2>2. CASE \E name : CreateUser(r, name)
    BY <2>1, <2>2, UserCreated
  <2>3. CASE pc[r] = "no_user" /\ Go(r, "name_taken")
    <3>1. Proceed(r, local[r], NoWrite, "name_taken")
      BY <2>3 DEF Go
    <3> QED
      BY <1>1, <2>1, <2>3, <3>1, ImportMoves
  <2> QED
    BY <2>1, <2>2, <2>3
<1>4. CASE EnrollUser(r)
  <2> DEFINE u == local[r].ids[1]
             member == EnrollmentOf(View(r), op[r].id, u) # {}
  <2>1. /\ stmt[r] = NoWrite
        /\ \/ pc[r] = "user_added" /\ member /\ RowDone(r, 1, 0)
           \/ pc[r] = "user_added"
              /\ Issue(r, Put(NewId(r), Enrollment(op[r].id, u)), "enrolled")
           \/ pc[r] = "enrolled" /\ RowDone(r, 1, 0)
           \/ pc[r] = "excepted" /\ RowDone(r, 0, 1)
    BY <1>4 DEF EnrollUser, At
  <2>2. \A i \in Ids : ~Inserts(stmt[r], i)
    BY <2>1, NothingIssued
  <2>3. pc[r] # "user_added" => local[r].n < Len(op[r].csv) /\ (pc[r] = "excepted" => r \in broken)
    BY <1>1, <2>1 DEF ImportSound, ImportPlace
  <2>4. CASE pc[r] = "user_added" /\ member /\ RowDone(r, 1, 0)
    <3>1. local[r].n < Len(op[r].csv)
      BY <1>1, <2>4 DEF ImportSound, ImportPlace
    <3>2. PICK i : i \in EnrollmentOf(View(r), op[r].id, u)
      BY <2>4
    <3>3. i \in Ids /\ IsMember(View(r)[i], op[r].id, u)
      BY <3>2, Domains DEF EnrollmentOf, MembersOf, RowsOf, IsMember
    <3>4. Intact(r) => NamedMember(r, local[r].n + 1)
      BY <1>1, <2>2, <2>4, <3>3 DEF ImportSound, UserFound, NamedMember, MemberSeen
    <3> QED
      BY <2>1, <2>4, <3>1, <3>4, RowIsDone
  <2>5. CASE pc[r] = "user_added"
             /\ Issue(r, Put(NewId(r), Enrollment(op[r].id, u)), "enrolled")
    BY <2>1, <2>5, UserEnrols
  <2>6. CASE pc[r] = "enrolled" /\ RowDone(r, 1, 0)
    <3>1. Intact(r) => NamedMember(r, local[r].n + 1)
      BY <1>1, <2>2, <2>6 DEF ImportSound, UserEnrolled, NamedMember
    <3> QED
      BY <2>1, <2>3, <2>6, <3>1, RowIsDone
  <2>7. CASE pc[r] = "excepted" /\ RowDone(r, 0, 1)
    BY <2>1, <2>3, <2>7, RowIsDone DEF Intact
  <2> QED
    BY <2>1, <2>4, <2>5, <2>6, <2>7
<1> QED
  BY <1>2, <1>3, <1>4

LEMMA OwnImport ==
  ASSUME WInv, WInv', Effects, Hist, Importing, NEW r \in Requests, Acts(r), WebStep(r), Watch,
         op[r].kind = "import_students"
  PROVE  ImportSound(r)'
<1> USE DEF WInv, IInv
<1>1. /\ pc[r] \in ImportLabels /\ DOMAIN local[r] = DOMAIN NoLocals
      /\ pc = [q \in Requests |-> pc[q]]
  BY DEF Importing, ImportSound, ImportPlace, Shape
<1>2. CASE \E status : Refuse(r, status) /\ pc[r] # "done"
  <2>1. pc'[r] = "done" /\ WebStep(r)
    BY <1>1, <1>2 DEF Refuse
  <2>2. ~Executed(r)
    BY <1>1, <1>2 DEF Refuse, Executed
  <2>3. RollsBack(r) \/ Commits(r)
    BY <1>1, <2>1, <2>2 DEF WebStep, Handled, Continues, Reply
  <2> QED
    BY <2>1, <2>3, ImportEnds
<1>3. CASE Commit(r)
  BY <1>1, <1>3, CommitShape, ImportEnds DEF Commit, Finish
<1>4. CASE Respond(r)
  BY <1>4, ImportResponds
<1>5. CASE Authenticate(r)
  <2>1. stmt[r] = NoWrite /\ pc[r] = "start"
    BY <1>5 DEF Authenticate, Order
  <2>2. CASE Go(r, "handler")
    <3>1. Proceed(r, local[r], NoWrite, "handler")
      BY <2>2 DEF Go
    <3> QED
      BY <1>1, <2>1, <3>1, ImportMoves
  <2> QED
    BY <1>2, <1>5, <2>1, <2>2 DEF Authenticate
<1>6. CASE Refresh(r) \/ Serialize(r) \/ GetOrCreateTag(r) \/ ReplaceTags(r)
  BY <1>1, <1>6 DEF Refresh, Serialize, GetOrCreateTag, ReplaceTags, ImportLabels
<1>7. CASE stmt[r] # NoWrite /\ FlushFails(r)
  <2>1. RollsBack(r)
    BY <1>7, FlushFailsRollsBack
  <2>2. CASE Caught(r)
    <3>1. pc'[r] = "excepted" /\ r \in broken' /\ pc[r] \in {"user_added", "enrolled"}
      BY <1>1, <1>7, <2>2 DEF FlushFails, Caught, ImportLabels
    <3> QED
      BY <2>1, <3>1, ImportEnds
  <2>3. CASE ~Caught(r)
    <3>1. pc'[r] = "done"
      BY <1>1, <1>7, <2>3 DEF FlushFails, Refuse
    <3> QED
      BY <2>1, <3>1, ImportEnds
  <2> QED
    BY <2>2, <2>3
<1>8. CASE DeadlockVictim(r)
  BY <1>7, <1>8 DEF DeadlockVictim, Deadlocked, Waiting
<1>9. CASE ConnectionLost(r)
  BY <1>2, <1>9 DEF ConnectionLost
<1>10. CASE Execute(r)
  <2>1. CASE Stale(r) \/ Duplicate(r) \/ Orphan(r)
    BY <1>7, <1>10, <2>1 DEF Execute
  <2>2. CASE ~(Stale(r) \/ Duplicate(r) \/ Orphan(r))
    <3>1. Executed(r) /\ stmt[r] # NoWrite
      BY <1>10, <2>2 DEF Execute, Executed
    <3> QED
      BY <3>1, ExecutedImport
  <2> QED
    BY <2>1, <2>2
<1>11. CASE ImportStudents(r)
  <2>1. CASE \E status : Refuse(r, status)
    <3>1. pc[r] # "done"
      BY <1>11 DEF ImportStudents, ManageCourse, FindUser, NameUser, EnrollUser, At
    <3> QED
      BY <1>2, <2>1, <3>1
  <2>2. CASE ManageCourse(r, "import_students") /\ ~(\E status : Refuse(r, status))
    <3>1. PICK c : Keep(r, [local[r] EXCEPT !.row = c], "managed")
      BY <2>2 DEF ManageCourse
    <3>2. PICK mem : mem = [local[r] EXCEPT !.row = c] /\ Proceed(r, mem, NoWrite, "managed")
      BY <3>1 DEF Keep
    <3>3. mem.n = local[r].n /\ DOMAIN mem = DOMAIN NoLocals
      BY <1>1, <3>2 DEF NoLocals
    <3>4. pc[r] = "handler" /\ stmt[r] = NoWrite
      BY <2>2 DEF ManageCourse, At
    <3> QED
      BY <3>2, <3>3, <3>4, ImportMoves
  <2>3. CASE At(r, "import_students", "managed") /\ Go(r, "row")
    <3>1. Proceed(r, local[r], NoWrite, "row")
      BY <2>3 DEF Go
    <3> QED
      BY <1>1, <2>3, <3>1, ImportMoves DEF At
  <2>4. CASE At(r, "import_students", "row") /\ local[r].n = Len(op[r].csv) /\ Go(r, "reply")
    <3>1. Proceed(r, local[r], NoWrite, "reply")
      BY <2>4 DEF Go
    <3> QED
      BY <1>1, <2>4, <3>1, ImportMoves DEF At
  <2> QED
    BY <1>11, <2>1, <2>2, <2>3, <2>4, FileTurns DEF ImportStudents
<1> QED
  BY <1>3, <1>4, <1>5, <1>6, <1>8, <1>9, <1>10, <1>11, ActsOfKind DEF Common, Followed

LEMMA ImportInvariance == Spec => []Importing
<1>1. Init => Importing
  <2> SUFFICES ASSUME Init, NEW r \in Requests, op[r].kind = "import_students"
               PROVE  ImportSound(r)
    BY DEF Importing
  <2>1. /\ pc[r] = "start" /\ local[r] = NoLocals /\ writes[r] = NoWrite /\ stmt[r] = NoWrite
    BY DEF Init, SessionInit
  <2>2. Len(op[r].csv) \in Nat
    <3>1. op[r] \in Ops
      BY DEF Init, Ops
    <3>2. SeqOfItsOwn(op[r].csv)
      BY <3>1, RoomAssumption
    <3> QED
      BY <3>2 DEF SeqOfItsOwn
  <2>3. ImportPlace(r)
    BY <2>1, <2>2 DEF ImportPlace, ImportLabels, NoLocals
  <2>4. ImportRoom(r)
    <3>1. Taken(r) = {}
      BY <2>1, NothingIssued, NothingTouched DEF Taken, Touched
    <3>2. Cardinality(Taken(r)) = 0
      BY <3>1, FS_EmptySet
    <3> QED
      BY <2>1, <3>2 DEF ImportRoom, OfRow, NoLocals
  <2>5. RowsEnrolled(r) /\ UserFound(r) /\ UserEnrolled(r)
    BY <2>1 DEF RowsEnrolled, UserFound, UserEnrolled, NoLocals
  <2> QED
    BY <2>3, <2>4, <2>5 DEF ImportSound
<1>2. WInv /\ WInv' /\ Effects /\ Hist /\ Importing /\ [Next]_vars => Importing'
  <2> SUFFICES ASSUME WInv, WInv', Effects, Hist, Importing, [Next]_vars PROVE Importing'
    OBVIOUS
  <2>1. CASE Next
    <3>1. PICK o \in Requests : Acts(o) /\ WebStep(o) /\ Watch
      BY <2>1, NextIsWebStep
    <3>2. op' = op
      BY <3>1, OnlyCommits
    <3>3. ASSUME NEW r \in Requests, op[r].kind = "import_students" PROVE ImportSound(r)'
      BY <3>1, <3>3, OtherImport, OwnImport
    <3> QED
      BY <3>2, <3>3 DEF Importing
  <2>2. CASE UNCHANGED vars
    <3>1. /\ op' = op /\ pc' = pc /\ local' = local /\ db' = db /\ writes' = writes
          /\ stmt' = stmt /\ saved' = saved /\ met' = met /\ broken' = broken
      BY <2>2 DEF vars
    <3>2. ASSUME NEW r \in Requests, ImportSound(r) PROVE ImportSound(r)'
      <4>1. ImportPlace(r)'
        BY <3>1, <3>2 DEF ImportSound, ImportPlace, Email
      <4>2. ImportRoom(r)'
        <5>1. Taken(r)' = Taken(r)
          BY <3>1 DEF Taken, Touched, Inserts, Updates, Own
        <5> QED
          BY <3>1, <3>2, <5>1 DEF ImportSound, ImportRoom, OfRow
      <4>3. View(r)' = View(r) /\ (Intact(r)' => Intact(r))
        BY <3>1 DEF View, Intact, MetSaved
      <4>4. \A i \in Ids : Inserts(stmt[r], i) =>
              Inserts(stmt'[r], i) /\ stmt'[r][i] = stmt[r][i]
        BY <3>1 DEF Inserts, Updates
      <4>5. RowsEnrolled(r)' /\ UserFound(r)' /\ UserEnrolled(r)'
        BY <3>1, <3>2, <4>3, <4>4, FoundStays
      <4> QED
        BY <4>1, <4>2, <4>5 DEF ImportSound
    <3> QED
      BY <3>1, <3>2 DEF Importing
  <2> QED
    BY <2>1, <2>2
<1> QED
  BY <1>1, <1>2, SessionsKeepTables, EffectsInvariance, HistInvariance, PTL DEF Spec

(* A file that is imported and committed has made a member of everyone it  *)
(* names: a row that fails takes the whole transaction with it, so none is *)
(* lost by itself, unless the import met a request that removed members.   *)
THEOREM SavedImportIsWhole == Spec => ImportIsWhole
<1> DEFINE A == \A r \in saved' \ saved :
                  /\ op[r].kind = "import_students"
                  /\ ~MetSaved(r, {"remove_member", "delete_course"})
                  => \A k \in DOMAIN op[r].csv :
                       op[r].csv[k].email # Null =>
                         \E u \in ByEmail(db', op[r].csv[k].email) :
                           EnrollmentOf(db', op[r].id, u) # {}
<1>1. WInv /\ Hist /\ Importing /\ [Next]_vars => [A]_vars
  <2> SUFFICES ASSUME WInv, Importing, Next, NEW r \in saved' \ saved,
                      op[r].kind = "import_students",
                      ~MetSaved(r, {"remove_member", "delete_course"}),
                      NEW k \in DOMAIN op[r].csv, op[r].csv[k].email # Null
               PROVE  \E u \in ByEmail(db', op[r].csv[k].email) :
                        EnrollmentOf(db', op[r].id, u) # {}
    BY DEF vars
  <2> USE DEF WInv, IInv
  <2>1. r \in Requests /\ Commits(r)
    <3>1. PICK o \in Requests : WebStep(o)
      BY NextIsWebStep
    <3> QED
      BY <3>1, OnlyCommits DEF Commits
  <2>2. db' = View(r) /\ DOMAIN db' = Ids /\ pc[r] = "answered" /\ r \notin broken
    BY <2>1, CommitsAt DEF Commits
  <2>3. ImportSound(r) /\ k \in 1..local[r].n
    BY <2>1, <2>2, FileRows DEF Importing, ImportSound, ImportPlace
  <2>4. NamedMember(r, k)
    BY <2>2, <2>3 DEF ImportSound, RowsEnrolled, Intact, Removers, Email
  <2>5. PICK u \in Ids : IsUser(db'[u], Email(r, k)) /\ MemberSeen(r, u)
    BY <2>2, <2>4 DEF NamedMember
  <2>6. PICK i \in Ids : IsMember(db'[i], op[r].id, u)
    BY <2>2, <2>5 DEF MemberSeen
  <2> QED
    BY <2>2, <2>5, <2>6 DEF ByEmail, EnrollmentOf, MembersOf, RowsOf, IsUser, IsMember, Email
<1> QED
  BY <1>1, SessionsKeepTables, HistInvariance, ImportInvariance, PTL DEF Spec, ImportIsWhole
-----------------------------------------------------------------------------
(* Statements the database executes.                                       *)

(* A row that takes row i's place, or is new, has no other row's key.      *)
KeysFree(v, i, row) == \A j \in Ids \ {i} : Keys(row) \cap Keys(v[j]) = {}
ParentsSeen(v, row) == \A p \in Parents(row) : Holds(v, p)

(* A deletion; a new row whose keys are free and whose parents are there;  *)
(* columns of a row that is there which give it no taken key and no other  *)
(* parent.                                                                 *)
Fine(v, w) ==
  \/ \E S : w = Delete(S)
  \/ \E i, row : /\ w = Put(i, row) /\ IsRow(row) /\ row = [c \in DOMAIN row |-> row[c]]
                 /\ i \in Ids => ~Exists(v[i])
                 /\ KeysFree(v, i, row) /\ ParentsSeen(v, row)
  \/ \E i, set : /\ w = Put(i, set) /\ "table" \notin DOMAIN set
                 /\ i \in Ids => /\ Exists(v[i]) /\ KeysFree(v, i, Merge(v[i], set))
                                 /\ Parents(Merge(v[i], set)) \subseteq Parents(v[i])
Runs(r) == ~Stale(r) /\ ~Duplicate(r) /\ ~Orphan(r)

LEMMA NoWriteFine == ASSUME NEW v PROVE Fine(v, NoWrite)
<1>1. NoWrite = Delete({})
  BY DEF NoWrite, Delete
<1> QED
  BY <1>1 DEF Fine

LEMMA DeleteRuns ==
  ASSUME Shape, NEW r \in Requests, NEW S, stmt[r] = Delete(S) PROVE Runs(r)
<1>1. \A i \in Ids : ~Updates(stmt[r], i) /\ ~Inserts(stmt[r], i)
                     /\ (Deletes(stmt[r], i) \/ stmt[r][i] = Untouched)
  BY OnlyDeletes DEF Delete, Deletes
<1>2. \A i \in Touched(Result(r)) : i \in Ids /\ Result(r)[i] = NoRow
  BY <1>1 DEF Touched, Result
<1>3. \A i \in Touched(Result(r)) : Keys(After(r)[i]) = {} /\ Parents(Result(r)[i]) = {}
  BY <1>2, AfterAt, Absent, NothingOfNoRow
<1> QED
  BY <1>1, <1>2, <1>3 DEF Runs, Stale, Duplicate, Orphan, NewParents

(* A statement for one row.                                                *)
LEMMA PutResult ==
  ASSUME Shape, NEW r \in Requests, NEW i \in Ids, NEW s, stmt[r] = Put(i, s),
         s # NoRow, s # Untouched, "table" \notin DOMAIN s \/ Exists(s)
  PROVE  /\ Result(r)[i] = Merge(View(r)[i], s)
         /\ Touched(Result(r)) \subseteq {i}
         /\ \A j \in Ids : j # i => After(r)[j] = View(r)[j]
         /\ \A j \in Ids : j # i => ~Updates(stmt[r], j) /\ ~Inserts(stmt[r], j)
         /\ i \in Touched(Result(r)) => After(r)[i] = Merge(View(r)[i], s)
<1>1. stmt[r][i] = s /\ \A j \in Ids : j # i => stmt[r][j] = Untouched
  BY DEF Put, NoWrite
<1>2. ~Deletes(stmt[r], i)
  BY <1>1 DEF Deletes
<1>3. Result(r)[i] = Merge(View(r)[i], s)
  BY <1>1, <1>2 DEF Result
<1>4. \A j \in Ids : j # i => Result(r)[j] = Untouched
  BY <1>1 DEF Result
<1>5. Touched(Result(r)) \subseteq {i}
  BY <1>4 DEF Touched
<1>6. \A j \in Ids : j # i => After(r)[j] = View(r)[j]
  BY <1>5, AfterAt
<1>7. \A j \in Ids : j # i => ~Updates(stmt[r], j) /\ ~Inserts(stmt[r], j)
  BY <1>1 DEF Updates, Inserts, Untouched
<1> QED
  BY <1>3, <1>5, <1>6, <1>7, AfterAt

(* A new row is stored as it is given.                                     *)
LEMMA MergeNew ==
  ASSUME NEW row, row = [c \in DOMAIN row |-> row[c]], "table" \in DOMAIN row
  PROVE  Merge(NoRow, row) = row
<1>1. DOMAIN NoRow \cup DOMAIN row = DOMAIN row
  BY DEF NoRow
<1> QED
  BY <1>1 DEF Merge

LEMMA InsertRuns ==
  ASSUME Shape, Typing, NEW r \in Requests, NEW i \in Ids, NEW row, stmt[r] = Put(i, row),
         IsRow(row), row = [c \in DOMAIN row |-> row[c]], ~Exists(View(r)[i]),
         KeysFree(View(r), i, row), ParentsSeen(View(r), row)
  PROVE  Runs(r)
<1> DEFINE v == View(r)[i]
<1>1. row # NoRow /\ row # Untouched /\ Exists(row) /\ "table" \in DOMAIN row
  BY Absent DEF IsRow, Exists
<1>2. v = NoRow
  <2>1. Stored(v)
    BY SeenTyped
  <2> QED
    BY <2>1 DEF Stored, IsRow, Exists
<1>3. /\ Result(r)[i] = row /\ Touched(Result(r)) \subseteq {i}
      /\ \A j \in Ids : j # i => After(r)[j] = View(r)[j]
      /\ \A j \in Ids : j # i => ~Updates(stmt[r], j) /\ ~Inserts(stmt[r], j)
      /\ i \in Touched(Result(r)) => After(r)[i] = row
  BY <1>1, <1>2, PutResult, MergeNew
<1>4. i \in Touched(Result(r))
  BY <1>1, <1>3 DEF Touched
<1>5. stmt[r][i] = row
  BY DEF Put, NoWrite
<1>6. ~Stale(r)
  BY <1>1, <1>3, <1>5 DEF Stale, Updates
<1>7. ~Duplicate(r)
  <2>1. \A j \in Ids : i # j => Keys(After(r)[i]) \cap Keys(After(r)[j]) = {}
    BY <1>3, <1>4 DEF KeysFree
  <2> QED
    BY <1>3, <2>1 DEF Duplicate
<1>8. ~Orphan(r)
  <2> SUFFICES ASSUME NEW p \in Parents(row) PROVE Holds(After(r), p)
    BY <1>3 DEF Orphan, NewParents
  <2>1. Holds(View(r), p)
    BY DEF ParentsSeen
  <2>2. p[1] \in DOMAIN Tables
    BY ParentTable
  <2>3. p[2] \in Ids /\ View(r)[p[2]].table = p[1]
    BY <2>1, Domains DEF Holds, RowsOf
  <2>4. p[2] # i
    BY <2>2, <2>3 DEF Exists
  <2> QED
    BY <1>3, <2>3, <2>4, Domains DEF Holds, RowsOf
<1> QED
  BY <1>6, <1>7, <1>8 DEF Runs

LEMMA UpdateRuns ==
  ASSUME Shape, NEW r \in Requests, NEW i \in Ids, NEW set, stmt[r] = Put(i, set),
         "table" \notin DOMAIN set, Exists(View(r)[i]),
         KeysFree(View(r), i, Merge(View(r)[i], set)),
         Parents(Merge(View(r)[i], set)) \subseteq Parents(View(r)[i])
  PROVE  Runs(r)
<1> DEFINE v == View(r)[i]
<1>1. set # NoRow /\ set # Untouched
  BY DEF NoRow, Untouched
<1>2. /\ Result(r)[i] = Merge(v, set) /\ Touched(Result(r)) \subseteq {i}
      /\ \A j \in Ids : j # i => After(r)[j] = View(r)[j]
      /\ \A j \in Ids : j # i => ~Updates(stmt[r], j) /\ ~Inserts(stmt[r], j)
      /\ i \in Touched(Result(r)) => After(r)[i] = Merge(v, set)
  BY <1>1, PutResult
<1>3. stmt[r][i] = set
  BY DEF Put, NoWrite
<1>4. ~Stale(r)
  BY <1>2 DEF Stale
<1>5. ~Inserts(stmt[r], i)
  BY <1>3 DEF Inserts, Updates
<1>6. ~Duplicate(r)
  <2>1. i \in Touched(Result(r)) =>
          \A j \in Ids : i # j => Keys(After(r)[i]) \cap Keys(After(r)[j]) = {}
    BY <1>2 DEF KeysFree
  <2> QED
    BY <1>2, <1>5, <2>1 DEF Duplicate
<1>7. ~Orphan(r)
  BY <1>2 DEF Orphan, NewParents
<1> QED
  BY <1>4, <1>6, <1>7 DEF Runs

(* Such a statement does not fail.                                         *)
LEMMA FineRuns ==
  ASSUME WInv, NEW r \in Requests, Fine(View(r), stmt[r]) PROVE Runs(r)
<1> USE DEF WInv, IInv
<1>1. CASE \E S : stmt[r] = Delete(S)
  BY <1>1, DeleteRuns
<1>2. ASSUME NEW i, NEW s, i \notin Ids, stmt[r] = Put(i, s) PROVE stmt[r] = Delete({})
  BY <1>2 DEF Put, Delete, NoWrite
<1>3. CASE \E i, row : /\ stmt[r] = Put(i, row) /\ IsRow(row)
                       /\ row = [c \in DOMAIN row |-> row[c]]
                       /\ i \in Ids => ~Exists(View(r)[i])
                       /\ KeysFree(View(r), i, row) /\ ParentsSeen(View(r), row)
  <2>1. PICK i, row : /\ stmt[r] = Put(i, row) /\ IsRow(row)
                      /\ row = [c \in DOMAIN row |-> row[c]]
                      /\ i \in Ids => ~Exists(View(r)[i])
                      /\ KeysFree(View(r), i, row) /\ ParentsSeen(View(r), row)
    BY <1>3
  <2> QED
    BY <1>1, <1>2, <2>1, InsertRuns
<1>4. CASE \E i, set : /\ stmt[r] = Put(i, set) /\ "table" \notin DOMAIN set
                       /\ i \in Ids =>
                            /\ Exists(View(r)[i])
                            /\ KeysFree(View(r), i, Merge(View(r)[i], set))
                            /\ Parents(Merge(View(r)[i], set)) \subseteq Parents(View(r)[i])
  <2>1. PICK i, set : /\ stmt[r] = Put(i, set) /\ "table" \notin DOMAIN set
                      /\ i \in Ids =>
                           /\ Exists(View(r)[i])
                           /\ KeysFree(View(r), i, Merge(View(r)[i], set))
                           /\ Parents(Merge(View(r)[i], set)) \subseteq Parents(View(r)[i])
    BY <1>4
  <2> QED
    BY <1>1, <1>2, <2>1, UpdateRuns
<1> QED
  BY <1>1, <1>3, <1>4 DEF Fine

(* Rows that have a key in common are of one table and agree on a unique   *)
(* constraint of it.                                                       *)
LEMMA KeyClash ==
  ASSUME NEW a, NEW b, Keys(a) \cap Keys(b) # {}
  PROVE  /\ Exists(a) /\ Exists(b) /\ a.table = b.table
         /\ \E c \in Tables[a.table].unique :
              \A k \in DOMAIN c : a[c[k]] = b[c[k]] /\ a[c[k]] # Null
<1>1. Exists(a) /\ Exists(b)
  BY DEF Keys
<1>2. PICK x \in Keys(a) : x \in Keys(b)
  OBVIOUS
<1>3. PICK c \in Tables[a.table].unique :
        /\ \A k \in DOMAIN c : a[c[k]] # Null
        /\ x = <<a.table, c, [k \in DOMAIN c |-> a[c[k]]]>>
  BY <1>1, <1>2 DEF Keys
<1>4. PICK d \in Tables[b.table].unique :
        x = <<b.table, d, [k \in DOMAIN d |-> b[d[k]]]>>
  BY <1>1, <1>2 DEF Keys
<1>5. a.table = b.table /\ c = d
      /\ [k \in DOMAIN c |-> a[c[k]]] = [k \in DOMAIN c |-> b[c[k]]]
  BY <1>3, <1>4
<1>6. ASSUME NEW k \in DOMAIN c PROVE a[c[k]] = b[c[k]]
  <2>1. [m \in DOMAIN c |-> a[c[m]]][k] = [m \in DOMAIN c |-> b[c[m]]][k]
    BY <1>5
  <2> QED
    BY <2>1
<1> QED
  BY <1>1, <1>3, <1>5, <1>6

LEMMA FreeKeys ==
  ASSUME NEW v, NEW i, NEW row,
         \A j \in Ids \ {i} : v[j].table = row.table =>
           \A c \in Tables[row.table].unique :
             \E k \in DOMAIN c : row[c[k]] = Null \/ row[c[k]] # v[j][c[k]]
  PROVE  KeysFree(v, i, row)
<1> SUFFICES ASSUME NEW j \in Ids \ {i}, Keys(row) \cap Keys(v[j]) # {} PROVE FALSE
  BY DEF KeysFree
<1>1. /\ row.table = v[j].table
      /\ \E c \in Tables[row.table].unique :
           \A k \in DOMAIN c : row[c[k]] = v[j][c[k]] /\ row[c[k]] # Null
  BY KeyClash
<1> QED
  BY <1>1

LEMMA SeenParents ==
  ASSUME NEW v, NEW row,
         \A c \in DOMAIN Tables[row.table].foreign :
           row[c] \in RowsOf(v, Tables[row.table].foreign[c])
  PROVE  ParentsSeen(v, row)
<1> SUFFICES ASSUME NEW p \in Parents(row) PROVE Holds(v, p)
  BY DEF ParentsSeen
<1>1. PICK c \in DOMAIN Tables[row.table].foreign :
        p = <<Tables[row.table].foreign[c], row[c]>>
  BY DEF Parents
<1> QED
  BY <1>1 DEF Holds

(* Columns that are no foreign keys leave the parents alone.               *)
LEMMA SameParents ==
  ASSUME NEW row, NEW set, IsRow(row), "table" \notin DOMAIN set,
         DOMAIN set \cap DOMAIN Tables[row.table].foreign = {},
         DOMAIN Tables[row.table].foreign \subseteq Tables[row.table].columns
  PROVE  Merge(row, set).table = row.table /\ Parents(Merge(row, set)) \subseteq Parents(row)
<1>1. "table" \in DOMAIN row /\ Exists(row)
  BY DEF IsRow, Exists
<1>2. Merge(row, set).table = row.table /\ Exists(Merge(row, set))
  BY <1>1, MergedTable DEF Exists
<1>3. \A c \in DOMAIN Tables[row.table].foreign : Merge(row, set)[c] = row[c]
  BY DEF IsRow, Merge
<1> QED
  BY <1>1, <1>2, <1>3 DEF Parents

-----------------------------------------------------------------------------
(* Requests nothing runs concurrently with.                                *)
Lone(r) == Running(r) /\ Alone(r)

(* What such a request has found is still so: it has written nothing until *)
(* its first statement.                                                    *)
Early == {"handler", "email_free", "managed", "unlocked", "problem_found",
          "course_found", "user_found"}
ContestOps == {"update_contest", "delete_contest", "assign_contest_problem",
               "unassign_contest_problem"}
CourseOps == {"update_course", "delete_course", "invite_member", "remove_member",
              "import_students", "export_course_scores", "assign_course_problem",
              "unassign_course_problem"}
RefreshOps == {"update_contest", "update_course", "update_testcase"}
ShowsRows(r, v) ==
  LET o == op[r] IN
  \/ o.kind \in RowPages
  \/ o.kind = "list_contests" /\ RowsOf(v, "contest") # {}
  \/ o.kind = "list_courses" /\ ListForViewer(v, o.user) # {}
  \/ o.kind = "list_testcases" /\ TestcasesOf(v, o.id) # {}
Known(r, v, mem, label) ==
  LET o == op[r] IN
  /\ label \in Early /\ o.kind \in RoleOps \cup UserOps => o.user \in RowsOf(v, "user")
  /\ label = "handler" => mem = NoLocals
  /\ label \in {"managed", "found"} => DOMAIN mem = DOMAIN NoLocals
  /\ label = "email_free" => ByEmail(v, o.email) = {}
  /\ label = "managed" /\ o.kind \in ContestOps =>
       o.id \in RowsOf(v, "contest") /\ mem.row = v[o.id]
  /\ label = "managed" /\ o.kind \in CourseOps =>
       o.id \in RowsOf(v, "course") /\ mem.row = v[o.id]
  /\ label = "unlocked" => o.id \in RowsOf(v, "contest")
  /\ label = "problem_found" =>
       /\ o.problem \in RowsOf(v, "problem")
       /\ o.kind = "assign_contest_problem" => o.id \in RowsOf(v, "contest")
       /\ o.kind = "assign_course_problem" => o.id \in RowsOf(v, "course")
  /\ label = "course_found" => mem.ids[1] \in RowsOf(v, "course")
  /\ label = "user_found" => mem.ids[1] \in RowsOf(v, "user") /\ o.id \in RowsOf(v, "course")
  /\ label = "refresh" => o.id \in Ids /\ Exists(v[o.id]) /\ o.kind \in RefreshOps
  /\ label = "updated" => o.id \in RowsOf(v, "problem") /\ o.kind = "update_problem"
  /\ label \in {"problems", "accepted", "progress"} /\ o.kind = "export_course_scores" =>
       (mem.seen # {} => MembersOf(v, o.id) # {})
  /\ label = "page" /\ mem.seen # {} => ShowsRows(r, v)

(* Its next statement does not fail, unless for a reason of its own.       *)
LoneSound(r) ==
  Lone(r) =>
    /\ pc[r] \in Early => writes[r] = NoWrite /\ stmt[r] = NoWrite
    /\ pc[r] = "page" => stmt[r] = NoWrite
    /\ Known(r, View(r), local[r], pc[r])
    /\ Caught(r) \/ Fine(View(r), stmt[r]) \/ FailsAlone(r)
Explained(r) ==
  answer[r] = "none" /\ answer'[r] = "500" => ~Alone(r) \/ FailsAlone(r)

LEMMA MetGrows ==
  ASSUME Hist, Watch, NEW r \in Requests, Alone(r)' PROVE Alone(r)
  BY DEF Watch, Alone, Hist

(* Why it fails by itself depends on what it sees.                         *)
LEMMA FailureStays ==
  ASSUME NEW r \in Requests, op' = op, View(r)' = View(r), r \in broken => r \in broken',
         FailsAlone(r)
  PROVE  FailsAlone(r)'
<1>1. \A t, i : Row(r, t, i)' = Row(r, t, i)
  BY DEF Row
<1>2. Incomparable(r)' <=> Incomparable(r)
  BY DEF Incomparable
<1> QED
  BY <1>1, <1>2 DEF FailsAlone

(* What a step of a request that nothing runs concurrently with leaves.    *)
Explains(r) == LoneSound(r)' /\ Explained(r)
Turn(r) == WInv /\ Hist /\ Watch /\ LettersUpper /\ LoneSound(r) /\ Alone(r)
CaughtAt == {"user_added", "enrolled", "testcase_added"}

LEMMA NotAloneExplains ==
  ASSUME Hist, Watch, NEW r \in Requests, ~Alone(r) PROVE Explains(r)
  BY MetGrows DEF Explains, LoneSound, Lone, Explained

LEMMA ReplyExplains ==
  ASSUME WInv, NEW r \in Requests, stmt[r] = NoWrite, Reply(r) PROVE Explains(r)
<1>1. pc'[r] = "answered" /\ stmt'[r] = NoWrite
  BY DEF Reply, WInv, IInv, Shape
<1>2. answer'[r] # "500" \/ answer[r] = "500"
  BY DEF Reply
<1>3. Fine(View(r)', NoWrite)
  BY NoWriteFine
<1>4. Fine(View(r), stmt[r])'
  BY <1>1, <1>3 DEF Fine, Delete, Put, NoWrite, KeysFree, ParentsSeen, Ids
<1>5. Known(r, View(r), local[r], pc[r])'
  BY <1>1 DEF Known, Early
<1> QED
  BY <1>1, <1>2, <1>4, <1>5 DEF Explains, LoneSound, Explained, Early

LEMMA EndExplains ==
  ASSUME NEW r \in Requests, pc'[r] = "done", Explained(r) PROVE Explains(r)
  BY DEF Explains, LoneSound, Lone, Running

LEMMA RefuseExplains ==
  ASSUME WInv, NEW r \in Requests, NEW status, Refuse(r, status),
         status # "500" \/ FailsAlone(r)
  PROVE  Explains(r)
<1>1. pc'[r] = "done"
  BY DEF Refuse, WInv, IInv, Shape
<1>2. Explained(r)
  BY DEF Refuse, Explained, WInv, IInv, Shape
<1> QED
  BY <1>1, <1>2, EndExplains

LEMMA GoesOnExplains ==
  ASSUME NEW r \in Requests, Turn(r), NEW mem, NEW w, NEW label, Proceed(r, mem, w, label),
         label \in Early => writes[r] = NoWrite /\ w = NoWrite, label = "page" => w = NoWrite,
         Known(r, View(r), mem, label),
         label \in CaughtAt \/ Fine(View(r), w) \/ FailsAlone(r)
  PROVE  Explains(r)
<1> USE DEF Turn
<1>1. /\ local'[r] = mem /\ stmt'[r] = w /\ pc'[r] = label
      /\ op' = op /\ writes' = writes /\ View(r)' = View(r)
  BY Proceeded
<1>2. broken' = broken /\ answer' = answer
  BY DEF Proceed
<1>3. FailsAlone(r) => FailsAlone(r)'
  BY <1>1, <1>2, FailureStays
<1>4. Known(r, View(r), local[r], pc[r])'
  BY <1>1 DEF Known, ShowsRows
<1>5. Caught(r)' \/ Fine(View(r), stmt[r])' \/ FailsAlone(r)'
  <2>1. Fine(View(r), w) => Fine(View(r)', w)
    BY <1>1
  <2>2. Fine(View(r)', w) => Fine(View(r), stmt[r])'
    BY <1>1 DEF Fine, Delete, Put, NoWrite, KeysFree, ParentsSeen, Ids
  <2> QED
    BY <1>1, <1>3, <2>1, <2>2 DEF Caught, CaughtAt
<1> QED
  BY <1>1, <1>2, <1>4, <1>5 DEF Explains, LoneSound, Explained

(* What a label says nothing of.                                           *)
Plain == {"row", "no_user", "name_taken", "pair", "tags", "unlinked", "reply", "viewed",
          "listed", "loaded", "count", "members", "cases", "answered"} \cup CaughtAt
LEMMA PlainKnown ==
  ASSUME NEW r, NEW v, NEW mem, NEW label \in Plain
  PROVE  Known(r, v, mem, label) /\ label \notin Early /\ label # "page"
  BY DEF Known, Plain, Early, CaughtAt

LEMMA ReadExplains ==
  ASSUME NEW r \in Requests, Turn(r), NEW mem, NEW label, Proceed(r, mem, NoWrite, label),
         label \in Early => writes[r] = NoWrite, Known(r, View(r), mem, label)
  PROVE  Explains(r)
  BY GoesOnExplains, NoWriteFine

LEMMA WriteExplains ==
  ASSUME NEW r \in Requests, Turn(r), NEW w, NEW label \in Plain, Issue(r, w, label),
         label \in CaughtAt \/ Fine(View(r), w) \/ FailsAlone(r)
  PROVE  Explains(r)
  BY GoesOnExplains, PlainKnown DEF Issue

LEMMA PlainExplains ==
  ASSUME NEW r \in Requests, Turn(r), NEW label \in Plain,
         Go(r, label) \/ \E mem : Keep(r, mem, label)
  PROVE  Explains(r)
<1>1. PICK mem : Proceed(r, mem, NoWrite, label)
  BY DEF Go, Keep
<1> QED
  BY <1>1, ReadExplains, PlainKnown

(* A page: it shows rows of the ORM, or none.                              *)
LEMMA PageExplains ==
  ASSUME NEW r \in Requests, Turn(r), NEW mem, mem.seen # {} => ShowsRows(r, View(r)),
         Keep(r, mem, "page") \/ (Go(r, "page") /\ mem = local[r])
  PROVE  Explains(r)
<1>1. Proceed(r, mem, NoWrite, "page")
  BY DEF Go, Keep
<1>2. Known(r, View(r), mem, "page")
  BY DEF Known, Early
<1> QED
  BY <1>1, <1>2, ReadExplains DEF Early

(* What a request goes by.                                                 *)
LEMMA Founded ==
  ASSUME NEW r \in Requests, Turn(r), pc[r] \notin {"start", "done"}
  PROVE  /\ Known(r, View(r), local[r], pc[r]) /\ r \notin saved
         /\ pc[r] \in Early => writes[r] = NoWrite
  BY DEF Turn, LoneSound, Lone, Running, WInv, IInv, Order

LEMMA NewIsFree ==
  ASSUME WInv, NEW r \in Requests, r \notin saved, NewId(r) \in Ids,
         NewId(r) \notin Touched(writes[r])
  PROVE  ~Exists(View(r)[NewId(r)])
<1>1. NewId(r) \in Own(r)
  BY NewIdOwn
<1>2. View(r)[NewId(r)] = db[NewId(r)]
  BY ViewAt DEF WInv, IInv
<1> QED
  BY <1>1, <1>2 DEF WInv, IInv, Identity

LEMMA InsertFine ==
  ASSUME WInv, NEW r \in Requests, r \notin saved,
         NewId(r) \in Ids => NewId(r) \notin Touched(writes[r]),
         NEW row, IsRow(row), row = [c \in DOMAIN row |-> row[c]],
         \A j \in Ids : j # NewId(r) /\ View(r)[j].table = row.table =>
           \A c \in Tables[row.table].unique :
             \E k \in DOMAIN c : row[c[k]] = Null \/ row[c[k]] # View(r)[j][c[k]],
         \A c \in DOMAIN Tables[row.table].foreign :
           row[c] \in RowsOf(View(r), Tables[row.table].foreign[c])
  PROVE  Fine(View(r), Put(NewId(r), row))
<1>1. KeysFree(View(r), NewId(r), row)
  BY FreeKeys
<1>2. ParentsSeen(View(r), row)
  BY SeenParents
<1>3. NewId(r) \in Ids => ~Exists(View(r)[NewId(r)])
  BY NewIsFree
<1> QED
  BY <1>1, <1>2, <1>3 DEF Fine

(* The first row a request inserts.                                        *)
LEMMA FirstFine ==
  ASSUME NEW r \in Requests, Turn(r), pc[r] \in Early,
         NEW row, IsRow(row), row = [c \in DOMAIN row |-> row[c]],
         \A j \in Ids : j # NewId(r) /\ View(r)[j].table = row.table =>
           \A c \in Tables[row.table].unique :
             \E k \in DOMAIN c : row[c[k]] = Null \/ row[c[k]] # View(r)[j][c[k]],
         \A c \in DOMAIN Tables[row.table].foreign :
           row[c] \in RowsOf(View(r), Tables[row.table].foreign[c])
  PROVE  Fine(View(r), Put(NewId(r), row))
<1>1. writes[r] = NoWrite /\ r \notin saved
  BY Founded DEF Early
<1>2. NewId(r) \notin Touched(writes[r])
  BY <1>1, NothingTouched
<1> QED
  BY <1>1, <1>2, InsertFine DEF Turn

(* Columns set of a row that is seen.                                      *)
LEMMA UpdateFine ==
  ASSUME WInv, NEW r \in Requests, NEW i \in Ids, NEW set, IsRow(View(r)[i]),
         NEW t, View(r)[i].table = t,
         "table" \notin DOMAIN set, DOMAIN set \subseteq Tables[t].columns,
         NEW base, \A c \in DOMAIN set : set[c] = base[c] => set[c] = View(r)[i][c],
         DOMAIN set \cap DOMAIN Tables[t].foreign = {},
         DOMAIN Tables[t].foreign \subseteq Tables[t].columns,
         \A j \in Ids : j # i /\ View(r)[j].table = t =>
           \A c \in Tables[t].unique :
             \/ \A k \in DOMAIN c :
                  /\ c[k] \in Tables[t].columns
                  /\ c[k] \in DOMAIN set => set[c[k]] = View(r)[i][c[k]]
             \/ \E k \in DOMAIN c : c[k] \in DOMAIN set /\ set[c[k]] # View(r)[j][c[k]]
  PROVE  Fine(View(r), Update(i, set, base))
<1> DEFINE v == View(r)
           change == Changed(set, base)
           row == Merge(v[i], change)
<1>1. DOMAIN change \subseteq DOMAIN set /\ "table" \notin DOMAIN change
  BY DEF Changed
<1>2. row.table = v[i].table /\ Parents(row) \subseteq Parents(v[i])
  BY <1>1, SameParents
<1>3. \A c \in DOMAIN v[i] : row[c] = IF c \in DOMAIN set THEN set[c] ELSE v[i][c]
  BY DEF Merge, Changed
<1>4. Exists(v[i])
  BY DEF IsRow, Exists
<1>5. ASSUME NEW j \in Ids \ {i}, v[j].table = row.table, NEW c \in Tables[row.table].unique
      PROVE  \E k \in DOMAIN c : row[c[k]] = Null \/ row[c[k]] # v[j][c[k]]
  <2>1. CASE \A k \in DOMAIN c : /\ c[k] \in Tables[v[i].table].columns
                                 /\ c[k] \in DOMAIN set => set[c[k]] = v[i][c[k]]
    <3>1. \A k \in DOMAIN c : row[c[k]] = v[i][c[k]]
      BY <1>3, <2>1 DEF IsRow
    <3>2. Keys(v[i]) \cap Keys(v[j]) = {}
      BY Domains DEF WInv, IInv, KeysOnce, Unique
    <3>3. ~(\A k \in DOMAIN c : v[i][c[k]] = v[j][c[k]] /\ v[i][c[k]] # Null)
      BY <1>2, <1>4, <1>5, <3>2, KeyShared
    <3> QED
      BY <3>1, <3>3
  <2>2. CASE \E k \in DOMAIN c : c[k] \in DOMAIN set /\ set[c[k]] # v[j][c[k]]
    <3>1. PICK k \in DOMAIN c : c[k] \in DOMAIN set /\ set[c[k]] # v[j][c[k]]
      BY <2>2
    <3>2. row[c[k]] = set[c[k]]
      BY <1>3, <3>1 DEF IsRow
    <3> QED
      BY <3>1, <3>2
  <2> QED
    BY <1>2, <1>5, <2>1, <2>2
<1>6. KeysFree(v, i, row)
  <2> HIDE DEF row
  <2> QED
    BY <1>5, FreeKeys
<1>7. Fine(v, Put(i, change))
  BY <1>1, <1>2, <1>4, <1>6 DEF Fine
<1> QED
  BY <1>7, NoWriteFine DEF Update

(* The constraints of the tables requests insert rows into.                *)
LEMMA UniqueColumns ==
  /\ Tables["user"].unique = {<<"email">>, <<"username">>, <<"student_code">>}
  /\ Tables["contest"].unique = {<<"slug">>}
  /\ Tables["contest_problem"].unique = {<<"contest", "problem">>, <<"contest", "letter">>}
  /\ Tables["registration"].unique = {<<"contest", "user">>}
  /\ Tables["course"].unique = {<<"code">>, <<"invite">>}
  /\ Tables["enrollment"].unique = {<<"course", "user">>}
  /\ Tables["assignment"].unique = {<<"course", "problem">>}
  /\ Tables["tag"].unique = {<<"slug">>}
  /\ Tables["problem_tag"].unique = {<<"problem", "tag">>}
  /\ Tables["problem"].unique = {} /\ Tables["testcase"].unique = {}
  BY DEF Tables, UserTables, ProblemTables, TestcaseTables, TagTables, ContestTables, CourseTables
LEMMA ForeignColumns ==
  /\ DOMAIN Tables["user"].foreign = {} /\ DOMAIN Tables["tag"].foreign = {}
  /\ \A t \in {"contest", "course"} :
       DOMAIN Tables[t].foreign = {"owner"} /\ Tables[t].foreign["owner"] = "user"
  /\ DOMAIN Tables["problem"].foreign = {"author"} /\ Tables["problem"].foreign["author"] = "user"
  /\ \A t \in {"contest_problem", "registration"} :
       "contest" \in DOMAIN Tables[t].foreign /\ Tables[t].foreign["contest"] = "contest"
  /\ DOMAIN Tables["contest_problem"].foreign = {"contest", "problem"}
  /\ DOMAIN Tables["registration"].foreign = {"contest", "user"}
  /\ \A t \in {"enrollment", "assignment"} :
       "course" \in DOMAIN Tables[t].foreign /\ Tables[t].foreign["course"] = "course"
  /\ DOMAIN Tables["enrollment"].foreign = {"course", "user"}
  /\ DOMAIN Tables["assignment"].foreign = {"course", "problem"}
  /\ \A t \in {"registration", "enrollment"} : Tables[t].foreign["user"] = "user"
  /\ DOMAIN Tables["testcase"].foreign = {"problem"}
  /\ DOMAIN Tables["problem_tag"].foreign = {"problem", "tag"}
  /\ \A t \in {"contest_problem", "assignment", "testcase", "problem_tag"} :
       Tables[t].foreign["problem"] = "problem"
  /\ Tables["problem_tag"].foreign["tag"] = "tag"
<1>1. DOMAIN Tables["user"].foreign = {} /\ DOMAIN Tables["tag"].foreign = {}
  BY DEF Tables, UserTables, ProblemTables, TestcaseTables, TagTables,
         ContestTables, CourseTables
<1>2. /\ Tables["contest"].foreign = [owner |-> "user"]
     /\ Tables["course"].foreign = [owner |-> "user"]
     /\ Tables["problem"].foreign = [author |-> "user"]
  BY DEF Tables, UserTables, ProblemTables, TestcaseTables, TagTables,
         ContestTables, CourseTables
<1>3. /\ Tables["contest_problem"].foreign = [contest |-> "contest", problem |-> "problem"]
     /\ Tables["registration"].foreign = [contest |-> "contest", user |-> "user"]
  BY DEF Tables, UserTables, ProblemTables, TestcaseTables, TagTables,
         ContestTables, CourseTables
<1>4. /\ Tables["enrollment"].foreign = [course |-> "course", user |-> "user"]
     /\ Tables["assignment"].foreign = [course |-> "course", problem |-> "problem"]
  BY DEF Tables, UserTables, ProblemTables, TestcaseTables, TagTables,
         ContestTables, CourseTables
<1>5. /\ Tables["testcase"].foreign = [problem |-> "problem"]
     /\ Tables["problem_tag"].foreign = [problem |-> "problem", tag |-> "tag"]
  BY DEF Tables, UserTables, ProblemTables, TestcaseTables, TagTables,
         ContestTables, CourseTables
<1> QED
  BY <1>1, <1>2, <1>3, <1>4, <1>5

(* A look-up that finds nothing.                                           *)
LEMMA NoneSuch ==
  ASSUME WInv, NEW r \in Requests, NEW j \in Ids, NEW t, View(r)[j].table = t
  PROVE  j \in RowsOf(View(r), t)
  BY Domains DEF RowsOf, WInv, IInv

(* An authenticated user.                                                  *)
LEMMA SignedIn ==
  ASSUME NEW r \in Requests, Turn(r), pc[r] \in Early, op[r].kind \in RoleOps \cup UserOps
  PROVE  op[r].user \in RowsOf(View(r), "user")
<1>1. pc[r] \notin {"start", "done"}
  BY DEF Early
<1> QED
  BY <1>1, Founded DEF Known

LEMMA AuthenticateExplains ==
  ASSUME NEW r \in Requests, Turn(r), writes[r] = NoWrite, local[r] = NoLocals, Authenticate(r)
  PROVE  Explains(r)
<1>1. CASE Refuse(r, "401") \/ Refuse(r, "403")
  BY <1>1, RefuseExplains DEF Turn
<1>2. CASE Go(r, "handler") /\ RequireUser(r)
  <2>1. op[r].kind \in RoleOps \cup UserOps => op[r].user \in RowsOf(View(r), "user")
    BY <1>2, Absent DEF RequireUser, CurrentUser, Row
  <2>2. Known(r, View(r), local[r], "handler")
    BY <2>1 DEF Known
  <2>3. Proceed(r, local[r], NoWrite, "handler")
    BY <1>2 DEF Go
  <2> QED
    BY <2>2, <2>3, ReadExplains
<1> QED
  BY <1>1, <1>2 DEF Authenticate

LEMMA RefreshExplains ==
  ASSUME NEW r \in Requests, Turn(r), Refresh(r) PROVE Explains(r)
<1>1. Exists(View(r)[op[r].id])
  BY Founded DEF Refresh, Known
<1> QED
  BY <1>1, PlainExplains DEF Refresh, Plain

LEMMA SerializeExplains ==
  ASSUME NEW r \in Requests, Turn(r), Serialize(r) PROVE Explains(r)
<1>1. op[r].kind \in RowPages \/ local[r].seen # {} => FailsAlone(r)
  <2>1. local[r].seen # {} => ShowsRows(r, View(r))
    BY Founded DEF Serialize, Known
  <2> QED
    BY <2>1 DEF ShowsRows, FailsAlone
<1> QED
  BY <1>1, RefuseExplains, PlainExplains DEF Serialize, Plain, Turn

-----------------------------------------------------------------------------
LEMMA RegisterExplains ==
  ASSUME NEW r \in Requests, Turn(r), RegisterUser(r) PROVE Explains(r)
<1> USE DEF Turn
<1> DEFINE row == NewUser(op[r].email, op[r].username, op[r].role)
<1>0. op[r].kind = "register" /\ pc[r] \in {"handler", "email_free"}
  BY DEF RegisterUser, At
<1>1. /\ Known(r, View(r), local[r], pc[r]) /\ writes[r] = NoWrite
      /\ op[r].kind \notin RoleOps \cup UserOps
  BY <1>0, Founded DEF Early, RoleOps, UserOps
<1>2. CASE Refuse(r, "400")
  BY <1>2, RefuseExplains
<1>3. CASE Go(r, "email_free") /\ ByEmail(View(r), op[r].email) = {}
  <2>1. Known(r, View(r), local[r], "email_free")
    BY <1>1, <1>3 DEF Known
  <2> QED
    BY <1>1, <1>3, <2>1, ReadExplains DEF Go
<1>4. CASE /\ pc[r] = "email_free" /\ ByUsername(View(r), op[r].username) = {}
           /\ Issue(r, Put(NewId(r), row), "reply")
  <2>1. IsRow(row) /\ row.table = "user" /\ row.student_code = Null
        /\ row.email = op[r].email /\ row.username = op[r].username
    BY DEF NewUser, IsRow, Tables, UserTables, ProblemTables,
       TestcaseTables, TagTables, ContestTables, CourseTables
  <2>2. row = [c \in DOMAIN row |-> row[c]]
    BY DEF NewUser
  <2>3. ByEmail(View(r), op[r].email) = {}
    BY <1>1, <1>4 DEF Known
  <2>4. ASSUME NEW j \in Ids, View(r)[j].table = row.table
        PROVE  row.email # View(r)[j].email /\ row.username # View(r)[j].username
    BY <1>4, <2>1, <2>3, <2>4, NoneSuch DEF ByEmail, ByUsername
  <2> HIDE DEF row
  <2>5. Fine(View(r), Put(NewId(r), row))
    <3>1. ASSUME NEW j \in Ids, View(r)[j].table = row.table, NEW c \in Tables[row.table].unique
          PROVE  \E k \in DOMAIN c : row[c[k]] = Null \/ row[c[k]] # View(r)[j][c[k]]
      <4>1. c[1] \in {"email", "username", "student_code"} /\ 1 \in DOMAIN c
        BY <2>1, <3>1, UniqueColumns
      <4> QED
        BY <2>1, <2>4, <3>1, <4>1
    <3> QED
      BY <1>4, <2>1, <2>2, <3>1, FirstFine, ForeignColumns DEF Early
  <2> QED
    BY <1>4, <2>5, WriteExplains DEF Plain
<1> QED
  BY <1>2, <1>3, <1>4 DEF RegisterUser, At

LEMMA AccountExplains ==
  ASSUME NEW r \in Requests, Turn(r), AccountStep(r) PROVE Explains(r)
<1>1. CASE Login(r) \/ Me(r)
  <2>1. \/ Refuse(r, "500") /\ FailsAlone(r)
        \/ Refuse(r, "400") \/ Go(r, "reply")
    BY <1>1 DEF Login, Me, At, FailsAlone
  <2> QED
    BY <2>1, PlainExplains, RefuseExplains DEF Plain, Turn
<1>2. CASE Profile(r) \/ ForgotPassword(r) \/ ResetPassword(r)
  <2>1. FailsAlone(r)
    BY <1>2 DEF Profile, ForgotPassword, ResetPassword, At, FailsAlone
  <2>2. Refuse(r, "500") \/ Refuse(r, "404")
    BY <1>2 DEF Profile, ForgotPassword, ResetPassword
  <2> QED
    BY <2>1, <2>2, RefuseExplains DEF Turn
<1> QED
  BY <1>1, <1>2, RegisterExplains DEF AccountStep

-----------------------------------------------------------------------------
LEMMA ManageContestExplains ==
  ASSUME NEW r \in Requests, Turn(r), NEW kind \in ContestOps, ManageContest(r, kind)
  PROVE  Explains(r)
<1> DEFINE c == Row(r, "contest", op[r].id)
<1>1. op[r].kind = kind /\ pc[r] = "handler" /\ stmt[r] = NoWrite
  BY DEF ManageContest, At
<1>2. Known(r, View(r), local[r], pc[r]) /\ writes[r] = NoWrite /\ local[r] = NoLocals
  BY <1>1, Founded DEF Known, Early
<1>3. CASE ~Exists(c) /\ Refuse(r, "500")
  <2>1. FailsAlone(r)
    BY <1>1, <1>3 DEF FailsAlone, ContestOps
  <2> QED
    BY <1>3, <2>1, RefuseExplains DEF Turn
<1>4. CASE Refuse(r, "403")
  BY <1>4, RefuseExplains DEF Turn
<1>5. CASE Exists(c) /\ Keep(r, [local[r] EXCEPT !.row = c], "managed")
  <2> DEFINE mem == [local[r] EXCEPT !.row = c]
  <2>1. op[r].id \in RowsOf(View(r), "contest") /\ c = View(r)[op[r].id]
    BY <1>5, Absent DEF Row
  <2>2. mem.row = c /\ DOMAIN mem = DOMAIN NoLocals
    BY <1>2 DEF NoLocals
  <2>3. op[r].kind \in RoleOps \cup UserOps => op[r].user \in RowsOf(View(r), "user")
    BY <1>1, SignedIn DEF Early
  <2>4. op[r].kind \notin CourseOps
    BY <1>1 DEF ContestOps, CourseOps
  <2>5. Proceed(r, mem, NoWrite, "managed")
    BY <1>5 DEF Keep
  <2> HIDE DEF mem, c
  <2>6. Known(r, View(r), mem, "managed")
    BY <2>1, <2>2, <2>3, <2>4 DEF Known
  <2> QED
    BY <1>2, <2>5, <2>6, ReadExplains
<1> QED
  BY <1>3, <1>4, <1>5 DEF ManageContest

(* The contest of a request that may manage it.                            *)
LEMMA ManagedContest ==
  ASSUME NEW r \in Requests, Turn(r), pc[r] = "managed", op[r].kind \in ContestOps
  PROVE  /\ op[r].id \in RowsOf(View(r), "contest") /\ op[r].id \in Ids
         /\ IsRow(View(r)[op[r].id]) /\ View(r)[op[r].id].table = "contest"
         /\ local[r].row = View(r)[op[r].id] /\ writes[r] = NoWrite
<1>1. Known(r, View(r), local[r], "managed") /\ writes[r] = NoWrite
  BY Founded DEF Early
<1>2. op[r].id \in RowsOf(View(r), "contest") /\ local[r].row = View(r)[op[r].id]
  BY <1>1 DEF Known
<1>3. op[r].id \in Ids /\ View(r)[op[r].id].table = "contest"
  BY <1>2, Domains DEF RowsOf, Turn, WInv, IInv
<1>4. IsRow(View(r)[op[r].id])
  BY <1>3, SeenTyped DEF Stored, NoRow, Turn, WInv, IInv
<1> QED
  BY <1>1, <1>2, <1>3, <1>4

LEMMA CreateContestExplains ==
  ASSUME NEW r \in Requests, Turn(r), CreateContest(r) PROVE Explains(r)
<1> DEFINE row == NewContest(r)
<1>1. op[r].kind = "create_contest" /\ pc[r] = "handler" /\ stmt[r] = NoWrite
  BY DEF CreateContest, At
<1>2. CASE Refuse(r, "400") \/ (Incomparable(r) /\ Refuse(r, "500"))
  BY <1>1, <1>2, RefuseExplains DEF Turn, FailsAlone
<1>3. CASE BySlug(View(r), op[r].slug) = {} /\ Issue(r, Put(NewId(r), row), "reply")
  <2>1. IsRow(row) /\ row.table = "contest" /\ row.slug = op[r].slug /\ row.owner = op[r].user
    BY DEF NewContest, IsRow, Tables, UserTables, ProblemTables,
       TestcaseTables, TagTables, ContestTables, CourseTables
  <2>2. row = [c \in DOMAIN row |-> row[c]]
    BY DEF NewContest
  <2>3. \A j \in Ids : View(r)[j].table = "contest" => row.slug # View(r)[j].slug
    BY <1>3, <2>1, NoneSuch DEF BySlug, Turn
  <2>4. op[r].user \in RowsOf(View(r), "user")
    BY <1>1, SignedIn DEF Early, RoleOps
  <2> HIDE DEF row
  <2>5. ASSUME NEW j \in Ids, View(r)[j].table = row.table, NEW c \in Tables[row.table].unique
        PROVE  \E k \in DOMAIN c : row[c[k]] = Null \/ row[c[k]] # View(r)[j][c[k]]
    BY <2>1, <2>3, <2>5, UniqueColumns
  <2>6. \A c \in DOMAIN Tables[row.table].foreign :
          row[c] \in RowsOf(View(r), Tables[row.table].foreign[c])
    BY <2>1, <2>4, ForeignColumns
  <2>7. Fine(View(r), Put(NewId(r), row))
    BY <1>1, <2>1, <2>2, <2>5, <2>6, FirstFine DEF Early
  <2> QED
    BY <1>3, <2>7, WriteExplains DEF Plain
<1> QED
  BY <1>2, <1>3 DEF CreateContest

(* A statement that gives an existing row other columns, and the refresh.  *)
LEMMA RefreshedExplains ==
  ASSUME NEW r \in Requests, Turn(r), op[r].kind \in RefreshOps, op[r].id \in Ids,
         Exists(View(r)[op[r].id]), NEW w, Fine(View(r), w), Issue(r, w, "refresh")
  PROVE  Explains(r)
<1>1. Known(r, View(r), local[r], "refresh")
  BY DEF Known, Early
<1> QED
  BY <1>1, GoesOnExplains DEF Issue, Early

LEMMA UpdateContestExplains ==
  ASSUME NEW r \in Requests, Turn(r), At(r, "update_contest", "managed"), StoreContestUpdate(r)
  PROVE  Explains(r)
<1> DEFINE set == op[r].set  v == View(r)  i == op[r].id
<1>1. op[r].kind = "update_contest" /\ pc[r] = "managed" /\ op[r] \in Ops
  BY DEF At, Turn, WInv
<1>2. i \in Ids /\ IsRow(v[i]) /\ v[i].table = "contest" /\ local[r].row = v[i]
  BY <1>1, ManagedContest DEF ContestOps
<1>3. CASE Refuse(r, "400") \/ (Incomparable(r) /\ Refuse(r, "500"))
  BY <1>1, <1>3, RefuseExplains DEF Turn, FailsAlone
<1>4. CASE /\ "slug" \in DOMAIN set /\ set.slug # local[r].row.slug =>
                \A j \in BySlug(v, set.slug) : j = i
           /\ Issue(r, Update(i, set, Compared(r)), "refresh")
  <2>1. DOMAIN set \subseteq {"slug", "start", "end", "public", "locked"}
    BY <1>1, OpsAssumption DEF Settable
  <2>2. /\ "table" \notin DOMAIN set /\ DOMAIN set \subseteq Tables["contest"].columns
        /\ DOMAIN set \cap {"owner"} = {} /\ {"owner", "slug"} \subseteq Tables["contest"].columns
    BY <2>1 DEF Tables, ContestTables
  <2>3. ASSUME NEW j \in Ids \ {i}, v[j].table = "contest",
               "slug" \in DOMAIN set, set.slug # v[i].slug
        PROVE  set.slug # v[j].slug
    BY <1>2, <1>4, <2>3, NoneSuch DEF BySlug, Turn
  <2>4. ASSUME NEW j \in Ids, j # i, v[j].table = "contest", NEW c \in Tables["contest"].unique
        PROVE  \/ \A k \in DOMAIN c : /\ c[k] \in Tables["contest"].columns
                                      /\ c[k] \in DOMAIN set => set[c[k]] = v[i][c[k]]
               \/ \E k \in DOMAIN c : c[k] \in DOMAIN set /\ set[c[k]] # v[j][c[k]]
    <3>1. c = <<"slug">>
      BY UniqueColumns
    <3> QED
      BY <2>2, <2>3, <2>4, <3>1
  <2>5. Fine(v, Update(i, set, Compared(r)))
    <3>0. ASSUME NEW c \in DOMAIN set, set[c] = Compared(r)[c] PROVE set[c] = v[i][c]
      <4>1. c \in DOMAIN local[r].row
        BY <1>2, <2>2, <3>0 DEF IsRow
      <4>2. Compared(r)[c] = IF c \in op[r].naive THEN Null ELSE local[r].row[c]
        BY <4>1 DEF Compared
      <4>3. c \in op[r].naive => set[c] # Null
        BY <1>1, OpsAssumption
      <4> QED
        BY <1>2, <3>0, <4>2, <4>3
    <3>1. /\ DOMAIN set \cap DOMAIN Tables["contest"].foreign = {}
          /\ DOMAIN Tables["contest"].foreign \subseteq Tables["contest"].columns
      BY <2>2, ForeignColumns
    <3>2. WInv
      BY DEF Turn
    <3>3. \A j \in Ids : j # i /\ View(r)[j].table = "contest" =>
            \A c \in Tables["contest"].unique :
              \/ \A k \in DOMAIN c :
                   /\ c[k] \in Tables["contest"].columns
                   /\ c[k] \in DOMAIN set => set[c[k]] = View(r)[i][c[k]]
              \/ \E k \in DOMAIN c : c[k] \in DOMAIN set /\ set[c[k]] # View(r)[j][c[k]]
      BY <2>4
    <3> HIDE DEF set, i
    <3> QED
      BY <1>2, <2>2, <3>0, <3>1, <3>2, <3>3, UpdateFine
  <2> QED
    BY <1>1, <1>2, <1>4, <2>5, RefreshedExplains DEF RefreshOps, IsRow, Exists
<1> QED
  BY <1>3, <1>4 DEF StoreContestUpdate

LEMMA ContestFound ==
  ASSUME NEW r, Exists(Row(r, "contest", op[r].id))
  PROVE  op[r].id \in RowsOf(View(r), "contest")
  BY Absent DEF Row

LEMMA RegistrationExplains ==
  ASSUME NEW r \in Requests, Turn(r), RegisterForContest(r) PROVE Explains(r)
<1> DEFINE row == [table |-> "registration", contest |-> op[r].id, user |-> op[r].user]
<1>1. op[r].kind = "register_contest" /\ pc[r] \in {"handler", "unlocked"} /\ stmt[r] = NoWrite
  BY DEF RegisterForContest, At
<1>2. Known(r, View(r), local[r], pc[r]) /\ writes[r] = NoWrite
      /\ op[r].user \in RowsOf(View(r), "user")
  BY <1>1, Founded, SignedIn DEF Early, UserOps
<1>3. CASE Refuse(r, "400") \/ Go(r, "reply")
  BY <1>3, RefuseExplains, PlainExplains DEF Turn, Plain
<1>4. CASE Exists(Row(r, "contest", op[r].id)) /\ Go(r, "unlocked")
  <2>1. Known(r, View(r), local[r], "unlocked")
    BY <1>2, <1>4, ContestFound DEF Known
  <2> QED
    BY <1>2, <1>4, <2>1, ReadExplains DEF Go
<1>5. CASE /\ pc[r] = "unlocked" /\ RegistrationOf(View(r), op[r].id, op[r].user) = {}
           /\ Issue(r, Put(NewId(r), row), "reply")
  <2>1. IsRow(row)
    BY DEF IsRow, Tables, ContestTables
  <2>2. op[r].id \in RowsOf(View(r), "contest")
    BY <1>2, <1>5 DEF Known
  <2>3. \A j \in Ids : View(r)[j].table = "registration" =>
          row.contest # View(r)[j].contest \/ row.user # View(r)[j].user
    BY <1>5, NoneSuch DEF RegistrationOf, RegistrationsOf, Turn
  <2>4. row = [c \in DOMAIN row |-> row[c]] /\ row.table = "registration"
        /\ row.contest = op[r].id /\ row.user = op[r].user
    OBVIOUS
  <2> HIDE DEF row
  <2>5. ASSUME NEW j \in Ids, View(r)[j].table = row.table, NEW c \in Tables[row.table].unique
        PROVE  \E k \in DOMAIN c : row[c[k]] = Null \/ row[c[k]] # View(r)[j][c[k]]
    <3>1. c = <<"contest", "user">>
      BY <2>4, UniqueColumns
    <3> QED
      BY <2>3, <2>4, <2>5, <3>1
  <2>6. \A c \in DOMAIN Tables[row.table].foreign :
          row[c] \in RowsOf(View(r), Tables[row.table].foreign[c])
    BY <1>2, <2>2, <2>4, ForeignColumns
  <2>7. Fine(View(r), Put(NewId(r), row))
    BY <1>5, <2>1, <2>4, <2>5, <2>6, FirstFine DEF Early
  <2> QED
    BY <1>5, <2>7, WriteExplains DEF Plain
<1> QED
  BY <1>3, <1>4, <1>5 DEF RegisterForContest, StoreRegistration, At

LEMMA ProblemFound ==
  ASSUME NEW r, NEW i, Exists(Row(r, "problem", i)) PROVE i \in RowsOf(View(r), "problem")
  BY Absent DEF Row

LEMMA StoreContestProblemExplains ==
  ASSUME NEW r \in Requests, Turn(r), At(r, "assign_contest_problem", "problem_found"),
         StoreContestProblem(r)
  PROVE  Explains(r)
<1> DEFINE row == [table |-> "contest_problem", contest |-> op[r].id,
                   problem |-> op[r].problem, letter |-> Upper(op[r].letter)]
           there == ProblemsOfContest(View(r), op[r].id)
<1>1. op[r].kind = "assign_contest_problem" /\ pc[r] = "problem_found"
  BY DEF At
<1>2. CASE Refuse(r, "400")
  BY <1>2, RefuseExplains DEF Turn
<1>3. CASE /\ \A i \in there : /\ View(r)[i].letter # op[r].letter
                               /\ View(r)[i].problem # op[r].problem
           /\ Issue(r, Put(NewId(r), row), "reply")
  <2>1. op[r].id \in RowsOf(View(r), "contest") /\ op[r].problem \in RowsOf(View(r), "problem")
    BY <1>1, Founded DEF Known
  <2>2. CASE FailsAlone(r)
    BY <1>3, <2>2, WriteExplains DEF Plain
  <2>3. CASE ~FailsAlone(r)
    <3>1. IsRow(row)
      BY DEF IsRow, Tables, ContestTables
    <3>2. row = [c \in DOMAIN row |-> row[c]] /\ row.table = "contest_problem"
          /\ row.contest = op[r].id /\ row.problem = op[r].problem
          /\ row.letter = Upper(op[r].letter)
      OBVIOUS
    <3>3. \A j \in Ids : View(r)[j].table = "contest_problem" /\ View(r)[j].contest = row.contest =>
            row.problem # View(r)[j].problem /\ row.letter # View(r)[j].letter
      <4> SUFFICES ASSUME NEW j \in Ids, View(r)[j].table = "contest_problem",
                          View(r)[j].contest = op[r].id
                   PROVE  /\ op[r].problem # View(r)[j].problem
                          /\ Upper(op[r].letter) # View(r)[j].letter
        OBVIOUS
      <4>1. j \in there
        BY NoneSuch DEF ProblemsOfContest, Turn
      <4>2. ASSUME Upper(op[r].letter) = View(r)[j].letter PROVE FALSE
        <5>1. op[r].letter # Upper(op[r].letter)
          BY <1>3, <4>1, <4>2
        <5> QED
          BY <1>1, <2>3, <4>1, <4>2, <5>1 DEF FailsAlone
      <4> QED
        BY <1>3, <4>1, <4>2
    <3> HIDE DEF row
    <3>4. ASSUME NEW j \in Ids, View(r)[j].table = row.table, NEW c \in Tables[row.table].unique
          PROVE  \E k \in DOMAIN c : row[c[k]] = Null \/ row[c[k]] # View(r)[j][c[k]]
      <4>1. c \in {<<"contest", "problem">>, <<"contest", "letter">>}
        BY <3>2, UniqueColumns
      <4> QED
        BY <3>2, <3>3, <3>4, <4>1
    <3>5. \A c \in DOMAIN Tables[row.table].foreign :
            row[c] \in RowsOf(View(r), Tables[row.table].foreign[c])
      BY <2>1, <3>2, ForeignColumns
    <3>6. Fine(View(r), Put(NewId(r), row))
      BY <1>1, <3>1, <3>2, <3>4, <3>5, FirstFine DEF Early
    <3> QED
      BY <1>3, <3>6, WriteExplains DEF Plain
  <2> QED
    BY <2>2, <2>3
<1> QED
  BY <1>2, <1>3 DEF StoreContestProblem

LEMMA AssignContestExplains ==
  ASSUME NEW r \in Requests, Turn(r), AssignContestProblem(r) PROVE Explains(r)
<1>1. CASE ManageContest(r, "assign_contest_problem")
  BY <1>1, ManageContestExplains DEF ContestOps
<1>2. CASE At(r, "assign_contest_problem", "problem_found") /\ StoreContestProblem(r)
  BY <1>2, StoreContestProblemExplains
<1>3. CASE At(r, "assign_contest_problem", "managed") /\ Refuse(r, "404")
  BY <1>3, RefuseExplains DEF Turn
<1>4. CASE /\ At(r, "assign_contest_problem", "managed")
           /\ Exists(Row(r, "problem", op[r].problem)) /\ Go(r, "problem_found")
  <2>1. op[r].kind = "assign_contest_problem" /\ pc[r] = "managed"
    BY <1>4 DEF At
  <2>2. op[r].id \in RowsOf(View(r), "contest") /\ writes[r] = NoWrite
    BY <2>1, ManagedContest DEF ContestOps
  <2>3. op[r].problem \in RowsOf(View(r), "problem") /\ op[r].user \in RowsOf(View(r), "user")
    BY <1>4, <2>1, ProblemFound, SignedIn DEF Early, RoleOps
  <2>4. Known(r, View(r), local[r], "problem_found")
    BY <2>1, <2>2, <2>3 DEF Known
  <2> QED
    BY <1>4, <2>2, <2>4, ReadExplains DEF Go
<1> QED
  BY <1>1, <1>2, <1>3, <1>4 DEF AssignContestProblem

LEMMA DeleteExplains ==
  ASSUME NEW r \in Requests, Turn(r), NEW S, Issue(r, Delete(S), "reply") PROVE Explains(r)
  BY WriteExplains DEF Plain, Fine

LEMMA ContestExplains ==
  ASSUME NEW r \in Requests, Turn(r), ContestStep(r) PROVE Explains(r)
<1> USE DEF ContestOps
<1>1. CASE UpdateContest(r)
  BY <1>1, ManageContestExplains, UpdateContestExplains DEF UpdateContest
<1>2. CASE DeleteContest(r)
  BY <1>2, ManageContestExplains, DeleteExplains DEF DeleteContest
<1>3. CASE UnassignContestProblem(r)
  <2>1. \/ ManageContest(r, "unassign_contest_problem")
        \/ Issue(r, Delete({op[r].row}), "reply") \/ Go(r, "reply")
    BY <1>3 DEF UnassignContestProblem
  <2> QED
    BY <2>1, ManageContestExplains, DeleteExplains, PlainExplains DEF Plain
<1>4. CASE ListContests(r)
  <2> DEFINE mem == [local[r] EXCEPT !.seen = RowsOf(View(r), "contest")]
  <2>1. op[r].kind = "list_contests" /\ pc[r] = "handler" /\ Keep(r, mem, "page")
    BY <1>4 DEF ListContests, At
  <2>2. mem.seen = RowsOf(View(r), "contest")
    BY <2>1, Founded DEF Known, NoLocals
  <2> HIDE DEF mem
  <2> QED
    BY <2>1, <2>2, PageExplains DEF ShowsRows
<1>5. CASE ContestDetail(r)
  <2>1. \/ Refuse(r, "404")
        \/ \E mem : \E label \in {"viewed", "listed", "page"} : Keep(r, mem, label)
    BY <1>5 DEF ContestDetail
  <2>2. ShowsRows(r, View(r))
    BY <1>5 DEF ContestDetail, At, ShowsRows, RowPages
  <2> QED
    BY <2>1, <2>2, RefuseExplains, PlainExplains, PageExplains DEF Plain, Turn
<1>6. CASE ShowLeaderboard(r)
  <2>1. \/ At(r, "leaderboard", "handler") /\ ~Exists(Row(r, "contest", op[r].id))
           /\ Refuse(r, "500")
        \/ Refuse(r, "403") \/ Go(r, "viewed")
        \/ \E mem : \E label \in {"listed", "page"} : Keep(r, mem, label)
    BY <1>6 DEF ShowLeaderboard
  <2>2. At(r, "leaderboard", "handler") /\ ~Exists(Row(r, "contest", op[r].id)) => FailsAlone(r)
    BY DEF At, FailsAlone, RowPages
  <2>3. ShowsRows(r, View(r))
    BY <1>6 DEF ShowLeaderboard, At, ShowsRows, RowPages
  <2> QED
    BY <2>1, <2>2, <2>3, RefuseExplains, PlainExplains, PageExplains DEF Plain, Turn
<1> QED
  BY <1>1, <1>2, <1>3, <1>4, <1>5, <1>6, CreateContestExplains, RegistrationExplains,
     AssignContestExplains DEF ContestStep

-----------------------------------------------------------------------------
LEMMA ManageCourseExplains ==
  ASSUME NEW r \in Requests, Turn(r), NEW kind \in CourseOps, ManageCourse(r, kind)
  PROVE  Explains(r)
<1> DEFINE c == Row(r, "course", op[r].id)
<1>1. op[r].kind = kind /\ pc[r] = "handler" /\ stmt[r] = NoWrite
  BY DEF ManageCourse, At
<1>2. Known(r, View(r), local[r], pc[r]) /\ writes[r] = NoWrite /\ local[r] = NoLocals
  BY <1>1, Founded DEF Known, Early
<1>3. CASE ~Exists(c) /\ Refuse(r, "500")
  <2>1. FailsAlone(r)
    BY <1>1, <1>3 DEF FailsAlone, CourseOps
  <2> QED
    BY <1>3, <2>1, RefuseExplains DEF Turn
<1>4. CASE Refuse(r, "403")
  BY <1>4, RefuseExplains DEF Turn
<1>5. CASE Exists(c) /\ Keep(r, [local[r] EXCEPT !.row = c], "managed")
  <2> DEFINE mem == [local[r] EXCEPT !.row = c]
  <2>1. op[r].id \in RowsOf(View(r), "course") /\ c = View(r)[op[r].id]
    BY <1>5, Absent DEF Row
  <2>2. mem.row = c /\ DOMAIN mem = DOMAIN NoLocals
    BY <1>2 DEF NoLocals
  <2>3. op[r].kind \in RoleOps \cup UserOps => op[r].user \in RowsOf(View(r), "user")
    BY <1>1, SignedIn DEF Early
  <2>4. op[r].kind \notin ContestOps
    BY <1>1 DEF ContestOps, CourseOps
  <2>5. Proceed(r, mem, NoWrite, "managed")
    BY <1>5 DEF Keep
  <2> HIDE DEF mem, c
  <2>6. Known(r, View(r), mem, "managed")
    BY <2>1, <2>2, <2>3, <2>4 DEF Known
  <2> QED
    BY <1>2, <2>5, <2>6, ReadExplains
<1> QED
  BY <1>3, <1>4, <1>5 DEF ManageCourse

(* The course of a request that may manage it.                             *)
LEMMA ManagedCourse ==
  ASSUME NEW r \in Requests, Turn(r), pc[r] = "managed", op[r].kind \in CourseOps
  PROVE  /\ op[r].id \in RowsOf(View(r), "course") /\ op[r].id \in Ids
         /\ IsRow(View(r)[op[r].id]) /\ View(r)[op[r].id].table = "course"
         /\ local[r].row = View(r)[op[r].id] /\ writes[r] = NoWrite
         /\ DOMAIN local[r] = DOMAIN NoLocals
<1>1. Known(r, View(r), local[r], "managed") /\ writes[r] = NoWrite
  BY Founded DEF Early
<1>2. op[r].id \in RowsOf(View(r), "course") /\ local[r].row = View(r)[op[r].id]
  BY <1>1 DEF Known
<1>3. op[r].id \in Ids /\ View(r)[op[r].id].table = "course"
  BY <1>2, Domains DEF RowsOf, Turn, WInv, IInv
<1>4. IsRow(View(r)[op[r].id])
  BY <1>3, SeenTyped DEF Stored, NoRow, Turn, WInv, IInv
<1> QED
  BY <1>1, <1>2, <1>3, <1>4 DEF Known

LEMMA CreateCourseExplains ==
  ASSUME NEW r \in Requests, Turn(r), CreateCourse(r) PROVE Explains(r)
<1> DEFINE row == [table |-> "course", code |-> op[r].code, invite |-> NewId(r),
                   owner |-> op[r].user]
<1>1. op[r].kind = "create_course" /\ pc[r] = "handler" /\ stmt[r] = NoWrite
  BY DEF CreateCourse, At
<1>2. CASE Refuse(r, "400")
  BY <1>2, RefuseExplains DEF Turn
<1>3. CASE ByCode(View(r), op[r].code) = {} /\ Issue(r, Put(NewId(r), row), "reply")
  <2>1. IsRow(row)
    BY DEF IsRow, Tables, CourseTables
  <2>2. row = [c \in DOMAIN row |-> row[c]] /\ row.table = "course" /\ row.code = op[r].code
        /\ row.invite = NewId(r) /\ row.owner = op[r].user
    OBVIOUS
  <2>3. \A j \in Ids : View(r)[j].table = "course" => row.code # View(r)[j].code
    BY <1>3, <2>2, NoneSuch DEF ByCode, Turn
  <2>4. NewId(r) \in Requests \X Nat
    <3>1. writes[r] = NoWrite
      BY <1>1, Founded DEF Early
    <3>2. Touched(writes[r]) \cap Own(r) = {}
      BY <3>1, NothingTouched
    <3> QED
      BY <3>2, FS_EmptySet DEF NewId
  <2>5. \A j \in Ids : View(r)[j].table = "course" /\ j # NewId(r) =>
          row.invite # View(r)[j].invite
    BY <2>2, <2>4, SeenLettered DEF Marked, Coded, Turn, WInv, IInv
  <2>6. op[r].user \in RowsOf(View(r), "user")
    BY <1>1, SignedIn DEF Early, RoleOps
  <2> HIDE DEF row
  <2>7. ASSUME NEW j \in Ids, j # NewId(r), View(r)[j].table = row.table,
               NEW c \in Tables[row.table].unique
        PROVE  \E k \in DOMAIN c : row[c[k]] = Null \/ row[c[k]] # View(r)[j][c[k]]
    <3>1. c \in {<<"code">>, <<"invite">>}
      BY <2>2, UniqueColumns
    <3> QED
      BY <2>2, <2>3, <2>5, <2>7, <3>1
  <2>8. \A c \in DOMAIN Tables[row.table].foreign :
          row[c] \in RowsOf(View(r), Tables[row.table].foreign[c])
    BY <2>2, <2>6, ForeignColumns
  <2>9. Fine(View(r), Put(NewId(r), row))
    BY <1>1, <2>1, <2>2, <2>7, <2>8, FirstFine DEF Early
  <2> QED
    BY <1>3, <2>9, WriteExplains DEF Plain
<1> QED
  BY <1>2, <1>3 DEF CreateCourse, StoreCourse

LEMMA UpdateCourseExplains ==
  ASSUME NEW r \in Requests, Turn(r), At(r, "update_course", "managed"), StoreCourseUpdate(r)
  PROVE  Explains(r)
<1> DEFINE set == op[r].set  v == View(r)  i == op[r].id
<1>1. op[r].kind = "update_course" /\ pc[r] = "managed" /\ op[r] \in Ops
  BY DEF At, Turn, WInv
<1>2. i \in Ids /\ IsRow(v[i]) /\ v[i].table = "course" /\ local[r].row = v[i]
  BY <1>1, ManagedCourse DEF CourseOps
<1>3. CASE Refuse(r, "400")
  BY <1>3, RefuseExplains DEF Turn
<1>4. CASE /\ "code" \in DOMAIN set /\ set.code # local[r].row.code =>
                \A j \in ByCode(v, set.code) : j = i
           /\ Issue(r, Update(i, set, local[r].row), "refresh")
  <2>1. DOMAIN set \subseteq {"code"}
    BY <1>1, OpsAssumption DEF Settable
  <2>2. /\ "table" \notin DOMAIN set /\ DOMAIN set \subseteq Tables["course"].columns
        /\ DOMAIN set \cap {"owner"} = {}
        /\ {"owner", "code", "invite"} \subseteq Tables["course"].columns
    BY <2>1 DEF Tables, CourseTables
  <2>3. ASSUME NEW j \in Ids \ {i}, v[j].table = "course",
               "code" \in DOMAIN set, set.code # v[i].code
        PROVE  set.code # v[j].code
    BY <1>2, <1>4, <2>3, NoneSuch DEF ByCode, Turn
  <2>4. ASSUME NEW j \in Ids, j # i, v[j].table = "course", NEW c \in Tables["course"].unique
        PROVE  \/ \A k \in DOMAIN c : /\ c[k] \in Tables["course"].columns
                                      /\ c[k] \in DOMAIN set => set[c[k]] = v[i][c[k]]
               \/ \E k \in DOMAIN c : c[k] \in DOMAIN set /\ set[c[k]] # v[j][c[k]]
    <3>1. c \in {<<"code">>, <<"invite">>}
      BY UniqueColumns
    <3> QED
      BY <2>1, <2>2, <2>3, <2>4, <3>1
  <2>5. Fine(v, Update(i, set, v[i]))
    <3>1. /\ DOMAIN set \cap DOMAIN Tables["course"].foreign = {}
          /\ DOMAIN Tables["course"].foreign \subseteq Tables["course"].columns
      BY <2>2, ForeignColumns
    <3>2. WInv
      BY DEF Turn
    <3>3. \A j \in Ids : j # i /\ View(r)[j].table = "course" =>
            \A c \in Tables["course"].unique :
              \/ \A k \in DOMAIN c :
                   /\ c[k] \in Tables["course"].columns
                   /\ c[k] \in DOMAIN set => set[c[k]] = View(r)[i][c[k]]
              \/ \E k \in DOMAIN c : c[k] \in DOMAIN set /\ set[c[k]] # View(r)[j][c[k]]
      BY <2>4
    <3> HIDE DEF set, i
    <3> QED
      BY <1>2, <2>2, <3>1, <3>2, <3>3, UpdateFine
  <2> QED
    BY <1>1, <1>2, <1>4, <2>5, RefreshedExplains DEF RefreshOps, IsRow, Exists
<1> QED
  BY <1>3, <1>4 DEF StoreCourseUpdate

(* An enrolment of somebody who is not enrolled.                           *)
LEMMA EnrolmentFine ==
  ASSUME NEW r \in Requests, Turn(r), pc[r] \in Early,
         NEW c \in RowsOf(View(r), "course"), NEW u \in RowsOf(View(r), "user"),
         EnrollmentOf(View(r), c, u) = {}
  PROVE  Fine(View(r), Put(NewId(r), Enrollment(c, u)))
<1> DEFINE row == Enrollment(c, u)
<1>1. IsRow(row)
  BY DEF IsRow, Tables, CourseTables, Enrollment
<1>2. row = [x \in DOMAIN row |-> row[x]] /\ row.table = "enrollment"
      /\ row.course = c /\ row.user = u
  BY DEF Enrollment
<1>3. \A j \in Ids : View(r)[j].table = "enrollment" =>
        row.course # View(r)[j].course \/ row.user # View(r)[j].user
  BY <1>2, NoneSuch DEF EnrollmentOf, MembersOf, Turn
<1> HIDE DEF row
<1>4. ASSUME NEW j \in Ids, View(r)[j].table = row.table, NEW x \in Tables[row.table].unique
      PROVE  \E k \in DOMAIN x : row[x[k]] = Null \/ row[x[k]] # View(r)[j][x[k]]
  <2>1. x = <<"course", "user">>
    BY <1>2, UniqueColumns
  <2> QED
    BY <1>2, <1>3, <1>4, <2>1
<1>5. \A x \in DOMAIN Tables[row.table].foreign :
        row[x] \in RowsOf(View(r), Tables[row.table].foreign[x])
  BY <1>2, ForeignColumns
<1>6. Fine(View(r), Put(NewId(r), row))
  BY <1>1, <1>2, <1>4, <1>5, FirstFine
<1> QED
  BY <1>6 DEF row

LEMMA JoinExplains ==
  ASSUME NEW r \in Requests, Turn(r), JoinCourse(r) PROVE Explains(r)
<1>1. /\ op[r].kind = "join_course_by_invite" /\ pc[r] \in {"handler", "course_found"}
      /\ stmt[r] = NoWrite
  BY DEF JoinCourse, EnrollByInviteCode, At
<1>2. Known(r, View(r), local[r], pc[r]) /\ writes[r] = NoWrite
      /\ op[r].user \in RowsOf(View(r), "user")
  BY <1>1, Founded, SignedIn DEF Early, UserOps
<1>3. CASE Refuse(r, "400")
  BY <1>3, RefuseExplains DEF Turn
<1>4. CASE /\ pc[r] = "handler"
           /\ \E c \in ByInviteCode(View(r), op[r].invite) :
                Keep(r, [local[r] EXCEPT !.ids = <<c>>], "course_found")
  <2>1. PICK c \in RowsOf(View(r), "course") :
               Keep(r, [local[r] EXCEPT !.ids = <<c>>], "course_found")
    BY <1>4 DEF ByInviteCode
  <2> DEFINE mem == [local[r] EXCEPT !.ids = <<c>>]
  <2>2. mem.ids[1] = c
    BY <1>2, <1>4 DEF Known, NoLocals
  <2>3. Proceed(r, mem, NoWrite, "course_found")
    BY <2>1 DEF Keep
  <2> HIDE DEF mem
  <2>4. Known(r, View(r), mem, "course_found")
    BY <1>2, <2>2 DEF Known
  <2> QED
    BY <1>2, <2>3, <2>4, ReadExplains
<1>5. CASE /\ pc[r] = "course_found"
           /\ EnrollmentOf(View(r), local[r].ids[1], op[r].user) = {}
           /\ Issue(r, Put(NewId(r), Enrollment(local[r].ids[1], op[r].user)), "reply")
  <2>1. local[r].ids[1] \in RowsOf(View(r), "course")
    BY <1>2, <1>5 DEF Known
  <2>2. Fine(View(r), Put(NewId(r), Enrollment(local[r].ids[1], op[r].user)))
    BY <1>2, <1>5, <2>1, EnrolmentFine DEF Early
  <2> QED
    BY <1>5, <2>2, WriteExplains DEF Plain
<1> QED
  BY <1>3, <1>4, <1>5 DEF JoinCourse, EnrollByInviteCode, At

LEMMA InviteExplains ==
  ASSUME NEW r \in Requests, Turn(r), EnrollByIdentifier(r) PROVE Explains(r)
<1>1. /\ op[r].kind = "invite_member" /\ pc[r] \in {"managed", "user_found"}
      /\ stmt[r] = NoWrite
  BY DEF EnrollByIdentifier, At
<1>2. Known(r, View(r), local[r], pc[r]) /\ writes[r] = NoWrite
      /\ op[r].user \in RowsOf(View(r), "user")
  BY <1>1, Founded, SignedIn DEF Early, RoleOps
<1>3. CASE Refuse(r, "400") \/ (Ambiguous(View(r), op[r].identifier) /\ Refuse(r, "500"))
  BY <1>1, <1>3, RefuseExplains DEF Turn, FailsAlone
<1>4. CASE /\ pc[r] = "managed"
           /\ \E u \in ByIdentifier(View(r), op[r].identifier) :
                Keep(r, [local[r] EXCEPT !.ids = <<u>>], "user_found")
  <2>1. PICK u \in RowsOf(View(r), "user") :
               Keep(r, [local[r] EXCEPT !.ids = <<u>>], "user_found")
    BY <1>4 DEF ByIdentifier
  <2> DEFINE mem == [local[r] EXCEPT !.ids = <<u>>]
  <2>2. mem.ids[1] = u /\ op[r].id \in RowsOf(View(r), "course")
    BY <1>1, <1>4, ManagedCourse DEF NoLocals, CourseOps
  <2>3. Proceed(r, mem, NoWrite, "user_found")
    BY <2>1 DEF Keep
  <2> HIDE DEF mem
  <2>4. Known(r, View(r), mem, "user_found")
    BY <1>2, <2>2 DEF Known
  <2> QED
    BY <1>2, <2>3, <2>4, ReadExplains
<1>5. CASE /\ pc[r] = "user_found" /\ EnrollmentOf(View(r), op[r].id, local[r].ids[1]) = {}
           /\ Issue(r, Put(NewId(r), Enrollment(op[r].id, local[r].ids[1])), "reply")
  <2>1. local[r].ids[1] \in RowsOf(View(r), "user") /\ op[r].id \in RowsOf(View(r), "course")
    BY <1>2, <1>5 DEF Known
  <2>2. Fine(View(r), Put(NewId(r), Enrollment(op[r].id, local[r].ids[1])))
    BY <1>5, <2>1, EnrolmentFine DEF Early
  <2> QED
    BY <1>5, <2>2, WriteExplains DEF Plain
<1> QED
  BY <1>3, <1>4, <1>5 DEF EnrollByIdentifier, At

LEMMA AssignCourseExplains ==
  ASSUME NEW r \in Requests, Turn(r), AssignCourseProblem(r) PROVE Explains(r)
<1> DEFINE row == [table |-> "assignment", course |-> op[r].id, problem |-> op[r].problem]
<1>1. CASE ManageCourse(r, "assign_course_problem")
  BY <1>1, ManageCourseExplains DEF CourseOps
<1>2. CASE Refuse(r, "404") \/ Refuse(r, "400")
  BY <1>2, RefuseExplains DEF Turn
<1>3. CASE /\ At(r, "assign_course_problem", "managed")
           /\ Exists(Row(r, "problem", op[r].problem)) /\ Go(r, "problem_found")
  <2>1. op[r].kind = "assign_course_problem" /\ pc[r] = "managed"
    BY <1>3 DEF At
  <2>2. op[r].id \in RowsOf(View(r), "course") /\ writes[r] = NoWrite
    BY <2>1, ManagedCourse DEF CourseOps
  <2>3. op[r].problem \in RowsOf(View(r), "problem") /\ op[r].user \in RowsOf(View(r), "user")
    BY <1>3, <2>1, ProblemFound, SignedIn DEF Early, RoleOps
  <2>4. Known(r, View(r), local[r], "problem_found")
    BY <2>1, <2>2, <2>3 DEF Known
  <2> QED
    BY <1>3, <2>2, <2>4, ReadExplains DEF Go
<1>4. CASE /\ At(r, "assign_course_problem", "problem_found")
           /\ \A i \in AssignmentsOf(View(r), op[r].id) : View(r)[i].problem # op[r].problem
           /\ Issue(r, Put(NewId(r), row), "reply")
  <2>1. op[r].id \in RowsOf(View(r), "course") /\ op[r].problem \in RowsOf(View(r), "problem")
    BY <1>4, Founded DEF Known, At
  <2>2. IsRow(row)
    BY DEF IsRow, Tables, CourseTables
  <2>3. row = [c \in DOMAIN row |-> row[c]] /\ row.table = "assignment"
        /\ row.course = op[r].id /\ row.problem = op[r].problem
    OBVIOUS
  <2>4. \A j \in Ids : View(r)[j].table = "assignment" =>
          row.course # View(r)[j].course \/ row.problem # View(r)[j].problem
    BY <1>4, NoneSuch DEF AssignmentsOf, Turn
  <2> HIDE DEF row
  <2>5. ASSUME NEW j \in Ids, View(r)[j].table = row.table, NEW c \in Tables[row.table].unique
        PROVE  \E k \in DOMAIN c : row[c[k]] = Null \/ row[c[k]] # View(r)[j][c[k]]
    <3>1. c = <<"course", "problem">>
      BY <2>3, UniqueColumns
    <3> QED
      BY <2>3, <2>4, <2>5, <3>1
  <2>6. \A c \in DOMAIN Tables[row.table].foreign :
          row[c] \in RowsOf(View(r), Tables[row.table].foreign[c])
    BY <2>1, <2>3, ForeignColumns
  <2>7. Fine(View(r), Put(NewId(r), row))
    BY <1>4, <2>2, <2>3, <2>5, <2>6, FirstFine DEF Early, At
  <2> QED
    BY <1>4, <2>7, WriteExplains DEF Plain
<1> QED
  BY <1>1, <1>2, <1>3, <1>4 DEF AssignCourseProblem, StoreAssignment

LEMMA ImportExplains ==
  ASSUME NEW r \in Requests, Turn(r), ImportStudents(r),
         op[r].kind = "import_students" => ImportSound(r)
  PROVE  Explains(r)
<1>1. CASE ManageCourse(r, "import_students")
  BY <1>1, ManageCourseExplains DEF CourseOps
<1>2. CASE At(r, "import_students", "managed") /\ Go(r, "row")
  BY <1>2, PlainExplains DEF Plain
<1>3. CASE \E good, bad : RowDone(r, good, bad)
  BY <1>3, PlainExplains DEF RowDone, Plain
<1>4. CASE FindUser(r)
  <2>1. op[r].kind = "import_students"
    BY <1>4 DEF FindUser, At
  <2>2. \/ RowDone(r, 0, 1) \/ Go(r, "no_user")
        \/ \E u : Keep(r, [local[r] EXCEPT !.ids = <<u>>], "user_added")
        \/ (r \in broken \/ CsvRow(r).ragged) /\ Refuse(r, "500")
    BY <1>4 DEF FindUser
  <2>3. CASE (r \in broken \/ CsvRow(r).ragged) /\ Refuse(r, "500")
    <3>1. CsvRow(r).ragged => \E k \in DOMAIN op[r].csv : op[r].csv[k].ragged
      <4>1. local[r].n \in Nat /\ local[r].n < Len(op[r].csv)
        BY <1>4, <2>1, ImportNat DEF FindUser, Turn
      <4>2. local[r].n + 1 \in DOMAIN op[r].csv
        BY <2>1, <4>1, FileRows DEF Turn
      <4> QED
        BY <4>2 DEF CsvRow
    <3> QED
      BY <2>1, <2>3, <3>1, RefuseExplains DEF FailsAlone, Turn
  <2> QED
    BY <1>3, <2>2, <2>3, PlainExplains DEF Plain, CaughtAt
<1>5. CASE NameUser(r)
  <2>1. Go(r, "name_taken") \/ \E name : CreateUser(r, name)
    BY <1>5 DEF NameUser
  <2>2. ASSUME NEW name, CreateUser(r, name) PROVE Explains(r)
    <3>1. \A mem : Known(r, View(r), mem, "user_added")
      BY PlainKnown DEF Plain, CaughtAt
    <3>2. PICK mem, w : Proceed(r, mem, w, "user_added")
      BY <2>2 DEF CreateUser
    <3> QED
      BY <3>1, <3>2, GoesOnExplains DEF CaughtAt, Early
  <2> QED
    BY <2>1, <2>2, PlainExplains DEF Plain
<1>6. CASE EnrollUser(r)
  <2>1. (\E good, bad : RowDone(r, good, bad)) \/ \E w : Issue(r, w, "enrolled")
    BY <1>6 DEF EnrollUser
  <2> QED
    BY <1>3, <2>1, WriteExplains DEF Plain, CaughtAt
<1>7. CASE Go(r, "reply")
  BY <1>7, PlainExplains DEF Plain
<1> QED
  BY <1>1, <1>2, <1>4, <1>5, <1>6, <1>7 DEF ImportStudents

(* The export fails as soon as the course has a member.                    *)
LEMMA ProgressExplains ==
  ASSUME NEW r \in Requests, Turn(r), NEW kind \in ProgressKinds, DOMAIN local[r] = DOMAIN NoLocals,
         MemberProgress(r, kind)
  PROVE  Explains(r)
<1> DEFINE v == View(r)  c == op[r].id
<1>1. CASE \E mem : Keep(r, mem, "members")
  BY <1>1, PlainExplains DEF Plain
<1>2. CASE Keep(r, [local[r] EXCEPT !.seen = { v[i].user : i \in MembersOf(v, c) }], "problems")
  <2> DEFINE mem == [local[r] EXCEPT !.seen = { v[i].user : i \in MembersOf(v, c) }]
  <2>1. mem.seen # {} => MembersOf(v, c) # {}
    BY DEF NoLocals
  <2>2. Proceed(r, mem, NoWrite, "problems")
    BY <1>2 DEF Keep
  <2> HIDE DEF mem
  <2>3. Known(r, v, mem, "problems")
    BY <2>1 DEF Known, Early
  <2> QED
    BY <2>2, <2>3, ReadExplains DEF Early
<1>3. ASSUME pc[r] \in {"problems", "accepted"}, NEW mem, mem.seen = local[r].seen,
             NEW label \in {"accepted", "progress"}, Keep(r, mem, label)
      PROVE  Explains(r)
  <2>1. Known(r, v, local[r], pc[r])
    BY <1>3, Founded
  <2>2. Known(r, v, mem, label)
    BY <1>3, <2>1 DEF Known, Early
  <2> QED
    BY <1>3, <2>2, ReadExplains DEF Keep, Early
<1>4. ASSUME NEW set, NEW label, pc[r] = "problems",
             Keep(r, [local[r] EXCEPT !.again = set], "accepted")
      PROVE  Explains(r)
  BY <1>3, <1>4 DEF NoLocals
<1>5. ASSUME NEW good, NEW bad, pc[r] = "accepted",
             Keep(r, [local[r] EXCEPT !.good = good, !.bad = bad], "progress")
      PROVE  Explains(r)
  BY <1>3, <1>5 DEF NoLocals
<1>6. \/ \E mem : Keep(r, mem, "members")
      \/ Keep(r, [local[r] EXCEPT !.seen = { v[i].user : i \in MembersOf(v, c) }], "problems")
      \/ /\ pc[r] = "problems"
         /\ \E set : Keep(r, [local[r] EXCEPT !.again = set], "accepted")
      \/ /\ pc[r] = "accepted"
         /\ \E good, bad : Keep(r, [local[r] EXCEPT !.good = good, !.bad = bad], "progress")
  BY DEF MemberProgress, At
<1> QED
  BY <1>1, <1>2, <1>4, <1>5, <1>6

LEMMA CourseExplains ==
  ASSUME NEW r \in Requests, Turn(r), CourseStep(r),
         op[r].kind \in PageKinds => DOMAIN local[r] = DOMAIN NoLocals,
         op[r].kind = "import_students" => ImportSound(r)
  PROVE  Explains(r)
<1> USE DEF CourseOps
<1>1. CASE UpdateCourse(r)
  BY <1>1, ManageCourseExplains, UpdateCourseExplains DEF UpdateCourse
<1>2. CASE DeleteCourse(r)
  BY <1>2, ManageCourseExplains, DeleteExplains DEF DeleteCourse
<1>3. CASE RemoveMember(r)
  <2>1. \/ ManageCourse(r, "remove_member")
        \/ Issue(r, Delete({op[r].row}), "reply") \/ Go(r, "reply")
    BY <1>3 DEF RemoveMember
  <2> QED
    BY <2>1, ManageCourseExplains, DeleteExplains, PlainExplains DEF Plain
<1>4. CASE UnassignCourseProblem(r)
  <2>1. \/ ManageCourse(r, "unassign_course_problem")
        \/ Issue(r, Delete({op[r].row}), "reply") \/ Go(r, "reply")
    BY <1>4 DEF UnassignCourseProblem
  <2> QED
    BY <2>1, ManageCourseExplains, DeleteExplains, PlainExplains DEF Plain
<1>5. CASE ListCourses(r)
  <2> DEFINE mem == [local[r] EXCEPT !.seen = ListForViewer(View(r), op[r].user)]
  <2>1. op[r].kind = "list_courses" /\ pc[r] = "handler" /\ Keep(r, mem, "page")
    BY <1>5 DEF ListCourses, At
  <2>2. mem.seen = ListForViewer(View(r), op[r].user)
    BY <2>1, Founded DEF Known, NoLocals
  <2> HIDE DEF mem
  <2> QED
    BY <2>1, <2>2, PageExplains DEF ShowsRows
<1>6. CASE InviteMember(r)
  BY <1>6, ManageCourseExplains, InviteExplains DEF InviteMember
<1>7. CASE CourseDetail(r)
  <2>1. CASE MemberProgress(r, "course_detail")
    <3>1. op[r].kind = "course_detail"
      BY <2>1 DEF MemberProgress, At
    <3> QED
      BY <2>1, <3>1, ProgressExplains DEF PageKinds, ProgressKinds
  <2>2. CASE ~MemberProgress(r, "course_detail")
    <3>1. \/ Refuse(r, "404") \/ Refuse(r, "403") \/ Go(r, "count") \/ Go(r, "page")
          \/ \E mem : Keep(r, mem, "loaded")
      BY <1>7, <2>2 DEF CourseDetail
    <3>2. ShowsRows(r, View(r))
      BY <1>7, <2>2 DEF CourseDetail, At, ShowsRows, RowPages
    <3> QED
      BY <3>1, <3>2, RefuseExplains, PlainExplains, PageExplains DEF Plain, Turn
  <2> QED
    BY <2>1, <2>2
<1>8. CASE ExportCourseScores(r)
  <2>1. CASE ManageCourse(r, "export_course_scores")
    BY <2>1, ManageCourseExplains
  <2>2. CASE MemberProgress(r, "export_course_scores")
    <3>1. op[r].kind = "export_course_scores"
      BY <2>2 DEF MemberProgress, At
    <3> QED
      BY <2>2, <3>1, ProgressExplains DEF PageKinds, ProgressKinds
  <2>3. CASE Go(r, "count") \/ Go(r, "reply")
    BY <2>3, PlainExplains DEF Plain
  <2>4. CASE At(r, "export_course_scores", "progress") /\ local[r].seen # {} /\ Refuse(r, "500")
    <3>1. op[r].kind = "export_course_scores" /\ pc[r] = "progress"
      BY <2>4 DEF At
    <3>2. MembersOf(View(r), op[r].id) # {}
      BY <2>4, <3>1, Founded DEF Known
    <3>3. FailsAlone(r)
      BY <3>1, <3>2 DEF FailsAlone
    <3> QED
      BY <2>4, <3>3, RefuseExplains DEF Turn
  <2> QED
    BY <1>8, <2>1, <2>2, <2>3, <2>4 DEF ExportCourseScores
<1> QED
  BY <1>1, <1>2, <1>3, <1>4, <1>5, <1>6, <1>7, <1>8, CreateCourseExplains, JoinExplains,
     ImportExplains, AssignCourseExplains DEF CourseStep

-----------------------------------------------------------------------------
(* A request that sets tags takes its ids one after the other, and has     *)
(* linked the tags it has counted; its problem is there while it is alone. *)
LinkOf(r, row) ==
  row.table = "problem_tag" => \E k \in 1..local[r].n : row.tag = local[r].ids[k]
TagsOnce(r) ==
  op[r].kind \in TagKinds =>
    /\ \A i \in Taken(r) : i[2] <= Cardinality(Taken(r))
    /\ \A i \in Ids : /\ LinkOf(r, writes[r][i])
                      /\ Inserts(stmt[r], i) => LinkOf(r, stmt[r][i])
ProblemThere(r) ==
  Lone(r) /\ op[r].kind \in TagKinds /\ pc[r] \in {"tags", "unlinked"} =>
    /\ ProblemOf(r) \in Ids
    /\ \/ View(r)[ProblemOf(r)].table = "problem"
       \/ Inserts(stmt[r], ProblemOf(r)) /\ stmt[r][ProblemOf(r)].table = "problem"

LEMMA NextIsFree ==
  ASSUME NEW r \in Requests, op[r].kind \in TagKinds, TagsOnce(r), stmt[r] = NoWrite
  PROVE  NewId(r) \notin Touched(writes[r])
<1> SUFFICES ASSUME NewId(r) \in Touched(writes[r]) PROVE FALSE
  OBVIOUS
<1>1. NewId(r) \in Ids /\ NewId(r) \in Own(r)
  BY NewIdOwn DEF Touched
<1>2. NewId(r) \in Taken(r)
  BY <1>1 DEF Taken
<1>3. Taken(r) = Touched(writes[r]) \cap Own(r)
  BY NothingIssued DEF Taken, Touched
<1>4. NewId(r)[2] = 1 + Cardinality(Taken(r))
  BY <1>3 DEF NewId
<1>5. NewId(r)[2] <= Cardinality(Taken(r)) /\ Cardinality(Taken(r)) \in Nat
  BY <1>2, TakenFinite DEF TagsOnce
<1> QED
  BY <1>4, <1>5

LEMMA TagExplains ==
  ASSUME NEW r \in Requests, Turn(r), op[r].kind \in TagKinds, TagsOnce(r), GetOrCreateTag(r)
  PROVE  Explains(r)
<1> DEFINE slug == Lower(op[r].tags[Len(local[r].ids) + 1])
           row == [table |-> "tag", slug |-> slug]
<1>1. pc[r] = "tags" /\ stmt[r] = NoWrite
  BY DEF GetOrCreateTag
<1>2. CASE \E mem : Keep(r, mem, "tags")
  BY <1>2, PlainExplains DEF Plain
<1>3. ASSUME NEW mem, BySlugOfTag(View(r), slug) = {}, Proceed(r, mem, Put(NewId(r), row), "tags")
      PROVE  Explains(r)
  <2>1. NewId(r) \notin Touched(writes[r]) /\ r \notin saved /\ WInv
    BY <1>1, NextIsFree, Founded DEF Turn
  <2>2. IsRow(row)
    BY DEF IsRow, Tables, TagTables
  <2>3. row = [c \in DOMAIN row |-> row[c]] /\ row.table = "tag" /\ row.slug = slug
    OBVIOUS
  <2>4. \A j \in Ids : View(r)[j].table = "tag" => row.slug # View(r)[j].slug
    BY <1>3, <2>1, NoneSuch DEF BySlugOfTag
  <2>5. Proceed(r, mem, Put(NewId(r), row), "tags")
    BY <1>3
  <2> HIDE DEF row
  <2>6. ASSUME NEW j \in Ids, View(r)[j].table = row.table, NEW c \in Tables[row.table].unique
        PROVE  \E k \in DOMAIN c : row[c[k]] = Null \/ row[c[k]] # View(r)[j][c[k]]
    <3>1. c = <<"slug">>
      BY <2>3, UniqueColumns
    <3> QED
      BY <2>3, <2>4, <2>6, <3>1
  <2>7. \A c \in DOMAIN Tables[row.table].foreign :
          row[c] \in RowsOf(View(r), Tables[row.table].foreign[c])
    BY <2>3, ForeignColumns
  <2>8. Fine(View(r), Put(NewId(r), row))
    BY <2>1, <2>2, <2>3, <2>6, <2>7, InsertFine
  <2> QED
    BY <2>5, <2>8, GoesOnExplains, PlainKnown DEF Plain
<1>4. \/ \E mem : Keep(r, mem, "tags")
      \/ /\ BySlugOfTag(View(r), slug) = {}
         /\ \E mem : Proceed(r, mem, Put(NewId(r), row), "tags")
  BY DEF GetOrCreateTag
<1> QED
  BY <1>2, <1>3, <1>4

LEMMA LinkExplains ==
  ASSUME NEW r \in Requests, Turn(r), Tagging, op[r].kind \in TagKinds, TagsOnce(r),
         ProblemThere(r), pc[r] = "unlinked", stmt[r] = NoWrite, local[r].n # Len(local[r].ids),
         NEW mem,
         Proceed(r, mem, Put(NewId(r), [table |-> "problem_tag", problem |-> ProblemOf(r),
                                        tag |-> local[r].ids[local[r].n + 1]]), "unlinked")
  PROVE  Explains(r)
<1> DEFINE p == ProblemOf(r)
           n == local[r].n
           t == local[r].ids[n + 1]
           row == [table |-> "problem_tag", problem |-> p, tag |-> t]
<1>1. CASE FailsAlone(r)
  BY <1>1, GoesOnExplains, PlainKnown DEF Plain
<1>2. CASE ~FailsAlone(r)
  <2>1. NewId(r) \notin Touched(writes[r]) /\ r \notin saved /\ WInv /\ Alone(r)
    BY NextIsFree, Founded DEF Turn
  <2>2. /\ TagSound(r) /\ local[r].ids \in Seq(Ids) /\ n \in Nat /\ n + 1 \in 1..Len(local[r].ids)
        /\ n + 1 # n /\ op[r].tags # <<>> /\ Len(local[r].ids) = Len(op[r].tags)
        /\ DOMAIN op[r].tags = 1..Len(op[r].tags)
    BY <2>1, TagsSequence DEF Tagging, TagSound, TagPlace
  <2>3. \A k \in 1..Len(local[r].ids) :
          local[r].ids[k] \in Ids /\ IsTag(View(r)[local[r].ids[k]], Lower(op[r].tags[k]))
    BY <2>2, NothingIssued DEF TagSound, TagsFound, TagThere
  <2>4. p \in Ids /\ View(r)[p].table = "problem"
    BY <2>1, NothingIssued DEF ProblemThere, Lone, Running
  <2>5. ASSUME NEW k \in 1..n, local[r].ids[k] = t PROVE FALSE
    <3>1. k \in 1..Len(local[r].ids) /\ k # n + 1 /\ k \in DOMAIN op[r].tags
          /\ n + 1 \in DOMAIN op[r].tags
      BY <2>2
    <3>2. Lower(op[r].tags[k]) = Lower(op[r].tags[n + 1])
      BY <2>2, <2>3, <2>5, <3>1 DEF IsTag
    <3>3. FailsAlone(r)
      BY <3>1, <3>2 DEF FailsAlone, TagKinds
    <3> QED
      BY <1>2, <3>3
  <2>6. ASSUME NEW j \in Ids, View(r)[j].table = "problem_tag"
        PROVE  p # View(r)[j].problem \/ t # View(r)[j].tag
    <3> SUFFICES ASSUME Link(View(r)[j], p), View(r)[j].tag = t PROVE FALSE
      BY <2>6 DEF Link
    <3>1. ~Contested(r)
      BY <2>1 DEF Contested, Alone
    <3>2. j \in Own(r)
      BY <2>2, <3>1, NothingIssued DEF TagSound, Unlinked
    <3>3. ~Exists(db[j]) /\ Exists(View(r)[j])
      BY <2>1, <2>6, <3>2, TagKindsOnly DEF WInv, IInv, Identity, Exists
    <3>4. View(r)[j] = writes[r][j]
      BY <2>1, <3>3, ViewAt DEF WInv, IInv
    <3>5. PICK k \in 1..n : writes[r][j].tag = local[r].ids[k]
      BY <2>6, <3>4 DEF TagsOnce, LinkOf
    <3> QED
      BY <2>5, <3>4, <3>5
  <2>7. t \in RowsOf(View(r), "tag") /\ p \in RowsOf(View(r), "problem")
    BY <2>1, <2>2, <2>3, <2>4, NoneSuch DEF IsTag
  <2>8. IsRow(row)
    BY DEF IsRow, Tables, TagTables
  <2>9. row = [c \in DOMAIN row |-> row[c]] /\ row.table = "problem_tag"
        /\ row.problem = p /\ row.tag = t
    OBVIOUS
  <2>10. Proceed(r, mem, Put(NewId(r), row), "unlinked")
    OBVIOUS
  <2> HIDE DEF row, p, t, n
  <2>11. ASSUME NEW j \in Ids, View(r)[j].table = row.table, NEW c \in Tables[row.table].unique
         PROVE  \E k \in DOMAIN c : row[c[k]] = Null \/ row[c[k]] # View(r)[j][c[k]]
    <3>1. c = <<"problem", "tag">>
      BY <2>9, UniqueColumns
    <3> QED
      BY <2>6, <2>9, <2>11, <3>1
  <2>12. \A c \in DOMAIN Tables[row.table].foreign :
           row[c] \in RowsOf(View(r), Tables[row.table].foreign[c])
    BY <2>7, <2>9, ForeignColumns
  <2>13. Fine(View(r), Put(NewId(r), row))
    BY <2>1, <2>8, <2>9, <2>11, <2>12, InsertFine
  <2> QED
    BY <2>10, <2>13, GoesOnExplains, PlainKnown DEF Plain
<1> QED
  BY <1>1, <1>2

LEMMA ReplaceExplains ==
  ASSUME NEW r \in Requests, Turn(r), Tagging, op[r].kind \in TagKinds, TagsOnce(r),
         ProblemThere(r), ReplaceTags(r)
  PROVE  Explains(r)
<1>1. CASE Issue(r, Delete(TagLinks(View(r), ProblemOf(r))), "unlinked")
  <2>1. Fine(View(r), Delete(TagLinks(View(r), ProblemOf(r))))
    BY DEF Fine
  <2> QED
    BY <1>1, <2>1, WriteExplains DEF Plain
<1>2. CASE Go(r, "reply")
  BY <1>2, PlainExplains DEF Plain
<1> QED
  BY <1>1, <1>2, LinkExplains DEF ReplaceTags

LEMMA CreateProblemExplains ==
  ASSUME NEW r \in Requests, Turn(r), CreateProblem(r) PROVE Explains(r)
<1> DEFINE row == [table |-> "problem", body |-> op[r].body, author |-> op[r].user]
<1>1. op[r].kind = "create_problem" /\ pc[r] = "handler"
  BY DEF CreateProblem, At
<1>2. op[r].user \in RowsOf(View(r), "user")
  BY <1>1, SignedIn DEF Early, RoleOps
<1>3. IsRow(row)
  BY DEF IsRow, Tables, ProblemTables
<1>4. row = [c \in DOMAIN row |-> row[c]] /\ row.table = "problem" /\ row.author = op[r].user
  OBVIOUS
<1>5. Issue(r, Put(NewId(r), row), TagsOrReply(r)) /\ TagsOrReply(r) \in Plain
  BY DEF CreateProblem, TagsOrReply, Plain
<1> HIDE DEF row
<1>6. \A c \in DOMAIN Tables[row.table].foreign :
        row[c] \in RowsOf(View(r), Tables[row.table].foreign[c])
  BY <1>2, <1>4, ForeignColumns
<1>7. \A j \in Ids : j # NewId(r) /\ View(r)[j].table = row.table =>
        \A c \in Tables[row.table].unique :
          \E k \in DOMAIN c : row[c[k]] = Null \/ row[c[k]] # View(r)[j][c[k]]
  BY <1>4, UniqueColumns
<1>8. Fine(View(r), Put(NewId(r), row))
  BY <1>1, <1>3, <1>4, <1>6, <1>7, FirstFine DEF Early
<1> QED
  BY <1>5, <1>8, WriteExplains

(* A row of a table without unique constraints gets other columns.         *)
LEMMA FreeUpdate ==
  ASSUME WInv, NEW r \in Requests, NEW i \in Ids, NEW t \in {"problem", "testcase"},
         View(r)[i].table = t, NEW set, DOMAIN set \subseteq {"body", "order"},
         DOMAIN set \subseteq Tables[t].columns
  PROVE  Fine(View(r), Update(i, set, View(r)[i]))
<1>1. IsRow(View(r)[i])
  BY SeenTyped DEF Stored, NoRow, WInv, IInv
<1>2. "table" \notin DOMAIN set /\ DOMAIN set \cap DOMAIN Tables[t].foreign = {}
  BY ForeignColumns
<1>3. DOMAIN Tables[t].foreign \subseteq Tables[t].columns
  BY DEF Tables, ProblemTables, TestcaseTables
<1>4. Tables[t].unique = {}
  BY UniqueColumns
<1>5. \A j \in Ids : j # i /\ View(r)[j].table = t =>
        \A c \in Tables[t].unique :
          \/ \A k \in DOMAIN c :
               /\ c[k] \in Tables[t].columns
               /\ c[k] \in DOMAIN set => set[c[k]] = View(r)[i][c[k]]
          \/ \E k \in DOMAIN c : c[k] \in DOMAIN set /\ set[c[k]] # View(r)[j][c[k]]
  BY <1>4
<1>6. /\ WInv /\ r \in Requests /\ i \in Ids /\ IsRow(View(r)[i]) /\ View(r)[i].table = t
      /\ "table" \notin DOMAIN set /\ DOMAIN set \subseteq Tables[t].columns
      /\ DOMAIN set \cap DOMAIN Tables[t].foreign = {}
      /\ DOMAIN Tables[t].foreign \subseteq Tables[t].columns
  BY <1>1, <1>2, <1>3
<1> QED
  BY <1>5, <1>6, UpdateFine, SMTT(30)

LEMMA UpdateProblemExplains ==
  ASSUME NEW r \in Requests, Turn(r), UpdateProblem(r) PROVE Explains(r)
<1> USE DEF Turn
<1> DEFINE i == op[r].id
<1>1. op[r].kind = "update_problem" /\ pc[r] \in {"handler", "updated"}
  BY DEF UpdateProblem, At
<1>2. CASE Refuse(r, "404")
  BY <1>2, RefuseExplains
<1>3. CASE /\ pc[r] = "handler" /\ Exists(Row(r, "problem", i))
           /\ Issue(r, Update(i, [body |-> op[r].body], Row(r, "problem", i)), "updated")
  <2>1. i \in RowsOf(View(r), "problem") /\ Row(r, "problem", i) = View(r)[i]
    BY <1>3, Absent DEF Row
  <2>2. i \in Ids /\ View(r)[i].table = "problem"
    BY <2>1, Domains DEF RowsOf, WInv, IInv
  <2>3. "body" \in Tables["problem"].columns
    BY DEF Tables, ProblemTables
  <2>4. Fine(View(r), Update(i, [body |-> op[r].body], View(r)[i]))
    BY <2>2, <2>3, FreeUpdate
  <2>5. Known(r, View(r), local[r], "updated")
    BY <1>1, <2>1 DEF Known, Early
  <2> QED
    BY <1>3, <2>1, <2>4, <2>5, GoesOnExplains DEF Issue, Early
<1>4. CASE Go(r, TagsOrReply(r))
  BY <1>4, PlainExplains DEF TagsOrReply, Plain
<1>5. CASE pc[r] = "updated" /\ ~Exists(Row(r, "problem", i))
  <2>1. i \in RowsOf(View(r), "problem")
    BY <1>5, Founded DEF Known
  <2> QED
    BY <1>5, <2>1 DEF Row, RowsOf, Exists, Tables
<1> QED
  BY <1>2, <1>3, <1>4, <1>5 DEF UpdateProblem, At

LEMMA TestcaseRow ==
  ASSUME NEW r, NEW order
  PROVE  LET row == Testcase(r, order)
         IN /\ IsRow(row) /\ row = [c \in DOMAIN row |-> row[c]]
            /\ row.table = "testcase" /\ row.problem = op[r].id
  BY DEF Testcase, IsRow, Tables, TestcaseTables

LEMMA CreateTestcaseExplains ==
  ASSUME NEW r \in Requests, Turn(r), CreateTestcase(r) PROVE Explains(r)
<1> DEFINE row == Testcase(r, op[r].order)
<1>1. op[r].kind = "create_testcase" /\ pc[r] = "handler" /\ Issue(r, Put(NewId(r), row), "reply")
  BY DEF CreateTestcase, At
<1>2. CASE ~Exists(Row(r, "problem", op[r].id))
  <2>1. FailsAlone(r)
    BY <1>1, <1>2 DEF FailsAlone
  <2> QED
    BY <1>1, <2>1, WriteExplains DEF Plain
<1>3. CASE Exists(Row(r, "problem", op[r].id))
  <2>1. op[r].id \in RowsOf(View(r), "problem")
    BY <1>3, Absent DEF Row
  <2>2. /\ IsRow(row) /\ row = [c \in DOMAIN row |-> row[c]]
        /\ row.table = "testcase" /\ row.problem = op[r].id
    BY TestcaseRow
  <2> HIDE DEF row
  <2>3. \A c \in DOMAIN Tables[row.table].foreign :
          row[c] \in RowsOf(View(r), Tables[row.table].foreign[c])
    BY <2>1, <2>2, ForeignColumns
  <2>4. \A j \in Ids : j # NewId(r) /\ View(r)[j].table = row.table =>
          \A c \in Tables[row.table].unique :
            \E k \in DOMAIN c : row[c[k]] = Null \/ row[c[k]] # View(r)[j][c[k]]
    BY <2>2, UniqueColumns
  <2>5. Fine(View(r), Put(NewId(r), row))
    BY <1>1, <2>2, <2>3, <2>4, FirstFine DEF Early
  <2> QED
    BY <1>1, <2>5, WriteExplains DEF Plain
<1> QED
  BY <1>2, <1>3

LEMMA UpdateTestcaseExplains ==
  ASSUME NEW r \in Requests, Turn(r), UpdateTestcase(r) PROVE Explains(r)
<1> DEFINE i == op[r].id
           row == Row(r, "testcase", i)
<1>1. op[r].kind = "update_testcase" /\ op[r] \in Ops /\ WInv
  BY DEF UpdateTestcase, At, Turn, WInv
<1>2. CASE Go(r, "reply")
  BY <1>2, PlainExplains DEF Plain
<1>3. CASE Exists(row) /\ Issue(r, Update(i, op[r].set, row), "refresh")
  <2>1. i \in RowsOf(View(r), "testcase") /\ row = View(r)[i]
    BY <1>3, Absent DEF Row
  <2>2. i \in Ids /\ View(r)[i].table = "testcase"
    BY <1>1, <2>1, Domains DEF RowsOf, WInv, IInv
  <2>3. DOMAIN op[r].set \subseteq {"order"}
    BY <1>1, OpsAssumption DEF Settable
  <2>4. "order" \in Tables["testcase"].columns
    BY DEF Tables, TestcaseTables
  <2>5. Fine(View(r), Update(i, op[r].set, View(r)[i]))
    BY <1>1, <2>2, <2>3, <2>4, FreeUpdate
  <2> QED
    BY <1>1, <1>3, <2>1, <2>2, <2>5, RefreshedExplains DEF RefreshOps
<1> QED
  BY <1>2, <1>3 DEF UpdateTestcase

LEMMA UploadExplains ==
  ASSUME NEW r \in Requests, Turn(r), UploadTestcasesZip(r) PROVE Explains(r)
<1>1. \/ Go(r, "pair") \/ Go(r, "reply")
      \/ \E mem : Keep(r, mem, "pair")
      \/ \E w : Issue(r, w, "testcase_added")
  BY DEF UploadTestcasesZip
<1> QED
  BY <1>1, PlainExplains, WriteExplains DEF Plain, CaughtAt

LEMMA FoundExplains ==
  ASSUME NEW r \in Requests, Turn(r), pc[r] = "handler", Go(r, "found") PROVE Explains(r)
<1>1. local[r] = NoLocals
  BY Founded DEF Known
<1>2. Known(r, View(r), local[r], "found")
  BY <1>1 DEF Known, Early
<1> QED
  BY <1>2, ReadExplains DEF Go, Early

LEMMA ProblemPageExplains ==
  ASSUME NEW r \in Requests, Turn(r), ProblemDetail(r) PROVE Explains(r)
<1>1. \/ pc[r] = "handler" /\ Go(r, "found")
      \/ Refuse(r, "404")
      \/ \E mem : Keep(r, mem, "cases") \/ Keep(r, mem, "page")
  BY DEF ProblemDetail, At
<1>2. ShowsRows(r, View(r))
  BY DEF ProblemDetail, At, ShowsRows, RowPages
<1> QED
  BY <1>1, <1>2, FoundExplains, PlainExplains, PageExplains, RefuseExplains DEF Plain, Turn

LEMMA TestcaseListExplains ==
  ASSUME NEW r \in Requests, Turn(r), ListTestcases(r) PROVE Explains(r)
<1> DEFINE mem == [local[r] EXCEPT !.seen = TestcasesOf(View(r), op[r].id)]
<1>1. op[r].kind = "list_testcases"
  BY DEF ListTestcases, At
<1>2. \/ pc[r] = "handler" /\ Go(r, "found")
      \/ Refuse(r, "404")
      \/ pc[r] = "found" /\ Keep(r, mem, "page")
  BY DEF ListTestcases, At
<1>3. CASE pc[r] = "found" /\ Keep(r, mem, "page")
  <2>1. mem.seen = TestcasesOf(View(r), op[r].id)
    BY <1>3, Founded DEF Known, NoLocals
  <2> HIDE DEF mem
  <2> QED
    BY <1>1, <1>3, <2>1, PageExplains DEF ShowsRows
<1> QED
  BY <1>2, <1>3, FoundExplains, RefuseExplains DEF Turn

LEMMA ProblemExplains ==
  ASSUME NEW r \in Requests, Turn(r), Tagging, TagsOnce(r), ProblemThere(r),
         pc[r] \in {"tags", "unlinked"} => op[r].kind \in TagKinds, ProblemStep(r)
  PROVE  Explains(r)
<1>1. CASE GetOrCreateTag(r)
  BY <1>1, TagExplains DEF GetOrCreateTag
<1>2. CASE ReplaceTags(r)
  BY <1>2, ReplaceExplains DEF ReplaceTags
<1>3. CASE DeleteProblem(r)
  BY <1>3, DeleteExplains, RefuseExplains DEF DeleteProblem, Turn
<1>4. CASE ProblemDetail(r) \/ ListTestcases(r)
  BY <1>4, ProblemPageExplains, TestcaseListExplains
<1>6. CASE DeleteTestcase(r)
  BY <1>6, DeleteExplains, PlainExplains DEF DeleteTestcase, Plain
<1> QED
  BY <1>1, <1>2, <1>3, <1>4, <1>6, CreateProblemExplains, UpdateProblemExplains,
     CreateTestcaseExplains, UpdateTestcaseExplains, UploadExplains DEF ProblemStep

(* The rows a transaction of its own are those it had taken.               *)
LEMMA ExecutedSame ==
  ASSUME WInv, NEW r \in Requests, stmt[r] # NoWrite, Executed(r), op[r].kind \in TagKinds
  PROVE  Taken(r)' = Taken(r)
<1> USE DEF WInv, IInv
<1>1. Taken(r)' \subseteq Taken(r)
  BY ExecutedTaken
<1>2. ASSUME NEW i \in Taken(r) PROVE i \in Taken(r)'
  <2>1. i \in Own(r) /\ i \in Ids /\ (i \in Touched(writes[r]) \/ Inserts(stmt[r], i))
    BY DEF Taken
  <2>2. Inserts(stmt[r], i) => i \in Touched(Result(r))
    BY <2>1, ExecutedRow
  <2>3. i \in Touched(writes'[r])
    BY <2>1, <2>2, ExecutedAt
  <2> QED
    BY <2>1, <2>3 DEF Taken, Own
<1> QED
  BY <1>1, <1>2

LEMMA OnceExecuted ==
  ASSUME WInv, Effects, NEW r \in Requests, stmt[r] # NoWrite, Executed(r), TagsOnce(r)
  PROVE  TagsOnce(r)'
<1> USE DEF WInv, IInv
<1>1. op' = op /\ local' = local
  BY DEF Executed
<1> SUFFICES ASSUME op[r].kind \in TagKinds PROVE TagsOnce(r)'
  BY <1>1 DEF TagsOnce
<1>2. Taken(r)' = Taken(r)
  BY ExecutedSame
<1>3. \A i \in Ids : ~Inserts(stmt'[r], i)
  BY TagsCascadeNothing
<1>4. ASSUME NEW i \in Ids, writes'[r][i].table = "problem_tag"
      PROVE  \E k \in 1..local[r].n : writes'[r][i].tag = local[r].ids[k]
  <2>1. Exists(writes'[r][i])
    BY <1>4, TagKindsOnly DEF Exists
  <2>2. CASE writes'[r][i] = writes[r][i]
    BY <1>4, <2>2 DEF TagsOnce, LinkOf
  <2>3. CASE i \in Touched(Result(r))
    <3>1. writes'[r][i] = Result(r)[i] /\ ~Deletes(stmt[r], i)
      BY <2>1, <2>3, ExecutedRow, Absent
    <3>2. ~Updates(stmt[r], i)
      BY <1>4, <2>3, <3>1, ExecutedRow, TagStatements DEF Inserts
    <3>3. Inserts(stmt[r], i) /\ IsRow(stmt[r][i])
          /\ \A c \in DOMAIN stmt[r][i] : Result(r)[i][c] = stmt[r][i][c]
      BY <2>3, <3>1, <3>2, ExecutedRow, TagStatements
    <3>4. stmt[r][i].table = "problem_tag" /\ writes'[r][i].tag = stmt[r][i].tag
      BY <1>4, <3>1, <3>3, ColumnsOf
    <3> QED
      BY <3>3, <3>4 DEF TagsOnce, LinkOf
  <2> QED
    BY <2>2, <2>3, ExecutedAt
<1> QED
  BY <1>1, <1>2, <1>3, <1>4 DEF TagsOnce, LinkOf, Inserts, Updates

LEMMA ThereExecuted ==
  ASSUME WInv, Effects, Hist, Watch, NEW r \in Requests, stmt[r] # NoWrite, Executed(r),
         ProblemThere(r)
  PROVE  ProblemThere(r)'
<1> USE DEF WInv, IInv
<1> DEFINE p == ProblemOf(r)
<1>1. op' = op /\ pc' = pc /\ ProblemOf(r)' = p
  BY DEF Executed, ProblemOf
<1> SUFFICES ASSUME Lone(r)', op[r].kind \in TagKinds, pc[r] \in {"tags", "unlinked"}
             PROVE  p \in Ids /\ View(r)'[p].table = "problem"
  BY <1>1 DEF ProblemThere
<1>2. Lone(r)
  BY <1>1, MetGrows DEF Lone, Running
<1>3. p \in Ids /\ \/ View(r)[p].table = "problem"
                   \/ Inserts(stmt[r], p) /\ stmt[r][p].table = "problem"
  BY <1>2 DEF ProblemThere
<1>4. CASE p \notin Touched(Result(r))
  <2>1. View(r)'[p] = View(r)[p] /\ ~Inserts(stmt[r], p)
    BY <1>3, <1>4, ExecutedRow
  <2> QED
    BY <1>3, <2>1
<1>5. CASE p \in Touched(Result(r))
  <2>1. View(r)'[p] = Result(r)[p]
    BY <1>3, <1>5, ExecutedRow
  <2>2. CASE Inserts(stmt[r], p)
    <3>1. ~Exists(View(r)[p])
      BY <1>3, <1>5, <2>2, ExecutedRow DEF Inserts, Deletes
    <3>2. stmt[r][p].table = "problem" /\ IsRow(stmt[r][p])
      BY <1>3, <2>2, <3>1, TagStatements DEF Exists, Tables
    <3> QED
      BY <1>3, <2>1, <2>2, <3>2, ExecutedRow, ColumnsOf
  <2>3. CASE ~Inserts(stmt[r], p)
    <3>1. View(r)[p].table = "problem" /\ Exists(View(r)[p])
      BY <1>3, <2>3 DEF Exists, Tables
    <3>2. ~Deletes(stmt[r], p)
      BY <1>3, <3>1, TagStatements
    <3> QED
      BY <1>3, <1>5, <2>1, <2>3, <3>1, <3>2, ExecutedRow
  <2> QED
    BY <2>2, <2>3
<1> QED
  BY <1>4, <1>5

(* A handler goes on: at most the next row of its own is inserted.         *)
LEMMA OnceGoesOn ==
  ASSUME WInv, Hist, Watch, Tagging, NEW r \in Requests, op[r].kind \in TagKinds, TagsOnce(r),
         stmt[r] = NoWrite, NEW mem, NEW w, NEW label, Proceed(r, mem, w, label),
         mem.n \in Nat, local[r].n <= mem.n,
         \A k \in 1..local[r].n : mem.ids[k] = local[r].ids[k],
         \/ \A i \in Ids : ~Inserts(w, i)
         \/ /\ NewId(r) \in Ids
            /\ \A i \in Ids : Inserts(w, i) <=> i = NewId(r)
            /\ w[NewId(r)].table = "problem_tag" =>
                 \E k \in 1..mem.n : w[NewId(r)].tag = mem.ids[k]
  PROVE  TagsOnce(r)'
<1>1. /\ local'[r] = mem /\ stmt'[r] = w /\ pc'[r] = label
      /\ op' = op /\ writes' = writes
  BY Proceeded
<1>2. local[r].n \in Nat
  BY DEF Tagging, TagSound, TagPlace
<1>3. \A i \in Ids : Inserts(w, i) <=> Inserts(stmt[r], i)'
  BY <1>1 DEF Inserts, Updates
<1>4. \A i \in Ids : LinkOf(r, writes[r][i])'
  <2> SUFFICES ASSUME NEW i \in Ids, writes[r][i].table = "problem_tag"
               PROVE  \E k \in 1..mem.n : writes[r][i].tag = mem.ids[k]
    BY <1>1 DEF LinkOf
  <2>1. PICK k \in 1..local[r].n : writes[r][i].tag = local[r].ids[k]
    BY DEF TagsOnce, LinkOf
  <2>2. k \in 1..mem.n /\ mem.ids[k] = local[r].ids[k]
    BY <1>2
  <2> QED
    BY <2>1, <2>2
<1>5. \A i \in Ids : Inserts(w, i) => LinkOf(r, stmt[r][i])'
  BY <1>1 DEF LinkOf
<1>6. Taken(r) = Touched(writes[r]) \cap Own(r)
  BY NothingIssued DEF Taken, Touched
<1>7. \A i \in Taken(r)' : i[2] <= Cardinality(Taken(r)')
  <2>1. CASE \A i \in Ids : ~Inserts(w, i)
    <3>1. Taken(r)' = Taken(r)
      BY <1>1, <1>3, <1>6, <2>1 DEF Taken, Touched, Own
    <3> QED
      BY <3>1 DEF TagsOnce
  <2>2. CASE NewId(r) \in Ids /\ \A i \in Ids : Inserts(w, i) <=> i = NewId(r)
    <3> DEFINE S == Taken(r)
               x == NewId(r)
    <3>1. x \in Own(r)
      BY <2>2, NewIdOwn
    <3>2. Taken(r)' = S \cup {x}
      BY <1>1, <1>3, <1>6, <2>2, <3>1 DEF Taken, Touched, Own
    <3>3. x \notin S
      BY <1>6, NextIsFree
    <3>4. x[2] = 1 + Cardinality(S)
      BY <1>6 DEF NewId
    <3>5. IsFiniteSet(S) /\ Cardinality(S) \in Nat
      BY TakenFinite
    <3>6. \A i \in S : i[2] <= Cardinality(S) /\ i[2] \in Nat
      BY MaxNewAssumption DEF TagsOnce, Taken, Own
    <3> HIDE DEF S, x
    <3>7. Cardinality(S \cup {x}) = Cardinality(S) + 1
      BY <3>3, <3>5, FS_AddElement
    <3> QED
      BY <3>2, <3>4, <3>5, <3>6, <3>7
  <2> QED
    BY <2>1, <2>2
<1>8. \A i \in Ids : LinkOf(r, writes[r][i])' /\ (Inserts(stmt[r], i)' => LinkOf(r, stmt[r][i])')
  BY <1>3, <1>4, <1>5
<1> QED
  BY <1>1, <1>7, <1>8 DEF TagsOnce, LinkOf, Inserts, Updates

(* A request that keeps its locals and inserts no row.                     *)
LEMMA OnceMoves ==
  ASSUME WInv, Hist, Watch, Tagging, NEW r \in Requests, op[r].kind \in TagKinds, TagsOnce(r),
         stmt[r] = NoWrite, NEW w, NEW label, Issue(r, w, label), \A i \in Ids : ~Inserts(w, i)
  PROVE  TagsOnce(r)'
<1>1. Proceed(r, local[r], w, label) /\ local[r].n \in Nat
  BY DEF Issue, Tagging, TagSound, TagPlace
<1> QED
  BY <1>1, OnceGoesOn

LEMMA ThereGoesOn ==
  ASSUME WInv, Hist, Watch, NEW r \in Requests, NEW mem, NEW w, NEW label,
         Proceed(r, mem, w, label),
         label \in {"tags", "unlinked"} /\ Alone(r) =>
           /\ ProblemOf(r) \in Ids
           /\ \/ View(r)[ProblemOf(r)].table = "problem"
              \/ Inserts(w, ProblemOf(r)) /\ w[ProblemOf(r)].table = "problem"
  PROVE  ProblemThere(r)'
<1>1. /\ stmt'[r] = w /\ pc'[r] = label /\ View(r)' = View(r) /\ ProblemOf(r)' = ProblemOf(r)
  BY Proceeded
<1> QED
  BY <1>1, MetGrows DEF ProblemThere, Lone, Inserts, Updates

(* A request that has found its problem still does.                        *)
LEMMA ThereStays ==
  ASSUME WInv, Hist, Watch, NEW r \in Requests, op[r].kind \in TagKinds,
         pc[r] \in {"tags", "unlinked"}, stmt[r] = NoWrite, ProblemThere(r),
         NEW mem, NEW w, NEW label, Proceed(r, mem, w, label)
  PROVE  ProblemThere(r)'
<1>1. Alone(r) => Lone(r)
  BY DEF Lone, Running
<1>2. Alone(r) => ProblemOf(r) \in Ids /\ View(r)[ProblemOf(r)].table = "problem"
  BY <1>1, NothingIssued DEF ProblemThere
<1> QED
  BY <1>2, ThereGoesOn

Placement(r) == TagsOnce(r) /\ ProblemThere(r)

(* A request ends, or its transaction does.                                *)
LEMMA PlacementEnds ==
  ASSUME NEW r \in Requests, writes'[r] = NoWrite, stmt'[r] = NoWrite,
         pc'[r] \notin {"tags", "unlinked"}
  PROVE  Placement(r)'
<1>1. \A i \in Ids : ~Inserts(stmt[r], i)'
  BY NothingIssued DEF Inserts, Updates
<1>2. Taken(r)' = {}
  BY <1>1, NothingTouched DEF Taken, Touched
<1>3. \A i \in Ids : LinkOf(r, writes[r][i])'
  BY NothingTouched DEF LinkOf, Untouched
<1>4. TagsOnce(r)'
  BY <1>1, <1>2, <1>3 DEF TagsOnce
<1> QED
  BY <1>4 DEF Placement, ProblemThere

(* Nothing of a request's session changes.                                 *)
LEMMA PlacementStays ==
  ASSUME NEW r \in Requests, op' = op, writes'[r] = writes[r], stmt'[r] = stmt[r],
         local'[r] = local[r],
         pc'[r] = pc[r] \/ pc'[r] \notin {"tags", "unlinked"},
         Lone(r)' => Lone(r) \/ pc'[r] \notin {"tags", "unlinked"},
         Lone(r)' => View(r)' = View(r), Placement(r)
  PROVE  Placement(r)'
<1>1. \A i \in Ids : Inserts(stmt[r], i)' <=> Inserts(stmt[r], i)
  BY DEF Inserts, Updates
<1>2. Taken(r)' = Taken(r)
  BY <1>1 DEF Taken, Touched, Own
<1>3. TagsOnce(r)'
  BY <1>1, <1>2 DEF Placement, TagsOnce, LinkOf
<1>4. ProblemOf(r)' = ProblemOf(r)
  BY DEF ProblemOf
<1>5. ProblemThere(r)'
  BY <1>1, <1>4 DEF Placement, ProblemThere
<1> QED
  BY <1>3, <1>5 DEF Placement

LEMMA TagPlaced ==
  ASSUME WInv, Hist, Watch, Tagging, NEW r \in Requests, op[r].kind \in TagKinds, Placement(r),
         GetOrCreateTag(r)
  PROVE  Placement(r)'
<1> DEFINE slug == Lower(op[r].tags[Len(local[r].ids) + 1])
           row == [table |-> "tag", slug |-> slug]
           With(i) == [local[r] EXCEPT !.ids = Append(@, i)]
<1>1. /\ pc[r] = "tags" /\ stmt[r] = NoWrite /\ Len(local[r].ids) < Len(op[r].tags)
      /\ TagSound(r) /\ TagsOnce(r) /\ ProblemThere(r)
  BY DEF GetOrCreateTag, Tagging, Placement
<1>2. /\ DOMAIN local[r] = DOMAIN NoLocals /\ local[r].ids \in Seq(Ids) /\ local[r].n = 0
      /\ Len(op[r].tags) \in Nat /\ 1 + 2 * Len(op[r].tags) <= MaxNew
  BY <1>1, TagsSequence DEF TagSound, TagPlace
<1>3. \A i : With(i).n = 0
  BY <1>2 DEF NoLocals
<1>4. CASE BySlugOfTag(View(r), slug) = {}
  <2>1. NewId(r) \in Ids
    <3>1. Cardinality(Taken(r)) \in Nat /\ Placed(r) \in Nat /\ Placed(r) <= 1
      BY TakenFinite DEF Placed
    <3>0. Cardinality(Taken(r)) <= Placed(r) + Len(local[r].ids) + local[r].n
      BY <1>1 DEF TagSound, TagRoom
    <3>2. Len(local[r].ids) \in Nat
      BY <1>2
    <3>3. Cardinality(Taken(r)) < MaxNew
      BY <1>1, <1>2, <3>0, <3>1, <3>2, MaxNewAssumption
    <3> QED
      BY <1>1, <3>3, RoomLeft
  <2>2. row # Untouched /\ row # NoRow /\ "table" \in DOMAIN row /\ row.table = "tag"
    BY DEF Untouched, NoRow
  <2> DEFINE w == Put(NewId(r), row)
             mem == With(NewId(r))
  <2>3. Proceed(r, mem, w, "tags")
    BY <1>4 DEF GetOrCreateTag
  <2>4. mem.n = 0
    BY <1>3
  <2> HIDE DEF row, mem
  <2>5. (\A i \in Ids : Inserts(w, i) <=> i = NewId(r)) /\ w[NewId(r)].table = "tag"
    BY <2>1, <2>2, PutRow
  <2> HIDE DEF w
  <2>6. TagsOnce(r)'
    BY <1>1, <1>2, <2>1, <2>3, <2>4, <2>5, OnceGoesOn
  <2>7. ProblemThere(r)'
    BY <1>1, <2>3, ThereStays
  <2> QED
    BY <2>6, <2>7 DEF Placement
<1>5. CASE BySlugOfTag(View(r), slug) # {}
  <2>1. PICK mem : Proceed(r, mem, NoWrite, "tags") /\ mem.n = 0
    BY <1>3, <1>5 DEF GetOrCreateTag, Keep
  <2>2. TagsOnce(r)'
    BY <1>1, <1>2, <2>1, NothingIssued, OnceGoesOn
  <2>3. ProblemThere(r)'
    BY <1>1, <2>1, ThereStays
  <2> QED
    BY <2>2, <2>3 DEF Placement
<1> QED
  BY <1>4, <1>5

LEMMA LinkPlaced ==
  ASSUME WInv, Hist, Watch, Tagging, NEW r \in Requests, op[r].kind \in TagKinds, Placement(r),
         ReplaceTags(r)
  PROVE  Placement(r)'
<1> DEFINE row == [table |-> "problem_tag", problem |-> ProblemOf(r),
                   tag |-> local[r].ids[local[r].n + 1]]
           w == Put(NewId(r), row)
           mem == [local[r] EXCEPT !.n = @ + 1]
<1>1. /\ pc[r] \in {"tags", "unlinked"} /\ stmt[r] = NoWrite
      /\ TagSound(r) /\ TagsOnce(r) /\ ProblemThere(r)
  BY DEF ReplaceTags, Tagging, Placement
<1>2. CASE \E v, label : Issue(r, v, label) /\ \A i \in Ids : ~Inserts(v, i)
  <2>1. PICK v, label : Issue(r, v, label) /\ \A i \in Ids : ~Inserts(v, i)
    BY <1>2
  <2>2. ProblemThere(r)'
    BY <1>1, <2>1, ThereStays DEF Issue
  <2> QED
    BY <1>1, <2>1, <2>2, OnceMoves DEF Placement
<1>3. CASE pc[r] = "tags"
  <2>1. Issue(r, Delete(TagLinks(View(r), ProblemOf(r))), "unlinked")
    BY <1>3 DEF ReplaceTags
  <2> QED
    BY <1>2, <2>1, OnlyDeletes
<1>4. CASE pc[r] = "unlinked" /\ local[r].n = Len(local[r].ids)
  <2>1. Issue(r, NoWrite, "reply")
    BY <1>4 DEF ReplaceTags, Go, Issue
  <2> QED
    BY <1>2, <2>1, NothingIssued
<1>5. CASE pc[r] = "unlinked" /\ local[r].n # Len(local[r].ids)
  <2>1. Proceed(r, mem, w, "unlinked")
    BY <1>5 DEF ReplaceTags
  <2>2. /\ DOMAIN local[r] = DOMAIN NoLocals /\ local[r].ids \in Seq(Ids) /\ local[r].n \in Nat
        /\ local[r].n < Len(local[r].ids) /\ Len(local[r].ids) = Len(op[r].tags)
        /\ Len(op[r].tags) \in Nat /\ 1 + 2 * Len(op[r].tags) <= MaxNew
    BY <1>1, <1>5, TagsSequence DEF TagSound, TagPlace
  <2>3. mem.n = local[r].n + 1 /\ mem.ids = local[r].ids /\ mem.n \in Nat /\ mem.n \in 1..mem.n
    BY <2>2 DEF NoLocals
  <2>4. NewId(r) \in Ids
    <3>1. Cardinality(Taken(r)) \in Nat /\ Placed(r) \in Nat /\ Placed(r) <= 1
      BY TakenFinite DEF Placed
    <3>0. Cardinality(Taken(r)) <= Placed(r) + Len(local[r].ids) + local[r].n
      BY <1>1 DEF TagSound, TagRoom
    <3>2. Cardinality(Taken(r)) < MaxNew
      BY <2>2, <3>0, <3>1, MaxNewAssumption
    <3> QED
      BY <1>1, <3>2, RoomLeft
  <2>5. row # Untouched /\ row # NoRow /\ "table" \in DOMAIN row /\ row.tag = mem.ids[mem.n]
    BY <2>3 DEF Untouched, NoRow
  <2> HIDE DEF row, mem
  <2>6. (\A i \in Ids : Inserts(w, i) <=> i = NewId(r)) /\ w[NewId(r)] = row
    BY <2>4, <2>5, PutRow
  <2> HIDE DEF w
  <2>7. TagsOnce(r)'
    BY <1>1, <2>1, <2>2, <2>3, <2>4, <2>5, <2>6, OnceGoesOn
  <2>8. ProblemThere(r)'
    BY <1>1, <2>1, ThereStays
  <2> QED
    BY <2>7, <2>8 DEF Placement
<1> QED
  BY <1>1, <1>3, <1>4, <1>5

LEMMA CreatePlaced ==
  ASSUME WInv, Hist, Watch, Tagging, NEW r \in Requests, op[r].kind = "create_problem",
         Placement(r), CreateProblem(r)
  PROVE  Placement(r)'
<1> DEFINE row == [table |-> "problem", body |-> op[r].body, author |-> op[r].user]
           w == Put(NewId(r), row)
           label == TagsOrReply(r)
<1>1. /\ Proceed(r, local[r], w, label) /\ pc[r] = "handler" /\ stmt[r] = NoWrite
      /\ op[r].kind \in TagKinds /\ TagsOnce(r)
  BY DEF CreateProblem, Issue, At, TagKinds, Placement
<1>2. TagSound(r) /\ writes[r] = NoWrite /\ local[r].n \in Nat
  BY <1>1 DEF Tagging, TagSound, TagPlace
<1>3. Cardinality(Taken(r)) = 0
  <2>1. Taken(r) = {}
    BY <1>1, <1>2, NothingIssued, NothingTouched DEF Taken
  <2> QED
    BY <2>1, FS_EmptySet
<1>4. NewId(r) = ProblemOf(r) /\ NewId(r) \in Ids
  <2>1. 0 < MaxNew
    <3>1. Len(op[r].tags) \in Nat /\ 1 + 2 * Len(op[r].tags) <= MaxNew
      BY <1>1, TagsSequence
    <3> QED
      BY <3>1, MaxNewAssumption
  <2> QED
    BY <1>1, <1>3, <2>1, RoomLeft DEF ProblemOf
<1>5. row # Untouched /\ row # NoRow /\ "table" \in DOMAIN row /\ row.table = "problem"
  BY DEF Untouched, NoRow
<1> HIDE DEF row, label
<1>6. (\A i \in Ids : Inserts(w, i) <=> i = NewId(r)) /\ w[NewId(r)].table = "problem"
  BY <1>4, <1>5, PutRow
<1> HIDE DEF w
<1>7. TagsOnce(r)'
  BY <1>1, <1>2, <1>4, <1>6, OnceGoesOn
<1>8. ProblemThere(r)'
  BY <1>1, <1>4, <1>6, ThereGoesOn
<1> QED
  BY <1>7, <1>8 DEF Placement

LEMMA UpdatePlaced ==
  ASSUME WInv, Hist, Watch, Tagging, NEW r \in Requests, op[r].kind = "update_problem",
         Placement(r), UpdateProblem(r), ~(\E status : Refuse(r, status))
  PROVE  Placement(r)'
<1> USE DEF WInv, IInv
<1> DEFINE i == op[r].id
<1>1. /\ op[r].kind \in TagKinds /\ TagsOnce(r) /\ stmt[r] = NoWrite
      /\ Exists(Row(r, "problem", i))
      /\ \/ Issue(r, Update(i, [body |-> op[r].body], Row(r, "problem", i)), "updated")
         \/ Issue(r, NoWrite, TagsOrReply(r))
  BY DEF UpdateProblem, At, TagKinds, Placement, Go, Issue
<1>2. i \in RowsOf(View(r), "problem")
  BY <1>1, Absent DEF Row
<1>3. i \in Ids /\ View(r)[i].table = "problem" /\ ProblemOf(r) = i
  BY <1>2, Domains DEF RowsOf, ProblemOf
<1>4. CASE Issue(r, NoWrite, TagsOrReply(r))
  <2>1. TagsOnce(r)'
    BY <1>1, <1>4, NothingIssued, OnceMoves
  <2>2. ProblemThere(r)'
    BY <1>3, <1>4, ThereGoesOn DEF Issue
  <2> QED
    BY <2>1, <2>2 DEF Placement
<1>5. CASE Issue(r, Update(i, [body |-> op[r].body], Row(r, "problem", i)), "updated")
  <2>1. TagsOnce(r)'
    BY <1>1, <1>3, <1>5, UpdateBody, OnceMoves
  <2>2. ProblemThere(r)'
    BY <1>5, ThereGoesOn DEF Issue
  <2> QED
    BY <2>1, <2>2 DEF Placement
<1> QED
  BY <1>1, <1>4, <1>5

LEMMA OwnPlacement ==
  ASSUME WInv, Effects, Hist, Tagging, NEW r \in Requests, Acts(r), WebStep(r), Watch,
         Placement(r)
  PROVE  Placement(r)'
<1> USE DEF WInv, IInv
<1>0. op' = op
  BY OnlyCommits
<1> SUFFICES ASSUME op[r].kind \in TagKinds PROVE Placement(r)'
  BY <1>0 DEF Placement, TagsOnce, ProblemThere
<1>1. CASE RollsBack(r)
  <2>1. pc'[r] \in {"excepted", "done"} /\ writes'[r] = NoWrite /\ stmt'[r] = NoWrite
    BY <1>1 DEF RollsBack, Shape
  <2> QED
    BY <2>1, PlacementEnds
<1>2. CASE Commits(r)
  <2>1. pc'[r] = "done" /\ writes'[r] = NoWrite /\ stmt'[r] = NoWrite
    BY <1>2 DEF Commits, Shape, Order
  <2> QED
    BY <2>1, PlacementEnds
<1>3. CASE Reply(r)
  <2>1. pc'[r] = "answered" /\ writes' = writes /\ stmt' = stmt /\ local' = local /\ db' = db
    BY <1>3 DEF Reply, Shape
  <2> QED
    BY <1>0, <2>1, PlacementStays DEF View
<1>4. CASE stmt[r] # NoWrite /\ Executed(r)
  BY <1>4, OnceExecuted, ThereExecuted DEF Placement
<1>5. CASE Authenticate(r) /\ Go(r, "handler")
  <2>1. stmt[r] = NoWrite /\ Issue(r, NoWrite, "handler") /\ TagsOnce(r)
    BY <1>5 DEF Authenticate, Order, Go, Issue, Placement
  <2>2. TagsOnce(r)'
    BY <2>1, NothingIssued, OnceMoves
  <2>3. ProblemThere(r)'
    BY <2>1, ThereGoesOn DEF Issue
  <2> QED
    BY <2>2, <2>3 DEF Placement
<1>6. CASE \E status : Refuse(r, status)
  BY <1>6, PlacementEnds DEF Refuse, Shape
<1>7. CASE Common(r)
  <2>1. ~Refresh(r) /\ ~Serialize(r)
    BY DEF Refresh, Serialize, Tagging, TagSound, TagPlace, TagLabels
  <2> QED
    BY <1>1, <1>2, <1>3, <1>4, <1>5, <1>6, <1>7, <2>1, ExecuteShape, CommitShape,
       VictimRollsBack, LostRollsBack DEF Common, Authenticate, Respond
<1> QED
  BY <1>6, <1>7, ActsOfKind, TagPlaced, LinkPlaced, CreatePlaced, UpdatePlaced
  DEF Followed, TagKinds

-----------------------------------------------------------------------------
(* No step of any request disturbs this.                                   *)
Started(r) == pc[r] = "start" => local[r] = NoLocals /\ writes[r] = NoWrite
Settled(r) == Started(r) /\ Placement(r) /\ LoneSound(r)
Undisturbed == \A r \in Requests : Settled(r)

LEMMA FineNext ==
  ASSUME NEW r \in Requests, NEW v, NEW w, View(r)' = v, stmt'[r] = w, Fine(v, w)
  PROVE  Fine(View(r), stmt[r])'
  BY DEF Fine, Delete, Put, NoWrite, KeysFree, ParentsSeen, Ids

LEMMA StillLone ==
  ASSUME NEW r \in Requests, op' = op, pc'[r] = pc[r], stmt'[r] = stmt[r],
         writes'[r] = writes[r], local'[r] = local[r], broken \subseteq broken',
         Lone(r)' => Lone(r) /\ View(r)' = View(r), LoneSound(r)
  PROVE  LoneSound(r)'
<1> SUFFICES ASSUME Lone(r)'
             PROVE  /\ pc'[r] \in Early => writes'[r] = NoWrite /\ stmt'[r] = NoWrite
                    /\ pc'[r] = "page" => stmt'[r] = NoWrite
                    /\ Known(r, View(r), local[r], pc[r])'
                    /\ Caught(r)' \/ Fine(View(r), stmt[r])' \/ FailsAlone(r)'
  BY DEF LoneSound, Early
<1>1. View(r)' = View(r) /\ LoneSound(r) /\ Lone(r)
  OBVIOUS
<1>2. FailsAlone(r) => FailsAlone(r)'
  BY <1>1, FailureStays
<1>3. Fine(View(r), stmt[r]) => Fine(View(r), stmt[r])'
  BY <1>1, FineNext
<1>4. Known(r, View(r), local[r], pc[r])'
  BY <1>1 DEF LoneSound, Known, ShowsRows
<1> QED
  BY <1>1, <1>2, <1>3, <1>4 DEF LoneSound, Caught

LEMMA OtherSettled ==
  ASSUME WInv, Hist, NEW o \in Requests, WebStep(o), Watch, NEW r \in Requests, r # o,
         Settled(r)
  PROVE  Settled(r)' /\ Explained(r)
<1> USE DEF WInv, IInv
<1>1. /\ op' = op /\ pc'[r] = pc[r] /\ stmt'[r] = stmt[r] /\ writes'[r] = writes[r]
      /\ db' = db \/ Commits(o)
  BY OnlyCommits
<1>2. local'[r] = local[r] /\ broken \subseteq broken'
  BY DEF Hist, WebStep, Handled, Continues, Reply, RollsBack, Executed, Commits
<1>3. answer'[r] = answer[r]
  BY DEF Shape, WebStep, Handled, Continues, Reply, RollsBack, Executed, Commits
<1>4. Lone(r)' => Lone(r) /\ View(r)' = View(r)
  <2> SUFFICES ASSUME Lone(r)' PROVE Lone(r) /\ View(r)' = View(r)
    OBVIOUS
  <2>1. Lone(r)
    BY <1>1, MetGrows DEF Lone, Running
  <2>2. ~Commits(o)
    BY <2>1, CommitIsMet DEF Hist, Lone, Alone
  <2> QED
    BY <1>1, <2>1, <2>2 DEF View
<1>5. LoneSound(r)'
  BY <1>1, <1>2, <1>4, StillLone DEF Settled
<1>6. Placement(r)'
  BY <1>1, <1>2, <1>4, PlacementStays DEF Settled
<1>7. Started(r)'
  BY <1>1, <1>2 DEF Settled, Started
<1>8. Explained(r)
  BY <1>3 DEF Explained
<1> QED
  BY <1>5, <1>6, <1>7, <1>8 DEF Settled

(* What a request goes by is there after a statement of its own.           *)
LEMMA ExecutedKnown ==
  ASSUME NEW r \in Requests, Turn(r), Effects, Paging, stmt[r] # NoWrite, Executed(r),
         pc[r] \notin {"start", "done"}
  PROVE  Known(r, View(r), local[r], pc[r])'
<1> USE DEF WInv, IInv
<1> DEFINE i == op[r].id
<1>1. op' = op /\ pc' = pc /\ local' = local
  BY DEF Executed
<1>2. pc[r] \notin Early \cup {"page"} /\ Known(r, View(r), local[r], pc[r])
  BY DEF Turn, LoneSound, Lone, Running
<1>3. op[r].kind # "export_course_scores"
  BY DEF Paging, PageSound, PageKinds, ProgressKinds
<1>4. ASSUME pc[r] = "refresh" PROVE i \in Ids /\ Exists(View(r)'[i]) /\ op[r].kind \in RefreshOps
  <2>1. i \in Ids /\ Exists(View(r)[i]) /\ op[r].kind \in RefreshOps
    BY <1>2, <1>4 DEF Known
  <2>2. Removes(op[r].kind) = {}
    BY <2>1 DEF Removes, RefreshOps, TagKinds
  <2>3. ~Deletes(stmt[r], i)
    BY <2>1, <2>2 DEF Turn, Typing, FitsIn
  <2> QED
    BY <2>1, <2>3, ExecutedRow DEF Turn
<1>5. ASSUME pc[r] = "updated"
      PROVE  i \in RowsOf(View(r)', "problem") /\ op[r].kind = "update_problem"
  <2>1. i \in RowsOf(View(r), "problem") /\ op[r].kind = "update_problem"
    BY <1>2, <1>5 DEF Known
  <2>2. i \in Ids /\ View(r)[i].table = "problem" /\ Exists(View(r)[i])
    BY <2>1, Domains DEF RowsOf, Exists, Tables, ProblemTables, Turn
  <2>3. ~Deletes(stmt[r], i)
    BY <2>1, <2>2, TagStatements DEF TagKinds, Turn
  <2>4. View(r)'[i].table = "problem"
    BY <2>2, <2>3, ExecutedRow DEF Turn
  <2>5. DOMAIN View(r)' = Ids
    BY ExecutedView, Domains DEF View, Executed, Turn
  <2> QED
    BY <2>1, <2>2, <2>4, <2>5 DEF RowsOf
<1> QED
  BY <1>1, <1>2, <1>3, <1>4, <1>5 DEF Known, Early

LEMMA ExecuteExplains ==
  ASSUME NEW r \in Requests, Turn(r), Effects, Paging, Execute(r) PROVE Explains(r)
<1> USE DEF WInv, IInv
<1>1. stmt[r] # NoWrite /\ pc[r] \notin {"start", "answered", "done"}
  BY DEF Execute, Turn, Order
<1>2. pc[r] \notin Early \cup {"page"} /\ (Caught(r) \/ Fine(View(r), stmt[r]) \/ FailsAlone(r))
  BY <1>1 DEF Turn, LoneSound, Lone, Running
<1>3. CASE Stale(r) \/ Duplicate(r) \/ Orphan(r)
  <2>1. FlushFails(r) /\ ~Fine(View(r), stmt[r])
    BY <1>3, FineRuns DEF Execute, Turn, Runs
  <2>2. CASE Caught(r)
    <3>1. pc'[r] = "excepted" /\ stmt'[r] = NoWrite /\ answer' = answer
      BY <2>1, <2>2 DEF FlushFails, Turn, Shape
    <3>2. Fine(View(r), stmt[r])'
      BY <3>1, NoWriteFine, FineNext
    <3>3. Known(r, View(r), local[r], pc[r])'
      BY <3>1 DEF Known, Early
    <3> QED
      BY <3>1, <3>2, <3>3 DEF Explains, LoneSound, Explained, Early
  <2>3. CASE ~Caught(r)
    BY <1>2, <2>1, <2>3, RefuseExplains DEF FlushFails, Turn
  <2> QED
    BY <2>2, <2>3
<1>4. CASE ~(Stale(r) \/ Duplicate(r) \/ Orphan(r))
  <2>1. Executed(r)
    BY <1>4 DEF Execute, Executed
  <2>2. pc' = pc /\ answer' = answer /\ stmt'[r] = Cascade(r)
    BY <2>1 DEF Executed, Turn, Shape
  <2>3. \E S : stmt'[r] = Delete(S)
    BY <2>2 DEF Cascade
  <2>4. Fine(View(r), stmt[r])'
    BY <2>3 DEF Fine, Delete, Ids
  <2>5. Known(r, View(r), local[r], pc[r])'
    BY <1>1, <2>1, ExecutedKnown
  <2> QED
    BY <1>2, <2>2, <2>4, <2>5 DEF Explains, LoneSound, Explained, Early
<1> QED
  BY <1>3, <1>4

(* Whoever waits for another request has met it.                           *)
LEMMA VictimHasCompany ==
  ASSUME WInv, Hist, Undisturbed, NEW r \in Requests, DeadlockVictim(r) PROVE ~Alone(r)
<1> USE DEF WInv, IInv
<1>1. PICK b \in Requests \ {r} : Touched(writes[b]) # {} /\ stmt[r] # NoWrite
  BY DEF DeadlockVictim, Deadlocked, Waiting, Blockers
<1>2. writes[b] # NoWrite
  BY <1>1, NothingTouched
<1>3. Running(b) /\ Running(r)
  BY <1>1, <1>2 DEF Undisturbed, Settled, Started, Order, Running
<1> QED
  BY <1>3 DEF Hist, MetInv, Alone

LEMMA OwnExplains ==
  ASSUME WInv, Effects, Hist, LettersUpper, Paging, Tagging, Importing, Undisturbed, Watch,
         NEW r \in Requests, Acts(r)
  PROVE  Explains(r)
<1> USE DEF WInv, IInv
<1>1. CASE ~Alone(r)
  BY <1>1, NotAloneExplains
<1>2. CASE Alone(r)
  <2>1. Turn(r)
    BY <1>2 DEF Turn, Undisturbed, Settled
  <2>2. CASE Authenticate(r)
    BY <2>1, <2>2, AuthenticateExplains DEF Authenticate, Undisturbed, Settled, Started
  <2>3. CASE Execute(r)
    BY <2>1, <2>3, ExecuteExplains
  <2>4. CASE Respond(r)
    BY <2>4, ReplyExplains DEF Respond
  <2>5. CASE Refresh(r)
    BY <2>1, <2>5, RefreshExplains
  <2>6. CASE Commit(r)
    <3>1. pc'[r] = "done" /\ Explained(r)
      BY <2>6 DEF Commit, Finish, Explained, Shape
    <3> QED
      BY <3>1, EndExplains
  <2>7. CASE AccountStep(r)
    BY <2>1, <2>7, AccountExplains
  <2>8. CASE ContestStep(r)
    BY <2>1, <2>8, ContestExplains
  <2>9. CASE CourseStep(r)
    <3>1. op[r].kind \in PageKinds => DOMAIN local[r] = DOMAIN NoLocals
      BY DEF Paging, PageSound
    <3>2. op[r].kind = "import_students" => ImportSound(r)
      BY DEF Importing
    <3> QED
      BY <2>1, <2>9, <3>1, <3>2, CourseExplains
  <2>10. CASE ProblemStep(r)
    <3>1. pc[r] \in {"tags", "unlinked"} => op[r].kind \in TagKinds
      BY DEF Typing, Labelled
    <3>2. TagsOnce(r) /\ ProblemThere(r)
      BY DEF Undisturbed, Settled, Placement
    <3> QED
      BY <2>1, <2>10, <3>1, <3>2, ProblemExplains
  <2>11. CASE DeadlockVictim(r)
    BY <1>2, <2>11, VictimHasCompany
  <2>12. CASE ConnectionLost(r)
    BY <2>12, RefuseExplains DEF ConnectionLost
  <2>13. CASE Serialize(r)
    BY <2>1, <2>13, SerializeExplains
  <2> QED
    BY <2>2, <2>3, <2>4, <2>5, <2>6, <2>7, <2>8, <2>9, <2>10, <2>11, <2>12, <2>13
    DEF Acts, Step
<1> QED
  BY <1>1, <1>2

LEMMA OwnSettled ==
  ASSUME WInv, Effects, Hist, LettersUpper, Paging, Tagging, Importing, Undisturbed, Watch,
         NEW r \in Requests, Acts(r), WebStep(r)
  PROVE  Settled(r)' /\ Explained(r)
<1> USE DEF WInv, IInv
<1>1. LoneSound(r)' /\ Explained(r)
  BY OwnExplains DEF Explains
<1>2. Placement(r)'
  BY OwnPlacement DEF Undisturbed, Settled
<1>3. pc'[r] # "start"
  BY DEF WebStep, Handled, Continues, Reply, RollsBack, Executed, Commits, Shape, Order
<1> QED
  BY <1>1, <1>2, <1>3 DEF Settled, Started

LEMMA StepSettled ==
  ASSUME WInv, Effects, Hist, LettersUpper, Paging, Tagging, Importing, Undisturbed, [Next]_vars
  PROVE  Undisturbed' /\ \A r \in Requests : Explained(r)
<1>1. CASE Next
  <2>1. PICK o \in Requests : Acts(o) /\ WebStep(o) /\ Watch
    BY <1>1, NextIsWebStep
  <2>2. ASSUME NEW r \in Requests PROVE Settled(r)' /\ Explained(r)
    <3>1. CASE r = o
      BY <2>1, <3>1, OwnSettled
    <3>2. CASE r # o
      BY <2>1, <3>2, OtherSettled DEF Undisturbed
    <3> QED
      BY <3>1, <3>2
  <2> QED
    BY <2>2 DEF Undisturbed
<1>2. CASE UNCHANGED vars
  <2> SUFFICES ASSUME NEW r \in Requests PROVE Settled(r)' /\ Explained(r)
    BY DEF Undisturbed
  <2>1. /\ op' = op /\ pc' = pc /\ stmt' = stmt /\ writes' = writes /\ local' = local
        /\ broken' = broken /\ answer' = answer /\ met' = met /\ View(r)' = View(r)
        /\ Lone(r)' => Lone(r)
    BY <1>2 DEF vars, View, Lone, Running, Alone
  <2>2. LoneSound(r)'
    BY <2>1, StillLone DEF Undisturbed, Settled
  <2>3. Placement(r)'
    BY <2>1, PlacementStays DEF Undisturbed, Settled
  <2> QED
    BY <2>1, <2>2, <2>3 DEF Undisturbed, Settled, Started, Explained
<1> QED
  BY <1>1, <1>2

LEMMA InitSettled == ASSUME Init PROVE Undisturbed
<1> SUFFICES ASSUME NEW r \in Requests PROVE Settled(r)
  BY DEF Undisturbed
<1>1. pc[r] = "start" /\ local[r] = NoLocals /\ writes[r] = NoWrite /\ stmt[r] = NoWrite
  BY DEF Init, SessionInit
<1>2. LoneSound(r)
  BY <1>1 DEF LoneSound, Lone, Running
<1>3. Taken(r) = {}
  BY <1>1, NothingIssued, NothingTouched DEF Taken, Touched
<1>4. \A i \in Ids : LinkOf(r, writes[r][i]) /\ ~Inserts(stmt[r], i)
  BY <1>1, NothingIssued, NothingTouched DEF LinkOf, Untouched
<1>5. Placement(r)
  BY <1>1, <1>3, <1>4 DEF Placement, TagsOnce, ProblemThere
<1> QED
  BY <1>1, <1>2, <1>5 DEF Settled, Started

LEMMA UndisturbedInvariance == Spec => []Undisturbed
<1>1. Init => Undisturbed
  BY InitSettled
<1>2. /\ WInv /\ Effects /\ Hist /\ LettersUpper /\ Paging /\ Tagging /\ Importing /\ Undisturbed
      /\ [Next]_vars
      => Undisturbed'
  BY StepSettled
<1>3. Tagging /\ Bodies => Tagging
  OBVIOUS
<1> QED
  BY <1>1, <1>2, <1>3, SessionsKeepTables, EffectsInvariance, HistInvariance,
     LettersInvariance, PagingInvariance, TaggingInvariance, ImportInvariance, PTL DEF Spec

(* A request is answered with 500 only for one of the reasons that the     *)
(* code has of its own, or because it ran while another one did: no check  *)
(* that a handler makes before it writes is too weak for a request by      *)
(* itself.                                                                 *)
THEOREM ServerErrorsHaveACause == Spec => ServerErrorsExplained
<1>1. /\ WInv /\ Effects /\ Hist /\ LettersUpper /\ Paging /\ Tagging /\ Importing /\ Undisturbed
      /\ [Next]_vars
      => [\A r \in Requests :
            answer[r] = "none" /\ answer'[r] = "500" => ~Alone(r) \/ FailsAlone(r)]_vars
  BY StepSettled DEF Explained
<1>2. Tagging /\ Bodies => Tagging
  OBVIOUS
<1> QED
  BY <1>1, <1>2, SessionsKeepTables, EffectsInvariance, HistInvariance, LettersInvariance,
     PagingInvariance, TaggingInvariance, ImportInvariance, UndisturbedInvariance, PTL
  DEF Spec, ServerErrorsExplained
=============================================================================
