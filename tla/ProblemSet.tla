----------------------------- MODULE ProblemSet -----------------------------
(***************************************************************************)
(* Problems, their tags and their test cases: the writing routes of        *)
(* problems/router.py and testcases/router.py over ProblemService,         *)
(* TagService and TestcaseService.  A slug of tags_csv is a pair <<slug,   *)
(* case>>, stored in lower case; the Markdown and limits of a problem are  *)
(* one column, body.                                                       *)
(***************************************************************************)
EXTENDS Accounts

BySlugOfTag(d, slug) == { i \in RowsOf(d, "tag") : d[i].slug = slug }
TagLinks(d, p) == { i \in RowsOf(d, "problem_tag") : d[i].problem = p }
TagsOf(d, p) == { d[d[i].tag].slug : i \in TagLinks(d, p) }
TestcasesOf(d, p) == { i \in RowsOf(d, "testcase") : d[i].problem = p }

-----------------------------------------------------------------------------
(* TagService.set_for_problem: local.ids collects the tags' ids, one slug  *)
(* at a time; then the old links are deleted and the new ones inserted,    *)
(* one row at a time: local.n of them are there.                           *)

Lower(slug) == <<slug[1], "lower">>
ProblemOf(r) == IF op[r].kind = "create_problem" THEN <<r, 1>> ELSE op[r].id

GetOrCreateTag(r) ==
  LET slug == Lower(op[r].tags[Len(local[r].ids) + 1])
      With(i) == [local[r] EXCEPT !.ids = Append(@, i)]
  IN /\ pc[r] = "tags" /\ stmt[r] = NoWrite
     /\ Len(local[r].ids) < Len(op[r].tags)
     /\ IF BySlugOfTag(View(r), slug) = {}
          THEN Proceed(r, With(NewId(r)), Put(NewId(r), [table |-> "tag", slug |-> slug]),
                       "tags")
          ELSE \E i \in BySlugOfTag(View(r), slug) : Keep(r, With(i), "tags")

(* Mutant of ReplaceTags: the links that are there are not deleted.        *)
ExtendTags(r) ==
  \/ /\ pc[r] = "tags" /\ stmt[r] = NoWrite
     /\ Len(local[r].ids) = Len(op[r].tags)
     /\ Go(r, "unlinked")
  \/ /\ pc[r] = "unlinked" /\ stmt[r] = NoWrite
     /\ IF local[r].n = Len(local[r].ids) THEN Go(r, "reply")
        ELSE Proceed(r, [local[r] EXCEPT !.n = @ + 1],
                     Put(NewId(r), [table |-> "problem_tag", problem |-> ProblemOf(r),
                                    tag |-> local[r].ids[local[r].n + 1]]),
                     "unlinked")

ReplaceTags(r) ==
  \/ /\ pc[r] = "tags" /\ stmt[r] = NoWrite
     /\ Len(local[r].ids) = Len(op[r].tags)
     /\ Issue(r, Delete(TagLinks(View(r), ProblemOf(r))), "unlinked")
  \/ /\ pc[r] = "unlinked" /\ stmt[r] = NoWrite
     /\ IF local[r].n = Len(local[r].ids) THEN Go(r, "reply")
        ELSE Proceed(r, [local[r] EXCEPT !.n = @ + 1],
                     Put(NewId(r), [table |-> "problem_tag", problem |-> ProblemOf(r),
                                    tag |-> local[r].ids[local[r].n + 1]]),
                     "unlinked")

(* An empty tags_csv leaves the tags alone.                                *)
TagsOrReply(r) == IF op[r].tags = <<>> THEN "reply" ELSE "tags"

-----------------------------------------------------------------------------
(* Problems.  Anyone who may manage problems may manage each of them.      *)

CreateProblem(r) ==
  /\ At(r, "create_problem", "handler")
  /\ Issue(r, Put(NewId(r), [table |-> "problem", body |-> op[r].body,
                              author |-> op[r].user]), TagsOrReply(r))

(* Every column is given; the row is written when one of them differs.     *)
UpdateProblem(r) ==
  LET row == Row(r, "problem", op[r].id)
      write == Update(op[r].id, [body |-> op[r].body], row)
  IN \/ /\ At(r, "update_problem", "handler")
        /\ IF Exists(row)
             THEN Issue(r, write, "updated")
             ELSE Refuse(r, "404")
     \/ /\ At(r, "update_problem", "updated")
        /\ IF Exists(row) THEN Go(r, TagsOrReply(r)) ELSE Refuse(r, "500")

DeleteProblem(r) ==
  /\ At(r, "delete_problem", "handler")
  /\ IF Exists(Row(r, "problem", op[r].id)) THEN Issue(r, Delete({op[r].id}), "reply")
     ELSE Refuse(r, "404")

(* GET /problems/{id}: problem, test cases, tags, the user's submissions.  *)
ProblemDetail(r) ==
  \/ /\ At(r, "problem_detail", "handler")
     /\ IF Exists(Row(r, "problem", op[r].id)) THEN Go(r, "found") ELSE Refuse(r, "404")
  \/ /\ At(r, "problem_detail", "found")
     /\ Keep(r, [local[r] EXCEPT !.seen = TestcasesOf(View(r), op[r].id)], "cases")
  \/ /\ At(r, "problem_detail", "cases")
     /\ Keep(r, [local[r] EXCEPT !.again = TagLinks(View(r), op[r].id)], "page")

-----------------------------------------------------------------------------
(* Test cases.  Nothing but the foreign key asks whether the problem is    *)
(* there when one is created, and no route asks whether it is the one of   *)
(* the path.                                                               *)

(* Mutant of Testcase: order_index is left unset.                          *)
TestcaseUnordered(r, order) == [table |-> "testcase", problem |-> op[r].id]

Testcase(r, order) == [table |-> "testcase", problem |-> op[r].id, order |-> order]

ListTestcases(r) ==
  \/ /\ At(r, "list_testcases", "handler")
     /\ IF Exists(Row(r, "problem", op[r].id)) THEN Go(r, "found") ELSE Refuse(r, "404")
  \/ /\ At(r, "list_testcases", "found")
     /\ Keep(r, [local[r] EXCEPT !.seen = TestcasesOf(View(r), op[r].id)], "page")

CreateTestcase(r) ==
  /\ At(r, "create_testcase", "handler")
  /\ Issue(r, Put(NewId(r), Testcase(r, op[r].order)), "reply")

(* A test case that is not there is updated and deleted with success.      *)
UpdateTestcase(r) ==
  LET row == Row(r, "testcase", op[r].id)
  IN /\ At(r, "update_testcase", "handler")
     /\ IF Exists(row) THEN Issue(r, Update(op[r].id, op[r].set, row), "refresh")
        ELSE Go(r, "reply")

DeleteTestcase(r) ==
  /\ At(r, "delete_testcase", "handler")
  /\ IF Exists(Row(r, "testcase", op[r].id)) THEN Issue(r, Delete({op[r].id}), "reply")
     ELSE Go(r, "reply")

(* The pairs of an archive, op.pairs of them, in the order a set gives     *)
(* them.  An add that raises is counted, and so is every later one: the    *)
(* session is inactive.                                                    *)
UploadTestcasesZip(r) ==
  LET kind == "upload_testcases_zip"
      left == op[r].pairs - local[r].good - local[r].bad
      Count(good, bad) == [local[r] EXCEPT !.good = @ + good, !.bad = @ + bad]
  IN \/ At(r, kind, "handler") /\ Go(r, "pair")
     \/ /\ At(r, kind, "pair") /\ left = 0
        /\ Go(r, "reply")
     \/ /\ At(r, kind, "pair") /\ left > 0
        /\ IF r \in broken THEN Keep(r, Count(0, 1), "pair")
           ELSE Issue(r, Put(NewId(r), Testcase(r, local[r].good)), "testcase_added")
     \/ At(r, kind, "testcase_added") /\ Keep(r, Count(1, 0), "pair")
     \/ At(r, kind, "excepted") /\ Keep(r, Count(0, 1), "pair")

ProblemStep(r) ==
  \/ GetOrCreateTag(r) \/ ReplaceTags(r)
  \/ CreateProblem(r) \/ UpdateProblem(r) \/ DeleteProblem(r) \/ ProblemDetail(r)
  \/ ListTestcases(r) \/ CreateTestcase(r) \/ UpdateTestcase(r) \/ DeleteTestcase(r)
  \/ UploadTestcasesZip(r)
=============================================================================
