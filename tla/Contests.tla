------------------------------ MODULE Contests ------------------------------
(***************************************************************************)
(* Contests, their problems and their registrations: the routes of         *)
(* contests/router.py over ContestService.  Each operator named as a route *)
(* is the route; the operators it goes through are the service's.  Times   *)
(* are numbers, a letter is a pair <<letter, case>>.                       *)
(***************************************************************************)
EXTENDS Accounts

BySlug(d, slug) == { i \in RowsOf(d, "contest") : d[i].slug = slug }
ProblemsOfContest(d, c) == { i \in RowsOf(d, "contest_problem") : d[i].contest = c }
RegistrationsOf(d, c) == { i \in RowsOf(d, "registration") : d[i].contest = c }
RegistrationOf(d, c, u) == { i \in RegistrationsOf(d, c) : d[i].user = u }

CanManageContest(c, r) ==
  CurrentUser(r).role = "admin" \/ c.owner = op[r].user

CanViewContest(c, r) ==
  \/ c.public
  \/ /\ op[r].user # Nobody
     /\ \/ CanManageContest(c, r)
        \/ RegistrationOf(View(r), op[r].id, op[r].user) # {}

(* service.get, then can_manage, at the head of every managing route.  The *)
(* session keeps the row: later calls of get do not read it again.         *)
ManageContest(r, kind) ==
  /\ At(r, kind, "handler")
  /\ LET c == Row(r, "contest", op[r].id)
     IN IF ~Exists(c) THEN Refuse(r, "500")        \* EntityNotFoundError
        ELSE IF ~CanManageContest(c, r) THEN Refuse(r, "403")
        ELSE Keep(r, [local[r] EXCEPT !.row = c], "managed")

-----------------------------------------------------------------------------

NewContest(r) ==
  [table |-> "contest", slug |-> op[r].slug, start |-> op[r].start,
   end |-> op[r].end, public |-> op[r].public, locked |-> op[r].locked,
   owner |-> op[r].user]

(* op.naive holds the ends given without a time zone.  One with a zone and *)
(* one without cannot be compared (TypeError); the ends of a row have one. *)
Incomparable(r) == op[r].naive \notin {{}, {"start", "end"}}

CreateContest(r) ==
  /\ At(r, "create_contest", "handler")
  /\ IF BySlug(View(r), op[r].slug) # {} THEN Refuse(r, "400")
     ELSE IF Incomparable(r) THEN Refuse(r, "500")
     ELSE IF op[r].end <= op[r].start THEN Refuse(r, "400")
     ELSE Issue(r, Put(NewId(r), NewContest(r)), "reply")

(* The columns the update gives; a column it does not give is not changed, *)
(* and the window is checked with the value of the row as it was read.     *)
Given(r, column) ==
  IF column \in DOMAIN op[r].set THEN op[r].set[column] ELSE local[r].row[column]

(* The row as the UPDATE is compared with: an end without a zone differs   *)
(* from every end that has one.                                            *)
Compared(r) ==
  [c \in DOMAIN local[r].row |-> IF c \in op[r].naive THEN Null ELSE local[r].row[c]]

(* Mutant of StoreContestUpdate: a window is checked when both its ends    *)
(* are given.                                                              *)
StoreContestUpdateUnchecked(r) ==
  LET set == op[r].set
  IN IF /\ "slug" \in DOMAIN set /\ set.slug # local[r].row.slug
        /\ \E i \in BySlug(View(r), set.slug) : i # op[r].id
       THEN Refuse(r, "400")
     ELSE IF Incomparable(r) THEN Refuse(r, "500")
     ELSE IF /\ {"start", "end"} \subseteq DOMAIN set
             /\ set.end <= set.start THEN Refuse(r, "400")
     ELSE Issue(r, Update(op[r].id, set, Compared(r)), "refresh")

StoreContestUpdate(r) ==
  LET set == op[r].set
  IN IF /\ "slug" \in DOMAIN set /\ set.slug # local[r].row.slug
        /\ \E i \in BySlug(View(r), set.slug) : i # op[r].id
       THEN Refuse(r, "400")
     ELSE IF Incomparable(r) THEN Refuse(r, "500")
     ELSE IF Given(r, "end") <= Given(r, "start") THEN Refuse(r, "400")
     ELSE Issue(r, Update(op[r].id, set, Compared(r)), "refresh")

UpdateContest(r) ==
  \/ ManageContest(r, "update_contest")
  \/ At(r, "update_contest", "managed") /\ StoreContestUpdate(r)

DeleteContest(r) ==
  \/ ManageContest(r, "delete_contest")
  \/ At(r, "delete_contest", "managed") /\ Issue(r, Delete({op[r].id}), "reply")

-----------------------------------------------------------------------------
(* POST /contests/{id}/register: anyone signed in.                         *)

StoreRegistration(r) ==
  IF RegistrationOf(View(r), op[r].id, op[r].user) # {} THEN Go(r, "reply")
  ELSE Issue(r, Put(NewId(r), [table |-> "registration", contest |-> op[r].id,
                               user |-> op[r].user]), "reply")

RegisterForContest(r) ==
  \/ /\ At(r, "register_contest", "handler")
     /\ LET c == Row(r, "contest", op[r].id)
        IN IF ~Exists(c) \/ (c.locked /\ ~op[r].matches) THEN Refuse(r, "400")
           ELSE Go(r, "unlocked")
  \/ At(r, "register_contest", "unlocked") /\ StoreRegistration(r)

-----------------------------------------------------------------------------
(* The problems of a contest.                                              *)

Upper(letter) == <<letter[1], "upper">>

(* The letter is looked for as it was typed and stored in upper case.      *)
StoreContestProblem(r) ==
  LET there == ProblemsOfContest(View(r), op[r].id)
  IN IF \E i \in there : \/ View(r)[i].letter = op[r].letter
                         \/ View(r)[i].problem = op[r].problem
       THEN Refuse(r, "400")
       ELSE Issue(r, Put(NewId(r), [table |-> "contest_problem", contest |-> op[r].id,
                                    problem |-> op[r].problem,
                                    letter |-> Upper(op[r].letter)]), "reply")

AssignContestProblem(r) ==
  \/ ManageContest(r, "assign_contest_problem")
  \/ /\ At(r, "assign_contest_problem", "managed")
     /\ IF Exists(Row(r, "problem", op[r].problem)) THEN Go(r, "problem_found")
        ELSE Refuse(r, "404")
  \/ At(r, "assign_contest_problem", "problem_found") /\ StoreContestProblem(r)

UnassignContestProblem(r) ==
  \/ ManageContest(r, "unassign_contest_problem")
  \/ /\ At(r, "unassign_contest_problem", "managed")
     /\ IF Exists(Row(r, "contest_problem", op[r].row))
          THEN Issue(r, Delete({op[r].row}), "reply") ELSE Go(r, "reply")

-----------------------------------------------------------------------------
(* The pages, up to their serialization (Serialize of WebSession).         *)

ListContests(r) ==
  /\ At(r, "list_contests", "handler")
  /\ Keep(r, [local[r] EXCEPT !.seen = RowsOf(View(r), "contest")], "page")

(* Problems are shown to those who may view the contest, registrations to  *)
(* those who manage it.                                                    *)
ContestDetail(r) ==
  LET row == local[r].row
  IN \/ /\ At(r, "contest_detail", "handler")
        /\ LET c == Row(r, "contest", op[r].id)
           IN IF ~Exists(c) THEN Refuse(r, "404")
              ELSE Keep(r, [local[r] EXCEPT !.row = c,
                              !.n = IF CanViewContest(c, r) THEN 1 ELSE 0], "viewed")
     \/ /\ At(r, "contest_detail", "viewed")
        /\ Keep(r, [local[r] EXCEPT
                      !.seen = IF local[r].n = 1
                               THEN ProblemsOfContest(View(r), op[r].id) ELSE {}],
                "listed")
     \/ /\ At(r, "contest_detail", "listed")
        /\ Keep(r, [local[r] EXCEPT
                      !.again = IF op[r].user # Nobody /\ CanManageContest(row, r)
                                THEN RegistrationsOf(View(r), op[r].id) ELSE {}],
                "page")

(* The columns of the table are listed first; the board is then computed   *)
(* from a list of its own.                                                 *)
ShowLeaderboard(r) ==
  \/ /\ At(r, "leaderboard", "handler")
     /\ LET c == Row(r, "contest", op[r].id)
        IN IF ~Exists(c) THEN Refuse(r, "500")
           ELSE IF ~CanViewContest(c, r) THEN Refuse(r, "403")
           ELSE Go(r, "viewed")
  \/ /\ At(r, "leaderboard", "viewed")
     /\ Keep(r, [local[r] EXCEPT !.seen = ProblemsOfContest(View(r), op[r].id)],
             "listed")
  \/ /\ At(r, "leaderboard", "listed")
     /\ Keep(r, [local[r] EXCEPT !.again = ProblemsOfContest(View(r), op[r].id)],
             "page")

ContestStep(r) ==
  \/ CreateContest(r) \/ UpdateContest(r) \/ DeleteContest(r)
  \/ RegisterForContest(r) \/ AssignContestProblem(r) \/ UnassignContestProblem(r)
  \/ ListContests(r) \/ ContestDetail(r) \/ ShowLeaderboard(r)
=============================================================================
