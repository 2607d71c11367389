------------------------------ MODULE Accounts ------------------------------
(***************************************************************************)
(* Users: the guards every other handler sits behind, registration, login, *)
(* the profile page and the two password-reset routes.  An e-mail is a     *)
(* pair <<local part, domain>>, a user name a pair <<local part, stamp>>.  *)
(***************************************************************************)
EXTENDS WebSession

CONSTANT Nobody  \* op.user of a request without a valid token

ManageRoles == {"educator", "admin"}

(* The guard each route is declared with; the rest are open to anyone.     *)
RoleOps ==
  {"create_contest", "update_contest", "delete_contest", "assign_contest_problem",
   "unassign_contest_problem", "create_course", "update_course", "delete_course",
   "invite_member", "remove_member", "import_students", "export_course_scores",
   "assign_course_problem", "unassign_course_problem", "create_problem",
   "update_problem", "delete_problem", "list_testcases", "create_testcase",
   "upload_testcases_zip", "update_testcase", "delete_testcase"}
UserOps == {"register_contest", "list_courses", "join_course_by_invite",
            "course_detail", "me"}

(* The token's user, read from the database; NoRow when there is none.     *)
CurrentUser(r) == IF op[r].user = Nobody THEN NoRow ELSE Row(r, "user", op[r].user)

RequireUser(r) == op[r].kind \in RoleOps \cup UserOps => Exists(CurrentUser(r))
RequireRole(r) == op[r].kind \in RoleOps => CurrentUser(r).role \in ManageRoles

Authenticate(r) ==
  /\ pc[r] = "start"
  /\ IF ~RequireUser(r) THEN Refuse(r, "401")
     ELSE IF ~RequireRole(r) THEN Refuse(r, "403")
     ELSE Go(r, "handler")

-----------------------------------------------------------------------------
(* UserRepository.                                                         *)

(* Mutant of ByEmail: an e-mail address is looked for among active users.  *)
ByEmailOfActive(d, email) ==
  { i \in RowsOf(d, "user") : d[i].email = email /\ d[i].active }

ByEmail(d, email) == { i \in RowsOf(d, "user") : d[i].email = email }
ByUsername(d, name) == { i \in RowsOf(d, "user") : d[i].username = name }
ByIdentifier(d, id) ==
  { i \in RowsOf(d, "user") : d[i].email = id \/ d[i].username = id }
(* One user's e-mail and another's user name: scalar_one_or_none raises.   *)
Ambiguous(d, id) == \E i, j \in ByIdentifier(d, id) : i # j

-----------------------------------------------------------------------------
(* POST /auth/register: two look-ups, then the INSERT.  The student code   *)
(* of the form is not stored.                                              *)

NewUser(email, name, role) ==
  [table |-> "user", email |-> email, username |-> name, student_code |-> Null,
   role |-> role, active |-> TRUE]

RegisterUser(r) ==
  \/ /\ At(r, "register", "handler")
     /\ IF ByEmail(View(r), op[r].email) # {} THEN Refuse(r, "400")
        ELSE Go(r, "email_free")
  \/ /\ At(r, "register", "email_free")
     /\ IF ByUsername(View(r), op[r].username) # {} THEN Refuse(r, "400")
        ELSE Issue(r, Put(NewId(r), NewUser(op[r].email, op[r].username, op[r].role)),
                   "reply")

(* POST /auth/login; op.matches says whether the password is the user's.   *)
IsAuthenticated(r) ==
  \E i \in ByIdentifier(View(r), op[r].identifier) : View(r)[i].active /\ op[r].matches

Login(r) ==
  /\ At(r, "login", "handler")
  /\ IF Ambiguous(View(r), op[r].identifier) THEN Refuse(r, "500")
     ELSE IF IsAuthenticated(r) THEN Go(r, "reply") ELSE Refuse(r, "400")

Me(r) == At(r, "me", "handler") /\ Go(r, "reply")

(* GET /users/{username}: the answer is built from user.class_name, a      *)
(* column the model no longer has, so a profile that exists is an error.   *)
Profile(r) ==
  /\ At(r, "profile", "handler")
  /\ IF \E i \in ByUsername(View(r), op[r].username) : View(r)[i].active
       THEN Refuse(r, "500") ELSE Refuse(r, "404")

(* POST /auth/forgot-password and /auth/reset-password import a name       *)
(* app.core.config does not define, before they look at the token.         *)
ForgotPassword(r) == At(r, "forgot_password", "handler") /\ Refuse(r, "500")
ResetPassword(r) == At(r, "reset_password", "handler") /\ Refuse(r, "500")

AccountStep(r) ==
  \/ RegisterUser(r) \/ Login(r) \/ Me(r) \/ Profile(r)
  \/ ForgotPassword(r) \/ ResetPassword(r)
=============================================================================
