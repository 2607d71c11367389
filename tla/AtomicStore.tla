---------------------------- MODULE AtomicStore ----------------------------
(***************************************************************************)
(* What get_session and the tables promise the handlers of the web         *)
(* application: the rows a request wrote appear all at once or not at all, *)
(* at most once, after the client was told 200; the rows that are there    *)
(* satisfy every unique constraint and foreign key; an id is only ever     *)
(* given to a row by one request, and never again once its row is gone.    *)
(***************************************************************************)
EXTENDS Schema

CONSTANTS
  Requests,  \* the requests
  First,     \* the rows there initially, NoRow at every other id
  Own(_),    \* Own(r): the ids r may insert rows at
  Answers    \* what a client may be told

VARIABLES db, answer, saved

Init ==
  /\ db = First
  /\ answer = [r \in Requests |-> "none"]
  /\ saved = {}

Answer(r) ==
  /\ answer[r] = "none"
  /\ \E a \in Answers \ {"none"} : answer' = [answer EXCEPT ![r] = a]
  /\ UNCHANGED <<db, saved>>

(* The commit of r.                                                        *)
Save(r) ==
  /\ answer[r] = "200" /\ r \notin saved
  /\ saved' = saved \cup {r}
  /\ DOMAIN db' = DOMAIN db
  /\ \A i \in DOMAIN db : Exists(db'[i]) /\ ~Exists(db[i]) => i \in Own(r)
  /\ Consistent(db')
  /\ UNCHANGED answer

Next == \E r \in Requests : Answer(r) \/ Save(r)
Spec == Init /\ [][Next]_<<db, answer, saved>>
=============================================================================
