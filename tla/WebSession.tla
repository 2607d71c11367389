----------------------------- MODULE WebSession -----------------------------
(***************************************************************************)
(* One SQLAlchemy session, and so one PostgreSQL transaction at READ       *)
(* COMMITTED, per request.  A handler runs from one SQL statement to the   *)
(* next in a step; a SELECT is part of the step that uses its result, a    *)
(* write statement is issued by one step and executed by another, after it *)
(* has waited for the transactions whose locks it needs.  The response is  *)
(* sent before the session commits (get_session is a dependency with       *)
(* yield), and a flush that fails leaves a session that cannot commit.     *)
(***************************************************************************)
EXTENDS Integers, Schema

CONSTANTS
  Requests,  \* HTTP requests, each with a session of its own
  Seed,      \* the rows there initially: a function from ids to rows
  MaxNew     \* bound: rows one request inserts

Own(r) == {r} \X (1..MaxNew)          \* uuid4 ids: no two requests share one
Ids == DOMAIN Seed \cup (Requests \X (1..MaxNew))

ASSUME SeedAssumption ==
  /\ IsFiniteSet(DOMAIN Seed)
  /\ \A i \in DOMAIN Seed : i \notin Requests \X Nat
  /\ \A i \in DOMAIN Seed : IsRow(Seed[i])
  /\ Consistent(Seed)
ASSUME MaxNewAssumption == MaxNew \in Nat
ASSUME NullAssumption == Null \notin Ids

VARIABLES
  op,      \* the operation each request asks for, with its arguments
  pc,      \* where its handler is
  local,   \* the handler's local variables
  answer,  \* the status the client got
  db,      \* the committed rows
  writes,  \* the rows each transaction has written and not committed
  stmt,    \* the write statement a request waits to have executed
  broken,  \* requests whose session a failed flush has deactivated
  saved,   \* history: requests whose transaction has committed
  met      \* history: requests that ran while this one was running

vars == <<op, pc, local, answer, db, writes, stmt, broken, saved, met>>

Answers == {"none", "200", "400", "401", "403", "404", "500", "lost"}
NoWrite == [i \in Ids |-> Untouched]
NoLocals == [row |-> NoRow, seen |-> {}, again |-> {}, ids |-> <<>>,
             n |-> 0, good |-> 0, bad |-> 0]

SessionInit ==
  /\ pc = [r \in Requests |-> "start"]
  /\ local = [r \in Requests |-> NoLocals]
  /\ answer = [r \in Requests |-> "none"]
  /\ db = [i \in Ids |-> IF i \in DOMAIN Seed THEN Seed[i] ELSE NoRow]
  /\ writes = [r \in Requests |-> NoWrite]
  /\ stmt = [r \in Requests |-> NoWrite]
  /\ broken = {}
  /\ saved = {}
  /\ met = [r \in Requests |-> {}]

-----------------------------------------------------------------------------
(* What a handler does between two statements.                             *)

View(r) == Overlay(writes[r], db)       \* what a SELECT of r sees

(* session.get(table, id): the row, or NoRow when the table has none.      *)
Row(r, table, i) == IF i \in RowsOf(View(r), table) THEN View(r)[i] ELSE NoRow

Touched(w) == { i \in Ids : w[i] # Untouched }

(* Write statements: NoRow to delete, the columns to set, with the name of *)
(* the table to insert.                                                    *)
Deletes(w, i) == w[i] = NoRow
Updates(w, i) == "table" \notin DOMAIN w[i]
Inserts(w, i) == w[i] \notin {NoRow, Untouched} /\ ~Updates(w, i)
Put(i, columns) == [NoWrite EXCEPT ![i] = columns]
Delete(S) == [i \in Ids |-> IF i \in S THEN NoRow ELSE Untouched]
NewId(r) == <<r, 1 + Cardinality(Touched(writes[r]) \cap Own(r))>>

(* The columns of a row that set would change: an UPDATE names only those. *)
Changed(set, row) ==
  [c \in { c \in DOMAIN set : set[c] # row[c] } |-> set[c]]
Update(i, set, row) ==
  LET change == Changed(set, row)
  IN IF DOMAIN change = {} THEN NoWrite ELSE Put(i, change)

At(r, kind, label) == op[r].kind = kind /\ pc[r] = label /\ stmt[r] = NoWrite

(* Go on at label with the locals mem, after statement w if there is one.  *)
Proceed(r, mem, w, label) ==
  /\ local' = [local EXCEPT ![r] = mem]
  /\ stmt' = [stmt EXCEPT ![r] = w]
  /\ pc' = [pc EXCEPT ![r] = label]
  /\ UNCHANGED <<op, answer, db, writes, broken, saved>>

Go(r, label) == Proceed(r, local[r], NoWrite, label)
Issue(r, w, label) == Proceed(r, local[r], w, label)
Keep(r, mem, label) == Proceed(r, mem, NoWrite, label)

(* Mutant of Refuse: the session is neither rolled back nor closed.        *)
RefuseWithoutRollback(r, status) ==
  /\ answer' = [answer EXCEPT ![r] = IF @ = "none" THEN status ELSE @]
  /\ pc' = [pc EXCEPT ![r] = "done"]
  /\ stmt' = [stmt EXCEPT ![r] = NoWrite]
  /\ UNCHANGED <<op, local, db, writes, broken, saved>>

(* Mutant of Refuse: what was flushed is committed when a request fails.   *)
RefuseCommitting(r, status) ==
  /\ answer' = [answer EXCEPT ![r] = IF @ = "none" THEN status ELSE @]
  /\ pc' = [pc EXCEPT ![r] = "done"]
  /\ db' = Overlay(writes[r], db)
  /\ writes' = [writes EXCEPT ![r] = NoWrite]
  /\ stmt' = [stmt EXCEPT ![r] = NoWrite]
  /\ UNCHANGED <<op, local, broken, saved>>

(* The exception that ends a request: get_session rolls back and closes.   *)
(* HTTPException carries the status, any other exception makes it 500.     *)
Refuse(r, status) ==
  /\ answer' = [answer EXCEPT ![r] = IF @ = "none" THEN status ELSE @]
  /\ pc' = [pc EXCEPT ![r] = "done"]
  /\ writes' = [writes EXCEPT ![r] = NoWrite]
  /\ stmt' = [stmt EXCEPT ![r] = NoWrite]
  /\ UNCHANGED <<op, local, db, broken, saved>>

(* The handler returns: the response is sent, the transaction still open.  *)
Reply(r) ==
  /\ answer' = [answer EXCEPT ![r] = "200"]
  /\ pc' = [pc EXCEPT ![r] = "answered"]
  /\ UNCHANGED <<op, local, db, writes, stmt, broken, saved>>

Respond(r) == pc[r] = "reply" /\ stmt[r] = NoWrite /\ Reply(r)

(* The pages that return a row of the ORM.  What a handler annotated       *)
(* -> dict returns is made JSON of by pydantic, which knows no such row.   *)
RowPages == {"contest_detail", "leaderboard", "course_detail", "problem_detail"}
Serialize(r) ==
  /\ pc[r] = "page" /\ stmt[r] = NoWrite
  /\ IF op[r].kind \in RowPages \/ local[r].seen # {} THEN Refuse(r, "500")
     ELSE Go(r, "reply")

(* After a flush that may have had nothing to write, update re-reads the   *)
(* row and raises when it has been deleted meanwhile.                      *)
Refresh(r) ==
  /\ pc[r] = "refresh" /\ stmt[r] = NoWrite
  /\ IF Exists(View(r)[op[r].id]) THEN Go(r, "reply") ELSE Refuse(r, "500")

-----------------------------------------------------------------------------
(* Execution of a write statement: PostgreSQL's row locks, unique          *)
(* constraints and foreign keys, and the cascades of a delete.             *)

Merge(row, set) ==
  [c \in DOMAIN row \cup DOMAIN set |-> IF c \in DOMAIN set THEN set[c] ELSE row[c]]

(* The rows the statement of r leaves, as it would find the table now.     *)
Result(r) ==
  [i \in Ids |->
     IF stmt[r][i] = Untouched THEN Untouched
     ELSE IF Deletes(stmt[r], i)
       THEN IF Exists(View(r)[i]) THEN NoRow ELSE Untouched
     ELSE Merge(View(r)[i], stmt[r][i])]

After(r) == Overlay(Result(r), View(r))

(* An UPDATE by the ORM that matches no row raises StaleDataError.         *)
Stale(r) == \E i \in Ids : Updates(stmt[r], i) /\ ~Exists(View(r)[i])

(* A primary key or a unique constraint is violated.                       *)
Duplicate(r) ==
  \E i \in Touched(Result(r)) :
    \/ Inserts(stmt[r], i) /\ Exists(View(r)[i])
    \/ \E j \in Ids : i # j /\ Keys(After(r)[i]) \cap Keys(After(r)[j]) # {}
NewParents(r, i) == Parents(Result(r)[i]) \ Parents(View(r)[i])
Orphan(r) == \E i \in Touched(Result(r)) : \E p \in NewParents(r, i) :
               ~Holds(After(r), p)

(* Deleting a row, or changing a key of it, excludes references to it.     *)
Exclusive(before, after) == ~Exists(after) \/ Keys(before) # Keys(after)

(* The transactions the statement of r has to wait for: those that have    *)
(* written the same row; have written a row with one of its keys; have     *)
(* deleted or rekeyed a row it refers to; or refer to one it deletes or    *)
(* rekeys.                                                                 *)
Blockers(r) ==
  { o \in Requests \ {r} :
      \E i \in Touched(Result(r)), j \in Touched(writes[o]) :
        \/ i = j
        \/ Keys(Result(r)[i]) \cap (Keys(db[j]) \cup Keys(writes[o][j])) # {}
        \/ Refer(NewParents(r, i), j) /\ Exclusive(db[j], writes[o][j])
        \/ /\ Exclusive(View(r)[i], Result(r)[i])
           /\ Refer(Parents(writes[o][j]) \ Parents(db[j]), i) }

(* Statements inside a try: the handler counts the failure and goes on.    *)
Caught(r) == pc[r] \in {"user_added", "enrolled", "testcase_added"}

(* Mutant of FlushFails: what the transaction wrote stays, locks and all.  *)
FlushFailsKeepingRows(r) ==
  IF Caught(r)
    THEN /\ pc' = [pc EXCEPT ![r] = "excepted"]
         /\ stmt' = [stmt EXCEPT ![r] = NoWrite]
         /\ UNCHANGED <<op, local, answer, db, writes, broken, saved>>
    ELSE Refuse(r, "500")

(* A failed flush rolls the whole transaction back and leaves the session  *)
(* inactive: nothing it does afterwards reaches the database.              *)
FlushFails(r) ==
  IF Caught(r)
    THEN /\ pc' = [pc EXCEPT ![r] = "excepted"]
         /\ writes' = [writes EXCEPT ![r] = NoWrite]
         /\ stmt' = [stmt EXCEPT ![r] = NoWrite]
         /\ broken' = broken \cup {r}
         /\ UNCHANGED <<op, local, answer, db, saved>>
    ELSE Refuse(r, "500")

(* A delete continues with the rows that refer to what it deleted.         *)
Cascade(r) ==
  LET gone == { i \in Touched(Result(r)) : Result(r)[i] = NoRow }
  IN Delete(UNION { Children(After(r), i) : i \in gone })

Execute(r) ==
  /\ stmt[r] # NoWrite
  /\ Blockers(r) = {}
  /\ IF Stale(r) \/ Duplicate(r) \/ Orphan(r)
       THEN FlushFails(r)
       ELSE /\ writes' = [writes EXCEPT ![r] = Overlay(Result(r), @)]
            /\ stmt' = [stmt EXCEPT ![r] = Cascade(r)]
            /\ UNCHANGED <<op, pc, local, answer, db, broken, saved>>

(* PostgreSQL aborts a transaction that waits in a cycle.                  *)
Waiting(r) == stmt[r] # NoWrite /\ Blockers(r) # {}
Deadlocked(r) ==
  \E S \in SUBSET Requests :
    /\ r \in S
    /\ \A a \in S : /\ Waiting(a)
                    /\ \E b \in S : b \in Blockers(a)
                    /\ \E b \in S : a \in Blockers(b)
DeadlockVictim(r) == Deadlocked(r) /\ FlushFails(r)

-----------------------------------------------------------------------------
(* The end of the session, after the response.                             *)

(* get_session closes the session; the request is over.                    *)
Finish(r) ==
  /\ pc' = [pc EXCEPT ![r] = "done"]
  /\ writes' = [writes EXCEPT ![r] = NoWrite]
  /\ UNCHANGED <<op, local, answer, stmt, broken>>

Commit(r) ==
  /\ pc[r] = "answered"
  /\ IF r \in broken
       THEN UNCHANGED <<db, saved>>     \* PendingRollbackError
       ELSE /\ db' = Overlay(writes[r], db)
            /\ saved' = saved \cup {r}
  /\ Finish(r)

(* The process dies or its connections do: PostgreSQL rolls back.          *)
ConnectionLost(r) == pc[r] \notin {"start", "done"} /\ Refuse(r, "lost")

(* History: which requests were running at the same time.                  *)
Running(r) == pc[r] \notin {"start", "done"}
Watch == met' = [r \in Requests |->
                   met[r] \cup { o \in Requests \ {r} : Running(r)' /\ Running(o)' }]
=============================================================================
