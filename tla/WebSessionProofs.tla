-------------------------- MODULE WebSessionProofs --------------------------
(***************************************************************************)
(* What the sessions of WebSession keep, whatever their handlers do: the   *)
(* committed rows and what each transaction sees of them satisfy the       *)
(* unique constraints and the foreign keys.  A handler is only required to *)
(* issue statements the database can execute (see Issues).                 *)
(***************************************************************************)
EXTENDS WebSession, TLAPS

(* A statement of r: rows to delete, columns to set, rows of r's own to    *)
(* insert.                                                                 *)
Written(row) == row \in {NoRow, Untouched} \/ ("table" \in DOMAIN row /\ Exists(row))
StmtOK(r, w) ==
  \A i \in Ids : \/ w[i] = Untouched \/ Deletes(w, i) \/ Updates(w, i)
                 \/ Inserts(w, i) /\ Exists(w[i]) /\ i \in Own(r)

(* Every table is a function on Ids, and what is there has a table.        *)
Shape ==
  /\ db = [i \in Ids |-> db[i]] /\ \A i \in Ids : Written(db[i])
  /\ pc = [r \in Requests |-> pc[r]]
  /\ answer = [r \in Requests |-> answer[r]]
  /\ writes = [r \in Requests |-> writes[r]] /\ stmt = [r \in Requests |-> stmt[r]]
  /\ \A r \in Requests :
       /\ writes[r] = [i \in Ids |-> writes[r][i]]
       /\ stmt[r] = [i \in Ids |-> stmt[r][i]]
       /\ StmtOK(r, stmt[r]) /\ \A i \in Ids : Written(writes[r][i])

(* Where a request is decides what it may still have to do.                *)
Order ==
  \A r \in Requests :
    /\ pc[r] = "start" => stmt[r] = NoWrite
    /\ pc[r] = "answered" => stmt[r] = NoWrite /\ answer[r] = "200"
    /\ pc[r] = "done" => stmt[r] = NoWrite /\ writes[r] = NoWrite
    /\ answer[r] # "none" => pc[r] \in {"answered", "done"}
    /\ r \in saved => pc[r] = "done"

(* Rows appear at the ids of one request, and keep their table.            *)
Identity ==
  \A r \in Requests : \A i \in Ids :
    /\ Exists(writes[r][i]) => i \in Own(r) \/ Exists(db[i])
    /\ Exists(writes[r][i]) /\ Exists(db[i]) => writes[r][i].table = db[i].table
    /\ r \notin saved /\ i \in Own(r) => ~Exists(db[i])

(* No key twice: among the committed rows, in what a transaction sees, and *)
(* between the rows two transactions have written.                         *)
Apart(v, w) ==
  \A i \in Touched(v), j \in Touched(w) : i # j /\ Keys(v[i]) \cap Keys(w[j]) = {}
KeysOnce ==
  /\ Unique(db)
  /\ \A r \in Requests : Unique(View(r))
  /\ \A r, o \in Requests : r # o => Apart(writes[r], writes[o])

(* What a row refers to is there: among the committed rows; in what a      *)
(* transaction sees, but for what it is about to delete; and among the     *)
(* rows of another transaction when these are of the rows referred to.     *)
Pending(r, i, p) == Deletes(stmt[r], i) /\ Deletes(writes[r], p[2])
Keeps(v, w) ==
  \A i \in Touched(v) : \A p \in Parents(v[i]) \ Parents(db[i]) :
    p[2] \in Touched(w) => w[p[2]].table = p[1]
ParentsThere ==
  /\ Anchored(db)
  /\ \A r \in Requests : \A i \in Ids : \A p \in Parents(View(r)[i]) :
       Holds(View(r), p) \/ Pending(r, i, p)
  /\ \A r, o \in Requests : r # o => Keeps(writes[r], writes[o])

IInv == Shape /\ Order /\ Identity /\ KeysOnce /\ ParentsThere

-----------------------------------------------------------------------------
(* Rows and tables.                                                        *)

LEMMA Absent == ~Exists(NoRow) /\ ~Exists(Untouched) /\ NoRow # Untouched
  BY DEF Exists, NoRow, Untouched, Tables

LEMMA NothingOfNoRow ==
  ASSUME NEW row, ~Exists(row) PROVE Keys(row) = {} /\ Parents(row) = {}
  BY DEF Keys, Parents

LEMMA ForeignTable ==
  ASSUME NEW t \in DOMAIN Tables, NEW c \in DOMAIN Tables[t].foreign
  PROVE  Tables[t].foreign[c] \in DOMAIN Tables
  BY DEF Tables, UserTables, ProblemTables, TestcaseTables, TagTables, SubmissionTables,
         ContestTables, CourseTables

(* A foreign key refers to a table.                                        *)
LEMMA ParentTable ==
  ASSUME NEW row, NEW p \in Parents(row) PROVE Exists(row) /\ p[1] \in DOMAIN Tables
<1>1. Exists(row)
  BY DEF Parents
<1>2. PICK c \in DOMAIN Tables[row.table].foreign :
        p = <<Tables[row.table].foreign[c], row[c]>>
  BY <1>1 DEF Parents
<1> QED
  BY <1>1, <1>2, ForeignTable DEF Exists

LEMMA OverlayAt ==
  ASSUME NEW w, NEW d, NEW i \in DOMAIN d
  PROVE  /\ DOMAIN Overlay(w, d) = DOMAIN d
         /\ w[i] = Untouched => Overlay(w, d)[i] = d[i]
         /\ w[i] # Untouched => Overlay(w, d)[i] = w[i]
  BY DEF Overlay

LEMMA NothingTouched == Touched(NoWrite) = {} /\ \A i \in Ids : NoWrite[i] = Untouched
  BY DEF Touched, NoWrite

(* What a transaction sees of a row it has written, and of another row.    *)
LEMMA ViewAt ==
  ASSUME Shape, NEW r \in Requests, NEW i \in Ids
  PROVE  /\ i \in Touched(writes[r]) => View(r)[i] = writes[r][i]
         /\ i \notin Touched(writes[r]) => View(r)[i] = db[i]
         /\ Written(writes[r][i]) /\ Written(db[i]) /\ Written(View(r)[i])
<1>1. DOMAIN db = Ids
  BY DEF Shape
<1> QED
  BY <1>1, OverlayAt DEF Shape, View, Touched

LEMMA ViewOfNothing ==
  ASSUME Shape, NEW r \in Requests, writes[r] = NoWrite PROVE View(r) = db
<1>1. DOMAIN db = Ids /\ db = [i \in Ids |-> db[i]]
  BY DEF Shape
<1>2. \A i \in Ids : NoWrite[i] = Untouched
  BY NothingTouched
<1> QED
  BY <1>1, <1>2 DEF View, Overlay

-----------------------------------------------------------------------------
(* What a statement that can be executed leaves.                           *)

Removed(r, i) ==
  Result(r)[i] = NoRow /\ Deletes(stmt[r], i) /\ Exists(View(r)[i])
Changes(r, i) ==
  /\ Exists(Result(r)[i]) /\ Updates(stmt[r], i)
  /\ Exists(View(r)[i]) /\ Result(r)[i].table = View(r)[i].table
Added(r, i) ==
  /\ Exists(Result(r)[i]) /\ Inserts(stmt[r], i) /\ ~Exists(View(r)[i]) /\ i \in Own(r)

LEMMA MergedTable ==
  ASSUME NEW row, NEW set
  PROVE  /\ "table" \in DOMAIN set => "table" \in DOMAIN Merge(row, set)
                                      /\ Merge(row, set).table = set.table
         /\ "table" \in DOMAIN row /\ "table" \notin DOMAIN set =>
              "table" \in DOMAIN Merge(row, set) /\ Merge(row, set).table = row.table
  BY DEF Merge

LEMMA ResultAt ==
  ASSUME Shape, NEW r \in Requests, ~Stale(r), ~Duplicate(r), NEW i \in Ids
  PROVE  /\ Written(Result(r)[i])
         /\ i \in Touched(Result(r)) => Removed(r, i) \/ Changes(r, i) \/ Added(r, i)
         /\ i \notin Touched(Result(r)) => Result(r)[i] = Untouched
                                           /\ (Deletes(stmt[r], i) => ~Exists(View(r)[i]))
<1> DEFINE s == stmt[r][i]
           v == View(r)[i]
<1>1. Result(r)[i] = IF s = Untouched THEN Untouched
                     ELSE IF s = NoRow THEN IF Exists(v) THEN NoRow ELSE Untouched
                     ELSE Merge(v, s)
  BY DEF Result, Deletes
<1>2. Written(v)
  BY ViewAt
<1>3. \/ s = Untouched \/ s = NoRow \/ "table" \notin DOMAIN s
      \/ /\ s # Untouched /\ s # NoRow /\ "table" \in DOMAIN s
         /\ Exists(s) /\ i \in Own(r)
  BY DEF Shape, StmtOK, Deletes, Updates, Inserts
<1>4. "table" \in DOMAIN NoRow /\ "table" \in DOMAIN Untouched
  BY DEF NoRow, Untouched
<1>5. i \in Touched(Result(r)) <=> Result(r)[i] # Untouched
  BY DEF Touched
<1>6. CASE s = Untouched
  <2>1. Result(r)[i] = Untouched
    BY <1>1, <1>6
  <2>2. ~Deletes(stmt[r], i)
    BY <1>6, Absent DEF Deletes
  <2> QED
    BY <1>5, <2>1, <2>2 DEF Written
<1>7. CASE s = NoRow
  <2>1. Result(r)[i] = IF Exists(v) THEN NoRow ELSE Untouched
    BY <1>1, <1>7, Absent
  <2>2. CASE Exists(v)
    BY <1>5, <1>7, <2>1, <2>2, Absent DEF Written, Removed, Deletes
  <2>3. CASE ~Exists(v)
    BY <1>5, <2>1, <2>3 DEF Written
  <2> QED
    BY <2>2, <2>3
<1>8. CASE "table" \notin DOMAIN s
  <2>1. Exists(v)
    BY <1>8 DEF Stale, Updates
  <2>2. "table" \in DOMAIN v
    BY <2>1, <1>2, Absent DEF Written
  <2>3. Result(r)[i] = Merge(v, s)
    BY <1>1, <1>4, <1>8
  <2>4. "table" \in DOMAIN Merge(v, s) /\ Merge(v, s).table = v.table
    BY <2>2, <1>8, MergedTable
  <2>5. Exists(Merge(v, s))
    BY <2>1, <2>4 DEF Exists
  <2>6. Merge(v, s) # Untouched
    BY <2>5, Absent
  <2> QED
    BY <1>5, <1>8, <2>1, <2>3, <2>4, <2>5, <2>6 DEF Written, Changes, Updates
<1>9. CASE s # Untouched /\ s # NoRow /\ "table" \in DOMAIN s /\ Exists(s) /\ i \in Own(r)
  <2>1. Result(r)[i] = Merge(v, s)
    BY <1>1, <1>9
  <2>2. "table" \in DOMAIN Merge(v, s) /\ Merge(v, s).table = s.table
    BY <1>9, MergedTable
  <2>3. Exists(Merge(v, s))
    BY <1>9, <2>2 DEF Exists
  <2>4. Merge(v, s) # Untouched
    BY <2>3, Absent
  <2>5. Inserts(stmt[r], i)
    BY <1>9 DEF Inserts, Updates
  <2>6. i \in Touched(Result(r))
    BY <1>5, <2>1, <2>4
  <2>7. ~Exists(v)
    BY <2>5, <2>6 DEF Duplicate
  <2> QED
    BY <1>5, <1>9, <2>1, <2>2, <2>3, <2>4, <2>5, <2>6, <2>7 DEF Written, Added
<1> QED
  BY <1>3, <1>6, <1>7, <1>8, <1>9

LEMMA Domains ==
  ASSUME Shape, NEW r \in Requests
  PROVE  DOMAIN db = Ids /\ DOMAIN View(r) = Ids /\ DOMAIN After(r) = Ids
  BY DEF Shape, View, After, Overlay

LEMMA AfterAt ==
  ASSUME Shape, NEW r \in Requests, NEW i \in Ids
  PROVE  /\ i \in Touched(Result(r)) => After(r)[i] = Result(r)[i]
         /\ i \notin Touched(Result(r)) => After(r)[i] = View(r)[i]
<1> QED
  BY Domains, OverlayAt DEF After, Touched

(* A statement that is executed runs into nothing another transaction has  *)
(* written.                                                                *)
LEMMA NotBlocked ==
  ASSUME NEW r \in Requests, Blockers(r) = {}, NEW o \in Requests, o # r,
         NEW i \in Touched(Result(r)), NEW j \in Touched(writes[o])
  PROVE  /\ i # j
         /\ Keys(Result(r)[i]) \cap Keys(writes[o][j]) = {}
         /\ Refer(NewParents(r, i), j) => ~Exclusive(db[j], writes[o][j])
         /\ Exclusive(View(r)[i], Result(r)[i]) =>
              ~Refer(Parents(writes[o][j]) \ Parents(db[j]), i)
<1>1. o \in Requests \ {r} /\ o \notin Blockers(r)
  OBVIOUS
<1> DEFINE K(x) == Keys(x)
<1>2. /\ i # j
      /\ K(Result(r)[i]) \cap (K(db[j]) \cup K(writes[o][j])) = {}
      /\ ~(Refer(NewParents(r, i), j) /\ Exclusive(db[j], writes[o][j]))
      /\ ~(/\ Exclusive(View(r)[i], Result(r)[i])
           /\ Refer(Parents(writes[o][j]) \ Parents(db[j]), i))
  BY <1>1 DEF Blockers
<1> QED
  BY <1>2

(* What the execution of a statement of r writes and what r then sees.     *)
Executed(r) ==
  /\ Blockers(r) = {} /\ ~Stale(r) /\ ~Duplicate(r) /\ ~Orphan(r)
  /\ writes' = [writes EXCEPT ![r] = Overlay(Result(r), @)]
  /\ stmt' = [stmt EXCEPT ![r] = Cascade(r)]
  /\ UNCHANGED <<op, pc, local, answer, db, broken, saved>>

LEMMA ExecutedAt ==
  ASSUME Shape, NEW r \in Requests, Executed(r), NEW i \in Ids
  PROVE  /\ i \in Touched(Result(r)) => writes'[r][i] = Result(r)[i]
         /\ i \notin Touched(Result(r)) => writes'[r][i] = writes[r][i]
         /\ i \in Touched(writes'[r]) <=>
              i \in Touched(Result(r)) \/ i \in Touched(writes[r])
<1>1. writes'[r] = Overlay(Result(r), writes[r])
  BY DEF Executed, Shape
<1>2. DOMAIN writes[r] = Ids
  BY DEF Shape
<1> QED
  BY <1>1, <1>2, OverlayAt DEF Touched

LEMMA ExecutedOther ==
  ASSUME Shape, NEW r \in Requests, Executed(r), NEW o \in Requests, o # r
  PROVE  /\ writes'[o] = writes[o] /\ stmt'[o] = stmt[o]
         /\ Overlay(writes'[o], db') = View(o)
  BY DEF Executed, Shape, View

LEMMA ExecutedView ==
  ASSUME Shape, NEW r \in Requests, Executed(r) PROVE Overlay(writes'[r], db') = After(r)
<1>1. db' = db /\ DOMAIN db = Ids /\ DOMAIN Overlay(writes[r], db) = Ids
      /\ DOMAIN writes[r] = Ids
  BY DEF Executed, Shape, Overlay
<1>2. writes'[r] = Overlay(Result(r), writes[r])
  BY DEF Executed, Shape
<1>3. Overlay(Overlay(Result(r), writes[r]), db) = Overlay(Result(r), Overlay(writes[r], db))
  BY <1>1 DEF Overlay
<1> QED
  BY <1>1, <1>2, <1>3 DEF After, View

-----------------------------------------------------------------------------
(* The execution of a statement keeps each part of the invariant.          *)

LEMMA ExecutedKeys ==
  ASSUME Shape, KeysOnce, NEW r \in Requests, Executed(r) PROVE KeysOnce'
<1> DEFINE T == Touched(Result(r))
<1>1. ASSUME NEW o \in Requests PROVE Unique(Overlay(writes'[o], db'))
  <2>1. CASE o # r
    BY <1>1, <2>1, ExecutedOther DEF KeysOnce
  <2>2. CASE o = r
    <3> SUFFICES ASSUME NEW i \in Ids, NEW j \in Ids, i # j
                 PROVE  Keys(After(r)[i]) \cap Keys(After(r)[j]) = {}
      BY <2>2, ExecutedView, Domains DEF Unique
    <3>1. CASE i \in T \/ j \in T
      BY <3>1 DEF Executed, Duplicate
    <3>2. CASE i \notin T /\ j \notin T
      BY <3>2, AfterAt, Domains DEF KeysOnce, Unique
    <3> QED
      BY <3>1, <3>2
  <2> QED
    BY <2>1, <2>2
<1>2. ASSUME NEW a \in Requests, NEW b \in Requests, a # b
      PROVE  Apart(writes'[a], writes'[b])
  <2> SUFFICES ASSUME NEW i \in Touched(writes'[a]), NEW j \in Touched(writes'[b])
               PROVE  i # j /\ Keys(writes'[a][i]) \cap Keys(writes'[b][j]) = {}
    BY DEF Apart
  <2>1. i \in Ids /\ j \in Ids
    BY DEF Touched
  <2>2. Apart(writes[a], writes[b])
    BY <1>2 DEF KeysOnce
  <2>3. CASE a = r /\ i \in T
    <3>1. writes'[b] = writes[b] /\ writes'[a][i] = Result(r)[i]
      BY <1>2, <2>1, <2>3, ExecutedOther, ExecutedAt
    <3> QED
      BY <1>2, <2>3, <3>1, NotBlocked DEF Executed
  <2>4. CASE b = r /\ j \in T
    <3>1. writes'[a] = writes[a] /\ writes'[b][j] = Result(r)[j]
      BY <1>2, <2>1, <2>4, ExecutedOther, ExecutedAt
    <3> QED
      BY <1>2, <2>4, <3>1, NotBlocked DEF Executed
  <2>5. CASE ~(a = r /\ i \in T) /\ ~(b = r /\ j \in T)
    <3>1. i \in Touched(writes[a]) /\ writes'[a][i] = writes[a][i]
      BY <2>1, <2>5, ExecutedAt, ExecutedOther
    <3>2. j \in Touched(writes[b]) /\ writes'[b][j] = writes[b][j]
      BY <2>1, <2>5, ExecutedAt, ExecutedOther
    <3> QED
      BY <2>2, <3>1, <3>2 DEF Apart
  <2> QED
    BY <2>3, <2>4, <2>5
<1>3. Unique(db')
  BY DEF KeysOnce, Executed
<1> QED
  BY <1>1, <1>2, <1>3 DEF KeysOnce, View

(* A row that is referred to keeps its table, or it is deleted, and then   *)
(* what refers to it is deleted next.                                      *)
LEMMA AfterHolds ==
  ASSUME Shape, NEW r \in Requests, ~Stale(r), ~Duplicate(r), NEW p, p[1] \in DOMAIN Tables,
         Holds(View(r), p)
  PROVE  Holds(After(r), p) \/ (p[2] \in Ids /\ Removed(r, p[2]))
<1> DEFINE q == p[2]
<1>1. q \in Ids /\ View(r)[q].table = p[1] /\ Exists(View(r)[q])
  BY Domains DEF Holds, RowsOf, Exists
<1>2. CASE q \notin Touched(Result(r))
  BY <1>1, <1>2, AfterAt, Domains DEF Holds, RowsOf
<1>3. CASE q \in Touched(Result(r)) /\ ~Removed(r, q)
  <2>1. Changes(r, q)
    BY <1>1, <1>3, ResultAt DEF Added
  <2> QED
    BY <1>1, <1>3, <2>1, AfterAt, Domains DEF Holds, RowsOf, Changes
<1> QED
  BY <1>1, <1>2, <1>3

LEMMA CascadeReaches ==
  ASSUME Shape, NEW r \in Requests, NEW i \in Ids, NEW p \in Parents(After(r)[i]),
         p[2] \in Ids, Removed(r, p[2])
  PROVE  Deletes(Cascade(r), i)
<1>1. p[2] \in { j \in Touched(Result(r)) : Result(r)[j] = NoRow }
  BY Absent DEF Removed, Touched
<1>2. i \in Children(After(r), p[2])
  BY Domains DEF Children, Refer
<1>3. i \in UNION { Children(After(r), j) : j \in { j \in Touched(Result(r)) : Result(r)[j] = NoRow } }
  BY <1>1, <1>2
<1> QED
  BY <1>3 DEF Cascade, Delete, Deletes

LEMMA ExecutedSeesParents ==
  ASSUME IInv, NEW r \in Requests, Executed(r), NEW i \in Ids, NEW p \in Parents(After(r)[i])
  PROVE  \/ Holds(After(r), p)
         \/ Deletes(stmt'[r], i) /\ Deletes(writes'[r], p[2])
<1> USE DEF IInv
<1>1. stmt'[r] = Cascade(r) /\ ~Stale(r) /\ ~Duplicate(r) /\ ~Orphan(r)
  BY DEF Executed, Shape
<1>2. p[1] \in DOMAIN Tables
  BY ParentTable
<1>3. CASE Holds(View(r), p)
  <2>1. CASE p[2] \in Ids /\ Removed(r, p[2])
    <3>1. Deletes(Cascade(r), i)
      BY <2>1, CascadeReaches
    <3>2. p[2] \in Touched(Result(r))
      BY <2>1, Absent DEF Removed, Touched
    <3>3. writes'[r][p[2]] = NoRow
      BY <2>1, <3>2, ExecutedAt DEF Removed
    <3> QED
      BY <1>1, <3>1, <3>3 DEF Deletes
  <2> QED
    BY <1>1, <1>2, <1>3, <2>1, AfterHolds
<1>4. CASE p \in Parents(View(r)[i]) /\ ~Holds(View(r), p)
  <2>1. Deletes(stmt[r], i) /\ Exists(View(r)[i])
    BY <1>4, ParentTable DEF ParentsThere, Pending
  <2>2. i \in Touched(Result(r)) /\ Removed(r, i)
    BY <1>1, <2>1, ResultAt DEF Changes, Added, Inserts, Updates, Deletes, NoRow
  <2> QED
    BY <2>2, AfterAt, ParentTable, Absent DEF Removed
<1>5. CASE p \notin Parents(View(r)[i])
  <2>1. i \in Touched(Result(r)) /\ p \in NewParents(r, i)
    BY <1>5, AfterAt DEF NewParents
  <2> QED
    BY <1>1, <2>1 DEF Orphan
<1> QED
  BY <1>3, <1>4, <1>5

(* A row of another transaction that a new reference names is there and    *)
(* has the table the reference asks for.                                   *)
LEMMA NewReferenceKept ==
  ASSUME IInv, NEW r \in Requests, Executed(r), NEW o \in Requests, o # r,
         NEW i \in Touched(Result(r)), NEW p \in Parents(Result(r)[i]) \ Parents(db[i]),
         p[2] \in Touched(writes[o])
  PROVE  writes[o][p[2]].table = p[1]
<1> USE DEF IInv
<1> DEFINE q == p[2]
<1>1. i \in Ids /\ q \in Ids /\ ~Orphan(r)
  BY DEF Touched, Executed
<1>2. CASE p \in NewParents(r, i)
  <2>1. Refer(NewParents(r, i), q)
    BY <1>2 DEF Refer
  <2>2. ~Exclusive(db[q], writes[o][q])
    BY <2>1, NotBlocked DEF Executed
  <2>3. q \notin Touched(writes[r])
    BY DEF KeysOnce, Apart
  <2>4. q \notin Touched(Result(r))
    BY NotBlocked DEF Executed
  <2>5. After(r)[q] = db[q]
    BY <1>1, <2>3, <2>4, AfterAt, ViewAt
  <2>6. db[q].table = p[1]
    BY <1>1, <1>2, <2>5 DEF Orphan, Holds, RowsOf
  <2>7. Exists(db[q])
    BY <2>6, ParentTable DEF Exists
  <2> QED
    BY <1>1, <2>2, <2>6, <2>7 DEF Exclusive, Identity
<1>3. CASE p \in Parents(View(r)[i])
  <2>1. i \in Touched(writes[r]) /\ p \in Parents(writes[r][i]) \ Parents(db[i])
    BY <1>1, <1>3, ViewAt
  <2>2. Keeps(writes[r], writes[o])
    BY DEF ParentsThere
  <2> QED
    BY <2>1, <2>2 DEF Keeps
<1> QED
  BY <1>2, <1>3 DEF NewParents

(* A row the statement writes and another transaction refers to stays and  *)
(* keeps its table.                                                        *)
LEMMA OldReferenceKept ==
  ASSUME IInv, NEW r \in Requests, Executed(r), NEW o \in Requests, o # r,
         NEW i \in Touched(writes[o]), NEW p \in Parents(writes[o][i]) \ Parents(db[i]),
         p[2] \in Touched(Result(r))
  PROVE  Result(r)[p[2]].table = p[1]
<1> USE DEF IInv
<1> DEFINE q == p[2]
<1>1. i \in Ids /\ q \in Ids /\ ~Stale(r) /\ ~Duplicate(r)
  BY DEF Touched, Executed
<1>2. Refer(Parents(writes[o][i]) \ Parents(db[i]), q)
  BY DEF Refer
<1>3. ~Exclusive(View(r)[q], Result(r)[q])
  BY <1>2, NotBlocked DEF Executed
<1>4. q \notin Touched(writes[o])
  BY NotBlocked DEF Executed
<1>5. p \in Parents(View(o)[i]) /\ View(o)[q] = db[q] /\ writes[o][q] = Untouched
  BY <1>1, <1>4, ViewAt DEF Touched
<1>6. Holds(View(o), p)
  BY <1>1, <1>5, Absent DEF ParentsThere, Pending, Deletes
<1>7. db[q].table = p[1] /\ Exists(db[q])
  BY <1>5, <1>6, ParentTable DEF Holds, RowsOf, Exists
<1>8. View(r)[q].table = p[1]
  <2>1. CASE q \in Touched(writes[r])
    <3>1. Keeps(writes[o], writes[r])
      BY DEF ParentsThere
    <3> QED
      BY <1>1, <2>1, <3>1, ViewAt DEF Keeps
  <2>2. CASE q \notin Touched(writes[r])
    BY <1>1, <1>7, <2>2, ViewAt
  <2> QED
    BY <2>1, <2>2
<1>9. Exists(View(r)[q])
  BY <1>8, ParentTable DEF Exists
<1>10. Changes(r, q)
  <2>1. Exists(Result(r)[q])
    BY <1>3 DEF Exclusive
  <2> QED
    BY <1>1, <1>9, <2>1, ResultAt, Absent DEF Removed, Added
<1> QED
  BY <1>8, <1>10 DEF Changes

LEMMA ExecutedParents ==
  ASSUME IInv, NEW r \in Requests, Executed(r) PROVE ParentsThere'
<1> USE DEF IInv
<1>1. Anchored(db')
  BY DEF Executed, ParentsThere
<1>2. ASSUME NEW o \in Requests, NEW i \in Ids, NEW p \in Parents(Overlay(writes'[o], db')[i])
      PROVE  \/ Holds(Overlay(writes'[o], db'), p)
             \/ Deletes(stmt'[o], i) /\ Deletes(writes'[o], p[2])
  <2>1. CASE o = r
    BY <1>2, <2>1, ExecutedView, ExecutedSeesParents
  <2>2. CASE o # r
    BY <1>2, <2>2, ExecutedOther DEF ParentsThere, Pending
  <2> QED
    BY <2>1, <2>2
<1>3. ASSUME NEW a \in Requests, NEW b \in Requests, a # b,
             NEW i \in Touched(writes'[a]), NEW p \in Parents(writes'[a][i]) \ Parents(db[i]),
             p[2] \in Touched(writes'[b])
      PROVE  writes'[b][p[2]].table = p[1]
  <2> DEFINE T == Touched(Result(r))
  <2>1. i \in Ids /\ p[2] \in Ids
    BY <1>3 DEF Touched
  <2>2. Keeps(writes[a], writes[b])
    BY <1>3 DEF ParentsThere
  <2>3. CASE a = r /\ i \in T
    <3>1. writes'[b] = writes[b] /\ writes'[a][i] = Result(r)[i]
      BY <1>3, <2>1, <2>3, ExecutedOther, ExecutedAt
    <3> QED
      BY <1>3, <2>3, <3>1, NewReferenceKept
  <2>4. CASE b = r /\ p[2] \in T
    <3>1. writes'[a] = writes[a] /\ writes'[b][p[2]] = Result(r)[p[2]]
      BY <1>3, <2>1, <2>4, ExecutedOther, ExecutedAt
    <3> QED
      BY <1>3, <2>4, <3>1, OldReferenceKept
  <2>5. CASE ~(a = r /\ i \in T) /\ ~(b = r /\ p[2] \in T)
    <3>1. i \in Touched(writes[a]) /\ writes'[a][i] = writes[a][i]
      BY <1>3, <2>1, <2>5, ExecutedAt, ExecutedOther
    <3>2. p[2] \in Touched(writes[b]) /\ writes'[b][p[2]] = writes[b][p[2]]
      BY <1>3, <2>1, <2>5, ExecutedAt, ExecutedOther
    <3> QED
      BY <1>3, <2>2, <3>1, <3>2 DEF Keeps
  <2> QED
    BY <2>3, <2>4, <2>5
<1>4. db' = db
  BY DEF Executed
<1>5. \A o \in Requests : \A i \in Ids : \A p \in Parents(Overlay(writes'[o], db')[i]) :
        \/ Holds(Overlay(writes'[o], db'), p)
        \/ Deletes(stmt'[o], i) /\ Deletes(writes'[o], p[2])
  BY <1>2
<1>6. \A a, b \in Requests : a # b =>
        \A i \in Touched(writes'[a]) : \A p \in Parents(writes'[a][i]) \ Parents(db'[i]) :
          p[2] \in Touched(writes'[b]) => writes'[b][p[2]].table = p[1]
  BY <1>3, <1>4
<1> QED
  BY <1>1, <1>5, <1>6 DEF ParentsThere, View, Pending, Keeps

LEMMA ExecutedIdentity ==
  ASSUME IInv, NEW r \in Requests, stmt[r] # NoWrite, Executed(r) PROVE Identity'
<1> USE DEF IInv
<1>1. db' = db /\ saved' = saved /\ ~Stale(r) /\ ~Duplicate(r)
  BY DEF Executed
<1>2. r \notin saved
  BY DEF Order
<1>3. ASSUME NEW i \in Touched(Result(r)), Exists(Result(r)[i])
      PROVE  /\ i \in Own(r) \/ Exists(db[i])
             /\ Exists(db[i]) => Result(r)[i].table = db[i].table
  <2>1. i \in Ids
    BY DEF Touched
  <2>2. CASE Added(r, i)
    BY <1>2, <2>1, <2>2 DEF Added, Identity
  <2>3. CASE Changes(r, i)
    <3>1. View(r)[i] = writes[r][i] \/ View(r)[i] = db[i]
      BY <2>1, ViewAt
    <3> QED
      BY <2>1, <2>3, <3>1 DEF Changes, Identity
  <2> QED
    BY <1>1, <1>3, <2>1, <2>2, <2>3, ResultAt, Absent DEF Removed
<1>4. ASSUME NEW o \in Requests, NEW i \in Ids
      PROVE  /\ Exists(writes'[o][i]) => i \in Own(o) \/ Exists(db[i])
             /\ Exists(writes'[o][i]) /\ Exists(db[i]) => writes'[o][i].table = db[i].table
  <2>1. CASE o = r /\ i \in Touched(Result(r))
    BY <1>3, <2>1, ExecutedAt
  <2>2. CASE o # r \/ i \notin Touched(Result(r))
    <3>1. writes'[o][i] = writes[o][i]
      BY <2>2, ExecutedAt, ExecutedOther
    <3> QED
      BY <3>1 DEF Identity
  <2> QED
    BY <2>1, <2>2
<1> QED
  BY <1>1, <1>4 DEF Identity

LEMMA ExecutedShape ==
  ASSUME Shape, NEW r \in Requests, Executed(r) PROVE Shape'
<1>1. /\ writes' = [writes EXCEPT ![r] = Overlay(Result(r), writes[r])]
      /\ stmt' = [stmt EXCEPT ![r] = Cascade(r)]
      /\ pc' = pc /\ answer' = answer /\ db' = db /\ ~Stale(r) /\ ~Duplicate(r)
  BY DEF Executed
<1>2. ASSUME NEW o \in Requests
      PROVE  writes'[o] = [i \in Ids |-> writes'[o][i]] /\ stmt'[o] = [i \in Ids |-> stmt'[o][i]]
  <2>1. Overlay(Result(r), writes[r]) = [i \in Ids |-> Overlay(Result(r), writes[r])[i]]
    BY DEF Overlay, Shape
  <2>2. Cascade(r) = [i \in Ids |-> Cascade(r)[i]]
    BY DEF Cascade, Delete
  <2> QED
    BY <1>1, <2>1, <2>2 DEF Shape
<1>3. StmtOK(r, Cascade(r))
  BY DEF StmtOK, Cascade, Delete, Deletes
<1>4. ASSUME NEW o \in Requests
      PROVE  StmtOK(o, stmt'[o]) /\ \A i \in Ids : Written(writes'[o][i])
  <2>1. CASE o # r
    BY <2>1, ExecutedOther DEF Shape
  <2>2. CASE o = r
    <3>1. stmt'[r] = Cascade(r)
      BY <1>1 DEF Shape
    <3>2. ASSUME NEW i \in Ids PROVE Written(writes'[r][i])
      BY <1>1, ExecutedAt, ResultAt, ViewAt
    <3> QED
      BY <1>3, <2>2, <3>1, <3>2
  <2> QED
    BY <2>1, <2>2
<1> QED
  BY <1>1, <1>2, <1>4 DEF Shape

LEMMA ExecutedOrder ==
  ASSUME Shape, Order, NEW r \in Requests, stmt[r] # NoWrite, Executed(r) PROVE Order'
<1>1. pc[r] \notin {"start", "answered", "done"}
  BY DEF Order
<1>2. pc' = pc /\ answer' = answer /\ saved' = saved
  BY DEF Executed
<1> QED
  BY <1>1, <1>2, ExecutedOther DEF Order

LEMMA ExecutedIInv ==
  ASSUME IInv, NEW r \in Requests, stmt[r] # NoWrite, Executed(r) PROVE IInv'
  BY ExecutedShape, ExecutedOrder, ExecutedIdentity, ExecutedKeys, ExecutedParents DEF IInv

-----------------------------------------------------------------------------
(* A handler that goes on, after a statement or not.                       *)

Active(r) == pc[r] \notin {"answered", "done"} /\ stmt[r] = NoWrite
Continues(r, w, label) ==
  /\ Active(r) /\ label \notin {"start", "answered", "done"}
  /\ StmtOK(r, w) /\ w = [i \in Ids |-> w[i]]
  /\ pc' = [pc EXCEPT ![r] = label]
  /\ stmt' = [stmt EXCEPT ![r] = w]
  /\ \E mem : local' = [local EXCEPT ![r] = mem]
  /\ UNCHANGED <<op, answer, db, writes, broken, saved>>

LEMMA NothingPending ==
  ASSUME NEW r \in Requests, stmt[r] = NoWrite, ParentsThere,
         NEW i \in Ids, NEW p \in Parents(View(r)[i])
  PROVE  Holds(View(r), p)
  BY NothingTouched, Absent DEF ParentsThere, Pending, Deletes

LEMMA ContinuesIInv ==
  ASSUME IInv, NEW r \in Requests, NEW w, NEW label, Continues(r, w, label) PROVE IInv'
<1> USE DEF IInv
<1>1. /\ pc' = [pc EXCEPT ![r] = label] /\ stmt' = [stmt EXCEPT ![r] = w]
      /\ answer' = answer /\ db' = db /\ writes' = writes /\ saved' = saved
      /\ StmtOK(r, w) /\ w = [i \in Ids |-> w[i]] /\ label \notin {"start", "answered", "done"}
      /\ pc[r] \notin {"answered", "done"} /\ stmt[r] = NoWrite
  BY DEF Continues, Active
<1>2. Shape'
  BY <1>1 DEF Shape
<1>3. Order'
  BY <1>1 DEF Order, Shape
<1>4. Identity'
  BY <1>1 DEF Identity
<1>5. KeysOnce'
  BY <1>1 DEF KeysOnce, View
<1>6. ParentsThere'
  <2>1. ASSUME NEW o \in Requests, NEW i \in Ids, NEW p \in Parents(View(o)[i])
        PROVE  \/ Holds(View(o), p)
               \/ Deletes(stmt'[o], i) /\ Deletes(writes[o], p[2])
    <3>1. CASE o = r
      BY <1>1, <2>1, <3>1, NothingPending
    <3>2. CASE o # r
      BY <1>1, <2>1, <3>2 DEF ParentsThere, Pending, Shape
    <3> QED
      BY <3>1, <3>2
  <2> QED
    BY <1>1, <2>1 DEF ParentsThere, View, Pending, Keeps
<1> QED
  BY <1>2, <1>3, <1>4, <1>5, <1>6

(* A handler that returns: the response is sent.                           *)
LEMMA ReplyIInv ==
  ASSUME IInv, NEW r \in Requests, Active(r), Reply(r) PROVE IInv'
<1> USE DEF IInv
<1>1. /\ pc' = [pc EXCEPT ![r] = "answered"] /\ answer' = [answer EXCEPT ![r] = "200"]
      /\ stmt' = stmt /\ db' = db /\ writes' = writes /\ saved' = saved
      /\ pc[r] \notin {"answered", "done"} /\ stmt[r] = NoWrite
  BY DEF Reply, Active
<1>2. Shape'
  BY <1>1 DEF Shape
<1>3. Order'
  BY <1>1 DEF Order, Shape
<1> QED
  BY <1>1, <1>2, <1>3 DEF Identity, KeysOnce, ParentsThere, View, Pending, Keeps

-----------------------------------------------------------------------------
(* A transaction that is rolled back.                                      *)

RollsBack(r) ==
  /\ pc[r] # "done"
  /\ writes' = [writes EXCEPT ![r] = NoWrite]
  /\ stmt' = [stmt EXCEPT ![r] = NoWrite]
  /\ broken' \in {broken, broken \cup {r}}
  /\ UNCHANGED <<op, local, db, saved>>
  /\ \/ /\ pc' = [pc EXCEPT ![r] = "excepted"]
        /\ answer[r] = "none" /\ answer' = answer
     \/ /\ pc' = [pc EXCEPT ![r] = "done"]
        /\ \E status \in Answers \ {"none"} :
             answer' = [answer EXCEPT ![r] = IF @ = "none" THEN status ELSE @]

LEMMA RollsBackIInv ==
  ASSUME IInv, NEW r \in Requests, RollsBack(r) PROVE IInv'
<1> USE DEF IInv
<1>1. /\ writes' = [writes EXCEPT ![r] = NoWrite] /\ stmt' = [stmt EXCEPT ![r] = NoWrite]
      /\ db' = db /\ saved' = saved /\ pc[r] # "done"
  BY DEF RollsBack
<1>2. /\ writes'[r] = NoWrite /\ stmt'[r] = NoWrite
      /\ \A o \in Requests : o # r => writes'[o] = writes[o] /\ stmt'[o] = stmt[o]
  BY <1>1 DEF Shape
<1>3. Overlay(NoWrite, db) = db
  BY NothingTouched DEF Overlay, Shape
<1>4. Shape'
  <2>1. StmtOK(r, NoWrite) /\ NoWrite = [i \in Ids |-> NoWrite[i]]
    BY DEF StmtOK, NoWrite
  <2>2. \A i \in Ids : Written(NoWrite[i])
    BY DEF NoWrite, Written
  <2>3. pc' = [o \in Requests |-> pc'[o]] /\ answer' = [o \in Requests |-> answer'[o]]
    BY DEF RollsBack, Shape
  <2>4. ASSUME NEW o \in Requests
        PROVE  /\ writes'[o] = [i \in Ids |-> writes'[o][i]]
               /\ stmt'[o] = [i \in Ids |-> stmt'[o][i]]
               /\ StmtOK(o, stmt'[o]) /\ \A i \in Ids : Written(writes'[o][i])
    BY <1>2, <2>1, <2>2 DEF Shape
  <2> QED
    BY <1>1, <2>3, <2>4 DEF Shape
<1>5. Order'
  BY <1>1, <1>2 DEF Order, Shape, RollsBack
<1>6. Identity'
  BY <1>1, <1>2, NothingTouched, Absent DEF Identity
<1>7. KeysOnce'
  <2>1. ASSUME NEW o \in Requests PROVE Unique(Overlay(writes'[o], db'))
    BY <1>1, <1>2, <1>3 DEF KeysOnce, View
  <2>2. ASSUME NEW a \in Requests, NEW b \in Requests, a # b
        PROVE  Apart(writes'[a], writes'[b])
    BY <1>2, <2>2, NothingTouched DEF KeysOnce, Apart
  <2> QED
    BY <1>1, <2>1, <2>2 DEF KeysOnce, View
<1>8. ParentsThere'
  <2>1. ASSUME NEW o \in Requests, NEW i \in Ids, NEW p \in Parents(Overlay(writes'[o], db')[i])
        PROVE  \/ Holds(Overlay(writes'[o], db'), p)
               \/ Deletes(stmt'[o], i) /\ Deletes(writes'[o], p[2])
    <3>1. CASE o = r
      BY <1>1, <1>2, <1>3, <2>1, <3>1, Domains DEF ParentsThere, Anchored
    <3>2. CASE o # r
      BY <1>1, <1>2, <2>1, <3>2 DEF ParentsThere, Pending, View
    <3> QED
      BY <3>1, <3>2
  <2>2. ASSUME NEW a \in Requests, NEW b \in Requests, a # b, NEW i \in Touched(writes'[a]),
               NEW p \in Parents(writes'[a][i]) \ Parents(db[i]), p[2] \in Touched(writes'[b])
        PROVE  writes'[b][p[2]].table = p[1]
    BY <1>2, <2>2, NothingTouched DEF ParentsThere, Keeps
  <2>3. \A o \in Requests : \A i \in Ids : \A p \in Parents(Overlay(writes'[o], db')[i]) :
          \/ Holds(Overlay(writes'[o], db'), p)
          \/ Deletes(stmt'[o], i) /\ Deletes(writes'[o], p[2])
    BY <2>1
  <2>4. \A a, b \in Requests : a # b =>
          \A i \in Touched(writes'[a]) : \A p \in Parents(writes'[a][i]) \ Parents(db'[i]) :
            p[2] \in Touched(writes'[b]) => writes'[b][p[2]].table = p[1]
    BY <1>1, <2>2
  <2> QED
    BY <1>1, <2>3, <2>4 DEF ParentsThere, View, Pending, Keeps
<1> QED
  BY <1>4, <1>5, <1>6, <1>7, <1>8

-----------------------------------------------------------------------------
(* A transaction that commits.                                             *)

Commits(r) ==
  /\ pc[r] = "answered" /\ r \notin broken
  /\ db' = View(r) /\ saved' = saved \cup {r}
  /\ pc' = [pc EXCEPT ![r] = "done"]
  /\ writes' = [writes EXCEPT ![r] = NoWrite]
  /\ UNCHANGED <<op, local, answer, stmt, broken>>

LEMMA CommitsAt ==
  ASSUME Shape, NEW r \in Requests, Commits(r)
  PROVE  /\ writes'[r] = NoWrite /\ stmt' = stmt /\ db' = View(r) /\ DOMAIN db' = Ids
         /\ \A o \in Requests : o # r => writes'[o] = writes[o]
         /\ Overlay(writes'[r], db') = View(r)
<1>1. /\ writes'[r] = NoWrite /\ stmt' = stmt /\ db' = View(r) /\ DOMAIN db' = Ids
      /\ \A o \in Requests : o # r => writes'[o] = writes[o]
  BY Domains DEF Commits, Shape
<1>2. View(r) = [i \in Ids |-> View(r)[i]]
  BY DEF View, Overlay, Shape
<1>3. Overlay(NoWrite, View(r)) = View(r)
  BY <1>2, NothingTouched DEF Overlay
<1> QED
  BY <1>1, <1>3

(* What another transaction sees after the commit of r.                    *)
LEMMA SeenAfterCommit ==
  ASSUME Shape, NEW r \in Requests, Commits(r), NEW o \in Requests, o # r, NEW i \in Ids
  PROVE  /\ DOMAIN Overlay(writes'[o], db') = Ids
         /\ i \in Touched(writes[o]) => Overlay(writes'[o], db')[i] = writes[o][i]
         /\ i \notin Touched(writes[o]) => Overlay(writes'[o], db')[i] = View(r)[i]
  BY CommitsAt, OverlayAt DEF Touched

LEMMA CommitsShape ==
  ASSUME Shape, NEW r \in Requests, Commits(r) PROVE Shape'
<1>1. View(r) = [i \in Ids |-> View(r)[i]]
  BY DEF View, Overlay, Shape
<1>2. db' = [i \in Ids |-> db'[i]] /\ \A i \in Ids : Written(db'[i])
  BY <1>1, CommitsAt, ViewAt
<1>3. NoWrite = [i \in Ids |-> NoWrite[i]] /\ \A i \in Ids : Written(NoWrite[i])
  BY DEF NoWrite, Written
<1>4. ASSUME NEW o \in Requests
      PROVE  /\ writes'[o] = [i \in Ids |-> writes'[o][i]]
             /\ \A i \in Ids : Written(writes'[o][i])
  BY <1>3, CommitsAt DEF Shape
<1> QED
  BY <1>2, <1>4 DEF Commits, Shape

LEMMA CommitsIdentity ==
  ASSUME IInv, NEW r \in Requests, Commits(r) PROVE Identity'
<1> USE DEF IInv
<1>1. ASSUME NEW o \in Requests, NEW i \in Ids
      PROVE  /\ Exists(writes'[o][i]) => i \in Own(o) \/ Exists(db'[i])
             /\ Exists(writes'[o][i]) /\ Exists(db'[i]) => writes'[o][i].table = db'[i].table
             /\ o \notin saved' /\ i \in Own(o) => ~Exists(db'[i])
  <2>1. CASE o = r
    <3>1. ~Exists(writes'[o][i])
      BY <2>1, CommitsAt, NothingTouched, Absent
    <3>2. o \in saved'
      BY <2>1 DEF Commits
    <3> QED
      BY <3>1, <3>2
  <2>2. CASE o # r /\ i \in Touched(writes[o])
    <3>1. writes'[o][i] = writes[o][i] /\ i \notin Touched(writes[r])
      BY <2>2, CommitsAt DEF KeysOnce, Apart
    <3>2. db'[i] = db[i]
      BY <3>1, CommitsAt, ViewAt
    <3>3. o \notin saved' => o \notin saved
      BY DEF Commits
    <3> QED
      BY <3>1, <3>2, <3>3 DEF Identity
  <2>3. CASE o # r /\ i \notin Touched(writes[o])
    <3>1. ~Exists(writes'[o][i])
      BY <2>3, CommitsAt, Absent DEF Touched
    <3>2. ASSUME o \notin saved', i \in Own(o), Exists(db'[i]) PROVE FALSE
      <4>1. i \notin Own(r) /\ ~Exists(db[i])
        BY <2>3, <3>2 DEF Own, Commits, Identity
      <4>2. db'[i] = writes[r][i] \/ db'[i] = db[i]
        BY CommitsAt, ViewAt
      <4> QED
        BY <3>2, <4>1, <4>2 DEF Identity
    <3> QED
      BY <3>1, <3>2
  <2> QED
    BY <2>1, <2>2, <2>3
<1> QED
  BY <1>1 DEF Identity

LEMMA CommitsKeys ==
  ASSUME IInv, NEW r \in Requests, Commits(r) PROVE KeysOnce'
<1> USE DEF IInv
<1>1. Unique(db')
  BY CommitsAt DEF KeysOnce
<1>2. ASSUME NEW o \in Requests PROVE Unique(Overlay(writes'[o], db'))
  <2>1. CASE o = r
    BY <2>1, CommitsAt DEF KeysOnce
  <2>2. CASE o # r
    <3> DEFINE v == Overlay(writes'[o], db')
    <3> SUFFICES ASSUME NEW i \in Ids, NEW j \in Ids, i # j
                 PROVE  Keys(v[i]) \cap Keys(v[j]) = {}
      BY CommitsAt DEF Unique, Overlay
    <3>1. Unique(View(r)) /\ Unique(View(o)) /\ Apart(writes[o], writes[r])
      BY <2>2 DEF KeysOnce
    <3>2. \A k \in Ids :
            /\ k \in Touched(writes[o]) => v[k] = View(o)[k]
            /\ k \notin Touched(writes[o]) => v[k] = View(r)[k]
            /\ k \notin Touched(writes[o]) /\ k \notin Touched(writes[r]) =>
                 v[k] = View(o)[k]
      BY <2>2, SeenAfterCommit, ViewAt
    <3>3. CASE (i \in Touched(writes[o])) /\ j \in Touched(writes[r])
      <4>1. v[i] = writes[o][i] /\ v[j] = writes[r][j]
        BY <2>2, <3>1, <3>3, SeenAfterCommit, ViewAt DEF Apart
      <4> QED
        BY <3>1, <3>3, <4>1 DEF Apart
    <3>4. CASE (j \in Touched(writes[o])) /\ i \in Touched(writes[r])
      <4>1. v[j] = writes[o][j] /\ v[i] = writes[r][i]
        BY <2>2, <3>1, <3>4, SeenAfterCommit, ViewAt DEF Apart
      <4> QED
        BY <3>1, <3>4, <4>1 DEF Apart
    <3>5. CASE (i \notin Touched(writes[o])) /\ j \notin Touched(writes[o])
      BY <3>1, <3>2, <3>5, Domains DEF Unique
    <3>6. CASE (i \notin Touched(writes[r])) /\ j \notin Touched(writes[r])
      BY <3>1, <3>2, <3>6, Domains DEF Unique
    <3>7. Touched(writes[o]) \cap Touched(writes[r]) = {}
      BY <3>1 DEF Apart
    <3> QED
      BY <3>3, <3>4, <3>5, <3>6, <3>7
  <2> QED
    BY <2>1, <2>2
<1>3. ASSUME NEW a \in Requests, NEW b \in Requests, a # b
      PROVE  Apart(writes'[a], writes'[b])
  BY <1>3, CommitsAt, NothingTouched DEF KeysOnce, Apart
<1> QED
  BY <1>1, <1>2, <1>3 DEF KeysOnce, View

LEMMA CommitsSeesParents ==
  ASSUME IInv, NEW r \in Requests, Commits(r), NEW o \in Requests, o # r,
         NEW i \in Ids, NEW p \in Parents(Overlay(writes'[o], db')[i])
  PROVE  Holds(Overlay(writes'[o], db'), p) \/ Pending(o, i, p)
<1> USE DEF IInv
<1> DEFINE v == Overlay(writes'[o], db')
           q == p[2]
<1>1. /\ Apart(writes[o], writes[r]) /\ Apart(writes[r], writes[o])
      /\ Keeps(writes[o], writes[r]) /\ Keeps(writes[r], writes[o])
  BY DEF KeysOnce, ParentsThere
<1>2. stmt[r] = NoWrite
  BY DEF Order, Commits
<1>3. DOMAIN v = Ids
  BY SeenAfterCommit
<1>4. ASSUME q \in Ids, v[q].table = p[1] PROVE Holds(v, p)
  BY <1>3, <1>4 DEF Holds, RowsOf
<1>5. CASE i \in Touched(writes[o])
  <2>1. v[i] = writes[o][i] /\ View(o)[i] = writes[o][i] /\ i \notin Touched(writes[r])
    BY <1>1, <1>5, SeenAfterCommit, ViewAt DEF Apart
  <2>2. CASE Holds(View(o), p)
    <3>1. q \in Ids /\ View(o)[q].table = p[1]
      BY <2>2, Domains DEF Holds, RowsOf
    <3>2. CASE q \in Touched(writes[o])
      BY <1>4, <3>1, <3>2, SeenAfterCommit, ViewAt
    <3>3. CASE q \notin Touched(writes[o]) /\ q \notin Touched(writes[r])
      BY <1>4, <3>1, <3>3, SeenAfterCommit, ViewAt
    <3>4. CASE q \notin Touched(writes[o]) /\ q \in Touched(writes[r])
      <4>1. v[q] = writes[r][q] /\ View(r)[q] = writes[r][q]
        BY <3>4, <3>1, SeenAfterCommit, ViewAt
      <4>2. CASE p \in Parents(db[i])
        <5>1. p \in Parents(View(r)[i])
          BY <2>1, <4>2, ViewAt
        <5>2. Holds(View(r), p)
          BY <1>2, <5>1, NothingPending
        <5> QED
          BY <1>4, <3>1, <4>1, <5>2 DEF Holds, RowsOf
      <4>3. CASE p \notin Parents(db[i])
        BY <1>1, <1>4, <1>5, <2>1, <3>1, <3>4, <4>1, <4>3 DEF Keeps
      <4> QED
        BY <4>2, <4>3
    <3> QED
      BY <3>2, <3>3, <3>4
  <2> QED
    BY <2>1, <2>2 DEF ParentsThere
<1>6. CASE i \notin Touched(writes[o])
  <2>1. v[i] = View(r)[i] /\ View(o)[i] = db[i]
    BY <1>6, SeenAfterCommit, ViewAt
  <2>2. Holds(View(r), p)
    BY <1>2, <2>1, NothingPending
  <2>3. q \in Ids /\ View(r)[q].table = p[1]
    BY <2>2, Domains DEF Holds, RowsOf
  <2>4. CASE q \notin Touched(writes[o])
    BY <1>4, <2>3, <2>4, SeenAfterCommit
  <2>5. CASE q \in Touched(writes[o])
    <3>1. v[q] = writes[o][q] /\ View(o)[q] = writes[o][q]
      BY <2>3, <2>5, SeenAfterCommit, ViewAt
    <3>2. CASE p \in Parents(db[i])
      <4>1. Holds(View(o), p) \/ Pending(o, i, p)
        BY <2>1, <3>2 DEF ParentsThere
      <4> QED
        BY <1>4, <2>3, <3>1, <4>1 DEF Holds, RowsOf
    <3>3. CASE p \notin Parents(db[i])
      <4>1. i \in Touched(writes[r]) /\ p \in Parents(writes[r][i]) \ Parents(db[i])
        BY <2>1, <3>3, ViewAt
      <4> QED
        BY <1>1, <1>4, <2>3, <2>5, <3>1, <4>1 DEF Keeps
    <3> QED
      BY <3>2, <3>3
  <2> QED
    BY <2>4, <2>5
<1> QED
  BY <1>5, <1>6

LEMMA CommitsParents ==
  ASSUME IInv, NEW r \in Requests, Commits(r) PROVE ParentsThere'
<1> USE DEF IInv
<1>1. stmt[r] = NoWrite
  BY DEF Order, Commits
<1>2. \A i \in Ids : \A p \in Parents(View(r)[i]) : Holds(View(r), p)
  BY <1>1, NothingPending
<1>3. Anchored(db')
  BY <1>2, CommitsAt DEF Anchored
<1>4. ASSUME NEW o \in Requests, NEW i \in Ids, NEW p \in Parents(Overlay(writes'[o], db')[i])
      PROVE  \/ Holds(Overlay(writes'[o], db'), p)
             \/ Deletes(stmt'[o], i) /\ Deletes(writes'[o], p[2])
  <2>1. CASE o = r
    BY <1>2, <1>4, <2>1, CommitsAt
  <2>2. CASE o # r
    BY <1>4, <2>2, CommitsAt, CommitsSeesParents DEF Pending
  <2> QED
    BY <2>1, <2>2
<1>5. ASSUME NEW a \in Requests, NEW b \in Requests, a # b, NEW i \in Touched(writes'[a]),
             NEW p \in Parents(writes'[a][i]) \ Parents(db'[i]), p[2] \in Touched(writes'[b])
      PROVE  writes'[b][p[2]].table = p[1]
  <2>1. a # r /\ b # r
    BY <1>5, CommitsAt, NothingTouched
  <2>2. writes'[a] = writes[a] /\ writes'[b] = writes[b]
    BY <2>1, CommitsAt
  <2>3. db'[i] = db[i]
    <3>1. i \in Ids /\ i \notin Touched(writes[r])
      BY <1>5, <2>1, <2>2 DEF Touched, KeysOnce, Apart
    <3> QED
      BY <3>1, CommitsAt, ViewAt
  <2> QED
    BY <1>5, <2>2, <2>3 DEF ParentsThere, Keeps
<1>6. \A o \in Requests : \A i \in Ids : \A p \in Parents(Overlay(writes'[o], db')[i]) :
        \/ Holds(Overlay(writes'[o], db'), p)
        \/ Deletes(stmt'[o], i) /\ Deletes(writes'[o], p[2])
  BY <1>4
<1>7. \A a, b \in Requests : a # b =>
        \A i \in Touched(writes'[a]) : \A p \in Parents(writes'[a][i]) \ Parents(db'[i]) :
          p[2] \in Touched(writes'[b]) => writes'[b][p[2]].table = p[1]
  BY <1>5
<1> QED
  BY <1>3, <1>6, <1>7 DEF ParentsThere, View, Pending, Keeps

LEMMA CommitsIInv ==
  ASSUME IInv, NEW r \in Requests, Commits(r) PROVE IInv'
<1>1. Order'
  BY CommitsAt DEF IInv, Order, Shape, Commits
<1> QED
  BY <1>1, CommitsShape, CommitsIdentity, CommitsKeys, CommitsParents DEF IInv

-----------------------------------------------------------------------------
(* The first state.                                                        *)

LEMMA InitIInv ==
  ASSUME SessionInit PROVE IInv
<1>1. /\ db = [i \in Ids |-> IF i \in DOMAIN Seed THEN Seed[i] ELSE NoRow]
      /\ writes = [r \in Requests |-> NoWrite] /\ stmt = [r \in Requests |-> NoWrite]
      /\ pc = [r \in Requests |-> "start"] /\ answer = [r \in Requests |-> "none"]
      /\ saved = {}
  BY DEF SessionInit
<1>2. \A i \in Ids : i \notin DOMAIN Seed => db[i] = NoRow /\ ~Exists(db[i])
  BY <1>1, Absent
<1>3. \A i \in DOMAIN Seed : i \in Ids /\ db[i] = Seed[i] /\ "table" \in DOMAIN db[i] /\ Exists(db[i])
  BY <1>1, SeedAssumption DEF Ids, IsRow, Exists
<1>4. Shape
  <2>1. /\ \A r \in Requests : StmtOK(r, NoWrite)
        /\ NoWrite = [i \in Ids |-> NoWrite[i]] /\ \A i \in Ids : Written(NoWrite[i])
    BY DEF StmtOK, NoWrite, Written
  <2>2. \A i \in Ids : Written(db[i])
    BY <1>2, <1>3 DEF Written
  <2> QED
    BY <1>1, <2>1, <2>2 DEF Shape
<1>5. Order
  BY <1>1 DEF Order
<1>6. Identity
  <2>1. ASSUME NEW r \in Requests, NEW i \in Own(r) PROVE i \notin DOMAIN Seed /\ i \in Ids
    BY <2>1, SeedAssumption DEF Own, Ids
  <2> QED
    BY <1>1, <1>2, <2>1, NothingTouched, Absent DEF Identity
<1>7. \A r \in Requests : View(r) = db
  BY <1>1, <1>4, ViewOfNothing
<1>8. Unique(db)
  <2> SUFFICES ASSUME NEW i \in Ids, NEW j \in Ids, i # j PROVE Keys(db[i]) \cap Keys(db[j]) = {}
    BY <1>1 DEF Unique
  <2>1. CASE i \in DOMAIN Seed /\ j \in DOMAIN Seed
    BY <1>3, <2>1, SeedAssumption DEF Consistent, Unique
  <2> QED
    BY <1>2, <2>1, NothingOfNoRow
<1>9. Anchored(db)
  <2> SUFFICES ASSUME NEW i \in Ids, NEW p \in Parents(db[i]) PROVE Holds(db, p)
    BY <1>1 DEF Anchored
  <2>1. i \in DOMAIN Seed
    BY <1>2, NothingOfNoRow
  <2>2. Holds(Seed, p)
    BY <1>3, <2>1, SeedAssumption DEF Consistent, Anchored
  <2> QED
    BY <1>1, <1>3, <2>2 DEF Holds, RowsOf
<1>10. KeysOnce
  BY <1>1, <1>7, <1>8, NothingTouched DEF KeysOnce, Apart
<1>11. ParentsThere
  BY <1>1, <1>7, <1>9, NothingTouched DEF ParentsThere, Keeps, Anchored
<1> QED
  BY <1>4, <1>5, <1>6, <1>10, <1>11 DEF IInv

-----------------------------------------------------------------------------
(* The steps of a session.                                                 *)

LEMMA RefuseRollsBack ==
  ASSUME NEW r \in Requests, pc[r] # "done", NEW status \in Answers \ {"none"},
         Refuse(r, status)
  PROVE  RollsBack(r)
  BY DEF Refuse, RollsBack

LEMMA FlushFailsRollsBack ==
  ASSUME IInv, NEW r \in Requests, stmt[r] # NoWrite, FlushFails(r) PROVE RollsBack(r)
<1>1. pc[r] \notin {"answered", "done"} /\ answer[r] = "none"
  BY DEF IInv, Order
<1>2. CASE Caught(r)
  BY <1>1, <1>2 DEF FlushFails, RollsBack
<1>3. CASE ~Caught(r)
  BY <1>1, <1>3, RefuseRollsBack DEF FlushFails, Answers
<1> QED
  BY <1>2, <1>3

LEMMA ExecuteShape ==
  ASSUME IInv, NEW r \in Requests, Execute(r)
  PROVE  RollsBack(r) \/ (stmt[r] # NoWrite /\ Executed(r))
<1>1. CASE Stale(r) \/ Duplicate(r) \/ Orphan(r)
  BY <1>1, FlushFailsRollsBack DEF Execute
<1>2. CASE ~(Stale(r) \/ Duplicate(r) \/ Orphan(r))
  BY <1>2 DEF Execute, Executed
<1> QED
  BY <1>1, <1>2

LEMMA CommitShape ==
  ASSUME IInv, NEW r \in Requests, Commit(r) PROVE RollsBack(r) \/ Commits(r)
<1>1. CASE r \in broken
  <2>1. stmt[r] = NoWrite /\ answer[r] = "200" /\ pc[r] = "answered"
    BY DEF Commit, IInv, Order
  <2>2. stmt' = [stmt EXCEPT ![r] = NoWrite]
    BY <2>1 DEF Commit, Finish, IInv, Shape
  <2>3. answer' = [answer EXCEPT ![r] = IF @ = "none" THEN "500" ELSE @]
    BY <2>1 DEF Commit, Finish, IInv, Shape
  <2> QED
    BY <1>1, <2>1, <2>2, <2>3 DEF Commit, Finish, RollsBack, Answers
<1>2. CASE r \notin broken
  BY <1>2 DEF Commit, Finish, Commits, View
<1> QED
  BY <1>1, <1>2

LEMMA VictimRollsBack ==
  ASSUME IInv, NEW r \in Requests, DeadlockVictim(r) PROVE RollsBack(r)
<1>1. stmt[r] # NoWrite
  BY DEF DeadlockVictim, Deadlocked, Waiting
<1> QED
  BY <1>1, FlushFailsRollsBack DEF DeadlockVictim

LEMMA LostRollsBack ==
  ASSUME NEW r \in Requests, ConnectionLost(r) PROVE RollsBack(r)
  BY RefuseRollsBack DEF ConnectionLost, Answers

LEMMA RespondReplies ==
  ASSUME NEW r \in Requests, Respond(r) PROVE Active(r) /\ Reply(r)
  BY DEF Respond, Active

(* Nothing a request does but to go on, to be answered, to roll back, to   *)
(* have a statement executed or to commit.                                 *)
SessionStep(r) ==
  \/ \E w, label : Continues(r, w, label)
  \/ Active(r) /\ Reply(r)
  \/ RollsBack(r)
  \/ stmt[r] # NoWrite /\ Executed(r)
  \/ Commits(r)

LEMMA SessionIInv ==
  ASSUME IInv, NEW r \in Requests, SessionStep(r) PROVE IInv'
  BY ContinuesIInv, ReplyIInv, RollsBackIInv, ExecutedIInv, CommitsIInv DEF SessionStep
=============================================================================
