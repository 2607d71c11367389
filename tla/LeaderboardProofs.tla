------------------------- MODULE LeaderboardProofs -------------------------
(***************************************************************************)
(* Proofs about Leaderboard for any users, problems, settings and          *)
(* submissions: a board is the scoring of what its request has read, and   *)
(* its ranks and its first solvers are by the rules.  Scores of a cell are *)
(* proved along the loop over the submissions, those of a row from its     *)
(* cells, the order of the rows from the sort keys.                        *)
(***************************************************************************)
EXTENDS Leaderboard, FoldFacts

-----------------------------------------------------------------------------
(* The loop over the submissions q from the cell e: one application of     *)
(* Scan after another.                                                     *)
Loop(e, q) == FoldLeft(Scan, e, q)
Steps(h, e, q, n) == h[0] = e /\ \A k \in 1..n : h[k] = Scan(h[k - 1], q[k])

LEMMA ScanIsLoop ==
  ASSUME NEW e, NEW n \in Nat, NEW s, DOMAIN s = 1..n
  PROVE  \E h : Steps(h, e, s, n) /\ Loop(e, s) = h[n]
<1> DEFINE Body(g, k) == [t \in SUBSET (1..k) |->
                            IF t = {} THEN e ELSE Scan(g[t \ {Max(t)}], s[Max(t)])]
           A == {k \in Nat : \E g : g = Body(g, k)}
<1>1. 0 \in A
  <2> DEFINE g == [t \in SUBSET (1..0) |-> e]
  <2>1. \A t \in SUBSET (1..0) : t = {}
    OBVIOUS
  <2>2. g = Body(g, 0)
    BY <2>1
  <2> QED
    BY <2>2
<1>2. ASSUME NEW k \in A PROVE k + 1 \in A
  <2>1. PICK g : g = Body(g, k)
    BY <1>2
  <2> DEFINE f == [t \in SUBSET (1..(k + 1)) |->
                     IF k + 1 \in t THEN Scan(g[t \ {k + 1}], s[k + 1]) ELSE g[t]]
  <2>2. ASSUME NEW t \in SUBSET (1..(k + 1))
        PROVE  f[t] = IF t = {} THEN e ELSE Scan(f[t \ {Max(t)}], s[Max(t)])
    <3>1. CASE k + 1 \in t
      <4>1. Max(t) = k + 1
        <5>1. \A y \in t : k + 1 >= y
          BY <1>2
        <5>2. \A x \in t : (\A y \in t : x >= y) => x = k + 1
          BY <1>2, <3>1, <5>1
        <5> QED
          BY <3>1, <5>1, <5>2 DEF Max
      <4>2. t \ {k + 1} \in SUBSET (1..(k + 1)) /\ k + 1 \notin t \ {k + 1}
        OBVIOUS
      <4>3. f[t \ {k + 1}] = g[t \ {k + 1}]
        BY <4>2
      <4>4. f[t] = Scan(g[t \ {k + 1}], s[k + 1])
        BY <3>1
      <4> HIDE DEF f
      <4> QED
        BY <3>1, <4>1, <4>3, <4>4
    <3>2. CASE k + 1 \notin t
      <4>1. t \in SUBSET (1..k) /\ t \ {Max(t)} \in SUBSET (1..k)
        <5>1. \A y \in 1..(k + 1) : y # k + 1 => y \in 1..k
          BY <1>2
        <5>2. t \in SUBSET (1..k)
          BY <3>2, <5>1
        <5> QED
          BY <5>2
      <4>2. g[t] = IF t = {} THEN e ELSE Scan(g[t \ {Max(t)}], s[Max(t)])
        BY <2>1, <4>1
      <4>3. f[t] = g[t]
        BY <3>2
      <4>4. f[t \ {Max(t)}] = g[t \ {Max(t)}]
        BY <3>2
      <4> HIDE DEF f
      <4> QED
        BY <4>2, <4>3, <4>4
    <3> QED
      BY <3>1, <3>2
  <2>3. f = Body(f, k + 1)
    <3>1. f = [t \in SUBSET (1..(k + 1)) |-> f[t]]
      OBVIOUS
    <3> HIDE DEF f
    <3> QED
      BY <2>2, <3>1
  <2>4. k + 1 \in Nat
    BY <1>2
  <2> QED
    BY <2>3, <2>4
<1>3. A = Nat
  <2>1. A \in SUBSET Nat
    OBVIOUS
  <2> HIDE DEF A
  <2> QED
    BY <1>1, <1>2, <2>1, NatSetInduction
<1> DEFINE iter == CHOOSE g : g = Body(g, n)
<1>4. iter = Body(iter, n)
  BY <1>3
<1>5. Loop(e, s) = iter[1..n]
  BY DEF Loop, FoldLeft, MapThenFoldSet
<1> HIDE DEF iter
<1> DEFINE h == [k \in 0..n |-> iter[1..k]]
<1>6. h[0] = e
  <2>1. 1..0 = {} /\ 1..0 \in SUBSET (1..n) /\ 0 \in 0..n
    OBVIOUS
  <2>2. iter[1..0] = e
    BY <1>4, <2>1
  <2> QED
    BY <2>1, <2>2
<1>7. ASSUME NEW k \in 1..n PROVE h[k] = Scan(h[k - 1], s[k])
  <2>1. k \in 0..n /\ k - 1 \in 0..n /\ 1..k \in SUBSET (1..n) /\ 1..k # {}
    OBVIOUS
  <2>2. Max(1..k) = k
    <3>1. k \in 1..k /\ \A y \in 1..k : k >= y
      OBVIOUS
    <3>2. \A x \in 1..k : (\A y \in 1..k : x >= y) => x = k
      OBVIOUS
    <3> QED
      BY <3>1, <3>2 DEF Max
  <2>3. (1..k) \ {k} = 1..(k - 1)
    OBVIOUS
  <2>4. iter[1..k] = Scan(iter[(1..k) \ {Max(1..k)}], s[Max(1..k)])
    BY <1>4, <2>1
  <2> QED
    BY <2>1, <2>2, <2>3, <2>4
<1>8. Loop(e, s) = h[n]
  BY <1>5
<1> QED
  BY <1>6, <1>7, <1>8 DEF Steps

-----------------------------------------------------------------------------
(* What is known of submissions and of cells.                              *)
Submissions ==
  [user : Users, problem : Problems, at : Moments, status : Verdicts \cup {"PENDING", "JUDGING"}]
SubsOK(ss) == /\ ss \subseteq Submissions /\ IsFiniteSet(ss)
              /\ \A s, t \in ss : s.at = t.at => s = t
Cells == [user : Users, problem : Problems, attempts : Nat, firstAc : Int, best : Int]

Accepted(own) == {s \in own : s.status = "ACCEPTED"}
Wrong(own) == {s \in own : s.status \in Penalised /\ \A a \in Accepted(own) : s.at < a.at}

(* cell says of u and p what the rules say of their submissions own.       *)
Scores(cell, own, u, p) ==
  /\ cell \in Cells /\ cell.user = u /\ cell.problem = p
  /\ cell.attempts = Cardinality(Wrong(own))
  /\ Accepted(own) = {} => cell.firstAc = -1 /\ cell.best = 0
  /\ Accepted(own) # {} =>
       \E a \in Accepted(own) : /\ \A b \in Accepted(own) : a.at <= b.at
                                /\ cell.firstAc = a.at /\ cell.best = PointsOf[p]

LEMMA SubTypes ==
  ASSUME NEW ss, SubsOK(ss), NEW s \in ss
  PROVE  s \in Submissions /\ s.user \in Users /\ s.problem \in Problems /\ s.at \in Nat
  BY LeaderboardAssumption DEF SubsOK, Submissions

LEMMA SubsSmaller ==
  ASSUME NEW ss, SubsOK(ss), NEW ts \in SUBSET ss PROVE SubsOK(ts)
<1>1. IsFiniteSet(ts)
  BY FS_Subset DEF SubsOK
<1> QED
  BY <1>1 DEF SubsOK

(* ORDER BY created_at.                                                    *)
ByTime(ss) == Sorted(ss, LAMBDA s, t : s.at < t.at)

LEMMA TimeOrder ==
  ASSUME NEW ss, SubsOK(ss)
  PROVE  LET n == Cardinality(ss)
             q == ByTime(ss)
         IN /\ n \in Nat /\ q \in [1..n -> ss]
            /\ \A i, j \in 1..n : i < j => q[i].at < q[j].at
            /\ \A s \in ss : \E i \in 1..n : q[i] = s
<1> DEFINE n == Cardinality(ss)
           R == {st \in ss \X ss : st[1].at < st[2].at}
           Timely(q) == /\ q \in [1..n -> ss]
                        /\ \A i, j \in 1..n : i < j => q[i].at < q[j].at
           q == CHOOSE q \in [1..n -> ss] : \A i, j \in 1..n : i < j => q[i].at < q[j].at
<1>1. IsFiniteSet(ss) /\ \A s \in ss : s.at \in Nat
  BY SubTypes DEF SubsOK
<1>2. n \in Nat
  BY <1>1, FS_CardinalityType
<1>3. StrictOrder(ss, R)
  <2>1. \A s, t \in ss : <<s, t>> \in R <=> s.at < t.at
    OBVIOUS
  <2>2. \A s, t \in ss : s.at = t.at => s = t
    BY DEF SubsOK
  <2> HIDE DEF R
  <2> QED
    BY <1>1, <2>1, <2>2 DEF StrictOrder
<1>4. ASSUME NEW x PROVE InOrder(ss, R, x) <=> Timely(x)
  BY DEF InOrder
<1>5. \E x : Timely(x)
  <2>1. \E x : InOrder(ss, R, x)
    <3> HIDE DEF R
    <3> QED
      BY <1>1, <1>3, SortExists
  <2> QED
    BY <1>4, <2>1
<1>6. Timely(q)
  BY <1>5
<1>7. q = ByTime(ss)
  BY DEF ByTime, Sorted
<1> HIDE DEF q
<1>8. \A s \in ss : \E i \in 1..n : q[i] = s
  <2>1. InOrder(ss, R, q)
    BY <1>4, <1>6
  <2> HIDE DEF R
  <2> QED
    BY <1>1, <1>3, <2>1, SortIsComplete
<1> QED
  BY <1>2, <1>6, <1>7, <1>8

(* One more submission, later than all before.                             *)
LEMMA NextSubmission ==
  ASSUME NEW own, SubsOK(own), NEW s \in own,
         NEW u \in Users, NEW p \in Problems, s.problem = p,
         NEW old, old = own \ {s}, \A t \in old : t.at < s.at,
         NEW cell, Scores(cell, old, u, p)
  PROVE  Scores(Scan(cell, s), own, u, p)
<1>1. /\ IsFiniteSet(Wrong(old)) /\ IsFiniteSet(own) /\ \A t \in own : t.at \in Nat
      /\ PointsOf[p] \in Int /\ s.at \in Int
  <2>1. IsFiniteSet(own) /\ Wrong(old) \in SUBSET own
    BY DEF SubsOK, Wrong
  <2>2. IsFiniteSet(Wrong(old))
    BY <2>1, FS_Subset
  <2>3. PointsOf[p] \in Int
    BY LeaderboardAssumption
  <2>4. \A t \in own : t.at \in Nat
    BY SubTypes
  <2> QED
    BY <2>1, <2>2, <2>3, <2>4
<1>2. /\ cell \in Cells /\ cell.user = u /\ cell.problem = p
      /\ cell.attempts = Cardinality(Wrong(old))
      /\ Accepted(old) = {} => cell.firstAc = -1 /\ cell.best = 0
  BY DEF Scores
<1>3. IsSolved(cell) <=> Accepted(old) # {}
  <2>1. Accepted(old) # {} => cell.firstAc # -1
    <3>1. SUFFICES ASSUME Accepted(old) # {} PROVE cell.firstAc # -1
      OBVIOUS
    <3>2. PICK a \in Accepted(old) : cell.firstAc = a.at
      BY <3>1 DEF Scores
    <3>3. a \in own
      BY <3>2 DEF Accepted
    <3> QED
      BY <1>1, <3>2, <3>3
  <2> QED
    BY <1>2, <2>1 DEF IsSolved
<1>4. Accepted(own) = Accepted(old) \cup (IF s.status = "ACCEPTED" THEN {s} ELSE {})
  BY DEF Accepted
<1>5. CASE IsSolved(cell)
  <2>1. PICK a \in Accepted(old) : /\ \A b \in Accepted(old) : a.at <= b.at
                                   /\ cell.firstAc = a.at /\ cell.best = PointsOf[p]
    BY <1>3, <1>5 DEF Scores
  <2>2. a.at < s.at /\ a \in own
    BY <2>1 DEF Accepted
  <2>3. Wrong(own) = Wrong(old)
    <3>1. \A t \in own : t \in Wrong(own) <=> t \in Wrong(old)
      <4>1. s \notin Wrong(own) /\ s \notin Wrong(old)
        <5>1. ~ (s.at < a.at)
          BY <1>1, <2>2
        <5> QED
          BY <1>4, <2>1, <5>1 DEF Wrong
      <4>2. ASSUME NEW t \in old PROVE t \in Wrong(own) <=> t \in Wrong(old)
        BY <1>4 DEF Wrong
      <4> QED
        BY <4>1, <4>2
    <3> QED
      BY <3>1 DEF Wrong
  <2>4. a \in Accepted(own) /\ \A b \in Accepted(own) : a.at <= b.at
    <3>1. \A b \in Accepted(own) : b \in Accepted(old) \/ b = s
      BY <1>4
    <3>2. a.at <= s.at
      BY <1>1, <2>2
    <3> QED
      BY <1>4, <2>1, <3>1, <3>2
  <2>5. Scan(cell, s) = cell
    BY <1>5 DEF Scan
  <2> QED
    BY <1>2, <2>1, <2>3, <2>4, <2>5 DEF Scores
<1>6. CASE ~ IsSolved(cell) /\ s.status = "ACCEPTED"
  <2>1. Accepted(own) = {s}
    BY <1>3, <1>4, <1>6
  <2>2. Wrong(own) = Wrong(old)
    <3>1. Accepted(old) = {}
      BY <1>3, <1>6
    <3>2. s.status \notin Penalised
      BY <1>6 DEF Penalised
    <3> QED
      BY <2>1, <3>1, <3>2 DEF Wrong
  <2>3. Scan(cell, s) = [cell EXCEPT !.firstAc = s.at, !.best = PointsOf[s.problem]]
    <3>1. s.status \notin Penalised
      BY <1>6 DEF Penalised
    <3> QED
      BY <1>2, <1>6, <3>1 DEF Scan, Cells
  <2>4. /\ Scan(cell, s) \in Cells
        /\ Scan(cell, s).user = u /\ Scan(cell, s).problem = p
        /\ Scan(cell, s).attempts = cell.attempts
        /\ Scan(cell, s).firstAc = s.at /\ Scan(cell, s).best = PointsOf[p]
    BY <1>1, <1>2, <2>3 DEF Cells
  <2> QED
    BY <1>1, <1>2, <2>1, <2>2, <2>4 DEF Scores
<1>7. CASE ~ IsSolved(cell) /\ s.status # "ACCEPTED" /\ s.status \in Penalised
  <2>1. Accepted(own) = {} /\ Accepted(old) = {}
    BY <1>3, <1>4, <1>7
  <2>2. Wrong(own) = Wrong(old) \cup {s} /\ s \notin Wrong(old)
    BY <1>7, <2>1 DEF Wrong
  <2>3. Cardinality(Wrong(own)) = Cardinality(Wrong(old)) + 1
    BY <1>1, <2>2, FS_AddElement
  <2>4. Scan(cell, s) = [cell EXCEPT !.attempts = @ + 1]
    BY <1>7 DEF Scan
  <2>5. /\ Scan(cell, s) \in Cells
        /\ Scan(cell, s).user = u /\ Scan(cell, s).problem = p
        /\ Scan(cell, s).attempts = cell.attempts + 1
        /\ Scan(cell, s).firstAc = cell.firstAc /\ Scan(cell, s).best = cell.best
    BY <1>2, <2>4 DEF Cells
  <2> QED
    BY <1>2, <2>1, <2>3, <2>5 DEF Scores
<1>8. CASE ~ IsSolved(cell) /\ s.status # "ACCEPTED" /\ s.status \notin Penalised
  <2>1. Accepted(own) = {} /\ Accepted(old) = {}
    BY <1>3, <1>4, <1>8
  <2>2. Wrong(own) = Wrong(old)
    BY <1>8, <2>1 DEF Wrong
  <2>3. Scan(cell, s) = cell
    BY <1>8 DEF Scan
  <2> QED
    BY <1>2, <2>1, <2>2, <2>3 DEF Scores
<1> QED
  BY <1>5, <1>6, <1>7, <1>8

(* The cell of u and p is the scoring of their submissions.                *)
LEMMA CellIsScore ==
  ASSUME NEW own, SubsOK(own), NEW u \in Users, NEW p \in Problems,
         \A s \in own : s.problem = p
  PROVE  Scores(Loop(EmptyCell(u, p), ByTime(own)), own, u, p)
<1> DEFINE n == Cardinality(own)
           q == ByTime(own)
           First(k) == {q[i] : i \in 1..k}
<1>1. /\ n \in Nat /\ q \in [1..n -> own]
      /\ \A i, j \in 1..n : i < j => q[i].at < q[j].at
      /\ \A s \in own : \E i \in 1..n : q[i] = s
  BY TimeOrder
<1> HIDE DEF q
<1>2. PICK h : Steps(h, EmptyCell(u, p), q, n) /\ Loop(EmptyCell(u, p), q) = h[n]
  <2>1. DOMAIN q = 1..n
    BY <1>1
  <2> QED
    BY <1>1, <2>1, ScanIsLoop
<1> DEFINE A == {k \in Nat : k <= n => Scores(h[k], First(k), u, p)}
<1>3. 0 \in A
  <2>1. First(0) = {}
    OBVIOUS
  <2>2. Accepted({}) = {} /\ Wrong({}) = {}
    BY DEF Accepted, Wrong
  <2>3. /\ EmptyCell(u, p) \in Cells
        /\ EmptyCell(u, p).user = u /\ EmptyCell(u, p).problem = p
        /\ EmptyCell(u, p).attempts = 0
        /\ EmptyCell(u, p).firstAc = -1 /\ EmptyCell(u, p).best = 0
    BY DEF EmptyCell, Cells
  <2>4. Scores(h[0], First(0), u, p)
    BY <1>2, <2>1, <2>2, <2>3, FS_EmptySet DEF Scores, Steps
  <2> QED
    BY <2>4
<1>4. ASSUME NEW k \in A PROVE k + 1 \in A
  <2>1. k + 1 \in Nat
    BY <1>4
  <2>2. SUFFICES ASSUME k + 1 <= n PROVE Scores(h[k + 1], First(k + 1), u, p)
    BY <2>1
  <2>3. k + 1 \in 1..n /\ k \in 0..n /\ (k + 1) - 1 = k
    BY <1>1, <1>4, <2>2
  <2>4. Scores(h[k], First(k), u, p)
    BY <1>4, <2>3
  <2>5. \A i \in 1..k : i \in 1..n /\ i < k + 1
    BY <1>1, <1>4, <2>2
  <2>6. First(k + 1) = First(k) \cup {q[k + 1]}
    <3>1. \A i : i \in 1..(k + 1) <=> i \in 1..k \/ i = k + 1
      BY <1>4
    <3> QED
      BY <3>1
  <2>7. \A t \in First(k) : t.at < q[k + 1].at /\ t \in own
    BY <1>1, <2>3, <2>5
  <2>8. q[k + 1] \in own /\ q[k + 1].problem = p /\ q[k + 1].at \in Nat
    BY <1>1, <2>3, SubTypes
  <2>9. First(k) = First(k + 1) \ {q[k + 1]}
    BY <2>6, <2>7, <2>8
  <2>10. SubsOK(First(k + 1))
    <3>1. First(k + 1) \in SUBSET own
      BY <2>6, <2>7, <2>8
    <3> HIDE DEF First
    <3> QED
      BY <3>1, SubsSmaller
  <2>11. Scores(Scan(h[k], q[k + 1]), First(k + 1), u, p)
    <3>1. q[k + 1] \in First(k + 1)
      BY <2>6
    <3> HIDE DEF First
    <3> QED
      BY <2>4, <2>7, <2>8, <2>9, <2>10, <3>1, NextSubmission
  <2> QED
    BY <1>2, <2>3, <2>11 DEF Steps
<1>5. A = Nat
  <2>1. A \in SUBSET Nat
    OBVIOUS
  <2> HIDE DEF A
  <2> QED
    BY <1>3, <1>4, <2>1, NatSetInduction
<1>6. Scores(h[n], First(n), u, p)
  <2>1. n \in A
    BY <1>1, <1>5
  <2> QED
    BY <1>1, <2>1
<1>7. First(n) = own
  BY <1>1
<1> QED
  BY <1>2, <1>6, <1>7 DEF q

-----------------------------------------------------------------------------
(* One request's rows, from a contest c with problems ps and submissions ss.*)

OwnOf(c, ps, ss, u, p) == {s \in InWindow(c, ps, ss) : s.user = u /\ s.problem = p}
UsersOf(c, ps, ss) == {s.user : s \in InWindow(c, ps, ss)}
CellsOf(c, ps, ss) == {CellOf(c, ps, ss, u, p) : u \in UsersOf(c, ps, ss), p \in ps}
RowsOf(c, ps, ss) == {RowOf(c, CellsOf(c, ps, ss), u) : u \in UsersOf(c, ps, ss)}

Read(c, ps, ss) ==
  c \in Contests /\ ps \subseteq Problems /\ IsFiniteSet(ps) /\ SubsOK(ss)

(* What u has solved, when first, and with which failures before.          *)
SolvedIn(c, ps, ss, u) == {p \in ps : Accepted(OwnOf(c, ps, ss, u, p)) # {}}
FirstIn(c, ps, ss, u, p) == CellOf(c, ps, ss, u, p).firstAc
FailuresIn(c, ps, ss, u) ==
  UNION {Wrong(OwnOf(c, ps, ss, u, p)) : p \in SolvedIn(c, ps, ss, u)}

LEMMA ContestTypes ==
  ASSUME NEW c \in Contests
  PROVE  c.start \in Int /\ c.end \in Int /\ c.penalty \in Int /\ c.mode \in {"ICPC", "IOI"}
  BY LeaderboardAssumption

LEMMA OwnSubs ==
  ASSUME NEW c, NEW ps, NEW ss, Read(c, ps, ss), NEW u, NEW p
  PROVE  /\ SubsOK(OwnOf(c, ps, ss, u, p)) /\ SubsOK(InWindow(c, ps, ss))
         /\ UsersOf(c, ps, ss) \subseteq Users
<1>1. OwnOf(c, ps, ss, u, p) \in SUBSET ss /\ InWindow(c, ps, ss) \in SUBSET ss
  BY DEF OwnOf, InWindow
<1>2. \A s \in InWindow(c, ps, ss) : s.user \in Users
  BY <1>1, SubTypes DEF Read
<1> QED
  BY <1>1, <1>2, SubsSmaller DEF Read, UsersOf

LEMMA CellScores ==
  ASSUME NEW c, NEW ps, NEW ss, Read(c, ps, ss), NEW u \in Users, NEW p \in ps
  PROVE  Scores(CellOf(c, ps, ss, u, p), OwnOf(c, ps, ss, u, p), u, p)
<1>1. CellOf(c, ps, ss, u, p) = Loop(EmptyCell(u, p), ByTime(OwnOf(c, ps, ss, u, p)))
  BY DEF CellOf, Loop, ByTime, OwnOf
<1>2. p \in Problems /\ \A s \in OwnOf(c, ps, ss, u, p) : s.problem = p
  BY DEF Read, OwnOf
<1>3. SubsOK(OwnOf(c, ps, ss, u, p))
  BY OwnSubs
<1> QED
  BY <1>1, <1>2, <1>3, CellIsScore

LEMMA CellFacts ==
  ASSUME NEW c, NEW ps, NEW ss, Read(c, ps, ss), NEW u \in Users, NEW p \in ps
  PROVE  LET cell == CellOf(c, ps, ss, u, p)
             own == OwnOf(c, ps, ss, u, p)
         IN /\ cell.user = u /\ cell.problem = p
            /\ cell.attempts = Cardinality(Wrong(own)) /\ cell.attempts \in Nat
            /\ cell.firstAc \in Int /\ cell.best \in Int
            /\ IsSolved(cell) <=> p \in SolvedIn(c, ps, ss, u)
            /\ IsSolved(cell) => /\ cell.best = PointsOf[p]
                                 /\ \E a \in Accepted(own) : cell.firstAc = a.at
                                 /\ \A b \in Accepted(own) : cell.firstAc <= b.at
<1> DEFINE cell == CellOf(c, ps, ss, u, p)
           own == OwnOf(c, ps, ss, u, p)
<1>1. Scores(cell, own, u, p)
  BY CellScores
<1>2. p \in SolvedIn(c, ps, ss, u) <=> Accepted(own) # {}
  BY DEF SolvedIn
<1> HIDE DEF cell, own
<1>3. cell.user = u /\ cell.problem = p /\ cell.attempts = Cardinality(Wrong(own))
  BY <1>1 DEF Scores
<1>4. cell.attempts \in Nat /\ cell.firstAc \in Int /\ cell.best \in Int
  BY <1>1 DEF Scores, Cells
<1>5. Accepted(own) = {} => ~ IsSolved(cell)
  BY <1>1 DEF Scores, IsSolved
<1>6. Accepted(own) # {} => /\ cell.best = PointsOf[p]
                            /\ \E a \in Accepted(own) : cell.firstAc = a.at
                            /\ \A b \in Accepted(own) : cell.firstAc <= b.at
  BY <1>1 DEF Scores
<1>7. Accepted(own) # {} => IsSolved(cell)
  <2>1. \A a \in own : a.at \in Nat
    BY OwnSubs, SubTypes DEF own
  <2>2. \A a \in Accepted(own) : a.at \in Nat
    BY <2>1 DEF Accepted
  <2> QED
    BY <1>6, <2>2 DEF IsSolved
<1> QED
  BY <1>2, <1>3, <1>4, <1>5, <1>6, <1>7 DEF cell, own

(* A row is the scoring of what its user submitted.                        *)
RowScored(c, ps, ss, u) ==
  LET row == RowOf(c, CellsOf(c, ps, ss), u)
      solved == SolvedIn(c, ps, ss, u)
      minutes == [p \in solved |-> Minutes(c, FirstIn(c, ps, ss, u, p))]
      points == [p \in solved |-> PointsOf[p]]
  IN /\ row.user = u
     /\ row.cells = {Shown(c, CellsOf(c, ps, ss), CellOf(c, ps, ss, u, p)) : p \in ps}
     /\ IsFiniteSet(solved) /\ IsFiniteSet(FailuresIn(c, ps, ss, u))
     /\ row.solved = Cardinality(solved)
     /\ row.penalty = SumFunctionOnSet(minutes, solved)
                        + c.penalty * Cardinality(FailuresIn(c, ps, ss, u))
     /\ row.score = SumFunctionOnSet(points, solved)

LEMMA RowIsScore ==
  ASSUME NEW c, NEW ps, NEW ss, Read(c, ps, ss), NEW u \in UsersOf(c, ps, ss)
  PROVE  RowScored(c, ps, ss, u)
<1> DEFINE cells == CellsOf(c, ps, ss)
           row == RowOf(c, cells, u)
           solved == SolvedIn(c, ps, ss, u)
           minutes == [p \in solved |-> Minutes(c, FirstIn(c, ps, ss, u, p))]
           points == [p \in solved |-> PointsOf[p]]
           own == {cell \in cells : cell.user = u}
           done == {cell \in own : IsSolved(cell)}
           F == [p \in ps |-> CellOf(c, ps, ss, u, p)]
           G == [p \in solved |-> CellOf(c, ps, ss, u, p)]
           W == [p \in solved |-> Wrong(OwnOf(c, ps, ss, u, p))]
           costs == [cell \in done |-> Minutes(c, cell.firstAc) + cell.attempts * c.penalty]
           gains == [cell \in done |-> cell.best]
<1>1. u \in Users /\ UsersOf(c, ps, ss) \subseteq Users
  BY OwnSubs
<1>2. own = {CellOf(c, ps, ss, u, p) : p \in ps}
  <2>1. \A v \in UsersOf(c, ps, ss), p \in ps : CellOf(c, ps, ss, v, p).user = v
    BY <1>1, CellFacts
  <2> QED
    BY <2>1 DEF CellsOf
<1>3. solved \subseteq ps /\ IsFiniteSet(solved) /\ ps \subseteq Problems
  <2>1. solved \in SUBSET ps
    BY DEF SolvedIn
  <2> HIDE DEF solved
  <2> QED
    BY <2>1, FS_Subset DEF Read
<1>4. ASSUME NEW p \in ps
      PROVE  /\ CellOf(c, ps, ss, u, p).problem = p
             /\ IsSolved(CellOf(c, ps, ss, u, p)) <=> p \in solved
  BY <1>1, CellFacts
<1>5. ASSUME NEW p \in solved
      PROVE  /\ G[p] = CellOf(c, ps, ss, u, p) /\ G[p].problem = p
             /\ G[p].best = PointsOf[p] /\ PointsOf[p] \in Int
             /\ G[p].attempts = Cardinality(W[p])
             /\ Minutes(c, G[p].firstAc) = minutes[p] /\ minutes[p] \in Int
  <2>1. p \in ps /\ p \in Problems /\ IsSolved(CellOf(c, ps, ss, u, p))
    BY <1>3, <1>4
  <2>2. /\ CellOf(c, ps, ss, u, p).best = PointsOf[p]
        /\ CellOf(c, ps, ss, u, p).attempts = Cardinality(Wrong(OwnOf(c, ps, ss, u, p)))
        /\ CellOf(c, ps, ss, u, p).firstAc \in Int
    BY <1>1, <2>1, CellFacts
  <2>3. PointsOf[p] \in Int
    BY <2>1, LeaderboardAssumption
  <2>4. \A x \in Int : Minutes(c, x) \in Int
    BY ContestTypes DEF Read, Minutes
  <2> QED
    BY <1>4, <2>1, <2>2, <2>3, <2>4 DEF FirstIn
<1>6. done = {G[p] : p \in solved}
  BY <1>2, <1>3, <1>4
<1>7. \A p, q \in solved : G[p] = G[q] => p = q
  BY <1>5
<1>8. IsFiniteSet(done) /\ Cardinality(done) = Cardinality(solved)
  <2>1. G \in Surjection(solved, done)
    BY <1>6 DEF Surjection
  <2>2. G \in Injection(solved, done)
    BY <1>6, <1>7 DEF Injection, IsInjective
  <2> HIDE DEF G, done, solved
  <2> QED
    BY <1>3, <2>1, <2>2, FS_Surjection
<1>9. ASSUME NEW p \in solved PROVE IsFiniteSet(W[p])
  <2>1. SubsOK(OwnOf(c, ps, ss, u, p))
    BY OwnSubs
  <2>2. Wrong(OwnOf(c, ps, ss, u, p)) \in SUBSET OwnOf(c, ps, ss, u, p)
    BY DEF Wrong
  <2> QED
    BY <2>1, <2>2, FS_Subset DEF SubsOK
<1>10. \A p, q \in solved : p # q => W[p] \cap W[q] = {}
  BY DEF Wrong, OwnOf
<1>11. UNION {W[p] : p \in solved} = FailuresIn(c, ps, ss, u)
  BY DEF FailuresIn
<1>12. c.penalty \in Int
  BY ContestTypes DEF Read
<1>13. \A p \in solved : costs[G[p]] = minutes[p] + Cardinality(W[p]) * c.penalty
  <2>1. \A p \in solved : G[p] \in done
    BY <1>6
  <2> HIDE DEF G, done, solved, minutes, W
  <2> QED
    BY <1>5, <2>1
<1>14. SumFunctionOnSet(costs, done)
         = SumFunctionOnSet(minutes, solved) + c.penalty * Cardinality(FailuresIn(c, ps, ss, u))
  <2>1. \A p \in solved : minutes[p] \in Int
    BY <1>5
  <2> HIDE DEF costs, minutes, G, W, solved, done
  <2>2. SumFunctionOnSet(costs, {G[p] : p \in solved})
         = SumFunctionOnSet(minutes, solved) + c.penalty * Cardinality(UNION {W[p] : p \in solved})
    BY <1>3, <1>7, <1>9, <1>10, <1>12, <1>13, <2>1, SumOfParts
  <2> QED
    BY <1>6, <1>11, <2>2
<1>15. SumFunctionOnSet(gains, done) = SumFunctionOnSet(points, solved)
  <2> DEFINE none == [p \in solved |-> {}]
             z == 0
  <2>1. \A p \in solved : points[p] \in Int
    BY <1>5
  <2>2. \A p \in solved : none[p] = {} /\ IsFiniteSet(none[p]) /\ Cardinality(none[p]) = 0
    BY FS_EmptySet
  <2>3. /\ UNION {none[p] : p \in solved} = {}
        /\ \A p, q \in solved : p # q => none[p] \cap none[q] = {}
    OBVIOUS
  <2>4. \A p \in solved : gains[G[p]] = points[p] + Cardinality(none[p]) * z
    <3>1. \A p \in solved : G[p] \in done
      BY <1>6
    <3>2. \A p \in solved : gains[G[p]] = points[p]
      <4> HIDE DEF G, done, solved
      <4> QED
        BY <1>5, <3>1
    <3> HIDE DEF gains, points, none
    <3> QED
      BY <2>1, <2>2, <3>2
  <2>5. z \in Int
    OBVIOUS
  <2> HIDE DEF gains, points, G, none, solved, done, z
  <2>6. SumFunctionOnSet(gains, {G[p] : p \in solved})
          = SumFunctionOnSet(points, solved) + z * Cardinality(UNION {none[p] : p \in solved})
    <3>1. \A p \in solved : IsFiniteSet(none[p])
      BY <2>2
    <3>2. \A p, q \in solved : p # q => none[p] \cap none[q] = {}
      BY <2>3
    <3> QED
      BY <1>3, <1>7, <2>1, <2>4, <2>5, <3>1, <3>2, SumOfParts
  <2>7. SumFunctionOnSet(points, solved) \in Int
    BY <1>3, <2>1, SumType
  <2>8. z * Cardinality(UNION {none[p] : p \in solved}) = 0
    BY <2>3, FS_EmptySet DEF z
  <2> QED
    BY <1>6, <2>6, <2>7, <2>8
<1>16. IsFiniteSet(FailuresIn(c, ps, ss, u))
  <2>1. FailuresIn(c, ps, ss, u) \in SUBSET ss
    BY DEF FailuresIn, Wrong, OwnOf, InWindow
  <2> QED
    BY <2>1, FS_Subset DEF Read, SubsOK
<1>17. row.user = u /\ row.solved = Cardinality(solved)
  <2>1. row.user = u /\ row.solved = Cardinality(done)
    BY DEF RowOf
  <2> QED
    BY <1>8, <2>1
<1>18. row.cells = {Shown(c, cells, CellOf(c, ps, ss, u, p)) : p \in ps}
  <2>1. row.cells = {Shown(c, cells, cell) : cell \in own}
    BY DEF RowOf
  <2> QED
    BY <1>2, <2>1
<1>19. row.penalty = SumFunctionOnSet(costs, done) /\ row.score = SumFunctionOnSet(gains, done)
  <2>1. DOMAIN costs = done /\ DOMAIN gains = done
    OBVIOUS
  <2>2. row.penalty = SumFunction(costs) /\ row.score = SumFunction(gains)
    BY DEF RowOf
  <2> HIDE DEF costs, gains, done
  <2> QED
    BY <2>1, <2>2 DEF SumFunction
<1> HIDE DEF row, cells, solved, minutes, points, costs, gains, done
<1>20. /\ row.user = u
       /\ row.cells = {Shown(c, cells, CellOf(c, ps, ss, u, p)) : p \in ps}
       /\ IsFiniteSet(solved) /\ IsFiniteSet(FailuresIn(c, ps, ss, u))
       /\ row.solved = Cardinality(solved)
       /\ row.penalty = SumFunctionOnSet(minutes, solved)
                          + c.penalty * Cardinality(FailuresIn(c, ps, ss, u))
       /\ row.score = SumFunctionOnSet(points, solved)
  BY <1>3, <1>14, <1>15, <1>16, <1>17, <1>18, <1>19, Zenon
<1> QED
  BY <1>20 DEF RowScored, row, cells, solved, minutes, points

(* Two parts of it, in the form the boards need.                           *)
LEMMA RowCells ==
  ASSUME NEW c, NEW ps, NEW ss, Read(c, ps, ss), NEW u \in UsersOf(c, ps, ss)
  PROVE  RowOf(c, CellsOf(c, ps, ss), u).cells
           = {Shown(c, CellsOf(c, ps, ss), CellOf(c, ps, ss, u, p)) : p \in ps}
<1>1. RowScored(c, ps, ss, u)
  BY RowIsScore
<1> QED
  BY <1>1 DEF RowScored

LEMMA RowTotals ==
  ASSUME NEW c, NEW ps, NEW ss, Read(c, ps, ss), NEW u \in UsersOf(c, ps, ss)
  PROVE  /\ RowOf(c, CellsOf(c, ps, ss), u).solved = Cardinality(SolvedIn(c, ps, ss, u))
         /\ RowOf(c, CellsOf(c, ps, ss), u).score
              = SumFunctionOnSet([p \in SolvedIn(c, ps, ss, u) |-> PointsOf[p]],
                                 SolvedIn(c, ps, ss, u))
<1>1. RowScored(c, ps, ss, u)
  BY RowIsScore
<1> QED
  BY <1>1 DEF RowScored

-----------------------------------------------------------------------------
(* The rows in their order.                                                *)
RowBefore(c, r, s) == Before(SortKey(c, r), SortKey(c, s))

LEMMA RowTypes ==
  ASSUME NEW c, NEW ps, NEW ss, Read(c, ps, ss), NEW r \in RowsOf(c, ps, ss)
  PROVE  /\ r.user \in UsersOf(c, ps, ss) /\ r.user \in Users /\ NameOf[r.user] \in Int
         /\ r.solved \in Int /\ r.penalty \in Int /\ r.score \in Int
         /\ r = RowOf(c, CellsOf(c, ps, ss), r.user)
<1>1. PICK u \in UsersOf(c, ps, ss) : r = RowOf(c, CellsOf(c, ps, ss), u)
  BY DEF RowsOf
<1> DEFINE solved == SolvedIn(c, ps, ss, u)
           minutes == [p \in solved |-> Minutes(c, FirstIn(c, ps, ss, u, p))]
           points == [p \in solved |-> PointsOf[p]]
<1>2. /\ r.user = u /\ IsFiniteSet(solved) /\ IsFiniteSet(FailuresIn(c, ps, ss, u))
      /\ r.solved = Cardinality(solved)
      /\ r.penalty = SumFunctionOnSet(minutes, solved)
                       + c.penalty * Cardinality(FailuresIn(c, ps, ss, u))
      /\ r.score = SumFunctionOnSet(points, solved)
  BY <1>1, RowIsScore DEF RowScored
<1>3. u \in Users /\ NameOf[u] \in Int
  BY OwnSubs, LeaderboardAssumption
<1>4. c.start \in Int /\ c.penalty \in Int
  BY ContestTypes DEF Read
<1>5. ASSUME NEW p \in solved PROVE minutes[p] \in Int /\ points[p] \in Int
  <2>1. p \in ps /\ p \in Problems
    BY DEF SolvedIn, Read
  <2>2. FirstIn(c, ps, ss, u, p) \in Int
    BY <1>3, <2>1, CellFacts DEF FirstIn
  <2>3. Minutes(c, FirstIn(c, ps, ss, u, p)) \in Int
    BY <1>4, <2>2 DEF Minutes
  <2>4. PointsOf[p] \in Int
    BY <2>1, LeaderboardAssumption
  <2> QED
    BY <2>3, <2>4
<1>6. SumFunctionOnSet(minutes, solved) \in Int /\ SumFunctionOnSet(points, solved) \in Int
  <2> HIDE DEF minutes, points, solved
  <2> QED
    BY <1>2, <1>5, SumType
<1>7. Cardinality(solved) \in Nat /\ Cardinality(FailuresIn(c, ps, ss, u)) \in Nat
  BY <1>2, FS_CardinalityType
<1>8. r.penalty \in Int
  <2>1. \A i, j \in Int, n \in Nat : i + j * n \in Int
    OBVIOUS
  <2> HIDE DEF minutes, solved
  <2> QED
    BY <1>2, <1>4, <1>6, <1>7, <2>1
<1> QED
  BY <1>1, <1>2, <1>3, <1>6, <1>7, <1>8

(* The comparison of keys, spelled out.                                    *)
LEMMA BeforeIsLexical ==
  ASSUME NEW k \in Int \X Int \X Int, NEW l \in Int \X Int \X Int
  PROVE  Before(k, l) <=> \/ k[1] < l[1]
                          \/ k[1] = l[1] /\ k[2] < l[2]
                          \/ k[1] = l[1] /\ k[2] = l[2] /\ k[3] < l[3]
<1>1. 1..3 = {1, 2, 3} /\ 1..(1 - 1) = {} /\ 1..(2 - 1) = {1} /\ 1..(3 - 1) = {1, 2}
  OBVIOUS
<1>2. Before(k, l) <=> \E i \in {1, 2, 3} : k[i] < l[i] /\ \A j \in 1..(i - 1) : k[j] = l[j]
  BY <1>1 DEF Before
<1>3. @ <=> \/ k[1] < l[1] /\ \A j \in {} : k[j] = l[j]
            \/ k[2] < l[2] /\ \A j \in {1} : k[j] = l[j]
            \/ k[3] < l[3] /\ \A j \in {1, 2} : k[j] = l[j]
  BY <1>1
<1> QED
  BY <1>2, <1>3

LEMMA RowOrder ==
  ASSUME NEW c, NEW ps, NEW ss, Read(c, ps, ss),
         NEW r \in RowsOf(c, ps, ss), NEW s \in RowsOf(c, ps, ss)
  PROVE  RowBefore(c, r, s) <=>
           LET byName == NameOf[r.user] < NameOf[s.user]
           IN IF c.mode = "IOI"
              THEN r.score > s.score \/ (r.score = s.score /\ byName)
              ELSE \/ r.solved > s.solved
                   \/ r.solved = s.solved /\ r.penalty < s.penalty
                   \/ r.solved = s.solved /\ r.penalty = s.penalty /\ byName
<1>1. /\ NameOf[r.user] \in Int /\ r.solved \in Int /\ r.penalty \in Int /\ r.score \in Int
      /\ NameOf[s.user] \in Int /\ s.solved \in Int /\ s.penalty \in Int /\ s.score \in Int
  BY RowTypes
<1>2. CASE c.mode = "IOI"
  <2> DEFINE k == <<-r.score, 0, NameOf[r.user]>>
             l == <<-s.score, 0, NameOf[s.user]>>
  <2>1. k \in Int \X Int \X Int /\ l \in Int \X Int \X Int
    BY <1>1
  <2>2. RowBefore(c, r, s) <=> Before(k, l)
    BY <1>2 DEF RowBefore, SortKey
  <2>3. /\ k[1] = -r.score /\ k[2] = 0 /\ k[3] = NameOf[r.user]
        /\ l[1] = -s.score /\ l[2] = 0 /\ l[3] = NameOf[s.user]
    OBVIOUS
  <2> HIDE DEF k, l
  <2> QED
    BY <1>1, <1>2, <2>1, <2>2, <2>3, BeforeIsLexical
<1>3. CASE c.mode # "IOI"
  <2> DEFINE k == <<-r.solved, r.penalty, NameOf[r.user]>>
             l == <<-s.solved, s.penalty, NameOf[s.user]>>
  <2>1. k \in Int \X Int \X Int /\ l \in Int \X Int \X Int
    BY <1>1
  <2>2. RowBefore(c, r, s) <=> Before(k, l)
    BY <1>3 DEF RowBefore, SortKey
  <2>3. /\ k[1] = -r.solved /\ k[2] = r.penalty /\ k[3] = NameOf[r.user]
        /\ l[1] = -s.solved /\ l[2] = s.penalty /\ l[3] = NameOf[s.user]
    OBVIOUS
  <2> HIDE DEF k, l
  <2> QED
    BY <1>1, <1>3, <2>1, <2>2, <2>3, BeforeIsLexical
<1> QED
  BY <1>2, <1>3

(* No two rows tie: names are distinct.                                    *)
LEMMA RowsAreOrdered ==
  ASSUME NEW c, NEW ps, NEW ss, Read(c, ps, ss)
  PROVE  StrictOrder(RowsOf(c, ps, ss),
                     {rs \in RowsOf(c, ps, ss) \X RowsOf(c, ps, ss) : RowBefore(c, rs[1], rs[2])})
<1> DEFINE rows == RowsOf(c, ps, ss)
           R == {rs \in rows \X rows : RowBefore(c, rs[1], rs[2])}
<1>1. \A r, s \in rows : <<r, s>> \in R <=> RowBefore(c, r, s)
  OBVIOUS
<1>2. \A r \in rows : /\ NameOf[r.user] \in Int /\ r.solved \in Int
                      /\ r.penalty \in Int /\ r.score \in Int
  BY RowTypes
<1>3. \A r, s \in rows : NameOf[r.user] = NameOf[s.user] => r = s
  <2>1. \A r \in rows : r.user \in Users /\ r = RowOf(c, CellsOf(c, ps, ss), r.user)
    BY RowTypes
  <2>2. \A r, s \in rows : NameOf[r.user] = NameOf[s.user] => r.user = s.user
    BY <2>1, LeaderboardAssumption
  <2> HIDE DEF rows
  <2> QED
    BY <2>1, <2>2, Zenon
<1> HIDE DEF R
<1>4. \A r \in rows : <<r, r>> \notin R
  BY <1>1, <1>2, RowOrder
<1>5. \A r, s \in rows : r # s => <<r, s>> \in R \/ <<s, r>> \in R
  BY <1>1, <1>2, <1>3, RowOrder
<1>6. \A r, s, t \in rows : <<r, s>> \in R /\ <<s, t>> \in R => <<r, t>> \in R
  BY <1>1, <1>2, RowOrder
<1> QED
  BY <1>4, <1>5, <1>6 DEF R, StrictOrder

LEMMA BoardIsInOrder ==
  ASSUME NEW c, NEW ps, NEW ss, Read(c, ps, ss)
  PROVE  LET rows == RowsOf(c, ps, ss)
             n == Cardinality(rows)
             board == Board(c, ps, ss)
         IN /\ n \in Nat /\ board \in [1..n -> rows] /\ DOMAIN board = 1..n
            /\ \A i, j \in 1..n : i < j => RowBefore(c, board[i], board[j])
            /\ \A r \in rows : \E i \in 1..n : board[i] = r
            /\ \A i, j \in 1..n : board[i] = board[j] => i = j
<1> DEFINE rows == RowsOf(c, ps, ss)
           n == Cardinality(rows)
           R == {rs \in rows \X rows : RowBefore(c, rs[1], rs[2])}
           Ranked(q) == /\ q \in [1..n -> rows]
                        /\ \A i, j \in 1..n : i < j => RowBefore(c, q[i], q[j])
           q == CHOOSE q \in [1..n -> rows] : \A i, j \in 1..n : i < j => RowBefore(c, q[i], q[j])
<1>1. IsFiniteSet(rows)
  <2> DEFINE shown == InWindow(c, ps, ss)
             f == [s \in shown |-> RowOf(c, CellsOf(c, ps, ss), s.user)]
  <2>1. IsFiniteSet(shown)
    BY OwnSubs DEF SubsOK
  <2>2. f \in Surjection(shown, rows)
    BY DEF Surjection, RowsOf, UsersOf
  <2> HIDE DEF f, rows, shown
  <2> QED
    BY <2>1, <2>2, FS_Surjection
<1>2. n \in Nat
  BY <1>1, FS_CardinalityType
<1>3. StrictOrder(rows, R)
  BY RowsAreOrdered
<1>4. ASSUME NEW x PROVE InOrder(rows, R, x) <=> Ranked(x)
  <2> HIDE DEF rows
  <2> QED
    BY DEF InOrder
<1>5. \E x : Ranked(x)
  <2>1. \E x : InOrder(rows, R, x)
    <3> HIDE DEF R, rows
    <3> QED
      BY <1>1, <1>3, SortExists
  <2> QED
    BY <1>4, <2>1
<1>6. Ranked(q)
  <2> HIDE DEF rows
  <2> QED
    BY <1>5
<1>7. q = Board(c, ps, ss)
  BY DEF Board, Sorted, RowBefore, RowsOf, CellsOf, UsersOf
<1>8. InOrder(rows, R, q)
  BY <1>4, <1>6
<1> HIDE DEF q, rows
<1>9. /\ \A s \in rows : \E i \in 1..n : q[i] = s
      /\ \A i, j \in 1..n : q[i] = q[j] => i = j
  <2> HIDE DEF R
  <2> QED
    BY <1>1, <1>3, <1>8, SortIsComplete
<1>10. DOMAIN q = 1..n
  BY <1>6
<1> QED
  BY <1>2, <1>6, <1>7, <1>9, <1>10 DEF rows

-----------------------------------------------------------------------------
(* The invariant: what a request reads is finite and well-formed.          *)
Finite ==
  /\ IsFiniteSet(subs) /\ IsFiniteSet(problems)
  /\ view # NoView => IsFiniteSet(view[2])
IInv == TypeOK /\ Finite

LEMMA IInvSubs == IInv <=>
  /\ contest \in Contests /\ problems \subseteq Problems /\ IsFiniteSet(problems)
  /\ SubsOK(subs) /\ Cardinality(subs) <= MaxSubs /\ edits \in 0..MaxEdits
  /\ view # NoView => view \in Contests \X SUBSET Problems /\ IsFiniteSet(view[2])
  BY DEF IInv, TypeOK, Finite, SubsOK, Submissions

LEMMA InitIInv == Init => IInv
<1>1. SubsOK({}) /\ Cardinality({}) <= MaxSubs
  BY FS_EmptySet, LeaderboardAssumption DEF SubsOK
<1>2. 0 \in 0..MaxEdits
  BY LeaderboardAssumption
<1> QED
  BY <1>1, <1>2, IInvSubs, LeaderboardAssumption DEF Init

(* A row that is updated in place is still one row.                        *)
LEMMA StatusKeepsSubs ==
  ASSUME NEW ss, SubsOK(ss), NEW s \in ss,
         NEW st \in Verdicts \cup {"PENDING", "JUDGING"},
         NEW ts, ts = (ss \ {s}) \cup {[s EXCEPT !.status = st]}
  PROVE  /\ SubsOK(ts) /\ Cardinality(ts) = Cardinality(ss)
         /\ [s EXCEPT !.status = st].user = s.user
         /\ [s EXCEPT !.status = st].problem = s.problem
         /\ [s EXCEPT !.status = st].at = s.at
         /\ [s EXCEPT !.status = st].status = st
<1> DEFINE t == [s EXCEPT !.status = st]
<1>1. s \in Submissions
  BY DEF SubsOK
<1>2. /\ t \in Submissions
      /\ t.user = s.user /\ t.problem = s.problem /\ t.at = s.at /\ t.status = st
  BY <1>1 DEF Submissions
<1> HIDE DEF t
<1>3. \A x \in ss \ {s} : x.at # s.at
  BY DEF SubsOK
<1>4. t \notin ss \ {s}
  BY <1>2, <1>3
<1>5. IsFiniteSet(ss \ {s}) /\ Cardinality(ss \ {s}) = Cardinality(ss) - 1 /\ Cardinality(ss) \in Nat
  BY FS_RemoveElement, FS_CardinalityType DEF SubsOK
<1>6. IsFiniteSet(ts) /\ Cardinality(ts) = Cardinality(ss)
  <2>1. ts = (ss \ {s}) \cup {t}
    BY DEF t
  <2>2. IsFiniteSet(ts) /\ Cardinality(ts) = Cardinality(ss \ {s}) + 1
    BY <1>4, <1>5, <2>1, FS_AddElement
  <2> QED
    BY <1>5, <2>2
<1>7. SubsOK(ts)
  <2>1. ts = (ss \ {s}) \cup {t}
    BY DEF t
  <2>2. ts \subseteq Submissions
    BY <1>2, <2>1 DEF SubsOK
  <2>3. \A x, y \in ts : x.at = y.at => x = y
    BY <1>2, <1>3, <2>1 DEF SubsOK
  <2> QED
    BY <1>6, <2>2, <2>3 DEF SubsOK
<1> QED
  BY <1>2, <1>6, <1>7 DEF t

LEMMA NextIInv == IInv /\ [Next]_vars => IInv'
<1> SUFFICES ASSUME IInv, [Next]_vars PROVE IInv'
  OBVIOUS
<1>0. /\ contest \in Contests /\ problems \subseteq Problems /\ IsFiniteSet(problems)
      /\ SubsOK(subs) /\ Cardinality(subs) <= MaxSubs /\ edits \in 0..MaxEdits
      /\ view # NoView => view \in Contests \X SUBSET Problems /\ IsFiniteSet(view[2])
  BY IInvSubs
<1> DEFINE Kept == /\ contest' \in Contests /\ problems' \subseteq Problems /\ IsFiniteSet(problems')
                   /\ SubsOK(subs') /\ Cardinality(subs') <= MaxSubs /\ edits' \in 0..MaxEdits
                   /\ view' # NoView => view' \in Contests \X SUBSET Problems /\ IsFiniteSet(view'[2])
<1>1. Kept => IInv'
  BY DEF IInv, TypeOK, Finite, SubsOK, Submissions
<1>2. ASSUME edits < MaxEdits, edits' = edits + 1 PROVE edits' \in 0..MaxEdits
  BY <1>0, <1>2, LeaderboardAssumption
<1>3. ASSUME NEW u \in Users, NEW p \in Problems, NEW t \in Moments, Submit(u, p, t) PROVE Kept
  <2> DEFINE s == [user |-> u, problem |-> p, at |-> t, status |-> "PENDING"]
  <2>1. s \in Submissions /\ s.at = t
    BY DEF Submissions
  <2>2. subs' = subs \cup {s} /\ \A x \in subs : x.at # t
    BY <1>3 DEF Submit
  <2> HIDE DEF s
  <2>3. s \notin subs
    BY <2>1, <2>2
  <2>4. IsFiniteSet(subs') /\ Cardinality(subs') = Cardinality(subs) + 1
    BY <1>0, <2>2, <2>3, FS_AddElement DEF SubsOK
  <2>5. Cardinality(subs') <= MaxSubs
    <3>1. Cardinality(subs) \in Nat /\ Cardinality(subs) < MaxSubs
      BY <1>0, <1>3, FS_CardinalityType DEF Submit, SubsOK
    <3> QED
      BY <2>4, <3>1, LeaderboardAssumption
  <2>6. SubsOK(subs')
    <3>1. \A x, y \in subs' : x.at = y.at => x = y
      BY <1>0, <2>1, <2>2 DEF SubsOK
    <3> QED
      BY <1>0, <2>1, <2>2, <2>4, <3>1 DEF SubsOK
  <2> QED
    BY <1>0, <1>3, <2>5, <2>6 DEF Submit
<1>4. ASSUME NEW s \in subs, NEW v \in Verdicts, UpdateVerdict(s, v) PROVE Kept
  <2>1. SubsOK(subs') /\ Cardinality(subs') = Cardinality(subs)
    BY <1>0, <1>4, StatusKeepsSubs DEF UpdateVerdict, SetStatus
  <2> QED
    BY <1>0, <1>4, <2>1 DEF UpdateVerdict
<1>5. ASSUME NEW s \in subs, MarkJudging(s) PROVE Kept
  <2>1. SubsOK(subs') /\ Cardinality(subs') = Cardinality(subs)
    BY <1>0, <1>5, StatusKeepsSubs DEF MarkJudging, SetStatus
  <2>2. edits' \in 0..MaxEdits
    BY <1>2, <1>5 DEF MarkJudging
  <2> QED
    BY <1>0, <1>5, <2>1, <2>2 DEF MarkJudging
<1>6. ASSUME NEW c \in Contests, UpdateContest(c) PROVE Kept
  <2>1. edits' \in 0..MaxEdits
    BY <1>2, <1>6 DEF UpdateContest
  <2> QED
    BY <1>0, <1>6, <2>1 DEF UpdateContest
<1>7. ASSUME NEW p \in Problems, AssignProblem(p) \/ UnassignProblem(p) PROVE Kept
  <2>1. edits' \in 0..MaxEdits
    BY <1>2, <1>7 DEF AssignProblem, UnassignProblem
  <2>2. problems' = problems \cup {p} \/ problems' = problems \ {p}
    BY <1>7 DEF AssignProblem, UnassignProblem
  <2>3. IsFiniteSet(problems')
    BY <1>0, <2>2, FS_AddElement, FS_RemoveElement
  <2> QED
    BY <1>0, <1>7, <2>1, <2>2, <2>3 DEF AssignProblem, UnassignProblem
<1>8. ASSUME OpenView PROVE Kept
  <2>1. view' = <<contest, problems>> /\ view'[2] = problems
    BY <1>8 DEF OpenView
  <2> QED
    BY <1>0, <1>8, <2>1 DEF OpenView
<1>9. ASSUME CloseView PROVE Kept
  BY <1>0, <1>9 DEF CloseView
<1>10. ASSUME UNCHANGED vars PROVE Kept
  BY <1>0, <1>10 DEF vars
<1> HIDE DEF Kept
<1> QED
  BY <1>1, <1>3, <1>4, <1>5, <1>6, <1>7, <1>8, <1>9, <1>10 DEF Next

LEMMA Invariance == Spec => []IInv
  BY InitIInv, NextIInv, PTL DEF Spec

(* The rows keep their shape: one per submission, updated in place, and a  *)
(* request sees one contest row (leaderboard.py:49-76).                    *)
THEOREM TypeCorrect == Spec => []TypeOK
<1>1. IInv => TypeOK
  BY DEF IInv
<1> QED
  BY <1>1, Invariance, PTL

-----------------------------------------------------------------------------
(* What the rules count for u and p is what the request reads of them.     *)
LEMMA ViewIsRead ==
  ASSUME IInv, view # NoView
  PROVE  /\ Read(view[1], view[2], subs) /\ Rows = Board(view[1], view[2], subs)
         /\ view[1].start \in Int /\ view[1].end \in Int
  BY IInvSubs, ContestTypes DEF Read, Rows

LEMMA CountedIsOwn ==
  ASSUME IInv, view # NoView, NEW u
  PROVE  /\ \A p \in view[2] : Counted(u, p) = OwnOf(view[1], view[2], subs, u, p)
         /\ \A p : p \notin view[2] => Counted(u, p) = {}
         /\ {p \in view[2] : AcceptedOf(u, p) # {}} = SolvedIn(view[1], view[2], subs, u)
<1>1. \A s \in subs : s.at \in Int
  BY ViewIsRead, SubTypes DEF Read
<1>2. \A p \in view[2] : Counted(u, p) = OwnOf(view[1], view[2], subs, u, p)
  BY <1>1, ViewIsRead DEF Counted, OwnOf, InWindow
<1>3. \A p : p \notin view[2] => Counted(u, p) = {}
  BY DEF Counted
<1>4. {p \in view[2] : AcceptedOf(u, p) # {}} = SolvedIn(view[1], view[2], subs, u)
  BY <1>2 DEF AcceptedOf, SolvedIn, Accepted
<1> QED
  BY <1>2, <1>3, <1>4

LEMMA RulesAreRead ==
  ASSUME IInv, view # NoView, NEW u \in Users, NEW p \in view[2]
  PROVE  LET cell == CellOf(view[1], view[2], subs, u, p)
         IN /\ WrongBefore(u, p) = Wrong(OwnOf(view[1], view[2], subs, u, p))
            /\ cell.problem = p /\ cell.user = u
            /\ cell.attempts = Cardinality(WrongBefore(u, p)) /\ cell.attempts \in Nat
            /\ IsSolved(cell) <=> AcceptedOf(u, p) # {}
            /\ AcceptedOf(u, p) # {} => cell.firstAc = FirstAt(u, p) /\ FirstAt(u, p) \in Int
<1> DEFINE own == OwnOf(view[1], view[2], subs, u, p)
           cell == CellOf(view[1], view[2], subs, u, p)
           times == {s.at : s \in AcceptedOf(u, p)}
<1>1. Read(view[1], view[2], subs)
  BY ViewIsRead
<1>2. Counted(u, p) = own /\ AcceptedOf(u, p) = Accepted(own) /\ WrongBefore(u, p) = Wrong(own)
  BY CountedIsOwn DEF AcceptedOf, WrongBefore, Accepted, Wrong
<1>3. /\ cell.problem = p /\ cell.user = u
      /\ cell.attempts = Cardinality(Wrong(own)) /\ cell.attempts \in Nat
      /\ cell.firstAc \in Int
      /\ IsSolved(cell) <=> p \in SolvedIn(view[1], view[2], subs, u)
      /\ IsSolved(cell) => /\ \E a \in Accepted(own) : cell.firstAc = a.at
                           /\ \A b \in Accepted(own) : cell.firstAc <= b.at
  BY <1>1, CellFacts
<1>4. IsSolved(cell) <=> AcceptedOf(u, p) # {}
  BY <1>3, CountedIsOwn
<1>5. ASSUME AcceptedOf(u, p) # {} PROVE cell.firstAc = FirstAt(u, p)
  <2>1. cell.firstAc \in times /\ \A x \in times : cell.firstAc <= x
    BY <1>2, <1>3, <1>4, <1>5
  <2>2. \A x \in times : x \in Int
    BY <1>1, <1>2, SubTypes, OwnSubs DEF Accepted
  <2>0. cell.firstAc \in Int
    BY <1>3
  <2> HIDE DEF cell, times
  <2>3. \A x \in times : (\A y \in times : x =< y) => x = cell.firstAc
    BY <2>0, <2>1, <2>2
  <2>4. Min(times) = cell.firstAc
    BY <2>1, <2>3 DEF Min
  <2> QED
    BY <2>4 DEF FirstAt, times
<1> QED
  BY <1>2, <1>3, <1>4, <1>5

LEMMA BoardRow ==
  ASSUME IInv, view # NoView, NEW k \in DOMAIN Rows
  PROVE  /\ Rows[k].user \in UsersOf(view[1], view[2], subs) /\ Rows[k].user \in Users
         /\ Rows[k] = RowOf(view[1], CellsOf(view[1], view[2], subs), Rows[k].user)
         /\ Rows[k] \in RowsOf(view[1], view[2], subs)
<1>1. Rows[k] \in RowsOf(view[1], view[2], subs)
  BY ViewIsRead, BoardIsInOrder
<1> QED
  BY <1>1, ViewIsRead, RowTypes

(* Who takes part is listed.                                               *)
LEMMA Participants ==
  ASSUME IInv, view # NoView
  PROVE  {Rows[k].user : k \in DOMAIN Rows} = {u \in Users : \E p \in Problems : Counted(u, p) # {}}
<1> DEFINE users == UsersOf(view[1], view[2], subs)
           rows == RowsOf(view[1], view[2], subs)
<1>1. {Rows[k].user : k \in DOMAIN Rows} = users
  <2>1. \A k \in DOMAIN Rows : Rows[k].user \in users
    BY BoardRow
  <2>2. ASSUME NEW u \in users PROVE \E k \in DOMAIN Rows : Rows[k].user = u
    <3>1. RowOf(view[1], CellsOf(view[1], view[2], subs), u) \in rows
      BY DEF RowsOf
    <3>2. RowOf(view[1], CellsOf(view[1], view[2], subs), u).user = u
      BY DEF RowOf
    <3>3. \A r \in rows : \E k \in DOMAIN Rows : Rows[k] = r
      BY ViewIsRead, BoardIsInOrder
    <3> QED
      BY <3>1, <3>2, <3>3
  <2> QED
    BY <2>1, <2>2
<1>2. ASSUME NEW u \in users PROVE u \in Users /\ \E p \in Problems : Counted(u, p) # {}
  <2>1. PICK s \in InWindow(view[1], view[2], subs) : s.user = u
    BY DEF UsersOf
  <2>2. s.problem \in view[2] /\ s \in subs /\ s \in OwnOf(view[1], view[2], subs, u, s.problem)
    BY <2>1 DEF InWindow, OwnOf
  <2>3. s.problem \in Problems /\ u \in Users
    BY <2>1, <2>2, ViewIsRead, SubTypes DEF Read
  <2> QED
    BY <2>2, <2>3, CountedIsOwn
<1>3. ASSUME NEW u \in Users, NEW p \in Problems, Counted(u, p) # {} PROVE u \in users
  <2>1. p \in view[2] /\ Counted(u, p) = OwnOf(view[1], view[2], subs, u, p)
    BY <1>3, CountedIsOwn
  <2> QED
    BY <1>3, <2>1 DEF OwnOf, UsersOf
<1> QED
  BY <1>1, <1>2, <1>3

(* The numbers of a row, by the rules.                                     *)
LEMMA RowByRules ==
  ASSUME IInv, view # NoView, NEW k \in DOMAIN Rows
  PROVE  LET u == Rows[k].user
             solved == {p \in view[2] : AcceptedOf(u, p) # {}}
             failures == UNION {WrongBefore(u, p) : p \in solved}
         IN /\ Rows[k].solved = Cardinality(solved)
            /\ Rows[k].penalty =
                 SumFunction([p \in solved |-> (FirstAt(u, p) - view[1].start) \div 60])
                   + view[1].penalty * Cardinality(failures)
            /\ Rows[k].score = SumFunction([p \in solved |-> PointsOf[p]])
<1> DEFINE u == Rows[k].user
           solved == SolvedIn(view[1], view[2], subs, u)
           minutes == [p \in solved |-> Minutes(view[1], FirstIn(view[1], view[2], subs, u, p))]
           points == [p \in solved |-> PointsOf[p]]
           failures == UNION {WrongBefore(u, p) : p \in solved}
           waits == [p \in solved |-> (FirstAt(u, p) - view[1].start) \div 60]
<1>1. u \in UsersOf(view[1], view[2], subs) /\ u \in Users
      /\ Rows[k] = RowOf(view[1], CellsOf(view[1], view[2], subs), u)
  BY BoardRow
<1>2. solved = {p \in view[2] : AcceptedOf(u, p) # {}}
  BY CountedIsOwn
<1>3. /\ Rows[k].solved = Cardinality(solved)
      /\ Rows[k].penalty = SumFunctionOnSet(minutes, solved)
              + view[1].penalty * Cardinality(FailuresIn(view[1], view[2], subs, u))
      /\ Rows[k].score = SumFunctionOnSet(points, solved)
  BY <1>1, ViewIsRead, RowIsScore DEF RowScored
<1>4. \A p \in solved : p \in view[2] /\ AcceptedOf(u, p) # {}
  BY <1>2
<1>5. FailuresIn(view[1], view[2], subs, u) = failures
  BY <1>1, <1>4, RulesAreRead DEF FailuresIn
<1>6. minutes = waits
  <2>1. ASSUME NEW p \in solved
        PROVE Minutes(view[1], FirstIn(view[1], view[2], subs, u, p))
                = (FirstAt(u, p) - view[1].start) \div 60
    <3>1. FirstIn(view[1], view[2], subs, u, p) = FirstAt(u, p)
      BY <1>1, <1>4, RulesAreRead DEF FirstIn
    <3> QED
      BY <3>1 DEF Minutes
  <2> HIDE DEF solved
  <2> QED
    BY <2>1
<1>7. SumFunction(waits) = SumFunctionOnSet(waits, solved)
      /\ SumFunction(points) = SumFunctionOnSet(points, solved)
  BY DEF SumFunction
<1> HIDE DEF solved, minutes, waits, points, failures
<1>8. /\ Rows[k].solved = Cardinality(solved)
      /\ Rows[k].penalty = SumFunction(waits) + view[1].penalty * Cardinality(failures)
      /\ Rows[k].score = SumFunction(points)
  BY <1>3, <1>5, <1>6, <1>7, Zenon
<1> QED
  BY <1>2, <1>8 DEF waits, points, failures

(* The cells of a row, by the rules.                                       *)
LEMMA CellsByRules ==
  ASSUME IInv, view # NoView, NEW k \in DOMAIN Rows, NEW shown \in Rows[k].cells
  PROVE  LET u == Rows[k].user
             p == shown.problem
         IN /\ p \in view[2]
            /\ shown.attempts = Cardinality(WrongBefore(u, p))
                                  + (IF AcceptedOf(u, p) # {} THEN 1 ELSE 0)
            /\ shown.status = "first_ac" <=>
                 /\ AcceptedOf(u, p) # {}
                 /\ \A v \in Users : AcceptedOf(v, p) # {} => FirstAt(u, p) <= FirstAt(v, p)
<1> DEFINE u == Rows[k].user
           users == UsersOf(view[1], view[2], subs)
           cells == CellsOf(view[1], view[2], subs)
           cell(v, q) == CellOf(view[1], view[2], subs, v, q)
<1>1. /\ u \in users /\ u \in Users /\ users \subseteq Users
      /\ Rows[k] = RowOf(view[1], cells, u)
  BY BoardRow, ViewIsRead, OwnSubs
<1>2. PICK p \in view[2] : shown = Shown(view[1], cells, cell(u, p))
  <2>1. Rows[k].cells = {Shown(view[1], cells, cell(u, q)) : q \in view[2]}
    <3>1. Read(view[1], view[2], subs)
      BY ViewIsRead
    <3>2. RowOf(view[1], cells, u).cells = {Shown(view[1], cells, cell(u, q)) : q \in view[2]}
      <4>1. /\ Read(view[1], view[2], subs) /\ u \in UsersOf(view[1], view[2], subs)
        BY <1>1, <3>1
      <4> HIDE DEF u
      <4> QED
        BY <4>1, RowCells
    <3> HIDE DEF cells, cell, u
    <3> QED
      BY <1>1, <3>2
  <2> QED
    BY <2>1
<1>3. /\ cell(u, p).problem = p /\ cell(u, p).attempts = Cardinality(WrongBefore(u, p))
      /\ cell(u, p).attempts \in Nat
      /\ IsSolved(cell(u, p)) <=> AcceptedOf(u, p) # {}
  BY <1>1, RulesAreRead
<1>4. /\ shown.problem = p
      /\ shown.attempts = cell(u, p).attempts + (IF IsSolved(cell(u, p)) THEN 1 ELSE 0)
      /\ shown.status = "first_ac" <=> IsSolved(cell(u, p)) /\ IsFirst(cells, cell(u, p))
  <2> HIDE DEF cell, cells
  <2> QED
    BY <1>2, <1>3 DEF Shown
<1>5. ASSUME AcceptedOf(u, p) # {}
      PROVE  IsFirst(cells, cell(u, p)) <=>
               \A v \in Users : AcceptedOf(v, p) # {} => FirstAt(u, p) <= FirstAt(v, p)
  <2>1. cell(u, p).firstAc = FirstAt(u, p)
    BY <1>1, <1>5, RulesAreRead
  <2>2. ASSUME NEW v \in Users, AcceptedOf(v, p) # {}
        PROVE  /\ cell(v, p) \in cells /\ cell(v, p).problem = p /\ IsSolved(cell(v, p))
               /\ cell(v, p).firstAc = FirstAt(v, p)
    <3>1. v \in users
      <4>1. PICK s \in OwnOf(view[1], view[2], subs, v, p) : TRUE
        BY <2>2, CountedIsOwn DEF AcceptedOf
      <4> QED
        BY <4>1 DEF OwnOf, UsersOf
    <3>2. cell(v, p) \in cells
      BY <3>1 DEF CellsOf
    <3> QED
      BY <2>2, <3>2, RulesAreRead
  <2>3. ASSUME NEW other \in cells, other.problem = p, IsSolved(other)
        PROVE  \E v \in Users : AcceptedOf(v, p) # {} /\ other.firstAc = FirstAt(v, p)
    <3>1. PICK v \in users, q \in view[2] : other = cell(v, q)
      BY DEF CellsOf
    <3>2. v \in Users /\ q = p
      BY <1>1, <2>3, <3>1, RulesAreRead
    <3> QED
      BY <2>3, <3>1, <3>2, RulesAreRead
  <2> HIDE DEF cell, cells, u
  <2>4. IsFirst(cells, cell(u, p)) <=>
          \A other \in cells : other.problem = p /\ IsSolved(other) => FirstAt(u, p) <= other.firstAc
    BY <1>3, <2>1 DEF IsFirst
  <2> QED
    BY <2>2, <2>3, <2>4
<1> HIDE DEF cell, cells, u
<1>6. /\ shown.problem \in view[2]
      /\ shown.attempts = Cardinality(WrongBefore(u, shown.problem))
                            + (IF AcceptedOf(u, shown.problem) # {} THEN 1 ELSE 0)
  BY <1>2, <1>3, <1>4
<1>7. shown.status = "first_ac" <=>
        /\ AcceptedOf(u, shown.problem) # {}
        /\ \A v \in Users : AcceptedOf(v, shown.problem) # {} =>
             FirstAt(u, shown.problem) <= FirstAt(v, shown.problem)
  BY <1>3, <1>4, <1>5
<1> QED
  BY <1>6, <1>7 DEF u

-----------------------------------------------------------------------------
(* Whatever is submitted, judged, judged again or edited between the       *)
(* queries of a request, and in whatever order: the page lists who takes   *)
(* part, with what ICPC and IOI count of the submissions it read           *)
(* (leaderboard.py:80-148).                                                *)
THEOREM BoardScoresByTheRules == Spec => []BoardIsScoring
<1>1. IInv => BoardIsScoring
  <2> SUFFICES ASSUME IInv, view # NoView PROVE BoardIsScoring
    BY DEF BoardIsScoring
  <2>1. {Rows[k].user : k \in DOMAIN Rows} = {u \in Users : \E p \in Problems : Counted(u, p) # {}}
    BY Participants
  <2>2. ASSUME NEW k \in DOMAIN Rows
        PROVE  LET u == Rows[k].user
                   solved == {p \in view[2] : AcceptedOf(u, p) # {}}
                   failures == UNION {WrongBefore(u, p) : p \in solved}
               IN /\ Rows[k].solved = Cardinality(solved)
                  /\ Rows[k].penalty =
                       SumFunction([p \in solved |-> (FirstAt(u, p) - view[1].start) \div 60])
                         + view[1].penalty * Cardinality(failures)
                  /\ Rows[k].score = SumFunction([p \in solved |-> PointsOf[p]])
                  /\ \A cell \in Rows[k].cells :
                       cell.attempts = Cardinality(WrongBefore(u, cell.problem))
                                         + (IF cell.problem \in solved THEN 1 ELSE 0)
    <3> DEFINE u == Rows[k].user
               solved == {p \in view[2] : AcceptedOf(u, p) # {}}
    <3>1. \A cell \in Rows[k].cells :
            cell.attempts = Cardinality(WrongBefore(u, cell.problem))
                              + (IF cell.problem \in solved THEN 1 ELSE 0)
      <4>1. ASSUME NEW cell \in Rows[k].cells
            PROVE  /\ cell.problem \in view[2]
                   /\ cell.attempts = Cardinality(WrongBefore(u, cell.problem))
                                        + (IF AcceptedOf(u, cell.problem) # {} THEN 1 ELSE 0)
        BY CellsByRules
      <4> QED
        BY <4>1
    <3> QED
      BY <3>1, RowByRules
  <2> QED
    BY <2>1, <2>2 DEF BoardIsScoring
<1> QED
  BY <1>1, Invariance, PTL

(* A rank is a standing: the sort key orders the rows as the rules of the  *)
(* contest's mode do, and no two tie (leaderboard.py:150-160).             *)
THEOREM RanksFollowTheRules == Spec => []RanksAreStandings
<1>1. IInv => RanksAreStandings
  <2>1. CASE view = NoView
    <3>1. DOMAIN Rows = {}
      BY <2>1 DEF Rows
    <3> QED
      BY <3>1 DEF RanksAreStandings
  <2>2. ASSUME IInv, view # NoView, NEW j \in DOMAIN Rows, NEW k \in DOMAIN Rows, j < k
        PROVE  LET r == Rows[j]
                   s == Rows[k]
                   byName == NameOf[r.user] < NameOf[s.user]
               IN IF view[1].mode = "IOI"
                  THEN r.score >= s.score /\ (r.score = s.score => byName)
                  ELSE /\ r.solved >= s.solved
                       /\ r.solved = s.solved => r.penalty <= s.penalty
                       /\ r.solved = s.solved /\ r.penalty = s.penalty => byName
    <3> DEFINE r == Rows[j]
               s == Rows[k]
    <3>1. RowBefore(view[1], r, s)
      BY <2>2, ViewIsRead, BoardIsInOrder
    <3>2. r \in RowsOf(view[1], view[2], subs) /\ s \in RowsOf(view[1], view[2], subs)
      BY <2>2, BoardRow
    <3>3. /\ r.solved \in Int /\ r.penalty \in Int /\ r.score \in Int
          /\ s.solved \in Int /\ s.penalty \in Int /\ s.score \in Int
      BY <2>2, <3>2, ViewIsRead, RowTypes
    <3>4. IF view[1].mode = "IOI"
          THEN r.score > s.score \/ (r.score = s.score /\ NameOf[r.user] < NameOf[s.user])
          ELSE \/ r.solved > s.solved
               \/ r.solved = s.solved /\ r.penalty < s.penalty
               \/ r.solved = s.solved /\ r.penalty = s.penalty /\ NameOf[r.user] < NameOf[s.user]
      BY <2>2, <3>1, <3>2, ViewIsRead, RowOrder
    <3> HIDE DEF r, s
    <3>5. IF view[1].mode = "IOI"
          THEN r.score >= s.score /\ (r.score = s.score => NameOf[r.user] < NameOf[s.user])
          ELSE /\ r.solved >= s.solved
               /\ r.solved = s.solved => r.penalty <= s.penalty
               /\ r.solved = s.solved /\ r.penalty = s.penalty => NameOf[r.user] < NameOf[s.user]
      BY <3>3, <3>4
    <3> QED
      BY <3>5 DEF r, s
  <2> QED
    BY <2>1, <2>2 DEF RanksAreStandings
<1> QED
  BY <1>1, Invariance, PTL

(* The mark for the first solver of a problem goes to exactly that user    *)
(* (leaderboard.py:162-180).                                               *)
THEOREM FirstSolverAlone == Spec => []FirstSolverIsMarked
<1>1. IInv => FirstSolverIsMarked
  BY CellsByRules DEF FirstSolverIsMarked
<1> QED
  BY <1>1, Invariance, PTL

(* What SolvedOf finds on a board, also of a user that is not listed.      *)
LEMMA SolvedOnBoard ==
  ASSUME NEW c, NEW ps, NEW ss, Read(c, ps, ss), NEW u \in Users
  PROVE  LET solved == SolvedIn(c, ps, ss, u)
         IN /\ IsFiniteSet(solved) /\ solved \subseteq ps
            /\ SolvedOf(Board(c, ps, ss), u)
                 = <<Cardinality(solved), SumFunctionOnSet(PointsOf, solved)>>
<1> DEFINE solved == SolvedIn(c, ps, ss, u)
           points == [p \in solved |-> PointsOf[p]]
           rows == Board(c, ps, ss)
           own == {k \in DOMAIN rows : rows[k].user = u}
           standing == <<Cardinality(solved), SumFunctionOnSet(points, solved)>>
<1>1. solved \in SUBSET ps /\ IsFiniteSet(solved)
  <2>1. solved \in SUBSET ps
    BY DEF SolvedIn
  <2> HIDE DEF solved
  <2> QED
    BY <2>1, FS_Subset DEF Read
<1>2. ASSUME own # {} PROVE SolvedOf(rows, u) = standing
  <2> DEFINE k == CHOOSE k \in own : TRUE
  <2>1. k \in own
    BY <1>2
  <2>2. rows[k] \in RowsOf(c, ps, ss) /\ rows[k].user = u
    BY <2>1, BoardIsInOrder
  <2>3. u \in UsersOf(c, ps, ss) /\ rows[k] = RowOf(c, CellsOf(c, ps, ss), u)
    BY <2>2, RowTypes
  <2>4. rows[k].solved = Cardinality(solved) /\ rows[k].score = SumFunctionOnSet(points, solved)
    <3>1. /\ RowOf(c, CellsOf(c, ps, ss), u).solved = Cardinality(solved)
          /\ RowOf(c, CellsOf(c, ps, ss), u).score = SumFunctionOnSet(points, solved)
      BY <2>3, RowTotals
    <3> HIDE DEF k, rows, points, solved
    <3> QED
      BY <2>3, <3>1
  <2>5. SolvedOf(rows, u) = <<rows[k].solved, rows[k].score>>
    BY <1>2 DEF SolvedOf
  <2> HIDE DEF k, rows, points, solved
  <2> QED
    BY <2>4, <2>5
<1>3. ASSUME own = {} PROVE SolvedOf(rows, u) = standing
  <2>1. u \notin UsersOf(c, ps, ss)
    <3>1. SUFFICES ASSUME u \in UsersOf(c, ps, ss) PROVE FALSE
      OBVIOUS
    <3> DEFINE r == RowOf(c, CellsOf(c, ps, ss), u)
    <3>2. r \in RowsOf(c, ps, ss)
      BY <3>1 DEF RowsOf
    <3>3. r.user = u
      BY DEF RowOf
    <3>4. \E k \in DOMAIN rows : rows[k] = r
      <4> HIDE DEF r
      <4> QED
        BY <3>2, BoardIsInOrder
    <3> QED
      BY <1>3, <3>3, <3>4
  <2>2. solved = {}
    BY <2>1 DEF SolvedIn, Accepted, OwnOf, UsersOf
  <2>3. SolvedOf(rows, u) = <<0, 0>>
    BY <1>3 DEF SolvedOf
  <2>4. Cardinality(solved) = 0 /\ SumFunctionOnSet(points, solved) = 0
    <3> HIDE DEF points, solved
    <3> QED
      BY <2>2, FS_EmptySet, SumEmpty
  <2> HIDE DEF rows, points, solved
  <2> QED
    BY <2>3, <2>4
<1>4. SumFunctionOnSet(points, solved) = SumFunctionOnSet(PointsOf, solved)
  <2>1. \A p \in solved : points[p] = PointsOf[p] /\ PointsOf[p] \in Int
    BY <1>1, LeaderboardAssumption DEF Read
  <2> HIDE DEF points, solved
  <2> QED
    BY <1>1, <2>1, SumAgrees
<1>5. SolvedOf(rows, u) = standing
  BY <1>2, <1>3
<1> HIDE DEF points, solved, rows, own
<1>6. SolvedOf(rows, u) = <<Cardinality(solved), SumFunctionOnSet(PointsOf, solved)>>
  BY <1>4, <1>5
<1> QED
  BY <1>1, <1>6 DEF solved, rows

(* What u has solved among ts is what he had among ss, and the problem of s*)
(* when he had not solved it, or less that problem when s was all he had.  *)
Turns(c, ps, ss, ts, s, u) ==
  LET p == s.problem
      A == SolvedIn(c, ps, ss, u)
      B == SolvedIn(c, ps, ts, u)
      X == Accepted(OwnOf(c, ps, ss, u, p))
  IN \/ B = A
     \/ s.user = u /\ X = {} /\ p \in ps \ A /\ B = A \cup {p}
     \/ s.user = u /\ X = {s} /\ p \in A /\ B = A \ {p}

(* Who solves what after one row has got another status.                   *)
LEMMA SolvedAfter ==
  ASSUME NEW c, NEW ps, NEW ss, Read(c, ps, ss), NEW s \in ss, NEW u \in Users,
         NEW st \in Verdicts \cup {"PENDING", "JUDGING"},
         NEW ts, ts = (ss \ {s}) \cup {[s EXCEPT !.status = st]}
  PROVE  Turns(c, ps, ss, ts, s, u)
<1> DEFINE t == [s EXCEPT !.status = st]
           p == s.problem
           X(q) == Accepted(OwnOf(c, ps, ss, u, q))
           Y(q) == Accepted(OwnOf(c, ps, ts, u, q))
<1>1. t.user = s.user /\ t.problem = s.problem /\ t.at = s.at /\ t.status = st
  BY StatusKeepsSubs DEF Read
<1>2. ts = (ss \ {s}) \cup {t}
  OBVIOUS
<1> HIDE DEF t
<1>3. \A q : X(q) \ {s} \subseteq Y(q) /\ Y(q) \ {t} \subseteq X(q)
  BY <1>2 DEF Accepted, OwnOf, InWindow
<1>4. \A q : q # p \/ u # s.user => s \notin X(q) /\ t \notin Y(q)
  BY <1>1 DEF Accepted, OwnOf
<1>6. /\ SolvedIn(c, ps, ss, u) = {q \in ps : X(q) # {}}
      /\ SolvedIn(c, ps, ts, u) = {q \in ps : Y(q) # {}}
  BY DEF SolvedIn
<1> HIDE DEF X, Y
<1>5. \A q : q # p \/ u # s.user => X(q) = Y(q)
  BY <1>3, <1>4
<1>7. X(p) # {} /\ X(p) # {s} => Y(p) # {}
  BY <1>3
<1>8. CASE u # s.user \/ p \notin ps \/ (X(p) = {} <=> Y(p) = {})
  BY <1>5, <1>6, <1>8 DEF Turns
<1>9. CASE u = s.user /\ p \in ps /\ X(p) = {} /\ Y(p) # {}
  BY <1>5, <1>6, <1>9 DEF X, Turns
<1>10. CASE u = s.user /\ p \in ps /\ X(p) = {s} /\ Y(p) = {}
  BY <1>5, <1>6, <1>10 DEF X, Turns
<1> QED
  BY <1>7, <1>8, <1>9, <1>10

(* A step of the judge moves the submitter alone, by the one problem: up   *)
(* when it was not solved, down when its only acceptance is overwritten    *)
(* (leaderboard.py:94-109, worker/db.py:78-109).                           *)
THEOREM ScoresFollowTheVerdict == Spec => OnlyOverwritingTakes
<1> DEFINE Judged(s) == MarkJudging(s) \/ \E v \in Verdicts : UpdateVerdict(s, v)
           rows == Board(view[1], view[2], subs)
           rowsAfter == Board(view[1], view[2], subs')
           Moves(s, u) ==
             LET old == SolvedOf(rows, u)
                 new == SolvedOf(rowsAfter, u)
             IN \/ new = old
                \/ /\ s.user = u /\ AcceptedOf(u, s.problem) = {}
                   /\ new = <<old[1] + 1, old[2] + PointsOf[s.problem]>>
                \/ /\ s.user = u /\ AcceptedOf(u, s.problem) = {s}
                   /\ new = <<old[1] - 1, old[2] - PointsOf[s.problem]>>
<1>1. ASSUME IInv, view # NoView, NEW s \in subs, NEW u \in Users, Judged(s) PROVE Moves(s, u)
  <2> DEFINE p == s.problem
             A == SolvedIn(view[1], view[2], subs, u)
             B == SolvedIn(view[1], view[2], subs', u)
             X == Accepted(OwnOf(view[1], view[2], subs, u, p))
  <2>1. PICK st \in Verdicts \cup {"PENDING", "JUDGING"} :
          subs' = (subs \ {s}) \cup {[s EXCEPT !.status = st]}
    BY <1>1 DEF MarkJudging, UpdateVerdict, SetStatus
  <2>2. Read(view[1], view[2], subs)
    BY <1>1, ViewIsRead
  <2>3. Read(view[1], view[2], subs')
    <3>1. SubsOK(subs')
      BY <2>1, <2>2, StatusKeepsSubs DEF Read
    <3> QED
      BY <2>2, <3>1 DEF Read
  <2>4. /\ IsFiniteSet(A) /\ A \subseteq view[2]
        /\ SolvedOf(rows, u) = <<Cardinality(A), SumFunctionOnSet(PointsOf, A)>>
    BY <2>2, SolvedOnBoard
  <2>5. SolvedOf(rowsAfter, u) = <<Cardinality(B), SumFunctionOnSet(PointsOf, B)>>
    BY <2>3, SolvedOnBoard
  <2>6. \/ B = A
        \/ s.user = u /\ X = {} /\ p \in view[2] \ A /\ B = A \cup {p}
        \/ s.user = u /\ X = {s} /\ p \in A /\ B = A \ {p}
    <3>1. Turns(view[1], view[2], subs, subs', s, u)
      BY <2>1, <2>2, SolvedAfter
    <3> QED
      BY <3>1 DEF Turns
  <2>7. p \in view[2] => X = AcceptedOf(u, p)
    BY <1>1, CountedIsOwn DEF AcceptedOf, Accepted
  <2>8. \A q \in view[2] : PointsOf[q] \in Int
    BY <2>2, LeaderboardAssumption DEF Read
  <2> HIDE DEF p, A, B, X, rows, rowsAfter
  <2>9. CASE B = A
    BY <2>4, <2>5, <2>9
  <2>10. CASE s.user = u /\ X = {} /\ p \in view[2] \ A /\ B = A \cup {p}
    <3>1. \A q \in A \cup {p} : PointsOf[q] \in Int
      BY <2>4, <2>8, <2>10
    <3>2. SumFunctionOnSet(PointsOf, B) = PointsOf[p] + SumFunctionOnSet(PointsOf, A)
          /\ SumFunctionOnSet(PointsOf, A) \in Int
      BY <2>4, <2>10, <3>1, SumAdd
    <3>3. Cardinality(B) = Cardinality(A) + 1
      BY <2>4, <2>10, FS_AddElement
    <3>4. SolvedOf(rowsAfter, u) = <<SolvedOf(rows, u)[1] + 1, SolvedOf(rows, u)[2] + PointsOf[p]>>
      <4>1. PointsOf[p] \in Int
        BY <3>1
      <4>2. PointsOf[p] + SumFunctionOnSet(PointsOf, A) = SumFunctionOnSet(PointsOf, A) + PointsOf[p]
        BY <3>2, <4>1
      <4> QED
        BY <2>4, <2>5, <3>2, <3>3, <4>2
    <3> QED
      BY <2>7, <2>10, <3>4 DEF p
  <2>11. CASE s.user = u /\ X = {s} /\ p \in A /\ B = A \ {p}
    <3>1. \A q \in A : PointsOf[q] \in Int
      BY <2>4, <2>8
    <3>2. SumFunctionOnSet(PointsOf, A) = PointsOf[p] + SumFunctionOnSet(PointsOf, B)
      BY <2>4, <2>11, <3>1, SumRemove
    <3>3. Cardinality(B) = Cardinality(A) - 1 /\ IsFiniteSet(B)
      BY <2>4, <2>11, FS_RemoveElement
    <3>4. SumFunctionOnSet(PointsOf, B) \in Int
      BY <2>11, <3>1, <3>3, SumType
    <3>5. SolvedOf(rowsAfter, u) = <<SolvedOf(rows, u)[1] - 1, SolvedOf(rows, u)[2] - PointsOf[p]>>
      <4>1. PointsOf[p] \in Int
        BY <2>11, <3>1
      <4>2. SumFunctionOnSet(PointsOf, B) = SumFunctionOnSet(PointsOf, A) - PointsOf[p]
        BY <3>2, <3>4, <4>1
      <4> QED
        BY <2>4, <2>5, <3>3, <4>2
    <3> QED
      BY <2>4, <2>7, <2>11, <3>5 DEF p
  <2> QED
    BY <2>6, <2>9, <2>10, <2>11
<1>2. ASSUME IInv PROVE \A s \in subs : view # NoView /\ Judged(s) => \A u \in Users : Moves(s, u)
  BY <1>1, <1>2
<1> DEFINE Stepwise == \A s \in subs : view # NoView /\ Judged(s) => \A u \in Users : Moves(s, u)
<1>3. ASSUME IInv PROVE [Stepwise]_vars
  BY <1>2, <1>3
<1>4. Spec => [][Stepwise]_vars
  BY <1>3, Invariance, PTL
<1> QED
  BY <1>4 DEF OnlyOverwritingTakes
=============================================================================
