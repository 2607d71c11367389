---------------------- MODULE SubmissionPipelineProofs ----------------------
(***************************************************************************)
(* Proofs about SubmissionPipeline for any number of submissions, workers, *)
(* messages, requeues and faults, and any batch size.                      *)
(***************************************************************************)
EXTENDS SubmissionPipeline, TLAPS

-----------------------------------------------------------------------------
(* The inductive invariant.                                                *)

(* A worker never finds the message in hand again in its batch.            *)
BatchApart == \A w \in Workers : cur[w] \notin batch[w]

(* Under sufficient visibility timeouts a message has one handler, and it  *)
(* stays invisible to the others.                                          *)
SoleHandler ==
  LeaseOutlivesHandling =>
    \A w \in Workers, m \in Messages :
       Holds(w, m) => mstate[m] = "inflight" /\ holder[m] = w

(* The message is on its way before the commit, and there is no row before *)
(* it.                                                                     *)
SentBeforeCommit ==
  \A s \in Subs : /\ req[s] \in {"published", "answered", "committed"}
                       => mstate[<<s, 0>>] # "unsent"
                  /\ status[s] # NoRow => req[s] = "committed"
                  /\ answer[s] = "error" => req[s] = "aborted"

(* Only committed submissions are judged.                                  *)
JudgedWasCommitted ==
  /\ \A w \in Workers : pc[w] \in {"mark", "judge", "update"} => req[SubOf(w)] = "committed"
  /\ \A s \in written : req[s] = "committed"

(* A worker about to acknowledge has handled the message.                  *)
AckedWasHandled ==
  /\ AckedOnlyWhenHandled
  /\ \A w \in Workers : pc[w] = "delete" => SubOf(w) \in written \cup missed

AboutToAck(m) == \E w \in Workers : pc[w] = "delete" /\ cur[w] = m

(* NoOrphan, strengthened: one of the live messages is not about to be     *)
(* acknowledged.                                                           *)
WaitsForWorker ==
  LeaseOutlivesHandling =>
    \A s \in Subs : status[s] \in Unjudged /\ s \notin missed
                     => \E m \in MessagesOf(s) : Live(m) /\ ~ AboutToAck(m)

IInv ==
  /\ TypeOK /\ BatchApart /\ SoleHandler /\ SentBeforeCommit
  /\ JudgedWasCommitted /\ AckedWasHandled /\ WaitsForWorker

-----------------------------------------------------------------------------
(* Messages and submissions.                                               *)

LEMMA MessageFacts ==
  /\ \A s \in Subs : <<s, 0>> \in MessagesOf(s)
  /\ \A s \in Subs : MessagesOf(s) \subseteq Messages
  /\ \A m \in Messages : m[1] \in Subs /\ m \in MessagesOf(m[1])
  /\ \A s \in Subs : \A m \in MessagesOf(s) : m[1] = s
  /\ \A s \in Subs : \A k \in 1..MaxRequeues : <<s, k>> \in MessagesOf(s)
BY BoundAssumption DEF Messages, MessagesOf

(***************************************************************************)
(* Type correctness, one step per action.                                  *)
(***************************************************************************)
LEMMA TypeInit == Init => TypeOK
BY SubsAssumption, BoundAssumption DEF Init, TypeOK, Statuses, Busy

LEMMA TypeNext == TypeOK /\ [Next]_vars => TypeOK'
<1> SUFFICES ASSUME TypeOK, [Next]_vars PROVE TypeOK'
    OBVIOUS
<1> USE DEF TypeOK, InTransaction, Busy
<1>1. ASSUME NEW s \in Subs, CheckProblem(s) PROVE TypeOK'
  BY <1>1 DEF CheckProblem, Abort, queue, worker, history
<1>2. ASSUME NEW s \in Subs, InsertRow(s) PROVE TypeOK'
  BY <1>2 DEF InsertRow, Abort, queue, worker, history
<1>3. ASSUME NEW s \in Subs, StoreSource(s) PROVE TypeOK'
  BY <1>3 DEF StoreSource, queue, worker, history
<1>4. ASSUME NEW s \in Subs, Publish(s) PROVE TypeOK'
  <2>1. <<s, 0>> \in Messages
    BY MessageFacts
  <2>2. mstate' \in [Messages -> {"unsent", "visible", "inflight", "deleted"}]
    BY <1>4, <2>1 DEF Publish, Send, queue
  <2>3. /\ req' \in [Subs -> {"new", "checked", "committed", "aborted"} \cup InTransaction]
        /\ answer' \in [Subs -> {"none", "ok", "error"}]
        /\ UNCHANGED <<broken, keyed, holder>>
    BY <1>4 DEF Publish, Send, Abort, queue
  <2>4. QED
    BY <1>4, <2>2, <2>3 DEF Publish, worker, history
<1>5. ASSUME NEW s \in Subs, Answer(s) PROVE TypeOK'
  BY <1>5 DEF Answer, queue, worker, history
<1>6. ASSUME NEW s \in Subs, Commit(s) PROVE TypeOK'
  BY <1>6 DEF Commit, Statuses, queue, worker, history
<1>7. ASSUME NEW s \in Subs, CommitFails(s) PROVE TypeOK'
  BY <1>7 DEF CommitFails, Abort, queue, worker, history
<1>8. ASSUME NEW s \in Subs, CrashWeb(s) PROVE TypeOK'
  BY <1>8 DEF CrashWeb, Abort, queue, worker, history
<1>9. ASSUME NEW s \in Subs, Requeue(s) PROVE TypeOK'
  BY <1>9, MessageFacts DEF Requeue, Send, web, queue, worker, history
<1>10. ASSUME NEW p \in Problems, DeleteProblem(p) PROVE TypeOK'
  BY <1>10 DEF DeleteProblem, web, queue, worker, history
<1>11. ASSUME FindStuck \/ ScriptFails PROVE TypeOK'
  BY <1>11 DEF FindStuck, ScriptFails, web, queue, worker, history
<1>12. ASSUME NEW w \in Workers, Fetch(w) PROVE TypeOK'
  <2>1. cur[w] \in Messages /\ SubOf(w) \in Subs
    BY <1>12, MessageFacts DEF Fetch, SubOf
  <2>2. QED
    BY <1>12, <2>1 DEF Fetch, web, queue, history
<1>13. ASSUME NEW w \in Workers, MarkJudging(w) PROVE TypeOK'
  BY <1>13 DEF MarkJudging, UpdateRow, Statuses, web, queue, history
<1>14. ASSUME NEW w \in Workers, JudgeSubmission(w) PROVE TypeOK'
  BY <1>14, NoneAssumption DEF JudgeSubmission, web, queue, history
<1>15. ASSUME NEW w \in Workers, UpdateVerdict(w) PROVE TypeOK'
  <2>1. cur[w] \in Messages /\ SubOf(w) \in Subs /\ outcome[w] \in Verdicts
    BY <1>15, MessageFacts DEF UpdateVerdict, SubOf
  <2>2. QED
    BY <1>15, <2>1 DEF UpdateVerdict, UpdateRow, Statuses, web, queue, history
<1>16. ASSUME NEW w \in Workers, NEW rest \in SUBSET Messages, NextMessage(w, rest)
       PROVE  /\ pc' \in [Workers -> Busy \cup {"poll", "down", "stopped"}]
              /\ cur' \in [Workers -> Messages \cup {None}]
              /\ batch' \in [Workers -> SUBSET Messages]
              /\ outcome' \in [Workers -> Verdicts \cup {None}]
              /\ \A v \in Workers : /\ pc'[v] \in Busy <=> cur'[v] # None
                                    /\ batch'[v] # {} => pc'[v] \in Busy
                                    /\ pc'[v] = "update" => outcome'[v] # None
  BY <1>16, NoneAssumption DEF NextMessage
<1>17. ASSUME NEW w \in Workers, Delete(w) PROVE TypeOK'
  BY <1>17, <1>16 DEF Delete, web, history
<1>18. ASSUME NEW w \in Workers, NEW ms \in SUBSET Messages, Receive(w, ms) PROVE TypeOK'
  <2>1. /\ mstate' \in [Messages -> {"unsent", "visible", "inflight", "deleted"}]
        /\ holder' \in [Messages -> Workers \cup {None}]
    BY <1>18 DEF Receive
  <2>2. QED
    BY <1>18, <1>16, <2>1 DEF Receive, web, history
<1>19. ASSUME NEW w \in Workers, JudgeRaises(w) \/ HandlerRaises(w) \/ Crash(w) PROVE TypeOK'
  BY <1>19, BoundAssumption DEF JudgeRaises, HandlerRaises, Crash, Forget, web, queue, history
<1>20. ASSUME NEW w \in Workers, PollEmpty(w) \/ Stop(w) \/ Restart(w) PROVE TypeOK'
  <2>1. CASE PollEmpty(w) BY <2>1 DEF PollEmpty, web, queue, history
  <2>2. CASE Stop(w) BY <2>2, BoundAssumption DEF Stop, web, queue, history
  <2>3. CASE Restart(w) BY <2>3 DEF Restart, web, queue, history
  <2>4. QED BY <1>20, <2>1, <2>2, <2>3
<1>21. ASSUME NEW m \in Messages, VisibilityTimeout(m) PROVE TypeOK'
  BY <1>21 DEF VisibilityTimeout, web, worker, history
<1>22. CASE UNCHANGED vars
  BY <1>22 DEF vars, web, queue, worker, history
<1>23. QED
  BY <1>1, <1>2, <1>3, <1>4, <1>5, <1>6, <1>7, <1>8, <1>9, <1>10, <1>11, <1>12, <1>13,
     <1>14, <1>15, <1>17, <1>18, <1>19, <1>20, <1>21, <1>22
     DEF Next, RequestStep, HandlerStep

(* Every reachable state is well-formed: in particular a worker has a      *)
(* message in hand exactly while it handles one.                           *)
THEOREM TypeCorrect == Spec => []TypeOK
<1>1. Init => TypeOK
  BY TypeInit
<1>2. TypeOK /\ [Next]_vars => TypeOK'
  BY TypeNext
<1>3. QED
  BY <1>1, <1>2, PTL DEF Spec

-----------------------------------------------------------------------------
(* The worker's loop, apart from what each action does to the database and *)
(* to the queue.                                                           *)

(* After NextMessage a worker holds at most what was left, and is at the   *)
(* first step of its handling; the other workers are where they were.      *)
LEMMA NextMessageHolds ==
  ASSUME TypeOK, NEW w \in Workers, NEW rest \in SUBSET Messages, NextMessage(w, rest)
  PROVE  /\ pc'[w] \in {"fetch", "poll", "stopped"}
         /\ cur'[w] \notin batch'[w]
         /\ \A m \in Messages : Holds(w, m)' => m \in rest
         /\ \A v \in Workers \ {w} : /\ pc'[v] = pc[v] /\ cur'[v] = cur[v]
                                     /\ batch'[v] = batch[v]
BY NoneAssumption DEF NextMessage, TypeOK, Holds, Busy

(* After an exception or a crash a worker holds nothing.                   *)
LEMMA ForgetHolds ==
  ASSUME TypeOK, NEW w \in Workers, NEW next \in {"poll", "down", "stopped"}, Forget(w, next)
  PROVE  /\ pc'[w] = next
         /\ cur'[w] \notin batch'[w]
         /\ \A m \in Messages : ~ Holds(w, m)'
         /\ \A v \in Workers \ {w} : /\ pc'[v] = pc[v] /\ cur'[v] = cur[v]
                                     /\ batch'[v] = batch[v]
BY DEF Forget, TypeOK, Holds, Busy

(* The step of a request, of the script, of the deletion of a problem or   *)
(* of a visibility timeout.                                                *)
OutsideStep ==
  \/ \E s \in Subs : RequestStep(s) \/ CrashWeb(s) \/ Requeue(s)
  \/ \E p \in Problems : DeleteProblem(p)
  \/ FindStuck \/ ScriptFails
  \/ \E m \in Messages : VisibilityTimeout(m)

(* A step in which a worker gives up what it holds.                        *)
FailStep(w) == JudgeRaises(w) \/ HandlerRaises(w) \/ Crash(w)

(* A step of a worker's handling before the acknowledgement.               *)
JudgingStep(w) == Fetch(w) \/ MarkJudging(w) \/ JudgeSubmission(w) \/ UpdateVerdict(w)

(* A step between two polls.                                               *)
IdleStep(w) == PollEmpty(w) \/ Stop(w) \/ Restart(w)

LEMMA NextCases ==
  ASSUME [Next]_vars
  PROVE  \/ OutsideStep \/ UNCHANGED vars
         \/ \E w \in Workers : \/ JudgingStep(w) \/ Delete(w) \/ FailStep(w) \/ IdleStep(w)
                               \/ \E ms \in SUBSET Messages : Receive(w, ms)
BY DEF Next, RequestStep, HandlerStep, OutsideStep, FailStep, JudgingStep, IdleStep

LEMMA FailForgets ==
  ASSUME NEW w \in Workers, FailStep(w)
  PROVE  /\ \E next \in {"poll", "down", "stopped"} : Forget(w, next)
         /\ UNCHANGED <<web, problems, status, queue, script, history>>
BY DEF FailStep, JudgeRaises, HandlerRaises, Crash

(* While it judges, a worker holds the same message and batch.             *)
LEMMA JudgingHolds ==
  ASSUME TypeOK, NEW w \in Workers, JudgingStep(w)
  PROVE  /\ UNCHANGED <<cur, batch, web, queue>>
         /\ pc[w] \in Busy /\ pc'[w] \in Busy
         /\ cur[w] \in Messages /\ SubOf(w) \in Subs
         /\ \A v \in Workers \ {w} : pc'[v] = pc[v]
<1>1. pc[w] \in Busy
  BY DEF JudgingStep, Fetch, MarkJudging, JudgeSubmission, UpdateVerdict, Busy
<1>2. cur[w] \in Messages /\ SubOf(w) \in Subs
  BY <1>1, MessageFacts DEF TypeOK, SubOf
<1>3. QED
  BY <1>1, <1>2
     DEF JudgingStep, Fetch, MarkJudging, JudgeSubmission, UpdateVerdict, Busy, TypeOK

(* Between two polls a worker holds nothing, except for a signal.          *)
LEMMA IdleHolds ==
  ASSUME TypeOK, NEW w \in Workers, IdleStep(w)
  PROVE  /\ UNCHANGED <<cur, batch, web, problems, status, queue, script, history>>
         /\ \A v \in Workers : pc'[v] = pc[v] \/ (pc[v] \notin Busy /\ pc'[v] \notin Busy)
BY DEF IdleStep, PollEmpty, Stop, Restart, Busy, TypeOK

(* The other steps leave the workers alone, and a held message too while   *)
(* visibility timeouts are long enough.                                    *)
LEMMA OutsideHolds ==
  ASSUME TypeOK, OutsideStep
  PROVE  /\ UNCHANGED <<worker, holder, history>>
         /\ \A m \in Messages : \/ mstate'[m] = mstate[m]
                                \/ mstate[m] = "unsent" /\ mstate'[m] = "visible"
                                \/ /\ mstate[m] = "inflight" /\ mstate'[m] = "visible"
                                   /\ LeaseOutlivesHandling => \A w \in Workers : ~ Holds(w, m)
<1> DEFINE T == [Messages -> {"unsent", "visible", "inflight", "deleted"}]
<1>0. mstate \in T
  BY DEF TypeOK
<1>1. ASSUME NEW s \in Subs, RequestStep(s) \/ CrashWeb(s)
      PROVE  /\ UNCHANGED <<worker, holder, history>>
             /\ mstate' = mstate \/ Send(<<s, 0>>)
  <2>1. CASE Publish(s)
    BY <2>1 DEF Publish, Send, queue
  <2>2. CASE CheckProblem(s) \/ InsertRow(s) \/ StoreSource(s)
    BY <2>2 DEF CheckProblem, InsertRow, StoreSource, queue
  <2>3. CASE Answer(s) \/ Commit(s) \/ CommitFails(s) \/ CrashWeb(s)
    BY <2>3 DEF Answer, Commit, CommitFails, CrashWeb, queue
  <2>4. QED
    BY <1>1, <2>1, <2>2, <2>3 DEF RequestStep
<1>2. ASSUME NEW s \in Subs, Requeue(s)
      PROVE  /\ UNCHANGED <<worker, holder, history>>
             /\ \E m \in Messages : Send(m)
  BY <1>2, MessageFacts DEF Requeue, Send
<1>3. ASSUME \/ \E p \in Problems : DeleteProblem(p)
             \/ FindStuck \/ ScriptFails
      PROVE  UNCHANGED <<worker, holder, history, mstate>>
  BY <1>3 DEF DeleteProblem, FindStuck, ScriptFails, queue
<1>4. ASSUME NEW k \in Messages, Send(k), NEW m \in Messages
      PROVE  \/ mstate'[m] = mstate[m]
             \/ mstate[m] = "unsent" /\ mstate'[m] = "visible"
  <2>1. mstate[k] = "unsent" /\ mstate' = [mstate EXCEPT ![k] = "visible"]
    BY <1>4 DEF Send
  <2>2. QED
    BY <1>0, <2>1
<1>5. ASSUME NEW k \in Messages, VisibilityTimeout(k)
      PROVE  /\ UNCHANGED <<worker, holder, history>>
             /\ \A m \in Messages : \/ mstate'[m] = mstate[m]
                                    \/ /\ mstate[m] = "inflight" /\ mstate'[m] = "visible"
                                       /\ LeaseOutlivesHandling
                                            => \A w \in Workers : ~ Holds(w, m)
  <2>1. /\ UNCHANGED <<worker, holder, history>>
        /\ mstate[k] = "inflight" /\ mstate' = [mstate EXCEPT ![k] = "visible"]
        /\ LeaseOutlivesHandling => \A w \in Workers : ~ Holds(w, k)
    BY <1>5 DEF VisibilityTimeout
  <2>2. QED
    BY <1>0, <2>1
<1>6. \A s \in Subs : <<s, 0>> \in Messages
  BY MessageFacts
<1>7. CASE \E s \in Subs : RequestStep(s) \/ CrashWeb(s)
  BY <1>1, <1>4, <1>6, <1>7
<1>8. CASE \E s \in Subs : Requeue(s)
  BY <1>2, <1>4, <1>8
<1>9. CASE (\E p \in Problems : DeleteProblem(p)) \/ FindStuck \/ ScriptFails
  BY <1>3, <1>9
<1>10. CASE \E m \in Messages : VisibilityTimeout(m)
  BY <1>5, <1>10
<1>11. QED
  BY <1>7, <1>8, <1>9, <1>10 DEF OutsideStep

LEMMA StutterHolds ==
  ASSUME UNCHANGED vars
  PROVE  UNCHANGED <<web, problems, status, queue, worker, script, faults, history>>
BY DEF vars

-----------------------------------------------------------------------------
(* The parts of the invariant, one lemma each.                             *)

LEMMA ApartNext == TypeOK /\ BatchApart /\ [Next]_vars => BatchApart'
<1> SUFFICES ASSUME TypeOK, BatchApart, [Next]_vars, NEW v \in Workers
             PROVE  cur'[v] \notin batch'[v]
  BY DEF BatchApart
<1>1. cur[v] \notin batch[v]
  BY DEF BatchApart
<1>2. CASE OutsideStep
  BY <1>1, <1>2, OutsideHolds DEF worker
<1>3. CASE UNCHANGED vars
  BY <1>1, <1>3, StutterHolds DEF worker
<1>4. ASSUME NEW w \in Workers, JudgingStep(w) \/ IdleStep(w)
      PROVE  cur'[v] \notin batch'[v]
  BY <1>1, <1>4, JudgingHolds, IdleHolds
<1>5. ASSUME NEW w \in Workers, FailStep(w)
      PROVE  cur'[v] \notin batch'[v]
  BY <1>1, <1>5, FailForgets, ForgetHolds
<1>6. ASSUME NEW w \in Workers, NEW rest \in SUBSET Messages, NextMessage(w, rest)
      PROVE  cur'[v] \notin batch'[v]
  BY <1>1, <1>6, NextMessageHolds
<1>7. ASSUME NEW w \in Workers, Delete(w)
      PROVE  cur'[v] \notin batch'[v]
  BY <1>6, <1>7 DEF Delete, TypeOK
<1>8. ASSUME NEW w \in Workers, NEW ms \in SUBSET Messages, Receive(w, ms)
      PROVE  cur'[v] \notin batch'[v]
  BY <1>6, <1>8 DEF Receive
<1>9. QED
  BY <1>2, <1>3, <1>4, <1>5, <1>7, <1>8, NextCases

(* Holding, and being held, from one state to the next.                    *)
LEMMA SoleHandlerNext ==
  TypeOK /\ BatchApart /\ SoleHandler /\ [Next]_vars => SoleHandler'
<1> SUFFICES ASSUME TypeOK, BatchApart, SoleHandler, [Next]_vars, LeaseOutlivesHandling,
                    NEW v \in Workers, NEW m \in Messages, Holds(v, m)'
             PROVE  mstate'[m] = "inflight" /\ holder'[m] = v
  BY DEF SoleHandler
<1>1. ASSUME NEW w \in Workers, NEW k \in Messages, Holds(w, k)
      PROVE  mstate[k] = "inflight" /\ holder[k] = w
  BY <1>1 DEF SoleHandler
<1>2. CASE OutsideStep
  <2>1. Holds(v, m)
    BY <1>2, OutsideHolds DEF worker, Holds
  <2>2. QED
    BY <1>1, <1>2, <2>1, OutsideHolds
<1>3. CASE UNCHANGED vars
  BY <1>1, <1>3, StutterHolds DEF worker, queue, Holds
<1>4. ASSUME NEW w \in Workers, JudgingStep(w)
      PROVE  mstate'[m] = "inflight" /\ holder'[m] = v
  <2>1. Holds(v, m)
    BY <1>4, JudgingHolds DEF Holds
  <2>2. QED
    BY <1>1, <1>4, <2>1, JudgingHolds DEF queue
<1>5. ASSUME NEW w \in Workers, IdleStep(w)
      PROVE  mstate'[m] = "inflight" /\ holder'[m] = v
  <2>1. Holds(v, m)
    BY <1>5, IdleHolds DEF Holds
  <2>2. QED
    BY <1>1, <1>5, <2>1, IdleHolds DEF queue
<1>6. ASSUME NEW w \in Workers, FailStep(w)
      PROVE  mstate'[m] = "inflight" /\ holder'[m] = v
  <2>1. PICK next \in {"poll", "down", "stopped"} : Forget(w, next)
    BY <1>6, FailForgets
  <2>2. v # w /\ Holds(v, m)
    BY <2>1, ForgetHolds DEF Holds
  <2>3. QED
    BY <1>1, <1>6, <2>2, FailForgets DEF queue
<1>7. ASSUME NEW w \in Workers, Delete(w)
      PROVE  mstate'[m] = "inflight" /\ holder'[m] = v
  <2>1. /\ batch[w] \in SUBSET Messages /\ NextMessage(w, batch[w])
        /\ UNCHANGED holder
        /\ cur[w] \in Messages /\ Holds(w, cur[w])
    BY <1>7 DEF Delete, TypeOK, Holds, Busy
  <2>2. Holds(v, m) /\ (v = w => m \in batch[w])
    BY <1>7, <2>1, NextMessageHolds DEF Holds, Delete, Busy
  <2>3. m # cur[w]
    BY <1>1, <2>1, <2>2 DEF BatchApart
  <2>4. mstate'[m] = mstate[m]
    BY <1>7, <2>3 DEF Delete, TypeOK
  <2>5. QED
    BY <1>1, <2>1, <2>2, <2>4
<1>8. ASSUME NEW w \in Workers, NEW ms \in SUBSET Messages, Receive(w, ms)
      PROVE  mstate'[m] = "inflight" /\ holder'[m] = v
  <2>1. NextMessage(w, ms)
    BY <1>8 DEF Receive
  <2>2. CASE v = w
    BY <1>8, <2>1, <2>2, NextMessageHolds DEF Receive
  <2>3. CASE v # w
    <3>1. Holds(v, m)
      BY <2>1, <2>3, NextMessageHolds DEF Holds
    <3>2. m \notin ms
      BY <1>1, <1>8, <3>1 DEF Receive
    <3>3. QED
      BY <1>1, <1>8, <3>1, <3>2 DEF Receive
  <2>4. QED
    BY <2>2, <2>3
<1>9. QED
  BY <1>2, <1>3, <1>4, <1>5, <1>6, <1>7, <1>8, NextCases

(* What the steps outside the workers do to the rows.                      *)
LEMMA OutsideRows ==
  ASSUME TypeOK, OutsideStep, NEW s \in Subs
  PROVE  /\ req[s] = "committed" => req'[s] = "committed"
         /\ \/ status'[s] \in {status[s], NoRow}
            \/ /\ req[s] = "answered" /\ req'[s] = "committed" /\ status'[s] = "PENDING"
               /\ UNCHANGED mstate
<1>1. ASSUME NEW t \in Subs, CheckProblem(t) \/ InsertRow(t) \/ StoreSource(t)
      PROVE  UNCHANGED status /\ (req[s] = "committed" => req'[s] = "committed")
  BY <1>1 DEF CheckProblem, InsertRow, StoreSource, Abort, TypeOK
<1>2. ASSUME NEW t \in Subs, Publish(t) \/ Answer(t) \/ CommitFails(t) \/ CrashWeb(t)
      PROVE  UNCHANGED status /\ (req[s] = "committed" => req'[s] = "committed")
  BY <1>2 DEF Publish, Answer, CommitFails, CrashWeb, InTransaction, Abort, TypeOK
<1>3. ASSUME NEW t \in Subs, Commit(t)
      PROVE  /\ req[s] = "committed" => req'[s] = "committed"
             /\ \/ status'[s] = status[s]
                \/ /\ req[s] = "answered" /\ req'[s] = "committed"
                   /\ status'[s] = "PENDING" /\ UNCHANGED mstate
  BY <1>3 DEF Commit, TypeOK, queue
<1>4. ASSUME NEW p \in Problems, DeleteProblem(p)
      PROVE  UNCHANGED req /\ status'[s] \in {status[s], NoRow}
  BY <1>4 DEF DeleteProblem, web
<1>5. ASSUME NEW t \in Subs, Requeue(t)
      PROVE  UNCHANGED <<req, status>>
  BY <1>5 DEF Requeue, web
<1>6. ASSUME NEW m \in Messages, VisibilityTimeout(m)
      PROVE  UNCHANGED <<req, status>>
  BY <1>6 DEF VisibilityTimeout, web
<1>7. ASSUME FindStuck \/ ScriptFails
      PROVE  UNCHANGED <<req, status>>
  BY <1>7 DEF FindStuck, ScriptFails, web
<1>8. QED
  BY <1>1, <1>2, <1>3, <1>4, <1>5, <1>6, <1>7 DEF OutsideStep, RequestStep

WorkerStep(w) == \/ JudgingStep(w) \/ Delete(w) \/ FailStep(w) \/ IdleStep(w)
                 \/ \E ms \in SUBSET Messages : Receive(w, ms)

(* What the workers do to the rows, the requests and the history.          *)
LEMMA WorkerRows ==
  ASSUME TypeOK, NEW w \in Workers, WorkerStep(w)
  PROVE  /\ UNCHANGED web
         /\ \A s \in Subs : status'[s] # NoRow => status[s] # NoRow
         /\ \A m \in Messages : mstate'[m] = "unsent" => mstate[m] = "unsent"
         /\ written \subseteq written' /\ missed \subseteq missed'
<1>1. CASE Fetch(w) \/ JudgeSubmission(w)
  BY <1>1 DEF Fetch, JudgeSubmission, queue, history
<1>2. CASE MarkJudging(w) \/ UpdateVerdict(w)
  <2>1. SubOf(w) \in Subs
    BY <1>2, JudgingHolds DEF JudgingStep
  <2>2. QED
    BY <1>2, <2>1 DEF MarkJudging, UpdateVerdict, UpdateRow, TypeOK, queue, history
<1>3. CASE Delete(w)
  BY <1>3 DEF Delete, TypeOK, history
<1>4. ASSUME NEW ms \in SUBSET Messages, Receive(w, ms)
      PROVE  /\ UNCHANGED <<web, status, written, missed>>
             /\ \A m \in Messages : mstate'[m] = "unsent" => mstate[m] = "unsent"
  BY <1>4 DEF Receive, history
<1>5. CASE FailStep(w) \/ IdleStep(w)
  BY <1>5, FailForgets, IdleHolds DEF queue, history
<1>6. QED
  BY <1>1, <1>2, <1>3, <1>4, <1>5 DEF WorkerStep, JudgingStep

LEMMA SentNext == TypeOK /\ SentBeforeCommit /\ [Next]_vars => SentBeforeCommit'
<1> SUFFICES ASSUME TypeOK, SentBeforeCommit, [Next]_vars, NEW s \in Subs
             PROVE  /\ req'[s] \in {"published", "answered", "committed"}
                          => mstate'[<<s, 0>>] # "unsent"
                    /\ status'[s] # NoRow => req'[s] = "committed"
                    /\ answer'[s] = "error" => req'[s] = "aborted"
  BY DEF SentBeforeCommit
<1> DEFINE Good == /\ req'[s] \in {"published", "answered", "committed"}
                          => mstate'[<<s, 0>>] # "unsent"
                   /\ status'[s] # NoRow => req'[s] = "committed"
                   /\ answer'[s] = "error" => req'[s] = "aborted"
<1>1. /\ req[s] \in {"published", "answered", "committed"} => mstate[<<s, 0>>] # "unsent"
      /\ status[s] # NoRow => req[s] = "committed"
      /\ answer[s] = "error" => req[s] = "aborted"
      /\ <<s, 0>> \in Messages
  BY MessageFacts DEF SentBeforeCommit
<1>2. ASSUME NEW t \in Subs, CheckProblem(t) \/ InsertRow(t) \/ StoreSource(t) PROVE Good
  BY <1>1, <1>2 DEF CheckProblem, InsertRow, StoreSource, Abort, TypeOK, queue
<1>3. ASSUME NEW t \in Subs, Publish(t) PROVE Good
  <2>1. mstate'[<<s, 0>>] = "unsent" => mstate[<<s, 0>>] = "unsent"
    BY <1>3, <1>1, OutsideHolds DEF OutsideStep, RequestStep
  <2>2. /\ \/ req' = [req EXCEPT ![t] = "published"] /\ UNCHANGED answer
              /\ mstate' = [mstate EXCEPT ![<<t, 0>>] = "visible"]
           \/ Abort(t, "error")
        /\ UNCHANGED status /\ req[t] = "stored"
    BY <1>3 DEF Publish, Send
  <2>3. <<t, 0>> \in Messages
    BY MessageFacts
  <2>4. QED
    BY <1>1, <2>1, <2>2, <2>3 DEF Abort, TypeOK
<1>4. ASSUME NEW t \in Subs, Answer(t) \/ Commit(t) \/ CommitFails(t) \/ CrashWeb(t) PROVE Good
  BY <1>1, <1>4 DEF Answer, Commit, CommitFails, CrashWeb, InTransaction, Abort, TypeOK, queue
<1>5. ASSUME \/ \E t \in Subs : Requeue(t)
             \/ \E p \in Problems : DeleteProblem(p)
             \/ FindStuck \/ ScriptFails
             \/ \E m \in Messages : VisibilityTimeout(m)
      PROVE  Good
  <2>1. UNCHANGED web /\ OutsideStep /\ status'[s] \in {status[s], NoRow}
    BY <1>5 DEF OutsideStep, Requeue, DeleteProblem, FindStuck, ScriptFails, VisibilityTimeout
  <2>2. QED
    BY <1>1, <2>1, OutsideHolds DEF web
<1>6. ASSUME NEW w \in Workers, WorkerStep(w) PROVE Good
  BY <1>1, <1>6, WorkerRows DEF web
<1>7. CASE UNCHANGED vars
  BY <1>1, <1>7, StutterHolds DEF web, queue
<1>8. QED
  BY <1>2, <1>3, <1>4, <1>5, <1>6, <1>7, NextCases DEF OutsideStep, RequestStep, WorkerStep

(* Where a worker can be after its step, and with which message.           *)
LEMMA WorkerMoves ==
  ASSUME TypeOK, NEW w \in Workers, WorkerStep(w), NEW v \in Workers,
         pc'[v] \in {"mark", "judge", "update", "delete"}
  PROVE  /\ cur'[v] = cur[v] /\ cur[v] \in Messages /\ SubOf(v) \in Subs
         /\ \/ pc'[v] = pc[v] /\ (JudgingStep(w) => v # w)
            \/ v = w /\ JudgingStep(w)
<1>1. CASE JudgingStep(w)
  <2>1. cur'[v] = cur[v] /\ pc[v] \in Busy
    BY <1>1, JudgingHolds DEF Busy
  <2>2. cur[v] \in Messages /\ SubOf(v) \in Subs
    BY <2>1, MessageFacts DEF TypeOK, SubOf
  <2>3. v = w \/ pc'[v] = pc[v]
    BY <1>1, JudgingHolds
  <2>4. QED
    BY <1>1, <2>1, <2>2, <2>3
<1>2. CASE ~ JudgingStep(w)
  <2>1. pc'[v] = pc[v] /\ cur'[v] = cur[v]
    <3>1. ASSUME NEW rest \in SUBSET Messages, NextMessage(w, rest)
          PROVE  pc'[v] = pc[v] /\ cur'[v] = cur[v]
      BY <3>1, NextMessageHolds
    <3>2. CASE Delete(w)
      BY <3>1, <3>2 DEF Delete, TypeOK
    <3>3. CASE \E ms \in SUBSET Messages : Receive(w, ms)
      BY <3>1, <3>3 DEF Receive
    <3>4. CASE FailStep(w)
      BY <3>4, FailForgets, ForgetHolds
    <3>5. CASE IdleStep(w)
      BY <3>5, IdleHolds DEF Busy
    <3>6. QED
      BY <1>2, <3>2, <3>3, <3>4, <3>5 DEF WorkerStep
  <2>2. cur[v] \in Messages /\ SubOf(v) \in Subs
    BY <2>1, MessageFacts DEF TypeOK, SubOf, Busy
  <2>3. QED
    BY <1>2, <2>1, <2>2
<1>3. QED
  BY <1>1, <1>2

LEMMA JudgedNext ==
  TypeOK /\ SentBeforeCommit /\ JudgedWasCommitted /\ [Next]_vars => JudgedWasCommitted'
<1> SUFFICES ASSUME TypeOK, SentBeforeCommit, JudgedWasCommitted, [Next]_vars
             PROVE  JudgedWasCommitted'
  OBVIOUS
<1>1. CASE OutsideStep
  <2>1. UNCHANGED <<pc, cur, written>>
    BY <1>1, OutsideHolds DEF worker, history
  <2>2. \A w \in Workers : pc[w] \in {"mark", "judge", "update"} => SubOf(w) \in Subs
    BY MessageFacts DEF TypeOK, SubOf, Busy
  <2>3. \A s \in Subs : req[s] = "committed" => req'[s] = "committed"
    BY <1>1, OutsideRows
  <2>4. QED
    BY <2>1, <2>2, <2>3 DEF JudgedWasCommitted, SubOf, TypeOK
<1>2. CASE UNCHANGED vars
  BY <1>2 DEF vars, web, worker, history, JudgedWasCommitted, SubOf
<1>3. ASSUME NEW w \in Workers, WorkerStep(w)
      PROVE  JudgedWasCommitted'
  <2>1. UNCHANGED req
    BY <1>3, WorkerRows DEF web
  <2>2. ASSUME NEW v \in Workers, pc'[v] \in {"mark", "judge", "update"}
        PROVE  req'[SubOf(v)'] = "committed"
    <3>1. SubOf(v)' = SubOf(v) /\ SubOf(v) \in Subs
      BY <1>3, <2>2, WorkerMoves DEF SubOf
    <3>2. CASE pc[v] \in {"mark", "judge", "update"}
      BY <2>1, <3>1, <3>2 DEF JudgedWasCommitted
    <3>3. CASE pc[v] \notin {"mark", "judge", "update"}
      <4>1. v = w /\ JudgingStep(w)
        BY <1>3, <2>2, <3>3, WorkerMoves
      <4>2. status[SubOf(v)] # NoRow
        BY <2>2, <3>3, <4>1
           DEF JudgingStep, Fetch, MarkJudging, JudgeSubmission, UpdateVerdict, TypeOK
      <4>3. QED
        BY <2>1, <3>1, <4>2 DEF SentBeforeCommit
    <3>4. QED
      BY <3>2, <3>3
  <2>3. ASSUME NEW s \in written'
        PROVE  req'[s] = "committed"
    <3>1. s \in written \/ (UpdateVerdict(w) /\ s = SubOf(w))
      <4>1. CASE JudgingStep(w)
        BY <2>3, <4>1
           DEF JudgingStep, Fetch, MarkJudging, JudgeSubmission, UpdateVerdict, history
      <4>2. CASE FailStep(w) \/ IdleStep(w)
        BY <2>3, <4>2, FailForgets, IdleHolds DEF history
      <4>3. CASE Delete(w) \/ \E ms \in SUBSET Messages : Receive(w, ms)
        BY <2>3, <4>3 DEF Delete, Receive, history
      <4>4. QED
        BY <1>3, <4>1, <4>2, <4>3 DEF WorkerStep
    <3>2. QED
      BY <2>1, <3>1 DEF JudgedWasCommitted, UpdateVerdict
  <2>4. QED
    BY <2>2, <2>3 DEF JudgedWasCommitted
<1>4. QED
  BY <1>1, <1>2, <1>3, NextCases DEF WorkerStep

LEMMA AckedNext == TypeOK /\ AckedWasHandled /\ [Next]_vars => AckedWasHandled'
<1> SUFFICES ASSUME TypeOK, AckedWasHandled, [Next]_vars
             PROVE  AckedWasHandled'
  OBVIOUS
<1> USE DEF AckedOnlyWhenHandled
<1>1. CASE OutsideStep
  <2>1. UNCHANGED <<pc, cur, written, missed>>
    BY <1>1, OutsideHolds DEF worker, history
  <2>2. \A m \in Messages : mstate'[m] = "deleted" => mstate[m] = "deleted"
    BY <1>1, OutsideHolds
  <2>3. QED
    BY <2>1, <2>2 DEF AckedWasHandled, SubOf
<1>2. CASE UNCHANGED vars
  BY <1>2 DEF vars, queue, worker, history, AckedWasHandled, SubOf
<1>3. ASSUME NEW w \in Workers, WorkerStep(w)
      PROVE  AckedWasHandled'
  <2>1. written \subseteq written' /\ missed \subseteq missed'
    BY <1>3, WorkerRows
  <2>2. ASSUME NEW m \in Messages, mstate'[m] = "deleted", mstate[m] # "deleted"
        PROVE  m[1] \in written \cup missed
    <3>1. Delete(w)
      <4>1. CASE JudgingStep(w) \/ FailStep(w) \/ IdleStep(w)
        BY <2>2, <4>1, JudgingHolds, FailForgets, IdleHolds DEF queue
      <4>2. CASE \E ms \in SUBSET Messages : Receive(w, ms)
        BY <2>2, <4>2 DEF Receive
      <4>3. QED
        BY <1>3, <4>1, <4>2 DEF WorkerStep
    <3>2. m = cur[w] /\ pc[w] = "delete"
      BY <2>2, <3>1 DEF Delete, TypeOK
    <3>3. QED
      BY <3>2 DEF AckedWasHandled, SubOf
  <2>3. ASSUME NEW v \in Workers, pc'[v] = "delete"
        PROVE  SubOf(v)' \in written' \cup missed'
    <3>1. SubOf(v)' = SubOf(v)
      BY <1>3, <2>3, WorkerMoves DEF SubOf
    <3>2. CASE pc[v] = "delete"
      BY <2>1, <3>1, <3>2 DEF AckedWasHandled
    <3>3. CASE pc[v] # "delete"
      <4>1. v = w /\ JudgingStep(w)
        BY <1>3, <2>3, <3>3, WorkerMoves
      <4>2. QED
        BY <2>3, <3>1, <4>1
           DEF JudgingStep, Fetch, MarkJudging, JudgeSubmission, UpdateVerdict, TypeOK
    <3>4. QED
      BY <3>2, <3>3
  <2>4. QED
    BY <2>1, <2>2, <2>3 DEF AckedWasHandled
<1>4. QED
  BY <1>1, <1>2, <1>3, NextCases DEF WorkerStep

LEMMA WaitsNext == IInv /\ [Next]_vars => WaitsForWorker'
<1> SUFFICES ASSUME IInv, [Next]_vars, LeaseOutlivesHandling, NEW s \in Subs,
                    status'[s] \in Unjudged, s \notin missed'
             PROVE  \E m \in MessagesOf(s) : Live(m)' /\ ~ AboutToAck(m)'
  BY DEF WaitsForWorker
<1> USE DEF Live
<1>0. /\ TypeOK /\ BatchApart /\ SoleHandler /\ SentBeforeCommit
      /\ JudgedWasCommitted /\ AckedWasHandled
  BY DEF IInv
<1>1. ASSUME status[s] \in Unjudged, s \notin missed
      PROVE  \E m \in MessagesOf(s) : Live(m) /\ ~ AboutToAck(m)
  BY <1>1 DEF IInv, WaitsForWorker
<1>2. \A m \in MessagesOf(s) : m \in Messages /\ m[1] = s
  BY MessageFacts
<1>3. CASE OutsideStep
  <2>1. UNCHANGED <<pc, cur, written, missed>>
    BY <1>0, <1>3, OutsideHolds DEF worker, history
  <2>2. \A m \in Messages : /\ AboutToAck(m)' <=> AboutToAck(m)
                            /\ Live(m) => Live(m)'
    BY <1>0, <1>3, <2>1, OutsideHolds DEF AboutToAck
  <2>3. CASE status[s] \in Unjudged
    BY <1>1, <1>2, <2>1, <2>2, <2>3
  <2>4. CASE status[s] \notin Unjudged
    <3>1. req[s] = "answered" /\ UNCHANGED mstate
      BY <1>0, <1>3, <2>4, OutsideRows DEF Unjudged, NoRow
    <3>2. <<s, 0>> \in MessagesOf(s) /\ <<s, 0>> \in Messages
      BY MessageFacts
    <3>3. s \notin written \cup missed
      BY <1>0, <2>1, <3>1 DEF JudgedWasCommitted
    <3>4. mstate[<<s, 0>>] # "unsent" /\ mstate[<<s, 0>>] # "deleted"
      BY <1>0, <1>2, <3>1, <3>2, <3>3
         DEF SentBeforeCommit, AckedWasHandled, AckedOnlyWhenHandled
    <3>5. ~ AboutToAck(<<s, 0>>)
      BY <1>0, <1>2, <3>2, <3>3 DEF AboutToAck, AckedWasHandled, SubOf
    <3>6. Live(<<s, 0>>)
      BY <1>0, <3>2, <3>4 DEF TypeOK
    <3>7. QED
      BY <2>2, <3>2, <3>5, <3>6
  <2>5. QED
    BY <2>3, <2>4
<1>4. CASE UNCHANGED vars
  BY <1>1, <1>4 DEF vars, queue, worker, history, AboutToAck
<1>5. ASSUME NEW w \in Workers, JudgingStep(w)
      PROVE  \E m \in MessagesOf(s) : Live(m)' /\ ~ AboutToAck(m)'
  <2>1. /\ UNCHANGED <<cur, mstate>> /\ cur[w] \in Messages
        /\ \A v \in Workers \ {w} : pc'[v] = pc[v]
        /\ cur[w] \in MessagesOf(SubOf(w)) /\ SubOf(w) \in Subs
    BY <1>0, <1>5, JudgingHolds, MessageFacts DEF queue, SubOf
  <2>2. s \notin missed
    BY <1>0, <1>5, WorkerRows DEF WorkerStep
  <2>3. CASE MarkJudging(w) /\ s = SubOf(w)
    <3>1. pc[w] = "mark" /\ pc'[w] = "judge"
      BY <1>0, <2>3 DEF MarkJudging, TypeOK
    <3>2. Holds(w, cur[w])
      BY <3>1 DEF Holds, Busy
    <3>3. mstate[cur[w]] = "inflight" /\ holder[cur[w]] = w
      BY <1>0, <2>1, <3>2 DEF SoleHandler
    <3>4. \A v \in Workers : pc[v] = "delete" /\ cur[v] = cur[w] => v = w
      BY <1>0, <2>1, <3>3 DEF SoleHandler, Holds, Busy
    <3>5. ~ AboutToAck(cur[w])'
      BY <2>1, <3>1, <3>4 DEF AboutToAck
    <3>6. QED
      BY <2>1, <2>3, <3>3, <3>5
  <2>4. CASE ~ (MarkJudging(w) /\ s = SubOf(w))
    <3>1. status[s] \in Unjudged /\ (UpdateVerdict(w) => s # SubOf(w))
      BY <1>0, <1>5, <2>1, <2>4, SubsAssumption, NoneAssumption
         DEF JudgingStep, Fetch, MarkJudging, JudgeSubmission, UpdateVerdict, UpdateRow,
             Unjudged, NoRow, TypeOK, Statuses
    <3>2. PICK m \in MessagesOf(s) : Live(m) /\ ~ AboutToAck(m)
      BY <1>1, <2>2, <3>1
    <3>3. pc'[w] = "delete" => cur[w] # m
      <4>1. pc'[w] = "delete" => \/ UpdateVerdict(w)
                                 \/ SubOf(w) \in missed'
        BY <1>0, <1>5 DEF JudgingStep, Fetch, MarkJudging, JudgeSubmission, TypeOK
      <4>2. QED
        BY <1>2, <3>1, <4>1 DEF SubOf
    <3>4. QED
      BY <2>1, <3>2, <3>3 DEF AboutToAck
  <2>5. QED
    BY <2>3, <2>4
<1>6. ASSUME NEW w \in Workers, FailStep(w) \/ IdleStep(w)
      PROVE  \E m \in MessagesOf(s) : Live(m)' /\ ~ AboutToAck(m)'
  <2>1. UNCHANGED <<status, mstate, missed>>
    BY <1>0, <1>6, FailForgets, IdleHolds DEF queue, history
  <2>2. PICK m \in MessagesOf(s) : Live(m) /\ ~ AboutToAck(m)
    BY <1>1, <2>1
  <2>3. \A v \in Workers : pc'[v] = "delete" => pc[v] = "delete" /\ cur'[v] = cur[v]
    BY <1>0, <1>6, FailForgets, ForgetHolds, IdleHolds DEF Busy
  <2>4. QED
    BY <2>1, <2>2, <2>3 DEF AboutToAck
<1>7. ASSUME NEW w \in Workers, NEW rest \in SUBSET Messages, NextMessage(w, rest),
             NEW m \in Messages, ~ AboutToAck(m)
      PROVE  ~ AboutToAck(m)'
  BY <1>0, <1>7, NextMessageHolds DEF AboutToAck
<1>8. ASSUME NEW w \in Workers, Delete(w)
      PROVE  \E m \in MessagesOf(s) : Live(m)' /\ ~ AboutToAck(m)'
  <2>1. /\ UNCHANGED <<status, missed>> /\ NextMessage(w, batch[w]) /\ pc[w] = "delete"
        /\ batch[w] \in SUBSET Messages
    BY <1>0, <1>8 DEF Delete, history, TypeOK
  <2>2. PICK m \in MessagesOf(s) : Live(m) /\ ~ AboutToAck(m)
    BY <1>1, <2>1
  <2>3. m # cur[w]
    BY <2>1, <2>2 DEF AboutToAck
  <2>4. Live(m)'
    BY <1>0, <1>2, <1>8, <2>2, <2>3 DEF Delete, TypeOK
  <2>5. ~ AboutToAck(m)'
    BY <1>2, <1>7, <2>1, <2>2
  <2>6. QED
    BY <2>4, <2>5
<1>9. ASSUME NEW w \in Workers, NEW ms \in SUBSET Messages, Receive(w, ms)
      PROVE  \E m \in MessagesOf(s) : Live(m)' /\ ~ AboutToAck(m)'
  <2>1. UNCHANGED <<status, missed>> /\ NextMessage(w, ms)
    BY <1>9 DEF Receive, history
  <2>2. PICK m \in MessagesOf(s) : Live(m) /\ ~ AboutToAck(m)
    BY <1>1, <2>1
  <2>3. Live(m)'
    BY <1>2, <1>9, <2>2 DEF Receive
  <2>4. ~ AboutToAck(m)'
    BY <1>2, <1>7, <2>1, <2>2
  <2>5. QED
    BY <2>3, <2>4
<1>10. QED
  BY <1>3, <1>4, <1>5, <1>6, <1>8, <1>9, NextCases

-----------------------------------------------------------------------------
(* The theorems.                                                           *)

LEMMA Invariance == Spec => []IInv
<1>1. Init => IInv
  <2>1. ASSUME Init PROVE TypeOK
    BY <2>1, TypeInit
  <2>2. ASSUME Init PROVE BatchApart /\ SoleHandler
    BY <2>2 DEF Init, BatchApart, SoleHandler, Holds, Busy
  <2>3. ASSUME Init PROVE SentBeforeCommit /\ JudgedWasCommitted
    BY <2>3 DEF Init, SentBeforeCommit, JudgedWasCommitted
  <2>4. ASSUME Init PROVE AckedWasHandled /\ WaitsForWorker
    BY <2>4 DEF Init, AckedWasHandled, AckedOnlyWhenHandled, WaitsForWorker, Unjudged, NoRow
  <2>5. QED
    BY <2>1, <2>2, <2>3, <2>4 DEF IInv
<1>2. IInv /\ [Next]_vars => IInv'
  BY TypeNext, ApartNext, SoleHandlerNext, SentNext, JudgedNext, AckedNext, WaitsNext DEF IInv
<1>3. QED
  BY <1>1, <1>2, PTL DEF Spec

(* No submission that waits for its verdict is without a message, unless a *)
(* worker looked for it before the commit: for any number of workers,      *)
(* requeues, crashes, exceptions and stop signals, and any batch size.     *)
THEOREM NoSubmissionOrphaned == Spec => []NoOrphan
<1>1. IInv => NoOrphan
  BY DEF IInv, WaitsForWorker, NoOrphan
<1>2. QED
  BY <1>1, Invariance, PTL

(* Messages leave the queue only when they were handled, whether or not    *)
(* visibility timeouts are long enough.                                    *)
THEOREM AcknowledgedWasHandled == Spec => []AckedOnlyWhenHandled
<1>1. IInv => AckedOnlyWhenHandled
  BY DEF IInv, AckedWasHandled
<1>2. QED
  BY <1>1, Invariance, PTL

(* A client that got an error never has a row.                             *)
THEOREM ErrorMeansNoRow == Spec => []ErrorAnswerHasNoRow
<1>1. IInv => ErrorAnswerHasNoRow
  BY DEF IInv, SentBeforeCommit, ErrorAnswerHasNoRow
<1>2. QED
  BY <1>1, Invariance, PTL

-----------------------------------------------------------------------------
(* A key is only ever kept together with its object, and no object is      *)
(* removed.                                                                *)
KeysNameObjects == HasBucket => keyed \subseteq objects

(* Whichever step of the upload fails, a committed source_key names an     *)
(* object (service.py:47-55).                                              *)
THEOREM StoredKeyIsReadable == Spec => []SourceKeyHasObject
<1>1. Init => KeysNameObjects
  BY DEF Init, KeysNameObjects
<1>2. KeysNameObjects /\ [Next]_vars => KeysNameObjects'
  <2> SUFFICES ASSUME KeysNameObjects, [Next]_vars PROVE KeysNameObjects'
    OBVIOUS
  <2>1. ASSUME NEW s \in Subs, StoreSource(s) PROVE KeysNameObjects'
    BY <2>1 DEF StoreSource, KeysNameObjects
  <2>2. ASSUME NEW s \in Subs,
               \/ CheckProblem(s) \/ InsertRow(s) \/ Publish(s) \/ Answer(s)
               \/ Commit(s) \/ CommitFails(s) \/ CrashWeb(s) \/ Requeue(s)
        PROVE  UNCHANGED <<keyed, objects>>
    BY <2>2 DEF CheckProblem, InsertRow, Publish, Answer, Commit, CommitFails, CrashWeb,
                Requeue, Abort, web
  <2>3. ASSUME \/ FindStuck \/ ScriptFails
               \/ \E p \in Problems : DeleteProblem(p)
               \/ \E m \in Messages : VisibilityTimeout(m)
        PROVE  UNCHANGED <<keyed, objects>>
    BY <2>3 DEF FindStuck, ScriptFails, DeleteProblem, VisibilityTimeout, web
  <2>4. ASSUME NEW w \in Workers,
               \/ HandlerStep(w) \/ PollEmpty(w) \/ HandlerRaises(w)
               \/ Stop(w) \/ Crash(w) \/ Restart(w)
               \/ \E ms \in SUBSET Messages : Receive(w, ms)
        PROVE  UNCHANGED <<keyed, objects>>
    BY <2>4 DEF HandlerStep, Fetch, MarkJudging, JudgeSubmission, UpdateVerdict, Delete,
                JudgeRaises, PollEmpty, HandlerRaises, Stop, Crash, Restart, Receive, web
  <2>5. CASE UNCHANGED vars
    BY <2>5 DEF vars, web, KeysNameObjects
  <2>6. QED
    BY <2>1, <2>2, <2>3, <2>4, <2>5 DEF Next, RequestStep, KeysNameObjects
<1>3. KeysNameObjects => SourceKeyHasObject
  BY DEF KeysNameObjects, SourceKeyHasObject
<1>4. QED
  BY <1>1, <1>2, <1>3, PTL DEF Spec

(* No step that stops a worker leaves a received message behind, unless it *)
(* is an exception or a kill (main.py:74-91).                              *)
THEOREM StopAbandonsNothing == Spec => StopIsGraceful
<1> DEFINE Graceful ==
      \A w \in Workers :
        pc[w] # "stopped" /\ pc'[w] = "stopped" /\ faults' = faults
          => batch[w] = {} \/ SubOf(w) \in PoisonSubs
<1>1. TypeOK /\ [Next]_vars => Graceful
  <2> SUFFICES ASSUME TypeOK, [Next]_vars, NEW w \in Workers,
                      pc[w] # "stopped", pc'[w] = "stopped", faults' = faults
               PROVE  batch[w] = {} \/ SubOf(w) \in PoisonSubs
    OBVIOUS
  <2>1. \E v \in Workers : \/ HandlerStep(v) \/ PollEmpty(v) \/ HandlerRaises(v)
                           \/ Stop(v) \/ Crash(v) \/ Restart(v)
                           \/ \E ms \in SUBSET Messages : Receive(v, ms)
    <3>1. ASSUME NEW s \in Subs, RequestStep(s) \/ CrashWeb(s) \/ Requeue(s) PROVE pc' = pc
      BY <3>1 DEF RequestStep, CheckProblem, InsertRow, StoreSource, Publish, Answer, Commit,
                  CommitFails, CrashWeb, Requeue, worker
    <3>2. ASSUME \/ FindStuck \/ ScriptFails
                 \/ \E p \in Problems : DeleteProblem(p)
                 \/ \E m \in Messages : VisibilityTimeout(m)
          PROVE  pc' = pc
      BY <3>2 DEF FindStuck, ScriptFails, DeleteProblem, VisibilityTimeout, worker
    <3>3. UNCHANGED vars => pc' = pc
      BY DEF vars, worker
    <3>4. QED
      BY <3>1, <3>2, <3>3 DEF Next
  <2>2. PICK v \in Workers : \/ HandlerStep(v) \/ PollEmpty(v) \/ HandlerRaises(v)
                             \/ Stop(v) \/ Crash(v) \/ Restart(v)
                             \/ \E ms \in SUBSET Messages : Receive(v, ms)
    BY <2>1
  <2>3. CASE \/ Fetch(v) \/ MarkJudging(v) \/ JudgeSubmission(v) \/ UpdateVerdict(v)
             \/ Stop(v) \/ Restart(v)
    BY <2>3 DEF Fetch, MarkJudging, JudgeSubmission, UpdateVerdict, Stop, Restart, TypeOK
  <2>4. CASE HandlerRaises(v) \/ Crash(v)
    BY <2>4 DEF HandlerRaises, Crash, TypeOK
  <2>5. CASE PollEmpty(v)
    BY <2>5 DEF PollEmpty, TypeOK, Busy
  <2>6. CASE JudgeRaises(v)
    BY <2>6 DEF JudgeRaises, Forget, TypeOK
  <2>7. CASE Delete(v)
    BY <2>7 DEF Delete, NextMessage, TypeOK
  <2>8. CASE \E ms \in SUBSET Messages : Receive(v, ms)
    BY <2>8 DEF Receive, NextMessage, TypeOK
  <2>9. QED
    BY <2>2, <2>3, <2>4, <2>5, <2>6, <2>7, <2>8 DEF HandlerStep
<1>2. QED
  BY <1>1, TypeCorrect, PTL DEF Spec, StopIsGraceful

-----------------------------------------------------------------------------
(* SubmissionPipeline implements SubmissionLifecycle: whatever requests,   *)
(* workers, the requeue script and deletions of problems do in whatever    *)
(* order, a row of the submissions table lives the abstract life.          *)

(* Once a worker has marked a row as JUDGING, the row is never PENDING     *)
(* under its hands: no requeue and no other worker puts it back.           *)
MarkedBeforeJudged ==
  \A w \in Workers : pc[w] \in {"judge", "update"} => status[SubOf(w)] # "PENDING"

LInv == IInv /\ MarkedBeforeJudged

LEMMA MarkedNext == LInv /\ [Next]_vars => MarkedBeforeJudged'
<1> SUFFICES ASSUME IInv, MarkedBeforeJudged, [Next]_vars,
                    NEW v \in Workers, pc'[v] \in {"judge", "update"}
             PROVE  status'[SubOf(v)'] # "PENDING"
  BY DEF LInv, MarkedBeforeJudged
<1>0. TypeOK /\ JudgedWasCommitted
  BY DEF IInv
<1>1. pc[v] \in {"judge", "update"} =>
        req[SubOf(v)] = "committed" /\ status[SubOf(v)] # "PENDING" /\ SubOf(v) \in Subs
  BY <1>0, MessageFacts DEF JudgedWasCommitted, MarkedBeforeJudged, SubOf, TypeOK, Busy
<1>2. CASE OutsideStep
  <2>1. UNCHANGED <<pc, cur>>
    BY <1>0, <1>2, OutsideHolds DEF worker
  <2>2. req[SubOf(v)] = "committed" /\ status[SubOf(v)] # "PENDING" /\ SubOf(v) \in Subs
    BY <1>1, <2>1
  <2>3. status'[SubOf(v)] \in {status[SubOf(v)], NoRow}
    BY <1>0, <1>2, <2>2, OutsideRows
  <2>4. QED
    BY <2>1, <2>2, <2>3 DEF SubOf, NoRow
<1>3. CASE UNCHANGED vars
  BY <1>1, <1>3 DEF vars, worker, SubOf
<1>4. ASSUME NEW w \in Workers, WorkerStep(w)
      PROVE  status'[SubOf(v)'] # "PENDING"
  <2>1. SubOf(v)' = SubOf(v) /\ SubOf(v) \in Subs
    BY <1>0, <1>4, WorkerMoves DEF SubOf
  <2>2. CASE MarkJudging(w)
    <3>1. SubOf(w) \in Subs
      BY <1>0, <2>2, JudgingHolds DEF JudgingStep
    <3>2. v = w \/ pc[v] \in {"judge", "update"}
      BY <1>0, <2>2 DEF MarkJudging, TypeOK
    <3>3. QED
      BY <1>0, <1>1, <2>1, <2>2, <3>1, <3>2 DEF MarkJudging, UpdateRow, TypeOK, NoRow
  <2>3. CASE UpdateVerdict(w)
    <3>1. SubOf(w) \in Subs /\ outcome[w] \in Verdicts
      BY <1>0, <2>3, JudgingHolds DEF JudgingStep, UpdateVerdict, TypeOK
    <3>2. pc[v] \in {"judge", "update"}
      BY <1>0, <2>3 DEF UpdateVerdict, TypeOK
    <3>3. outcome[w] # "PENDING"
      BY <3>1, SubsAssumption
    <3>4. QED
      BY <1>0, <1>1, <2>1, <2>3, <3>1, <3>2, <3>3 DEF UpdateVerdict, UpdateRow, TypeOK, NoRow
  <2>4. CASE ~ MarkJudging(w) /\ ~ UpdateVerdict(w)
    <3>1. UNCHANGED status
      BY <1>0, <1>4, <2>4, FailForgets, IdleHolds
         DEF WorkerStep, JudgingStep, Fetch, JudgeSubmission, Delete, Receive
    <3>2. pc[v] \in {"judge", "update"}
      BY <1>0, <1>4, <2>4, WorkerMoves DEF JudgingStep, Fetch, JudgeSubmission, TypeOK
    <3>3. QED
      BY <1>1, <2>1, <3>1, <3>2
  <2>5. QED
    BY <2>2, <2>3, <2>4
<1>5. QED
  BY <1>2, <1>3, <1>4, NextCases DEF WorkerStep

-----------------------------------------------------------------------------
(* The refinement mapping, case by case.                                   *)

LEMMA LifeOfRow ==
  ASSUME NEW s \in Subs
  PROVE  life[s] = IF status[s] # NoRow THEN status[s]
                   ELSE IF req[s] = "committed" THEN "REMOVED"
                   ELSE IF req[s] = "aborted" THEN "REJECTED"
                   ELSE "ABSENT"
BY DEF life

LEMMA LifeOfRowNext ==
  ASSUME NEW s \in Subs
  PROVE  life'[s] = IF status'[s] # NoRow THEN status'[s]
                    ELSE IF req'[s] = "committed" THEN "REMOVED"
                    ELSE IF req'[s] = "aborted" THEN "REJECTED"
                    ELSE "ABSENT"
BY DEF life

LEMMA LifeIsFunction ==
  /\ DOMAIN life = Subs /\ life = [s \in Subs |-> life[s]]
  /\ DOMAIN life' = Subs /\ life' = [s \in Subs |-> life'[s]]
BY DEF life

(* A step that changes the life of one row only.                           *)
LEMMA OneLife ==
  ASSUME NEW s \in Subs, NEW to, life'[s] = to,
         \A t \in Subs \ {s} : life'[t] = life[t]
  PROVE  life' = [life EXCEPT ![s] = to]
BY LifeIsFunction

LEMMA SameLife ==
  ASSUME \A s \in Subs : life'[s] = life[s]
  PROVE  UNCHANGED life
BY LifeIsFunction

LEMMA AbortRejects ==
  ASSUME TypeOK, SentBeforeCommit, NEW s \in Subs, req[s] \notin {"committed", "aborted"},
         req' = [req EXCEPT ![s] = "aborted"], UNCHANGED status
  PROVE  Lifecycle!Reject(s)
<1>1. status[s] = NoRow
  BY DEF SentBeforeCommit
<1>2. life[s] = "ABSENT" /\ life'[s] = "REJECTED"
  BY <1>1, LifeOfRow, LifeOfRowNext DEF TypeOK
<1>3. \A t \in Subs \ {s} : life'[t] = life[t]
  BY LifeOfRow, LifeOfRowNext DEF TypeOK
<1>4. QED
  BY <1>2, <1>3, OneLife DEF Lifecycle!Reject, Lifecycle!Become

(***************************************************************************)
(* Every step of the pipeline is a step of the lifecycle, or leaves every  *)
(* row's life as it is.                                                    *)
(***************************************************************************)

(* A request that neither ends nor commits changes no life.                *)
LEMMA RequestKeepsLife ==
  ASSUME TypeOK, NEW s \in Subs, NEW to \in {"checked"} \cup InTransaction,
         req[s] \notin {"committed", "aborted"},
         req' = [req EXCEPT ![s] = to], UNCHANGED status
  PROVE  UNCHANGED life
<1>1. ASSUME NEW t \in Subs PROVE life'[t] = life[t]
  BY LifeOfRow, LifeOfRowNext DEF TypeOK, InTransaction
<1>2. QED
  BY <1>1, SameLife

LEMMA OpenRequestStep ==
  ASSUME NEW s \in Subs,
         \/ CheckProblem(s) \/ InsertRow(s) \/ StoreSource(s) \/ Publish(s)
         \/ Answer(s) \/ CommitFails(s) \/ CrashWeb(s)
  PROVE  /\ UNCHANGED status
         /\ req[s] \notin {"committed", "aborted"}
         /\ \E to \in {"checked", "aborted"} \cup InTransaction : req' = [req EXCEPT ![s] = to]
<1> USE DEF InTransaction, Abort
<1>1. CASE CheckProblem(s) \/ InsertRow(s)
  BY <1>1 DEF CheckProblem, InsertRow
<1>2. CASE StoreSource(s) \/ Publish(s)
  BY <1>2 DEF StoreSource, Publish
<1>3. CASE Answer(s) \/ CommitFails(s) \/ CrashWeb(s)
  BY <1>3 DEF Answer, CommitFails, CrashWeb
<1>4. QED
  BY <1>1, <1>2, <1>3

LEMMA CommitSaves ==
  ASSUME TypeOK, SentBeforeCommit, NEW s \in Subs, Commit(s)
  PROVE  Lifecycle!Save(s)
<1>1. status[s] = NoRow /\ req[s] = "answered"
  BY DEF SentBeforeCommit, Commit
<1>2. life[s] = "ABSENT" /\ life'[s] = "PENDING"
  BY <1>1, LifeOfRow, LifeOfRowNext DEF TypeOK, Commit, NoRow
<1>3. \A t \in Subs \ {s} : life'[t] = life[t]
  BY LifeOfRow, LifeOfRowNext DEF TypeOK, Commit
<1>4. QED
  BY <1>2, <1>3, OneLife DEF Lifecycle!Save, Lifecycle!Become

(* The cascade takes exactly the rows of the problem.                      *)
LEMMA DeleteRemoves ==
  ASSUME TypeOK, SentBeforeCommit, NEW p \in Problems, DeleteProblem(p)
  PROVE  \E gone \in SUBSET Subs : Lifecycle!Remove(gone)
<1> DEFINE gone == {s \in Subs : ProblemOf[s] = p /\ status[s] # NoRow}
<1>1. ASSUME NEW s \in gone
      PROVE  life[s] \in {"PENDING", "JUDGING"} \cup Verdicts /\ life'[s] = "REMOVED"
  <2>1. status'[s] = NoRow /\ req'[s] = "committed" /\ status[s] \in Statuses
    BY DEF DeleteProblem, SentBeforeCommit, web, TypeOK
  <2>2. QED
    BY <2>1, LifeOfRow, LifeOfRowNext DEF Statuses
<1>2. ASSUME NEW s \in Subs \ gone
      PROVE  life'[s] = life[s]
  <2>1. status'[s] = status[s] /\ req'[s] = req[s]
    BY DEF DeleteProblem, web, TypeOK
  <2>2. QED
    BY <2>1, LifeOfRow, LifeOfRowNext
<1>3. life' = [s \in Subs |-> IF s \in gone THEN "REMOVED" ELSE life[s]]
  BY <1>1, <1>2, LifeIsFunction
<1>4. Lifecycle!Remove(gone)
  BY <1>1, <1>3 DEF Lifecycle!Remove
<1>5. QED
  BY <1>4

(* A worker's update changes one row, if it is still there.                *)
LEMMA UpdateLives ==
  ASSUME TypeOK, NEW s \in Subs, NEW st \in Statuses, UpdateRow(s, st), UNCHANGED req
  PROVE  \/ UNCHANGED life
         \/ /\ status[s] # NoRow /\ life[s] = status[s]
            /\ life' = [life EXCEPT ![s] = st]
<1>1. \A t \in Subs \ {s} : life'[t] = life[t]
  BY LifeOfRow, LifeOfRowNext DEF UpdateRow, TypeOK
<1>2. CASE status[s] = NoRow
  <2>1. life'[s] = life[s]
    BY <1>2, LifeOfRow, LifeOfRowNext DEF UpdateRow, TypeOK
  <2>2. QED
    BY <1>1, <2>1, SameLife
<1>3. CASE status[s] # NoRow
  <2>1. st # NoRow
    BY SubsAssumption DEF Statuses, NoRow
  <2>2. life[s] = status[s] /\ life'[s] = st
    BY <1>3, <2>1, LifeOfRow, LifeOfRowNext DEF UpdateRow, TypeOK
  <2>3. QED
    BY <1>1, <1>3, <2>2, OneLife
<1>4. QED
  BY <1>2, <1>3

LEMMA MarkStarts ==
  ASSUME TypeOK, NEW w \in Workers, MarkJudging(w)
  PROVE  UNCHANGED life \/ \E s \in Subs : Lifecycle!Start(s)
<1> DEFINE s == SubOf(w)
<1>1. s \in Subs /\ UpdateRow(s, "JUDGING") /\ UNCHANGED req /\ "JUDGING" \in Statuses
  BY JudgingHolds DEF MarkJudging, JudgingStep, web, Statuses
<1> HIDE DEF s
<1>2. CASE UNCHANGED life
  BY <1>2
<1>3. CASE /\ status[s] # NoRow /\ life[s] = status[s]
           /\ life' = [life EXCEPT ![s] = "JUDGING"]
  <2>1. life[s] \in {"PENDING", "JUDGING"} \cup Verdicts
    BY <1>1, <1>3 DEF TypeOK, Statuses
  <2>2. CASE life[s] = "JUDGING"
    BY <1>3, <2>2, LifeIsFunction
  <2>3. CASE life[s] # "JUDGING"
    BY <1>1, <1>3, <2>1, <2>3 DEF Lifecycle!Start, Lifecycle!Become
  <2>4. QED
    BY <2>2, <2>3
<1>4. QED
  BY <1>1, <1>2, <1>3, UpdateLives

LEMMA UpdateConcludes ==
  ASSUME TypeOK, MarkedBeforeJudged, NEW w \in Workers, UpdateVerdict(w)
  PROVE  UNCHANGED life \/ \E s \in Subs : Lifecycle!Conclude(s)
<1> DEFINE s == SubOf(w)
<1>1. /\ s \in Subs /\ UpdateRow(s, outcome[w]) /\ UNCHANGED req
      /\ outcome[w] \in Verdicts /\ outcome[w] \in Statuses
      /\ status[s] # "PENDING"
  BY JudgingHolds DEF UpdateVerdict, JudgingStep, web, Statuses, TypeOK, MarkedBeforeJudged
<1> HIDE DEF s
<1>2. CASE UNCHANGED life
  BY <1>2
<1>3. CASE /\ status[s] # NoRow /\ life[s] = status[s]
           /\ life' = [life EXCEPT ![s] = outcome[w]]
  <2>1. life[s] \in {"JUDGING"} \cup Verdicts
    BY <1>1, <1>3 DEF TypeOK, Statuses
  <2>2. QED
    BY <1>1, <1>3, <2>1 DEF Lifecycle!Conclude, Lifecycle!Become
<1>4. QED
  BY <1>1, <1>2, <1>3, UpdateLives

LEMMA StepIsLifecycleStep == LInv /\ [Next]_vars => [Lifecycle!Next]_life
<1> SUFFICES ASSUME TypeOK, SentBeforeCommit, MarkedBeforeJudged, [Next]_vars
             PROVE  Lifecycle!Next \/ UNCHANGED life
  BY DEF LInv, IInv
<1> USE DEF Lifecycle!Next
<1>1. ASSUME UNCHANGED <<status, req>> PROVE UNCHANGED life
  BY <1>1 DEF life
<1>2. CASE OutsideStep
  <2>1. ASSUME NEW s \in Subs, Commit(s) PROVE Lifecycle!Next
    BY <2>1, CommitSaves
  <2>2. ASSUME NEW s \in Subs,
               \/ CheckProblem(s) \/ InsertRow(s) \/ StoreSource(s) \/ Publish(s)
               \/ Answer(s) \/ CommitFails(s) \/ CrashWeb(s)
        PROVE  Lifecycle!Next \/ UNCHANGED life
    <3>1. PICK to \in {"checked", "aborted"} \cup InTransaction : req' = [req EXCEPT ![s] = to]
      BY <2>2, OpenRequestStep
    <3>2. CASE to = "aborted"
      BY <2>2, <3>1, <3>2, OpenRequestStep, AbortRejects
    <3>3. CASE to # "aborted"
      BY <2>2, <3>1, <3>3, OpenRequestStep, RequestKeepsLife
    <3>4. QED
      BY <3>2, <3>3
  <2>3. ASSUME NEW p \in Problems, DeleteProblem(p) PROVE Lifecycle!Next
    BY <2>3, DeleteRemoves
  <2>4. ASSUME \/ \E s \in Subs : Requeue(s)
               \/ FindStuck \/ ScriptFails
               \/ \E m \in Messages : VisibilityTimeout(m)
        PROVE  UNCHANGED life
    BY <1>1, <2>4 DEF Requeue, FindStuck, ScriptFails, VisibilityTimeout, web
  <2>5. QED
    BY <1>2, <2>1, <2>2, <2>3, <2>4 DEF OutsideStep, RequestStep
<1>3. CASE UNCHANGED vars
  BY <1>1, <1>3 DEF vars, web
<1>4. ASSUME NEW w \in Workers, WorkerStep(w)
      PROVE  Lifecycle!Next \/ UNCHANGED life
  <2>1. CASE MarkJudging(w)
    BY <2>1, MarkStarts
  <2>2. CASE UpdateVerdict(w)
    BY <2>2, UpdateConcludes
  <2>3. CASE ~ MarkJudging(w) /\ ~ UpdateVerdict(w)
    <3>1. UNCHANGED <<status, req>>
      BY <1>4, <2>3, WorkerRows, FailForgets, IdleHolds
         DEF WorkerStep, JudgingStep, Fetch, JudgeSubmission, Delete, Receive, web
    <3>2. QED
      BY <1>1, <3>1
  <2>4. QED
    BY <2>1, <2>2, <2>3
<1>5. QED
  BY <1>2, <1>3, <1>4, NextCases DEF WorkerStep

(* The refinement: the detailed pipeline, whatever its constants, is an    *)
(* implementation of the lifecycle the readers of the table rely on.       *)
THEOREM PipelineImplementsLifecycle == Spec => ImplementsLifecycle
<1>1. Init => Lifecycle!Init
  <2> SUFFICES ASSUME Init PROVE life = [s \in Subs |-> "ABSENT"]
    BY DEF Lifecycle!Init
  <2>1. \A s \in Subs : life[s] = "ABSENT"
    BY LifeOfRow DEF Init
  <2>2. QED
    BY <2>1, LifeIsFunction
<1>2. Init => MarkedBeforeJudged
  BY DEF Init, MarkedBeforeJudged
<1>3. IInv /\ MarkedBeforeJudged /\ [Next]_vars => MarkedBeforeJudged'
  BY MarkedNext DEF LInv
<1>4. IInv /\ MarkedBeforeJudged /\ [Next]_vars => [Lifecycle!Next]_life
  BY StepIsLifecycleStep DEF LInv
<1>5. QED
  BY <1>1, <1>2, <1>3, <1>4, Invariance, PTL DEF Spec, ImplementsLifecycle, Lifecycle!Spec
=============================================================================
