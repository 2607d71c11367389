------------------------- MODULE SubmissionPipeline -------------------------
(***************************************************************************)
(* The path of a submission through the online judge: the web request that *)
(* stores the row, the S3 object and the SQS message, the judge workers    *)
(* that consume the message and write the verdict, the operator's requeue  *)
(* script, and the deletion of a problem, which cascades to its            *)
(* submissions.  Each process does one database statement, SQS call or S3  *)
(* call per step, so every interleaving the deployment allows is a         *)
(* behaviour.  The queue is an SQS standard queue: at-least-once delivery  *)
(* with a visibility timeout.                                              *)
(***************************************************************************)
EXTENDS Integers, FiniteSets

CONSTANTS
  Subs,                  \* submission ids; one POST /submissions for each
  Problems,              \* the problems that exist initially
  ProblemOf,             \* the problem each submission is for
  Workers,               \* judge-worker containers
  Verdicts,              \* the statuses a judging can end with
  PoisonSubs,            \* submissions on which judge() always raises
  HasBucket,             \* S3_BUCKET is configured
  LeaseOutlivesHandling, \* the visibility timeout exceeds a message's handling
  MaxMessages,           \* poll_max_messages
  MaxRequeues,           \* bound: requeues of one submission
  MaxFaults,             \* bound: worker exceptions, crashes and stop signals
  None

Statuses == {"PENDING", "JUDGING"} \cup Verdicts
Unjudged == {"PENDING", "JUDGING"}
NoRow == "NO_ROW"

(* Message <<s, 0>> is the one the web request sends, <<s, k>> the one the *)
(* k-th requeue of s sends.  The body of both is the submission id.        *)
Messages == Subs \X (0..MaxRequeues)
MessagesOf(s) == {s} \X (0..MaxRequeues)

ASSUME SubsAssumption ==
  /\ ProblemOf \in [Subs -> Problems]
  /\ PoisonSubs \subseteq Subs
  /\ Verdicts # {} /\ Verdicts \cap {"PENDING", "JUDGING", NoRow} = {}
ASSUME SwitchAssumption == HasBucket \in BOOLEAN /\ LeaseOutlivesHandling \in BOOLEAN
ASSUME BoundAssumption ==
  /\ MaxMessages \in Nat \ {0}
  /\ MaxRequeues \in Nat /\ MaxFaults \in Nat
ASSUME NoneAssumption ==
  None \notin Messages /\ None \notin Workers /\ None \notin Verdicts

VARIABLES
  req,       \* how far the request of each submission has got
  broken,    \* the request's session lost its transaction to a failed flush
  answer,    \* what the client was told: "none", "ok" (200) or "error" (4xx, 5xx)
  keyed,     \* the row, committed or not, carries a source_key
  objects,   \* submissions whose source is in the S3 bucket
  problems,  \* problem rows
  status,    \* committed submission rows: their status, or NoRow
  mstate,    \* messages of the queue
  holder,    \* the worker that received a message last
  pc,        \* where each worker is in its loop
  running,   \* JudgeWorker._running
  cur,       \* the message a worker handles
  batch,     \* messages it received with it and has yet to handle
  outcome,   \* the judging's result
  script,    \* ids the requeue script has listed and not yet resent
  faults,    \* faults so far
  missed,    \* history: a worker looked for the row and found none
  written    \* history: a worker executed update_verdict

web == <<req, broken, answer, keyed, objects>>
queue == <<mstate, holder>>
worker == <<pc, running, cur, batch, outcome>>
history == <<missed, written>>
vars == <<web, problems, status, queue, worker, script, faults, history>>

-----------------------------------------------------------------------------
(* The web request: POST /submissions.                                     *)

InTransaction == {"inserted", "stored", "published", "answered"}

(* The request is over with nothing committed; a is what the client got.   *)
Abort(s, a) ==
  /\ req' = [req EXCEPT ![s] = "aborted"]
  /\ answer' = [answer EXCEPT ![s] = a]
  /\ UNCHANGED <<broken, keyed>>

(* The router looks the problem up before it calls the service: 404 when   *)
(* it is gone, 500 when the query fails.                                   *)
CheckProblem(s) ==
  /\ req[s] = "new"
  /\ \/ /\ ProblemOf[s] \in problems
        /\ req' = [req EXCEPT ![s] = "checked"]
        /\ UNCHANGED <<broken, answer, keyed>>
     \/ Abort(s, "error")
  /\ UNCHANGED <<objects, problems, status, queue, worker, script, faults, history>>

(* repo.add flushes the INSERT in the request's open transaction.  The     *)
(* foreign key refuses it when the problem has been deleted meanwhile.     *)
InsertRow(s) ==
  /\ req[s] = "checked"
  /\ \/ /\ ProblemOf[s] \in problems
        /\ req' = [req EXCEPT ![s] = "inserted"]
        /\ UNCHANGED <<broken, answer, keyed>>
     \/ Abort(s, "error")
  /\ UNCHANGED <<objects, problems, status, queue, worker, script, faults, history>>

(* Mutant of StoreSource: source_key is set whether or not put succeeds.   *)
StoreSourceKeyFirst(s) ==
  /\ req[s] = "inserted"
  /\ req' = [req EXCEPT ![s] = "stored"]
  /\ keyed' = keyed \cup {s}
  /\ \/ objects' = objects \cup {s}
     \/ UNCHANGED objects
  /\ UNCHANGED <<broken, answer, problems, status, queue, worker, script, faults, history>>

(* Best-effort upload: put, then source_key, then a flush.  Whatever fails *)
(* is logged and swallowed; a put that fails may have stored the object,   *)
(* and a flush that fails leaves a session that can no longer commit.      *)
StoreSource(s) ==
  /\ req[s] = "inserted"
  /\ req' = [req EXCEPT ![s] = "stored"]
  /\ \/ /\ keyed' = keyed \cup {s}
        /\ objects' = IF HasBucket THEN objects \cup {s} ELSE objects
        /\ UNCHANGED broken
     \/ /\ HasBucket
        /\ objects' \in {objects, objects \cup {s}}
        /\ UNCHANGED <<broken, keyed>>
     \/ /\ broken' = broken \cup {s}
        /\ objects' = IF HasBucket THEN objects \cup {s} ELSE objects
        /\ UNCHANGED keyed
  /\ UNCHANGED <<answer, problems, status, queue, worker, script, faults, history>>

Send(m) ==
  /\ mstate[m] = "unsent"
  /\ mstate' = [mstate EXCEPT ![m] = "visible"]
  /\ UNCHANGED holder

(* Mutant of Publish: a failing send is answered with an error, but not    *)
(* raised, so that the transaction is still committed.                     *)
PublishSwallowed(s) ==
  /\ req[s] = "stored"
  /\ \/ Send(<<s, 0>>) /\ req' = [req EXCEPT ![s] = "published"] /\ UNCHANGED answer
     \/ /\ UNCHANGED queue
        /\ req' = [req EXCEPT ![s] = "answered"]
        /\ answer' = [answer EXCEPT ![s] = "error"]
  /\ UNCHANGED <<broken, keyed, objects, problems, status, worker, script, faults, history>>

(* publish sends the message while the transaction is still open.  When    *)
(* send_message raises, SQS may or may not have accepted the message.      *)
Publish(s) ==
  /\ req[s] = "stored"
  /\ \/ /\ Send(<<s, 0>>)
        /\ req' = [req EXCEPT ![s] = "published"]
        /\ UNCHANGED <<broken, answer, keyed>>
     \/ /\ Send(<<s, 0>>) \/ UNCHANGED queue
        /\ Abort(s, "error")
  /\ UNCHANGED <<objects, problems, status, worker, script, faults, history>>

(* The handler returns and the 200 goes out; get_session's commit runs     *)
(* when the dependency is torn down, after the response.                   *)
Answer(s) ==
  /\ req[s] = "published"
  /\ req' = [req EXCEPT ![s] = "answered"]
  /\ answer' = [answer EXCEPT ![s] = "ok"]
  /\ UNCHANGED <<broken, keyed, objects, problems, status, queue, worker, script,
                 faults, history>>

Commit(s) ==
  /\ req[s] = "answered" /\ s \notin broken
  /\ req' = [req EXCEPT ![s] = "committed"]
  /\ status' = [status EXCEPT ![s] = "PENDING"]
  /\ UNCHANGED <<broken, answer, keyed, objects, problems, queue, worker, script,
                 faults, history>>

CommitFails(s) ==
  /\ req[s] = "answered"
  /\ Abort(s, answer[s])
  /\ UNCHANGED <<objects, problems, status, queue, worker, script, faults, history>>

(* The web process dies; the database rolls the open transaction back.     *)
CrashWeb(s) ==
  /\ req[s] \in {"checked"} \cup InTransaction
  /\ Abort(s, answer[s])
  /\ UNCHANGED <<objects, problems, status, queue, worker, script, faults, history>>

(* DELETE of a problem cascades to its submissions.  It waits for the row  *)
(* lock that the foreign key of an uncommitted submission holds.           *)
DeleteProblem(p) ==
  /\ p \in problems
  /\ \A s \in Subs : ProblemOf[s] = p /\ req[s] \in InTransaction => s \in broken
  /\ problems' = problems \ {p}
  /\ status' = [s \in Subs |-> IF ProblemOf[s] = p THEN NoRow ELSE status[s]]
  /\ UNCHANGED <<web, queue, worker, script, faults, history>>

-----------------------------------------------------------------------------
(* The requeue script, run by an operator.  Time is abstracted: however    *)
(* long the threshold, a row can be left alone for longer, so any set of   *)
(* unjudged rows can be the stuck ones.  Between the query and each send   *)
(* the workers go on.                                                      *)

FindStuck ==
  /\ script = {}
  /\ \E stuck \in SUBSET {s \in Subs : status[s] \in Unjudged} :
        /\ stuck # {}
        /\ \A s \in stuck : \E m \in MessagesOf(s) : m[2] > 0 /\ mstate[m] = "unsent"
        /\ script' = stuck
  /\ UNCHANGED <<web, problems, status, queue, worker, faults, history>>

Requeue(s) ==
  /\ s \in script
  /\ \E k \in 1..MaxRequeues :
        /\ \A j \in 1..(k - 1) : mstate[<<s, j>>] # "unsent"
        /\ Send(<<s, k>>)
  /\ script' = script \ {s}
  /\ UNCHANGED <<web, problems, status, worker, faults, history>>

(* A send raises or the operator interrupts: the rest is not resent.       *)
ScriptFails ==
  /\ script # {}
  /\ script' = {}
  /\ UNCHANGED <<web, problems, status, queue, worker, faults, history>>

-----------------------------------------------------------------------------
(* The judge worker.  pc[w] = "poll" is the blocking receive_message call. *)

Busy == {"fetch", "mark", "judge", "update", "delete"}
SubOf(w) == cur[w][1]
Holds(w, m) == pc[w] \in Busy /\ (cur[w] = m \/ m \in batch[w])

(* Update of a row by id: it changes nothing when the row is gone.         *)
UpdateRow(s, st) ==
  status' = [status EXCEPT ![s] = IF @ = NoRow THEN NoRow ELSE st]

(* Mutant of NextMessage: `_running` is read between two messages.         *)
StopBetweenMessages(w, rest) ==
  /\ outcome' = [outcome EXCEPT ![w] = None]
  /\ \/ /\ rest # {} /\ running[w]
        /\ \E m \in rest : /\ cur' = [cur EXCEPT ![w] = m]
                           /\ batch' = [batch EXCEPT ![w] = rest \ {m}]
        /\ pc' = [pc EXCEPT ![w] = "fetch"]
     \/ /\ rest = {} \/ ~running[w]
        /\ cur' = [cur EXCEPT ![w] = None]
        /\ batch' = [batch EXCEPT ![w] = {}]
        /\ pc' = [pc EXCEPT ![w] = IF running[w] THEN "poll" ELSE "stopped"]

(* The for loop over the received messages; `_running` is read only when   *)
(* it is exhausted, at the top of run's while.                             *)
NextMessage(w, rest) ==
  /\ outcome' = [outcome EXCEPT ![w] = None]
  /\ \/ /\ \E m \in rest : /\ cur' = [cur EXCEPT ![w] = m]
                           /\ batch' = [batch EXCEPT ![w] = rest \ {m}]
        /\ pc' = [pc EXCEPT ![w] = "fetch"]
     \/ /\ rest = {}
        /\ cur' = [cur EXCEPT ![w] = None]
        /\ batch' = [batch EXCEPT ![w] = {}]
        /\ pc' = [pc EXCEPT ![w] = IF running[w] THEN "poll" ELSE "stopped"]

(* Mutant of Forget: the message in hand outlives _poll_once.              *)
ForgetNothing(w, next) ==
  /\ pc' = [pc EXCEPT ![w] = next]
  /\ UNCHANGED <<cur, batch, outcome>>

(* An exception leaves _poll_once: what it had received is forgotten, and  *)
(* the loop goes on after a second.                                        *)
Forget(w, next) ==
  /\ pc' = [pc EXCEPT ![w] = next]
  /\ cur' = [cur EXCEPT ![w] = None]
  /\ batch' = [batch EXCEPT ![w] = {}]
  /\ outcome' = [outcome EXCEPT ![w] = None]

(* receive_message returns up to MaxMessages visible messages.             *)
Receive(w, ms) ==
  /\ pc[w] = "poll"
  /\ ms # {} /\ Cardinality(ms) <= MaxMessages
  /\ \A m \in ms : mstate[m] = "visible"
  /\ mstate' = [m \in Messages |-> IF m \in ms THEN "inflight" ELSE mstate[m]]
  /\ holder' = [m \in Messages |-> IF m \in ms THEN w ELSE holder[m]]
  /\ NextMessage(w, ms)
  /\ UNCHANGED <<running, web, problems, status, script, faults, history>>

(* Mutant of PollEmpty: `while True`.                                      *)
IgnoreStop(w) ==
  /\ pc[w] = "poll" /\ ~running[w]
  /\ UNCHANGED <<web, problems, status, queue, worker, script, faults, history>>

(* The poll returns no message and the loop condition is read again.       *)
PollEmpty(w) ==
  /\ pc[w] = "poll" /\ ~running[w]
  /\ pc' = [pc EXCEPT ![w] = "stopped"]
  /\ UNCHANGED <<running, cur, batch, outcome, web, problems, status, queue, script,
                 faults, history>>

(* Mutant of Fetch: a missing row raises, and the message stays queued.    *)
KeepPhantoms(w) ==
  /\ pc[w] = "fetch"
  /\ \/ /\ status[SubOf(w)] # NoRow
        /\ pc' = [pc EXCEPT ![w] = "mark"]
        /\ UNCHANGED <<cur, batch, outcome>>
     \/ /\ status[SubOf(w)] = NoRow
        /\ Forget(w, "poll")
  /\ UNCHANGED <<running, web, problems, status, queue, script, faults, history>>

(* Mutant of Fetch: a submission that is being judged is skipped.          *)
SkipJudging(w) ==
  /\ pc[w] = "fetch"
  /\ pc' = [pc EXCEPT ![w] = IF status[SubOf(w)] \in {NoRow, "JUDGING"} THEN "delete" ELSE "mark"]
  /\ missed' = IF status[SubOf(w)] = NoRow THEN missed \cup {SubOf(w)} ELSE missed
  /\ UNCHANGED <<running, cur, batch, outcome, web, problems, status, queue, script,
                 faults, written>>

(* The message is acknowledged without judging when there is no row.       *)
Fetch(w) ==
  /\ pc[w] = "fetch"
  /\ \/ /\ status[SubOf(w)] # NoRow
        /\ pc' = [pc EXCEPT ![w] = "mark"]
        /\ UNCHANGED missed
     \/ /\ status[SubOf(w)] = NoRow
        /\ pc' = [pc EXCEPT ![w] = "delete"]
        /\ missed' = missed \cup {SubOf(w)}
  /\ UNCHANGED <<running, cur, batch, outcome, web, problems, status, queue, script,
                 faults, written>>

MarkJudging(w) ==
  /\ pc[w] = "mark"
  /\ UpdateRow(SubOf(w), "JUDGING")
  /\ pc' = [pc EXCEPT ![w] = "judge"]
  /\ UNCHANGED <<running, cur, batch, outcome, web, problems, queue, script, faults,
                 history>>

(* Mutant of JudgeSubmission: the message is deleted before the verdict.   *)
AckBeforeVerdict(w) ==
  /\ pc[w] = "judge" /\ SubOf(w) \notin PoisonSubs
  /\ \E v \in Verdicts : outcome' = [outcome EXCEPT ![w] = v]
  /\ mstate' = [mstate EXCEPT ![cur[w]] = "deleted"]
  /\ pc' = [pc EXCEPT ![w] = "update"]
  /\ UNCHANGED <<running, cur, batch, web, problems, status, holder, script,
                 faults, history>>

(* fetch_testcases and judge(); the verdict of a run is nondeterministic.  *)
JudgeSubmission(w) ==
  /\ pc[w] = "judge" /\ SubOf(w) \notin PoisonSubs
  /\ \E v \in Verdicts : outcome' = [outcome EXCEPT ![w] = v]
  /\ pc' = [pc EXCEPT ![w] = "update"]
  /\ UNCHANGED <<running, cur, batch, web, problems, status, queue, script, faults,
                 history>>

(* Mutant of UpdateVerdict: an upsert.                                     *)
InsertVerdict(w) ==
  /\ pc[w] = "update"
  /\ status' = [status EXCEPT ![SubOf(w)] = outcome[w]]
  /\ written' = written \cup {SubOf(w)}
  /\ pc' = [pc EXCEPT ![w] = "delete"]
  /\ UNCHANGED <<running, cur, batch, outcome, web, problems, queue, script, faults,
                 missed>>

UpdateVerdict(w) ==
  /\ pc[w] = "update"
  /\ UpdateRow(SubOf(w), outcome[w])
  /\ written' = written \cup {SubOf(w)}
  /\ pc' = [pc EXCEPT ![w] = "delete"]
  /\ UNCHANGED <<running, cur, batch, outcome, web, problems, queue, script, faults,
                 missed>>

(* Mutant of Delete: the whole batch is acknowledged with its first message*)
DeleteBatch(w) ==
  /\ pc[w] = "delete"
  /\ mstate' = [m \in Messages |-> IF m \in batch[w] \cup {cur[w]} THEN "deleted" ELSE mstate[m]]
  /\ NextMessage(w, batch[w])
  /\ UNCHANGED <<holder, running, web, problems, status, script, faults,
                 history>>

(* delete_message with the receipt handle of w's own receive.  Once the    *)
(* message has been received again the handle is stale, and SQS may ignore *)
(* the call.                                                               *)
Delete(w) ==
  /\ pc[w] = "delete"
  /\ \/ mstate' = [mstate EXCEPT ![cur[w]] = "deleted"]
     \/ holder[cur[w]] # w /\ UNCHANGED mstate
  /\ NextMessage(w, batch[w])
  /\ UNCHANGED <<holder, running, web, problems, status, script, faults,
                 history>>

(* Mutant of JudgeRaises: the message is tried again at once.              *)
RetryAtOnce(w) ==
  /\ pc[w] = "judge" /\ SubOf(w) \in PoisonSubs
  /\ pc' = [pc EXCEPT ![w] = "fetch"]
  /\ UNCHANGED <<running, cur, batch, outcome, web, problems, status, queue, script,
                 faults, history>>

(* judge() raises out of _handle_message, for this submission every time.  *)
JudgeRaises(w) ==
  /\ pc[w] = "judge" /\ SubOf(w) \in PoisonSubs
  /\ Forget(w, IF running[w] THEN "poll" ELSE "stopped")
  /\ UNCHANGED <<running, web, problems, status, queue, script, faults, history>>

HandlerRaises(w) ==
  /\ pc[w] \in Busy /\ faults < MaxFaults
  /\ faults' = faults + 1
  /\ Forget(w, IF running[w] THEN "poll" ELSE "stopped")
  /\ UNCHANGED <<running, web, problems, status, queue, script, history>>

(* SIGTERM or SIGINT: worker.stop.                                         *)
Stop(w) ==
  /\ running[w] /\ pc[w] # "down" /\ faults < MaxFaults
  /\ faults' = faults + 1
  /\ running' = [running EXCEPT ![w] = FALSE]
  /\ UNCHANGED <<pc, cur, batch, outcome, web, problems, status, queue, script, history>>

(* The process dies, or is killed when it is slow to stop.                 *)
Crash(w) ==
  /\ pc[w] \in Busy \cup {"poll"} /\ faults < MaxFaults
  /\ faults' = faults + 1
  /\ Forget(w, IF running[w] THEN "down" ELSE "stopped")
  /\ UNCHANGED <<running, web, problems, status, queue, script, history>>

(* restart: unless-stopped brings a crashed worker back; a stopped one is  *)
(* started by the next deployment, if any.                                 *)
Restart(w) ==
  /\ pc[w] \in {"down", "stopped"}
  /\ pc' = [pc EXCEPT ![w] = "poll"]
  /\ running' = [running EXCEPT ![w] = TRUE]
  /\ UNCHANGED <<cur, batch, outcome, web, problems, status, queue, script, faults,
                 history>>

(* The visibility timeout of a received message runs out.                  *)
VisibilityTimeout(m) ==
  /\ mstate[m] = "inflight"
  /\ LeaseOutlivesHandling => ~ \E w \in Workers : Holds(w, m)
  /\ mstate' = [mstate EXCEPT ![m] = "visible"]
  /\ UNCHANGED <<holder, web, problems, status, worker, script, faults, history>>

-----------------------------------------------------------------------------
Init ==
  /\ req = [s \in Subs |-> "new"]
  /\ answer = [s \in Subs |-> "none"]
  /\ broken = {} /\ keyed = {} /\ objects = {}
  /\ problems = Problems
  /\ status = [s \in Subs |-> NoRow]
  /\ mstate = [m \in Messages |-> "unsent"]
  /\ holder = [m \in Messages |-> None]
  /\ pc = [w \in Workers |-> "poll"]
  /\ running = [w \in Workers |-> TRUE]
  /\ cur = [w \in Workers |-> None]
  /\ batch = [w \in Workers |-> {}]
  /\ outcome = [w \in Workers |-> None]
  /\ script = {}
  /\ faults = 0
  /\ missed = {} /\ written = {}

RequestStep(s) ==
  CheckProblem(s) \/ InsertRow(s) \/ StoreSource(s) \/ Publish(s) \/ Answer(s)
    \/ Commit(s) \/ CommitFails(s)

HandlerStep(w) ==
  Fetch(w) \/ MarkJudging(w) \/ JudgeSubmission(w) \/ UpdateVerdict(w) \/ Delete(w)
    \/ JudgeRaises(w)

Next ==
  \/ \E s \in Subs : RequestStep(s) \/ CrashWeb(s) \/ Requeue(s)
  \/ \E p \in Problems : DeleteProblem(p)
  \/ FindStuck \/ ScriptFails
  \/ \E w \in Workers : \/ HandlerStep(w) \/ PollEmpty(w) \/ HandlerRaises(w)
                        \/ Stop(w) \/ Crash(w) \/ Restart(w)
                        \/ \E ms \in SUBSET Messages : Receive(w, ms)
  \/ \E m \in Messages : VisibilityTimeout(m)

Spec == Init /\ [][Next]_vars

(* A request runs to its end, a worker that handles a message does its     *)
(* next step, a crashed container is restarted (restart: unless-stopped),  *)
(* a visibility timeout runs out.  SQS serves every visible message in the *)
(* end to workers that keep polling: strong fairness, for the workers are  *)
(* busy in between.  Nothing is assumed of the operators, of failures, or  *)
(* of the start of a stopped worker.                                       *)
Fairness ==
  /\ \A s \in Subs : WF_vars(RequestStep(s))
  /\ \A w \in Workers : /\ WF_vars(HandlerStep(w))
                        /\ WF_vars(PollEmpty(w))
                        /\ WF_vars(pc[w] = "down" /\ Restart(w))
  /\ \A m \in Messages : /\ SF_vars(\E w \in Workers, ms \in SUBSET Messages :
                                         m \in ms /\ Receive(w, ms))
                         /\ WF_vars(VisibilityTimeout(m))

FairSpec == Spec /\ Fairness

-----------------------------------------------------------------------------
(* The shape of the state.  A worker has a current message exactly while   *)
(* it handles one, received messages wait only behind a current one, and a *)
(* judged one has a verdict (main.py:82-131).                              *)
TypeOK ==
  /\ req \in [Subs -> {"new", "checked", "committed", "aborted"} \cup InTransaction]
  /\ answer \in [Subs -> {"none", "ok", "error"}]
  /\ broken \subseteq Subs /\ keyed \subseteq Subs /\ objects \subseteq Subs
  /\ problems \subseteq Problems
  /\ status \in [Subs -> Statuses \cup {NoRow}]
  /\ mstate \in [Messages -> {"unsent", "visible", "inflight", "deleted"}]
  /\ holder \in [Messages -> Workers \cup {None}]
  /\ pc \in [Workers -> Busy \cup {"poll", "down", "stopped"}]
  /\ running \in [Workers -> BOOLEAN]
  /\ cur \in [Workers -> Messages \cup {None}]
  /\ batch \in [Workers -> SUBSET Messages]
  /\ outcome \in [Workers -> Verdicts \cup {None}]
  /\ script \subseteq Subs
  /\ faults \in 0..MaxFaults
  /\ missed \subseteq Subs /\ written \subseteq Subs
  /\ \A w \in Workers : /\ pc[w] \in Busy <=> cur[w] # None
                        /\ batch[w] # {} => pc[w] \in Busy
                        /\ pc[w] = "update" => outcome[w] # None

Live(m) == mstate[m] \in {"visible", "inflight"}

(* A message leaves the queue only after a worker wrote the verdict of its *)
(* submission or found no row for it, whatever crashes, exceptions, lapsed *)
(* visibility timeouts and racing workers come between (main.py:103-131).  *)
AckedOnlyWhenHandled ==
  \A m \in Messages : mstate[m] = "deleted" => m[1] \in written \cup missed

(* While visibility timeouts outlast the handling, a submission that waits *)
(* for its verdict always has a message that will bring a worker to it; a  *)
(* worker that looked for the row before the request's commit (db.py:34-40,*)
(* main.py:104-108) is the only way to lose it.                            *)
NoOrphan ==
  LeaseOutlivesHandling =>
    \A s \in Subs : status[s] \in Unjudged /\ s \notin missed
                     => \E m \in MessagesOf(s) : Live(m)

(* A client that got an error never has a row, although its message may be *)
(* on the queue and be handled (service.py:36-58, db.py:34-40).            *)
ErrorAnswerHasNoRow ==
  \A s \in Subs : answer[s] = "error" => status[s] = NoRow

(* A committed source_key names an object the worker can read, whichever   *)
(* step of the upload failed (service.py:47-55).                           *)
SourceKeyHasObject ==
  HasBucket => \A s \in Subs : status[s] # NoRow /\ s \in keyed => s \in objects

(* stop() never abandons a received message: without an exception or a     *)
(* kill, a worker ends only when its batch is exhausted (main.py:74-91).   *)
StopIsGraceful ==
  [][\A w \in Workers :
       pc[w] # "stopped" /\ pc'[w] = "stopped" /\ faults' = faults
         => batch[w] = {} \/ SubOf(w) \in PoisonSubs]_vars

(* A signalled worker stops unless it crashes or is started again: the     *)
(* long poll and the message in hand delay it, nothing else (main.py:66-91)*)
StopTakesEffect ==
  \A w \in Workers : ~running[w] ~> pc[w] = "stopped"

AllStopped == \A w \in Workers : pc[w] = "stopped"

(* judge() raises whenever the row's submission is judged.                 *)
Hopeless(s) == s \in PoisonSubs /\ status[s] # NoRow

(* A message of s waits in a batch behind one on which judge() raises.     *)
Overtaken(s) ==
  \E w \in Workers : /\ \E m \in batch[w] : m[1] = s
                    /\ SubOf(w) \in PoisonSubs

(* Every submission that judge() can finish ends with a verdict that no    *)
(* longer changes to PENDING or JUDGING, or without a row, unless a worker *)
(* looked for its row too early or all workers stay stopped.  One on which *)
(* judge() always raises (sandbox.py:183) never does while its row is      *)
(* there.  It delays the others only where poll_max_messages exceeds 1, by *)
(* being received before them in the same batch for ever (main.py:74-131). *)
EventuallySettled ==
  \A s \in Subs :
    \/ <>[]AllStopped \/ []<>Overtaken(s)
    \/ <>[](s \in missed \/ Hopeless(s) \/ status[s] \notin Unjudged)

(* The queue drains: every message, also that of a submission which was    *)
(* rolled back or deleted, is acknowledged in the end, save one on which   *)
(* judge() always raises: no redrive policy takes it from the queue, and   *)
(* it is received again until its row is deleted (main.py:78-91, 104-131). *)
QueueDrains ==
  \A m \in Messages :
    \/ <>[]AllStopped \/ []<>Overtaken(m[1])
    \/ <>[](Hopeless(m[1]) \/ ~ Live(m))

-----------------------------------------------------------------------------
(* The life of a row as its readers see it, for SubmissionLifecycle.       *)
life ==
  [s \in Subs |-> CASE status[s] # NoRow -> status[s]
                    [] status[s] = NoRow /\ req[s] = "committed" -> "REMOVED"
                    [] status[s] = NoRow /\ req[s] = "aborted" -> "REJECTED"
                    [] OTHER -> "ABSENT"]

Lifecycle == INSTANCE SubmissionLifecycle
  WITH Subs <- Subs, Verdicts <- Verdicts, life <- life

(* Readers of the submissions table only ever see what the abstract        *)
(* lifecycle allows (worker/db.py:78-109, service.py:36-58).               *)
ImplementsLifecycle == Lifecycle!Spec

-----------------------------------------------------------------------------
(* What the documentation says and the code does not keep.                 *)

(* UC-33's postcondition: a submission in status PENDING waits for the     *)
(* judge (README.md:222), so the queue has a message for it.               *)
PendingAwaitsJudge ==
  \A s \in Subs : status[s] = "PENDING" => \E m \in MessagesOf(s) : Live(m)
=============================================================================
