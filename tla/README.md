# Verification of the HCMUTE Online Judge

TLA+ models of the online judge, the TLC instances that check them, and TLAPS
proofs of what must hold for every instance. Paths without a prefix are under
`src/apps/web/app/` (the web tier) or `src/apps/judge-worker/worker/` (the judge).

## 1. The system

| component | state | operations | talks to | what is hard |
|---|---|---|---|---|
| submission request (`modules/submissions`, `core/db.py`) | row in `submissions`, open transaction of the request | `POST /submissions`: look up the problem, insert, upload, publish, answer, commit | Postgres, S3, SQS | send before commit, commit after the response, partial failure |
| judge worker (`main.py`, `db.py`, `storage.py`) | message in hand and rest of the batch, `_running` | long poll, fetch, mark_judging, judge, update_verdict, delete_message, stop | SQS, Postgres, S3, sandbox | at-least-once delivery, lapsed visibility timeouts, crashes, poison messages, stop |
| judge and sandbox (`judge.py`, `sandbox.py`, `languages/`) | work directory, processes, running maximum | compile, run per test case, compare, clean up | operating system | limits that race with each other, exceptions on the way, processes that survive |
| queue and storage (SQS, S3, `bootstrap_localstack.sh`) | messages, objects | send, receive, delete, visibility timeout; put, get | web, worker, script | duplicates, stale receipt handles, no redrive policy |
| requeue script (`src/scripts/requeue_stuck_submissions.py`) | list of ids | find stuck rows, send each again | Postgres, SQS | acts on a list that is stale |
| leaderboard (`modules/contests/leaderboard.py`) | none (computed per request) | `compute` | Postgres | verdicts in any order, several reads, boundaries |
| rate limiter (`shared/ratelimit.py`) | buckets per process | `try_acquire`, `dispatch` | every request | refill arithmetic, several processes, restarts |
| database session (`core/db.py`, `shared/repository.py`, the `models.py`) | one transaction per request, the tables | statements, flush, commit after the response, rollback | every handler | READ COMMITTED, lock waits, deadlocks, a session that a failed flush deactivates |
| accounts (`modules/users`) | users | guards, register, login, profile, password reset | session | look up, then insert |
| contests (`modules/contests`) | contests, their problems, registrations | CRUD, assign, register, pages | session | checks against rows that change meanwhile, unique letters |
| courses (`modules/courses`) | courses, enrolments, assignments | CRUD, join, invite, CSV import, progress, export | session | partial failure of an import, pages of several queries |
| problems, tags, test cases (`modules/problems`, `tags`, `testcases`) | problems, tags and their links, test cases | CRUD, tag replacement, zip upload | session | concurrent replacement of tags, cascades |
| metrics (`shared/observability.py`) | counters and histograms per process | `observe`, `render` | every request | every way out of a request, several processes, cumulative counts |
| frontend, migrations, seeding, code generation | – | – | – | nothing that runs concurrently |

What makes each correct: a submission the client was told about is saved and
judged, a message leaves the queue only when it is handled, a verdict is the one
of the first failed test case, nothing is left behind by a judging, a bucket
admits exactly what its rule allows, a board is the scoring of what was read; of
the web tier, that requests which run at the same time leave rows that satisfy
every unique constraint and foreign key, that a request's rows appear together
or not at all, that none waits for ever, and that a server error has a known cause.
`PROJECT.json` lists the places where these can go wrong (`hazards`), each with
the properties that watch it.

## 2. The modules

```
SubmissionLifecycle        abstract: what readers of the table may see
      ^  refinement        <--- SubmissionPipelineProofs
SubmissionPipeline  <--- MCSubmissionPipeline (TLC)   <--- SubmissionPipelineProofs (TLAPS)
      judging is one nondeterministic step, opened up in
JudgeSandbox        <--- MCJudgeSandbox               <--- JudgeSandboxProofs
      the verdicts are read by
Leaderboard         <--- MCLeaderboard                <--- LeaderboardProofs
RateLimiter         <--- MCRateLimiter                <--- RateLimiterProofs
Metrics             <--- MCMetrics                    <--- MetricsProofs

AtomicStore                abstract: what the tables and get_session promise
      ^  refinement        <--- WebTierProofs
WebTier             <--- MCWebTier
      extends Contests, Courses and ProblemSet, which extend
Accounts            the guards of every route, and the users
      extends
WebSession          one session and transaction per request   <--- WebSessionProofs
      extends
Schema              the tables, their unique constraints and foreign keys

FoldFacts                  lemmas on sums and sorting, for LeaderboardProofs and MetricsProofs
```

### SubmissionPipeline

Composes the request, the queue, the workers, the script and the deletion of
problems. `req[s]` is how far the request has got (the control points of
`SubmissionService.submit` and of `get_session`), `status[s]` the *committed*
row, `mstate[m]` the message (unsent, visible, in flight, deleted), `holder[m]`
whose receipt handle is the valid one, `pc[w]`, `cur[w]`, `batch[w]` the worker's
position in `_poll_once` and `_handle_message`, `running[w]` its `_running`.
Every action is one statement, one SQS call or one S3 call: `CheckProblem`,
`InsertRow`, `StoreSource`, `Publish`, `Answer`, `Commit`, `CommitFails`,
`CrashWeb` for the request; `Receive`, `PollEmpty`, `Fetch`, `MarkJudging`,
`JudgeSubmission`, `UpdateVerdict`, `Delete`, `JudgeRaises`, `HandlerRaises`,
`Stop`, `Crash`, `Restart` for the worker; `FindStuck`, `Requeue`, `ScriptFails`;
`DeleteProblem`; `VisibilityTimeout`. `Answer` comes before `Commit` because the
locked FastAPI (0.136.0 in `uv.lock`) runs the teardown of a dependency with
`yield` after it has sent the response. `broken` are the requests whose
`update_source_key` failed in its flush: the exception is swallowed
(`service.py:54`), but the session can no longer commit.

SQS is modelled by how the code uses it: a message is received by one worker at
a time, becomes visible again when its visibility timeout runs out, may be
received in any batch of up to `poll_max_messages`, and a `delete_message` with
the handle of an earlier receive may or may not be honoured. The constant
`LeaseOutlivesHandling` states whether the timeout outlasts the handling; the
queue is created without attributes, so 30 seconds apply, and a problem with many test
cases takes longer. Both values are checked.

`SubmissionLifecycle` is what the other parts rely on when they read the table:
a row appears once, as PENDING; a verdict is only written over JUDGING or over
an earlier verdict; a row never becomes PENDING again; one that was removed or
rejected never appears. `life` maps the pipeline's state onto it.

### JudgeSandbox

One worker judging one submission after the other. `phase` is the position in
`Judge.judge`, `ran` what the program did on the test cases so far, `workdirs`
the temporary directories that exist, `groups` the surviving processes. A
program's behaviour on a test case is a record (how it ended, exit code, wall-clock
time, output, whether the output is UTF-8, whether it left a process behind),
chosen freely among `Behaviours`, the combinations the operating system can
produce under the limits: `RLIMIT_CPU` at `CpuLimitSec`, `subprocess.run`'s
timeout at `TimeLimit + 500` ms. Outputs are sequences of lines, a line being its
text and whether blanks trail it, which is all that `_norm` distinguishes.

### Leaderboard

`Board` is `LeaderboardService.compute` as a function of a contest row, its
problems and the submissions: the fold over submissions in the order of their
creation, rows, sort, first solver. A request first reads contest and problems
(`OpenView`) and at some later moment the submissions; submissions, verdicts,
re-judging, and edits of the contest and its problems come between. `Sorted` is
ORDER BY and `list.sort`: it is defined by what it returns, so that it can be
proved about. No two keys are equal: the names of users are unique, and so is the
`created_at` of the submissions (`Moments`; of two in the same microsecond either may come
first). The properties compare what the fold computes with the rules of ICPC and IOI scoring
written as sets and sums.

### RateLimiter

Buckets of each uvicorn process, a monotonic clock in ticks, and a history of
the requests. Tokens are counted in what refills per tick, so that all
arithmetic is exact. A check of a request is one step: `dispatch` has no `await`
before `try_acquire` returns, and each process has one event loop.

### WebTier and the modules below it

`Requests` run concurrently, each asking for one operation (`op[r]`, a record of
the route's name, the user of the token, the row in the path and the arguments).
`pc[r]` is where its handler is, between two SQL statements; `local[r]` the
handler's variables. A SELECT belongs to the step that uses its result. A step
that writes only *issues* the statement (`stmt[r]`), and `Execute` runs it once
`Blockers(r)` is empty: the transactions that wrote the same row or the same
key, or that hold or need a parent row. The statement then sees the table as it
is by now, as PostgreSQL's READ COMMITTED does: it fails on a duplicate key, a missing parent or an
UPDATE without a row, and a DELETE goes on with the rows that refer to what it
deleted. `writes[r]` are its uncommitted rows, `db` the committed ones.

`Reply` comes before `Commit`, as in the pipeline. `Refuse` is an exception that
reaches `get_session`, which rolls back. A failed flush rolls everything back and
leaves the session inactive (`broken`): most handlers pass the exception on, but
the CSV import and the zip upload catch it, go on, and end in a commit that
fails. `DeadlockVictim` and `ConnectionLost` can end any request. `met[r]`
remembers which requests ran while `r` did, `saved` which have committed.

Each of `Accounts`, `Contests`, `Courses` and `ProblemSet` has one operator per
route, with one disjunct per step between statements, and is composed by `Step`.
Guards (`require_user`, `require_role`) are `Authenticate`, the first step of
every request. Ids are `<<"seed", name>>` or `<<request, k>>`, so that no two
inserts share one, as with uuid4. Values in which the code tells two parts apart
are pairs: an e-mail address is its local part and its domain (the import derives
a user name from the former), a letter or a slug is the letter and its case, a user name is a
local part and the stamp that is appended to it when it is taken. A course's invite code is its id.

`AtomicStore` is what the handlers rely on: a request is answered once; its rows
appear in one step, after a 200, at ids of its own; the tables are consistent
after every commit. `WebTier` implements it with the same `db`, `answer` and
`saved`: partial writes, lock waits, failed flushes, deadlocks and crashes are
all stuttering steps.

### Metrics

The registry of each process, the requests in flight with the path they asked
for, and the pages that scrapes returned. `Finish` is the `finally` of
`RequestIDMiddleware.dispatch`: it runs without an `await`, so a request is
counted in one step. A request that is answered before the router has found a
route is counted under its raw path.

## 3. The runs

| run | asks |
|---|---|
| `pipeline_lease` | one submission, its requeue, two workers, two faults: is a waiting submission ever without a message? does an error answer ever leave a row? does a stored key always name an object? is every submission settled, does the queue drain, does a stop signal take effect? |
| `pipeline_races` | visibility timeouts that run out while a worker is busy: are messages only deleted when handled, do readers see only what `SubmissionLifecycle` allows? |
| `pipeline_batch` | two submissions in one batch, one of which always makes `judge()` raise, two workers, a stop signal or a crash: is the other lost, abandoned or never settled? |
| `judge_verdict` | every way a program can end at the limits, on up to two test cases, twice in a row: the verdict, the CPU limit, the directories |
| `ratelimit_bucket` | two clients, half-second ticks, a restart, a route without rule: neither too much nor too little is admitted, buckets do not mix, Retry-After suffices |
| `leaderboard_scoring` | three submissions by two users on two problems, a contest that is edited: score, rank, first solver, what a verdict can add or take |
| `web_requests` | any two requests for contests, for accounts and courses, or for problems: unique registrations and letters, no dangling reference, contest windows, whole tags, whole imports, pages that agree with themselves, the causes of server errors, and `AtomicStore` |
| `web_live` | two requests that wait for each other's locks, fail or deadlock: does every request end? |
| `metrics_scrape` | three requests in two processes, one of which restarts: is every request counted once, however it ended, and do the parts of a page agree? |

Three runs show that the code does not do what a document, a comment or an
assertion of the repository says of it (`findings` in `PROJECT.json` quote the lines):

| run | shows |
|---|---|
| `pipeline_early_receive` | the message can overtake the commit; the submission then stays PENDING with nothing on the queue |
| `judge_timeout_output` | a program that prints and then loops makes `judge()` raise |
| `import_lost` | an import that reports an imported row and a skipped one can save nothing at all |

The code departs from its documents in further places, which reading the models
against the sources showed and for which no run is kept:

* no queue has a redrive policy, so a failing message is received without limit
  (`src/README.md:422` promises a dead letter queue after three receives). A submission on
  which `judge()` always raises is never settled and its message never leaves the queue
  while its row is there: `EventuallySettled` and `QueueDrains` except it (`Hopeless`). They also except a
  message that is received behind such a one in the same batch again and again (`Overtaken`), which
  needs `poll_max_messages` above 1, the default; `pipeline_batch` has both;
* the timeout kills the child only, not its process group (`sandbox.py:76` and
  `src/README.md:872` say the group; `RunTestcase` and `SurvivorExits` model it);
* nothing produces MEMORY_LIMIT (`src/README.md:255`): a refused allocation is a
  RUNTIME_ERROR;
* a client has a rate-limit bucket in each of the four uvicorn processes, and its
  user is never known, for no session middleware is installed (`shared/ratelimit.py:5`, `:151`);
* the client can be told "Nộp bài thành công" for a row that is never committed, for
  the commit follows the response (`core/db.py:37`, `modules/submissions/router.py:54`);
* a verdict can return to JUDGING, for `mark_judging` does not look at the status, and a second
  worker's WRONG_ANSWER can replace ACCEPTED, for `update_verdict` does not either
  (`worker/db.py:82`, `:95`). `SubmissionLifecycle` and `Leaderboard` allow both;
  `OnlyOverwritingTakes` says that the board loses the overwritten acceptance and nothing else;
* a compiled Java submission cannot be run: its language is inferred from the
  extension of the binary (`sandbox.py:138`, `:225`), and `RunTestcase` raises;
* the student code of the registration form is not stored (`modules/users/router.py`);
* the profile page reads `class_name`, the two password-reset routes import `settings`
  and the export of course scores reads `total_score`, none of which exist: they
  answer 500 (the page and the export only when there is a user or a member to show);
* seven pages return rows of the ORM from a handler annotated `-> dict`. FastAPI makes the annotation the
  response model, and pydantic cannot serialize such a row: the pages of a contest
  (`modules/contests/router.py:91`), of its leaderboard (`:196`), of a course (`modules/courses/router.py:116`)
  and of a problem (`modules/problems/router.py:132`) always answer 500, the lists of contests, courses and test cases
  when there is a row to list (`Serialize`). The pages of the problem list and of submissions, which
  are not modelled, return rows in the same way;
* one end of a contest with a time zone and the other without cannot be compared: creating or updating it
  answers 500 (`modules/contests/service.py:69`, `:107`; `Incomparable`);
* a line of a CSV file with more or fewer fields than the header makes `v.strip()` raise, outside the
  `try` of the loop, and the import answers 500 (`modules/courses/service.py:183`);
* an identifier that is one user's e-mail and another's user name makes `scalar_one_or_none` raise:
  logging in or inviting with it answers 500 (`modules/users/repository.py:28`; `Ambiguous`);
* a contest or course that does not exist is a 500 on the routes that manage
  it, for `service.get` raises outside any `try` (`modules/contests/router.py:110`);
  so is a lower-case letter that is taken, and a tag given twice in two cases;
* the tags of two overlapping updates of one problem can mix, although
  `modules/tags/repository.py:55` says "Thay thế toàn bộ … (idempotent)":
  `TagsAreWhole` holds when the requests do not overlap, or when each of them gives the
  problem a body it never had. Two updates that change the row are not enough: one that
  is committed before can have put the same body there, SQLAlchemy then finds nothing to
  update, and the two that follow take no lock;
* two overlapping updates can leave a contest that ends before it starts
  (`WindowNeedsTwo` says that nothing less does);
* the progress computed for a member can exceed 100% when an assignment is committed
  between the queries (`PagesAgree` says that nothing else does it);
* a bucket of the histogram can exceed its count, for `render` adds up what `observe`
  has added up (`shared/observability.py:104`, `:123`; line 119 calls it a histogram), and a
  counter can fall from one scrape to the next, for each of the uvicorn processes
  counts for itself (`:140`);
* an accepted submission can lower a score, for the points of a problem may be negative
  (`modules/contests/schemas.py:41` sets no bound, nor does `LeaderboardAssumption`);
* compile errors are no attempts on the leaderboard, against the comment at
  `leaderboard.py:81` and in accordance with the one at line 110.

### Bounds, and why they are enough

* Pipeline: `MaxRequeues = 1` gives a submission two messages at once, the least
  with which two workers race on one row although no timeout lapses; a third
  adds no new pair of steps. `MaxFaults` (1 or 2) bounds exceptions, crashes and
  stop signals together: two let a second worker fail after the first. Two
  workers suffice for a race on one message. Two submissions matter only where
  messages share a batch or a problem (`pipeline_batch`, which leaves out the requeue and, for
  the upload has no part in it, the bucket). Two
  verdicts in `pipeline_races` tell a rewritten verdict from the first.
* Sandbox: times on, just before and just after each limit; outputs that are
  empty, right, right up to blanks, shorter, longer and above the cap; two
  messages, so that what the first leaves behind meets the second.
* Rate limiter: capacity 2, two clients, and time for two refills and for a bucket to be full
  again; five requests exceed burst plus refill in any window of two seconds. Half-second
  ticks make the rounding of Retry-After visible.
* Leaderboard: moments on both sides of a minute and of the contest's end; three
  submissions let a user fail, succeed and be overtaken; of two verdicts either can replace the
  other; one edit is enough, since
  it can come before, between or after a request's reads.
* Web tier: two requests, for every hazard listed is a race of a pair, and a
  statement waits for one transaction. `Mixes` pairs the operations that share
  tables: contests, and accounts with courses, share only problems and users with the rest, and
  the deletions of problems are in each; the pairs left out have no row or key
  in common that both of them lock or one of them writes and the other reads. The seed has for every check a row
  that passes it and one that does not: a locked and an open contest, a member
  and a stranger, a name that is taken, a student who is not active. Updates give a contest
  new ends with a time zone, without one, and one of each; a file has a ragged line. `MaxNew = 6` is no limit:
  `RoomAssumption` computes what the largest request inserts; two stamps make a user name free or taken. Requests are
  interchangeable (symmetry), except in `web_live`, where TLC cannot use symmetry
  and `LockMixes` keeps the operations that wait for locks.
* Metrics: three requests, so that one is in flight and one has ended while a third
  scrapes; one duration on a bucket and one above all.

Deadlock is not checked (`CHECK_DEADLOCK FALSE`): every instance really comes to
rest when its bounded requests, faults and messages are used up.

### Fairness

`FairSpec` assumes that a request runs to its end, that a worker that handles a
message does its next step, that a poll returns, that a crashed container is
restarted (`restart: unless-stopped` in `docker-compose.prod.yml`), and that a
visibility timeout runs out. These are weak fairness: nothing but the
process itself disables the step for good. That SQS finally delivers a visible message to workers that keep
polling is strong fairness, for a worker is busy in between and the message is
not enabled for it all the time. Nothing is assumed of operators, of the requeue
script, of failures or of the start of a worker that was stopped; the liveness
properties except a system whose workers all stay stopped, submissions on which judging always raises,
and messages that SQS puts behind one of those in a batch infinitely often: no fairness of SQS
excludes such an order.

The web tier's `FairSpec` assumes that a handler that can take its next step
takes it (the event loop runs every handler that is ready, and PostgreSQL
executes a statement whose locks are free), each request under weak fairness, since no
other disables its step for good; and that PostgreSQL resolves a deadlock
by failing some transaction in it. Nothing is assumed of lost connections.

## 4. What is proved

TLAPS proves, for every set of submissions, problems and workers and all bounds:

* `SubmissionPipelineProofs`: `TypeCorrect`, `NoSubmissionOrphaned`,
  `AcknowledgedWasHandled`, `ErrorMeansNoRow`, `StoredKeyIsReadable`,
  `StopAbandonsNothing`. The last is a step property that follows from `TypeOK`;
  `StoredKeyIsReadable` needs that every key a request keeps has
  its object (`KeysNameObjects`). The others are not inductive either. `IInv` adds that messages a worker holds under a lasting timeout
  are in flight and held by nobody else (`SoleHandler`, `BatchApart`), that the
  message of a request past its publishing has been sent and that there is no row
  before the commit (`SentBeforeCommit`), that a
  worker past `Fetch` handles a submission that was committed
  (`JudgedWasCommitted`), that a worker about to acknowledge has written or has
  missed the row (`AckedWasHandled`), and that an unjudged row has a message
  that no worker is about to acknowledge (`WaitsForWorker`). One lemma per action shows that it
  is preserved; the safety properties follow from it. The assumptions are
  those named in `SubmissionPipeline` (statuses are distinct, bounds are naturals).
  `PipelineImplementsLifecycle`, in the same module, is the refinement of `SubmissionLifecycle`, action by
  action. It adds to `IInv` only that a row a worker has marked is not
  PENDING under its hands (`MarkedBeforeJudged`); a step of the pipeline that
  leaves the table alone is a stutter of the lifecycle.
* `JudgeSandboxProofs`: `TypeCorrect`, `CpuKillJudgedLate`,
  `WorkdirsAccountedFor`, `FirstFailIsJudged`. The arithmetic of the second is the lemma
  `CpuLimitExceedsTimeLimit`: rounding the limit up to seconds and adding one is
  later than the time limit, for every number of milliseconds. `WorkdirsAreCleaned` needs that
  every attempt with a surviving process is excused (`SurvivorsExcused`), that
  nothing has run and there is no verdict before the compile step returns
  (`FreshCompile`), and that attempts are counted from one (`AttemptCounted`).
  `FirstFailIsJudged` needs `PassedSoFar`: while test cases remain, all that ran
  were passed and the running maximum is their slowest. It rests on
  `NormIsAgreement`, that two outputs of any length have the same `_norm` exactly when
  they agree line for line up to trailing blanks and empty lines, and on
  `TruncatedDiffers`, that output above the cap never equals the expected one.
  The latter holds because the notice `_truncate` appends is not a line of
  the expected output, which `OutputAssumption` says of the one place where it
  matters: a test case whose expected output is above the cap and has the
  notice at the cut could be passed by any output with that prefix.
* `RateLimiterProofs`: `BucketsStayInRange`, `NoWindowExceedsItsRule`,
  `NoNeedlessRefusal`, `AnnouncedWaitSuffices`, for all rules, clocks and
  numbers of processes, and any interleaving of requests, restarts and time. The invariant
  compares a bucket with the history of the requests it decided: what it holds is at
  most what its capacity and the refill of any window leave (`GivesNoMore`),
  at least what some window leaves (`WithholdsNothing`), and after a
  refusal it gains what was announced (`GainsAsAnnounced`).
* `LeaderboardProofs`: `TypeCorrect`, `BoardScoresByTheRules`, `RanksFollowTheRules`,
  `FirstSolverAlone`, `ScoresFollowTheVerdict`, for any users, problems, settings and
  submissions. The inductive invariant (`IInv`) only adds to the types that what a request reads is
  finite; the weight is in the algorithm. Its loop goes through the submissions in the order of
  time, and after each of them the cell has the score the rules give those so far
  (`CellIsScore`: first accepted, failures before it). A row sums its cells,
  and a sum over cells is a sum over problems and their failures (`RowIsScore`, by
  `SumOfParts`). The keys order the rows strictly (`RowsAreOrdered`), so that a sorted sequence
  of all of them exists (`SortExists`: a row's place is the number of rows before it). `ScoresFollowTheVerdict`
  compares two boards that differ in one submission: every other row has the same accepted
  submissions, and of the submitter's at most the one problem turns, from unsolved to solved or, when
  its only acceptance is overwritten, back.
* `MetricsProofs`: `TypeCorrect`, `EveryRequestCountedOnce`, `ScrapeIsConsistent`. The invariant adds that a
  request past the router has a template (`Routed`) and that what has ended runs no more and is
  finitely much (`Over`), so that one step adds one entry to one count. For the last theorem
  it says of the live dictionaries what the property says of the
  pages (`Agreeing`): `observe` adds one to a total and to one of its summands (`ObserveAgrees`).
* `FoldFacts` states what `SumFunctionOnSet`, a fold that takes elements by CHOOSE, returns. The
  recursive function it is made of exists, by induction over the sizes of subsets
  (`NatSetInduction`: the library's `WFMin` over a set of counterexamples); it is unique, and the order does not matter (`SumRemove`, `SumAdd`).
* `WebSessionProofs` and `WebTierProofs`: `SessionsKeepTables`,
  `WebTierImplementsAtomicStore`, `NoDanglingRows`, `NothingRegisteredTwice`,
  `TypeCorrect`, `WindowsBreakOnlyInPairs`, `PagesAgreeUnlessMet`, `ConcurrentTagsAreWhole`,
  `SavedImportIsWhole`, `ServerErrorsHaveACause`, for any seed, users, operations and number of requests. The first module knows nothing of the handlers: it shows that
  a session which only issues statements the database can execute (`Issues`: deletions,
  updates of columns that are in no key, inserts of complete rows at ids of its own) keeps `IInv`. That
  invariant is about uncommitted rows. A request writes only at its own ids or at rows that were there
  (`Identity`), no two transactions that may both commit
  share a key (`KeysOnce`), and whatever a row refers to is there or is deleted with it by the
  same transaction, whose remaining cascade is its next statement
  (`ParentsThere`); `Consistent(db)` alone is not
  inductive, for it says nothing about two transactions that have both passed their check and not
  committed. The second module shows for each handler, step by step, that it is such
  a session (`WebStep`), and that letters are stored in upper case, which makes the key of
  a contest problem the one `RegisteredOnce` speaks of. `TypeCorrect` needs that an id never changes its table:
  a statement fits the row it updates because a request that looked the row up by
  its table saw it, or nothing, and nobody else can insert at that id (`KnownAs`, `FitsIn`).
  `WindowsBreakOnlyInPairs` needs that requests which run together have
  met (`MetInv`); that a row an update has read is the committed one, unless an update it met was saved
  since (`Read`, `Overtaken`), and what it writes was checked with that row (`Updating`);
  and that an uncommitted window out of order is of an overtaken update (`Windows`), so
  that its commit puts two updates that overlapped on record.

  The last four speak of what a request has read and others may change since. They share
  `Effects`, which says of each kind of request which tables it inserts into, updates
  and deletes from, so that a commit leaves the other tables of a view as they were, and
  `CommitEffect`, which turns that into what one commit may do to the rows of one table.
  * `PagesAgreeUnlessMet`: rows are finitely many (`FewRows`), and what the first query
    counted or listed is what its view still has, unless a request that the page met has
    saved a change of that table (`PageSound`). Members who leave between the
    queries, and deletions that cascade, only make the page's count fall.
  * `ConcurrentTagsAreWhole`: an update that changes the body writes the problem's row, and
    keeps that row until it ends; the old links are then those it will delete, one statement
    each, and the new ones are inserted one by one (`TagSound`: once it has unlinked, the only
    links of its problem an update sees are its own and those it is about to delete, unless
    it is contested; and that the ids of new rows suffice). Of two
    editors, either one saw the other's commit or they overlapped
    (`Contested`), and what is committed of a problem's body is the seed's or some
    editor's (`Bodies`), which is why a body nobody ever gave has to lock. `Whole` is the
    property made inductive.
  * `SavedImportIsWhole`: `ImportPlace` says where in the file the import is, `ImportRoom` that
    two ids per row suffice, and `RowsEnrolled` that every row it is done with names
    a member in its view, as long as the session is intact and nobody has removed members
    (`Intact`). A row that fails leaves the session `broken`, and a broken session is never saved.
  * `ServerErrorsHaveACause`: a handler that looks before it writes does enough for a request by
    itself. Once a request has met another, nothing is claimed and it stays so; until then its
    view changes by its own statements alone. `LoneSound` says that what it found is then still so
    (`Known`, per label: the user, the contest, the free e-mail address) and that the
    statement it has issued will not fail (`Fine`: a deletion; a new row whose keys are free and whose
    parents are seen; columns that take no other row's key), unless the failure is one `FailsAlone`
    names or is caught; and that the rows a page is about to show are still there, so that its 500 has
    its cause in the tables (`ShowsRows`). That a ragged line is one of the file needs `ImportPlace`. `FineRuns` is the lemma about PostgreSQL: such a statement
    is neither stale, nor a duplicate, nor an orphan. Tags need that a request takes its ids in order and links
    each tag once (`TagsOnce`), and that its problem is there (`ProblemThere`). Nobody is the
    victim of a deadlock alone, for whoever blocks a request has met it (`VictimHasCompany`).

The assumptions are those named in the modules. Those the proofs needed beyond
positive bounds and distinct model values: the seed is itself consistent and finite and
its ids are not those of new rows (`SeedAssumption`); a request's tags and the rows of its file are
sequences, and there are ids for all that it inserts (`RoomAssumption`); Null is no id
(`NullAssumption`); an update sets only the columns its schema has, and the ends it gives without a time zone are ends it
gives (`Settable` and `naive` in `OpsAssumption`);
no contest of the seed ends before it starts (`WindowsAssumption`);
upper-casing yields a letter, and the seed's are upper case (`LettersAssumption`);
a course has a new invite code of its own, which none of the seed has (`InviteAssumption`);
user names are distinct, times of submissions natural and sets of assigned problems finite
(`LeaderboardAssumption`, which bounds neither penalties nor points, nor the order of start and end). A
foreign key is followed as a pair of table and id, so that a reference to a row of another table is none.

Every safety and step property of the passing runs is stated by a theorem. Only
model-checked is liveness (`EventuallySettled`, `QueueDrains`, `StopTakesEffect`,
`EveryRequestEnds`), which rests on fairness and so on ENABLED, which these provers cannot
reason about; and the properties of the three runs that expect a violation, which are false.

Every property of a passing run has a mutant in `PROJECT.json`: a definition
changed as a plausible bug would change it, under which TLC finds the property
violated. The mutants stand in the modules before the definitions they change.

## 5. What is not modelled

* Pages that only read one statement's rows, or that nothing but wording depends on: the
  lists of problems (whose handler names a `Request` its module never imports) and of submissions,
  and `problem_progress_for_user`. `AssignmentService.update` has no route.
* In the web tier: `contest_id` of a submission, which a deletion sets to NULL;
  the progress queries of the members one by one (they are one step); the moment between the
  uniqueness check and the foreign-key check of one statement; password hashes and tokens, of which a
  request says whether they match; text columns no decision depends on; the parsing of CSV and
  zip files, whose rows and pairs are given. The bytes of test cases in S3.
  Values that fit no column or no reader (texts longer than their column where the schema sets no bound, integers beyond
  32 bits, NUL, a field above the limit of `csv`), which are further causes of a 500; `FailsAlone` is
  complete for requests without them. Ends without a time zone are stored as the server's local time;
  the model gives them the value they have there.
* What `PagesAgree` says of the leaderboard and of course pages is said of what their handlers
  compute. As the code stands each of those responses, the export included when it has a member to show, is one of
  the 500s above, so that a contradiction would reach somebody only once they are repaired.
* Request ids, which only reach the logs.
* Time in the pipeline: a timeout may run out at any moment it is set to, a row
  may be stuck whenever it is unjudged. No property depends on how long.
* Deployments without a queue URL, whose publisher keeps the message in memory,
  and without a bucket (`HasBucket = FALSE` is a constant of the module).
* The languages' compilers and the kernel's accounting: choices within the limits.
  `RLIMIT_NPROC` counts the processes of a user across submissions and
  containers and is left out.
* Floating-point rounding in the rate limiter, and the growth of its dictionary.
* Wording, logging and layout; the frontend, the migrations and the developer
  scripts, which have no concurrent behaviour. The enum the migrations leave
  behind (`fb78a1215b22`, `d664a1aee91e`) lacks the languages C and JAVA that the models
  accept; the insert of such a submission fails, which `InsertRow` covers as a
  failing statement.

## 6. Plan

What is left would extend the models rather than the proofs: `problem_progress_for_user` and the
pages of one statement, the queries of a progress page member by member, the deployment
without a queue. Each adds reads, no writes, and would first need a property worth
stating: the invariants of `WebTierProofs` (`Effects`, `Typing`, `MetInv`) are the place to start.
