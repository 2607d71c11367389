---------------------------- MODULE JudgeSandbox ----------------------------
(***************************************************************************)
(* Judge.judge and LocalSandbox of one judge worker: a submission is       *)
(* compiled in a temporary directory, run on one test case after the other *)
(* until one fails, and the directory is removed.  What a program does on  *)
(* a test case (how it ends, after how long, what it prints, whether it    *)
(* leaves a process behind) is chosen freely.  The worker judges one       *)
(* submission at a time and may die at any moment.                         *)
(***************************************************************************)
EXTENDS Integers, Sequences, FiniteSets

CONSTANTS
  Jobs,         \* submissions
  LanguageOf,   \* row.language.lower() of each; a worker may be older than the
                \* web tier and not know it
  TestcasesOf,  \* the number of test cases of each submission's problem
  TimeLimit,    \* time_limit_ms
  Parallelism,  \* CPU seconds a program can spend in one second
  Elapsed,      \* wall-clock times (ms) after which a run may end
  Outputs,      \* what a program may print: sequences of lines
  Expected,     \* expected_output
  OutputCap,    \* OUTPUT_CAP_BYTES, in lines
  MaxAttempts   \* bound: messages handled

ASSUME JobAssumption == TestcasesOf \in [Jobs -> Nat] /\ DOMAIN LanguageOf = Jobs
ASSUME NumberAssumption ==
  /\ TimeLimit \in Nat \ {0} /\ Parallelism \in Nat \ {0}
  /\ OutputCap \in Nat /\ MaxAttempts \in Nat
  /\ Elapsed \subseteq Nat

VARIABLES
  attempt,   \* number of messages handled so far; names the current workdir
  job,       \* the submission in hand, or of the last one
  phase,     \* "idle", "compile", "run", "return" or "raise" (finally to come)
  ran,       \* what the program did on each test case so far
  maxTime,   \* max_time
  verdict,   \* JudgeOutcome: [status, time], or NoVerdict
  cause,     \* why judge() raised: "none", "compile", "command" or "output"
  workdirs,  \* attempts whose temporary directory exists
  groups,    \* attempts of whose process groups some process is alive
  excused    \* history: attempts that crashed, raised in compile, left a process

vars == <<attempt, job, phase, ran, maxTime, verdict, cause, workdirs, groups, excused>>

NoVerdict == [status |-> "NONE", time |-> 0]

-----------------------------------------------------------------------------
(* The language registry.  makes: the files a compilation leaves beside the*)
(* source; runs: the file that run_cmd names.                              *)
LANGUAGES ==
  [c      |-> [ext |-> ".c",    compiled |-> TRUE,  makes |-> {"bin"},   runs |-> "bin"],
   cpp    |-> [ext |-> ".cpp",  compiled |-> TRUE,  makes |-> {"bin"},   runs |-> "bin"],
   java   |-> [ext |-> ".java", compiled |-> TRUE,  makes |-> {"class"}, runs |-> "class"],
   python |-> [ext |-> ".py",   compiled |-> FALSE, makes |-> {},        runs |-> "src"]]

Supported(j) == LanguageOf[j] \in DOMAIN LANGUAGES

(* binary_path is the source of an interpreted program and "program",      *)
(* without extension, otherwise; run() infers the language from it.        *)
BinaryExt(l) == IF LANGUAGES[l].compiled THEN "" ELSE LANGUAGES[l].ext

InferLanguage(ext) ==
  IF \E l \in DOMAIN LANGUAGES : LANGUAGES[l].ext = ext
  THEN CHOOSE l \in DOMAIN LANGUAGES : LANGUAGES[l].ext = ext
  ELSE "cpp"

(* The file the command names exists; otherwise exec fails and             *)
(* subprocess.run raises FileNotFoundError.                                *)
CommandExists(l) ==
  LANGUAGES[InferLanguage(BinaryExt(l))].runs \in {"src"} \cup LANGUAGES[l].makes

-----------------------------------------------------------------------------
(* Outputs.  A line is its text and whether blanks trail it.               *)

BlankLine == [text |-> "", trail |-> FALSE]
Notice == [text |-> "[...output truncated...]", trail |-> FALSE]
RStrip(line) == [text |-> line.text, trail |-> FALSE]

(* Where a truncated output ends, the expected one does not hold the text  *)
(* of the notice: a program could otherwise print too much and be accepted.*)
ASSUME OutputAssumption ==
  /\ Outputs \subseteq Seq([text : STRING, trail : BOOLEAN])
  /\ Expected \in Seq([text : STRING, trail : BOOLEAN])
  /\ OutputCap + 1 \in DOMAIN Expected => Expected[OutputCap + 1].text # Notice.text

(* _truncate of the sandbox.                                               *)
Truncate(out) ==
  IF Len(out) <= OutputCap THEN out ELSE Append(SubSeq(out, 1, OutputCap), Notice)

(* _norm: every line stripped, blank lines at the end dropped.             *)
Norm(out) ==
  LET stripped == [i \in 1..Len(out) |-> RStrip(out[i])]
      full == {i \in 1..Len(out) : stripped[i] # BlankLine}
      last == IF full = {} THEN 0 ELSE CHOOSE i \in full : \A k \in full : k <= i
  IN SubSeq(stripped, 1, last)

(* Mutant of OutputEqual: a program that stops early is accepted.          *)
OutputPrefix(got, expected) ==
  LET g == Norm(got) IN
    Len(g) <= Len(Norm(expected)) /\ g = SubSeq(Norm(expected), 1, Len(g))

OutputEqual(got, expected) == Norm(got) = Norm(expected)

-----------------------------------------------------------------------------
(* One run.  timeout_sec is in milliseconds here.                          *)

Timeout == TimeLimit + 500

(* Mutant of CpuLimitSec: no second on top.                                *)
CpuLimitTight == (TimeLimit + 999) \div 1000

CpuLimitSec == LET s == (TimeLimit + 999) \div 1000 + 1 IN IF s < 1 THEN 1 ELSE s

(* What a program can do: end by itself with an exit code (a refused       *)
(* allocation is an end of this kind); be killed by RLIMIT_CPU; or run     *)
(* into the timeout, having printed something or not.  A process it forked *)
(* may survive it.                                                         *)
Behaviours ==
  LET Run(ends, codes, times, outs) ==
        [ends : ends, code : codes, elapsed : times, out : outs, text : BOOLEAN,
         forks : BOOLEAN]
  IN Run({"exit"}, {0}, Elapsed, Outputs)
     \cup Run({"exit"}, {1}, Elapsed, {<<>>})
     \cup Run({"cpu"}, {-9}, {e \in Elapsed : e * Parallelism >= CpuLimitSec * 1000}, {<<>>})
     \cup Run({"timeout"}, {124}, {e \in Elapsed : e >= Timeout}, Outputs)

(* text is FALSE for bytes that are not UTF-8: decoding raises.  On a      *)
(* timeout e.stdout is bytes, or None when nothing was printed, and        *)
(* _truncate of bytes raises.                                              *)
RunRaises(b) ==
  IF b.ends = "timeout" THEN b.out # <<>> ELSE ~ b.text

(* Mutant of RunResult: only the hard timeout counts.                      *)
HardTimeoutOnly(b) ==
  [stdout |-> Truncate(b.out), code |-> b.code, time |-> b.elapsed,
   timedOut |-> b.ends = "timeout"]

RunResult(b) ==
  [stdout |-> Truncate(b.out), code |-> b.code, time |-> b.elapsed,
   timedOut |-> b.ends = "timeout" \/ b.elapsed > TimeLimit]

(* The status with which a run ends the judging, or "PASSED".              *)
StatusOf(r) ==
  IF r.timedOut THEN "TIME_LIMIT"
  ELSE IF r.code # 0 THEN "RUNTIME_ERROR"
  ELSE IF ~ OutputEqual(r.stdout, Expected) THEN "WRONG_ANSWER"
  ELSE "PASSED"

-----------------------------------------------------------------------------
(* Mutant of Start: the last outcome is not reset.                         *)
StartKeepsVerdict(j) ==
  /\ phase = "idle" /\ attempt < MaxAttempts
  /\ attempt' = attempt + 1
  /\ job' = j
  /\ phase' = "compile"
  /\ ran' = <<>> /\ maxTime' = 0 /\ cause' = "none"
  /\ UNCHANGED <<verdict, workdirs, groups, excused>>

(* A message is in hand and judge() is called.                             *)
Start(j) ==
  /\ phase = "idle" /\ attempt < MaxAttempts
  /\ attempt' = attempt + 1
  /\ job' = j
  /\ phase' = "compile"
  /\ ran' = <<>> /\ maxTime' = 0 /\ verdict' = NoVerdict /\ cause' = "none"
  /\ UNCHANGED <<workdirs, groups, excused>>

Return(status, time) ==
  /\ phase' = "return"
  /\ verdict' = [status |-> status, time |-> time]
  /\ UNCHANGED cause

(* sandbox.compile: an unknown language has no workdir.  It is not inside  *)
(* judge()'s try, so an exception in it (the disk is full, the compiler's  *)
(* output is not UTF-8) reaches the worker with the workdir left behind.   *)
(* No test cases counts as a compile error.                                *)
Compile ==
  /\ phase = "compile"
  /\ workdirs' = IF Supported(job) THEN workdirs \cup {attempt} ELSE workdirs
  /\ \/ /\ Supported(job) /\ TestcasesOf[job] > 0
        /\ phase' = "run"
        /\ UNCHANGED <<verdict, cause, excused>>
     \/ /\ Supported(job) => LANGUAGES[LanguageOf[job]].compiled \/ TestcasesOf[job] = 0
        /\ Return("COMPILE_ERROR", 0)
        /\ UNCHANGED excused
     \/ /\ Supported(job)
        /\ phase' = "idle" /\ cause' = "compile"
        /\ excused' = excused \cup {attempt}
        /\ UNCHANGED verdict
  /\ UNCHANGED <<attempt, job, ran, maxTime, groups>>

Raise(why) ==
  /\ phase' = "raise" /\ cause' = why
  /\ UNCHANGED verdict

(* sandbox.run: the command does not exist.                                *)
CommandMissing ==
  /\ phase = "run" /\ ~ CommandExists(LanguageOf[job])
  /\ Raise("command")
  /\ UNCHANGED <<attempt, job, ran, maxTime, workdirs, groups, excused>>

(* One iteration over the test cases.  Only the child itself is waited for *)
(* or killed: a process it forked lives on, in the child's own session.    *)
RunTestcase(b) ==
  /\ phase = "run" /\ CommandExists(LanguageOf[job])
  /\ ran' = Append(ran, b)
  /\ groups' = IF b.forks THEN groups \cup {attempt} ELSE groups
  /\ excused' = IF b.forks THEN excused \cup {attempt} ELSE excused
  /\ \/ RunRaises(b) /\ Raise("output") /\ UNCHANGED maxTime
     \/ /\ ~ RunRaises(b)
        /\ LET r == RunResult(b) IN
             /\ maxTime' = IF r.time > maxTime THEN r.time ELSE maxTime
             /\ \/ StatusOf(r) # "PASSED" /\ Return(StatusOf(r), maxTime')
                \/ /\ StatusOf(r) = "PASSED" /\ Len(ran') = TestcasesOf[job]
                   /\ Return("ACCEPTED", maxTime')
                \/ /\ StatusOf(r) = "PASSED" /\ Len(ran') < TestcasesOf[job]
                   /\ UNCHANGED <<phase, verdict, cause>>
  /\ UNCHANGED <<attempt, job, workdirs>>

(* Mutant of Cleanup: not in a finally clause.                             *)
CleanupOnReturn ==
  /\ phase \in {"return", "raise"}
  /\ phase' = "idle"
  /\ workdirs' = IF phase = "return" THEN workdirs \ {attempt} ELSE workdirs
  /\ UNCHANGED <<attempt, job, ran, maxTime, verdict, cause, groups, excused>>

(* finally: sandbox.cleanup.  rmtree ignores its errors, and a surviving   *)
(* process that goes on writing can make it fail.                          *)
Cleanup ==
  /\ phase \in {"return", "raise"}
  /\ phase' = "idle"
  /\ \/ workdirs' = workdirs \ {attempt}
     \/ attempt \in groups /\ UNCHANGED workdirs
  /\ UNCHANGED <<attempt, job, ran, maxTime, verdict, cause, groups, excused>>

SurvivorExits(a) ==
  /\ a \in groups
  /\ groups' = groups \ {a}
  /\ UNCHANGED <<attempt, job, phase, ran, maxTime, verdict, cause, workdirs, excused>>

(* The container dies with all its processes; a restarted one has the file *)
(* system it had.                                                          *)
Crash ==
  /\ phase # "idle"
  /\ phase' = "idle"
  /\ groups' = {}
  /\ excused' = excused \cup {attempt}
  /\ UNCHANGED <<attempt, job, ran, maxTime, verdict, cause, workdirs>>

Init ==
  /\ attempt = 0 /\ job \in Jobs
  /\ phase = "idle"
  /\ ran = <<>> /\ maxTime = 0 /\ verdict = NoVerdict /\ cause = "none"
  /\ workdirs = {} /\ groups = {} /\ excused = {}

Next ==
  \/ \E j \in Jobs : Start(j)
  \/ Compile \/ CommandMissing \/ Cleanup \/ Crash
  \/ \E b \in Behaviours : RunTestcase(b)
  \/ \E a \in 1..MaxAttempts : SurvivorExits(a)

Spec == Init /\ [][Next]_vars

-----------------------------------------------------------------------------
(* The shape of the state: a run in progress has a directory, a verdict    *)
(* appears when judge() returns (judge.py:38-109).                         *)
TypeOK ==
  /\ attempt \in 0..MaxAttempts /\ job \in Jobs
  /\ phase \in {"idle", "compile", "run", "return", "raise"}
  /\ ran \in Seq(Behaviours) /\ maxTime \in Nat
  /\ verdict.time \in Nat
  /\ cause \in {"none", "compile", "command", "output"}
  /\ workdirs \subseteq 1..attempt /\ groups \subseteq 1..attempt
  /\ excused \subseteq 1..attempt
  /\ phase = "run" => attempt \in workdirs /\ verdict = NoVerdict
  /\ phase = "return" => verdict # NoVerdict

(* Two outputs agree when they agree line by line up to trailing blanks,   *)
(* missing lines counting as blank ones.                                   *)
Agree(got, expected) ==
  LET Line(s, i) == IF i \in 1..Len(s) THEN s[i].text ELSE ""
  IN \A i \in 1..(Len(got) + Len(expected)) : Line(got, i) = Line(expected, i)

(* A program passes a test case by ending by itself, in time, successfully *)
(* and with the expected output, which must fit under the output cap.      *)
Passes(b) ==
  /\ b.ends = "exit" /\ b.code = 0 /\ b.elapsed <= TimeLimit
  /\ Len(b.out) <= OutputCap /\ Agree(b.out, Expected)

(* The verdict is the one of the first test case the program fails, and    *)
(* ACCEPTED exactly when it passes all of them; the time reported is the   *)
(* slowest run's (judge.py:3-11, 64-107).                                  *)
VerdictIsFirstFail ==
  phase = "return" =>
    LET n == Len(ran)
        passed == \A i \in 1..(n - 1) : Passes(ran[i])
        fails == n > 0 /\ ~ Passes(ran[n])
        late == ran[n].ends = "timeout" \/ ran[n].elapsed > TimeLimit
    IN /\ verdict.status = "COMPILE_ERROR" <=> n = 0
       /\ verdict.status = "ACCEPTED"
            => passed /\ n = TestcasesOf[job] /\ Passes(ran[n])
       /\ verdict.status = "TIME_LIMIT" => passed /\ fails /\ late
       /\ verdict.status = "RUNTIME_ERROR" => passed /\ fails /\ ~ late /\ ran[n].code # 0
       /\ verdict.status = "WRONG_ANSWER" => passed /\ fails /\ ~ late /\ ran[n].code = 0
       /\ \A i \in 1..n : ran[i].elapsed <= verdict.time
       /\ n > 0 => \E i \in 1..n : ran[i].elapsed = verdict.time

(* A single-threaded program that RLIMIT_CPU kills has used up its time    *)
(* limit: it gets TIME_LIMIT and never RUNTIME_ERROR (sandbox.py:152-154). *)
CpuKillIsTimeLimit ==
  Parallelism = 1 =>
    (phase = "return" /\ ran # <<>> /\ ran[Len(ran)].ends = "cpu"
       => verdict.status = "TIME_LIMIT")

(* Whatever way judge() ends, its temporary directory goes with it, unless *)
(* compile raised, the container died or a process of the program survived *)
(* (judge.py:108-109, sandbox.py:214-216).                                 *)
WorkdirsAreCleaned ==
  workdirs \subseteq excused \cup (IF phase = "idle" THEN {} ELSE {attempt})

-----------------------------------------------------------------------------
(* What the documentation says and the code does not keep.                 *)

(* timed_out => TIME_LIMIT_EXCEEDED (judge.py:6): a program that runs into *)
(* the timeout never makes judge() raise.                                  *)
TimeoutIsVerdict ==
  phase = "raise" /\ ran # <<>> => ran[Len(ran)].ends # "timeout"
=============================================================================
