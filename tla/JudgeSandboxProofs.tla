------------------------- MODULE JudgeSandboxProofs -------------------------
(* Proofs about JudgeSandbox.  The inductive invariant adds to the proved  *)
(* properties what the phases of judge() say about the history of the run  *)
(* and that a surviving process is accounted for in excused.  A second one *)
(* is about the verdict; it rests on what _norm and _truncate compute.     *)
EXTENDS JudgeSandbox, WellFoundedInduction, SequenceTheorems, TLAPS

(* Nothing has run before compile returns.                                 *)
FreshCompile == phase = "compile" => ran = <<>> /\ verdict = NoVerdict

(* A process that outlives its run excuses its work directory.             *)
SurvivorsExcused == groups \subseteq excused

(* judge() works on behalf of some message.                                *)
AttemptCounted == phase # "idle" => attempt > 0

IInv == /\ TypeOK /\ FreshCompile /\ AttemptCounted /\ SurvivorsExcused
        /\ WorkdirsAreCleaned /\ CpuKillIsTimeLimit

-----------------------------------------------------------------------------
(* What a program does takes a natural number of milliseconds.             *)
LEMMA ElapsedIsNat ==
  ASSUME NEW b \in Behaviours PROVE b.elapsed \in Nat
BY NumberAssumption DEF Behaviours

(* RLIMIT_CPU is a whole second and never below the time limit, so that a  *)
(* program which has used it up is beyond the time limit.                  *)
LEMMA CpuLimitExceedsTimeLimit ==
  CpuLimitSec \in Nat /\ CpuLimitSec * 1000 > TimeLimit
BY NumberAssumption DEF CpuLimitSec

(* With one thread a run that RLIMIT_CPU ends is over the time limit.      *)
LEMMA CpuKillIsLate ==
  ASSUME NEW b \in Behaviours, b.ends = "cpu", Parallelism = 1
  PROVE  StatusOf(RunResult(b)) = "TIME_LIMIT"
<1>1. b.elapsed \in Nat
  BY ElapsedIsNat
<1>2. b.elapsed * Parallelism >= CpuLimitSec * 1000
  BY DEF Behaviours
<1>3. b.elapsed > TimeLimit
  BY <1>1, <1>2, CpuLimitExceedsTimeLimit, NumberAssumption
<1> QED
  BY <1>3 DEF StatusOf, RunResult

-----------------------------------------------------------------------------
LEMMA InitIInv == Init => IInv
BY JobAssumption, NumberAssumption
DEF Init, IInv, TypeOK, FreshCompile, AttemptCounted, SurvivorsExcused, WorkdirsAreCleaned,
    CpuKillIsTimeLimit, NoVerdict

(* Start, the steps of judge() and the worker's death preserve IInv.       *)
LEMMA NextIInv == IInv /\ [Next]_vars => IInv'
<1> SUFFICES ASSUME IInv, [Next]_vars PROVE IInv'
  OBVIOUS
<1> USE NumberAssumption
<1>1. ASSUME NEW j \in Jobs, Start(j) PROVE IInv'
  BY <1>1 DEF IInv, TypeOK, FreshCompile, AttemptCounted, SurvivorsExcused, WorkdirsAreCleaned,
              CpuKillIsTimeLimit, Start, NoVerdict
<1>2. CASE Compile
  <2>1. /\ phase = "compile" /\ attempt \in 1..attempt /\ ran = <<>> /\ verdict = NoVerdict
        /\ attempt' = attempt /\ job' = job /\ ran' = ran /\ maxTime' = maxTime
        /\ groups' = groups
        /\ workdirs' \in {workdirs, workdirs \cup {attempt}}
    BY <1>2 DEF Compile, IInv, TypeOK, FreshCompile, AttemptCounted
  <2>2. \/ /\ phase' = "run" /\ workdirs' = workdirs \cup {attempt}
           /\ UNCHANGED <<verdict, cause, excused>>
        \/ /\ phase' = "return" /\ verdict' = [status |-> "COMPILE_ERROR", time |-> 0]
           /\ UNCHANGED <<cause, excused>>
        \/ /\ phase' = "idle" /\ cause' = "compile"
           /\ excused' = excused \cup {attempt} /\ UNCHANGED verdict
    BY <1>2 DEF Compile, Return
  <2>3. TypeOK'
    <3>1. /\ workdirs' \subseteq 1..attempt' /\ excused' \subseteq 1..attempt'
          /\ groups' \subseteq 1..attempt' /\ attempt' \in 0..MaxAttempts /\ job' \in Jobs
      BY <2>1, <2>2 DEF IInv, TypeOK
    <3>2. verdict'.time \in Nat /\ (phase' = "return" => verdict' # NoVerdict)
      BY <2>1, <2>2 DEF IInv, TypeOK, NoVerdict
    <3>3. phase' = "run" => attempt' \in workdirs' /\ verdict' = NoVerdict
      BY <2>1, <2>2
    <3>4. cause' \in {"none", "compile", "command", "output"}
      BY <2>2 DEF IInv, TypeOK
    <3>5. phase' \in {"idle", "compile", "run", "return", "raise"}
      BY <2>2
    <3>6. ran' \in Seq(Behaviours) /\ maxTime' \in Nat
      BY <2>1 DEF IInv, TypeOK
    <3> QED
      BY <3>1, <3>2, <3>3, <3>4, <3>5, <3>6 DEF TypeOK
  <2>4. FreshCompile' /\ AttemptCounted' /\ SurvivorsExcused' /\ WorkdirsAreCleaned'
    BY <2>1, <2>2 DEF IInv, FreshCompile, AttemptCounted, SurvivorsExcused, WorkdirsAreCleaned
  <2>5. CpuKillIsTimeLimit'
    BY <2>1 DEF CpuKillIsTimeLimit
  <2> QED
    BY <2>3, <2>4, <2>5 DEF IInv
<1>3. CASE CommandMissing
  BY <1>3 DEF IInv, TypeOK, FreshCompile, AttemptCounted, SurvivorsExcused, WorkdirsAreCleaned,
              CpuKillIsTimeLimit, CommandMissing, Raise
<1>4. ASSUME NEW b \in Behaviours, RunTestcase(b) PROVE IInv'
  <2>1. ran' \in Seq(Behaviours) /\ ran' # <<>> /\ ran'[Len(ran')] = b
    BY <1>4 DEF IInv, TypeOK, RunTestcase
  <2>2. RunResult(b).time \in Nat
    BY ElapsedIsNat DEF RunResult
  <2>3. StatusOf(RunResult(b)) \in {"TIME_LIMIT", "RUNTIME_ERROR", "WRONG_ANSWER", "PASSED"}
    BY DEF StatusOf
  <2>4. maxTime' \in Nat
    BY <1>4, <2>2 DEF RunTestcase, IInv, TypeOK
  <2>5. /\ attempt' = attempt /\ job' = job /\ workdirs' = workdirs
        /\ phase = "run" /\ phase' \in {"run", "return", "raise"}
        /\ phase' = "run" => verdict' = verdict
    BY <1>4 DEF RunTestcase, Raise, Return
  <2>6. verdict'.time \in Nat /\ cause' \in {"none", "compile", "command", "output"}
    BY <1>4, <2>4 DEF RunTestcase, Raise, Return, IInv, TypeOK
  <2>7. phase' = "return" => /\ StatusOf(RunResult(b)) # "PASSED"
                                  => verdict'.status = StatusOf(RunResult(b))
                             /\ verdict'.status \in {"TIME_LIMIT", "RUNTIME_ERROR",
                                                     "WRONG_ANSWER", "ACCEPTED"}
    BY <1>4, <2>3, <2>5 DEF RunTestcase, Raise, Return
  <2>8. attempt \in 1..attempt
    BY <2>5 DEF IInv, TypeOK, AttemptCounted
  <2>9. /\ groups' \in {groups, groups \cup {attempt}}
        /\ excused' \in {excused, excused \cup {attempt}}
        /\ groups' # groups => excused' = excused \cup {attempt}
    BY <1>4 DEF RunTestcase
  <2>10. TypeOK'
    BY <2>1, <2>4, <2>5, <2>6, <2>7, <2>8, <2>9 DEF IInv, TypeOK, NoVerdict
  <2>11. AttemptCounted' /\ FreshCompile' /\ SurvivorsExcused' /\ WorkdirsAreCleaned'
    BY <2>5, <2>9 DEF IInv, AttemptCounted, FreshCompile, SurvivorsExcused, WorkdirsAreCleaned
  <2>12. CpuKillIsTimeLimit'
    BY <2>1, <2>7, CpuKillIsLate DEF CpuKillIsTimeLimit
  <2> QED
    BY <2>10, <2>11, <2>12 DEF IInv
<1>5. CASE Cleanup
  BY <1>5 DEF IInv, TypeOK, FreshCompile, AttemptCounted, SurvivorsExcused, WorkdirsAreCleaned,
              CpuKillIsTimeLimit, Cleanup
<1>6. ASSUME NEW a \in 1..MaxAttempts, SurvivorExits(a) PROVE IInv'
  BY <1>6 DEF IInv, TypeOK, FreshCompile, AttemptCounted, SurvivorsExcused, WorkdirsAreCleaned,
              CpuKillIsTimeLimit, SurvivorExits
<1>7. CASE Crash
  BY <1>7 DEF IInv, TypeOK, FreshCompile, AttemptCounted, SurvivorsExcused, WorkdirsAreCleaned,
              CpuKillIsTimeLimit, Crash
<1>8. CASE UNCHANGED vars
  BY <1>8 DEF IInv, TypeOK, FreshCompile, AttemptCounted, SurvivorsExcused, WorkdirsAreCleaned,
              CpuKillIsTimeLimit, vars
<1> QED
  BY <1>1, <1>2, <1>3, <1>4, <1>5, <1>6, <1>7, <1>8 DEF Next

LEMMA Invariance == Spec => []IInv
BY InitIInv, NextIInv, PTL DEF Spec

(* The state keeps its shape (judge.py:38-109).                            *)
THEOREM TypeCorrect == Spec => []TypeOK
<1>1. IInv => TypeOK
  BY DEF IInv
<1> QED
  BY <1>1, Invariance, PTL

(* For every time limit, a single-threaded program that RLIMIT_CPU kills   *)
(* is judged TIME_LIMIT (sandbox.py:152-154, 194-203).                     *)
THEOREM CpuKillJudgedLate == Spec => []CpuKillIsTimeLimit
<1>1. IInv => CpuKillIsTimeLimit
  BY DEF IInv
<1> QED
  BY <1>1, Invariance, PTL

(* However many submissions, crashes and surviving processes, a work       *)
(* directory that outlives its judging has one of the three known causes   *)
(* (judge.py:108-109).                                                     *)
THEOREM WorkdirsAccountedFor == Spec => []WorkdirsAreCleaned
<1>1. IInv => WorkdirsAreCleaned
  BY DEF IInv
<1> QED
  BY <1>1, Invariance, PTL
-----------------------------------------------------------------------------
(* The comparison of outputs.  Lines has the notice of its own, for the    *)
(* provers do not know that a string literal is a STRING.                  *)
Lines == [text : STRING \cup {Notice.text}, trail : BOOLEAN]

LEMMA OutputsAreLines ==
  Outputs \subseteq Seq(Lines) /\ Expected \in Seq(Lines) /\ Notice \in Lines
<1> DEFINE Strings == [text : STRING, trail : BOOLEAN]
<1>1. Strings \subseteq Lines
  BY DEF Lines
<1>2. Notice \in Lines
  <2>1. Notice.trail \in BOOLEAN /\ Notice = [text |-> Notice.text, trail |-> Notice.trail]
    BY DEF Notice
  <2> QED
    BY <2>1 DEF Lines
<1>3. Outputs \subseteq Seq(Strings) /\ Expected \in Seq(Strings)
  BY OutputAssumption
<1> HIDE DEF Strings
<1>4. ASSUME NEW s \in Seq(Strings) PROVE s \in Seq(Lines)
  BY <1>1, SeqMonotonic
<1> QED
  BY <1>2, <1>3, <1>4

(* A line is blank when nothing but blanks trail its text.                 *)
LEMMA Stripped ==
  ASSUME NEW line
  PROVE  (RStrip(line) # BlankLine) <=> (line.text # "")
<1>1. RStrip(line) = BlankLine => line.text = ""
  BY DEF RStrip, BlankLine
<1>2. line.text = "" => RStrip(line) = BlankLine
  BY DEF RStrip, BlankLine
<1> QED
  BY <1>1, <1>2

(* A set of natural numbers that is not empty has a least one.             *)
Below == {ss \in Nat \X Nat : ss[1] < ss[2]}

LEMMA LeastNat ==
  ASSUME NEW T \in SUBSET Nat, T # {}
  PROVE \E x \in T : \A y \in T : x <= y
<1>1. IsWellFoundedOn(Below, Nat)
  BY NatLessThanWellFounded, Zenon DEF OpToRel, Below
<1>2. PICK x \in T : \A y \in T : ~ (<<y, x>> \in Below)
  BY <1>1, WFMin
<1>3. ASSUME NEW y \in Nat, y < x PROVE <<y, x>> \in Below
  BY <1>3 DEF Below
<1>4. \A y \in T : ~ (y < x)
  BY <1>2, <1>3
<1> QED
  BY <1>4

(* It has a greatest one when it is bounded.                               *)
LEMMA GreatestNat ==
  ASSUME NEW n \in Nat, NEW T \in SUBSET (1..n), T # {}
  PROVE \E x \in T : \A y \in T : y <= x
<1> DEFINE U == {u \in Nat : \A y \in T : y <= u}
<1>1. n \in U
  OBVIOUS
<1>2. PICK x \in U : \A y \in U : x <= y
  BY <1>1, LeastNat
<1>3. ASSUME x \notin T PROVE FALSE
  <2>1. PICK y \in T : TRUE
    OBVIOUS
  <2>2. y \in 1..n /\ y <= x /\ x \in Nat
    BY <1>2, <2>1
  <2>3. x - 1 \in Nat
    BY <2>2
  <2>4. ASSUME NEW z \in T PROVE z <= x - 1
    <3>1. z \in 1..n /\ z <= x /\ z # x
      BY <1>2, <1>3
    <3> QED
      BY <2>2, <3>1
  <2>5. x - 1 \in U
    BY <2>3, <2>4
  <2>6. x <= x - 1
    BY <1>2, <2>5
  <2> QED
    BY <2>2, <2>6
<1>4. x \in T /\ \A y \in T : y <= x
  BY <1>2, <1>3
<1> QED
  BY <1>4

(* The last line of out that is not blank is its nth; with none, n is 0.   *)
Ends(out, n) ==
  /\ n \in 0..Len(out)
  /\ n # 0 => out[n].text # ""
  /\ \A i \in 1..Len(out) : i > n => out[i].text = ""

(* _norm strips the lines up to the last that is not blank.                *)
LEMMA NormAt ==
  ASSUME NEW out \in Seq(Lines)
  PROVE  \E n \in 0..Len(out) :
           /\ Ends(out, n)
           /\ Norm(out) \in Seq(Lines) /\ Len(Norm(out)) = n
           /\ \A i \in 1..n : Norm(out)[i] = RStrip(out[i])
<1> DEFINE stripped == [i \in 1..Len(out) |-> RStrip(out[i])]
           full == {i \in 1..Len(out) : stripped[i] # BlankLine}
           last == IF full = {} THEN 0 ELSE CHOOSE i \in full : \A k \in full : k <= i
<1>1. Len(out) \in Nat /\ stripped \in Seq(Lines) /\ Len(stripped) = Len(out)
  <2>1. \A i \in 1..Len(out) : RStrip(out[i]) \in Lines
    <3>1. \A i \in 1..Len(out) : out[i] \in Lines
      OBVIOUS
    <3> QED
      BY <3>1 DEF RStrip, Lines
  <2> QED
    BY <2>1
<1>2. Norm(out) = SubSeq(stripped, 1, last)
  BY DEF Norm
<1>3. \A i \in 1..Len(out) : stripped[i] = RStrip(out[i])
  OBVIOUS
<1>4. full \in SUBSET (1..Len(out)) /\ \A i \in 1..Len(out) : i \in full <=> out[i].text # ""
  <2>1. ASSUME NEW i \in 1..Len(out) PROVE i \in full <=> out[i].text # ""
    BY <1>3, Stripped
  <2> QED
    BY <2>1
<1> HIDE DEF full, stripped
<1>5. last \in 0..Len(out) /\ Ends(out, last)
  <2>1. CASE full = {}
    <3>1. last = 0
      BY <2>1
    <3> HIDE DEF last
    <3>2. \A i \in 1..Len(out) : out[i].text = ""
      BY <1>4, <2>1
    <3>3. last \in 0..Len(out)
      BY <1>1, <3>1
    <3> QED
      BY <3>1, <3>2, <3>3 DEF Ends
  <2>2. CASE full # {}
    <3>1. \E i \in full : \A k \in full : k <= i
      BY <1>1, <1>4, <2>2, GreatestNat
    <3>2. last \in full /\ \A k \in full : k <= last
      BY <2>2, <3>1
    <3> HIDE DEF last
    <3>3. last \in 1..Len(out)
      BY <1>4, <3>2
    <3>4. out[last].text # ""
      BY <1>4, <3>2, <3>3
    <3>5. ASSUME NEW i \in 1..Len(out), i > last PROVE out[i].text = ""
      <4>1. ~ (i <= last)
        BY <1>1, <3>3, <3>5
      <4> QED
        BY <1>4, <3>2, <4>1
    <3>6. last \in 0..Len(out)
      BY <1>1, <3>3
    <3> QED
      BY <3>4, <3>5, <3>6 DEF Ends
  <2> QED
    BY <2>1, <2>2
<1> HIDE DEF last
<1>6. /\ Norm(out) \in Seq(Lines) /\ Len(Norm(out)) = last
      /\ \A i \in 1..last : Norm(out)[i] = stripped[i]
  BY <1>1, <1>2, <1>5
<1> QED
  BY <1>1, <1>3, <1>5, <1>6

(* The text of a line, missing lines being blank.                          *)
Text(s, i) == IF i \in 1..Len(s) THEN s[i].text ELSE ""
LEMMA TextEnds ==
  ASSUME NEW s \in Seq(Lines), NEW n \in Nat, Ends(s, n)
  PROVE  /\ n # 0 => Text(s, n) # ""
         /\ \A i \in Nat : i > n => Text(s, i) = ""
         /\ \A i \in 1..n : Text(s, i) = s[i].text
<1>1. /\ n \in 0..Len(s)
      /\ n # 0 => s[n].text # ""
      /\ \A i \in 1..Len(s) : i > n => s[i].text = ""
  BY Zenon DEF Ends
<1>2. \A i \in 1..n : i \in 1..Len(s)
  <2>1. n \in 0..Len(s)
    BY <1>1, Zenon
  <2> QED
    BY <2>1
<1>3. \A i \in 1..n : Text(s, i) = s[i].text
  BY <1>2, Zenon DEF Text
<1>4. n # 0 => n \in 1..n
  OBVIOUS
<1>5. n # 0 => Text(s, n) # ""
  BY <1>1, <1>3, <1>4, Zenon
<1>6. \A i \in Nat : i > n => Text(s, i) = ""
  BY <1>1, Zenon DEF Text
<1> QED
  BY <1>3, <1>5, <1>6, Zenon

(* Outputs agree when their texts do, at whatever index.                   *)
LEMMA AgreeText ==
  ASSUME NEW s \in Seq(Lines), NEW t \in Seq(Lines)
  PROVE  Agree(s, t) <=> \A i \in Nat \ {0} : Text(s, i) = Text(t, i)
<1>1. Agree(s, t) <=> \A i \in 1..(Len(s) + Len(t)) : Text(s, i) = Text(t, i)
  BY DEF Agree, Text
<1>2. Len(s) \in Nat /\ Len(t) \in Nat
  OBVIOUS
<1>3. ASSUME NEW i \in Nat, i > Len(s) + Len(t) PROVE Text(s, i) = "" /\ Text(t, i) = ""
  <2>1. i \notin 1..Len(s) /\ i \notin 1..Len(t)
    BY <1>2, <1>3
  <2> QED
    BY <2>1 DEF Text
<1>4. \A i \in Nat \ {0} : i \in 1..(Len(s) + Len(t)) \/ i > Len(s) + Len(t)
  BY <1>2
<1>5. \A i \in 1..(Len(s) + Len(t)) : i \in Nat \ {0}
  BY <1>2
<1> QED
  BY <1>1, <1>3, <1>4, <1>5

(* Comparing what _norm returns is comparing the texts of the lines.       *)
LEMMA NormIsAgreement ==
  ASSUME NEW s \in Seq(Lines), NEW t \in Seq(Lines)
  PROVE  Norm(s) = Norm(t) <=> Agree(s, t)
<1>1. PICK n \in 0..Len(s) :
        /\ Ends(s, n) /\ Norm(s) \in Seq(Lines) /\ Len(Norm(s)) = n
        /\ \A i \in 1..n : Norm(s)[i] = RStrip(s[i])
  BY NormAt
<1>2. PICK m \in 0..Len(t) :
        /\ Ends(t, m) /\ Norm(t) \in Seq(Lines) /\ Len(Norm(t)) = m
        /\ \A i \in 1..m : Norm(t)[i] = RStrip(t[i])
  BY NormAt
<1>3. n \in Nat /\ m \in Nat
  BY <1>1, <1>2
<1>4. ASSUME Norm(s) = Norm(t) PROVE Agree(s, t)
  <2>1. n = m
    BY <1>1, <1>2, <1>4
  <2>2. ASSUME NEW i \in Nat \ {0} PROVE Text(s, i) = Text(t, i)
    <3>1. CASE i \in 1..n
      <4>1. RStrip(s[i]) = RStrip(t[i])
        BY <1>1, <1>2, <1>4, <2>1, <3>1
      <4>2. s[i].text = t[i].text
        BY <4>1 DEF RStrip
      <4>3. Text(s, i) = s[i].text
        BY <1>1, <1>3, <3>1, TextEnds
      <4>4. Text(t, i) = t[i].text
        BY <1>2, <1>3, <2>1, <3>1, TextEnds
      <4> QED
        BY <4>2, <4>3, <4>4, Zenon
    <3>2. CASE i > n
      BY <1>1, <1>2, <1>3, <2>1, <3>2, TextEnds
    <3> QED
      BY <1>3, <3>1, <3>2
  <2> QED
    BY <2>2, AgreeText
<1>5. ASSUME Agree(s, t) PROVE Norm(s) = Norm(t)
  <2>1. \A i \in Nat \ {0} : Text(s, i) = Text(t, i)
    BY <1>5, AgreeText
  <2>2. ASSUME n > m PROVE FALSE
    <3>1. Text(s, n) # "" /\ Text(t, n) = Text(s, n)
      <4>1. n \in Nat \ {0} /\ n # 0
        BY <1>3, <2>2
      <4> QED
        BY <1>1, <1>3, <2>1, <4>1, TextEnds, Zenon
    <3> QED
      BY <1>2, <1>3, <2>2, <3>1, TextEnds
  <2>3. n = m
    <3>1. ASSUME m > n PROVE FALSE
      <4>1. Text(t, m) # "" /\ Text(t, m) = Text(s, m)
        <5>1. m \in Nat \ {0} /\ m # 0
          BY <1>3, <3>1
        <5> QED
          BY <1>2, <1>3, <2>1, <5>1, TextEnds, Zenon
      <4> QED
        BY <1>1, <1>3, <3>1, <4>1, TextEnds
    <3> QED
      BY <1>3, <2>2, <3>1
  <2>4. ASSUME NEW i \in 1..n PROVE Norm(s)[i] = Norm(t)[i]
    <3>1. Text(s, i) = Text(t, i)
      BY <1>3, <2>1
    <3>2. Text(s, i) = s[i].text
      BY <1>1, <1>3, TextEnds
    <3>3. Text(t, i) = t[i].text
      BY <1>2, <1>3, <2>3, TextEnds
    <3>4. RStrip(s[i]) = RStrip(t[i])
      BY <3>1, <3>2, <3>3, Zenon DEF RStrip
    <3> QED
      BY <1>1, <1>2, <2>3, <3>4
  <2> QED
    BY <1>1, <1>2, <2>3, <2>4, SeqEqual
<1> QED
  BY <1>4, <1>5
(* The comparison judge() makes of what the sandbox returns.               *)
Accepts(out) == OutputEqual(Truncate(out), Expected)

(* A truncated output is never accepted, any other when it agrees.         *)
LEMMA TruncatedDiffers ==
  ASSUME NEW out \in Seq(Lines)
  PROVE  Accepts(out) <=> Len(out) <= OutputCap /\ Agree(out, Expected)
<1> USE NumberAssumption
<1>0. Len(out) \in Nat /\ OutputCap \in Nat /\ Expected \in Seq(Lines)
  BY OutputsAreLines
<1>1. CASE Len(out) <= OutputCap
  BY <1>0, <1>1, NormIsAgreement DEF Accepts, OutputEqual, Truncate
<1>2. CASE Len(out) > OutputCap
  <2> DEFINE kept == SubSeq(out, 1, OutputCap)
             cut == Append(kept, Notice)
  <2>1. Truncate(out) = cut
    BY <1>0, <1>2 DEF Truncate
  <2>2. Notice \in Lines
    BY OutputsAreLines
  <2>3. kept \in Seq(Lines) /\ Len(kept) = OutputCap
    BY <1>0, <1>2
  <2> HIDE DEF kept
  <2>4. cut \in Seq(Lines) /\ Len(cut) = OutputCap + 1 /\ cut[OutputCap + 1] = Notice
    BY <1>0, <2>2, <2>3
  <2> HIDE DEF cut
  <2>5. OutputCap + 1 \in 1..Len(cut) /\ OutputCap + 1 \in Nat \ {0}
    BY <1>0, <2>4
  <2>6. Text(cut, OutputCap + 1) = Notice.text
    BY <2>4, <2>5, Zenon DEF Text
  <2>7. Notice.text # ""
    BY DEF Notice
  <2>8. DOMAIN Expected = 1..Len(Expected)
    BY <1>0
  <2>9. Text(Expected, OutputCap + 1) # Notice.text
    BY <2>7, <2>8, OutputAssumption, Zenon DEF Text
  <2>10. ~ Agree(cut, Expected)
    BY <1>0, <2>4, <2>5, <2>6, <2>9, AgreeText, Zenon
  <2>11. Norm(cut) # Norm(Expected)
    BY <1>0, <2>4, <2>10, NormIsAgreement
  <2>12. ~ Accepts(out)
    BY <2>1, <2>11 DEF Accepts, OutputEqual
  <2> QED
    BY <1>0, <1>2, <2>12
<1> QED
  BY <1>0, <1>1, <1>2

(* A run passes exactly when its program does, and a status tells how not. *)
LEMMA StatusOfRun ==
  ASSUME NEW b \in Behaviours
  PROVE  LET st == StatusOf(RunResult(b))
             late == b.ends = "timeout" \/ b.elapsed > TimeLimit
         IN /\ st \in {"TIME_LIMIT", "RUNTIME_ERROR", "WRONG_ANSWER", "PASSED"}
            /\ st = "PASSED" <=> Passes(b)
            /\ st = "TIME_LIMIT" => late
            /\ st = "RUNTIME_ERROR" => ~ late /\ b.code # 0
            /\ st = "WRONG_ANSWER" => ~ late /\ b.code = 0
<1> DEFINE late == b.ends = "timeout" \/ b.elapsed > TimeLimit
<1>1. b.elapsed \in Nat /\ TimeLimit \in Nat
  BY ElapsedIsNat, NumberAssumption
<1>2. b.out \in Seq(Lines)
  <2>1. b.out \in Outputs \/ b.out = <<>>
    BY DEF Behaviours
  <2>2. <<>> \in Seq(Lines)
    OBVIOUS
  <2> QED
    BY <2>1, <2>2, OutputsAreLines
<1>3. b.code = 0 /\ b.ends # "timeout" => b.ends = "exit"
  BY DEF Behaviours
<1>4. b.ends = "exit" => b.ends # "timeout"
  OBVIOUS
<1>5. /\ RunResult(b).timedOut = late
      /\ RunResult(b).code = b.code
      /\ RunResult(b).stdout = Truncate(b.out)
  BY DEF RunResult
<1>6. StatusOf(RunResult(b))
        = IF late THEN "TIME_LIMIT"
          ELSE IF b.code # 0 THEN "RUNTIME_ERROR"
          ELSE IF ~ Accepts(b.out) THEN "WRONG_ANSWER" ELSE "PASSED"
  BY <1>5, Zenon DEF StatusOf, Accepts
<1>7. Passes(b) <=> ~ late /\ b.code = 0 /\ Accepts(b.out)
  <2>1. b.elapsed <= TimeLimit <=> ~ b.elapsed > TimeLimit
    BY <1>1
  <2> QED
    BY <1>2, <1>3, <1>4, <2>1, TruncatedDiffers, Zenon DEF Passes
<1> HIDE DEF late
<1>8. /\ StatusOf(RunResult(b)) \in {"TIME_LIMIT", "RUNTIME_ERROR", "WRONG_ANSWER", "PASSED"}
      /\ StatusOf(RunResult(b)) = "PASSED" <=> Passes(b)
      /\ StatusOf(RunResult(b)) = "TIME_LIMIT" => late
      /\ StatusOf(RunResult(b)) = "RUNTIME_ERROR" => ~ late /\ b.code # 0
      /\ StatusOf(RunResult(b)) = "WRONG_ANSWER" => ~ late /\ b.code = 0
  BY <1>6, <1>7
<1> QED
  BY <1>8, Zenon DEF late

-----------------------------------------------------------------------------
(* While test cases are left, the program has passed those before, and     *)
(* maxTime is the slowest of their runs.                                   *)
PassedSoFar ==
  /\ phase = "compile" => ran = <<>> /\ maxTime = 0
  /\ phase = "run" =>
       /\ \A i \in 1..Len(ran) : Passes(ran[i]) /\ ran[i].elapsed <= maxTime
       /\ \/ ran = <<>> /\ maxTime = 0
          \/ \E i \in 1..Len(ran) : ran[i].elapsed = maxTime

VInv == IInv /\ PassedSoFar /\ VerdictIsFirstFail

(* One more test case: the verdict is about it, or it is one of the passed.*)
LEMMA RunTestcaseVInv ==
  ASSUME VInv, NEW b \in Behaviours, RunTestcase(b)
  PROVE  PassedSoFar' /\ VerdictIsFirstFail'
<1> DEFINE n == Len(ran)
           st == StatusOf(RunResult(b))
           late == b.ends = "timeout" \/ b.elapsed > TimeLimit
<1>1. /\ phase = "run" /\ ran \in Seq(Behaviours) /\ maxTime \in Nat /\ n \in Nat
      /\ ran' = Append(ran, b) /\ job' = job
  BY DEF RunTestcase, VInv, IInv, TypeOK
<1>2. /\ Len(ran') = n + 1 /\ ran'[n + 1] = b /\ ran' # <<>>
      /\ \A i \in 1..n : ran'[i] = ran[i]
  BY <1>1
<1>3. /\ \A i \in 1..n : ran[i] \in Behaviours
      /\ \A i \in 1..n : Passes(ran[i]) /\ ran[i].elapsed <= maxTime
      /\ \/ ran = <<>> /\ maxTime = 0
         \/ \E i \in 1..n : ran[i].elapsed = maxTime
  BY <1>1 DEF VInv, PassedSoFar
<1>4. b.elapsed \in Nat /\ \A i \in 1..n : ran[i].elapsed \in Nat
  BY <1>3, ElapsedIsNat
<1>5. RunResult(b).time = b.elapsed
  BY DEF RunResult
<1>6. \/ phase' = "raise"
      \/ /\ maxTime' = IF b.elapsed > maxTime THEN b.elapsed ELSE maxTime
         /\ \/ /\ st # "PASSED" /\ phase' = "return"
               /\ verdict' = [status |-> st, time |-> maxTime']
            \/ /\ st = "PASSED" /\ Len(ran') = TestcasesOf[job] /\ phase' = "return"
               /\ verdict' = [status |-> "ACCEPTED", time |-> maxTime']
            \/ st = "PASSED" /\ phase' = "run"
  BY <1>1, <1>5 DEF RunTestcase, Raise, Return
<1>7. /\ st \in {"TIME_LIMIT", "RUNTIME_ERROR", "WRONG_ANSWER", "PASSED"}
      /\ st = "PASSED" <=> Passes(b)
      /\ st = "TIME_LIMIT" => late
      /\ st = "RUNTIME_ERROR" => ~ late /\ b.code # 0
      /\ st = "WRONG_ANSWER" => ~ late /\ b.code = 0
  BY StatusOfRun, Zenon
<1> HIDE DEF st, n
<1>8. CASE phase' = "raise"
  BY <1>8 DEF PassedSoFar, VerdictIsFirstFail
<1>9. CASE maxTime' = IF b.elapsed > maxTime THEN b.elapsed ELSE maxTime
  <2>1. \A i \in 1..Len(ran') : ran'[i].elapsed <= maxTime'
    <3>1. ASSUME NEW i \in 1..(n + 1) PROVE ran'[i].elapsed <= maxTime'
      <4>1. CASE i = n + 1
        BY <1>1, <1>2, <1>4, <1>9, <4>1
      <4>2. CASE i \in 1..n
        <5>1. ran'[i] = ran[i] /\ ran[i].elapsed \in Nat /\ ran[i].elapsed <= maxTime
          BY <1>2, <1>3, <1>4, <4>2
        <5> QED
          BY <1>1, <1>4, <1>9, <5>1
      <4>3. i = n + 1 \/ i \in 1..n
        BY <1>1
      <4> QED
        BY <4>1, <4>2, <4>3
    <3> QED
      BY <1>2, <3>1
  <2>2. \E i \in 1..Len(ran') : ran'[i].elapsed = maxTime'
    <3>1. n + 1 \in 1..Len(ran') /\ \A i \in 1..n : i \in 1..Len(ran')
      BY <1>1, <1>2
    <3>2. CASE maxTime' = b.elapsed
      BY <1>2, <3>1, <3>2
    <3>3. CASE maxTime' # b.elapsed
      <4>1. maxTime' = maxTime /\ maxTime # 0
        BY <1>1, <1>4, <1>9, <3>3
      <4>2. PICK i \in 1..n : ran[i].elapsed = maxTime
        BY <1>3, <4>1
      <4> QED
        BY <1>2, <3>1, <4>1, <4>2
    <3> QED
      BY <3>2, <3>3
  <2>3. \A i \in 1..n : Passes(ran'[i])
    BY <1>2, <1>3
  <2>4. CASE st = "PASSED" /\ phase' = "run"
    <3>1. \A i \in 1..(n + 1) : i = n + 1 \/ i \in 1..n
      BY <1>1
    <3>2. Passes(ran'[n + 1])
      BY <1>2, <1>7, <2>4
    <3>3. \A i \in 1..Len(ran') : Passes(ran'[i])
      BY <1>2, <2>3, <3>1, <3>2
    <3> QED
      BY <2>1, <2>2, <2>4, <3>3 DEF PassedSoFar, VerdictIsFirstFail, Passes, Agree
  <2>5. CASE phase' = "return"
    <3>1. /\ verdict'.time = maxTime'
          /\ \/ st # "PASSED" /\ verdict'.status = st
             \/ /\ st = "PASSED" /\ verdict'.status = "ACCEPTED"
                /\ n + 1 = TestcasesOf[job]
      BY <1>2, <1>6, <2>5
    <3>2. n + 1 > 0 /\ (n + 1) - 1 = n /\ n + 1 # 0
      BY <1>1
    <3>3. /\ verdict'.status # "COMPILE_ERROR"
          /\ verdict'.status = "ACCEPTED" => n + 1 = TestcasesOf[job] /\ Passes(b)
          /\ verdict'.status = "TIME_LIMIT" => ~ Passes(b) /\ late
          /\ verdict'.status = "RUNTIME_ERROR" => ~ Passes(b) /\ ~ late /\ b.code # 0
          /\ verdict'.status = "WRONG_ANSWER" => ~ Passes(b) /\ ~ late /\ b.code = 0
      BY <1>7, <3>1
    <3>4. PassedSoFar'
      BY <2>5 DEF PassedSoFar
    <3> HIDE DEF late
    <3>5. VerdictIsFirstFail'
      BY <1>1, <1>2, <2>1, <2>2, <2>3, <3>1, <3>2, <3>3 DEF VerdictIsFirstFail, late
    <3> QED
      BY <3>4, <3>5
  <2> QED
    BY <1>6, <1>8, <2>4, <2>5
<1> QED
  BY <1>6, <1>8, <1>9

LEMMA InitVInv == Init => VInv
BY InitIInv DEF Init, VInv, PassedSoFar, VerdictIsFirstFail

LEMMA NextVInv == VInv /\ [Next]_vars => VInv'
<1> SUFFICES ASSUME VInv, [Next]_vars PROVE PassedSoFar' /\ VerdictIsFirstFail'
  BY NextIInv DEF VInv
<1>1. ASSUME NEW j \in Jobs, Start(j) PROVE PassedSoFar' /\ VerdictIsFirstFail'
  BY <1>1 DEF Start, PassedSoFar, VerdictIsFirstFail
<1>2. CASE Compile
  <2>1. /\ ran = <<>> /\ maxTime = 0 /\ ran' = ran /\ maxTime' = maxTime
        /\ phase' = "return" => verdict' = [status |-> "COMPILE_ERROR", time |-> 0]
        /\ phase' # "compile"
    BY <1>2 DEF Compile, Return, VInv, PassedSoFar
  <2>2. Len(ran') = 0
    BY <2>1
  <2> QED
    BY <2>1, <2>2 DEF PassedSoFar, VerdictIsFirstFail
<1>3. CASE CommandMissing
  BY <1>3 DEF CommandMissing, Raise, PassedSoFar, VerdictIsFirstFail
<1>4. ASSUME NEW b \in Behaviours, RunTestcase(b) PROVE PassedSoFar' /\ VerdictIsFirstFail'
  BY <1>4, RunTestcaseVInv
<1>5. CASE Cleanup
  BY <1>5 DEF Cleanup, PassedSoFar, VerdictIsFirstFail
<1>6. ASSUME NEW a \in 1..MaxAttempts, SurvivorExits(a)
      PROVE  PassedSoFar' /\ VerdictIsFirstFail'
  BY <1>6 DEF SurvivorExits, VInv, PassedSoFar, VerdictIsFirstFail
<1>7. CASE Crash
  BY <1>7 DEF Crash, PassedSoFar, VerdictIsFirstFail
<1>8. CASE UNCHANGED vars
  BY <1>8 DEF vars, VInv, PassedSoFar, VerdictIsFirstFail
<1> QED
  BY <1>1, <1>2, <1>3, <1>4, <1>5, <1>6, <1>7, <1>8 DEF Next

LEMMA VerdictInvariance == Spec => []VInv
BY InitVInv, NextVInv, PTL DEF Spec

(* Whatever a program prints, and however many test cases there are, the   *)
(* verdict is that of the first one it fails, ACCEPTED only when it passes *)
(* all, and the time that of the slowest run (judge.py:64-107).            *)
THEOREM FirstFailIsJudged == Spec => []VerdictIsFirstFail
<1>1. VInv => VerdictIsFirstFail
  BY DEF VInv
<1> QED
  BY <1>1, VerdictInvariance, PTL
=============================================================================
