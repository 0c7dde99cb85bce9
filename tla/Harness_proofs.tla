---------------------------- MODULE Harness_proofs ----------------------------
(***************************************************************************)
(* Proofs about the test harness, for every test program.                  *)
(***************************************************************************)
EXTENDS Harness, Tms9900_proofs, FiniteSetTheorems, SequenceTheorems

(* A trap keeps the processor's types. *)
LEMMA TrapTypeOK ==
  ASSUME TypeOK, ExecuteXop, mode' \in {"check", "halted"}
  PROVE  TypeOK'
<1>1. IsMachine(cpu')
  BY OneOperandOK DEF TypeOK, ExecuteXop, AfterTrap
<1> QED
  BY <1>1 DEF TypeOK, ExecuteXop

LEMMA TrapRegister ==
  ASSUME TypeOK, NEW r \in Nat PROVE Reg(AfterTrap, r) \in Word
<1>1. IsMachine(AfterTrap)
  BY OneOperandOK DEF TypeOK, AfterTrap
<1> QED
  BY <1>1, RegWord

(* The processor runs on while it does not halt. *)
LEMMA RunGoesOn ==
  ASSUME Run, mode = "execute" => Op(ir) # "none"
  PROVE  mode # "halted" /\ mode' # "halted"
BY DEF Run, Fetch, Execute, ExecuteImmediate, ExecuteSingle, ExecuteShift,
       ExecuteJump, ExecuteDual1, ExecuteDual2, ExecuteX, Halt, NoInterrupt,
       ReturnFromExecute

(* Each line the harness prints is a line of its protocol. *)
LEMMA PlanLine == ASSUME NEW count \in Word PROVE Plan(count) \in Line
BY DEF Plan, Line

LEMMA ResultLine ==
  ASSUME NEW passed \in BOOLEAN, NEW n \in Nat PROVE Result(passed, n) \in Line
BY DEF Result, Line

LEMMA SummaryLine ==
  ASSUME NEW p \in Nat, NEW n \in Nat PROVE Summary(p, n) \in Line
BY DEF Summary, Line

LEMMA HarnessNextTypeOK == HarnessTypeOK /\ HarnessNext => HarnessTypeOK'
<1> SUFFICES ASSUME HarnessTypeOK, HarnessNext PROVE HarnessTypeOK'
  OBVIOUS
<1> USE DEF HarnessTypeOK
<1>1. testsRun \in Nat /\ testsPass \in Nat /\ testsRun - testsPass \in Nat
  OBVIOUS
<1>2. CASE Step
  <2>1. TypeOK' /\ mode # "halted" /\ mode' # "halted"
    BY <1>2, RunTypeOK, RunGoesOn DEF Step
  <2> QED BY <1>2, <2>1 DEF Step, hostVars
<1>3. CASE OtherVector
  BY <1>3, TrapTypeOK DEF OtherVector, ExecuteXop, Goes
<1>4. CASE test_start
  <2>1. Plan(Reg(AfterTrap, 1)) \in Line
    BY TrapRegister, PlanLine
  <2> QED BY <1>4, <2>1, TrapTypeOK
          DEF test_start, Handles, ExecuteXop, Goes, PrintLine
<1>5. CASE test_execute
  <2> DEFINE passed == Reg(AfterTrap, 2) # 0
  <2>1. passed \in BOOLEAN
    OBVIOUS
  <2>2. Result(passed, testsRun + 1) \in Line
    <3> HIDE DEF passed
    <3> QED BY <1>1, <2>1, ResultLine
  <2>3. output' \in Seq(Line)
    <3> HIDE DEF passed
    <3>1. output' = Append(output, Result(passed, testsRun + 1))
      BY <1>5 DEF test_execute, PrintLine, passed
    <3> QED BY <2>2, <3>1
  <2>4. testsRun' \in Nat /\ testsPass' \in 0 .. testsRun'
    BY <1>1, <1>5 DEF test_execute
  <2>5. TypeOK'
    BY <1>5, TrapTypeOK DEF test_execute, Handles, Goes
  <2> QED BY <1>5, <2>3, <2>4, <2>5
          DEF test_execute, Handles, ExecuteXop, Goes
<1>6. CASE test_report
  <2>1. Summary(testsPass, testsRun) \in Line
    BY <1>1, SummaryLine
  <2>2. output' \in Seq(Line)
    <3>1. output' = Append(output, Summary(testsPass, testsRun))
      BY <1>6 DEF test_report, PrintLine
    <3> QED BY <2>1, <3>1
  <2>3. TypeOK'
    BY <1>6, TrapTypeOK DEF test_report, Handles, Goes
  <2> QED BY <1>6, <2>2, <2>3 DEF test_report, Handles, ExecuteXop, Goes
<1>7. CASE test_printf
  <2>1. [line |-> "guest"] \in Line
    BY DEF Line
  <2> QED BY <1>7, <2>1, TrapTypeOK
          DEF test_printf, Handles, ExecuteXop, Goes, PrintLine
<1>8. CASE UnknownXop
  BY <1>8, TrapTypeOK DEF UnknownXop, ExecuteXop, ExitWith, Running
<1>9. CASE HaltAndExit
  <2>1. TypeOK'
    BY <1>9, RunTypeOK DEF HaltAndExit, Run
  <2> QED BY <1>9, <2>1 DEF HaltAndExit, Halt, ExitWith, Running
<1>10. CASE Return
  <2>1. status' \in 0 .. 255
    BY <1>1, <1>10 DEF Return, ExitWith, failCount
  <2>2. TypeOK'
    BY <1>10 DEF Return, TypeOK
  <2> QED BY <1>10, <2>1, <2>2 DEF Return, Running
<1> QED
  BY <1>2, <1>3, <1>4, <1>5, <1>6, <1>7, <1>8, <1>9, <1>10 DEF HarnessNext

LEMMA HarnessInitTypeOK == HarnessInit => HarnessTypeOK
<1> SUFFICES ASSUME HarnessInit PROVE HarnessTypeOK
  OBVIOUS
<1>1. TypeOK /\ mode # "halted"
  BY InitTypeOK DEF HarnessInit, Init, Start
<1> QED
  BY <1>1 DEF HarnessInit, HarnessTypeOK, Running

(* Whatever the test program does, the harness never counts more passed    *)
(* tests than tests (its exit status is a number of failures), and it has  *)
(* an exit status exactly when the process is over.                        *)
THEOREM HarnessTypeCorrect == HarnessSpec => []HarnessTypeOK
<1>1. HarnessTypeOK /\ UNCHANGED harnessVars => HarnessTypeOK'
  BY DEF HarnessTypeOK, TypeOK, harnessVars, hostVars, vars
<1>2. HarnessTypeOK /\ [HarnessNext]_harnessVars => HarnessTypeOK'
  BY <1>1, HarnessNextTypeOK
<1> QED
  BY <1>2, HarnessInitTypeOK, PTL DEF HarnessSpec

-----------------------------------------------------------------------------
(* The output and the counters *)

LEMMA PrintedFinite ==
  ASSUME output \in Seq(Line), NEW CONSTANT kind
  PROVE  /\ Printed(kind) \subseteq 1 .. Len(output)
         /\ IsFiniteSet(Printed(kind))
<1>1. Printed(kind) \subseteq 1 .. Len(output)
  BY DEF Printed
<1>2. IsFiniteSet(1 .. Len(output))
  BY FS_Interval
<1> QED
  BY <1>1, <1>2, FS_Subset

(* Printing a line leaves the lines before it as they are. *)
LEMMA AppendFacts ==
  ASSUME output \in Seq(Line), NEW ln \in Line, output' = Append(output, ln)
  PROVE  /\ Len(output) \in Nat
         /\ DOMAIN output = 1 .. Len(output)
         /\ DOMAIN output' = 1 .. Len(output) + 1
         /\ \A i \in 1 .. Len(output) : output'[i] = output[i]
         /\ output'[Len(output) + 1] = ln
OBVIOUS

(* Printing a line adds its number to the lines of its kind. *)
LEMMA PrintedAppend ==
  ASSUME output \in Seq(Line), NEW ln \in Line, output' = Append(output, ln),
         NEW CONSTANT kind
  PROVE  Printed(kind)' = IF ln.line = kind
                            THEN Printed(kind) \cup {Len(output) + 1}
                            ELSE Printed(kind)
BY AppendFacts DEF Printed

(* A line that reports no test leaves the test lines as they are. *)
LEMMA OtherLine ==
  ASSUME output \in Seq(Line), NEW ln \in Line, output' = Append(output, ln),
         ln.line \notin {"ok", "not ok"}, OutputAgrees,
         UNCHANGED <<testsRun, testsPass>>
  PROVE  /\ Cardinality(TestLines') = testsRun'
         /\ Cardinality(Printed("ok")') = testsPass'
         /\ \A i \in TestLines' : output'[i].number \in 1 .. testsRun'
         /\ \A i, j \in TestLines' :
              i < j => output'[i].number < output'[j].number
<1>1. Printed("ok")' = Printed("ok") /\ Printed("not ok")' = Printed("not ok")
  BY PrintedAppend
<1>2. TestLines' = TestLines
  BY <1>1 DEF TestLines
<1>3. \A i \in TestLines : output'[i] = output[i]
  <2>1. TestLines \subseteq 1 .. Len(output)
    BY PrintedFinite DEF TestLines
  <2> QED BY <2>1, AppendFacts
<1> QED
  BY <1>1, <1>2, <1>3 DEF OutputAgrees

LEMMA TestExecuteAgrees ==
  ASSUME HarnessTypeOK, OutputAgrees, test_execute PROVE OutputAgrees'
<1> DEFINE passed == Reg(AfterTrap, 2) # 0
           ln == Result(passed, testsRun + 1)
           new == Len(output) + 1
<1>1. output \in Seq(Line) /\ testsRun \in Nat /\ testsPass \in Nat
  BY DEF HarnessTypeOK
<1>2. /\ output' = Append(output, ln) /\ testsRun' = testsRun + 1
      /\ testsPass' = IF passed THEN testsPass + 1 ELSE testsPass
      /\ runFlag' = runFlag
  BY DEF test_execute, PrintLine
<1>3. /\ ln \in Line /\ ln.number = testsRun + 1
      /\ ln.line = IF passed THEN "ok" ELSE "not ok"
  <2>1. passed \in BOOLEAN
    OBVIOUS
  <2> HIDE DEF passed
  <2>2. Result(passed, testsRun + 1) \in Line
    BY <1>1, <2>1, ResultLine
  <2> QED BY <2>1, <2>2 DEF Result
<1> HIDE DEF ln, passed
<1>4. /\ Printed("ok")' = IF passed THEN Printed("ok") \cup {new} ELSE Printed("ok")
      /\ Printed("not ok")' = IF passed THEN Printed("not ok")
                                        ELSE Printed("not ok") \cup {new}
      /\ Printed("summary")' = Printed("summary")
  BY <1>1, <1>2, <1>3, PrintedAppend
<1>5. /\ TestLines \subseteq 1 .. Len(output) /\ IsFiniteSet(TestLines)
      /\ Printed("ok") \subseteq 1 .. Len(output) /\ IsFiniteSet(Printed("ok"))
  <2>1. /\ Printed("ok") \subseteq 1 .. Len(output)
        /\ Printed("not ok") \subseteq 1 .. Len(output)
        /\ IsFiniteSet(Printed("ok"))
    BY <1>1, PrintedFinite
  <2>2. TestLines \subseteq 1 .. Len(output)
    BY <2>1 DEF TestLines
  <2>3. IsFiniteSet(1 .. Len(output))
    <3>1. 1 \in Int /\ Len(output) \in Int
      BY <1>1
    <3> QED BY <3>1, FS_Interval
  <2> QED BY <2>1, <2>2, <2>3, FS_Subset
<1>6. new \notin TestLines /\ new \notin Printed("ok")
  <2>1. Len(output) \in Nat
    BY <1>1
  <2> QED BY <1>5, <2>1
<1>7. TestLines' = TestLines \cup {new}
  BY <1>4 DEF TestLines
<1>8. Cardinality(TestLines') = testsRun'
  BY <1>2, <1>5, <1>6, <1>7, FS_AddElement DEF OutputAgrees
<1>9. Cardinality(Printed("ok")') = testsPass'
  BY <1>2, <1>4, <1>5, <1>6, FS_AddElement DEF OutputAgrees
<1>10. /\ \A i \in TestLines : output'[i] = output[i] /\ i < new
       /\ output'[new] = ln
  <2>1. /\ Len(output) \in Nat
        /\ \A i \in 1 .. Len(output) : output'[i] = output[i]
        /\ output'[new] = ln
    BY <1>1, <1>2, <1>3, AppendFacts
  <2>2. \A i \in 1 .. Len(output) : i < new
    BY <2>1
  <2> QED BY <1>5, <2>1, <2>2
<1>11. \A i \in TestLines : output[i].number \in 1 .. testsRun
  BY DEF OutputAgrees
<1>12. /\ \A i \in TestLines : output'[i].number \in 1 .. testsRun
       /\ output'[new].number = testsRun + 1
  <2>1. \A i \in TestLines : output'[i].number = output[i].number
    BY <1>10
  <2>2. output'[new].number = testsRun + 1
    BY <1>3, <1>10
  <2> QED BY <1>11, <2>1, <2>2
<1> HIDE DEF new
<1>13. \A i \in TestLines' : output'[i].number \in 1 .. testsRun'
  <2> TAKE i \in TestLines'
  <2>1. /\ testsRun' \in Nat /\ testsRun + 1 \in 1 .. testsRun'
        /\ \A n \in 1 .. testsRun : n \in 1 .. testsRun'
    BY <1>1, <1>2
  <2>2. CASE i \in TestLines
    <3>1. output'[i].number \in 1 .. testsRun
      BY <1>12, <2>2
    <3> QED BY <2>1, <3>1
  <2>3. CASE i = new
    BY <1>12, <2>1, <2>3
  <2> QED BY <1>7, <2>2, <2>3
<1>14. ASSUME NEW i \in TestLines', NEW j \in TestLines', i < j
       PROVE  output'[i].number < output'[j].number
  <2>1. CASE i = new
    <3>1. \A k \in TestLines' : k \in Int /\ k <= new
      BY <1>1, <1>5, <1>7, <1>10 DEF new
    <3> QED BY <1>1, <1>14, <2>1, <3>1
  <2>2. CASE i # new /\ j = new
    <3>1. i \in TestLines
      BY <1>7, <2>2
    <3>2. output'[i].number \in 1 .. testsRun
      BY <1>12, <3>1
    <3>3. output'[j].number = testsRun + 1
      BY <1>12, <2>2
    <3> QED BY <1>1, <3>2, <3>3
  <2>3. CASE i # new /\ j # new
    <3>1. i \in TestLines /\ j \in TestLines
      BY <1>7, <2>3
    <3> QED BY <1>10, <1>14, <3>1 DEF OutputAgrees
  <2> QED BY <2>1, <2>2, <2>3
<1>15. runFlag' = (Printed("summary")' = {})
  BY <1>2, <1>4 DEF OutputAgrees
<1> QED
  BY <1>8, <1>9, <1>13, <1>14, <1>15 DEF OutputAgrees

LEMMA HarnessNextAgrees ==
  HarnessTypeOK /\ OutputAgrees /\ HarnessNext => OutputAgrees'
<1> SUFFICES ASSUME HarnessTypeOK, OutputAgrees, HarnessNext
             PROVE  OutputAgrees'
  OBVIOUS
<1>1. /\ output \in Seq(Line) /\ testsRun \in Nat /\ testsPass \in Nat
      /\ TypeOK
  BY DEF HarnessTypeOK
<1>2. ASSUME UNCHANGED <<output, testsRun, testsPass, runFlag>>
      PROVE  OutputAgrees'
  BY <1>2 DEF OutputAgrees, TestLines, Printed
<1>3. ASSUME NEW ln \in Line, output' = Append(output, ln),
             ln.line \notin {"ok", "not ok", "summary"},
             UNCHANGED <<testsRun, testsPass, runFlag>>
      PROVE  OutputAgrees'
  <2>1. Printed("summary")' = Printed("summary")
    BY <1>1, <1>3, PrintedAppend
  <2> QED BY <1>1, <1>3, <2>1, OtherLine DEF OutputAgrees
<1>4. CASE Step \/ OtherVector \/ UnknownXop \/ HaltAndExit \/ Return
  BY <1>2, <1>4 DEF Step, hostVars, OtherVector, UnknownXop, HaltAndExit, Return
<1>5. CASE test_start
  <2> DEFINE ln == Plan(Reg(AfterTrap, 1))
  <2>1. ln \in Line /\ ln.line = "plan"
    BY <1>1, TrapRegister, PlanLine DEF Plan
  <2>2. output' = Append(output, ln) /\ UNCHANGED <<testsRun, testsPass, runFlag>>
    BY <1>5 DEF test_start, PrintLine
  <2> HIDE DEF ln
  <2> QED BY <1>3, <2>1, <2>2
<1>6. CASE test_printf
  <2> DEFINE ln == [line |-> "guest"]
  <2>1. ln \in Line /\ ln.line = "guest"
    BY DEF Line
  <2>2. output' = Append(output, ln) /\ UNCHANGED <<testsRun, testsPass, runFlag>>
    BY <1>6 DEF test_printf, PrintLine
  <2> HIDE DEF ln
  <2> QED BY <1>3, <2>1, <2>2
<1>7. CASE test_report
  <2> DEFINE ln == Summary(testsPass, testsRun)
  <2>1. ln \in Line /\ ln.line = "summary"
    BY <1>1, SummaryLine DEF Summary
  <2>2. /\ output' = Append(output, ln) /\ UNCHANGED <<testsRun, testsPass>>
        /\ runFlag' = FALSE
    BY <1>7 DEF test_report, PrintLine
  <2> HIDE DEF ln
  <2>3. Printed("summary")' # {}
    BY <1>1, <2>1, <2>2, PrintedAppend
  <2> QED BY <1>1, <2>1, <2>2, <2>3, OtherLine DEF OutputAgrees
<1>8. CASE test_execute
  BY <1>8, TestExecuteAgrees
<1> QED
  BY <1>4, <1>5, <1>6, <1>7, <1>8 DEF HarnessNext

(* Whatever the test program does, the lines "ok" and "not ok" are as many *)
(* and numbered as the harness counted, and the summary comes with the end *)
(* of the run.                                                             *)
THEOREM OutputCorrect == HarnessSpec => []OutputAgrees
<1>1. HarnessInit => OutputAgrees
  <2> SUFFICES ASSUME HarnessInit PROVE OutputAgrees
    OBVIOUS
  <2>1. output = <<>> /\ testsRun = 0 /\ testsPass = 0 /\ runFlag = TRUE
    BY DEF HarnessInit
  <2>2. \A kind : Printed(kind) = {}
    BY <2>1 DEF Printed
  <2> QED BY <2>1, <2>2, FS_EmptySet DEF OutputAgrees, TestLines
<1>2. OutputAgrees /\ UNCHANGED harnessVars => OutputAgrees'
  BY DEF OutputAgrees, TestLines, Printed, harnessVars, hostVars
<1>3. HarnessTypeOK /\ OutputAgrees /\ [HarnessNext]_harnessVars => OutputAgrees'
  BY <1>2, HarnessNextAgrees
<1> QED
  BY <1>1, <1>3, HarnessTypeCorrect, PTL DEF HarnessSpec
=============================================================================
