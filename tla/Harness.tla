------------------------------- MODULE Harness -------------------------------
(***************************************************************************)
(* The test harness, test/harness/harness.cc and harness.h: the processor  *)
(* runs a test program (the guest) until the program reports, halts or     *)
(* asks for something unknown, and the process exits.  The guest asks with *)
(* "li r0,n; xop r0,15" (test/xop.h and the traps of test/tap.c).          *)
(***************************************************************************)
EXTENDS Tms9900, Sequences

VARIABLES
  runFlag,      \* _runFlag
  testsRun,     \* _testsRun
  testsPass,    \* _testsPass
  output,       \* the lines the harness has printed
  status        \* the exit status of the process, Running before it exits

hostVars == <<runFlag, testsRun, testsPass, output, status>>

harnessVars == <<vars, hostVars>>

Running == -1

(* xop.h *)
XOP_START == 1
XOP_EXECUTE == 2
XOP_REPORT == 3
XOP_PRINT == 4

Trap == 15

(* Mutant of failCount: the number of tests that passed. *)
passCount == testsPass

failCount == testsRun - testsPass

(* exit(code), or main returning it: the parent sees its low byte. *)
ExitWith(code) == status' = code % 256

Plan(count) == [line |-> "plan", count |-> count]

Result(passed, n) == [line |-> IF passed THEN "ok" ELSE "not ok", number |-> n]

Summary(pass, run) == [line |-> "summary", passed |-> pass, ran |-> run]

PrintLine(line) == output' = Append(output, line)

-----------------------------------------------------------------------------
(* A trap to the harness: the operand of XOP is what the guest asks for. *)

TrapOperand == OperandAddr(cpu, SMode(ir), SReg(ir))

AfterTrap == OperandDone(cpu, SMode(ir), SReg(ir), 2)

Asked == ReadW(AfterTrap, TrapOperand)

(* XOP and what _xopHandler does first; the handlers say the rest. *)
ExecuteXop ==
  /\ mode = "execute"
  /\ Op(ir) = "XOP"
  /\ cpu' = AfterTrap
  /\ UNCHANGED <<ir, frames>>

Goes == mode' = "check" /\ UNCHANGED status

(* Vectors other than 15 are ignored. *)
OtherVector ==
  /\ ExecuteXop
  /\ DReg(ir) # Trap
  /\ Goes
  /\ UNCHANGED <<runFlag, testsRun, testsPass, output>>

Handles(request) == ExecuteXop /\ DReg(ir) = Trap /\ Asked = request /\ Goes

test_start ==
  /\ Handles(XOP_START)
  /\ PrintLine(Plan(Reg(AfterTrap, 1)))
  /\ UNCHANGED <<runFlag, testsRun, testsPass>>

(* Mutant of test_execute: a passed test is not counted as run. *)
test_execute_counting_failures ==
  /\ Handles(XOP_EXECUTE)
  /\ LET passed == Reg(AfterTrap, 2) # 0
     IN  /\ testsRun' = IF passed THEN testsRun ELSE testsRun + 1
         /\ testsPass' = IF passed THEN testsPass + 1 ELSE testsPass
         /\ PrintLine(Result(passed, testsRun + 1))
  /\ UNCHANGED runFlag

(* Mutant of test_execute: the number is printed before it is increased. *)
test_execute_printing_first ==
  /\ Handles(XOP_EXECUTE)
  /\ LET passed == Reg(AfterTrap, 2) # 0
     IN  /\ testsRun' = testsRun + 1
         /\ testsPass' = IF passed THEN testsPass + 1 ELSE testsPass
         /\ PrintLine(Result(passed, testsRun))
  /\ UNCHANGED runFlag

test_execute ==
  /\ Handles(XOP_EXECUTE)
  /\ LET passed == Reg(AfterTrap, 2) # 0
     IN  /\ testsRun' = testsRun + 1
         /\ testsPass' = IF passed THEN testsPass + 1 ELSE testsPass
         /\ PrintLine(Result(passed, testsRun + 1))
  /\ UNCHANGED runFlag

test_report ==
  /\ Handles(XOP_REPORT)
  /\ runFlag' = FALSE
  /\ PrintLine(Summary(testsPass, testsRun))
  /\ UNCHANGED <<testsRun, testsPass>>

(* test_printf: what it prints is up to the guest. *)
test_printf ==
  /\ Handles(XOP_PRINT)
  /\ PrintLine([line |-> "guest"])
  /\ UNCHANGED <<runFlag, testsRun, testsPass>>

(* "Unknown XOP" *)
UnknownXop ==
  /\ ExecuteXop
  /\ DReg(ir) = Trap
  /\ Asked \notin {XOP_START, XOP_EXECUTE, XOP_REPORT, XOP_PRINT}
  /\ ExitWith(1)
  /\ mode' = "halted"
  /\ UNCHANGED <<runFlag, testsRun, testsPass, output>>

-----------------------------------------------------------------------------
(* main *)

(* One more step of an instruction; the loop is entered while running(). *)
Step ==
  /\ mode = "fetch" => runFlag
  /\ mode = "execute" => Op(ir) \notin {"XOP", "none"}
  /\ Run
  /\ UNCHANGED hostVars

(* Mutant of HaltAndExit: the process stops without an exit status. *)
HaltOnly == Halt /\ UNCHANGED hostVars

(* _halt: exit(1) *)
HaltAndExit ==
  /\ Halt
  /\ ExitWith(1)
  /\ UNCHANGED <<runFlag, testsRun, testsPass, output>>

(* The loop ends and main returns failCount(). *)
Return ==
  /\ mode = "fetch"
  /\ ~runFlag
  /\ ExitWith(failCount)
  /\ mode' = "halted"
  /\ UNCHANGED <<cpu, ir, frames, runFlag, testsRun, testsPass, output>>

HarnessNext ==
  \/ Step
  \/ OtherVector
  \/ test_start
  \/ test_execute
  \/ test_report
  \/ test_printf
  \/ UnknownXop
  \/ HaltAndExit
  \/ Return

(* memLoad, branch(_start) and run(): only the program counter is set; the *)
(* workspace pointer and the status are whatever the constructor left.     *)
HarnessInit ==
  /\ Init
  /\ runFlag = TRUE
  /\ testsRun = 0
  /\ testsPass = 0
  /\ output = <<>>
  /\ status = Running

(* The loop of main keeps stepping until the process exits. *)
Fairness == []<>(mode = "halted") \/ []<><<HarnessNext>>_harnessVars

HarnessSpec == HarnessInit /\ [][HarnessNext]_harnessVars /\ Fairness

-----------------------------------------------------------------------------
(* Properties of the harness alone *)

Line ==
  [line : {"plan"}, count : Word] \cup [line : {"ok", "not ok"}, number : Nat]
  \cup [line : {"summary"}, passed : Nat, ran : Nat] \cup [line : {"guest"}]

(* No count of passed tests exceeds the tests run, so failCount is never   *)
(* negative, and the process has an exit status exactly when it is over.   *)
HarnessTypeOK ==
  /\ TypeOK
  /\ output \in Seq(Line)
  /\ runFlag \in BOOLEAN
  /\ testsRun \in Nat
  /\ testsPass \in 0 .. testsRun
  /\ status \in {Running} \cup 0 .. 255
  /\ (status = Running) = (mode # "halted")

Printed(kind) == {i \in DOMAIN output : output[i].line = kind}

TestLines == Printed("ok") \cup Printed("not ok")

(* The TAP output and the counters tell the same story: the test lines are *)
(* numbered in order, as many as were run, and "ok" as often as they       *)
(* passed (test_execute prints _testsRun and counts _testsPass apart); the *)
(* summary is printed when the harness is stopped and not before.          *)
OutputAgrees ==
  /\ Cardinality(TestLines) = testsRun
  /\ Cardinality(Printed("ok")) = testsPass
  /\ \A i \in TestLines : output[i].number \in 1 .. testsRun
  /\ \A i, j \in TestLines : i < j => output[i].number < output[j].number
  /\ runFlag = (Printed("summary") = {})
=============================================================================
