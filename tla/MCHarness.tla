------------------------------ MODULE MCHarness ------------------------------
(***************************************************************************)
(* Test programs for the harness.  A program is the start-up code (crt0),  *)
(* main's test_start, the loops of test_execute calls its test functions   *)
(* make, and an ending: test_report, a word that is no instruction, or an  *)
(* XOP the harness does not know.                                          *)
(***************************************************************************)
EXTENDS Harness, Gas

CONSTANT Programs   \* [tests |-> sequence of loops, ending |-> a word]

VARIABLE program

mcVars == <<harnessVars, program>>

CodeBase == \h6026

(* limi 0 ; lwpi >8300 ; li sp,>4000 *)
crt0 == <<Imm("limi", 0), Imm("lwpi", \h8300), RegImm("li", 10, \h4000)>>

(* li r0,request ; xop r0,15 *)
Ask(request) == <<RegImm("li", 0, request), Two("xop", R(0), R(Trap))>>

(* test_start (count) *)
StartTests(count) == <<RegImm("li", 1, count)>> \o Ask(XOP_START)

(* for (i = times; i != 0; i--) test_execute (name, passed); *)
TestLoop(k, loop) ==
  << RegImm("li", 3, loop.times),
     Label(k),
     RegImm("li", 1, 0),
     RegImm("li", 2, loop.passed) >>
  \o Ask(XOP_EXECUTE)
  \o << One("dec", R(3)), JumpTo("jne", k) >>

(* main does not return. *)
Ending(p) ==
  CASE p.ending = "report" -> Ask(XOP_REPORT)
    [] p.ending = "print and report" ->
         (* an XOP of another vector, test_printf, test_report *)
         <<Two("xop", R(0), R(2))>> \o Ask(XOP_PRINT) \o Ask(XOP_REPORT)
    [] p.ending = "bad instruction" -> <<Words(<<\h0C00>>)>>
    [] p.ending = "unknown xop" -> Ask(5)

Code(p) ==
  LET loops[k \in 0 .. Len(p.tests)] ==
        IF k = 0 THEN <<>> ELSE loops[k - 1] \o TestLoop(k, p.tests[k])
  IN  crt0 \o StartTests(Len(p.tests)) \o loops[Len(p.tests)] \o Ending(p)

(* What the registers hold before crt0 runs. *)
Leftovers == {[wp |-> 0, st |-> 0], [wp |-> CodeBase, st |-> 65535]}

Loaded(p, leftover) ==
  [pc |-> CodeBase, wp |-> leftover.wp, st |-> leftover.st,
   mem |-> Assemble(Code(p), CodeBase)]

MCBoot == UNION {{Loaded(p, l) : l \in Leftovers} : p \in Programs}

MCInit ==
  /\ program \in Programs
  /\ HarnessInit
  /\ cpu \in {Loaded(program, l) : l \in Leftovers}

MCNext == HarnessNext /\ UNCHANGED program

MCSpec == MCInit /\ [][MCNext]_mcVars /\ Fairness

-----------------------------------------------------------------------------

Loop(times, passed) == [times |-> times, passed |-> passed]

SmallTests ==
  { <<>>, <<Loop(2, 1)>>, <<Loop(1, 0)>>, <<Loop(2, 1), Loop(3, 0)>>,
    <<Loop(2, 0), Loop(1, 1), Loop(1, -1)>> }

(* More failed tests than a byte counts. *)
ManyFailures == [tests |-> <<Loop(1, 1), Loop(257, 0)>>, ending |-> "report"]

MCPrograms ==
  {ManyFailures} \cup
  [tests : SmallTests,
   ending : {"report", "print and report", "bad instruction", "unknown xop"}]

-----------------------------------------------------------------------------
(* Properties *)

Total(tests, verdicts) ==
  LET sum[k \in 0 .. Len(tests)] ==
        IF k = 0 THEN 0
        ELSE sum[k - 1]
             + (IF tests[k].passed \in verdicts THEN tests[k].times ELSE 0)
  IN  sum[Len(tests)]

Reports == program.ending \in {"report", "print and report"}

(* Whatever the registers held when the harness started, the process exits *)
(* with the number of tests the program failed, of which the parent sees   *)
(* the low byte, when the program reports, and with 1 when it goes astray; *)
(* every test it made has been counted (failCount, _halt and "Unknown XOP" *)
(* in harness.cc and harness.h).                                           *)
OutcomeRight ==
  mode = "halted" =>
    /\ status = IF Reports THEN Total(program.tests, {0}) % 256 ELSE 1
    /\ testsRun = Total(program.tests, {-1, 0, 1})
    /\ Reports = (Printed("summary") # {})

(* Every program that ends makes the harness exit. *)
Exits == <>(status # Running)
=============================================================================
