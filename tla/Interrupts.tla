------------------------------ MODULE Interrupts ------------------------------
(***************************************************************************)
(* The processor with devices that interrupt it.  A history of the         *)
(* contexts suspended by BLWP and by interrupts is kept beside the         *)
(* processor, which itself only has the links in R13, R14 and R15 of each  *)
(* workspace; the processor is shown to implement ContextStack.            *)
(***************************************************************************)
EXTENDS Tms9900, Sequences

CONSTANT MaxRaised   \* bound: interrupts the devices raise in a behaviour

VARIABLES
  saved,    \* history: suspended contexts, newest first, with their level
  raised    \* interrupts taken so far

intVars == <<vars, saved, raised>>

NoLevel == -1   \* suspended by BLWP

Context(m) == [pc |-> m.pc, wp |-> m.wp, st |-> m.st]

Suspend(m, level) ==
  saved' = <<[ctx |-> Context(m), level |-> level]>> \o saved

Switches == {"BLWP", "RTWP"}

(* Every step of the processor that is no context switch. *)
Step ==
  /\ Run
  /\ mode = "execute" => Op(ir) \notin Switches
  /\ UNCHANGED <<saved, raised>>

(* The operand of BLWP is decoded before the context is suspended. *)
BlwpStep ==
  /\ Op(ir) = "BLWP"
  /\ ExecuteSingle
  /\ Suspend(OperandDone(cpu, SMode(ir), SReg(ir), 2), NoLevel)
  /\ UNCHANGED raised

RtwpStep ==
  /\ Op(ir) = "RTWP"
  /\ ExecuteImmediate
  /\ saved # <<>>
  /\ saved' = Tail(saved)
  /\ UNCHANGED raised

Service(l) ==
  /\ raised < MaxRaised
  /\ TakeInterrupt(l)
  /\ Suspend(cpu, l)
  /\ raised' = raised + 1

IntNext == Step \/ BlwpStep \/ RtwpStep \/ \E l \in Levels : Service(l)

IntInit == Init /\ saved = <<>> /\ raised = 0

(* main calls fetch() and execute() again until the process exits: the     *)
(* weak fairness of IntNext, with its enabling condition written out (the  *)
(* processor can do something in every state but the halted one).          *)
Fairness == []<>(mode = "halted") \/ []<><<IntNext>>_intVars

IntSpec == IntInit /\ [][IntNext]_intVars /\ Fairness

-----------------------------------------------------------------------------
(* Properties *)

(* "The ISR mask is automatically lowered to 1 less than the interrupt     *)
(* being serviced to ensure only higher priority interrupts can interrupt  *)
(* this ISR" (cpu.cc:1005): of two nested interrupts the newer one has the *)
(* lower level, and the running context admits only levels below both.     *)
PriorityOrder ==
  \A i \in 1 .. Len(saved) :
    saved[i].level # NoLevel =>
      /\ IntMask(cpu) < saved[i].level
      /\ \A j \in 1 .. i - 1 : saved[j].level < saved[i].level

(* Workspaces in use, from the running context outwards. *)
Workspace(i) == IF i = 1 THEN cpu.wp ELSE saved[i - 1].ctx.wp

(* R13, R14 and R15 of the workspace at wp. *)
Link(m, wp) ==
  LET w == [m EXCEPT !.wp = wp]
  IN  [wp |-> Reg(w, 13), pc |-> Reg(w, 14), st |-> Reg(w, 15)]

(* The suspended contexts are exactly the chain linked through R13, R14    *)
(* and R15 of the workspaces: nothing that ran since a context was         *)
(* suspended has overwritten its link (_blwp and _rtwp).                   *)
ContextChain ==
  \A i \in 1 .. Len(saved) : Link(cpu, Workspace(i)) = saved[i].ctx

(* What the processor leaves to its software: no step stores over the link *)
(* of a suspended context, the vectors name workspaces clear of them       *)
(* (_blwp stores the new link wherever the vector says), no LWPI executes  *)
(* while a context is suspended, and no LIMI in an interrupt raises the    *)
(* mask that execute() lowered.                                            *)
KeepsTheRules ==
  /\ \A i \in 1 .. Len(saved) : Link(cpu', Workspace(i)) = Link(cpu, Workspace(i))
  /\ Step /\ saved # <<>> => cpu'.wp = cpu.wp
  /\ Step /\ (\E i \in 1 .. Len(saved) : saved[i].level # NoLevel)
        => IntMask(cpu') <= IntMask(cpu)

(* A program, its interrupt routines and its vectors keep the rules, while *)
(* interrupts and subroutines nest.                                        *)
RulesKept == [][KeepsTheRules]_intVars

(* The processor implements the abstract stack of contexts. *)
Abstract ==
  INSTANCE ContextStack WITH
    running <- Context(cpu),
    suspended <- [i \in 1 .. Len(saved) |-> saved[i].ctx]

ImplementsContextStack == Abstract!Spec
=============================================================================
