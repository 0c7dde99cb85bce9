----------------------------- MODULE MCInterrupts -----------------------------
(***************************************************************************)
(* A program for Interrupts: a main loop that depends on its registers and *)
(* its carry flag, calls a subroutine with BLWP, executes an instruction   *)
(* with X and shares a counter with three interrupt service routines.      *)
(***************************************************************************)
EXTENDS Interrupts, Gas, TLC

MainWP == \h0300
IsrWP(l) == \h0300 + 32 * l
SubWP == \h0380
Counter == \h03A0
SubVector == \h03A4
MainEntry == \h0100
IsrEntry == \h0200
SubEntry == \h0240

(* R1 sums 65534 + 3 + 2 + 1, R6 counts the carries, R7 the subroutine's   *)
(* calls through the caller's workspace, R8 an instruction executed by X.  *)
Main ==
  << RegImm("li", 1, 65534), RegImm("li", 2, 3), RegImm("li", 6, 0),
     RegImm("li", 5, instab["inc"] + 8),     \* the word of "inc r8"
     Imm("limi", 3),
     Label("loop"),
       Two("a", R(2), R(1)),
       JumpTo("jnc", "nocarry"),
       One("inc", R(6)),
     Label("nocarry"),
       One("inc", At(Counter)),
       One("dec", R(2)),
       JumpTo("jne", "loop"),
     One("blwp", At(SubVector)),
     One("x", R(5)),
     Imm("limi", 0),
     Label("done"),
     JumpTo("jmp", "done") >>

(* inc @counter ; count this level's runs in R0 ; rtwp *)
Isr == <<One("inc", At(Counter)), One("inc", R(0)), None("rtwp")>>

(* The subroutine reaches the registers of its caller through R13. *)
Sub == <<One("inc", AtReg(14, 13)), None("rtwp")>>

Vectors ==
  [a \in {4, 8, 12} |-> IsrWP(a \div 4)] @@ [a \in {6, 10, 14} |-> IsrEntry]
  @@ (SubVector :> SubWP) @@ ((SubVector + 2) :> SubEntry)

MCBoot ==
  { [pc |-> MainEntry, wp |-> MainWP, st |-> 0,
     mem |-> Vectors @@ Assemble(Main, MainEntry) @@ Assemble(Isr, IsrEntry)
             @@ Assemble(Sub, SubEntry)] }

MCLevels == {1, 2, 3}

Done == cpu.pc = LabelAddr(Main, MainEntry, "done") /\ mode = "fetch"

(* Whatever interrupts arrive and wherever, the main program computes what *)
(* it computes alone, no increment of the shared counter is lost, and its  *)
(* flags are its own (execute() checks interrupts only between             *)
(* instructions and _st is saved with the context).                        *)
MainUnharmed ==
  Done =>
    /\ <<Reg(cpu, 1), Reg(cpu, 2), Reg(cpu, 6), Reg(cpu, 7), Reg(cpu, 8)>>
         = <<4, 0, 1, 1, 1>>
    /\ ReadW(cpu, Counter) = 3 + raised

(* The main program reaches its end and no context stays suspended. *)
Finishes == <>(Done /\ saved = <<>>)
=============================================================================
