----------------------------- MODULE ContextStack -----------------------------
(***************************************************************************)
(* What the context switch of the processor promises its software: BLWP    *)
(* and interrupts suspend the running context, RTWP resumes the one        *)
(* suspended last exactly as it was, and an interrupt is taken only at a   *)
(* level the running context lets in and leaves only more urgent levels    *)
(* enabled.  A context is its program counter, workspace and status.       *)
(***************************************************************************)
EXTENDS Integers, Sequences

VARIABLES
  running,    \* the context the processor executes
  suspended   \* the contexts waiting to be resumed, the newest first

Mask(ctx) == ctx.st % 16

Flags(ctx) == ctx.st \div 16

(* The running context executes, and may change its own status. *)
Compute == UNCHANGED suspended

(* BLWP: another context runs, with the same status.  The suspended one    *)
(* has read the operand words of its BLWP and resumes behind them.         *)
Call ==
  /\ suspended' # <<>>
  /\ Tail(suspended') = suspended
  /\ Head(suspended').wp = running.wp
  /\ Head(suspended').st = running.st
  /\ running'.st = running.st

(* An interrupt: another context runs, less interruptible. *)
Interrupt ==
  /\ suspended' = <<running>> \o suspended
  /\ Flags(running') = Flags(running)
  /\ Mask(running') < Mask(running)

Resume ==
  /\ suspended # <<>>
  /\ running' = Head(suspended)
  /\ suspended' = Tail(suspended)

Init == suspended = <<>>

Next == Compute \/ Call \/ Interrupt \/ Resume

Spec == Init /\ [][Next]_<<running, suspended>>
=============================================================================
