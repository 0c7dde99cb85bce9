-------------------------------- MODULE Frame --------------------------------
(***************************************************************************)
(* The code the compiler puts around the body of a function, from          *)
(* config/tms9900/tms9900.c: where the arguments arrive, which registers   *)
(* are saved, prologue and epilogue.  A function is a record               *)
(* [live, leaf, frame_size, frame_pointer_needed, before]: the registers   *)
(* it uses beyond R0 to R8, whether it calls none, the bytes of its        *)
(* locals, whether it has a frame pointer, and the sizes of the arguments  *)
(* that come before the ones its body reads.                               *)
(***************************************************************************)
EXTENDS Gas, SequencesExt

SP == 10   \* HARD_SP_REGNUM

BP == 9    \* HARD_BP_REGNUM

LR == 11   \* HARD_LR_REGNUM

TMS9900_ARG_REGS == 8

Mov(src, dst) == Two("mov", src, dst)

-----------------------------------------------------------------------------
(* Arguments: the register an argument of size bytes starts in when nregs  *)
(* are used, 0 for the stack.  The sizes are bytes, the registers words.   *)

function_arg(nregs, size) ==
  IF size + nregs > TMS9900_ARG_REGS THEN 0 ELSE nregs + 1

function_arg_advance(nregs, size) == nregs + (size + 1) \div 2

(* Where each argument of a list of sizes is: its register, its offset     *)
(* from the arg pointer if that is 0, and the bytes on the stack so far.   *)
Placement(sizes) ==
  LET After(before, size) ==
        LET reg == function_arg(before.nregs, size)
        IN  [nregs |-> function_arg_advance(before.nregs, size),
             reg |-> reg, offset |-> before.bytes,
             bytes |-> before.bytes + IF reg = 0 THEN 2 * ((size + 1) \div 2) ELSE 0]
      placed[k \in 0 .. Len(sizes)] ==
        IF k = 0 THEN [nregs |-> 0, reg |-> 0, offset |-> 0, bytes |-> 0]
        ELSE LET before == placed[k - 1] IN After(before, sizes[k])
  IN  [k \in 1 .. Len(sizes) |-> placed[k]]

-----------------------------------------------------------------------------
(* Registers that are saved *)

nvolregs == <<LR, BP, 12, 13, 14, 15>>

CallUsed == 0 .. 15 \ {BP, 12, 13, 14, 15}

(* Mutant of should_save_reg: R11 is used by calls and so not saved. *)
should_save_only_unused(f, regno) ==
  \/ regno \in f.live /\ regno \notin CallUsed
  \/ regno = BP /\ f.frame_pointer_needed

should_save_reg(f, regno) ==
  \/ regno \in f.live /\ regno \notin CallUsed
  \/ regno \in f.live /\ regno = LR
  \/ regno = LR /\ ~f.leaf
  \/ regno = BP /\ f.frame_pointer_needed

get_regs_to_save(f) == SelectSeq(nvolregs, LAMBDA r : should_save_reg(f, r))

get_saved_reg_size(f) == 2 * Len(get_regs_to_save(f))

(* Mutant of the offset: the saved registers are forgotten. *)
elimination_offset_of_frame(f) == f.frame_size

(* From the arg pointer to the stack pointer or the frame pointer, which   *)
(* are the same after the prologue. *)
initial_elimination_offset(f) == get_saved_reg_size(f) + f.frame_size

-----------------------------------------------------------------------------
(* Prologue and epilogue *)

(* The insns a sequence of registers gives, one after the other. *)
Each(registers, Insns(_)) ==
  FoldLeft(LAMBDA insns, r : insns \o Insns(r), <<>>, registers)

addhi3(r, n) ==
  CASE n = 1 -> <<One("inc", R(r))>>
    [] n = -1 -> <<One("dec", R(r))>>
    [] n = 2 -> <<One("inct", R(r))>>
    [] n = -2 -> <<One("dect", R(r))>>
    [] OTHER -> <<RegImm("ai", r, n)>>

(* More than two registers: their space at once, then upwards through R0. *)
SaveBlock(regs) ==
  addhi3(SP, -2 * Len(regs)) \o <<Mov(R(SP), R(0))>>
  \o Each(Front(regs), LAMBDA r : <<Mov(R(r), Inc(0))>>)
  \o <<Mov(R(Last(regs)), Ind(0))>>

(* Mutant of SaveDown: the registers are stored in the order of nvolregs. *)
SaveInOrder(regs) ==
  Each(regs, LAMBDA r : addhi3(SP, -2) \o <<Mov(R(r), Ind(SP))>>)

(* Up to two registers: one by one, the last of nvolregs first. *)
SaveDown(regs) ==
  Each(Reverse(regs), LAMBDA r : addhi3(SP, -2) \o <<Mov(R(r), Ind(SP))>>)

expand_prologue(f) ==
  LET regs == get_regs_to_save(f)
  IN  (IF Len(regs) > 2 THEN SaveBlock(regs) ELSE SaveDown(regs))
      \o (IF f.frame_size > 0 THEN addhi3(SP, -f.frame_size) ELSE <<>>)
      \o (IF f.frame_pointer_needed THEN <<Mov(R(SP), R(BP))>> ELSE <<>>)

expand_epilogue(f) ==
  (IF f.frame_size # 0 THEN addhi3(SP, f.frame_size) ELSE <<>>)
  \o Each(get_regs_to_save(f), LAMBDA r : <<Mov(Inc(SP), R(r))>>)
  \o <<One("b", Ind(LR))>>
=============================================================================
