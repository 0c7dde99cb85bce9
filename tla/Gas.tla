--------------------------------- MODULE Gas ---------------------------------
(***************************************************************************)
(* The instruction encoder of the assembler, gas/config/tc-tms9900.c: what *)
(* md_assemble emits for a parsed instruction, with the operand bits of    *)
(* assemble_mode and assemble_arg.  A program is a sequence of items:      *)
(* emitted words, labels, and jumps whose displacement is fixed up when    *)
(* the labels are known.                                                   *)
(***************************************************************************)
EXTENDS Integers, Sequences, Functions

(* The opcode column of instab. *)
instab ==
  [a |-> \hA000, ab |-> \hB000, abs |-> \h0740, ai |-> \h0220,
   andi |-> \h0240, b |-> \h0440, bl |-> \h0680, blwp |-> \h0400,
   c |-> \h8000, cb |-> \h9000, ci |-> \h0280, ckof |-> \h03C0,
   ckon |-> \h03A0, clr |-> \h04C0, coc |-> \h2000, czc |-> \h2400,
   dec |-> \h0600, dect |-> \h0640, div |-> \h3C00, idle |-> \h0340,
   inc |-> \h0580, inct |-> \h05C0, inv |-> \h0540, jeq |-> \h1300,
   jgt |-> \h1500, jh |-> \h1B00, jhe |-> \h1400, jl |-> \h1A00,
   jle |-> \h1200, jlt |-> \h1100, jmp |-> \h1000, jnc |-> \h1700,
   jne |-> \h1600, jno |-> \h1900, joc |-> \h1800, jop |-> \h1C00,
   ldcr |-> \h3000, li |-> \h0200, limi |-> \h0300, lrex |-> \h03E0,
   lwpi |-> \h02E0, mov |-> \hC000, movb |-> \hD000, mpy |-> \h3800,
   neg |-> \h0500, nop |-> \h1000, or |-> \hE000, orb |-> \hF000,
   ori |-> \h0260, rset |-> \h0360, rt |-> \h045B, rtwp |-> \h0380,
   s |-> \h6000, sb |-> \h7000, sbo |-> \h1D00, sbz |-> \h1E00,
   seto |-> \h0700, sla |-> \h0A00, soc |-> \hE000, socb |-> \hF000,
   sra |-> \h0800, src |-> \h0B00, srl |-> \h0900, stcr |-> \h3400,
   stst |-> \h02C0, stwp |-> \h02A0, swpb |-> \h06C0, szc |-> \h4000,
   szcb |-> \h5000, tb |-> \h1F00, x |-> \h0480, xop |-> \h2C00,
   xor |-> \h2800]

(* assemble_mode: the six Ts/S bits of an operand and its extra words. *)
R(n) == [bits |-> n, words |-> <<>>]

Ind(n) == [bits |-> 16 + n, words |-> <<>>]

Inc(n) == [bits |-> 48 + n, words |-> <<>>]

At(addr) == [bits |-> 32, words |-> <<addr>>]

AtReg(addr, n) == [bits |-> 32 + n, words |-> <<addr % 65536>>]

(* md_assemble: opcode | arg0 | arg1 << size of arg0, then the extra words. *)
Words(ws) == [kind |-> "words", words |-> ws]

(* Mutant of Two: the operand fields are swapped. *)
TwoSwapped(name, src, dst) ==
  Words(<<instab[name] + src.bits * 64 + dst.bits>> \o src.words \o dst.words)

Two(name, src, dst) ==
  Words(<<instab[name] + src.bits + dst.bits * 64>> \o src.words \o dst.words)

One(name, dst) == Two(name, dst, R(0))

None(name) == Words(<<instab[name]>>)

RegImm(name, r, value) == Words(<<instab[name] + r, value % 65536>>)

Imm(name, value) == Words(<<instab[name], value % 65536>>)

ShiftBy(name, r, count) == Words(<<instab[name] + r + 16 * count>>)

JumpTo(name, label) == [kind |-> "jump", op |-> instab[name], label |-> label]

(* b, bl and blwp to a label: an absolute address after the instruction. *)
BranchTo(name, label) ==
  [kind |-> "branch", op |-> instab[name] + 32, label |-> label]

Label(label) == [kind |-> "label", label |-> label]

(* Instructions of n bytes that are never executed. *)
Skip(n) == [kind |-> "skip", bytes |-> n]

Size(item) ==
  CASE item.kind = "words" -> 2 * Len(item.words)
    [] item.kind = "jump" -> 2
    [] item.kind = "branch" -> 4
    [] item.kind = "label" -> 0
    [] item.kind = "skip" -> item.bytes

(* The addresses of the items of a program that starts at base. *)
Layout(program, base) ==
  LET addr[k \in 1 .. Len(program)] ==
        IF k = 1 THEN base ELSE addr[k - 1] + Size(program[k - 1])
  IN  addr

LabelAddr(program, base, label) ==
  Layout(program, base)[CHOOSE k \in 1 .. Len(program) :
                          program[k] = Label(label)]

(* Mutant of Displacement: counted from the jump itself. *)
DisplacementFromJump(from, to) == ((to - from) \div 2) % 256

(* md_apply_fix and the relocations: a jump holds the distance in words    *)
(* from the next instruction, modulo 2^8, and must be within its range.    *)
Displacement(from, to) == ((to - from - 2) \div 2) % 256

InRange(from, to) == (to - from - 2) \div 2 \in -128 .. 127

Emit(program, base, item, addr) ==
  CASE item.kind = "words" -> item.words
    [] item.kind \in {"label", "skip"} -> <<>>
    [] item.kind = "branch" ->
         <<item.op, LabelAddr(program, base, item.label)>>
    [] item.kind = "jump" ->
         <<item.op + Displacement(addr, LabelAddr(program, base, item.label))>>

(* The memory image of a program: its words at their addresses. *)
Assemble(program, base) ==
  LET at == Layout(program, base)
      code(k) == Emit(program, base, program[k], at[k])
      place(k) == [i \in DOMAIN code(k) |-> at[k] + 2 * (i - 1)]
      item[a \in UNION {Range(place(k)) : k \in DOMAIN program}] ==
        CHOOSE k \in DOMAIN program : a \in Range(place(k))
  IN  [a \in DOMAIN item |-> code(item[a])[(a - at[item[a]]) \div 2 + 1]]

(* What the linker accepts: every jump reaches its label. *)
JumpsInRange(program, base) ==
  \A k \in DOMAIN program :
    program[k].kind = "jump" =>
      InRange(Layout(program, base)[k],
              LabelAddr(program, base, program[k].label))
=============================================================================
