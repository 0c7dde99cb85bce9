------------------------------- MODULE Objdump -------------------------------
(***************************************************************************)
(* One instruction in memory and the four programs that read or write it:  *)
(* the processor (Tms9900), the trace the harness prints of it (unasm.cc), *)
(* objdump (opcodes/tms9900-dis.c), and the assembler (Gas) given          *)
(* objdump's line.  Of a printed line its name and operands are kept, an   *)
(* operand as [form, reg, value].                                          *)
(***************************************************************************)
EXTENDS Tms9900, Gas

CONSTANT Sections   \* what objdump is run on and the processor executes

VARIABLES
  section,   \* the words in memory
  line       \* what objdump has printed, with the bytes it took

dumpVars == <<vars, section, line>>

(* What objdump prints: the name, the operands, the bytes taken. *)
Printed(name, args, n_fetch) == [name |-> name, args |-> args, n_fetch |-> n_fetch]

NoLine == Printed("none yet", <<>>, 0)

-----------------------------------------------------------------------------
(* The text of operands, as parse_mode of objdump prints it. *)

Text(form, reg, value) == [form |-> form, reg |-> reg, value |-> value]

Register(n) == Text("r", n, 0)

Number(v) == Text("number", 0, v)

Operand(mode_, reg, value) ==
  CASE mode_ = 0 -> Register(reg)
    [] mode_ = 1 -> Text("*r", reg, 0)
    [] mode_ = 2 -> IF reg = 0 THEN Text("@", 0, value) ELSE Text("@()", reg, value)
    [] mode_ = 3 -> Text("*r+", reg, 0)

-----------------------------------------------------------------------------
(* tms9900-dis.c *)

level_5 ==
  <<"blwp", "b", "x", "clr", "neg", "inv", "inc", "inct", "dec", "dect", "bl",
    "swpb", "seto", "abs", "", "">>

level_4 ==
  <<"li", "", "ai", "", "andi", "", "ori", "", "ci", "", "stwp", "", "stst",
    "", "lwpi", "", "limi", "", "idle", "", "rset", "", "rtwp", "", "ckon", "",
    "ckof", "", "lrex", "", "", "">>

level_3 ==
  <<"", "", "4", "4", "5", "5", "5", "5", "sra", "srl", "sla", "src", "", "",
    "", "">>

level_2 ==
  <<"jmp", "jlt", "jle", "jeq", "jhe", "jgt", "jne", "jnc", "joc", "jno", "jl",
    "jh", "jop", "sbo", "sbz", "tb">>

level_1 == <<"coc", "czc", "xor", "xop", "ldcr", "stcr", "mpy", "div">>

level_0 ==
  <<"3", "2", "1", "1", "szc", "szcb", "s", "sb", "c", "cb", "a", "ab", "mov",
    "movb", "soc", "socb">>

(* The tables lead from one to the next by further bits of the opcode.     *)
NameOf(w) ==
  LET l0 == level_0[(w \div 4096) + 1]
      l3 == level_3[((w \div 256) % 16) + 1]
  IN  CASE l0 = "1" -> level_1[((w \div 1024) % 8) + 1]
        [] l0 = "2" -> level_2[((w \div 256) % 16) + 1]
        [] l0 = "3" /\ l3 = "4" -> level_4[((w \div 16) % 32) + 1]
        [] l0 = "3" /\ l3 = "5" -> level_5[((w \div 64) % 16) + 1]
        [] l0 = "3" /\ l3 \notin {"4", "5"} -> l3
        [] OTHER -> l0

Items(table) == {table[k] : k \in DOMAIN table} \ {"", "1", "2", "3", "4", "5"}

Type1 == Items(level_0)
Type2a == {"sbo", "sbz", "tb"}
Type2 == Items(level_2) \ Type2a
Type4 == {"xop", "ldcr", "stcr"}
Type3 == Items(level_1) \ Type4
Type5 == Items(level_3)
Type6 == Items(level_5)
Type8a == {"stwp", "stst"}
Type8b == {"lwpi", "limi"}
Type8 == {"li", "ai", "andi", "ori", "ci"}

(* Mutant of parse_mode: the word of the operand is not counted. *)
parse_mode_uncounted(m, a, code, n_fetch) ==
  [text |-> Operand((code \div 16) % 4, code % 16, ReadW(m, Wrap(a + n_fetch))),
   n_fetch |-> n_fetch]

(* An operand of the instruction at address a: its mode and register are   *)
(* the lowest six bits of code, and a mode of 2 takes the next word.       *)
parse_mode(m, a, code, n_fetch) ==
  [text |-> Operand((code \div 16) % 4, code % 16, ReadW(m, Wrap(a + n_fetch))),
   n_fetch |-> n_fetch + IF (code \div 16) % 4 = 2 THEN 2 ELSE 0]

print_insn_tms9900(m, a) ==
  LET w == ReadW(m, a)
      name == NameOf(w)
      source == parse_mode(m, a, w, 2)
      dest == parse_mode(m, a, w \div 64, source.n_fetch)
      field == (w \div 64) % 16
      value == ReadW(m, Wrap(a + 2))
  IN  CASE name = "" -> Printed("data", <<Number(w)>>, 2)
        [] name \in Type1 -> Printed(name, <<source.text, dest.text>>, dest.n_fetch)
        [] name \in Type2 -> Printed(name, <<Number(2 * Signed8(w))>>, 2)
        [] name \in Type2a -> Printed(name, <<Number(Signed8(w))>>, 2)
        [] name \in Type3 -> Printed(name, <<source.text, Register(field)>>, source.n_fetch)
        [] name \in Type4 -> Printed(name, <<source.text, Number(field)>>, source.n_fetch)
        [] name \in Type5 -> Printed(name, <<Register(w % 16), Number((w \div 16) % 16)>>, 2)
        [] name \in Type6 -> Printed(name, <<source.text>>, source.n_fetch)
        [] name \in Type8 -> Printed(name, <<Register(w % 16), Number(value)>>, 4)
        [] name \in Type8a -> Printed(name, <<Register(w % 16)>>, 2)
        [] name \in Type8b -> Printed(name, <<Number(value)>>, 4)
        [] OTHER -> Printed(name, <<>>, 2)

-----------------------------------------------------------------------------
(* unasm.cc: the line of the trace, printed between fetch and execution,   *)
(* for the word w in the state m after its fetch.  It takes its mnemonics  *)
(* from the decoder of the processor, prints registers as numbers in some  *)
(* places, and jumps with their target.                                    *)

_printOper(m, mode_, reg) ==
  [text |-> Operand(mode_, reg, ReadW(m, m.pc)),
   after |-> IF mode_ = 2 THEN Fetched(m) ELSE m]

Traced(op, args, m) == [name |-> op, args |-> args, pc |-> m.pc]

(* Both operands are printed in the arguments of one sprintf, which C++    *)
(* evaluates in either order: destFirst is the order of the build.         *)
_twoOp(m, op, sMode, sReg, dMode, dReg, destFirst) ==
  IF destFirst
    THEN LET dest == _printOper(m, dMode, dReg)
             source == _printOper(dest.after, sMode, sReg)
         IN  Traced(op, <<source.text, dest.text>>, source.after)
    ELSE LET source == _printOper(m, sMode, sReg)
             dest == _printOper(source.after, dMode, dReg)
         IN  Traced(op, <<source.text, dest.text>>, dest.after)

_oneOp(m, op, w) ==
  LET source == _printOper(m, SMode(w), SReg(w))
  IN  Traced(op, <<source.text>>, source.after)

_immed(m, op, w) ==
  CASE op \in {"STWP", "STST"} -> Traced(op, <<Register(SReg(w))>>, m)
    [] op = "RTWP" -> Traced(op, <<>>, m)
    [] op \in {"LWPI", "LIMI"} -> Traced(op, <<Number(ReadW(m, m.pc))>>, Fetched(m))
    [] OTHER -> Traced(op, <<Register(SReg(w)), Number(ReadW(m, m.pc))>>, Fetched(m))

(* Mutant of _jump: the offset is added in bytes. *)
_jump_of_bytes(m, op, w) ==
  Traced(op, <<Number(IF op \in {"SBO", "SBZ", "TB"} THEN Offset(w)
                                                     ELSE m.pc + Offset(w))>>, m)

_jump(m, op, w) ==
  Traced(op, <<Number(IF op \in {"SBO", "SBZ", "TB"} THEN Offset(w)
                                                     ELSE m.pc + 2 * Offset(w))>>, m)

preExec(m, w, destFirst) ==
  LET op == Op(w)
  IN  CASE op \in DOMAIN ImmediateOps -> _immed(m, op, w)
        [] op \in DOMAIN SingleOps -> _oneOp(m, op, w)
        [] op \in DOMAIN ShiftOps -> _twoOp(m, op, 0, SReg(w), 0, Count(w), destFirst)
        [] op \in DOMAIN JumpOps -> _jump(m, op, w)
        [] op \in DOMAIN Dual1Ops -> _twoOp(m, op, SMode(w), SReg(w), 0, DReg(w), destFirst)
        [] op \in DOMAIN Dual2Ops -> _twoOp(m, op, SMode(w), SReg(w), DMode(w), DReg(w), destFirst)

-----------------------------------------------------------------------------
(* The assembler reads a line.                                             *)

(* The argument columns of instab, ARG_NONE left out. *)
ArgTypes(name) ==
  CASE name \in Type1 \cup {"or", "orb"} -> <<"MODE", "MODE">>
    [] name \in Type2 -> <<"OFFSET">>
    [] name \in Type2a -> <<"CRU_DISP">>
    [] name \in {"coc", "czc", "xor", "mpy", "div", "xop"} -> <<"MODE", "REGISTER">>
    [] name \in {"ldcr", "stcr"} -> <<"MODE", "CRU_COUNT">>
    [] name \in Type5 -> <<"REGISTER", "SHIFT">>
    [] name \in Type6 -> <<"MODE">>
    [] name \in {"li", "ai", "andi", "ori", "ci"} -> <<"REGISTER", "IMMEDIATE">>
    [] name \in {"stst", "stwp"} -> <<"REGISTER">>
    [] name \in {"limi", "lwpi"} -> <<"IMMEDIATE">>
    [] OTHER -> <<>>

assemble_mode(t) ==
  CASE t.form = "r" -> R(t.reg)
    [] t.form = "*r" -> Ind(t.reg)
    [] t.form = "*r+" -> Inc(t.reg)
    [] t.form = "@" -> At(t.value)
    [] t.form = "@()" -> AtReg(t.value, t.reg)

(* A register where an expression may stand, or a number below 16 where a  *)
(* register is wanted: both are the value of the expression.               *)
ExpressionValue(t) == IF t.form = "r" THEN t.reg ELSE t.value

(* The bits of an argument, how many they are, and its word if it has one. *)
assemble_arg(type, t) ==
  CASE type = "MODE" -> [bits |-> assemble_mode(t).bits, size |-> 6,
                         words |-> assemble_mode(t).words]
    [] type = "OFFSET" -> [bits |-> (t.value \div 2) % 256, size |-> 8, words |-> <<>>]
    [] type \in {"REGISTER", "SHIFT", "CRU_COUNT"} ->
         [bits |-> ExpressionValue(t), size |-> 4, words |-> <<>>]
    [] type = "CRU_DISP" -> [bits |-> Wrap(t.value), size |-> 8, words |-> <<>>]
    [] type = "IMMEDIATE" -> [bits |-> 0, size |-> 0, words |-> <<Wrap(t.value)>>]

(* Mutant of md_assemble: the second argument starts at bit 4. *)
md_assemble_at_bit_4(name, args) ==
  LET arg(k) == assemble_arg(ArgTypes(name)[k], args[k])
  IN  CASE Len(args) = 0 -> <<instab[name]>>
        [] Len(args) = 1 -> <<BitOr(instab[name], arg(1).bits)>> \o arg(1).words
        [] Len(args) = 2 ->
             <<BitOr(BitOr(instab[name], arg(1).bits), Wrap(arg(2).bits * 16))>>
             \o arg(1).words \o arg(2).words

md_assemble(name, args) ==
  LET arg(k) == assemble_arg(ArgTypes(name)[k], args[k])
  IN  CASE Len(args) = 0 -> <<instab[name]>>
        [] Len(args) = 1 -> <<BitOr(instab[name], arg(1).bits)>> \o arg(1).words
        [] Len(args) = 2 ->
             <<BitOr(BitOr(instab[name], arg(1).bits),
                     Wrap(arg(2).bits * Power2(arg(1).size)))>>
             \o arg(1).words \o arg(2).words

-----------------------------------------------------------------------------
(* objdump prints the instruction, then the processor executes it.         *)

CodeBase == \h6000

Machine(words) ==
  [pc |-> CodeBase, wp |-> \h8300, st |-> 0,
   mem |-> [a \in {CodeBase + 2 * k : k \in 0 .. Len(words) - 1} |->
              words[(a - CodeBase) \div 2 + 1]]]

DumpInit ==
  /\ section \in Sections
  /\ line = NoLine
  /\ Start(Machine(section))

Disassemble ==
  /\ line = NoLine
  /\ line' = print_insn_tms9900(cpu, CodeBase)
  /\ UNCHANGED <<vars, section>>

ExecuteIt ==
  /\ line # NoLine
  /\ mode \in {"fetch", "execute"}
  /\ Run
  /\ UNCHANGED <<section, line>>

(* One instruction is enough. *)
Done == mode \in {"check", "halted"} /\ UNCHANGED dumpVars

DumpNext == Disassemble \/ ExecuteIt \/ Done

DumpSpec == DumpInit /\ [][DumpNext]_dumpVars

-----------------------------------------------------------------------------
(* Properties *)

(* Names that objdump gives to other instructions: its table of 0340 to    *)
(* 03FF has them a row (of 32 opcodes) too early.                          *)
Misnamed == {"idle", "rset", "rtwp", "ckon", "ckof", "lrex"}

Decoded == mode = "execute" /\ frames = 0 /\ line.name # "data"

(* The assembler makes of objdump's line the words objdump has read,       *)
(* except for the names of a wrong row, for a negative displacement of the *)
(* CRU, which md_assemble ors into the whole opcode, and for LWPI and LIMI *)
(* with bits set in the register field, which they have no operand for.    *)
RoundTrip ==
  /\ Decoded
  /\ line.name \notin Misnamed
  /\ line.name \in Type2a => line.args[1].value >= 0
  /\ line.name \in Type8b => section[1] % 16 = 0
  => md_assemble(line.name, line.args) = SubSeq(section, 1, line.n_fetch \div 2)

(* Two words follow the instruction, one for each operand. *)
BothSymbolic(w) == Op(w) \in DOMAIN Dual2Ops /\ SMode(w) = 2 /\ DMode(w) = 2

(* objdump's line and the harness's name the same instruction with the     *)
(* same operands, whatever the decoder they use.  Only when each operand   *)
(* has a word of its own may the trace have exchanged them.                *)
SameInstruction ==
  \A destFirst \in BOOLEAN :
    LET trace == preExec(cpu, ir, destFirst)
        plain(t) == IF t.form = "r" THEN Number(t.reg) ELSE t
        values(args) == {args[k].value : k \in DOMAIN args}
    IN  Decoded /\ line.name \notin Misnamed /\ Op(ir) # "none" =>
          /\ Op(instab[line.name]) = trace.name
          /\ Len(line.args) = Len(trace.args)
          /\ CASE line.name \in Type2 ->
                     trace.args[1].value = CodeBase + 2 + line.args[1].value
               [] destFirst /\ BothSymbolic(ir) ->
                     values(line.args) = values(trace.args)
               [] OTHER ->
                     \A k \in DOMAIN line.args :
                       plain(line.args[k]) = plain(trace.args[k])

(* Where the next instruction is: the processor, the trace and objdump     *)
(* agree, so a listing stays in step with the execution.  B, X, BL, BLWP,  *)
(* RTWP and the jumps taken go elsewhere; BL and BLWP leave the address.   *)
InStep ==
  /\ Decoded /\ line.name \notin Misnamed /\ Op(ir) # "none" =>
       \A destFirst \in BOOLEAN : preExec(cpu, ir, destFirst).pc = CodeBase + line.n_fetch
  /\ mode = "check" /\ line.name # "data" =>
       CASE Op(ir) \in {"B", "X", "RTWP"} -> TRUE
         [] Op(ir) = "BL" -> Reg(cpu, 11) = CodeBase + line.n_fetch
         [] Op(ir) = "BLWP" -> Reg(cpu, 14) = CodeBase + line.n_fetch
         [] Op(ir) \in DOMAIN JumpOps ->
              cpu.pc - CodeBase - line.n_fetch \in {0, line.args[1].value}
         [] OTHER -> cpu.pc = CodeBase + line.n_fetch
=============================================================================
