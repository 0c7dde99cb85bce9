------------------------------- MODULE Tms9900 -------------------------------
(***************************************************************************)
(* The TMS9900 processor of test/harness/cpu.cc (class TMS9900 of cpu.h)   *)
(* over the flat 64 KiB memory of harness-mem.cc.                          *)
(*                                                                         *)
(* A step of main's loop, fetch() then execute(data), is here one Fetch    *)
(* action, one action of the handler execute() dispatches to, and the      *)
(* interrupt check execute() ends with.  An X instruction calls execute()  *)
(* again: "frames" counts the calls that are still to make their check.    *)
(***************************************************************************)
EXTENDS Integers, FiniteSets

CONSTANTS
  Boot,     \* the processor and memory states execution may start from
  Levels,   \* interrupt levels the devices behind _interruptLevel raise
  MaxX      \* bound: how deep X instructions may nest

VARIABLES
  cpu,      \* _pc, _wp, _st and memory[]
  ir,       \* the argument of the execute() call in progress
  mode,     \* "fetch", "execute", "check" or "halted" (the process exited)
  frames    \* execute() calls an X instruction left open

vars == <<cpu, ir, mode, frames>>

-----------------------------------------------------------------------------
(* 16-bit words *)

Word == {x \in Nat : x < 65536}

(* Mutant of Wrap: the result is not truncated. *)
WrapMissing(x) == x

Wrap(x) == x % 65536

Msb(x) == (x \div 32768) % 2

Signed16(x) == IF x > 32767 THEN x - 65536 ELSE x

Signed8(x) == IF x % 256 > 127 THEN (x % 256) - 256 ELSE x % 256

Powers ==
  << 2, 4, 8, 16, 32, 64, 128, 256, 512, 1024, 2048, 4096, 8192, 16384,
     32768, 65536 >>

(* 2^n, for n up to 16 *)
Power2(n) == IF n = 0 THEN 1 ELSE Powers[n]

Bit(x, i) == (x \div Power2(i)) % 2

ByteOf(b, i) ==
  b[i] + 2*b[i+1] + 4*b[i+2] + 8*b[i+3]
  + 16*b[i+4] + 32*b[i+5] + 64*b[i+6] + 128*b[i+7]

FromBits(b) == ByteOf(b, 0) + 256 * ByteOf(b, 8)

BitNot(x) == 65535 - x

BitAnd(x, y) ==
  FromBits([i \in 0..15 |-> IF Bit(x, i) = 1 /\ Bit(y, i) = 1 THEN 1 ELSE 0])

BitOr(x, y) ==
  FromBits([i \in 0..15 |-> IF Bit(x, i) = 1 \/ Bit(y, i) = 1 THEN 1 ELSE 0])

BitXor(x, y) ==
  FromBits([i \in 0..15 |-> IF Bit(x, i) # Bit(y, i) THEN 1 ELSE 0])

-----------------------------------------------------------------------------
(* Memory.  A word that was never written reads as 0 (memory[] is static), *)
(* so only the words written so far are kept, at their even addresses.     *)

Even(a) == a - (a % 2)

ReadW(m, a) == IF Even(a) \in DOMAIN m.mem THEN m.mem[Even(a)] ELSE 0

ReadB(m, a) == IF a % 2 = 0 THEN ReadW(m, a) \div 256 ELSE ReadW(m, a) % 256

WriteW(m, a, v) ==
  [m EXCEPT !.mem = [x \in DOMAIN m.mem \cup {Even(a)} |->
                       IF x = Even(a) THEN v ELSE m.mem[x]]]

WriteB(m, a, v) ==
  WriteW(m, a, IF a % 2 = 0 THEN 256 * v + (ReadW(m, a) % 256)
                            ELSE ReadW(m, a) - (ReadW(m, a) % 256) + v)

(* Registers are words of memory at the workspace pointer. *)
RegAddr(m, r) == Wrap(m.wp + 2 * r)

Reg(m, r) == ReadW(m, RegAddr(m, r))

SetReg(m, r, v) == WriteW(m, RegAddr(m, r), v)

(* fetch(): the word is ReadW(m, m.pc), the state after it Fetched(m). *)
Fetched(m) == [m EXCEPT !.pc = Wrap(@ + 2)]

-----------------------------------------------------------------------------
(* The status register *)

FLAG_LGT == \h8000
FLAG_AGT == \h4000
FLAG_EQ == \h2000
FLAG_C == \h1000
FLAG_OV == \h0800
FLAG_OP == \h0400

HasFlag(m, f) == (m.st \div f) % 2 = 1

SetFlag(m, f, on) ==
  [m EXCEPT !.st = IF on /\ ~HasFlag(m, f) THEN @ + f
                   ELSE IF ~on /\ HasFlag(m, f) THEN @ - f ELSE @]

IntMask(m) == m.st % 16

SetIntMask(m, n) == [m EXCEPT !.st = @ - (@ % 16) + n]

CompareWord(m, s, d) ==
  SetFlag(SetFlag(SetFlag(m, FLAG_EQ, s = d), FLAG_LGT, s > d),
          FLAG_AGT, Signed16(s) > Signed16(d))

CompareByte(m, s, d) ==
  SetFlag(SetFlag(SetFlag(m, FLAG_EQ, s = d), FLAG_LGT, s > d),
          FLAG_AGT, Signed8(s) > Signed8(d))

Parity(m, v) ==
  SetFlag(m, FLAG_OP, Cardinality({i \in 0..7 : Bit(v, i) = 1}) % 2 = 1)

(* Carry and overflow of d + s and of d - s, "top" the first value that    *)
(* does not fit.  The overflow test reads bit 15 of byte operands too.     *)
AddFlags(m, d, s, top) ==
  SetFlag(SetFlag(m, FLAG_OV, Msb(s) = Msb(d) /\ Msb(d + s) # Msb(d)),
          FLAG_C, d + s >= top)

SubFlags(m, d, s) ==
  SetFlag(SetFlag(m, FLAG_OV, Msb(s) # Msb(d) /\ Msb(d - s) # Msb(d)),
          FLAG_C, d >= s)

(* Store a result and compare it with zero. *)
Store(m, a, v) == CompareWord(WriteW(m, a, v), v, 0)

StoreB(m, a, v) == CompareByte(WriteB(m, a, v), v, 0)

-----------------------------------------------------------------------------
(* Context switches *)

(* Mutant of Blwp: the link is written before the workspace changes. *)
BlwpLinkInOldWorkspace(m, a) ==
  LET n == SetReg(SetReg(SetReg(m, 13, m.wp), 14, m.pc), 15, m.st)
  IN  [n EXCEPT !.wp = ReadW(m, a), !.pc = ReadW(m, Wrap(a + 2))]

Blwp(m, a) ==
  LET n == [m EXCEPT !.wp = ReadW(m, a), !.pc = ReadW(m, Wrap(a + 2))]
  IN  SetReg(SetReg(SetReg(n, 13, m.wp), 14, m.pc), 15, m.st)

(* Mutants of Rtwp: R14 and R15 are read from the workspace returned to;   *)
(* the status is not restored; the program counter is not restored.        *)
RtwpWorkspaceFirst(m) ==
  LET n == [m EXCEPT !.wp = Reg(m, 13)]
  IN  [n EXCEPT !.pc = Reg(n, 14), !.st = Reg(n, 15)]

RtwpKeepsStatus(m) == [m EXCEPT !.pc = Reg(m, 14), !.wp = Reg(m, 13)]

RtwpKeepsPc(m) == [m EXCEPT !.st = Reg(m, 15), !.wp = Reg(m, 13)]

Rtwp(m) == [m EXCEPT !.pc = Reg(m, 14), !.st = Reg(m, 15), !.wp = Reg(m, 13)]

(* Mutant of Interrupted: the level being serviced stays enabled. *)
InterruptedSameLevel(m, l) == SetIntMask(Blwp(m, 4 * l), l)

(* The end of execute() when _interruptLevel returned level l. *)
Interrupted(m, l) ==
  SetIntMask(Blwp(m, 4 * l), IF l > 0 THEN l - 1 ELSE 0)

-----------------------------------------------------------------------------
(* Operands.  A mode is the two-bit field of the instruction. *)

OperandAddr(m, md, r) ==
  CASE md = 0 -> RegAddr(m, r)
    [] md = 2 -> Wrap(ReadW(m, m.pc) + IF r = 0 THEN 0 ELSE Reg(m, r))
    [] md \in {1, 3} -> Reg(m, r)

OperandDone(m, md, r, size) ==
  CASE md \in {0, 1} -> m
    [] md = 2 -> Fetched(m)
    [] md = 3 -> SetReg(m, r, Wrap(Reg(m, r) + size))

-----------------------------------------------------------------------------
(* Opcodes (cpu.h) and their decoding: opGroup[data >> 10] gives the   *)
(* handler and the mask that leaves out the operand fields.                *)

ImmediateOps ==
  [LI |-> \h0200, AI |-> \h0220, ANDI |-> \h0240, ORI |-> \h0260,
   CI |-> \h0280, STWP |-> \h02A0, STST |-> \h02C0, LWPI |-> \h02E0,
   LIMI |-> \h0300, RTWP |-> \h0380]

SingleOps ==
  [BLWP |-> \h0400, B |-> \h0440, X |-> \h0480, CLR |-> \h04C0,
   NEG |-> \h0500, INV |-> \h0540, INC |-> \h0580, INCT |-> \h05C0,
   DEC |-> \h0600, DECT |-> \h0640, BL |-> \h0680, SWPB |-> \h06C0,
   SETO |-> \h0700, ABS |-> \h0740]

ShiftOps == [SRA |-> \h0800, SRL |-> \h0900, SLA |-> \h0A00, SRC |-> \h0B00]

(* JOP has an opcode in cpu.h and no case in _executeJump. *)
JumpOps ==
  [JMP |-> \h1000, JLT |-> \h1100, JLE |-> \h1200, JEQ |-> \h1300,
   JHE |-> \h1400, JGT |-> \h1500, JNE |-> \h1600, JNC |-> \h1700,
   JOC |-> \h1800, JNO |-> \h1900, JL |-> \h1A00, JH |-> \h1B00,
   SBO |-> \h1D00, SBZ |-> \h1E00, TB |-> \h1F00]

Dual1Ops ==
  [COC |-> \h2000, CZC |-> \h2400, XOR |-> \h2800, XOP |-> \h2C00,
   LDCR |-> \h3000, STCR |-> \h3400, MPY |-> \h3800, DIV |-> \h3C00]

Dual2Ops ==
  [SZC |-> \h4000, SZCB |-> \h5000, S |-> \h6000, SB |-> \h7000,
   C |-> \h8000, CB |-> \h9000, A |-> \hA000, AB |-> \hB000,
   MOV |-> \hC000, MOVB |-> \hD000, SOC |-> \hE000, SOCB |-> \hF000]

OpcodeTables ==
  {ImmediateOps, SingleOps, ShiftOps, JumpOps, Dual1Ops, Dual2Ops}

Mnemonic ==
  [code \in UNION {{t[n] : n \in DOMAIN t} : t \in OpcodeTables} |->
     CHOOSE n \in UNION {DOMAIN t : t \in OpcodeTables} :
       \E t \in OpcodeTables : n \in DOMAIN t /\ t[n] = code]

OperandSpan(w) ==
  CASE w < \h0400 -> 32
    [] w >= \h0400 /\ w < \h0800 -> 64
    [] w >= \h0800 /\ w < \h0C00 -> 256
    [] w >= \h0C00 /\ w < \h1000 -> 1        \* type 0: "Bad optype"
    [] w >= \h1000 /\ w < \h2000 -> 256
    [] w >= \h2000 /\ w < \h4000 -> 1024
    [] w >= \h4000 -> 4096

(* decode(): the name of the instruction, "none" when execute() halts. *)
Op(w) ==
  LET code == w - (w % OperandSpan(w))
  IN  IF code \in DOMAIN Mnemonic THEN Mnemonic[code] ELSE "none"

(* The operand fields execute() extracts. *)
SReg(w) == w % 16
SMode(w) == (w \div 16) % 4
Count(w) == (w \div 16) % 16
DReg(w) == (w \div 64) % 16
DMode(w) == (w \div 1024) % 4
Offset(w) == Signed8(w)

-----------------------------------------------------------------------------
(* The handlers: each operator is the state after its instruction. *)

Immediate(m, op, r) ==
  LET f == Fetched(m)
      i == ReadW(m, m.pc)
      d == Reg(m, r)
      result(n, v) == Store(n, RegAddr(n, r), v)
  IN  CASE op = "LI" -> SetReg(f, r, i)
        [] op = "AI" -> result(AddFlags(f, d, i, 65536), Wrap(d + i))
        [] op = "ANDI" -> result(f, BitAnd(d, i))
        [] op = "ORI" -> result(f, BitOr(d, i))
        [] op = "CI" -> CompareWord(f, d, i)
        [] op = "STST" -> SetReg(m, r, m.st)
        [] op = "STWP" -> SetReg(m, r, m.wp)
        [] op = "LWPI" -> [f EXCEPT !.wp = i]
        [] op = "LIMI" -> [f EXCEPT !.st = BitOr(@ - (@ % 16), i)]
        [] op = "RTWP" -> Rtwp(m)

(* Instructions with one operand, at address a of the state m in which the *)
(* operand has been decoded.  X is an action of its own.                   *)
Single(m, op, a) ==
  LET p == ReadW(m, a)
      carry(on) == SetFlag(m, FLAG_C, on)
      flags(c, ov) == SetFlag(carry(c), FLAG_OV, ov)
      negative == Msb(p) = 1
      bump(n, v) == IF a % 2 = 1 THEN StoreB(n, a, v % 256) ELSE Store(n, a, v)
  IN  CASE op = "BLWP" -> Blwp(m, a)
        [] op = "B" -> [m EXCEPT !.pc = a]
        [] op = "CLR" -> WriteW(m, a, 0)
        [] op = "SETO" -> WriteW(m, a, 65535)
        [] op = "NEG" -> Store(flags(p = 32768, negative), a, Wrap(-p))
        [] op = "INV" -> Store(m, a, BitNot(p))
        [] op = "INC" ->
             Store(flags(p = 65535, ~negative /\ Msb(p + 1) = 1), a, Wrap(p + 1))
        [] op = "INCT" ->
             bump(flags(p >= 65534, ~negative /\ Msb(p + 2) = 1), Wrap(p + 2))
        [] op = "DEC" ->
             Store(flags(p # 0, negative /\ Msb(p - 1) = 0), a, Wrap(p - 1))
        [] op = "DECT" ->
             bump(flags(p > 1, negative /\ Msb(p - 2) = 0), Wrap(p - 2))
        [] op = "BL" -> [SetReg(m, 11, m.pc) EXCEPT !.pc = a]
        [] op = "SWPB" -> Store(m, a, 256 * (p % 256) + (p \div 256))
        [] op = "ABS" ->
             LET v == IF negative THEN Wrap(-p) ELSE p
                 n == SetFlag(flags(p = 32768, negative),
                              FLAG_AGT, Signed8(p) > 0)
             IN  SetFlag(SetFlag(WriteW(n, a, v), FLAG_EQ, v = 0),
                         FLAG_LGT, v # 0)

(* A count of zero is taken from R0, and zero there means 16. *)
ShiftCount(m, c) ==
  LET n == IF c = 0 THEN Reg(m, 0) % 16 ELSE c
  IN  IF n = 0 THEN 16 ELSE n

Shift(m, op, r, c) ==
  LET d == Reg(m, r)
      n == ShiftCount(m, c)
      lastOut == IF op = "SLA" THEN Bit(d, 16 - n) ELSE Bit(d, n - 1)
      v == CASE op = "SRA" -> Wrap(Signed16(d) \div Power2(n))
             [] op = "SRL" -> d \div Power2(n)
             [] op = "SRC" -> Wrap((d \div Power2(n)) + (d % Power2(n)) * Power2(16 - n))
             [] op = "SLA" -> Wrap((d % Power2(16 - n)) * Power2(n))
      carried == SetFlag(m, FLAG_C, lastOut = 1)
  IN  Store(IF op = "SLA" THEN SetFlag(carried, FLAG_OV, Msb(v) # Msb(d))
                          ELSE carried,
            RegAddr(m, r), v)

JumpAnd(m, set, clr) ==
  (\A f \in set : HasFlag(m, f)) /\ (\A f \in clr : ~HasFlag(m, f))

JumpOr(m, set, clr) ==
  (\E f \in set : HasFlag(m, f)) \/ (\E f \in clr : ~HasFlag(m, f))

JumpTaken(m, op) ==
  CASE op = "JMP" -> JumpAnd(m, {}, {})
    [] op = "JLT" -> JumpAnd(m, {}, {FLAG_AGT, FLAG_EQ})
    [] op = "JGT" -> JumpAnd(m, {FLAG_AGT}, {FLAG_EQ})
    [] op = "JL" -> JumpAnd(m, {}, {FLAG_LGT, FLAG_EQ})
    [] op = "JLE" -> JumpOr(m, {FLAG_EQ}, {FLAG_LGT})
    [] op = "JH" -> JumpAnd(m, {FLAG_LGT}, {FLAG_EQ})
    [] op = "JHE" -> JumpOr(m, {FLAG_LGT, FLAG_EQ}, {})
    [] op = "JNC" -> JumpAnd(m, {}, {FLAG_C})
    [] op = "JOC" -> JumpAnd(m, {FLAG_C}, {})
    [] op = "JNO" -> JumpAnd(m, {}, {FLAG_OV})
    [] op = "JNE" -> JumpAnd(m, {}, {FLAG_EQ})
    [] op = "JEQ" -> JumpAnd(m, {FLAG_EQ}, {})

(* The CRU hooks of class TMS9900 ignore what is sent and answer 0. *)
Jump(m, op, off) ==
  CASE op \in {"SBO", "SBZ"} -> m
    [] op = "TB" -> SetFlag(m, FLAG_EQ, FALSE)
    [] OTHER -> IF JumpTaken(m, op) THEN [m EXCEPT !.pc = Wrap(@ + 2 * off)]
                                    ELSE m

-----------------------------------------------------------------------------
(* 32-bit products and quotients, a byte at a time: TLC's integers have 32  *)
(* bits too.                                                                *)

Product(x, y) ==
  LET upper == (x \div 256) * y
      lower == (upper % 256) * 256 + (x % 256) * y
  IN  [high |-> (upper \div 256) + (lower \div 65536), low |-> Wrap(lower)]

Quotient(high, low, y) ==
  LET upper == high * 256 + (low \div 256)
      lower == (upper % y) * 256 + (low % 256)
  IN  [quotient |-> Wrap((upper \div y) * 256 + (lower \div y)),
       remainder |-> Wrap(lower % y)]

(* A source operand s at address a, and a register.  The XOP hook of class *)
(* TMS9900 does nothing; Harness gives it its meaning.                     *)
Dual1(m, op, r, a, s) ==
  LET d == Reg(m, r)
  IN  CASE op = "COC" -> CompareWord(m, BitAnd(s, d), s)
        [] op = "CZC" -> CompareWord(m, BitAnd(s, BitNot(d)), s)
        [] op = "XOR" -> Store(m, RegAddr(m, r), BitXor(d, s))
        [] op = "XOP" -> m
        [] op = "MPY" -> SetReg(SetReg(m, r, Product(d, s).high),
                                r + 1, Product(d, s).low)
        [] op = "DIV" ->
             IF s <= d THEN SetFlag(m, FLAG_OV, TRUE)
             ELSE LET q == Quotient(d, Reg(m, r + 1), s)
                  IN  SetReg(SetReg(SetFlag(m, FLAG_OV, FALSE), r, q.quotient),
                             r + 1, q.remainder)
        [] op = "LDCR" -> IF r <= 8 THEN Parity(m, ReadB(m, a)) ELSE m
        [] op = "STCR" -> IF r <= 8 THEN Parity(WriteB(m, a, 0), 0)
                                    ELSE WriteW(m, a, 0)

(* Two general operands: s the source's value, a the destination's address *)
(* and d its value, in the state m in which both have been decoded.        *)
Dual2(m, op, s, a, d) ==
  CASE op = "SZC" -> Store(m, a, BitAnd(d, BitNot(s)))
    [] op = "SZCB" -> Parity(StoreB(m, a, BitAnd(d, BitNot(s))),
                             BitAnd(d, BitNot(s)))
    [] op = "S" -> Store(SubFlags(m, d, s), a, Wrap(d - s))
    [] op = "SB" -> Parity(StoreB(SubFlags(m, d, s), a, (d - s) % 256),
                           (d - s) % 256)
    [] op = "C" -> CompareWord(m, s, d)
    [] op = "CB" -> Parity(CompareByte(m, s, d), s)
    [] op = "MOV" -> Store(m, a, s)
    [] op = "MOVB" -> Parity(StoreB(m, a, s), s)
    [] op = "SOC" -> Store(m, a, BitOr(d, s))
    [] op = "SOCB" -> Parity(StoreB(m, a, BitOr(d, s)), BitOr(d, s))
    [] op = "A" -> Store(AddFlags(m, d, s, 65536), a, Wrap(d + s))
    [] op = "AB" -> Parity(StoreB(AddFlags(m, d, s, 256), a, (d + s) % 256),
                           (d + s) % 256)

ByteOps == {"SZCB", "SB", "CB", "AB", "MOVB", "SOCB"}

(* _executeDual2 with its operand decoding: source first, then destination. *)
TwoOperands(m, op, w) ==
  LET byte == op \in ByteOps
      size == IF byte THEN 1 ELSE 2
      fetch(n, a) == IF byte THEN ReadB(n, a) ELSE ReadW(n, a)
      sAddr == OperandAddr(m, SMode(w), SReg(w))
      ms == OperandDone(m, SMode(w), SReg(w), size)
      dAddr == OperandAddr(ms, DMode(w), DReg(w))
      md == OperandDone(ms, DMode(w), DReg(w), size)
  IN  Dual2(md, op, fetch(ms, sAddr), dAddr, fetch(md, dAddr))

(* _executeDual1 and _executeSingle with their operand decoding. *)
OneOperandAndRegister(m, op, w) ==
  LET a == OperandAddr(m, SMode(w), SReg(w))
      n == OperandDone(m, SMode(w), SReg(w), 2)
  IN  Dual1(n, op, DReg(w), a, ReadW(n, a))

OneOperand(m, op, w) ==
  Single(OperandDone(m, SMode(w), SReg(w), 2), op,
         OperandAddr(m, SMode(w), SReg(w)))

-----------------------------------------------------------------------------
(* Actions *)

Fetch ==
  /\ mode = "fetch"
  /\ ir' = ReadW(cpu, cpu.pc)
  /\ cpu' = Fetched(cpu)
  /\ mode' = "execute"
  /\ UNCHANGED frames

(* execute() dispatches on the type of the opcode. *)
Execute(ops, result(_, _)) ==
  /\ mode = "execute"
  /\ Op(ir) \in DOMAIN ops \ {"X"}
  /\ cpu' = result(cpu, Op(ir))
  /\ mode' = "check"
  /\ UNCHANGED <<ir, frames>>

ExecuteImmediate ==
  Execute(ImmediateOps, LAMBDA m, op : Immediate(m, op, SReg(ir)))

ExecuteSingle ==
  Execute(SingleOps, LAMBDA m, op : OneOperand(m, op, ir))

ExecuteShift ==
  Execute(ShiftOps, LAMBDA m, op : Shift(m, op, SReg(ir), Count(ir)))

ExecuteJump ==
  Execute(JumpOps, LAMBDA m, op : Jump(m, op, Offset(ir)))

ExecuteDual1 ==
  Execute(Dual1Ops, LAMBDA m, op : OneOperandAndRegister(m, op, ir))

ExecuteDual2 ==
  Execute(Dual2Ops, LAMBDA m, op : TwoOperands(m, op, ir))

(* X: execute() calls itself with the operand's value. *)
ExecuteX ==
  /\ mode = "execute"
  /\ Op(ir) = "X"
  /\ frames < MaxX
  /\ ir' = ReadW(OperandDone(cpu, SMode(ir), SReg(ir), 2),
                 OperandAddr(cpu, SMode(ir), SReg(ir)))
  /\ cpu' = OperandDone(cpu, SMode(ir), SReg(ir), 2)
  /\ frames' = frames + 1
  /\ UNCHANGED mode

(* _halt(): "Bad optype" or "Bad ... opcode", and the process exits. *)
Halt ==
  /\ mode = "execute"
  /\ Op(ir) = "none"
  /\ mode' = "halted"
  /\ UNCHANGED <<cpu, ir, frames>>

(* The last thing execute() does, once for each call still open. *)
ReturnFromExecute ==
  /\ frames' = IF frames > 0 THEN frames - 1 ELSE 0
  /\ mode' = IF frames > 0 THEN "check" ELSE "fetch"
  /\ UNCHANGED ir

(* _interruptLevel(mask) answers with a pending level the mask lets in, or *)
(* with -1.                                                                *)
TakeInterrupt(l) ==
  /\ mode = "check"
  /\ l <= IntMask(cpu)
  /\ cpu' = Interrupted(cpu, l)
  /\ ReturnFromExecute

NoInterrupt ==
  /\ mode = "check"
  /\ UNCHANGED cpu
  /\ ReturnFromExecute

Run ==
  \/ Fetch
  \/ ExecuteImmediate
  \/ ExecuteSingle
  \/ ExecuteShift
  \/ ExecuteJump
  \/ ExecuteDual1
  \/ ExecuteDual2
  \/ ExecuteX
  \/ Halt
  \/ NoInterrupt

Next == Run \/ \E l \in Levels : TakeInterrupt(l)

Start(m) ==
  /\ cpu = m
  /\ ir = 0
  /\ mode = "fetch"
  /\ frames = 0

Init == \E m \in Boot : Start(m)

Spec == Init /\ [][Next]_vars

-----------------------------------------------------------------------------
(* Type invariant *)

IsMemory(f) ==
  /\ f = [a \in DOMAIN f |-> f[a]]
  /\ \A a \in DOMAIN f : a \in Word /\ a % 2 = 0 /\ f[a] \in Word

IsMachine(m) ==
  /\ m \in [pc : Word, wp : Word, st : Word, mem : {m.mem}]
  /\ IsMemory(m.mem)

ASSUME BootAssumption == \A m \in Boot : IsMachine(m)

ASSUME BoundAssumption == MaxX \in Nat /\ Levels \subseteq 0 .. 15

(* Every register and every word the processor stores stays within 16 bits *)
(* whatever is executed: each handler truncates its 32-bit intermediate    *)
(* result (cpu.cc), and word accesses land on even addresses.              *)
TypeOK ==
  /\ IsMachine(cpu)
  /\ ir \in Word
  /\ mode \in {"fetch", "execute", "check", "halted"}
  /\ frames \in 0 .. MaxX
=============================================================================
