------------------------------ MODULE Lib1funcs ------------------------------
(***************************************************************************)
(* The 32-bit arithmetic of libgcc, config/tms9900/lib1funcs.asm: division *)
(* and modulus (__divsi3, __modsi3, __udivsi3, __umodsi3 over the common   *)
(* __divmodstart, __udivmod32 and __divmodend) and the shifts (__ashlsi3,  *)
(* __ashrsi3, __lshrsi3).  The routines are assembled (Gas) and one call   *)
(* of one of them runs on the processor (Tms9900) of the test harness,     *)
(* made by the test itself or from the body of a compiled function whose   *)
(* arguments, prologue and epilogue are those of Frame.  A function may    *)
(* also be the code of one of the Patterns.                                *)
(***************************************************************************)
EXTENDS Patterns

CONSTANT Calls   \* the calls made: a routine, its operands and the function

VARIABLE call

libVars == <<vars, call>>

-----------------------------------------------------------------------------
(* The text of the routines.  In r1:r2 and r3:r4 the upper word is first.  *)

r0 == R(0)
r1 == R(1)
r2 == R(2)
r3 == R(3)
r4 == R(4)
r5 == R(5)
r6 == R(6)
r7 == R(7)
r8 == R(8)
r11 == R(11)
r12 == R(12)
r15 == R(15)

Push(r) == <<One("dect", R(10)), Mov(r, Ind(10))>>

Pop(r) == <<Mov(Inc(10), r)>>

Return == <<One("b", Ind(11))>>

(* Mutant of Negate: the jump tests the wrong way. *)
NegateOnCarry(upper, lower, l) ==
  << One("inv", upper), One("neg", lower),
     JumpTo("joc", l),
     One("inc", upper) >>

(* inv upper; neg lower; jnc l; inc upper: negate a pair *)
Negate(upper, lower, l) ==
  << One("inv", upper), One("neg", lower),
     JumpTo("jnc", l),
     One("inc", upper) >>

divmodstart ==
  << Label("divmodstart"),
     Mov(r1, r5),
     JumpTo("jlt", "negnum"),
     JumpTo("jmp", "testden"),
     Label("negnum") >>
  \o Negate(r1, r2, "testden") \o
  << Label("testden"),
     Two("xor", r3, r5),
     Mov(r3, r3),
     JumpTo("jlt", "negden"),
     JumpTo("jmp", "done"),
     Label("negden") >>
  \o Negate(r3, r4, "done") \o <<Label("done")>> \o Return

divmodend ==
  << Label("divmodend"),
     Mov(r5, r0),
     JumpTo("jlt", "makeneg") >>
  \o Return \o <<Label("makeneg")>>
  \o Negate(r1, r2, "end") \o <<Label("end")>> \o Return

divsi3 ==
  <<Label("divsi3")>> \o Push(r11) \o Push(r5) \o
  << BranchTo("bl", "divmodstart"),
     BranchTo("bl", "udivsi3"),
     BranchTo("bl", "divmodend") >>
  \o Pop(r5) \o Pop(r11) \o Return

modsi3 ==
  <<Label("modsi3")>> \o Push(r11) \o Push(r5) \o Push(r1) \o
  << BranchTo("bl", "divmodstart"),
     BranchTo("bl", "udivsi3"),
     Mov(r3, r1), Mov(r4, r2) >>
  \o Pop(r5) \o <<BranchTo("bl", "divmodend")>>
  \o Pop(r5) \o Pop(r11) \o Return

umodsi3 ==
  <<Label("umodsi3")>> \o Push(r11) \o
  << BranchTo("bl", "udivsi3"),
     Mov(r3, r1), Mov(r4, r2) >>
  \o Pop(r11) \o Return

(* __udivmod32 with a denominator of one word *)
divide16 ==
  << One("clr", r0),
     Mov(r1, r1),
     JumpTo("jeq", "num16"),
     Two("div", r4, r0),
     Label("num16"),
     Two("div", r4, r1),
     Mov(r2, r4), Mov(r1, r2), Mov(r0, r1),
     JumpTo("jmp", "jmp4") >>

(* __udivmod32 with a denominator of two words: an estimate of the         *)
(* quotient, its remainder, and a correction if that is negative           *)
divide32 ==
  << Mov(r1, r0), Mov(r2, r12),
     Mov(r3, r7), Mov(r4, r8),
     One("clr", r1), Mov(r8, r2), ShiftBy("srl", 2, 1),
     Two("div", r7, r1), RegImm("ai", 1, \h8000),
     Mov(r0, r2), Mov(r12, r3),
     ShiftBy("srl", 2, 1), ShiftBy("srl", 3, 1),
     JumpTo("jnc", "jmp1"),
     RegImm("ori", 3, \h8000),
     Label("jmp1"),
     One("clr", r4), Mov(r2, r5), Two("div", r7, r4),
     Mov(r3, r6), Two("div", r7, r5),
     Mov(r4, r2), Mov(r5, r3),
     Two("div", r1, r2),
     Mov(r7, r3), Two("mpy", r2, r3),
     Mov(r8, r5), Two("mpy", r2, r5),
     Two("a", r4, r5),
     Mov(r0, r3), Mov(r12, r4),
     Two("s", r5, r3), Two("s", r6, r4),
     JumpTo("joc", "jmp2"),
     One("dec", r3),
     Label("jmp2"),
     One("clr", r1),
     Mov(r3, r3),
     JumpTo("jlt", "jmp3"),
     JumpTo("jmp", "jmp4"),
     Label("jmp3"),
     One("dec", r2),
     Two("a", r7, r3), Two("a", r8, r4),
     JumpTo("jnc", "jmp4"),
     One("inc", r3) >>

(* __udivsi3 falls through to __udivmod32: one routine, one label here. *)
udivmod32 ==
  << Label("udivsi3"),
     RegImm("ai", 10, -10),
     Mov(R(10), r0),
     Mov(r5, Inc(0)), Mov(r6, Inc(0)), Mov(r7, Inc(0)),
     Mov(r8, Inc(0)), Mov(r12, Inc(0)),
     Mov(r3, r3),
     JumpTo("jne", "den32") >>
  \o divide16 \o <<Label("den32")>> \o divide32 \o <<Label("jmp4")>>
  \o Pop(r5) \o Pop(r6) \o Pop(r7) \o Pop(r8) \o Pop(r12) \o Return

(* The shifts: r15 is kept below the stack pointer, the count is in r0. *)
ShiftFrame(name, above16, at16, below16) ==
  << Label(name),
     Mov(r15, AtReg(-2, 10)),
     Mov(r3, r0),
     RegImm("ci", 0, 16),
     JumpTo("jlt", "lt16"),
     JumpTo("jeq", "eq16") >>
  \o above16 \o <<Label("eq16")>> \o at16 \o
  << JumpTo("jmp", "shifted"),
     Label("lt16"),
     One("abs", r0),
     JumpTo("jeq", "shifted") >>
  \o below16 \o
  << Label("shifted"),
     Mov(AtReg(-2, 10), r15) >>
  \o Return

ashlsi3 ==
  ShiftFrame("ashlsi3",
    <<ShiftBy("sla", 2, 0)>>,
    <<Mov(r2, r1), One("clr", r2)>>,
    << Mov(r2, r15), ShiftBy("sla", 1, 0), ShiftBy("sla", 2, 0),
       One("neg", r0), ShiftBy("srl", 15, 0), Two("soc", r15, r1) >>)

ashrsi3 ==
  ShiftFrame("ashrsi3",
    <<ShiftBy("sra", 1, 0)>>,
    << Mov(r1, r2), One("seto", r1), JumpTo("jlt", "shifted"),
       One("clr", r1) >>,
    << Mov(r2, r15), ShiftBy("sra", 1, 0), ShiftBy("srl", 2, 0),
       One("neg", r0), ShiftBy("sla", 15, 0), Two("soc", r15, r2) >>)

lshrsi3 ==
  ShiftFrame("lshrsi3",
    <<ShiftBy("srl", 1, 0)>>,
    <<Mov(r1, r2), One("clr", r1)>>,
    << Mov(r2, r15), ShiftBy("srl", 1, 0), ShiftBy("srl", 2, 0),
       One("neg", r0), ShiftBy("sla", 15, 0), Two("soc", r15, r2) >>)

-----------------------------------------------------------------------------
(* A call: [routine, x, y, function].  x and the y of a division are pairs *)
(* of words, the y of a shift is its count.  The function is Direct or one *)
(* of Frame; a leaf calls no routine and returns its last argument.  When  *)
(* the routine is a pattern, x and y are words.                            *)

Direct ==
  [live |-> {}, leaf |-> FALSE, frame_size |-> -1,
   frame_pointer_needed |-> FALSE, before |-> <<>>]

Leaf == "leaf"

Stay == <<Label("caller"), JumpTo("jmp", "caller")>>

Divisions ==
  Stay \o divmodstart \o divmodend \o divsi3 \o modsi3 \o umodsi3 \o udivmod32

Shifts == [ashlsi3 |-> Stay \o ashlsi3, ashrsi3 |-> Stay \o ashrsi3,
           lshrsi3 |-> Stay \o lshrsi3]

CodeBase == \h6000

FunctionBase == \h7000

IsPattern(c) == c.routine \in PatternNames

Pattern(c) == PatternFor(c.routine, c.x, c.y)

Text(c) ==
  CASE IsPattern(c) -> Stay \o <<Label(c.routine)>> \o Pattern(c).code \o Return
    [] c.routine \in DOMAIN Shifts -> Shifts[c.routine]
    [] OTHER -> Divisions

Entry(c) == LabelAddr(Text(c), CodeBase, c.routine)

DivisionImage == Assemble(Divisions, CodeBase)

ShiftImage == [s \in DOMAIN Shifts |-> Assemble(Shifts[s], CodeBase)]

RoutineImage(c) ==
  CASE IsPattern(c) -> Assemble(Text(c), CodeBase)
    [] c.routine \in DOMAIN Shifts -> ShiftImage[c.routine]
    [] OTHER -> DivisionImage

Registers == \h8300

StackPointer == \h4000

(* The words of the two operands, and where they are passed. *)
Operands(c) ==
  CASE IsPattern(c) -> <<<<c.x>>, <<c.y>>>>
    [] c.routine \in DOMAIN Shifts -> <<c.x, <<c.y>>>>
    [] OTHER -> <<c.x, c.y>>

Passed(c) ==
  Placement(c.function.before \o [k \in 1 .. 2 |-> 2 * Len(Operands(c)[k])])

PassedOperand(c, k) == Passed(c)[Len(Passed(c)) - 2 + k]

StackAtCall(c) == StackPointer - PassedOperand(c, 2).bytes

-----------------------------------------------------------------------------
(* The function: it spoils the registers it has saved, fills its locals,   *)
(* takes its operands from where they were passed to where the routine     *)
(* takes them, and calls it.                                               *)

(* A word of operand k to a register. *)
Load(c, k, word, r) ==
  LET f == c.function
      at == PassedOperand(c, k)
      base == IF f.frame_pointer_needed THEN BP ELSE SP
  IN  Mov(IF at.reg # 0 THEN R(at.reg + word - 1)
          ELSE AtReg(initial_elimination_offset(f) + at.offset + 2 * (word - 1), base),
          R(r))

Body(c) ==
  LET f == c.function
      base == IF f.frame_pointer_needed THEN BP ELSE SP
      spoiled == SelectSeq(nvolregs, LAMBDA r : r \in f.live)
      locals == [k \in 1 .. f.frame_size \div 2 |-> 2 * (k - 1)]
      words == 1 .. Len(Operands(c)[2])
      call2 == IF f.leaf THEN 1 ELSE 3
  IN  Each(spoiled, LAMBDA r : <<RegImm("li", r, 400 + r)>>)
      \o Each(locals, LAMBDA k : <<RegImm("li", 0, 300 + k), Mov(r0, AtReg(k, base))>>)
      \o (IF f.leaf THEN <<>> ELSE <<Load(c, 1, 1, 1), Load(c, 1, 2, 2)>>)
      \o [word \in words |-> Load(c, 2, word, call2 + word - 1)]
      \o (IF f.leaf THEN <<>> ELSE <<One("bl", At(Entry(c)))>>)

FunctionImage(c) ==
  IF c.function = Direct THEN <<>>
  ELSE Assemble(expand_prologue(c.function) \o Body(c) \o expand_epilogue(c.function),
                FunctionBase)

-----------------------------------------------------------------------------
(* The machine at the call: 100 + n stands for what the caller keeps in Rn *)
(* and 200 for the top of its stack, which is above the arguments.         *)

ArgumentRegister(c, r) ==
  LET holds(k, word) ==
        LET reg == PassedOperand(c, k).reg IN reg # 0 /\ reg + word - 1 = r
      places == {<<k, word>> \in {1, 2} \X {1, 2} :
                   word \in DOMAIN Operands(c)[k] /\ holds(k, word)}
  IN  IF places = {} THEN 100 + r
      ELSE LET place == CHOOSE p \in places : TRUE
           IN  Operands(c)[place[1]][place[2]]

Arguments(c) ==
  [r \in 0 .. 15 |->
     CASE r = SP -> StackAtCall(c)
       [] r = LR -> CodeBase
       [] OTHER -> ArgumentRegister(c, r)]

ArgumentStack(c) ==
  LET onStack == {<<k, word>> \in {1, 2} \X {1, 2} :
                    word \in DOMAIN Operands(c)[k] /\ PassedOperand(c, k).reg = 0}
      address(p) == StackAtCall(c) + PassedOperand(c, p[1]).offset + 2 * (p[2] - 1)
  IN  [a \in {address(p) : p \in onStack} |->
         LET p == CHOOSE q \in onStack : address(q) = a
         IN  Operands(c)[p[1]][p[2]]]

Machine(c) ==
  [pc |-> IF c.function = Direct THEN Entry(c) ELSE FunctionBase,
   wp |-> Registers, st |-> 0,
   mem |-> [a \in {Registers + 2 * r : r \in 0 .. 15} |->
              Arguments(c)[(a - Registers) \div 2]]
           @@ (StackPointer :> 200) @@ ArgumentStack(c)
           @@ FunctionImage(c) @@ RoutineImage(c)]

LibInit ==
  /\ call \in Calls
  /\ Start(Machine(call))

LibNext == Run /\ UNCHANGED call

(* Weak fairness of LibNext, with its guard in place of ENABLED. *)
LibFairness == []<>(mode = "halted") \/ []<><<LibNext>>_libVars

LibSpec == LibInit /\ [][LibNext]_libVars /\ LibFairness

-----------------------------------------------------------------------------
(* What the routines compute: arithmetic on pairs of words, a bit a time. *)

Below(x, y) == x[1] < y[1] \/ (x[1] = y[1] /\ x[2] < y[2])

Minus(x, y) ==
  <<x[1] - y[1] - (IF x[2] < y[2] THEN 1 ELSE 0), Wrap(x[2] - y[2])>>

Negative(x) == x[1] > 32767

Opposite(x) == LET m == Minus(<<0, 0>>, x) IN <<Wrap(m[1]), m[2]>>

Magnitude(x) == IF Negative(x) THEN Opposite(x) ELSE x

Bit32(x, i) == IF i < 16 THEN Bit(x[2], i) ELSE Bit(x[1], i - 16)

PairOf(bits) ==
  <<FromBits([i \in 0..15 |-> bits[i + 16]]), FromBits([i \in 0..15 |-> bits[i]])>>

Twice(x, bit) == <<2 * x[1] + (x[2] \div 32768), Wrap(2 * x[2]) + bit>>

(* Quotient and remainder of x by y, both unsigned: the school method. *)
Divided(x, y) ==
  LET after[i \in 0 .. 32] ==
        IF i = 0 THEN [q |-> <<0, 0>>, r |-> <<0, 0>>]
        ELSE LET before == after[i - 1]
                 r == Twice(before.r, Bit32(x, 32 - i))
             IN  IF Below(r, y)
                   THEN [q |-> Twice(before.q, 0), r |-> r]
                   ELSE [q |-> Twice(before.q, 1), r |-> Minus(r, y)]
  IN  after[32]

(* C's division truncates; the remainder has the sign of the dividend. *)
Expected(c) ==
  LET x == c.x
      y == c.y
      magnitude == Divided(Magnitude(x), Magnitude(y))
      signed(negate, v) == IF negate THEN Opposite(v) ELSE v
      shifted(i) == CASE c.routine = "ashlsi3" ->
                           IF i < y THEN 0 ELSE Bit32(x, i - y)
                      [] c.routine = "ashrsi3" ->
                           IF i + y > 31 THEN Bit32(x, 31) ELSE Bit32(x, i + y)
                      [] c.routine = "lshrsi3" ->
                           IF i + y > 31 THEN 0 ELSE Bit32(x, i + y)
  IN  CASE c.routine = "udivsi3" -> Divided(x, y).q
        [] c.routine = "umodsi3" -> Divided(x, y).r
        [] c.routine = "divsi3" ->
             signed(Negative(x) # Negative(y), magnitude.q)
        [] c.routine = "modsi3" -> signed(Negative(x), magnitude.r)
        [] c.routine \in DOMAIN Shifts -> PairOf([i \in 0 .. 31 |-> shifted(i)])
        [] c.routine = Leaf -> y
        [] IsPattern(c) -> Pattern(c).values

(* The words, or the bytes, in the registers of the result. *)
Result(c) ==
  IF IsPattern(c)
    THEN [k \in DOMAIN Pattern(c).values |->
            IF Pattern(c).bytes THEN Reg(cpu, k) \div 256 ELSE Reg(cpu, k)]
    ELSE <<Reg(cpu, 1), Reg(cpu, 2)>>

-----------------------------------------------------------------------------
(* Properties *)

Returned == mode = "fetch" /\ cpu.pc = CodeBase

(* A routine returns the quotient, remainder or shifted value that C       *)
(* defines ("Returns: [R1,R2]" in the heads of lib1funcs.asm), also when a *)
(* function calls it with operands that came in registers or on the stack. *)
(* The code of a pattern leaves the value of its C operator, whatever the  *)
(* unused half of a byte register holds.                                   *)
ResultRight == Returned => Result(call) = Expected(call)

(* The caller finds its stack pointer, the top of its stack and the        *)
(* registers that survive calls (nvolregs in tms9900.c) as they were; the  *)
(* routine has left alone what the function keeps in its frame.            *)
CallerUnharmed ==
  Returned =>
    /\ \A r \in {9, 12, 13, 14, 15} : Reg(cpu, r) = 100 + r
    /\ Reg(cpu, SP) = StackAtCall(call)
    /\ ReadW(cpu, StackPointer) = 200
    /\ call.function # Direct =>
         LET f == call.function
             frame == StackAtCall(call) - initial_elimination_offset(f)
         IN  \A k \in 0 .. f.frame_size \div 2 - 1 :
               ReadW(cpu, frame + 2 * k) = 300 + 2 * k

(* Every call returns. *)
Returns == <>Returned
=============================================================================
