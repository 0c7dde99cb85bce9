------------------------------ MODULE CondBranch ------------------------------
(***************************************************************************)
(* How the compiler turns "if (x REL y) goto l0" into TMS9900 code: the    *)
(* compare or test instruction of tms9900.md, or the instruction that      *)
(* computed x when final.c leaves the test out because                     *)
(* notice_update_cc_on_set says its flags are good, then the jumps of      *)
(* output_branch.  The code of one test is assembled (Gas) and run on the  *)
(* processor (Tms9900).                                                    *)
(***************************************************************************)
EXTENDS Tms9900, Gas

CONSTANT Tests   \* the branches compiled and the operands they run with

VARIABLES
  test,     \* the branch that runs
  labels    \* the addresses of its labels

branchVars == <<vars, test, labels>>

-----------------------------------------------------------------------------
(* The conditions of the branch patterns *)

Signed == {"lt", "le", "gt", "ge"}

Relations == {"eq", "ne", "ltu", "leu", "gtu", "geu"} \cup Signed

(* What a C program means by x REL y, for words or for bytes. *)
Holds(rel, x, y, width) ==
  LET int(v) == IF width = "HI" THEN Signed16(v) ELSE Signed8(v)
  IN  CASE rel = "eq" -> x = y
        [] rel = "ne" -> x # y
        [] rel = "ltu" -> x < y
        [] rel = "leu" -> x <= y
        [] rel = "gtu" -> x > y
        [] rel = "geu" -> x >= y
        [] rel = "lt" -> int(x) < int(y)
        [] rel = "le" -> int(x) <= int(y)
        [] rel = "gt" -> int(x) > int(y)
        [] rel = "ge" -> int(x) >= int(y)
        [] rel = "always" -> TRUE

(* The arguments of output_branch: the jump taken when the branch is, the  *)
(* opposite one, and the lengths (after "length -= 10") out of a jump's    *)
(* reach and within it.  LE and GE stand for two jumps.                    *)
Pattern(pos, neg, far, near) ==
  [pos |-> pos, neg |-> neg, far |-> far, near |-> near]

(* b<rel> and *b<rel>_reversed, which branches when <rel> does not hold. *)
EqualityPatterns ==
  [eq |-> <<Pattern("jeq", "jne", 6, 2), Pattern("jne", "jeq", 6, 2)>>,
   ne |-> <<Pattern("jne", "jeq", 6, 2), Pattern("jeq", "jne", 6, 2)>>]

UnsignedPatterns ==
  [ltu |-> <<Pattern("jl", "jhe", 6, 2), Pattern("jhe", "jl", 6, 2)>>,
   leu |-> <<Pattern("jle", "jh", 6, 2), Pattern("jh", "jle", 6, 2)>>,
   gtu |-> <<Pattern("jh", "jle", 6, 2), Pattern("jle", "jh", 6, 2)>>,
   geu |-> <<Pattern("jhe", "jl", 6, 2), Pattern("jl", "jhe", 6, 2)>>]

SignedPatterns ==
  [lt |-> <<Pattern("jlt", "GE", 8, 2), Pattern("GE", "jlt", 6, 4)>>,
   le |-> <<Pattern("LE", "jgt", 6, 4), Pattern("jgt", "LE", 8, 2)>>,
   gt |-> <<Pattern("jgt", "LE", 8, 2), Pattern("LE", "jgt", 6, 4)>>,
   ge |-> <<Pattern("GE", "jlt", 6, 4), Pattern("jlt", "GE", 8, 2)>>]

BranchPattern(rel, reversed) ==
  LET both == CASE rel \in DOMAIN EqualityPatterns -> EqualityPatterns[rel]
                [] rel \in DOMAIN UnsignedPatterns -> UnsignedPatterns[rel]
                [] rel \in DOMAIN SignedPatterns -> SignedPatterns[rel]
  IN  both[IF reversed THEN 2 ELSE 1]

(* Mutant of output_branch: the jump for equality is missing. *)
output_branch_strict(p, length) ==
  CASE length = 2 -> <<JumpTo(p.pos, "l0")>>
    [] length = 4 -> <<JumpTo(IF p.pos = "LE" THEN "jlt" ELSE "jgt", "l0")>>
    [] length \in {6, 8} -> << JumpTo(CASE p.neg = "LE" -> "jlt"
                                         [] p.neg = "GE" -> "jgt"
                                         [] OTHER -> p.neg, "JMP"),
                              BranchTo("b", "l0"),
                              Label("JMP") >>

output_branch(p, length) ==
  CASE length = 2 -> <<JumpTo(p.pos, "l0")>>
    [] length = 4 -> << JumpTo(IF p.pos = "LE" THEN "jlt" ELSE "jgt", "l0"),
                        JumpTo("jeq", "l0") >>
    [] length = 6 -> << JumpTo(p.neg, "JMP"),
                        BranchTo("b", "l0"),
                        Label("JMP") >>
    [] length = 8 -> << JumpTo(IF p.neg = "LE" THEN "jlt" ELSE "jgt", "JMP"),
                        JumpTo("jeq", "JMP"),
                        BranchTo("b", "l0"),
                        Label("JMP") >>

(* The pattern "jump", which depends on no condition. *)
output_jump(length) ==
  CASE length = 2 -> <<JumpTo("jmp", "l0")>>
    [] length = 4 -> <<BranchTo("b", "l0")>>

(* Mutant of TooFar: four bytes too late. *)
TooFarLate(distance) == distance <= -252 \/ distance >= 260

(* The "length" attribute, from the distance final.c computes: from the    *)
(* end of the branch for a forward one, from its start for a backward one. *)
TooFar(distance) == distance <= -252 \/ distance >= 256

-----------------------------------------------------------------------------
(* Comparing x (R1) with y (R2, or a constant): cmphi, tsthi, cmpqi, tstqi *)
(* and the peepholes that compare a byte register with a constant as words.*)

HiByte(w) == w \div 256

UpperBound == {"gtu", "leu", "gt", "le"}   \* peepholes that add 255

Compare(how, rel, y) ==
  CASE how = "cmphi_r" -> Two("c", R(1), R(2))
    [] how = "cmphi_i" -> RegImm("ci", 1, y)
    [] how = "tsthi" -> Two("mov", R(1), R(0))
    [] how = "cmpqi" -> Two("cb", R(1), R(2))
    [] how = "tstqi" -> Two("movb", R(1), R(0))
    [] how = "cmpqi_as_hi" ->
         RegImm("ci", 1, 256 * HiByte(y) + IF rel \in UpperBound THEN 255 ELSE 0)

Comparisons == {"cmphi_r", "cmphi_i", "tsthi", "cmpqi", "tstqi", "cmpqi_as_hi"}

WithZero == {"tsthi", "tstqi"}

-----------------------------------------------------------------------------
(* The instructions after which a test of R1 with zero is left out: those  *)
(* that set R1, in HImode or QImode, to a PLUS, MINUS, AND, IOR, XOR, NOT, *)
(* NEG, ABS, REG or MEM.  Each has its mode, its output and the value C    *)
(* gives R1.  A byte is the upper half of its register; the lower half     *)
(* holds anything.  Constants are y.                                       *)

Insn(width, value, code) == [width |-> width, value |-> value, code |-> code]

(* movqi of the lower byte of a word swaps it up. *)
MovInsns(x, y) ==
  [movhi |-> Insn("HI", y, <<Two("mov", R(2), R(1))>>),
   movqi |-> Insn("QI", HiByte(y), <<Two("movb", R(2), R(1))>>),
   movqi_truncate |-> Insn("QI", y % 256, << Two("mov", R(2), R(1)),
                                             One("swpb", R(1)) >>)]

AndHiInsns(x, y) ==
  [andhi3_r |-> Insn("HI", BitAnd(x, y), << Two("mov", R(2), R(0)),
                                            One("inv", R(0)),
                                            Two("szc", R(0), R(1)) >>),
   andhi3_i |-> Insn("HI", BitAnd(x, y), <<RegImm("andi", 1, y)>>),
   andnothi |-> Insn("HI", BitAnd(x, BitNot(y)), <<Two("szc", R(2), R(1))>>)]

AndQiInsns(x, y) ==
  LET a == HiByte(x)
      b == HiByte(y)
  IN  [andqi3_r |-> Insn("QI", BitAnd(a, b), << Two("movb", R(2), R(0)),
                                                One("inv", R(0)),
                                                Two("szcb", R(0), R(1)) >>),
       andqi3_i |-> Insn("QI", BitAnd(a, b), <<RegImm("andi", 1, 256 * b)>>),
       andnotqi |-> Insn("QI", BitAnd(a, 255 - b), <<Two("szcb", R(2), R(1))>>)]

IorInsns(x, y) ==
  LET a == HiByte(x)
      b == HiByte(y)
  IN  [iorhi3_r |-> Insn("HI", BitOr(x, y), <<Two("soc", R(2), R(1))>>),
       iorhi3_i |-> Insn("HI", BitOr(x, y), <<RegImm("ori", 1, y)>>),
       iorqi3_r |-> Insn("QI", BitOr(a, b), <<Two("socb", R(2), R(1))>>),
       iorqi3_i |-> Insn("QI", BitOr(a, b), <<RegImm("ori", 1, 256 * b)>>)]

XorNotInsns(x, y) ==
  LET a == HiByte(x)
      b == HiByte(y)
  IN  [xorhi3 |-> Insn("HI", BitXor(x, y), <<Two("xor", R(2), R(1))>>),
       xorqi3 |-> Insn("QI", BitXor(a, b), <<Two("xor", R(2), R(1))>>),
       one_cmplhi2 |-> Insn("HI", BitNot(x), <<One("inv", R(1))>>),
       one_cmplqi2 |-> Insn("QI", 255 - a, <<One("inv", R(1))>>)]

(* Adding 1, 2, -1 and -2 has instructions of its own. *)
AddConstant(y) ==
  CASE y = 1 -> One("inc", R(1))
    [] y = 2 -> One("inct", R(1))
    [] y = 65535 -> One("dec", R(1))
    [] y = 65534 -> One("dect", R(1))
    [] OTHER -> RegImm("ai", 1, y)

AddInsns(x, y) ==
  [addhi3_r |-> Insn("HI", Wrap(x + y), <<Two("a", R(2), R(1))>>),
   addhi3_i |-> Insn("HI", Wrap(x + y), <<AddConstant(y)>>),
   addqi3 |-> Insn("QI", (HiByte(x) + HiByte(y)) % 256,
                   <<Two("ab", R(2), R(1))>>)]

SubInsns(x, y) ==
  [subhi3 |-> Insn("HI", Wrap(x - y), <<Two("s", R(2), R(1))>>),
   rsubihi |-> Insn("HI", Wrap(y - x), <<One("neg", R(1)), AddConstant(y)>>),
   subqi3 |-> Insn("QI", (HiByte(x) - HiByte(y)) % 256,
                   <<Two("sb", R(2), R(1))>>),
   subqi3_from |-> Insn("QI", (HiByte(y) - HiByte(x)) % 256,
                        << Two("movb", R(2), R(0)),
                           Two("sb", R(1), R(0)),
                           Two("movb", R(0), R(1)) >>)]

NegAbsInsns(x, y) ==
  [abshi2 |-> Insn("HI", Wrap(IF Signed16(x) < 0 THEN -x ELSE x),
                   <<One("abs", R(1))>>),
   absqi2 |-> Insn("QI", IF HiByte(x) > 127 THEN 256 - HiByte(x) ELSE HiByte(x),
                   <<One("abs", R(1))>>),
   neghi2 |-> Insn("HI", Wrap(-x), <<One("neg", R(1))>>),
   negqi2 |-> Insn("QI", (-HiByte(x)) % 256, << RegImm("andi", 1, \hFF00),
                                                One("neg", R(1)) >>)]

Insns(how, x, y) ==
  CASE how \in {"movhi", "movqi", "movqi_truncate"} -> MovInsns(x, y)[how]
    [] how \in {"andhi3_r", "andhi3_i", "andnothi"} -> AndHiInsns(x, y)[how]
    [] how \in {"andqi3_r", "andqi3_i", "andnotqi"} -> AndQiInsns(x, y)[how]
    [] how \in {"iorhi3_r", "iorhi3_i", "iorqi3_r", "iorqi3_i"} ->
         IorInsns(x, y)[how]
    [] how \in {"xorhi3", "xorqi3", "one_cmplhi2", "one_cmplqi2"} ->
         XorNotInsns(x, y)[how]
    [] how \in {"addhi3_r", "addhi3_i", "addqi3"} -> AddInsns(x, y)[how]
    [] how \in {"subhi3", "rsubihi", "subqi3", "subqi3_from"} ->
         SubInsns(x, y)[how]
    [] how \in {"abshi2", "absqi2", "neghi2", "negqi2"} ->
         NegAbsInsns(x, y)[how]

SetsFlags(t) == Insns(t.how, t.x, t.y)

WordSetters ==
  { "movhi", "andhi3_r", "andhi3_i", "andnothi", "iorhi3_r", "iorhi3_i",
    "xorhi3", "one_cmplhi2", "addhi3_r", "addhi3_i", "subhi3", "rsubihi",
    "abshi2", "neghi2" }

ByteSetters ==
  { "movqi", "movqi_truncate", "andqi3_r", "andqi3_i", "andnotqi", "iorqi3_r",
    "iorqi3_i", "xorqi3", "one_cmplqi2", "addqi3", "subqi3", "subqi3_from",
    "absqi2", "negqi2" }

-----------------------------------------------------------------------------
(* A test: [how, rel, reversed, distance, adds, x, y].                     *)

Width(t) ==
  IF t.how \in {"cmphi_r", "cmphi_i", "tsthi"} \cup WordSetters THEN "HI"
                                                               ELSE "QI"

(* The code that sets the flags and the value it leaves in R1. *)
Flags(t) ==
  IF t.how \in Comparisons THEN <<Compare(t.how, t.rel, t.y)>>
                           ELSE SetsFlags(t).code

Value(t) ==
  IF t.how \notin Comparisons THEN SetsFlags(t).value
  ELSE IF Width(t) = "HI" THEN t.x ELSE HiByte(t.x)

Against(t) ==
  IF t.how \in WithZero \/ t.how \notin Comparisons THEN 0
  ELSE IF Width(t) = "HI" THEN t.y ELSE HiByte(t.y)

Condition(t) ==
  Holds(t.rel, Value(t), Against(t), Width(t)) # t.reversed

Branch(t) ==
  IF t.rel = "always"
    THEN output_jump(IF TooFar(t.distance) THEN 4 ELSE 2)
    ELSE LET p == BranchPattern(t.rel, t.reversed)
         IN  output_branch(p, IF TooFar(t.distance) THEN p.far ELSE p.near)

(* Three alternatives of addhi3: what they emit, and the bytes their       *)
(* attribute says.  Final.c adds these up, it never sees the code.         *)
Addhi3Alternatives ==
  [a_memory |-> [length |-> 4, insn |-> Two("a", R(2), At(\h8320))],
   inc_memory |-> [length |-> 2, insn |-> One("inc", At(\h8320))],
   ai |-> [length |-> 2, insn |-> AddConstant(100)]]

IsTest(t) ==
  t \in [how : Comparisons \cup WordSetters \cup ByteSetters,
         rel : Relations \cup {"always"}, reversed : BOOLEAN, distance : Int,
         adds : Seq(DOMAIN Addhi3Alternatives), x : Word, y : Word]

ASSUME TestsAssumption == \A t \in Tests : IsTest(t)

CodeSize(program) == Layout(program \o <<Label("end")>>, 0)[Len(program) + 1]

Emitted(adds) == [k \in DOMAIN adds |-> Addhi3Alternatives[adds[k]].insn]

Counted(adds) == [k \in DOMAIN adds |-> Skip(Addhi3Alternatives[adds[k]].length)]

(* Code of that many bytes, as the compiler counts them, the additions of  *)
(* the test among it.  It is never executed.                               *)
CodeOf(bytes, adds) == Emitted(adds) \o <<Skip(bytes - CodeSize(Counted(adds)))>>

(* Both ways out of the branch end in a loop of their own.  A backward     *)
(* distance includes the instructions that set the flags.                  *)
Stay(label) == <<Label(label), JumpTo("jmp", label)>>

(* What comes before the instructions that set the flags. *)
Before(t) ==
  IF t.distance > 0
    THEN <<>>
    ELSE Stay("l0") \o CodeOf(-t.distance - 2 - CodeSize(Flags(t)), t.adds)

Code(t) ==
  Before(t) \o Flags(t) \o Branch(t) \o Stay("next")
  \o IF t.distance > 0 THEN CodeOf(t.distance - 2, t.adds) \o Stay("l0") ELSE <<>>

CodeBase == \h6000

Registers == \h8300

Entry(t) == CodeBase + CodeSize(Before(t))

Machine(t) ==
  LET image == Assemble(Code(t), CodeBase)
      regs == [a \in {Registers + 2, Registers + 4} |->
                 IF a = Registers + 2 THEN t.x ELSE t.y]
  IN  [pc |-> Entry(t), wp |-> Registers, st |-> 0,
       mem |-> [a \in DOMAIN image \cup DOMAIN regs |->
                  IF a \in DOMAIN image THEN image[a] ELSE regs[a]]]

BranchInit ==
  /\ test \in Tests
  /\ labels = [l \in {"l0", "next"} |-> LabelAddr(Code(test), CodeBase, l)]
  /\ Start(Machine(test))

BranchNext == Run /\ UNCHANGED <<test, labels>>

(* main executes the next instruction as long as the process runs. *)
BranchFairness == []<>(mode = "halted") \/ []<><<BranchNext>>_branchVars

BranchSpec == BranchInit /\ [][BranchNext]_branchVars /\ BranchFairness

-----------------------------------------------------------------------------
(* Properties *)

Reached(label) == mode = "fetch" /\ cpu.pc = labels[label]

(* The program goes to the target of the branch exactly when the C         *)
(* condition holds: whichever compare instruction or peephole set the      *)
(* flags, whatever the unused half of a byte register holds, with the      *)
(* short jumps or the long form around "b @l0", and when the test was left *)
(* out because the instruction before it set the flags already.            *)
TakenIffHolds ==
  /\ Reached("l0") => Condition(test)
  /\ Reached("next") => ~Condition(test)

(* R1 holds the value C gives it in the mode of the instruction. *)
ValueRight ==
  Reached("l0") \/ Reached("next") =>
    Value(test) = IF Width(test) = "HI" THEN Reg(cpu, 1)
                                       ELSE HiByte(Reg(cpu, 1))

(* Every branch arrives somewhere: no displacement leads into other code. *)
Arrives == <>(Reached("l0") \/ Reached("next"))

(* The length a branch gets leaves every jump of it within the reach the   *)
(* linker accepts.                                                         *)
Linkable ==
  mode = "fetch" /\ cpu.pc = Entry(test) => JumpsInRange(Code(test), CodeBase)

TwoJumps(t) == t.rel # "always" /\ BranchPattern(t.rel, t.reversed).near = 4

(* The bytes the code of the additions has and the attributes do not count. *)
Miscounted(adds) == CodeSize(Emitted(adds)) - CodeSize(Counted(adds))

(* What is left of a jump's reach at that distance. *)
Room(distance) == IF distance > 0 THEN 255 - distance ELSE distance + 254

(* A short branch fits when the bytes nobody counted do: those of the      *)
(* additions, and a first jump of two.                                     *)
Fits(t) ==
  TooFar(t.distance) \/
    Miscounted(t.adds) + (IF TwoJumps(t) THEN 2 ELSE 0) <= Room(t.distance)

(* The distance has room for what it spans, in whole words, and the code   *)
(* ends below the registers.                                               *)
Placed(t) ==
  /\ t.distance % 2 = 0
  /\ CodeSize(Counted(t.adds)) <=
       IF t.distance > 0 THEN t.distance - 2
                         ELSE -t.distance - 2 - CodeSize(Flags(t))
  /\ CodeBase + CodeSize(Code(t)) <= Registers
=============================================================================
