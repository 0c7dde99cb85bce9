------------------------------- MODULE Patterns -------------------------------
(***************************************************************************)
(* Conversions, shifts, absolute values, products and quotients of         *)
(* config/tms9900/tms9900.md: the code a pattern emits when its operands   *)
(* are registers and the value C gives its result.  The first operand is   *)
(* in R1, the second in R2; the result is wanted in R1, two results or the *)
(* two words of a long in R1 and R2.  A byte is the upper half of its      *)
(* register, over a lower half that holds anything.  Bitwise operations,   *)
(* addition and subtraction are in CondBranch.                             *)
(***************************************************************************)
EXTENDS Tms9900, Frame

(* What a pattern emits, and the words or bytes of its result. *)
Emits(code, words) == [code |-> code, values |-> words, bytes |-> FALSE]

EmitsBytes(code, bytes) == [code |-> code, values |-> bytes, bytes |-> TRUE]

LongAsWords(upper, lower) == <<upper, lower>>

Signs(v) == IF v > 32767 THEN 65535 ELSE 0

-----------------------------------------------------------------------------
(* Conversions of the byte b (over anything) or the word x in R1 *)

zero_extendqihi2(r) == <<ShiftBy("srl", r, 8)>>

extendqihi2(r) == <<ShiftBy("sra", r, 8)>>

trunchiqi2(r) == <<One("swpb", R(r))>>

zero_extendhisi2(r, upper) == <<Mov(R(r), R(upper + 1)), One("clr", R(upper))>>

(* SETO leaves the flags of the MOV as they are. *)
extendhisi2(r, upper, skip) ==
  << Mov(R(r), R(upper + 1)), One("seto", R(upper)), JumpTo("jlt", skip),
     One("clr", R(upper)), Label(skip) >>

ConversionPatterns(x) ==
  LET b == x \div 256
      signed == Wrap(Signed8(b))
  IN  [zero_extendqihi2 |-> Emits(zero_extendqihi2(1), <<b>>),
       extendqihi2 |-> Emits(extendqihi2(1), <<signed>>),
       zero_extendhisi2 |-> Emits(zero_extendhisi2(1, 1), LongAsWords(0, x)),
       extendhisi2 |-> Emits(extendhisi2(1, 1, "positive"), LongAsWords(Signs(x), x)),
       zero_extendqisi2 |-> Emits(zero_extendqihi2(1) \o zero_extendhisi2(1, 1),
                                  LongAsWords(0, b)),
       extendqisi2 |-> Emits(extendqihi2(1) \o extendhisi2(1, 1, "positive"),
                             LongAsWords(Signs(signed), signed)),
       trunchiqi2 |-> EmitsBytes(trunchiqi2(1), <<x % 256>>)]

-----------------------------------------------------------------------------
(* Shifts.  A count of 0 in R0 means 16 to the machine: it is jumped over. *)

ByRegister(shift, r, count) ==
  << Mov(R(count), R(0)), RegImm("andi", 0, 15), JumpTo("jeq", "shifted"),
     ShiftBy(shift, r, 0), Label("shifted") >>

ByConstant(shift, r, n) == IF n = 0 THEN <<>> ELSE <<ShiftBy(shift, r, n)>>

(* The byte is moved down, shifted as a word, and moved up again. *)
ByteShift(shift) ==
  zero_extendqihi2(1) \o ByRegister(shift, 1, 2) \o trunchiqi2(1)

ShiftPatterns(x, n) ==
  LET b == x \div 256
      left == Wrap(x * 2^n)
      arithmetic == Wrap(Signed16(x) \div 2^n)
      logical == x \div 2^n
  IN  [ashlhi3 |-> Emits(ByRegister("sla", 1, 2), <<left>>),
       ashrhi3 |-> Emits(ByRegister("sra", 1, 2), <<arithmetic>>),
       lshrhi3 |-> Emits(ByRegister("srl", 1, 2), <<logical>>),
       ashlhi3_i |-> Emits(ByConstant("sla", 1, n), <<left>>),
       ashrhi3_i |-> Emits(ByConstant("sra", 1, n), <<arithmetic>>),
       lshrhi3_i |-> Emits(ByConstant("srl", 1, n), <<logical>>),
       ashlqi3 |-> EmitsBytes(ByteShift("sla"), <<(b * 2^n) % 256>>),
       lshrqi3 |-> EmitsBytes(ByteShift("srl"), <<b \div 2^n>>)]

-----------------------------------------------------------------------------
(* A shift and a conversion in one instruction, from the peepholes *)

(* A positive count shifts right, a negative one left. *)
ShiftRight(shift, n) ==
  CASE n > 0 -> <<ShiftBy(shift, 1, n)>>
    [] n < 0 -> <<ShiftBy("sla", 1, -n)>>
    [] OTHER -> <<>>

qi_hi_shift(n) ==
  (IF n = 0 THEN <<One("swpb", R(1))>> ELSE ShiftRight("sra", 8 - n))
  \o <<RegImm("andi", 1, 255 * 2^n)>>

unsigned_qi_hi_shift(n) ==
  ShiftRight("srl", 8 - n) \o <<RegImm("andi", 1, 65535 * 2^n)>>

CastPatterns(x, n) ==
  LET b == x \div 256
  IN  [ashiftrt_hi_to_qi |->
         EmitsBytes(ShiftRight("sra", n - 8), <<(Signed16(x) \div 2^n) % 256>>),
       lshiftrt_hi_to_qi |->
         EmitsBytes(ShiftRight("srl", n - 8), <<(x \div 2^n) % 256>>),
       ashift_hi_to_qi |-> EmitsBytes(<<ShiftBy("sla", 1, n + 8)>>, <<(x * 2^n) % 256>>),
       ashiftrt_qi_to_hi |->
         Emits(<<ShiftBy("sra", 1, IF n + 8 > 15 THEN 15 ELSE n + 8)>>,
               <<Wrap(Signed8(b) \div 2^n)>>),
       qi_hi_shift |-> Emits(qi_hi_shift(n), <<Wrap(Signed8(b) * 2^n)>>),
       unsigned_qi_hi_shift |-> Emits(unsigned_qi_hi_shift(n), <<Wrap(b * 2^n)>>)]

-----------------------------------------------------------------------------
(* Absolute value: ABS knows words only. *)

AbsolutePatterns(x) ==
  LET b == x \div 256
  IN  [abshi2 |-> Emits(<<One("abs", R(1))>>, <<IF x > 32767 THEN 65536 - x ELSE x>>),
       absqi2 |-> EmitsBytes(<<One("abs", R(1))>>, <<IF b > 127 THEN 256 - b ELSE b>>)]

-----------------------------------------------------------------------------
(* Multiplication: MPY is unsigned and leaves 32 bits in two registers. *)

(* The words of x * y, by the bytes of x. *)
LongProduct(x, y) ==
  LET upper == (x \div 256) * y
      lower == (x % 256) * y
      middle == upper + (lower \div 256)
  IN  LongAsWords(middle \div 256, 256 * (middle % 256) + (lower % 256))

tms9900_mulhisi3(upper, r) == <<Mov(R(1), R(upper)), Two("mpy", R(r), R(upper))>>

(* As signed words: what the unsigned product has too much goes from its   *)
(* upper word.                                                             *)
SignedLongProduct(x, y) ==
  LET product == LongProduct(x, y)
      excess == (IF x > 32767 THEN y ELSE 0) + (IF y > 32767 THEN x ELSE 0)
  IN  LongAsWords((product[1] - excess) % 65536, product[2])

mulhisi3 == tms9900_mulhisi3(3, 2) \o <<Mov(R(3), R(1)), Mov(R(4), R(2))>>

ProductPatterns(x, y) ==
  LET a == x \div 256
      b == y \div 256
  IN  [umulhisi3 |-> Emits(mulhisi3, LongProduct(x, y)),
       mulhisi3 |-> Emits(mulhisi3, SignedLongProduct(x, y)),
       mulhi3 |-> Emits(tms9900_mulhisi3(3, 2) \o <<Mov(R(4), R(1))>>,
                        <<Wrap(Signed16(x) * Signed16(y))>>),
       umulqihi3 |-> Emits(zero_extendqihi2(1) \o zero_extendqihi2(2)
                           \o tms9900_mulhisi3(3, 2) \o <<Mov(R(4), R(1))>>,
                           <<a * b>>),
       mulqihi3 |-> Emits(extendqihi2(1) \o extendqihi2(2)
                          \o tms9900_mulhisi3(3, 2) \o <<Mov(R(4), R(1))>>,
                          <<Wrap(Signed8(a) * Signed8(b))>>)]

-----------------------------------------------------------------------------
(* Division: DIV is unsigned and leaves quotient and remainder. *)

udivmodsihi3(r, upper) == <<Two("div", R(r), R(upper))>>

(* Negates r when the sign word is negative, and spoils the sign word. *)
divfixuphi2(r, sign, skip) ==
  <<One("inv", R(sign)), JumpTo("jlt", skip), One("neg", R(r)), Label(skip)>>

udivmodqi4 ==
  zero_extendqihi2(1) \o zero_extendhisi2(1, 3) \o zero_extendqihi2(2)
  \o udivmodsihi3(2, 3)
  \o <<Mov(R(3), R(1))>> \o trunchiqi2(1) \o <<Mov(R(4), R(2))>> \o trunchiqi2(2)

udivmodhi4 ==
  zero_extendhisi2(1, 3) \o udivmodsihi3(2, 3) \o <<Mov(R(3), R(1)), Mov(R(4), R(2))>>

(* The signs are taken from the operands, then both are made positive. *)
divmodhi4 ==
  << Mov(R(1), R(5)), Mov(R(1), R(6)), Two("xor", R(2), R(5)),
     Mov(R(2), R(7)), One("abs", R(7)), Mov(R(1), R(8)), One("abs", R(8)) >>
  \o zero_extendhisi2(8, 3) \o udivmodsihi3(7, 3)
  \o <<Mov(R(3), R(1)), Mov(R(4), R(2))>>
  \o divfixuphi2(1, 5, "quotient") \o divfixuphi2(2, 6, "remainder")

Absolute(n) == IF n < 0 THEN -n ELSE n

(* Division in C truncates. *)
Truncated(n, d) ==
  LET q == Absolute(n) \div Absolute(d) IN IF (n < 0) # (d < 0) THEN -q ELSE q

QuotientAndRemainder(n, d) == <<Wrap(Truncated(n, d)), Wrap(n - d * Truncated(n, d))>>

QuotientPatterns(x, y) ==
  [udivmodhi4 |-> Emits(udivmodhi4, QuotientAndRemainder(x, y)),
   divmodhi4 |-> Emits(divmodhi4, QuotientAndRemainder(Signed16(x), Signed16(y)))]

BytePatterns(x, y) ==
  [udivmodqi4 |-> EmitsBytes(udivmodqi4, QuotientAndRemainder(x \div 256, y \div 256))]

-----------------------------------------------------------------------------
(* All of them: x and y are the words in R1 and R2; a constant is y too.   *)

Conversions ==
  { "zero_extendqihi2", "extendqihi2", "zero_extendhisi2", "extendhisi2",
    "zero_extendqisi2", "extendqisi2", "trunchiqi2" }

WordShifts == {"ashlhi3", "ashrhi3", "lshrhi3", "ashlhi3_i", "ashrhi3_i", "lshrhi3_i"}

ByteShifts == {"ashlqi3", "lshrqi3"}

WordCasts == {"ashiftrt_hi_to_qi", "lshiftrt_hi_to_qi", "ashift_hi_to_qi"}

ByteCasts == {"ashiftrt_qi_to_hi", "qi_hi_shift", "unsigned_qi_hi_shift"}

Absolutes == {"abshi2", "absqi2"}

WordProducts == {"umulhisi3", "mulhisi3", "mulhi3"}

ByteProducts == {"umulqihi3", "mulqihi3"}

WordQuotients == {"udivmodhi4", "divmodhi4"}

ByteQuotients == {"udivmodqi4"}

PatternNames ==
  Conversions \cup WordShifts \cup ByteShifts \cup WordCasts \cup ByteCasts
  \cup Absolutes \cup WordProducts \cup ByteProducts \cup WordQuotients \cup ByteQuotients

PatternFor(name, x, y) ==
  CASE name \in Conversions -> ConversionPatterns(x)[name]
    [] name \in WordShifts \cup ByteShifts -> ShiftPatterns(x, y)[name]
    [] name \in WordCasts \cup ByteCasts -> CastPatterns(x, y)[name]
    [] name \in Absolutes -> AbsolutePatterns(x)[name]
    [] name \in WordProducts \cup ByteProducts -> ProductPatterns(x, y)[name]
    [] name \in WordQuotients -> QuotientPatterns(x, y)[name]
    [] name \in ByteQuotients -> BytePatterns(x, y)[name]
=============================================================================
