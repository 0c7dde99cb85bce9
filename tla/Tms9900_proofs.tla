---------------------------- MODULE Tms9900_proofs ----------------------------
(***************************************************************************)
(* Proofs about the processor: whatever program is in memory, registers,   *)
(* memory words and the status register stay 16-bit words.                 *)
(***************************************************************************)
EXTENDS Tms9900, TLAPS

StatusFlags == {FLAG_LGT, FLAG_AGT, FLAG_EQ, FLAG_C, FLAG_OV, FLAG_OP}

-----------------------------------------------------------------------------
(* Words *)

(* Truncation to 16 bits gives a word. *)
LEMMA WrapWord == ASSUME NEW x \in Int PROVE Wrap(x) \in Word
BY DEF Wrap, Word

(* A byte of a word is a byte. *)
LEMMA BytesOfWord ==
  ASSUME NEW x \in Word
  PROVE  x \div 256 \in 0 .. 255 /\ x % 256 \in 0 .. 255
BY DEF Word

(* The address of a word access is even and a word. *)
LEMMA EvenWord ==
  ASSUME NEW a \in Word
  PROVE  Even(a) \in Word /\ Even(a) % 2 = 0
BY DEF Word, Even

(* Bits make a word: what the bitwise operators return. *)
LEMMA EightBits ==
  ASSUME NEW a \in {0, 1}, NEW b \in {0, 1}, NEW c \in {0, 1}, NEW d \in {0, 1},
         NEW e \in {0, 1}, NEW f \in {0, 1}, NEW g \in {0, 1}, NEW h \in {0, 1}
  PROVE  a + 2*b + 4*c + 8*d + 16*e + 32*f + 64*g + 128*h \in 0 .. 255
OBVIOUS

LEMMA TwoBytes ==
  ASSUME NEW l \in 0 .. 255, NEW h \in 0 .. 255 PROVE l + 256 * h \in Word
BY DEF Word

LEMMA FromBitsWord ==
  ASSUME NEW b \in [0 .. 15 -> {0, 1}]
  PROVE  FromBits(b) \in Word
<1>1. ByteOf(b, 0) \in 0 .. 255
  BY EightBits DEF ByteOf
<1>2. ByteOf(b, 8) \in 0 .. 255
  BY EightBits DEF ByteOf
<1> QED
  BY <1>1, <1>2, TwoBytes DEF FromBits

(* The bitwise operators return words whatever their operands are. *)
LEMMA BitwiseWord ==
  ASSUME NEW x, NEW y
  PROVE  /\ BitAnd(x, y) \in Word
         /\ BitOr(x, y) \in Word
         /\ BitXor(x, y) \in Word
BY FromBitsWord DEF BitAnd, BitOr, BitXor

LEMMA BitNotWord == ASSUME NEW x \in Word PROVE BitNot(x) \in Word
BY DEF BitNot, Word

-----------------------------------------------------------------------------
(* Memory and registers *)

LEMMA ReadWord ==
  ASSUME NEW m, IsMachine(m), NEW a PROVE ReadW(m, a) \in Word
<1>1. \A x \in DOMAIN m.mem : m.mem[x] \in Word
  BY DEF IsMachine, IsMemory
<1> QED
  BY <1>1 DEF ReadW, Word

LEMMA ReadByte ==
  ASSUME NEW m, IsMachine(m), NEW a PROVE ReadB(m, a) \in 0 .. 255
<1>1. ReadW(m, a) \in Word
  BY ReadWord
<1> QED
  BY <1>1, BytesOfWord DEF ReadB

(* The parts of a machine are words, and may be replaced by words. *)
LEMMA Parts ==
  ASSUME NEW m, IsMachine(m)
  PROVE  m.pc \in Word /\ m.wp \in Word /\ m.st \in Word /\ IsMemory(m.mem)
BY DEF IsMachine

LEMMA Replace ==
  ASSUME NEW m, IsMachine(m), NEW v \in Word
  PROVE  /\ IsMachine([m EXCEPT !.pc = v])
         /\ IsMachine([m EXCEPT !.wp = v])
         /\ IsMachine([m EXCEPT !.st = v])
BY DEF IsMachine

(* A store of a word keeps memory a memory. *)
LEMMA WriteWord ==
  ASSUME NEW m, IsMachine(m), NEW a \in Word, NEW v \in Word
  PROVE  IsMachine(WriteW(m, a, v))
<1> DEFINE f == [x \in DOMAIN m.mem \cup {Even(a)} |->
                   IF x = Even(a) THEN v ELSE m.mem[x]]
<1>1. IsMemory(m.mem)
  BY Parts
<1>2. IsMemory(f)
  BY <1>1, EvenWord DEF IsMemory
<1>3. WriteW(m, a, v) = [m EXCEPT !.mem = f]
  BY DEF WriteW
<1> QED
  <2> HIDE DEF f
  <2> QED BY <1>2, <1>3 DEF IsMachine

LEMMA WriteByte ==
  ASSUME NEW m, IsMachine(m), NEW a \in Word, NEW v \in 0 .. 255
  PROVE  IsMachine(WriteB(m, a, v))
<1> DEFINE w == ReadW(m, a)
           new == IF a % 2 = 0 THEN 256 * v + (w % 256) ELSE w - (w % 256) + v
<1>1. w \in Word
  BY ReadWord
<1>2. new \in Word
  <2> HIDE DEF w
  <2>1. w \in Int /\ 0 <= w /\ w <= 65535
    BY <1>1 DEF Word
  <2> DEFINE h == w \div 256
             l == w % 256
  <2>2. h \in Int /\ l \in Int /\ w = 256 * h + l /\ 0 <= l /\ l <= 255
    BY <2>1
  <2>3. 256 * v + l \in Word /\ w - l + v \in Word
    <3> HIDE DEF h, l
    <3>1. h <= 255 /\ 0 <= h
      BY <2>1, <2>2
    <3> QED BY <2>2, <3>1 DEF Word
  <2> QED BY <2>3
<1> QED
  BY <1>2, WriteWord DEF WriteB

LEMMA RegAddrWord ==
  ASSUME NEW m, IsMachine(m), NEW r \in Nat PROVE RegAddr(m, r) \in Word
<1>1. m.wp + 2 * r \in Int
  BY Parts DEF Word
<1> QED
  BY <1>1, WrapWord DEF RegAddr

LEMMA RegWord ==
  ASSUME NEW m, IsMachine(m), NEW r \in Nat PROVE Reg(m, r) \in Word
BY ReadWord DEF Reg

LEMMA SetRegOK ==
  ASSUME NEW m, IsMachine(m), NEW r \in Nat, NEW v \in Word
  PROVE  IsMachine(SetReg(m, r, v))
BY RegAddrWord, WriteWord DEF SetReg

LEMMA FetchedOK ==
  ASSUME NEW m, IsMachine(m) PROVE IsMachine(Fetched(m))
<1>1. Wrap(m.pc + 2) \in Word
  BY Parts, WrapWord DEF Word
<1> QED
  BY <1>1, Replace DEF Fetched

-----------------------------------------------------------------------------
(* The status register: flags are set and cleared within the word. *)

LEMMA SetFlagOK ==
  ASSUME NEW m, IsMachine(m), NEW f \in StatusFlags, NEW on \in BOOLEAN
  PROVE  IsMachine(SetFlag(m, f, on))
<1> DEFINE st == m.st
<1>1. st \in Word
  BY Parts
<1>2. (st \div f) % 2 # 1 => st + f \in Word
  <2> HIDE DEF st
  <2> QED BY <1>1 DEF StatusFlags, Word,
             FLAG_LGT, FLAG_AGT, FLAG_EQ, FLAG_C, FLAG_OV, FLAG_OP
<1>3. (st \div f) % 2 = 1 => st - f \in Word
  <2> HIDE DEF st
  <2> QED BY <1>1 DEF StatusFlags, Word,
             FLAG_LGT, FLAG_AGT, FLAG_EQ, FLAG_C, FLAG_OV, FLAG_OP
<1> DEFINE new == IF on /\ ~HasFlag(m, f) THEN st + f
                  ELSE IF ~on /\ HasFlag(m, f) THEN st - f ELSE st
<1>4. new \in Word
  BY <1>1, <1>2, <1>3 DEF HasFlag
<1>5. SetFlag(m, f, on) = [m EXCEPT !.st = new]
  BY DEF SetFlag
<1> QED
  <2> HIDE DEF new
  <2>1. PICK v \in Word : v = new
    BY <1>4
  <2>2. IsMachine([m EXCEPT !.st = v])
    BY Replace
  <2> QED BY ONLY <1>5, <2>1, <2>2

LEMMA CompareOK ==
  ASSUME NEW m, IsMachine(m), NEW s, NEW d
  PROVE  IsMachine(CompareWord(m, s, d)) /\ IsMachine(CompareByte(m, s, d))
<1>1. /\ (s = d) \in BOOLEAN
      /\ (s > d) \in BOOLEAN
      /\ (Signed16(s) > Signed16(d)) \in BOOLEAN
      /\ (Signed8(s) > Signed8(d)) \in BOOLEAN
  OBVIOUS
<1>2. FLAG_EQ \in StatusFlags /\ FLAG_LGT \in StatusFlags
      /\ FLAG_AGT \in StatusFlags
  BY DEF StatusFlags
<1> QED
  BY <1>1, <1>2, SetFlagOK DEF CompareWord, CompareByte

LEMMA ParityOK ==
  ASSUME NEW m, IsMachine(m), NEW v PROVE IsMachine(Parity(m, v))
BY SetFlagOK DEF Parity, StatusFlags

LEMMA CarryAndOverflowOK ==
  ASSUME NEW m, IsMachine(m), NEW c \in BOOLEAN, NEW o \in BOOLEAN
  PROVE  /\ IsMachine(SetFlag(m, FLAG_C, c))
         /\ IsMachine(SetFlag(m, FLAG_OV, o))
         /\ IsMachine(SetFlag(SetFlag(m, FLAG_C, c), FLAG_OV, o))
         /\ IsMachine(SetFlag(SetFlag(m, FLAG_OV, o), FLAG_C, c))
BY SetFlagOK DEF StatusFlags

LEMMA AddSubFlagsOK ==
  ASSUME NEW m, IsMachine(m), NEW d, NEW s, NEW top
  PROVE  IsMachine(AddFlags(m, d, s, top)) /\ IsMachine(SubFlags(m, d, s))
<1>1. /\ (d + s >= top) \in BOOLEAN /\ (d >= s) \in BOOLEAN
      /\ (Msb(s) = Msb(d) /\ Msb(d + s) # Msb(d)) \in BOOLEAN
      /\ (Msb(s) # Msb(d) /\ Msb(d - s) # Msb(d)) \in BOOLEAN
  OBVIOUS
<1> QED
  BY <1>1, CarryAndOverflowOK DEF AddFlags, SubFlags

(* Results are stored and compared with zero. *)
LEMMA StoreOK ==
  ASSUME NEW m, IsMachine(m), NEW a \in Word, NEW v \in Word
  PROVE  IsMachine(Store(m, a, v))
BY WriteWord, CompareOK DEF Store

LEMMA StoreByteOK ==
  ASSUME NEW m, IsMachine(m), NEW a \in Word, NEW v \in 0 .. 255
  PROVE  IsMachine(StoreB(m, a, v))
BY WriteByte, CompareOK DEF StoreB

-----------------------------------------------------------------------------
(* Context switches *)

LEMMA BlwpOK ==
  ASSUME NEW m, IsMachine(m), NEW a PROVE IsMachine(Blwp(m, a))
<1> DEFINE n == [m EXCEPT !.wp = ReadW(m, a), !.pc = ReadW(m, Wrap(a + 2))]
<1>1. IsMachine(n)
  BY ReadWord DEF IsMachine
<1>2. m.wp \in Word /\ m.pc \in Word /\ m.st \in Word
  BY Parts
<1> HIDE DEF n
<1>3. IsMachine(SetReg(n, 13, m.wp))
  BY <1>1, <1>2, SetRegOK
<1>4. IsMachine(SetReg(SetReg(n, 13, m.wp), 14, m.pc))
  BY <1>2, <1>3, SetRegOK
<1>5. IsMachine(SetReg(SetReg(SetReg(n, 13, m.wp), 14, m.pc), 15, m.st))
  BY <1>2, <1>4, SetRegOK
<1> QED
  BY <1>5 DEF Blwp, n

LEMMA RtwpOK == ASSUME NEW m, IsMachine(m) PROVE IsMachine(Rtwp(m))
<1>1. Reg(m, 13) \in Word /\ Reg(m, 14) \in Word /\ Reg(m, 15) \in Word
  BY RegWord
<1> QED
  BY <1>1 DEF Rtwp, IsMachine

LEMMA InterruptedOK ==
  ASSUME NEW m, IsMachine(m), NEW l \in 0 .. 15
  PROVE  IsMachine(Interrupted(m, l))
<1> DEFINE n == Blwp(m, 4 * l)
           k == IF l > 0 THEN l - 1 ELSE 0
<1>1. IsMachine(n)
  BY BlwpOK
<1>2. n.st - (n.st % 16) + k \in Word
  <2>1. n.st \in Word
    BY <1>1, Parts
  <2>2. k \in 0 .. 15
    OBVIOUS
  <2> HIDE DEF n, k
  <2> QED
    BY <2>1, <2>2 DEF Word
<1> HIDE DEF n, k
<1> QED
  BY <1>1, <1>2, Replace DEF Interrupted, SetIntMask, n, k

-----------------------------------------------------------------------------
(* Operands *)

LEMMA OperandOK ==
  ASSUME NEW m, IsMachine(m), NEW md \in 0 .. 3, NEW r \in 0 .. 15,
         NEW size \in {1, 2}
  PROVE  /\ OperandAddr(m, md, r) \in Word
         /\ IsMachine(OperandDone(m, md, r, size))
<1>1. Reg(m, r) \in Word /\ RegAddr(m, r) \in Word
  BY RegWord, RegAddrWord
<1>2. ReadW(m, m.pc) \in Word
  BY ReadWord
<1>3. Wrap(ReadW(m, m.pc) + (IF r = 0 THEN 0 ELSE Reg(m, r))) \in Word
  BY <1>1, <1>2, WrapWord DEF Word
<1>4. OperandAddr(m, md, r) \in Word
  BY <1>1, <1>3 DEF OperandAddr
<1>5. Wrap(Reg(m, r) + size) \in Word
  BY <1>1, WrapWord DEF Word
<1>6. IsMachine(SetReg(m, r, Wrap(Reg(m, r) + size)))
  BY <1>5, SetRegOK
<1>7. IsMachine(OperandDone(m, md, r, size))
  BY <1>6, FetchedOK DEF OperandDone
<1> QED
  BY <1>4, <1>7

(* The operand fields of an instruction word. *)
LEMMA Fields ==
  ASSUME NEW w \in Word
  PROVE  /\ SReg(w) \in 0 .. 15 /\ DReg(w) \in 0 .. 15
         /\ SMode(w) \in 0 .. 3 /\ DMode(w) \in 0 .. 3
         /\ Count(w) \in 0 .. 15
         /\ Offset(w) \in Int
BY DEF SReg, DReg, SMode, DMode, Count, Offset, Signed8, Word

-----------------------------------------------------------------------------
(* The handlers *)

LEMMA ResultOK ==
  ASSUME NEW m, IsMachine(m), NEW r \in Nat, NEW v \in Word
  PROVE  IsMachine(Store(m, RegAddr(m, r), v))
<1>1. RegAddr(m, r) \in Word
  BY RegAddrWord
<1> QED
  BY <1>1, StoreOK

(* A result kept modulo 2^16, with a carry and an overflow. *)
LEMMA FlaggedResultOK ==
  ASSUME NEW m, IsMachine(m), NEW a \in Word, NEW x \in Int,
         NEW c \in BOOLEAN, NEW ov \in BOOLEAN
  PROVE  LET n == SetFlag(SetFlag(m, FLAG_C, c), FLAG_OV, ov)
         IN  /\ IsMachine(n)
             /\ IsMachine(Store(n, a, Wrap(x)))
             /\ IsMachine(StoreB(n, a, Wrap(x) % 256))
<1> DEFINE n == SetFlag(SetFlag(m, FLAG_C, c), FLAG_OV, ov)
<1>1. IsMachine(n)
  BY CarryAndOverflowOK
<1>2. Wrap(x) \in Word /\ Wrap(x) % 256 \in 0 .. 255
  BY WrapWord, BytesOfWord
<1> HIDE DEF n
<1>3. IsMachine(Store(n, a, Wrap(x))) /\ IsMachine(StoreB(n, a, Wrap(x) % 256))
  BY <1>1, <1>2, StoreOK, StoreByteOK
<1> QED
  BY <1>1, <1>3 DEF n

LEMMA ImmediateOK ==
  ASSUME NEW m, IsMachine(m), NEW op \in DOMAIN ImmediateOps, NEW r \in 0 .. 15
  PROVE  IsMachine(Immediate(m, op, r))
<1> DEFINE f == Fetched(m)
           i == ReadW(m, m.pc)
           d == Reg(m, r)
           a(n) == RegAddr(n, r)
<1>1. op \in {"LI", "AI", "ANDI", "ORI", "CI", "STWP", "STST", "LWPI", "LIMI",
              "RTWP"}
  BY DEF ImmediateOps
<1>2. IsMachine(f) /\ i \in Word /\ d \in Word /\ r \in Nat
  <2>1. r \in Nat
    OBVIOUS
  <2> QED BY <2>1, FetchedOK, ReadWord, RegWord
<1>3. CASE op \in {"LI", "STST", "STWP"}
  <2>1. m.st \in Word /\ m.wp \in Word
    BY Parts
  <2>2. /\ IsMachine(SetReg(f, r, i))
        /\ IsMachine(SetReg(m, r, m.st))
        /\ IsMachine(SetReg(m, r, m.wp))
    <3> HIDE DEF f, i
    <3> QED BY <1>2, <2>1, SetRegOK
  <2> QED BY <1>3, <2>2 DEF Immediate
<1>4. CASE op = "AI"
  <2> DEFINE n == AddFlags(f, d, i, 65536)
  <2>1. IsMachine(n)
    BY <1>2, AddSubFlagsOK
  <2>2. Wrap(d + i) \in Word
    BY <1>2, WrapWord DEF Word
  <2>3. IsMachine(Store(n, a(n), Wrap(d + i)))
    <3> HIDE DEF n, d, i
    <3> QED BY <1>2, <2>1, <2>2, ResultOK
  <2> QED BY <1>4, <2>3 DEF Immediate
<1>5. CASE op = "ANDI"
  <2>1. IsMachine(Store(f, a(f), BitAnd(d, i)))
    <3> HIDE DEF f, d, i
    <3> QED BY <1>2, ResultOK, BitwiseWord
  <2> QED BY <1>5, <2>1 DEF Immediate
<1>6. CASE op = "ORI"
  <2>1. IsMachine(Store(f, a(f), BitOr(d, i)))
    <3> HIDE DEF f, d, i
    <3> QED BY <1>2, ResultOK, BitwiseWord
  <2> QED BY <1>6, <2>1 DEF Immediate
<1>7. CASE op = "CI"
  <2>1. IsMachine(CompareWord(f, d, i))
    BY <1>2, CompareOK
  <2> QED BY <1>7, <2>1 DEF Immediate
<1>8. CASE op = "LWPI"
  <2>1. IsMachine([f EXCEPT !.wp = i])
    BY <1>2, Replace
  <2> QED BY <1>8, <2>1 DEF Immediate
<1>9. CASE op = "LIMI"
  <2>1. IsMachine([f EXCEPT !.st = BitOr(f.st - (f.st % 16), i)])
    BY <1>2, Replace, BitwiseWord
  <2> QED BY <1>9, <2>1 DEF Immediate
<1>10. CASE op = "RTWP"
  BY <1>10, RtwpOK DEF Immediate
<1> QED
  BY <1>1, <1>3, <1>4, <1>5, <1>6, <1>7, <1>8, <1>9, <1>10

LEMMA SingleOK ==
  ASSUME NEW m, IsMachine(m), NEW op \in DOMAIN SingleOps \ {"X"},
         NEW a \in Word
  PROVE  IsMachine(Single(m, op, a))
<1> DEFINE p == ReadW(m, a)
           carry(on) == SetFlag(m, FLAG_C, on)
           flags(c, ov) == SetFlag(carry(c), FLAG_OV, ov)
           negative == Msb(p) = 1
           bump(n, v) ==
             IF a % 2 = 1 THEN StoreB(n, a, v % 256) ELSE Store(n, a, v)
<1>1. op \in {"BLWP", "B", "CLR", "NEG", "INV", "INC", "INCT", "DEC", "DECT",
              "BL", "SWPB", "SETO", "ABS"}
  BY DEF SingleOps
<1>2. p \in Word
  BY ReadWord
<1>3. ASSUME NEW n, IsMachine(n), NEW v \in Word
      PROVE  IsMachine(Store(n, a, v))
  BY <1>3, StoreOK
<1>4. /\ -p \in Int /\ p + 1 \in Int /\ p + 2 \in Int
      /\ p - 1 \in Int /\ p - 2 \in Int
  BY <1>2 DEF Word
<1>7. CASE op \in {"NEG", "INC", "INCT", "DEC", "DECT"}
  <2>1. CASE op = "NEG"
    <3> DEFINE c == p = 32768
               ov == negative
    <3>1. c \in BOOLEAN /\ ov \in BOOLEAN
      OBVIOUS
    <3>2. IsMachine(Store(flags(c, ov), a, Wrap(-p)))
      <4> HIDE DEF c, ov, p, negative
      <4> QED BY <1>4, <3>1, FlaggedResultOK
    <3> QED BY <2>1, <3>2 DEF Single
  <2>2. CASE op = "INC"
    <3> DEFINE c == p = 65535
               ov == ~negative /\ Msb(p + 1) = 1
    <3>1. c \in BOOLEAN /\ ov \in BOOLEAN
      OBVIOUS
    <3>2. IsMachine(Store(flags(c, ov), a, Wrap(p + 1)))
      <4> HIDE DEF c, ov, p, negative
      <4> QED BY <1>4, <3>1, FlaggedResultOK
    <3> QED BY <2>2, <3>2 DEF Single
  <2>3. CASE op = "INCT"
    <3> DEFINE c == p >= 65534
               ov == ~negative /\ Msb(p + 2) = 1
    <3>1. c \in BOOLEAN /\ ov \in BOOLEAN
      OBVIOUS
    <3>2. IsMachine(bump(flags(c, ov), Wrap(p + 2)))
      <4> HIDE DEF c, ov, p, negative
      <4> QED BY <1>4, <3>1, FlaggedResultOK
    <3> QED BY <2>3, <3>2 DEF Single
  <2>4. CASE op = "DEC"
    <3> DEFINE c == p # 0
               ov == negative /\ Msb(p - 1) = 0
    <3>1. c \in BOOLEAN /\ ov \in BOOLEAN
      OBVIOUS
    <3>2. IsMachine(Store(flags(c, ov), a, Wrap(p - 1)))
      <4> HIDE DEF c, ov, p, negative
      <4> QED BY <1>4, <3>1, FlaggedResultOK
    <3> QED BY <2>4, <3>2 DEF Single
  <2>5. CASE op = "DECT"
    <3> DEFINE c == p > 1
               ov == negative /\ Msb(p - 2) = 0
    <3>1. c \in BOOLEAN /\ ov \in BOOLEAN
      OBVIOUS
    <3>2. IsMachine(bump(flags(c, ov), Wrap(p - 2)))
      <4> HIDE DEF c, ov, p, negative
      <4> QED BY <1>4, <3>1, FlaggedResultOK
    <3> QED BY <2>5, <3>2 DEF Single
  <2> QED
    BY <1>7, <2>1, <2>2, <2>3, <2>4, <2>5
<1>8. CASE op \in {"INV", "SWPB", "CLR", "SETO"}
  <2>1. 256 * (p % 256) + (p \div 256) \in Word
    <3> HIDE DEF p
    <3> QED BY <1>2 DEF Word
  <2>2. BitNot(p) \in Word
    BY <1>2, BitNotWord
  <2>3. /\ IsMachine(Store(m, a, BitNot(p)))
        /\ IsMachine(Store(m, a, 256 * (p % 256) + (p \div 256)))
    BY <1>3, <2>1, <2>2
  <2>4. IsMachine(WriteW(m, a, 0)) /\ IsMachine(WriteW(m, a, 65535))
    BY WriteWord DEF Word
  <2> QED BY <1>8, <2>3, <2>4 DEF Single
<1>9. CASE op = "ABS"
  <2> DEFINE c == p = 32768
             positive == Signed8(p) > 0
             v == IF negative THEN Wrap(-p) ELSE p
             n == SetFlag(flags(c, negative), FLAG_AGT, positive)
             zero == v = 0
             nonzero == v # 0
             done == SetFlag(SetFlag(WriteW(n, a, v), FLAG_EQ, zero),
                             FLAG_LGT, nonzero)
  <2>1. v \in Word
    BY <1>2, <1>4, WrapWord
  <2>2. c \in BOOLEAN /\ positive \in BOOLEAN /\ zero \in BOOLEAN
        /\ nonzero \in BOOLEAN /\ negative \in BOOLEAN
    OBVIOUS
  <2>3. IsMachine(flags(c, negative))
    <3> HIDE DEF c, negative
    <3> QED BY <2>2, CarryAndOverflowOK
  <2>4. IsMachine(n)
    <3> HIDE DEF flags, c, positive, negative
    <3> QED BY <2>2, <2>3, SetFlagOK DEF StatusFlags
  <2>5. IsMachine(WriteW(n, a, v))
    <3> HIDE DEF n, v
    <3> QED BY <2>1, <2>4, WriteWord
  <2>6. IsMachine(SetFlag(WriteW(n, a, v), FLAG_EQ, zero))
    <3> HIDE DEF n, v, zero
    <3> QED BY <2>2, <2>5, SetFlagOK DEF StatusFlags
  <2>7. IsMachine(done)
    <3> HIDE DEF n, v, zero, nonzero
    <3> QED BY <2>2, <2>6, SetFlagOK DEF StatusFlags
  <2>8. Single(m, op, a) = done
    BY <1>9 DEF Single
  <2> QED BY <2>7, <2>8
<1>10. CASE op \in {"BLWP", "B", "BL"}
  <2>1. IsMachine(Blwp(m, a)) /\ IsMachine([m EXCEPT !.pc = a])
    BY BlwpOK, Replace
  <2>2. IsMachine(SetReg(m, 11, m.pc))
    BY Parts, SetRegOK
  <2>3. IsMachine([SetReg(m, 11, m.pc) EXCEPT !.pc = a])
    BY <2>2, Replace
  <2> QED BY <1>10, <2>1, <2>3 DEF Single
<1> QED
  BY <1>1, <1>7, <1>8, <1>9, <1>10

LEMMA Power2Positive ==
  ASSUME NEW n \in 0 .. 16 PROVE Power2(n) \in Nat \ {0}
BY DEF Power2, Powers

LEMMA HalvedWord ==
  ASSUME NEW d \in Word, NEW n \in 0 .. 16 PROVE d \div Power2(n) \in Word
BY DEF Power2, Powers, Word

LEMMA IntegerDivision ==
  ASSUME NEW x \in Int, NEW k \in Nat \ {0}
  PROVE  x \div k \in Int /\ x % k \in Int
OBVIOUS

LEMMA ShiftOK ==
  ASSUME NEW m, IsMachine(m), NEW op \in DOMAIN ShiftOps, NEW r \in 0 .. 15,
         NEW c \in 0 .. 15
  PROVE  IsMachine(Shift(m, op, r, c))
<1> DEFINE d == Reg(m, r)
           n == ShiftCount(m, c)
           out == (IF op = "SLA" THEN Bit(d, 16 - n) ELSE Bit(d, n - 1)) = 1
           v == CASE op = "SRA" -> Wrap(Signed16(d) \div Power2(n))
                  [] op = "SRL" -> d \div Power2(n)
                  [] op = "SRC" -> Wrap((d \div Power2(n))
                                        + (d % Power2(n)) * Power2(16 - n))
                  [] op = "SLA" -> Wrap((d % Power2(16 - n)) * Power2(n))
           sign == Msb(v) # Msb(d)
           carried == SetFlag(m, FLAG_C, out)
           flagged == IF op = "SLA" THEN SetFlag(carried, FLAG_OV, sign)
                                    ELSE carried
<1>1. op \in {"SRA", "SRL", "SLA", "SRC"}
  BY DEF ShiftOps
<1>2. r \in Nat
  OBVIOUS
<1>3. d \in Word
  BY <1>2, RegWord
<1>4. n \in 1 .. 16
  <2>1. Reg(m, 0) \in Word
    BY RegWord
  <2> QED BY <2>1 DEF ShiftCount, Word
<1>5. v \in Word
  <2> HIDE DEF d, n
  <2>1. Power2(n) \in Nat \ {0} /\ Power2(16 - n) \in Nat \ {0}
    BY <1>4, Power2Positive
  <2>2. d \div Power2(n) \in Word
    BY <1>3, <1>4, HalvedWord
  <2>3. d \in Int /\ Signed16(d) \in Int
    BY <1>3 DEF Word, Signed16
  <2> DEFINE k == Power2(n)
             l == Power2(16 - n)
  <2>4. /\ Signed16(d) \div k \in Int
        /\ (d \div k) + (d % k) * l \in Int
        /\ (d % l) * k \in Int
    <3> HIDE DEF k, l
    <3>1. k \in Nat \ {0} /\ l \in Nat \ {0}
      BY <2>1 DEF k, l
    <3>2. /\ Signed16(d) \div k \in Int /\ d \div k \in Int
          /\ d % k \in Int /\ d % l \in Int
      BY <2>3, <3>1, IntegerDivision
    <3> QED BY <3>1, <3>2
  <2>5. /\ Wrap(Signed16(d) \div k) \in Word
        /\ Wrap((d \div k) + (d % k) * l) \in Word
        /\ Wrap((d % l) * k) \in Word
    <3> HIDE DEF k, l
    <3> QED BY <2>4, WrapWord
  <2> QED
    BY <1>1, <2>2, <2>5
<1>6. out \in BOOLEAN /\ sign \in BOOLEAN
  OBVIOUS
<1>7. IsMachine(flagged)
  <2> HIDE DEF out, sign
  <2> QED BY <1>6, SetFlagOK DEF StatusFlags
<1>8. IsMachine(Store(flagged, RegAddr(m, r), v))
  <2>1. RegAddr(m, r) \in Word
    BY <1>2, RegAddrWord
  <2> HIDE DEF flagged, v
  <2> QED BY <1>5, <1>7, <2>1, StoreOK
<1>9. Shift(m, op, r, c) = Store(flagged, RegAddr(m, r), v)
  BY DEF Shift
<1> QED
  BY <1>8, <1>9

LEMMA JumpOK ==
  ASSUME NEW m, IsMachine(m), NEW op, NEW off \in Int
  PROVE  IsMachine(Jump(m, op, off))
<1>1. Wrap(m.pc + 2 * off) \in Word
  BY Parts, WrapWord DEF Word
<1>2. IsMachine([m EXCEPT !.pc = Wrap(m.pc + 2 * off)])
  BY <1>1, Replace
<1>3. IsMachine(SetFlag(m, FLAG_EQ, FALSE))
  BY SetFlagOK DEF StatusFlags
<1> QED
  BY <1>2, <1>3 DEF Jump

(* A product of two words has a word above and a word below. *)
LEMMA ProductWords ==
  ASSUME NEW x \in Word, NEW y \in Word
  PROVE  Product(x, y).high \in Word /\ Product(x, y).low \in Word
<1> DEFINE xh == x \div 256
           xl == x % 256
           upper == xh * y
           lower == (upper % 256) * 256 + xl * y
<1>1. xh \in 0 .. 255 /\ xl \in 0 .. 255
  BY BytesOfWord
<1>2. y \in Int /\ 0 <= y /\ y <= 65535
  BY DEF Word
<1>3. ASSUME NEW b \in 0 .. 255
      PROVE  b * y \in Int /\ 0 <= b * y /\ b * y <= 255 * 65535
  <2>1. b * y <= 255 * y
    BY <1>2
  <2>2. b * y \in Int /\ 0 <= b * y
    BY <1>2
  <2> QED BY <1>2, <2>1, <2>2
<1>4. upper \in Int /\ 0 <= upper /\ upper <= 255 * 65535
  BY <1>1, <1>3
<1>5. xl * y \in Int /\ 0 <= xl * y /\ xl * y <= 255 * 65535
  BY <1>1, <1>3
<1>6. lower \in Int /\ 0 <= lower /\ lower <= 255 * 256 + 255 * 65535
  <2> DEFINE p == xl * y
  <2> HIDE DEF upper, p
  <2>1. (upper % 256) * 256 + p \in Int
        /\ 0 <= (upper % 256) * 256 + p
        /\ (upper % 256) * 256 + p <= 255 * 256 + 255 * 65535
    BY <1>4, <1>5 DEF p
  <2> QED BY <2>1 DEF p
<1>7. (upper \div 256) + (lower \div 65536) \in Word
  <2> HIDE DEF upper, lower
  <2> QED BY <1>4, <1>6 DEF Word
<1>8. Wrap(lower) \in Word
  BY <1>6, WrapWord
<1> QED
  BY <1>7, <1>8 DEF Product

LEMMA QuotientWords ==
  ASSUME NEW h \in Word, NEW l \in Word, NEW y \in Word, y > 0
  PROVE  Quotient(h, l, y).quotient \in Word /\ Quotient(h, l, y).remainder \in Word
<1> DEFINE upper == h * 256 + (l \div 256)
           lower == (upper % y) * 256 + (l % 256)
<1>1. y \in Nat \ {0} /\ h \in Int /\ l \in Int
  BY DEF Word
<1>2. upper \in Int
  BY <1>1
<1>3. upper \div y \in Int /\ upper % y \in Int
  <2> HIDE DEF upper
  <2> QED BY <1>1, <1>2, IntegerDivision
<1>4. lower \in Int
  BY <1>1, <1>3
<1>5. lower \div y \in Int /\ lower % y \in Int
  <2> HIDE DEF lower
  <2> QED BY <1>1, <1>4, IntegerDivision
<1>6. (upper \div y) * 256 + (lower \div y) \in Int
  BY <1>3, <1>5
<1> QED
  BY <1>5, <1>6, WrapWord DEF Quotient

LEMMA Dual1OK ==
  ASSUME NEW m, IsMachine(m), NEW op \in DOMAIN Dual1Ops, NEW r \in 0 .. 15,
         NEW a \in Word, NEW s \in Word
  PROVE  IsMachine(Dual1(m, op, r, a, s))
<1> DEFINE d == Reg(m, r)
<1>1. op \in {"COC", "CZC", "XOR", "XOP", "MPY", "DIV", "LDCR", "STCR"}
  BY DEF Dual1Ops
<1>2. r \in Nat /\ r + 1 \in Nat
  OBVIOUS
<1>3. d \in Word
  BY <1>2, RegWord
<1>4. CASE op \in {"COC", "CZC"}
  <2>1. /\ IsMachine(CompareWord(m, BitAnd(s, d), s))
        /\ IsMachine(CompareWord(m, BitAnd(s, BitNot(d)), s))
    BY CompareOK
  <2> QED BY <1>4, <2>1 DEF Dual1
<1>5. CASE op = "XOR"
  <2>1. BitXor(d, s) \in Word
    BY BitwiseWord
  <2>2. IsMachine(Store(m, RegAddr(m, r), BitXor(d, s)))
    <3> HIDE DEF d
    <3> QED BY <1>2, <2>1, ResultOK
  <2> QED BY <1>5, <2>2 DEF Dual1
<1>6. CASE op = "XOP"
  BY <1>6 DEF Dual1
<1>7. CASE op = "MPY"
  <2> DEFINE p == Product(d, s)
  <2>1. p.high \in Word /\ p.low \in Word
    BY <1>3, ProductWords
  <2>2. IsMachine(SetReg(SetReg(m, r, p.high), r + 1, p.low))
    <3> HIDE DEF p
    <3>1. IsMachine(SetReg(m, r, p.high))
      BY <1>2, <2>1, SetRegOK
    <3> QED BY <1>2, <2>1, <3>1, SetRegOK
  <2> QED BY <1>7, <2>2 DEF Dual1
<1>8. CASE op = "DIV" /\ s <= d
  <2>1. IsMachine(SetFlag(m, FLAG_OV, TRUE))
    BY CarryAndOverflowOK
  <2> QED BY <1>8, <2>1 DEF Dual1
<1>9. CASE op = "DIV" /\ ~(s <= d)
  <2> DEFINE q == Quotient(d, Reg(m, r + 1), s)
             n == SetFlag(m, FLAG_OV, FALSE)
  <2>1. s > 0
    BY <1>3, <1>9 DEF Word
  <2>2. Reg(m, r + 1) \in Word
    BY <1>2, RegWord
  <2>3. q.quotient \in Word /\ q.remainder \in Word
    BY <1>3, <2>1, <2>2, QuotientWords
  <2>4. IsMachine(n)
    BY CarryAndOverflowOK
  <2>5. IsMachine(SetReg(SetReg(n, r, q.quotient), r + 1, q.remainder))
    <3> HIDE DEF q, n
    <3>1. IsMachine(SetReg(n, r, q.quotient))
      BY <1>2, <2>3, <2>4, SetRegOK
    <3> QED BY <1>2, <2>3, <3>1, SetRegOK
  <2> QED BY <1>9, <2>5 DEF Dual1
<1>10. CASE op = "LDCR"
  <2>1. IsMachine(Parity(m, ReadB(m, a)))
    BY ParityOK
  <2> QED BY <1>10, <2>1 DEF Dual1
<1>11. CASE op = "STCR"
  <2>1. IsMachine(WriteB(m, a, 0)) /\ IsMachine(WriteW(m, a, 0))
    BY WriteByte, WriteWord DEF Word
  <2>2. IsMachine(Parity(WriteB(m, a, 0), 0))
    BY <2>1, ParityOK
  <2> QED BY <1>11, <2>1, <2>2 DEF Dual1
<1> QED
  BY <1>1, <1>4, <1>5, <1>6, <1>7, <1>8, <1>9, <1>10, <1>11

(* Bytes combined bit by bit are bytes. *)
LEMMA HighBitsOfByte ==
  ASSUME NEW x \in 0 .. 255, NEW i \in 8 .. 15 PROVE Bit(x, i) = 0
BY DEF Bit, Power2, Powers

LEMMA LowByteOnly ==
  ASSUME NEW b \in [0 .. 15 -> {0, 1}], \A i \in 8 .. 15 : b[i] = 0
  PROVE  FromBits(b) \in 0 .. 255
<1>1. ByteOf(b, 0) \in 0 .. 255
  BY EightBits DEF ByteOf
<1>2. ByteOf(b, 8) = 0
  BY DEF ByteOf
<1>3. ASSUME NEW l \in 0 .. 255 PROVE l + 256 * 0 \in 0 .. 255
  OBVIOUS
<1> QED
  BY <1>1, <1>2, <1>3 DEF FromBits

LEMMA BitwiseByte ==
  ASSUME NEW x \in 0 .. 255, NEW y
  PROVE  /\ BitAnd(x, y) \in 0 .. 255
         /\ y \in 0 .. 255 => BitOr(x, y) \in 0 .. 255
<1>1. \A i \in 8 .. 15 : Bit(x, i) = 0
  BY HighBitsOfByte
<1>2. BitAnd(x, y) \in 0 .. 255
  BY <1>1, LowByteOnly DEF BitAnd
<1>3. ASSUME y \in 0 .. 255 PROVE BitOr(x, y) \in 0 .. 255
  <2>1. \A i \in 8 .. 15 : Bit(y, i) = 0
    BY <1>3, HighBitsOfByte
  <2> QED BY <1>1, <2>1, LowByteOnly DEF BitOr
<1> QED
  BY <1>2, <1>3

LEMMA Dual2OK ==
  ASSUME NEW m, IsMachine(m), NEW op \in DOMAIN Dual2Ops, NEW a \in Word,
         NEW s, NEW d,
         IF op \in ByteOps THEN s \in 0 .. 255 /\ d \in 0 .. 255
                           ELSE s \in Word /\ d \in Word
  PROVE  IsMachine(Dual2(m, op, s, a, d))
<1>1. op \in {"SZC", "S", "C", "MOV", "SOC", "A"}
      \/ op \in {"SZCB", "SB", "CB", "MOVB", "SOCB", "AB"}
  BY DEF Dual2Ops
<1>2. CASE op \in {"SZC", "S", "C", "MOV", "SOC", "A"}
  <2>1. s \in Word /\ d \in Word
    BY <1>2 DEF ByteOps
  <2>2. /\ BitAnd(d, BitNot(s)) \in Word /\ BitOr(d, s) \in Word
        /\ Wrap(d - s) \in Word /\ Wrap(d + s) \in Word
    BY <2>1, BitwiseWord, WrapWord DEF Word
  <2>3. IsMachine(AddFlags(m, d, s, 65536)) /\ IsMachine(SubFlags(m, d, s))
    BY AddSubFlagsOK
  <2>4. /\ IsMachine(Store(m, a, BitAnd(d, BitNot(s))))
        /\ IsMachine(Store(m, a, BitOr(d, s)))
        /\ IsMachine(Store(m, a, s))
    BY <2>1, <2>2, StoreOK
  <2>5. /\ IsMachine(Store(SubFlags(m, d, s), a, Wrap(d - s)))
        /\ IsMachine(Store(AddFlags(m, d, s, 65536), a, Wrap(d + s)))
    BY <2>2, <2>3, StoreOK
  <2>6. IsMachine(CompareWord(m, s, d))
    BY CompareOK
  <2> QED BY <1>2, <2>4, <2>5, <2>6 DEF Dual2
<1>3. CASE op \in {"SZCB", "SB", "CB", "MOVB", "SOCB", "AB"}
  <2>1. s \in 0 .. 255 /\ d \in 0 .. 255
    BY <1>3 DEF ByteOps
  <2>2. BitAnd(d, BitNot(s)) \in 0 .. 255 /\ BitOr(d, s) \in 0 .. 255
    BY <2>1, BitwiseByte
  <2>3. (d - s) % 256 \in 0 .. 255 /\ (d + s) % 256 \in 0 .. 255
    BY <2>1
  <2>4. IsMachine(AddFlags(m, d, s, 256)) /\ IsMachine(SubFlags(m, d, s))
    BY AddSubFlagsOK
  <2>5. /\ IsMachine(StoreB(m, a, BitAnd(d, BitNot(s))))
        /\ IsMachine(StoreB(m, a, BitOr(d, s)))
        /\ IsMachine(StoreB(m, a, s))
    BY <2>1, <2>2, StoreByteOK
  <2>6. /\ IsMachine(StoreB(SubFlags(m, d, s), a, (d - s) % 256))
        /\ IsMachine(StoreB(AddFlags(m, d, s, 256), a, (d + s) % 256))
    <3>1. IsMachine(SubFlags(m, d, s)) /\ IsMachine(AddFlags(m, d, s, 256))
      BY <2>4
    <3>2. IsMachine(StoreB(SubFlags(m, d, s), a, (d - s) % 256))
      BY <2>1, <2>3, <3>1, StoreByteOK
    <3>3. IsMachine(StoreB(AddFlags(m, d, s, 256), a, (d + s) % 256))
      BY <2>1, <2>3, <3>1, StoreByteOK
    <3> QED BY <3>2, <3>3
  <2>7. IsMachine(CompareByte(m, s, d))
    BY CompareOK
  <2>8. CASE op = "SZCB"
    BY <2>5, <2>8, ParityOK DEF Dual2
  <2>9. CASE op = "SB"
    BY <2>6, <2>9, ParityOK DEF Dual2
  <2>10. CASE op = "CB"
    BY <2>7, <2>10, ParityOK DEF Dual2
  <2>11. CASE op = "MOVB"
    BY <2>5, <2>11, ParityOK DEF Dual2
  <2>12. CASE op = "SOCB"
    BY <2>5, <2>12, ParityOK DEF Dual2
  <2>13. CASE op = "AB"
    BY <2>6, <2>13, ParityOK DEF Dual2
  <2> QED BY <1>3, <2>8, <2>9, <2>10, <2>11, <2>12, <2>13
<1> QED
  BY <1>1, <1>2, <1>3

-----------------------------------------------------------------------------
(* Handlers with their operand decoding *)

LEMMA TwoOperandsOK ==
  ASSUME NEW m, IsMachine(m), NEW op \in DOMAIN Dual2Ops, NEW w \in Word
  PROVE  IsMachine(TwoOperands(m, op, w))
<1> DEFINE byte == op \in ByteOps
           size == IF byte THEN 1 ELSE 2
           fetch(n, x) == IF byte THEN ReadB(n, x) ELSE ReadW(n, x)
           sAddr == OperandAddr(m, SMode(w), SReg(w))
           ms == OperandDone(m, SMode(w), SReg(w), size)
           dAddr == OperandAddr(ms, DMode(w), DReg(w))
           md == OperandDone(ms, DMode(w), DReg(w), size)
           s == fetch(ms, sAddr)
           d == fetch(md, dAddr)
<1>1. /\ SReg(w) \in 0 .. 15 /\ DReg(w) \in 0 .. 15
      /\ SMode(w) \in 0 .. 3 /\ DMode(w) \in 0 .. 3
      /\ size \in {1, 2}
  BY Fields
<1>2. IsMachine(ms)
  <2> HIDE DEF size
  <2> QED BY <1>1, OperandOK
<1>3. IsMachine(md) /\ dAddr \in Word
  <2> HIDE DEF size, ms
  <2> QED BY <1>1, <1>2, OperandOK
<1>4. IF byte THEN s \in 0 .. 255 /\ d \in 0 .. 255
              ELSE s \in Word /\ d \in Word
  <2> HIDE DEF ms, md, sAddr, dAddr
  <2> QED BY <1>2, <1>3, ReadByte, ReadWord
<1>5. IsMachine(Dual2(md, op, s, dAddr, d))
  <2> HIDE DEF s, d, md, dAddr
  <2> QED BY <1>3, <1>4, Dual2OK
<1> QED
  BY <1>5 DEF TwoOperands

LEMMA OneOperandOK ==
  ASSUME NEW m, IsMachine(m), NEW w \in Word
  PROVE  LET n == OperandDone(m, SMode(w), SReg(w), 2)
             a == OperandAddr(m, SMode(w), SReg(w))
         IN  IsMachine(n) /\ a \in Word /\ ReadW(n, a) \in Word
<1>1. SReg(w) \in 0 .. 15 /\ SMode(w) \in 0 .. 3
  BY Fields
<1> QED
  BY <1>1, OperandOK, ReadWord

LEMMA OneOperandAndRegisterOK ==
  ASSUME NEW m, IsMachine(m), NEW op \in DOMAIN Dual1Ops, NEW w \in Word
  PROVE  IsMachine(OneOperandAndRegister(m, op, w))
<1> DEFINE n == OperandDone(m, SMode(w), SReg(w), 2)
           a == OperandAddr(m, SMode(w), SReg(w))
<1>1. IsMachine(n) /\ a \in Word /\ ReadW(n, a) \in Word
  BY OneOperandOK
<1>2. DReg(w) \in 0 .. 15
  BY Fields
<1>3. IsMachine(Dual1(n, op, DReg(w), a, ReadW(n, a)))
  <2> HIDE DEF n, a
  <2> QED BY <1>1, <1>2, Dual1OK
<1> QED
  BY <1>3 DEF OneOperandAndRegister

LEMMA OneOperandOnlyOK ==
  ASSUME NEW m, IsMachine(m), NEW op \in DOMAIN SingleOps \ {"X"}, NEW w \in Word
  PROVE  IsMachine(OneOperand(m, op, w))
<1> DEFINE n == OperandDone(m, SMode(w), SReg(w), 2)
           a == OperandAddr(m, SMode(w), SReg(w))
<1>1. IsMachine(n) /\ a \in Word
  BY OneOperandOK
<1>2. IsMachine(Single(n, op, a))
  <2> HIDE DEF n, a
  <2> QED BY <1>1, SingleOK
<1> QED
  BY <1>2 DEF OneOperand

-----------------------------------------------------------------------------
(* Every step of the processor keeps its state within its types. *)

LEMMA RunTypeOK == TypeOK /\ Run => TypeOK'
<1> SUFFICES ASSUME TypeOK, Run PROVE TypeOK'
  OBVIOUS
<1> USE DEF TypeOK
<1>1. MaxX \in Nat
  BY BoundAssumption
<1>2. CASE Fetch
  BY <1>2, FetchedOK, ReadWord DEF Fetch
<1>3. CASE ExecuteImmediate
  <2>1. SReg(ir) \in 0 .. 15
    BY Fields
  <2>2. /\ Op(ir) \in DOMAIN ImmediateOps
        /\ cpu' = Immediate(cpu, Op(ir), SReg(ir))
        /\ mode' = "check" /\ UNCHANGED <<ir, frames>>
    BY <1>3 DEF ExecuteImmediate, Execute
  <2>3. IsMachine(cpu')
    BY <2>1, <2>2, ImmediateOK
  <2> QED BY <2>2, <2>3
<1>4. CASE ExecuteSingle
  <2>1. /\ Op(ir) \in DOMAIN SingleOps \ {"X"}
        /\ cpu' = OneOperand(cpu, Op(ir), ir)
        /\ mode' = "check" /\ UNCHANGED <<ir, frames>>
    BY <1>4 DEF ExecuteSingle, Execute
  <2>2. IsMachine(cpu')
    BY <2>1, OneOperandOnlyOK
  <2> QED BY <2>1, <2>2
<1>5. CASE ExecuteShift
  <2>1. SReg(ir) \in 0 .. 15 /\ Count(ir) \in 0 .. 15
    BY Fields
  <2>2. /\ Op(ir) \in DOMAIN ShiftOps
        /\ cpu' = Shift(cpu, Op(ir), SReg(ir), Count(ir))
        /\ mode' = "check" /\ UNCHANGED <<ir, frames>>
    BY <1>5 DEF ExecuteShift, Execute
  <2>3. IsMachine(cpu')
    BY <2>1, <2>2, ShiftOK
  <2> QED BY <2>2, <2>3
<1>6. CASE ExecuteJump
  <2>1. Offset(ir) \in Int
    BY Fields
  <2>2. /\ cpu' = Jump(cpu, Op(ir), Offset(ir))
        /\ mode' = "check" /\ UNCHANGED <<ir, frames>>
    BY <1>6 DEF ExecuteJump, Execute
  <2>3. IsMachine(cpu')
    BY <2>1, <2>2, JumpOK
  <2> QED BY <2>2, <2>3
<1>7. CASE ExecuteDual1
  <2>1. /\ Op(ir) \in DOMAIN Dual1Ops
        /\ cpu' = OneOperandAndRegister(cpu, Op(ir), ir)
        /\ mode' = "check" /\ UNCHANGED <<ir, frames>>
    BY <1>7 DEF ExecuteDual1, Execute
  <2>2. IsMachine(cpu')
    BY <2>1, OneOperandAndRegisterOK
  <2> QED BY <2>1, <2>2
<1>8. CASE ExecuteDual2
  <2>1. /\ Op(ir) \in DOMAIN Dual2Ops
        /\ cpu' = TwoOperands(cpu, Op(ir), ir)
        /\ mode' = "check" /\ UNCHANGED <<ir, frames>>
    BY <1>8 DEF ExecuteDual2, Execute
  <2>2. IsMachine(cpu')
    BY <2>1, TwoOperandsOK
  <2> QED BY <2>1, <2>2
<1>9. CASE ExecuteX
  <2>1. IsMachine(cpu') /\ ir' \in Word
    BY <1>9, OneOperandOK DEF ExecuteX
  <2>2. frames' \in 0 .. MaxX
    BY <1>1, <1>9 DEF ExecuteX
  <2> QED BY <1>9, <2>1, <2>2 DEF ExecuteX
<1>10. CASE Halt
  BY <1>10 DEF Halt
<1>11. CASE NoInterrupt
  BY <1>1, <1>11 DEF NoInterrupt, ReturnFromExecute
<1> QED
  BY <1>2, <1>3, <1>4, <1>5, <1>6, <1>7, <1>8, <1>9, <1>10, <1>11 DEF Run

LEMMA TakeInterruptTypeOK ==
  ASSUME NEW l \in Levels, TypeOK, TakeInterrupt(l) PROVE TypeOK'
<1>1. MaxX \in Nat /\ l \in 0 .. 15
  BY BoundAssumption
<1>2. IsMachine(cpu')
  BY <1>1, InterruptedOK DEF TypeOK, TakeInterrupt
<1> QED
  BY <1>1, <1>2 DEF TypeOK, TakeInterrupt, ReturnFromExecute

LEMMA InitTypeOK == Init => TypeOK
<1>1. ASSUME NEW m \in Boot, Start(m) PROVE TypeOK
  <2>1. IsMachine(m)
    BY BootAssumption
  <2>2. MaxX \in Nat /\ 0 \in Word
    BY BoundAssumption DEF Word
  <2> QED BY <1>1, <2>1, <2>2 DEF Start, TypeOK
<1> QED
  BY <1>1 DEF Init

(* Whatever machine the processor starts from, whatever program it runs    *)
(* and whatever devices interrupt it, its registers and its memory hold    *)
(* 16-bit words: no handler of cpu.cc lets an intermediate result escape.  *)
THEOREM TypeCorrect == Spec => []TypeOK
<1>1. TypeOK /\ UNCHANGED vars => TypeOK'
  BY DEF TypeOK, vars
<1>2. TypeOK /\ [Next]_vars => TypeOK'
  BY <1>1, RunTypeOK, TakeInterruptTypeOK DEF Next
<1> QED
  BY <1>2, InitTypeOK, PTL DEF Spec

-----------------------------------------------------------------------------
(* Context switches and their reverse *)

LEMMA ReadAfterWrite ==
  ASSUME NEW m, IsMachine(m), NEW a \in Word, NEW b \in Word, NEW v \in Word
  PROVE  ReadW(WriteW(m, a, v), b) = IF Even(a) = Even(b) THEN v ELSE ReadW(m, b)
<1> DEFINE f == [x \in DOMAIN m.mem \cup {Even(a)} |->
                   IF x = Even(a) THEN v ELSE m.mem[x]]
<1>1. WriteW(m, a, v).mem = f
  BY DEF WriteW, IsMachine
<1>2. Even(b) \in DOMAIN f <=> Even(b) \in DOMAIN m.mem \/ Even(b) = Even(a)
  OBVIOUS
<1>3. CASE Even(a) = Even(b)
  BY <1>1, <1>3 DEF ReadW
<1>4. CASE Even(a) # Even(b)
  <2>1. CASE Even(b) \in DOMAIN m.mem
    BY <1>1, <1>4, <2>1 DEF ReadW
  <2>2. CASE Even(b) \notin DOMAIN m.mem
    BY <1>1, <1>2, <1>4, <2>2 DEF ReadW
  <2> QED BY <2>1, <2>2
<1> QED
  BY <1>3, <1>4

(* A store to a register leaves the processor's own registers alone. *)
LEMMA SetRegKeeps ==
  ASSUME NEW m, IsMachine(m), NEW r, NEW v
  PROVE  LET n == SetReg(m, r, v)
         IN  n.pc = m.pc /\ n.wp = m.wp /\ n.st = m.st
BY DEF SetReg, WriteW, IsMachine

LEMMA RegAfterSetReg ==
  ASSUME NEW m, IsMachine(m), NEW r \in 13 .. 15, NEW q \in 13 .. 15,
         NEW v \in Word
  PROVE  Reg(SetReg(m, r, v), q) = IF r = q THEN v ELSE Reg(m, q)
<1>1. RegAddr(m, r) \in Word /\ RegAddr(m, q) \in Word
  BY RegAddrWord
<1>2. Even(RegAddr(m, r)) = Even(RegAddr(m, q)) <=> r = q
  <2> DEFINE w == m.wp
  <2>1. w \in Word
    BY Parts
  <2>2. Even(Wrap(w + 2 * r)) = Even(Wrap(w + 2 * q)) <=> r = q
    <3> HIDE DEF w
    <3> QED BY <2>1 DEF Even, Wrap, Word
  <2> QED BY <2>2 DEF RegAddr
<1>3. RegAddr(SetReg(m, r, v), q) = RegAddr(m, q)
  BY SetRegKeeps DEF RegAddr
<1> QED
  BY <1>1, <1>2, <1>3, ReadAfterWrite DEF Reg, SetReg

(* A context switch leaves the link to the context it suspends in R13, R14 *)
(* and R15 of the new workspace, wherever that lies.                       *)
LEMMA BlwpLinks ==
  ASSUME NEW m, IsMachine(m), NEW a
  PROVE  LET n == Blwp(m, a)
         IN  /\ Reg(n, 13) = m.wp /\ Reg(n, 14) = m.pc /\ Reg(n, 15) = m.st
             /\ n.st = m.st
<1> DEFINE m0 == [m EXCEPT !.wp = ReadW(m, a), !.pc = ReadW(m, Wrap(a + 2))]
           m1 == SetReg(m0, 13, m.wp)
           m2 == SetReg(m1, 14, m.pc)
           m3 == SetReg(m2, 15, m.st)
<1>1. m.wp \in Word /\ m.pc \in Word /\ m.st \in Word
  BY Parts
<1>2. IsMachine(m0)
  BY ReadWord DEF IsMachine
<1>3. IsMachine(m1)
  <2> HIDE DEF m0
  <2> QED BY <1>1, <1>2, SetRegOK
<1>4. IsMachine(m2)
  <2> HIDE DEF m1
  <2> QED BY <1>1, <1>3, SetRegOK
<1>5. IsMachine(m3)
  <2> HIDE DEF m2
  <2> QED BY <1>1, <1>4, SetRegOK
<1>6. Reg(m3, 13) = m.wp /\ Reg(m3, 14) = m.pc /\ Reg(m3, 15) = m.st
  <2>1. Reg(m1, 13) = m.wp
    <3> HIDE DEF m0
    <3> QED BY <1>1, <1>2, RegAfterSetReg
  <2>2. Reg(m2, 13) = m.wp /\ Reg(m2, 14) = m.pc
    <3> HIDE DEF m1
    <3> QED BY <1>1, <1>3, <2>1, RegAfterSetReg
  <2> HIDE DEF m2
  <2> QED BY <1>1, <1>4, <2>2, RegAfterSetReg
<1>7. m3.st = m.st
  <2>1. m0.st = m.st
    BY DEF IsMachine
  <2>2. m1.st = m0.st
    <3> HIDE DEF m0
    <3> QED BY <1>2, SetRegKeeps
  <2>3. m2.st = m1.st
    <3> HIDE DEF m1
    <3> QED BY <1>3, SetRegKeeps
  <2>4. m3.st = m2.st
    <3> HIDE DEF m2
    <3> QED BY <1>4, SetRegKeeps
  <2> QED BY <2>1, <2>2, <2>3, <2>4
<1>8. Blwp(m, a) = m3
  BY DEF Blwp
<1> HIDE DEF m3
<1> QED
  BY <1>6, <1>7, <1>8

(* RTWP undoes a context switch, wherever the vector and the workspace it  *)
(* names are, overlapping or odd as they may be: it resumes the program    *)
(* counter, the workspace and the status that _blwp saved.                 *)
THEOREM RtwpUndoesBlwp ==
  ASSUME NEW m, IsMachine(m), NEW a
  PROVE  LET n == Rtwp(Blwp(m, a))
         IN  n.pc = m.pc /\ n.wp = m.wp /\ n.st = m.st
<1> DEFINE n == Blwp(m, a)
<1>1. IsMachine(n)
  BY BlwpOK
<1>2. Reg(n, 13) = m.wp /\ Reg(n, 14) = m.pc /\ Reg(n, 15) = m.st
  BY BlwpLinks
<1> HIDE DEF n
<1>3. Rtwp(n).pc = m.pc /\ Rtwp(n).wp = m.wp /\ Rtwp(n).st = m.st
  BY <1>1, <1>2 DEF Rtwp, IsMachine
<1> QED
  BY <1>3 DEF n

(* An interrupt is taken at a level the running context lets in, and what  *)
(* runs then lets in only more urgent levels (the mask that execute() sets *)
(* after _blwp; level 0 cannot be masked).                                 *)
THEOREM InterruptsOnlyMoreUrgent ==
  ASSUME TypeOK, NEW l \in Levels, l > 0, TakeInterrupt(l)
  PROVE  IntMask(cpu') < l /\ l <= IntMask(cpu)
<1>1. l \in 1 .. 15
  BY BoundAssumption
<1> DEFINE n == Blwp(cpu, 4 * l)
<1>2. IsMachine(n)
  BY BlwpOK DEF TypeOK
<1>3. cpu' = [n EXCEPT !.st = n.st - (n.st % 16) + (l - 1)]
  BY <1>1 DEF TakeInterrupt, Interrupted, SetIntMask
<1>4. cpu'.st % 16 = l - 1
  <2>1. cpu'.st = n.st - (n.st % 16) + (l - 1)
    <3> HIDE DEF n
    <3> QED BY <1>2, <1>3 DEF IsMachine
  <2>2. n.st \in Word
    BY <1>2, Parts
  <2> HIDE DEF n
  <2> QED BY <1>1, <2>1, <2>2 DEF Word
<1> QED
  BY <1>1, <1>4 DEF IntMask, TakeInterrupt
=============================================================================
