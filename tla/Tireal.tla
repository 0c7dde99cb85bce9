-------------------------------- MODULE Tireal --------------------------------
(***************************************************************************)
(* Floating point in the format of the TI-99/4A, config/tms9900: what      *)
(* tireal_atof and tireal_ftoa do for the compiler (tms9900_encode_real    *)
(* and tms9900_decode_real) and for programs, and the comparisons of       *)
(* libgcc.  A double is eight bytes: an exponent to the base 100, offset   *)
(* by 40 hex, and seven digits to the base 100; the first word of a        *)
(* negative number is negated.                                             *)
(***************************************************************************)
EXTENDS Integers, SequencesExt

CONSTANT Constants   \* the pairs of constants programs are written with

VARIABLES
  stage,      \* "source", "compiled", or what the program has done last
  constants,  \* the two constants, as decimal128ToString writes them
  doubles,    \* what the compiler made of them
  answer      \* the last result: of a comparison, or the text of a double

vars == <<stage, constants, doubles, answer>>

(* A number as text: [negative, whole, fraction, sign, exponent], digits   *)
(* before and after the point, and the sign ("none" if it has none) and    *)
(* the characters of the exponent, as their distance from "0".             *)
Text(negative, whole, fraction, sign, exponent) ==
  [negative |-> negative, whole |-> whole, fraction |-> fraction,
   sign |-> sign, exponent |-> exponent]

(* Mutant of Char: a char is an int. *)
CharWide(n) == n

Char(n) == n % 256

-----------------------------------------------------------------------------
(* tireal_atof *)

Places == 14   \* the size of v

WithoutLeadingZeros(digits) ==
  LET positive == {i \in DOMAIN digits : digits[i] > 0}
  IN  IF positive = {} THEN <<>> ELSE SubSeq(digits, Min(positive), Len(digits))

Take(digits, n) == SubSeq(digits, 1, IF Len(digits) < n THEN Len(digits) ELSE n)

(* Mutant of Significand: a v that is just full hides the exponent too.    *)
SignificandFullEarly(text) ==
  LET whole == WithoutLeadingZeros(text.whole)
      fraction == IF whole = <<>> THEN WithoutLeadingZeros(text.fraction)
                                  ELSE text.fraction
  IN  [digits |-> Take(whole \o fraction, Places),
       point |-> Len(Take(whole, Places)) - (Len(text.fraction) - Len(fraction)),
       full |-> Len(whole \o fraction) >= Places]

(* The digits that count, and how far the point is behind the first.  When *)
(* v is full the next digit hides the exponent; so does a plus sign.       *)
Significand(text) ==
  LET whole == WithoutLeadingZeros(text.whole)
      fraction == IF whole = <<>> THEN WithoutLeadingZeros(text.fraction)
                                  ELSE text.fraction
      skipped == Len(text.fraction) - Len(fraction)
  IN  [digits |-> Take(whole \o fraction, Places),
       point |-> Len(Take(whole, Places)) - skipped,
       full |-> Len(whole \o fraction) > Places]

(* The number digits spell, read from the left. *)
Number(digits) ==
  LET b10_exp[n \in 0 .. Len(digits)] ==
        IF n = 0 THEN 0 ELSE 10 * b10_exp[n - 1] + digits[n]
  IN  b10_exp[Len(digits)]

Exponent(text) ==
  LET bad == {i \in DOMAIN text.exponent : text.exponent[i] > 9} \cup {Len(text.exponent) + 1}
      b10_exp == Number(SubSeq(text.exponent, 1, Min(bad) - 1))
  IN  CASE text.sign = "plus" -> 0
        [] text.sign = "minus" -> -b10_exp
        [] text.sign = "none" -> b10_exp

(* Mutant of Half: rounds down, as a shift would. *)
HalfDown(dp) == dp \div 2

(* dp / 2 of C *)
Half(dp) == IF dp < 0 THEN -((-dp) \div 2) ELSE dp \div 2

(* dp: how far the point is behind the first digit. *)
Point(text) ==
  Significand(text).point + IF Significand(text).full THEN 0 ELSE Exponent(text)

(* exp, for the first digit of the base 100 *)
Base100(dp) == 63 + Half(dp) + IF dp > 0 /\ dp % 2 = 1 THEN 1 ELSE 0

(* v: the digits, one place to the right where a pair is split. *)
Aligned(digits, odd) ==
  LET shifted == (IF odd THEN <<0>> ELSE <<>>) \o digits
  IN  [i \in 1 .. Places |-> IF i \in DOMAIN shifted THEN shifted[i] ELSE 0]

Written(negative, exp, hundreds) ==
  << Char(IF negative THEN -(exp + 1) ELSE exp),
     Char(IF negative THEN -hundreds[1] ELSE hundreds[1]) >> \o Tail(hundreds)

tireal_atof(text) ==
  LET digits == Significand(text).digits
      dp == Point(text)
      v == Aligned(digits, digits # <<>> /\ dp % 2 = 1)
  IN  Written(text.negative, IF digits = <<>> THEN 0 ELSE Base100(dp),
              [i \in 1 .. 7 |-> 10 * v[2 * i - 1] + v[2 * i]])

-----------------------------------------------------------------------------
(* tireal_ftoa *)

(* The first word of a double, as a short. *)
FirstWord(d) ==
  LET word == 256 * d[1] + d[2] IN IF word > 32767 THEN word - 65536 ELSE word

(* Mutant of ExponentCharacters: the base of the exponent is forgotten. *)
ExponentCharactersBase100(exp) == IF exp = 0 THEN <<>> ELSE <<exp \div 2>>

(* The second character is the first again: the tens, not the units. *)
ExponentCharacters(exp) ==
  CASE exp = 0 -> <<>>
    [] exp \in 1 .. 9 -> <<exp>>
    [] OTHER -> <<exp \div 10, exp \div 10>>

tireal_ftoa(d) ==
  LET first == FirstWord(d)
      magnitude == IF first < 0 THEN -first ELSE first
      lead == magnitude % 256
      exp == 2 * ((magnitude \div 256) - 64)
  IN  Text(first < 0,
           (IF lead > 9 THEN <<lead \div 10>> ELSE <<>>) \o <<lead % 10>>,
           [i \in 1 .. 12 |-> LET n == d[2 + (i + 1) \div 2]
                              IN  IF i % 2 = 1 THEN n \div 10 ELSE n % 10],
           IF exp < 0 THEN "minus" ELSE "none",
           ExponentCharacters(IF exp < 0 THEN -exp ELSE exp))

-----------------------------------------------------------------------------
(* The comparisons *)

Signed(byte) == IF byte > 127 THEN byte - 256 ELSE byte

(* The magnitude of a double, and 1 or -1. *)
d_adj_neg_pos(d) ==
  IF Signed(d[1]) < 0
    THEN [np |-> -1,
          magnitude |-> [d EXCEPT ![1] = Char(-Signed(d[1]) - 1), ![2] = Char(-Signed(d[2]))]]
    ELSE [np |-> 1, magnitude |-> d]

(* Mutant of d_compare: the loop stops before the last byte. *)
d_compare_7(a, b) ==
  LET pa == d_adj_neg_pos(a)
      pb == d_adj_neg_pos(b)
      differ == {i \in 1 .. 7 : pa.magnitude[i] # pb.magnitude[i]}
  IN  CASE pa.np < pb.np -> -1
        [] pa.np > pb.np -> 1
        [] pa.np = pb.np /\ differ = {} -> 0
        [] OTHER -> LET i == Min(differ)
                    IN  IF Signed(pa.magnitude[i]) < Signed(pb.magnitude[i]) THEN -1 ELSE 1

d_compare(a, b) ==
  LET pa == d_adj_neg_pos(a)
      pb == d_adj_neg_pos(b)
      differ == {i \in 1 .. 8 : pa.magnitude[i] # pb.magnitude[i]}
  IN  CASE pa.np < pb.np -> -1
        [] pa.np > pb.np -> 1
        [] pa.np = pb.np /\ differ = {} -> 0
        [] OTHER -> LET i == Min(differ)
                    IN  IF Signed(pa.magnitude[i]) < Signed(pb.magnitude[i]) THEN -1 ELSE 1

__eqdf2(a, b) == IF \E i \in 1 .. 8 : a[i] # b[i] THEN 1 ELSE 0

-----------------------------------------------------------------------------
Digits == 0 .. 9

Texts ==
  [negative : BOOLEAN, whole : Seq(Digits), fraction : Seq(Digits),
   sign : {"plus", "minus", "none"}, exponent : Seq(Digits)]

(* What the first byte of a double can say. *)
InRange(text) ==
  Significand(text).digits = <<>> \/ (0 <= Base100(Point(text)) /\ Base100(Point(text)) < 128)

(* Constants are digits, in the range of the format. *)
ASSUME TirealAssumption ==
  \A pair \in Constants : \A k \in 1 .. 2 : pair[k] \in Texts /\ InRange(pair[k])

Init ==
  /\ constants \in Constants
  /\ stage = "source"
  /\ doubles = <<>>
  /\ answer = <<>>

(* tms9900_encode_real *)
Compile ==
  /\ stage = "source"
  /\ stage' = "compiled"
  /\ doubles' = [k \in 1 .. 2 |-> tireal_atof(constants[k])]
  /\ UNCHANGED <<constants, answer>>

(* The compiler reads a constant (tms9900_decode_real) and writes it again *)
(* (tms9900_encode_real).  Between the two GCC keeps the number, not the   *)
(* text: decimal_real_from_string and decimal128ToString give the same     *)
(* digits back for an exponent of one digit, and other text for those of   *)
(* two digits and for zero, of which no property speaks (Printable).       *)
Reread(k) ==
  /\ stage = "compiled"
  /\ doubles' = [doubles EXCEPT ![k] = tireal_atof(tireal_ftoa(@))]
  /\ UNCHANGED <<stage, constants, answer>>

(* What the program does: __ltdf2, __ledf2, __gtdf2 and __gedf2 are the    *)
(* same, __eqdf2 is another comparison, and it prints its first double.    *)
Run(did, result) ==
  /\ stage # "source"
  /\ stage' = did
  /\ answer' = <<result>>
  /\ UNCHANGED <<constants, doubles>>

Compare == Run("compared", d_compare(doubles[1], doubles[2]))

CompareEqual == Run("compared for equality", __eqdf2(doubles[1], doubles[2]))

WriteOut == Run("printed", tireal_ftoa(doubles[1]))

Next == Compile \/ (\E k \in 1 .. 2 : Reread(k)) \/ Compare \/ CompareEqual \/ WriteOut

Spec == Init /\ [][Next]_vars

-----------------------------------------------------------------------------
(* Values: [sign, digits, point], 0.digits times 10 to the power point.    *)

WithoutTrailingZeros(digits) == Reverse(WithoutLeadingZeros(Reverse(digits)))

Value(negative, digits, point) ==
  LET significant == WithoutLeadingZeros(digits)
  IN  IF significant = <<>> THEN [sign |-> 0, digits |-> <<>>, point |-> 0]
      ELSE [sign |-> IF negative THEN -1 ELSE 1,
            digits |-> WithoutTrailingZeros(significant),
            point |-> point - (Len(digits) - Len(significant))]

TextValue(text) ==
  LET number == Number(text.exponent)
  IN  Value(text.negative, text.whole \o text.fraction,
            Len(text.whole) + IF text.sign = "minus" THEN -number ELSE number)

DoubleValue(d) ==
  LET word == FirstWord(d)
      magnitude == IF word < 0 THEN -word ELSE word
      hundreds == <<magnitude % 256>> \o SubSeq(d, 3, 8)
  IN  Value(word < 0,
            [i \in 1 .. 14 |-> LET n == hundreds[(i + 1) \div 2]
                               IN  IF i % 2 = 1 THEN n \div 10 ELSE n % 10],
            2 * ((magnitude \div 256) - 63))

(* What fits in seven digits to the base 100. *)
Cut(value) ==
  [value EXCEPT !.digits =
     WithoutTrailingZeros(Take(@, IF value.point % 2 = 0 THEN 14 ELSE 13))]

Before(a, b) ==
  \E i \in 1 .. 14 :
    LET digit(s, k) == IF k \in DOMAIN s THEN s[k] ELSE 0
    IN  /\ digit(a, i) < digit(b, i)
        /\ \A k \in 1 .. i - 1 : digit(a, k) = digit(b, k)

MagnitudeLess(a, b) ==
  a.point < b.point \/ (a.point = b.point /\ Before(a.digits, b.digits))

Less(a, b) ==
  \/ a.sign < b.sign
  \/ a.sign = 1 /\ b.sign = 1 /\ MagnitudeLess(a, b)
  \/ a.sign = -1 /\ b.sign = -1 /\ MagnitudeLess(b, a)

Order(a, b) == CASE Less(a, b) -> -1 [] Less(b, a) -> 1 [] OTHER -> 0

Meant(k) == Cut(TextValue(constants[k]))

Encoded(k) == tireal_atof(constants[k])

(* tireal_ftoa prints exponents of two digits wrong, that of 0 too. *)
Printable(d) == Len(tireal_ftoa(d).exponent) < 2

Drifted == \E k \in DOMAIN doubles : doubles[k] # Encoded(k)

-----------------------------------------------------------------------------
(* Constants that miss the known defects.                                  *)

(* tireal_atof passes over an exponent with a plus sign, and over one      *)
(* behind more digits than v holds.                                        *)
Readable(text) ==
  \/ Number(text.exponent) = 0
  \/ text.sign # "plus" /\ ~Significand(text).full

(* It does not count the digits before the point v has no room for.        *)
PointSeen(text) == Len(WithoutLeadingZeros(text.whole)) <= Places

(* A negative zero is less than zero. *)
NotMinusZero(text) == text.negative => TextValue(text).sign # 0

(* Two negative doubles are compared the wrong way round (the theorem      *)
(* NegativesReversed).                                                     *)
Pairs(pair) ==
  /\ \A k \in 1 .. 2 : Readable(pair[k]) /\ PointSeen(pair[k]) /\ NotMinusZero(pair[k])
  /\ ~(pair[1].negative /\ pair[2].negative)

-----------------------------------------------------------------------------
(* Properties *)

(* Doubles are eight bytes, the negated ones too. *)
TypeOK ==
  \A k \in DOMAIN doubles :
    Len(doubles[k]) = 8 /\ \A i \in 1 .. 8 : doubles[k][i] \in 0 .. 255

(* The double the compiler writes is the constant of the source, cut to    *)
(* seven digits to the base 100: on both sides of the point, with odd and  *)
(* even exponents, zeros in front, and negated first words.                *)
EncodesValue ==
  stage # "source" /\ ~Drifted => \A k \in 1 .. 2 : DoubleValue(doubles[k]) = Meant(k)

(* A comparison answers with the order of the constants in the source ("a  *)
(* value less than zero if a is strictly less than b, 0 if equal, 1 if a   *)
(* is strictly greater than b", d_compare.c:5), after any number of times  *)
(* the compiler has read and written them.                                 *)
OrderRight ==
  ~Drifted =>
    /\ stage = "compared" => answer = <<Order(Meant(1), Meant(2))>>
    /\ stage = "compared for equality" => (answer = <<0>>) = (Meant(1) = Meant(2))

(* The text of a double has its value. *)
PrintsValue ==
  stage = "printed" /\ Printable(doubles[1]) =>
    TextValue(answer[1]) = DoubleValue(doubles[1])

(* A constant the compiler reads back and writes again does not drift: the *)
(* 14 digits of the text fill v exactly, and its exponent is still read.   *)
NoDrift ==
  \A k \in DOMAIN doubles : Printable(Encoded(k)) => doubles[k] = Encoded(k)
=============================================================================
