----------------------------- MODULE MCLib1funcs -----------------------------
(***************************************************************************)
(* Calls of the 32-bit routines on the values where their cases meet: one  *)
(* or two words, the sign bit, carries between the words, counts around 16.*)
(* The calls that known defects spoil are those of Lib1Defects.cfg.        *)
(***************************************************************************)
EXTENDS Lib1funcs

Positive ==
  { <<0, 0>>, <<0, 1>>, <<0, 7>>, <<0, 65535>>, <<1, 1>>, <<1, 34464>>,
    <<4660, 22136>>, <<32767, 65535>> }

Signed == Positive \cup
  { <<65535, 65535>>, <<65535, 65529>>, <<65534, 31072>>, <<32768, 1>> }

Unsigned == Positive \cup
  { <<1, 0>>, <<32768, 0>>, <<32769, 3>>, <<65535, 65535>> }

Counts == {0, 1, 8, 15, 16, 17, 31}

Call(routine, x, y) == [routine |-> routine, x |-> x, y |-> y, function |-> Direct]

DivisionCalls(routines, values) ==
  {Call(f, x, y) : f \in routines, x \in values, y \in values \ {<<0, 0>>}}

(* neg sets the carry for 8000 alone: the pairs inv, neg, jnc, inc negates. *)
Negates(x) == ~Negative(x) \/ x[2] \notin {0, 32768}

Unspoilt(c) ==
  LET x == Magnitude(c.x)
      y == Magnitude(c.y)
  IN  (* halving the numerator takes the carry of its lower word *)
      /\ y[1] = 0 \/ x[1] % 2 = x[2] % 2
      /\ y[1] < 32768

SignedCalls ==
  {c \in DivisionCalls({"divsi3", "modsi3"}, Signed) :
     /\ Unspoilt(c)
     /\ Negates(c.x) /\ Negates(c.y)
     /\ c.routine = "divsi3" /\ Negative(c.x) # Negative(c.y) =>
          Divided(Magnitude(c.x), Magnitude(c.y)).q[2] \notin {0, 32768}
     /\ c.routine = "modsi3" /\ Negative(c.x) =>
          Divided(Magnitude(c.x), Magnitude(c.y)).r[2] \notin {0, 32768}}

UnsignedCalls ==
  {c \in DivisionCalls({"udivsi3", "umodsi3"}, Unsigned) :
     c.y[1] < 32768 /\ (c.y[1] = 0 \/ c.x[1] % 2 = c.x[2] % 2)}

LeftShifts == {Call("ashlsi3", x, n) : x \in Signed, n \in Counts}

RightShifts(counts) ==
  {Call(f, x, n) : f \in {"ashrsi3", "lshrsi3"}, x \in Signed, n \in counts}

(* Functions with none to all of the saved registers, and with arguments   *)
(* that leave the operands in registers, on the stack, or one in each.     *)
CompiledFunctions(lives, befores, leaf) ==
  {f \in {[live |-> l, leaf |-> leaf, frame_size |-> n,
            frame_pointer_needed |-> bp, before |-> b] : l \in lives, n \in {0, 2, 6}, bp \in BOOLEAN, b \in befores} :
     f.frame_pointer_needed => BP \notin f.live}

Lives == {{}, {15}, {11, 13}, {12, 15}, {12, 13, 14, 15}}

Befores == {<<>>, <<2>>, <<1, 4>>, <<4, 2, 2>>, <<2, 2, 2, 2, 2, 4>>}

FunctionCalls ==
  {[Call("modsi3", <<65535, 65529>>, <<0, 3>>) EXCEPT !.function = f] :
     f \in CompiledFunctions(Lives, {<<>>, <<4, 2, 2>>}, FALSE)}
  \cup {[Call("ashlsi3", <<4660, 22136>>, 8) EXCEPT !.function = f] :
          f \in CompiledFunctions({{}, {12, 15}}, Befores, FALSE)}
  \cup {[Call(Leaf, <<4660, 22136>>, <<1, 2>>) EXCEPT !.function = f] :
          f \in CompiledFunctions(Lives \cup {{9, 14}}, Befores, TRUE)}

-----------------------------------------------------------------------------
(* The patterns: words and bytes at the ends of their ranges, the bytes    *)
(* over unrelated lower halves, and every count a C program may shift by.  *)

WordOperands == {0, 1, 2, 255, 256, 4660, 32767, 32768, 33023, 65535}

ByteOperands == {\h005A, \h01A5, \h1234, \h7FFF, \h8000, \h80FF, \hFF5A}

PatternCalls(names, xs, ys) == {Call(n, x, y) : n \in names, x \in xs, y \in ys}

(* The signed byte shifted to the left loses the upper half of its word.   *)
KeepsSign(c) == c.routine = "qi_hi_shift" => c.x < 32768 \/ c.y > 7

(* A negative byte over a lower half that is not 0 is negated one short.   *)
WholeByte(c) == c.routine = "absqi2" => c.x < 32768 \/ c.x % 256 = 0

(* MPY takes a negative operand for a large one, unless the other is 0.    *)
SameAsUnsigned(c) ==
  c.routine = "mulhisi3" => 0 \in {c.x, c.y} \/ (c.x < 32768 /\ c.y < 32768)

MCPatterns ==
  PatternCalls(Conversions, WordOperands \cup ByteOperands, {0})
  \cup PatternCalls(WordShifts, WordOperands, 0 .. 15)
  \cup PatternCalls(ByteShifts, ByteOperands, 0 .. 15)
  \cup PatternCalls({"ashiftrt_hi_to_qi", "lshiftrt_hi_to_qi"}, WordOperands, 0 .. 15)
  \cup PatternCalls({"ashift_hi_to_qi"}, WordOperands, 0 .. 7)
  \cup {c \in PatternCalls(ByteCasts, ByteOperands, 0 .. 15) : KeepsSign(c)}
  \cup {c \in PatternCalls(Absolutes, WordOperands \cup ByteOperands, {0}) : WholeByte(c)}
  \cup {c \in PatternCalls(WordProducts, WordOperands, WordOperands) : SameAsUnsigned(c)}
  \cup PatternCalls(ByteProducts, ByteOperands, ByteOperands)
  \cup PatternCalls(WordQuotients, WordOperands, WordOperands \ {0})
  \cup PatternCalls(ByteQuotients, ByteOperands, {y \in ByteOperands : y > 255})

MCCalls ==
  MCPatterns \cup FunctionCalls \cup SignedCalls \cup UnsignedCalls \cup LeftShifts \cup RightShifts(Counts \ 1 .. 15)

-----------------------------------------------------------------------------
(* The calls left out above, one or more for each defect: inv and neg      *)
(* without the carry, the carry of the wrong half, the sign test of an     *)
(* unsigned remainder, the wrong word shifted in, the lost sign, the       *)
(* unsigned product, the absolute value of a word for that of its byte.    *)
CallsThatFail ==
  { Call("divsi3", <<65535, 0>>, <<0, 7>>),
    Call("udivsi3", <<1, 0>>, <<1, 0>>),
    Call("udivsi3", <<32768, 0>>, <<32769, 3>>),
    Call("ashrsi3", <<0, 1>>, 1),
    Call("lshrsi3", <<0, 1>>, 1),
    Call("qi_hi_shift", \h80FF, 3),
    Call("mulhisi3", 65535, 2),
    Call("absqi2", \hFF5A, 0) }
=============================================================================
