---------------------------- MODULE MCLongDivMod ----------------------------
(***************************************************************************)
(* Longs of a few bits.  The program divides by everything that is neither *)
(* zero nor the most negative long, and an interrupt routine divides too.  *)
(* Remainders of negative numbers, whose sign is lost, have a program of   *)
(* their own: LongDivSign.cfg.                                             *)
(***************************************************************************)
EXTENDS LongDivMod

Calls(entries, numerators, denominators) ==
    [entry : entries, numerator : numerators, denominator : denominators]

\* The most negative long is left out: it has no magnitude, see the README.
AnyCall ==
    Calls({"__divsi3"}, {-7, -6, -1, 0, 3, 7}, {-7, -2, -1, 1, 2, 3})
    \union Calls({"__modsi3"}, {0, 3, 6, 7}, {-7, -2, -1, 1, 2, 3})
    \union Calls({"__udivsi3", "__umodsi3"}, {0, 1, 7, 8, 13, 15}, {1, 2, 7, 9, 15})

\* Calls whose operands are, or share one with, those of the call before.
LaterCall ==
    Calls({"__divsi3"}, {-7}, {-2}) \union Calls({"__modsi3"}, {7}, {-2})
    \union Calls({"__udivsi3"}, {15}, {7})

MCProgram == <<AnyCall, LaterCall>>

MCInterruptCall ==
    Calls({"__divsi3"}, {7}, {-2}) \union Calls({"__umodsi3"}, {15}, {7})

\* The calls of test/test_mod.c in small: both signs of both operands.
SignedRemainders == <<Calls({"__modsi3"}, {-7, 7}, {-2, 2})>>

\* The calls of MCProgram stay clear of the lost sign; those of test_mod.c do
\* not.  Quotient and remainder satisfy the identity of test_mod.c:5.
ASSUME MCLongDivModAssumption ==
    LET calls_made == UNION {MCProgram[k] : k \in DOMAIN MCProgram} \union MCInterruptCall
    IN  /\ SignKept(calls_made)
        /\ ~SignKept(SignedRemainders[1])
        /\ \A call \in calls_made \union SignedRemainders[1] :
              Contract!Quotient(call.numerator, call.denominator) * call.denominator
                + Contract!Remainder(call.numerator, call.denominator) = call.numerator
=============================================================================
