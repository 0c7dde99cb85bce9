------------------------------ MODULE Divider ------------------------------
(***************************************************************************)
(* What the long division of libgcc promises, apart from how longdivmod.c  *)
(* and ulongdivmod.c keep it: a call returns the quotient or the remainder *)
(* that C defines for ITS operands, whatever was divided before it.  The   *)
(* remainder is that of test/test_mod.c, whose sign longdivmod.c does not  *)
(* give it: LongDivSign.cfg.                                               *)
(*                                                                         *)
(* The promise has one exception, and it is part of the contract: the      *)
(* signed and the unsigned file each keep their last division in global    *)
(* variables, so once a call interrupts another one of the same file,      *)
(* nothing is promised about that file any more - not even for calls that  *)
(* are made long after both have returned.                                 *)
(***************************************************************************)
EXTENDS Integers, Sequences

CONSTANTS
    Call,          \* the calls that are made: [entry, numerator, denominator]
    MaxDepth       \* calls in progress at one time

VARIABLES
    pending,       \* the calls in progress, the innermost last
    spoilt,        \* [File -> BOOLEAN]: two calls of the file overlapped
    answer         \* the last call to return, with what it returned

dividerVars == <<pending, spoilt, answer>>

File == {"s32", "u32"}

FileOf(entry) == IF entry \in {"__divsi3", "__modsi3"} THEN "s32" ELSE "u32"

NoAnswer == <<>>

Abs(x) == IF x < 0 THEN -x ELSE x

\* C's quotient, which truncates towards zero.
Quotient(n, d) ==
    IF (n < 0) = (d < 0) THEN Abs(n) \div Abs(d) ELSE -(Abs(n) \div Abs(d))

\* C's remainder, which has the sign of the numerator: (n / d) * d + n % d = n.
Remainder(n, d) == IF n < 0 THEN -(Abs(n) % Abs(d)) ELSE Abs(n) % Abs(d)

Promised(call) ==
    IF call.entry \in {"__divsi3", "__udivsi3"}
    THEN Quotient(call.numerator, call.denominator)
    ELSE Remainder(call.numerator, call.denominator)

Enter(call) ==
    /\ Len(pending) < MaxDepth
    /\ pending' = Append(pending, call)
    /\ spoilt' = [f \in File |-> \/ spoilt[f]
                                 \/ /\ f = FileOf(call.entry)
                                    /\ \E k \in DOMAIN pending : FileOf(pending[k].entry) = f]
    /\ UNCHANGED answer

Leave ==
    /\ pending # <<>>
    /\ LET call == pending[Len(pending)]
       IN /\ answer' \in {call} \X Int
          /\ spoilt[FileOf(call.entry)] \/ answer'[2] = Promised(call)
    /\ pending' = SubSeq(pending, 1, Len(pending) - 1)
    /\ UNCHANGED spoilt

Init ==
    /\ pending = <<>>
    /\ spoilt = [f \in File |-> FALSE]
    /\ answer = NoAnswer

Next == Leave \/ \E call \in Call : Enter(call)

Spec == Init /\ [][Next]_dividerVars
=============================================================================
