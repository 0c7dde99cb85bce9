----------------------------- MODULE LongDivMod -----------------------------
(***************************************************************************)
(* longdivmod.c and ulongdivmod.c: division and modulus of longs, one      *)
(* quotient bit per iteration, remembered with the operands in global      *)
(* variables so that x / y followed by x % y divides once.                 *)
(*                                                                         *)
(* A step is a statement, or one iteration of the loop.  Between any two   *)
(* steps an interrupt may call the library again.                          *)
(***************************************************************************)
EXTENDS Integers, Sequences, Powers

CONSTANTS
    Width,         \* bits of a long: 32
    Program,       \* the calls of the program: call k is a member of Program[k],
                   \* a set of records [entry, numerator, denominator]
    InterruptCall, \* the calls interrupt routines make
    MaxInterrupts  \* bound: calls interrupt routines make

VARIABLES
    numerator_cache, denominator_cache,  \* [File -> operand of the last division]
    quotient_cache, remainder_cache,     \* [File -> what it gave]
    calls,         \* the calls in progress with their locals, the innermost last
    made,          \* [main, interrupts]: calls made so far
    spoilt,        \* history: [File -> BOOLEAN], two calls of the file overlapped
    answer         \* history: the last call to return, with its value

caches == <<numerator_cache, denominator_cache, quotient_cache, remainder_cache>>
vars == <<caches, calls, made, spoilt, answer>>

MaxDepth == 2

ASSUME LongDivModAssumption ==
    /\ Width \in Nat \ {0, 1}
    /\ MaxInterrupts \in Nat

Called == (UNION {Program[k] : k \in DOMAIN Program}) \union InterruptCall

Contract == INSTANCE Divider WITH
    Call <- Called,
    pending <- [k \in DOMAIN calls |-> calls[k].call]

File == Contract!File
FileOf(entry) == Contract!FileOf(entry)

(***************************************************************************)
(* Arithmetic of long and unsigned long.                                   *)
(***************************************************************************)
Long(f) == IF f = "s32" THEN -PowerOfTwo[Width - 1] .. PowerOfTwo[Width - 1] - 1
                        ELSE 0 .. PowerOfTwo[Width] - 1

\* What C lets a program divide: operands of the type of the routine, no
\* denominator of 0, and not the most negative long, whose magnitude the
\* file takes and no long holds.
LegalCall ==
    {call \in [entry : {"__divsi3", "__modsi3", "__udivsi3", "__umodsi3"},
               numerator : Int, denominator : Int] :
        /\ {call.numerator, call.denominator}
              \subseteq Long(FileOf(call.entry)) \ {-PowerOfTwo[Width - 1]}
        /\ call.denominator # 0}

\* No call takes the remainder of a negative number, whose sign __modsi3
\* leaves out.
SignKept(set) == \A call \in set : call.entry = "__modsi3" => call.numerator >= 0

ASSUME CallsAssumption ==
    /\ Program \in Seq(SUBSET LegalCall)
    /\ InterruptCall \subseteq LegalCall

\* Mutant: unsigned long declared as long.
WrappedSigned(f, x) ==
    LET low == x % PowerOfTwo[Width]
    IN IF low >= PowerOfTwo[Width - 1] THEN low - PowerOfTwo[Width] ELSE low

\* The value of type Long(f) with the same low bits.
Wrapped(f, x) ==
    LET low == x % PowerOfTwo[Width]
    IN IF f = "s32" /\ low >= PowerOfTwo[Width - 1] THEN low - PowerOfTwo[Width] ELSE low

\* t = 1 << i; t = t & numerator; t = t >> i: the sign bit of a long arrives
\* as -1.
Bit(f, x, i) ==
    LET t == ((x % PowerOfTwo[Width]) \div PowerOfTwo[i]) % 2
    IN IF f = "s32" /\ i = Width - 1 THEN -t ELSE t

\* r | t, for an r whose lowest bit is clear
OrBit(r, t) == IF t = -1 THEN -1 ELSE r + t

(***************************************************************************)
(* Calls in progress.                                                      *)
(***************************************************************************)
Top == calls[Len(calls)]
TopFile == FileOf(Top.call.entry)

Frame(call) == [call |-> call, at |-> "lookup", sign |-> 1,
                numerator |-> call.numerator, denominator |-> call.denominator, i |-> Width - 1]

Enter(call) ==
    /\ calls' = Append(calls, Frame(call))
    /\ spoilt' = [f \in File |-> spoilt[f] \/ (f = FileOf(call.entry) /\ calls # <<>> /\ TopFile = f)]
    /\ UNCHANGED <<caches, answer>>

CallByMain ==
    /\ calls = <<>>
    /\ made.main < Len(Program)
    /\ made' = [made EXCEPT !.main = @ + 1]
    /\ \E call \in Program[made.main + 1] : Enter(call)

CallByInterrupt ==
    /\ calls # <<>>
    /\ Len(calls) < MaxDepth
    /\ made.interrupts < MaxInterrupts
    /\ made' = [made EXCEPT !.interrupts = @ + 1]
    /\ \E call \in InterruptCall : Enter(call)

\* The innermost call is at `from` and goes on with the locals `frame`.
Go(from, frame) ==
    /\ calls # <<>>
    /\ Top.at = from
    /\ calls' = [calls EXCEPT ![Len(calls)] = frame]
    /\ UNCHANGED <<made, spoilt, answer>>

\* Mutant: && for ||.
LookupBoth ==
    /\ Go("lookup", [Top EXCEPT !.at =
            IF /\ Top.call.numerator # numerator_cache[TopFile]
               /\ Top.call.denominator # denominator_cache[TopFile]
            THEN "store numerator" ELSE "return"])
    /\ UNCHANGED caches

\* if (numerator != numerator_cache || denominator != denominator_cache)
Lookup ==
    /\ Go("lookup", [Top EXCEPT !.at =
            IF \/ Top.call.numerator # numerator_cache[TopFile]
               \/ Top.call.denominator # denominator_cache[TopFile]
            THEN "store numerator" ELSE "return"])
    /\ UNCHANGED caches

StoreNumerator ==
    /\ Go("store numerator", [Top EXCEPT !.at = "store denominator"])
    /\ numerator_cache' = [numerator_cache EXCEPT ![TopFile] = Top.call.numerator]
    /\ UNCHANGED <<denominator_cache, quotient_cache, remainder_cache>>

StoreDenominator ==
    /\ Go("store denominator", [Top EXCEPT !.at = "pass"])
    /\ denominator_cache' = [denominator_cache EXCEPT ![TopFile] = Top.call.denominator]
    /\ UNCHANGED <<numerator_cache, quotient_cache, remainder_cache>>

\* divmod_s32 (numerator_s32_cache, denominator_s32_cache): the operands are
\* read back from the cache.
Pass ==
    /\ Go("pass", [Top EXCEPT !.numerator = numerator_cache[TopFile],
                              !.denominator = denominator_cache[TopFile],
                              !.at = "clear"])
    /\ UNCHANGED caches

Clear ==
    /\ Go("clear", [Top EXCEPT !.at = IF TopFile = "s32" THEN "signs" ELSE "loop"])
    /\ quotient_cache' = [quotient_cache EXCEPT ![TopFile] = 0]
    /\ remainder_cache' = [remainder_cache EXCEPT ![TopFile] = 0]
    /\ UNCHANGED <<numerator_cache, denominator_cache>>

Magnitude(x) == IF x < 0 THEN Wrapped("s32", -x) ELSE x

\* divmod_s32 only: the loop works on magnitudes.
Signs ==
    /\ Go("signs", [Top EXCEPT
            !.sign = IF (Top.numerator < 0) = (Top.denominator < 0) THEN 1 ELSE -1,
            !.numerator = Magnitude(Top.numerator),
            !.denominator = Magnitude(Top.denominator),
            !.at = "loop"])
    /\ UNCHANGED caches

\* Mutant: > for >=.
IterateGreater ==
    LET i == Top.i
        shifted == Wrapped(TopFile, 2 * remainder_cache[TopFile])
        taken == OrBit(shifted, Bit(TopFile, Top.numerator, i))
        fits == taken > Top.denominator
    IN  /\ Go("loop", [Top EXCEPT !.i = i - 1])
        /\ i >= 0
        /\ remainder_cache' = [remainder_cache EXCEPT ![TopFile] =
                IF fits THEN Wrapped(TopFile, taken - Top.denominator) ELSE taken]
        /\ quotient_cache' = [quotient_cache EXCEPT ![TopFile] =
                IF fits THEN Wrapped(TopFile, @ + PowerOfTwo[i]) ELSE @]
        /\ UNCHANGED <<numerator_cache, denominator_cache>>

\* Mutant: the counter is not decremented.
IterateStuck ==
    LET i == Top.i
        shifted == Wrapped(TopFile, 2 * remainder_cache[TopFile])
        taken == OrBit(shifted, Bit(TopFile, Top.numerator, i))
        fits == taken >= Top.denominator
    IN  /\ Go("loop", [Top EXCEPT !.i = i])
        /\ i >= 0
        /\ remainder_cache' = [remainder_cache EXCEPT ![TopFile] =
                IF fits THEN Wrapped(TopFile, taken - Top.denominator) ELSE taken]
        /\ quotient_cache' = [quotient_cache EXCEPT ![TopFile] =
                IF fits THEN Wrapped(TopFile, @ + PowerOfTwo[i]) ELSE @]
        /\ UNCHANGED <<numerator_cache, denominator_cache>>

\* One pass of the loop body, for bit i.
Iterate ==
    LET i == Top.i
        shifted == Wrapped(TopFile, 2 * remainder_cache[TopFile])
        taken == OrBit(shifted, Bit(TopFile, Top.numerator, i))
        fits == taken >= Top.denominator
    IN  /\ Go("loop", [Top EXCEPT !.i = i - 1])
        /\ i >= 0
        /\ remainder_cache' = [remainder_cache EXCEPT ![TopFile] =
                IF fits THEN Wrapped(TopFile, taken - Top.denominator) ELSE taken]
        /\ quotient_cache' = [quotient_cache EXCEPT ![TopFile] =
                IF fits THEN Wrapped(TopFile, @ + PowerOfTwo[i]) ELSE @]
        /\ UNCHANGED <<numerator_cache, denominator_cache>>

\* Mutant: the sign is forgotten.
LeaveLoopUnsigned ==
    /\ Go("loop", [Top EXCEPT !.at = "return"])
    /\ Top.i < 0
    /\ quotient_cache' = [quotient_cache EXCEPT ![TopFile] = @]
    /\ UNCHANGED <<numerator_cache, denominator_cache, remainder_cache>>

\* quotient_s32_cache = quotient_s32_cache * sign; a sign of 1 in divmod_u32
LeaveLoop ==
    /\ Go("loop", [Top EXCEPT !.at = "return"])
    /\ Top.i < 0
    /\ quotient_cache' = [quotient_cache EXCEPT ![TopFile] = Wrapped(TopFile, @ * Top.sign)]
    /\ UNCHANGED <<numerator_cache, denominator_cache, remainder_cache>>

Return ==
    /\ calls # <<>>
    /\ Top.at = "return"
    /\ answer' = <<Top.call, IF Top.call.entry \in {"__divsi3", "__udivsi3"}
                             THEN quotient_cache[TopFile] ELSE remainder_cache[TopFile]>>
    /\ calls' = SubSeq(calls, 1, Len(calls) - 1)
    /\ UNCHANGED <<caches, made, spoilt>>

\* The program has made its calls and goes on with something else.
Finished ==
    /\ calls = <<>>
    /\ made.main = Len(Program)
    /\ UNCHANGED vars

(***************************************************************************)
(* Specification.                                                          *)
(***************************************************************************)
Init ==
    /\ numerator_cache = [f \in File |-> 0]
    /\ denominator_cache = [f \in File |-> 0]
    /\ quotient_cache = [f \in File |-> 0]
    /\ remainder_cache = [f \in File |-> 0]
    /\ calls = <<>>
    /\ made = [main |-> 0, interrupts |-> 0]
    /\ spoilt = [f \in File |-> FALSE]
    /\ answer = Contract!NoAnswer

Divide == \/ Lookup \/ StoreNumerator \/ StoreDenominator \/ Pass
          \/ Clear \/ Signs \/ Iterate \/ LeaveLoop \/ Return

Next == CallByMain \/ CallByInterrupt \/ Divide \/ Finished

\* The processor goes on executing: a call in progress takes its next step
\* unless interrupts keep arriving, and the bound ends those.
Spec == Init /\ [][Next]_vars /\ WF_vars(Divide)

(***************************************************************************)
(* Properties.                                                             *)
(***************************************************************************)
TypeOK ==
    /\ \A f \in File : {numerator_cache[f], denominator_cache[f],
                        quotient_cache[f], remainder_cache[f]} \subseteq Long(f)
    /\ made.main \in 0 .. Len(Program) /\ made.interrupts \in 0 .. MaxInterrupts
    /\ Len(calls) <= MaxDepth
    /\ \A k \in DOMAIN calls :
          /\ calls[k].i \in -1 .. Width - 1
          /\ calls[k].sign \in {-1, 1}
          /\ {calls[k].numerator, calls[k].denominator} \subseteq Long(FileOf(calls[k].call.entry))

\* The shift-and-subtract loop of divmod_s32 and divmod_u32: before bit i the
\* bits above it have been divided, so that their value is the quotient so far
\* times the denominator plus a remainder smaller than the denominator.
LoopInvariant ==
    \A k \in DOMAIN calls :
        LET c == calls[k]
            f == FileOf(c.call.entry)
            done == PowerOfTwo[c.i + 1]
        IN c.at = "loop" /\ ~spoilt[f] =>
              /\ remainder_cache[f] \in 0 .. c.denominator - 1
              /\ quotient_cache[f] % done = 0
              /\ (c.numerator \div done)
                    = (quotient_cache[f] \div done) * c.denominator + remainder_cache[f]

\* The cache of a file that no call is changing belongs to the operands that
\* lie beside it: it holds their quotient, and their remainder but for its
\* sign.  So the next call may take the quotient always and the remainder when
\* the numerator is not negative (0 and 0 at the start are operands that no
\* call C defines has).
CacheCoherent ==
    \A f \in File :
        \/ spoilt[f]
        \/ denominator_cache[f] = 0
        \/ \E k \in DOMAIN calls : FileOf(calls[k].call.entry) = f /\ calls[k].at \notin {"lookup", "return"}
        \/ /\ quotient_cache[f] = Contract!Quotient(numerator_cache[f], denominator_cache[f])
           /\ remainder_cache[f]
                 = Contract!Abs(Contract!Remainder(numerator_cache[f], denominator_cache[f]))

\* Every call returns what C defines for its own operands (Divider), as long as
\* no two calls of its file have overlapped: the cached division implements a
\* plain one.  It does where SignKept holds of the calls; __modsi3 of a negative
\* number returns the remainder without its sign, see LongDivSign.cfg.
ImplementsDivider == Contract!Spec

\* Whatever interrupts it, a call comes back.
Returns == (calls # <<>>) ~> (calls = <<>>)
=============================================================================
