------------------------------ MODULE StartUp ------------------------------
(***************************************************************************)
(* _start2 of examples/hello2-c/crt0.c and examples/hello-cpp/crt0.cpp:    *)
(* .data is filled from its values in the ROM, .bss is cleared, the        *)
(* constructors are called, and main is entered.  The C file moves bytes,  *)
(* the C++ file words.                                                     *)
(***************************************************************************)
EXTENDS Integers, Sequences

CONSTANT Junk      \* what memory holds before anything is written to it

VARIABLES
    mem,           \* [addresses written -> byte]
    unit,          \* bytes moved at a time: 1 (crt0.c) or 2 (crt0.cpp)
    layout,        \* the symbols of the link script, and the constructors
    reached,       \* "data", "bss", "ctors" or "main"
    src, dst,      \* the pointers of the two loops
    called         \* history: the constructors called so far

startVars == <<mem, unit, layout, reached, src, dst, called>>

Peek(memory, a) == IF a \in DOMAIN memory THEN memory[a] ELSE Junk

\* Memory with the bytes put at an address.
Put(memory, address, bytes) ==
    LET written == address .. address + Len(bytes) - 1
    IN  [a \in DOMAIN memory \union written |->
            IF a \in written THEN bytes[a - address + 1] ELSE memory[a]]

\* A word is where its address is even: the processor ignores the lowest bit.
Aligned(a) == a - (a % unit)

CopyData ==
    /\ reached = "data"
    /\ dst < layout.data_end
    /\ mem' = Put(mem, Aligned(dst), [k \in 1 .. unit |-> Peek(mem, Aligned(src) + k - 1)])
    /\ src' = src + unit
    /\ dst' = dst + unit
    /\ UNCHANGED <<unit, layout, reached, called>>

DataCopied ==
    /\ reached = "data"
    /\ dst >= layout.data_end
    /\ reached' = "bss"
    /\ dst' = layout.bss_start
    /\ UNCHANGED <<mem, unit, layout, src, called>>

\* Mutant: <= for <.
ClearBssTooFar ==
    /\ reached = "bss"
    /\ dst <= layout.bss_end
    /\ mem' = Put(mem, Aligned(dst), [k \in 1 .. unit |-> 0])
    /\ dst' = dst + unit
    /\ UNCHANGED <<unit, layout, reached, src, called>>

\* Mutant: the pointer stays.
ClearBssStuck ==
    /\ reached = "bss"
    /\ dst < layout.bss_end
    /\ mem' = Put(mem, Aligned(dst), [k \in 1 .. unit |-> 0])
    /\ dst' = dst
    /\ UNCHANGED <<unit, layout, reached, src, called>>

ClearBss ==
    /\ reached = "bss"
    /\ dst < layout.bss_end
    /\ mem' = Put(mem, Aligned(dst), [k \in 1 .. unit |-> 0])
    /\ dst' = dst + unit
    /\ UNCHANGED <<unit, layout, reached, src, called>>

BssCleared ==
    /\ reached = "bss"
    /\ dst >= layout.bss_end
    /\ reached' = "ctors"
    /\ UNCHANGED <<mem, unit, layout, src, dst, called>>

\* Only the C++ file has the loop over the constructors.
constructors == IF unit = 2 THEN layout.ctors ELSE <<>>

\* The pointers between __CTOR_START and __CTOR_END, in order.
CallConstructor ==
    /\ reached = "ctors"
    /\ Len(called) < Len(constructors)
    /\ called' = Append(called, constructors[Len(called) + 1])
    /\ UNCHANGED <<mem, unit, layout, reached, src, dst>>

CallMain ==
    /\ reached = "ctors"
    /\ Len(called) = Len(constructors)
    /\ reached' = "main"
    /\ UNCHANGED <<mem, unit, layout, src, dst, called>>

\* _start2 has just been entered.
Started ==
    /\ reached' = "data"
    /\ src' = layout.val_start
    /\ dst' = layout.data_start
    /\ UNCHANGED <<unit, layout, called>>

StartNext ==
    \/ CopyData \/ DataCopied \/ ClearBss \/ BssCleared
    \/ CallConstructor \/ CallMain
=============================================================================
