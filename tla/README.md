# TLA+ models of tms9900-gcc

The repository is a C compiler toolchain for the TMS9900, the 16-bit processor
of the TI-99/4A: patches to GCC 4.4.0 and binutils 2.19.1, tools that turn ELF
files into images the console loads, and a test harness with an emulator on
which compiled test programs run. The files here model the parts of it that
were written for this processor, check them with TLC and prove theorems about
them with TLAPS.

One idea holds the modules together: **the code of the compiler, of the
assembler and of libgcc is run, in the model, on the processor of the test
harness.** A claim about a compiler pattern or a library routine is therefore a
claim about the registers and memory it leaves behind on the emulator the
repository itself tests with.

## Inventory

| part | state | operations | what is hard | what makes it correct |
|---|---|---|---|---|
| processor emulator (`test/harness/cpu.cc`, `cpu.h`, `harness-mem.cc`) | PC, WP, ST, 64 KB of memory that also holds the registers | fetch, execute of the instructions in 6 groups, `_blwp`, `_rtwp`, X, interrupts | interrupts between any two instructions and inside X; the link of a suspended context lives in ordinary memory; flags between an instruction and its jump | contexts come back as they were, in priority order; values stay words |
| test harness (`test/harness/harness.cc`, `harness.h`) | `_runFlag`, `_testsRun`, `_testsPass`, standard output, exit status | main loop, `_xopHandler` and its four requests, `_halt` | a guest that goes astray, undefined registers at the start, the exit status of a byte | output, counters and exit status agree; every program that ends is reported |
| guest side of the tests (`test/tap.c`, `crt0.asm`) | registers | traps `test_start`, `test_execute`, `test_report`, `test_printf` | protocol with the harness | as above |
| calls (`tms9900.c`, `tms9900.h`) | stack, saved registers | argument registers, prologue, epilogue, argument pointer | sizes in bytes against counts of registers, offsets counted in two places | arguments arrive, saved registers come back |
| arithmetic patterns (`tms9900.md`) | registers | conversions, shifts, products, quotients, peepholes over casts | bytes in upper halves, counts of 0 and above 8, signs around the unsigned MPY and DIV | results of C |
| branches and comparisons (`tms9900.md`, `tms9900.c`, `final.c`) | the `cc_status` of GCC, branch lengths | compare patterns, byte peepholes, `output_branch`, `notice_update_cc_on_set` | a test left out relies on flags another instruction set; byte registers whose lower half is anything; lengths at the limits of a jump | the branch goes where the C condition says |
| assembler and relocations (`tc-tms9900.c`, `elf32-tms9900.c`) | frags, fixups | `md_assemble`, `assemble_mode`, `assemble_arg`, R_TMS9900_PC8 | operand words in order, displacement limits | the words decode to the instruction that was written |
| libgcc, 32-bit (`lib1funcs.asm`) | registers, stack | `__divsi3`, `__modsi3`, `__udivsi3`, `__umodsi3`, `__ashlsi3`, `__ashrsi3`, `__lshrsi3` | carries between words, estimate and correction of a quotient, nested calls with one return register | results of C, caller's registers kept |
| libgcc, division in C (`longdivmod.c`, `ulongdivmod.c`) | last operands and results | the same four names, with a cache | a cached answer that is stale, an interrupt that divides, extreme operands | the cache answers like a plain division |
| Tireal (`atof.c`, `ftoa.c`, `double.c`, `d_*.c`, ...) | doubles of 8 bytes, base 100; console ROM work areas | constants to and from text, comparisons; arithmetic in the ROM | odd and negative exponents, the 14 digits, negated first words | value, order and text agree |
| image makers (`elfutils/`) and start-up code (`examples/*/crt0*`) | files; memory at start | ELF to EA5 or cartridge, split in 8 KB files; copy `.data`, clear `.bss` | which string table, odd sizes, names and sizes at the 8 KB limits, failures with half an output | memory at `main` is what the ELF file says |
| disassemblers (`unasm.cc`, `tms9900-dis.c`) | text | decode | order and number of the words behind an instruction | inverse of the assembler, in step with the processor |
| rest of the back end, patched GCC passes, linker script, scripts | | | | |

Interaction: the compiler writes assembly, gas encodes it, the linker resolves
relocations and adds libgcc and the start-up code, the image makers produce a
binary, `memLoad` puts it at >6000, and the harness runs it from >6026. The
guest talks to the harness by `li r0,n; xop r0,15`; the emulator calls back
`_xopHandler`, `_interruptLevel` and `_halt`. There are no threads: the
concurrency in the system is that of devices interrupting the processor. The
class `TMS9900` has it, the harness does not use it yet: the only
`_interruptLevel` of the repository returns -1 (`harness.h:62-63`, "TODO no
interrupts for now").

## Modules

| module | models | remarks |
|---|---|---|
| `Tms9900` | the emulator | one action per group of `execute`, one per mode of the machine |
| `ContextStack` | what a context switch promises | abstract specification, from the comments and use of `_blwp`/`_rtwp` |
| `Interrupts` | processor and devices | composes `Tms9900` with a history of suspended contexts; refines `ContextStack` |
| `MCInterrupts` | a program with BLWP, X and three service routines | assembled with `Gas` |
| `Gas` | encoder of the assembler, layout, displacements | pure operators |
| `CondBranch` | one conditional branch, compiled and run | composes `Gas` and `Tms9900` |
| `MCCondBranch` | the branches and operands | |
| `Frame` | argument placement, prologue, epilogue | operators over `Gas` items |
| `Patterns` | conversions, shifts, absolute values, products and quotients of `tms9900.md` | operators over `Gas` items |
| `Lib1funcs` | one call of a routine of libgcc, of a compiled function, or of a pattern | composes `Gas`, `Frame`, `Patterns` and `Tms9900` |
| `MCLib1funcs` | the calls | |
| `Divider` | what long division promises | abstract specification |
| `LongDivMod`, `MCLongDivMod` | the cached division in C, interrupted by itself | refines `Divider` |
| `ElfImage` | `elf2ea5`, `elf2cart` | |
| `Ea5Split` | `ea5split` | |
| `StartUp` | `_start2` of the examples | |
| `Images`, `MCImages` | from the linked program to `main` | composes the three with loader and cartridge port |
| `Objdump`, `MCObjdump` | both disassemblers, and the assembler as their inverse | composes `Gas` and `Tms9900` |
| `Tireal`, `MCTireal` | constants and comparisons of doubles | |
| `Harness` | `main`, the XOP handlers, the exits | composes with `Tms9900`: replaces its XOP and its halt |
| `MCHarness` | guest programs | assembled with `Gas` |
| `Powers` | powers of two, by doubling | used by `LongDivMod` |
| `Data_proofs` | lemmas about bytes, sequences and powers of two | |
| `Tms9900_proofs`, `Interrupts_proofs`, `Harness_proofs`, `LongDivMod_proofs`, `Images_proofs`, `Tireal_proofs`, `CondBranch_proofs` | theorems | |

### The processor

`cpu` is the record of `_pc`, `_wp`, `_st` and the memory; the registers are the
sixteen words from `_wp`, as in `REGR` and `REGW`. Memory is a partial function
from even addresses to words: addresses outside it read as 0, and odd addresses
are rounded down as in `memReadW`. `mode` says where the host program is: before
`fetch`, in `execute` with the word `ir`, or behind the instruction where
`execute` asks for interrupts. `frames` counts the calls of `execute` that X has
made and that have not returned: each of them asks for interrupts too, so one
can arrive between the frames, and the model has that step. Each instruction is
one step, with the order of its reads and writes kept in the definition (operand
decoding with post-increment, then data, flags, result).

What the emulator does differently from the data sheet is modelled as the
emulator does it: AGT of ABS looks at a byte, JOP stops the machine, LIMI ors
its whole immediate into ST, SB and AB take overflow from bit 15, NEG sets the
carry for >8000 only.

### Interrupts

These modules are about the class `TMS9900` as written (`cpu.cc:997-1015`, the polls
that X adds, `_blwp` and `_rtwp`), with a subclass whose `_interruptLevel` answers as
devices would. No test program of the repository meets an interrupt.

`Levels` are the levels devices may raise; a level is taken behind any
instruction if the mask allows it, at most `MaxRaised` times in a behaviour.
`saved` is a history variable: it records the contexts suspended, while the
code only has R13 to R15 of each workspace. `ContextChain` says that the two are
the same at every moment, and the refinement `ImplementsContextStack` maps the
stack of contexts to `saved`.

### Branches

A test is a way to set the flags, a relation, whether the reversed pattern is
used or whether the jump is unconditional, a distance, additions in the code
jumped over, and two operands. The way to set the flags is a compare
pattern, a peephole that compares a byte as a word, or one of the instructions
for which `notice_update_cc_on_set` lets `final.c` leave out the test with zero.
The module contains the code each pattern emits, the length the pattern's
attribute gives it, and the jumps of `output_branch`. Byte operands sit in the
upper half of a register over an arbitrary lower half, as the comment at
`tms9900.md:353` says.

### Library, functions and patterns

The text of the routines is there instruction by instruction, as a sequence of
assembler items. The expected results are computed by the school method on
pairs of words, because TLC's integers have 32 bits.

`Frame` adds compiled functions around them: the prologue that
`tms9900_expand_prologue` emits for a set of live registers and a frame size,
the loads of the arguments from where `tms9900_function_arg` puts them (or from
the stack, at the offset of `tms9900_initial_elimination_offset`), the call of
the routine, and the epilogue. So a wrong offset shows as a wrong result, and a
register popped out of order as a caller harmed. What the code does and its
comments do not say:

* `tms9900_function_arg` adds the size in bytes to a number of registers
  (`tms9900.c:327`): an `int` is never passed in R8.
* the first paragraph of the comment `tms9900.h:295-306` no longer holds (R12 to
  R15 are preserved), and `tms9900.c:424-426` calls R14 the frame pointer, which
  is R9 in the code.

`Patterns` has, for each pattern, the instructions it emits for one choice of
registers, with bytes in upper halves over arbitrary lower ones; the shift
peepholes of casts are included. A call of a pattern is one run of its code.

### Division in C

A step of `LongDivMod` is a statement of `longdivmod.c` or one iteration of its
loop, in a call of the program or in one an interrupt routine makes between any
two steps. `ulongdivmod.c` is the same text over other variables and one type,
so `File` selects. The history `spoilt` records that two calls of a file have
overlapped. The abstract `Divider` promises what C defines for every call
of a file where that has never happened, so the specification states both what
the cache must keep and what no caller may rely on. What an overlapped call returns is
outside the contract, not prevented by the code. So are the most negative long,
whose magnitude is not a long, and denominator 0.

The sign of a remainder is inside the contract, and `__modsi3` of `longdivmod.c` does
not keep it: it gives the remainder of the magnitudes (-7 % 2 is 1, in C -1), where
`test/test_mod.c` asks for the sign of the dividend. The change log of the repository's README, 1.33
and 1.35, fixes the sign in the assembler routine of the same name, which
`t-tms9900` also builds. So the run `longdiv` asks `__modsi3` of no
negative numerator (`SignKept`), and `longdiv_sign` does. `CacheCoherent` says of the cached
remainder that its magnitude is right, and holds for both.

### Images

`ElfImage` has the tools statement group by statement group: what is read, each
chunk copied, what is written before an error exits. An ELF file is a record
of its bytes, section headers and symbols. `Images` runs the tools in a row,
loads the files or plugs the cartridge in, lets a start-up that follows the
record (external: libti99) or `_start2` copy and clear, and asks at `main`
whether each byte is where it was linked (`ProgramReady`). A chain ends at
`main`, refused with a message by a tool, crashed (`ea5split`), or with a piece the loader
does not find; `Ends` allows the first two. Met on the way, and
modelled as the code has them:

* `elf2ea5.c:377` writes the size of header and image into the EA5 header,
  `ea5split.c:71` the size of the data alone. The loader is modelled to take
  the size of the data it finds.
* `ea5split.c:36` looks at the end address only: a program that starts below the gap
  of the RAM and ends above it is split, into the gap. No input of the run does
  that, so `PiecesLoadable` holds there; the theorems `PiecesCorrect` and `SpanningIsSplit` say
  for which programs it holds and for which not.
* `ea5split.c:57` takes the length of the extension before it knows there is one (`SplitCrash`);
  `Ends` is about names that have one. The same allocation has no room for the NUL, nor for the
  digit a name may grow by (undefined, not modelled). A name that begins with
  `.`, whose last character is read in front of it, is excluded by `ImagesAssumption`.
* The last string table counts (`elf2ea5.c:268`). The ELF files of the run have their sections in the order
  of the linker, with which this is right.
* `objcopy` (external) is taken to put the bytes of `.data` behind `.text`, where `_start2` copies
  them from, although `linkfile` gives `.data` no load address of its own.
* `elf2cart` accepts more than 8 KB (the test Makefile has a TODO) and both tools only
  warn of a missing `_init_data`: `ProgramReady` promises nothing for such programs when
  they need what is missing (`Prepared`), so a record the tools overlook is not caught. Results of `fwrite` are not looked at.
* `crt0.cpp` copies words; the link script's alignment of `.bss` makes that right.

### Disassemblers

`Objdump` decodes any word with two that follow, by the tables of
`tms9900-dis.c`, assembles the line again by the table and modes of gas, prints the
trace line of `preExec`, and executes the instruction. Left out, with their
reasons in the module: names between 0340 and 03FF, which the
table has a row early (`tms9900-dis.c:255`; `Misnamed`), CRU displacements below
0, which `md_assemble` ors into the whole opcode (`tc-tms9900.c:1012-1017`), and register bits of LWPI and
LIMI that no assembler writes. C++ leaves the order of the two operands of
`unasm.cc:158` open, since both advance the address: the model has both orders, and
`SameInstruction` accepts a trace in which they are exchanged. Sections always have the
two words an instruction may need, so the paths of `print_insn_tms9900` for a `fetch_data` that fails
(`tms9900-dis.c:71,175,200`) are not modelled.

### Tireal

A constant is its digits before and after the point, the sign and the digits of
the exponent, as `decimal128ToString` writes it; a double is its eight bytes.
The value of both is a normal form of sign, digits and position of the point,
and the properties compare those: the model has no arithmetic of
its own that could repeat a mistake of the code. `Reread` is what GCC does when
it folds a constant: text of a double, and a double of that text. GCC's own
`decimal_real_from_string` and `decimal128ToString` are between the two, and taken to leave a
printable text as it is. Known not to
work, so not run and excluded from the theorems by the conditions named here: an
exponent with a plus sign or behind digits that fill `v`, which is read as 0
(`Readable`); more digits before the point than `v` has room for, which are not
counted (`PointSeen`); -0, which becomes FF 00
(`NotMinusZero`); the order of two negative doubles (`Pairs`), which the theorem
`NegativesReversed` proves to be reversed; and the text of doubles with exponents of two digits or of zero
(`Printable`).

### Harness

The five host variables are those of the class and the process. The exit status
is cut to a byte, as the parent of a process sees it; `OutcomeRight` has the same cut, so it
does not object that 256 failures look like none. `HarnessInit` leaves the
workspace pointer and the status open: `branch` sets the program counter only.

## Runs

| run | question | states |
|---|---|---|
| `interrupts` | Do contexts nest by priority, come back intact, keep the main program's results, whatever arrives when? Does the program keep the rules (`RulesKept`) the theorems ask of it? Does the processor implement `ContextStack`? Does the program finish? | 265,545 |
| `branch` | Does every conditional branch go where C says, for every pattern, form, and removed test? Does the right value remain? Does it link and arrive? | 124,778 |
| `lib1` | Do routines, functions and patterns return the result of C, keep the caller's state, and return? | 124,031 |
| `harness` | Do counters, output and exit status agree for every kind of ending? Does the process exit? | 12,308 |
| `longdiv` | Does the cached division implement C's (`Divider`), does its loop keep its invariant, is the cache coherent whenever it may be hit, does every call return? | 152,567 |
| `images` | Does every program find its bytes at `main`, is every piece loadable, does the start-up write only where it may, does every program get to `main` or a message? | 19,448 |
| `decode` | Does objdump's line assemble to the same words, does the trace name the same instruction, do all count the same bytes as the processor? | 262,208 |
| `tireal` | Do doubles have the value, order and text of the constants, however often they are read and written? | 228,579 |
| `branch_flags`, `branch_reach`, `lib1_defects`, `longdiv_sign` | the findings below; each violates one property | |

Bounds, and why they are enough:

* `MaxRaised = 3` with levels 1 to 3: the deepest nesting of three routines
  happens, and so do a repeated level and the mask of a resumed routine. A
  fourth interrupt can only repeat one of these situations.
* `MaxX = 1`: one frame of X with interrupts in and behind it. X of X repeats it.
* Operands of branches: 0, 1, 7FFF, 8000, FFFF and bytes 0, 1, 7F, 80, FF over
  lower halves that are 0, FF and in between: every combination of
  the flags a comparison can give. Distances: both sides of -252 and 256; three
  additions in the code jumped over make six bytes of difference, more than the
  slack of any form.
* Operands of divisions: one and two words, the sign bits, equal operands,
  numerators below the denominator, carries; shift counts 0, 1, 8, 15, 16, 17,
  31. The passing run leaves out the operands that meet a known defect; they
  are named in `MCLib1funcs` (`Negates`, `Unspoilt`, `RightShifts`,
  `KeepsSign`, `WholeByte`, `SameAsUnsigned`), and `lib1_defects` has a call for each.
* Functions: none to all of the saved registers, frames of 0, 2 and 6 bytes,
  with and without frame pointer, arguments before the operands that leave
  these in registers, on the stack, or one in each. Patterns: ten words at the
  ends of their ranges, seven bytes over unrelated halves, all counts to 15 (of `ashift_hi_to_qi`, to 7:
  it adds 8 to the count, and the machine has no shift by more than 15).
* Guest programs: no test, passing, failing and mixed ones, 257 failures, a
  `passed` that is negative, four endings, two initial register states.
* Longs of four bits: every bit is first, middle, last or sign bit. One
  interrupting call (two calls at a time: more only repeat `spoilt`), two calls
  of the program, the second equal to, sharing one operand with, or different
  from the first.
* Images: addresses and file limit are divided by 256 (32 bytes for 8 KB),
  headers keep their size, chunks are 8 bytes for 1024. Sizes lie on both sides
  of one and two files, odd and even, with and without each section.
* Decoding: all 65,536 first words; the next two differ, so that their order shows.
* Constants: digits on both sides of the point with and without zeros in
  front, exponents of one and two digits, 14 and 17 digits with the point at
  several places, all pairs but two negative ones. `MCTirealAssumption` lets TLC
  check that no pair of the passing run meets one of the known defects (`Pairs`),
  which is what the theorems assume.

Deadlock is checked in every run whose system goes on; the processes that
end have a step of their own for having ended, except where the cfg says
otherwise.

Fairness: `main` calls `fetch` and `execute` in a loop until the process exits,
so a step that can be taken is taken in the end. It is written
`[]<>(mode = "halted") \/ []<><<Next>>_vars`, weak fairness of `Next` with its
enabling condition written out, because TLC cannot afford to evaluate the
enabledness of a whole instruction in every state. `LongDivMod` has
`WF_vars(Divide)`: a call in progress goes on, since the processor runs and the
interrupts are bounded; the program need not make its calls. `Images` has
`WF_vars(Work)`: tools and loops that can go on do. `Objdump` and `Tireal` need
no fairness, they state safety only. Nothing is assumed about the devices, except
that they raise finitely many interrupts in a bounded behaviour.

## Findings

* `branch_flags`: flags that describe another value after byte `xor`, `not`,
  `abs`, truncation, and word `abs`, while the test is left out.
* `branch_reach`: the short form of a two-jump branch at a forward distance of
  254 does not link. Nor does any branch or jump near its limit over `ai`, or over
  `inc` and `dec` of memory: `addhi3` says they take two bytes, they take four
  (TLC stops at the first kind; each test of `TestsAtTheLimit` violates
  `Linkable` by itself).
* `lib1_defects`: eight calls, each of which violates `ResultRight` by itself (TLC
  stops at the first; `-continue` shows them all). Library and emulator
  disagree on the carry of `neg`, so operands or results with a zero lower word
  are negated wrong; halving a two-word numerator takes the carry of the wrong
  word; an unsigned remainder above >7FFFFFFF is taken for negative; both right
  shifts by 1 to 15 shift in bits of the wrong word; `(int)c << n` of a
  negative `char` loses its sign; the signed product `mulhisi3` is the unsigned
  one; `absqi2` takes the absolute value of the whole word.
* `longdiv_sign`: `__modsi3` of `longdivmod.c` returns the remainder of the magnitudes,
  `__modsi3(-7, 2)` is 1.

Two more are theorems and not runs: two negative doubles are ordered by their
magnitudes (`NegativesReversed`, against `d_compare.c:5`), and `ea5split` splits
every program that spans the gap of the RAM (`SpanningIsSplit`).

## Proofs

TLC looks at particular programs; the theorems hold for every value of the
constants. Each proof module extends the module it is about.

`Tms9900_proofs` (any program: `Boot` is any set of machines whose parts are
words, `Levels` any subset of 0 to 15, `MaxX` any number; these are
`BootAssumption` and `BoundAssumption`):

* `TypeCorrect`: `Spec => []TypeOK`. `TypeOK` is inductive. The lemmas go from
  words (`Wrap`, bits, bytes) over memory (`ReadWord`, `WriteWord`, `WriteByte`)
  and flags to one lemma for each instruction group; the work is in shifts, MPY
  and DIV, where the results must be shown to fit.
* `RtwpUndoesBlwp`: RTWP after a context switch restores the context, wherever
  vector and workspace lie, because the three words of the link have different
  addresses even when the workspace is odd or wraps around memory.
* `InterruptsOnlyMoreUrgent`: an interrupt is taken only if the mask lets its
  level in and leaves a lower mask.

`Interrupts_proofs` (as above, any program and any number of interrupts, under
`0 \notin Levels /\ RulesKept`):

* `ChainCorrect`: `[]ContextChain`. `PriorityCorrect`: `[]PriorityOrder`.
  `Implements`: the processor implements `ContextStack`.
* `RulesKept` is what a program has to keep, and is a premise of the theorems
  because the code of the emulator cannot provide it: while contexts are suspended,
  no step overwrites one of their links (R13 to R15 of the workspaces that were entered)
  and no ordinary instruction moves the workspace, and while a service routine is active
  none raises the mask. It is itself a property that the run `interrupts` checks for its program.
* The inductive invariant `IntInv` joins the types of machine and history with `ContextChain`
  and with `MasksNested`: masks fall from each context to the one that interrupted it.
  Without the types a context that is pushed need not be one that RTWP can bring back, and
  `PriorityOrder` alone does not say what the mask will be when a routine returns.
  The lemma `BlwpLinks` says what BLWP leaves in the new workspace.

`Harness_proofs`:

* `HarnessTypeCorrect`: `HarnessSpec => []HarnessTypeOK`, which contains that
  passes never exceed tests run, so `failCount` is not negative.
* `OutputCorrect`: `HarnessSpec => []OutputAgrees`. Inductive together with
  `HarnessTypeOK`; the lemmas say what appending a line does to the set of
  printed lines of each kind and to its cardinality.

`LongDivMod_proofs` (longs of any width, any program of calls within the
contract `LegalCall`, any number of interrupting calls, one at a time;
`LongDivModAssumption`, `CallsAssumption`):

* `TypeCorrect`: `[]TypeOK`; `LoopCorrect`: `[]LoopInvariant`: after each
  iteration the bits done are quotient times denominator plus remainder.
  The step rests on the powers of two (`Powers`, `Data_proofs`): shifting one
  bit of the numerator into the remainder keeps the sum, and the remainder
  stays below the denominator, so nothing overflows before the last bit.
* `CacheCorrect`: `[]CacheCoherent`, and `Implements`: `SignKept(Called) /\ Spec =>
  ImplementsDivider`, for programs that ask the signed modulus of no negative
  numerator. The invariant `Inv` joins type, loop and cache
  with a fact about the history: whenever two calls of one file are open,
  `spoilt` says so. Without it a return could write results of one call under
  operands of another, and nothing would be inductive. `RemainderIs` relates what the
  loop leaves to C's remainder.

`Images_proofs` (programs, chunks and files of any size, pieces of any number
and name; `ElfImageAssumption`, `Ea5SplitAssumption`, `ImagesAssumption`):

* `PiecesCorrect`: `Spec /\ Linked /\ StartsInRam /\ ~SpansGap => []PiecesLoadable`.
  `Linked` is what the linker makes of a program (sections have addresses,
  offsets and sizes, the ten bytes of the record lie in `.text`); `StartsInRam` and `~SpansGap`
  are what `ea5split` does not look at: that an EA5 program starts in the
  expansion RAM and does not reach over the gap in it. All three hold in every state of the run.
* `SpanningIsSplit`: `Spec /\ Linked /\ SpansGap => []GapOverlooked`: the condition on the gap is not
  there for the proof's sake. Each byte of an image is in some piece (`PieceOf`), so
  one piece is for the first address of the gap, and the loader will read it.
* `ImageInv` says, for each call of `copy_block`, where the input is read, how
  much is left and that every byte written so far is the right one.
  `ChainInv` adds that `ea5split` has written pieces 0 to `i - 1` in full,
  each under its own name, that `offset` and `load_address` are those of
  piece `i`, and that the loader only asks for names that were
  written. `PieceBounds` is the arithmetic: the pieces cover the image
  without gap or overlap, and the last one is neither empty nor too long.

Of the start-up code (the same programs, and any examples):

* `ProgramIsReady`: `Spec /\ Linked /\ LaidOut => []ProgramReady`;
  `StartUpStaysInside`: `Spec /\ Linked /\ LaidOut => StartUpStays`. `LaidOut` says
  that the sections are apart and inside the address space, that a cartridge is
  linked for the address it appears at, and of the examples that their files are complete, that neither
  `.data` nor `.bss`, with the byte that makes its end even, reaches into ROM or
  into `.data`, and that the word version has both at even addresses, as the link files have it.
  `LaidOut` and the invariant `ReadyInv` hold in every state of the run `images` too.
* `ReadyInv` follows the image on the two ways into memory. `Loaded`: when the
  loader asks for piece `k`, the bytes of all pieces before it are in place; at the start-up
  code the whole image is, and with it the record, whose words `FieldsRead` shows to be
  the addresses and sizes of the sections. `Starting`: `src` and `dst` of `_start2` keep
  step, both are multiples of the unit, everything below `dst` is done, and the
  values of `.data` in ROM are still what they were: without that last part the
  copy loop proves nothing about its next byte. `FollowRecordStep` needs the sections apart because `.bss` is
  cleared after `.data` is copied.

* `BytesInSpace`: `Spec /\ Linked /\ LaidOut /\ InSpace => []TypeOK`: whatever the
  programs write is bytes, memory is written inside the address space only, no tool
  reads past the end of the ELF file, and no constructor is called that does not
  exist. `InSpace` says what neither tools nor start-up look at: the
  sections, rounded up to words, end inside the address space, for the image with six bytes to spare
  (the loader takes as many bytes as the header says, which is six more than there are), the
  record of a cartridge lies in the part that is visible, and the
  headers point into the file. The invariant `SpaceInv` needs the contents of the record
  as soon as the program is in memory, whether or not it is `Prepared`: its words
  are the addresses the start-up writes to.

`Tireal_proofs` (constants of any number of digits in the range of the format, and
any texts and pairs of them; `TirealAssumption`, and of pairs `Pairs`):

* `DoublesAreBytes` (`TypeOK`), `ConstantsEncoded` (`EncodesValue`), `ConstantsKept`
  (`NoDrift`), `PrintedRight` (`PrintsValue`), `ConstantsOrdered` (`OrderRight`),
  and `NegativesReversed`: of two negative constants the order of their values comes out exchanged.
* The invariant `TirealInv` says of every double of the compiler that it is one that
  `tireal_atof` can write (a zero, or seven digits to the base 100, the first not 0, behind an exponent in
  range), that a printable one is still the double of its source, and that the answers of the
  comparison are about the doubles as they are now. The first is
  what makes `tireal_ftoa` well defined, so nothing else is inductive without it.
* Argument: `AtofIs` says what `tireal_atof` stores for any text; `DoubleValueIs`, `TextOfDouble` and
  `EncodedValue` give the value of a double and of its text as digits at a position;
  `RereadDouble` puts these together: printing fills the digits exactly and reading puts them where they
  came from, for odd and even exponents. `LowerLess` and `ComparedRight` show that the order of
  doubles as eight bytes, first word signed, is that of the values.

`CondBranch_proofs` (any tests: any instruction before the branch, relation,
distance, additions and operands; `TestsAssumption`):

* `BranchesLink`: `BranchSpec /\ (\A t \in Tests : Fits(t)) => []Linkable`, and
  `OthersDoNotLink`: where no test fits, none links, so `Fits` is the exact
  condition. It compares `Miscounted`, the bytes that the length attributes
  do not count (for a branch of two jumps also the second jump), with `Room`, what
  the distance leaves of a jump's reach. The run `branch` checks that its tests fit and that the
  tests at the limit do not (`MCCondBranchAssumption`).
* Argument: `LayoutIs` gives the address of every item of a program, and `BothLaidOut`,
  `LabelOfBoth` and `JumpsOfBoth` those of two programs one behind the other;
  `CodeOfSize` says that code is never shorter than counted, and `WhichFit` adds up
  the code before and behind the branch, item by item.
* `ComparisonsDecide`: behind the instruction of any compare pattern or peephole, in
  any state of the processor, the first jump that is taken goes to the target if and only if the
  C condition holds. The three flags are a number from 0 to 7; the comparison makes
  it one of the three that mean less, equal and greater, signed and unsigned, each jump is taken
  for a set of these numbers, and the tables of patterns are right (`Right`) when the
  jumps together are taken for those where the condition holds. `PeepholeRight` is the reason
  why a byte can be compared as a word: the constant is rounded up for `gt` and `le` and
  down for the others. The parity flag, which MOVB and CB change too, is below
  the three and no jump in use reads it.
* `ComparisonsBranch` and `ComparisonsKeepValue`: `BranchSpec => [](Placed(test) /\
  Fits(test) /\ Compiled(test) => TakenIffHolds)`, and the same for `ValueRight`: whole
  runs, from the code in memory. `Compiled` are the comparisons, with the
  relations the compiler pairs them with; `Placed` says that the code lies in whole words
  between `CodeBase` and the registers and that the distance has room for what it spans. All
  tests of the run are `Placed` (`MCCondBranchAssumption`).
* Argument: an item becomes the words of `Emit`, no two items share an address
  (`Evens`, `Place`), so each word of an item is in memory where the layout
  puts it. The tables of opcodes share no code, so `Op` of an assembled
  word gives the instruction back, and the displacement of a jump leads to the item it was
  assembled for. The inductive invariant `Underway` says that the processor is `OnTheWay`: at the compare
  instruction with its operands loaded, at an item of the branch before which
  no jump was taken, with flags under which the branch still decides as the C condition does, or
  at the way out it decides for; or between the fetch and the execution of an
  instruction of these places (`OneStep`). Without what it says of the flags a
  jump could go either way; that no jump, `b` or compare instruction
  writes R1 or the code is part of it (`Loaded`).
* The first attempt at this proof showed that two definitions of the model had cases
  that overlap, of which TLA+ does not say which one counts; they now say it.

`Data_proofs` has the lemmas about bytes, sequences and powers of two that these
share. The folds and recursive functions of the models are not evaluated in
proofs, but for the powers of two: facts for every exponent are proved by
taking the least number for which they fail, which needs no induction theorem.

Model-checked only:

* the values that code leaves behind: `Lib1funcs`, `MainUnharmed` and
  `OutcomeRight` quantify over programs that run for dozens of steps, each step a
  whole instruction, and `Objdump` over tables of text; a proof would repeat the runs
  case by case;
* of `CondBranch`, the tests that are left out (`notice_update_cc_on_set`):
  after the instructions that set the flags as a side effect, `TakenIffHolds` and
  `ValueRight` are only run. Each of these patterns needs its own argument
  about what its flags say, and the theorems are about those that compare;
* all liveness, which the prover cannot handle.

## Plan

1. Done: all modules above; proofs of type correctness, of the output, of
   contexts and priorities, of the cached division, of the pieces, of the
   program that `main` finds, of the constants of Tireal, and of the reach of branches and
   of whole runs of those that compare.
2. `CondBranch`: the flags of the instructions whose test is left out, against
   the value they leave; `Underway` would then hold for every test.
3. `Gas` and `Objdump`: what is assembled decodes to the same instruction, for
   more than the instructions of a branch.

## Not modelled

The repository contains GCC 4.4.0 and binutils 2.19.1 sources, most of them
twice (patched and original): more than nine tenths of its lines are other
people's programs, which differ from the originals in a few patched lines. No model of the parts
written for the TMS9900 can cover a large share of those lines.

Of the parts written for this processor:

* the bit counting routines, `__divmodsi3` and `__udivmodsi3` of
  `lib1funcs.asm`, which `t-tms9900` does not build;
* in `tms9900.md`: `divmodqi4`, whose operands of a conversion are exchanged
  (line 2689), `truncsiqi2`, `*lshiftrt_qi_to_hi` (no insn matches it), moves of longs,
  operands in memory, and the byte offsets of subregs; counts above 15 are
  undefined in C. Of the `length` attributes, those of the branches, the jump and
  three alternatives of `addhi3` are modelled;
* `alloca`, variable arguments, register classes, addresses and costs;
* the text parser, directives and line hook of gas;
* the ROM arithmetic of Tireal, which is not in the repository;
* the formatting of output and of disassembly, the comments and coverage marks
  of the trace, the expression parser `parse.cc`, which the harness does not call;
* the linker script of binutils and the packaging scripts.

Interrupt level 0 is in `Tms9900` but raised in no run: it is reset and has no routine that returns.
