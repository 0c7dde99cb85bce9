------------------------------- MODULE Images -------------------------------
(***************************************************************************)
(* From a linked program to main(): the image makers, the loader and the   *)
(* start-up code, one after the other.                                     *)
(*                                                                         *)
(*   elf2ea5 -> ea5split -> EA5 loader -> start-up by the record -> main   *)
(*   elf2cart -> cartridge ROM         -> start-up by the record -> main   *)
(*   (objcopy) -> cartridge ROM        -> _start2 of the examples -> main  *)
(*                                                                         *)
(* The loader of the Editor/Assembler, the cartridge port, objcopy and the *)
(* start-up code that reads the record (libti99) are not in the repository *)
(* and modelled from how the programs of the repository use them.          *)
(***************************************************************************)
EXTENDS ElfImage, Ea5Split, StartUp

CONSTANTS
    RomStart,      \* >6000, where a cartridge appears
    Inputs,        \* pairs of an image maker and an ELF file
    Examples,      \* programs for objcopy and _start2: [elf, unit, ctors]
    Argument       \* the names given to ea5split: [name, extension]

VARIABLES
    stage,         \* the program that runs now
    loading        \* the name of the file the loader reads next

vars == <<imageVars, splitVars, startVars, stage, loading>>

ASSUME ImagesAssumption ==
    /\ RomStart \in Nat
    /\ Junk \in 0 .. 255
    /\ \A input \in Inputs : input[1] \in {"elf2ea5", "elf2cart"}
    /\ \A given \in Argument : given.name \in Seq(1 .. 127) \ {<<>>}
    /\ \A example \in Examples : example.unit \in {1, 2} /\ example.ctors \in Seq(STRING)

Address == 0 .. AddressEnd - 1

SectionBytes(section) == SubSeq(elf.bytes, section.offset + 1, section.offset + section.size)

Even(a) == a + (a % 2)

(***************************************************************************)
(* The image makers.                                                       *)
(***************************************************************************)
Convert ==
    /\ stage = "convert"
    /\ ImageNext
    /\ stage' = IF status' = Running THEN "convert"
                ELSE IF status' # 0 THEN "refused"
                ELSE IF tool = "elf2ea5" THEN "split" ELSE "plug"
    /\ disk' = IF stage' = "split" THEN [n \in {argument.name} |-> output'] ELSE disk
    /\ UNCHANGED <<splitting, argument, name, i, offset, load_address, startVars, loading>>

Split ==
    /\ stage = "split"
    /\ SplitNext(output)
    /\ stage' = CASE splitting' = "done" -> "load"
                  [] splitting' \in {"refused", "crashed"} -> splitting'
                  [] OTHER -> "split"
    /\ loading' = IF splitting' = "pieces" /\ splitting = "no" THEN name' ELSE loading
    /\ UNCHANGED <<imageVars, startVars>>

(***************************************************************************)
(* The console (external).                                                 *)
(***************************************************************************)
\* The loader moves as many bytes as the header says to where it says, and
\* goes on with the name that follows while the flag is not 0.  The file of
\* elf2ea5 says six more than it has: what follows in the loader's buffer.
Load ==
    /\ stage = "load"
    /\ IF loading \notin DOMAIN disk
       THEN stage' = "not found" /\ UNCHANGED <<mem, loading>>
       ELSE LET file == disk[loading]
                size == WordAt(file, 3)
                content == SubSeq(file, HeaderSize + 1, Len(file))
                tail == [k \in 1 .. size - Len(content) |-> Junk]
            IN  /\ mem' = Put(mem, WordAt(file, 5), SubSeq(content \o tail, 1, size))
                /\ stage' = IF WordAt(file, 1) = 0 THEN "record" ELSE "load"
                /\ loading' = [loading EXCEPT ![Len(loading)] = @ + 1]
    /\ UNCHANGED <<imageVars, splitVars, unit, layout, reached, src, dst, called>>

\* The cartridge port shows the first bytes of the image.
Plug ==
    /\ stage = "plug"
    /\ mem' = Put(mem, RomStart, SubSeq(output, 1, RomSize))
    /\ stage' = "record"
    /\ UNCHANGED <<imageVars, splitVars, unit, layout, reached, src, dst, called, loading>>

\* Start-up code of libti99: .data is copied when the record gives it a size,
\* .bss is cleared.
FollowRecord ==
    LET Field(k) == Peek(mem, init_data_addr + 2 * k) * 256 + Peek(mem, init_data_addr + 2 * k + 1)
        data == [k \in 1 .. Field(2) |-> Peek(mem, Field(1) + k - 1)]
        bss == [k \in 1 .. Field(4) |-> 0]
    IN  /\ stage = "record"
        /\ init_data_addr # 0
        /\ mem' = Put(Put(mem, Field(0), data), Field(3), bss)
        /\ reached' = "main"
        /\ stage' = "main"
        /\ UNCHANGED <<imageVars, splitVars, unit, layout, src, dst, called, loading>>

\* A program without a record has start-up code that needs none.
FollowNothing ==
    /\ stage = "record"
    /\ init_data_addr = 0
    /\ reached' = "main"
    /\ stage' = "main"
    /\ UNCHANGED <<imageVars, splitVars, mem, unit, layout, src, dst, called, loading>>

(***************************************************************************)
(* The examples.                                                           *)
(***************************************************************************)
\* The symbols of examples/*/linkfile.
LinkSymbols(ctors) ==
    [val_start |-> Even(text_section.addr + text_section.size),
     data_start |-> data_section.addr, data_end |-> data_section.addr + data_section.size,
     bss_start |-> bss_section.addr, bss_end |-> bss_section.addr + bss_section.size,
     ctors |-> ctors]

\* _start sets up workspace and stack and branches to _start2.
Start ==
    /\ stage = "start"
    /\ Started
    /\ stage' = "_start2"
    /\ UNCHANGED <<imageVars, splitVars, mem, loading>>

StartUpStep ==
    /\ stage = "_start2"
    /\ StartNext
    /\ stage' = IF reached' = "main" THEN "main" ELSE "_start2"
    /\ UNCHANGED <<imageVars, splitVars, loading>>

(***************************************************************************)
(* Specification.                                                          *)
(***************************************************************************)
Blank == <<>>

InitSplit ==
    /\ splitting = "no"
    /\ argument \in Argument
    /\ name = argument.name
    /\ i = 0 /\ offset = 0 /\ load_address = 0
    /\ disk = <<>>
    /\ loading = argument.name

InitConvert ==
    /\ ImageInit(Inputs)
    /\ InitSplit
    /\ stage = "convert"
    /\ mem = Blank
    /\ unit = 1 /\ layout = <<>>

\* objcopy (external) puts the bytes of .data behind .text, where crt0 looks
\* for them: examples/*/linkfile gives .data no load address of its own.
InitExample ==
    \E example \in Examples :
        /\ ImageInit({<<"objcopy", example.elf>>})
        /\ InitSplit /\ argument.extension
        /\ stage = "start"
        /\ unit = example.unit
        /\ layout = LinkSymbols(example.ctors)
        /\ mem = Put(Put(Blank, text_section.addr, SectionBytes(text_section)),
                     layout.val_start, SectionBytes(data_section))

Init ==
    /\ InitConvert \/ InitExample
    /\ reached = "reset" /\ src = 0 /\ dst = 0 /\ called = <<>>

Ended == stage \in {"main", "refused", "crashed", "not found"} /\ UNCHANGED vars

Work == Convert \/ Split \/ Load \/ Plug \/ FollowRecord \/ FollowNothing \/ Start \/ StartUpStep

Next == Work \/ Ended

\* Each program runs to its end; nothing in the chain waits for anything else.
Spec == Init /\ [][Next]_vars /\ WF_vars(Work)

(***************************************************************************)
(* Properties.                                                             *)
(***************************************************************************)
TypeOK ==
    /\ DOMAIN mem \subseteq Address /\ \A a \in DOMAIN mem : mem[a] \in 0 .. 255
    /\ \A k \in DOMAIN output : output[k] \in 0 .. 255
    /\ position \in 0 .. Len(elf.bytes)
    /\ status \in {Running, 0, 1}
    /\ \A n \in DOMAIN disk : \A k \in DOMAIN disk[n] : disk[n][k] \in 0 .. 255
    /\ Len(called) <= Len(constructors)

Extent(section) == section.addr .. section.addr + section.size - 1

\* The ten bytes of the record, which differ from the file.
RecordBytes == IF init_data_addr = 0 THEN {} ELSE init_data_addr .. init_data_addr + 9

InPlace(section, except) ==
    \A a \in Extent(section) \ except : Peek(mem, a) = elf.bytes[section.offset + 1 + a - section.addr]

\* What the doc comments and the Makefile of the tests ask of a program: room
\* for the record if it has anything to initialise, and at most one cartridge.
Prepared ==
    /\ tool \in {"elf2ea5", "elf2cart"} /\ init_data_addr = 0 =>
          bss_section.size = 0 /\ data_section.addr \in {0, text_section.addr + text_section.size}
    /\ tool = "elf2cart" => image_size <= RomSize

\* main() - and before it any constructor - finds every byte of .text and .data
\* where it was linked, .bss clear, and the constructors run once, in order:
\* through chunks, pieces, loader and start-up no byte is lost or misplaced,
\* whatever the sizes are, and no tool has passed over a short input file.
ProgramReady ==
    /\ (stage = "main" \/ reached = "ctors") /\ Prepared =>
          /\ InPlace(text_section, RecordBytes)
          /\ InPlace(data_section, {})
          /\ \A a \in Extent(bss_section) : Peek(mem, a) = 0
    /\ stage = "main" /\ tool = "objcopy" => called = constructors

\* Every file the loader reads is as short as it needs, and each piece of a
\* program that ea5split has split goes to expansion RAM.  This holds of the
\* programs that start there and do not reach over the gap in it; ea5split.c:36
\* looks at the last address alone and splits one that does.
PiecesLoadable ==
    stage = "load" /\ loading \in DOMAIN disk =>
        LET file == disk[loading]
        IN  /\ Len(file) <= FileLimit
            /\ i > 0 => \A a \in WordAt(file, 5) .. WordAt(file, 5) + WordAt(file, 3) - 1 :
                            a \in Address /\ (a < LowRamEnd \/ a >= HighRamStart)

\* _start2 changes nothing but .data and .bss, and in the C++ file the byte
\* that follows one of odd size.
StartUpStays ==
    [][stage = "_start2" =>
          \A a \in DOMAIN mem' : mem'[a] # Peek(mem, a) =>
              \/ a \in layout.data_start .. Even(layout.data_end) - 1
              \/ a \in layout.bss_start .. Even(layout.bss_end) - 1]_vars

\* Every program gets to main or is refused with a message by one of the
\* tools: the loader finds each piece under the name it looks for, and no loop
\* goes on for ever.  A name without extension is left out, for which ea5split
\* takes the length of a null pointer (ea5split.c:57, the stage "crashed").
Ends == argument.extension => <>(stage \in {"main", "refused"})
=============================================================================
