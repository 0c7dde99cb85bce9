------------------------------ MODULE ElfImage ------------------------------
(***************************************************************************)
(* elf2ea5.c and elf2cart.c: the .text and .data sections of a linked      *)
(* program become one image, with a record for the start-up code written   *)
(* over the ten bytes that the program reserves at "_init_data".           *)
(*                                                                         *)
(* The two programs are one source but for a header before the image (EA5) *)
(* and padding behind it (cartridge).  A file is a sequence of bytes; an   *)
(* ELF file also has its section headers and symbols in parsed form.       *)
(***************************************************************************)
EXTENDS Integers, Sequences, FiniteSetsExt, SequencesExt

CONSTANTS
    ChunkSize,     \* bytes copy_block moves at a time: 1024
    RomSize        \* bytes of a cartridge image: >2000

VARIABLES
    tool,          \* "elf2ea5" or "elf2cart"
    elf,           \* the input: [kind, bytes, sections, symbols]
    at,            \* the statement of main reached
    position,      \* bytes of the input file before the one read next
    left,          \* the local size of copy_block and of main
    init_data_addr,
    output,        \* bytes of the output file
    status         \* exit status, Running before it

imageVars == <<tool, elf, at, position, left, init_data_addr, output, status>>

Running == -1

ASSUME ElfImageAssumption ==
    ChunkSize \in Nat \ {0} /\ RomSize \in Nat

\* A word in the byte order of the target, as convert2 leaves it in the file.
Word(v) == LET w == v % 65536 IN <<w \div 256, w % 256>>

Words(values) ==
    [k \in 1 .. 2 * Len(values) |-> Word(values[(k + 1) \div 2])[IF k % 2 = 1 THEN 1 ELSE 2]]

(***************************************************************************)
(* The section headers.                                                    *)
(***************************************************************************)
None == [name |-> "", type |-> "", addr |-> 0, offset |-> 0, size |-> 0]

\* The section the scan of lines 250-284 leaves in a pointer: the last one of
\* the given indices.
LastOf(indices) == IF indices = {} THEN None ELSE elf.sections[Max(indices)]

Named(name) == LastOf({k \in DOMAIN elf.sections : elf.sections[k].name = name})
Typed(type) == LastOf({k \in DOMAIN elf.sections : elf.sections[k].type = type})

text_section == Named(".text")
data_section == Named(".data")
bss_section == Named(".bss")
symtab_section == Typed("SHT_SYMTAB")
strtab_section == Typed("SHT_STRTAB")

\* What the start-up code is told: where .data goes, where the image holds it,
\* its size, and where .bss is.
init_data ==
    LET text_end == text_section.addr + text_section.size
        moved == data_section # None /\ data_section.addr # text_end
    IN  Words((IF moved THEN <<data_section.addr, text_end, data_section.size>> ELSE <<0, 0, 0>>)
              \o <<bss_section.addr, bss_section.size>>)

\* The value of the first symbol called _init_data, 0 when there is none.  The
\* names are looked up in the last string table.
SymbolValue ==
    LET found == {k \in DOMAIN elf.symbols :
                    elf.symbols[k].name = "_init_data" /\ strtab_section.name = ".strtab"}
    IN IF symtab_section = None \/ found = {} THEN 0 ELSE elf.symbols[Min(found)].value

image_size == text_section.size + data_section.size

EaHeader == Words(<<0, image_size + 6, text_section.addr>>)

(***************************************************************************)
(* Steps.                                                                  *)
(***************************************************************************)
Exit(code) ==
    /\ status' = code
    /\ at' = "done"
    /\ UNCHANGED <<tool, elf, position, left, init_data_addr, output>>

\* fopen fails for one of the two files.
CannotOpen == at = "headers" /\ Exit(1)

\* Everything main reads before it opens the output file.
ReadHeaders ==
    /\ at = "headers"
    /\ IF \/ elf.kind # "elf32-tms9900"
          \/ text_section = None
          \/ strtab_section = None
       THEN Exit(1)
       ELSE /\ init_data_addr' = SymbolValue
            /\ output' = IF tool = "elf2ea5" THEN EaHeader ELSE <<>>
            /\ position' = text_section.offset
            /\ IF SymbolValue = 0
               THEN at' = "rest" /\ left' = text_section.size
               ELSE at' = "prefix" /\ left' = SymbolValue - text_section.addr
            /\ UNCHANGED <<tool, elf, status>>

\* fread of n bytes, which fails when the file ends before.
Readable(n) == position + n <= Len(elf.bytes)
Read(n) == SubSeq(elf.bytes, position + 1, position + n)

\* One pass of copy_block; `from` names the call.
CopyChunk(from) ==
    LET readsize == IF left < ChunkSize THEN left ELSE ChunkSize
    IN  /\ at = from
        /\ left > 0
        /\ IF Readable(readsize)
           THEN /\ output' = output \o Read(readsize)
                /\ position' = position + readsize
                /\ left' = left - readsize
                /\ UNCHANGED <<tool, elf, at, init_data_addr, status>>
           ELSE Exit(1)

\* copy_block has returned 1, which it does at once for a size below 1.
Copied(from) == at = from /\ left <= 0

\* Mutant: the ten bytes are not skipped in the input.
WriteRecordOverNothing ==
    /\ Copied("prefix")
    /\ output' = output \o init_data
    /\ IF Readable(Len(init_data))
       THEN /\ position' = position
            /\ left' = text_section.size
                         - (init_data_addr - text_section.addr + Len(init_data))
            /\ at' = "rest"
            /\ UNCHANGED <<tool, elf, init_data_addr, status>>
       ELSE /\ status' = 1
            /\ at' = "done"
            /\ UNCHANGED <<tool, elf, position, left, init_data_addr>>

\* Mutant: fseek for fread, which succeeds behind the end of the file.
WriteRecordSeeking ==
    /\ Copied("prefix")
    /\ output' = output \o init_data
    /\ position' = position + Len(init_data)
    /\ left' = text_section.size - (init_data_addr - text_section.addr + Len(init_data))
    /\ at' = "rest"
    /\ UNCHANGED <<tool, elf, init_data_addr, status>>

\* The record goes out, ten bytes of the section are skipped.
WriteRecord ==
    /\ Copied("prefix")
    /\ output' = output \o init_data
    /\ IF Readable(Len(init_data))
       THEN /\ position' = position + Len(init_data)
            /\ left' = text_section.size
                         - (init_data_addr - text_section.addr + Len(init_data))
            /\ at' = "rest"
            /\ UNCHANGED <<tool, elf, init_data_addr, status>>
       ELSE /\ status' = 1
            /\ at' = "done"
            /\ UNCHANGED <<tool, elf, position, left, init_data_addr>>

SeekData ==
    /\ Copied("rest")
    /\ position' = IF data_section = None THEN position ELSE data_section.offset
    /\ left' = data_section.size
    /\ at' = "data"
    /\ UNCHANGED <<tool, elf, init_data_addr, output, status>>

Close ==
    /\ Copied("data")
    /\ output' = IF tool = "elf2cart" /\ image_size < RomSize
                 THEN output \o [k \in 1 .. RomSize - image_size |-> 0] ELSE output
    /\ status' = 0
    /\ at' = "done"
    /\ UNCHANGED <<tool, elf, position, left, init_data_addr>>

\* `inputs` are pairs of a tool and an ELF file.
ImageInit(inputs) ==
    /\ \E input \in inputs : tool = input[1] /\ elf = input[2]
    /\ at = "headers"
    /\ position = 0 /\ left = 0 /\ init_data_addr = 0
    /\ output = <<>>
    /\ status = Running

ImageNext ==
    \/ CannotOpen \/ ReadHeaders \/ WriteRecord \/ SeekData \/ Close
    \/ \E from \in {"prefix", "rest", "data"} : CopyChunk(from)
=============================================================================
