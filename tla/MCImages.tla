------------------------------ MODULE MCImages ------------------------------
(***************************************************************************)
(* Programs for a console whose addresses are 256 times smaller: 256 bytes *)
(* of address space, RAM at 32-63 and 160-255, the cartridge port at       *)
(* 96-127, files of up to 32 bytes.  Headers and records keep their size.  *)
(***************************************************************************)
EXTENDS Images

Section(label, type, addr, start, size) ==
    [name |-> label, type |-> type, addr |-> addr, offset |-> start, size |-> size]

At(addr, size) == [addr |-> addr, size |-> size]

\* As tms9900-ld lays a file out.  A size of -1 is a section that is not there,
\* a record of -1 a program without symbols; `lost` bytes are missing at the end.
Elf(text, record, data, bss, lost) ==
    LET dataSize == IF data.size < 0 THEN 0 ELSE data.size
        all == [k \in 1 .. text.size |-> k] \o [k \in 1 .. dataSize |-> 128 + k]
        Present(section) == IF section.size < 0 THEN <<>> ELSE <<section>>
        sections ==
            <<Section("", "SHT_NULL", 0, 0, 0)>>
            \o Present(Section(".text", "SHT_PROGBITS", text.addr, 0, text.size))
            \o Present(Section(".data", "SHT_PROGBITS", data.addr, text.size, data.size))
            \o Present(Section(".bss", "SHT_NOBITS", bss.addr, text.size + dataSize, bss.size))
            \o <<Section(".shstrtab", "SHT_STRTAB", 0, 0, 0)>>
        tables == <<Section(".symtab", "SHT_SYMTAB", 0, 0, 0), Section(".strtab", "SHT_STRTAB", 0, 0, 0)>>
    IN [kind |-> "elf32-tms9900",
        bytes |-> SubSeq(all, 1, Len(all) - lost),
        sections |-> IF record < 0 THEN sections ELSE sections \o tables,
        symbols |-> IF record < 0 THEN <<>>
                    ELSE <<[name |-> "_start", value |-> text.addr],
                           [name |-> "_init_data", value |-> text.addr + record]>>]

\* .data directly behind .text, .bss behind it
InOnePiece(start, textSizes, records, dataSizes, bssSizes, losses) ==
    {Elf(At(start, t), r, At(start + t, n), At(start + t + n, b), lost) :
        t \in textSizes, r \in records, n \in dataSizes, b \in bssSizes, lost \in losses}

\* .data and .bss in low RAM, as test/Makefile links the tests
LowData == 34
Apart(start, textSizes, records, dataSizes, bssSizes, losses) ==
    {Elf(At(start, t), r, At(LowData, n), At(Even(LowData + IF n < 0 THEN 0 ELSE n), b), lost) :
        t \in textSizes, r \in records, n \in dataSizes, b \in bssSizes, lost \in losses}

High == 160

\* A file of 32 bytes holds an image of 26, two hold 52.  The last program
\* ends between the two parts of the RAM; none reaches from one to the other.
Ea5Programs ==
    Apart(High, {12, 25, 26, 50, 52, 60}, {0, 2}, {-1, 0, 1, 5}, {3}, {0, 1})
    \union InOnePiece(High, {20, 26, 49}, {-1, 10}, {0, 3}, {0, 3}, {0})
    \union Apart(40, {50}, {0}, {1}, {3}, {0})

CartPrograms ==
    Apart(RomStart, {12, 20, 27, 32, 36}, {0, 2}, {-1, 0, 5}, {-1, 3}, {0})

NotAnElf == [kind |-> "other", bytes |-> <<1>>, sections |-> <<>>, symbols |-> <<>>]

MCInputs == ({"elf2ea5"} \X (Ea5Programs \union {NotAnElf})) \union ({"elf2cart"} \X CartPrograms)

\* P1.BIN has the names P1, P2 ...; the others run out of their alphabet, of
\* the values of a char, or have no extension.
MCArgument ==
    [name : {<<LowerA>>, <<UpperZ>>, <<LowerZ - 1>>, <<126>>}, extension : BOOLEAN]

MCExamples ==
    [elf : Apart(RomStart, {12, 13}, {-1}, {0, 3, 4}, {0, 1, 2}, {0}),
     unit : {1, 2}, ctors : {<<>>, <<"a", "b">>}]
=============================================================================
