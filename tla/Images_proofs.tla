---------------------------- MODULE Images_proofs ----------------------------
(***************************************************************************)
(* Proofs about the image makers, ea5split, the loader and the start-up    *)
(* code, for programs, chunks and files of any size.                       *)
(***************************************************************************)
EXTENDS Images, Data_proofs, TLAPS

(***************************************************************************)
(* Bytes, words and sequences.                                             *)
(***************************************************************************)
LEMMA WordBytes ==
    ASSUME NEW v \in Nat
    PROVE  /\ Word(v)[1] \in Byte /\ Word(v)[2] \in Byte
           /\ (Word(v)[1] * 256) + Word(v)[2] = v % 65536
<1> DEFINE w == v % 65536
<1>2. w \in Nat /\ w < 65536
    OBVIOUS
<1>3. Word(v) = <<w \div 256, w % 256>>
    BY DEF Word
<1> HIDE DEF w
<1>4. /\ Word(v)[1] = w \div 256 /\ Word(v)[2] = w % 256
    BY <1>3
<1>5. Word(v)[1] \in Byte /\ Word(v)[2] \in Byte /\ (Word(v)[1] * 256) + Word(v)[2] = w
    <2>1. /\ w \div 256 \in Byte /\ w % 256 \in Byte
          /\ ((w \div 256) * 256) + (w % 256) = w
        BY ONLY <1>2 DEF Byte
    <2> QED BY ONLY <1>4, <2>1
<1> QED BY <1>5 DEF w

LEMMA WordsLength ==
    ASSUME NEW values \in Seq(Nat), NEW n, n = 2 * Len(values)
    PROVE  Words(values) \in Seq(Byte) /\ Len(Words(values)) = n
<1>1. Len(values) \in Nat
    OBVIOUS
<1>2. ASSUME NEW k \in 1 .. 2 * Len(values)
      PROVE  Word(values[(k + 1) \div 2])[IF k % 2 = 1 THEN 1 ELSE 2] \in Byte
    <2>1. (k + 1) \div 2 \in 1 .. Len(values)
        BY <1>1
    <2>2. values[(k + 1) \div 2] \in Nat
        BY <2>1
    <2>3. Word(values[(k + 1) \div 2])[1] \in Byte /\ Word(values[(k + 1) \div 2])[2] \in Byte
        <3>1. PICK v \in Nat : v = values[(k + 1) \div 2]
            BY <2>2
        <3>2. Word(v)[1] \in Byte /\ Word(v)[2] \in Byte
            BY WordBytes
        <3> QED BY ONLY <3>1, <3>2
    <2> QED BY ONLY <2>3
<1>3. Words(values) \in Seq(Byte) /\ Len(Words(values)) = 2 * Len(values)
    BY <1>1, <1>2 DEF Words
<1> QED BY <1>3

LEMMA WordsBytes ==
    ASSUME NEW values \in Seq(Nat), NEW k \in 1 .. Len(values)
    PROVE  Words(values)[2 * k - 1] = Word(values[k])[1] /\ Words(values)[2 * k] = Word(values[k])[2]
<1>1. /\ 2 * k - 1 \in 1 .. 2 * Len(values) /\ 2 * k \in 1 .. 2 * Len(values)
      /\ ((2 * k - 1) + 1) \div 2 = k /\ (2 * k + 1) \div 2 = k
      /\ (2 * k - 1) % 2 = 1 /\ (2 * k) % 2 # 1
    OBVIOUS
<1>2. \A n \in 1 .. 2 * Len(values) :
         Words(values)[n] = Word(values[(n + 1) \div 2])[IF n % 2 = 1 THEN 1 ELSE 2]
    BY DEF Words
<1> QED BY ONLY <1>1, <1>2

(***************************************************************************)
(* The image makers.  What the linker makes of a program: three sections,  *)
(* and ten bytes of .text for the record, if the program has one.          *)
(***************************************************************************)
Tools == {"elf2ea5", "elf2cart", "objcopy"}

Linked ==
    /\ elf.bytes \in Seq(Byte)
    /\ \A section \in {text_section, data_section, bss_section} :
          section.addr \in Nat /\ section.offset \in Nat /\ section.size \in Nat
    /\ SymbolValue = 0 \/ SymbolValue \in text_section.addr .. text_section.addr + text_section.size - 10

Header == IF tool = "elf2ea5" THEN EaHeader ELSE <<>>

\* Bytes of the image that are in the output file.
Count == Len(output) - Len(Header)

\* Bytes of the image before the record.
RecordAt == init_data_addr - text_section.addr

ImageByte(k) ==
    IF init_data_addr # 0 /\ k \in RecordAt + 1 .. RecordAt + 10 THEN init_data[k - RecordAt]
    ELSE IF k <= text_section.size THEN elf.bytes[text_section.offset + k]
    ELSE elf.bytes[data_section.offset + (k - text_section.size)]

\* The header and the bytes of the image so far.
Written ==
    /\ Count \in Nat
    /\ \A k \in 1 .. Len(Header) : output[k] = Header[k]
    /\ \A k \in 1 .. Count : k <= image_size => output[Len(Header) + k] = ImageByte(k)

\* Where copy_block reads and how much is left, at each of its calls.
Reading ==
    /\ at = "prefix" =>
          /\ init_data_addr # 0
          /\ Count <= RecordAt /\ left = RecordAt - Count
          /\ position = text_section.offset + Count
    /\ at = "rest" =>
          /\ init_data_addr # 0 => Count >= RecordAt + 10
          /\ Count <= text_section.size /\ left = text_section.size - Count
          /\ position = text_section.offset + Count
    /\ at = "data" =>
          /\ Count >= text_section.size /\ Count <= image_size /\ left = image_size - Count
          /\ left > 0 => position = data_section.offset + (Count - text_section.size)
    /\ at = "done" => /\ Count >= image_size
                      /\ tool = "elf2ea5" => Count = image_size
                      /\ tool = "elf2cart" => Count >= RomSize

ImageInv ==
    /\ tool \in Tools
    /\ output \in Seq(Byte)
    /\ position \in Nat
    /\ at \in {"headers", "prefix", "rest", "data", "done"}
    /\ status \in {Running, 0, 1} /\ (status = Running <=> at # "done")
    /\ at = "headers" => init_data_addr = 0 /\ output = <<>>
    /\ at # "headers" /\ status # 1 => init_data_addr = SymbolValue /\ Written /\ Reading

LEMMA RecordBytesOK == ASSUME Linked PROVE init_data \in Seq(Byte) /\ Len(init_data) = 10
<1> DEFINE moved == data_section # None /\ data_section.addr # text_section.addr + text_section.size
           values == (IF moved
                      THEN <<data_section.addr, text_section.addr + text_section.size, data_section.size>>
                      ELSE <<0, 0, 0>>) \o <<bss_section.addr, bss_section.size>>
<1>1. values \in Seq(Nat) /\ Len(values) = 5
    <2>1. /\ data_section.addr \in Nat /\ data_section.size \in Nat
          /\ text_section.addr + text_section.size \in Nat
          /\ bss_section.addr \in Nat /\ bss_section.size \in Nat
        BY DEF Linked
    <2> HIDE DEF moved
    <2> QED BY <2>1
<1>2. init_data = Words(values)
    BY DEF init_data
<1> HIDE DEF values
<1>3. 10 = 2 * Len(values)
    BY <1>1
<1> QED BY <1>1, <1>2, <1>3, WordsLength

LEMMA HeaderOK ==
    ASSUME Linked
    PROVE  /\ Header \in Seq(Byte)
           /\ tool = "elf2ea5" => Len(Header) = 6
           /\ tool # "elf2ea5" => Len(Header) = 0
<1>1. <<0, image_size + 6, text_section.addr>> \in Seq(Nat)
    BY DEF Linked, image_size
<1>2. EaHeader \in Seq(Byte) /\ Len(EaHeader) = 6
    <2>1. 6 = 2 * Len(<<0, image_size + 6, text_section.addr>>)
        OBVIOUS
    <2> QED BY <1>1, <2>1, WordsLength DEF EaHeader
<1> QED BY <1>2 DEF Header

(* The ELF file stays, and what is read from it.                           *)
LEMMA SameElf ==
    ASSUME elf' = elf, tool' = tool
    PROVE  /\ text_section' = text_section /\ data_section' = data_section /\ bss_section' = bss_section
           /\ init_data' = init_data /\ SymbolValue' = SymbolValue
           /\ image_size' = image_size /\ Header' = Header
           /\ Linked' = Linked
<1>1. text_section' = text_section /\ data_section' = data_section /\ bss_section' = bss_section
    BY DEF text_section, data_section, bss_section, Named, LastOf
<1>2. symtab_section' = symtab_section /\ strtab_section' = strtab_section
    BY DEF symtab_section, strtab_section, Typed, LastOf
<1>3. init_data' = init_data /\ image_size' = image_size
    BY <1>1 DEF init_data, image_size
<1>4. SymbolValue' = SymbolValue
    BY <1>2 DEF SymbolValue
<1>5. Header' = Header
    BY <1>1, <1>3 DEF Header, EaHeader
<1>6. Linked' = Linked
    BY <1>1, <1>4 DEF Linked
<1> QED BY <1>1, <1>3, <1>4, <1>5, <1>6

(* Bytes of the image, appended to those before them.                      *)
LEMMA WrittenMore ==
    ASSUME Linked, Written, output \in Seq(Byte),
           elf' = elf, tool' = tool, init_data_addr' = init_data_addr,
           NEW bytes \in Seq(Byte), output' = output \o bytes,
           \A k \in 1 .. Len(bytes) : Count + k <= image_size => bytes[k] = ImageByte(Count + k)
    PROVE  Written' /\ output' \in Seq(Byte) /\ Count' = Count + Len(bytes)
<1>1. /\ output' \in Seq(Byte) /\ Len(output') = Len(output) + Len(bytes)
      /\ \A k \in 1 .. Len(output) : output'[k] = output[k]
      /\ \A k \in 1 .. Len(bytes) : output'[Len(output) + k] = bytes[k]
    BY Joined
<1>2. Header' = Header /\ image_size' = image_size /\ Len(Header) \in Nat
    BY SameElf, HeaderOK
<1>3. Len(output) \in Nat /\ Len(bytes) \in Nat
    OBVIOUS
<1>4. Count' = Count + Len(bytes) /\ Count \in Nat /\ Len(output) = Len(Header) + Count
    BY <1>1, <1>2, <1>3 DEF Count, Written
<1>5. \A k \in 1 .. Len(Header) : output'[k] = Header[k]
    BY <1>1, <1>2, <1>3, <1>4 DEF Written
<1>6. ASSUME NEW k \in 1 .. Count', k <= image_size
      PROVE  output'[Len(Header) + k] = ImageByte(k)
    <2>1. CASE k <= Count
        <3>1. output[Len(Header) + k] = ImageByte(k)
            BY <1>4, <1>6, <2>1 DEF Written
        <3>2. Len(Header) + k \in 1 .. Len(output)
            BY <1>2, <1>4, <2>1
        <3> QED BY <1>1, <3>1, <3>2
    <2>2. CASE k > Count
        <3> DEFINE j == k - Count
        <3>1. j \in 1 .. Len(bytes) /\ Count + j = k /\ Len(output) + j = Len(Header) + k
            BY <1>2, <1>3, <1>4, <2>2
        <3> HIDE DEF j
        <3>2. bytes[j] = ImageByte(k)
            BY <1>6, <3>1
        <3> QED BY <1>1, <3>1, <3>2
    <2> QED BY <1>2, <1>4, <2>1, <2>2
<1>7. ASSUME NEW k PROVE ImageByte(k)' = ImageByte(k)
    BY SameElf DEF ImageByte, RecordAt
<1>8. Written'
    <2>1. ASSUME NEW k \in 1 .. Count', k <= image_size
          PROVE  output'[Len(Header) + k] = ImageByte(k)'
        BY <1>6, <1>7, <2>1
    <2> QED BY <1>2, <1>3, <1>4, <1>5, <2>1 DEF Written
<1> QED BY <1>1, <1>4, <1>8

(* A step that leaves the output alone.                                    *)
LEMMA WrittenStill ==
    ASSUME Written, UNCHANGED <<elf, tool, init_data_addr, output>>
    PROVE  Written' /\ Count' = Count
<1>1. Header' = Header /\ image_size' = image_size
    BY SameElf
<1>2. Count' = Count
    BY <1>1 DEF Count
<1>3. ASSUME NEW k PROVE ImageByte(k)' = ImageByte(k)
    BY SameElf DEF ImageByte, RecordAt
<1> QED BY <1>1, <1>2, <1>3 DEF Written

LEMMA SizesOK ==
    ASSUME Linked
    PROVE  /\ text_section.addr \in Nat /\ text_section.offset \in Nat /\ text_section.size \in Nat
           /\ data_section.addr \in Nat /\ data_section.offset \in Nat /\ data_section.size \in Nat
           /\ bss_section.addr \in Nat /\ bss_section.size \in Nat
           /\ image_size \in Nat /\ image_size = text_section.size + data_section.size
           /\ init_data_addr = SymbolValue /\ init_data_addr # 0 =>
                 RecordAt \in Nat /\ RecordAt + 10 <= text_section.size
<1>1. /\ text_section.addr \in Nat /\ text_section.offset \in Nat /\ text_section.size \in Nat
      /\ data_section.addr \in Nat /\ data_section.offset \in Nat /\ data_section.size \in Nat
      /\ bss_section.addr \in Nat /\ bss_section.size \in Nat
    BY DEF Linked
<1>2. image_size \in Nat /\ image_size = text_section.size + data_section.size
    BY <1>1 DEF image_size
<1>3. ASSUME init_data_addr = SymbolValue, init_data_addr # 0
      PROVE  RecordAt \in Nat /\ RecordAt + 10 <= text_section.size
    <2>1. SymbolValue \in text_section.addr .. text_section.addr + text_section.size - 10
        BY <1>3 DEF Linked
    <2> QED BY <1>1, <1>3, <2>1 DEF RecordAt
<1> QED BY <1>1, <1>2, <1>3

LEMMA CopyChunkStep ==
    ASSUME Linked, ImageInv, NEW from \in {"prefix", "rest", "data"}, CopyChunk(from)
    PROVE  ImageInv'
<1> DEFINE readsize == IF left < ChunkSize THEN left ELSE ChunkSize
<1>1. at = from /\ left > 0 /\ status = Running
    BY DEF CopyChunk, ImageInv
<1>2. CASE ~Readable(readsize)
    <2>1. Exit(1)
        BY <1>2 DEF CopyChunk
    <2> QED BY <1>1, <2>1 DEF Exit, ImageInv, Running
<1>3. CASE Readable(readsize)
    <2>1. /\ output' = output \o Read(readsize)
          /\ position' = position + readsize
          /\ left' = left - readsize
          /\ UNCHANGED <<tool, elf, at, init_data_addr, status>>
        BY <1>3 DEF CopyChunk
    <2>2. init_data_addr = SymbolValue /\ Written /\ Reading /\ output \in Seq(Byte) /\ position \in Nat
        BY <1>1 DEF ImageInv, Running
    <2>3. /\ left \in Nat /\ Count \in Nat
          /\ text_section.offset \in Nat /\ data_section.offset \in Nat
          /\ text_section.size \in Nat /\ data_section.size \in Nat
          /\ image_size = text_section.size + data_section.size
          /\ init_data_addr # 0 => RecordAt \in Nat /\ RecordAt + 10 <= text_section.size
        BY <1>1, <2>2, SizesOK DEF Reading, Written
    <2>4. readsize \in Nat /\ readsize <= left /\ readsize > 0
        BY <1>1, <2>3, ElfImageAssumption
    <2>5. /\ Read(readsize) \in Seq(Byte) /\ Len(Read(readsize)) = readsize
          /\ \A k \in 1 .. readsize : Read(readsize)[k] = elf.bytes[position + k]
        <3>1. elf.bytes \in Seq(Byte) /\ position + readsize <= Len(elf.bytes)
            BY <1>3 DEF Linked, Readable
        <3> HIDE DEF readsize
        <3> QED BY <2>2, <2>4, <3>1, Part DEF Read
    <2> HIDE DEF readsize
    <2>6. ASSUME NEW k \in 1 .. readsize PROVE elf.bytes[position + k] = ImageByte(Count + k)
        <3>1. CASE from = "prefix"
            <4>1. init_data_addr # 0 /\ left = RecordAt - Count /\ position = text_section.offset + Count
                BY <1>1, <2>2, <3>1 DEF Reading
            <4>2. /\ Count + k <= RecordAt /\ Count + k <= text_section.size
                  /\ position + k = text_section.offset + (Count + k)
                BY <2>3, <2>4, <4>1
            <4>3. Count + k \notin RecordAt + 1 .. RecordAt + 10
                BY <2>3, <4>1, <4>2
            <4> QED BY <4>2, <4>3 DEF ImageByte
        <3>2. CASE from = "rest"
            <4>1. /\ init_data_addr # 0 => Count >= RecordAt + 10
                  /\ left = text_section.size - Count /\ position = text_section.offset + Count
                BY <1>1, <2>2, <3>2 DEF Reading
            <4>2. /\ Count + k <= text_section.size
                  /\ position + k = text_section.offset + (Count + k)
                BY <2>3, <2>4, <4>1
            <4>3. ~(init_data_addr # 0 /\ Count + k \in RecordAt + 1 .. RecordAt + 10)
                BY <2>3, <4>1
            <4> QED BY <4>2, <4>3 DEF ImageByte
        <3>3. CASE from = "data"
            <4>0. Count >= text_section.size /\ position = data_section.offset + (Count - text_section.size)
                BY <1>1, <2>2, <3>3 DEF Reading
            <4>1. /\ Count + k > text_section.size
                  /\ position + k = data_section.offset + ((Count + k) - text_section.size)
                BY ONLY <2>3, <2>4, <4>0, k \in 1 .. readsize
            <4>2. ~(init_data_addr # 0 /\ Count + k \in RecordAt + 1 .. RecordAt + 10)
                BY <2>3, <4>1
            <4> QED BY <2>3, <4>1, <4>2 DEF ImageByte
        <3> QED BY <3>1, <3>2, <3>3
    <2>7. Written' /\ output' \in Seq(Byte) /\ Count' = Count + readsize
        BY <2>1, <2>2, <2>5, <2>6, WrittenMore
    <2>8. Reading'
        <3>1. /\ text_section' = text_section /\ data_section' = data_section
              /\ image_size' = image_size /\ RecordAt' = RecordAt
            BY <2>1, SameElf DEF RecordAt
        <3>2. /\ at' = at /\ Count' = Count + readsize /\ left' = left - readsize
              /\ position' = position + readsize /\ init_data_addr' = init_data_addr
            BY <2>1, <2>7
        <3>3. CASE from = "prefix"
            <4>1. init_data_addr # 0 /\ left = RecordAt - Count /\ position = text_section.offset + Count
                BY <1>1, <2>2, <3>3 DEF Reading
            <4>2. /\ Count' <= RecordAt /\ left' = RecordAt - Count'
                  /\ position' = text_section.offset + Count'
                BY <2>3, <2>4, <3>2, <4>1
            <4> QED BY <1>1, <3>1, <3>2, <3>3, <4>1, <4>2 DEF Reading
        <3>4. CASE from = "rest"
            <4>1. /\ init_data_addr # 0 => Count >= RecordAt + 10
                  /\ left = text_section.size - Count /\ position = text_section.offset + Count
                BY <1>1, <2>2, <3>4 DEF Reading
            <4>2. /\ init_data_addr # 0 => Count' >= RecordAt + 10
                  /\ Count' <= text_section.size /\ left' = text_section.size - Count'
                  /\ position' = text_section.offset + Count'
                BY <2>3, <2>4, <3>2, <4>1
            <4> QED BY <1>1, <3>1, <3>2, <3>4, <4>2 DEF Reading
        <3>5. CASE from = "data"
            <4>1. /\ Count >= text_section.size /\ left = image_size - Count
                  /\ position = data_section.offset + (Count - text_section.size)
                BY <1>1, <2>2, <3>5 DEF Reading
            <4>2. /\ Count' >= text_section.size /\ Count' <= image_size /\ left' = image_size - Count'
                  /\ position' = data_section.offset + (Count' - text_section.size)
                BY <2>3, <2>4, <3>2, <4>1
            <4> QED BY <1>1, <3>1, <3>2, <3>5, <4>2 DEF Reading
        <3> QED BY <3>3, <3>4, <3>5
    <2>9. init_data_addr' = SymbolValue' /\ position' \in Nat
        BY <2>1, <2>2, <2>4, SameElf
    <2> QED BY <1>1, <2>1, <2>7, <2>8, <2>9 DEF ImageInv
<1> QED BY <1>2, <1>3

LEMMA ReadHeadersStep == ASSUME Linked, ImageInv, ReadHeaders PROVE ImageInv'
<1> DEFINE bad == \/ elf.kind # "elf32-tms9900"
                  \/ text_section = None
                  \/ strtab_section = None
<1>1. at = "headers" /\ status = Running /\ output = <<>>
    BY DEF ReadHeaders, ImageInv
<1>2. CASE bad
    <2>1. Exit(1)
        BY <1>2 DEF ReadHeaders
    <2> QED BY <1>1, <2>1 DEF Exit, ImageInv, Running
<1>3. CASE ~bad
    <2>1. /\ init_data_addr' = SymbolValue
          /\ output' = Header
          /\ position' = text_section.offset
          /\ IF SymbolValue = 0
             THEN at' = "rest" /\ left' = text_section.size
             ELSE at' = "prefix" /\ left' = SymbolValue - text_section.addr
          /\ UNCHANGED <<tool, elf, status>>
        BY <1>3 DEF ReadHeaders, Header
    <2>2. /\ text_section' = text_section /\ data_section' = data_section
          /\ image_size' = image_size /\ SymbolValue' = SymbolValue /\ Header' = Header
        BY <2>1, SameElf
    <2>3. /\ text_section.size \in Nat /\ text_section.offset \in Nat
          /\ SymbolValue # 0 => SymbolValue - text_section.addr \in Nat
        BY DEF Linked
    <2>4. Header \in Seq(Byte) /\ Len(Header) \in Nat /\ Count' = 0
        BY <2>1, <2>2, HeaderOK DEF Count
    <2>5. Written'
        BY <2>1, <2>2, <2>4 DEF Written
    <2>6. Reading'
        BY <2>1, <2>2, <2>3, <2>4 DEF Reading, RecordAt
    <2> QED BY <1>1, <2>1, <2>2, <2>3, <2>4, <2>5, <2>6 DEF ImageInv
<1> QED BY <1>2, <1>3

LEMMA WriteRecordStep == ASSUME Linked, ImageInv, WriteRecord PROVE ImageInv'
<1>1. at = "prefix" /\ left <= 0 /\ status = Running
    BY DEF WriteRecord, Copied, ImageInv
<1>2. init_data_addr = SymbolValue /\ Written /\ Reading /\ output \in Seq(Byte) /\ position \in Nat
    BY <1>1 DEF ImageInv, Running
<1>3. /\ init_data_addr # 0 /\ Count \in Nat /\ Count = RecordAt
      /\ position = text_section.offset + Count
      /\ RecordAt + 10 <= text_section.size
      /\ text_section.size \in Nat /\ text_section.offset \in Nat
    <2>1. /\ init_data_addr # 0 /\ Count <= RecordAt /\ left = RecordAt - Count
          /\ position = text_section.offset + Count
        BY <1>1, <1>2 DEF Reading
    <2>2. /\ RecordAt \in Nat /\ RecordAt + 10 <= text_section.size /\ Count \in Nat
          /\ text_section.size \in Nat /\ text_section.offset \in Nat
        BY <1>2, <2>1, SizesOK DEF Written
    <2> QED BY <1>1, <2>1, <2>2
<1>4. init_data \in Seq(Byte) /\ Len(init_data) = 10
    BY RecordBytesOK
<1>5. output' = output \o init_data /\ UNCHANGED <<tool, elf, init_data_addr>>
    BY DEF WriteRecord
<1>6. ASSUME NEW k \in 1 .. 10 PROVE init_data[k] = ImageByte(Count + k)
    <2>1. Count + k \in RecordAt + 1 .. RecordAt + 10 /\ (Count + k) - RecordAt = k
        BY <1>3
    <2> QED BY <1>3, <2>1 DEF ImageByte
<1>7. Written' /\ output' \in Seq(Byte) /\ Count' = Count + 10
    BY <1>2, <1>4, <1>5, <1>6, WrittenMore
<1>8. CASE ~Readable(Len(init_data))
    <2>1. status' = 1 /\ at' = "done" /\ UNCHANGED position
        BY <1>8 DEF WriteRecord
    <2> QED BY <1>2, <1>5, <1>7, <2>1 DEF ImageInv, Running
<1>9. CASE Readable(Len(init_data))
    <2>1. /\ position' = position + 10 /\ at' = "rest" /\ status' = status
          /\ left' = text_section.size - (RecordAt + 10)
        BY <1>4, <1>9 DEF WriteRecord, RecordAt
    <2>2. text_section' = text_section /\ RecordAt' = RecordAt /\ SymbolValue' = SymbolValue
        BY <1>5, SameElf DEF RecordAt
    <2>3. /\ Count' >= RecordAt + 10 /\ Count' <= text_section.size
          /\ left' = text_section.size - Count' /\ position' = text_section.offset + Count'
        BY ONLY <1>3, <1>7, <2>1
    <2>4. Reading'
        BY <2>1, <2>2, <2>3 DEF Reading
    <2> QED BY <1>1, <1>2, <1>5, <1>7, <2>1, <2>2, <2>4 DEF ImageInv
<1> QED BY <1>8, <1>9

LEMMA SeekDataStep == ASSUME Linked, ImageInv, SeekData PROVE ImageInv'
<1>1. at = "rest" /\ left <= 0 /\ status = Running
    BY DEF SeekData, Copied, ImageInv
<1>2. init_data_addr = SymbolValue /\ Written /\ Reading /\ output \in Seq(Byte) /\ position \in Nat
    BY <1>1 DEF ImageInv, Running
<1>3. /\ position' = IF data_section = None THEN position ELSE data_section.offset
      /\ left' = data_section.size /\ at' = "data"
      /\ UNCHANGED <<tool, elf, init_data_addr, output, status>>
    BY DEF SeekData
<1>4. Count = text_section.size
    <2>1. Count <= text_section.size /\ left = text_section.size - Count /\ Count \in Nat
        BY <1>1, <1>2 DEF Reading, Written
    <2> QED BY <1>1, <2>1, SizesOK
<1>5. Written' /\ Count' = Count
    BY <1>2, <1>3, WrittenStill
<1>6. /\ text_section' = text_section /\ data_section' = data_section
      /\ image_size' = image_size /\ SymbolValue' = SymbolValue
    BY <1>3, SameElf
<1>7. left' > 0 => position' = data_section.offset
    <2>1. None.size = 0
        BY DEF None
    <2> QED BY <1>3, <2>1
<1>8. Reading'
    <2>1. /\ Count' >= text_section.size /\ Count' <= image_size /\ left' = image_size - Count'
          /\ left' > 0 => position' = data_section.offset + (Count' - text_section.size)
        BY <1>3, <1>4, <1>5, <1>7, SizesOK
    <2> QED BY <1>3, <1>6, <2>1 DEF Reading
<1>9. position' \in Nat
    BY <1>2, <1>3, SizesOK
<1> QED BY <1>1, <1>2, <1>3, <1>5, <1>6, <1>8, <1>9 DEF ImageInv

LEMMA CloseStep == ASSUME Linked, ImageInv, Close PROVE ImageInv'
<1>1. at = "data" /\ left <= 0 /\ status = Running
    BY DEF Close, Copied, ImageInv
<1>2. init_data_addr = SymbolValue /\ Written /\ Reading /\ output \in Seq(Byte) /\ position \in Nat
    BY <1>1 DEF ImageInv, Running
<1> DEFINE padded == tool = "elf2cart" /\ image_size < RomSize
           padding == IF padded THEN [k \in 1 .. RomSize - image_size |-> 0] ELSE <<>>
<1>3. status' = 0 /\ at' = "done" /\ UNCHANGED <<tool, elf, position, left, init_data_addr>>
    BY DEF Close
<1>4. /\ padding \in Seq(Byte) /\ Len(padding) \in Nat /\ output' = output \o padding
      /\ ~padded => Len(padding) = 0
      /\ padded => Len(padding) = RomSize - image_size
    <2>1. image_size \in Nat /\ RomSize \in Nat
        BY SizesOK, ElfImageAssumption
    <2>2. CASE padded
        BY <2>1, <2>2 DEF Close, Byte
    <2>3. CASE ~padded
        BY <1>2, <2>3 DEF Close
    <2> QED BY <2>2, <2>3
<1>5. Count = image_size
    <2>1. Count <= image_size /\ left = image_size - Count /\ Count \in Nat
        BY <1>1, <1>2 DEF Reading, Written
    <2> QED BY <1>1, <2>1, SizesOK
<1> HIDE DEF padding
<1>6. Written' /\ output' \in Seq(Byte) /\ Count' = Count + Len(padding)
    <2>1. \A k \in 1 .. Len(padding) : ~(Count + k <= image_size)
        BY <1>4, <1>5, SizesOK
    <2> QED BY <1>2, <1>3, <1>4, <2>1, WrittenMore
<1>7. image_size' = image_size /\ SymbolValue' = SymbolValue
    BY <1>3, SameElf
<1>8. Reading'
    <2>1. /\ Count' >= image_size /\ (tool = "elf2ea5" => Count' = image_size)
          /\ tool = "elf2cart" => Count' >= RomSize
        <3>1. image_size \in Nat /\ RomSize \in Nat
            BY SizesOK, ElfImageAssumption
        <3> QED BY <1>4, <1>5, <1>6, <3>1
    <2> QED BY <1>3, <1>7, <2>1 DEF Reading
<1> QED BY <1>2, <1>3, <1>6, <1>7, <1>8 DEF ImageInv, Running

LEMMA ImageStep == ASSUME Linked, ImageInv, ImageNext PROVE ImageInv' /\ elf' = elf /\ tool' = tool
<1>1. ASSUME CannotOpen PROVE ImageInv'
    BY <1>1 DEF CannotOpen, Exit, ImageInv, Running
<1>2. elf' = elf /\ tool' = tool
    BY DEF ImageNext, CannotOpen, ReadHeaders, WriteRecord, SeekData, Close, CopyChunk, Exit
<1> QED BY <1>1, <1>2, ReadHeadersStep, WriteRecordStep, SeekDataStep, CloseStep, CopyChunkStep
        DEF ImageNext

(***************************************************************************)
(* The pieces of ea5split, by their number from 0.                         *)
(***************************************************************************)
Room == FileLimit - HeaderSize

Content == Len(output) - HeaderSize

Pieces == files_number(output)

\* Bytes of the content before piece k, and in it.
Before(k) == k * Room

PieceLen(k) == IF Content - Before(k) > Room THEN Room ELSE Content - Before(k)

StartAddress == WordAt(output, 5)

PieceName(k) == [FirstName(output) EXCEPT ![Len(FirstName(output))] = @ + k]

PieceFile(k) ==
    write16(IF k = Pieces - 1 THEN 0 ELSE 65535) \o write16(PieceLen(k)) \o write16(StartAddress + Before(k))
      \o SubSeq(output, HeaderSize + Before(k) + 1, HeaderSize + Before(k) + PieceLen(k))

LEMMA RoomOK ==
    Room \in Nat \ {0} /\ Room < 65536 /\ FileLimit = Room + HeaderSize /\ HeaderSize = 6
BY Ea5SplitAssumption DEF Room, HeaderSize

LEMMA BeforeNext ==
    ASSUME NEW k \in Nat
    PROVE  Before(k) \in Nat /\ Before(0) = 0 /\ Before(k + 1) = Before(k) + Room
<1> DEFINE S == Room
<1>1. S \in Nat
    BY RoomOK
<1> HIDE DEF S
<1>2. k * S \in Nat /\ 0 * S = 0 /\ (k + 1) * S = k * S + S
    BY <1>1
<1> QED BY <1>2 DEF Before, S

(* Before the last piece there is more than a piece left.                  *)
LEMMA PieceBounds ==
    ASSUME Content \in Nat, Content > Room
    PROVE  /\ Pieces \in Nat \ {0}
           /\ \A k \in 0 .. Pieces - 1 : /\ Content - Before(k) > 0
                                         /\ k + 1 < Pieces <=> Content - Before(k) > Room
<1> DEFINE C == Content  S == Room
           q == C \div S  r == C % S
<1>1. S \in Nat \ {0} /\ C \in Nat /\ C > S
    BY RoomOK
<1>2. Pieces = q + (IF r = 0 THEN 0 ELSE 1)
    BY DEF Pieces, files_number, Content, Room
<1> HIDE DEF C, S
<1>3. q \in Int /\ r \in 0 .. S - 1 /\ C = q * S + r
    BY <1>1, Division
<1> HIDE DEF q, r
<1>4. q \in Nat \ {0}
    <2>1. CASE q <= 0
        <3>1. q * S <= 0
            BY <1>1, <1>3, <2>1
        <3>2. q * S \in Int
            BY <1>1, <1>3
        <3> DEFINE p == q * S
        <3> HIDE DEF p
        <3> QED BY <1>1, <1>3, <3>1, <3>2 DEF p
    <2> QED BY <1>3, <2>1
<1>5. Pieces \in Nat \ {0} /\ (r = 0 => Pieces = q) /\ (r # 0 => Pieces = q + 1)
    BY <1>2, <1>3, <1>4
<1>6. ASSUME NEW k \in 0 .. Pieces - 1
      PROVE  C - k * S > 0 /\ (k + 1 < Pieces <=> C - k * S > S)
    <2> DEFINE d == q - k
    <2>1. d \in Int /\ d >= 0 /\ (r = 0 => d >= 1) /\ C - k * S = d * S + r
        <3>1. d \in Int /\ d >= 0 /\ (r = 0 => d >= 1)
            BY <1>3, <1>4, <1>5, <1>6
        <3>2. C - k * S = d * S + r
            BY <1>1, <1>3, <1>4, <1>5, <1>6
        <3> QED BY <3>1, <3>2
    <2>2. k + 1 < Pieces <=> IF r = 0 THEN d >= 2 ELSE d >= 1
        BY <1>3, <1>4, <1>5, <1>6
    <2> HIDE DEF d
    <2>3. CASE d = 0
        BY <1>1, <1>3, <2>1, <2>2, <2>3
    <2>4. CASE d = 1
        BY <1>1, <1>3, <2>1, <2>2, <2>4
    <2>5. CASE d >= 2
        <3> DEFINE p == d * S
        <3>1. p \in Int /\ p >= 2 * S
            BY <1>1, <2>1, <2>5
        <3> HIDE DEF p
        <3>2. p + r > S
            BY <1>1, <1>3, <3>1
        <3>3. k + 1 < Pieces
            BY <2>2, <2>5, <2>1
        <3> QED BY <1>1, <1>3, <2>1, <3>1, <3>2, <3>3 DEF p
    <2> QED BY <2>1, <2>3, <2>4, <2>5
<1> QED BY <1>5, <1>6 DEF C, S, Before

LEMMA write16Bytes ==
    ASSUME NEW v \in Nat, v < 65536
    PROVE  /\ write16(v) \in Seq(Byte) /\ Len(write16(v)) = 2
           /\ (write16(v)[1] * 256) + write16(v)[2] = v
<1>1. /\ v \div 256 \in Byte /\ (v \div 256) % 256 = v \div 256 /\ v % 256 \in Byte
      /\ ((v \div 256) * 256) + (v % 256) = v
    BY DEF Byte
<1>2. write16(v) = <<v \div 256, v % 256>>
    BY <1>1 DEF write16
<1>3. write16(v)[1] = v \div 256 /\ write16(v)[2] = v % 256
    BY <1>2
<1>4. (write16(v)[1] * 256) + write16(v)[2] = v
    BY ONLY <1>1, <1>3
<1>5. write16(v) \in Seq(Byte) /\ Len(write16(v)) = 2
    <2> DEFINE x == v \div 256  y == v % 256
    <2>1. x \in Byte /\ y \in Byte
        BY <1>1
    <2> HIDE DEF x, y
    <2>2. <<x, y>> \in Seq(Byte) /\ Len(<<x, y>>) = 2
        BY <2>1
    <2> QED BY <1>2, <2>2 DEF x, y
<1> QED BY <1>4, <1>5

(* A file of three words and a body.                                       *)
File(a, b, c, body) == write16(a) \o write16(b) \o write16(c) \o body

IsFile(f, a, b, c, body) ==
    /\ f \in Seq(Byte) /\ Len(f) = HeaderSize + Len(body)
    /\ WordAt(f, 1) = a /\ WordAt(f, 3) = b /\ WordAt(f, 5) = c
    /\ \A n \in 1 .. Len(body) : f[HeaderSize + n] = body[n]

UWord == {x \in Nat : x < 65536}

LEMMA FileParts ==
    ASSUME NEW a \in UWord, NEW b \in UWord, NEW c \in UWord,
           NEW body \in Seq(Byte), NEW f, f = File(a, b, c, body)
    PROVE  IsFile(f, a, b, c, body)
<1> DEFINE wa == write16(a)  wb == write16(b)  wc == write16(c)
<1> DEFINE h == wa \o wb  g == h \o wc
<1>1. /\ wa \in Seq(Byte) /\ Len(wa) = 2 /\ (wa[1] * 256) + wa[2] = a
      /\ wb \in Seq(Byte) /\ Len(wb) = 2 /\ (wb[1] * 256) + wb[2] = b
      /\ wc \in Seq(Byte) /\ Len(wc) = 2 /\ (wc[1] * 256) + wc[2] = c
    BY write16Bytes DEF UWord
<1>2. f = g \o body
    BY DEF File
<1> HIDE DEF wa, wb, wc
<1>3. h \in Seq(Byte) /\ Len(h) = 4 /\ h[1] = wa[1] /\ h[2] = wa[2] /\ h[3] = wb[1] /\ h[4] = wb[2]
    <2>0. wa \in Seq(Byte) /\ wb \in Seq(Byte)
        BY ONLY <1>1
    <2>1. /\ h \in Seq(Byte) /\ Len(h) = Len(wa) + Len(wb)
          /\ \A k \in 1 .. Len(wa) : h[k] = wa[k]
          /\ \A k \in 1 .. Len(wb) : h[Len(wa) + k] = wb[k]
        BY ONLY <2>0
    <2> HIDE DEF h
    <2>2. 1 \in 1 .. Len(wa) /\ 2 \in 1 .. Len(wa) /\ 1 \in 1 .. Len(wb) /\ 2 \in 1 .. Len(wb)
        BY ONLY <1>1
    <2>3. h[1] = wa[1] /\ h[2] = wa[2] /\ h[Len(wa) + 1] = wb[1] /\ h[Len(wa) + 2] = wb[2]
        BY ONLY <2>1, <2>2
    <2> QED BY ONLY <1>1, <2>1, <2>3
<1> HIDE DEF h
<1>4. /\ g \in Seq(Byte) /\ Len(g) = 6
      /\ g[1] = h[1] /\ g[2] = h[2] /\ g[3] = h[3] /\ g[4] = h[4] /\ g[5] = wc[1] /\ g[6] = wc[2]
    <2>0. h \in Seq(Byte) /\ wc \in Seq(Byte)
        BY ONLY <1>1, <1>3
    <2>1. /\ g \in Seq(Byte) /\ Len(g) = Len(h) + Len(wc)
          /\ \A k \in 1 .. Len(h) : g[k] = h[k]
          /\ \A k \in 1 .. Len(wc) : g[Len(h) + k] = wc[k]
        BY ONLY <2>0
    <2> HIDE DEF g
    <2>2. /\ 1 \in 1 .. Len(h) /\ 2 \in 1 .. Len(h) /\ 3 \in 1 .. Len(h) /\ 4 \in 1 .. Len(h)
          /\ 1 \in 1 .. Len(wc) /\ 2 \in 1 .. Len(wc)
        BY ONLY <1>1, <1>3
    <2>3. /\ g[1] = h[1] /\ g[2] = h[2] /\ g[3] = h[3] /\ g[4] = h[4]
          /\ g[Len(h) + 1] = wc[1] /\ g[Len(h) + 2] = wc[2]
        BY ONLY <2>1, <2>2
    <2> QED BY ONLY <1>1, <1>3, <2>1, <2>3
<1> HIDE DEF g
<1>5. /\ f \in Seq(Byte) /\ Len(f) = Len(g) + Len(body)
      /\ \A n \in 1 .. Len(g) : f[n] = g[n]
      /\ \A n \in 1 .. Len(body) : f[Len(g) + n] = body[n]
    <2>1. g \in Seq(Byte)
        BY ONLY <1>4
    <2> QED BY ONLY <1>2, <2>1, body \in Seq(Byte)
<1>6. f[1] = wa[1] /\ f[2] = wa[2] /\ f[3] = wb[1] /\ f[4] = wb[2] /\ f[5] = wc[1] /\ f[6] = wc[2]
    <2>1. /\ 1 \in 1 .. Len(g) /\ 2 \in 1 .. Len(g) /\ 3 \in 1 .. Len(g)
          /\ 4 \in 1 .. Len(g) /\ 5 \in 1 .. Len(g) /\ 6 \in 1 .. Len(g)
        BY ONLY <1>4
    <2> QED BY ONLY <1>3, <1>4, <1>5, <2>1
<1>7. WordAt(f, 1) = a /\ WordAt(f, 3) = b /\ WordAt(f, 5) = c
    <2>1. /\ WordAt(f, 1) = (f[1] * 256) + f[2] /\ WordAt(f, 3) = (f[3] * 256) + f[4]
          /\ WordAt(f, 5) = (f[5] * 256) + f[6]
        BY ONLY TRUE DEF WordAt
    <2> QED BY ONLY <1>1, <1>6, <2>1
<1> QED BY ONLY <1>4, <1>5, <1>7 DEF HeaderSize, IsFile

(***************************************************************************)
(* A file to be split: the header is right, the program in the RAM.        *)
(***************************************************************************)
Long ==
    /\ output \in Seq(Byte)
    /\ Len(output) > FileLimit
    /\ ~OutsideRam(output)

LEMMA LongFacts ==
    ASSUME Long
    PROVE  /\ StartAddress \in Nat /\ Content \in Nat /\ Content > Room
           /\ Len(output) = HeaderSize + Content
           /\ StartAddress + Content <= 65536
           /\ Pieces \in Nat \ {0}
<1>1. Len(output) \in Nat /\ \A n \in 1 .. Len(output) : output[n] \in Nat
    BY DEF Long, Byte
<1>2. Content \in Nat /\ Content > Room /\ Len(output) = HeaderSize + Content
    BY <1>1, RoomOK DEF Content, Long
<1>3. StartAddress \in Nat
    <2>1. output[5] \in Nat /\ output[6] \in Nat
        BY <1>1, <1>2, RoomOK
    <2> QED BY <2>1 DEF StartAddress, WordAt
<1>4. StartAddress + Content <= 65536
    <2>1. StartAddress + Len(output) - HeaderSize - 1 < AddressEnd
        <3>1. AddressEnd \in Nat /\ StartAddress + Len(output) - HeaderSize - 1 \in Int
            BY <1>1, <1>3, RoomOK, Ea5SplitAssumption
        <3> QED BY <3>1 DEF Long, OutsideRam, StartAddress
    <2> QED BY <1>2, <1>3, <2>1, RoomOK, Ea5SplitAssumption
<1> QED BY <1>2, <1>3, <1>4, PieceBounds

LEMMA PieceFacts ==
    ASSUME Long, NEW k \in 0 .. Pieces - 1
    PROVE  /\ Before(k) \in Nat /\ PieceLen(k) \in Nat \ {0} /\ PieceLen(k) <= Room
           /\ Before(k) + PieceLen(k) <= Content
           /\ k + 1 < Pieces => PieceLen(k) = Room /\ Before(k + 1) = Before(k) + PieceLen(k)
           /\ k + 1 = Pieces => Before(k) + PieceLen(k) = Content
<1>1. k \in Nat /\ Before(k) \in Nat /\ Before(k + 1) = Before(k) + Room
    <2>1. k \in Nat
        BY LongFacts
    <2> QED BY <2>1, BeforeNext
<1>2. Content - Before(k) > 0 /\ (k + 1 < Pieces <=> Content - Before(k) > Room)
    BY LongFacts, PieceBounds
<1>3. Content \in Nat /\ Room \in Nat \ {0} /\ Pieces \in Nat
    BY LongFacts, RoomOK
<1> QED BY <1>1, <1>2, <1>3 DEF PieceLen

LEMMA PieceFileFacts ==
    ASSUME Long, NEW k \in 0 .. Pieces - 1
    PROVE  /\ PieceFile(k) \in Seq(Byte) /\ Len(PieceFile(k)) = HeaderSize + PieceLen(k)
           /\ Len(PieceFile(k)) <= FileLimit
           /\ WordAt(PieceFile(k), 1) = 0 <=> k = Pieces - 1
           /\ WordAt(PieceFile(k), 3) = PieceLen(k)
           /\ WordAt(PieceFile(k), 5) = StartAddress + Before(k)
           /\ \A n \in 1 .. PieceLen(k) :
                 PieceFile(k)[HeaderSize + n] = output[HeaderSize + (Before(k) + n)]
<1> DEFINE flag == IF k = Pieces - 1 THEN 0 ELSE 65535
           from == HeaderSize + Before(k)
           n == PieceLen(k)
           body == SubSeq(output, from + 1, from + n)
<1>1. /\ Before(k) \in Nat /\ n \in Nat \ {0} /\ n <= Room /\ Before(k) + n <= Content
    BY PieceFacts
<1>2. /\ StartAddress \in Nat /\ Content \in Nat /\ StartAddress + Content <= 65536
      /\ output \in Seq(Byte) /\ Len(output) = HeaderSize + Content
    BY LongFacts DEF Long
<1>3. /\ flag \in UWord /\ (flag = 0 <=> k = Pieces - 1)
      /\ n \in UWord /\ n \in Nat
      /\ StartAddress + Before(k) \in UWord
    BY <1>1, <1>2, RoomOK DEF UWord
<1>4. PieceFile(k) = File(flag, n, StartAddress + Before(k), body)
    BY DEF PieceFile, File
<1> HIDE DEF flag, n
<1>5. /\ body \in Seq(Byte) /\ Len(body) = n
      /\ \A m \in 1 .. n : body[m] = output[from + m]
    <2>1. from \in Nat /\ from + n <= Len(output)
        BY <1>1, <1>2, RoomOK
    <2> HIDE DEF from
    <2> QED BY <1>2, <1>3, <2>1, Part
<1> HIDE DEF body
<1>6. /\ PieceFile(k) \in Seq(Byte) /\ Len(PieceFile(k)) = HeaderSize + Len(body)
      /\ WordAt(PieceFile(k), 1) = flag /\ WordAt(PieceFile(k), 3) = n
      /\ WordAt(PieceFile(k), 5) = StartAddress + Before(k)
      /\ \A m \in 1 .. Len(body) : PieceFile(k)[HeaderSize + m] = body[m]
    <2> DEFINE start == StartAddress + Before(k)
               f == PieceFile(k)
    <2>1. f = File(flag, n, start, body) /\ start \in UWord
        BY <1>3, <1>4
    <2> HIDE DEF start, f
    <2>2. IsFile(f, flag, n, start, body)
        BY ONLY <1>3, <1>5, <2>1, FileParts, Zenon
    <2> QED BY ONLY <2>2 DEF IsFile, start, f
<1>7. Len(PieceFile(k)) <= FileLimit
    BY <1>1, <1>5, <1>6, RoomOK
<1>8. ASSUME NEW m \in 1 .. n
      PROVE  PieceFile(k)[HeaderSize + m] = output[HeaderSize + (Before(k) + m)]
    <2>1. PieceFile(k)[HeaderSize + m] = output[from + m]
        BY <1>5, <1>6
    <2>2. from + m = HeaderSize + (Before(k) + m)
        BY <1>1, <1>3, RoomOK
    <2> QED BY <2>1, <2>2
<1> QED BY <1>3, <1>5, <1>6, <1>7, <1>8 DEF n

(***************************************************************************)
(* The chain of the programs.  ea5split writes the pieces in the order of  *)
(* their numbers and the loader reads them in that order.                  *)
(***************************************************************************)
PiecesWritten ==
    /\ i \in 0 .. Pieces
    /\ i < Pieces => /\ offset = HeaderSize + Before(i)
                     /\ load_address = StartAddress + Before(i)
    /\ name = PieceName(i)
    /\ \A k \in 0 .. i - 1 : PieceName(k) \in DOMAIN disk /\ disk[PieceName(k)] = PieceFile(k)

OneFile == disk = [n \in {argument.name} |-> output]

\* The image is done, with the header elf2ea5 has written.
Converted ==
    /\ status = 0 /\ at = "done"
    /\ tool = "elf2ea5"

Splitting ==
    \/ splitting = "no" /\ i = 0 /\ OneFile /\ loading = argument.name
    \/ splitting = "pieces" /\ Long /\ PiecesWritten /\ loading = PieceName(0)

Loading ==
    \/ i = 0 /\ Len(output) <= FileLimit /\ OneFile
    \/ Long /\ i = Pieces /\ PiecesWritten /\ \E k \in Nat : k < Pieces /\ loading = PieceName(k)

ChainInv ==
    /\ ImageInv
    /\ argument.name \in Seq(Nat) \ {<<>>}
    /\ stage = "convert" => /\ splitting = "no" /\ i = 0 /\ loading = argument.name
                            /\ status = Running
                            /\ tool # "objcopy"
    /\ stage = "split" => Converted /\ Splitting
    /\ stage = "load" => Converted /\ Loading

(* Names that count up.                                                    *)
LEMMA FirstNameOK ==
    ASSUME argument.name \in Seq(Nat) \ {<<>>}
    PROVE  /\ FirstName(output) \in Seq(Nat) /\ Len(FirstName(output)) \in Nat \ {0}
           /\ FirstName(output)[Len(FirstName(output))] \in Nat
<1> DEFINE first == argument.name
           F == FirstName(output)
<1>1. F = Append(first, One) \/ F = first
    BY DEF FirstName
<1>2. first \in Seq(Nat) /\ first # <<>> /\ One \in Nat
    BY DEF One
<1> HIDE DEF F, first
<1>3. F \in Seq(Nat) /\ F # <<>>
    <2>1. Append(first, One) \in Seq(Nat) /\ Append(first, One) # <<>>
        <3>1. Append(first, One) \in Seq(Nat) /\ Len(Append(first, One)) = Len(first) + 1
            BY <1>2
        <3>2. Len(first) \in Nat /\ Len(<<>>) = 0
            BY <1>2
        <3> QED BY ONLY <3>1, <3>2
    <2> QED BY ONLY <1>1, <1>2, <2>1
<1>4. Len(F) \in Nat \ {0}
    BY <1>3
<1> QED BY <1>3, <1>4 DEF F

LEMMA PieceNameOK ==
    ASSUME argument.name \in Seq(Nat) \ {<<>>}, NEW k \in Nat
    PROVE  /\ [PieceName(k) EXCEPT ![Len(PieceName(k))] = @ + 1] = PieceName(k + 1)
           /\ PieceName(0) = FirstName(output)
           /\ \A j \in Nat : PieceName(j) = PieceName(k) => j = k
<1> DEFINE F == FirstName(output)
<1>1. F \in Seq(Nat) /\ Len(F) \in Nat \ {0} /\ F[Len(F)] \in Nat
    BY FirstNameOK
<1>2. \A j : PieceName(j) = [F EXCEPT ![Len(F)] = @ + j]
    BY DEF PieceName
<1> HIDE DEF F
<1>3. PICK n \in Nat \ {0} : n = Len(F)
    BY <1>1
<1>4. n \in 1 .. n /\ DOMAIN F = 1 .. n /\ F = [m \in 1 .. n |-> F[m]]
    BY <1>1, <1>3
<1>5. ASSUME NEW j \in Nat
      PROVE  /\ PieceName(j) = [m \in 1 .. n |-> IF m = n THEN F[n] + j ELSE F[m]]
             /\ PieceName(j)[n] = F[n] + j /\ Len(PieceName(j)) = n
    <2>1. PieceName(j) = [F EXCEPT ![n] = @ + j]
        BY <1>2, <1>3
    <2>2. PieceName(j) = [m \in 1 .. n |-> IF m = n THEN F[n] + j ELSE F[m]]
        BY <1>4, <2>1
    <2> QED BY <1>4, <2>2
<1>6. [PieceName(k) EXCEPT ![Len(PieceName(k))] = @ + 1] = PieceName(k + 1)
    <2>1. F[n] \in Nat /\ (F[n] + k) + 1 = F[n] + (k + 1) /\ k + 1 \in Nat
        <3>1. F[n] \in Nat
            BY <1>1, <1>3
        <3>2. \A v \in Nat : (v + k) + 1 = v + (k + 1) /\ k + 1 \in Nat
            OBVIOUS
        <3> QED BY ONLY <3>1, <3>2
    <2>2. PieceName(k + 1) = [m \in 1 .. n |-> IF m = n THEN F[n] + (k + 1) ELSE F[m]]
        BY <1>5, <2>1
    <2>3. /\ PieceName(k) = [m \in 1 .. n |-> IF m = n THEN F[n] + k ELSE F[m]]
          /\ Len(PieceName(k)) = n
        BY <1>5
    <2> QED BY <1>4, <2>1, <2>2, <2>3
<1>7. PieceName(0) = F
    <2>1. F[n] + 0 = F[n]
        BY <1>1, <1>3
    <2>2. PieceName(0) = [m \in 1 .. n |-> IF m = n THEN F[n] + 0 ELSE F[m]]
        BY <1>5
    <2> QED BY <1>4, <2>1, <2>2
<1>8. ASSUME NEW j \in Nat, PieceName(j) = PieceName(k) PROVE j = k
    <2>1. PieceName(j)[n] = F[n] + j /\ PieceName(k)[n] = F[n] + k /\ F[n] \in Nat
        BY <1>1, <1>3, <1>5
    <2> QED BY <1>8, <2>1
<1> QED BY <1>6, <1>7, <1>8 DEF F

(* The files are those of the image, which stays.                          *)
LEMMA SamePieces ==
    ASSUME output' = output, argument' = argument, NEW k
    PROVE  /\ Pieces' = Pieces /\ StartAddress' = StartAddress /\ (Long' <=> Long)
           /\ PieceName(k)' = PieceName(k) /\ PieceFile(k)' = PieceFile(k) /\ Content' = Content
<1>1. Pieces' = Pieces /\ StartAddress' = StartAddress /\ Content' = Content /\ (Long' <=> Long)
    BY DEF Pieces, StartAddress, Content, Long
<1>2. PieceName(k)' = PieceName(k)
    BY DEF PieceName, FirstName
<1>3. PieceFile(k)' = PieceFile(k)
    BY <1>1 DEF PieceFile, PieceLen
<1> QED BY <1>1, <1>2, <1>3

LEMMA PiecesStay ==
    ASSUME UNCHANGED <<output, argument, name, i, offset, load_address, disk>>
    PROVE  (Long /\ PiecesWritten) => (Long' /\ PiecesWritten' /\ Pieces' = Pieces)
<1> SUFFICES ASSUME Long, PiecesWritten PROVE Long' /\ PiecesWritten' /\ Pieces' = Pieces
    OBVIOUS
<1>1. Long' /\ Pieces' = Pieces /\ StartAddress' = StartAddress
    BY SamePieces
<1>2. ASSUME NEW k PROVE PieceName(k)' = PieceName(k) /\ PieceFile(k)' = PieceFile(k)
    BY SamePieces
<1>3. name' = PieceName(i)'
    <2>1. PICK m : m = i
        OBVIOUS
    <2>2. PieceName(i)' = PieceName(m)'
        <3>1. i' = m
            BY <2>1
        <3> QED BY ONLY <3>1, Zenon DEF PieceName
    <2>3. name = PieceName(m)
        BY <2>1 DEF PiecesWritten
    <2> QED BY <1>2, <2>2, <2>3
<1>4. i' \in 0 .. Pieces'
    BY <1>1 DEF PiecesWritten
<1>5. ASSUME i' < Pieces'
      PROVE  offset' = HeaderSize' + Before(i)' /\ load_address' = StartAddress' + Before(i)'
    <2>1. Before(i)' = Before(i) /\ HeaderSize' = HeaderSize
        BY DEF Before, Room, HeaderSize
    <2> QED BY <1>1, <1>5, <2>1 DEF PiecesWritten
<1>6. ASSUME NEW k \in 0 .. i' - 1
      PROVE  PieceName(k)' \in DOMAIN disk' /\ disk'[PieceName(k)'] = PieceFile(k)'
    BY <1>2 DEF PiecesWritten
<1> QED BY <1>1, <1>3, <1>4, <1>5, <1>6 DEF PiecesWritten

LEMMA LoadingStays ==
    ASSUME UNCHANGED <<output, argument, name, i, offset, load_address, disk, loading>>, Loading
    PROVE  Loading'
<1>1. CASE i = 0 /\ Len(output) <= FileLimit /\ OneFile
    BY <1>1 DEF Loading, OneFile
<1>2. CASE Long /\ i = Pieces /\ PiecesWritten /\ \E k \in Nat : k < Pieces /\ loading = PieceName(k)
    <2>1. Long' /\ PiecesWritten' /\ Pieces' = Pieces
        BY <1>2, PiecesStay
    <2>2. PICK k \in Nat : k < Pieces /\ loading = PieceName(k)
        BY <1>2
    <2>3. loading' = PieceName(k)'
        BY <2>2, SamePieces
    <2> QED BY <1>2, <2>1, <2>2, <2>3 DEF Loading
<1> QED BY <1>1, <1>2 DEF Loading

(* One step of the chain.                                                  *)
LEMMA ConvertStep ==
    ASSUME Linked, ChainInv, Convert
    PROVE  ChainInv' /\ elf' = elf
<1>1. /\ ImageInv' /\ elf' = elf /\ tool' = tool
    BY ImageStep DEF ChainInv, Convert
<1>2. /\ splitting = "no" /\ i = 0 /\ loading = argument.name /\ tool # "objcopy"
      /\ UNCHANGED <<splitting, argument, i, loading>>
      /\ argument.name \in Seq(Nat) \ {<<>>}
    BY DEF ChainInv, Convert
<1>3. stage' = "convert" => status' = Running
    BY DEF Convert
<1>4. stage' = "split" => status' = 0 /\ at' = "done" /\ tool' = "elf2ea5"
    BY <1>1 DEF Convert, ImageInv, Running
<1>5. stage' = "split" => OneFile'
    BY DEF Convert, OneFile
<1>6. stage' # "load"
    BY DEF Convert
<1> QED BY <1>1, <1>2, <1>3, <1>4, <1>5, <1>6 DEF ChainInv, Converted, Splitting

LEMMA ImageStays ==
    ASSUME ImageInv, UNCHANGED imageVars
    PROVE  ImageInv' /\ elf' = elf
<1>1. Written => Written'
    BY WrittenStill DEF imageVars
<1>2. Count' = Count /\ image_size' = image_size /\ SymbolValue' = SymbolValue
    <2>1. Header' = Header
        BY SameElf DEF imageVars
    <2> QED BY <2>1, SameElf DEF Count, imageVars
<1>3. Reading => Reading'
    BY <1>2, SameElf DEF Reading, RecordAt, imageVars
<1> QED BY <1>1, <1>2, <1>3 DEF ImageInv, imageVars

LEMMA SplitStartStep ==
    ASSUME ChainInv, stage = "split", SplitStart(output), UNCHANGED imageVars, loading' = name'
    PROVE  Long' /\ PiecesWritten' /\ loading' = PieceName(0)'
<1>1. /\ Splitting /\ output \in Seq(Byte) /\ argument.name \in Seq(Nat) \ {<<>>}
    BY DEF ChainInv, ImageInv
<1>2. /\ i = 0 /\ i' = 0 /\ output' = output /\ argument' = argument
      /\ name' = FirstName(output) /\ load_address' = StartAddress /\ offset' = HeaderSize
      /\ Len(output) > FileLimit /\ ~OutsideRam(output)
    BY <1>1 DEF SplitStart, Splitting, imageVars, StartAddress
<1>3. Long
    BY <1>1, <1>2 DEF Long
<1>4. name' = PieceName(0)
    BY <1>1, <1>2, PieceNameOK
<1>5. Long' /\ Pieces' = Pieces /\ StartAddress' = StartAddress /\ PieceName(0)' = PieceName(0)
    BY <1>2, <1>3, SamePieces
<1>6. Before(0)' = 0 /\ HeaderSize' = HeaderSize
    BY BeforeNext DEF Before, Room, HeaderSize
<1>7. /\ Pieces \in Nat /\ StartAddress \in Nat /\ HeaderSize = 6
    BY <1>3, LongFacts, RoomOK
<1>8. i' \in 0 .. Pieces' /\ name' = PieceName(i)'
    <2>1. i' = 0
        BY <1>2
    <2>2. PieceName(i)' = PieceName(0)'
        BY ONLY <2>1, Zenon DEF PieceName
    <2> QED BY <1>2, <1>4, <1>5, <1>7, <2>2
<1>9. offset' = HeaderSize' + Before(i)' /\ load_address' = StartAddress' + Before(i)'
    BY <1>2, <1>5, <1>6, <1>7 DEF Before
<1> QED BY <1>2, <1>4, <1>5, <1>8, <1>9 DEF PiecesWritten

LEMMA WritePieceStep ==
    ASSUME ChainInv, stage = "split", WritePiece(output), UNCHANGED imageVars
    PROVE  Long' /\ PiecesWritten' /\ PieceName(0)' = PieceName(0) /\ loading = PieceName(0)
<1>1. /\ Long /\ PiecesWritten /\ loading = PieceName(0) /\ argument.name \in Seq(Nat) \ {<<>>}
    BY DEF ChainInv, Splitting, WritePiece
<1>2. /\ output' = output /\ argument' = argument /\ i' = i + 1 /\ i < Pieces
    BY DEF WritePiece, imageVars, Pieces
<1>3. /\ Pieces \in Nat /\ StartAddress \in Nat /\ Content \in Nat /\ HeaderSize = 6
      /\ Len(output) = HeaderSize + Content /\ Room \in Nat
    BY <1>1, LongFacts, RoomOK
<1>4. /\ i \in 0 .. Pieces - 1 /\ i \in Nat
      /\ offset = HeaderSize + Before(i) /\ load_address = StartAddress + Before(i)
      /\ name = PieceName(i)
    BY <1>1, <1>2, <1>3 DEF PiecesWritten
<1>5. /\ Before(i) \in Nat /\ PieceLen(i) \in Nat
      /\ i + 1 < Pieces => Before(i + 1) = Before(i) + PieceLen(i)
    BY <1>1, <1>4, PieceFacts
<1> DEFINE rest == Len(output) - offset
           l2 == IF rest > FileLimit - HeaderSize THEN FileLimit - HeaderSize ELSE rest
           more == IF i = files_number(output) - 1 THEN 0 ELSE 65535
           content == write16(more) \o write16(l2) \o write16(load_address)
                        \o SubSeq(output, offset + 1, offset + l2)
<1>6. l2 = PieceLen(i)
    <2>1. rest = Content - Before(i)
        BY <1>3, <1>4, <1>5
    <2> HIDE DEF rest
    <2> QED BY <2>1 DEF PieceLen, Room
<1>7. /\ disk' = [n \in DOMAIN disk \union {name} |-> IF n = name THEN content ELSE disk[n]]
      /\ load_address' = load_address + l2 /\ offset' = offset + l2
      /\ name' = [name EXCEPT ![Len(name)] = @ + 1]
    BY DEF WritePiece
<1> HIDE DEF l2
<1>8. content = PieceFile(i)
    BY <1>4, <1>6 DEF PieceFile, Pieces
<1> HIDE DEF content
<1>9. /\ Long' /\ Pieces' = Pieces /\ StartAddress' = StartAddress
    BY <1>1, <1>2, SamePieces
<1>10. ASSUME NEW k PROVE PieceName(k)' = PieceName(k) /\ PieceFile(k)' = PieceFile(k)
    BY <1>2, SamePieces
<1>11. name' = PieceName(i + 1)
    BY <1>1, <1>4, <1>7, PieceNameOK
<1>12. ASSUME i + 1 < Pieces
       PROVE  offset' = HeaderSize + Before(i + 1) /\ load_address' = StartAddress + Before(i + 1)
    <2>1. Before(i + 1) = Before(i) + l2
        BY ONLY <1>5, <1>6, <1>12
    <2>2. offset' = offset + l2 /\ load_address' = load_address + l2
        BY ONLY <1>7
    <2>3. /\ Before(i) \in Nat /\ l2 \in Nat /\ HeaderSize \in Nat /\ StartAddress \in Nat
        BY ONLY <1>3, <1>5, <1>6
    <2>4. \A b, n, h \in Nat : (h + b) + n = h + (b + n)
        OBVIOUS
    <2> QED BY ONLY <1>4, <2>1, <2>2, <2>3, <2>4
<1>13. ASSUME NEW k \in 0 .. (i + 1) - 1
       PROVE  PieceName(k) \in DOMAIN disk' /\ disk'[PieceName(k)] = PieceFile(k)
    <2>1. CASE k = i
        BY <1>4, <1>7, <1>8, <2>1
    <2>2. CASE k # i
        <3>1. k \in 0 .. i - 1 /\ k \in Nat
            BY <1>4, <2>2
        <3>2. PieceName(k) \in DOMAIN disk /\ disk[PieceName(k)] = PieceFile(k)
            BY <1>1, <3>1 DEF PiecesWritten
        <3>3. PieceName(k) # name
            BY <1>1, <1>4, <2>2, <3>1, PieceNameOK
        <3> QED BY <1>7, <3>2, <3>3
    <2> QED BY <2>1, <2>2
<1>14. PiecesWritten'
    <2>1. i' \in 0 .. Pieces' /\ name' = PieceName(i)'
        <3>1. PieceName(i)' = PieceName(i + 1)
            <4>1. PICK m : m = i + 1
                OBVIOUS
            <4>2. i' = m
                BY <1>2, <4>1
            <4>3. PieceName(i)' = PieceName(m)'
                BY ONLY <4>2, Zenon DEF PieceName
            <4>4. PieceName(m)' = PieceName(m)
                BY <1>10
            <4> QED BY ONLY <4>1, <4>3, <4>4, Zenon
        <3> QED BY <1>2, <1>3, <1>4, <1>9, <1>10, <1>11, <3>1
    <2>2. ASSUME i' < Pieces'
          PROVE  offset' = HeaderSize' + Before(i)' /\ load_address' = StartAddress' + Before(i)'
        <3>1. Before(i)' = Before(i + 1) /\ HeaderSize' = HeaderSize
            BY <1>2 DEF Before, Room, HeaderSize
        <3> QED BY <1>2, <1>9, <1>12, <2>2, <3>1
    <2>3. ASSUME NEW k \in 0 .. i' - 1
          PROVE  PieceName(k)' \in DOMAIN disk' /\ disk'[PieceName(k)'] = PieceFile(k)'
        BY <1>2, <1>10, <1>13
    <2> QED BY <2>1, <2>2, <2>3 DEF PiecesWritten
<1> QED BY <1>1, <1>9, <1>10, <1>14

LEMMA SplitStep ==
    ASSUME Linked, ChainInv, Split
    PROVE  ChainInv' /\ elf' = elf
<1>1. /\ stage = "split" /\ SplitNext(output) /\ UNCHANGED imageVars
      /\ loading' = IF splitting' = "pieces" /\ splitting = "no" THEN name' ELSE loading
      /\ stage' = CASE splitting' = "done" -> "load"
                    [] splitting' \in {"refused", "crashed"} -> splitting'
                    [] OTHER -> "split"
    BY DEF Split
<1>2. ImageInv' /\ elf' = elf /\ Converted /\ Converted' /\ Splitting
    BY <1>1, ImageStays DEF ChainInv, Converted, imageVars
<1>3. argument' = argument /\ output' = output /\ argument.name \in Seq(Nat) \ {<<>>}
    BY <1>1 DEF SplitNext, SplitNothing, SplitRefused, SplitCrash, SplitStart, WritePiece, SplitEnd,
                imageVars, ChainInv
<1>4. stage' # "convert"
    BY <1>1
<1>5. CASE SplitNothing(output)
    <2>1. stage' = "load" /\ i' = i /\ disk' = disk
        BY <1>1, <1>5 DEF SplitNothing
    <2>2. i = 0 /\ OneFile /\ Len(output) <= FileLimit
        BY <1>2, <1>5 DEF SplitNothing, Splitting
    <2>3. Loading'
        BY <1>3, <2>1, <2>2 DEF Loading, OneFile
    <2> QED BY <1>2, <1>3, <2>1, <2>3 DEF ChainInv
<1>6. CASE SplitRefused(output) \/ SplitCrash(output)
    <2>1. stage' \in {"refused", "crashed"}
        BY <1>1, <1>6 DEF SplitRefused, SplitCrash
    <2> QED BY <1>2, <1>3, <2>1 DEF ChainInv
<1>7. CASE SplitStart(output)
    <2>1. stage' = "split" /\ splitting' = "pieces" /\ loading' = name'
        BY <1>1, <1>7 DEF SplitStart
    <2>2. Long' /\ PiecesWritten' /\ loading' = PieceName(0)'
        BY <1>1, <1>7, <2>1, SplitStartStep
    <2>3. Splitting'
        BY <2>1, <2>2 DEF Splitting
    <2> QED BY <1>2, <1>3, <2>1, <2>3 DEF ChainInv
<1>8. CASE WritePiece(output)
    <2>1. stage' = "split" /\ splitting' = "pieces" /\ loading' = loading
        BY <1>1, <1>8 DEF WritePiece
    <2>2. Long' /\ PiecesWritten' /\ PieceName(0)' = PieceName(0) /\ loading = PieceName(0)
        BY <1>1, <1>8, WritePieceStep
    <2>3. Splitting'
        BY <2>1, <2>2 DEF Splitting
    <2> QED BY <1>2, <1>3, <2>1, <2>3 DEF ChainInv
<1>9. CASE SplitEnd(output)
    <2>1. /\ stage' = "load" /\ loading' = loading /\ i = files_number(output) /\ splitting = "pieces"
          /\ UNCHANGED <<argument, name, i, offset, load_address, disk>>
        BY <1>1, <1>9 DEF SplitEnd
    <2>2. Long /\ PiecesWritten /\ loading = PieceName(0)
        BY <1>2, <2>1 DEF Splitting
    <2>3. i = Pieces /\ 0 \in Nat /\ 0 < Pieces
        BY <2>1, <2>2, LongFacts DEF Pieces
    <2>4. Loading
        BY <2>2, <2>3 DEF Loading
    <2>5. Loading'
        BY <1>3, <2>1, <2>4, LoadingStays
    <2> QED BY <1>2, <1>3, <2>1, <2>5 DEF ChainInv
<1> QED BY <1>1, <1>5, <1>6, <1>7, <1>8, <1>9 DEF SplitNext

(* What the loader reads from piece k sends it to piece k + 1.             *)
LEMMA LoadStep ==
    ASSUME Linked, ChainInv, Load
    PROVE  ChainInv' /\ elf' = elf
<1>1. /\ stage = "load" /\ UNCHANGED imageVars /\ UNCHANGED splitVars
      /\ loading' = IF loading \in DOMAIN disk
                    THEN [loading EXCEPT ![Len(loading)] = @ + 1] ELSE loading
      /\ stage' = IF loading \in DOMAIN disk
                  THEN IF WordAt(disk[loading], 1) = 0 THEN "record" ELSE "load" ELSE "not found"
    BY DEF Load
<1>2. ImageInv' /\ elf' = elf /\ Converted' /\ Loading /\ argument.name \in Seq(Nat) \ {<<>>}
    BY <1>1, ImageStays DEF ChainInv, Converted, imageVars
<1>3. /\ argument' = argument /\ output' = output
      /\ UNCHANGED <<argument, name, i, offset, load_address, disk>>
    BY <1>1 DEF imageVars, splitVars
<1>4. stage' \in {"record", "load", "not found"}
    BY <1>1
<1>5. ASSUME stage' = "load" PROVE Loading'
    <2>1. loading \in DOMAIN disk /\ WordAt(disk[loading], 1) # 0
          /\ loading' = [loading EXCEPT ![Len(loading)] = @ + 1]
        BY <1>1, <1>5
    <2>2. CASE i = 0 /\ Len(output) <= FileLimit /\ OneFile
        BY <1>3, <2>2 DEF Loading, OneFile
    <2>3. CASE Long /\ i = Pieces /\ PiecesWritten /\ \E k \in Nat : k < Pieces /\ loading = PieceName(k)
        <3>1. PICK k \in Nat : k < Pieces /\ loading = PieceName(k)
            BY <2>3
        <3>2. Pieces \in Nat /\ k \in 0 .. Pieces - 1
            BY <2>3, <3>1, LongFacts
        <3>3. disk[loading] = PieceFile(k)
            BY <2>3, <3>1, <3>2 DEF PiecesWritten
        <3>4. k # Pieces - 1
            BY <2>1, <2>3, <3>2, <3>3, PieceFileFacts
        <3>5. k + 1 \in Nat /\ k + 1 < Pieces
            BY <3>2, <3>4
        <3>6. loading' = PieceName(k + 1)
            BY <1>2, <2>1, <3>1, PieceNameOK
        <3>7. PICK m \in Nat : m = k + 1
            BY <3>5
        <3>8. m < Pieces' /\ loading' = PieceName(m)'
            BY <1>3, <3>5, <3>6, <3>7, SamePieces
        <3>9. Long' /\ i' = Pieces' /\ PiecesWritten'
            BY <1>3, <2>3, PiecesStay
        <3> QED BY <3>8, <3>9 DEF Loading
    <2> QED BY <1>2, <2>2, <2>3 DEF Loading
<1> QED BY <1>1, <1>2, <1>3, <1>4, <1>5 DEF ChainInv

(* The other programs do not write images or files.                        *)
LEMMA OtherStep ==
    ASSUME Linked, ChainInv,
           Plug \/ FollowRecord \/ FollowNothing \/ Start \/ StartUpStep \/ UNCHANGED vars
    PROVE  ChainInv' /\ elf' = elf
<1>1. UNCHANGED imageVars /\ UNCHANGED splitVars /\ loading' = loading
    BY DEF Plug, FollowRecord, FollowNothing, Start, StartUpStep, vars
<1>2. ImageInv' /\ elf' = elf
    BY <1>1, ImageStays DEF ChainInv
<1>3. argument' = argument /\ argument.name \in Seq(Nat) \ {<<>>}
    BY <1>1 DEF splitVars, ChainInv
<1>4. CASE UNCHANGED vars
    <2>1. stage' = stage
        BY <1>4 DEF vars
    <2>2. Loading => Loading'
        BY <1>1, LoadingStays DEF imageVars, splitVars
    <2>3. Splitting => Splitting'
        <3>1. ASSUME Long, PiecesWritten, loading = PieceName(0)
              PROVE  Long' /\ PiecesWritten' /\ loading' = PieceName(0)'
            BY <1>1, <3>1, PiecesStay, SamePieces DEF imageVars, splitVars
        <3> QED BY <1>1, <3>1 DEF Splitting, OneFile, imageVars, splitVars
    <2> QED BY <1>1, <1>2, <1>3, <2>1, <2>2, <2>3 DEF ChainInv, Converted, imageVars, splitVars
<1>5. CASE Plug \/ FollowRecord \/ FollowNothing \/ Start \/ StartUpStep
    <2>1. stage' \in {"record", "main", "_start2"}
        BY <1>5 DEF Plug, FollowRecord, FollowNothing, Start, StartUpStep
    <2> QED BY <1>2, <1>3, <2>1 DEF ChainInv
<1> QED BY <1>4, <1>5

LEMMA LinkedStays == ASSUME Linked, elf' = elf PROVE Linked'
<1>1. text_section' = text_section /\ data_section' = data_section /\ bss_section' = bss_section
    BY DEF text_section, data_section, bss_section, Named, LastOf
<1>2. symtab_section' = symtab_section /\ strtab_section' = strtab_section
    BY DEF symtab_section, strtab_section, Typed, LastOf
<1>3. SymbolValue' = SymbolValue
    BY <1>2 DEF SymbolValue
<1> QED BY <1>1, <1>3 DEF Linked

LEMMA ToolStays ==
    ASSUME [Next]_vars, Linked, ChainInv
    PROVE  elf' = elf /\ tool' = tool
<1>1. ASSUME Convert PROVE elf' = elf /\ tool' = tool
    BY <1>1, ImageStep DEF Convert, ChainInv
<1> QED BY <1>1 DEF Next, Work, Ended, Split, Load, Plug, FollowRecord, FollowNothing, Start, StartUpStep,
                    vars, imageVars

LEMMA ChainStep ==
    ASSUME Linked, ChainInv, [Next]_vars
    PROVE  ChainInv' /\ Linked'
<1>1. ChainInv' /\ elf' = elf
    BY ConvertStep, SplitStep, LoadStep, OtherStep DEF Next, Work, Ended
<1> QED BY <1>1, LinkedStays

LEMMA WiderSeq ==
    ASSUME NEW S, NEW T, S \subseteq T, NEW s \in Seq(S)
    PROVE  s \in Seq(T)
<1> DEFINE n == Len(s)
<1>1. s = [k \in 1 .. n |-> s[k]] /\ \A k \in 1 .. n : s[k] \in T
    OBVIOUS
<1>2. [k \in 1 .. n |-> s[k]] \in Seq(T)
    BY <1>1
<1> QED BY <1>1, <1>2

LEMMA ChainInit == Init => ChainInv
<1> SUFFICES ASSUME Init PROVE ChainInv
    OBVIOUS
<1>1. /\ tool \in Tools /\ at = "headers" /\ position = 0 /\ init_data_addr = 0 /\ output = <<>>
      /\ status = Running
      /\ splitting = "no" /\ argument \in Argument /\ i = 0 /\ loading = argument.name
      /\ stage \in {"convert", "start"} /\ (stage = "convert" => tool # "objcopy")
    <2>1. CASE InitConvert
        BY <2>1, ImagesAssumption DEF InitConvert, ImageInit, InitSplit, Tools
    <2>2. CASE InitExample
        BY <2>2 DEF InitExample, ImageInit, InitSplit, Tools
    <2> QED BY <2>1, <2>2 DEF Init
<1>2. argument.name \in Seq(Nat) \ {<<>>}
    <2>1. PICK s : s = argument.name
        OBVIOUS
    <2>2. s \in Seq(1 .. 127) /\ s # <<>>
        BY <1>1, <2>1, ImagesAssumption
    <2>3. s \in Seq(Nat)
        BY ONLY <2>2, 1 .. 127 \subseteq Nat, WiderSeq
    <2> QED BY ONLY <2>1, <2>2, <2>3
<1>3. ImageInv
    BY <1>1 DEF ImageInv, Running
<1> QED BY <1>1, <1>2, <1>3 DEF ChainInv

(***************************************************************************)
(* The files of ea5split suit the loader and the memory.                   *)
(***************************************************************************)
\* What ea5split does not look at: where the program starts.
StartsInRam ==
    tool = "elf2ea5" => /\ text_section.addr < 65536
                        /\ text_section.addr < LowRamEnd \/ text_section.addr >= HighRamStart

\* Nor whether it reaches from the lower part of the RAM to the upper one.
SpansGap ==
    /\ tool = "elf2ea5" /\ LowRamEnd < HighRamStart
    /\ text_section.addr < LowRamEnd /\ text_section.addr + image_size > HighRamStart

(* The header elf2ea5 has written is the one ea5split and the loader read. *)
LEMMA HeaderRead ==
    ASSUME Linked, text_section.addr < 65536, ChainInv, Converted
    PROVE  /\ StartAddress = text_section.addr /\ Content = image_size
           /\ WordAt(output, 1) = 0
           /\ image_size + 6 < 65536 => WordAt(output, 3) = image_size + 6
<1> DEFINE values == <<0, image_size + 6, text_section.addr>>
           addr == text_section.addr
<1>1. /\ Written /\ Reading /\ output \in Seq(Byte) /\ tool = "elf2ea5"
    BY DEF ChainInv, Converted, ImageInv
<1>2. /\ Header = Words(values) /\ Len(Header) = 6
    BY <1>1, HeaderOK DEF Header, EaHeader
<1>3. addr \in Nat /\ addr < 65536 /\ image_size \in Nat
    BY <1>1, SizesOK
<1>4. Content = image_size
    <2>1. Count = image_size
        BY <1>1 DEF Reading, Converted
    <2>2. Count = Len(output) - 6 /\ Content = Len(output) - 6
        <3>1. Len(Header) = 6
            BY <1>2
        <3> QED BY ONLY <3>1 DEF Count, Content, HeaderSize
    <2> QED BY ONLY <2>1, <2>2
<1>5. /\ values \in Seq(Nat) /\ Len(values) = 3
      /\ values[1] = 0 /\ values[2] = image_size + 6 /\ values[3] = addr
    BY <1>3
<1> HIDE DEF values
<1>6. ASSUME NEW j \in 1 .. 3, NEW v \in UWord, values[j] = v
      PROVE  WordAt(output, (2 * j) - 1) = v
    <2>1. j \in 1 .. Len(values)
        BY <1>5
    <2>2. Words(values)[2 * j - 1] = Word(v)[1] /\ Words(values)[2 * j] = Word(v)[2]
        <3>1. values \in Seq(Nat)
            BY <1>5
        <3>2. Words(values)[2 * j - 1] = Word(values[j])[1] /\ Words(values)[2 * j] = Word(values[j])[2]
            BY ONLY <2>1, <3>1, WordsBytes, Zenon
        <3> QED BY ONLY <1>6, <3>2
    <2>3. (Word(v)[1] * 256) + Word(v)[2] = v
        <3>1. v % 65536 = v /\ v \in Nat
            BY DEF UWord
        <3> QED BY <3>1, WordBytes
    <2>4. (2 * j) - 1 \in 1 .. Len(Header) /\ 2 * j \in 1 .. Len(Header) /\ ((2 * j) - 1) + 1 = 2 * j
        BY <1>2
    <2>5. output[(2 * j) - 1] = Word(v)[1] /\ output[2 * j] = Word(v)[2]
        BY <1>1, <1>2, <2>2, <2>4 DEF Written
    <2> QED BY ONLY <2>3, <2>4, <2>5 DEF WordAt
<1> HIDE DEF addr
<1>7. WordAt(output, 1) = 0 /\ StartAddress = addr
    <2>1. 0 \in UWord /\ addr \in UWord /\ 1 \in 1 .. 3 /\ 3 \in 1 .. 3 /\ (2 * 1) - 1 = 1 /\ (2 * 3) - 1 = 5
        BY <1>3 DEF UWord
    <2>2. WordAt(output, (2 * 1) - 1) = 0 /\ WordAt(output, (2 * 3) - 1) = addr
        BY <1>5, <1>6, <2>1
    <2> QED BY <2>1, <2>2 DEF StartAddress
<1>8. ASSUME image_size + 6 < 65536 PROVE WordAt(output, 3) = image_size + 6
    <2> DEFINE v == image_size + 6
    <2>1. v \in UWord /\ 2 \in 1 .. 3 /\ (2 * 2) - 1 = 3
        BY <1>3, <1>8 DEF UWord
    <2>2. values[2] = v
        BY <1>5
    <2> HIDE DEF v
    <2>3. WordAt(output, (2 * 2) - 1) = v
        BY <1>6, <2>1, <2>2
    <2> QED BY <2>1, <2>3 DEF v
<1> QED BY <1>4, <1>7, <1>8 DEF addr

LEMMA Loadable == ASSUME Linked, StartsInRam, ~SpansGap, ChainInv PROVE PiecesLoadable
<1> SUFFICES ASSUME stage = "load", loading \in DOMAIN disk PROVE PiecesLoadable
    BY DEF PiecesLoadable
<1>1. Loading /\ Converted /\ tool = "elf2ea5"
    BY DEF ChainInv, Converted
<1>2. CASE i = 0 /\ Len(output) <= FileLimit /\ OneFile
    <2>1. disk[loading] = output
        BY <1>2 DEF OneFile
    <2> QED BY <1>2, <2>1 DEF PiecesLoadable
<1>3. CASE Long /\ i = Pieces /\ PiecesWritten /\ \E k \in Nat : k < Pieces /\ loading = PieceName(k)
    <2>1. PICK k \in Nat : k < Pieces /\ loading = PieceName(k)
        BY <1>3
    <2>2. k \in 0 .. Pieces - 1
        BY <1>3, <2>1, LongFacts
    <2> DEFINE file == PieceFile(k)
    <2>3. disk[loading] = file
        BY <1>3, <2>1, <2>2 DEF PiecesWritten
    <2>4. /\ Len(file) <= FileLimit
          /\ WordAt(file, 3) = PieceLen(k) /\ WordAt(file, 5) = StartAddress + Before(k)
        BY <1>3, <2>2, PieceFileFacts
    <2> HIDE DEF file
    <2>5. /\ Before(k) \in Nat /\ PieceLen(k) \in Nat /\ Before(k) + PieceLen(k) <= Content
        BY <1>3, <2>2, PieceFacts
    <2>6. /\ StartAddress \in Nat /\ Content \in Nat /\ Len(output) = HeaderSize + Content
          /\ StartAddress + Content - 1 < AddressEnd
          /\ StartAddress + Content - 1 < LowRamEnd \/ StartAddress + Content - 1 >= HighRamStart
        <3>1. /\ StartAddress \in Nat /\ Content \in Nat /\ Len(output) = HeaderSize + Content
            BY <1>3, LongFacts
        <3> DEFINE last == StartAddress + Content - 1
        <3>2. WordAt(output, 5) + Len(output) - HeaderSize - 1 = last /\ last \in Int
            BY <3>1, RoomOK DEF StartAddress
        <3>3. ~(last >= AddressEnd) /\ ~(last >= LowRamEnd /\ last < HighRamStart)
            BY <1>3, <3>2 DEF Long, OutsideRam
        <3> HIDE DEF last
        <3>4. last < AddressEnd /\ (last < LowRamEnd \/ last >= HighRamStart)
            BY <3>2, <3>3, Ea5SplitAssumption
        <3> QED BY <3>1, <3>4 DEF last
    <2>7. ASSUME NEW a \in StartAddress + Before(k) .. StartAddress + Before(k) + PieceLen(k) - 1
          PROVE  a \in Address /\ (a < LowRamEnd \/ a >= HighRamStart)
        <3>1. a \in Nat /\ StartAddress <= a /\ a <= StartAddress + Content - 1
            BY <2>5, <2>6
        <3>2. Content = image_size /\ (StartAddress < LowRamEnd \/ StartAddress >= HighRamStart)
            <4>1. /\ text_section.addr < 65536
                  /\ text_section.addr < LowRamEnd \/ text_section.addr >= HighRamStart
                BY <1>1 DEF StartsInRam
            <4> QED BY <1>1, <4>1, HeaderRead
        <3>3. \/ StartAddress >= HighRamStart \/ StartAddress + Content <= HighRamStart
              \/ ~(LowRamEnd < HighRamStart)
            <4>1. StartAddress = text_section.addr
                BY <1>1, HeaderRead, StartsInRam DEF StartsInRam
            <4>2. ~(StartAddress < LowRamEnd /\ StartAddress + Content > HighRamStart)
                      \/ ~(LowRamEnd < HighRamStart)
                BY <1>1, <3>2, <4>1 DEF SpansGap
            <4> QED BY <2>6, <3>2, <4>2, Ea5SplitAssumption
        <3> QED BY <2>6, <2>7, <3>1, <3>2, <3>3, Ea5SplitAssumption DEF Address
    <2> QED BY <2>3, <2>4, <2>7 DEF PiecesLoadable
<1> QED BY <1>1, <1>2, <1>3 DEF Loading

(* Where a program is linked to does not change.                           *)
LEMMA PlaceStays ==
    ASSUME ChainInv, Linked, [Next]_vars
    PROVE  /\ ChainInv' /\ Linked'
           /\ (StartsInRam' <=> StartsInRam) /\ (SpansGap' <=> SpansGap)
<1>1. ChainInv' /\ Linked'
    BY ChainStep
<1>2. elf' = elf /\ tool' = tool
    BY ToolStays
<1>3. text_section' = text_section /\ image_size' = image_size
    BY ONLY <1>2, SameElf
<1>4. (StartsInRam' <=> StartsInRam) /\ (SpansGap' <=> SpansGap)
    BY ONLY <1>2, <1>3 DEF StartsInRam, SpansGap
<1> QED BY <1>1, <1>4

(* ea5split and the loader: every file the loader comes to - the image     *)
(* itself or any of the pieces - is short enough for it, and every piece   *)
(* is loaded into RAM, whatever the sizes of the sections and the limits   *)
(* are and the pieces are called, for a program that starts in the RAM and *)
(* does not reach over the gap in it.                                      *)
THEOREM PiecesCorrect == Spec /\ Linked /\ StartsInRam /\ ~SpansGap => []PiecesLoadable
<1>1. Init /\ Linked => ChainInv
    BY ChainInit
<1>2. ChainInv /\ Linked /\ StartsInRam /\ ~SpansGap /\ [Next]_vars
          => (ChainInv /\ Linked /\ StartsInRam /\ ~SpansGap)'
    BY PlaceStays
<1>3. ChainInv /\ Linked /\ StartsInRam /\ ~SpansGap => PiecesLoadable
    BY Loadable
<1> QED BY <1>1, <1>2, <1>3, PTL DEF Spec

(***************************************************************************)
(* The other programs: ea5split looks at the last address alone.           *)
(***************************************************************************)
LoadsInto(file, a) == a \in WordAt(file, 5) .. WordAt(file, 5) + WordAt(file, 3) - 1

\* A file for the first address of the gap is among the pieces.
GapOverlooked ==
    stage = "load" /\ i > 0 => \E n \in DOMAIN disk : LoadsInto(disk[n], LowRamEnd)

(* Each byte of the image is in a piece.                                   *)
LEMMA PieceOf ==
    ASSUME Long, NEW b \in Nat, b < Content
    PROVE  \E k \in 0 .. Pieces - 1 : Before(k) <= b /\ b < Before(k) + PieceLen(k)
<1> DEFINE S == Room  C == Content  r == C % S  m == C \div S
           k == b \div S
<1>1. S \in Nat \ {0} /\ C \in Nat /\ C > S
    BY LongFacts, RoomOK
<1>2. Pieces = m + (IF r = 0 THEN 0 ELSE 1)
    BY DEF Pieces, files_number, Content, Room
<1> HIDE DEF S, C
<1>3. m \in Int /\ r \in 0 .. S - 1 /\ C = m * S + r
    BY <1>1, Division
<1>4. k \in Int /\ b % S \in 0 .. S - 1 /\ b = k * S + (b % S)
    BY <1>1, Division
<1> HIDE DEF r, m, k
<1>5. k \in Nat /\ k * S <= b /\ b < k * S + S
    <2>1. k * S \in Int /\ k * S <= b /\ b < k * S + S
        BY <1>1, <1>4
    <2>2. CASE k <= -1
        <3>1. k * S <= -S
            BY <1>1, <1>4, <2>2
        <3> QED BY <1>1, <2>1, <3>1
    <2> QED BY <1>4, <2>1, <2>2
<1>6. k < Pieces
    <2>1. CASE k >= m + 1
        <3>1. k * S >= m * S + S
            BY <1>1, <1>3, <1>4, <2>1
        <3>2. m * S \in Int
            BY <1>1, <1>3
        <3> QED BY <1>1, <1>3, <1>5, <3>1, <3>2 DEF C
    <2>2. CASE k = m
        <3>1. m * S \in Int /\ r # 0
            BY <1>1, <1>3, <1>5, <2>2 DEF C
        <3> QED BY <1>2, <1>3, <2>2, <3>1
    <2> QED BY <1>2, <1>3, <1>4, <2>1, <2>2
<1>7. k \in 0 .. Pieces - 1
    BY <1>5, <1>6, LongFacts
<1>8. Before(k) <= b /\ b < Before(k) + PieceLen(k)
    BY <1>1, <1>5 DEF Before, PieceLen, S, C
<1> QED BY <1>7, <1>8

LEMMA Overlooked == ASSUME Linked, SpansGap, ChainInv PROVE GapOverlooked
<1> SUFFICES ASSUME stage = "load", i > 0 PROVE \E n \in DOMAIN disk : LoadsInto(disk[n], LowRamEnd)
    BY DEF GapOverlooked
<1>1. Converted /\ Long /\ i = Pieces /\ PiecesWritten
    BY DEF ChainInv, Loading
<1> DEFINE addr == text_section.addr
<1>2. /\ addr \in Nat /\ image_size \in Nat /\ addr < LowRamEnd /\ addr + image_size > HighRamStart
      /\ LowRamEnd \in Nat /\ HighRamStart \in Nat /\ LowRamEnd < HighRamStart
      /\ LowRamEnd <= 65536
    BY SizesOK, Ea5SplitAssumption DEF SpansGap, Linked
<1>3. StartAddress = addr /\ Content = image_size
    BY <1>1, <1>2, HeaderRead
<1> HIDE DEF addr
<1>4. PICK b \in Nat : b = LowRamEnd - StartAddress
    BY <1>2, <1>3
<1>5. b < Content
    BY <1>2, <1>3, <1>4
<1>6. PICK k \in 0 .. Pieces - 1 : Before(k) <= b /\ b < Before(k) + PieceLen(k)
    BY <1>1, <1>5, PieceOf
<1>7. PieceName(k) \in DOMAIN disk /\ disk[PieceName(k)] = PieceFile(k)
    BY <1>1, <1>6 DEF PiecesWritten
<1>8. WordAt(PieceFile(k), 3) = PieceLen(k) /\ WordAt(PieceFile(k), 5) = StartAddress + Before(k)
    BY <1>1, <1>6, PieceFileFacts
<1>9. Before(k) \in Nat /\ PieceLen(k) \in Nat
    BY <1>1, <1>6, PieceFacts
<1>10. LoadsInto(disk[PieceName(k)], LowRamEnd)
    BY <1>2, <1>3, <1>4, <1>6, <1>7, <1>8, <1>9 DEF LoadsInto
<1> QED BY <1>7, <1>10

(* A program that spans the gap is not refused: when the loader starts on  *)
(* its pieces, one of them is for the first address where there is no RAM, *)
(* whatever the sizes and limits are.  It is the case that PiecesCorrect   *)
(* excludes, and the message of ea5split.c:37 does not appear for it.      *)
THEOREM SpanningIsSplit == Spec /\ Linked /\ SpansGap => []GapOverlooked
<1>1. Init /\ Linked => ChainInv
    BY ChainInit
<1>2. ChainInv /\ Linked /\ SpansGap /\ [Next]_vars => (ChainInv /\ Linked /\ SpansGap)'
    BY PlaceStays
<1>3. ChainInv /\ Linked /\ SpansGap => GapOverlooked
    BY Overlooked
<1> QED BY <1>1, <1>2, <1>3, PTL DEF Spec
-----------------------------------------------------------------------------
(***************************************************************************)
(* main finds the program as it was linked, whichever way it has come      *)
(* into memory, and _start2 writes only where it may.                      *)
(***************************************************************************)

(***************************************************************************)
(* How a program is linked: its sections are apart and inside the address  *)
(* space, a cartridge starts where it appears.                             *)
(***************************************************************************)
Overlap(section, other) == \E a \in Extent(section) : a \in Extent(other)

\* A section of the examples, up to the end of its last word, and their ROM.
Rounded(section) == section.addr .. Even(section.addr + section.size) - 1
ValStart == Even(text_section.addr + text_section.size)
Rom == text_section.addr .. ValStart + data_section.size - 1

Complete(section) == section.offset + section.size <= Len(elf.bytes)

LaidOut ==
    /\ \A section \in {text_section, data_section, bss_section} :
          section.addr < 65536 /\ section.size < 65536
    /\ text_section.addr + image_size <= 65536
    /\ ~Overlap(text_section, data_section) /\ ~Overlap(text_section, bss_section)
    /\ ~Overlap(data_section, bss_section)
    /\ data_section.addr = 0 => data_section.size = 0
    /\ tool = "elf2cart" => text_section.addr = RomStart
    /\ tool = "objcopy" =>
          /\ Complete(text_section) /\ Complete(data_section)
          /\ \A a \in Rom : a \notin Rounded(data_section) /\ a \notin Rounded(bss_section)
          /\ \A a \in Extent(data_section) : a \notin Rounded(bss_section)
          /\ unit = 2 => data_section.addr % 2 = 0 /\ bss_section.addr % 2 = 0

(***************************************************************************)
(* What is in memory.                                                      *)
(***************************************************************************)
InMemory(n) == \A k \in 1 .. n : Peek(mem, text_section.addr + k - 1) = ImageByte(k)

TextReady == InPlace(text_section, RecordBytes)
DataReady == InPlace(data_section, {})
BssReady == \A a \in Extent(bss_section) : Peek(mem, a) = 0
Ready == TextReady /\ DataReady /\ BssReady

\* A program that an image maker has taken.
Loaded ==
    /\ stage \in {"convert", "split", "load", "plug", "record",
                  "main", "refused", "crashed", "not found"}
    /\ stage \in {"plug", "record"} => status = 0 /\ at = "done"
    /\ stage = "plug" => tool = "elf2cart"
    /\ stage = "load" /\ i > 0 =>
          \A k \in 0 .. Pieces - 1 : loading = PieceName(k) => InMemory(Before(k))
    /\ stage = "record" /\ Prepared => InMemory(image_size)
    /\ IF stage = "main" THEN reached = "main" /\ (Prepared => Ready) ELSE reached = "reset"

\* A program for _start2.
DataByte(a) == elf.bytes[data_section.offset + 1 + a - data_section.addr]

InRom ==
    /\ TextReady
    /\ \A k \in 1 .. data_section.size :
          Peek(mem, ValStart + k - 1) = elf.bytes[data_section.offset + k]

Symbols ==
    /\ unit \in {1, 2}
    /\ layout.val_start = ValStart
    /\ layout.data_start = data_section.addr
    /\ layout.data_end = data_section.addr + data_section.size
    /\ layout.bss_start = bss_section.addr
    /\ layout.bss_end = bss_section.addr + bss_section.size
    /\ constructors \in Seq(STRING)

\* The constructors called are the first ones.
CalledInOrder ==
    /\ called \in Seq(STRING)
    /\ Len(called) <= Len(constructors)
    /\ \A k \in 1 .. Len(called) : called[k] = constructors[k]

\* The loops of _start2 have done what lies below dst.
Copying ==
    /\ dst \in Nat /\ dst >= data_section.addr /\ dst % unit = 0
    /\ src \in Nat /\ src - ValStart = dst - data_section.addr /\ src % unit = 0
    /\ \A a \in Extent(data_section) : a < dst => Peek(mem, a) = DataByte(a)

Clearing ==
    /\ dst \in Nat /\ dst >= bss_section.addr /\ dst % unit = 0
    /\ \A a \in Extent(bss_section) : a < dst => Peek(mem, a) = 0

Starting ==
    /\ at = "headers"
    /\ Symbols
    /\ CalledInOrder
    /\ \/ stage = "start" /\ reached = "reset"
       \/ stage = "_start2" /\ reached \in {"data", "bss", "ctors"}
       \/ stage = "main" /\ reached = "main" /\ Len(called) = Len(constructors)
    /\ InRom
    /\ reached = "data" => Copying
    /\ reached \in {"bss", "ctors", "main"} => DataReady
    /\ reached = "bss" => Clearing
    /\ reached \in {"ctors", "main"} => BssReady

ReadyInv == IF tool = "objcopy" THEN Starting ELSE Loaded

(***************************************************************************)
(* Memory.                                                                 *)
(***************************************************************************)
LEMMA PeekPut ==
    ASSUME NEW m, NEW p \in Int, NEW s, Len(s) \in Nat, NEW a \in Int
    PROVE  /\ a \in p .. p + Len(s) - 1 => Peek(Put(m, p, s), a) = s[a - p + 1]
           /\ a \notin p .. p + Len(s) - 1 => Peek(Put(m, p, s), a) = Peek(m, a)
<1> DEFINE written == p .. p + Len(s) - 1
<1>1. Put(m, p, s) = [b \in DOMAIN m \union written |-> IF b \in written THEN s[b - p + 1] ELSE m[b]]
    BY DEF Put
<1> HIDE DEF written
<1>2. ASSUME a \in written PROVE Peek(Put(m, p, s), a) = s[a - p + 1]
    BY ONLY <1>1, <1>2 DEF Peek
<1>3. ASSUME a \notin written PROVE Peek(Put(m, p, s), a) = Peek(m, a)
    BY ONLY <1>1, <1>3 DEF Peek
<1> QED BY <1>2, <1>3 DEF written

(* What a step changes, from what it puts where.                           *)
LEMMA ChangedByPut ==
    ASSUME NEW m, NEW p \in Int, NEW s, Len(s) \in Nat, NEW a \in DOMAIN Put(m, p, s)
    PROVE  Put(m, p, s)[a] # Peek(m, a) => a \in p .. p + Len(s) - 1
<1> DEFINE written == p .. p + Len(s) - 1
<1>1. Put(m, p, s) = [b \in DOMAIN m \union written |-> IF b \in written THEN s[b - p + 1] ELSE m[b]]
    BY DEF Put
<1> HIDE DEF written
<1>2. a \in DOMAIN m \union written
    BY ONLY <1>1, a \in DOMAIN Put(m, p, s)
<1>3. a \notin written => Put(m, p, s)[a] = m[a] /\ a \in DOMAIN m
    BY ONLY <1>1, <1>2
<1> QED BY ONLY <1>3 DEF Peek, written

(***************************************************************************)
(* The hypotheses stay.                                                    *)
(***************************************************************************)
LEMMA LaidOutStays ==
    ASSUME LaidOut, elf' = elf, tool' = tool, unit' = unit
    PROVE  LaidOut'
<1>1. /\ text_section' = text_section /\ data_section' = data_section /\ bss_section' = bss_section
      /\ image_size' = image_size
    BY SameElf
<1>2. /\ Extent(text_section)' = Extent(text_section) /\ Extent(data_section)' = Extent(data_section)
      /\ Extent(bss_section)' = Extent(bss_section)
    BY <1>1 DEF Extent
<1>3. /\ Rounded(data_section)' = Rounded(data_section) /\ Rounded(bss_section)' = Rounded(bss_section)
      /\ Rom' = Rom
    BY <1>1 DEF Rounded, Rom, ValStart, Even
<1>4. Complete(text_section)' = Complete(text_section) /\ Complete(data_section)' = Complete(data_section)
    BY <1>1 DEF Complete
<1> QED BY <1>1, <1>2, <1>3, <1>4 DEF LaidOut, Overlap

LEMMA UnitStays == ASSUME [Next]_vars PROVE unit' = unit
<1>1. ASSUME StartNext PROVE unit' = unit
    BY <1>1 DEF StartNext, CopyData, DataCopied, ClearBss, BssCleared, CallConstructor, CallMain
<1> QED BY <1>1 DEF Next, Work, Ended, Convert, Split, Load, Plug, FollowRecord, FollowNothing,
                    Start, Started, StartUpStep, vars, startVars

(* What is in memory, after a step that leaves memory alone.               *)
LEMMA SameReady ==
    ASSUME elf' = elf, tool' = tool, mem' = mem, init_data_addr' = init_data_addr
    PROVE  /\ (Prepared' <=> Prepared) /\ (Ready <=> Ready')
           /\ (TextReady <=> TextReady') /\ (DataReady <=> DataReady') /\ (BssReady <=> BssReady')
           /\ \A n : InMemory(n) <=> InMemory(n)'
<1>1. /\ text_section' = text_section /\ data_section' = data_section /\ bss_section' = bss_section
      /\ image_size' = image_size /\ init_data' = init_data
    BY SameElf
<1>2. Prepared' <=> Prepared
    BY <1>1 DEF Prepared
<1>3. (TextReady <=> TextReady') /\ (DataReady <=> DataReady') /\ (BssReady <=> BssReady')
    BY <1>1 DEF TextReady, DataReady, BssReady, InPlace, Extent, RecordBytes
<1>4. ASSUME NEW k PROVE ImageByte(k)' = ImageByte(k)
    BY <1>1 DEF ImageByte, RecordAt
<1>5. \A n : InMemory(n) <=> InMemory(n)'
    BY <1>1, <1>4 DEF InMemory
<1> QED BY <1>2, <1>3, <1>5 DEF Ready

(***************************************************************************)
(* From the image, and the record in it, to the sections.                  *)
(***************************************************************************)
LEMMA AddressesOK ==
    ASSUME Linked
    PROVE  /\ text_section.addr \in Nat /\ data_section.addr \in Nat /\ bss_section.addr \in Nat
           /\ text_section.size \in Nat /\ data_section.size \in Nat /\ bss_section.size \in Nat
           /\ \A a \in Extent(text_section) : a \in Nat
           /\ \A a \in Extent(data_section) : a \in Nat
           /\ \A a \in Extent(bss_section) : a \in Nat
BY SizesOK DEF Extent

LEMMA FromImage ==
    ASSUME Linked, init_data_addr = SymbolValue, InMemory(image_size)
    PROVE  /\ TextReady
           /\ \A k \in 1 .. data_section.size :
                 Peek(mem, text_section.addr + text_section.size + k - 1) = elf.bytes[data_section.offset + k]
           /\ init_data_addr # 0 => \A k \in 1 .. 10 : Peek(mem, init_data_addr + k - 1) = init_data[k]
<1>1. /\ text_section.addr \in Nat /\ text_section.offset \in Nat /\ text_section.size \in Nat
      /\ data_section.offset \in Nat /\ data_section.size \in Nat
      /\ image_size = text_section.size + data_section.size
      /\ init_data_addr # 0 => RecordAt \in Nat /\ RecordAt + 10 <= text_section.size
    BY SizesOK
<1>2. init_data_addr # 0 => init_data_addr = text_section.addr + RecordAt /\ init_data_addr \in Nat
    <2>1. ASSUME init_data_addr # 0 PROVE init_data_addr \in Nat
        BY <1>1, <2>1 DEF Linked
    <2> QED BY <1>1, <2>1 DEF RecordAt
<1>3. ASSUME NEW k \in 1 .. image_size
      PROVE  Peek(mem, text_section.addr + k - 1) = ImageByte(k)
    BY <1>3 DEF InMemory
<1>4. TextReady
    <2> SUFFICES ASSUME NEW a \in Extent(text_section) \ RecordBytes
                 PROVE  Peek(mem, a) = elf.bytes[text_section.offset + 1 + a - text_section.addr]
        BY DEF TextReady, InPlace
    <2> DEFINE k == a - text_section.addr + 1
    <2>1. /\ k \in 1 .. image_size /\ k <= text_section.size /\ a \in Nat
          /\ text_section.addr + k - 1 = a
          /\ text_section.offset + k = text_section.offset + 1 + a - text_section.addr
        BY <1>1 DEF Extent
    <2>2. ~(init_data_addr # 0 /\ k \in RecordAt + 1 .. RecordAt + 10)
        BY <1>1, <1>2, <2>1 DEF RecordBytes
    <2> HIDE DEF k
    <2>3. ImageByte(k) = elf.bytes[text_section.offset + k]
        BY <2>1, <2>2 DEF ImageByte
    <2>4. Peek(mem, text_section.addr + k - 1) = ImageByte(k)
        BY <1>3, <2>1
    <2> QED BY ONLY <2>1, <2>3, <2>4
<1>5. ASSUME NEW k \in 1 .. data_section.size
      PROVE  Peek(mem, text_section.addr + text_section.size + k - 1) = elf.bytes[data_section.offset + k]
    <2> DEFINE n == text_section.size + k
    <2>1. /\ n \in 1 .. image_size /\ n > text_section.size /\ n - text_section.size = k
          /\ text_section.addr + n - 1 = text_section.addr + text_section.size + k - 1
        BY <1>1
    <2>2. ~(init_data_addr # 0 /\ n \in RecordAt + 1 .. RecordAt + 10)
        BY <1>1
    <2> HIDE DEF n
    <2>3. ImageByte(n) = elf.bytes[data_section.offset + k]
        <3>1. ~(n <= text_section.size)
            BY <1>1, <2>1
        <3> QED BY <2>1, <2>2, <3>1 DEF ImageByte
    <2>4. Peek(mem, text_section.addr + n - 1) = ImageByte(n)
        BY <1>3, <2>1
    <2> QED BY ONLY <2>1, <2>3, <2>4
<1>6. ASSUME init_data_addr # 0, NEW k \in 1 .. 10
      PROVE  Peek(mem, init_data_addr + k - 1) = init_data[k]
    <2> DEFINE n == RecordAt + k
    <2>1. /\ n \in 1 .. image_size /\ n \in RecordAt + 1 .. RecordAt + 10 /\ n - RecordAt = k
          /\ text_section.addr + n - 1 = init_data_addr + k - 1
        BY <1>1, <1>2, <1>6
    <2> HIDE DEF n
    <2>2. ImageByte(n) = init_data[k]
        BY <1>6, <2>1 DEF ImageByte
    <2>3. Peek(mem, text_section.addr + n - 1) = ImageByte(n)
        BY <1>3, <2>1
    <2> QED BY ONLY <2>1, <2>2, <2>3
<1> QED BY <1>4, <1>5, <1>6

Moved == data_section # None /\ data_section.addr # text_section.addr + text_section.size

\* A word of the record, as the start-up code reads it.
FieldOf(k) == Peek(mem, init_data_addr + 2 * k) * 256 + Peek(mem, init_data_addr + 2 * k + 1)

\* The record is where the start-up code looks for it.
RecordReady == init_data_addr # 0 => \A k \in 1 .. 10 : Peek(mem, init_data_addr + k - 1) = init_data[k]

LEMMA FieldsRead ==
    ASSUME Linked, LaidOut, init_data_addr = SymbolValue, init_data_addr # 0, RecordReady
    PROVE  /\ Moved => /\ FieldOf(0) = data_section.addr
                       /\ data_section.size > 0 => FieldOf(1) = text_section.addr + text_section.size
                       /\ FieldOf(2) = data_section.size
           /\ ~Moved => FieldOf(2) = 0
           /\ FieldOf(3) = bss_section.addr /\ FieldOf(4) = bss_section.size
           /\ FieldOf(0) \in Nat /\ FieldOf(1) \in Nat
<1> DEFINE d == data_section.addr  t == text_section.addr + text_section.size  n == data_section.size
           b == bss_section.addr  z == bss_section.size
           values == (IF Moved THEN <<d, t, n>> ELSE <<0, 0, 0>>) \o <<b, z>>
<1>1. d \in Nat /\ t \in Nat /\ n \in Nat /\ b \in Nat /\ z \in Nat
    BY SizesOK
<1>2. /\ d < 65536 /\ n < 65536 /\ b < 65536 /\ z < 65536 /\ (n > 0 => t < 65536)
    BY <1>1, SizesOK DEF LaidOut
<1>3. init_data = Words(values)
    BY DEF init_data, Moved
<1>4. init_data_addr \in Nat
    BY SizesOK DEF Linked
<1> HIDE DEF d, t, n, b, z
<1>5. /\ values \in Seq(Nat) /\ Len(values) = 5
      /\ Moved => values[1] = d /\ values[2] = t /\ values[3] = n
      /\ ~Moved => values[1] = 0 /\ values[2] = 0 /\ values[3] = 0
      /\ values[4] = b /\ values[5] = z
    <2> HIDE DEF Moved
    <2>1. CASE Moved
        <3>1. values = <<d, t, n>> \o <<b, z>>
            BY <2>1
        <3> QED BY <1>1, <2>1, <3>1
    <2>2. CASE ~Moved
        <3>1. values = <<0, 0, 0>> \o <<b, z>>
            BY <2>2
        <3> QED BY <1>1, <2>2, <3>1
    <2> QED BY <2>1, <2>2
<1> HIDE DEF values
<1>6. ASSUME NEW k \in 0 .. 4 PROVE FieldOf(k) = values[k + 1] % 65536 /\ FieldOf(k) \in Nat
    <2>1. k + 1 \in 1 .. Len(values) /\ values[k + 1] \in Nat
        <3>1. values \in Seq(Nat) /\ Len(values) = 5
            BY <1>5
        <3>2. k + 1 \in 1 .. 5
            OBVIOUS
        <3>3. PICK x \in 1 .. 5 : x = k + 1
            BY <3>2
        <3>4. values[x] \in Nat
            <4>1. ASSUME NEW w \in Seq(Nat), NEW j \in 1 .. Len(w) PROVE w[j] \in Nat
                BY ONLY w \in Seq(Nat), j \in 1 .. Len(w)
            <4>2. x \in 1 .. Len(values)
                BY ONLY <3>1, x \in 1 .. 5
            <4> QED BY ONLY <3>1, <4>1, <4>2
        <3> QED BY ONLY <3>1, <3>3, <3>4
    <2>2. PICK v \in Nat : v = values[k + 1]
        BY <2>1
    <2>3. Words(values)[2 * (k + 1) - 1] = Word(v)[1] /\ Words(values)[2 * (k + 1)] = Word(v)[2]
        BY <1>5, <2>1, <2>2, WordsBytes
    <2>4. /\ 2 * (k + 1) - 1 \in 1 .. 10 /\ 2 * (k + 1) \in 1 .. 10
          /\ init_data_addr + (2 * (k + 1) - 1) - 1 = init_data_addr + 2 * k
          /\ init_data_addr + (2 * (k + 1)) - 1 = init_data_addr + 2 * k + 1
        BY <1>4
    <2>5. /\ Peek(mem, init_data_addr + 2 * k) = init_data[2 * (k + 1) - 1]
          /\ Peek(mem, init_data_addr + 2 * k + 1) = init_data[2 * (k + 1)]
        <3>1. \A j \in 1 .. 10 : Peek(mem, init_data_addr + j - 1) = init_data[j]
            BY DEF RecordReady
        <3> QED BY ONLY <2>4, <3>1
    <2>6. FieldOf(k) = (Word(v)[1] * 256) + Word(v)[2]
        BY ONLY <1>3, <2>3, <2>5 DEF FieldOf
    <2> QED BY <2>2, <2>6, WordBytes
<1>7. /\ d % 65536 = d /\ n % 65536 = n /\ b % 65536 = b /\ z % 65536 = z
      /\ n > 0 => t % 65536 = t
      /\ 0 % 65536 = 0
    <2>1. \A v \in Nat : v < 65536 => v % 65536 = v
        OBVIOUS
    <2> QED BY ONLY <1>1, <1>2, <2>1
<1>8. /\ FieldOf(0) = values[1] % 65536 /\ FieldOf(1) = values[2] % 65536 /\ FieldOf(2) = values[3] % 65536
      /\ FieldOf(3) = values[4] % 65536 /\ FieldOf(4) = values[5] % 65536
      /\ FieldOf(0) \in Nat /\ FieldOf(1) \in Nat
    <2>1. /\ 0 \in 0 .. 4 /\ 1 \in 0 .. 4 /\ 2 \in 0 .. 4 /\ 3 \in 0 .. 4 /\ 4 \in 0 .. 4
          /\ 0 + 1 = 1 /\ 1 + 1 = 2 /\ 2 + 1 = 3 /\ 3 + 1 = 4 /\ 4 + 1 = 5
        OBVIOUS
    <2> QED BY <1>6, <2>1
<1>9. /\ Moved => FieldOf(0) = d /\ (n > 0 => FieldOf(1) = t) /\ FieldOf(2) = n
      /\ ~Moved => FieldOf(2) = 0
      /\ FieldOf(3) = b /\ FieldOf(4) = z
    BY ONLY <1>5, <1>7, <1>8
<1> QED BY <1>8, <1>9 DEF d, t, n, b, z

(***************************************************************************)
(* Start-up by the record.                                                 *)
(***************************************************************************)
LEMMA Prepares ==
    ASSUME Linked, LaidOut, Prepared, tool # "objcopy", tool \in Tools, init_data_addr = 0
    PROVE  /\ bss_section.size = 0
           /\ data_section.size > 0 => data_section.addr = text_section.addr + text_section.size
<1>1. bss_section.size = 0 /\ data_section.addr \in {0, text_section.addr + text_section.size}
    BY DEF Prepared, Tools
<1> QED BY <1>1, SizesOK DEF LaidOut

\* .data is where it was linked, when the image holds it there.
LEMMA DataInImage ==
    ASSUME Linked, init_data_addr = SymbolValue, InMemory(image_size),
           data_section.size > 0 => data_section.addr = text_section.addr + text_section.size
    PROVE  DataReady
<1> SUFFICES ASSUME NEW a \in Extent(data_section)
             PROVE  Peek(mem, a) = elf.bytes[data_section.offset + 1 + a - data_section.addr]
    BY DEF DataReady, InPlace
<1> DEFINE k == a - data_section.addr + 1
<1>1. /\ k \in 1 .. data_section.size
      /\ text_section.addr + text_section.size + k - 1 = a
      /\ data_section.offset + k = data_section.offset + 1 + a - data_section.addr
    BY SizesOK DEF Extent
<1> HIDE DEF k
<1>2. Peek(mem, text_section.addr + text_section.size + k - 1) = elf.bytes[data_section.offset + k]
    BY <1>1, FromImage
<1> QED BY ONLY <1>1, <1>2

LEMMA FollowNothingStep ==
    ASSUME Linked, LaidOut, ImageInv, Loaded, tool # "objcopy", FollowNothing
    PROVE  Loaded'
<1>1. /\ stage = "record" /\ init_data_addr = 0 /\ stage' = "main" /\ reached' = "main"
      /\ mem' = mem /\ UNCHANGED imageVars
    BY DEF FollowNothing
<1>2. tool \in Tools /\ init_data_addr = SymbolValue
    BY <1>1 DEF ImageInv, Loaded
<1>3. ASSUME Prepared PROVE Ready
    <2>1. InMemory(image_size)
        BY <1>1, <1>3 DEF Loaded
    <2>2. /\ bss_section.size = 0
          /\ data_section.size > 0 => data_section.addr = text_section.addr + text_section.size
        BY <1>1, <1>2, <1>3, Prepares
    <2>3. TextReady
        BY <1>2, <2>1, FromImage
    <2>4. DataReady
        BY <1>2, <2>1, <2>2, DataInImage
    <2>5. BssReady
        BY <2>2, AddressesOK DEF BssReady, Extent
    <2> QED BY <2>3, <2>4, <2>5 DEF Ready
<1>4. Prepared' => Ready'
    BY <1>1, <1>3, SameReady DEF imageVars
<1> QED BY <1>1, <1>4 DEF Loaded

LEMMA FollowRecordStep ==
    ASSUME Linked, LaidOut, ImageInv, Loaded, tool # "objcopy", FollowRecord
    PROVE  Loaded'
<1> DEFINE data == [k \in 1 .. FieldOf(2) |-> Peek(mem, FieldOf(1) + k - 1)]
           bss == [k \in 1 .. FieldOf(4) |-> 0]
           m == Put(mem, FieldOf(0), data)
<1>1. /\ stage = "record" /\ init_data_addr # 0 /\ stage' = "main" /\ reached' = "main"
      /\ UNCHANGED imageVars
    BY DEF FollowRecord
<1>2. mem' = Put(m, FieldOf(3), bss)
    BY DEF FollowRecord, FieldOf
<1>3. tool \in Tools /\ init_data_addr = SymbolValue
    BY <1>1 DEF ImageInv, Loaded
<1>4. /\ text_section' = text_section /\ data_section' = data_section /\ bss_section' = bss_section
      /\ elf' = elf /\ init_data_addr' = init_data_addr /\ (Prepared' <=> Prepared)
    <2>1. image_size' = image_size /\ text_section' = text_section /\ data_section' = data_section
          /\ bss_section' = bss_section
        BY <1>1, SameElf DEF imageVars
    <2> QED BY <1>1, <2>1 DEF imageVars, Prepared
<1>5. ASSUME Prepared PROVE Ready'
    <2>1. InMemory(image_size)
        BY <1>1, <1>5 DEF Loaded
    <2>2. /\ Moved => /\ FieldOf(0) = data_section.addr
                      /\ data_section.size > 0 => FieldOf(1) = text_section.addr + text_section.size
                      /\ FieldOf(2) = data_section.size
          /\ ~Moved => FieldOf(2) = 0
          /\ FieldOf(3) = bss_section.addr /\ FieldOf(4) = bss_section.size
          /\ FieldOf(0) \in Nat /\ FieldOf(1) \in Nat
        <3>1. RecordReady
            BY <1>3, <2>1, FromImage DEF RecordReady
        <3> QED BY <1>1, <1>3, <3>1, FieldsRead
    <2>3. FieldOf(2) \in Nat /\ FieldOf(4) \in Nat /\ FieldOf(3) \in Nat
        BY <2>2, AddressesOK
    <2>4. /\ Len(data) = FieldOf(2)
          /\ \A k \in 1 .. FieldOf(2) : data[k] = Peek(mem, FieldOf(1) + k - 1)
        BY <2>3
    <2>5. Len(bss) = FieldOf(4) /\ \A k \in 1 .. FieldOf(4) : bss[k] = 0
        BY <2>3
    <2> HIDE DEF data, bss
    <2>6. ASSUME NEW a \in Int
          PROVE  /\ a \in FieldOf(0) .. FieldOf(0) + FieldOf(2) - 1 => Peek(m, a) = data[a - FieldOf(0) + 1]
                 /\ a \notin FieldOf(0) .. FieldOf(0) + FieldOf(2) - 1 => Peek(m, a) = Peek(mem, a)
        <3>1. PICK p \in Int : p = FieldOf(0)
            BY <2>2
        <3>2. m = Put(mem, p, data) /\ Len(data) \in Nat
            BY <2>3, <2>4, <3>1
        <3>3. /\ a \in p .. p + Len(data) - 1 => Peek(Put(mem, p, data), a) = data[a - p + 1]
              /\ a \notin p .. p + Len(data) - 1 => Peek(Put(mem, p, data), a) = Peek(mem, a)
            BY ONLY a \in Int, p \in Int, <3>2, PeekPut
        <3> QED BY ONLY <2>4, <3>1, <3>2, <3>3
    <2> HIDE DEF m
    <2>7. ASSUME NEW a \in Int
          PROVE  /\ a \in Extent(bss_section) => Peek(mem', a) = 0
                 /\ a \notin Extent(bss_section) => Peek(mem', a) = Peek(m, a)
        <3>1. /\ a \in Extent(bss_section) => Peek(mem', a) = bss[a - FieldOf(3) + 1]
              /\ a \notin Extent(bss_section) => Peek(mem', a) = Peek(m, a)
            <4>1. PICK p \in Int : p = FieldOf(3)
                BY <2>3
            <4>2. mem' = Put(m, p, bss) /\ Len(bss) \in Nat
                BY <1>2, <2>3, <2>5, <4>1
            <4>3. /\ a \in p .. p + Len(bss) - 1 => Peek(Put(m, p, bss), a) = bss[a - p + 1]
                  /\ a \notin p .. p + Len(bss) - 1 => Peek(Put(m, p, bss), a) = Peek(m, a)
                BY ONLY a \in Int, p \in Int, <4>2, PeekPut
            <4>4. Extent(bss_section) = p .. p + Len(bss) - 1
                BY <2>2, <2>5, <4>1 DEF Extent
            <4> QED BY ONLY <4>1, <4>2, <4>3, <4>4
        <3>2. a \in Extent(bss_section) => a - FieldOf(3) + 1 \in 1 .. FieldOf(4)
            BY <2>2, <2>3 DEF Extent
        <3> QED BY ONLY <2>5, <3>1, <3>2
    <2>8. ASSUME NEW a \in Int, a \notin Extent(bss_section), Moved => a \notin Extent(data_section)
          PROVE  Peek(mem', a) = Peek(mem, a)
        <3>1. a \notin FieldOf(0) .. FieldOf(0) + FieldOf(2) - 1
            BY <2>2, <2>8 DEF Extent
        <3> QED BY <2>6, <2>7, <2>8, <3>1
    <2>9. TextReady'
        <3> SUFFICES ASSUME NEW a \in Extent(text_section) \ RecordBytes
                     PROVE  Peek(mem', a) = elf.bytes[text_section.offset + 1 + a - text_section.addr]
            BY <1>4 DEF TextReady, InPlace, Extent, RecordBytes
        <3>1. a \in Int /\ a \notin Extent(bss_section) /\ a \notin Extent(data_section)
            BY AddressesOK DEF LaidOut, Overlap
        <3>2. Peek(mem', a) = Peek(mem, a)
            BY <2>8, <3>1
        <3>3. TextReady
            BY <1>3, <2>1, FromImage
        <3> QED BY <3>2, <3>3 DEF TextReady, InPlace
    <2>10. DataReady'
        <3> SUFFICES ASSUME NEW a \in Extent(data_section)
                     PROVE  Peek(mem', a) = elf.bytes[data_section.offset + 1 + a - data_section.addr]
            BY <1>4 DEF DataReady, InPlace, Extent
        <3>1. a \in Int /\ a \notin Extent(bss_section) /\ data_section.size > 0
            BY SizesOK, AddressesOK DEF LaidOut, Overlap, Extent
        <3>2. CASE Moved
            <4> DEFINE k == a - data_section.addr + 1
            <4>1. /\ a \in FieldOf(0) .. FieldOf(0) + FieldOf(2) - 1 /\ k = a - FieldOf(0) + 1
                  /\ k \in 1 .. data_section.size /\ k \in 1 .. FieldOf(2)
                  /\ FieldOf(1) + k - 1 = text_section.addr + text_section.size + k - 1
                  /\ data_section.offset + k = data_section.offset + 1 + a - data_section.addr
                BY <2>2, <3>1, <3>2, SizesOK DEF Extent
            <4> HIDE DEF k
            <4>2. Peek(mem', a) = data[k]
                BY <2>6, <2>7, <3>1, <4>1
            <4>3. data[k] = Peek(mem, text_section.addr + text_section.size + k - 1)
                BY ONLY <2>4, <4>1
            <4>4. Peek(mem, text_section.addr + text_section.size + k - 1) = elf.bytes[data_section.offset + k]
                BY <1>3, <2>1, <4>1, FromImage
            <4> QED BY ONLY <4>1, <4>2, <4>3, <4>4
        <3>3. CASE ~Moved
            <4>1. Peek(mem', a) = Peek(mem, a)
                BY <2>8, <3>1, <3>3
            <4>2. data_section.addr = text_section.addr + text_section.size
                <5>1. None.size = 0
                    BY DEF None
                <5> QED BY <3>1, <3>3, <5>1, SizesOK DEF Moved
            <4>3. DataReady
                BY <1>3, <2>1, <4>2, DataInImage
            <4> QED BY <4>1, <4>3 DEF DataReady, InPlace
        <3> QED BY <3>2, <3>3
    <2>11. BssReady'
        <3> SUFFICES ASSUME NEW a \in Extent(bss_section) PROVE Peek(mem', a) = 0
            BY <1>4 DEF BssReady, Extent
        <3> QED BY <2>7, AddressesOK
    <2> QED BY <2>9, <2>10, <2>11 DEF Ready
<1> QED BY <1>1, <1>4, <1>5 DEF Loaded

(***************************************************************************)
(* The loader and the cartridge port.                                      *)
(***************************************************************************)
LEMMA LoadedBytes ==
    ASSUME NEW file \in Seq(Byte), NEW n \in Nat, Len(file) = HeaderSize + n, NEW size \in Nat, size >= n
    PROVE  LET content == SubSeq(file, HeaderSize + 1, Len(file))
               tail == [k \in 1 .. size - Len(content) |-> Junk]
               bytes == SubSeq(content \o tail, 1, size)
           IN  /\ bytes \in Seq(Byte) /\ Len(bytes) = size
               /\ \A k \in 1 .. n : bytes[k] = file[HeaderSize + k]
<1> DEFINE content == SubSeq(file, HeaderSize + 1, Len(file))
           tail == [k \in 1 .. size - Len(content) |-> Junk]
           all == content \o tail
           bytes == SubSeq(all, 1, size)
<1>1. /\ content \in Seq(Byte) /\ Len(content) = n
      /\ \A k \in 1 .. n : content[k] = file[HeaderSize + k]
    <2>1. HeaderSize \in Nat /\ HeaderSize + n <= Len(file)
        BY RoomOK
    <2>2. content = SubSeq(file, HeaderSize + 1, HeaderSize + n)
        OBVIOUS
    <2>3. /\ SubSeq(file, HeaderSize + 1, HeaderSize + n) \in Seq(Byte)
          /\ Len(SubSeq(file, HeaderSize + 1, HeaderSize + n)) = n
          /\ \A k \in 1 .. n : SubSeq(file, HeaderSize + 1, HeaderSize + n)[k] = file[HeaderSize + k]
        BY ONLY <2>1, file \in Seq(Byte), n \in Nat, Part
    <2> QED BY ONLY <2>2, <2>3
<1> HIDE DEF content
<1>2. tail \in Seq(Byte) /\ Len(tail) = size - n
    <2>1. PICK r \in Nat : r = size - n
        OBVIOUS
    <2>2. tail = [k \in 1 .. r |-> Junk] /\ Junk \in Byte
        <3>1. size - Len(content) = r
            BY ONLY <1>1, <2>1
        <3>2. Junk \in Byte
            BY ONLY ImagesAssumption DEF Byte
        <3> QED BY ONLY <3>1, <3>2 DEF tail
    <2>3. [k \in 1 .. r |-> Junk] \in Seq(Byte) /\ Len([k \in 1 .. r |-> Junk]) = r
        BY ONLY <2>2, r \in Nat
    <2> QED BY ONLY <2>1, <2>2, <2>3
<1> HIDE DEF tail
<1>3. /\ all \in Seq(Byte) /\ Len(all) = size
      /\ \A k \in 1 .. n : all[k] = content[k]
    <2>1. /\ all \in Seq(Byte) /\ Len(all) = Len(content) + Len(tail)
          /\ \A k \in 1 .. Len(content) : all[k] = content[k]
        <3>1. content \in Seq(Byte) /\ tail \in Seq(Byte)
            BY <1>1, <1>2
        <3> QED BY ONLY <3>1
    <2> QED BY <1>1, <1>2, <2>1
<1> HIDE DEF all
<1>4. bytes \in Seq(Byte) /\ Len(bytes) = size /\ \A k \in 1 .. size : bytes[k] = all[k]
    <2>1. 0 \in Nat /\ 0 + size <= Len(all) /\ all \in Seq(Byte)
        BY <1>3
    <2>2. /\ SubSeq(all, 0 + 1, 0 + size) \in Seq(Byte) /\ Len(SubSeq(all, 0 + 1, 0 + size)) = size
          /\ \A k \in 1 .. size : SubSeq(all, 0 + 1, 0 + size)[k] = all[0 + k]
        BY ONLY <2>1, size \in Nat, Part
    <2>3. 0 + 1 = 1 /\ 0 + size = size /\ \A k \in 1 .. size : 0 + k = k
        OBVIOUS
    <2> QED BY ONLY <2>2, <2>3
<1> HIDE DEF bytes
<1>5. \A k \in 1 .. n : bytes[k] = file[HeaderSize + k]
    <2>1. \A k \in 1 .. n : k \in 1 .. size
        OBVIOUS
    <2> QED BY ONLY <1>1, <1>3, <1>4, <2>1
<1> QED BY <1>4, <1>5 DEF bytes, all, tail, content

(* More of the image gets into memory, behind what is there.               *)
LEMMA InMemoryMore ==
    ASSUME Linked, elf' = elf, tool' = tool, init_data_addr' = init_data_addr,
           NEW p \in Nat, NEW n \in Nat, InMemory(p),
           NEW bytes, Len(bytes) \in Nat, n <= Len(bytes),
           \A k \in 1 .. n : bytes[k] = ImageByte(p + k),
           mem' = Put(mem, text_section.addr + p, bytes)
    PROVE  InMemory(p + n)'
<1> DEFINE base == text_section.addr
<1>1. base \in Nat /\ base' = base
    BY SizesOK, SameElf
<1>2. ASSUME NEW k PROVE ImageByte(k)' = ImageByte(k)
    BY SameElf DEF ImageByte, RecordAt
<1> HIDE DEF base
<1>3. ASSUME NEW k \in 1 .. p + n PROVE Peek(mem', base + k - 1) = ImageByte(k)
    <2> DEFINE a == base + k - 1  q == base + p
    <2>1. a \in Int /\ q \in Int
        BY <1>1
    <2> HIDE DEF a, q
    <2>2. /\ a \in q .. q + Len(bytes) - 1 => Peek(Put(mem, q, bytes), a) = bytes[a - q + 1]
          /\ a \notin q .. q + Len(bytes) - 1 => Peek(Put(mem, q, bytes), a) = Peek(mem, a)
        BY ONLY <2>1, Len(bytes) \in Nat, PeekPut
    <2>3. mem' = Put(mem, q, bytes)
        BY DEF q, base
    <2>4. CASE k <= p
        <3>1. a \notin q .. q + Len(bytes) - 1 /\ k \in 1 .. p
            BY <1>1, <2>4 DEF a, q
        <3>2. Peek(mem, a) = ImageByte(k)
            BY <3>1 DEF InMemory, a, base
        <3> QED BY <2>2, <2>3, <3>1, <3>2 DEF a
    <2>5. CASE k > p
        <3> DEFINE m == k - p
        <3>1. a \in q .. q + Len(bytes) - 1 /\ m \in 1 .. n /\ p + m = k /\ a - q + 1 = m
            BY <1>1, <2>5 DEF a, q
        <3> HIDE DEF m
        <3>2. bytes[m] = ImageByte(p + m)
            BY <3>1
        <3> QED BY ONLY <2>2, <2>3, <3>1, <3>2 DEF a
    <2> QED BY <2>4, <2>5
<1>4. (p + n)' = p + n
    OBVIOUS
<1> QED BY <1>1, <1>2, <1>3 DEF InMemory, base

LEMMA ImageIs ==
    ASSUME Linked, LaidOut, ChainInv, Converted
    PROVE  /\ StartAddress = text_section.addr /\ Content = image_size /\ WordAt(output, 1) = 0
           /\ output \in Seq(Byte) /\ image_size \in Nat /\ Len(output) = HeaderSize + image_size
           /\ image_size + 6 < 65536 => WordAt(output, 3) = image_size + 6
           /\ \A k \in 1 .. image_size : output[HeaderSize + k] = ImageByte(k)
<1>1. /\ Written /\ output \in Seq(Byte) /\ tool = "elf2ea5"
    BY DEF ChainInv, Converted, ImageInv
<1>2. text_section.addr < 65536
    BY DEF LaidOut
<1>3. /\ StartAddress = text_section.addr /\ Content = image_size /\ WordAt(output, 1) = 0
      /\ image_size + 6 < 65536 => WordAt(output, 3) = image_size + 6
    BY <1>2, HeaderRead
<1>4. image_size \in Nat
    BY SizesOK
<1>5. Len(output) \in Nat
    BY <1>1
<1>6. Len(output) = HeaderSize + image_size
    BY ONLY <1>3, <1>4, <1>5, RoomOK DEF Content
<1>7. Len(Header) = HeaderSize
    BY <1>1, HeaderOK, RoomOK
<1>8. Count = image_size
    BY ONLY <1>4, <1>6, <1>7, RoomOK DEF Count
<1>9. \A k \in 1 .. image_size : output[HeaderSize + k] = ImageByte(k)
    <2> SUFFICES ASSUME NEW k \in 1 .. image_size PROVE output[HeaderSize + k] = ImageByte(k)
        OBVIOUS
    <2>1. k <= image_size /\ k \in 1 .. Count
        BY <1>4, <1>8
    <2>2. output[Len(Header) + k] = ImageByte(k)
        BY <1>1, <2>1 DEF Written
    <2> QED BY ONLY <1>7, <2>2
<1> QED BY <1>1, <1>3, <1>4, <1>6, <1>9

(* A file on its way into memory.                                          *)
LEMMA LoadFile ==
    ASSUME Linked, elf' = elf, tool' = tool, init_data_addr' = init_data_addr,
           NEW p \in Nat, InMemory(p),
           NEW file \in Seq(Byte), NEW n \in Nat, Len(file) = HeaderSize + n,
           WordAt(file, 3) \in Nat, WordAt(file, 3) >= n, WordAt(file, 5) = text_section.addr + p,
           \A k \in 1 .. n : file[HeaderSize + k] = ImageByte(p + k),
           stage = "load", Load, disk[loading] = file, loading \in DOMAIN disk
    PROVE  InMemory(p + n)'
<1> DEFINE size == WordAt(file, 3)
           content == SubSeq(file, HeaderSize + 1, Len(file))
           tail == [k \in 1 .. size - Len(content) |-> Junk]
           bytes == SubSeq(content \o tail, 1, size)
<1>1. mem' = Put(mem, WordAt(file, 5), bytes)
    BY DEF Load
<1>2. Len(bytes) = size /\ \A k \in 1 .. n : bytes[k] = file[HeaderSize + k]
    BY LoadedBytes
<1> HIDE DEF bytes
<1>3. PICK s \in Nat : s = size
    OBVIOUS
<1>4. Len(bytes) \in Nat /\ n <= Len(bytes)
    BY <1>2, <1>3
<1>5. \A k \in 1 .. n : bytes[k] = ImageByte(p + k)
    BY <1>2
<1>6. mem' = Put(mem, text_section.addr + p, bytes)
    BY <1>1
<1> QED BY ONLY Linked, elf' = elf, tool' = tool, init_data_addr' = init_data_addr,
                p \in Nat, InMemory(p), n \in Nat, <1>4, <1>5, <1>6, InMemoryMore

LEMMA LoadReady ==
    ASSUME Linked, LaidOut, ChainInv, Loaded, Load
    PROVE  Loaded'
<1>1. /\ stage = "load" /\ Converted /\ Loading /\ reached = "reset"
      /\ argument.name \in Seq(Nat) \ {<<>>}
    BY DEF Load, ChainInv, Loaded
<1>2. /\ UNCHANGED imageVars /\ UNCHANGED splitVars /\ reached' = reached
      /\ elf' = elf /\ tool' = tool /\ init_data_addr' = init_data_addr /\ output' = output
      /\ argument' = argument /\ i' = i
    BY DEF Load, imageVars, splitVars
<1>3. image_size' = image_size
    BY <1>2, SameElf
<1>4. ASSUME stage' = "record", InMemory(image_size)' PROVE Loaded'
    BY <1>1, <1>2, <1>4 DEF Loaded, Converted, imageVars
<1>5. CASE loading \notin DOMAIN disk
    <2>1. stage' = "not found"
        BY <1>5 DEF Load
    <2> QED BY <1>1, <1>2, <2>1 DEF Loaded
<1>6. ASSUME loading \in DOMAIN disk
      PROVE  /\ stage' = IF WordAt(disk[loading], 1) = 0 THEN "record" ELSE "load"
             /\ loading' = [loading EXCEPT ![Len(loading)] = @ + 1]
    BY <1>6 DEF Load
<1>7. CASE i = 0 /\ Len(output) <= FileLimit /\ OneFile /\ loading \in DOMAIN disk
    <2>1. disk[loading] = output
        BY <1>7 DEF OneFile
    <2>2. /\ StartAddress = text_section.addr /\ WordAt(output, 1) = 0
          /\ output \in Seq(Byte) /\ image_size \in Nat /\ Len(output) = HeaderSize + image_size
          /\ image_size + 6 < 65536 => WordAt(output, 3) = image_size + 6
          /\ \A k \in 1 .. image_size : output[HeaderSize + k] = ImageByte(k)
        BY <1>1, ImageIs
    <2>3. PICK n \in Nat : n = image_size
        BY <2>2
    <2>4. /\ WordAt(output, 3) \in Nat /\ WordAt(output, 3) >= n
          /\ text_section.addr + 0 = text_section.addr
        <3>1. n + 6 < 65536
            BY <1>7, <2>2, <2>3, RoomOK, Ea5SplitAssumption
        <3>2. WordAt(output, 3) = n + 6
            BY ONLY <2>2, <2>3, <3>1
        <3>3. text_section.addr \in Nat
            BY SizesOK
        <3> QED BY ONLY <3>2, <3>3, n \in Nat
    <2>5. \A k \in 1 .. n : output[HeaderSize + k] = ImageByte(0 + k)
        BY <2>2, <2>3
    <2>6. InMemory(0)
        BY DEF InMemory
    <2>7. WordAt(output, 5) = text_section.addr + 0
        BY <2>2, <2>4 DEF StartAddress
    <2>8. InMemory(0 + n)'
        <3>1. PICK file \in Seq(Byte) : file = output
            BY <2>2
        <3>2. /\ Len(file) = HeaderSize + n
              /\ WordAt(file, 3) \in Nat /\ WordAt(file, 3) >= n /\ WordAt(file, 5) = text_section.addr + 0
              /\ \A k \in 1 .. n : file[HeaderSize + k] = ImageByte(0 + k)
              /\ disk[loading] = file /\ loading \in DOMAIN disk
            BY ONLY <1>7, <2>1, <2>2, <2>3, <2>4, <2>5, <2>7, <3>1
        <3>3. elf' = elf /\ tool' = tool /\ init_data_addr' = init_data_addr /\ stage = "load" /\ 0 \in Nat
            BY ONLY <1>1, <1>2
        <3> QED BY ONLY Linked, Load, <2>6, <3>2, <3>3, n \in Nat, file \in Seq(Byte), LoadFile
    <2>9. InMemory(image_size)'
        <3>1. 0 + n = n
            OBVIOUS
        <3> QED BY <1>3, <2>3, <2>8, <3>1 DEF InMemory
    <2>10. stage' = "record"
        BY <1>6, <1>7, <2>1, <2>2
    <2> QED BY <1>4, <2>9, <2>10
<1>8. CASE /\ Long /\ i = Pieces /\ PiecesWritten /\ loading \in DOMAIN disk
           /\ \E k \in Nat : k < Pieces /\ loading = PieceName(k)
    <2>1. PICK k \in Nat : k < Pieces /\ loading = PieceName(k)
        BY <1>8
    <2>2. k \in 0 .. Pieces - 1 /\ Pieces \in Nat \ {0}
        BY <1>8, <2>1, LongFacts
    <2> DEFINE file == PieceFile(k)
    <2>0. PICK p \in Nat, n \in Nat : p = Before(k) /\ n = PieceLen(k)
        BY <1>8, <2>2, PieceFacts
    <2>3. disk[loading] = file
        BY <1>8, <2>1, <2>2 DEF PiecesWritten
    <2>4. /\ file \in Seq(Byte) /\ Len(file) = HeaderSize + n
          /\ (WordAt(file, 1) = 0 <=> k = Pieces - 1)
          /\ WordAt(file, 3) = n /\ WordAt(file, 5) = StartAddress + p
          /\ \A m \in 1 .. n : file[HeaderSize + m] = output[HeaderSize + (p + m)]
        BY <1>8, <2>0, <2>2, PieceFileFacts
    <2>5. /\ p + n <= Content
          /\ k + 1 < Pieces => Before(k + 1) = p + n
          /\ k + 1 = Pieces => p + n = Content
        BY <1>8, <2>0, <2>2, PieceFacts
    <2> HIDE DEF file
    <2>6. /\ StartAddress = text_section.addr /\ Content = image_size /\ image_size \in Nat
          /\ \A m \in 1 .. image_size : output[HeaderSize + m] = ImageByte(m)
        BY <1>1, ImageIs
    <2>7. InMemory(p)
        <3>1. i > 0
            BY <1>8, <2>2
        <3> QED BY <1>1, <2>0, <2>1, <2>2, <3>1 DEF Loaded
    <2>8. \A m \in 1 .. n : file[HeaderSize + m] = ImageByte(p + m)
        <3>1. \A m \in 1 .. n : p + m \in 1 .. image_size
            BY <2>5, <2>6
        <3> QED BY ONLY <2>4, <2>6, <3>1
    <2>9. InMemory(p + n)'
        <3>1. WordAt(file, 3) \in Nat /\ WordAt(file, 3) >= n /\ WordAt(file, 5) = text_section.addr + p
            BY <2>4, <2>5, <2>6
        <3> QED BY <1>1, <1>2, <1>8, <2>3, <2>4, <2>5, <2>7, <2>8, <3>1, LoadFile
    <2>10. CASE k + 1 = Pieces
        <3>1. k = Pieces - 1 /\ p + n = image_size
            BY <2>1, <2>2, <2>5, <2>6, <2>10
        <3>2. stage' = "record"
            BY <1>6, <1>8, <2>3, <2>4, <3>1
        <3>3. PICK m : m = p + n
            OBVIOUS
        <3>4. InMemory(image_size)'
            BY <1>3, <2>9, <3>1, <3>3 DEF InMemory
        <3> QED BY <1>4, <3>2, <3>4
    <2>11. CASE k + 1 # Pieces
        <3>1. k # Pieces - 1 /\ k + 1 < Pieces /\ k + 1 \in Nat
            BY <2>2, <2>11
        <3>2. stage' = "load" /\ loading' = PieceName(k + 1)
            BY <1>1, <1>6, <1>8, <2>1, <2>3, <2>4, <3>1, PieceNameOK
        <3>3. ASSUME NEW j \in 0 .. Pieces' - 1, loading' = PieceName(j)'
              PROVE  InMemory(Before(j))'
            <4>1. PieceName(j)' = PieceName(j) /\ Pieces' = Pieces
                BY <1>2, SamePieces
            <4>2. j \in Nat
                BY <2>2, <4>1
            <4>3. PICK l \in Nat : l = k + 1
                BY <3>1
            <4>4. PieceName(j) = PieceName(l)
                BY <3>2, <3>3, <4>1, <4>3
            <4>5. j = l
                BY <1>1, <4>2, <4>3, <4>4, PieceNameOK
            <4>6. PICK m : m = p + n
                OBVIOUS
            <4>7. Before(j) = m /\ InMemory(m)'
                BY <2>5, <2>9, <3>1, <4>3, <4>5, <4>6
            <4>8. Before(j)' = Before(j)
                BY DEF Before, Room, HeaderSize
            <4> QED BY <4>7, <4>8 DEF InMemory
        <3> QED BY <1>1, <1>2, <3>2, <3>3 DEF Loaded
    <2> QED BY <2>10, <2>11
<1> QED BY <1>1, <1>5, <1>7, <1>8 DEF Loading

LEMMA PlugReady ==
    ASSUME Linked, LaidOut, ChainInv, Loaded, Plug
    PROVE  Loaded'
<1>1. /\ stage = "plug" /\ stage' = "record" /\ reached' = "reset" /\ UNCHANGED imageVars
      /\ mem' = Put(mem, RomStart, SubSeq(output, 1, RomSize))
      /\ tool = "elf2cart" /\ status = 0 /\ at = "done"
    BY DEF Plug, Loaded
<1>2. /\ elf' = elf /\ tool' = tool /\ init_data_addr' = init_data_addr /\ status' = 0 /\ at' = "done"
    BY <1>1 DEF imageVars
<1>3. Written /\ Reading /\ output \in Seq(Byte)
    BY <1>1 DEF ChainInv, ImageInv
<1>4. image_size' = image_size /\ (Prepared' <=> Prepared)
    BY <1>2, SameElf DEF Prepared
<1>5. ASSUME Prepared PROVE InMemory(image_size)'
    <2> DEFINE bytes == SubSeq(output, 1, RomSize)
    <2>1. Len(Header) = 0
        BY <1>1, HeaderOK
    <2>2. PICK n \in Nat : n = image_size
        BY SizesOK
    <2>3. n <= RomSize /\ RomSize \in Nat /\ Len(output) \in Nat
        BY <1>1, <1>3, <1>5, <2>2, ElfImageAssumption DEF Prepared
    <2>4. Count = Len(output) /\ Count >= RomSize
        BY <1>1, <1>3, <2>1, <2>3 DEF Count, Reading
    <2>5. Len(bytes) = RomSize /\ \A k \in 1 .. RomSize : bytes[k] = output[k]
        <3>1. 0 \in Nat /\ 0 + RomSize <= Len(output) /\ output \in Seq(Byte) /\ RomSize \in Nat
            BY <1>3, <2>3, <2>4
        <3>2. /\ Len(SubSeq(output, 0 + 1, 0 + RomSize)) = RomSize
              /\ \A k \in 1 .. RomSize : SubSeq(output, 0 + 1, 0 + RomSize)[k] = output[0 + k]
            BY ONLY <3>1, Part
        <3>3. 0 + 1 = 1 /\ 0 + RomSize = RomSize /\ \A k \in 1 .. RomSize : 0 + k = k
            BY <2>3
        <3> QED BY ONLY <3>2, <3>3
    <2> HIDE DEF bytes
    <2>6. \A k \in 1 .. n : bytes[k] = ImageByte(0 + k)
        <3> SUFFICES ASSUME NEW k \in 1 .. n PROVE bytes[k] = ImageByte(0 + k)
            OBVIOUS
        <3>1. k \in 1 .. RomSize /\ k \in 1 .. Count /\ 0 + k = k /\ k <= image_size
            BY <2>2, <2>3, <2>4
        <3>2. output[Len(Header) + k] = ImageByte(k)
            BY <1>3, <3>1 DEF Written
        <3> QED BY ONLY <2>1, <2>5, <3>1, <3>2
    <2>7. mem' = Put(mem, text_section.addr + 0, bytes)
        <3>1. text_section.addr + 0 = RomStart
            BY <1>1, ImagesAssumption DEF LaidOut
        <3> QED BY <1>1, <3>1 DEF bytes
    <2>8. InMemory(0) /\ 0 \in Nat
        BY DEF InMemory
    <2>9. Len(bytes) \in Nat /\ n <= Len(bytes)
        BY ONLY <2>3, <2>5
    <2>10. InMemory(0 + n)'
        BY ONLY Linked, <1>2, <2>6, <2>7, <2>8, <2>9, n \in Nat, InMemoryMore
    <2>11. 0 + n = image_size'
        BY <1>4, <2>2
    <2> QED BY ONLY <2>10, <2>11 DEF InMemory
<1> QED BY <1>1, <1>2, <1>4, <1>5 DEF Loaded

(***************************************************************************)
(* The image makers and ea5split.                                          *)
(***************************************************************************)
LEMMA ConvertReady ==
    ASSUME Linked, ChainInv, Loaded, Convert
    PROVE  Loaded'
<1>1. /\ stage = "convert" /\ reached' = reached /\ reached = "reset" /\ tool \in Tools /\ tool # "objcopy"
    BY DEF Convert, startVars, ChainInv, ImageInv, Loaded
<1>2. ImageInv' /\ tool' = tool
    BY ImageStep DEF Convert, ChainInv
<1>3. /\ stage' \in {"convert", "split", "plug", "refused"}
      /\ stage' = "plug" => status' = 0 /\ tool = "elf2cart"
    BY <1>1 DEF Convert, Tools
<1>4. status' = 0 => at' = "done"
    BY <1>2 DEF ImageInv, Running
<1> QED BY <1>1, <1>2, <1>3, <1>4 DEF Loaded

LEMMA SplitReady ==
    ASSUME Linked, ChainInv, Loaded, Split
    PROVE  Loaded'
<1>1. /\ stage = "split" /\ SplitNext(output) /\ Splitting /\ argument.name \in Seq(Nat) \ {<<>>}
      /\ reached' = reached /\ reached = "reset" /\ output' = output
      /\ stage' \in {"split", "load", "refused", "crashed"}
      /\ stage' = "load" => splitting' = "done"
      /\ loading' = IF splitting' = "pieces" /\ splitting = "no" THEN name' ELSE loading
    BY DEF Split, startVars, imageVars, ChainInv, Loaded
<1>2. ASSUME stage' = "load", i' > 0, NEW k \in 0 .. Pieces' - 1, loading' = PieceName(k)'
      PROVE  InMemory(Before(k))'
    <2>1. SplitNothing(output) \/ SplitEnd(output)
        BY <1>1, <1>2 DEF SplitNext, SplitRefused, SplitCrash, SplitStart, WritePiece, Splitting
    <2>2. SplitEnd(output)
        <3>1. SplitNothing(output) => i' = 0
            BY <1>1 DEF SplitNothing, Splitting
        <3> QED BY <1>2, <2>1, <3>1
    <2>3. splitting = "pieces" /\ Long /\ loading = PieceName(0) /\ argument' = argument /\ loading' = loading
        BY <1>1, <2>2 DEF SplitEnd, Splitting
    <2>4. Pieces' = Pieces /\ PieceName(k)' = PieceName(k) /\ Pieces \in Nat \ {0}
        BY <1>1, <2>3, SamePieces, LongFacts
    <2>5. k \in Nat /\ PieceName(k) = PieceName(0)
        <3>1. k \in 0 .. Pieces - 1
            BY ONLY k \in 0 .. Pieces' - 1, <2>4
        <3>2. k \in Nat
            BY ONLY <2>4, <3>1
        <3> QED BY ONLY <1>2, <2>3, <2>4, <3>2
    <2>6. 0 \in Nat
        OBVIOUS
    <2>7. k = 0
        BY ONLY <1>1, <2>5, <2>6, PieceNameOK
    <2>8. Before(k)' = 0
        BY <2>5, <2>7, BeforeNext DEF Before, Room, HeaderSize
    <2> QED BY ONLY <2>8 DEF InMemory
<1> QED BY <1>1, <1>2 DEF Loaded

LEMMA IdleReady ==
    ASSUME Linked, Loaded, UNCHANGED vars
    PROVE  Loaded'
<1>1. /\ elf' = elf /\ tool' = tool /\ mem' = mem /\ init_data_addr' = init_data_addr
      /\ output' = output /\ argument' = argument /\ image_size' = image_size
      /\ stage' = stage /\ reached' = reached /\ loading' = loading /\ i' = i /\ status' = status /\ at' = at
    BY SameElf DEF vars, imageVars, splitVars, startVars
<1>2. /\ (Prepared' <=> Prepared) /\ (Ready <=> Ready') /\ \A n : InMemory(n) <=> InMemory(n)'
    BY <1>1, SameReady
<1>3. ASSUME stage = "load", i > 0, NEW k \in 0 .. Pieces' - 1, loading' = PieceName(k)'
      PROVE  InMemory(Before(k))'
    <2>1. Pieces' = Pieces /\ PieceName(k)' = PieceName(k)
        BY <1>1, SamePieces
    <2>2. InMemory(Before(k))
        BY <1>1, <1>3, <2>1 DEF Loaded
    <2>3. PICK n : n = Before(k)
        OBVIOUS
    <2>4. Before(k)' = n
        BY <2>3 DEF Before, Room, HeaderSize
    <2>5. InMemory(n)'
        BY <1>2, <2>2, <2>3
    <2> QED BY ONLY <2>4, <2>5 DEF InMemory
<1>4. ASSUME stage = "record", Prepared PROVE InMemory(image_size)'
    <2>1. PICK n : n = image_size
        OBVIOUS
    <2>2. InMemory(n)'
        BY <1>2, <1>4, <2>1 DEF Loaded
    <2> QED BY <1>1, <2>1, <2>2 DEF InMemory
<1> QED BY <1>1, <1>2, <1>3, <1>4 DEF Loaded

LEMMA LoadedStep ==
    ASSUME Linked, LaidOut, ChainInv, Loaded, tool # "objcopy", [Next]_vars
    PROVE  Loaded'
<1>1. ~Start /\ ~StartUpStep
    BY DEF Loaded, Start, StartUpStep
<1>2. ImageInv
    BY DEF ChainInv
<1> QED BY <1>1, <1>2, ConvertReady, SplitReady, LoadReady, PlugReady, FollowRecordStep, FollowNothingStep,
           IdleReady DEF Next, Work, Ended

(***************************************************************************)
(* _start2.                                                                *)
(***************************************************************************)
LEMMA SameSymbols ==
    ASSUME elf' = elf, tool' = tool, unit' = unit, layout' = layout
    PROVE  /\ ValStart' = ValStart /\ constructors' = constructors /\ Rom' = Rom
           /\ (Symbols <=> Symbols')
           /\ called' = called => (CalledInOrder <=> CalledInOrder')
<1>1. text_section' = text_section /\ data_section' = data_section /\ bss_section' = bss_section
    BY SameElf
<1>2. ValStart' = ValStart
    BY <1>1 DEF ValStart, Even
<1>3. constructors' = constructors
    BY DEF constructors
<1>4. Rom' = Rom
    BY <1>1, <1>2 DEF Rom
<1>5. Symbols <=> Symbols'
    BY <1>1, <1>2, <1>3 DEF Symbols
<1>6. called' = called => (CalledInOrder <=> CalledInOrder')
    BY <1>3 DEF CalledInOrder
<1> QED BY <1>2, <1>3, <1>4, <1>5, <1>6

(* Where the values of .data are, and what surrounds them.                 *)
LEMMA RomFacts ==
    ASSUME Linked
    PROVE  /\ ValStart \in Nat /\ ValStart % 2 = 0
           /\ text_section.addr + text_section.size <= ValStart
           /\ \A a \in Extent(text_section) : a \in Rom /\ a \in Int /\ a < ValStart
           /\ \A k \in 1 .. data_section.size : ValStart + k - 1 \in Rom /\ ValStart + k - 1 \in Int
<1>1. text_section.addr \in Nat /\ text_section.size \in Nat /\ data_section.size \in Nat
    BY SizesOK
<1>2. PICK e \in Nat : e = text_section.addr + text_section.size
    BY <1>1
<1>3. ValStart = e + (e % 2)
    BY <1>2 DEF ValStart, Even
<1>4. ValStart \in Nat /\ ValStart % 2 = 0 /\ e <= ValStart
    BY ONLY <1>3, e \in Nat
<1> QED BY <1>1, <1>2, <1>4 DEF Extent, Rom

(* A unit is stored where the pointer says.                                *)
LEMMA UnitStored ==
    ASSUME unit \in {1, 2}, NEW q \in Nat, q % unit = 0
    PROVE  /\ Aligned(q) = q /\ (q + unit) % unit = 0 /\ q + unit \in Nat
           /\ \A first \in Nat, end \in Nat :
                 first <= q /\ q < end => \A a \in q .. q + unit - 1 : a \in first .. Even(end) - 1
<1>1. CASE unit = 1
    BY <1>1 DEF Aligned, Even
<1>2. CASE unit = 2
    BY <1>2 DEF Aligned, Even
<1> QED BY <1>1, <1>2

LEMMA RomStays ==
    ASSUME Linked, elf' = elf, tool' = tool, init_data_addr' = init_data_addr, InRom,
           \A a \in Rom : Peek(mem', a) = Peek(mem, a)
    PROVE  InRom'
<1>1. text_section' = text_section /\ data_section' = data_section /\ ValStart' = ValStart
    BY SameElf DEF ValStart, Even
<1>2. TextReady'
    <2> SUFFICES ASSUME NEW a \in Extent(text_section) \ RecordBytes
                 PROVE  Peek(mem', a) = elf.bytes[text_section.offset + 1 + a - text_section.addr]
        BY <1>1 DEF TextReady, InPlace, Extent, RecordBytes
    <2>1. Peek(mem, a) = elf.bytes[text_section.offset + 1 + a - text_section.addr]
        BY DEF InRom, TextReady, InPlace
    <2> QED BY <2>1, RomFacts
<1>3. ASSUME NEW k \in 1 .. data_section.size
      PROVE  Peek(mem', ValStart + k - 1) = elf.bytes[data_section.offset + k]
    <2>1. Peek(mem, ValStart + k - 1) = elf.bytes[data_section.offset + k]
        BY DEF InRom
    <2>2. ValStart + k - 1 \in Rom
        BY RomFacts
    <2> QED BY ONLY <2>1, <2>2, \A a \in Rom : Peek(mem', a) = Peek(mem, a)
<1> QED BY <1>1, <1>2, <1>3 DEF InRom

(* What the four steps on memory rest on.                                  *)
LEMMA ExampleFacts ==
    ASSUME Linked, LaidOut, tool = "objcopy", Symbols
    PROVE  /\ data_section.addr \in Nat /\ data_section.size \in Nat /\ data_section.offset \in Nat
           /\ bss_section.addr \in Nat /\ bss_section.size \in Nat
           /\ unit \in {1, 2}
           /\ data_section.addr % unit = 0 /\ bss_section.addr % unit = 0 /\ ValStart % unit = 0
           /\ \A a \in Rom : a \notin Rounded(data_section) /\ a \notin Rounded(bss_section)
           /\ \A a \in Extent(data_section) : a \notin Rounded(bss_section)
<1>1. /\ data_section.addr \in Nat /\ data_section.size \in Nat /\ data_section.offset \in Nat
      /\ bss_section.addr \in Nat /\ bss_section.size \in Nat
    BY SizesOK
<1>2. /\ unit \in {1, 2} /\ (unit = 2 => data_section.addr % 2 = 0 /\ bss_section.addr % 2 = 0)
      /\ \A a \in Rom : a \notin Rounded(data_section) /\ a \notin Rounded(bss_section)
      /\ \A a \in Extent(data_section) : a \notin Rounded(bss_section)
    BY DEF LaidOut, Symbols
<1>3. ValStart \in Nat /\ ValStart % 2 = 0
    BY RomFacts
<1>4. \A x \in Nat : x % 1 = 0
    OBVIOUS
<1>5. data_section.addr % unit = 0 /\ bss_section.addr % unit = 0 /\ ValStart % unit = 0
    BY ONLY <1>1, <1>2, <1>3, <1>4
<1> QED BY <1>1, <1>2, <1>5

(* What a pass of one of the two loops writes.                             *)
LEMMA CopyWrites ==
    ASSUME Linked, LaidOut, tool = "objcopy", Starting, CopyData
    PROVE  /\ dst \in Nat /\ dst < data_section.addr + data_section.size
           /\ \A a \in dst .. dst + unit - 1 : /\ a \in Rounded(data_section)
                                               /\ Peek(mem', a) = Peek(mem, src + (a - dst))
           /\ \A a \in Int : a \notin dst .. dst + unit - 1 => Peek(mem', a) = Peek(mem, a)
           /\ mem' = Put(mem, dst, [k \in 1 .. unit |-> Peek(mem, src + k - 1)])
<1>1. Copying /\ Symbols /\ dst < layout.data_end
    BY DEF CopyData, Starting
<1>2. /\ data_section.addr \in Nat /\ data_section.size \in Nat /\ unit \in {1, 2}
    BY <1>1, ExampleFacts
<1>3. dst \in Nat /\ dst % unit = 0 /\ src \in Nat /\ src % unit = 0 /\ data_section.addr <= dst
    BY <1>1, <1>2 DEF Copying
<1>4. Aligned(dst) = dst /\ Aligned(src) = src
    BY <1>2, <1>3, UnitStored
<1>5. dst < data_section.addr + data_section.size
    BY <1>1 DEF Symbols
<1> DEFINE bytes == [k \in 1 .. unit |-> Peek(mem, src + k - 1)]
<1>6. mem' = Put(mem, dst, bytes)
    BY <1>4 DEF CopyData
<1>7. Len(bytes) = unit /\ \A k \in 1 .. unit : bytes[k] = Peek(mem, src + k - 1)
    BY <1>2
<1> HIDE DEF bytes
<1>8. ASSUME NEW a \in dst .. dst + unit - 1 PROVE a \in Rounded(data_section)
    <2>1. PICK end \in Nat : end = data_section.addr + data_section.size
        BY <1>2
    <2>2. \A b \in dst .. dst + unit - 1 : b \in data_section.addr .. Even(end) - 1
        BY <1>2, <1>3, <1>5, <2>1, UnitStored
    <2> QED BY <2>1, <2>2 DEF Rounded
<1>9. ASSUME NEW a \in Int
      PROVE  /\ a \in dst .. dst + unit - 1 => Peek(mem', a) = bytes[a - dst + 1]
             /\ a \notin dst .. dst + unit - 1 => Peek(mem', a) = Peek(mem, a)
    <2>1. dst \in Int /\ Len(bytes) \in Nat
        BY <1>2, <1>3, <1>7
    <2>2. /\ a \in dst .. dst + Len(bytes) - 1 => Peek(Put(mem, dst, bytes), a) = bytes[a - dst + 1]
          /\ a \notin dst .. dst + Len(bytes) - 1 => Peek(Put(mem, dst, bytes), a) = Peek(mem, a)
        BY ONLY a \in Int, <2>1, PeekPut
    <2> QED BY ONLY <1>6, <1>7, <2>2
<1>10. ASSUME NEW a \in dst .. dst + unit - 1 PROVE Peek(mem', a) = Peek(mem, src + (a - dst))
    <2>1. a \in Int /\ a - dst + 1 \in 1 .. unit /\ src + (a - dst + 1) - 1 = src + (a - dst)
        BY <1>2, <1>3
    <2> QED BY ONLY <1>7, <1>9, <1>10, <2>1, a \in dst .. dst + unit - 1
<1> QED BY <1>3, <1>5, <1>6, <1>8, <1>9, <1>10 DEF bytes

LEMMA ClearWrites ==
    ASSUME Linked, LaidOut, tool = "objcopy", Starting, ClearBss
    PROVE  /\ dst \in Nat /\ dst < bss_section.addr + bss_section.size
           /\ \A a \in dst .. dst + unit - 1 : a \in Rounded(bss_section) /\ Peek(mem', a) = 0
           /\ \A a \in Int : a \notin dst .. dst + unit - 1 => Peek(mem', a) = Peek(mem, a)
           /\ mem' = Put(mem, dst, [k \in 1 .. unit |-> 0])
<1>1. Clearing /\ Symbols /\ dst < layout.bss_end
    BY DEF ClearBss, Starting
<1>2. bss_section.addr \in Nat /\ bss_section.size \in Nat /\ unit \in {1, 2}
    BY <1>1, ExampleFacts
<1>3. dst \in Nat /\ dst % unit = 0 /\ bss_section.addr <= dst
    BY <1>1, <1>2 DEF Clearing
<1>4. Aligned(dst) = dst
    BY <1>2, <1>3, UnitStored
<1>5. dst < bss_section.addr + bss_section.size
    BY <1>1 DEF Symbols
<1> DEFINE bytes == [k \in 1 .. unit |-> 0]
<1>6. mem' = Put(mem, dst, bytes)
    BY <1>4 DEF ClearBss
<1>7. Len(bytes) = unit /\ \A k \in 1 .. unit : bytes[k] = 0
    BY <1>2
<1> HIDE DEF bytes
<1>8. ASSUME NEW a \in dst .. dst + unit - 1 PROVE a \in Rounded(bss_section)
    <2>1. PICK end \in Nat : end = bss_section.addr + bss_section.size
        BY <1>2
    <2>2. \A b \in dst .. dst + unit - 1 : b \in bss_section.addr .. Even(end) - 1
        BY <1>2, <1>3, <1>5, <2>1, UnitStored
    <2> QED BY <2>1, <2>2 DEF Rounded
<1>9. ASSUME NEW a \in Int
      PROVE  /\ a \in dst .. dst + unit - 1 => Peek(mem', a) = bytes[a - dst + 1]
             /\ a \notin dst .. dst + unit - 1 => Peek(mem', a) = Peek(mem, a)
    <2>1. dst \in Int /\ Len(bytes) \in Nat
        BY <1>2, <1>3, <1>7
    <2>2. /\ a \in dst .. dst + Len(bytes) - 1 => Peek(Put(mem, dst, bytes), a) = bytes[a - dst + 1]
          /\ a \notin dst .. dst + Len(bytes) - 1 => Peek(Put(mem, dst, bytes), a) = Peek(mem, a)
        BY ONLY a \in Int, <2>1, PeekPut
    <2> QED BY ONLY <1>6, <1>7, <2>2
<1>10. ASSUME NEW a \in dst .. dst + unit - 1 PROVE Peek(mem', a) = 0
    <2>1. a \in Int /\ a - dst + 1 \in 1 .. unit
        BY <1>2, <1>3
    <2> QED BY ONLY <1>7, <1>9, <2>1, a \in dst .. dst + unit - 1
<1> QED BY <1>3, <1>5, <1>6, <1>8, <1>9, <1>10 DEF bytes

LEMMA CopyDataReady ==
    ASSUME Linked, LaidOut, tool = "objcopy", Starting, CopyData, stage = "_start2", stage' = "_start2",
           UNCHANGED imageVars
    PROVE  Starting'
<1>1. /\ Symbols /\ InRom /\ Copying /\ CalledInOrder /\ at = "headers" /\ reached = "data"
      /\ reached' = "data" /\ src' = src + unit /\ dst' = dst + unit /\ UNCHANGED <<unit, layout, called>>
    BY DEF CopyData, Starting
<1>2. elf' = elf /\ tool' = tool /\ init_data_addr' = init_data_addr /\ at' = at
    BY DEF imageVars
<1>3. /\ data_section.addr \in Nat /\ data_section.size \in Nat /\ data_section.offset \in Nat
      /\ unit \in {1, 2} /\ ValStart \in Nat
      /\ \A a \in Rom : a \notin Rounded(data_section)
    BY <1>1, ExampleFacts, RomFacts
<1>4. /\ dst \in Nat /\ dst < data_section.addr + data_section.size
      /\ \A a \in dst .. dst + unit - 1 : /\ a \in Rounded(data_section)
                                          /\ Peek(mem', a) = Peek(mem, src + (a - dst))
      /\ \A a \in Int : a \notin dst .. dst + unit - 1 => Peek(mem', a) = Peek(mem, a)
    BY CopyWrites
<1>5. Symbols' /\ CalledInOrder' /\ ValStart' = ValStart /\ Rom' = Rom
    BY <1>1, <1>2, SameSymbols
<1>6. InRom'
    <2>1. \A a \in Rom : a \in Int
        BY DEF Rom
    <2>2. \A a \in Rom : Peek(mem', a) = Peek(mem, a)
        BY ONLY <1>3, <1>4, <2>1
    <2> QED BY <1>1, <1>2, <2>2, RomStays
<1>7. /\ data_section.addr <= dst /\ dst % unit = 0 /\ src \in Nat /\ src % unit = 0
      /\ src - ValStart = dst - data_section.addr
      /\ \A a \in Extent(data_section) : a < dst => Peek(mem, a) = DataByte(a)
    BY <1>1, <1>3 DEF Copying
<1>8. /\ dst' \in Nat /\ dst' >= data_section.addr /\ dst' % unit = 0
      /\ src' \in Nat /\ src' % unit = 0 /\ src' - ValStart = dst' - data_section.addr
    <2>1. (dst + unit) % unit = 0 /\ (src + unit) % unit = 0
        BY <1>3, <1>4, <1>7, UnitStored
    <2>2. dst + unit \in Nat /\ dst + unit >= data_section.addr /\ src + unit \in Nat
          /\ (src + unit) - ValStart = (dst + unit) - data_section.addr
        BY ONLY <1>3, <1>4, <1>7
    <2> QED BY <1>1, <2>1, <2>2
<1>9. ASSUME NEW a \in Extent(data_section), a < dst'
      PROVE  Peek(mem', a) = DataByte(a)
    <2>1. a \in Int /\ data_section.addr <= a /\ a < data_section.addr + data_section.size
        BY <1>3 DEF Extent
    <2>2. CASE a < dst
        <3>1. a \notin dst .. dst + unit - 1
            BY <1>4, <2>1, <2>2
        <3> QED BY <1>4, <1>7, <2>1, <2>2, <3>1
    <2>3. CASE ~(a < dst)
        <3> DEFINE k == a - data_section.addr + 1
        <3>1. a \in dst .. dst + unit - 1
            BY <1>1, <1>3, <1>4, <1>9, <2>1, <2>3
        <3>2. /\ k \in 1 .. data_section.size /\ src + (a - dst) = ValStart + k - 1
              /\ data_section.offset + k = data_section.offset + 1 + a - data_section.addr
            BY <1>3, <1>4, <1>7, <2>1
        <3> HIDE DEF k
        <3>3. Peek(mem, ValStart + k - 1) = elf.bytes[data_section.offset + k]
            BY <1>1, <3>2 DEF InRom
        <3> QED BY <1>4, <3>1, <3>2, <3>3 DEF DataByte
    <2> QED BY <2>2, <2>3
<1>10. Copying'
    <2>1. data_section' = data_section /\ Extent(data_section)' = Extent(data_section)
        BY <1>2, SameElf DEF Extent
    <2>2. ASSUME NEW a PROVE DataByte(a)' = DataByte(a)
        BY <1>2, <2>1 DEF DataByte
    <2> QED BY <1>1, <1>5, <1>8, <1>9, <2>1, <2>2 DEF Copying
<1> QED BY <1>1, <1>2, <1>5, <1>6, <1>10 DEF Starting

LEMMA ClearBssReady ==
    ASSUME Linked, LaidOut, tool = "objcopy", Starting, ClearBss, stage = "_start2", stage' = "_start2",
           UNCHANGED imageVars
    PROVE  Starting'
<1>1. /\ Symbols /\ InRom /\ Clearing /\ DataReady /\ CalledInOrder /\ at = "headers" /\ reached = "bss"
      /\ reached' = "bss" /\ dst' = dst + unit /\ UNCHANGED <<unit, layout, called>>
    BY DEF ClearBss, Starting
<1>2. elf' = elf /\ tool' = tool /\ init_data_addr' = init_data_addr /\ at' = at
    BY DEF imageVars
<1>3. /\ data_section.addr \in Nat /\ data_section.size \in Nat
      /\ bss_section.addr \in Nat /\ bss_section.size \in Nat
      /\ unit \in {1, 2}
      /\ \A a \in Rom : a \notin Rounded(bss_section)
      /\ \A a \in Extent(data_section) : a \notin Rounded(bss_section)
    BY <1>1, ExampleFacts
<1>4. /\ dst \in Nat /\ dst < bss_section.addr + bss_section.size
      /\ \A a \in dst .. dst + unit - 1 : a \in Rounded(bss_section) /\ Peek(mem', a) = 0
      /\ \A a \in Int : a \notin dst .. dst + unit - 1 => Peek(mem', a) = Peek(mem, a)
    BY ClearWrites
<1>5. Symbols' /\ CalledInOrder'
    BY <1>1, <1>2, SameSymbols
<1>6. InRom'
    <2>1. \A a \in Rom : a \in Int
        BY DEF Rom
    <2>2. \A a \in Rom : Peek(mem', a) = Peek(mem, a)
        BY ONLY <1>3, <1>4, <2>1
    <2> QED BY <1>1, <1>2, <2>2, RomStays
<1>7. DataReady'
    <2> SUFFICES ASSUME NEW a \in Extent(data_section)
                 PROVE  Peek(mem', a) = elf.bytes[data_section.offset + 1 + a - data_section.addr]
        BY <1>2, SameElf DEF DataReady, InPlace, Extent
    <2>1. a \in Int /\ a \notin Rounded(bss_section)
        BY <1>3 DEF Extent
    <2>2. Peek(mem', a) = Peek(mem, a)
        BY <1>4, <2>1
    <2> QED BY <1>1, <2>2 DEF DataReady, InPlace
<1>8. bss_section.addr <= dst /\ dst % unit = 0 /\ \A a \in Extent(bss_section) : a < dst => Peek(mem, a) = 0
    BY <1>1, <1>3 DEF Clearing
<1>9. dst' \in Nat /\ dst' >= bss_section.addr /\ dst' % unit = 0
    <2>1. (dst + unit) % unit = 0
        BY <1>3, <1>4, <1>8, UnitStored
    <2>2. dst + unit \in Nat /\ dst + unit >= bss_section.addr
        BY ONLY <1>3, <1>4, <1>8
    <2> QED BY <1>1, <2>1, <2>2
<1>10. ASSUME NEW a \in Extent(bss_section), a < dst' PROVE Peek(mem', a) = 0
    <2>1. a \in Int
        BY <1>3 DEF Extent
    <2>2. CASE a < dst
        <3>1. a \notin dst .. dst + unit - 1
            BY <1>4, <2>1, <2>2
        <3> QED BY <1>4, <1>8, <2>1, <2>2, <3>1
    <2>3. CASE ~(a < dst)
        <3>1. a \in dst .. dst + unit - 1
            BY <1>1, <1>3, <1>4, <1>10, <2>1, <2>3
        <3> QED BY <1>4, <3>1
    <2> QED BY <2>2, <2>3
<1>11. Clearing'
    <2>1. bss_section' = bss_section /\ Extent(bss_section)' = Extent(bss_section)
        BY <1>2, SameElf DEF Extent
    <2> QED BY <1>1, <1>9, <1>10, <2>1 DEF Clearing
<1> QED BY <1>1, <1>2, <1>5, <1>6, <1>7, <1>11 DEF Starting

(* Steps that leave memory alone.                                          *)
LEMMA StillInPlace ==
    ASSUME elf' = elf, tool' = tool, init_data_addr' = init_data_addr, mem' = mem,
           UNCHANGED <<unit, layout>>
    PROVE  /\ (Symbols <=> Symbols') /\ (InRom <=> InRom')
           /\ (DataReady <=> DataReady') /\ (BssReady <=> BssReady')
           /\ called' = called => (CalledInOrder <=> CalledInOrder')
           /\ data_section' = data_section /\ bss_section' = bss_section
           /\ ValStart' = ValStart /\ constructors' = constructors
<1>1. /\ (TextReady <=> TextReady') /\ (DataReady <=> DataReady') /\ (BssReady <=> BssReady')
    BY SameReady
<1>2. data_section' = data_section /\ bss_section' = bss_section
    BY SameElf
<1>3. /\ ValStart' = ValStart /\ constructors' = constructors /\ (Symbols <=> Symbols')
      /\ called' = called => (CalledInOrder <=> CalledInOrder')
    BY SameSymbols
<1>4. InRom <=> InRom'
    BY <1>1, <1>2, <1>3 DEF InRom
<1> QED BY <1>1, <1>2, <1>3, <1>4

LEMMA StartReady ==
    ASSUME Linked, LaidOut, tool = "objcopy", Starting, Start
    PROVE  Starting'
<1>1. /\ Symbols /\ InRom /\ CalledInOrder /\ at = "headers" /\ stage' = "_start2"
      /\ reached' = "data" /\ src' = layout.val_start /\ dst' = layout.data_start
      /\ UNCHANGED <<unit, layout, called>> /\ mem' = mem /\ UNCHANGED imageVars
    BY DEF Start, Started, Starting
<1>2. elf' = elf /\ tool' = tool /\ init_data_addr' = init_data_addr /\ at' = at
    BY <1>1 DEF imageVars
<1>3. /\ Symbols' /\ InRom' /\ CalledInOrder' /\ data_section' = data_section /\ ValStart' = ValStart
    BY <1>1, <1>2, StillInPlace
<1>4. /\ data_section.addr \in Nat /\ data_section.size \in Nat /\ ValStart \in Nat
      /\ data_section.addr % unit = 0 /\ ValStart % unit = 0
    BY <1>1, ExampleFacts, RomFacts
<1>5. dst' = data_section.addr /\ src' = ValStart
    BY <1>1 DEF Symbols
<1>6. \A a \in Extent(data_section) : ~(a < data_section.addr)
    BY <1>4 DEF Extent
<1>7. Copying'
    <2>1. Extent(data_section)' = Extent(data_section)
        BY <1>3 DEF Extent
    <2>2. ValStart - ValStart = data_section.addr - data_section.addr /\ data_section.addr >= data_section.addr
        BY ONLY <1>4
    <2> QED BY <1>1, <1>3, <1>4, <1>5, <1>6, <2>1, <2>2 DEF Copying
<1> QED BY <1>1, <1>2, <1>3, <1>7 DEF Starting

LEMMA DataCopiedReady ==
    ASSUME Linked, LaidOut, tool = "objcopy", Starting, DataCopied, stage' = "_start2", UNCHANGED imageVars
    PROVE  Starting'
<1>1. /\ Symbols /\ InRom /\ CalledInOrder /\ Copying /\ at = "headers" /\ dst >= layout.data_end
      /\ reached' = "bss" /\ dst' = layout.bss_start
      /\ UNCHANGED <<unit, layout, called>> /\ mem' = mem
    BY DEF DataCopied, Starting
<1>2. elf' = elf /\ tool' = tool /\ init_data_addr' = init_data_addr /\ at' = at
    BY DEF imageVars
<1>3. /\ Symbols' /\ InRom' /\ CalledInOrder' /\ bss_section' = bss_section /\ (DataReady <=> DataReady')
    BY <1>1, <1>2, StillInPlace
<1>4. /\ data_section.addr \in Nat /\ data_section.size \in Nat /\ bss_section.addr \in Nat
      /\ bss_section.size \in Nat /\ bss_section.addr % unit = 0
    BY <1>1, ExampleFacts
<1>5. DataReady
    <2>1. dst \in Nat /\ dst >= data_section.addr + data_section.size
        BY <1>1 DEF Copying, Symbols
    <2>2. \A a \in Extent(data_section) : a < dst
        BY <1>4, <2>1 DEF Extent
    <2> QED BY <1>1, <2>2 DEF Copying, DataReady, InPlace, DataByte
<1>6. dst' = bss_section.addr
    BY <1>1 DEF Symbols
<1>7. Clearing'
    <2>1. Extent(bss_section)' = Extent(bss_section)
        BY <1>3 DEF Extent
    <2>2. \A a \in Extent(bss_section) : ~(a < bss_section.addr)
        BY <1>4 DEF Extent
    <2>3. bss_section.addr >= bss_section.addr
        BY <1>4
    <2> QED BY <1>1, <1>3, <1>4, <1>6, <2>1, <2>2, <2>3 DEF Clearing
<1> QED BY <1>1, <1>2, <1>3, <1>5, <1>7 DEF Starting

LEMMA BssClearedReady ==
    ASSUME Linked, LaidOut, tool = "objcopy", Starting, BssCleared, stage' = "_start2", UNCHANGED imageVars
    PROVE  Starting'
<1>1. /\ Symbols /\ InRom /\ CalledInOrder /\ Clearing /\ DataReady /\ at = "headers" /\ dst >= layout.bss_end
      /\ reached' = "ctors" /\ UNCHANGED <<unit, layout, called>> /\ mem' = mem
    BY DEF BssCleared, Starting
<1>2. elf' = elf /\ tool' = tool /\ init_data_addr' = init_data_addr /\ at' = at
    BY DEF imageVars
<1>3. Symbols' /\ InRom' /\ CalledInOrder' /\ DataReady' /\ (BssReady <=> BssReady')
    BY <1>1, <1>2, StillInPlace
<1>4. bss_section.addr \in Nat /\ bss_section.size \in Nat
    BY SizesOK
<1>5. BssReady
    <2>1. dst \in Nat /\ dst >= bss_section.addr + bss_section.size
        BY <1>1 DEF Clearing, Symbols
    <2>2. \A a \in Extent(bss_section) : a < dst
        BY <1>4, <2>1 DEF Extent
    <2> QED BY <1>1, <2>2 DEF Clearing, BssReady
<1> QED BY <1>1, <1>2, <1>3, <1>5 DEF Starting

(* The first elements of a sequence, and one more.                         *)
LEMMA OneMore ==
    ASSUME NEW T, NEW all \in Seq(T), NEW before \in Seq(T), Len(before) < Len(all),
           \A k \in 1 .. Len(before) : before[k] = all[k]
    PROVE  LET more == Append(before, all[Len(before) + 1])
           IN  /\ more \in Seq(T) /\ Len(more) <= Len(all)
               /\ \A k \in 1 .. Len(more) : more[k] = all[k]
<1>1. Len(before) \in Nat /\ Len(all) \in Nat /\ Len(before) + 1 \in 1 .. Len(all)
    OBVIOUS
<1>2. \A k \in 1 .. Len(all) : all[k] \in T
    OBVIOUS
<1>3. PICK c \in T : c = all[Len(before) + 1]
    BY <1>1, <1>2
<1> DEFINE more == Append(before, c)
<1>4. /\ more \in Seq(T) /\ Len(more) = Len(before) + 1
      /\ \A k \in 1 .. Len(before) : more[k] = before[k]
      /\ more[Len(before) + 1] = c
    BY ONLY before \in Seq(T), c \in T
<1> HIDE DEF more
<1>5. Len(more) <= Len(all) /\ \A k \in 1 .. Len(more) : more[k] = all[k]
    <2>1. \A k \in 1 .. Len(more) : k \in 1 .. Len(before) \/ k = Len(before) + 1
        BY <1>1, <1>4
    <2> QED BY <1>1, <1>3, <1>4, <2>1
<1> QED BY <1>3, <1>4, <1>5 DEF more

LEMMA ConstructorReady ==
    ASSUME Linked, LaidOut, tool = "objcopy", Starting, CallConstructor, stage = "_start2", stage' = "_start2",
           UNCHANGED imageVars
    PROVE  Starting'
<1>1. /\ Symbols /\ InRom /\ CalledInOrder /\ DataReady /\ BssReady /\ at = "headers" /\ reached = "ctors"
      /\ Len(called) < Len(constructors) /\ called' = Append(called, constructors[Len(called) + 1])
      /\ reached' = "ctors" /\ UNCHANGED <<unit, layout>> /\ mem' = mem
    BY DEF CallConstructor, Starting
<1>2. elf' = elf /\ tool' = tool /\ init_data_addr' = init_data_addr /\ at' = at
    BY DEF imageVars
<1>3. Symbols' /\ InRom' /\ DataReady' /\ BssReady' /\ constructors' = constructors
    BY <1>1, <1>2, StillInPlace
<1>4. CalledInOrder'
    <2> DEFINE all == constructors
               more == Append(called, all[Len(called) + 1])
    <2>1. /\ all \in Seq(STRING) /\ called \in Seq(STRING) /\ Len(called) < Len(all)
          /\ \A k \in 1 .. Len(called) : called[k] = all[k]
        BY <1>1 DEF Symbols, CalledInOrder
    <2>2. /\ more \in Seq(STRING) /\ Len(more) <= Len(all)
          /\ \A k \in 1 .. Len(more) : more[k] = all[k]
        <3> HIDE DEF all
        <3> QED BY ONLY <2>1, OneMore
    <2>3. called' = more
        BY <1>1
    <2> QED BY ONLY <1>3, <2>2, <2>3 DEF CalledInOrder
<1> QED BY <1>1, <1>2, <1>3, <1>4 DEF Starting

LEMMA CallMainReady ==
    ASSUME Linked, LaidOut, tool = "objcopy", Starting, CallMain, stage' = "main", UNCHANGED imageVars
    PROVE  Starting'
<1>1. /\ Symbols /\ InRom /\ CalledInOrder /\ DataReady /\ BssReady /\ at = "headers"
      /\ Len(called) = Len(constructors)
      /\ reached' = "main" /\ UNCHANGED <<unit, layout, called>> /\ mem' = mem
    BY DEF CallMain, Starting
<1>2. elf' = elf /\ tool' = tool /\ init_data_addr' = init_data_addr /\ at' = at
    BY DEF imageVars
<1>3. Symbols' /\ InRom' /\ DataReady' /\ BssReady' /\ CalledInOrder' /\ constructors' = constructors
    BY <1>1, <1>2, StillInPlace
<1> QED BY <1>1, <1>2, <1>3 DEF Starting

LEMMA StartingStep ==
    ASSUME Linked, LaidOut, tool = "objcopy", Starting, [Next]_vars
    PROVE  Starting'
<1>1. CASE Start
    BY <1>1, StartReady
<1>2. CASE StartUpStep
    <2>1. stage = "_start2" /\ StartNext /\ UNCHANGED imageVars
          /\ stage' = IF reached' = "main" THEN "main" ELSE "_start2"
        BY <1>2 DEF StartUpStep
    <2>2. CASE CopyData
        <3>1. stage' = "_start2"
            BY <2>1, <2>2 DEF CopyData
        <3> QED BY <2>1, <2>2, <3>1, CopyDataReady
    <2>3. CASE DataCopied
        <3>1. stage' = "_start2"
            BY <2>1, <2>3 DEF DataCopied
        <3> QED BY <2>1, <2>3, <3>1, DataCopiedReady
    <2>4. CASE ClearBss
        <3>1. stage' = "_start2"
            BY <2>1, <2>4 DEF ClearBss
        <3> QED BY <2>1, <2>4, <3>1, ClearBssReady
    <2>5. CASE BssCleared
        <3>1. stage' = "_start2"
            BY <2>1, <2>5 DEF BssCleared
        <3> QED BY <2>1, <2>5, <3>1, BssClearedReady
    <2>6. CASE CallConstructor
        <3>1. stage' = "_start2"
            BY <2>1, <2>6 DEF CallConstructor
        <3> QED BY <2>1, <2>6, <3>1, ConstructorReady
    <2>7. CASE CallMain
        <3>1. stage' = "main"
            BY <2>1, <2>7 DEF CallMain
        <3> QED BY <2>1, <2>7, <3>1, CallMainReady
    <2> QED BY <2>1, <2>2, <2>3, <2>4, <2>5, <2>6, <2>7 DEF StartNext
<1>3. CASE UNCHANGED vars
    <2>1. /\ elf' = elf /\ tool' = tool /\ init_data_addr' = init_data_addr /\ mem' = mem /\ at' = at
          /\ UNCHANGED <<unit, layout>> /\ called' = called /\ stage' = stage /\ reached' = reached
          /\ src' = src /\ dst' = dst
        BY <1>3 DEF vars, imageVars, startVars
    <2>2. /\ (Symbols <=> Symbols') /\ (InRom <=> InRom') /\ (DataReady <=> DataReady')
          /\ (BssReady <=> BssReady') /\ (CalledInOrder <=> CalledInOrder')
          /\ data_section' = data_section /\ bss_section' = bss_section /\ ValStart' = ValStart
          /\ constructors' = constructors
        BY <2>1, StillInPlace
    <2>3. /\ Extent(data_section)' = Extent(data_section) /\ Extent(bss_section)' = Extent(bss_section)
        BY <2>2 DEF Extent
    <2>4. ASSUME NEW a PROVE DataByte(a)' = DataByte(a)
        BY <2>1, <2>2 DEF DataByte
    <2>5. (Copying <=> Copying') /\ (Clearing <=> Clearing')
        BY <2>1, <2>2, <2>3, <2>4 DEF Copying, Clearing
    <2> QED BY <2>1, <2>2, <2>5 DEF Starting
<1>4. ~(Convert \/ Split \/ Load \/ Plug \/ FollowRecord \/ FollowNothing)
    BY DEF Starting, Convert, Split, Load, Plug, FollowRecord, FollowNothing
<1> QED BY <1>1, <1>2, <1>3, <1>4 DEF Next, Work, Ended

LEMMA ReadyStep ==
    ASSUME Linked, LaidOut, ChainInv, ReadyInv, [Next]_vars
    PROVE  ReadyInv' /\ LaidOut'
<1>1. elf' = elf /\ tool' = tool
    BY ToolStays
<1>2. unit' = unit
    BY UnitStays
<1>3. LaidOut'
    BY ONLY <1>1, <1>2, LaidOut, LaidOutStays
<1>4. CASE tool = "objcopy"
    <2>1. Starting'
        BY <1>4, StartingStep DEF ReadyInv
    <2> QED BY <1>1, <1>3, <1>4, <2>1 DEF ReadyInv
<1>5. CASE tool # "objcopy"
    <2>1. Loaded'
        BY <1>5, LoadedStep DEF ReadyInv
    <2> QED BY <1>1, <1>3, <1>5, <2>1 DEF ReadyInv
<1> QED BY <1>4, <1>5

LEMMA SectionPart ==
    ASSUME NEW section, section.offset \in Nat, section.size \in Nat,
           elf.bytes \in Seq(Byte), section.offset + section.size <= Len(elf.bytes)
    PROVE  /\ SectionBytes(section) \in Seq(Byte) /\ Len(SectionBytes(section)) = section.size
           /\ \A k \in 1 .. section.size : SectionBytes(section)[k] = elf.bytes[section.offset + k]
<1>1. PICK p \in Nat, n \in Nat : p = section.offset /\ n = section.size
    OBVIOUS
<1>2. PICK s \in Seq(Byte) : s = elf.bytes
    OBVIOUS
<1>3. p + n <= Len(s)
    BY <1>1, <1>2
<1>4. /\ SubSeq(s, p + 1, p + n) \in Seq(Byte) /\ Len(SubSeq(s, p + 1, p + n)) = n
      /\ \A k \in 1 .. n : SubSeq(s, p + 1, p + n)[k] = s[p + k]
    BY ONLY <1>3, p \in Nat, n \in Nat, s \in Seq(Byte), Part
<1> QED BY ONLY <1>1, <1>2, <1>4 DEF SectionBytes

(* The debugger, or whoever else, has put the example into the cartridge.  *)
LEMMA ReadyInit ==
    ASSUME Init, Linked, LaidOut
    PROVE  ReadyInv
<1>1. CASE InitConvert
    <2>1. tool # "objcopy" /\ stage = "convert" /\ reached = "reset"
        BY <1>1, ImagesAssumption DEF InitConvert, ImageInit, Init
    <2> QED BY <2>1 DEF ReadyInv, Loaded
<1>2. CASE InitExample
    <2>1. PICK example \in Examples :
              /\ ImageInit({<<"objcopy", example.elf>>})
              /\ stage = "start" /\ unit = example.unit /\ layout = LinkSymbols(example.ctors)
              /\ mem = Put(Put(Blank, text_section.addr, SectionBytes(text_section)),
                           layout.val_start, SectionBytes(data_section))
        BY <1>2 DEF InitExample
    <2>2. tool = "objcopy" /\ at = "headers" /\ reached = "reset" /\ called = <<>>
        BY <2>1 DEF ImageInit, Init
    <2>3. unit \in {1, 2} /\ example.ctors \in Seq(STRING)
        BY <2>1, ImagesAssumption
    <2>4. constructors \in Seq(STRING)
        <3>1. layout.ctors = example.ctors
            BY <2>1 DEF LinkSymbols
        <3>2. <<>> \in Seq(STRING)
            OBVIOUS
        <3> QED BY ONLY <2>3, <3>1, <3>2 DEF constructors
    <2>5. Symbols
        BY <2>1, <2>3, <2>4 DEF Symbols, LinkSymbols, ValStart
    <2>6. CalledInOrder
        <3>1. <<>> \in Seq(STRING) /\ Len(<<>>) = 0
            OBVIOUS
        <3>2. Len(constructors) \in Nat
            BY <2>4
        <3> QED BY <2>2, <3>1, <3>2 DEF CalledInOrder
    <2> DEFINE text == SectionBytes(text_section)  data == SectionBytes(data_section)
               first == Put(Blank, text_section.addr, text)
    <2>7. /\ text_section.addr \in Nat /\ text_section.offset \in Nat /\ text_section.size \in Nat
          /\ data_section.offset \in Nat /\ data_section.size \in Nat
          /\ elf.bytes \in Seq(Byte)
          /\ text_section.offset + text_section.size <= Len(elf.bytes)
          /\ data_section.offset + data_section.size <= Len(elf.bytes)
        BY <2>2, SizesOK DEF Linked, LaidOut, Complete
    <2>8. /\ Len(text) = text_section.size
          /\ \A k \in 1 .. text_section.size : text[k] = elf.bytes[text_section.offset + k]
        BY <2>7, SectionPart
    <2>9. /\ Len(data) = data_section.size
          /\ \A k \in 1 .. data_section.size : data[k] = elf.bytes[data_section.offset + k]
        BY <2>7, SectionPart
    <2>10. mem = Put(first, ValStart, data)
        BY <2>1, <2>5 DEF Symbols
    <2>11. /\ ValStart \in Nat
           /\ \A a \in Extent(text_section) : a \in Int /\ a < ValStart
        BY RomFacts
    <2> HIDE DEF text, data, first
    <2>12. ASSUME NEW a \in Int
           PROVE  /\ a \in ValStart .. ValStart + data_section.size - 1 => Peek(mem, a) = data[a - ValStart + 1]
                  /\ a \notin ValStart .. ValStart + data_section.size - 1 => Peek(mem, a) = Peek(first, a)
        <3>1. ValStart \in Int /\ Len(data) \in Nat
            BY <2>7, <2>9, <2>11
        <3>2. /\ a \in ValStart .. ValStart + Len(data) - 1 =>
                     Peek(Put(first, ValStart, data), a) = data[a - ValStart + 1]
              /\ a \notin ValStart .. ValStart + Len(data) - 1 =>
                     Peek(Put(first, ValStart, data), a) = Peek(first, a)
            BY ONLY <3>1, a \in Int, PeekPut
        <3> QED BY ONLY <2>9, <2>10, <3>2
    <2>13. ASSUME NEW a \in Extent(text_section)
           PROVE  Peek(mem, a) = elf.bytes[text_section.offset + 1 + a - text_section.addr]
        <3> DEFINE k == a - text_section.addr + 1
        <3>1. /\ a \in Int /\ a \notin ValStart .. ValStart + data_section.size - 1
              /\ a \in text_section.addr .. text_section.addr + text_section.size - 1
              /\ k \in 1 .. text_section.size
              /\ text_section.offset + k = text_section.offset + 1 + a - text_section.addr
            <4>1. /\ a \in Int /\ a < ValStart
                  /\ a \in text_section.addr .. text_section.addr + text_section.size - 1
                BY <2>11 DEF Extent
            <4>2. a \notin ValStart .. ValStart + data_section.size - 1
                BY ONLY <2>7, <2>11, <4>1
            <4>3. /\ k \in 1 .. text_section.size
                  /\ text_section.offset + k = text_section.offset + 1 + a - text_section.addr
                <5>1. \A s, z, o, b \in Int : b \in s .. s + z - 1 =>
                          b - s + 1 \in 1 .. z /\ o + (b - s + 1) = o + 1 + b - s
                    OBVIOUS
                <5>2. /\ text_section.addr \in Int /\ text_section.size \in Int
                      /\ text_section.offset \in Int
                    BY ONLY <2>7
                <5> QED BY ONLY <4>1, <5>1, <5>2
            <4> QED BY ONLY <4>1, <4>2, <4>3
        <3>2. Peek(mem, a) = Peek(first, a)
            BY ONLY <2>12, <3>1
        <3>3. Peek(first, a) = text[k]
            <4>1. text_section.addr \in Int /\ Len(text) \in Nat
                BY <2>7, <2>8
            <4>2. PICK p \in Int : p = text_section.addr
                BY <4>1
            <4>3. PICK m : m = Blank
                OBVIOUS
            <4>4. /\ a \in p .. p + Len(text) - 1 => Peek(Put(m, p, text), a) = text[a - p + 1]
                  /\ a \notin p .. p + Len(text) - 1 => Peek(Put(m, p, text), a) = Peek(m, a)
                <5>1. a \in Int
                    BY ONLY <3>1
                <5> QED BY ONLY <4>1, <5>1, p \in Int, PeekPut
            <4> QED BY ONLY <2>8, <3>1, <4>2, <4>3, <4>4 DEF first
        <3> HIDE DEF k
        <3> QED BY ONLY <2>8, <3>1, <3>2, <3>3
    <2>14. ASSUME NEW k \in 1 .. data_section.size
           PROVE  Peek(mem, ValStart + k - 1) = elf.bytes[data_section.offset + k]
        <3> DEFINE a == ValStart + k - 1
        <3>1. /\ a \in Int /\ a \in ValStart .. ValStart + data_section.size - 1 /\ a - ValStart + 1 = k
            BY <2>7, <2>11
        <3> HIDE DEF a
        <3>2. Peek(mem, a) = data[k]
            BY <2>12, <3>1
        <3> QED BY <2>9, <3>2 DEF a
    <2>15. InRom
        BY <2>13, <2>14 DEF InRom, TextReady, InPlace
    <2> QED BY <2>1, <2>2, <2>5, <2>6, <2>15 DEF ReadyInv, Starting
<1> QED BY <1>1, <1>2 DEF Init

LEMMA ReadyCorrect ==
    ASSUME ReadyInv
    PROVE  ProgramReady
<1>1. CASE tool = "objcopy"
    <2>1. Starting
        BY <1>1 DEF ReadyInv
    <2>2. stage = "main" => called = constructors
        <3> SUFFICES ASSUME stage = "main" PROVE called = constructors
            OBVIOUS
        <3>1. /\ called \in Seq(STRING) /\ constructors \in Seq(STRING) /\ Len(called) = Len(constructors)
              /\ \A k \in 1 .. Len(called) : called[k] = constructors[k]
            BY <2>1 DEF Starting, Symbols, CalledInOrder
        <3>2. ASSUME NEW T, NEW s \in Seq(T), NEW t \in Seq(T), Len(s) = Len(t),
                     \A k \in 1 .. Len(s) : s[k] = t[k]
              PROVE  s = t
            BY ONLY s \in Seq(T), t \in Seq(T), <3>2
        <3> QED BY ONLY <3>1, <3>2
    <2>3. stage = "main" \/ reached = "ctors" => InRom /\ DataReady /\ BssReady
        BY <2>1 DEF Starting
    <2> QED BY <2>2, <2>3 DEF ProgramReady, InRom, TextReady, DataReady, BssReady
<1>2. CASE tool # "objcopy"
    <2>1. Loaded
        BY <1>2 DEF ReadyInv
    <2>2. reached # "ctors" /\ (stage = "main" /\ Prepared => Ready)
        BY <2>1 DEF Loaded
    <2> QED BY <1>2, <2>2 DEF ProgramReady, Ready, TextReady, DataReady, BssReady
<1> QED BY <1>1, <1>2

(* A step of _start2 writes one unit, at dst.                              *)
LEMMA StaysStep ==
    ASSUME Linked, LaidOut, ReadyInv, Next, stage = "_start2", NEW a \in DOMAIN mem', mem'[a] # Peek(mem, a)
    PROVE  \/ a \in layout.data_start .. Even(layout.data_end) - 1
           \/ a \in layout.bss_start .. Even(layout.bss_end) - 1
<1>1. tool = "objcopy" /\ Starting /\ Symbols
    BY DEF ReadyInv, Loaded, Starting
<1>2. StartUpStep
    BY DEF Next, Work, Ended, Convert, Split, Load, Plug, FollowRecord, FollowNothing, Start
<1>3. mem' # mem
    BY DEF Peek
<1>4. CopyData \/ ClearBss
    BY <1>2, <1>3 DEF StartUpStep, StartNext, DataCopied, BssCleared, CallConstructor, CallMain
<1>5. unit \in {1, 2}
    BY <1>1 DEF Symbols
<1>6. ASSUME NEW bytes, mem' = Put(mem, dst, bytes), Len(bytes) = unit, dst \in Nat
      PROVE  a \in dst .. dst + unit - 1
    <2>1. dst \in Int /\ Len(bytes) \in Nat /\ a \in DOMAIN Put(mem, dst, bytes)
        BY <1>5, <1>6
    <2>2. Put(mem, dst, bytes)[a] # Peek(mem, a) => a \in dst .. dst + Len(bytes) - 1
        BY ONLY <2>1, ChangedByPut
    <2> QED BY <1>6, <2>2
<1>7. ASSUME CopyData PROVE a \in layout.data_start .. Even(layout.data_end) - 1
    <2>1. /\ dst \in Nat /\ \A b \in dst .. dst + unit - 1 : b \in Rounded(data_section)
          /\ mem' = Put(mem, dst, [k \in 1 .. unit |-> Peek(mem, src + k - 1)])
        BY <1>1, <1>7, CopyWrites
    <2>2. Len([k \in 1 .. unit |-> Peek(mem, src + k - 1)]) = unit
        BY <1>5
    <2>3. a \in Rounded(data_section)
        BY <1>6, <2>1, <2>2
    <2> QED BY <1>1, <2>3 DEF Rounded, Symbols
<1>8. ASSUME ClearBss PROVE a \in layout.bss_start .. Even(layout.bss_end) - 1
    <2>1. /\ dst \in Nat /\ \A b \in dst .. dst + unit - 1 : b \in Rounded(bss_section)
          /\ mem' = Put(mem, dst, [k \in 1 .. unit |-> 0])
        BY <1>1, <1>8, ClearWrites
    <2>2. Len([k \in 1 .. unit |-> 0]) = unit
        BY <1>5
    <2>3. a \in Rounded(bss_section)
        BY <1>6, <2>1, <2>2
    <2> QED BY <1>1, <2>3 DEF Rounded, Symbols
<1> QED BY <1>4, <1>7, <1>8

(***************************************************************************)
(* Bytes and addresses.  What is written anywhere is bytes, and memory is  *)
(* written inside the address space: the loader takes six bytes more than  *)
(* the image, and a cartridge shows its record even if it is too long.     *)
(***************************************************************************)
InSpace ==
    /\ \A section \in {data_section, bss_section} : Even(section.addr + section.size) <= AddressEnd
    /\ text_section.addr + image_size + HeaderSize <= AddressEnd
    /\ RomStart + RomSize <= AddressEnd
    /\ tool = "elf2cart" /\ SymbolValue # 0 => SymbolValue + 10 <= RomStart + RomSize
    /\ text_section.offset <= Len(elf.bytes)
    /\ \/ data_section.offset <= Len(elf.bytes)
       \/ data_section.offset <= text_section.offset + text_section.size

BytesIn(m) == \A a \in DOMAIN m : a \in Address /\ m[a] \in Byte

SpaceInv ==
    /\ BytesIn(mem)
    /\ position <= Len(elf.bytes)
    /\ \A n \in DOMAIN disk : disk[n] \in Seq(Byte)
    /\ stage = "record" => RecordReady
    /\ tool # "objcopy" => called = <<>> /\ constructors = <<>>

LEMMA PutBytes ==
    ASSUME NEW m, BytesIn(m), NEW p \in Nat, NEW s \in Seq(Byte),
           Len(s) = 0 \/ p + Len(s) <= AddressEnd
    PROVE  BytesIn(Put(m, p, s))
<1> DEFINE written == p .. p + Len(s) - 1
<1>1. Put(m, p, s) = [a \in DOMAIN m \union written |-> IF a \in written THEN s[a - p + 1] ELSE m[a]]
    BY DEF Put
<1>2. Len(s) \in Nat /\ AddressEnd \in Nat
    BY Ea5SplitAssumption
<1>3. ASSUME NEW a \in written PROVE a \in Address /\ s[a - p + 1] \in Byte
    <2>1. a \in Nat /\ a < AddressEnd /\ a - p + 1 \in 1 .. Len(s)
        BY <1>2
    <2>2. \A k \in 1 .. Len(s) : s[k] \in Byte
        OBVIOUS
    <2> QED BY ONLY <1>2, <2>1, <2>2 DEF Address
<1>4. \A a \in DOMAIN m : a \in Address /\ m[a] \in Byte
    BY DEF BytesIn
<1> HIDE DEF written
<1> QED BY ONLY <1>1, <1>3, <1>4 DEF BytesIn

LEMMA PeekByte ==
    ASSUME NEW m, BytesIn(m), NEW a
    PROVE  Peek(m, a) \in Byte
<1>1. Junk \in Byte
    BY ImagesAssumption DEF Byte
<1> QED BY <1>1 DEF Peek, BytesIn

(* A step that leaves the image and the ELF file alone.                    *)
LEMMA RecordStays ==
    ASSUME UNCHANGED imageVars, mem' = mem
    PROVE  RecordReady => RecordReady'
<1>1. init_data' = init_data /\ init_data_addr' = init_data_addr
    BY SameElf DEF imageVars
<1> QED BY <1>1 DEF RecordReady

LEMMA InSpaceStays ==
    ASSUME InSpace, elf' = elf, tool' = tool
    PROVE  InSpace'
<1>1. /\ text_section' = text_section /\ data_section' = data_section /\ bss_section' = bss_section
      /\ image_size' = image_size /\ SymbolValue' = SymbolValue
    BY SameElf
<1> QED BY <1>1 DEF InSpace, Even, HeaderSize

(* Ten bytes of the image, once they are in memory, are the record.        *)
LEMMA RecordIs ==
    ASSUME Linked, elf' = elf, tool' = tool, init_data_addr' = init_data_addr,
           init_data_addr = SymbolValue,
           init_data_addr # 0 =>
              \A k \in 1 .. 10 : Peek(mem', text_section.addr + (RecordAt + k) - 1) = ImageByte(RecordAt + k)
    PROVE  RecordReady'
<1>1. init_data' = init_data
    BY SameElf
<1>2. ASSUME init_data_addr # 0, NEW k \in 1 .. 10
      PROVE  Peek(mem', init_data_addr + k - 1) = init_data[k]
    <2>1. /\ RecordAt \in Nat /\ text_section.addr \in Nat /\ init_data_addr = text_section.addr + RecordAt
          /\ RecordAt = init_data_addr - text_section.addr
        <3>1. RecordAt \in Nat /\ text_section.addr \in Nat
            BY <1>2, SizesOK
        <3>2. init_data_addr \in Int
            BY SizesOK DEF Linked
        <3> QED BY <3>1, <3>2 DEF RecordAt
    <2>2. /\ text_section.addr + (RecordAt + k) - 1 = init_data_addr + k - 1
          /\ RecordAt + k \in RecordAt + 1 .. RecordAt + 10 /\ (RecordAt + k) - RecordAt = k
        <3>1. PICK r \in Nat, base \in Nat : r = RecordAt /\ base = text_section.addr
            BY <2>1
        <3>2. /\ base + (r + k) - 1 = (base + r) + k - 1
              /\ r + k \in r + 1 .. r + 10 /\ (r + k) - r = k
            BY ONLY r \in Nat, base \in Nat, k \in 1 .. 10
        <3>3. init_data_addr = base + r
            BY ONLY <2>1, <3>1
        <3> QED BY ONLY <3>1, <3>2, <3>3
    <2>3. ImageByte(RecordAt + k) = init_data[k]
        BY ONLY <1>2, <2>2 DEF ImageByte
    <2>4. Peek(mem', text_section.addr + (RecordAt + k) - 1) = ImageByte(RecordAt + k)
        BY <1>2
    <2> QED BY ONLY <2>2, <2>3, <2>4
<1> QED BY <1>1, <1>2 DEF RecordReady

(* The image makers read inside the input.                                 *)
LEMMA PositionStays ==
    ASSUME Linked, InSpace, ImageInv, ImageNext, position <= Len(elf.bytes)
    PROVE  position' <= Len(elf.bytes)
<1>1. Len(elf.bytes) \in Nat /\ position \in Nat
    BY DEF Linked, ImageInv
<1>2. ASSUME ReadHeaders PROVE position' <= Len(elf.bytes)
    BY <1>2 DEF ReadHeaders, Exit, InSpace
<1>3. ASSUME WriteRecord PROVE position' <= Len(elf.bytes)
    BY <1>3 DEF WriteRecord, Readable
<1>4. ASSUME SeekData PROVE position' <= Len(elf.bytes)
    <2>1. position' = IF data_section = None THEN position ELSE data_section.offset
        BY <1>4 DEF SeekData
    <2>2. at = "rest" /\ left <= 0 /\ Reading
        <3>1. at = "rest" /\ left <= 0
            BY <1>4 DEF SeekData, Copied
        <3> QED BY <3>1 DEF ImageInv, Running
    <2>3. position = text_section.offset + text_section.size
        <3>1. Count <= text_section.size /\ left = text_section.size - Count /\ Count \in Nat
              /\ position = text_section.offset + Count
            BY <2>2 DEF Reading, ImageInv, Written, Running
        <3> QED BY <2>2, <3>1, SizesOK
    <2>4. \/ data_section.offset <= Len(elf.bytes)
          \/ data_section.offset <= position
        BY <2>3 DEF InSpace
    <2>5. data_section.offset \in Nat
        BY SizesOK
    <2> QED BY ONLY <1>1, <2>1, <2>4, <2>5, position <= Len(elf.bytes)
<1>5. ASSUME NEW from, CopyChunk(from) PROVE position' <= Len(elf.bytes)
    BY <1>5 DEF CopyChunk, Readable, Exit
<1>6. ASSUME CannotOpen \/ Close PROVE position' <= Len(elf.bytes)
    BY <1>6 DEF CannotOpen, Close, Exit
<1> QED BY <1>2, <1>3, <1>4, <1>5, <1>6 DEF ImageNext

LEMMA ConvertSpace ==
    ASSUME Linked, InSpace, ChainInv, Convert, tool # "objcopy", SpaceInv
    PROVE  SpaceInv'
<1>1. /\ ImageNext /\ ImageInv /\ ImageInv' /\ elf' = elf
    BY ImageStep DEF Convert, ChainInv
<1>2. mem' = mem /\ called' = called /\ constructors' = constructors /\ stage' # "record"
    BY DEF Convert, startVars, constructors
<1>3. position' <= Len(elf'.bytes)
    BY <1>1, PositionStays DEF SpaceInv
<1>4. \A n \in DOMAIN disk' : disk'[n] \in Seq(Byte)
    BY <1>1 DEF Convert, ImageInv, SpaceInv
<1>5. BytesIn(mem')
    BY <1>2 DEF SpaceInv
<1> QED BY <1>2, <1>3, <1>4, <1>5 DEF SpaceInv

\* The piece ea5split writes.
LEMMA WrittenPiece ==
    ASSUME ChainInv, stage = "split", WritePiece(output)
    PROVE  \E content \in Seq(Byte) :
              disk' = [n \in DOMAIN disk \union {name} |-> IF n = name THEN content ELSE disk[n]]
<1>1. Long /\ PiecesWritten
    BY DEF ChainInv, Splitting, WritePiece
<1>2. /\ Pieces \in Nat /\ StartAddress \in Nat /\ Content \in Nat /\ HeaderSize = 6
      /\ Len(output) = HeaderSize + Content /\ Room \in Nat /\ i < Pieces
    BY <1>1, LongFacts, RoomOK DEF WritePiece, Pieces
<1>3. /\ i \in 0 .. Pieces - 1
      /\ offset = HeaderSize + Before(i) /\ load_address = StartAddress + Before(i)
    BY <1>1, <1>2 DEF PiecesWritten
<1>4. Before(i) \in Nat /\ PieceLen(i) \in Nat
    BY <1>1, <1>3, PieceFacts
<1> DEFINE rest == Len(output) - offset
           l2 == IF rest > FileLimit - HeaderSize THEN FileLimit - HeaderSize ELSE rest
           more == IF i = files_number(output) - 1 THEN 0 ELSE 65535
           content == write16(more) \o write16(l2) \o write16(load_address)
                        \o SubSeq(output, offset + 1, offset + l2)
<1>5. l2 = PieceLen(i)
    <2>1. rest = Content - Before(i)
        BY <1>2, <1>3, <1>4
    <2> HIDE DEF rest
    <2> QED BY <2>1 DEF PieceLen, Room
<1>6. disk' = [n \in DOMAIN disk \union {name} |-> IF n = name THEN content ELSE disk[n]]
    BY DEF WritePiece
<1> HIDE DEF l2
<1>7. content = PieceFile(i)
    BY <1>3, <1>5 DEF PieceFile, Pieces
<1> HIDE DEF content
<1>8. content \in Seq(Byte)
    BY <1>1, <1>3, <1>7, PieceFileFacts
<1> QED BY <1>6, <1>8

LEMMA SplitSpace ==
    ASSUME ChainInv, Split, SpaceInv
    PROVE  SpaceInv'
<1>1. /\ stage = "split" /\ SplitNext(output) /\ stage' # "record"
      /\ mem' = mem /\ called' = called /\ constructors' = constructors
      /\ elf' = elf /\ position' = position /\ tool' = tool
    BY DEF Split, startVars, imageVars, constructors
<1>2. \A n \in DOMAIN disk' : disk'[n] \in Seq(Byte)
    <2>1. CASE WritePiece(output)
        <3>1. PICK content \in Seq(Byte) :
                  disk' = [n \in DOMAIN disk \union {name} |-> IF n = name THEN content ELSE disk[n]]
            BY <1>1, <2>1, WrittenPiece
        <3> QED BY <3>1 DEF SpaceInv
    <2>2. CASE ~WritePiece(output)
        <3>1. disk' = disk
            BY <1>1, <2>2 DEF SplitNext, SplitNothing, SplitRefused, SplitCrash, SplitStart, SplitEnd
        <3> QED BY <3>1 DEF SpaceInv
    <2> QED BY <2>1, <2>2
<1>3. BytesIn(mem')
    BY <1>1 DEF SpaceInv
<1> QED BY <1>1, <1>2, <1>3 DEF SpaceInv

LEMMA LoadedInSpace ==
    ASSUME NEW file \in Seq(Byte), NEW n \in Nat, Len(file) = HeaderSize + n,
           WordAt(file, 3) \in Nat, WordAt(file, 3) >= n, WordAt(file, 5) \in Nat,
           WordAt(file, 5) + WordAt(file, 3) <= AddressEnd,
           BytesIn(mem), Load, disk[loading] = file, loading \in DOMAIN disk
    PROVE  BytesIn(mem')
<1> DEFINE size == WordAt(file, 3)
           content == SubSeq(file, HeaderSize + 1, Len(file))
           tail == [k \in 1 .. size - Len(content) |-> Junk]
           bytes == SubSeq(content \o tail, 1, size)
<1>1. mem' = Put(mem, WordAt(file, 5), bytes)
    BY DEF Load
<1>2. bytes \in Seq(Byte) /\ Len(bytes) = size
    <2>1. /\ file \in Seq(Byte) /\ n \in Nat /\ Len(file) = HeaderSize + n
          /\ size \in Nat /\ size >= n
        OBVIOUS
    <2> HIDE DEF size
    <2> QED BY ONLY <2>1, LoadedBytes
<1> HIDE DEF bytes
<1>3. BytesIn(Put(mem, WordAt(file, 5), bytes))
    <2>1. PICK p \in Nat : p = WordAt(file, 5)
        OBVIOUS
    <2>2. p + Len(bytes) <= AddressEnd
        BY <1>2, <2>1
    <2>3. bytes \in Seq(Byte) /\ BytesIn(mem)
        BY <1>2
    <2>4. BytesIn(Put(mem, p, bytes))
        BY ONLY p \in Nat, <2>2, <2>3, PutBytes
    <2> QED BY ONLY <2>1, <2>4
<1> QED BY <1>1, <1>3

LEMMA LoadSpace ==
    ASSUME Linked, LaidOut, InSpace, ChainInv, Loaded, Load, tool # "objcopy", SpaceInv
    PROVE  SpaceInv'
<1>1. /\ stage = "load" /\ Converted /\ Loading
    BY DEF Load, ChainInv
<1>2. /\ UNCHANGED imageVars /\ UNCHANGED splitVars
      /\ called' = called /\ constructors' = constructors
      /\ elf' = elf /\ position' = position /\ tool' = tool /\ disk' = disk
    BY DEF Load, imageVars, splitVars, constructors
<1>3. BytesIn(mem')
    <2>1. CASE loading \notin DOMAIN disk
        BY <2>1 DEF Load, SpaceInv
    <2>2. CASE i = 0 /\ Len(output) <= FileLimit /\ OneFile /\ loading \in DOMAIN disk
        <3>1. disk[loading] = output
            BY <2>2 DEF OneFile
        <3>2. /\ StartAddress = text_section.addr
              /\ output \in Seq(Byte) /\ image_size \in Nat /\ Len(output) = HeaderSize + image_size
              /\ image_size + 6 < 65536 => WordAt(output, 3) = image_size + 6
            BY <1>1, ImageIs
        <3>3. PICK n \in Nat : n = image_size
            BY <3>2
        <3>4. n + 6 < 65536
            BY <2>2, <3>2, <3>3, RoomOK, Ea5SplitAssumption
        <3>5. WordAt(output, 3) = n + 6
            BY ONLY <3>2, <3>3, <3>4
        <3>6. PICK p \in Nat : p = text_section.addr
            BY SizesOK
        <3>7. WordAt(output, 5) = p /\ p + (n + 6) <= AddressEnd
            <4>1. p + n + 6 <= AddressEnd
                BY <3>3, <3>6, RoomOK DEF InSpace
            <4>2. p + (n + 6) <= AddressEnd
                BY <4>1, Ea5SplitAssumption
            <4>3. WordAt(output, 5) = text_section.addr
                BY ONLY <3>2 DEF StartAddress
            <4> QED BY ONLY <3>6, <4>2, <4>3
        <3>8. /\ WordAt(output, 3) \in Nat /\ WordAt(output, 3) >= n /\ WordAt(output, 5) \in Nat
              /\ WordAt(output, 5) + WordAt(output, 3) <= AddressEnd
              /\ Len(output) = HeaderSize + n /\ output \in Seq(Byte) /\ n \in Nat
            BY ONLY <3>2, <3>3, <3>5, <3>7, p \in Nat, n \in Nat
        <3>9. BytesIn(mem)
            BY DEF SpaceInv
        <3> QED BY ONLY <2>2, <3>1, <3>8, <3>9, Load, LoadedInSpace
    <2>3. CASE /\ Long /\ i = Pieces /\ PiecesWritten /\ loading \in DOMAIN disk
               /\ \E k \in Nat : k < Pieces /\ loading = PieceName(k)
        <3>1. PICK k \in Nat : k < Pieces /\ loading = PieceName(k)
            BY <2>3
        <3>2. k \in 0 .. Pieces - 1 /\ Pieces \in Nat \ {0}
            BY <2>3, <3>1, LongFacts
        <3>3. PICK file : file = PieceFile(k)
            OBVIOUS
        <3>4. disk[loading] = file
            BY <2>3, <3>1, <3>2, <3>3 DEF PiecesWritten
        <3>5. PICK n : n = PieceLen(k)
            OBVIOUS
        <3>6. PICK p : p = StartAddress + Before(k)
            OBVIOUS
        <3>7. /\ file \in Seq(Byte) /\ Len(file) = HeaderSize + n
              /\ WordAt(file, 3) = n /\ WordAt(file, 5) = p
            BY <2>3, <3>2, <3>3, <3>5, <3>6, PieceFileFacts
        <3>8. /\ n \in Nat /\ Before(k) \in Nat /\ Before(k) + n <= Content
            BY <2>3, <3>2, <3>5, PieceFacts
        <3>9. StartAddress \in Nat /\ Content \in Nat /\ StartAddress + Content <= AddressEnd
            <4>1. /\ StartAddress \in Nat /\ Content \in Nat /\ Len(output) = HeaderSize + Content
                  /\ HeaderSize = 6 /\ AddressEnd \in Nat
                BY <2>3, LongFacts, RoomOK, Ea5SplitAssumption
            <4>2. ~(StartAddress + Len(output) - HeaderSize - 1 >= AddressEnd)
                BY <2>3 DEF Long, OutsideRam, StartAddress
            <4> QED BY ONLY <4>1, <4>2
        <3>10. p \in Nat /\ p + n <= AddressEnd
            BY ONLY <3>6, <3>8, <3>9, Ea5SplitAssumption
        <3>11. /\ WordAt(file, 3) \in Nat /\ WordAt(file, 3) >= n /\ WordAt(file, 5) \in Nat
               /\ WordAt(file, 5) + WordAt(file, 3) <= AddressEnd
            BY ONLY <3>7, <3>8, <3>10
        <3>12. BytesIn(mem)
            BY DEF SpaceInv
        <3> QED BY ONLY <2>3, <3>4, <3>7, <3>8, <3>11, <3>12, Load, LoadedInSpace
    <2> QED BY <1>1, <2>1, <2>2, <2>3 DEF Loading
<1>4. ASSUME stage' = "record" PROVE RecordReady'
    <2>1. ChainInv' /\ Linked'
        BY ChainStep DEF Next, Work
    <2>2. Loaded'
        BY LoadReady
    <2>3. status' = 0 /\ at' = "done" /\ tool' = "elf2ea5" /\ init_data_addr' = SymbolValue'
        BY <1>1, <1>2, <2>1 DEF Converted, imageVars, ChainInv, ImageInv
    <2>4. CASE init_data_addr' = 0
        BY <2>4 DEF RecordReady
    <2>5. CASE init_data_addr' # 0
        <3>1. Prepared'
            BY <2>3, <2>5 DEF Prepared
        <3>2. InMemory(image_size)'
            BY <1>4, <2>2, <3>1 DEF Loaded
        <3>3. /\ elf' = elf /\ tool' = tool /\ init_data_addr' = init_data_addr /\ init_data_addr = SymbolValue
              /\ text_section' = text_section /\ image_size' = image_size
            BY <1>2, <2>3, SameElf DEF imageVars
        <3>4. RecordAt \in Nat /\ RecordAt + 10 <= image_size /\ image_size \in Nat
            BY <2>5, <3>3, SizesOK
        <3>5. ASSUME NEW k \in 1 .. 10
              PROVE  Peek(mem', text_section.addr + (RecordAt + k) - 1) = ImageByte(RecordAt + k)
            <4>1. PICK m : m = RecordAt + k
                OBVIOUS
            <4>2. m \in 1 .. image_size
                BY <3>4, <4>1
            <4>3. ImageByte(m)' = ImageByte(m)
                BY <3>3, SameElf DEF ImageByte, RecordAt
            <4>4. Peek(mem', text_section.addr + m - 1) = ImageByte(m)
                BY <3>2, <3>3, <4>2, <4>3 DEF InMemory
            <4> QED BY ONLY <4>1, <4>4
        <3> QED BY ONLY Linked, <3>3, <3>5, RecordIs
    <2> QED BY <2>4, <2>5
<1> QED BY <1>2, <1>3, <1>4 DEF SpaceInv

LEMMA PlugSpace ==
    ASSUME Linked, LaidOut, InSpace, ChainInv, Loaded, Plug, SpaceInv
    PROVE  SpaceInv'
<1> DEFINE bytes == SubSeq(output, 1, RomSize)
<1>1. /\ stage = "plug" /\ UNCHANGED imageVars /\ mem' = Put(mem, RomStart, bytes)
      /\ tool = "elf2cart" /\ status = 0 /\ at = "done"
      /\ called' = called /\ constructors' = constructors /\ disk' = disk
      /\ elf' = elf /\ tool' = tool /\ position' = position /\ init_data_addr' = init_data_addr
    BY DEF Plug, Loaded, imageVars, splitVars, constructors
<1>2. /\ Written /\ Reading /\ output \in Seq(Byte) /\ Len(output) \in Nat
      /\ init_data_addr = SymbolValue
    BY <1>1, ElfImageAssumption DEF ChainInv, ImageInv
<1>3. RomSize \in Nat /\ RomStart \in Nat
    BY ElfImageAssumption, ImagesAssumption
<1>4. Len(Header) = 0 /\ Count = Len(output) /\ Count >= RomSize
    <2>1. Len(Header) = 0
        BY <1>1, HeaderOK
    <2> QED BY <1>1, <1>2, <2>1 DEF Count, Reading
<1>5. bytes \in Seq(Byte) /\ Len(bytes) = RomSize /\ \A k \in 1 .. RomSize : bytes[k] = output[k]
    <2>1. 0 \in Nat /\ 0 + RomSize <= Len(output) /\ output \in Seq(Byte) /\ RomSize \in Nat
        BY <1>2, <1>3, <1>4
    <2>2. /\ SubSeq(output, 0 + 1, 0 + RomSize) \in Seq(Byte)
          /\ Len(SubSeq(output, 0 + 1, 0 + RomSize)) = RomSize
          /\ \A k \in 1 .. RomSize : SubSeq(output, 0 + 1, 0 + RomSize)[k] = output[0 + k]
        BY ONLY <2>1, Part
    <2>3. 0 + 1 = 1 /\ 0 + RomSize = RomSize /\ \A k \in 1 .. RomSize : 0 + k = k
        BY <1>3
    <2> QED BY ONLY <2>2, <2>3
<1> HIDE DEF bytes
<1>6. BytesIn(mem')
    <2>1. BytesIn(mem) /\ RomStart + Len(bytes) <= AddressEnd
        BY <1>5 DEF SpaceInv, InSpace
    <2>2. BytesIn(Put(mem, RomStart, bytes))
        BY ONLY <1>3, <1>5, <2>1, PutBytes
    <2> QED BY <1>1, <2>2
<1>7. ASSUME init_data_addr # 0, NEW k \in 1 .. 10
      PROVE  Peek(mem', text_section.addr + (RecordAt + k) - 1) = ImageByte(RecordAt + k)
    <2>1. /\ RecordAt \in Nat /\ RecordAt + 10 <= text_section.size /\ text_section.size \in Nat
          /\ image_size = text_section.size + data_section.size /\ data_section.size \in Nat
        BY <1>2, <1>7, SizesOK
    <2>2. text_section.addr = RomStart
        BY <1>1 DEF LaidOut
    <2>3. RecordAt + 10 <= RomSize
        <3>1. init_data_addr + 10 <= RomStart + RomSize /\ init_data_addr \in Int
            <4>1. init_data_addr \in Int
                BY <1>2, <1>7, SizesOK DEF Linked
            <4> QED BY <1>1, <1>2, <1>7, <4>1 DEF InSpace
        <3> QED BY <1>3, <2>2, <3>1 DEF RecordAt
    <2>4. PICK m : m = RecordAt + k
        OBVIOUS
    <2>5. m \in 1 .. RomSize /\ m \in 1 .. Count /\ m <= image_size
        <3>1. Count \in Nat
            BY <1>2, <1>4
        <3> QED BY ONLY <1>3, <1>4, <2>1, <2>3, <2>4, <3>1, k \in 1 .. 10
    <2>6. output[Len(Header) + m] = ImageByte(m)
        BY <1>2, <2>5 DEF Written
    <2>7. Peek(mem', RomStart + m - 1) = bytes[m]
        <3> DEFINE a == RomStart + m - 1
        <3>1. /\ a \in Int /\ a \in RomStart .. RomStart + Len(bytes) - 1 /\ a - RomStart + 1 = m
              /\ Len(bytes) \in Nat /\ RomStart \in Int
            BY ONLY <1>3, <1>5, <2>5
        <3> HIDE DEF a
        <3>2. a \in RomStart .. RomStart + Len(bytes) - 1 =>
                 Peek(Put(mem, RomStart, bytes), a) = bytes[a - RomStart + 1]
            BY ONLY <3>1, PeekPut
        <3> QED BY ONLY <1>1, <3>1, <3>2 DEF a
    <2>8. Len(Header) + m = m
        BY ONLY <1>3, <1>4, <2>5
    <2> QED BY ONLY <1>5, <2>2, <2>4, <2>5, <2>6, <2>7, <2>8
<1>8. RecordReady'
    BY ONLY Linked, <1>1, <1>2, <1>7, RecordIs
<1> QED BY <1>1, <1>6, <1>8 DEF SpaceInv

LEMMA FollowRecordSpace ==
    ASSUME Linked, LaidOut, InSpace, ChainInv, Loaded, FollowRecord, tool # "objcopy", SpaceInv
    PROVE  SpaceInv'
<1> DEFINE data == [k \in 1 .. FieldOf(2) |-> Peek(mem, FieldOf(1) + k - 1)]
           bss == [k \in 1 .. FieldOf(4) |-> 0]
           m == Put(mem, FieldOf(0), data)
<1>1. /\ stage = "record" /\ init_data_addr # 0 /\ stage' = "main"
      /\ called' = called /\ constructors' = constructors /\ disk' = disk
      /\ elf' = elf /\ tool' = tool /\ position' = position
    BY DEF FollowRecord, imageVars, splitVars, constructors
<1>2. mem' = Put(m, FieldOf(3), bss)
    BY DEF FollowRecord, FieldOf
<1>3. init_data_addr = SymbolValue /\ RecordReady /\ BytesIn(mem)
    BY <1>1 DEF ChainInv, ImageInv, Loaded, SpaceInv
<1>4. /\ Moved => FieldOf(0) = data_section.addr /\ FieldOf(2) = data_section.size
      /\ ~Moved => FieldOf(2) = 0
      /\ FieldOf(3) = bss_section.addr /\ FieldOf(4) = bss_section.size
      /\ FieldOf(0) \in Nat /\ FieldOf(1) \in Nat
    BY <1>1, <1>3, FieldsRead
<1>5. /\ data_section.addr \in Nat /\ data_section.size \in Nat
      /\ bss_section.addr \in Nat /\ bss_section.size \in Nat
      /\ data_section.addr + data_section.size <= AddressEnd
      /\ bss_section.addr + bss_section.size <= AddressEnd
    <2>1. /\ data_section.addr \in Nat /\ data_section.size \in Nat
          /\ bss_section.addr \in Nat /\ bss_section.size \in Nat /\ AddressEnd \in Nat
        BY SizesOK, Ea5SplitAssumption
    <2>2. /\ Even(data_section.addr + data_section.size) <= AddressEnd
          /\ Even(bss_section.addr + bss_section.size) <= AddressEnd
        BY DEF InSpace
    <2>3. ASSUME NEW e \in Nat, Even(e) <= AddressEnd PROVE e <= AddressEnd
        BY <2>1, <2>3 DEF Even
    <2> QED BY <2>1, <2>2, <2>3
<1>6. FieldOf(2) \in Nat /\ FieldOf(3) \in Nat /\ FieldOf(4) \in Nat
    BY <1>4, <1>5
<1>7. data \in Seq(Byte) /\ Len(data) = FieldOf(2)
    <2>1. \A k \in 1 .. FieldOf(2) : Peek(mem, FieldOf(1) + k - 1) \in Byte
        BY <1>3, PeekByte
    <2> QED BY <1>6, <2>1
<1>8. bss \in Seq(Byte) /\ Len(bss) = FieldOf(4)
    BY <1>6 DEF Byte
<1> HIDE DEF data, bss
<1>9. BytesIn(m)
    <2>1. Len(data) = 0 \/ FieldOf(0) + Len(data) <= AddressEnd
        BY ONLY <1>4, <1>5, <1>7
    <2>2. FieldOf(0) \in Nat /\ data \in Seq(Byte) /\ BytesIn(mem)
        BY ONLY <1>3, <1>4, <1>7
    <2> QED BY ONLY <2>1, <2>2, PutBytes
<1> HIDE DEF m
<1>10. BytesIn(mem')
    <2>1. FieldOf(3) + Len(bss) <= AddressEnd
        BY ONLY <1>4, <1>5, <1>8
    <2>2. BytesIn(Put(m, FieldOf(3), bss))
        BY ONLY <1>6, <1>8, <1>9, <2>1, PutBytes
    <2> QED BY ONLY <1>2, <2>2
<1> QED BY <1>1, <1>10 DEF SpaceInv

\* A pass of the loops of _start2.
LEMMA UnitInSpace ==
    ASSUME Linked, InSpace, BytesIn(mem), unit \in {1, 2}, dst \in Nat,
           NEW section \in {data_section, bss_section},
           \A a \in dst .. dst + unit - 1 : a \in Rounded(section),
           NEW bytes \in Seq(Byte), Len(bytes) = unit, mem' = Put(mem, dst, bytes)
    PROVE  BytesIn(mem')
<1>1. Even(section.addr + section.size) <= AddressEnd
    BY DEF InSpace
<1>2. section.addr \in Nat /\ section.size \in Nat /\ AddressEnd \in Nat
    BY Ea5SplitAssumption DEF Linked
<1>3. dst + unit <= AddressEnd
    <2>1. dst + unit - 1 \in dst .. dst + unit - 1
        OBVIOUS
    <2>2. dst + unit - 1 \in section.addr .. Even(section.addr + section.size) - 1
        BY <2>1 DEF Rounded
    <2>3. PICK e \in Nat : e = section.addr + section.size
        BY <1>2
    <2>4. Even(section.addr + section.size) = e + (e % 2)
        BY <2>3 DEF Even
    <2> QED BY <1>1, <1>2, <2>2, <2>3, <2>4
<1>4. BytesIn(Put(mem, dst, bytes))
    BY ONLY <1>3, BytesIn(mem), dst \in Nat, bytes \in Seq(Byte), Len(bytes) = unit, PutBytes
<1> QED BY <1>4

LEMMA StartUpSpace ==
    ASSUME Linked, LaidOut, InSpace, Starting, tool = "objcopy", StartUpStep, SpaceInv
    PROVE  SpaceInv'
<1>1. /\ stage' # "record" /\ tool' = "objcopy" /\ elf' = elf /\ position' = position /\ disk' = disk
    BY DEF StartUpStep, imageVars, splitVars
<1>2. Symbols /\ unit \in {1, 2} /\ BytesIn(mem)
    BY DEF Starting, Symbols, SpaceInv
<1>3. BytesIn(mem')
    <2>1. CASE CopyData
        <3> DEFINE bytes == [k \in 1 .. unit |-> Peek(mem, src + k - 1)]
        <3>1. /\ dst \in Nat /\ \A a \in dst .. dst + unit - 1 : a \in Rounded(data_section)
              /\ mem' = Put(mem, dst, bytes)
            BY <2>1, CopyWrites
        <3>2. bytes \in Seq(Byte) /\ Len(bytes) = unit
            <4>1. \A k \in 1 .. unit : Peek(mem, src + k - 1) \in Byte
                BY <1>2, PeekByte
            <4> QED BY <1>2, <4>1
        <3> HIDE DEF bytes
        <3> QED BY ONLY Linked, InSpace, <1>2, <3>1, <3>2, UnitInSpace
    <2>2. CASE ClearBss
        <3> DEFINE bytes == [k \in 1 .. unit |-> 0]
        <3>1. /\ dst \in Nat /\ \A a \in dst .. dst + unit - 1 : a \in Rounded(bss_section)
              /\ mem' = Put(mem, dst, bytes)
            BY <2>2, ClearWrites
        <3>2. bytes \in Seq(Byte) /\ Len(bytes) = unit
            BY <1>2 DEF Byte
        <3> HIDE DEF bytes
        <3> QED BY ONLY Linked, InSpace, <1>2, <3>1, <3>2, UnitInSpace
    <2>3. CASE DataCopied \/ BssCleared \/ CallConstructor \/ CallMain
        <3>1. mem' = mem
            BY <2>3 DEF DataCopied, BssCleared, CallConstructor, CallMain
        <3> QED BY <1>2, <3>1
    <2> QED BY <2>1, <2>2, <2>3 DEF StartUpStep, StartNext
<1> QED BY <1>1, <1>3 DEF SpaceInv

LEMMA SpaceStep ==
    ASSUME Linked, LaidOut, InSpace, ChainInv, ReadyInv, SpaceInv, [Next]_vars
    PROVE  SpaceInv' /\ InSpace'
<1>1. elf' = elf /\ tool' = tool
    BY ToolStays
<1>2. InSpace'
    BY <1>1, InSpaceStays
<1>3. CASE tool = "objcopy"
    <2>1. Starting
        BY <1>3 DEF ReadyInv
    <2>2. ASSUME Start \/ UNCHANGED vars PROVE SpaceInv'
        <3>1. /\ mem' = mem /\ disk' = disk /\ position' = position /\ stage' # "record"
            BY <2>1, <2>2 DEF Start, Starting, vars, imageVars, splitVars, startVars
        <3> QED BY <1>1, <1>3, <3>1 DEF SpaceInv
    <2>3. ~(Convert \/ Split \/ Load \/ Plug \/ FollowRecord \/ FollowNothing)
        BY <2>1 DEF Starting, Convert, Split, Load, Plug, FollowRecord, FollowNothing
    <2> QED BY <1>2, <1>3, <2>1, <2>2, <2>3, StartUpSpace DEF Next, Work, Ended
<1>4. CASE tool # "objcopy"
    <2>1. Loaded /\ ~Start /\ ~StartUpStep
        BY <1>4 DEF ReadyInv, Loaded, Start, StartUpStep
    <2>2. ASSUME FollowNothing PROVE SpaceInv'
        <3>1. /\ mem' = mem /\ disk' = disk /\ position' = position /\ stage' # "record"
              /\ called' = called /\ constructors' = constructors
            BY <2>2 DEF FollowNothing, imageVars, splitVars, constructors
        <3> QED BY <1>1, <3>1 DEF SpaceInv
    <2>3. ASSUME UNCHANGED vars PROVE SpaceInv'
        <3>1. /\ mem' = mem /\ disk' = disk /\ position' = position /\ stage' = stage
              /\ called' = called /\ constructors' = constructors /\ UNCHANGED imageVars
            BY <2>3 DEF vars, imageVars, splitVars, startVars, constructors
        <3> QED BY <1>1, <3>1, RecordStays DEF SpaceInv
    <2> QED BY <1>2, <1>4, <2>1, <2>2, <2>3, ConvertSpace, SplitSpace, LoadSpace, PlugSpace, FollowRecordSpace
            DEF Next, Work, Ended
<1> QED BY <1>2, <1>3, <1>4

\* What the debugger has put into the cartridge is in the address space.
LEMMA SpaceInit ==
    ASSUME Init, Linked, LaidOut, InSpace
    PROVE  SpaceInv
<1>1. /\ disk = <<>> /\ called = <<>> /\ position = 0 /\ stage # "record" /\ DOMAIN disk = {}
    <2>1. disk = <<>> /\ called = <<>> /\ position = 0 /\ stage # "record"
        BY DEF Init, InitConvert, InitExample, InitSplit, ImageInit
    <2> QED BY <2>1
<1>2. position <= Len(elf.bytes)
    <2>1. Len(elf.bytes) \in Nat
        BY DEF Linked
    <2> QED BY <1>1, <2>1
<1>3. BytesIn(Blank)
    <2>1. DOMAIN Blank = {}
        BY DEF Blank
    <2> QED BY <2>1 DEF BytesIn
<1>4. CASE InitConvert
    <2>1. mem = Blank /\ unit = 1
        BY <1>4 DEF InitConvert
    <2>2. constructors = <<>>
        BY <2>1 DEF constructors
    <2> QED BY <1>1, <1>2, <1>3, <2>1, <2>2 DEF SpaceInv
<1>5. CASE InitExample
    <2>1. /\ tool = "objcopy"
          /\ layout.val_start = ValStart
          /\ mem = Put(Put(Blank, text_section.addr, SectionBytes(text_section)),
                       layout.val_start, SectionBytes(data_section))
        BY <1>5 DEF InitExample, ImageInit, LinkSymbols, ValStart
    <2> DEFINE text == SectionBytes(text_section)  data == SectionBytes(data_section)
               first == Put(Blank, text_section.addr, text)
    <2>2. /\ text_section.addr \in Nat /\ text_section.offset \in Nat /\ text_section.size \in Nat
          /\ data_section.offset \in Nat /\ data_section.size \in Nat
          /\ image_size = text_section.size + data_section.size
          /\ elf.bytes \in Seq(Byte)
          /\ text_section.offset + text_section.size <= Len(elf.bytes)
          /\ data_section.offset + data_section.size <= Len(elf.bytes)
        BY <2>1, SizesOK DEF Linked, LaidOut, Complete
    <2>3. text \in Seq(Byte) /\ Len(text) = text_section.size
        BY <2>2, SectionPart
    <2>4. data \in Seq(Byte) /\ Len(data) = data_section.size
        BY <2>2, SectionPart
    <2>5. /\ ValStart \in Nat /\ ValStart + data_section.size <= AddressEnd
          /\ text_section.addr + text_section.size <= AddressEnd
        <3>1. PICK a \in Nat, t \in Nat, d \in Nat :
                  a = text_section.addr /\ t = text_section.size /\ d = data_section.size
            BY <2>2
        <3>2. PICK e \in Nat : e = a + t
            OBVIOUS
        <3>3. PICK r : r = e % 2
            OBVIOUS
        <3>4. a + (t + d) + 6 <= AddressEnd
            BY <2>2, <3>1, RoomOK DEF InSpace
        <3>5. r \in 0 .. 1
            BY <3>3
        <3>6. ValStart = e + r
            BY <3>1, <3>2, <3>3 DEF ValStart, Even
        <3>7. AddressEnd \in Nat
            BY Ea5SplitAssumption
        <3>8. (e + r) + d <= AddressEnd /\ a + t <= AddressEnd /\ e + r \in Nat
            BY ONLY <3>2, <3>4, <3>5, <3>7, a \in Nat, t \in Nat, d \in Nat, e \in Nat
        <3> QED BY ONLY <3>1, <3>6, <3>8
    <2>6. mem = Put(first, ValStart, data)
        BY <2>1
    <2> HIDE DEF text, data
    <2>7. BytesIn(first)
        <3>1. text_section.addr + Len(text) <= AddressEnd
            BY <2>3, <2>5
        <3>2. PICK p \in Nat : p = text_section.addr
            BY <2>2
        <3>3. BytesIn(Put(Blank, p, text))
            BY ONLY <1>3, <2>3, <3>1, <3>2, p \in Nat, PutBytes
        <3> QED BY ONLY <3>2, <3>3
    <2> HIDE DEF first
    <2>8. BytesIn(mem)
        <3>1. ValStart + Len(data) <= AddressEnd
            BY <2>4, <2>5
        <3>2. BytesIn(Put(first, ValStart, data))
            BY ONLY <2>4, <2>5, <2>7, <3>1, PutBytes
        <3> QED BY ONLY <2>6, <3>2
    <2> QED BY <1>1, <1>2, <2>1, <2>8 DEF SpaceInv
<1> QED BY <1>4, <1>5 DEF Init

LEMMA SpaceTyped ==
    ASSUME Linked, ChainInv, ReadyInv, SpaceInv
    PROVE  TypeOK
<1>1. /\ output \in Seq(Byte) /\ position \in Nat /\ status \in {Running, 0, 1}
      /\ Len(elf.bytes) \in Nat
    <2>1. ImageInv
        BY DEF ChainInv
    <2>2. output \in Seq(Byte) /\ position \in Nat /\ status \in {Running, 0, 1}
        BY ONLY <2>1 DEF ImageInv
    <2>3. Len(elf.bytes) \in Nat
        BY DEF Linked
    <2> QED BY ONLY <2>2, <2>3
<1>2. Byte = 0 .. 255
    BY DEF Byte
<1>3. DOMAIN mem \subseteq Address /\ \A a \in DOMAIN mem : mem[a] \in 0 .. 255
    BY <1>2 DEF SpaceInv, BytesIn
<1>4. ASSUME NEW s \in Seq(Byte), NEW k \in DOMAIN s PROVE s[k] \in 0 .. 255
    <2>1. s[k] \in Byte
        OBVIOUS
    <2> QED BY ONLY <1>2, <2>1
<1>5. position \in 0 .. Len(elf.bytes)
    BY <1>1 DEF SpaceInv
<1>6. Len(called) <= Len(constructors)
    <2>1. CASE tool = "objcopy"
        BY <2>1 DEF ReadyInv, Starting, CalledInOrder
    <2>2. CASE tool # "objcopy"
        BY <2>2 DEF SpaceInv
    <2> QED BY <2>1, <2>2
<1>7. \A n \in DOMAIN disk : disk[n] \in Seq(Byte)
    BY DEF SpaceInv
<1>8. \A k \in DOMAIN output : output[k] \in 0 .. 255
    BY <1>1, <1>4
<1>9. \A n \in DOMAIN disk : \A k \in DOMAIN disk[n] : disk[n][k] \in 0 .. 255
    BY <1>4, <1>7
<1> QED BY <1>1, <1>3, <1>5, <1>6, <1>8, <1>9 DEF TypeOK

(***************************************************************************)
(* The theorems.                                                           *)
(***************************************************************************)
LEMMA ReadyAlways == Spec /\ Linked /\ LaidOut => [](Linked /\ LaidOut /\ ChainInv /\ ReadyInv)
<1>1. Init /\ Linked /\ LaidOut => Linked /\ LaidOut /\ ChainInv /\ ReadyInv
    BY ChainInit, ReadyInit
<1>2. Linked /\ LaidOut /\ ChainInv /\ ReadyInv /\ [Next]_vars => (Linked /\ LaidOut /\ ChainInv /\ ReadyInv)'
    <2> SUFFICES ASSUME Linked, LaidOut, ChainInv, ReadyInv, [Next]_vars
                 PROVE  Linked' /\ LaidOut' /\ ChainInv' /\ ReadyInv'
        OBVIOUS
    <2> QED BY ChainStep, ReadyStep
<1> QED BY <1>1, <1>2, PTL DEF Spec

(* main, and before it every constructor, finds the bytes of .text and     *)
(* .data where they were linked and .bss clear, and the constructors have  *)
(* run once, in order: for any sizes and addresses of sections that do not *)
(* overlap, any length of file the loader takes, any size of the chunks    *)
(* and of the cartridge, and any name given to ea5split.                   *)
THEOREM ProgramIsReady == Spec /\ Linked /\ LaidOut => []ProgramReady
<1>1. ReadyInv => ProgramReady
    BY ReadyCorrect
<1> QED BY <1>1, ReadyAlways, PTL

(* _start2 never writes a byte outside .data and .bss, but for the one     *)
(* that rounds a section of odd size up to words.                          *)
THEOREM StartUpStaysInside == Spec /\ Linked /\ LaidOut => StartUpStays
<1>1. /\ Linked /\ LaidOut /\ ReadyInv /\ [Next]_vars
      => [stage = "_start2" =>
            \A a \in DOMAIN mem' : mem'[a] # Peek(mem, a) =>
                \/ a \in layout.data_start .. Even(layout.data_end) - 1
                \/ a \in layout.bss_start .. Even(layout.bss_end) - 1]_vars
    BY StaysStep
<1> QED BY <1>1, ReadyAlways, PTL DEF Spec, StartUpStays

(* Whatever the programs write, they write bytes, and only inside the      *)
(* address space; the image makers never read past the end of the ELF file *)
(* and no constructor is called that the program does not have.            *)
THEOREM BytesInSpace == Spec /\ Linked /\ LaidOut /\ InSpace => []TypeOK
<1> DEFINE Inv == Linked /\ LaidOut /\ InSpace /\ ChainInv /\ ReadyInv /\ SpaceInv
<1>1. Init /\ Linked /\ LaidOut /\ InSpace => Inv
    BY ChainInit, ReadyInit, SpaceInit
<1>2. Inv /\ [Next]_vars => Inv'
    <2> SUFFICES ASSUME Linked, LaidOut, InSpace, ChainInv, ReadyInv, SpaceInv, [Next]_vars
                 PROVE  Linked' /\ LaidOut' /\ InSpace' /\ ChainInv' /\ ReadyInv' /\ SpaceInv'
        OBVIOUS
    <2> QED BY ChainStep, ReadyStep, SpaceStep
<1>3. Inv => TypeOK
    BY SpaceTyped
<1> HIDE DEF Inv
<1> QED BY <1>1, <1>2, <1>3, PTL DEF Spec
=============================================================================
