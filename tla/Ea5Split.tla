------------------------------ MODULE Ea5Split ------------------------------
(***************************************************************************)
(* ea5split.c: an EA5 file that is too long for the loader becomes a chain *)
(* of files whose names count up in their last character.                  *)
(*                                                                         *)
(* Of the name only its end matters: a sequence of character codes, the    *)
(* last one before the extension, and the digit that may follow it.  There *)
(* is one: a name that begins with '.' makes the program read before it.   *)
(***************************************************************************)
EXTENDS Integers, Sequences, SequencesExt

CONSTANTS
    FileLimit,     \* bytes of the longest file the loader takes: >2000
    LowRamEnd,     \* >4000: expansion RAM ends here ...
    HighRamStart,  \* >A000: ... and goes on from here ...
    AddressEnd     \* >10000: ... to here

VARIABLES
    splitting,     \* "no", "pieces", "done", "refused" or "crashed"
    argument,      \* the file given: [name, extension], the latter a BOOLEAN
    name,          \* the end of the name of the piece written next
    i,             \* pieces written
    offset,        \* bytes of the file dealt with
    load_address,  \* where the next piece is loaded
    disk           \* [end of a name -> bytes of that file]

splitVars == <<splitting, argument, name, i, offset, load_address, disk>>

HeaderSize == 6

ASSUME Ea5SplitAssumption ==
    /\ {FileLimit, LowRamEnd, HighRamStart, AddressEnd} \subseteq Nat
    /\ HeaderSize < FileLimit /\ FileLimit < 65536
    /\ LowRamEnd <= HighRamStart /\ HighRamStart <= AddressEnd /\ AddressEnd <= 65536

WordAt(bytes, k) == bytes[k] * 256 + bytes[k + 1]
write16(v) == <<(v \div 256) % 256, v % 256>>

One == 49                       \* '1'
UpperA == 65  UpperZ == 90  LowerA == 97  LowerZ == 122

(***************************************************************************)
(* One run of the program on a file of contents `data`.                    *)
(***************************************************************************)
files_number(data) ==
    LET content == Len(data) - HeaderSize
        piece == FileLimit - HeaderSize
    IN (content \div piece) + (IF content % piece = 0 THEN 0 ELSE 1)

OutsideRam(data) ==
    LET end_address == WordAt(data, 5) + Len(data) - HeaderSize - 1
    IN \/ end_address >= AddressEnd
       \/ end_address >= LowRamEnd /\ end_address < HighRamStart

\* A char of the host: 128 is -128.
Char(x) == ((x + 128) % 256) - 128

\* The name of the first piece: a digit is appended when the last character
\* would leave its alphabet on the way.
FirstName(data) ==
    LET first == argument.name
        c == Char(Last(first) + files_number(data) - 1)
    IN IF (c > UpperZ /\ c < LowerA) \/ c > LowerZ THEN Append(first, One) ELSE first

\* A file that needs no splitting is left alone.
SplitNothing(data) ==
    /\ splitting = "no"
    /\ Len(data) <= FileLimit
    /\ splitting' = "done"
    /\ UNCHANGED <<argument, name, i, offset, load_address, disk>>

\* The message of line 37; nothing has been written.
SplitRefused(data) ==
    /\ splitting = "no"
    /\ Len(data) > FileLimit
    /\ OutsideRam(data)
    /\ splitting' = "refused"
    /\ UNCHANGED <<argument, name, i, offset, load_address, disk>>

\* Line 57 takes the length of an extension that is not there.
SplitCrash(data) ==
    /\ splitting = "no"
    /\ Len(data) > FileLimit
    /\ ~OutsideRam(data)
    /\ ~argument.extension
    /\ splitting' = "crashed"
    /\ UNCHANGED <<argument, name, i, offset, load_address, disk>>

SplitStart(data) ==
    /\ splitting = "no"
    /\ Len(data) > FileLimit
    /\ ~OutsideRam(data)
    /\ argument.extension
    /\ splitting' = "pieces"
    /\ name' = FirstName(data)
    /\ load_address' = WordAt(data, 5)
    /\ offset' = HeaderSize
    /\ UNCHANGED <<argument, i, disk>>

\* Mutant: the header is not counted.
WritePieceWithoutRoom(data) ==
    LET rest == Len(data) - offset
        l2 == IF rest > FileLimit THEN FileLimit ELSE rest
        more == IF i = files_number(data) - 1 THEN 0 ELSE 65535
        content == write16(more) \o write16(l2) \o write16(load_address)
                     \o SubSeq(data, offset + 1, offset + l2)
    IN  /\ splitting = "pieces"
        /\ i < files_number(data)
        /\ disk' = [n \in DOMAIN disk \union {name} |-> IF n = name THEN content ELSE disk[n]]
        /\ load_address' = load_address + l2
        /\ offset' = offset + l2
        /\ name' = [name EXCEPT ![Len(name)] = @ + 1]
        /\ i' = i + 1
        /\ UNCHANGED <<splitting, argument>>

WritePiece(data) ==
    LET rest == Len(data) - offset
        l2 == IF rest > FileLimit - HeaderSize THEN FileLimit - HeaderSize ELSE rest
        more == IF i = files_number(data) - 1 THEN 0 ELSE 65535
        content == write16(more) \o write16(l2) \o write16(load_address)
                     \o SubSeq(data, offset + 1, offset + l2)
    IN  /\ splitting = "pieces"
        /\ i < files_number(data)
        /\ disk' = [n \in DOMAIN disk \union {name} |-> IF n = name THEN content ELSE disk[n]]
        /\ load_address' = load_address + l2
        /\ offset' = offset + l2
        /\ name' = [name EXCEPT ![Len(name)] = @ + 1]
        /\ i' = i + 1
        /\ UNCHANGED <<splitting, argument>>

SplitEnd(data) ==
    /\ splitting = "pieces"
    /\ i = files_number(data)
    /\ splitting' = "done"
    /\ UNCHANGED <<argument, name, i, offset, load_address, disk>>

SplitNext(data) ==
    \/ SplitNothing(data) \/ SplitRefused(data) \/ SplitCrash(data)
    \/ SplitStart(data) \/ WritePiece(data) \/ SplitEnd(data)
=============================================================================
