------------------------------ MODULE MCObjdump ------------------------------
(***************************************************************************)
(* Every first word an instruction can have, followed by two words that    *)
(* differ from each other and may be operands.                             *)
(***************************************************************************)
EXTENDS Objdump

MCSections == {<<w, \h1234, \h5678>> : w \in 0 .. 65535}
=============================================================================
