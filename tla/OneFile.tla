------------------------------ MODULE OneFile ------------------------------
(***************************************************************************)
(* FileIO with constants and variables of its own, for modules that have   *)
(* it beside another component of the file system.                         *)
(***************************************************************************)
CONSTANTS BlockSize, Direct, Indirect, Blocks, Byte, Hole, Positions, Counts

VARIABLES pos, size, sect, tab, content, bits, got, outcome
ioVars == <<pos, size, sect, tab, content, bits, got, outcome>>

IO == INSTANCE FileIO WITH fault <- outcome

ASSUME FileAssumption == IO!FileShape

\* The file's blocks are its own, each with its bit.
BlocksOwned == IO!BlocksOwned

\* A read returns what was written, save at the first indirect block.
ReadIsExact == IO!ReadIsExact

\* The file is a row of bytes.
IsByteFile == IO!IsByteFile
=============================================================================
