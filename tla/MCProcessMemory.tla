--------------------------- MODULE MCProcessMemory ---------------------------
(***************************************************************************)
(* ProcessMemory with blocks of 4 bytes and programs of one or two blocks. *)
(***************************************************************************)
EXTENDS ProcessMemory, TLC

Symmetry == Permutations(Processes)

(* Programs whose memory is what their file holds: an ELF file, for whose  *)
(* copy there may be no memory while there is for a stack, and a binary.   *)
ElfAndBinary ==
  {[elf |-> TRUE, file |-> 8, memory |-> 8], [elf |-> FALSE, file |-> 4, memory |-> 4]}

(* A program with data that is not in its file.                            *)
WithBss == {[elf |-> TRUE, file |-> 4, memory |-> 8]}

TwoBlocks == {8}

(* The precondition of the theorems holds of these sizes. *)
ASSUME RequestsChecked == NoWrap
==============================================================================
