---------------------------- MODULE MCAddressSpace ---------------------------
(***************************************************************************)
(* AddressSpace with pages of two bytes, tables of five entries: three low *)
(* pages, the kernel's page, a program's stack, two pages of program, the  *)
(* kernel's stack, and the heap.                                           *)
(***************************************************************************)
EXTENDS AddressSpace, TLC

Symmetry == Permutations(Processes)

Header(offset, vaddr, size, write) ==
  [load |-> TRUE, offset |-> offset, vaddr |-> vaddr, filesz |-> size, memsz |-> size,
   write |-> write]

(* A header that is not loaded, as of a stack.                             *)
NotLoaded == [Header(0, 2, 0, TRUE) EXCEPT !.load = FALSE]

TextAndData ==
  [valid |-> TRUE, size |-> 5, phdrs |-> <<Header(2, 10, 2, FALSE), Header(1, 13, 1, TRUE), NotLoaded>>]

Binary == [valid |-> FALSE, size |-> 2, phdrs |-> <<>>]

Programs == {TextAndData, Binary}

KernelCodeAndStack == {3, 7}

HeapFrames == 8 .. 16

OneFrame == {1}

(* A page of the program, and a frame of the heap that is free, the        *)
(* program's or another's at one time or other.                            *)
SomeAddresses == {5, 11}
==============================================================================
