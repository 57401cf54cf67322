------------------------------- MODULE MCHeap --------------------------------
(***************************************************************************)
(* Heap on a pool of a few blocks of 4 bytes, sizes of 7 bits.             *)
(***************************************************************************)
EXTENDS Heap

(* Requests of one, two and three blocks; 4 and 5 are the two sides of a   *)
(* block boundary.                                                         *)
SmallSizes == {4, 5, 12}

(* Callers that never ask for an empty allocation: the precondition of the *)
(* theorems holds of these sizes.                                          *)
ASSUME RequestsChecked == NoWrap /\ SomeBlocks
==============================================================================
