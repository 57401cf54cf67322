------------------------------ MODULE HeapTable ------------------------------
(***************************************************************************)
(* The table of the kernel heap (memory/heap/heap.c): one byte per block   *)
(* of the pool, a first-fit search for a run of free blocks, and a chain   *)
(* of HAS_NEXT bits that tells free where an allocation ends.              *)
(***************************************************************************)
EXTENDS Integers

CONSTANTS
  Total,        \* table->total, the number of blocks of the pool
  BlockSize,    \* PLUMOS_HEAP_BLOCK_SIZE
  WordSize,     \* the number of values of a 32-bit size_t
  PoolBlock     \* saddr / PLUMOS_HEAP_BLOCK_SIZE, where the pool starts

Blocks == 0 .. Total - 1

FreeEntry == [taken |-> FALSE, first |-> FALSE, next |-> FALSE]

(* One byte of the table: TAKEN, and then IS_FIRST and HAS_NEXT, or 0.     *)
Entry == [taken : {TRUE}, first : BOOLEAN, next : BOOLEAN] \cup {FreeEntry}

-----------------------------------------------------------------------------
(* From a request in bytes to a number of blocks.  The parameter of        *)
(* heap_align_value_to_upper is a signed int, and % truncates toward zero. *)

Signed(x) == IF 2 * x >= WordSize THEN x - WordSize ELSE x

Remainder(x) == IF x >= 0 THEN x % BlockSize ELSE -((-x) % BlockSize)

(* Fault: the size is aligned down and the last block not added. *)
AlignedDown(size) ==
  LET val == Signed(size)
  IN  (val - Remainder(val)) % WordSize

heap_align_value_to_upper(size) ==
  LET val == Signed(size)
  IN  IF Remainder(val) = 0 THEN size
      ELSE (val - Remainder(val) + BlockSize) % WordSize

TotalBlocks(size) == heap_align_value_to_upper(size) \div BlockSize

ASSUME TotalAssumption == Total \in Nat \ {0}

ASSUME PoolAssumption == PoolBlock \in Nat \ {0}

(* A size_t counts a whole number of blocks. *)
ASSUME WordAssumption ==
  /\ BlockSize \in Nat \ {0}
  /\ WordSize \in Nat
  /\ 2 * BlockSize <= WordSize
  /\ WordSize % BlockSize = 0

-----------------------------------------------------------------------------
(* The search of heap_get_start_block in the table e.                      *)

IsFree(e, b) == ~ e[b].taken

(* Fault: the run of free blocks is counted one short. *)
FitsOneShort(e, s, n) ==
  /\ n > 0
  /\ s + n <= Total
  /\ \A b \in s .. s + n - 2 : IsFree(e, b)

Fits(e, s, n) ==
  /\ n > 0
  /\ s + n <= Total
  /\ \A b \in s .. s + n - 1 : IsFree(e, b)

(* The loop breaks at the first run of n free blocks.  When there is none, *)
(* bs is still set if the last block is free: it is then the start of the  *)
(* run of free blocks at the end of the table, however short that run is.  *)
IsStartBlock(e, s, n) ==
  \/ /\ Fits(e, s, n)
     /\ \A t \in 0 .. s - 1 : ~ Fits(e, t, n)
  \/ /\ \A t \in Blocks : ~ Fits(e, t, n)
     /\ \A b \in s .. Total - 1 : IsFree(e, b)
     /\ s > 0 => ~ IsFree(e, s - 1)

(* Fault: bc goes on counting over a taken entry. *)
ScanWithoutReset(e, n) ==
  LET scan[i \in 0 .. Total] ==
        IF i = 0 THEN [bs |-> -1, bc |-> 0, found |-> FALSE]
        ELSE LET prev == scan[i - 1]
             IN  IF prev.found THEN prev
                 ELSE IF ~ IsFree(e, i - 1) THEN [prev EXCEPT !.bs = -1]
                 ELSE [bs |-> IF prev.bs = -1 THEN i - 1 ELSE prev.bs,
                       bc |-> prev.bc + 1, found |-> prev.bc + 1 = n]
  IN  scan[Total].bs

(* The same search as the loop does it, entry by entry; bs = -1 is ENOMEM. *)
heap_get_start_block(e, n) ==
  LET scan[i \in 0 .. Total] ==
        IF i = 0 THEN [bs |-> -1, bc |-> 0, found |-> FALSE]
        ELSE LET prev == scan[i - 1]
                 bs == IF prev.bs = -1 THEN i - 1 ELSE prev.bs
             IN  IF prev.found THEN prev
                 ELSE IF ~ IsFree(e, i - 1) THEN [bs |-> -1, bc |-> 0, found |-> FALSE]
                 ELSE [bs |-> bs, bc |-> prev.bc + 1, found |-> prev.bc + 1 = n]
  IN  scan[Total].bs

(* Faults: the last entry of the allocation keeps HAS_NEXT; one block too  *)
(* many is marked.                                                         *)
MarkedWithoutEnd(e, s, n) ==
  [b \in Blocks |-> IF b \in s .. s + n - 1
                   THEN [taken |-> TRUE, first |-> b = s, next |-> TRUE]
                   ELSE e[b]]

MarkedOneMore(e, s, n) ==
  [b \in Blocks |-> IF b \in s .. s + n
                   THEN [taken |-> TRUE, first |-> b = s, next |-> b # s + n]
                   ELSE e[b]]

(* The table after heap_mark_blocks_taken marked n blocks from s on; the   *)
(* bytes past the end of the table are written too.                        *)
Marked(e, s, n) ==
  [b \in Blocks |-> IF b \in s .. s + n - 1
                   THEN [taken |-> TRUE, first |-> b = s, next |-> b # s + n - 1]
                   ELSE e[b]]

PastTheEnd(s, n) == {b \in s .. s + n - 1 : b >= Total}

(* Fault: the free goes on while entries are taken. *)
TakenRun(e, s) == {b \in Blocks : b >= s /\ \A c \in s .. b : e[c].taken}

(* The entries heap_mark_blocks_free clears: it follows HAS_NEXT from s    *)
(* and stops at the first entry without it, or at the end of the table.    *)
Chain(e, s) == {b \in Blocks : b >= s /\ \A c \in s .. b - 1 : e[c].next}

(* Fault: the bit TAKEN is cleared and not the byte. *)
TypeCleared(e, s) ==
  [b \in Blocks |-> IF b \in Chain(e, s) THEN [e[b] EXCEPT !.taken = FALSE] ELSE e[b]]

Cleared(e, s) == [b \in Blocks |-> IF b \in Chain(e, s) THEN FreeEntry ELSE e[b]]

-----------------------------------------------------------------------------
(* Allocations: the block that was given and the size asked for.           *)

Extent(h) == h.start .. h.start + TotalBlocks(h.size) - 1

(* No two of them share a block, in the pool or past its end.              *)
Apart(hs) == \A g, h \in hs : g # h => Extent(g) \cap Extent(h) = {}

(* The bytes of an allocation say where it starts, that it goes on, and    *)
(* where it ends.                                                          *)
HeldIsMarked(e, hs) ==
  \A h \in hs : \A b \in Extent(h) \cap Blocks :
    /\ e[b].taken
    /\ e[b].first <=> b = h.start
    /\ e[b].next <=> b # h.start + TotalBlocks(h.size) - 1

(* An entry that is not free belongs to an allocation, so once everything  *)
(* is given back the table is the one heap_create made.                    *)
MarkedIsHeld(e, hs) ==
  \A b \in Blocks :
    e[b] # FreeEntry => \E h \in hs : b \in Extent(h)
==============================================================================
