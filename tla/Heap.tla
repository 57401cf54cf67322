-------------------------------- MODULE Heap ---------------------------------
(***************************************************************************)
(* The kernel heap (memory/heap/heap.c and kheap.c): what the callers of   *)
(* kmalloc and kfree do to the table of HeapTable, in any order.           *)
(*                                                                         *)
(* Every kernel entry runs with interrupts off, so an operation is one     *)
(* step.  The table is `entries`; what the callers hold (`held`) and the   *)
(* table indices written outside the table (`stray`) are ghosts.           *)
(***************************************************************************)
EXTENDS HeapTable

CONSTANT Sizes   \* the request sizes in bytes the callers use

VARIABLES entries, held, stray

vars == <<entries, held, stray>>

(* Requests that are not empty and do not wrap around a size_t when they   *)
(* are rounded up, negative as the signed int they are passed as or not.   *)
NoWrap == Sizes \subseteq 1 .. WordSize - 2 * BlockSize

(* What the search at heap.c:105 needs: bc is never 0 when it is compared  *)
(* with total_blocks, so a request for no block at all is not searched for. *)
SomeBlocks == \A size \in Sizes : TotalBlocks(size) \in Nat \ {0}

-----------------------------------------------------------------------------
(* What a caller holds: the block it was given and the size it asked for.  *)
Allocation == [start : Blocks, size : Sizes]

Init ==
  /\ entries = [b \in Blocks |-> FreeEntry]
  /\ held = {}
  /\ stray = {}

(* heap_malloc.  A request for no block from an empty pool, whose marking  *)
(* loop never ends, is out of reach: the kernel's page directory, which is *)
(* allocated at boot and never given back, holds the first blocks.         *)
MallocAt(size, s) ==
  LET n == TotalBlocks(size)
  IN  /\ IsStartBlock(entries, s, n)
      /\ n = 0 => s > 0
      /\ entries' = Marked(entries, s, n)
      /\ stray' = stray \cup PastTheEnd(s, n)
      /\ held' = held \cup {[start |-> s, size |-> size]}

Malloc(size) == \E s \in Blocks : MallocAt(size, s)

(* A request is refused, with a null pointer, only when the search ended   *)
(* with bs = -1.                                                           *)
NoMemory(size) == \A s \in Blocks : ~ IsStartBlock(entries, s, TotalBlocks(size))

MallocFails(size) == NoMemory(size) /\ UNCHANGED vars

(* heap_free of a pointer that was handed out. *)
Free(h) ==
  /\ entries' = Cleared(entries, h.start)
  /\ held' = held \ {h}
  /\ UNCHANGED stray

(* heap_free(NULL) is not a special case: the index is that of address 0,  *)
(* and the byte so far below the table is cleared.  That byte and those    *)
(* after it are low memory the loader left without the HAS_NEXT bit.       *)
FreeNull ==
  /\ stray' = stray \cup {-PoolBlock}
  /\ UNCHANGED <<entries, held>>

Next ==
  \/ \E size \in Sizes : Malloc(size) \/ MallocFails(size)
  \/ \E h \in held : Free(h)
  \/ FreeNull

Spec == Init /\ [][Next]_vars

-----------------------------------------------------------------------------
(* Type invariant of the table and the ghosts (heap.h's entry layout): a   *)
(* byte without TAKEN is 0 in full, whatever was freed before (heap.c:166).*)
TypeOK ==
  /\ entries \in [Blocks -> Entry]
  /\ held \subseteq Allocation
  /\ stray \subseteq Int \ Blocks

(* No two callers share a block, in the pool or past its end: what         *)
(* heap_get_start_block and heap_mark_blocks_taken are for.                *)
Disjoint == Apart(held)

(* The bytes of the table say where every allocation starts, that it goes  *)
(* on, and where it ends, however many others were made and freed around   *)
(* it; and no block is lost (heap.c:131-173).                              *)
TableMatchesHeld == HeldIsMarked(entries, held) /\ MarkedIsHeld(entries, held)

(* What a free (or a malloc) of one caller does to the others' entries:    *)
(* nothing (heap.c:168, the chain ends with the allocation being freed).   *)
KeepsOthers ==
  \A h \in held \cap held' : \A b \in Extent(h) \cap Blocks :
    entries'[b] = entries[b]

OthersUntouched == [][KeepsOthers]_vars

(* The blocks handed out hold the bytes asked for (heap.c:59, :199-201).   *)
RequestCovered ==
  \A h \in held : TotalBlocks(h.size) * BlockSize >= h.size

(* The loop of heap_get_start_block finds the block the actions above use, *)
(* and gives up exactly when they refuse the request.                      *)
ScanAgrees ==
  \A size \in Sizes :
    LET n == TotalBlocks(size)
    IN  /\ \A s \in Blocks : IsStartBlock(entries, s, n) <=> heap_get_start_block(entries, n) = s
        /\ NoMemory(size) <=> heap_get_start_block(entries, n) = -1

(* heap.c:111, "if there is no space for the allocation" the answer is     *)
(* ENOMEM: a block handed out, and an entry marked, lie in the pool.       *)
HeldInPool == \A h \in held : Extent(h) \subseteq Blocks

(* The regions the table describes: the chains of the first entries.       *)
Regions == {Chain(entries, s) : s \in {b \in Blocks : entries[b].first}}

A == INSTANCE Allocator WITH regions <- Regions

(* The table implements the allocator.                                     *)
Allocates == A!Spec
==============================================================================
