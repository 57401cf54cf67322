------------------------------ MODULE Allocator ------------------------------
(***************************************************************************)
(* What the kernel heap promises its callers: the memory it has handed out *)
(* is a set of non-empty regions of blocks of which no two share a block.  *)
(* How a region is found and how it is recorded is left to Heap.           *)
(***************************************************************************)
CONSTANT Blocks

VARIABLE regions    \* the regions handed out and not yet given back

Init == regions = {}

(* A new region overlaps none of those already handed out. *)
Allocate ==
  \E r \in SUBSET Blocks :
    /\ r # {}
    /\ \A q \in regions : q \cap r = {}
    /\ regions' = regions \cup {r}

(* Giving a region back takes that region, and nothing else. *)
Release ==
  \E r \in regions : regions' = regions \ {r}

Next == Allocate \/ Release

Spec == Init /\ [][Next]_regions
==============================================================================
