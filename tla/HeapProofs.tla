----------------------------- MODULE HeapProofs ------------------------------
(***************************************************************************)
(* The heap for a table and requests of any size.  HeapInv is inductive:   *)
(* Disjoint alone is not, since a search of the table finds free blocks,   *)
(* not blocks nobody holds, and a free follows the bits of the table, not  *)
(* the extent of the allocation; TableMatchesHeld ties the two together.   *)
(***************************************************************************)
EXTENDS Heap, HeapTableProofs

HeapInv == TypeOK /\ Disjoint /\ TableMatchesHeld

-----------------------------------------------------------------------------
(* What the lemmas about tables need of a state.                           *)
LEMMA TableOfState ==
  ASSUME SomeBlocks
  PROVE  /\ TypeOK => \A h \in held : Proper(h)
         /\ HeapInv <=> /\ IsTable(entries, held)
                        /\ held \subseteq Allocation
                        /\ stray \subseteq Int \ Blocks
BY DEF SomeBlocks, HeapInv, TypeOK, Disjoint, TableMatchesHeld, Allocation, IsTable, Proper

(* The invariant holds once the heap is created (heap.c:31).               *)
LEMMA HeapInit == Init => HeapInv
BY FreshTable DEF Init, HeapInv, TypeOK, Disjoint, TableMatchesHeld, IsTable

(* heap_malloc keeps the invariant.                                        *)
LEMMA MallocKeepsHeapInv ==
  ASSUME SomeBlocks, HeapInv, NEW size \in Sizes, NEW s \in Blocks, MallocAt(size, s)
  PROVE  HeapInv'
<1> DEFINE n == TotalBlocks(size)
           new == [start |-> s, size |-> size]
<1>1. Proper(new) /\ new \in Allocation /\ new.start = s /\ new.size = size
  BY DEF SomeBlocks, Allocation, Proper
<1>2. /\ entries' = Marked(entries, s, n)
      /\ held' = held \cup {new}
      /\ stray' = stray \cup PastTheEnd(s, n)
      /\ IsStartBlock(entries, s, n)
  BY DEF MallocAt
<1>3. IsTable(entries, held)
  BY TableOfState
<1> HIDE DEF n, new
<1>4. IsTable(entries', held') /\ PastTheEnd(s, n) \subseteq Int \ Blocks
  BY <1>1, <1>2, <1>3, AllocationKeepsTable DEF n
<1>5. held' \subseteq Allocation /\ stray' \subseteq Int \ Blocks
  BY <1>1, <1>2, <1>4 DEF HeapInv, TypeOK
<1> QED BY <1>4, <1>5 DEF HeapInv, TypeOK, Disjoint, TableMatchesHeld, IsTable

(* heap_free of a held pointer keeps the invariant.                        *)
LEMMA FreeKeepsHeapInv ==
  ASSUME SomeBlocks, HeapInv, NEW h \in held, Free(h)
  PROVE  HeapInv'
<1>1. IsTable(entries, held)
  BY TableOfState
<1>2. IsTable(entries', held') /\ held' = held \ {h} /\ stray' = stray
  BY <1>1, FreeKeepsTable DEF Free
<1> QED BY <1>2 DEF HeapInv, TypeOK, Disjoint, TableMatchesHeld, IsTable

(* Every call of kmalloc, kzalloc and kfree keeps the invariant.           *)
LEMMA HeapStep == ASSUME SomeBlocks PROVE HeapInv /\ [Next]_vars => HeapInv'
<1> SUFFICES ASSUME HeapInv, [Next]_vars PROVE HeapInv'
  OBVIOUS
<1>1. CASE \E size \in Sizes : Malloc(size)
  BY <1>1, MallocKeepsHeapInv DEF Malloc
<1>2. CASE \E h \in held : Free(h)
  BY <1>2, FreeKeepsHeapInv
<1>3. CASE FreeNull
  <2>1. - PoolBlock \in Int \ Blocks
    BY PoolAssumption, TotalAssumption DEF Blocks
  <2> QED BY <1>3, <2>1 DEF FreeNull, HeapInv, TypeOK, Disjoint, TableMatchesHeld
<1>4. CASE UNCHANGED vars
  BY <1>4 DEF vars, HeapInv, TypeOK, Disjoint, TableMatchesHeld
<1> QED BY <1>1, <1>2, <1>3, <1>4 DEF Next, MallocFails

(* In every reachable state, and whatever the sizes requested, the table   *)
(* is well formed, no two allocations share a block and the table marks    *)
(* exactly what is held.                                                   *)
THEOREM HeapSafety == ASSUME SomeBlocks PROVE Spec => []HeapInv
<1>1. Init => HeapInv
  BY HeapInit
<1>2. HeapInv /\ [Next]_vars => HeapInv'
  BY HeapStep
<1> QED BY <1>1, <1>2, PTL DEF Spec

(* Type correctness of the table, for every pool and every request size.   *)
THEOREM HeapTypeOK == ASSUME SomeBlocks PROVE Spec => []TypeOK
BY HeapSafety, PTL DEF HeapInv

(* No two callers of kmalloc ever share a block (heap.c:83, :131).         *)
THEOREM HeapDisjoint == ASSUME SomeBlocks PROVE Spec => []Disjoint
BY HeapSafety, PTL DEF HeapInv

(* The table marks what is held and nothing else (heap.c:131, :159).       *)
THEOREM HeapTable == ASSUME SomeBlocks PROVE Spec => []TableMatchesHeld
BY HeapSafety, PTL DEF HeapInv

(* The loop of heap_get_start_block finds the block an allocation is made  *)
(* at, and gives up when a request is refused (heap.c:83-115).             *)
THEOREM HeapScan == ASSUME SomeBlocks PROVE Spec => []ScanAgrees
<1>1. ScanAgrees
  <2> SUFFICES ASSUME NEW size \in Sizes
               PROVE  LET n == TotalBlocks(size)
                      IN  /\ \A s \in Blocks :
                                IsStartBlock(entries, s, n) <=> heap_get_start_block(entries, n) = s
                          /\ NoMemory(size) <=> heap_get_start_block(entries, n) = -1
    BY DEF ScanAgrees
  <2> DEFINE n == TotalBlocks(size)
  <2>1. n \in Nat \ {0}
    BY DEF SomeBlocks
  <2>2. -1 \notin Blocks
    BY DEF Blocks
  <2> QED BY <2>1, <2>2, ScanIsSearch DEF NoMemory
<1> QED BY <1>1, PTL

(* What is handed out holds the bytes asked for (heap.c:59, :199-201), as  *)
(* long as no request wraps around a size_t.                               *)
THEOREM HeapCovers == ASSUME NoWrap PROVE Spec => []RequestCovered
<1>1. SomeBlocks
  BY WholeBlocks DEF SomeBlocks, NoWrap
<1>2. TypeOK => RequestCovered
  BY WholeBlocks DEF TypeOK, Allocation, RequestCovered, NoWrap
<1> QED BY <1>1, <1>2, HeapTypeOK, PTL

(* A caller's malloc or free leaves the entries of every other caller's    *)
(* allocation as they were (heap.c:168).                                   *)
THEOREM HeapKeepsOthers == ASSUME SomeBlocks PROVE Spec => OthersUntouched
<1>1. HeapInv /\ [Next]_vars => [KeepsOthers]_vars
  <2> SUFFICES ASSUME HeapInv, Next, NEW h \in held \cap held',
                      NEW b \in Extent(h) \cap Blocks
               PROVE  entries'[b] = entries[b]
    BY DEF KeepsOthers
  <2>0. IsTable(entries, held)
    BY TableOfState
  <2>1. ASSUME NEW size \in Sizes, NEW s \in Blocks, MallocAt(size, s)
        PROVE  entries'[b] = entries[b]
    <3>1. TotalBlocks(size) \in Nat \ {0} /\ IsStartBlock(entries, s, TotalBlocks(size))
      BY <2>1 DEF SomeBlocks, MallocAt
    <3>2. b \notin s .. s + TotalBlocks(size) - 1
      <4>1. ~ IsFree(entries, b)
        BY <2>0 DEF IsTable, HeldIsMarked, IsFree
      <4> QED BY <3>1, <4>1, StartIsFree
    <3>3. entries' = Marked(entries, s, TotalBlocks(size)) /\ b \in Blocks
      BY <2>1 DEF MallocAt
    <3> QED BY <3>2, <3>3 DEF Marked
  <2>2. ASSUME NEW g \in held, Free(g)
        PROVE  entries'[b] = entries[b]
    <3>1. b \notin Extent(g)
      BY <2>0, <2>2 DEF Free, IsTable, Apart
    <3>2. entries' = [c \in Blocks |-> IF c \in Extent(g) THEN FreeEntry ELSE entries[c]]
      BY <2>0, <2>2, FreeKeepsTable DEF Free
    <3> QED BY <3>1, <3>2
  <2>3. CASE FreeNull
    BY <2>3 DEF FreeNull
  <2> QED BY <2>1, <2>2, <2>3 DEF Next, Malloc, MallocFails, vars
<1> QED BY <1>1, HeapSafety, PTL DEF Spec, OthersUntouched

-----------------------------------------------------------------------------
(* The refinement of Allocator.                                            *)

HeldRegion(h) == Extent(h) \cap Blocks

(* The chains found from the first entries of the table are the extents    *)
(* held, as far as they lie in the pool.                                   *)
LEMMA RegionsAreHeld ==
  ASSUME SomeBlocks, HeapInv
  PROVE  Regions = {HeldRegion(h) : h \in held}
<1>0. IsTable(entries, held)
  BY TableOfState
<1>1. ASSUME NEW h \in held
      PROVE  HeldRegion(h) \in Regions
  <2>1. h.start \in Extent(h) \cap Blocks
    BY <1>0, ExtentFacts DEF IsTable
  <2>2. entries[h.start].first
    BY <1>0, <2>1 DEF IsTable, HeldIsMarked
  <2> QED BY <1>0, <2>1, <2>2, ChainIsExtent DEF Regions, HeldRegion
<1>2. ASSUME NEW b \in Blocks, entries[b].first
      PROVE  \E h \in held : Chain(entries, b) = HeldRegion(h)
  <2>1. PICK h \in held : b \in Extent(h)
    BY <1>0, <1>2 DEF IsTable, MarkedIsHeld, FreeEntry
  <2>2. b = h.start
    BY <1>0, <1>2, <2>1 DEF IsTable, HeldIsMarked
  <2> QED BY <1>0, <2>2, ChainIsExtent DEF HeldRegion
<1> QED BY <1>1, <1>2 DEF Regions

(* The regions held are not empty, and different allocations hold          *)
(* different regions.                                                      *)
LEMMA HeldRegionsDiffer ==
  ASSUME SomeBlocks, HeapInv
  PROVE  /\ \A h \in held : HeldRegion(h) # {}
         /\ \A g, h \in held : g # h => HeldRegion(g) \cap HeldRegion(h) = {}
<1>1. IsTable(entries, held)
  BY TableOfState
<1>2. ASSUME NEW h \in held PROVE h.start \in HeldRegion(h)
  BY <1>1, ExtentFacts DEF IsTable, HeldRegion
<1> QED BY <1>1, <1>2 DEF IsTable, Apart, HeldRegion

(* The heap implements the allocator: every step of it hands out a region  *)
(* that overlaps no other, takes one back, or changes no region.           *)
THEOREM HeapRefinesAllocator == ASSUME SomeBlocks PROVE Spec => Allocates
<1>1. Init => A!Init
  BY DEF Init, A!Init, Regions, FreeEntry
<1>2. HeapInv /\ HeapInv' /\ [Next]_vars => [A!Next]_Regions
  <2> SUFFICES ASSUME HeapInv, HeapInv', [Next]_vars
               PROVE  A!Allocate \/ A!Release \/ Regions' = Regions
    BY DEF A!Next
  <2>1. Regions = {HeldRegion(h) : h \in held}
    BY RegionsAreHeld
  <2>2. Regions' = {HeldRegion(h) : h \in held'}
    <3>1. SomeBlocks' <=> SomeBlocks
      BY DEF SomeBlocks
    <3>2. (Regions = {HeldRegion(h) : h \in held})'
      BY <3>1, RegionsAreHeld, PTL
    <3> QED BY <3>2 DEF HeldRegion, Extent
  <2>3. CASE \E size \in Sizes : Malloc(size)
    <3>1. PICK size \in Sizes, s \in Blocks : MallocAt(size, s)
      BY <2>3 DEF Malloc
    <3> DEFINE new == [start |-> s, size |-> size]
    <3>2. held' = held \cup {new}
      BY <3>1 DEF MallocAt
    <3>3. Regions' = Regions \cup {HeldRegion(new)}
      BY <2>1, <2>2, <3>2
    <3>4. HeldRegion(new) # {} /\ HeldRegion(new) \in SUBSET Blocks
      <4>1. s \in HeldRegion(new)
        BY DEF HeldRegion, Extent, SomeBlocks, Blocks
      <4> QED BY <4>1 DEF HeldRegion
    <3>5. \A q \in Regions : q \cap HeldRegion(new) = {}
      <4>1. IsTable(entries, held) /\ Proper(new)
        BY TableOfState DEF SomeBlocks, Proper
      <4>2. IsStartBlock(entries, new.start, TotalBlocks(new.size))
        BY <3>1 DEF MallocAt
      <4> HIDE DEF new
      <4>3. \A h \in held : Extent(h) \cap Extent(new) = {}
        BY <4>1, <4>2, AllocationKeepsTable
      <4> QED BY <2>1, <4>3 DEF HeldRegion
    <3> QED BY <3>3, <3>4, <3>5 DEF A!Allocate
  <2>4. CASE \E h \in held : Free(h)
    <3>1. PICK h \in held : held' = held \ {h}
      BY <2>4 DEF Free
    <3>2. Regions' = Regions \ {HeldRegion(h)}
      BY <2>1, <2>2, <3>1, HeldRegionsDiffer
    <3> QED BY <2>1, <3>1, <3>2 DEF A!Release
  <2>5. CASE held' = held
    BY <2>1, <2>2, <2>5
  <2> QED BY <2>3, <2>4, <2>5 DEF Next, MallocFails, FreeNull, vars
<1> QED BY <1>1, <1>2, HeapSafety, PTL DEF Spec, Allocates, A!Spec
==============================================================================
