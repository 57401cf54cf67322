------------------------- MODULE ProcessMemoryProofs -------------------------
(***************************************************************************)
(* The memory of the processes, for any pool, programs and requests.  That *)
(* the heap stays sound is a matter of who owns what: kfree is sound for a *)
(* region that is held, and for no other, so that every pointer a process  *)
(* or a load frees must be that of a region it, and only it, refers to.    *)
(* The proofs follow each function with the set of regions that are taken  *)
(* and not referred to yet, or referred to no more.                        *)
(***************************************************************************)
EXTENDS ProcessMemory, HeapTableProofs

Pointers == Blocks \cup {Null}

Process ==
  [alive : BOOLEAN, struct : Pointers, image : Pointers, file : Requests \cup {0},
   stack : Pointers, allocations : [Indexes -> [ptr : Pointers, size : Requests \cup {0}]],
   writable : SUBSET (LowMemory \cup Nat)]

Memory ==
  [entries : [Blocks -> Entry], held : SUBSET Allocation, stray : SUBSET (Int \ Blocks),
   proc : [Processes -> Process], lost : SUBSET Allocation, abandoned : SUBSET Allocation]

(* What a process refers to: its struct (0), its program (-1) if that has a*)
(* copy in the pool, its stack (-2) and the entries of its table in use.   *)
References == -2 .. MaxAllocations

At(q, r) ==
  IF r = 0 THEN Region(q.struct, KernelSize)
  ELSE IF r = -1 THEN Region(q.image, q.file)
  ELSE IF r = -2 THEN Region(q.stack, KernelSize)
  ELSE Region(q.allocations[r].ptr, q.allocations[r].size)

Fields(q) == IF q.image = Null THEN {-2, 0} ELSE {-2, -1, 0}

Used(q) ==
  IF q.alive THEN Fields(q) \cup {i \in Indexes : q.allocations[i] # Empty} ELSE {}

RegionsOf(q) == {At(q, r) : r \in Used(q)}

PagesOf(h) == Pages(h.start, h.size)

EntriesAreSet(q) ==
  \A i \in Indexes : q.allocations[i] = Empty
                     \/ (q.allocations[i].ptr \in Blocks /\ q.allocations[i].size \in Requests)

RefersOnce(q) == \A r, s \in Used(q) : At(q, r) = At(q, s) => r = s

MapsRequested(q) ==
  \A i \in Indexes : q.allocations[i] # Empty => PagesOf(At(q, i)) \subseteq q.writable

MapsItsOwn(q) ==
  NoBss => \A g \in q.writable : \/ \E r \in Used(q) \ {0} : g \in PagesOf(At(q, r))
                                 \/ q.image = Null /\ g \in LowMemory

ProcessOK(q) ==
  /\ q \in Process
  /\ q.alive => /\ {q.struct, q.stack} \subseteq Blocks /\ q.file \in Requests
                /\ EntriesAreSet(q) /\ RefersOnce(q) /\ MapsRequested(q) /\ MapsItsOwn(q)

(* The heap holds what the processes refer to, what is lost or abandoned,  *)
(* and the regions pending, each of them once.                             *)
Owned(m, pending) ==
  /\ \A p \in Processes : RegionsOf(m.proc[p]) \subseteq m.held
  /\ m.lost \subseteq m.held /\ m.abandoned \subseteq m.held /\ pending \subseteq m.held
  /\ \A h \in m.held : \/ h \in m.lost \cup m.abandoned \cup pending
                       \/ \E p \in Processes : h \in RegionsOf(m.proc[p])
  /\ \A p, q \in Processes : p # q => RegionsOf(m.proc[p]) \cap RegionsOf(m.proc[q]) = {}
  /\ \A p \in Processes : RegionsOf(m.proc[p]) \cap (m.lost \cup m.abandoned \cup pending) = {}
  /\ m.lost \cap m.abandoned = {} /\ pending \cap (m.lost \cup m.abandoned) = {}

MemoryOK(m, pending) ==
  /\ m \in Memory
  /\ IsTable(m.entries, m.held)
  /\ \A p \in Processes : ProcessOK(m.proc[p])
  /\ Owned(m, pending)

-----------------------------------------------------------------------------
(* Sizes and pages.                                                        *)

(* What a process is given is a proper region, and its pages lie in it.    *)
LEMMA RequestFacts ==
  ASSUME NoWrap, NEW h \in Allocation
  PROVE  /\ Proper(h) /\ h.start \in Nat /\ h.size \in Requests
         /\ PagesOf(h) \subseteq Extent(h) /\ PagesOf(h) \subseteq Nat
<1> DEFINE n == TotalBlocks(h.size)
           B == BlockSize
           z == h.size
           k == (z + B - 1) \div B
<1>1. h.size \in Requests /\ h.start \in Blocks /\ h.start \in Nat
  BY TotalAssumption DEF Allocation, Blocks
<1>2. z \in 1 .. WordSize - 2 * BlockSize
  BY <1>1 DEF NoWrap
<1>3. n \in Nat \ {0} /\ n * B >= z
  BY <1>2, WholeBlocks
<1>4. B \in Nat \ {0} /\ z \in Nat
  BY <1>2, WordAssumption
<1>5. k <= n /\ k \in Int
  <2> HIDE DEF n, B, z
  <2>1. k \in Int /\ B * k <= z + B - 1
    BY <1>4
  <2>2. n * B = B * n
    BY <1>3, <1>4
  <2>3. B * k <= B * n + B - 1
    BY <1>3, <1>4, <2>1, <2>2
  <2> HIDE DEF k
  <2>4. SUFFICES ASSUME k >= n + 1 PROVE FALSE
    BY <1>3, <2>1
  <2>5. B * k >= B * (n + 1) /\ B * (n + 1) = B * n + B
    BY <1>3, <1>4, <2>1, <2>4
  <2> QED BY <1>3, <1>4, <2>1, <2>3, <2>5
<1>6. PagesOf(h) = h.start .. h.start + k - 1 /\ Extent(h) = h.start .. h.start + n - 1
  BY DEF PagesOf, Pages, Extent
<1>7. Proper(h)
  BY <1>1, <1>3 DEF Proper
<1> HIDE DEF k, n
<1>8. PagesOf(h) \subseteq Extent(h) /\ PagesOf(h) \subseteq Nat
  BY <1>1, <1>3, <1>5, <1>6
<1> QED BY <1>1, <1>7, <1>8

(* The regions of a sound heap have different first blocks.                *)
LEMMA StartsDiffer ==
  ASSUME NEW e, NEW hs, IsTable(e, hs), NEW g \in hs, NEW h \in hs, g.start = h.start
  PROVE  g = h
<1>1. g.start \in Extent(g) \cap Extent(h)
  BY ExtentFacts DEF IsTable
<1> QED BY <1>1 DEF IsTable, Apart

-----------------------------------------------------------------------------
(* kmalloc of some size adds one region, that nobody refers to, or nothing.*)
LEMMA KmallocAdds ==
  ASSUME NoWrap, NEW pending, NEW m, MemoryOK(m, pending), NEW size \in Requests
  PROVE  LET s == Place(m, size)
             a == kmalloc(m, size)
             new == Region(s, size)
         IN  /\ s \in Pointers
             /\ s = Null => a = m
             /\ s # Null => /\ MemoryOK(a, pending \cup {new})
                            /\ new \in Allocation
                            /\ new \notin m.held
                            /\ a.held = m.held \cup {new}
             /\ a.proc = m.proc /\ a.lost = m.lost /\ a.abandoned = m.abandoned
<1> DEFINE n == TotalBlocks(size)
           s == Place(m, size)
           a == kmalloc(m, size)
           new == Region(s, size)
<1>1. size \in 1 .. WordSize - 2 * BlockSize
  BY DEF NoWrap
<1>2. n \in Nat \ {0}
  BY <1>1, WholeBlocks
<1>3. s \in Pointers /\ (s # Null => s \in Blocks /\ IsStartBlock(m.entries, s, n))
  BY <1>2, ScanIsSearch DEF Place, Pointers, Null
<1>4. s = Null => a = m
  BY DEF kmalloc
<1>5. CASE s # Null
  <2>1. a = [m EXCEPT !.entries = Marked(@, s, n), !.held = @ \cup {new}, !.stray = @ \cup PastTheEnd(s, n)]
    BY <1>5 DEF kmalloc, Region
  <2>2. s \in Blocks /\ IsStartBlock(m.entries, s, n)
    BY <1>3, <1>5
  <2>3. new \in Allocation /\ Proper(new) /\ new.start = s /\ new.size = size
    BY <1>2, <2>2 DEF Region, Allocation, Proper
  <2> HIDE DEF new, s, a, n
  <2>4. IsTable(m.entries, m.held) /\ m \in Memory /\ Owned(m, pending)
    BY DEF MemoryOK
  <2>5. m = [entries |-> m.entries, held |-> m.held, stray |-> m.stray, proc |-> m.proc,
             lost |-> m.lost, abandoned |-> m.abandoned]
    BY <2>4 DEF Memory
  <2>6. a = [entries |-> Marked(m.entries, s, n), held |-> m.held \cup {new},
             stray |-> m.stray \cup PastTheEnd(s, n), proc |-> m.proc,
             lost |-> m.lost, abandoned |-> m.abandoned]
    BY <2>1, <2>5
  <2>7. /\ a.entries = Marked(m.entries, s, n) /\ a.held = m.held \cup {new}
        /\ a.stray = m.stray \cup PastTheEnd(s, n) /\ a.proc = m.proc
        /\ a.lost = m.lost /\ a.abandoned = m.abandoned
    BY <2>6
  <2>8. IsTable(a.entries, a.held) /\ PastTheEnd(s, n) \subseteq Int \ Blocks
        /\ \A h \in m.held : Extent(h) \cap Extent(new) = {}
    BY <2>2, <2>3, <2>4, <2>7, AllocationKeepsTable DEF n
  <2>9. new \notin m.held
    <3>1. s \in Extent(new)
      BY <2>3, ExtentFacts
    <3> QED BY <2>8, <3>1
  <2>10. a \in Memory
    <3>1. /\ m.held \in SUBSET Allocation /\ m.stray \in SUBSET (Int \ Blocks)
          /\ m.proc \in [Processes -> Process]
          /\ m.lost \in SUBSET Allocation /\ m.abandoned \in SUBSET Allocation
      BY <2>4 DEF Memory
    <3>2. /\ a.entries \in [Blocks -> Entry] /\ a.held \in SUBSET Allocation
          /\ a.stray \in SUBSET (Int \ Blocks)
      BY <2>3, <2>7, <2>8, <3>1 DEF IsTable
    <3> QED BY <2>6, <2>7, <3>1, <3>2 DEF Memory
  <2>11. Owned(a, pending \cup {new})
    BY <2>4, <2>7, <2>9 DEF Owned
  <2> QED BY <1>3, <1>5, <2>3, <2>7, <2>8, <2>9, <2>10, <2>11 DEF MemoryOK, new, s, a
<1> QED BY <1>3, <1>4, <1>5

(* kfree of a region nobody refers to any more; of the null pointer.       *)
LEMMA KfreeReleases ==
  ASSUME NoWrap, NEW pending, NEW m, MemoryOK(m, pending), NEW h \in pending
  PROVE  LET f == kfree(m, h.start)
         IN  /\ MemoryOK(f, pending \ {h})
             /\ f.proc = m.proc /\ f.lost = m.lost /\ f.abandoned = m.abandoned
<1> DEFINE f == kfree(m, h.start)
<1>1. m \in Memory /\ IsTable(m.entries, m.held) /\ Owned(m, pending)
  BY DEF MemoryOK
<1>2. h \in m.held /\ h \in Allocation
  BY <1>1 DEF Owned, Memory
<1>3. h.start # Null
  BY <1>2 DEF Allocation, Blocks, Null
<1>4. f = [m EXCEPT !.entries = Cleared(@, h.start), !.held = {g \in @ : g.start # h.start}]
  BY <1>3 DEF kfree
<1>5. m = [entries |-> m.entries, held |-> m.held, stray |-> m.stray, proc |-> m.proc,
           lost |-> m.lost, abandoned |-> m.abandoned]
  BY <1>1 DEF Memory
<1>6. {g \in m.held : g.start # h.start} = m.held \ {h} /\ IsTable(Cleared(m.entries, h.start), m.held \ {h})
  BY <1>1, <1>2, FreeKeepsTable
<1> HIDE DEF f
<1>7. f = [entries |-> Cleared(m.entries, h.start), held |-> {g \in m.held : g.start # h.start},
           stray |-> m.stray, proc |-> m.proc, lost |-> m.lost, abandoned |-> m.abandoned]
  BY <1>4, <1>5
<1>8. /\ f.entries = Cleared(m.entries, h.start) /\ f.held = m.held \ {h}
      /\ f.stray = m.stray /\ f.proc = m.proc /\ f.lost = m.lost /\ f.abandoned = m.abandoned
  BY <1>6, <1>7
<1>9. f \in Memory
  <2>1. /\ m.held \in SUBSET Allocation /\ m.stray \in SUBSET (Int \ Blocks)
        /\ m.proc \in [Processes -> Process]
        /\ m.lost \in SUBSET Allocation /\ m.abandoned \in SUBSET Allocation
    BY <1>1 DEF Memory
  <2>2. f.entries \in [Blocks -> Entry] /\ f.held \in SUBSET Allocation
    BY <1>6, <1>8, <2>1 DEF IsTable
  <2> QED BY <1>7, <1>8, <2>1, <2>2 DEF Memory
<1>10. Owned(f, pending \ {h})
  BY <1>1, <1>8 DEF Owned
<1> QED BY <1>6, <1>8, <1>9, <1>10 DEF MemoryOK, f

(* kfree(NULL) changes no entry of the table (process.c:124, heap.c:159).  *)
LEMMA KfreeNull ==
  ASSUME NEW pending, NEW m, MemoryOK(m, pending)
  PROVE  LET f == kfree(m, Null)
         IN  /\ MemoryOK(f, pending)
             /\ f.proc = m.proc /\ f.lost = m.lost /\ f.abandoned = m.abandoned
<1> DEFINE f == kfree(m, Null)
<1>1. m \in Memory /\ IsTable(m.entries, m.held) /\ Owned(m, pending)
  BY DEF MemoryOK
<1>2. m = [entries |-> m.entries, held |-> m.held, stray |-> m.stray, proc |-> m.proc,
           lost |-> m.lost, abandoned |-> m.abandoned]
  BY <1>1 DEF Memory
<1>3. f = [m EXCEPT !.stray = @ \cup {-PoolBlock}]
  BY DEF kfree
<1> HIDE DEF f
<1>4. f = [entries |-> m.entries, held |-> m.held, stray |-> m.stray \cup {-PoolBlock}, proc |-> m.proc,
           lost |-> m.lost, abandoned |-> m.abandoned]
  BY <1>2, <1>3
<1>5. /\ f.entries = m.entries /\ f.held = m.held
      /\ f.proc = m.proc /\ f.lost = m.lost /\ f.abandoned = m.abandoned
  BY <1>4
<1>6. - PoolBlock \in Int \ Blocks
  BY PoolAssumption, TotalAssumption DEF Blocks
<1>7. f \in Memory
  BY <1>1, <1>4, <1>6 DEF Memory
<1>8. Owned(f, pending)
  BY <1>1, <1>5 DEF Owned
<1> QED BY <1>1, <1>5, <1>7, <1>8 DEF MemoryOK, f

(* A process takes over, or gives up, regions; others are lost or          *)
(* abandoned.  Nothing is owned twice as long as nothing is in two places. *)
Moved(m, p, q, lost, abandoned) ==
  [entries |-> m.entries, held |-> m.held, stray |-> m.stray, proc |-> [m.proc EXCEPT ![p] = q],
   lost |-> m.lost \cup lost, abandoned |-> m.abandoned \cup abandoned]

(* Regions that pass from one field to another, or to the lost and         *)
(* abandoned ones, keep the ownership right.                               *)
LEMMA MovedIsOwned ==
  ASSUME NEW pending, NEW m, MemoryOK(m, pending), NEW p \in Processes, NEW q, ProcessOK(q),
         NEW left, NEW lost, NEW abandoned,
         RegionsOf(q) \cup left \cup lost \cup abandoned = RegionsOf(m.proc[p]) \cup pending,
         RegionsOf(q) \cap (left \cup lost \cup abandoned) = {},
         left \cap (lost \cup abandoned) = {}, lost \cap abandoned = {}
  PROVE  MemoryOK(Moved(m, p, q, lost, abandoned), left)
<1> DEFINE a == Moved(m, p, q, lost, abandoned)
<1>1. /\ m \in Memory /\ IsTable(m.entries, m.held) /\ Owned(m, pending)
      /\ \A r \in Processes : ProcessOK(m.proc[r])
  BY DEF MemoryOK
<1>2. /\ a.entries = m.entries /\ a.held = m.held /\ a.stray = m.stray
      /\ a.proc = [m.proc EXCEPT ![p] = q]
      /\ a.lost = m.lost \cup lost /\ a.abandoned = m.abandoned \cup abandoned
      /\ a = [entries |-> a.entries, held |-> a.held, stray |-> a.stray, proc |-> a.proc,
              lost |-> a.lost, abandoned |-> a.abandoned]
  BY DEF Moved
<1> HIDE DEF a
<1>3. m.proc \in [Processes -> Process]
  BY <1>1 DEF Memory
<1>4. a.proc[p] = q /\ \A r \in Processes : r # p => a.proc[r] = m.proc[r]
  BY <1>2, <1>3
<1>5. Owned(a, left)
  <2> DEFINE old == RegionsOf(m.proc[p])
             new == RegionsOf(q)
             others == UNION {RegionsOf(m.proc[r]) : r \in Processes \ {p}}
  <2>1. /\ m.held = old \cup others \cup m.lost \cup m.abandoned \cup pending
        /\ others \cap old = {} /\ (others \cup old) \cap (m.lost \cup m.abandoned \cup pending) = {}
        /\ m.lost \cap m.abandoned = {} /\ pending \cap (m.lost \cup m.abandoned) = {}
    BY <1>1 DEF Owned
  <2>2. RegionsOf(a.proc[p]) = new
    BY <1>4
  <2>3. \A r \in Processes : r # p => RegionsOf(a.proc[r]) = RegionsOf(m.proc[r]) /\ RegionsOf(m.proc[r]) \subseteq others
    BY <1>4
  <2>4. \A h \in others : \E r \in Processes : r # p /\ h \in RegionsOf(m.proc[r])
    OBVIOUS
  <2>5. \A r, s \in Processes : r # s => RegionsOf(m.proc[r]) \cap RegionsOf(m.proc[s]) = {}
    BY <1>1 DEF Owned
  <2>6. new \cup left \cup lost \cup abandoned = old \cup pending /\ new \cap (left \cup lost \cup abandoned) = {}
    OBVIOUS
  <2> HIDE DEF old, new, others
  <2>7. \A r \in Processes : RegionsOf(a.proc[r]) \subseteq a.held
    BY <1>2, <2>1, <2>2, <2>3, <2>6
  <2>8. a.lost \subseteq a.held /\ a.abandoned \subseteq a.held /\ left \subseteq a.held
    BY <1>2, <2>1, <2>6
  <2>9. ASSUME NEW h \in a.held, h \notin a.lost \cup a.abandoned \cup left
        PROVE  \E r \in Processes : h \in RegionsOf(a.proc[r])
    BY <1>2, <2>1, <2>2, <2>3, <2>4, <2>6, <2>9
  <2>10. \A r, s \in Processes : r # s => RegionsOf(a.proc[r]) \cap RegionsOf(a.proc[s]) = {}
    BY <2>1, <2>2, <2>3, <2>5, <2>6
  <2>11. \A r \in Processes : RegionsOf(a.proc[r]) \cap (a.lost \cup a.abandoned \cup left) = {}
    BY <1>2, <2>1, <2>2, <2>3, <2>6
  <2>12. a.lost \cap a.abandoned = {} /\ left \cap (a.lost \cup a.abandoned) = {}
    BY <1>2, <2>1, <2>6
  <2> QED BY <2>7, <2>8, <2>9, <2>10, <2>11, <2>12 DEF Owned
<1>6. \A r \in Processes : ProcessOK(a.proc[r])
  BY <1>1, <1>4
<1>7. a \in Memory
  <2>1. /\ m.entries \in [Blocks -> Entry] /\ m.held \in SUBSET Allocation
        /\ m.stray \in SUBSET (Int \ Blocks)
    BY <1>1 DEF Memory
  <2>2. a.proc \in [Processes -> Process]
    BY <1>2, <1>3 DEF ProcessOK
  <2>3. a.lost \in SUBSET Allocation /\ a.abandoned \in SUBSET Allocation
    BY <1>2, <1>5, <2>1 DEF Owned
  <2> QED BY <1>2, <2>1, <2>2, <2>3 DEF Memory
<1> QED BY <1>1, <1>2, <1>5, <1>6, <1>7 DEF MemoryOK, a

-----------------------------------------------------------------------------
(* A process and its table of allocations.                                 *)

With(q, allocations, writable) ==
  [alive |-> q.alive, struct |-> q.struct, image |-> q.image, file |-> q.file,
   stack |-> q.stack, allocations |-> allocations, writable |-> writable]

(* What is left of a process whose table of allocations and pages are      *)
(* replaced.                                                               *)
LEMMA WithFacts ==
  ASSUME NEW q, NEW allocations, NEW writable
  PROVE  LET w == With(q, allocations, writable)
         IN  /\ w.alive = q.alive /\ w.struct = q.struct /\ w.image = q.image /\ w.file = q.file
             /\ w.stack = q.stack /\ w.allocations = allocations /\ w.writable = writable
             /\ \A r \in References : r <= 0 => At(w, r) = At(q, r)
             /\ \A r \in Indexes : At(w, r) = Region(allocations[r].ptr, allocations[r].size)
             /\ q.alive => Used(w) = Fields(q) \cup {i \in Indexes : allocations[i] # Empty}
<1> DEFINE w == With(q, allocations, writable)
<1>1. /\ w.alive = q.alive /\ w.struct = q.struct /\ w.image = q.image /\ w.file = q.file
      /\ w.stack = q.stack /\ w.allocations = allocations /\ w.writable = writable
      /\ w = [alive |-> w.alive, struct |-> w.struct, image |-> w.image, file |-> w.file,
              stack |-> w.stack, allocations |-> w.allocations, writable |-> w.writable]
  BY DEF With
<1> HIDE DEF w
<1>2. \A r \in References : r <= 0 => At(w, r) = At(q, r)
  BY <1>1, AllocationsAssumption DEF At, References
<1>3. \A r \in Indexes : At(w, r) = Region(allocations[r].ptr, allocations[r].size)
  BY <1>1, AllocationsAssumption DEF At, Indexes
<1>4. q.alive => Used(w) = Fields(q) \cup {i \in Indexes : allocations[i] # Empty}
  BY <1>1 DEF Used, Fields
<1> QED BY <1>1, <1>2, <1>3, <1>4 DEF w

(* Such a process is one again.                                            *)
LEMMA WithIsProcess ==
  ASSUME NEW q \in Process, NEW writable \in SUBSET (LowMemory \cup Nat),
         NEW allocations \in [Indexes -> [ptr : Pointers, size : Requests \cup {0}]]
  PROVE  With(q, allocations, writable) \in Process
BY DEF With, Process

(* What is known of a process that runs. *)
LEMMA AliveFacts ==
  ASSUME NoWrap, NEW q, ProcessOK(q), q.alive
  PROVE  /\ q \in Process
         /\ q.allocations \in [Indexes -> [ptr : Pointers, size : Requests \cup {0}]]
         /\ q.writable \in SUBSET (LowMemory \cup Nat)
         /\ {-2, 0} \subseteq Fields(q) /\ Fields(q) \subseteq {-2, -1, 0}
         /\ Used(q) = Fields(q) \cup {i \in Indexes : q.allocations[i] # Empty}
         /\ \A r \in Used(q) : At(q, r) \in Allocation
         /\ \A i \in Indexes : q.allocations[i] = Empty <=> q.allocations[i].ptr = Null
         /\ \A i \in Indexes : At(q, i) = Region(q.allocations[i].ptr, q.allocations[i].size)
<1>1. /\ q \in Process /\ {q.struct, q.stack} \subseteq Blocks /\ q.file \in Requests
      /\ EntriesAreSet(q)
  BY DEF ProcessOK
<1>2. /\ q.allocations \in [Indexes -> [ptr : Pointers, size : Requests \cup {0}]]
      /\ q.writable \in SUBSET (LowMemory \cup Nat) /\ q.image \in Pointers
  BY <1>1 DEF Process
<1>3. References = {-2, -1, 0} \cup Indexes /\ \A i \in Indexes : i \in Nat /\ i > 0
  BY AllocationsAssumption DEF References, Indexes
<1>4. /\ Used(q) = Fields(q) \cup {i \in Indexes : q.allocations[i] # Empty}
      /\ {-2, 0} \subseteq Fields(q) /\ Fields(q) \subseteq {-2, -1, 0}
  BY DEF Used, Fields
<1>5. \A i \in Indexes : At(q, i) = Region(q.allocations[i].ptr, q.allocations[i].size)
  BY <1>3 DEF At
<1>6. \A i \in Indexes : q.allocations[i] = Empty <=> q.allocations[i].ptr = Null
  <2>1. Null \notin Blocks /\ Empty.ptr = Null
    BY DEF Null, Blocks, Empty
  <2> QED BY <1>1, <2>1 DEF EntriesAreSet
<1>7. KernelSize \in Requests
  BY DEF Requests
<1>8. \A r \in Fields(q) : At(q, r) \in Allocation
  <2>1. At(q, 0) \in Allocation /\ At(q, -2) \in Allocation
    BY <1>1, <1>7 DEF At, Region, Allocation
  <2>2. q.image # Null => At(q, -1) \in Allocation
    BY <1>1, <1>2 DEF At, Region, Allocation, Pointers
  <2> QED BY <2>1, <2>2 DEF Fields
<1>9. \A i \in Indexes : q.allocations[i] # Empty => At(q, i) \in Allocation
  BY <1>1, <1>5 DEF EntriesAreSet, Region, Allocation
<1> QED BY <1>1, <1>2, <1>4, <1>5, <1>6, <1>8, <1>9

(* An entry of the table is taken for a new region, whose pages are mapped.*)
LEMMA Attached ==
  ASSUME NoWrap, NEW q, ProcessOK(q), q.alive, NEW i \in Indexes, q.allocations[i] = Empty,
         NEW s \in Blocks, NEW size \in Requests, Region(s, size) \notin RegionsOf(q)
  PROVE  LET w == With(q, [q.allocations EXCEPT ![i] = [ptr |-> s, size |-> size]],
                       q.writable \cup Pages(s, size))
         IN  ProcessOK(w) /\ RegionsOf(w) = RegionsOf(q) \cup {Region(s, size)}
<1> DEFINE new == Region(s, size)
           entry == [ptr |-> s, size |-> size]
           table == [q.allocations EXCEPT ![i] = entry]
           mapped == q.writable \cup Pages(s, size)
           w == With(q, table, mapped)
<1>1. new \in Allocation /\ new.start = s /\ new.size = size /\ PagesOf(new) = Pages(s, size)
  BY DEF Region, Allocation, PagesOf
<1>2. entry # Empty /\ entry.ptr = s /\ entry.size = size
      /\ entry \in [ptr : Pointers, size : Requests \cup {0}]
  BY DEF Empty, Null, Blocks, Pointers
<1>3. /\ table \in [Indexes -> [ptr : Pointers, size : Requests \cup {0}]]
      /\ table[i] = entry /\ \A j \in Indexes : j # i => table[j] = q.allocations[j]
  BY <1>2, AliveFacts
<1>4. mapped \in SUBSET (LowMemory \cup Nat)
  <2>1. Pages(s, size) \subseteq Nat
    BY DEF Pages, Blocks
  <2> QED BY <2>1, AliveFacts
<1> HIDE DEF table, mapped
<1>5. q \in Process /\ {q.struct, q.stack} \subseteq Blocks /\ q.file \in Requests
      /\ EntriesAreSet(q) /\ RefersOnce(q) /\ MapsRequested(q) /\ MapsItsOwn(q)
  BY DEF ProcessOK
<1>6. /\ w.alive = q.alive /\ w.struct = q.struct /\ w.image = q.image /\ w.file = q.file
      /\ w.stack = q.stack /\ w.allocations = table /\ w.writable = mapped
      /\ \A r \in References : r <= 0 => At(w, r) = At(q, r)
      /\ \A r \in Indexes : At(w, r) = Region(table[r].ptr, table[r].size)
      /\ Used(w) = Fields(q) \cup {j \in Indexes : table[j] # Empty}
  <2>1. q.alive
    OBVIOUS
  <2>2. /\ w.alive = q.alive /\ w.struct = q.struct /\ w.image = q.image /\ w.file = q.file
        /\ w.stack = q.stack /\ w.allocations = table /\ w.writable = mapped
        /\ \A r \in References : r <= 0 => At(w, r) = At(q, r)
        /\ \A r \in Indexes : At(w, r) = Region(table[r].ptr, table[r].size)
        /\ q.alive => Used(w) = Fields(q) \cup {j \in Indexes : table[j] # Empty}
    BY ONLY WithFacts
  <2> HIDE DEF w
  <2> QED BY ONLY <2>1, <2>2
<1>7. w \in Process
  BY <1>3, <1>4, <1>5, WithIsProcess
<1> HIDE DEF w, entry, new
<1>8. References = {-2, -1, 0} \cup Indexes /\ \A j \in Indexes : j \in Nat /\ j > 0
  BY AllocationsAssumption DEF References, Indexes
<1>9. /\ Used(q) = Fields(q) \cup {j \in Indexes : q.allocations[j] # Empty}
      /\ {-2, 0} \subseteq Fields(q) /\ Fields(q) \subseteq {-2, -1, 0}
  BY AliveFacts
<1>10. Used(w) = Used(q) \cup {i} /\ i \notin Used(q)
  BY <1>2, <1>3, <1>6, <1>8, <1>9
<1>11. At(w, i) = new /\ \A r \in Used(q) : At(w, r) = At(q, r)
  <2>1. \A r \in Indexes : r # i => At(w, r) = At(q, r)
    BY <1>3, <1>6, AliveFacts
  <2> QED BY <1>2, <1>3, <1>6, <1>8, <1>9, <1>10, <2>1 DEF new
<1>12. RegionsOf(w) = RegionsOf(q) \cup {new}
  BY <1>10, <1>11 DEF RegionsOf
<1>13. RefersOnce(w)
  <2>1. \A r \in Used(q) : At(q, r) # new
    BY DEF RegionsOf, new
  <2> QED BY <1>5, <1>10, <1>11, <2>1 DEF RefersOnce
<1>14. EntriesAreSet(w)
  BY <1>2, <1>3, <1>5, <1>6 DEF EntriesAreSet
<1>15. MapsRequested(w)
  <2> SUFFICES ASSUME NEW j \in Indexes, table[j] # Empty
               PROVE  PagesOf(At(w, j)) \subseteq q.writable \cup Pages(s, size)
    BY <1>6 DEF MapsRequested, mapped
  <2>1. CASE j = i
    BY <1>1, <1>11, <2>1
  <2>2. CASE j # i
    <3>1. q.allocations[j] # Empty /\ j \in Used(q)
      BY <1>3, <1>9, <2>2
    <3>2. PagesOf(At(q, j)) \subseteq q.writable
      BY <1>5, <3>1 DEF MapsRequested
    <3> QED BY <1>11, <3>1, <3>2
  <2> QED BY <2>1, <2>2
<1>16. MapsItsOwn(w)
  <2> SUFFICES ASSUME NoBss, NEW g \in w.writable
               PROVE  \/ \E r \in Used(w) \ {0} : g \in PagesOf(At(w, r))
                      \/ w.image = Null /\ g \in LowMemory
    BY DEF MapsItsOwn
  <2>1. CASE g \in Pages(s, size)
    BY <1>1, <1>8, <1>10, <1>11, <2>1
  <2>2. CASE g \in q.writable
    <3>1. \/ \E r \in Used(q) \ {0} : g \in PagesOf(At(q, r))
          \/ q.image = Null /\ g \in LowMemory
      BY <1>5, <2>2 DEF MapsItsOwn
    <3> QED BY <1>6, <1>10, <1>11, <3>1
  <2> QED BY <1>6, <2>1, <2>2 DEF mapped
<1>17. ProcessOK(w)
  BY <1>5, <1>6, <1>7, <1>13, <1>14, <1>15, <1>16 DEF ProcessOK
<1> QED BY <1>12, <1>17 DEF w, table, mapped, entry, new

(* An entry is cleared and its pages, which are no other region's, are     *)
(* unmapped.                                                               *)
LEMMA Detached ==
  ASSUME NoWrap, NEW q, ProcessOK(q), q.alive, NEW i \in Indexes, q.allocations[i] # Empty,
         \A r \in Used(q) : r # i => PagesOf(At(q, r)) \cap PagesOf(At(q, i)) = {}
  PROVE  LET w == With(q, [q.allocations EXCEPT ![i] = Empty], q.writable \ PagesOf(At(q, i)))
         IN  ProcessOK(w) /\ RegionsOf(w) = RegionsOf(q) \ {At(q, i)} /\ At(q, i) \in RegionsOf(q)
<1> DEFINE table == [q.allocations EXCEPT ![i] = Empty]
           gone == PagesOf(At(q, i))
           mapped == q.writable \ gone
           w == With(q, table, mapped)
<1>2. Empty \in [ptr : Pointers, size : Requests \cup {0}]
  BY DEF Empty, Pointers
<1>3. /\ table \in [Indexes -> [ptr : Pointers, size : Requests \cup {0}]]
      /\ table[i] = Empty /\ \A j \in Indexes : j # i => table[j] = q.allocations[j]
  BY <1>2, AliveFacts
<1>4. mapped \in SUBSET (LowMemory \cup Nat)
  BY AliveFacts
<1> HIDE DEF table, mapped, gone
<1>5. q \in Process /\ {q.struct, q.stack} \subseteq Blocks /\ q.file \in Requests
      /\ EntriesAreSet(q) /\ RefersOnce(q) /\ MapsRequested(q) /\ MapsItsOwn(q)
  BY DEF ProcessOK
<1>6. /\ w.alive = q.alive /\ w.struct = q.struct /\ w.image = q.image /\ w.file = q.file
      /\ w.stack = q.stack /\ w.allocations = table /\ w.writable = mapped
      /\ \A r \in References : r <= 0 => At(w, r) = At(q, r)
      /\ \A r \in Indexes : At(w, r) = Region(table[r].ptr, table[r].size)
      /\ Used(w) = Fields(q) \cup {j \in Indexes : table[j] # Empty}
  <2>1. q.alive
    OBVIOUS
  <2>2. /\ w.alive = q.alive /\ w.struct = q.struct /\ w.image = q.image /\ w.file = q.file
        /\ w.stack = q.stack /\ w.allocations = table /\ w.writable = mapped
        /\ \A r \in References : r <= 0 => At(w, r) = At(q, r)
        /\ \A r \in Indexes : At(w, r) = Region(table[r].ptr, table[r].size)
        /\ q.alive => Used(w) = Fields(q) \cup {j \in Indexes : table[j] # Empty}
    BY ONLY WithFacts
  <2> HIDE DEF w
  <2> QED BY ONLY <2>1, <2>2
<1>7. w \in Process
  BY <1>3, <1>4, <1>5, WithIsProcess
<1> HIDE DEF w
<1>8. References = {-2, -1, 0} \cup Indexes /\ \A j \in Indexes : j \in Nat /\ j > 0
  BY AllocationsAssumption DEF References, Indexes
<1>9. /\ Used(q) = Fields(q) \cup {j \in Indexes : q.allocations[j] # Empty}
      /\ {-2, 0} \subseteq Fields(q) /\ Fields(q) \subseteq {-2, -1, 0}
  BY AliveFacts
<1>10. Used(w) = Used(q) \ {i} /\ i \in Used(q)
  BY <1>3, <1>6, <1>8, <1>9
<1>11. \A r \in Used(w) : At(w, r) = At(q, r)
  <2>1. \A r \in Indexes : r # i => At(w, r) = At(q, r)
    BY <1>3, <1>6, AliveFacts
  <2> QED BY <1>6, <1>8, <1>9, <1>10, <2>1
<1>12. RegionsOf(w) = RegionsOf(q) \ {At(q, i)} /\ At(q, i) \in RegionsOf(q)
  BY <1>5, <1>10, <1>11 DEF RegionsOf, RefersOnce
<1>13. RefersOnce(w)
  BY <1>5, <1>10, <1>11 DEF RefersOnce
<1>14. EntriesAreSet(w)
  <2> SUFFICES ASSUME NEW j \in Indexes
               PROVE  table[j] = Empty \/ (table[j].ptr \in Blocks /\ table[j].size \in Requests)
    BY <1>6 DEF EntriesAreSet
  <2>1. CASE j = i
    BY <1>3, <2>1
  <2>2. CASE j # i
    <3>1. table[j] = q.allocations[j]
      BY <1>3, <2>2
    <3>2. q.allocations[j] = Empty \/ (q.allocations[j].ptr \in Blocks /\ q.allocations[j].size \in Requests)
      BY <1>5 DEF EntriesAreSet
    <3> QED BY <3>1, <3>2
  <2> QED BY <2>1, <2>2
<1>15. MapsRequested(w)
  <2> SUFFICES ASSUME NEW j \in Indexes, table[j] # Empty
               PROVE  PagesOf(At(w, j)) \subseteq mapped
    BY <1>6 DEF MapsRequested
  <2>1. j # i /\ q.allocations[j] # Empty /\ j \in Used(q) /\ j \in Used(w)
    BY <1>3, <1>9, <1>10
  <2>2. PagesOf(At(q, j)) \subseteq q.writable
    BY <1>5, <2>1 DEF MapsRequested
  <2>3. PagesOf(At(q, j)) \cap gone = {}
    BY <2>1 DEF gone
  <2> QED BY <1>11, <2>1, <2>2, <2>3 DEF mapped
<1>16. MapsItsOwn(w)
  <2> SUFFICES ASSUME NoBss, NEW g \in w.writable
               PROVE  \/ \E r \in Used(w) \ {0} : g \in PagesOf(At(w, r))
                      \/ w.image = Null /\ g \in LowMemory
    BY DEF MapsItsOwn
  <2>1. g \in q.writable /\ g \notin gone
    BY <1>6 DEF mapped
  <2>2. CASE q.image = Null /\ g \in LowMemory
    BY <1>6, <2>2
  <2>3. ASSUME NEW r \in Used(q) \ {0}, g \in PagesOf(At(q, r))
        PROVE  r \in Used(w) \ {0} /\ g \in PagesOf(At(w, r))
    <3>1. r # i
      BY <2>1, <2>3 DEF gone
    <3> QED BY <1>10, <1>11, <2>3, <3>1
  <2>4. \/ \E r \in Used(q) \ {0} : g \in PagesOf(At(q, r))
        \/ q.image = Null /\ g \in LowMemory
    BY <1>5, <2>1 DEF MapsItsOwn
  <2> QED BY <2>2, <2>3, <2>4
<1>17. ProcessOK(w)
  BY <1>5, <1>6, <1>7, <1>13, <1>14, <1>15, <1>16 DEF ProcessOK
<1> QED BY <1>12, <1>17 DEF w, table, mapped, gone

-----------------------------------------------------------------------------
(* process_malloc: the new region is referred to by the process, or lost.  *)
LEMMA FirstOf ==
  ASSUME NEW is \in SUBSET Indexes, is # {}
  PROVE  First(is) \in is
<1>1. \E i \in is : \A j \in is : i <= j
  BY LeastNumber, AllocationsAssumption DEF Indexes
<1> QED BY <1>1 DEF First

(* process_malloc keeps the ownership right, whatever it answers           *)
(* (process.c:60).                                                         *)
LEMMA ProcessMallocIsOwned ==
  ASSUME NoWrap, NEW m, MemoryOK(m, {}), NEW p \in Processes, m.proc[p].alive, NEW size \in Requests
  PROVE  LET a == process_malloc(m, p, size)
         IN  /\ MemoryOK(a, {})
             /\ a.proc[p].alive
<1> DEFINE s == Place(m, size)
           k == kmalloc(m, size)
           new == Region(s, size)
           q == m.proc[p]
           a == process_malloc(m, p, size)
<1>1. /\ s \in Pointers
      /\ s = Null => k = m
      /\ s # Null => MemoryOK(k, {new}) /\ new \in Allocation /\ new \notin m.held
      /\ k.proc = m.proc /\ k.lost = m.lost /\ k.abandoned = m.abandoned
  BY KmallocAdds
<1>2. ProcessOK(q) /\ m \in Memory /\ RegionsOf(q) \subseteq m.held
  BY DEF MemoryOK, Owned
<1>3. a = IF s = Null THEN m
          ELSE IF FreeIndexes(m, p) = {}
               THEN [k EXCEPT !.lost = @ \cup {new}]
               ELSE [k EXCEPT !.proc[p].allocations[First(FreeIndexes(m, p))] = [ptr |-> s, size |-> size],
                              !.proc[p].writable = @ \cup Pages(s, size)]
  BY DEF process_malloc, Region
<1> HIDE DEF a, new, k, s
<1>4. CASE s = Null
  BY <1>3, <1>4 DEF a
<1>5. CASE s # Null /\ FreeIndexes(m, p) = {}
  <2>1. k \in Memory /\ k.proc \in [Processes -> Process] /\ k.proc[p] = q
    BY <1>1, <1>5 DEF MemoryOK, Memory
  <2>2. k = [entries |-> k.entries, held |-> k.held, stray |-> k.stray, proc |-> k.proc,
             lost |-> k.lost, abandoned |-> k.abandoned]
    BY <2>1 DEF Memory
  <2>3. a = Moved(k, p, q, {new}, {})
    <3>1. k.proc = [k.proc EXCEPT ![p] = q]
      BY <2>1
    <3>2. a = [entries |-> k.entries, held |-> k.held, stray |-> k.stray, proc |-> k.proc,
               lost |-> k.lost \cup {new}, abandoned |-> k.abandoned]
      BY <1>3, <1>5, <2>2
    <3>3. k.abandoned = k.abandoned \cup {}
      OBVIOUS
    <3> QED BY <3>1, <3>2, <3>3 DEF Moved
  <2>4. MemoryOK(a, {})
    BY <1>1, <1>2, <1>5, <2>1, <2>3, MovedIsOwned
  <2>5. a.proc[p] = q
    BY <2>1, <2>3 DEF Moved
  <2> QED BY <2>4, <2>5 DEF a
<1>6. CASE s # Null /\ FreeIndexes(m, p) # {}
  <2> DEFINE i == First(FreeIndexes(m, p))
             table == [q.allocations EXCEPT ![i] = [ptr |-> s, size |-> size]]
             w == With(q, table, q.writable \cup Pages(s, size))
  <2>1. i \in Indexes /\ q.allocations[i] = Empty
    <3>1. FreeIndexes(m, p) \subseteq Indexes /\ \A j \in FreeIndexes(m, p) : q.allocations[j].ptr = Null
      BY DEF FreeIndexes
    <3>2. i \in FreeIndexes(m, p)
      BY <1>6, <3>1, FirstOf
    <3> QED BY <1>2, <3>1, <3>2, AliveFacts
  <2>2. s \in Blocks
    BY <1>1, <1>6 DEF Pointers
  <2>3. ProcessOK(w) /\ RegionsOf(w) = RegionsOf(q) \cup {new}
    BY <1>1, <1>2, <1>6, <2>1, <2>2, Attached DEF new
  <2>4. k \in Memory /\ k.proc \in [Processes -> Process] /\ k.proc[p] = q
    BY <1>1, <1>6 DEF MemoryOK, Memory
  <2>5. a = Moved(k, p, w, {}, {})
    <3> HIDE DEF i, q
    <3>1. k = [entries |-> k.entries, held |-> k.held, stray |-> k.stray, proc |-> k.proc,
               lost |-> k.lost, abandoned |-> k.abandoned]
      BY <2>4 DEF Memory
    <3>2. a = [[k EXCEPT !.proc[p].allocations[i] = [ptr |-> s, size |-> size]]
                 EXCEPT !.proc[p].writable = @ \cup Pages(s, size)]
      BY <1>3, <1>6 DEF i
    <3>3. q = [alive |-> q.alive, struct |-> q.struct, image |-> q.image, file |-> q.file,
               stack |-> q.stack, allocations |-> q.allocations, writable |-> q.writable]
      BY <1>2 DEF ProcessOK, Process
    <3> DEFINE v == With(q, table, q.writable)
               b == [entries |-> k.entries, held |-> k.held, stray |-> k.stray,
                     proc |-> [k.proc EXCEPT ![p] = v], lost |-> k.lost, abandoned |-> k.abandoned]
    <3>4. [k EXCEPT !.proc[p].allocations[i] = [ptr |-> s, size |-> size]] = b
      <4>1. [q EXCEPT !.allocations = table] = v
        BY <3>3 DEF With
      <4>2. [k EXCEPT !.proc[p].allocations[i] = [ptr |-> s, size |-> size]]
              = [k EXCEPT !.proc = [k.proc EXCEPT ![p] = [q EXCEPT !.allocations = table]]]
        BY <2>4
      <4> HIDE DEF table, v
      <4> QED BY <3>1, <4>1, <4>2
    <3>5. [b EXCEPT !.proc[p].writable = @ \cup Pages(s, size)] = Moved(k, p, w, {}, {})
      <4>1. b.proc[p] = v /\ b.proc = [k.proc EXCEPT ![p] = v] /\ v.writable = q.writable
        <5>1. v.writable = q.writable
          BY DEF With
        <5> HIDE DEF v
        <5>2. b.proc = [k.proc EXCEPT ![p] = v]
          OBVIOUS
        <5>3. [k.proc EXCEPT ![p] = v][p] = v
          BY ONLY <2>4, p \in Processes
        <5> HIDE DEF b
        <5> QED BY ONLY <5>1, <5>2, <5>3
      <4>2. [v EXCEPT !.writable = @ \cup Pages(s, size)] = w
        <5> HIDE DEF table
        <5>1. v.writable = q.writable
          BY DEF With
        <5> DEFINE mapped == q.writable \cup Pages(s, size)
        <5>2. [v EXCEPT !.writable = mapped] = With(q, table, mapped)
          <6> HIDE DEF mapped
          <6> QED BY DEF With
        <5>3. w = With(q, table, mapped)
          OBVIOUS
        <5> HIDE DEF v, w
        <5> QED BY ONLY <5>1, <5>2, <5>3 DEF mapped
      <4> HIDE DEF v, w
      <4>3. [b EXCEPT !.proc[p].writable = @ \cup Pages(s, size)]
              = [b EXCEPT !.proc = [b.proc EXCEPT ![p] = [v EXCEPT !.writable = @ \cup Pages(s, size)]]]
        BY <4>1
      <4>4. [[k.proc EXCEPT ![p] = v] EXCEPT ![p] = w] = [k.proc EXCEPT ![p] = w]
        BY <2>4
      <4>5. k.lost = k.lost \cup {} /\ k.abandoned = k.abandoned \cup {}
        OBVIOUS
      <4>6. [b EXCEPT !.proc = [b.proc EXCEPT ![p] = w]]
              = [entries |-> k.entries, held |-> k.held, stray |-> k.stray,
                 proc |-> [k.proc EXCEPT ![p] = w], lost |-> k.lost, abandoned |-> k.abandoned]
        BY <4>1, <4>4
      <4> QED BY <4>2, <4>3, <4>5, <4>6 DEF Moved
    <3> QED BY <3>2, <3>4, <3>5
  <2>6. w.alive = q.alive
    BY DEF With
  <2> HIDE DEF w
  <2>7. RegionsOf(w) \cap {} = {} /\ RegionsOf(w) \cup {} = RegionsOf(k.proc[p]) \cup {new}
    BY <2>3, <2>4
  <2>8. MemoryOK(a, {})
    BY <1>1, <1>6, <2>3, <2>5, <2>7, MovedIsOwned
  <2>9. a.proc[p] = w
    BY <2>4, <2>5 DEF Moved
  <2> QED BY <2>6, <2>8, <2>9 DEF a
<1> QED BY <1>4, <1>5, <1>6 DEF a

-----------------------------------------------------------------------------
(* process_free: the entry that has the pointer is cleared and the region  *)
(* is given back; of a pointer the process does not have, nothing is.      *)
Replaced(k, p, table, gone) ==
  [k EXCEPT !.proc[p].allocations = table, !.proc[p].writable = @ \ gone]

WithProcess(k, p, w) == [k EXCEPT !.proc = [k.proc EXCEPT ![p] = w]]

(* Two ways to write the entries of a process that changed.                *)
LEMMA EntriesReplaced ==
  ASSUME NEW k \in Memory, NEW p \in Processes, NEW table, NEW gone
  PROVE  Replaced(k, p, table, gone) = WithProcess(k, p, With(k.proc[p], table, k.proc[p].writable \ gone))
<1> DEFINE q == k.proc[p]
           v == With(q, table, q.writable)
           w == With(q, table, q.writable \ gone)
           b == [k EXCEPT !.proc = [k.proc EXCEPT ![p] = v]]
<1>1. k.proc \in [Processes -> Process] /\ q \in Process
  BY DEF Memory
<1>2. k = [entries |-> k.entries, held |-> k.held, stray |-> k.stray, proc |-> k.proc,
           lost |-> k.lost, abandoned |-> k.abandoned]
  BY DEF Memory
<1>3. [q EXCEPT !.allocations = table] = v
  <2> HIDE DEF q
  <2>1. q = [alive |-> q.alive, struct |-> q.struct, image |-> q.image, file |-> q.file,
             stack |-> q.stack, allocations |-> q.allocations, writable |-> q.writable]
    BY <1>1 DEF Process
  <2> QED BY <2>1 DEF With
<1>4. [v EXCEPT !.writable = @ \ gone] = w
  BY DEF With
<1>5. v.writable = q.writable
  BY DEF With
<1> HIDE DEF v, w
<1>6. [k EXCEPT !.proc[p].allocations = table]
        = [k EXCEPT !.proc = [k.proc EXCEPT ![p] = [q EXCEPT !.allocations = table]]]
  BY <1>1
<1>7. [k EXCEPT !.proc[p].allocations = table] = b
  BY <1>3, <1>6
<1>8. b.proc = [k.proc EXCEPT ![p] = v]
  BY <1>2
<1>9. b.proc[p] = v
  BY <1>1, <1>8
<1> HIDE DEF b
<1>10. [b EXCEPT !.proc[p].writable = q.writable \ gone]
         = [b EXCEPT !.proc = [b.proc EXCEPT ![p] = [v EXCEPT !.writable = @ \ gone]]]
  BY <1>5, <1>9
<1>11. [[k.proc EXCEPT ![p] = v] EXCEPT ![p] = w] = [k.proc EXCEPT ![p] = w]
  BY <1>1
<1>12. [b EXCEPT !.proc = [k.proc EXCEPT ![p] = w]] = [k EXCEPT !.proc = [k.proc EXCEPT ![p] = w]]
  BY <1>2 DEF b
<1>13. [b EXCEPT !.proc[p].writable = q.writable \ gone] = [k EXCEPT !.proc = [k.proc EXCEPT ![p] = w]]
  BY <1>4, <1>8, <1>10, <1>11, <1>12
<1> QED BY <1>7, <1>13 DEF w, Replaced, WithProcess

(* The regions of a process have no page in common. *)
LEMMA PagesApart ==
  ASSUME NoWrap, NEW pending, NEW m, MemoryOK(m, pending), NEW p \in Processes, m.proc[p].alive,
         NEW r \in Used(m.proc[p]), NEW s \in Used(m.proc[p])
  PROVE  /\ r # s => PagesOf(At(m.proc[p], r)) \cap PagesOf(At(m.proc[p], s)) = {}
         /\ At(m.proc[p], r).start = At(m.proc[p], s).start => r = s
<1> DEFINE q == m.proc[p]
           g == At(q, r)
           h == At(q, s)
<1>1. ProcessOK(q) /\ IsTable(m.entries, m.held) /\ RegionsOf(q) \subseteq m.held
  BY DEF MemoryOK, Owned
<1>2. g \in m.held /\ h \in m.held
  BY <1>1 DEF RegionsOf
<1>3. g \in Allocation /\ h \in Allocation
  BY <1>1, AliveFacts
<1>4. RefersOnce(q)
  BY <1>1 DEF ProcessOK
<1>5. g.start = h.start => r = s
  BY <1>1, <1>2, <1>4, StartsDiffer DEF RefersOnce
<1>6. ASSUME r # s PROVE PagesOf(g) \cap PagesOf(h) = {}
  <2>1. g # h
    BY <1>4, <1>6 DEF RefersOnce
  <2>2. Extent(g) \cap Extent(h) = {}
    BY <1>1, <1>2, <2>1 DEF IsTable, Apart
  <2> HIDE DEF g, h
  <2>3. PagesOf(g) \subseteq Extent(g) /\ PagesOf(h) \subseteq Extent(h)
    BY <1>3, RequestFacts
  <2> QED BY <2>2, <2>3
<1> QED BY <1>5, <1>6

(* process_free gives back one region and clears its entry, or changes     *)
(* nothing (process.c:282).                                                *)
LEMMA ProcessFreeIsOwned ==
  ASSUME NoWrap, NEW m, MemoryOK(m, {}), NEW p \in Processes, m.proc[p].alive, NEW ptr \in Pointers
  PROVE  LET a == process_free(m, p, ptr)
             q == m.proc[p]
         IN  /\ MemoryOK(a, {})
             /\ \E writable :
                  a.proc[p] = With(q, [j \in Indexes |-> IF q.allocations[j].ptr = ptr THEN Empty
                                                         ELSE q.allocations[j]], writable)
<1> DEFINE q == m.proc[p]
           with == {i \in Indexes : q.allocations[i].ptr = ptr}
           table == [j \in Indexes |-> IF q.allocations[j].ptr = ptr THEN Empty ELSE q.allocations[j]]
           size == q.allocations[First(with)].size
           gone == UnmappedPages(ptr, size)
           w == With(q, table, q.writable \ gone)
           f == kfree(m, ptr)
           a == process_free(m, p, ptr)
<1>1. /\ ProcessOK(q) /\ m \in Memory /\ m.proc \in [Processes -> Process]
      /\ IsTable(m.entries, m.held) /\ RegionsOf(q) \subseteq m.held
  BY DEF MemoryOK, Owned, Memory
<1>2. q.allocations \in [Indexes -> [ptr : Pointers, size : Requests \cup {0}]]
  BY <1>1, AliveFacts
<1>3. q = With(q, q.allocations, q.writable)
  BY <1>1 DEF Process, With
<1>4. CASE with = {}
  <2>1. a = m
    BY <1>4 DEF process_free
  <2>2. table = q.allocations
    BY <1>2, <1>4
  <2> QED BY <1>3, <2>1, <2>2
<1>5. CASE with # {}
  <2>1. a = [f EXCEPT !.proc[p].allocations = [i \in Indexes |-> IF i \in with THEN Empty ELSE q.allocations[i]],
                      !.proc[p].writable = @ \ gone]
    BY <1>5 DEF process_free
  <2>2. [i \in Indexes |-> IF i \in with THEN Empty ELSE q.allocations[i]] = table
    OBVIOUS
  <2>3. First(with) \in with
    BY <1>5, FirstOf
  <2> DEFINE i == First(with)
  <2>4. CASE ptr = Null
    <3>1. MemoryOK(f, {}) /\ f.proc = m.proc
      BY <2>4, KfreeNull
    <3>2. f \in Memory
      BY <3>1 DEF MemoryOK
    <3>3. table = q.allocations
      <4>1. \A j \in Indexes : q.allocations[j].ptr = ptr => q.allocations[j] = Empty
        BY <1>1, <2>4, AliveFacts
      <4> HIDE DEF q
      <4> QED BY <1>2, <4>1
    <3>4. gone = {}
      BY <2>4 DEF UnmappedPages
    <3>5. w = q
      <4>1. q.writable \ gone = q.writable
        BY <3>4
      <4> HIDE DEF table, gone
      <4> QED BY <1>3, <3>3, <4>1
    <3>6. a = [f EXCEPT !.proc = [f.proc EXCEPT ![p] = w]]
      <4>1. f.proc[p] = q
        BY <3>1
      <4> HIDE DEF f, table, gone
      <4>2. a = Replaced(f, p, table, gone)
        BY <2>1, <2>2, Zenon DEF Replaced
      <4> HIDE DEF a, q
      <4>3. a = WithProcess(f, p, With(f.proc[p], table, f.proc[p].writable \ gone))
        <5>1. Replaced(f, p, table, gone)
                = WithProcess(f, p, With(f.proc[p], table, f.proc[p].writable \ gone))
          BY ONLY <3>2, EntriesReplaced, p \in Processes
        <5> QED BY ONLY <4>2, <5>1
      <4> QED BY <4>1, <4>3 DEF WithProcess
    <3> HIDE DEF w, q, f, table
    <3>7. [f.proc EXCEPT ![p] = w] = f.proc
      BY <1>1, <3>1, <3>5 DEF q
    <3>8. a = f
      BY <3>2, <3>6, <3>7 DEF Memory
    <3> HIDE DEF a
    <3>9. MemoryOK(a, {}) /\ a.proc[p] = w
      BY <3>1, <3>5, <3>8 DEF q
    <3> QED BY <3>9 DEF w, a, table, q
  <2>5. CASE ptr # Null
    <3> DEFINE h == At(q, i)
               b == Moved(m, p, w, {}, {})
    <3>1. i \in Indexes /\ q.allocations[i].ptr = ptr /\ q.allocations[i] # Empty /\ i \in Used(q)
      <4> HIDE DEF i
      <4>1. i \in Indexes /\ q.allocations[i].ptr = ptr
        BY <2>3 DEF i
      <4> QED BY <1>1, <2>5, <4>1, AliveFacts
    <3>2. h = Region(ptr, size) /\ h.start = ptr /\ h.size = size /\ h \in Allocation
      <4> HIDE DEF i
      <4>1. At(q, i) = Region(q.allocations[i].ptr, q.allocations[i].size) /\ At(q, i) \in Allocation
        BY <1>1, <3>1, AliveFacts
      <4>2. size = q.allocations[i].size
        BY DEF i
      <4> HIDE DEF size, q
      <4> QED BY <3>1, <4>1, <4>2 DEF Region
    <3>3. with = {i}
      <4> SUFFICES ASSUME NEW j \in with PROVE j = i
        BY <2>3
      <4>1. j \in Used(q) /\ At(q, j) = Region(q.allocations[j].ptr, q.allocations[j].size)
        BY <1>1, <2>5, AliveFacts
      <4>2. At(q, j).start = h.start
        <5>1. q.allocations[j].ptr = ptr
          OBVIOUS
        <5>2. At(q, j).start = q.allocations[j].ptr
          <6> HIDE DEF q, h, with, i
          <6> QED BY ONLY <4>1 DEF Region
        <5> HIDE DEF q, h, with, i
        <5> QED BY ONLY <3>2, <5>1, <5>2
      <4>3. i \in Used(q) /\ At(q, j).start = At(q, i).start
        <5> HIDE DEF q, i
        <5> QED BY <3>1, <4>2 DEF h
      <4> HIDE DEF i
      <4> QED BY <4>1, <4>3, PagesApart
    <3>4. table = [q.allocations EXCEPT ![i] = Empty]
      BY <1>2, <2>2, <3>3
    <3>5. gone = PagesOf(h)
      <4> HIDE DEF h, size
      <4> QED BY <2>5, <3>2 DEF UnmappedPages, PagesOf
    <3>6. \A r \in Used(q) : r # i => PagesOf(At(q, r)) \cap PagesOf(At(q, i)) = {}
      BY <3>1, PagesApart
    <3>7. ProcessOK(w) /\ RegionsOf(w) = RegionsOf(q) \ {h} /\ h \in RegionsOf(q)
      <4> HIDE DEF q, table, gone, i
      <4>1. w = With(q, [q.allocations EXCEPT ![i] = Empty], q.writable \ PagesOf(At(q, i)))
        BY <3>4, <3>5
      <4>2. q.alive
        BY DEF q
      <4> HIDE DEF w
      <4> QED BY <1>1, <3>1, <3>6, <4>1, <4>2, Detached
    <3>8. MemoryOK(b, {h})
      <4>1. RegionsOf(w) \cup {h} \cup {} \cup {} = RegionsOf(m.proc[p]) \cup {}
        BY <3>7
      <4>2. RegionsOf(w) \cap ({h} \cup {} \cup {}) = {}
        BY <3>7
      <4> HIDE DEF w, h
      <4> QED BY <3>7, <4>1, <4>2, MovedIsOwned
    <3>9. MemoryOK(kfree(b, ptr), {}) /\ kfree(b, ptr).proc = b.proc
      <4> HIDE DEF b, h
      <4>1. MemoryOK(kfree(b, h.start), {h} \ {h}) /\ kfree(b, h.start).proc = b.proc
        BY <3>8, KfreeReleases
      <4>2. {h} \ {h} = {}
        OBVIOUS
      <4> QED BY <3>2, <4>1, <4>2
    <3>10. b.proc = [m.proc EXCEPT ![p] = w] /\ b.proc[p] = w
      BY <1>1 DEF Moved
    <3> HIDE DEF w, table, gone, h, i
    <3>11. a = kfree(b, ptr)
      <4>1. m = [entries |-> m.entries, held |-> m.held, stray |-> m.stray, proc |-> m.proc,
                 lost |-> m.lost, abandoned |-> m.abandoned]
        BY <1>1 DEF Memory
      <4> DEFINE cleared == Cleared(m.entries, ptr)
                 kept == {g \in m.held : g.start # ptr}
      <4>2. f = [m EXCEPT !.entries = cleared, !.held = kept]
        BY <2>5 DEF kfree
      <4>3. kfree(b, ptr) = [b EXCEPT !.entries = cleared, !.held = kept]
        BY <2>5 DEF kfree, Moved
      <4>4. b = [entries |-> m.entries, held |-> m.held, stray |-> m.stray, proc |-> [m.proc EXCEPT ![p] = w],
                 lost |-> m.lost, abandoned |-> m.abandoned]
        <5>1. m.lost \cup {} = m.lost /\ m.abandoned \cup {} = m.abandoned
          OBVIOUS
        <5> QED BY <5>1, Zenon DEF Moved
      <4> HIDE DEF f, b, cleared, kept
      <4>5. f = [entries |-> cleared, held |-> kept, stray |-> m.stray, proc |-> m.proc,
                 lost |-> m.lost, abandoned |-> m.abandoned]
        BY <4>1, <4>2
      <4>6. kfree(b, ptr) = [entries |-> cleared, held |-> kept, stray |-> m.stray,
                             proc |-> [m.proc EXCEPT ![p] = w], lost |-> m.lost, abandoned |-> m.abandoned]
        BY <4>3, <4>4
      <4>7. f \in Memory /\ f.proc = m.proc
        <5>1. cleared \in [Blocks -> Entry]
          BY <1>1 DEF cleared, Cleared, Memory, Entry, FreeEntry
        <5>2. kept \in SUBSET Allocation
          BY <1>1 DEF kept, Memory
        <5>3. /\ m.stray \in SUBSET (Int \ Blocks) /\ m.lost \in SUBSET Allocation
              /\ m.abandoned \in SUBSET Allocation
          BY <1>1 DEF Memory
        <5> QED BY <1>1, <4>5, <5>1, <5>2, <5>3 DEF Memory
      <4>8. a = [f EXCEPT !.proc = [f.proc EXCEPT ![p] = w]]
        <5>1. w = With(f.proc[p], table, f.proc[p].writable \ gone)
          BY <4>7 DEF w
        <5>2. a = Replaced(f, p, table, gone)
          BY <2>1, <2>2, Zenon DEF f, table, gone, Replaced
        <5> HIDE DEF a, q
        <5>3. a = WithProcess(f, p, With(f.proc[p], table, f.proc[p].writable \ gone))
          BY <4>7, <5>2, EntriesReplaced
        <5> QED BY <5>1, <5>3 DEF WithProcess
      <4> QED BY <4>5, <4>6, <4>7, <4>8
    <3> HIDE DEF a, b
    <3>12. MemoryOK(a, {}) /\ a.proc[p] = w
      BY <3>9, <3>10, <3>11
    <3> QED BY <3>12 DEF w, a, table
  <2> QED BY <2>4, <2>5
<1> QED BY <1>4, <1>5

-----------------------------------------------------------------------------
(* The end of a process.  The entries of the table are freed one after the *)
(* other; the ones before stay empty.                                      *)
FreedTo(q, i, w) ==
  \E table, writable : w = With(q, table, writable) /\ \A j \in 1 .. i : table[j] = Empty

FreeEntryOf(m, p, i) == process_free(m, p, m.proc[p].allocations[i].ptr)

(* One turn of the loop of process_terminate_allocations (process.c:124).  *)
LEMMA FreedOneMore ==
  ASSUME NoWrap, NEW m, MemoryOK(m, {}), NEW p \in Processes, m.proc[p].alive, NEW i \in Indexes
  PROVE  LET a == FreeEntryOf(m, p, i)
         IN  /\ MemoryOK(a, {}) /\ a.proc[p].alive
             /\ \A q : FreedTo(q, i - 1, m.proc[p]) => FreedTo(q, i, a.proc[p])
<1> DEFINE w == m.proc[p]
           ptr == w.allocations[i].ptr
           a == FreeEntryOf(m, p, i)
           cleared == [j \in Indexes |-> IF w.allocations[j].ptr = ptr THEN Empty ELSE w.allocations[j]]
<1>1. ptr \in Pointers
  <2>1. ProcessOK(w)
    BY DEF MemoryOK
  <2>2. w.allocations \in [Indexes -> [ptr : Pointers, size : Requests \cup {0}]]
    BY <2>1, AliveFacts
  <2> HIDE DEF w
  <2> QED BY <2>2
<1>2. MemoryOK(a, {}) /\ \E writable : a.proc[p] = With(w, cleared, writable)
  <2> HIDE DEF ptr
  <2>1. a = process_free(m, p, ptr)
    BY DEF FreeEntryOf, ptr
  <2> HIDE DEF a
  <2> QED BY <1>1, <2>1, ProcessFreeIsOwned
<1>3. PICK writable : a.proc[p] = With(w, cleared, writable)
  BY <1>2
<1>4. cleared[i] = Empty /\ \A j \in Indexes : w.allocations[j] = Empty => cleared[j] = Empty
  OBVIOUS
<1>5. w.alive
  OBVIOUS
<1> HIDE DEF w, cleared, a
<1>6. ASSUME NEW q, FreedTo(q, i - 1, w)
      PROVE  FreedTo(q, i, a.proc[p])
  <2>1. PICK table, mapped : w = With(q, table, mapped) /\ \A j \in 1 .. i - 1 : table[j] = Empty
    BY <1>6 DEF FreedTo
  <2>2. w.allocations = table /\ a.proc[p] = With(q, cleared, writable)
    BY <1>3, <2>1 DEF With
  <2>3. \A j \in 1 .. i : cleared[j] = Empty
    <3> SUFFICES ASSUME NEW j \in 1 .. i PROVE cleared[j] = Empty
      OBVIOUS
    <3>1. j \in Indexes /\ (j = i \/ j \in 1 .. i - 1)
      BY AllocationsAssumption DEF Indexes
    <3> QED BY <1>4, <2>1, <2>2, <3>1
  <2> QED BY <2>2, <2>3 DEF FreedTo
<1>7. a.proc[p].alive
  BY <1>3, <1>5 DEF With
<1> QED BY <1>2, <1>6, <1>7 DEF w, a

(* After the loop no entry holds a region (process.c:124).                 *)
LEMMA AllAreFreed ==
  ASSUME NoWrap, NEW m, MemoryOK(m, {}), NEW p \in Processes, m.proc[p].alive
  PROVE  LET a == process_terminate_allocations(m, p)
         IN  MemoryOK(a, {}) /\ FreedTo(m.proc[p], MaxAllocations, a.proc[p])
<1> DEFINE S == {v \in Memory : MemoryOK(v, {}) /\ v.proc[p].alive}
           n == MaxAllocations
           step == [i \in 1 .. n |-> [v \in S |-> FreeEntryOf(v, p, i)]]
           Body(f) == [i \in 0 .. n |-> IF i = 0 THEN m ELSE FreeEntryOf(f[i - 1], p, i)]
           after == CHOOSE f : f = Body(f)
<1>1. n \in Nat /\ Indexes = 1 .. n
  BY AllocationsAssumption DEF Indexes
<1>2. m \in S
  BY DEF MemoryOK
<1>3. \A i \in 1 .. n : \A v \in S : FreeEntryOf(v, p, i) \in S
  <2> SUFFICES ASSUME NEW i \in 1 .. n, NEW v \in S PROVE FreeEntryOf(v, p, i) \in S
    OBVIOUS
  <2> HIDE DEF n
  <2>1. MemoryOK(FreeEntryOf(v, p, i), {}) /\ FreeEntryOf(v, p, i).proc[p].alive
    BY <1>1, FreedOneMore
  <2> QED BY <2>1 DEF MemoryOK
<1>4. \A i \in 1 .. n : \A v \in S : step[i][v] = FreeEntryOf(v, p, i)
  OBVIOUS
<1> HIDE DEF S, step
<1>5. \E f : f = Body(f)
  <2>1. \A i \in 1 .. n : \A v \in S : step[i][v] \in S
    BY <1>3, <1>4
  <2>2. PICK f : /\ f = [i \in 0 .. n |-> IF i = 0 THEN m ELSE step[i][f[i - 1]]]
                 /\ \A i \in 0 .. n : f[i] \in S
    <3> HIDE DEF n
    <3>1. n \in Nat
      BY <1>1
    <3>2. \E f : Iterates(f, n, m, step) /\ \A i \in 0 .. n : f[i] \in S
      BY <1>2, <2>1, <3>1, Iteration
    <3> QED BY <3>2 DEF Iterates
  <2>3. ASSUME NEW i \in 0 .. n
        PROVE  (IF i = 0 THEN m ELSE step[i][f[i - 1]]) = IF i = 0 THEN m ELSE FreeEntryOf(f[i - 1], p, i)
    <3>1. i # 0 => i \in 1 .. n /\ f[i - 1] \in S
      BY <1>1, <2>2
    <3> QED BY <1>4, <3>1
  <2>4. [i \in 0 .. n |-> IF i = 0 THEN m ELSE step[i][f[i - 1]]] = Body(f)
    BY <2>3, Zenon
  <2> HIDE DEF Body
  <2> QED BY <2>2, <2>4
<1>6. after = Body(after)
  <2> HIDE DEF Body
  <2> QED BY <1>5
<1>7. process_terminate_allocations(m, p) = after[n]
  BY Zenon DEF process_terminate_allocations, FreeEntryOf
<1> HIDE DEF after
<1>8. \A i \in 0 .. n : after[i] = IF i = 0 THEN m ELSE FreeEntryOf(after[i - 1], p, i)
  <2>1. \A i \in 0 .. n : after[i] = Body(after)[i]
    BY <1>6, Zenon
  <2> QED BY <2>1
<1> DEFINE T == {i \in Nat : i <= n => after[i] \in S /\ FreedTo(m.proc[p], i, after[i].proc[p])}
<1>9. 0 \in T
  <2>1. after[0] = m
    BY <1>1, <1>8
  <2>2. FreedTo(m.proc[p], 0, m.proc[p])
    <3>1. m.proc[p] = With(m.proc[p], m.proc[p].allocations, m.proc[p].writable)
      <4>1. m.proc[p] \in Process
        BY DEF MemoryOK, ProcessOK
      <4> QED BY <4>1 DEF Process, With
    <3>2. \A j \in 1 .. 0 : m.proc[p].allocations[j] = Empty
      OBVIOUS
    <3> QED BY <3>1, <3>2 DEF FreedTo
  <2> QED BY <1>2, <2>1, <2>2
<1>10. ASSUME NEW i \in Nat, i \in T PROVE i + 1 \in T
  <2> SUFFICES ASSUME i + 1 <= n
               PROVE  after[i + 1] \in S /\ FreedTo(m.proc[p], i + 1, after[i + 1].proc[p])
    OBVIOUS
  <2>1. after[i] \in S /\ FreedTo(m.proc[p], i, after[i].proc[p])
    BY <1>1, <1>10
  <2>2. i + 1 \in 1 .. n /\ i + 1 \in 0 .. n /\ i + 1 # 0 /\ (i + 1) - 1 = i
    BY <1>1
  <2>3. after[i + 1] = FreeEntryOf(after[i], p, i + 1)
    BY <1>8, <2>2
  <2>4. after[i + 1] \in S
    BY <1>3, <2>1, <2>2, <2>3
  <2>5. MemoryOK(after[i], {}) /\ after[i].proc[p].alive
    BY <2>1 DEF S
  <2>6. FreedTo(m.proc[p], i + 1, FreeEntryOf(after[i], p, i + 1).proc[p])
    BY <1>1, <2>1, <2>2, <2>5, FreedOneMore
  <2> QED BY <2>3, <2>4, <2>6
<1>11. n \in T
  <2> HIDE DEF T
  <2> QED BY <1>1, <1>9, <1>10, SetInduction
<1> QED BY <1>1, <1>7, <1>11 DEF S

(* What kfree does has nothing to do with who refers to what.              *)
Shaped(m) ==
  m = [entries |-> m.entries, held |-> m.held, stray |-> m.stray, proc |-> m.proc,
       lost |-> m.lost, abandoned |-> m.abandoned]

(* A free does not look at processes, so it may be made before or after    *)
(* they change.                                                            *)
LEMMA KfreeMoved ==
  ASSUME NEW m, Shaped(m), NEW p, NEW w, NEW lost, NEW abandoned, NEW ptr \in Pointers
  PROVE  /\ Shaped(kfree(m, ptr))
         /\ kfree(Moved(m, p, w, lost, abandoned), ptr) = Moved(kfree(m, ptr), p, w, lost, abandoned)
<1>1. CASE ptr # Null
  <2> DEFINE f == kfree(m, ptr)
             b == Moved(m, p, w, lost, abandoned)
             cleared == Cleared(m.entries, ptr)
             kept == {g \in m.held : g.start # ptr}
  <2>2. f = [m EXCEPT !.entries = cleared, !.held = kept]
    BY <1>1 DEF kfree
  <2>3. kfree(b, ptr) = [b EXCEPT !.entries = cleared, !.held = kept]
    BY <1>1 DEF kfree, Moved
  <2>4. b = [entries |-> m.entries, held |-> m.held, stray |-> m.stray, proc |-> [m.proc EXCEPT ![p] = w],
             lost |-> m.lost \cup lost, abandoned |-> m.abandoned \cup abandoned]
    BY Zenon DEF Moved
  <2> HIDE DEF f, b, cleared, kept
  <2>5. f = [entries |-> cleared, held |-> kept, stray |-> m.stray, proc |-> m.proc,
             lost |-> m.lost, abandoned |-> m.abandoned]
    BY <2>2 DEF Shaped
  <2>6. kfree(b, ptr) = [entries |-> cleared, held |-> kept, stray |-> m.stray,
                         proc |-> [m.proc EXCEPT ![p] = w],
                         lost |-> m.lost \cup lost, abandoned |-> m.abandoned \cup abandoned]
    BY <2>3, <2>4
  <2>7. /\ f.entries = cleared /\ f.held = kept /\ f.stray = m.stray /\ f.proc = m.proc
        /\ f.lost = m.lost /\ f.abandoned = m.abandoned
    BY <2>5
  <2>8. Shaped(f)
    BY <2>5, <2>7 DEF Shaped
  <2>9. Moved(f, p, w, lost, abandoned)
          = [entries |-> cleared, held |-> kept, stray |-> m.stray, proc |-> [m.proc EXCEPT ![p] = w],
             lost |-> m.lost \cup lost, abandoned |-> m.abandoned \cup abandoned]
    BY <2>7, Zenon DEF Moved
  <2> QED BY <2>6, <2>8, <2>9 DEF f, b
<1>2. CASE ptr = Null
  <2> DEFINE stray == m.stray \cup {-PoolBlock}
             b == Moved(m, p, w, lost, abandoned)
  <2>1. /\ kfree(m, ptr) = [m EXCEPT !.stray = stray]
        /\ kfree(b, ptr) = [b EXCEPT !.stray = stray]
    BY <1>2 DEF kfree, Moved
  <2>2. b = [entries |-> m.entries, held |-> m.held, stray |-> m.stray, proc |-> [m.proc EXCEPT ![p] = w],
             lost |-> m.lost \cup lost, abandoned |-> m.abandoned \cup abandoned]
    BY Zenon DEF Moved
  <2> DEFINE f == kfree(m, ptr)
  <2> HIDE DEF f, b, stray
  <2>3. f = [entries |-> m.entries, held |-> m.held, stray |-> stray, proc |-> m.proc,
             lost |-> m.lost, abandoned |-> m.abandoned]
    BY <2>1 DEF Shaped, f
  <2>4. kfree(b, ptr) = [entries |-> m.entries, held |-> m.held, stray |-> stray,
                         proc |-> [m.proc EXCEPT ![p] = w],
                         lost |-> m.lost \cup lost, abandoned |-> m.abandoned \cup abandoned]
    BY <2>1, <2>2
  <2>5. /\ f.entries = m.entries /\ f.held = m.held /\ f.stray = stray /\ f.proc = m.proc
        /\ f.lost = m.lost /\ f.abandoned = m.abandoned
    BY <2>3
  <2>6. Shaped(f)
    BY <2>3, <2>5 DEF Shaped
  <2>7. Moved(f, p, w, lost, abandoned)
          = [entries |-> m.entries, held |-> m.held, stray |-> stray, proc |-> [m.proc EXCEPT ![p] = w],
             lost |-> m.lost \cup lost, abandoned |-> m.abandoned \cup abandoned]
    BY <2>5, Zenon DEF Moved
  <2> QED BY <2>4, <2>6, <2>7 DEF f, b
<1> QED BY <1>1, <1>2

(* The program and the stack are given back; the struct, that nobody frees,*)
(* is abandoned.                                                           *)
LEMMA TerminateIsOwned ==
  ASSUME NoWrap, NEW m, MemoryOK(m, {}), NEW p \in Processes, m.proc[p].alive
  PROVE  MemoryOK(process_terminate(m, p), {})
<1> DEFINE q == m.proc[p]
           a == process_terminate_allocations(m, p)
           w == a.proc[p]
           struct == At(q, 0)
           image == At(q, -1)
           stack == At(q, -2)
           rest == {At(q, r) : r \in Fields(q) \ {-2, 0}}
           b == Moved(a, p, NoProcess, {}, {struct})
           f == kfree(kfree(a, q.image), q.stack)
<1>1. MemoryOK(a, {}) /\ FreedTo(q, MaxAllocations, w)
  BY AllAreFreed
<1>2. ProcessOK(q) /\ q.alive
  BY DEF MemoryOK
<1> HIDE DEF q, a
<1>3. PICK table, writable : w = With(q, table, writable) /\ \A j \in Indexes : table[j] = Empty
  BY <1>1 DEF FreedTo, Indexes
<1>4. a \in Memory /\ a.proc \in [Processes -> Process] /\ ProcessOK(w)
  BY <1>1 DEF MemoryOK, Memory
<1> HIDE DEF w
<1>5. References = {-2, -1, 0} \cup Indexes /\ \A j \in Indexes : j \in Nat /\ j > 0
  BY AllocationsAssumption DEF References, Indexes
<1>6. /\ Used(w) = Fields(q) /\ \A r \in {-2, -1, 0} : At(w, r) = At(q, r)
      /\ {-2, 0} \subseteq Fields(q) /\ Fields(q) \subseteq {-2, -1, 0}
  <2>1. Used(w) = Fields(q) \cup {j \in Indexes : table[j] # Empty}
    BY <1>2, <1>3, WithFacts
  <2>2. \A r \in References : r <= 0 => At(w, r) = At(q, r)
    BY <1>3, WithFacts
  <2> QED BY <1>3, <1>5, <2>1, <2>2 DEF Fields
<1>7. /\ RegionsOf(w) = {struct, stack} \cup rest
      /\ struct # stack /\ struct \notin rest /\ stack \notin rest
  <2>1. RefersOnce(w)
    <3>1. w.alive
      BY <1>2, <1>3 DEF With
    <3> QED BY <1>4, <3>1 DEF ProcessOK
  <2>2. \A r \in Fields(q) : At(w, r) = At(q, r)
    BY <1>6
  <2> HIDE DEF q
  <2>3. RegionsOf(w) = {At(q, r) : r \in Fields(q)}
    BY <1>6, <2>2 DEF RegionsOf
  <2>4. \A r, s \in Fields(q) : At(q, r) = At(q, s) => r = s
    BY <1>6, <2>1, <2>2 DEF RefersOnce
  <2> QED BY <1>6, <2>3, <2>4
<1>8. struct = Region(q.struct, KernelSize) /\ image.start = q.image /\ stack.start = q.stack
  BY DEF At, Region
<1>9. q.image \in Pointers /\ q.stack \in Blocks /\ rest = IF q.image = Null THEN {} ELSE {image}
  BY <1>2 DEF ProcessOK, Process, Fields
<1>10. ProcessOK(NoProcess) /\ RegionsOf(NoProcess) = {}
  <2>1. NoProcess \in Process
    <3>1. Empty \in [ptr : Pointers, size : Requests \cup {0}]
      BY DEF Empty, Pointers
    <3> QED BY <3>1 DEF NoProcess, Process, Pointers
  <2>2. NoProcess.alive = FALSE
    BY DEF NoProcess
  <2>3. Used(NoProcess) = {}
    BY <2>2 DEF Used
  <2> QED BY <2>1, <2>2, <2>3 DEF ProcessOK, RegionsOf
<1> HIDE DEF struct, image, stack, rest
<1>11. MemoryOK(b, {stack} \cup rest)
  <2>1. RegionsOf(NoProcess) \cup ({stack} \cup rest) \cup {} \cup {struct} = RegionsOf(a.proc[p]) \cup {}
    BY <1>7, <1>10 DEF w
  <2>2. /\ RegionsOf(NoProcess) \cap (({stack} \cup rest) \cup {} \cup {struct}) = {}
        /\ ({stack} \cup rest) \cap ({} \cup {struct}) = {}
        /\ {} \cap {struct} = {}
    BY <1>7, <1>10
  <2> QED BY <1>1, <1>10, <2>1, <2>2, MovedIsOwned
<1>12. MemoryOK(kfree(b, q.image), {stack})
  <2> HIDE DEF b
  <2>1. CASE q.image = Null
    <3>1. {stack} \cup rest = {stack}
      BY <1>9, <2>1
    <3> QED BY <1>11, <2>1, <3>1, KfreeNull
  <2>2. CASE q.image # Null
    <3>1. ({stack} \cup rest) \ {image} = {stack} /\ image \in {stack} \cup rest
      BY <1>7, <1>9, <2>2
    <3>2. MemoryOK(kfree(b, image.start), ({stack} \cup rest) \ {image})
      BY <1>11, <3>1, KfreeReleases
    <3> QED BY <1>8, <3>1, <3>2
  <2> QED BY <2>1, <2>2
<1>13. MemoryOK(kfree(kfree(b, q.image), q.stack), {})
  <2>1. {stack} \ {stack} = {}
    OBVIOUS
  <2> DEFINE c == kfree(b, q.image)
  <2> HIDE DEF c
  <2>2. MemoryOK(kfree(c, stack.start), {stack} \ {stack})
    BY <1>12, KfreeReleases DEF c
  <2> QED BY <1>8, <2>1, <2>2 DEF c
<1>14. Shaped(f) /\ kfree(kfree(b, q.image), q.stack) = Moved(f, p, NoProcess, {}, {struct})
  <2> DEFINE c == kfree(a, q.image)
  <2>1. Shaped(a)
    BY <1>4 DEF Shaped, Memory
  <2>2. Shaped(c) /\ kfree(b, q.image) = Moved(c, p, NoProcess, {}, {struct})
    BY <1>9, <2>1, KfreeMoved
  <2> HIDE DEF c
  <2>3. /\ Shaped(kfree(c, q.stack))
        /\ kfree(Moved(c, p, NoProcess, {}, {struct}), q.stack)
             = Moved(kfree(c, q.stack), p, NoProcess, {}, {struct})
    BY <1>9, <2>2, KfreeMoved DEF Pointers
  <2> QED BY <2>2, <2>3 DEF c
<1>15. process_terminate(m, p) = Moved(f, p, NoProcess, {}, {struct})
  <2>1. process_terminate(m, p) = [f EXCEPT !.proc[p] = NoProcess, !.abandoned = @ \cup {struct}]
    BY <1>8, Zenon DEF process_terminate, q, a, Region
  <2> HIDE DEF f
  <2>2. f.lost = f.lost \cup {}
    OBVIOUS
  <2>3. [f EXCEPT !.proc[p] = NoProcess, !.abandoned = @ \cup {struct}]
          = [entries |-> f.entries, held |-> f.held, stray |-> f.stray, proc |-> [f.proc EXCEPT ![p] = NoProcess],
             lost |-> f.lost, abandoned |-> f.abandoned \cup {struct}]
    <3> DEFINE g == [entries |-> f.entries, held |-> f.held, stray |-> f.stray,
                     proc |-> [f.proc EXCEPT ![p] = NoProcess], lost |-> f.lost, abandoned |-> f.abandoned]
    <3>1. [f EXCEPT !.proc[p] = NoProcess] = g
      BY <1>14 DEF Shaped
    <3>2. [g EXCEPT !.abandoned = f.abandoned \cup {struct}]
            = [entries |-> f.entries, held |-> f.held, stray |-> f.stray, proc |-> [f.proc EXCEPT ![p] = NoProcess],
               lost |-> f.lost, abandoned |-> f.abandoned \cup {struct}]
      OBVIOUS
    <3> HIDE DEF g
    <3> QED BY <3>1, <3>2
  <2> QED BY <2>1, <2>2, <2>3 DEF Moved
<1> HIDE DEF f, b
<1> QED BY <1>13, <1>14, <1>15

-----------------------------------------------------------------------------
(* A load takes memory step by step: taken is what it has so far.          *)
Grown(m, k, taken) ==
  /\ MemoryOK(k, taken)
  /\ k.held = m.held \cup taken /\ taken \cap m.held = {}
  /\ k.proc = m.proc

(* One more allocation of a load, or a refused one (process.c:305, :512).  *)
LEMMA GrownMore ==
  ASSUME NoWrap, NEW m, NEW k, NEW taken, Grown(m, k, taken), NEW size \in Requests
  PROVE  LET s == Place(k, size)
             new == Region(s, size)
         IN  /\ s = Null => Grown(m, kmalloc(k, size), taken)
             /\ s # Null => /\ Grown(m, kmalloc(k, size), taken \cup {new})
                            /\ s \in Blocks /\ new \in Allocation /\ new \notin taken
<1> DEFINE s == Place(k, size)
           new == Region(s, size)
           a == kmalloc(k, size)
<1>1. MemoryOK(k, taken) /\ taken \subseteq k.held
  BY DEF Grown, MemoryOK, Owned
<1>2. /\ s \in Pointers
      /\ s = Null => a = k
      /\ s # Null => MemoryOK(a, taken \cup {new}) /\ new \in Allocation /\ new \notin k.held
                     /\ a.held = k.held \cup {new}
      /\ a.proc = k.proc
  BY <1>1, KmallocAdds
<1> HIDE DEF s, new, a
<1>3. CASE s = Null
  BY <1>2, <1>3 DEF s, a
<1>4. CASE s # Null
  <2>1. Grown(m, a, taken \cup {new})
    BY <1>1, <1>2, <1>4 DEF Grown
  <2> QED BY <1>1, <1>2, <1>4, <2>1 DEF s, new, a, Pointers
<1> QED BY <1>3, <1>4

(* Each stage of a load holds what the stages before it took.              *)
LEMMA SomeGrown ==
  ASSUME NoWrap, NEW m, MemoryOK(m, {}), NEW image \in Images
  PROVE  /\ \E taken : Grown(m, Struct(m), taken)
         /\ \E taken : Grown(m, ElfCopy(m, image), taken)
         /\ \E taken : Grown(m, Image(m, image), taken)
         /\ \E taken : Grown(m, Stack(m, image), taken)
<1>1. KernelSize \in Requests /\ image.file \in Requests
  BY DEF Requests
<1>2. \A k : \A size \in Requests :
        (\E taken : Grown(m, k, taken)) => \E taken : Grown(m, kmalloc(k, size), taken)
  <2> SUFFICES ASSUME NEW k, NEW size \in Requests, NEW taken, Grown(m, k, taken)
               PROVE  \E after : Grown(m, kmalloc(k, size), after)
    OBVIOUS
  <2>1. Grown(m, kmalloc(k, size), taken) \/ Grown(m, kmalloc(k, size), taken \cup {Region(Place(k, size), size)})
    BY GrownMore
  <2> QED BY <2>1
<1>3. Grown(m, m, {})
  BY DEF Grown
<1>4. \E taken : Grown(m, Struct(m), taken)
  BY <1>1, <1>2, <1>3 DEF Struct
<1>5. \E taken : Grown(m, ElfCopy(m, image), taken)
  BY <1>1, <1>2, <1>4 DEF ElfCopy
<1>6. \E taken : Grown(m, Image(m, image), taken)
  <2>1. CASE image.elf
    BY <1>5, <2>1 DEF Image
  <2>2. CASE ~ image.elf
    BY <1>1, <1>2, <1>5, <2>2 DEF Image
  <2> QED BY <2>1, <2>2
<1>7. \E taken : Grown(m, Stack(m, image), taken)
  BY <1>1, <1>2, <1>6 DEF Stack
<1> QED BY <1>4, <1>5, <1>6, <1>7

(* What a load that fails has taken is abandoned. *)
LEMMA AbandonIsOwned ==
  ASSUME MemoryOK(mem, {}), NEW k, NEW taken, Grown(mem, k, taken), NEW p \in Processes
  PROVE  MemoryOK(Abandon(k), {})
<1>1. MemoryOK(k, taken) /\ k \in Memory /\ k.proc \in [Processes -> Process] /\ ProcessOK(k.proc[p])
      /\ RegionsOf(k.proc[p]) \cap taken = {}
  BY DEF Grown, MemoryOK, Owned, Memory
<1>2. k.held \ mem.held = taken
  BY DEF Grown
<1>3. Shaped(k)
  BY <1>1 DEF Memory, Shaped
<1>4. Abandon(k) = Moved(k, p, k.proc[p], {}, taken)
  <2>1. Abandon(k) = [entries |-> k.entries, held |-> k.held, stray |-> k.stray, proc |-> k.proc,
                      lost |-> k.lost, abandoned |-> k.abandoned \cup taken]
    <3>1. Abandon(k) = [k EXCEPT !.abandoned = k.abandoned \cup taken]
      BY <1>2 DEF Abandon
    <3> QED BY <1>3, <3>1 DEF Shaped
  <2>2. [k.proc EXCEPT ![p] = k.proc[p]] = k.proc /\ k.lost \cup {} = k.lost
    BY <1>1
  <2> QED BY <2>1, <2>2 DEF Moved
<1>5. MemoryOK(Moved(k, p, k.proc[p], {}, taken), {})
  BY <1>1, MovedIsOwned
<1> QED BY <1>4, <1>5

(* A load that fails abandons what it took and breaks nothing              *)
(* (process.c:573).                                                        *)
LEMMA LoadFailsIsOwned ==
  ASSUME NoWrap, MemoryOK(mem, {}), NEW p \in Processes, NEW image \in Images, LoadFails(p, image)
  PROVE  MemoryOK(mem', {})
<1>1. /\ \A k : (\E taken : Grown(mem, k, taken)) => MemoryOK(Abandon(k), {})
      /\ mem' \in {Abandon(Struct(mem)), Abandon(ElfCopy(mem, image)), Abandon(Image(mem, image)),
                   Abandon(Stack(mem, image))}
  BY AbandonIsOwned DEF LoadFails
<1> QED BY <1>1, SomeGrown

(* What a program has in memory takes no more pages than its file.         *)
LEMMA FewerPages ==
  ASSUME NEW ptr \in Int, NEW x \in Nat, NEW y \in Nat
  PROVE  Pages(ptr, x) \subseteq Int /\ (x <= y => Pages(ptr, x) \subseteq Pages(ptr, y))
<1> DEFINE B == BlockSize
           k == (x + B - 1) \div B
           l == (y + B - 1) \div B
<1>1. B \in Nat \ {0} /\ WordSize \in Nat
  BY WordAssumption
<1> HIDE DEF B
<1>2. k \in Int /\ l \in Int /\ B * k <= x + B - 1 /\ x + B - 1 < B * k + B
                  /\ B * l <= y + B - 1 /\ y + B - 1 < B * l + B
  BY <1>1
<1>3. Pages(ptr, x) = ptr .. ptr + k - 1 /\ Pages(ptr, y) = ptr .. ptr + l - 1
  BY DEF Pages, B
<1> HIDE DEF k, l
<1>4. ASSUME x <= y PROVE k <= l
  <2> SUFFICES ASSUME k >= l + 1 PROVE FALSE
    BY <1>2
  <2>1. B * k >= B * (l + 1) /\ B * (l + 1) = B * l + B
    BY <1>1, <1>2
  <2> QED BY <1>1, <1>2, <1>4, <2>1
<1>5. Pages(ptr, x) \subseteq Int
  BY <1>2, <1>3
<1>6. x <= y => Pages(ptr, x) \subseteq Pages(ptr, y)
  BY <1>2, <1>3, <1>4
<1> QED BY <1>5, <1>6

(* An image at address 0 keeps to low memory, as LowAssumption says.       *)
LEMMA LowImage ==
  ASSUME NEW image \in Images, image.elf
  PROVE  ImagePages(Null, image) \subseteq LowMemory
<1> DEFINE B == BlockSize
           z == image.memory
           k == (z + B - 1) \div B
<1>1. B \in Nat \ {0} /\ PoolBlock \in Int /\ LowPages \in Int /\ z \in Nat /\ z <= LowPages * B
  <2>1. z \in 0 .. LowPages * B
    BY LowAssumption
  <2> QED BY <2>1, WordAssumption, PoolAssumption, LowAssumption, ImagesAssumption
<1>2. ImagePages(Null, image) = -PoolBlock .. -PoolBlock + k - 1
  BY DEF ImagePages, Block, Pages
<1> HIDE DEF B, z
<1>3. k \in Int /\ B * k <= z + B - 1
  BY <1>1
<1> HIDE DEF k
<1>4. k <= LowPages
  <2> SUFFICES ASSUME k >= LowPages + 1 PROVE FALSE
    BY <1>1, <1>3
  <2>1. B * k >= B * (LowPages + 1) /\ B * (LowPages + 1) = LowPages * B + B
    BY <1>1, <1>3
  <2> QED BY <1>1, <1>3, <2>1
<1> QED BY <1>1, <1>2, <1>3, <1>4 DEF LowMemory

(* The process a load makes. *)
NewProcess(struct, data, size, stack, mapped) ==
  [alive |-> TRUE, struct |-> struct, image |-> data, file |-> size, stack |-> stack,
   allocations |-> [i \in Indexes |-> Empty], writable |-> mapped]

(* What is taken for a copy of the program: nothing when it is at address 0.*)
Copied(data, size) == IF data = Null THEN {} ELSE {Region(data, size)}

(* A process loaded with its regions is well formed.                       *)
LEMMA NewIsProcess ==
  ASSUME NoWrap, NEW struct \in Blocks, NEW data \in Pointers, NEW stack \in Blocks,
         NEW image \in Images, struct # data, struct # stack, data # stack, data = Null => image.elf
  PROVE  LET q == NewProcess(struct, data, image.file, stack,
                             ImagePages(data, image) \cup Pages(stack, KernelSize))
         IN  /\ ProcessOK(q) /\ q.alive
             /\ RegionsOf(q) = {Region(struct, KernelSize), Region(stack, KernelSize)}
                               \cup Copied(data, image.file)
<1> DEFINE mapped == ImagePages(data, image) \cup Pages(stack, KernelSize)
           q == NewProcess(struct, data, image.file, stack, mapped)
<1>1. KernelSize \in Requests /\ image.file \in Requests /\ image.memory \in Nat
  BY ImagesAssumption DEF Requests
<1>2. /\ data \in Int /\ stack \in Nat /\ KernelSize \in Nat /\ image.file \in Nat /\ Block(data) \in Int
      /\ data # Null => Block(data) = data
  <2>1. data \in Int /\ stack \in Nat /\ Block(data) \in Int
    BY TotalAssumption, PoolAssumption DEF Blocks, Pointers, Null, Block
  <2>2. \A size \in Requests : size \in Nat
    BY DEF NoWrap
  <2> QED BY <1>1, <2>1, <2>2 DEF Block
<1>3. mapped \in SUBSET (LowMemory \cup Nat)
  <2>1. CASE data = Null
    BY <2>1, <1>2, LowImage DEF Pages
  <2>2. CASE data # Null
    <3>1. data \in Nat /\ Block(data) = data
      BY <2>2, <1>2 DEF Pointers, Blocks
    <3> QED BY <3>1, <1>2 DEF ImagePages, Pages
  <2> QED BY <2>1, <2>2
<1>4. /\ NoBss /\ data # Null => ImagePages(data, image) \subseteq Pages(data, image.file)
      /\ data = Null => ImagePages(data, image) \subseteq LowMemory
  <2>1. NoBss /\ data # Null => ImagePages(data, image) \subseteq Pages(data, image.file)
    BY <1>1, <1>2, FewerPages DEF NoBss, ImagePages
  <2> QED BY <2>1, LowImage
<1>5. /\ q.alive /\ q.struct = struct /\ q.image = data /\ q.file = image.file /\ q.stack = stack
      /\ q.allocations = [i \in Indexes |-> Empty] /\ q.writable = mapped
  BY DEF NewProcess
<1>6. q \in Process
  <2>1. [i \in Indexes |-> Empty] \in [Indexes -> [ptr : Pointers, size : Requests \cup {0}]]
    BY DEF Empty, Pointers
  <2> HIDE DEF mapped
  <2> QED BY <1>1, <1>3, <2>1 DEF NewProcess, Process, Pointers
<1> HIDE DEF q
<1>7. \A j \in Indexes : q.allocations[j] = Empty
  BY <1>5
<1>8. Used(q) = Fields(q) /\ Fields(q) = IF data = Null THEN {-2, 0} ELSE {-2, -1, 0}
  BY <1>5, <1>7 DEF Used, Fields
<1>9. /\ At(q, 0) = Region(struct, KernelSize) /\ At(q, -1) = Region(data, image.file)
      /\ At(q, -2) = Region(stack, KernelSize)
  BY <1>5 DEF At
<1>10. RefersOnce(q)
  BY <1>8, <1>9 DEF RefersOnce, Region
<1>11. RegionsOf(q) = {Region(struct, KernelSize), Region(stack, KernelSize)} \cup Copied(data, image.file)
  BY <1>8, <1>9 DEF RegionsOf, Copied
<1>12. MapsItsOwn(q)
  <2> SUFFICES ASSUME NoBss, NEW g \in mapped
               PROVE  \/ \E r \in Used(q) \ {0} : g \in PagesOf(At(q, r))
                      \/ data = Null /\ g \in LowMemory
    BY <1>5 DEF MapsItsOwn
  <2>1. PagesOf(At(q, -1)) = Pages(data, image.file) /\ PagesOf(At(q, -2)) = Pages(stack, KernelSize)
    BY <1>9 DEF PagesOf, Region
  <2>2. CASE g \in Pages(stack, KernelSize)
    BY <1>8, <2>1, <2>2
  <2>3. CASE g \in ImagePages(data, image)
    BY <1>4, <1>8, <2>1, <2>3
  <2> QED BY <2>2, <2>3
<1>13. EntriesAreSet(q) /\ MapsRequested(q)
  BY <1>7 DEF EntriesAreSet, MapsRequested
<1>14. ProcessOK(q)
  BY <1>1, <1>5, <1>6, <1>10, <1>12, <1>13 DEF ProcessOK
<1> QED BY <1>5, <1>11, <1>14 DEF q

(* A load that succeeds keeps the ownership right (process.c:512).         *)
LEMMA LoadedIsOwned ==
  ASSUME NoWrap, NEW m, MemoryOK(m, {}), NEW p \in Processes, ~ m.proc[p].alive,
         NEW image \in Images, Enough(m, image)
  PROVE  LET a == LoadedFrom(m, p, image)
         IN  MemoryOK(a, {}) /\ a.proc[p].alive
<1> DEFINE data == DataPlace(m, image)
           stack == StackPlace(m, image)
           block == Place(m, KernelSize)
           struct == Region(block, KernelSize)
           copy == Region(ElfPlace(m, image), image.file)
           program == Copied(data, image.file)
           own == Region(stack, KernelSize)
           unused == IF image.elf THEN {} ELSE {copy}
           k == Stack(m, image)
           q == NewProcess(block, data, image.file, stack,
                           ImagePages(data, image) \cup Pages(stack, KernelSize))
           a == LoadedFrom(m, p, image)
<1>0. KernelSize \in Requests /\ image.file \in Requests
  BY DEF Requests
<1>1. Grown(m, Struct(m), {struct}) /\ block \in Blocks
  <2>1. Grown(m, m, {})
    BY DEF Grown
  <2>2. block # Null
    BY DEF Enough, HasImage
  <2>3. Grown(m, Struct(m), {} \cup {struct}) /\ block \in Blocks
    BY <1>0, <2>1, <2>2, GrownMore DEF Struct
  <2> QED BY <2>3
<1>2. LET took == Copied(ElfPlace(m, image), image.file)
      IN  Grown(m, ElfCopy(m, image), {struct} \cup took) /\ ElfPlace(m, image) \in Pointers
          /\ took \cap {struct} = {}
  <2> DEFINE s == ElfPlace(m, image)
  <2>1. s = Null => Grown(m, ElfCopy(m, image), {struct})
    BY <1>0, <1>1, GrownMore DEF ElfCopy, ElfPlace
  <2>2. s # Null => /\ Grown(m, ElfCopy(m, image), {struct} \cup {copy})
                    /\ s \in Blocks /\ copy \notin {struct}
    BY <1>0, <1>1, GrownMore DEF ElfCopy, ElfPlace
  <2> HIDE DEF s, struct
  <2>3. s = Null => {struct} \cup Copied(s, image.file) = {struct}
    BY DEF Copied
  <2> QED BY <2>1, <2>2, <2>3 DEF Copied, Pointers, s
<1>3. /\ Grown(m, Image(m, image), {struct} \cup program \cup unused)
      /\ data \in Pointers /\ struct \notin program
      /\ unused \cap ({struct} \cup program) = {}
      /\ data = Null => image.elf
  <2>1. CASE image.elf
    <3>1. Image(m, image) = ElfCopy(m, image) /\ data = ElfPlace(m, image) /\ unused = {}
      BY <2>1 DEF Image, DataPlace
    <3> HIDE DEF data, struct, unused
    <3>2. {struct} \cup program \cup unused = {struct} \cup Copied(ElfPlace(m, image), image.file)
      BY <3>1
    <3> QED BY <1>2, <2>1, <3>1, <3>2
  <2>2. CASE ~ image.elf
    <3>1. /\ Image(m, image) = kmalloc(ElfCopy(m, image), image.file)
          /\ data = Place(ElfCopy(m, image), image.file) /\ unused = {copy}
      BY <2>2 DEF Image, DataPlace
    <3>2. data # Null
      BY <2>2 DEF Enough, HasImage
    <3>3. ElfPlace(m, image) # Null
      <4> SUFFICES ASSUME ElfPlace(m, image) = Null PROVE FALSE
        OBVIOUS
      <4>1. ElfCopy(m, image) = Struct(m)
        BY DEF ElfCopy, ElfPlace, kmalloc
      <4> QED BY <3>1, <3>2, <4>1 DEF ElfPlace
    <3>4. Copied(ElfPlace(m, image), image.file) = {copy} /\ program = {Region(data, image.file)}
      BY <3>2, <3>3 DEF Copied
    <3> HIDE DEF data, copy, struct, unused, program
    <3>5. Grown(m, ElfCopy(m, image), {struct} \cup {copy}) /\ copy \notin {struct}
      BY <1>2, <3>4
    <3>6. /\ Grown(m, Image(m, image), {struct} \cup {copy} \cup {Region(data, image.file)})
          /\ data \in Blocks /\ Region(data, image.file) \notin {struct} \cup {copy}
      BY <1>0, <3>1, <3>2, <3>5, GrownMore
    <3>7. {struct} \cup program \cup unused = {struct} \cup {copy} \cup {Region(data, image.file)}
      BY <3>1, <3>4
    <3> QED BY <3>1, <3>2, <3>4, <3>5, <3>6, <3>7 DEF Pointers
  <2> QED BY <2>1, <2>2
<1>4. /\ Grown(m, k, {struct} \cup program \cup unused \cup {own})
      /\ stack \in Blocks /\ own \notin {struct} \cup program \cup unused
  <2>1. stack # Null
    BY DEF Enough
  <2> HIDE DEF unused, struct, program
  <2> QED BY <1>0, <1>3, <2>1, GrownMore DEF Stack, StackPlace
<1> HIDE DEF unused
<1>5. block # data /\ block # stack /\ data # stack
  <2>1. MemoryOK(k, {struct} \cup program \cup unused \cup {own})
    BY <1>4 DEF Grown
  <2>2. IsTable(k.entries, k.held) /\ {struct} \cup program \cup {own} \subseteq k.held
    BY <2>1 DEF MemoryOK, Owned
  <2>3. /\ struct.start = block /\ own.start = stack
        /\ \A h \in program : h.start = data
        /\ data # Null => program # {}
    <3> HIDE DEF block, data, stack
    <3>1. struct.start = block /\ own.start = stack
      BY DEF Region
    <3>2. \A z : \A h \in Copied(data, z) : h.start = data
      BY DEF Region, Copied
    <3>3. data # Null => program # {}
      BY DEF Copied
    <3> QED BY <3>1, <3>2, <3>3
  <2>4. Null \notin Blocks
    BY DEF Null, Blocks
  <2> HIDE DEF struct, program, own, block, data, stack
  <2>5. struct # own /\ struct \notin program /\ own \notin program
    BY <1>3, <1>4
  <2>6. block # stack
    BY <2>2, <2>3, <2>5, StartsDiffer
  <2>7. CASE data = Null
    BY <1>1, <1>4, <2>4, <2>6, <2>7
  <2>8. CASE data # Null
    <3>1. PICK h \in program : h.start = data
      BY <2>3, <2>8
    <3> QED BY <2>2, <2>3, <2>5, <2>6, <3>1, StartsDiffer
  <2> QED BY <2>7, <2>8
<1>6. ProcessOK(q) /\ q.alive /\ RegionsOf(q) = {struct} \cup program \cup {own}
  <2>1. /\ ProcessOK(q) /\ q.alive
        /\ RegionsOf(q) = {struct, own} \cup program
    <3> DEFINE z == image.file
               mapped == ImagePages(data, image) \cup Pages(stack, KernelSize)
    <3>1. block \in Blocks /\ data \in Pointers /\ stack \in Blocks /\ (data = Null => image.elf)
      BY <1>1, <1>3, <1>4
    <3> HIDE DEF block, data, stack
    <3>2. LET r == NewProcess(block, data, image.file, stack, mapped)
          IN  /\ ProcessOK(r) /\ r.alive
              /\ RegionsOf(r) = {Region(block, KernelSize), Region(stack, KernelSize)}
                                \cup Copied(data, image.file)
      BY ONLY NoWrap, image \in Images, <1>5, <3>1, NewIsProcess
    <3> QED BY <3>2
  <2> HIDE DEF q, struct, own, program
  <2> QED BY <2>1
<1> HIDE DEF struct, program, own, q, k
<1>7. MemoryOK(k, {struct} \cup program \cup unused \cup {own}) /\ k.proc = m.proc
  BY <1>4 DEF Grown
<1>8. k \in Memory /\ k.proc \in [Processes -> Process]
  BY <1>7 DEF MemoryOK, Memory
<1>9. MemoryOK(Moved(k, p, q, {}, unused), {})
  <2>1. RegionsOf(k.proc[p]) = {}
    BY <1>7 DEF RegionsOf, Used
  <2>2. RegionsOf(q) \cup {} \cup {} \cup unused
          = RegionsOf(k.proc[p]) \cup ({struct} \cup program \cup unused \cup {own})
    BY <1>6, <2>1
  <2>3. /\ RegionsOf(q) \cap ({} \cup {} \cup unused) = {}
        /\ {} \cap ({} \cup unused) = {} /\ {} \cap unused = {}
    BY <1>3, <1>4, <1>6
  <2> QED BY <1>6, <1>7, <2>2, <2>3, MovedIsOwned
<1>10. a = Moved(k, p, q, {}, unused)
  <2>1. a = [k EXCEPT !.abandoned = @ \cup unused, !.proc[p] = q]
    BY Zenon DEF LoadedFrom, NewProcess, k, q, unused, Region
  <2>2. Shaped(k)
    BY <1>8 DEF Memory, Shaped
  <2> HIDE DEF a
  <2> DEFINE g == [entries |-> k.entries, held |-> k.held, stray |-> k.stray, proc |-> k.proc,
                   lost |-> k.lost, abandoned |-> k.abandoned \cup unused]
  <2>3. [k EXCEPT !.abandoned = @ \cup unused] = g
    BY <2>2 DEF Shaped
  <2>4. [g EXCEPT !.proc[p] = q]
          = [entries |-> k.entries, held |-> k.held, stray |-> k.stray, proc |-> [k.proc EXCEPT ![p] = q],
             lost |-> k.lost, abandoned |-> k.abandoned \cup unused]
    <3>1. [g EXCEPT !.proc[p] = q] = [g EXCEPT !.proc = [k.proc EXCEPT ![p] = q]]
      OBVIOUS
    <3> DEFINE proc == [k.proc EXCEPT ![p] = q]
    <3>2. [g EXCEPT !.proc = proc]
            = [entries |-> k.entries, held |-> k.held, stray |-> k.stray, proc |-> proc,
               lost |-> k.lost, abandoned |-> k.abandoned \cup unused]
      <4> HIDE DEF proc
      <4> DEFINE ab == k.abandoned \cup unused
      <4> HIDE DEF ab
      <4>1. g = [entries |-> k.entries, held |-> k.held, stray |-> k.stray, proc |-> k.proc,
                 lost |-> k.lost, abandoned |-> ab]
        BY DEF g, ab
      <4> HIDE DEF g
      <4>2. [g EXCEPT !.proc = proc]
              = [entries |-> k.entries, held |-> k.held, stray |-> k.stray, proc |-> proc,
                 lost |-> k.lost, abandoned |-> ab]
        BY <4>1
      <4> QED BY <4>2 DEF ab
    <3> QED BY <3>1, <3>2
  <2> HIDE DEF g
  <2>5. a = [g EXCEPT !.proc[p] = q]
    BY <2>1, <2>3
  <2>6. k.lost \cup {} = k.lost
    OBVIOUS
  <2> QED BY <2>4, <2>5, <2>6 DEF Moved
<1>11. a.proc[p] = q
  <2> HIDE DEF a
  <2> QED BY <1>8, <1>10 DEF Moved
<1> HIDE DEF a
<1> QED BY <1>6, <1>9, <1>10, <1>11 DEF a

(* The two allocations of process_inject_arguments are allocations like    *)
(* any other (process.c:241).                                              *)
LEMMA ArgumentsAreOwned ==
  ASSUME NoWrap, NEW m, MemoryOK(m, {}), NEW p \in Processes, m.proc[p].alive
  PROVE  MemoryOK(process_inject_arguments(m, p), {})
<1> DEFINE a == process_malloc(m, p, KernelSize)
<1>1. KernelSize \in Requests
  BY DEF Requests
<1>2. MemoryOK(a, {}) /\ a.proc[p].alive
  BY <1>1, ProcessMallocIsOwned
<1> HIDE DEF a
<1>3. MemoryOK(process_malloc(a, p, KernelSize), {})
  BY <1>1, <1>2, ProcessMallocIsOwned
<1> QED BY <1>3 DEF process_inject_arguments, a

-----------------------------------------------------------------------------
(* The specification. *)

MemoryInv == MemoryOK(mem, {})

(* At first the heap is empty and there is no process.                     *)
LEMMA InitIsOwned == Init => MemoryInv
<1> SUFFICES ASSUME Init PROVE MemoryInv
  OBVIOUS
<1>1. /\ mem.entries = [b \in Blocks |-> FreeEntry] /\ mem.held = {} /\ mem.stray = {}
      /\ mem.proc = [p \in Processes |-> NoProcess] /\ mem.lost = {} /\ mem.abandoned = {}
      /\ Shaped(mem)
  BY DEF Init, Shaped
<1>2. ProcessOK(NoProcess) /\ RegionsOf(NoProcess) = {}
  <2>1. Empty \in [ptr : Pointers, size : Requests \cup {0}]
    BY DEF Empty, Pointers
  <2>2. NoProcess \in Process /\ NoProcess.alive = FALSE
    BY <2>1 DEF NoProcess, Process, Pointers
  <2> QED BY <2>2 DEF ProcessOK, RegionsOf, Used
<1>3. \A p \in Processes : mem.proc[p] = NoProcess
  BY <1>1
<1>4. IsTable(mem.entries, mem.held)
  BY <1>1, FreshTable
<1>5. mem \in Memory
  <2>1. mem.entries \in [Blocks -> Entry]
    BY <1>4 DEF IsTable
  <2>2. mem.proc \in [Processes -> Process]
    BY <1>1, <1>2 DEF ProcessOK
  <2>3. /\ mem.held \in SUBSET Allocation /\ mem.stray \in SUBSET (Int \ Blocks)
        /\ mem.lost \in SUBSET Allocation /\ mem.abandoned \in SUBSET Allocation
    BY <1>1
  <2> QED BY <1>1, <2>1, <2>2, <2>3 DEF Shaped, Memory
<1>6. Owned(mem, {})
  BY <1>1, <1>2, <1>3 DEF Owned
<1>7. \A p \in Processes : ProcessOK(mem.proc[p])
  BY <1>2, <1>3
<1> QED BY <1>4, <1>5, <1>6, <1>7 DEF MemoryInv, MemoryOK

(* Every step keeps the ownership right.                                   *)
LEMMA NextIsOwned ==
  ASSUME NoWrap, MemoryInv, [Next]_mem
  PROVE  MemoryInv'
<1>0. MemoryOK(mem, {})
  BY DEF MemoryInv
<1> SUFFICES MemoryOK(mem', {})
  BY DEF MemoryInv, MemoryOK, Owned, ProcessOK, Memory, IsTable, NoBss
<1>1. ASSUME NEW p \in Processes, NEW image \in Images, Load(p, image)
      PROVE  MemoryOK(mem', {})
  <2> DEFINE a == LoadedFrom(mem, p, image)
  <2>1. MemoryOK(a, {}) /\ a.proc[p].alive
    BY <1>0, <1>1, LoadedIsOwned DEF Load
  <2>2. mem' = a \/ mem' = process_inject_arguments(a, p)
    BY <1>1 DEF Load
  <2> HIDE DEF a
  <2> QED BY <2>1, <2>2, ArgumentsAreOwned
<1>2. ASSUME NEW p \in Processes, NEW image \in Images, LoadFails(p, image)
      PROVE  MemoryOK(mem', {})
  BY <1>0, <1>2, LoadFailsIsOwned
<1>3. ASSUME NEW p \in Processes, NEW size \in Sizes, Malloc(p, size)
      PROVE  MemoryOK(mem', {})
  <2>1. size \in Requests
    BY DEF Requests
  <2> QED BY <1>0, <1>3, <2>1, ProcessMallocIsOwned DEF Malloc
<1>4. ASSUME NEW p \in Processes, NEW ptr \in Blocks \cup {Null}, Free(p, ptr)
      PROVE  MemoryOK(mem', {})
  <2>1. ptr \in Pointers
    BY DEF Pointers
  <2> QED BY <1>0, <1>4, <2>1, ProcessFreeIsOwned DEF Free
<1>5. ASSUME NEW p \in Processes, Exit(p)
      PROVE  MemoryOK(mem', {})
  BY <1>0, <1>5, TerminateIsOwned DEF Exit
<1>6. CASE UNCHANGED mem
  BY <1>0, <1>6
<1> QED BY <1>1, <1>2, <1>3, <1>4, <1>5, <1>6 DEF Next

(* Whatever the processes load, allocate and free, and in whatever order   *)
(* they end, the heap holds what somebody refers to exactly once, what was *)
(* lost and what was abandoned, and nothing else (task/process.c).         *)
THEOREM MemorySafety == ASSUME NoWrap PROVE Spec => []MemoryInv
<1>1. Init => MemoryInv
  BY InitIsOwned
<1>2. MemoryInv /\ [Next]_mem => MemoryInv'
  BY NextIsOwned
<1> QED BY <1>1, <1>2, PTL DEF Spec

(* The type invariant: every pointer a process keeps is null or that of a  *)
(* block of the pool, and what it can write are pages (task.h:32-33).      *)
THEOREM MemoryTypeOK == ASSUME NoWrap PROVE Spec => []TypeOK
<1>1. MemoryInv => TypeOK
  <2> SUFFICES ASSUME MemoryInv PROVE TypeOK
    OBVIOUS
  <2>1. mem \in Memory
    BY DEF MemoryInv, MemoryOK
  <2>2. /\ mem.entries \in [Blocks -> Entry] /\ mem.held \subseteq Allocation
        /\ mem.stray \subseteq Int \ Blocks /\ mem.lost \subseteq Allocation
        /\ mem.abandoned \subseteq Allocation /\ mem.proc \in [Processes -> Process]
    BY <2>1 DEF Memory
  <2>3. ASSUME NEW q \in Process
        PROVE  /\ q.alive \in BOOLEAN /\ {q.struct, q.image, q.stack} \subseteq Blocks \cup {Null}
               /\ \A i \in Indexes : q.allocations[i].ptr \in Blocks \cup {Null}
               /\ q.writable \subseteq LowMemory \cup Nat
    <3>1. /\ q.alive \in BOOLEAN /\ q.struct \in Pointers /\ q.image \in Pointers /\ q.stack \in Pointers
          /\ q.allocations \in [Indexes -> [ptr : Pointers, size : Requests \cup {0}]]
          /\ q.writable \in SUBSET (LowMemory \cup Nat)
      BY DEF Process
    <3>2. \A i \in Indexes : q.allocations[i] \in [ptr : Pointers, size : Requests \cup {0}]
      BY <3>1
    <3> QED BY <3>1, <3>2 DEF Pointers
  <2> QED BY <2>2, <2>3 DEF TypeOK
<1> QED BY <1>1, MemorySafety, PTL

(* The callers of the heap never break it: no two regions overlap, and the *)
(* table marks those that are held (process.c:300, heap.c:159).            *)
THEOREM MemoryHeapSound == ASSUME NoWrap PROVE Spec => []HeapSound
<1>1. MemoryInv => HeapSound
  BY DEF MemoryInv, MemoryOK, IsTable, HeapSound
<1> QED BY <1>1, MemorySafety, PTL

(* The regions of a process in the terms of the properties.                *)
LEMMA OwnedByProcess ==
  ASSUME NoWrap, MemoryInv, NEW p \in Alive
  PROVE  /\ p \in Processes /\ ProcessOK(mem.proc[p]) /\ mem.proc[p].alive
         /\ Program(p) = {At(mem.proc[p], r) : r \in Fields(mem.proc[p])}
         /\ Requested(p) = {At(mem.proc[p], i) : i \in {j \in Indexes : mem.proc[p].allocations[j] # Empty}}
         /\ Program(p) \cup Requested(p) = RegionsOf(mem.proc[p])
         /\ Program(p) \cap Requested(p) = {}
<1> DEFINE q == mem.proc[p]
           used == {j \in Indexes : q.allocations[j] # Empty}
<1>1. p \in Processes /\ ProcessOK(q) /\ q.alive
  BY DEF Alive, MemoryInv, MemoryOK
<1>2. Program(p) = {At(q, r) : r \in Fields(q)}
  <2>1. /\ At(q, 0) = Region(q.struct, KernelSize) /\ At(q, -1) = Region(q.image, q.file)
        /\ At(q, -2) = Region(q.stack, KernelSize)
    BY DEF At
  <2>2. Program(p) = {Region(q.struct, KernelSize), Region(q.stack, KernelSize)}
                     \cup (IF q.image = Null THEN {} ELSE {Region(q.image, q.file)})
    BY DEF Program
  <2> HIDE DEF q
  <2>3. CASE q.image = Null
    BY <2>1, <2>2, <2>3 DEF Fields
  <2>4. CASE q.image # Null
    BY <2>1, <2>2, <2>4 DEF Fields
  <2> QED BY <2>3, <2>4
<1>3. \A i \in Indexes : At(q, i) = Region(q.allocations[i].ptr, q.allocations[i].size)
  BY <1>1, AliveFacts
<1>4. Allocations(p) = {q.allocations[j] : j \in used}
  BY DEF Allocations
<1>5. Requested(p) = {At(q, i) : i \in used}
  <2>1. Requested(p) = {Region(q.allocations[i].ptr, q.allocations[i].size) : i \in used}
    BY <1>4 DEF Requested
  <2> HIDE DEF q
  <2> QED BY <1>3, <2>1
<1>6. Used(q) = Fields(q) \cup used /\ RefersOnce(q)
  BY <1>1, AliveFacts DEF ProcessOK
<1>7. \A i \in used : i \notin Fields(q)
  BY AllocationsAssumption DEF Indexes, Fields
<1> HIDE DEF q, used
<1>8. Program(p) \cup Requested(p) = RegionsOf(q)
  BY <1>2, <1>5, <1>6 DEF RegionsOf
<1>9. Program(p) \cap Requested(p) = {}
  BY <1>2, <1>5, <1>6, <1>7 DEF RefersOnce
<1> QED BY <1>1, <1>2, <1>5, <1>8, <1>9 DEF q, used

(* Every region taken from the heap has one owner, or is among what is     *)
(* lost for good: nothing is freed twice, and nothing freed is still       *)
(* referred to (process.c:69-80, :124-131, :191-213).                      *)
THEOREM MemoryAccountedFor == ASSUME NoWrap PROVE Spec => []AccountedFor
<1>1. ASSUME MemoryInv PROVE AccountedFor
  <2> DEFINE Own(p) == Program(p) \cup Requested(p)
             owned == UNION {Own(p) : p \in Alive}
  <2>1. \A p \in Alive : p \in Processes /\ Own(p) = RegionsOf(mem.proc[p]) /\ Program(p) \cap Requested(p) = {}
    BY <1>1, OwnedByProcess
  <2>2. \A p \in Processes : p \notin Alive => RegionsOf(mem.proc[p]) = {}
    BY DEF Alive, RegionsOf, Used
  <2>3. Owned(mem, {})
    BY <1>1 DEF MemoryInv, MemoryOK
  <2> HIDE DEF Own
  <2>4. \A h : h \in owned <=> \E p \in Processes : h \in RegionsOf(mem.proc[p])
    BY <2>1, <2>2 DEF Alive
  <2> HIDE DEF owned
  <2>5. mem.held = owned \cup mem.lost \cup mem.abandoned
    BY <2>3, <2>4 DEF Owned
  <2>6. mem.lost \cap mem.abandoned = {} /\ owned \cap (mem.lost \cup mem.abandoned) = {}
    BY <2>3, <2>4 DEF Owned
  <2>7. ASSUME NEW p \in Alive, NEW q \in Alive, p # q
        PROVE  Own(p) \cap Own(q) = {}
    BY <2>1, <2>3, <2>7 DEF Owned
  <2>8. ASSUME NEW p \in Alive, NEW q \in Alive
        PROVE  Program(p) \cap Requested(q) = {}
    <3>1. CASE p = q
      BY <2>1, <3>1
    <3>2. CASE p # q
      BY <2>7, <3>2 DEF Own
    <3> QED BY <3>1, <3>2
  <2>9. ASSUME NEW p \in Alive, NEW i \in Indexes, NEW j \in Indexes,
               i # j, mem.proc[p].allocations[i] # Empty
        PROVE  mem.proc[p].allocations[i].ptr # mem.proc[p].allocations[j].ptr
    <3> DEFINE q == mem.proc[p]
    <3>1. p \in Processes /\ ProcessOK(q) /\ q.alive /\ MemoryOK(mem, {})
      BY <1>1, OwnedByProcess DEF MemoryInv
    <3>2. /\ Used(q) = Fields(q) \cup {k \in Indexes : q.allocations[k] # Empty}
          /\ \A k \in Indexes : q.allocations[k] = Empty <=> q.allocations[k].ptr = Null
          /\ \A k \in Indexes : At(q, k) = Region(q.allocations[k].ptr, q.allocations[k].size)
      BY <3>1, AliveFacts
    <3>3. CASE q.allocations[j] = Empty
      BY <2>9, <3>2, <3>3
    <3>4. CASE q.allocations[j] # Empty
      <4>1. i \in Used(q) /\ j \in Used(q)
        BY <2>9, <3>2, <3>4
      <4>2. At(q, i).start # At(q, j).start
        BY <2>9, <3>1, <4>1, PagesApart
      <4>3. At(q, i).start = q.allocations[i].ptr /\ At(q, j).start = q.allocations[j].ptr
        <5> HIDE DEF q
        <5> QED BY <3>2 DEF Region
      <4> QED BY <4>2, <4>3
    <3> QED BY <3>3, <3>4
  <2> QED BY <2>5, <2>6, <2>7, <2>8, <2>9, Zenon DEF AccountedFor, owned, Own
<1>2. MemoryInv => AccountedFor
  BY <1>1
<1> QED BY <1>2, MemorySafety, PTL

(* A process can write every page of what it allocated and did not free:   *)
(* freeing one allocation takes no page of another (process.c:100-121).    *)
THEOREM MemoryKeepsAccess == ASSUME NoWrap PROVE Spec => []KeepsAccess
<1>1. ASSUME MemoryInv PROVE KeepsAccess
  <2> SUFFICES ASSUME NEW p \in Alive, NEW h \in Requested(p)
               PROVE  Pages(h.start, h.size) \subseteq mem.proc[p].writable
    BY DEF KeepsAccess, RegionsPages
  <2>1. ProcessOK(mem.proc[p]) /\ mem.proc[p].alive
        /\ Requested(p) = {At(mem.proc[p], i) : i \in {j \in Indexes : mem.proc[p].allocations[j] # Empty}}
    BY <1>1, OwnedByProcess
  <2>2. PICK i \in Indexes : mem.proc[p].allocations[i] # Empty /\ h = At(mem.proc[p], i)
    BY <2>1
  <2> QED BY <2>1, <2>2 DEF ProcessOK, MapsRequested, PagesOf
<1>2. MemoryInv => KeepsAccess
  BY <1>1
<1> QED BY <1>2, MemorySafety, PTL

(* When no program has more memory than its file, a process can write      *)
(* nothing but its program, its stack and what it allocated and did not    *)
(* free: no page of another process or of the kernel (task.h:32-33).  An   *)
(* image that found no memory is at address 0, in low memory below the     *)
(* heap's table (elfloader.c:246).                                         *)
THEOREM MemoryIsolation == ASSUME NoWrap, NoBss PROVE Spec => []Isolation
<1>1. ASSUME MemoryInv, NEW p \in Alive, NEW g \in mem.proc[p].writable
      PROVE  \/ \E h \in (Program(p) \cup Requested(p)) \ {Region(mem.proc[p].struct, KernelSize)} :
                  g \in Pages(h.start, h.size)
             \/ mem.proc[p].image = Null /\ g \in LowMemory
  <2> DEFINE q == mem.proc[p]
  <2>1. ProcessOK(q) /\ q.alive /\ Program(p) \cup Requested(p) = RegionsOf(q)
    BY <1>1, OwnedByProcess
  <2>2. \/ \E r \in Used(q) \ {0} : g \in PagesOf(At(q, r))
        \/ q.image = Null /\ g \in LowMemory
    BY <1>1, <2>1 DEF ProcessOK, MapsItsOwn
  <2>3. ASSUME NEW r \in Used(q) \ {0}
        PROVE  At(q, r) \in RegionsOf(q) /\ At(q, r) # At(q, 0)
    BY <2>1, AliveFacts DEF RegionsOf, ProcessOK, RefersOnce
  <2>4. At(q, 0) = Region(q.struct, KernelSize)
    BY DEF At
  <2> QED BY <2>1, <2>2, <2>3, <2>4 DEF PagesOf
<1>2. ASSUME MemoryInv, NEW p \in Alive
      PROVE  mem.proc[p].writable
               \subseteq RegionsPages((Program(p) \cup Requested(p)) \ {Region(mem.proc[p].struct, KernelSize)})
                         \cup (IF mem.proc[p].image = Null THEN LowMemory ELSE {})
  BY <1>1, <1>2 DEF RegionsPages
<1>3. MemoryInv => Isolation
  BY <1>2 DEF Isolation
<1> QED BY <1>3, MemorySafety, PTL
==============================================================================
