------------------------- MODULE AddressSpaceProofs --------------------------
(***************************************************************************)
(* The address spaces for any number of processes and any size of tables,  *)
(* pages, heap and programs.                                               *)
(*                                                                         *)
(* The invariant speaks of a state s between two functions of a handler.   *)
(* In such a state the functions that only look at a program's memory give *)
(* s back, so a handler is what it allocates, maps and frees.              *)
(***************************************************************************)
EXTENDS AddressSpace, Numbers

Entry == [frame : Int, flags : {0, ReadOnly, Writeable}]

Directory == [Indexes -> [Indexes -> Entry]]

Ends == [virtual_base : Int, physical_base : Int, virtual_end : Int, physical_end : Int]

Process ==
  [alive : BOOLEAN, file : Files \cup {NoFile}, image : Int, stack : Int, task : Int, ends : Ends,
   allocations : SUBSET [ptr : Nat, size : Nat \ {0}]]

State ==
  [tables : [Processes -> Directory], cr3 : Processes \cup {Kernel}, current : Processes \cup {Null},
   proc : [Processes -> Process], taken : SUBSET Heap, faulted : BOOLEAN, strayed : BOOLEAN,
   loads : Nat]

(* The frames that memory of some size takes, and those of a process: what *)
(* it was loaded with, and what it allocated.  Those of an image at        *)
(* address 0 are nobody's.                                                 *)
Region(frame, size) == frame .. frame + FramesFor(size) - 1

Requested(a) == Region(PageOf(a.ptr), a.size)

Copy(q) == IF q.image = 0 THEN {} ELSE Region(q.image, q.file.size)

Fixed(q) == Copy(q) \cup Region(q.stack, StackSize) \cup {q.task}

Own(q) == Fixed(q) \cup UNION {Requested(a) : a \in q.allocations}

(* They do not overlap, and an image at address 0 is that of an ELF file.  *)
OwnsApart(q) ==
  /\ q.image \in Nat /\ (q.image = 0 => elf_validate_loaded(q.file))
  /\ q.task \notin Copy(q) \cup Region(q.stack, StackSize)
  /\ \A a \in q.allocations : Aligned(a.ptr) /\ Requested(a) \cap Fixed(q) = {}
  /\ \A a, b \in q.allocations : a # b => Requested(a) \cap Requested(b) = {}

(* The tables d of a process: its memory is where it should be, nothing    *)
(* else can be written, and the kernel finds itself and the task.          *)
EntryOf(m) == [frame |-> m.frame, flags |-> IF m.write THEN Writeable ELSE ReadOnly]

Shows(d, q) == \A m \in Memory(q) : paging_get(d, m.page) = EntryOf(m)

WritesOwn(d, q) ==
  \A page \in Pages : IsWriteable(paging_get(d, page).flags) => \E m \in Memory(q) : m.page = page /\ m.write

KernelInPlace(d, q) == \A page \in KernelPages \cup {q.task} : InPlace(d, page)

EndsOf(q) ==
  IF elf_validate_loaded(q.file) THEN elf_process_pheaders(q.file, q.image * PageSize) ELSE NoEnds

(* A process that is loaded, with its tables, some frames being taken.     *)
ProcessOK(q, d, taken) ==
  /\ q \in Process /\ d \in Directory /\ q.file \in Files
  /\ Own(q) \subseteq taken /\ OwnsApart(q)
  /\ Shows(d, q) /\ WritesOwn(d, q) /\ KernelInPlace(d, q)
  /\ q.ends = EndsOf(q)

(* Every process that is loaded, and no frame of two.                      *)
AddressOK(s) ==
  /\ s \in State /\ ~ s.faulted /\ ~ s.strayed
  /\ \A p \in Processes : s.proc[p].alive => ProcessOK(s.proc[p], s.tables[p], s.taken)
  /\ \A p, q \in Processes : p # q /\ s.proc[p].alive /\ s.proc[q].alive
                               => Own(s.proc[p]) \cap Own(s.proc[q]) = {}

(* Between handlers the current program is one that is loaded, and the     *)
(* processor uses its tables.                                              *)
AddressInv ==
  AddressOK(os) /\ os.current \in Processes /\ os.proc[os.current].alive /\ os.cr3 = os.current

-----------------------------------------------------------------------------
(* Addresses and pages                                                     *)

(* An address is a page and a place in it.                                 *)
LEMMA PageFacts ==
  ASSUME NEW a \in Int
  PROVE  /\ PageOf(a) \in Int /\ a % PageSize \in 0 .. PageSize - 1
         /\ a = PageSize * PageOf(a) + (a % PageSize)
         /\ a \in Nat => PageOf(a) \in Nat
<1> DEFINE b == PageSize
<1>1. b \in Nat \ {0}
  BY LayoutAssumption
<1> HIDE DEF b
<1>2. a \div b \in Int /\ a % b \in 0 .. b - 1 /\ a = b * (a \div b) + (a % b)
  BY <1>1
<1>3. a \in Nat => a \div b \in Nat
  BY <1>1, <1>2
<1> QED BY <1>2, <1>3 DEF PageOf, b

(* The only one.                                                           *)
LEMMA PageIs ==
  ASSUME NEW k \in Int, NEW r \in 0 .. PageSize - 1
  PROVE  PageOf(PageSize * k + r) = k /\ (PageSize * k + r) % PageSize = r
<1> DEFINE a == PageSize * k + r
           q == PageOf(a)
           b == PageSize
<1>1. b \in Nat \ {0}
  BY LayoutAssumption
<1>2. a \in Int
  BY <1>1
<1>3. q \in Int /\ a % b \in 0 .. b - 1 /\ a = b * q + (a % b)
  BY <1>2, PageFacts
<1> DEFINE x == a % b
<1>4. b * q + x = b * k + r /\ x \in 0 .. b - 1 /\ r \in 0 .. b - 1
  BY <1>3
<1> HIDE DEF q, x, b, a
<1>5. ~ q < k
  <2> SUFFICES ASSUME q + 1 <= k PROVE FALSE
    BY <1>3
  <2>1. b * (q + 1) <= b * k /\ b * (q + 1) = b * q + b
    BY <1>1, <1>3
  <2> QED BY <1>1, <1>3, <1>4, <2>1
<1>6. ~ k < q
  <2> SUFFICES ASSUME k + 1 <= q PROVE FALSE
    BY <1>3
  <2>1. b * (k + 1) <= b * q /\ b * (k + 1) = b * k + b
    BY <1>1, <1>3
  <2> QED BY <1>1, <1>3, <1>4, <2>1
<1>7. q = k
  BY <1>3, <1>5, <1>6
<1>8. x = r
  BY <1>1, <1>3, <1>4, <1>7
<1> QED BY <1>7, <1>8 DEF q, x, b, a

(* The first address of a page.                                            *)
LEMMA PageStart ==
  ASSUME NEW k \in Int
  PROVE  k * PageSize \in Int /\ PageOf(k * PageSize) = k /\ Aligned(k * PageSize)
<1>1. PageSize \in Nat \ {0} /\ k * PageSize = PageSize * k + 0 /\ 0 \in 0 .. PageSize - 1
  BY LayoutAssumption
<1>2. PageOf(PageSize * k + 0) = k /\ (PageSize * k + 0) % PageSize = 0
  BY <1>1, PageIs
<1>3. k * PageSize \in Int
  BY <1>1
<1> QED BY <1>1, <1>2, <1>3 DEF Aligned

(* Pages follow each other as addresses do.                                *)
LEMMA PageOrder ==
  ASSUME NEW a \in Int, NEW b \in Int, a <= b
  PROVE  PageOf(a) <= PageOf(b)
<1> DEFINE x == PageOf(a)
           y == PageOf(b)
<1>1. PageSize \in Nat \ {0}
  BY LayoutAssumption
<1>2. /\ x \in Int /\ y \in Int /\ a >= PageSize * x /\ b < PageSize * y + PageSize
  <2> DEFINE r == a % PageSize
             s == b % PageSize
  <2>1. /\ x \in Int /\ y \in Int /\ a = PageSize * x + r /\ b = PageSize * y + s
        /\ r \in 0 .. PageSize - 1 /\ s \in 0 .. PageSize - 1
    BY PageFacts
  <2> HIDE DEF x, y, r, s
  <2> QED BY <1>1, <2>1
<1> HIDE DEF x, y
<1>3. SUFFICES ASSUME y + 1 <= x PROVE FALSE
  BY <1>2 DEF x, y
<1>4. PageSize * (y + 1) <= PageSize * x /\ PageSize * (y + 1) = PageSize * y + PageSize
  BY <1>1, <1>2, <1>3
<1> QED BY <1>1, <1>2, <1>4

(* Whole pages further.                                                    *)
LEMMA PageShift ==
  ASSUME NEW a \in Int, NEW k \in Int
  PROVE  PageOf(a + k * PageSize) = PageOf(a) + k /\ (a + k * PageSize) % PageSize = a % PageSize
<1>1. PageSize \in Nat \ {0}
  BY LayoutAssumption
<1>2. PageOf(a) \in Int /\ a % PageSize \in 0 .. PageSize - 1 /\ a = PageSize * PageOf(a) + (a % PageSize)
  BY PageFacts
<1> DEFINE x == PageOf(a)
           r == a % PageSize
<1>3. a + k * PageSize = PageSize * (x + k) + r
  <2> HIDE DEF x, r
  <2>1. x \in Int /\ r \in Int /\ a = PageSize * x + r
    BY <1>1, <1>2 DEF x, r
  <2>2. PageSize * (x + k) = PageSize * x + PageSize * k /\ PageSize * k = k * PageSize
    BY <1>1, <2>1
  <2> QED BY <1>1, <2>1, <2>2
<1> HIDE DEF x, r
<1>4. x + k \in Int /\ r \in 0 .. PageSize - 1
  BY <1>2 DEF x, r
<1>5. PageOf(PageSize * (x + k) + r) = x + k /\ (PageSize * (x + k) + r) % PageSize = r
  BY <1>4, PageIs
<1> QED BY <1>3, <1>5 DEF x, r

(* An address aligned upwards, and how many pages hold some bytes          *)
(* (paging.c:134, heap.c:195).                                             *)
LEMMA AlignedUp ==
  ASSUME NEW a \in Nat, NEW n \in Nat \ {0}
  PROVE  /\ paging_align_address(a + n) = (PageOf(a + n - 1) + 1) * PageSize
         /\ PageOf(a + n - 1) \in Nat /\ PageOf(a) <= PageOf(a + n - 1)
         /\ FramesFor(n) = PageOf(n - 1) + 1 /\ FramesFor(n) \in Nat \ {0}
<1>1. PageSize \in Nat \ {0}
  BY LayoutAssumption
<1>2. ASSUME NEW c \in Nat
      PROVE  paging_align_address(c + 1) = (PageOf(c) + 1) * PageSize
  <2>1. PageOf(c + 1 * PageSize) = PageOf(c) + 1
    BY PageShift
  <2>2. c + 1 * PageSize = (c + 1) + PageSize - 1
    BY <1>1
  <2> QED BY <2>1, <2>2 DEF paging_align_address, PageOf
<1>3. a + n - 1 \in Nat /\ n - 1 \in Nat /\ (a + n - 1) + 1 = a + n /\ (n - 1) + 1 = n /\ a <= a + n - 1
  OBVIOUS
<1>4. PageOf(a + n - 1) \in Nat /\ PageOf(a) <= PageOf(a + n - 1) /\ PageOf(n - 1) \in Nat
  BY <1>3, PageFacts, PageOrder
<1>5. paging_align_address(n) = (PageOf(n - 1) + 1) * PageSize
  BY <1>2, <1>3
<1>6. FramesFor(n) = PageOf(n - 1) + 1
  BY <1>4, <1>5, PageStart DEF FramesFor
<1>7. paging_align_address(a + n) = (PageOf(a + n - 1) + 1) * PageSize
  BY <1>2, <1>3
<1> QED BY <1>4, <1>6, <1>7

(* The pages of some bytes follow each other.                              *)
LEMMA PagesAre ==
  ASSUME NEW a \in Nat, NEW n \in Nat \ {0}
  PROVE  PagesOf(a, n) = PageOf(a) .. PageOf(a + n - 1)
<1> DEFINE last == a + n - 1
<1>1. PageSize \in Nat \ {0} /\ last \in Nat /\ a <= last
  BY LayoutAssumption
<1>2. PageOf(a) \in Nat /\ PageOf(last) \in Nat
  BY <1>1, PageFacts
<1>3. ASSUME NEW x \in a .. last PROVE PageOf(x) \in PageOf(a) .. PageOf(last)
  <2>1. x \in Nat /\ a <= x /\ x <= last
    BY <1>1
  <2>2. PageOf(x) \in Nat /\ PageOf(a) <= PageOf(x) /\ PageOf(x) <= PageOf(last)
    BY <1>1, <2>1, PageFacts, PageOrder
  <2> QED BY <1>2, <2>2
<1>4. ASSUME NEW k \in PageOf(a) .. PageOf(last) PROVE \E x \in a .. last : PageOf(x) = k
  <2>1. CASE k = PageOf(a)
    BY <1>1, <2>1
  <2>2. CASE k # PageOf(a)
    <3>1. k \in Nat /\ PageOf(a) + 1 <= k /\ k <= PageOf(last)
      BY <1>2, <2>2
    <3>2. k * PageSize \in Int /\ PageOf(k * PageSize) = k
      BY <3>1, PageStart
    <3>3. a <= k * PageSize
      BY <1>1, <3>1, <3>2, <1>2, PageOrder
    <3>4. k * PageSize <= last
      <4>1. last >= PageSize * PageOf(last)
        <5> DEFINE z == PageOf(last)
                   r == last % PageSize
        <5>1. last = PageSize * z + r /\ r \in 0 .. PageSize - 1 /\ z \in Int
          BY <1>1, PageFacts
        <5> HIDE DEF z, r
        <5> QED BY <1>1, <5>1 DEF z
      <4> DEFINE y == PageOf(last)
      <4> HIDE DEF y, last
      <4>2. PageSize * k <= PageSize * y /\ PageSize * k = k * PageSize
        BY <1>1, <1>2, <3>1 DEF y
      <4> QED BY <1>1, <1>2, <3>2, <4>1, <4>2 DEF y
    <3> QED BY <3>2, <3>3, <3>4
  <2> QED BY <2>1, <2>2
<1> HIDE DEF last
<1>5. PagesOf(a, n) = {PageOf(x) : x \in a .. last}
  BY DEF PagesOf, last
<1> QED BY <1>3, <1>4, <1>5 DEF last

(* The pages of memory that begins with a page are the frames it takes.    *)
LEMMA PagesFromStart ==
  ASSUME NEW f \in Nat, NEW n \in Nat \ {0}
  PROVE  /\ PagesOf(f * PageSize, n) = Region(f, n)
         /\ paging_align_address(f * PageSize + n) = (f + FramesFor(n)) * PageSize
<1> DEFINE a == f * PageSize
<1>1. PageSize \in Nat \ {0} /\ a \in Nat
  BY LayoutAssumption
<1>2. PageOf(a) = f
  BY PageStart
<1>3. PageOf(a + n - 1) = f + PageOf(n - 1)
  <2>1. a + n - 1 = (n - 1) + f * PageSize
    BY <1>1
  <2>2. PageOf(n - 1) \in Nat
    BY PageFacts
  <2> QED BY <2>1, <2>2, PageShift
<1>4. FramesFor(n) = PageOf(n - 1) + 1 /\ PageOf(n - 1) \in Nat
  BY AlignedUp, PageFacts
<1> HIDE DEF a
<1>5. paging_align_address(a + n) = (PageOf(a + n - 1) + 1) * PageSize
  BY <1>1, AlignedUp
<1>6. PagesOf(a, n) = f .. f + PageOf(n - 1)
  BY <1>1, <1>2, <1>3, PagesAre
<1> QED BY <1>3, <1>4, <1>5, <1>6 DEF a, Region

-----------------------------------------------------------------------------
(* The tables                                                              *)

(* A page is one entry of one table (paging.c:78-119).                     *)
LEMMA IndexFacts ==
  ASSUME NEW g \in Pages
  PROVE  /\ g \in Nat /\ g \div Entries \in Indexes /\ g % Entries \in Indexes
         /\ g = (g \div Entries) * Entries + (g % Entries)
<1> DEFINE n == Entries
           x == g \div n
<1>1. n \in Nat \ {0} /\ g \in Nat /\ g <= n * n - 1
  BY LayoutAssumption DEF Pages
<1>2. x \in Nat /\ g % n \in 0 .. n - 1 /\ g = n * x + (g % n)
  <2> HIDE DEF n
  <2> QED BY <1>1
<1>3. n * x = x * n
  BY <1>1, <1>2
<1>4. x <= n - 1
  <2> DEFINE r == g % n
  <2> HIDE DEF x, n
  <2>1. g = n * x + r /\ r \in Nat
    BY <1>1, <1>2
  <2> HIDE DEF r
  <2> SUFFICES ASSUME n <= x PROVE FALSE
    BY <1>1, <1>2
  <2>2. n * n <= n * x
    BY <1>1, <1>2
  <2> QED BY <1>1, <1>2, <2>1, <2>2
<1> QED BY <1>1, <1>2, <1>3, <1>4 DEF Indexes

(* Setting the entry of one page leaves the others (paging.c:96-119).      *)
LEMMA SetFacts ==
  ASSUME NEW d \in Directory, NEW g \in Pages, NEW e \in Entry
  PROVE  /\ paging_set(d, g, e) \in Directory
         /\ \A page \in Pages : paging_get(paging_set(d, g, e), page) = IF page = g THEN e ELSE paging_get(d, page)
<1>1. paging_set(d, g, e) \in Directory
  BY IndexFacts DEF paging_set, Directory
<1>2. ASSUME NEW page \in Pages
      PROVE  paging_get(paging_set(d, g, e), page) = IF page = g THEN e ELSE paging_get(d, page)
  <2> DEFINE x == g \div Entries
             y == g % Entries
             v == page \div Entries
             w == page % Entries
  <2>1. x \in Indexes /\ y \in Indexes /\ v \in Indexes /\ w \in Indexes
        /\ (v = x /\ w = y => page = g)
    BY IndexFacts
  <2>2. page = g => v = x /\ w = y
    OBVIOUS
  <2> HIDE DEF x, y, v, w
  <2>3. [d EXCEPT ![x][y] = e][v][w] = IF v = x /\ w = y THEN e ELSE d[v][w]
    BY <2>1 DEF Directory
  <2>4. [d EXCEPT ![x][y] = e][v][w] = IF page = g THEN e ELSE d[v][w]
    BY <2>1, <2>2, <2>3
  <2> QED BY <2>4 DEF paging_get, paging_set, x, y, v, w
<1> QED BY <1>1, <1>2

(* In new tables every page is in its place (paging.c:11).                 *)
LEMMA NewFacts ==
  ASSUME NEW flags \in {0, ReadOnly, Writeable}
  PROVE  /\ paging_new_4gb(flags) \in Directory
         /\ \A page \in Pages : paging_get(paging_new_4gb(flags), page) = [frame |-> page, flags |-> flags]
<1>1. ASSUME NEW x \in Indexes, NEW y \in Indexes PROVE x * Entries + y \in Int
  BY LayoutAssumption DEF Indexes
<1>2. paging_new_4gb(flags) \in Directory
  BY <1>1 DEF paging_new_4gb, Directory, Entry
<1>3. ASSUME NEW page \in Pages
      PROVE  paging_get(paging_new_4gb(flags), page) = [frame |-> page, flags |-> flags]
  <2> DEFINE x == page \div Entries
             y == page % Entries
  <2>1. x \in Indexes /\ y \in Indexes /\ x * Entries + y = page
    BY IndexFacts
  <2> HIDE DEF x, y
  <2>2. paging_new_4gb(flags)[x][y] = [frame |-> page, flags |-> flags]
    BY <2>1 DEF paging_new_4gb
  <2> QED BY <2>2 DEF paging_get, x, y
<1> QED BY <1>2, <1>3

(* What stands in a table for a page is an entry.                          *)
LEMMA GetFacts ==
  ASSUME NEW d \in Directory, NEW page \in Pages
  PROVE  paging_get(d, page) \in Entry
BY IndexFacts DEF paging_get, Directory

(* What the flags say.                                                     *)
LEMMA FlagFacts ==
  /\ IsPresent(ReadOnly) /\ ~ IsWriteable(ReadOnly) /\ IsPresent(Writeable) /\ IsWriteable(Writeable)
  /\ ~ IsPresent(0) /\ ~ IsWriteable(0)
<1>1. 5 % 2 = 1 /\ 7 % 2 = 1 /\ 0 % 2 = 0 /\ 5 \div 2 = 2 /\ 7 \div 2 = 3 /\ 0 \div 2 = 0 /\ 2 % 2 = 0 /\ 3 % 2 = 1
  OBVIOUS
<1> QED BY <1>1 DEF IsPresent, IsWriteable, ReadOnly, Writeable

(* n pages from page v on are mapped to the frames from f on.              *)
Mapped(d, v, f, n, flags) == paging_map_to(d, v * PageSize, f * PageSize, (f + n) * PageSize, flags)

(* Mapping a range of pages maps these and leaves the others as they were  *)
(* (paging.c:153-211).                                                     *)
LEMMA MapFacts ==
  ASSUME NEW d \in Directory, NEW v \in Nat, NEW f \in Int, NEW n \in Nat, v .. v + n - 1 \subseteq Pages,
         NEW flags \in {0, ReadOnly, Writeable}
  PROVE  /\ Mapped(d, v, f, n, flags) \in Directory
         /\ \A page \in Pages :
              paging_get(Mapped(d, v, f, n, flags), page)
                = IF page \in v .. v + n - 1 THEN [frame |-> f + page - v, flags |-> flags]
                  ELSE paging_get(d, page)
<1> DEFINE Step(x, i) == paging_set(x, v + i - 1, [frame |-> f + i - 1, flags |-> flags])
           count == PageOf((f + n) * PageSize - f * PageSize)
           Body(g) == [i \in 0 .. count |-> IF i = 0 THEN d
                         ELSE paging_set(g[i - 1], PageOf(v * PageSize) + i - 1,
                                         [frame |-> PageOf(f * PageSize) + i - 1, flags |-> flags])]
           after == CHOOSE g : g = Body(g)
           e == Mapped(d, v, f, n, flags)
<1>1. PageOf(v * PageSize) = v /\ PageOf(f * PageSize) = f
  BY PageStart
<1>2. count = n
  <2>1. (f + n) * PageSize - f * PageSize = n * PageSize
    BY LayoutAssumption
  <2> QED BY <2>1, PageStart
<1>3. e = after[n]
  <2>1. Aligned(v * PageSize) /\ Aligned(f * PageSize) /\ Aligned((f + n) * PageSize)
    BY PageStart
  <2>2. (f + n) * PageSize >= f * PageSize
    <3>1. (f + n) * PageSize = f * PageSize + n * PageSize /\ n * PageSize \in Nat /\ f * PageSize \in Int
      BY LayoutAssumption
    <3> QED BY <3>1
  <2>3. e = after[count]
    BY <2>1, <2>2, Zenon DEF paging_map_to, Mapped
  <2> QED BY <1>2, <2>3
<1> HIDE DEF e
<1>4. ASSUME NEW i \in 1 .. n, NEW x \in Directory
      PROVE  /\ Step(x, i) \in Directory
             /\ \A page \in Pages : paging_get(Step(x, i), page)
                   = IF page = v + i - 1 THEN [frame |-> f + i - 1, flags |-> flags] ELSE paging_get(x, page)
  <2>1. v + i - 1 \in Pages
    BY <1>4
  <2>2. [frame |-> f + i - 1, flags |-> flags] \in Entry
    BY <1>4 DEF Entry
  <2> QED BY <2>1, <2>2, SetFacts
<1>5. Body(after) = after
  <2> DEFINE step == [i \in 1 .. n |-> [x \in Directory |-> Step(x, i)]]
  <2>1. \A i \in 1 .. n : \A x \in Directory : step[i][x] = Step(x, i) /\ step[i][x] \in Directory
    BY <1>4
  <2> HIDE DEF step
  <2>2. PICK g : Iterates(g, n, d, step) /\ \A i \in 0 .. n : g[i] \in Directory
    <3>1. \A i \in 1 .. n : \A x \in Directory : step[i][x] \in Directory
      BY <2>1
    <3> QED BY <3>1, Iteration
  <2>3. ASSUME NEW i \in 0 .. n
        PROVE  (IF i = 0 THEN d ELSE step[i][g[i - 1]]) = IF i = 0 THEN d ELSE Step(g[i - 1], i)
    <3>1. i # 0 => i \in 1 .. n /\ g[i - 1] \in Directory
      BY <2>2
    <3> QED BY <2>1, <3>1
  <2>4. g = [i \in 0 .. n |-> IF i = 0 THEN d ELSE step[i][g[i - 1]]]
    BY <2>2 DEF Iterates
  <2>5. g = [i \in 0 .. n |-> IF i = 0 THEN d ELSE Step(g[i - 1], i)]
    BY <2>3, <2>4, Zenon
  <2>6. g = Body(g)
    BY <1>1, <1>2, <2>5
  <2> HIDE DEF Body
  <2> QED BY <2>6
<1> HIDE DEF after
<1>6. \A i \in 0 .. n : after[i] = IF i = 0 THEN d ELSE Step(after[i - 1], i)
  <2>1. \A i \in 0 .. n : Body(after)[i] = IF i = 0 THEN d ELSE Step(after[i - 1], i)
    BY <1>1, <1>2
  <2> HIDE DEF Body
  <2> QED BY <1>5, <2>1
<1> HIDE DEF Step, Body, count
<1> DEFINE Holds(i, x) ==
             /\ x \in Directory
             /\ \A page \in Pages :
                  paging_get(x, page) = IF page \in v .. v + i - 1 THEN [frame |-> f + page - v, flags |-> flags]
                                        ELSE paging_get(d, page)
           inv == [i \in 0 .. n |-> {x \in Directory : Holds(i, x)}]
<1>7. after[0] \in inv[0]
  <2>1. after[0] = d
    BY <1>6
  <2>2. \A page \in Pages : page \notin v .. v + 0 - 1
    OBVIOUS
  <2> QED BY <2>1, <2>2
<1>8. ASSUME NEW i \in 1 .. n, after[i - 1] \in inv[i - 1] PROVE after[i] \in inv[i]
  <2>1. i - 1 \in 0 .. n /\ i \in 0 .. n /\ i # 0
    BY <1>8
  <2>2. after[i - 1] \in Directory /\ Holds(i - 1, after[i - 1]) /\ after[i] = Step(after[i - 1], i)
    BY <1>6, <1>8, <2>1
  <2>3. /\ after[i] \in Directory
        /\ \A page \in Pages : paging_get(after[i], page)
              = IF page = v + i - 1 THEN [frame |-> f + i - 1, flags |-> flags] ELSE paging_get(after[i - 1], page)
    BY <1>4, <2>2
  <2>4. ASSUME NEW page \in Pages
        PROVE  paging_get(after[i], page) = IF page \in v .. v + i - 1 THEN [frame |-> f + page - v, flags |-> flags]
                                            ELSE paging_get(d, page)
    <3>1. page \in Nat
      BY IndexFacts
    <3>2. CASE page = v + i - 1
      <4>1. page \in v .. v + i - 1 /\ f + page - v = f + i - 1
        BY <2>1, <3>2
      <4> QED BY <2>3, <3>2, <4>1
    <3>3. CASE page # v + i - 1
      <4>1. page \in v .. v + i - 1 <=> page \in v .. v + (i - 1) - 1
        BY <2>1, <3>1, <3>3
      <4> QED BY <2>2, <2>3, <3>3, <4>1
    <3> QED BY <3>2, <3>3
  <2>5. Holds(i, after[i])
    BY <2>3, <2>4
  <2> HIDE DEF Holds
  <2> QED BY <2>1, <2>3, <2>5
<1> HIDE DEF inv
<1>9. after[n] \in inv[n]
  <2>1. \A i \in 0 .. n : after[i] \in inv[i]
    BY <1>7, <1>8, Stepwise
  <2> QED BY <2>1
<1>10. Holds(n, after[n])
  BY <1>9 DEF inv
<1> QED BY <1>3, <1>10 DEF e

(* Tables with the same entries are the same.                              *)
LEMMA SameTables ==
  ASSUME NEW d \in Directory, NEW e \in Directory,
         \A page \in Pages : paging_get(d, page) = paging_get(e, page)
  PROVE  d = e
<1>1. Entries \in Nat \ {0}
  BY LayoutAssumption
<1>2. ASSUME NEW x \in Indexes, NEW y \in Indexes
      PROVE  d[x][y] = e[x][y]
  <2> DEFINE n == Entries
             page == n * x + y
  <2>1. n \in Nat \ {0} /\ x \in 0 .. n - 1 /\ y \in 0 .. n - 1
    BY <1>1 DEF Indexes
  <2>2. page \in Nat /\ page <= n * n - 1
    <3> HIDE DEF n
    <3>1. n * x <= n * (n - 1) /\ n * (n - 1) = n * n - n /\ n * x \in Nat
      BY <2>1
    <3> QED BY <2>1, <3>1
  <2>3. page \div n = x /\ page % n = y
    <3> HIDE DEF n
    <3> QED BY <2>1
  <2>4. page \in Pages
    BY <2>2, <2>1 DEF Pages
  <2> HIDE DEF page
  <2>5. paging_get(d, page) = paging_get(e, page)
    BY <2>4
  <2> QED BY <2>3, <2>5 DEF paging_get
<1> QED BY <1>2 DEF Directory

-----------------------------------------------------------------------------
(* Frames of the heap                                                      *)

(* What is found is free (heap.c:90-122).                                  *)
LEMMA PlaceFacts ==
  ASSUME NEW s, NEW n \in Nat \ {0}, Place(s, n) # Null
  PROVE  Place(s, n) \in Nat \ {0} /\ Place(s, n) \in Heap \ s.taken /\ Place(s, n) .. Place(s, n) + n - 1 \subseteq Heap \ s.taken
<1> DEFINE starts == {f \in Heap : f .. f + n - 1 \subseteq Heap \ s.taken}
<1>1. starts # {} /\ starts \subseteq Nat
  BY LayoutAssumption DEF Place, Pages
<1>2. \E f \in starts : \A g \in starts : f <= g
  BY <1>1, LeastNumber
<1>3. Place(s, n) \in starts
  BY <1>1, <1>2 DEF Place
<1>4. Place(s, n) \in Nat \ {0} /\ Place(s, n) \in Place(s, n) .. Place(s, n) + n - 1
  BY <1>1, <1>3, LowAssumption
<1> QED BY <1>3, <1>4

(* What memory of some size takes.                                         *)
LEMMA RegionFacts ==
  ASSUME NEW f \in Int
  PROVE  /\ \A n \in Nat \ {0} : FramesFor(n) \in Nat \ {0} /\ f \in Region(f, n)
         /\ Region(f, PageSize) = {f} /\ FramesFor(PageSize) = 1
<1>1. ASSUME NEW n \in Nat \ {0} PROVE FramesFor(n) \in Nat \ {0}
  BY AlignedUp
<1>2. ASSUME NEW n \in Nat \ {0} PROVE f \in Region(f, n)
  BY <1>1 DEF Region
<1>3. PageSize \in Nat \ {0} /\ PageSize - 1 \in 0 .. PageSize - 1
  BY LayoutAssumption
<1>4. PageOf(PageSize - 1) = 0
  <2>1. PageOf(PageSize * 0 + (PageSize - 1)) = 0
    BY <1>3, PageIs
  <2>2. PageSize * 0 + (PageSize - 1) = PageSize - 1
    BY <1>3
  <2> QED BY <2>1, <2>2
<1>5. FramesFor(PageSize) = 1
  BY <1>3, <1>4, AlignedUp
<1> QED BY <1>1, <1>2, <1>5 DEF Region

(* Taking frames changes nothing else.                                     *)
LEMMA TakenFacts ==
  ASSUME NEW s \in State, NEW f \in Int, NEW n, Region(f, n) \subseteq Heap
  PROVE  /\ Taken(s, f, n) \in State
         /\ Taken(s, f, n) = [s EXCEPT !.taken = s.taken \cup Region(f, n)]
         /\ Taken(s, f, n).taken = s.taken \cup Region(f, n)
BY DEF Taken, State, Region

(* And so does freeing them.                                               *)
LEMMA FreedFacts ==
  ASSUME NEW s \in State, NEW f \in Int, NEW n
  PROVE  /\ Freed(s, f, n) \in State
         /\ Freed(s, f, n) = [s EXCEPT !.taken = s.taken \ Region(f, n)]
         /\ Freed(s, f, n).taken = s.taken \ Region(f, n)
BY DEF Freed, State, Region

-----------------------------------------------------------------------------
(* The memory of a program                                                 *)

(* An allocation is mapped to the frames of its own address.               *)
LEMMA RequestFacts ==
  ASSUME NEW a \in [ptr : Nat, size : Nat \ {0}], Aligned(a.ptr)
  PROVE  /\ PageOf(a.ptr) \in Nat /\ a.ptr = PageOf(a.ptr) * PageSize
         /\ PagesOf(a.ptr, a.size) = Requested(a) /\ PageOf(a.ptr) \in Requested(a)
         /\ paging_align_address(a.ptr + a.size) = (PageOf(a.ptr) + FramesFor(a.size)) * PageSize
<1> DEFINE f == PageOf(a.ptr)
           n == a.size
<1>1. f \in Nat /\ a.ptr = f * PageSize /\ n \in Nat \ {0}
  <2> DEFINE k == PageOf(a.ptr)
  <2>1. k \in Nat /\ a.ptr = PageSize * k + (a.ptr % PageSize) /\ a.ptr % PageSize = 0 /\ PageSize \in Nat
    BY PageFacts, LayoutAssumption DEF Aligned
  <2> HIDE DEF k
  <2>2. a.ptr = k * PageSize
    BY <2>1
  <2> QED BY <2>1, <2>2 DEF k
<1>2. /\ PagesOf(f * PageSize, n) = Region(f, n)
      /\ paging_align_address(f * PageSize + n) = (f + FramesFor(n)) * PageSize
  <2> HIDE DEF f, n
  <2> QED BY <1>1, PagesFromStart
<1>3. f \in Region(f, n)
  BY <1>1, RegionFacts
<1> QED BY <1>1, <1>2, <1>3 DEF Requested

(* A segment begins at the same place of a page in file and memory, so its *)
(* pages follow those of the file (elfloader.c:143-164, process.c:385).    *)
LEMMA SegmentFacts ==
  ASSUME NEW file \in Files, elf_validate_loaded(file), NEW i \in DOMAIN file.phdrs
  PROVE  LET h == file.phdrs[i]
             first == PageOf(h.offset)
             v == PageOf(h.vaddr)
         IN  /\ h \in ProgramHeader /\ h.offset % PageSize = h.vaddr % PageSize
             /\ first \in Nat /\ v \in Nat
             /\ h.load => /\ h.memsz \in Nat \ {0} /\ h.memsz = h.filesz /\ h.vaddr > 0
                          /\ PageOf(h.vaddr + h.memsz - 1) \in Nat /\ v <= PageOf(h.vaddr + h.memsz - 1)
                          /\ PagesOf(h.vaddr, h.memsz) = v .. PageOf(h.vaddr + h.memsz - 1)
                          /\ PageOf(h.offset + h.memsz - 1) = first + PageOf(h.vaddr + h.memsz - 1) - v
                          /\ (h.offset + h.memsz - 1) % PageSize = (h.vaddr + h.memsz - 1) % PageSize
                          /\ PageOf(h.offset + h.memsz - 1) + 1 <= FramesFor(file.size)
             /\ ~ h.load => h.memsz = 0 /\ Aligned(h.offset) /\ PagesOf(h.vaddr, h.memsz) = {}
             /\ PagesOf(h.vaddr, h.memsz) \subseteq ProgramPages
             /\ \A j \in DOMAIN file.phdrs \ {i} :
                  PagesOf(h.vaddr, h.memsz) \cap PagesOf(file.phdrs[j].vaddr, file.phdrs[j].memsz) = {}
<1> DEFINE h == file.phdrs[i]
           first == PageOf(h.offset)
           v == PageOf(h.vaddr)
<1>1. PageSize \in Nat \ {0} /\ file.size \in Nat \ {0} /\ file.phdrs \in Seq(ProgramHeader)
  BY FilesAssumption, LayoutAssumption
<1>2. h \in ProgramHeader
  BY <1>1
<1>3. h.offset \in Nat /\ h.vaddr \in Nat /\ h.memsz \in Nat /\ h.filesz \in Nat /\ h.load \in BOOLEAN
  BY <1>2 DEF ProgramHeader
<1>4. /\ h.offset % PageSize = h.vaddr % PageSize /\ h.memsz = h.filesz
      /\ IF h.load THEN h.memsz > 0 /\ h.vaddr > 0 ELSE h.memsz = 0 /\ h.offset % PageSize = 0
      /\ h.offset + h.filesz <= file.size
      /\ PagesOf(h.vaddr, h.memsz) \subseteq ProgramPages
      /\ \A j \in DOMAIN file.phdrs \ {i} :
           PagesOf(h.vaddr, h.memsz) \cap PagesOf(file.phdrs[j].vaddr, file.phdrs[j].memsz) = {}
  BY FilesAssumption DEF SegmentsApart
<1> HIDE DEF h
<1>5. first \in Nat /\ v \in Nat
  BY <1>3, PageFacts
<1>6. CASE h.load
  <2> DEFINE m == h.memsz
             last == h.vaddr + m - 1
             end == h.offset + m - 1
  <2>1. m \in Nat \ {0} /\ last \in Nat /\ end \in Nat /\ end <= file.size - 1 /\ file.size - 1 \in Nat
    BY <1>1, <1>3, <1>4, <1>6
  <2>2. PagesOf(h.vaddr, m) = v .. PageOf(last) /\ PageOf(last) \in Nat /\ v <= PageOf(last)
    BY <1>3, <2>1, PagesAre, AlignedUp
  <2>3. end = last + (first - v) * PageSize
    <3> DEFINE r == h.offset % PageSize
    <3>1. h.offset = PageSize * first + r /\ h.vaddr = PageSize * v + r /\ r \in Int
      <4>1. h.offset \in Int /\ h.vaddr \in Int /\ r = h.vaddr % PageSize
        BY <1>3, <1>4
      <4>2. h.offset = PageSize * first + (h.offset % PageSize) /\ h.offset % PageSize \in 0 .. PageSize - 1
        BY <4>1, PageFacts
      <4>3. h.vaddr = PageSize * v + (h.vaddr % PageSize)
        BY <4>1, PageFacts
      <4> HIDE DEF first, v
      <4> QED BY <4>1, <4>2, <4>3
    <3> HIDE DEF r, first, v
    <3>2. (first - v) * PageSize = PageSize * first - PageSize * v
      BY <1>1, <1>5 DEF first, v
    <3>3. PageSize * first \in Int /\ PageSize * v \in Int
      BY <1>1, <1>5 DEF first, v
    <3> QED BY <1>3, <2>1, <3>1, <3>2, <3>3
  <2> HIDE DEF last, end, first, v
  <2>4. first - v \in Int
    BY <1>5 DEF first, v
  <2>5. PageOf(end) = PageOf(last) + (first - v) /\ end % PageSize = last % PageSize
    BY <2>1, <2>3, <2>4, PageShift
  <2>6. PageOf(end) <= PageOf(file.size - 1) /\ FramesFor(file.size) = PageOf(file.size - 1) + 1
        /\ PageOf(file.size - 1) \in Nat /\ PageOf(end) \in Nat
    <3>1. PageOf(end) <= PageOf(file.size - 1)
      BY <2>1, PageOrder
    <3>2. 0 \in Nat => FramesFor(file.size) = PageOf(file.size - 1) + 1
      BY <1>1, AlignedUp
    <3>3. PageOf(file.size - 1) \in Nat /\ PageOf(end) \in Nat
      BY <2>1, PageFacts
    <3> QED BY <3>1, <3>2, <3>3
  <2>7. PageOf(end) = first + PageOf(last) - v
    BY <1>5, <2>2, <2>5 DEF first, v
  <2> QED BY <1>2, <1>4, <1>5, <1>6, <2>1, <2>2, <2>5, <2>6, <2>7 DEF last, end, first, v, h
<1>7. CASE ~ h.load
  <2>1. PagesOf(h.vaddr, 0) = {}
    BY <1>3 DEF PagesOf
  <2> QED BY <1>2, <1>4, <1>5, <1>7, <2>1 DEF Aligned, h
<1> QED BY <1>6, <1>7

(* What a page of a segment is mapped to.                                  *)
Cell(q, h, page) ==
  [page |-> page, frame |-> q.image + PageOf(h.offset) + page - PageOf(h.vaddr), write |-> h.write]

(* The segments of a program are those of its ELF file, page by page, or   *)
(* the whole of any other file.                                            *)
LEMMA SegmentsAre ==
  ASSUME NEW q, NEW m
  PROVE  /\ elf_validate_loaded(q.file) =>
              (m \in Segments(q) <=> \E i \in DOMAIN q.file.phdrs : /\ q.file.phdrs[i].load
                    /\ \E page \in PagesOf(q.file.phdrs[i].vaddr, q.file.phdrs[i].memsz) :
                         m = Cell(q, q.file.phdrs[i], page))
         /\ q.image \in Int /\ ~ elf_validate_loaded(q.file) =>
              (m \in Segments(q) <=> \E page \in PagesOf(ProgramAddress, q.file.size) :
                    m = [page |-> page, frame |-> q.image + page - PageOf(ProgramAddress), write |-> TRUE])
<1> DEFINE pages(h) == {Cell(q, h, page) : page \in PagesOf(h.vaddr, h.memsz)}
           all == [vaddr |-> ProgramAddress, offset |-> 0, memsz |-> q.file.size, write |-> TRUE]
<1>1. CASE elf_validate_loaded(q.file)
  <2>1. Segments(q) = UNION {pages(h) : h \in {q.file.phdrs[i] : i \in {j \in DOMAIN q.file.phdrs : q.file.phdrs[j].load}}}
    BY <1>1 DEF Segments, Cell
  <2> QED BY <1>1, <2>1
<1>2. CASE ~ elf_validate_loaded(q.file)
  <2>1. Segments(q) = UNION {pages(h) : h \in {all}}
    BY <1>2 DEF Segments, Cell
  <2>2. m \in Segments(q) <=> \E page \in PagesOf(ProgramAddress, q.file.size) : m = Cell(q, all, page)
    <3>1. UNION {pages(h) : h \in {all}} = pages(all)
      <4> HIDE DEF pages, all
      <4> QED OBVIOUS
    <3>2. all.vaddr = ProgramAddress /\ all.memsz = q.file.size
      OBVIOUS
    <3> HIDE DEF all
    <3> QED BY <2>1, <3>1, <3>2
  <2>3. PageOf(0) = 0
    BY LayoutAssumption, PageStart
  <2>4. ASSUME q.image \in Int, NEW page \in PagesOf(ProgramAddress, q.file.size)
        PROVE  Cell(q, all, page)
                 = [page |-> page, frame |-> q.image + page - PageOf(ProgramAddress), write |-> TRUE]
    <3>1. q.image + 0 = q.image /\ all.offset = 0 /\ all.vaddr = ProgramAddress /\ all.write = TRUE
      BY <2>4
    <3> HIDE DEF all
    <3> QED BY <2>3, <3>1 DEF Cell
  <2> HIDE DEF all
  <2> QED BY <1>2, <2>2, <2>4
<1> QED BY <1>1, <1>2

(* What a program is loaded with is in the frames it was loaded to, at     *)
(* pages that are not the kernel's and not the heap's.                     *)
LEMMA LoadedMemory ==
  ASSUME NEW q \in Process, q.file \in Files
  PROVE  /\ q.file.size \in Nat \ {0}
         /\ \A m \in Segments(q) : /\ m \in [page : ProgramPages, frame : Region(q.image, q.file.size), write : BOOLEAN]
         /\ \A m \in Stack(q) : m \in [page : StackPages, frame : Region(q.stack, StackSize), write : {TRUE}]
<1>1. PageSize \in Nat \ {0} /\ q.file.size \in Nat \ {0} /\ q.image \in Int /\ q.stack \in Int
  BY FilesAssumption, LayoutAssumption DEF Process
<1>2. ASSUME NEW m \in Segments(q)
      PROVE  m \in [page : ProgramPages, frame : Region(q.image, q.file.size), write : BOOLEAN]
  <2>1. CASE elf_validate_loaded(q.file)
    <3>1. PICK i \in DOMAIN q.file.phdrs :
             /\ q.file.phdrs[i].load
             /\ \E page \in PagesOf(q.file.phdrs[i].vaddr, q.file.phdrs[i].memsz) :
                  m = Cell(q, q.file.phdrs[i], page)
      BY <2>1, SegmentsAre
    <3> DEFINE h == q.file.phdrs[i]
               v == PageOf(h.vaddr)
               first == PageOf(h.offset)
               last == PageOf(h.vaddr + h.memsz - 1)
               end == PageOf(h.offset + h.memsz - 1)
    <3>2. PICK page \in PagesOf(h.vaddr, h.memsz) : m = Cell(q, h, page)
      BY <3>1
    <3>3. /\ h \in ProgramHeader /\ first \in Nat /\ v \in Nat /\ last \in Nat /\ v <= last
          /\ PagesOf(h.vaddr, h.memsz) = v .. last /\ end = first + last - v
          /\ end + 1 <= FramesFor(q.file.size) /\ PagesOf(h.vaddr, h.memsz) \subseteq ProgramPages
      BY <2>1, <3>1, SegmentFacts
    <3>4. FramesFor(q.file.size) \in Nat
      BY <1>1, RegionFacts
    <3>5. h.write \in BOOLEAN
      BY <3>3 DEF ProgramHeader
    <3> HIDE DEF h, v, first, last, end
    <3>6. page \in v .. last /\ page \in ProgramPages
      BY <3>2, <3>3
    <3>7. q.image + first + page - v \in Region(q.image, q.file.size)
      BY <1>1, <3>3, <3>4, <3>6 DEF Region
    <3> QED BY <3>2, <3>5, <3>6, <3>7 DEF Cell, first, v
  <2>2. CASE ~ elf_validate_loaded(q.file)
    <3>1. PICK page \in PagesOf(ProgramAddress, q.file.size) :
             m = [page |-> page, frame |-> q.image + page - PageOf(ProgramAddress), write |-> TRUE]
      BY <1>1, <2>2, SegmentsAre
    <3> DEFINE v == PageOf(ProgramAddress)
    <3>2. v \in Nat /\ PagesOf(ProgramAddress, q.file.size) = Region(v, q.file.size)
      <4>1. [ptr |-> ProgramAddress, size |-> q.file.size] \in [ptr : Nat, size : Nat \ {0}]
        BY <1>1, LayoutAssumption
      <4>2. Aligned(ProgramAddress)
        BY LayoutAssumption DEF Aligned
      <4> QED BY <4>1, <4>2, RequestFacts DEF Requested
    <3>3. page \in ProgramPages
      BY <2>2, FilesAssumption
    <3>4. FramesFor(q.file.size) \in Nat
      BY <1>1, RegionFacts
    <3> HIDE DEF v
    <3>5. page \in Region(v, q.file.size)
      BY <3>2
    <3>6. q.image + page - v \in Region(q.image, q.file.size)
      BY <1>1, <3>2, <3>4, <3>5 DEF Region
    <3> QED BY <3>1, <3>3, <3>6 DEF v
  <2> QED BY <2>1, <2>2
<1>3. ASSUME NEW m \in Stack(q)
      PROVE  m \in [page : StackPages, frame : Region(q.stack, StackSize), write : {TRUE}]
  <2> DEFINE v == PageOf(StackEnd)
  <2>1. PICK page \in StackPages : m = [page |-> page, frame |-> q.stack + page - v, write |-> TRUE]
    BY DEF Stack
  <2>2. v \in Nat /\ StackPages = Region(v, StackSize)
    <3>1. [ptr |-> StackEnd, size |-> StackSize] \in [ptr : Nat, size : Nat \ {0}]
      BY LayoutAssumption
    <3>2. Aligned(StackEnd)
      BY LayoutAssumption DEF Aligned
    <3> QED BY <3>1, <3>2, RequestFacts DEF Requested, StackPages
  <2>3. FramesFor(StackSize) \in Nat
    BY <1>1, LayoutAssumption, RegionFacts
  <2> HIDE DEF v
  <2>4. q.stack + page - v \in Region(q.stack, StackSize)
    BY <1>1, <2>1, <2>2, <2>3 DEF Region
  <2> QED BY <2>1, <2>4
<1> QED BY <1>1, <1>2, <1>3

(* What it allocated is in the frames of its address.                      *)
LEMMA AllocatedMemory ==
  ASSUME NEW q \in Process, \A a \in q.allocations : Aligned(a.ptr)
  PROVE  /\ \A a \in q.allocations : PagesOf(a.ptr, a.size) = Requested(a)
         /\ \A m : m \in Allocated(q) <=> \E a \in q.allocations : \E page \in Requested(a) :
                                            m = [page |-> page, frame |-> page, write |-> TRUE]
<1>1. \A a \in q.allocations : PagesOf(a.ptr, a.size) = Requested(a)
  BY RequestFacts DEF Process
<1>2. \A m : m \in Allocated(q) <=> \E a \in q.allocations : \E page \in PagesOf(a.ptr, a.size) :
                                       m = [page |-> page, frame |-> page, write |-> TRUE]
  BY DEF Allocated
<1> QED BY <1>1, <1>2

(* The low frames are none of the heap's.                                  *)
LEMMA LowFacts ==
  ASSUME NEW file \in Files, elf_validate_loaded(file)
  PROVE  Region(0, file.size) \subseteq LowFrames /\ Region(0, file.size) \cap Heap = {}
<1>1. Region(0, file.size) \subseteq LowFrames
  <2> SUFFICES ASSUME NEW x \in Region(0, file.size) PROVE x \in LowFrames
    OBVIOUS
  <2>1. file \in {f \in Files : elf_validate_loaded(f)}
    OBVIOUS
  <2>2. x \in 0 .. FramesFor(file.size) - 1
    <3>1. FramesFor(file.size) \in Int
      <4>1. file.size \in Nat \ {0}
        BY FilesAssumption
      <4> QED BY <4>1, AlignedUp, 0 \in Nat
    <3> QED BY <3>1 DEF Region
  <2> QED BY <2>1, <2>2 DEF LowFrames
<1> QED BY <1>1, LowAssumption

(* All of it is the process's own, but for an image at address 0, and none *)
(* of it where the kernel or the task is.                                  *)
LEMMA MemoryFacts ==
  ASSUME NEW q \in Process, q.file \in Files, OwnsApart(q), Own(q) \subseteq Heap, NEW m \in Memory(q)
  PROVE  /\ m.page \in Pages \ KernelPages /\ m.frame \in (Own(q) \ {q.task}) \cup Shared(q) /\ m.write \in BOOLEAN
         /\ m.page \in Heap => m.page \in Own(q) \ {q.task}
         /\ EntryOf(m) \in Entry
<1>1. /\ m.page \in Pages \ KernelPages /\ m.frame \in (Own(q) \ {q.task}) \cup Shared(q) /\ m.write \in BOOLEAN
      /\ m.page \in Heap => m.page \in Own(q) \ {q.task}
  <2>1. CASE m \in Segments(q)
    <3>1. m \in [page : ProgramPages, frame : Region(q.image, q.file.size), write : BOOLEAN]
      BY <2>1, LoadedMemory
    <3>2. m.frame \in (Own(q) \ {q.task}) \cup Shared(q)
      <4>1. CASE q.image = 0
        BY <3>1, <4>1, LowFacts DEF Shared, OwnsApart
      <4>2. CASE q.image # 0
        BY <3>1, <4>2 DEF Own, Fixed, Copy, OwnsApart
      <4> QED BY <4>1, <4>2
    <3> QED BY <3>1, <3>2 DEF ProgramPages
  <2>2. CASE m \in Stack(q)
    <3>1. m \in [page : StackPages, frame : Region(q.stack, StackSize), write : {TRUE}]
      BY <2>2, LoadedMemory
    <3> QED BY <3>1, LayoutAssumption DEF Own, Fixed, OwnsApart
  <2>3. CASE m \in Allocated(q)
    <3>1. PICK a \in q.allocations : \E page \in Requested(a) : m = [page |-> page, frame |-> page, write |-> TRUE]
      BY <2>3, AllocatedMemory DEF OwnsApart
    <3>2. PICK page \in Requested(a) : m = [page |-> page, frame |-> page, write |-> TRUE]
      BY <3>1
    <3>3. page \in Own(q) /\ page # q.task
      BY <3>1, <3>2 DEF Own, Fixed, OwnsApart
    <3>4. page \in Pages \ KernelPages
      BY <3>3, LayoutAssumption
    <3> QED BY <3>2, <3>3, <3>4
  <2> QED BY <2>1, <2>2, <2>3 DEF Memory
<1>2. Own(q) \subseteq Int /\ m.frame \in Int
  <2>1. Own(q) \subseteq Int
    BY LayoutAssumption DEF Pages
  <2>2. Shared(q) \subseteq Int
    BY DEF Shared, LowFrames
  <2> QED BY <1>1, <2>1, <2>2
<1> QED BY <1>1, <1>2 DEF EntryOf, Entry

-----------------------------------------------------------------------------
(* Loading a program                                                       *)

(* One header maps the pages of its segment, and no other.                 *)
LEMMA SegmentMapped ==
  ASSUME NEW q \in Process, q.file \in Files, elf_validate_loaded(q.file), NEW i \in DOMAIN q.file.phdrs,
         NEW d \in Directory
  PROVE  LET h == q.file.phdrs[i]
             e == MapSegment(d, h, q.image * PageSize)
         IN  /\ e \in Directory
             /\ \A page \in Pages :
                  paging_get(e, page) = IF page \in PagesOf(h.vaddr, h.memsz) THEN EntryOf(Cell(q, h, page))
                                        ELSE paging_get(d, page)
<1> DEFINE h == q.file.phdrs[i]
           e == MapSegment(d, h, q.image * PageSize)
           v == PageOf(h.vaddr)
           first == PageOf(h.offset)
           flags == IF h.write THEN Writeable ELSE ReadOnly
           f == q.image + first
           last == PageOf(h.vaddr + h.memsz - 1)
           n == IF h.load THEN last + 1 - v ELSE 0
<1>1. PageSize \in Nat \ {0} /\ q.image \in Int
  BY LayoutAssumption DEF Process
<1>2. /\ h \in ProgramHeader /\ first \in Nat /\ v \in Nat
      /\ h.load => /\ h.memsz \in Nat \ {0} /\ last \in Nat /\ v <= last
                   /\ PagesOf(h.vaddr, h.memsz) = v .. last
                   /\ PageOf(h.offset + h.memsz - 1) = first + last - v
      /\ ~ h.load => h.memsz = 0 /\ Aligned(h.offset) /\ PagesOf(h.vaddr, h.memsz) = {}
      /\ PagesOf(h.vaddr, h.memsz) \subseteq ProgramPages
  BY SegmentFacts
<1>3. h.offset \in Nat /\ h.vaddr \in Nat /\ h.load \in BOOLEAN /\ flags \in {0, ReadOnly, Writeable}
  BY <1>2 DEF ProgramHeader
<1> HIDE DEF h, flags
<1> DEFINE phys == q.image * PageSize + h.offset
<1>4. phys = h.offset + q.image * PageSize /\ phys \in Int /\ q.image * PageSize \in Int
  BY <1>1, <1>3
<1>5. PageOf(phys) = f
  <2>1. PageOf(h.offset + q.image * PageSize) = first + q.image
    <3>1. h.offset \in Int /\ q.image \in Int
      BY <1>1, <1>3
    <3> QED BY <3>1, PageShift
  <2>2. first + q.image = f
    BY <1>1, <1>2
  <2> QED BY <1>4, <2>1, <2>2
<1>6. n \in Nat /\ f \in Int /\ PagesOf(h.vaddr, h.memsz) = v .. v + n - 1 /\ v .. v + n - 1 \subseteq Pages
  <2>1. CASE h.load
    BY <1>1, <1>2, <2>1 DEF ProgramPages
  <2>2. CASE ~ h.load
    <3>1. n = 0 /\ v \in Nat /\ first \in Nat /\ PagesOf(h.vaddr, h.memsz) = {}
      BY <1>2, <2>2
    <3> HIDE DEF n, v, first
    <3>2. v .. v + n - 1 = {}
      BY <3>1
    <3> QED BY <1>1, <3>1, <3>2
  <2> QED BY <1>3, <2>1, <2>2
<1>7. paging_align_address(phys + h.memsz) = (f + n) * PageSize
  <2>1. CASE h.load
    <3> DEFINE end == h.offset + h.memsz - 1
    <3>0. end \in Int /\ q.image + 1 \in Int /\ h.memsz \in Int
      BY <1>1, <1>2, <1>3, <2>1
    <3>1. PageOf(end + (q.image + 1) * PageSize) = PageOf(end) + (q.image + 1)
      <4> HIDE DEF end
      <4> QED BY <3>0, PageShift
    <3>2. phys + h.memsz + PageSize - 1 = end + (q.image + 1) * PageSize
      <4> DEFINE w == q.image * PageSize
      <4>1. (q.image + 1) * PageSize = w + PageSize /\ w \in Int /\ phys = h.offset + w
        BY <1>1, <1>4
      <4> HIDE DEF w, phys
      <4>2. (h.offset + w) + h.memsz + PageSize - 1 = (h.offset + h.memsz - 1) + (w + PageSize)
        BY <1>1, <1>3, <3>0, <4>1
      <4> QED BY <4>1, <4>2
    <3>3. PageOf(end) + (q.image + 1) = f + n
      BY <1>1, <1>2, <2>1
    <3> QED BY <3>1, <3>2, <3>3 DEF paging_align_address, PageOf
  <2>2. CASE ~ h.load
    <3>1. h.memsz = 0 /\ n = 0 /\ h.offset % PageSize = 0
      BY <1>2, <2>2 DEF Aligned
    <3>2. h.offset = PageSize * first + 0
      BY <1>3, <3>1, PageFacts
    <3> HIDE DEF first
    <3>3. phys + h.memsz + PageSize - 1 = PageSize * (first + q.image) + (PageSize - 1)
      <4>1. PageSize * (first + q.image) = PageSize * first + PageSize * q.image /\ PageSize * q.image = q.image * PageSize
        BY <1>1, <1>2
      <4> QED BY <1>1, <1>2, <3>1, <3>2, <4>1
    <3>4. PageOf(PageSize * (first + q.image) + (PageSize - 1)) = first + q.image
      <4>1. first + q.image \in Int /\ PageSize - 1 \in 0 .. PageSize - 1
        BY <1>1, <1>2
      <4> QED BY <4>1, PageIs
    <3>5. first + q.image = f + n
      BY <1>1, <1>2, <3>1
    <3> QED BY <3>3, <3>4, <3>5 DEF paging_align_address, PageOf
  <2> QED BY <1>3, <2>1, <2>2
<1> HIDE DEF phys, f, n
<1>8. e = Mapped(d, v, f, n, flags)
  <2>1. e = paging_map_to(d, paging_align_to_lower_page(h.vaddr), paging_align_to_lower_page(phys),
                          paging_align_address(phys + h.memsz), flags)
    BY DEF MapSegment, elf_phdr_phys_address, phys, flags
  <2> QED BY <1>5, <1>7, <2>1 DEF paging_align_to_lower_page, Mapped
<1> HIDE DEF e, v
<1>9. /\ e \in Directory
      /\ \A page \in Pages :
           paging_get(e, page) = IF page \in v .. v + n - 1 THEN [frame |-> f + page - v, flags |-> flags]
                                 ELSE paging_get(d, page)
  <2>1. v \in Nat /\ f \in Int /\ n \in Nat /\ v .. v + n - 1 \subseteq Pages /\ flags \in {0, ReadOnly, Writeable}
    BY <1>2, <1>3, <1>6
  <2> QED BY <1>8, <2>1, MapFacts
<1>10. ASSUME NEW page \in v .. v + n - 1 PROVE EntryOf(Cell(q, h, page)) = [frame |-> f + page - v, flags |-> flags]
  BY DEF EntryOf, Cell, f, flags, v
<1> QED BY <1>6, <1>9, <1>10 DEF h, e

(* All headers together (process.c:385).                                   *)
LEMMA ElfMapped ==
  ASSUME NEW q \in Process, q.file \in Files, elf_validate_loaded(q.file), NEW d \in Directory
  PROVE  LET e == process_map_elf(d, q.file, q.image * PageSize)
             covers(i) == PagesOf(q.file.phdrs[i].vaddr, q.file.phdrs[i].memsz)
         IN  /\ e \in Directory
             /\ \A i \in DOMAIN q.file.phdrs : \A page \in covers(i) :
                  paging_get(e, page) = EntryOf(Cell(q, q.file.phdrs[i], page))
             /\ \A page \in Pages : (\A i \in DOMAIN q.file.phdrs : page \notin covers(i))
                                      => paging_get(e, page) = paging_get(d, page)
<1> DEFINE n == Len(q.file.phdrs)
           h(i) == q.file.phdrs[i]
           covers(i) == PagesOf(h(i).vaddr, h(i).memsz)
           Step(x, i) == MapSegment(x, h(i), q.image * PageSize)
           Body(g) == [i \in 0 .. n |-> IF i = 0 THEN d ELSE Step(g[i - 1], i)]
           after == CHOOSE g : g = Body(g)
           e == process_map_elf(d, q.file, q.image * PageSize)
<1>1. n \in Nat /\ DOMAIN q.file.phdrs = 1 .. n
  BY FilesAssumption
<1>2. e = after[n]
  BY DEF process_map_elf
<1> HIDE DEF e
<1>3. ASSUME NEW i \in 1 .. n, NEW x \in Directory
      PROVE  /\ Step(x, i) \in Directory
             /\ \A page \in Pages :
                  paging_get(Step(x, i), page) = IF page \in covers(i) THEN EntryOf(Cell(q, h(i), page))
                                                 ELSE paging_get(x, page)
  <2>1. i \in DOMAIN q.file.phdrs
    BY <1>1
  <2> QED BY <2>1, SegmentMapped
<1>4. ASSUME NEW i \in 1 .. n
      PROVE  covers(i) \subseteq Pages /\ \A j \in (1 .. n) \ {i} : covers(i) \cap covers(j) = {}
  <2>1. i \in DOMAIN q.file.phdrs
    BY <1>1
  <2> QED BY <1>1, <2>1, SegmentFacts DEF ProgramPages
<1>5. Body(after) = after
  <2> DEFINE step == [i \in 1 .. n |-> [x \in Directory |-> Step(x, i)]]
  <2>1. \A i \in 1 .. n : \A x \in Directory : step[i][x] = Step(x, i) /\ step[i][x] \in Directory
    BY <1>3
  <2> HIDE DEF step, n, Step
  <2>2. PICK g : Iterates(g, n, d, step) /\ \A i \in 0 .. n : g[i] \in Directory
    <3>1. \A i \in 1 .. n : \A x \in Directory : step[i][x] \in Directory
      BY <2>1
    <3> QED BY <1>1, <3>1, Iteration
  <2>3. ASSUME NEW i \in 0 .. n
        PROVE  (IF i = 0 THEN d ELSE step[i][g[i - 1]]) = IF i = 0 THEN d ELSE Step(g[i - 1], i)
    <3>1. i # 0 => i \in 1 .. n /\ i - 1 \in 0 .. n /\ g[i - 1] \in Directory
      BY <1>1, <2>2
    <3> QED BY <2>1, <3>1
  <2>4. g = [i \in 0 .. n |-> IF i = 0 THEN d ELSE step[i][g[i - 1]]]
    BY <2>2 DEF Iterates
  <2>5. g = Body(g)
    BY <2>3, <2>4, Zenon
  <2> HIDE DEF Body
  <2> QED BY <2>5
<1> HIDE DEF after, Step
<1>6. \A i \in 0 .. n : after[i] = IF i = 0 THEN d ELSE Step(after[i - 1], i)
  <2>1. \A i \in 0 .. n : Body(after)[i] = IF i = 0 THEN d ELSE Step(after[i - 1], i)
    OBVIOUS
  <2> HIDE DEF Body
  <2> QED BY <1>5, <2>1
<1> HIDE DEF Body, n, h, covers
<1> DEFINE Mapping(k, x) ==
             /\ \A i \in 1 .. k : \A page \in covers(i) : paging_get(x, page) = EntryOf(Cell(q, h(i), page))
             /\ \A page \in Pages : (\A i \in 1 .. k : page \notin covers(i))
                                      => paging_get(x, page) = paging_get(d, page)
           inv == [k \in 0 .. n |-> {x \in Directory : Mapping(k, x)}]
<1>7. after[0] \in inv[0]
  <2>1. after[0] = d /\ 0 \in 0 .. n
    BY <1>1, <1>6
  <2>2. Mapping(0, d)
    OBVIOUS
  <2> QED BY <2>1, <2>2
<1>8. ASSUME NEW k \in 1 .. n, after[k - 1] \in inv[k - 1] PROVE after[k] \in inv[k]
  <2> DEFINE x == after[k - 1]
             y == after[k]
  <2>1. k - 1 \in 0 .. n /\ k \in 0 .. n /\ k # 0 /\ k \in Nat
    BY <1>1
  <2>2. x \in Directory /\ Mapping(k - 1, x)
    BY <1>8, <2>1
  <2>3. y = Step(x, k)
    BY <1>6, <2>1
  <2>4. /\ y \in Directory
        /\ \A page \in Pages : paging_get(y, page) = IF page \in covers(k) THEN EntryOf(Cell(q, h(k), page))
                                                     ELSE paging_get(x, page)
    BY <1>3, <2>2, <2>3
  <2> HIDE DEF x, y
  <2>5. ASSUME NEW i \in 1 .. k, NEW page \in covers(i)
        PROVE  paging_get(y, page) = EntryOf(Cell(q, h(i), page))
    <3>1. i \in 1 .. n /\ page \in Pages
      BY <1>1, <1>4, <2>1
    <3>2. CASE i = k
      BY <2>4, <2>5, <3>1, <3>2
    <3>3. CASE i # k
      <4>1. i \in 1 .. (k - 1) /\ page \notin covers(k)
        BY <1>4, <2>1, <2>5, <3>1, <3>3
      <4> QED BY <2>2, <2>4, <2>5, <3>1, <4>1
    <3> QED BY <3>2, <3>3
  <2>6. ASSUME NEW page \in Pages, \A i \in 1 .. k : page \notin covers(i)
        PROVE  paging_get(y, page) = paging_get(d, page)
    <3>1. page \notin covers(k) /\ \A i \in 1 .. (k - 1) : page \notin covers(i)
      BY <2>1, <2>6
    <3> QED BY <2>2, <2>4, <3>1
  <2>7. Mapping(k, y)
    BY <2>5, <2>6
  <2> HIDE DEF Mapping
  <2> QED BY <2>1, <2>4, <2>7 DEF y
<1> HIDE DEF inv, Mapping
<1>9. after[n] \in inv[n]
  <2>1. \A k \in 0 .. n : after[k] \in inv[k]
    BY <1>1, <1>7, <1>8, Stepwise
  <2> QED BY <1>1, <2>1
<1>10. after[n] \in Directory /\ Mapping(n, after[n])
  BY <1>1, <1>9 DEF inv
<1> QED BY <1>1, <1>2, <1>10 DEF e, Mapping, covers, h

(* The tables of a program just loaded show it and its stack, and nothing  *)
(* else that can be written (process.c:424-473).                           *)
LEMMA ProgramMapped ==
  ASSUME NEW q \in Process, q.file \in Files, q.image \in Nat, q.stack \in Nat, q.allocations = {}
  PROVE  LET d == process_map_memory(paging_new_4gb(ReadOnly), q.file, q.image * PageSize, q.stack * PageSize)
         IN  /\ d \in Directory /\ Shows(d, q)
             /\ \A page \in Pages : (\A m \in Memory(q) : m.page # page)
                                      => paging_get(d, page) = [frame |-> page, flags |-> ReadOnly]
<1> DEFINE new == paging_new_4gb(ReadOnly)
           program == IF elf_validate_loaded(q.file) THEN process_map_elf(new, q.file, q.image * PageSize)
                      ELSE process_map_binary(new, q.file, q.image * PageSize)
           d == process_map_memory(new, q.file, q.image * PageSize, q.stack * PageSize)
<1>1. PageSize \in Nat \ {0} /\ q.file.size \in Nat \ {0} /\ StackSize \in Nat \ {0}
  BY FilesAssumption, LayoutAssumption
<1>2. new \in Directory /\ \A page \in Pages : paging_get(new, page) = [frame |-> page, flags |-> ReadOnly]
  BY NewFacts
<1> HIDE DEF new
<1>3. /\ program \in Directory
      /\ \A m \in Segments(q) : paging_get(program, m.page) = EntryOf(m)
      /\ \A page \in Pages : (\A m \in Segments(q) : m.page # page) => paging_get(program, page) = paging_get(new, page)
  <2>1. CASE elf_validate_loaded(q.file)
    <3> DEFINE covers(i) == PagesOf(q.file.phdrs[i].vaddr, q.file.phdrs[i].memsz)
    <3>1. program = process_map_elf(new, q.file, q.image * PageSize)
      BY <2>1
    <3> HIDE DEF program
    <3>2. /\ program \in Directory
          /\ \A i \in DOMAIN q.file.phdrs : \A page \in covers(i) :
               paging_get(program, page) = EntryOf(Cell(q, q.file.phdrs[i], page))
          /\ \A page \in Pages : (\A i \in DOMAIN q.file.phdrs : page \notin covers(i))
                                   => paging_get(program, page) = paging_get(new, page)
      BY <1>2, <2>1, <3>1, ElfMapped
    <3>3. ASSUME NEW m \in Segments(q) PROVE paging_get(program, m.page) = EntryOf(m)
      <4>1. PICK i \in DOMAIN q.file.phdrs :
               \E page \in PagesOf(q.file.phdrs[i].vaddr, q.file.phdrs[i].memsz) : m = Cell(q, q.file.phdrs[i], page)
        BY <2>1, SegmentsAre
      <4>2. PICK page \in covers(i) : m = Cell(q, q.file.phdrs[i], page)
        BY <4>1
      <4>3. m.page = page
        BY <4>2 DEF Cell
      <4> QED BY <3>2, <4>2, <4>3
    <3>4. ASSUME NEW page \in Pages, \A m \in Segments(q) : m.page # page
          PROVE  paging_get(program, page) = paging_get(new, page)
      <4>1. ASSUME NEW i \in DOMAIN q.file.phdrs, page \in covers(i) PROVE FALSE
        <5>1. q.file.phdrs[i].load
          BY <2>1, <4>1, SegmentFacts
        <5>2. Cell(q, q.file.phdrs[i], page) \in Segments(q)
          BY <2>1, <4>1, <5>1, SegmentsAre
        <5>3. Cell(q, q.file.phdrs[i], page).page = page
          BY DEF Cell
        <5> QED BY <3>4, <5>2, <5>3
      <4> QED BY <3>2, <4>1
    <3> QED BY <3>2, <3>3, <3>4
  <2>2. CASE ~ elf_validate_loaded(q.file)
    <3> DEFINE v == PageOf(ProgramAddress)
               n == FramesFor(q.file.size)
    <3>1. /\ v \in Nat /\ ProgramAddress = v * PageSize
          /\ PagesOf(ProgramAddress, q.file.size) = Region(v, q.file.size)
      <4>1. [ptr |-> ProgramAddress, size |-> q.file.size] \in [ptr : Nat, size : Nat \ {0}]
        BY <1>1, LayoutAssumption
      <4>2. Aligned(ProgramAddress)
        BY LayoutAssumption DEF Aligned
      <4> QED BY <4>1, <4>2, RequestFacts DEF Requested
    <3>2. n \in Nat /\ paging_align_address(q.image * PageSize + q.file.size) = (q.image + n) * PageSize
      <4>1. n \in Nat
        BY <1>1, AlignedUp, 0 \in Nat
      <4> QED BY <1>1, <4>1, PagesFromStart
    <3>3. program = Mapped(new, v, q.image, n, Writeable)
      BY <2>2, <3>1, <3>2 DEF process_map_binary, Mapped
    <3>4. PagesOf(ProgramAddress, q.file.size) = v .. v + n - 1 /\ v .. v + n - 1 \subseteq Pages
      BY <2>2, <3>1, FilesAssumption DEF Region, ProgramPages
    <3> HIDE DEF program, v, n
    <3>5. /\ program \in Directory
          /\ \A page \in Pages :
               paging_get(program, page) = IF page \in v .. v + n - 1 THEN [frame |-> q.image + page - v, flags |-> Writeable]
                                           ELSE paging_get(new, page)
      BY <1>2, <3>1, <3>2, <3>3, <3>4, MapFacts
    <3>6. ASSUME NEW m \in Segments(q) PROVE paging_get(program, m.page) = EntryOf(m)
      <4>1. PICK page \in PagesOf(ProgramAddress, q.file.size) :
               m = [page |-> page, frame |-> q.image + page - v, write |-> TRUE]
        BY <2>2, SegmentsAre DEF v
      <4> QED BY <3>4, <3>5, <4>1 DEF EntryOf
    <3>7. ASSUME NEW page \in Pages, \A m \in Segments(q) : m.page # page
          PROVE  page \notin v .. v + n - 1
      <4> SUFFICES ASSUME page \in PagesOf(ProgramAddress, q.file.size) PROVE FALSE
        BY <3>4
      <4> DEFINE m == [page |-> page, frame |-> q.image + page - v, write |-> TRUE]
      <4>1. m \in Segments(q)
        BY <2>2, SegmentsAre DEF v
      <4>2. m.page = page
        OBVIOUS
      <4> QED BY <3>7, <4>1, <4>2
    <3> QED BY <3>5, <3>6, <3>7
  <2> QED BY <2>1, <2>2
<1> DEFINE v == PageOf(StackEnd)
           n == FramesFor(StackSize)
<1>4. v \in Nat /\ StackEnd = v * PageSize /\ StackPages = Region(v, StackSize)
  <2>1. [ptr |-> StackEnd, size |-> StackSize] \in [ptr : Nat, size : Nat \ {0}]
    BY <1>1, LayoutAssumption
  <2>2. Aligned(StackEnd)
    BY LayoutAssumption DEF Aligned
  <2> QED BY <2>1, <2>2, RequestFacts DEF Requested, StackPages
<1>5. n \in Nat /\ paging_align_address(q.stack * PageSize + StackSize) = (q.stack + n) * PageSize
  <2>1. n \in Nat
    BY <1>1, AlignedUp, 0 \in Nat
  <2> QED BY <1>1, <2>1, PagesFromStart
<1>6. d = Mapped(program, v, q.stack, n, Writeable)
  BY <1>4, <1>5 DEF process_map_memory, Mapped
<1>7. StackPages = v .. v + n - 1 /\ v .. v + n - 1 \subseteq Pages
  BY <1>4, LayoutAssumption DEF Region
<1> HIDE DEF d, program, v, n
<1>8. /\ d \in Directory
      /\ \A page \in Pages :
           paging_get(d, page) = IF page \in v .. v + n - 1 THEN [frame |-> q.stack + page - v, flags |-> Writeable]
                                 ELSE paging_get(program, page)
  BY <1>3, <1>4, <1>5, <1>6, <1>7, MapFacts
<1>9. Memory(q) = Segments(q) \cup Stack(q)
  BY DEF Memory, Allocated
<1>10. ASSUME NEW m \in Memory(q) PROVE paging_get(d, m.page) = EntryOf(m)
  <2>1. CASE m \in Segments(q)
    <3>1. m.page \in ProgramPages
      BY <2>1, LoadedMemory
    <3> QED BY <1>3, <1>7, <1>8, <2>1, <3>1 DEF ProgramPages
  <2>2. CASE m \in Stack(q)
    <3>1. PICK page \in StackPages : m = [page |-> page, frame |-> q.stack + page - v, write |-> TRUE]
      BY <2>2 DEF Stack, v
    <3> QED BY <1>7, <1>8, <3>1 DEF EntryOf
  <2> QED BY <1>9, <2>1, <2>2
<1>11. ASSUME NEW page \in Pages, \A m \in Memory(q) : m.page # page
       PROVE  paging_get(d, page) = [frame |-> page, flags |-> ReadOnly]
  <2>1. page \notin v .. v + n - 1
    <3> SUFFICES ASSUME page \in StackPages PROVE FALSE
      BY <1>7
    <3> DEFINE m == [page |-> page, frame |-> q.stack + page - v, write |-> TRUE]
    <3>1. m \in Stack(q) /\ m.page = page
      BY DEF Stack, v
    <3> QED BY <1>9, <1>11, <3>1
  <2> QED BY <1>2, <1>3, <1>8, <1>9, <1>11, <2>1
<1> QED BY <1>8, <1>10, <1>11 DEF d, Shows, new

-----------------------------------------------------------------------------
(* The lowest and the highest address of a program                         *)

(* Each bound is that of a header that is loaded, and holds them all.      *)

BaseAmong(e, phdrs, loaded, memory) ==
  /\ \E i \in loaded : e.virtual_base = phdrs[i].vaddr /\ e.physical_base = memory + phdrs[i].offset
  /\ \A i \in loaded : e.virtual_base <= phdrs[i].vaddr

EndAmong(e, phdrs, loaded, memory) ==
  /\ \E i \in loaded : /\ e.virtual_end = phdrs[i].vaddr + phdrs[i].filesz
                       /\ e.physical_end = memory + phdrs[i].offset + phdrs[i].filesz
  /\ \A i \in loaded : phdrs[i].vaddr + phdrs[i].filesz <= e.virtual_end

(* They are those of headers that are loaded (elfloader.c:143-164).        *)
LEMMA EndsFacts ==
  ASSUME NEW file \in Files, elf_validate_loaded(file), NEW memory \in Nat
  PROVE  LET e == elf_process_pheaders(file, memory)
             loaded == {i \in DOMAIN file.phdrs : file.phdrs[i].load}
         IN  e \in Ends /\ BaseAmong(e, file.phdrs, loaded, memory) /\ EndAmong(e, file.phdrs, loaded, memory)
<1> DEFINE n == Len(file.phdrs)
           h(i) == file.phdrs[i]
           Step(x, i) == IF ~ h(i).load THEN x ELSE elf_process_phdr_pt_load(x, h(i), memory)
           Body(g) == [i \in 0 .. n |-> IF i = 0 THEN NoEnds
                         ELSE IF ~ h(i).load THEN g[i - 1] ELSE elf_process_phdr_pt_load(g[i - 1], h(i), memory)]
           after == CHOOSE g : g = Body(g)
           e == elf_process_pheaders(file, memory)
           Among(k) == {i \in 1 .. k : h(i).load}
<1>1. n \in Nat /\ DOMAIN file.phdrs = 1 .. n
  BY FilesAssumption
<1>2. e = after[n]
  BY DEF elf_process_pheaders
<1> HIDE DEF e
<1>3. ASSUME NEW i \in 1 .. n
      PROVE  /\ h(i).load \in BOOLEAN /\ h(i).vaddr \in Nat /\ h(i).offset \in Nat /\ h(i).filesz \in Nat
             /\ h(i).load => h(i).vaddr > 0
  <2>1. i \in DOMAIN file.phdrs
    BY <1>1
  <2>2. h(i) \in ProgramHeader /\ (h(i).load => h(i).vaddr > 0)
    BY <2>1, SegmentFacts
  <2> HIDE DEF h
  <2> QED BY <2>2 DEF ProgramHeader
<1>4. \E i \in 1 .. n : h(i).load
  BY <1>1, FilesAssumption DEF SegmentsApart
<1> HIDE DEF n, h
<1>5. ASSUME NEW i \in 1 .. n, NEW x \in Ends PROVE Step(x, i) \in Ends
  <2>1. /\ \A a, b \in Int : /\ [x EXCEPT !.virtual_base = a, !.physical_base = b] \in Ends
                              /\ \A z \in Ends : [z EXCEPT !.virtual_end = a, !.physical_end = b] \in Ends
    BY DEF Ends
  <2>2. h(i).vaddr \in Int /\ memory + h(i).offset \in Int
    BY <1>3
  <2>3. BaseBefore(x, h(i), memory) \in Ends
    BY <2>1, <2>2 DEF BaseBefore
  <2>4. h(i).vaddr + h(i).filesz \in Int /\ memory + h(i).offset + h(i).filesz \in Int
    BY <1>3
  <2>5. EndAfter(BaseBefore(x, h(i), memory), h(i), memory) \in Ends
    BY <2>1, <2>3, <2>4 DEF EndAfter
  <2> QED BY <2>5 DEF elf_process_phdr_pt_load
<1>6. NoEnds \in Ends
  BY DEF NoEnds, Ends
<1>7. Body(after) = after
  <2> DEFINE step == [i \in 1 .. n |-> [x \in Ends |-> Step(x, i)]]
  <2>1. \A i \in 1 .. n : \A x \in Ends : step[i][x] = Step(x, i) /\ step[i][x] \in Ends
    BY <1>5
  <2> HIDE DEF step, Step
  <2>2. PICK g : Iterates(g, n, NoEnds, step) /\ \A i \in 0 .. n : g[i] \in Ends
    <3>1. \A i \in 1 .. n : \A x \in Ends : step[i][x] \in Ends
      BY <2>1
    <3> QED BY <1>1, <1>6, <3>1, Iteration
  <2>3. ASSUME NEW i \in 0 .. n
        PROVE  (IF i = 0 THEN NoEnds ELSE step[i][g[i - 1]]) = IF i = 0 THEN NoEnds ELSE Step(g[i - 1], i)
    <3>1. i # 0 => i \in 1 .. n /\ i - 1 \in 0 .. n /\ g[i - 1] \in Ends
      BY <1>1, <2>2
    <3> QED BY <2>1, <3>1
  <2>4. g = [i \in 0 .. n |-> IF i = 0 THEN NoEnds ELSE step[i][g[i - 1]]]
    BY <2>2 DEF Iterates
  <2>5. g = [i \in 0 .. n |-> IF i = 0 THEN NoEnds ELSE Step(g[i - 1], i)]
    BY <2>3, <2>4, Zenon
  <2>6. g = Body(g)
    BY <2>5, Zenon DEF Step
  <2> HIDE DEF Body
  <2> QED BY <2>6
<1> HIDE DEF after
<1>8. \A i \in 0 .. n : after[i] = IF i = 0 THEN NoEnds ELSE Step(after[i - 1], i)
  <2>1. \A i \in 0 .. n : Body(after)[i] = IF i = 0 THEN NoEnds ELSE Step(after[i - 1], i)
    OBVIOUS
  <2> HIDE DEF Body
  <2> QED BY <1>7, <2>1
<1> HIDE DEF Body
<1> DEFINE Noted(k, x) ==
             IF Among(k) = {} THEN x = NoEnds
             ELSE BaseAmong(x, file.phdrs, Among(k), memory) /\ EndAmong(x, file.phdrs, Among(k), memory)
           inv == [k \in 0 .. n |-> {x \in Ends : Noted(k, x)}]
<1>9. after[0] \in inv[0]
  <2>1. after[0] = NoEnds /\ 0 \in 0 .. n
    BY <1>1, <1>8
  <2>2. Among(0) = {}
    OBVIOUS
  <2> QED BY <1>6, <2>1, <2>2
<1>10. ASSUME NEW k \in 1 .. n, after[k - 1] \in inv[k - 1] PROVE after[k] \in inv[k]
  <2> DEFINE x == after[k - 1]
             y == after[k]
             c == h(k)
  <2>1. k - 1 \in 0 .. n /\ k \in 0 .. n /\ k # 0 /\ k \in Nat
    BY <1>1
  <2>2. x \in Ends /\ Noted(k - 1, x)
    BY <1>10, <2>1
  <2>3. y = Step(x, k) /\ y \in Ends
    BY <1>5, <1>8, <2>1, <2>2
  <2>4. c = file.phdrs[k]
    BY DEF h
  <2>5. Among(k) = IF c.load THEN Among(k - 1) \cup {k} ELSE Among(k - 1)
    BY <2>1
  <2>6. c.load \in BOOLEAN /\ c.vaddr \in Nat /\ c.offset \in Nat /\ c.filesz \in Nat /\ (c.load => c.vaddr > 0)
    BY <1>3
  <2>7. \A i \in Among(k - 1) : h(i) = file.phdrs[i] /\ h(i).vaddr \in Nat /\ h(i).filesz \in Nat /\ h(i).vaddr > 0
    <3>1. \A i \in Among(k - 1) : i \in 1 .. n /\ h(i).load
      BY <1>1, <2>1
    <3>2. \A i \in 1 .. n : h(i) = file.phdrs[i]
      BY DEF h
    <3> QED BY <1>3, <3>1, <3>2
  <2> HIDE DEF x, y, c, h
  <2>8. CASE ~ c.load
    <3>1. y = x /\ Among(k) = Among(k - 1)
      BY <2>3, <2>5, <2>8 DEF c
    <3>2. Noted(k, y)
      BY <2>2, <3>1
    <3> HIDE DEF Noted, Among
    <3> QED BY <2>1, <2>3, <3>2 DEF y
  <2>9. CASE c.load
    <3> DEFINE b == BaseBefore(x, c, memory)
    <3>1. y = EndAfter(b, c, memory)
      BY <2>3, <2>9 DEF elf_process_phdr_pt_load, c
    <3>2. Among(k) = Among(k - 1) \cup {k}
      BY <2>5, <2>9
    <3> DEFINE old == Among(k - 1)
    <3>3. /\ y.virtual_base = b.virtual_base /\ y.physical_base = b.physical_base
          /\ b.virtual_end = x.virtual_end /\ b.physical_end = x.physical_end
          /\ IF x.virtual_base >= c.vaddr \/ x.virtual_base = 0
             THEN b.virtual_base = c.vaddr /\ b.physical_base = memory + c.offset
             ELSE b.virtual_base = x.virtual_base /\ b.physical_base = x.physical_base
          /\ IF x.virtual_end <= c.vaddr + c.filesz \/ x.virtual_end = 0
             THEN y.virtual_end = c.vaddr + c.filesz /\ y.physical_end = memory + c.offset + c.filesz
             ELSE y.virtual_end = x.virtual_end /\ y.physical_end = x.physical_end
      BY <2>2, <3>1 DEF Ends, EndAfter, BaseBefore
    <3>4. CASE old = {}
      <4>1. x.virtual_base = 0 /\ x.virtual_end = 0
        BY <2>2, <3>4 DEF NoEnds
      <4>2. Among(k) = {k}
        BY <3>2, <3>4
      <4>3. y.virtual_base = c.vaddr /\ y.physical_base = memory + c.offset
            /\ y.virtual_end = c.vaddr + c.filesz /\ y.physical_end = memory + c.offset + c.filesz
        BY <3>3, <4>1
      <4>4. BaseAmong(y, file.phdrs, {k}, memory) /\ EndAmong(y, file.phdrs, {k}, memory)
        BY <2>4, <2>6, <4>3 DEF BaseAmong, EndAmong
      <4>5. Noted(k, y)
        BY <4>2, <4>4
      <4> HIDE DEF Noted, Among
      <4> QED BY <2>1, <2>3, <4>5 DEF y
    <3>5. CASE old # {}
      <4>1. BaseAmong(x, file.phdrs, old, memory) /\ EndAmong(x, file.phdrs, old, memory)
        BY <2>2, <3>5
      <4> HIDE DEF old
      <4>2. x.virtual_base \in Int /\ x.virtual_end \in Int
        BY <2>2 DEF Ends
      <4>3. x.virtual_base > 0 /\ x.virtual_end > 0
        BY <2>7, <4>1 DEF BaseAmong, EndAmong, old
      <4>4. BaseAmong(y, file.phdrs, old \cup {k}, memory)
        <5>1. CASE x.virtual_base >= c.vaddr
          <6>1. y.virtual_base = c.vaddr /\ y.physical_base = memory + c.offset
            BY <3>3, <5>1
          <6>2. \A i \in old : c.vaddr <= file.phdrs[i].vaddr
            BY <2>6, <2>7, <4>1, <4>2, <5>1 DEF BaseAmong, old
          <6> QED BY <2>4, <2>6, <6>1, <6>2 DEF BaseAmong
        <5>2. CASE ~ x.virtual_base >= c.vaddr
          <6>1. y.virtual_base = x.virtual_base /\ y.physical_base = x.physical_base
            BY <3>3, <4>3, <5>2
          <6> QED BY <2>4, <2>6, <4>1, <4>2, <5>2, <6>1 DEF BaseAmong
        <5> QED BY <5>1, <5>2
      <4>5. EndAmong(y, file.phdrs, old \cup {k}, memory)
        <5>1. CASE x.virtual_end <= c.vaddr + c.filesz
          <6>1. y.virtual_end = c.vaddr + c.filesz /\ y.physical_end = memory + c.offset + c.filesz
            BY <3>3, <5>1
          <6>2. \A i \in old : file.phdrs[i].vaddr + file.phdrs[i].filesz <= c.vaddr + c.filesz
            BY <2>6, <2>7, <4>1, <4>2, <5>1 DEF EndAmong, old
          <6> QED BY <2>4, <2>6, <6>1, <6>2 DEF EndAmong
        <5>2. CASE ~ x.virtual_end <= c.vaddr + c.filesz
          <6>1. y.virtual_end = x.virtual_end /\ y.physical_end = x.physical_end
            BY <3>3, <4>3, <5>2
          <6> QED BY <2>4, <2>6, <4>1, <4>2, <5>2, <6>1 DEF EndAmong
        <5> QED BY <5>1, <5>2
      <4>6. Among(k) # {} /\ Among(k) = old \cup {k}
        BY <3>2 DEF old
      <4>7. Noted(k, y)
        BY <4>4, <4>5, <4>6
      <4> HIDE DEF Noted, Among
      <4> QED BY <2>1, <2>3, <4>7 DEF y
    <3> QED BY <3>4, <3>5
  <2> QED BY <2>8, <2>9
<1> HIDE DEF inv
<1>11. after[n] \in inv[n]
  <2>1. \A k \in 0 .. n : after[k] \in inv[k]
    BY <1>1, <1>9, <1>10, Stepwise
  <2> QED BY <1>1, <2>1
<1>12. after[n] \in Ends /\ Noted(n, after[n])
  <2> HIDE DEF Noted
  <2> QED BY <1>1, <1>11 DEF inv
<1>13. Among(n) # {}
  BY <1>4
<1>14. Among(n) = {i \in DOMAIN file.phdrs : file.phdrs[i].load}
  BY <1>1 DEF h
<1> HIDE DEF Among
<1> QED BY <1>2, <1>12, <1>13, <1>14 DEF e

(* The address an address is translated to (task.c:301-308).               *)
Translated(d, a) == FrameOf(d, PageOf(a)) * PageSize + (a % PageSize)

(* The tables translate an address of a segment to its place in the image. *)
LEMMA SegmentTranslated ==
  ASSUME NEW q \in Process, q.file \in Files, elf_validate_loaded(q.file), NEW i \in DOMAIN q.file.phdrs,
         q.file.phdrs[i].load, NEW d \in Directory, Shows(d, q), NEW k \in 0 .. q.file.phdrs[i].memsz - 1
  PROVE  Translated(d, q.file.phdrs[i].vaddr + k) = q.image * PageSize + q.file.phdrs[i].offset + k
<1> DEFINE h == q.file.phdrs[i]
           first == PageOf(h.offset)
           v == PageOf(h.vaddr)
           a == h.vaddr + k
           c == h.offset + k
           r == h.offset % PageSize
<1>1. PageSize \in Nat \ {0} /\ q.image \in Int
  BY LayoutAssumption DEF Process
<1>2. h \in ProgramHeader /\ h.memsz \in Nat \ {0} /\ r = h.vaddr % PageSize /\ first \in Nat /\ v \in Nat
  BY SegmentFacts
<1>3. h.vaddr \in Nat /\ h.offset \in Nat
  BY <1>2 DEF ProgramHeader
<1>4. k \in Nat /\ a \in Nat /\ c \in Nat /\ a \in h.vaddr .. h.vaddr + h.memsz - 1
  BY <1>2, <1>3
<1>5. PageOf(a) \in PagesOf(h.vaddr, h.memsz)
  BY <1>4 DEF PagesOf
<1>6. h.offset = PageSize * first + r /\ h.vaddr = PageSize * v + r /\ r \in Int
  <2>1. h.offset \in Int /\ h.vaddr \in Int
    BY <1>3
  <2>2. h.offset = PageSize * first + (h.offset % PageSize) /\ h.offset % PageSize \in 0 .. PageSize - 1
    BY <2>1, PageFacts
  <2>3. h.vaddr = PageSize * v + (h.vaddr % PageSize)
    BY <2>1, PageFacts
  <2> HIDE DEF first, v
  <2> QED BY <1>2, <2>2, <2>3
<1>7. Cell(q, h, PageOf(a)) \in Memory(q)
  BY <1>5, SegmentsAre DEF Memory
<1>8. FrameOf(d, PageOf(a)) = q.image + first + PageOf(a) - v
  <2>1. paging_get(d, Cell(q, h, PageOf(a)).page) = EntryOf(Cell(q, h, PageOf(a)))
    BY <1>7 DEF Shows
  <2> HIDE DEF h, a
  <2> QED BY <2>1 DEF FrameOf, EntryOf, Cell, h
<1> HIDE DEF h, r
<1>9. c = a + (first - v) * PageSize
  <2> HIDE DEF first, v
  <2>1. (first - v) * PageSize = PageSize * first - PageSize * v /\ PageSize * first \in Int /\ PageSize * v \in Int
    BY <1>1, <1>2
  <2> QED BY <1>3, <1>4, <1>6, <2>1
<1> HIDE DEF c, a, first, v
<1>10. PageOf(c) = PageOf(a) + (first - v) /\ c % PageSize = a % PageSize
  <2>1. first - v \in Int /\ a \in Int
    BY <1>2, <1>4
  <2> QED BY <1>9, <2>1, PageShift
<1>11. c = PageSize * PageOf(c) + (c % PageSize) /\ PageOf(c) \in Nat /\ c % PageSize \in 0 .. PageSize - 1 /\ PageOf(a) \in Nat
  BY <1>4, PageFacts
<1> DEFINE x == PageOf(a)
           y == PageOf(c)
           z == c % PageSize
<1>12. FrameOf(d, x) = q.image + y
  BY <1>1, <1>2, <1>8, <1>10, <1>11
<1>13. Translated(d, a) = (q.image + y) * PageSize + z
  BY <1>10, <1>12 DEF Translated
<1>14. c = PageSize * y + z /\ y \in Nat /\ z \in Nat
  BY <1>1, <1>11
<1> HIDE DEF x, y, z
<1>15. (q.image + y) * PageSize = q.image * PageSize + PageSize * y /\ q.image * PageSize \in Int /\ PageSize * y \in Int
  BY <1>1, <1>14
<1>16. Translated(d, a) = q.image * PageSize + c
  BY <1>13, <1>14, <1>15
<1> QED BY <1>3, <1>4, <1>15, <1>16 DEF a, c, h

(* So do they the ends noted.                                              *)
LEMMA EndsTranslated ==
  ASSUME NEW q \in Process, q.file \in Files, elf_validate_loaded(q.file), q.image \in Nat,
         NEW d \in Directory, Shows(d, q), q.ends = EndsOf(q)
  PROVE  LET e == q.ends
         IN  /\ Translated(d, e.virtual_base) = e.physical_base
             /\ Translated(d, e.virtual_end - 1) = e.physical_end - 1
             /\ \A h \in {x \in Range(q.file.phdrs) : x.load} :
                  e.virtual_base <= h.vaddr /\ h.vaddr + h.filesz <= e.virtual_end
<1> DEFINE e == q.ends
           phdrs == q.file.phdrs
           memory == q.image * PageSize
           loaded == {i \in DOMAIN phdrs : phdrs[i].load}
<1>1. memory \in Nat
  BY LayoutAssumption
<1>2. BaseAmong(e, phdrs, loaded, memory) /\ EndAmong(e, phdrs, loaded, memory)
  BY <1>1, EndsFacts DEF EndsOf
<1>3. \A i \in loaded : /\ phdrs[i].memsz = phdrs[i].filesz /\ phdrs[i].memsz \in Nat \ {0}
                        /\ phdrs[i].vaddr \in Nat /\ phdrs[i].offset \in Nat
  BY SegmentFacts DEF ProgramHeader
<1>4. \A i \in loaded : \A k \in 0 .. phdrs[i].memsz - 1 :
        Translated(d, phdrs[i].vaddr + k) = memory + phdrs[i].offset + k
  BY SegmentTranslated
<1> HIDE DEF e, phdrs, memory
<1>5. Translated(d, e.virtual_base) = e.physical_base
  <2>1. PICK i \in loaded : e.virtual_base = phdrs[i].vaddr /\ e.physical_base = memory + phdrs[i].offset
    BY <1>2 DEF BaseAmong
  <2>2. 0 \in 0 .. phdrs[i].memsz - 1 /\ phdrs[i].vaddr + 0 = phdrs[i].vaddr
        /\ memory + phdrs[i].offset + 0 = memory + phdrs[i].offset
    BY <1>1, <1>3, <2>1
  <2>3. Translated(d, phdrs[i].vaddr + 0) = memory + phdrs[i].offset + 0
    BY <1>4, <2>2
  <2> QED BY <2>1, <2>2, <2>3
<1>6. Translated(d, e.virtual_end - 1) = e.physical_end - 1
  <2>1. PICK i \in loaded : /\ e.virtual_end = phdrs[i].vaddr + phdrs[i].filesz
                            /\ e.physical_end = memory + phdrs[i].offset + phdrs[i].filesz
    BY <1>2 DEF EndAmong
  <2> DEFINE k == phdrs[i].memsz - 1
  <2>2. k \in 0 .. phdrs[i].memsz - 1 /\ phdrs[i].vaddr + k = e.virtual_end - 1
        /\ memory + phdrs[i].offset + k = e.physical_end - 1
    BY <1>1, <1>3, <2>1
  <2>3. Translated(d, phdrs[i].vaddr + k) = memory + phdrs[i].offset + k
    BY <1>4, <2>2
  <2> QED BY <2>2, <2>3
<1>7. ASSUME NEW h \in {x \in Range(phdrs) : x.load}
      PROVE  e.virtual_base <= h.vaddr /\ h.vaddr + h.filesz <= e.virtual_end
  <2>1. PICK i \in loaded : h = phdrs[i]
    BY DEF Range
  <2> QED BY <1>2, <2>1 DEF BaseAmong, EndAmong
<1> QED BY <1>5, <1>6, <1>7 DEF e, phdrs

-----------------------------------------------------------------------------
(* What the kernel does through the tables of a process                    *)

(* A process that is loaded.                                               *)
LEMMA LoadedFacts ==
  ASSUME NEW s, AddressOK(s), NEW p \in Processes, s.proc[p].alive
  PROVE  /\ s \in State /\ ~ s.faulted /\ ~ s.strayed /\ s.taken \subseteq Heap /\ p # Kernel
         /\ s.proc[p] \in Process /\ s.proc[p].file \in Files /\ s.tables[p] \in Directory
         /\ OwnsApart(s.proc[p]) /\ Own(s.proc[p]) \subseteq s.taken /\ Own(s.proc[p]) \subseteq Heap
         /\ Shows(s.tables[p], s.proc[p]) /\ KernelInPlace(s.tables[p], s.proc[p])
         /\ s.proc[p].task \in Own(s.proc[p]) /\ s.proc[p].task \in Pages
<1>1. s \in State /\ ProcessOK(s.proc[p], s.tables[p], s.taken)
  BY DEF AddressOK
<1>2. s.taken \subseteq Heap
  BY <1>1 DEF State
<1>3. s.proc[p].task \in Own(s.proc[p])
  BY DEF Own, Fixed
<1> QED BY <1>1, <1>2, <1>3, KernelAssumption, LayoutAssumption DEF AddressOK, ProcessOK

(* Its memory, with what the tables say of it.                             *)
LEMMA LoadedShows ==
  ASSUME NEW s, AddressOK(s), NEW p \in Processes, s.proc[p].alive, NEW m \in Memory(s.proc[p])
  PROVE  /\ m.page \in Pages /\ m.page \notin KernelPages
         /\ m.frame \in (Own(s.proc[p]) \ {s.proc[p].task}) \cup Shared(s.proc[p])
         /\ m.page \in Heap => m.page \in s.taken
         /\ paging_get(s.tables[p], m.page) = EntryOf(m) /\ IsPresent(EntryOf(m).flags)
<1>1. /\ s.proc[p] \in Process /\ s.proc[p].file \in Files /\ OwnsApart(s.proc[p])
      /\ Own(s.proc[p]) \subseteq s.taken /\ Own(s.proc[p]) \subseteq Heap /\ Shows(s.tables[p], s.proc[p])
  BY LoadedFacts
<1>2. paging_get(s.tables[p], m.page) = EntryOf(m)
  BY <1>1 DEF Shows
<1>3. IsPresent(EntryOf(m).flags)
  BY FlagFacts DEF EntryOf
<1> QED BY <1>1, <1>2, <1>3, MemoryFacts

(* An entry where it has memory is present and leads to it.                *)
LEMMA LoadedFrames ==
  ASSUME NEW s, AddressOK(s), NEW p \in Processes, s.proc[p].alive
  PROVE  \A m \in Memory(s.proc[p]) : /\ m.frame = FrameOf(s.tables[p], m.page)
                                      /\ IsPresent(paging_get(s.tables[p], m.page).flags)
                                      /\ m.page \in Pages /\ (m.page \in Heap => m.page \in s.taken)
<1> SUFFICES ASSUME NEW m \in Memory(s.proc[p])
             PROVE  /\ m.frame = FrameOf(s.tables[p], m.page)
                    /\ IsPresent(paging_get(s.tables[p], m.page).flags)
                    /\ m.page \in Pages /\ (m.page \in Heap => m.page \in s.taken)
  OBVIOUS
<1>1. /\ paging_get(s.tables[p], m.page) = EntryOf(m) /\ IsPresent(EntryOf(m).flags)
      /\ m.page \in Pages /\ (m.page \in Heap => m.page \in s.taken)
  BY LoadedShows
<1>2. EntryOf(m).frame = m.frame
  BY DEF EntryOf
<1> QED BY <1>1, <1>2 DEF FrameOf

(* To its tables, where the kernel finds itself (task.c:106).              *)
LEMMA SwitchFacts ==
  ASSUME NEW s, AddressOK(s), NEW p \in Processes, s.proc[p].alive
  PROVE  /\ paging_switch(s, p) = [s EXCEPT !.cr3 = p]
         /\ task_switch(s, p) = [s EXCEPT !.current = p, !.cr3 = p]
<1>1. /\ s \in State /\ ~ s.faulted /\ p # Kernel /\ KernelInPlace(s.tables[p], s.proc[p])
  BY LoadedFacts
<1> DEFINE t == [s EXCEPT !.cr3 = p]
           u == [s EXCEPT !.current = p, !.cr3 = p]
<1>2. /\ t \in State /\ t.cr3 = p /\ t.proc = s.proc /\ t.tables = s.tables /\ t.faulted = FALSE
      /\ u \in State /\ u.cr3 = p /\ u.proc = s.proc /\ u.tables = s.tables /\ u.faulted = FALSE
  BY <1>1 DEF State
<1>3. [t EXCEPT !.faulted = FALSE] = t /\ [u EXCEPT !.faulted = FALSE] = u
  <2>1. \A x \in State : x.faulted = FALSE => [x EXCEPT !.faulted = FALSE] = x
    BY DEF State
  <2> HIDE DEF t, u
  <2> QED BY <1>2, <2>1
<1>4. paging_switch(s, p) = [t EXCEPT !.faulted = @ \/ ~ Sees(t, {})]
  BY DEF paging_switch, Checked
<1>5. task_switch(s, p) = [u EXCEPT !.faulted = @ \/ ~ Sees(u, {s.proc[p].task})]
  BY DEF task_switch, Checked
<1> HIDE DEF t, u
<1>6. Sees(t, {}) /\ Sees(u, {s.proc[p].task})
  BY <1>1, <1>2 DEF Sees, Tables, KernelInPlace
<1>7. paging_switch(s, p) = [t EXCEPT !.faulted = FALSE] /\ task_switch(s, p) = [u EXCEPT !.faulted = FALSE]
  BY <1>2, <1>4, <1>5, <1>6
<1> QED BY <1>3, <1>7 DEF t, u

(* Where the program has this frame at this page, if it has anything       *)
(* there, nothing is recorded.                                             *)
LEMMA FoundFacts ==
  ASSUME NEW s \in State, ~ s.strayed, NEW p, NEW page, NEW frame,
         \A m \in Memory(s.proc[p]) : m.page = page => m.frame = frame
  PROVE  Found(s, p, page, frame) = s
<1>1. [s EXCEPT !.strayed = FALSE] = s
  BY DEF State
<1>2. (s.strayed \/ \E m \in Memory(s.proc[p]) : m.page = page /\ m.frame # frame) = FALSE
  BY DEF State
<1> QED BY <1>1, <1>2 DEF Found

(* The kernel finds its program's memory where it looks for it: reading    *)
(* leaves no trace in the state (task.c:279-298).                          *)
LEMMA TouchFacts ==
  ASSUME NEW s \in State, ~ s.faulted, ~ s.strayed, NEW p, NEW page,
         IsPresent(paging_get(Tables(s), page).flags),
         \A m \in Memory(s.proc[p]) : m.page = page => m.frame = paging_get(Tables(s), page).frame
  PROVE  Touch(s, p, page) = s
<1> DEFINE entry == paging_get(Tables(s), page)
<1>1. [s EXCEPT !.faulted = FALSE] = s
  BY DEF State
<1>2. (s.faulted \/ ~ IsPresent(entry.flags)) = FALSE
  BY DEF State
<1>3. Touch(s, p, page) = Found([s EXCEPT !.faulted = @ \/ ~ IsPresent(entry.flags)], p, page, entry.frame)
  BY DEF Touch
<1>4. Found(s, p, page, entry.frame) = s
  BY FoundFacts
<1> HIDE DEF entry
<1> QED BY <1>1, <1>2, <1>3, <1>4

(* And so does translating an address (task.c:301-308).                    *)
LEMMA TranslateFacts ==
  ASSUME NEW s, AddressOK(s), NEW p \in Processes, s.proc[p].alive, NEW page
  PROVE  task_virtual_address_to_physical(s, p, page) = s
<1>1. s \in State /\ ~ s.strayed
  BY LoadedFacts
<1>2. \A m \in Memory(s.proc[p]) : m.page = page => m.frame = FrameOf(s.tables[p], page)
  BY LoadedFrames
<1> QED BY <1>1, <1>2, FoundFacts DEF task_virtual_address_to_physical

(* A page of its stack.                                                    *)
LEMMA StackFacts ==
  ASSUME NEW q, NEW page \in StackPages
  PROVE  \E m \in Memory(q) : m.page = page
<1> DEFINE m == [page |-> page, frame |-> q.stack + page - PageOf(StackEnd), write |-> TRUE]
<1>1. m \in Stack(q) /\ m.page = page
  BY DEF Stack
<1> QED BY <1>1 DEF Memory

(* The item is read and the kernel's tables are used again (task.c:279).   *)
LEMMA StackItemFacts ==
  ASSUME NEW s, AddressOK(s), NEW p \in Processes, s.proc[p].alive
  PROVE  task_get_stack_item(s, p) = [s EXCEPT !.cr3 = Kernel]
<1> DEFINE at == PageOf(StackEnd + StackSize - 1)
           t == [s EXCEPT !.cr3 = p]
<1>1. s \in State /\ ~ s.faulted /\ ~ s.strayed /\ p # Kernel
  BY LoadedFacts
<1>2. t \in State /\ t.cr3 = p /\ t.proc = s.proc /\ t.tables = s.tables /\ ~ t.faulted /\ ~ t.strayed
      /\ [t EXCEPT !.cr3 = Kernel] = [s EXCEPT !.cr3 = Kernel]
  BY <1>1 DEF State
<1>3. at \in StackPages
  <2>1. StackEnd + StackSize - 1 \in StackEnd .. StackEnd + StackSize - 1
    BY LayoutAssumption
  <2> QED BY <2>1 DEF StackPages, PagesOf
<1>4. paging_switch(s, p) = t
  BY SwitchFacts
<1> HIDE DEF at, t
<1>5. PICK m \in Memory(s.proc[p]) : m.page = at
  BY <1>3, StackFacts
<1>6. /\ IsPresent(paging_get(s.tables[p], at).flags)
      /\ \A x \in Memory(s.proc[p]) : x.page = at => x.frame = paging_get(s.tables[p], at).frame
  BY <1>5, LoadedFrames DEF FrameOf
<1>7. Tables(t) = s.tables[p]
  BY <1>1, <1>2 DEF Tables
<1>8. Touch(t, p, at) = t
  <2>1. /\ IsPresent(paging_get(Tables(t), at).flags)
        /\ \A x \in Memory(t.proc[p]) : x.page = at => x.frame = paging_get(Tables(t), at).frame
    BY <1>2, <1>6, <1>7
  <2> QED BY <1>2, <2>1, TouchFacts
<1> QED BY <1>2, <1>4, <1>5, <1>8 DEF task_get_stack_item, kernel_page, at

(* The copy of a string from an address where there is something: tmp is   *)
(* mapped, written and unmapped, and the tables are what they were         *)
(* (task.c:154-198).                                                       *)
LEMMA CopyFacts ==
  ASSUME NEW s, AddressOK(s), s.cr3 = Kernel, NEW p \in Processes, s.proc[p].alive,
         NEW at \in Pages, ~ CopyFaults(s, p, at)
  PROVE  copy_string_from_task(s, p, at) = s
<1> DEFINE tmp == Place(s, 1)
           d == s.tables[p]
           old == paging_get(s.tables[p], tmp)
           mapped == [Taken(s, tmp, PageSize) EXCEPT !.tables[p] = ShowTmp(@, tmp)]
           switched == [mapped EXCEPT !.cr3 = p]
           read == Touch(Checked(paging_switch(mapped, p), {tmp}), p, at)
           restored == [kernel_page(read) EXCEPT !.tables[p] = RestoreEntry(@, tmp, old)]
<1> SUFFICES ASSUME tmp # Null PROVE Freed(restored, tmp, PageSize) = s
  BY DEF copy_string_from_task
<1>1. /\ s \in State /\ ~ s.faulted /\ ~ s.strayed /\ p # Kernel /\ d \in Directory /\ s.taken \subseteq Heap
      /\ KernelInPlace(d, s.proc[p])
  BY LoadedFacts
<1>2. tmp \in Nat /\ tmp \in Heap /\ tmp \notin s.taken
  BY PlaceFacts
<1>3. /\ tmp \in Pages /\ tmp \notin KernelPages
      /\ at # tmp => IsPresent(paging_get(d, at).flags)
      /\ \A m \in Memory(s.proc[p]) : m.page # tmp /\ m.page \in Pages /\ m.frame = paging_get(d, m.page).frame
  <2>1. tmp \in Pages /\ tmp \notin KernelPages
    BY <1>2, LayoutAssumption
  <2>2. at # tmp => IsPresent(paging_get(d, at).flags)
    BY DEF CopyFaults
  <2>3. \A m \in Memory(s.proc[p]) : m.page # tmp /\ m.page \in Pages /\ m.frame = paging_get(d, m.page).frame
    BY <1>2, LoadedFrames DEF FrameOf, d
  <2> QED BY <2>1, <2>2, <2>3
<1>4. Region(tmp, PageSize) = {tmp} /\ {tmp} \subseteq Heap
  BY <1>2, RegionFacts
<1> HIDE DEF tmp, d
<1> DEFINE e == ShowTmp(d, tmp)
<1>5. /\ e \in Directory
      /\ \A page \in Pages : paging_get(e, page) = IF page = tmp THEN [frame |-> tmp, flags |-> Writeable]
                                                   ELSE paging_get(d, page)
  <2>1. e = Mapped(d, tmp, tmp, 1, Writeable)
    BY DEF ShowTmp, Mapped
  <2>2. tmp .. tmp + 1 - 1 = {tmp} /\ {tmp} \subseteq Pages /\ tmp \in Int /\ 1 \in Nat
    BY <1>2, <1>3
  <2>3. /\ Mapped(d, tmp, tmp, 1, Writeable) \in Directory
        /\ \A page \in Pages :
             paging_get(Mapped(d, tmp, tmp, 1, Writeable), page)
               = IF page \in tmp .. tmp + 1 - 1 THEN [frame |-> tmp + page - tmp, flags |-> Writeable]
                 ELSE paging_get(d, page)
    BY <1>1, <1>2, <2>2, MapFacts
  <2>4. tmp + tmp - tmp = tmp
    BY <1>2
  <2> HIDE DEF e
  <2> QED BY <2>1, <2>2, <2>3, <2>4
<1>6. Taken(s, tmp, PageSize) = [s EXCEPT !.taken = s.taken \cup {tmp}]
  BY <1>1, <1>2, <1>4, TakenFacts
<1>7. mapped = [s EXCEPT !.taken = s.taken \cup {tmp}, !.tables = [s.tables EXCEPT ![p] = e]]
  BY <1>1, <1>6 DEF State, d
<1> HIDE DEF e
<1>8. /\ switched \in State /\ switched.cr3 = p /\ switched.proc = s.proc /\ switched.tables[p] = e
      /\ switched.faulted = FALSE /\ switched.strayed = FALSE
      /\ mapped \in State
  <2>1. [s.tables EXCEPT ![p] = e] \in [Processes -> Directory] /\ [s.tables EXCEPT ![p] = e][p] = e
    BY <1>1, <1>5 DEF State
  <2>2. s.taken \cup {tmp} \subseteq Heap
    BY <1>1, <1>2
  <2> DEFINE T == [s.tables EXCEPT ![p] = e]
             K == s.taken \cup {tmp}
  <2> HIDE DEF T, K
  <2>3. mapped = [s EXCEPT !.taken = K, !.tables = T]
    BY <1>7 DEF T, K
  <2>4. T \in [Processes -> Directory] /\ K \in SUBSET Heap /\ T[p] = e
    BY <2>1, <2>2 DEF T, K
  <2> HIDE DEF mapped
  <2> QED BY <1>1, <2>3, <2>4 DEF State
<1>9. Tables(switched) = e
  BY <1>1, <1>8 DEF Tables
<1>10. Sees(switched, {}) /\ Sees(switched, {tmp})
  <2>1. \A page \in KernelPages : InPlace(e, page)
    BY <1>1, <1>3, <1>5, LayoutAssumption DEF KernelInPlace, InPlace
  <2>2. InPlace(e, tmp)
    BY <1>3, <1>5, FlagFacts DEF InPlace
  <2> HIDE DEF switched
  <2> QED BY <1>8, <1>9, <2>1, <2>2 DEF Sees
<1>11. paging_switch(mapped, p) = switched /\ Checked(switched, {tmp}) = switched
  <2>1. \A x \in State : x.faulted = FALSE => [x EXCEPT !.faulted = FALSE] = x
    BY DEF State
  <2>2. paging_switch(mapped, p) = [switched EXCEPT !.faulted = @ \/ ~ Sees(switched, {})]
    BY DEF paging_switch, Checked
  <2> HIDE DEF switched, mapped
  <2> QED BY <1>8, <1>10, <2>1, <2>2 DEF Checked
<1>12. read = switched
  <2> HIDE DEF switched, mapped
  <2>1. /\ IsPresent(paging_get(e, at).flags)
        /\ \A m \in Memory(s.proc[p]) : m.page = at => m.frame = paging_get(e, at).frame
    BY <1>3, <1>5, FlagFacts
  <2>2. Touch(switched, p, at) = switched
    BY <1>8, <1>9, <2>1, TouchFacts
  <2> QED BY <1>11, <2>2
<1>13. RestoreEntry(e, tmp, old) = d
  <2>1. old \in Entry
    BY <1>1, <1>3, GetFacts DEF d
  <2>2. /\ paging_set(e, tmp, old) \in Directory
        /\ \A page \in Pages : paging_get(paging_set(e, tmp, old), page) = IF page = tmp THEN old ELSE paging_get(e, page)
    BY <1>3, <1>5, <2>1, SetFacts
  <2>3. \A page \in Pages : paging_get(paging_set(e, tmp, old), page) = paging_get(d, page)
    BY <1>5, <2>2 DEF d
  <2> QED BY <1>1, <2>2, <2>3, SameTables DEF RestoreEntry
<1>14. restored = [s EXCEPT !.taken = s.taken \cup {tmp}]
  <2>1. kernel_page(switched) = mapped
    BY <1>1, <1>7 DEF kernel_page, State
  <2>2. mapped.tables[p] = e
    BY <1>1, <1>7 DEF State
  <2>3. restored = [mapped EXCEPT !.tables[p] = d]
    BY <1>12, <1>13, <2>1, <2>2
  <2>4. [mapped EXCEPT !.tables[p] = d] = [s EXCEPT !.taken = s.taken \cup {tmp}]
    <3> DEFINE T == [s.tables EXCEPT ![p] = e]
               K == s.taken \cup {tmp}
    <3>1. [T EXCEPT ![p] = d] = s.tables
      BY <1>1 DEF State, d
    <3> HIDE DEF T, K
    <3>2. mapped = [s EXCEPT !.taken = K, !.tables = T]
      BY <1>7 DEF T, K
    <3> HIDE DEF mapped, d
    <3>3. [mapped EXCEPT !.tables[p] = d] = [s EXCEPT !.taken = K]
      BY <1>1, <3>1, <3>2 DEF State
    <3> QED BY <3>3 DEF K
  <2> QED BY <2>3, <2>4
<1> HIDE DEF restored
<1>15. restored \in State /\ restored.taken = s.taken \cup {tmp}
  <2> DEFINE K == s.taken \cup {tmp}
  <2>1. K \in SUBSET Heap
    BY <1>1, <1>2
  <2> HIDE DEF K
  <2>2. restored = [s EXCEPT !.taken = K]
    BY <1>14 DEF K
  <2> QED BY <1>1, <2>1, <2>2 DEF State, K
<1>16. Freed(restored, tmp, PageSize) = [restored EXCEPT !.taken = restored.taken \ {tmp}]
  <2>1. tmp \in Int
    BY <1>2
  <2>2. Freed(restored, tmp, PageSize) = [restored EXCEPT !.taken = restored.taken \ Region(tmp, PageSize)]
    BY <1>15, <2>1, FreedFacts
  <2> QED BY <1>4, <2>2
<1>17. (s.taken \cup {tmp}) \ {tmp} = s.taken
  BY <1>2
<1>18. Freed(restored, tmp, PageSize) = [restored EXCEPT !.taken = s.taken]
  BY <1>15, <1>16, <1>17
<1>19. [restored EXCEPT !.taken = s.taken] = s
  <2> DEFINE K == s.taken \cup {tmp}
  <2>1. restored = [s EXCEPT !.taken = K]
    BY <1>14
  <2> HIDE DEF K
  <2> QED BY <1>1, <2>1 DEF State
<1> QED BY <1>18, <1>19

-----------------------------------------------------------------------------
(* What a function of a handler changes                                    *)

(* Nothing but process p.                                                  *)
OnlyChanges(s, t, p) ==
  /\ t.cr3 = s.cr3 /\ t.current = s.current
  /\ \A r \in Processes \ {p} : t.proc[r] = s.proc[r] /\ t.tables[r] = s.tables[r]

(* The pages of what p has in one of the states only.                      *)
Differs(s, t, p) ==
  UNION {PagesOf(a.ptr, a.size) :
           a \in (s.proc[p].allocations \cup t.proc[p].allocations)
                 \ (s.proc[p].allocations \cap t.proc[p].allocations)}

EntriesKept(s, t, p) ==
  \A page \in Pages \ Differs(s, t, p) : paging_get(t.tables[p], page) = paging_get(s.tables[p], page)

(* What is enough for the state after such a change.                       *)
LEMMA ChangeOK ==
  ASSUME NEW s, AddressOK(s), NEW t \in State, ~ t.faulted, ~ t.strayed, NEW p \in Processes, OnlyChanges(s, t, p),
         \A r \in Processes \ {p} : s.proc[r].alive => Own(s.proc[r]) \subseteq t.taken,
         t.proc[p].alive => /\ ProcessOK(t.proc[p], t.tables[p], t.taken)
                            /\ \A r \in Processes \ {p} : s.proc[r].alive => Own(t.proc[p]) \cap Own(s.proc[r]) = {}
  PROVE  AddressOK(t)
<1>1. ASSUME NEW r \in Processes, t.proc[r].alive PROVE ProcessOK(t.proc[r], t.tables[r], t.taken)
  <2>1. CASE r = p
    BY <1>1, <2>1
  <2>2. CASE r # p
    <3>1. t.proc[r] = s.proc[r] /\ t.tables[r] = s.tables[r]
      BY <2>2 DEF OnlyChanges
    <3>2. ProcessOK(s.proc[r], s.tables[r], s.taken) /\ Own(s.proc[r]) \subseteq t.taken
      BY <1>1, <2>2, <3>1 DEF AddressOK
    <3> QED BY <3>1, <3>2 DEF ProcessOK
  <2> QED BY <2>1, <2>2
<1>2. ASSUME NEW r \in Processes, NEW u \in Processes, r # u, t.proc[r].alive, t.proc[u].alive
      PROVE  Own(t.proc[r]) \cap Own(t.proc[u]) = {}
  <2>1. \A x \in Processes : x # p => t.proc[x] = s.proc[x]
    BY DEF OnlyChanges
  <2>2. CASE r = p
    BY <1>2, <2>1, <2>2
  <2>3. CASE u = p
    BY <1>2, <2>1, <2>3
  <2>4. CASE r # p /\ u # p
    BY <1>2, <2>1, <2>4 DEF AddressOK
  <2> QED BY <2>2, <2>3, <2>4
<1> QED BY <1>1, <1>2 DEF AddressOK

(* What a process was loaded with does not depend on what it allocates.    *)
LEMMA SameProgram ==
  ASSUME NEW q \in Process, NEW B \in SUBSET [ptr : Nat, size : Nat \ {0}]
  PROVE  LET r == [q EXCEPT !.allocations = B]
         IN  /\ r \in Process /\ r.allocations = B /\ r.alive = q.alive /\ r.file = q.file /\ r.task = q.task
             /\ r.image = q.image /\ r.ends = q.ends
             /\ Segments(r) = Segments(q) /\ Stack(r) = Stack(q) /\ Fixed(r) = Fixed(q) /\ EndsOf(r) = EndsOf(q)
<1> DEFINE r == [q EXCEPT !.allocations = B]
<1>1. /\ r \in Process /\ r.allocations = B /\ r.alive = q.alive /\ r.file = q.file /\ r.task = q.task
      /\ r.image = q.image /\ r.stack = q.stack /\ r.ends = q.ends
  BY DEF Process
<1> HIDE DEF r
<1>2. Segments(r) = Segments(q)
  BY <1>1 DEF Segments
<1>3. Stack(r) = Stack(q) /\ Fixed(r) = Fixed(q) /\ EndsOf(r) = EndsOf(q)
  BY <1>1 DEF Stack, Fixed, Copy, EndsOf
<1> QED BY <1>1, <1>2, <1>3 DEF r

(* A process with one allocation more: in frames that were free.           *)
LEMMA Grown ==
  ASSUME NEW q, NEW d, NEW taken \in SUBSET Heap, ProcessOK(q, d, taken), NEW f \in Nat, NEW size \in Nat \ {0},
         Region(f, size) \subseteq Heap \ taken
  PROVE  LET a == [ptr |-> f * PageSize, size |-> size]
             r == [q EXCEPT !.allocations = q.allocations \cup {a}]
             e == Mapped(d, f, f, FramesFor(size), Writeable)
         IN  /\ ProcessOK(r, e, taken \cup Region(f, size)) /\ Own(r) = Own(q) \cup Region(f, size)
             /\ r.alive = q.alive /\ r.allocations = q.allocations \cup {a} /\ a \notin q.allocations
             /\ PagesOf(a.ptr, a.size) = Region(f, size)
             /\ \A page \in Pages \ Region(f, size) : paging_get(e, page) = paging_get(d, page)
<1> DEFINE a == [ptr |-> f * PageSize, size |-> size]
           B == q.allocations \cup {a}
           r == [q EXCEPT !.allocations = B]
           n == FramesFor(size)
           e == Mapped(d, f, f, n, Writeable)
           now == taken \cup Region(f, size)
<1>1. /\ q \in Process /\ d \in Directory /\ q.file \in Files /\ Own(q) \subseteq taken /\ OwnsApart(q)
      /\ Shows(d, q) /\ WritesOwn(d, q) /\ KernelInPlace(d, q) /\ q.ends = EndsOf(q) /\ Own(q) \subseteq Heap
  BY DEF ProcessOK
<1>2. PageSize \in Nat \ {0} /\ n \in Nat \ {0} /\ Region(f, size) = f .. f + n - 1
  <2>1. n \in Nat \ {0}
    BY AlignedUp, 0 \in Nat
  <2> QED BY <2>1, LayoutAssumption DEF Region
<1>3. a \in [ptr : Nat, size : Nat \ {0}] /\ a.ptr = f * PageSize /\ a.size = size
  BY <1>2
<1>4. Aligned(a.ptr) /\ PageOf(a.ptr) = f
  BY <1>3, PageStart
<1> HIDE DEF a
<1>5. Requested(a) = Region(f, size) /\ PagesOf(a.ptr, a.size) = Region(f, size) /\ f \in Region(f, size)
  BY <1>3, <1>4, RequestFacts DEF Requested
<1>6. a \notin q.allocations
  <2> SUFFICES ASSUME a \in q.allocations PROVE FALSE
    OBVIOUS
  <2>1. f \in Own(q)
    BY <1>5 DEF Own
  <2> QED BY <1>1, <1>5, <2>1
<1>7. /\ r \in Process /\ r.allocations = B /\ r.alive = q.alive /\ r.file = q.file /\ r.task = q.task
      /\ r.image = q.image /\ r.ends = q.ends
      /\ Segments(r) = Segments(q) /\ Stack(r) = Stack(q) /\ Fixed(r) = Fixed(q) /\ EndsOf(r) = EndsOf(q)
  <2>1. B \in SUBSET [ptr : Nat, size : Nat \ {0}]
    BY <1>1, <1>3 DEF Process
  <2> HIDE DEF B
  <2> QED BY <1>1, <2>1, SameProgram
<1> HIDE DEF r
<1>8. Own(r) = Own(q) \cup Region(f, size)
  BY <1>5, <1>7 DEF Own
<1>9. OwnsApart(r)
  <2>1. Requested(a) \cap Own(q) = {}
    BY <1>1, <1>5
  <2>2. \A b \in q.allocations : Requested(a) \cap Requested(b) = {}
    BY <2>1 DEF Own
  <2>3. Requested(a) \cap Fixed(q) = {}
    BY <2>1 DEF Own
  <2>4. /\ r.image \in Nat /\ (r.image = 0 => elf_validate_loaded(r.file))
        /\ r.task \notin Copy(r) \cup Region(r.stack, StackSize)
    <3>1. r.stack = q.stack
      BY <1>1 DEF r, Process
    <3> QED BY <1>1, <1>7, <3>1 DEF OwnsApart, Copy
  <2>5. \A b \in r.allocations : Aligned(b.ptr) /\ Requested(b) \cap Fixed(r) = {}
    BY <1>1, <1>4, <1>7, <2>3 DEF OwnsApart
  <2>6. \A b, c \in r.allocations : b # c => Requested(b) \cap Requested(c) = {}
    BY <1>1, <1>7, <2>2 DEF OwnsApart
  <2> QED BY <2>4, <2>5, <2>6 DEF OwnsApart
<1>10. \A m : m \in Memory(r) <=> m \in Memory(q) \/ \E page \in Region(f, size) :
                                      m = [page |-> page, frame |-> page, write |-> TRUE]
  <2>1. \A m : m \in Allocated(q) <=> \E b \in q.allocations : \E page \in Requested(b) :
                                        m = [page |-> page, frame |-> page, write |-> TRUE]
    BY <1>1, AllocatedMemory DEF OwnsApart
  <2>2. \A m : m \in Allocated(r) <=> \E b \in r.allocations : \E page \in Requested(b) :
                                        m = [page |-> page, frame |-> page, write |-> TRUE]
    BY <1>7, <1>9, AllocatedMemory DEF OwnsApart
  <2> QED BY <1>5, <1>7, <2>1, <2>2 DEF Memory
<1>11. /\ e \in Directory
       /\ \A page \in Pages : paging_get(e, page) = IF page \in Region(f, size) THEN [frame |-> page, flags |-> Writeable]
                                                    ELSE paging_get(d, page)
  <2>1. f .. f + n - 1 \subseteq Pages /\ f \in Int /\ n \in Nat
    BY <1>2, LayoutAssumption
  <2> HIDE DEF n
  <2>2. /\ e \in Directory
        /\ \A page \in Pages :
             paging_get(e, page) = IF page \in f .. f + n - 1 THEN [frame |-> f + page - f, flags |-> Writeable]
                                   ELSE paging_get(d, page)
    BY <1>1, <2>1, MapFacts
  <2>3. \A page \in f .. f + n - 1 : f + page - f = page
    OBVIOUS
  <2> HIDE DEF e
  <2> QED BY <1>2, <2>2, <2>3 DEF n
<1> HIDE DEF e
<1>12. Shows(e, r)
  <2> SUFFICES ASSUME NEW m \in Memory(r) PROVE paging_get(e, m.page) = EntryOf(m)
    BY DEF Shows
  <2>1. CASE m \in Memory(q)
    <3>1. m.page \in Pages /\ m.page \notin Region(f, size)
      BY <1>1, <2>1, MemoryFacts
    <3> QED BY <1>1, <1>11, <2>1, <3>1 DEF Shows
  <2>2. CASE m \notin Memory(q)
    <3>1. PICK page \in Region(f, size) : m = [page |-> page, frame |-> page, write |-> TRUE]
      BY <1>10, <2>2
    <3>2. page \in Pages
      BY LayoutAssumption
    <3> QED BY <1>11, <3>1, <3>2 DEF EntryOf
  <2> QED BY <2>1, <2>2
<1>13. WritesOwn(e, r)
  <2> SUFFICES ASSUME NEW page \in Pages, IsWriteable(paging_get(e, page).flags)
               PROVE  \E m \in Memory(r) : m.page = page /\ m.write
    BY DEF WritesOwn
  <2>1. CASE page \in Region(f, size)
    <3> DEFINE m == [page |-> page, frame |-> page, write |-> TRUE]
    <3>1. m \in Memory(r) /\ m.page = page /\ m.write
      BY <1>10, <2>1
    <3> QED BY <3>1
  <2>2. CASE page \notin Region(f, size)
    <3>1. IsWriteable(paging_get(d, page).flags)
      BY <1>11, <2>2
    <3> QED BY <1>1, <1>10, <3>1 DEF WritesOwn
  <2> QED BY <2>1, <2>2
<1>14. KernelInPlace(e, r)
  <2>1. q.task \in Own(q)
    BY DEF Own, Fixed
  <2>2. \A page \in KernelPages \cup {q.task} : page \in Pages /\ page \notin Region(f, size)
    BY <1>1, <2>1, LayoutAssumption
  <2> QED BY <1>1, <1>7, <1>11, <2>2 DEF KernelInPlace, InPlace
<1>15. ProcessOK(r, e, now)
  BY <1>1, <1>7, <1>8, <1>9, <1>11, <1>12, <1>13, <1>14 DEF ProcessOK
<1> QED BY <1>5, <1>6, <1>7, <1>8, <1>11, <1>15 DEF a, r, e

(* process_malloc (process.c:59-86).                                       *)
LEMMA MallocKeeps ==
  ASSUME NEW s, AddressOK(s), NEW p \in Processes, s.proc[p].alive, NEW size \in Nat \ {0}
  PROVE  LET t == process_malloc(s, p, size)
         IN  AddressOK(t) /\ OnlyChanges(s, t, p) /\ t.proc[p].alive /\ EntriesKept(s, t, p)
<1> DEFINE n == FramesFor(size)
           f == Place(s, n)
           region == Region(f, size)
           x == Taken(s, f, size)
           t == process_malloc(s, p, size)
           q == s.proc[p]
           d == s.tables[p]
<1>1. s \in State /\ ~ s.faulted /\ ~ s.strayed /\ s.taken \subseteq Heap /\ ProcessOK(q, d, s.taken)
  BY LoadedFacts DEF AddressOK
<1>2. \A r \in Processes \ {p} : s.proc[r].alive => Own(s.proc[r]) \subseteq s.taken /\ Own(s.proc[r]) \cap Own(q) = {}
  BY DEF AddressOK, ProcessOK
<1>3. n \in Nat \ {0}
  BY AlignedUp, 0 \in Nat
<1>4. CASE f = Null
  <2>1. t = s
    BY <1>4 DEF process_malloc
  <2> QED BY <2>1 DEF OnlyChanges, EntriesKept
<1>5. CASE f # Null
  <2>1. f \in Nat /\ region \subseteq Heap \ s.taken
    BY <1>3, <1>5, PlaceFacts DEF Region
  <2>2. x \in State /\ x = [s EXCEPT !.taken = s.taken \cup region] /\ x.taken = s.taken \cup region
    BY <1>1, <2>1, TakenFacts
  <2> HIDE DEF region, f, x, n
  <2>3. /\ x.proc = s.proc /\ x.tables = s.tables /\ x.cr3 = s.cr3 /\ x.current = s.current
        /\ x.faulted = s.faulted /\ x.strayed = s.strayed
    BY <1>1, <2>2 DEF State
  <2>4. CASE Cardinality(q.allocations) = MaxAllocations
    <3>1. t = x
      BY <1>5, <2>4 DEF process_malloc, f, x, n
    <3> HIDE DEF t
    <3>2. OnlyChanges(s, x, p)
      BY <2>3 DEF OnlyChanges
    <3>3. ProcessOK(q, d, x.taken)
      BY <1>1, <2>2 DEF ProcessOK
    <3>4. \A r \in Processes \ {p} : s.proc[r].alive => Own(s.proc[r]) \subseteq x.taken /\ Own(x.proc[p]) \cap Own(s.proc[r]) = {}
      BY <1>2, <2>2, <2>3
    <3>5. ProcessOK(x.proc[p], x.tables[p], x.taken) /\ ~ x.faulted /\ ~ x.strayed
      BY <1>1, <2>3, <3>3
    <3>6. AddressOK(x)
      BY <2>2, <3>2, <3>4, <3>5, ChangeOK
    <3> QED BY <2>3, <3>1, <3>2, <3>6 DEF EntriesKept, t
  <2>5. CASE Cardinality(q.allocations) # MaxAllocations
    <3> DEFINE a == [ptr |-> f * PageSize, size |-> size]
               r == [q EXCEPT !.allocations = q.allocations \cup {a}]
               e == Mapped(d, f, f, n, Writeable)
    <3>1. /\ ProcessOK(r, e, s.taken \cup region) /\ Own(r) = Own(q) \cup region
          /\ r.alive = q.alive /\ r.allocations = q.allocations \cup {a} /\ a \notin q.allocations
          /\ PagesOf(a.ptr, a.size) = region
          /\ \A page \in Pages \ region : paging_get(e, page) = paging_get(d, page)
      <4>1. s.taken \in SUBSET Heap
        BY <1>1
      <4>2. Region(f, size) \subseteq Heap \ s.taken
        BY <2>1 DEF region
      <4> HIDE DEF q, d
      <4>3. f \in Nat /\ ProcessOK(q, d, s.taken)
        BY <1>1, <2>1
      <4> QED BY <4>1, <4>2, <4>3, Grown DEF region, n
    <3>2. paging_align_address(f * PageSize + size) = (f + n) * PageSize
      BY <2>1, PagesFromStart DEF n
    <3>3. t = [x EXCEPT !.tables[p] = paging_map_to(@, f * PageSize, f * PageSize,
                                                    paging_align_address(f * PageSize + size), Writeable),
                        !.proc[p].allocations = @ \cup {a}]
      BY <1>5, <2>5 DEF process_malloc, f, x, n
    <3>4. t = [x EXCEPT !.tables = [s.tables EXCEPT ![p] = e], !.proc = [s.proc EXCEPT ![p] = r]]
      <4> HIDE DEF t, a
      <4>1. x.tables[p] = d /\ x.proc[p] = q
        BY <2>3
      <4>2. t = [x EXCEPT !.tables[p] = e, !.proc[p].allocations = @ \cup {a}]
        BY <3>2, <3>3, <4>1 DEF Mapped
      <4> QED BY <1>1, <2>2, <2>3, <4>2 DEF State
    <3> HIDE DEF t, a, r, e
    <3>5. r \in Process /\ e \in Directory
      BY <3>1 DEF ProcessOK
    <3>6. /\ t \in State /\ t.taken = s.taken \cup region /\ t.cr3 = s.cr3 /\ t.current = s.current
          /\ t.faulted = s.faulted /\ t.strayed = s.strayed
          /\ t.tables = [s.tables EXCEPT ![p] = e] /\ t.proc = [s.proc EXCEPT ![p] = r]
      <4>1. [s.tables EXCEPT ![p] = e] \in [Processes -> Directory] /\ [s.proc EXCEPT ![p] = r] \in [Processes -> Process]
        BY <1>1, <3>5 DEF State
      <4> DEFINE T == [s.tables EXCEPT ![p] = e]
                 P == [s.proc EXCEPT ![p] = r]
      <4> HIDE DEF T, P
      <4>2. t = [x EXCEPT !.tables = T, !.proc = P]
        BY <3>4 DEF T, P
      <4>3. T \in [Processes -> Directory] /\ P \in [Processes -> Process]
        BY <4>1 DEF T, P
      <4>4. /\ t \in State /\ t.taken = x.taken /\ t.cr3 = x.cr3 /\ t.current = x.current
            /\ t.faulted = x.faulted /\ t.strayed = x.strayed /\ t.tables = T /\ t.proc = P
        BY <2>2, <4>2, <4>3 DEF State
      <4> QED BY <2>2, <2>3, <4>4 DEF T, P
    <3>7. /\ t.tables[p] = e /\ t.proc[p] = r
          /\ \A u \in Processes \ {p} : t.proc[u] = s.proc[u] /\ t.tables[u] = s.tables[u]
      BY <1>1, <3>6 DEF State
    <3>8. OnlyChanges(s, t, p)
      BY <3>6, <3>7 DEF OnlyChanges
    <3>9. AddressOK(t)
      <4>1. \A u \in Processes \ {p} : s.proc[u].alive => /\ Own(s.proc[u]) \subseteq t.taken
                                                          /\ Own(t.proc[p]) \cap Own(s.proc[u]) = {}
        BY <1>2, <2>1, <3>1, <3>6, <3>7
      <4>2. ProcessOK(t.proc[p], t.tables[p], t.taken)
        BY <3>1, <3>6, <3>7
      <4> QED BY <1>1, <3>6, <3>8, <4>1, <4>2, ChangeOK
    <3>10. EntriesKept(s, t, p)
      <4>1. region \subseteq Differs(s, t, p)
        BY <3>1, <3>7 DEF Differs
      <4> QED BY <3>1, <3>7, <4>1 DEF EntriesKept
    <3> QED BY <3>1, <3>7, <3>8, <3>9, <3>10 DEF t
  <2> QED BY <2>4, <2>5
<1> QED BY <1>4, <1>5

(* A process with one allocation less.                                     *)
LEMMA Shrunk ==
  ASSUME NEW q, NEW d, NEW taken \in SUBSET Heap, ProcessOK(q, d, taken), NEW a \in q.allocations
  PROVE  LET r == [q EXCEPT !.allocations = q.allocations \ {a}]
             e == Unmapped(d, a)
         IN  /\ ProcessOK(r, e, taken \ Requested(a)) /\ Own(r) \subseteq Own(q)
             /\ r.alive = q.alive /\ r.allocations = q.allocations \ {a}
             /\ PagesOf(a.ptr, a.size) = Requested(a) /\ Requested(a) \subseteq Own(q)
             /\ Requested(a) = Region(PageOf(a.ptr), a.size) /\ PageOf(a.ptr) \in Nat
             /\ \A page \in Pages \ Requested(a) : paging_get(e, page) = paging_get(d, page)
<1> DEFINE B == q.allocations \ {a}
           r == [q EXCEPT !.allocations = B]
           f == PageOf(a.ptr)
           n == FramesFor(a.size)
           e == Unmapped(d, a)
<1>1. /\ q \in Process /\ d \in Directory /\ q.file \in Files /\ Own(q) \subseteq taken /\ OwnsApart(q)
      /\ Shows(d, q) /\ WritesOwn(d, q) /\ KernelInPlace(d, q) /\ q.ends = EndsOf(q) /\ Own(q) \subseteq Heap
  BY DEF ProcessOK
<1>2. a \in [ptr : Nat, size : Nat \ {0}] /\ Aligned(a.ptr)
  BY <1>1 DEF Process, OwnsApart
<1>3. /\ f \in Nat /\ a.ptr = f * PageSize /\ PagesOf(a.ptr, a.size) = Requested(a)
      /\ paging_align_address(a.ptr + a.size) = (f + n) * PageSize
      /\ Requested(a) = Region(f, a.size) /\ Requested(a) = f .. f + n - 1
  BY <1>2, RequestFacts DEF Requested, Region
<1>4. n \in Nat \ {0}
  <2>1. a.size \in Nat \ {0}
    BY <1>2
  <2> QED BY <2>1, AlignedUp, 0 \in Nat
<1>5. Requested(a) \subseteq Own(q)
  BY DEF Own
<1>6. /\ r \in Process /\ r.allocations = B /\ r.alive = q.alive /\ r.file = q.file /\ r.task = q.task
      /\ r.image = q.image /\ r.ends = q.ends
      /\ Segments(r) = Segments(q) /\ Stack(r) = Stack(q) /\ Fixed(r) = Fixed(q) /\ EndsOf(r) = EndsOf(q)
  <2>1. B \in SUBSET [ptr : Nat, size : Nat \ {0}]
    BY <1>1 DEF Process
  <2> HIDE DEF B
  <2> QED BY <1>1, <2>1, SameProgram
<1>7. r.stack = q.stack
  BY <1>1 DEF Process
<1> HIDE DEF r
<1>8. Own(r) \subseteq Own(q) \ Requested(a)
  <2>1. Fixed(r) \cap Requested(a) = {}
    BY <1>1, <1>6 DEF OwnsApart
  <2>2. \A b \in r.allocations : b \in q.allocations /\ Requested(b) \cap Requested(a) = {}
    BY <1>1, <1>6 DEF OwnsApart
  <2> QED BY <1>6, <2>1, <2>2 DEF Own
<1>9. OwnsApart(r)
  <2>1. r.allocations \subseteq q.allocations
    BY <1>6
  <2> QED BY <1>1, <1>6, <1>7, <2>1 DEF OwnsApart, Copy
<1>10. /\ \A m : m \in Memory(r) => m \in Memory(q)
       /\ \A m \in Memory(q) : m.page \notin Requested(a) => m \in Memory(r)
       /\ \A m \in Memory(r) : m.page \notin Requested(a)
  <2>1. \A m : m \in Allocated(q) <=> \E b \in q.allocations : \E page \in Requested(b) :
                                        m = [page |-> page, frame |-> page, write |-> TRUE]
    BY <1>1, AllocatedMemory DEF OwnsApart
  <2>2. \A m : m \in Allocated(r) <=> \E b \in r.allocations : \E page \in Requested(b) :
                                        m = [page |-> page, frame |-> page, write |-> TRUE]
    BY <1>6, <1>9, AllocatedMemory DEF OwnsApart
  <2>3. \A m : m \in Memory(r) => m \in Memory(q)
    BY <1>6, <2>1, <2>2 DEF Memory
  <2>4. ASSUME NEW m \in Memory(q), m.page \notin Requested(a) PROVE m \in Memory(r)
    BY <1>6, <2>1, <2>2, <2>4 DEF Memory
  <2>5. ASSUME NEW m \in Memory(r) PROVE m.page \notin Requested(a)
    <3>1. Requested(a) \subseteq Heap
      BY <1>1, <1>5
    <3>2. CASE m \in Segments(r)
      <4>1. m.page \in ProgramPages
        BY <1>1, <1>6, <3>2, LoadedMemory
      <4> QED BY <3>1, <4>1 DEF ProgramPages
    <3>3. CASE m \in Stack(r)
      <4>1. m.page \in StackPages
        BY <1>1, <1>6, <3>3, LoadedMemory
      <4> QED BY <3>1, <4>1, LayoutAssumption
    <3>4. CASE m \in Allocated(r)
      <4>1. PICK b \in r.allocations : \E page \in Requested(b) : m = [page |-> page, frame |-> page, write |-> TRUE]
        BY <2>2, <3>4
      <4>2. m.page \in Requested(b)
        BY <4>1
      <4>3. Requested(b) \cap Requested(a) = {}
        BY <1>1, <1>6, <4>1 DEF OwnsApart
      <4> QED BY <4>2, <4>3
    <3> QED BY <3>2, <3>3, <3>4 DEF Memory
  <2> QED BY <2>3, <2>4, <2>5
<1>11. /\ e \in Directory
       /\ \A page \in Pages : paging_get(e, page) = IF page \in Requested(a) THEN [frame |-> page, flags |-> 0]
                                                    ELSE paging_get(d, page)
  <2>1. e = Mapped(d, f, f, n, 0)
    BY <1>3 DEF Unmapped, Mapped
  <2>2. f .. f + n - 1 \subseteq Pages /\ f \in Int /\ n \in Nat /\ f \in Nat
    BY <1>1, <1>3, <1>4, <1>5, LayoutAssumption
  <2>3. Requested(a) = f .. f + n - 1
    BY <1>3
  <2> HIDE DEF n, e, f
  <2>4. /\ e \in Directory
        /\ \A page \in Pages :
             paging_get(e, page) = IF page \in f .. f + n - 1 THEN [frame |-> f + page - f, flags |-> 0]
                                   ELSE paging_get(d, page)
    BY <1>1, <2>1, <2>2, MapFacts
  <2>5. \A page \in f .. f + n - 1 : f + page - f = page
    BY <2>2
  <2> QED BY <2>3, <2>4, <2>5
<1> HIDE DEF e
<1>12. Shows(e, r)
  <2> SUFFICES ASSUME NEW m \in Memory(r) PROVE paging_get(e, m.page) = EntryOf(m)
    BY DEF Shows
  <2>1. m \in Memory(q) /\ m.page \notin Requested(a)
    BY <1>10
  <2>2. m.page \in Pages
    BY <1>1, <2>1, MemoryFacts
  <2> QED BY <1>1, <1>11, <2>1, <2>2 DEF Shows
<1>13. WritesOwn(e, r)
  <2> SUFFICES ASSUME NEW page \in Pages, IsWriteable(paging_get(e, page).flags)
               PROVE  \E m \in Memory(r) : m.page = page /\ m.write
    BY DEF WritesOwn
  <2>1. page \notin Requested(a) /\ IsWriteable(paging_get(d, page).flags)
    BY <1>11, FlagFacts
  <2>2. PICK m \in Memory(q) : m.page = page /\ m.write
    BY <1>1, <2>1 DEF WritesOwn
  <2> QED BY <1>10, <2>1, <2>2
<1>14. KernelInPlace(e, r)
  <2>1. q.task \in Own(r) /\ r.task = q.task
    BY <1>6 DEF Own, Fixed
  <2>2. \A page \in KernelPages \cup {q.task} : page \in Pages /\ page \notin Requested(a)
    BY <1>1, <1>5, <1>8, <2>1, LayoutAssumption
  <2> QED BY <1>1, <1>6, <1>11, <2>2 DEF KernelInPlace, InPlace
<1>15. ProcessOK(r, e, taken \ Requested(a))
  BY <1>1, <1>6, <1>8, <1>9, <1>11, <1>12, <1>13, <1>14 DEF ProcessOK
<1> QED BY <1>3, <1>5, <1>6, <1>8, <1>11, <1>15 DEF r, e

(* process_free (process.c:280-301).                                       *)
LEMMA FreeKeeps ==
  ASSUME NEW s, AddressOK(s), NEW p \in Processes, s.proc[p].alive, NEW a \in s.proc[p].allocations
  PROVE  LET t == process_free(s, p, a)
         IN  AddressOK(t) /\ OnlyChanges(s, t, p) /\ t.proc[p].alive /\ EntriesKept(s, t, p)
<1> DEFINE region == Requested(a)
           x == Freed(s, PageOf(a.ptr), a.size)
           t == process_free(s, p, a)
           q == s.proc[p]
           d == s.tables[p]
           r == [q EXCEPT !.allocations = q.allocations \ {a}]
           e == Unmapped(d, a)
<1>1. s \in State /\ ~ s.faulted /\ ~ s.strayed /\ s.taken \in SUBSET Heap /\ ProcessOK(q, d, s.taken)
  BY LoadedFacts DEF AddressOK
<1>2. \A u \in Processes \ {p} : s.proc[u].alive => Own(s.proc[u]) \subseteq s.taken /\ Own(s.proc[u]) \cap Own(q) = {}
  BY DEF AddressOK, ProcessOK
<1>3. /\ ProcessOK(r, e, s.taken \ region) /\ Own(r) \subseteq Own(q)
      /\ r.alive = q.alive /\ r.allocations = q.allocations \ {a}
      /\ PagesOf(a.ptr, a.size) = region /\ region \subseteq Own(q)
      /\ region = Region(PageOf(a.ptr), a.size) /\ PageOf(a.ptr) \in Nat
      /\ \A page \in Pages \ region : paging_get(e, page) = paging_get(d, page)
  <2> HIDE DEF q, d
  <2>1. a \in q.allocations
    BY DEF q
  <2> QED BY <1>1, <2>1, Shrunk
<1>4. x \in State /\ x = [s EXCEPT !.taken = s.taken \ region] /\ x.taken = s.taken \ region
  <2>1. PageOf(a.ptr) \in Int
    BY <1>3
  <2> DEFINE f == PageOf(a.ptr)
             n == a.size
  <2>2. f \in Int /\ region = Region(f, n)
    BY <1>3, <2>1
  <2> HIDE DEF f, n, region
  <2>3. /\ Freed(s, f, n) \in State /\ Freed(s, f, n) = [s EXCEPT !.taken = s.taken \ Region(f, n)]
        /\ Freed(s, f, n).taken = s.taken \ Region(f, n)
    BY <1>1, <2>2, FreedFacts
  <2> QED BY <2>2, <2>3 DEF f, n
<1>5. /\ x.proc = s.proc /\ x.tables = s.tables /\ x.cr3 = s.cr3 /\ x.current = s.current
      /\ x.faulted = s.faulted /\ x.strayed = s.strayed
  <2> HIDE DEF x, region
  <2> QED BY <1>1, <1>4 DEF State
<1>6. t = [x EXCEPT !.tables[p] = Unmapped(@, a), !.proc[p].allocations = @ \ {a}]
  BY DEF process_free
<1> HIDE DEF region, x, t
<1>7. t = [x EXCEPT !.tables = [s.tables EXCEPT ![p] = e], !.proc = [s.proc EXCEPT ![p] = r]]
  <2>1. x.tables[p] = d /\ x.proc[p] = q
    BY <1>5
  <2>2. t = [x EXCEPT !.tables[p] = e, !.proc[p].allocations = @ \ {a}]
    BY <1>6, <2>1
  <2> QED BY <1>1, <1>4, <1>5, <2>2 DEF State
<1> HIDE DEF r, e
<1>8. r \in Process /\ e \in Directory
  BY <1>3 DEF ProcessOK
<1> DEFINE T == [s.tables EXCEPT ![p] = e]
           P == [s.proc EXCEPT ![p] = r]
<1>9. T \in [Processes -> Directory] /\ P \in [Processes -> Process] /\ T[p] = e /\ P[p] = r
      /\ \A u \in Processes \ {p} : T[u] = s.tables[u] /\ P[u] = s.proc[u]
  BY <1>1, <1>8 DEF State
<1>10. t = [x EXCEPT !.tables = T, !.proc = P]
  BY <1>7
<1> HIDE DEF T, P
<1>11. /\ t \in State /\ t.taken = s.taken \ region /\ t.cr3 = s.cr3 /\ t.current = s.current
       /\ t.faulted = s.faulted /\ t.strayed = s.strayed /\ t.tables = T /\ t.proc = P
  <2>1. /\ t \in State /\ t.taken = x.taken /\ t.cr3 = x.cr3 /\ t.current = x.current
        /\ t.faulted = x.faulted /\ t.strayed = x.strayed /\ t.tables = T /\ t.proc = P
    BY <1>4, <1>9, <1>10 DEF State
  <2> QED BY <1>4, <1>5, <2>1
<1>12. OnlyChanges(s, t, p)
  BY <1>9, <1>11 DEF OnlyChanges
<1>13. AddressOK(t)
  <2>1. \A u \in Processes \ {p} : s.proc[u].alive => /\ Own(s.proc[u]) \subseteq t.taken
                                                      /\ Own(t.proc[p]) \cap Own(s.proc[u]) = {}
    BY <1>2, <1>3, <1>9, <1>11
  <2>2. ProcessOK(t.proc[p], t.tables[p], t.taken)
    BY <1>3, <1>9, <1>11
  <2> QED BY <1>1, <1>11, <1>12, <2>1, <2>2, ChangeOK
<1>14. EntriesKept(s, t, p)
  <2>1. region \subseteq Differs(s, t, p)
    BY <1>3, <1>9, <1>11 DEF Differs
  <2> QED BY <1>3, <1>9, <1>11, <2>1 DEF EntriesKept
<1> QED BY <1>3, <1>9, <1>11, <1>12, <1>13, <1>14 DEF t

(* process_inject_arguments (process.c:240-278).                           *)
LEMMA InjectKeeps ==
  ASSUME NEW s, AddressOK(s), NEW p \in Processes, s.proc[p].alive, NEW n \in Nat
  PROVE  LET t == process_inject_arguments(s, p, n)
         IN  AddressOK(t) /\ OnlyChanges(s, t, p) /\ t.proc[p].alive
<1> DEFINE k == n + 1
           Step(x, i) == process_malloc(x, p, PageSize)
           Body(g) == [i \in 0 .. k |-> IF i = 0 THEN s ELSE Step(g[i - 1], i)]
           after == CHOOSE g : g = Body(g)
           Keeps(x) == AddressOK(x) /\ OnlyChanges(s, x, p) /\ x.proc[p].alive
           S == {x \in State : Keeps(x)}
           t == process_inject_arguments(s, p, n)
<1>1. k \in Nat /\ PageSize \in Nat \ {0}
  BY LayoutAssumption
<1>2. t = after[k]
  BY DEF process_inject_arguments
<1> HIDE DEF t, k
<1>3. ASSUME NEW x \in S, NEW i PROVE Step(x, i) \in S
  <2> DEFINE y == Step(x, i)
  <2>1. AddressOK(x) /\ OnlyChanges(s, x, p) /\ x.proc[p].alive
    BY <1>3
  <2>2. AddressOK(y) /\ OnlyChanges(x, y, p) /\ y.proc[p].alive
    BY <1>1, <2>1, MallocKeeps
  <2> HIDE DEF y
  <2>3. OnlyChanges(s, y, p)
    BY <2>1, <2>2 DEF OnlyChanges
  <2>4. y \in State
    BY <2>2 DEF AddressOK
  <2> QED BY <2>2, <2>3, <2>4 DEF y
<1>4. s \in S
  BY DEF AddressOK, OnlyChanges
<1> HIDE DEF S, Step
<1> DEFINE step == [i \in 1 .. k |-> [x \in S |-> Step(x, i)]]
<1>5. \A i \in 1 .. k : \A x \in S : step[i][x] = Step(x, i) /\ step[i][x] \in S
  BY <1>3
<1> HIDE DEF step
<1>6. PICK g : Iterates(g, k, s, step) /\ \A i \in 0 .. k : g[i] \in S
  <2>1. \A i \in 1 .. k : \A x \in S : step[i][x] \in S
    BY <1>5
  <2> QED BY <1>1, <1>4, <2>1, Iteration
<1>7. ASSUME NEW i \in 0 .. k
      PROVE  (IF i = 0 THEN s ELSE step[i][g[i - 1]]) = IF i = 0 THEN s ELSE Step(g[i - 1], i)
  <2>1. i # 0 => i \in 1 .. k /\ i - 1 \in 0 .. k /\ g[i - 1] \in S
    BY <1>1, <1>6
  <2> QED BY <1>5, <2>1
<1>8. g = [i \in 0 .. k |-> IF i = 0 THEN s ELSE step[i][g[i - 1]]]
  BY <1>6 DEF Iterates
<1>9. g = Body(g)
  BY <1>7, <1>8, Zenon
<1>10. after = Body(after)
  <2> HIDE DEF Body
  <2> QED BY <1>9
<1> HIDE DEF after
<1>11. \A i \in 0 .. k : after[i] = IF i = 0 THEN s ELSE Step(after[i - 1], i)
  <2>1. \A i \in 0 .. k : Body(after)[i] = IF i = 0 THEN s ELSE Step(after[i - 1], i)
    OBVIOUS
  <2> HIDE DEF Body
  <2> QED BY <1>10, <2>1
<1> HIDE DEF Body
<1> DEFINE inv == [i \in 0 .. k |-> S]
<1>12. after[0] \in inv[0]
  BY <1>1, <1>4, <1>11
<1>13. ASSUME NEW i \in 1 .. k, after[i - 1] \in inv[i - 1] PROVE after[i] \in inv[i]
  <2>1. i - 1 \in 0 .. k /\ i \in 0 .. k /\ i # 0
    BY <1>1
  <2>2. after[i - 1] \in S /\ after[i] = Step(after[i - 1], i)
    BY <1>11, <1>13, <2>1
  <2> QED BY <1>3, <2>1, <2>2
<1>14. after[k] \in S
  <2> HIDE DEF inv
  <2>1. \A i \in 0 .. k : after[i] \in inv[i]
    BY <1>1, <1>12, <1>13, Stepwise
  <2> QED BY <1>1, <2>1 DEF inv
<1> QED BY <1>2, <1>14 DEF S, t

(* A process just loaded into frames that were free.                       *)
LEMMA Fresh ==
  ASSUME NEW q, NEW taken \in SUBSET Heap, q.alive = TRUE, q.file \in Files, q.image \in Nat, q.stack \in Nat, q.task \in Nat,
         q = [alive |-> TRUE, file |-> q.file, image |-> q.image, stack |-> q.stack, task |-> q.task,
              allocations |-> {}, ends |-> EndsOf(q)],
         q.image = 0 => elf_validate_loaded(q.file),
         Own(q) \subseteq taken, q.task \notin Copy(q) \cup Region(q.stack, StackSize)
  PROVE  ProcessOK(q, process_map_memory(paging_new_4gb(ReadOnly), q.file, q.image * PageSize, q.stack * PageSize), taken)
<1> DEFINE d == process_map_memory(paging_new_4gb(ReadOnly), q.file, q.image * PageSize, q.stack * PageSize)
<1>1. q.allocations = {} /\ q.ends = EndsOf(q)
  OBVIOUS
<1>2. EndsOf(q) \in Ends
  <2>1. NoEnds \in Ends
    BY DEF NoEnds, Ends
  <2>2. q.image * PageSize \in Nat
    BY LayoutAssumption
  <2> QED BY <2>1, <2>2, EndsFacts DEF EndsOf
<1>3. q \in Process
  <2> DEFINE E == EndsOf(q)
  <2> HIDE DEF E
  <2>1. q = [alive |-> TRUE, file |-> q.file, image |-> q.image, stack |-> q.stack, task |-> q.task,
             allocations |-> {}, ends |-> E] /\ E \in Ends
    BY <1>2 DEF E
  <2>2. \A v \in Files, i, j, k \in Int, e \in Ends :
          [alive |-> TRUE, file |-> v, image |-> i, stack |-> j, task |-> k, allocations |-> {}, ends |-> e] \in Process
    BY DEF Process
  <2>3. q.image \in Int /\ q.stack \in Int /\ q.task \in Int
    OBVIOUS
  <2> QED BY <2>1, <2>2, <2>3
<1>4. /\ d \in Directory /\ Shows(d, q)
      /\ \A page \in Pages : (\A m \in Memory(q) : m.page # page)
                               => paging_get(d, page) = [frame |-> page, flags |-> ReadOnly]
  BY <1>1, <1>3, ProgramMapped
<1> HIDE DEF d
<1>5. OwnsApart(q)
  BY <1>1 DEF OwnsApart
<1>6. Own(q) \subseteq Heap
  OBVIOUS
<1>7. WritesOwn(d, q)
  <2> SUFFICES ASSUME NEW page \in Pages, IsWriteable(paging_get(d, page).flags)
               PROVE  \E m \in Memory(q) : m.page = page /\ m.write
    BY DEF WritesOwn
  <2>1. PICK m \in Memory(q) : m.page = page
    BY <1>4, FlagFacts
  <2>2. paging_get(d, page) = EntryOf(m)
    BY <1>4, <2>1 DEF Shows
  <2>3. m.write
    BY <2>2, FlagFacts DEF EntryOf
  <2> QED BY <2>1, <2>3
<1>8. KernelInPlace(d, q)
  <2> SUFFICES ASSUME NEW page \in KernelPages \cup {q.task} PROVE InPlace(d, page)
    BY DEF KernelInPlace
  <2>1. q.task \in Heap
    BY <1>6 DEF Own, Fixed
  <2>2. page \in Pages
    BY <2>1, LayoutAssumption
  <2>3. \A m \in Memory(q) : m.page # page
    BY <1>3, <1>5, <1>6, <2>1, MemoryFacts
  <2> QED BY <1>4, <2>2, <2>3, FlagFacts DEF InPlace
<1> QED BY <1>1, <1>3, <1>4, <1>5, <1>7, <1>8 DEF ProcessOK, d

(* process_load_for_slot (process.c:510-581).                              *)
LEMMA LoadKeeps ==
  ASSUME NEW s, AddressOK(s), NEW p \in Processes, ~ s.proc[p].alive, NEW file \in Files, NEW t \in Loaded(s, p, file)
  PROVE  AddressOK(t) /\ OnlyChanges(s, t, p) /\ t.proc[p].alive
<1> DEFINE size == file.size
           elf == elf_validate_loaded(file)
           first == Place(s, FramesFor(size))
           s1 == TakenIfAny(s, first, size)
           second == Place(s1, FramesFor(size))
           image == IF ~ elf THEN second ELSE IF first = Null THEN 0 ELSE first
           s2 == IF elf THEN s1 ELSE Taken(s1, second, size)
           stack == Place(s2, FramesFor(StackSize))
           s3 == Taken(s2, stack, StackSize)
           task == Place(s3, 1)
           s4 == Taken(s3, task, PageSize)
           d == process_map_memory(paging_new_4gb(ReadOnly), file, image * PageSize, stack * PageSize)
           q == [alive |-> TRUE, file |-> file, image |-> image, stack |-> stack, task |-> task,
                 allocations |-> {},
                 ends |-> IF elf THEN elf_process_pheaders(file, image * PageSize) ELSE NoEnds]
<1>1. s \in State /\ ~ s.faulted /\ ~ s.strayed /\ s.taken \in SUBSET Heap
  BY DEF AddressOK, State
<1>2. size \in Nat \ {0} /\ StackSize \in Nat \ {0} /\ FramesFor(size) \in Nat \ {0} /\ FramesFor(StackSize) \in Nat \ {0}
  <2>1. size \in Nat \ {0} /\ StackSize \in Nat \ {0}
    BY FilesAssumption, LayoutAssumption
  <2> QED BY <2>1, AlignedUp, 0 \in Nat
<1>3. /\ Null \notin {image, stack, task}
      /\ t = [s4 EXCEPT !.loads = @ + 1, !.tables[p] = d, !.proc[p] = q]
  BY Zenon DEF Loaded
<1> HIDE DEF size, elf, d, q
<1> DEFINE copied == IF image = 0 THEN {} ELSE Region(image, size)
           Adds(x, S) == \E K \in SUBSET Heap : /\ x = [s EXCEPT !.taken = K] /\ x \in State /\ x.taken = K
                                                /\ s.taken \subseteq K /\ S \subseteq K
<1>4. first # Null => first \in Nat \ {0} /\ Region(first, size) \subseteq Heap \ s.taken
  BY <1>2, PlaceFacts DEF Region
<1>5. Adds(s1, IF first = Null THEN {} ELSE Region(first, size))
  <2>1. CASE first = Null
    <3>1. s1 = s /\ s = [s EXCEPT !.taken = s.taken]
      BY <1>1, <2>1 DEF TakenIfAny, State
    <3> HIDE DEF s1, first
    <3> QED BY <1>1, <2>1, <3>1
  <2>2. CASE first # Null
    <3> DEFINE K == s.taken \cup Region(first, size)
    <3>1. s1 = Taken(s, first, size)
      BY <2>2 DEF TakenIfAny
    <3> HIDE DEF s1, first
    <3>2. s1 \in State /\ s1 = [s EXCEPT !.taken = K] /\ s1.taken = K
      BY <1>1, <1>4, <2>2, <3>1, TakenFacts
    <3>3. K \in SUBSET Heap /\ s.taken \subseteq K /\ Region(first, size) \subseteq K
      BY <1>1, <1>4, <2>2
    <3> HIDE DEF K
    <3> QED BY <2>2, <3>2, <3>3
  <2> QED BY <2>1, <2>2
<1> HIDE DEF s1, first
<1>6. ~ elf => second \in Nat \ {0} /\ Region(second, size) \subseteq Heap \ s1.taken
  BY <1>2, <1>3, PlaceFacts DEF Region
<1> HIDE DEF second
<1>7. /\ image \in Nat /\ (image = 0 => elf) /\ copied \subseteq Heap \ s.taken
      /\ image # 0 => image = IF elf THEN first ELSE second
  BY <1>4, <1>5, <1>6
<1>8. Adds(s2, copied)
  <2>1. CASE elf
    <3>1. s2 = s1 /\ copied = IF first = Null THEN {} ELSE Region(first, size)
      BY <1>4, <2>1
    <3> HIDE DEF s2, copied
    <3> QED BY <1>5, <3>1
  <2>2. CASE ~ elf
    <3>0. PICK A \in SUBSET Heap : s1 = [s EXCEPT !.taken = A] /\ s1 \in State /\ s1.taken = A /\ s.taken \subseteq A
      BY <1>5
    <3> DEFINE K == A \cup Region(second, size)
    <3>1. s2 = Taken(s1, second, size) /\ copied = Region(second, size)
      BY <1>6, <2>2
    <3> HIDE DEF s2, copied
    <3>2. s2 \in State /\ s2 = [s1 EXCEPT !.taken = K] /\ s2.taken = K
      <4>1. second \in Int /\ Region(second, size) \subseteq Heap /\ s1 \in State
        BY <1>6, <2>2, <3>0
      <4> HIDE DEF second, s1, K
      <4>2. /\ Taken(s1, second, size) \in State
            /\ Taken(s1, second, size) = [s1 EXCEPT !.taken = s1.taken \cup Region(second, size)]
            /\ Taken(s1, second, size).taken = s1.taken \cup Region(second, size)
        BY <4>1, TakenFacts
      <4>3. s1.taken \cup Region(second, size) = K
        BY <3>0 DEF K
      <4> QED BY <3>1, <4>2, <4>3
    <3>3. K \in SUBSET Heap /\ s.taken \subseteq K /\ copied \subseteq K
      BY <1>6, <2>2, <3>0, <3>1
    <3> HIDE DEF K
    <3>4. [s1 EXCEPT !.taken = K] = [s EXCEPT !.taken = K]
      BY <1>1, <3>0 DEF State
    <3> QED BY <3>2, <3>3, <3>4
  <2> QED BY <2>1, <2>2
<1>9. PICK K \in SUBSET Heap : s2 = [s EXCEPT !.taken = K] /\ s2 \in State /\ s2.taken = K /\ s.taken \subseteq K
                               /\ copied \subseteq K
  BY <1>8
<1> HIDE DEF Adds
<1> HIDE DEF s2, image
<1>10. stack \in Nat /\ Region(stack, StackSize) \subseteq Heap \ K
  BY <1>2, <1>3, <1>9, PlaceFacts DEF Region
<1> DEFINE L == K \cup Region(stack, StackSize)
<1>11. s3 \in State /\ s3 = [s2 EXCEPT !.taken = L] /\ s3.taken = L /\ L \in SUBSET Heap
  <2> HIDE DEF stack
  <2>1. stack \in Int /\ Region(stack, StackSize) \subseteq Heap
    BY <1>10
  <2>2. /\ Taken(s2, stack, StackSize) \in State
        /\ Taken(s2, stack, StackSize) = [s2 EXCEPT !.taken = s2.taken \cup Region(stack, StackSize)]
        /\ Taken(s2, stack, StackSize).taken = s2.taken \cup Region(stack, StackSize)
    BY <1>9, <2>1, TakenFacts
  <2> QED BY <1>9, <1>10, <2>2
<1> HIDE DEF s3, stack
<1>12. task \in Nat /\ task \in Heap \ L
  <2>1. task # Null /\ 1 \in Nat \ {0}
    BY <1>3
  <2>2. Place(s3, 1) \in Nat /\ Place(s3, 1) \in Heap \ s3.taken
    BY <2>1, PlaceFacts
  <2> QED BY <1>11, <2>2
<1> DEFINE M == L \cup {task}
<1>13. s4 \in State /\ s4 = [s3 EXCEPT !.taken = M] /\ s4.taken = M /\ M \in SUBSET Heap
  <2> HIDE DEF task, L
  <2>1. task \in Int /\ Region(task, PageSize) = {task} /\ {task} \subseteq Heap
    BY <1>12, RegionFacts
  <2>2. /\ Taken(s3, task, PageSize) \in State
        /\ Taken(s3, task, PageSize) = [s3 EXCEPT !.taken = s3.taken \cup {task}]
        /\ Taken(s3, task, PageSize).taken = s3.taken \cup {task}
    <3>1. Region(task, PageSize) \subseteq Heap
      BY <2>1
    <3>2. /\ Taken(s3, task, PageSize) \in State
          /\ Taken(s3, task, PageSize) = [s3 EXCEPT !.taken = s3.taken \cup Region(task, PageSize)]
          /\ Taken(s3, task, PageSize).taken = s3.taken \cup Region(task, PageSize)
      BY <1>11, <2>1, <3>1, TakenFacts
    <3> QED BY <2>1, <3>2
  <2>3. M \in SUBSET Heap
    BY <1>11, <1>12
  <2> QED BY <1>11, <2>2, <2>3
<1> HIDE DEF s4, task
<1>14. s4 = [s EXCEPT !.taken = M]
  <2> HIDE DEF M, L
  <2> QED BY <1>1, <1>9, <1>11, <1>13 DEF State
<1>15. /\ q.alive = TRUE /\ q.file = file /\ q.image = image /\ q.stack = stack /\ q.task = task /\ q.allocations = {}
       /\ q.ends = EndsOf(q)
       /\ q = [alive |-> TRUE, file |-> q.file, image |-> q.image, stack |-> q.stack, task |-> q.task,
               allocations |-> {}, ends |-> EndsOf(q)]
  BY DEF q, EndsOf, elf
<1>16. Own(q) = copied \cup Region(stack, StackSize) \cup {task} /\ Copy(q) = copied
  BY <1>15 DEF Own, Fixed, Copy, size
<1> HIDE DEF copied
<1>17. Own(q) \subseteq M /\ Own(q) \cap s.taken = {}
  BY <1>7, <1>9, <1>10, <1>12, <1>16
<1>18. ProcessOK(q, d, M)
  <2>1. q.task \notin Copy(q) \cup Region(q.stack, StackSize)
    BY <1>9, <1>12, <1>15, <1>16
  <2>3. q.image = 0 => elf_validate_loaded(q.file)
    BY <1>7, <1>15 DEF elf
  <2>2. d = process_map_memory(paging_new_4gb(ReadOnly), q.file, q.image * PageSize, q.stack * PageSize)
    BY <1>15 DEF d
  <2> HIDE DEF M
  <2> QED BY <1>7, <1>10, <1>12, <1>13, <1>15, <1>17, <2>1, <2>2, <2>3, Fresh
<1> HIDE DEF M
<1> DEFINE T == [s.tables EXCEPT ![p] = d]
           P == [s.proc EXCEPT ![p] = q]
<1>19. T \in [Processes -> Directory] /\ P \in [Processes -> Process] /\ T[p] = d /\ P[p] = q
       /\ \A u \in Processes \ {p} : T[u] = s.tables[u] /\ P[u] = s.proc[u]
  BY <1>1, <1>18 DEF State, ProcessOK
<1>20. t = [s EXCEPT !.taken = M, !.tables = T, !.proc = P, !.loads = s.loads + 1]
  BY <1>1, <1>3, <1>14 DEF State
<1> HIDE DEF T, P
<1>21. /\ t \in State /\ t.taken = M /\ t.cr3 = s.cr3 /\ t.current = s.current
       /\ t.faulted = s.faulted /\ t.strayed = s.strayed /\ t.tables = T /\ t.proc = P
  <2> DEFINE n == s.loads + 1
  <2>1. n \in Nat /\ M \in SUBSET Heap /\ T \in [Processes -> Directory] /\ P \in [Processes -> Process]
    BY <1>1, <1>13, <1>19 DEF State
  <2>2. t = [s EXCEPT !.taken = M, !.tables = T, !.proc = P, !.loads = n]
    BY <1>20
  <2> HIDE DEF n
  <2> QED BY <1>1, <2>1, <2>2 DEF State
<1>22. OnlyChanges(s, t, p)
  BY <1>19, <1>21 DEF OnlyChanges
<1>23. AddressOK(t)
  <2>1. \A u \in Processes \ {p} : s.proc[u].alive => Own(s.proc[u]) \subseteq s.taken
    BY DEF AddressOK, ProcessOK
  <2>2. s.taken \subseteq M
    BY <1>9 DEF M
  <2>3. \A u \in Processes \ {p} : s.proc[u].alive => /\ Own(s.proc[u]) \subseteq t.taken
                                                      /\ Own(t.proc[p]) \cap Own(s.proc[u]) = {}
    BY <1>17, <1>19, <1>21, <2>1, <2>2
  <2>4. ProcessOK(t.proc[p], t.tables[p], t.taken)
    BY <1>18, <1>19, <1>21
  <2> QED BY <1>1, <1>21, <1>22, <2>3, <2>4, ChangeOK
<1> QED BY <1>15, <1>19, <1>21, <1>22, <1>23

(* process_terminate (process.c:122-164, :190-218).                        *)
LEMMA TerminateKeeps ==
  ASSUME NEW s, AddressOK(s), NEW p \in Processes, s.proc[p].alive
  PROVE  LET t == process_terminate(s, p)
         IN  AddressOK(t) /\ OnlyChanges(s, t, p) /\ ~ t.proc[p].alive
<1> DEFINE q == s.proc[p]
           own == UNION {PageOf(a.ptr) .. PageOf(a.ptr) + FramesFor(a.size) - 1 : a \in q.allocations}
           s1 == Freed(s, q.image, q.file.size)
           s2 == Freed(s1, q.stack, StackSize)
           s3 == Freed(s2, q.task, PageSize)
           M == s3.taken \ own
           new == paging_new_4gb(0)
           t == process_terminate(s, p)
<1>1. /\ s \in State /\ ~ s.faulted /\ ~ s.strayed /\ s.taken \subseteq Heap
      /\ q \in Process /\ Own(q) \subseteq s.taken
  BY LoadedFacts
<1>2. q.image \in Int /\ q.stack \in Int /\ q.task \in Int
  BY <1>1 DEF Process
<1>3. t = [s3 EXCEPT !.taken = @ \ own, !.proc[p] = NoProcess, !.tables[p] = new]
  BY DEF process_terminate
<1> HIDE DEF t, q, own, new
<1>4. s1 \in State /\ s1 = [s EXCEPT !.taken = s.taken \ Region(q.image, q.file.size)]
  <2> DEFINE f == q.image
             n == q.file.size
  <2>1. f \in Int /\ s \in State
    BY <1>1, <1>2
  <2> HIDE DEF f, n
  <2>2. Freed(s, f, n) \in State /\ Freed(s, f, n) = [s EXCEPT !.taken = s.taken \ Region(f, n)]
    BY <2>1, FreedFacts
  <2> QED BY <2>2 DEF f, n
<1> HIDE DEF s1
<1>5. s2 \in State /\ s2 = [s1 EXCEPT !.taken = s1.taken \ Region(q.stack, StackSize)]
  <2> DEFINE f == q.stack
             n == StackSize
  <2>1. f \in Int /\ s1 \in State
    BY <1>2, <1>4
  <2> HIDE DEF f, n
  <2>2. Freed(s1, f, n) \in State /\ Freed(s1, f, n) = [s1 EXCEPT !.taken = s1.taken \ Region(f, n)]
    BY <2>1, FreedFacts
  <2> QED BY <2>2 DEF f, n
<1> HIDE DEF s2
<1>6. s3 \in State /\ s3 = [s2 EXCEPT !.taken = s2.taken \ Region(q.task, PageSize)]
  <2> DEFINE f == q.task
             n == PageSize
  <2>1. f \in Int /\ s2 \in State
    BY <1>2, <1>5
  <2> HIDE DEF f, n
  <2>2. Freed(s2, f, n) \in State /\ Freed(s2, f, n) = [s2 EXCEPT !.taken = s2.taken \ Region(f, n)]
    BY <2>1, FreedFacts
  <2> QED BY <2>2 DEF f, n
<1> HIDE DEF s3
<1>7. /\ s3.taken \subseteq s.taken
      /\ s.taken \ (Region(q.image, q.file.size) \cup Region(q.stack, StackSize) \cup Region(q.task, PageSize)) \subseteq s3.taken
      /\ s3.tables = s.tables /\ s3.proc = s.proc /\ s3.cr3 = s.cr3 /\ s3.current = s.current
      /\ s3.faulted = s.faulted /\ s3.strayed = s.strayed
  <2> DEFINE A == Region(q.image, q.file.size)
             B == Region(q.stack, StackSize)
             C == Region(q.task, PageSize)
  <2> HIDE DEF A, B, C
  <2>1. /\ s1.taken = s.taken \ A /\ s1.tables = s.tables /\ s1.proc = s.proc /\ s1.cr3 = s.cr3 /\ s1.current = s.current
        /\ s1.faulted = s.faulted /\ s1.strayed = s.strayed
    BY <1>1, <1>4 DEF State, A
  <2>2. /\ s2.taken = s1.taken \ B /\ s2.tables = s1.tables /\ s2.proc = s1.proc /\ s2.cr3 = s1.cr3
        /\ s2.current = s1.current /\ s2.faulted = s1.faulted /\ s2.strayed = s1.strayed
    BY <1>4, <1>5 DEF State, B
  <2>3. /\ s3.taken = s2.taken \ C /\ s3.tables = s2.tables /\ s3.proc = s2.proc /\ s3.cr3 = s2.cr3
        /\ s3.current = s2.current /\ s3.faulted = s2.faulted /\ s3.strayed = s2.strayed
    BY <1>5, <1>6 DEF State, C
  <2> QED BY <2>1, <2>2, <2>3 DEF A, B, C
<1>8. s.taken \ Own(q) \subseteq M /\ M \subseteq Heap
  <2>1. own \subseteq Own(q)
    BY DEF own, Own, Requested, Region
  <2>2. Region(q.task, PageSize) = {q.task}
    BY <1>2, RegionFacts
  <2>3. s.taken \cap Region(q.image, q.file.size) \subseteq Own(q)
    <3>1. OwnsApart(q) /\ q.file \in Files
      BY LoadedFacts DEF q
    <3>2. CASE q.image = 0
      BY <1>1, <3>1, <3>2, LowFacts DEF OwnsApart
    <3>3. CASE q.image # 0
      BY <3>3 DEF Own, Fixed, Copy
    <3> QED BY <3>2, <3>3
  <2>4. s.taken \ Own(q) \subseteq s3.taken
    BY <1>7, <2>2, <2>3 DEF Own, Fixed
  <2> QED BY <1>1, <1>7, <2>1, <2>4
<1>9. NoProcess \in Process /\ new \in Directory /\ ~ NoProcess.alive
  <2>1. NoProcess \in Process
    BY DEF NoProcess, Process, Null, NoEnds, Ends
  <2> QED BY <2>1, NewFacts DEF new, NoProcess
<1> DEFINE T == [s.tables EXCEPT ![p] = new]
           P == [s.proc EXCEPT ![p] = NoProcess]
<1>10. T \in [Processes -> Directory] /\ P \in [Processes -> Process] /\ P[p] = NoProcess
       /\ \A u \in Processes \ {p} : T[u] = s.tables[u] /\ P[u] = s.proc[u]
  BY <1>1, <1>9 DEF State
<1>11. t = [s3 EXCEPT !.taken = M, !.proc = P, !.tables = T]
  BY <1>3, <1>6, <1>7 DEF State
<1> HIDE DEF T, P, M
<1>12. /\ t \in State /\ t.taken = M /\ t.cr3 = s.cr3 /\ t.current = s.current
       /\ t.faulted = s.faulted /\ t.strayed = s.strayed /\ t.tables = T /\ t.proc = P
  <2>1. M \in SUBSET Heap
    BY <1>8
  <2>2. /\ t \in State /\ t.taken = M /\ t.cr3 = s3.cr3 /\ t.current = s3.current
        /\ t.faulted = s3.faulted /\ t.strayed = s3.strayed /\ t.tables = T /\ t.proc = P
    BY <1>6, <1>10, <1>11, <2>1 DEF State
  <2> QED BY <1>7, <2>2
<1>13. OnlyChanges(s, t, p)
  BY <1>10, <1>12 DEF OnlyChanges
<1>14. AddressOK(t)
  <2>1. \A u \in Processes \ {p} : s.proc[u].alive => Own(s.proc[u]) \subseteq t.taken
    <3>1. \A u \in Processes \ {p} : s.proc[u].alive => Own(s.proc[u]) \subseteq s.taken /\ Own(s.proc[u]) \cap Own(q) = {}
      BY DEF AddressOK, ProcessOK, q
    <3> QED BY <1>8, <1>12, <3>1
  <2>2. ~ t.proc[p].alive
    BY <1>9, <1>10, <1>12
  <2> QED BY <1>1, <1>12, <1>13, <2>1, <2>2, ChangeOK
<1> QED BY <1>9, <1>10, <1>12, <1>13, <1>14 DEF t

-----------------------------------------------------------------------------
(* The handlers                                                            *)

(* Which tables are used and who is current does not matter to the rest.   *)
LEMMA OtherTables ==
  ASSUME NEW s, AddressOK(s), NEW c \in Processes \cup {Kernel}, NEW k \in Processes \cup {Null}
  PROVE  /\ AddressOK([s EXCEPT !.cr3 = c]) /\ AddressOK([s EXCEPT !.current = k, !.cr3 = c])
         /\ \A p \in Processes :
              /\ OnlyChanges([s EXCEPT !.cr3 = c], [s EXCEPT !.cr3 = c], p)
              /\ [s EXCEPT !.cr3 = c].proc[p] = s.proc[p] /\ [s EXCEPT !.cr3 = c].tables[p] = s.tables[p]
              /\ [s EXCEPT !.current = k, !.cr3 = c].proc[p] = s.proc[p]
              /\ [s EXCEPT !.current = k, !.cr3 = c].tables[p] = s.tables[p]
<1> DEFINE x == [s EXCEPT !.cr3 = c]
           y == [s EXCEPT !.current = k, !.cr3 = c]
<1>1. s \in State
  BY DEF AddressOK
<1>2. /\ x \in State /\ x.proc = s.proc /\ x.tables = s.tables /\ x.taken = s.taken /\ x.faulted = s.faulted /\ x.strayed = s.strayed
      /\ y \in State /\ y.proc = s.proc /\ y.tables = s.tables /\ y.taken = s.taken /\ y.faulted = s.faulted /\ y.strayed = s.strayed
  BY <1>1 DEF State
<1> HIDE DEF x, y
<1>3. AddressOK(x) /\ AddressOK(y)
  BY <1>2 DEF AddressOK
<1> QED BY <1>2, <1>3 DEF x, y, OnlyChanges

(* Memory that is taken and left to no one.                                *)
LEMMA TakenKeeps ==
  ASSUME NEW s, AddressOK(s), Place(s, 1) # Null, NEW p \in Processes
  PROVE  LET t == Taken(s, Place(s, 1), PageSize)
         IN  AddressOK(t) /\ OnlyChanges(s, t, p) /\ t.proc[p] = s.proc[p]
<1> DEFINE f == Place(s, 1)
           t == Taken(s, f, PageSize)
           K == s.taken \cup {f}
<1>1. s \in State /\ s.taken \subseteq Heap
  BY DEF AddressOK, State
<1>2. f \in Nat /\ f \in Heap
  BY PlaceFacts
<1>3. Region(f, PageSize) = {f}
  BY <1>2, RegionFacts
<1>4. K \in SUBSET Heap
  BY <1>1, <1>2
<1> HIDE DEF f
<1>5. t = [s EXCEPT !.taken = K]
  BY <1>1, <1>2, <1>3, TakenFacts
<1>6. s.taken \subseteq K
  OBVIOUS
<1> HIDE DEF t, K
<1>7. /\ t \in State /\ t.taken = K /\ t.tables = s.tables /\ t.proc = s.proc /\ t.cr3 = s.cr3
      /\ t.current = s.current /\ t.faulted = s.faulted /\ t.strayed = s.strayed
  BY <1>1, <1>4, <1>5 DEF State
<1>8. OnlyChanges(s, t, p)
  BY <1>7 DEF OnlyChanges
<1>9. AddressOK(t)
  BY <1>6, <1>7 DEF AddressOK, ProcessOK
<1> QED BY <1>7, <1>8, <1>9 DEF t, f

(* What a step comes to: the functions of its handler lead from the state  *)
(* with the kernel's tables to t and change process r alone, and process p *)
(* runs; one that was loaded before and is after is the one that called,   *)
(* and keeps its entries but for what it allocated or freed.               *)
Steps(t, p, r) ==
  /\ AddressOK(t) /\ p \in Processes /\ t.proc[p].alive
  /\ r \in Processes /\ OnlyChanges(Enter, t, r)
  /\ os' = [t EXCEPT !.current = p, !.cr3 = p]
  /\ os.proc[r].alive /\ t.proc[r].alive => r = os.current /\ EntriesKept(Enter, t, r)

(* A handler begins with a good state, that of the program it interrupts.  *)
LEMMA EnterFacts ==
  ASSUME AddressInv
  PROVE  /\ os.current \in Processes /\ AddressOK(Enter) /\ Enter.current = os.current /\ Enter.cr3 = Kernel
         /\ Enter.proc = os.proc /\ Enter.tables = os.tables
         /\ Enter.proc[os.current].alive /\ Entered = Enter
         /\ EntriesKept(Enter, Enter, os.current) /\ \A r \in Processes : OnlyChanges(Enter, Enter, r)
<1>1. os \in State /\ AddressOK(os) /\ os.current \in Processes /\ os.proc[os.current].alive
  BY DEF AddressInv, AddressOK
<1>2. Enter = [os EXCEPT !.cr3 = Kernel]
  BY DEF Enter, kernel_page
<1>3. AddressOK(Enter)
  BY <1>1, <1>2, OtherTables
<1>4. Enter \in State /\ Enter.proc = os.proc /\ Enter.tables = os.tables /\ Enter.current = os.current /\ Enter.cr3 = Kernel
  BY <1>1, <1>2 DEF State
<1>5. Entered = [Enter EXCEPT !.cr3 = Kernel]
  BY <1>1, <1>3, <1>4, StackItemFacts DEF Entered
<1>6. Entered = Enter
  BY <1>1, <1>2, <1>5 DEF State
<1> QED BY <1>1, <1>3, <1>4, <1>6 DEF EntriesKept, OnlyChanges

(* Reading for the program that called leaves the state (task.c:154-198,   *)
(* isr80h/process.c:44-97).                                                *)
LEMMA EnterReads ==
  ASSUME AddressInv
  PROVE  /\ \A page \in Addresses :
              ~ CopyFaults(Entered, os.current, page) => copy_string_from_task(Entered, os.current, page) = Enter
         /\ \A page : task_virtual_address_to_physical(Entered, os.current, page) = Enter
<1> DEFINE p == os.current
<1>1. p \in Processes /\ AddressOK(Enter) /\ Enter.cr3 = Kernel /\ Enter.proc[p].alive /\ Entered = Enter
  BY EnterFacts
<1> HIDE DEF p
<1>2. \A page : task_virtual_address_to_physical(Enter, p, page) = Enter
  BY <1>1, TranslateFacts
<1>3. \A page \in Addresses : ~ CopyFaults(Enter, p, page) => copy_string_from_task(Enter, p, page) = Enter
  BY <1>1, CopyFacts, RequestsAssumption
<1> QED BY <1>1, <1>2, <1>3 DEF p

(* The program that called goes on, or p runs.                             *)
LEMMA SwitchesTo ==
  ASSUME NEW t, AddressOK(t), NEW p \in Processes, t.proc[p].alive
  PROVE  /\ task_switch(t, p) = [t EXCEPT !.current = p, !.cr3 = p]
         /\ t.current = p => task_page(t) = [t EXCEPT !.current = p, !.cr3 = p]
<1>1. task_switch(t, p) = [t EXCEPT !.current = p, !.cr3 = p]
  BY SwitchFacts
<1>2. task_page(t) = task_switch(t, t.current)
  BY DEF task_page
<1> QED BY <1>1, <1>2

(* Each handler is such a step.                                            *)
LEMMA StepIs ==
  ASSUME AddressInv, Next
  PROVE  \E t, p, r : Steps(t, p, r)
<1> DEFINE c == os.current
<1>1. /\ c \in Processes /\ AddressOK(Enter) /\ Enter.current = c /\ Enter.proc = os.proc
      /\ Enter.proc[c].alive /\ Entered = Enter
      /\ EntriesKept(Enter, Enter, c) /\ \A r \in Processes : OnlyChanges(Enter, Enter, r)
  BY EnterFacts
<1>2. /\ \A page \in Addresses :
           ~ CopyFaults(Entered, c, page) => copy_string_from_task(Entered, c, page) = Enter
      /\ \A page : task_virtual_address_to_physical(Entered, c, page) = Enter
  BY EnterReads
<1>3. ASSUME os' = task_page(Enter) PROVE \E t, p, r : Steps(t, p, r)
  <2>1. os' = [Enter EXCEPT !.current = c, !.cr3 = c]
    BY <1>1, <1>3, SwitchesTo
  <2>2. Steps(Enter, c, c)
    BY <1>1, <2>1 DEF Steps
  <2> QED BY <2>2
<1>4. CASE \E page \in Addresses : PrintBuffer(page)
  BY <1>2, <1>3, <1>4 DEF PrintBuffer
<1>5. CASE \E size \in Sizes : Malloc(size)
  <2>1. PICK size \in Sizes : Malloc(size)
    BY <1>5
  <2> DEFINE t == process_malloc(Enter, c, size)
  <2>2. size \in Nat \ {0}
    BY RequestsAssumption
  <2>3. AddressOK(t) /\ OnlyChanges(Enter, t, c) /\ t.proc[c].alive /\ EntriesKept(Enter, t, c)
    BY <1>1, <2>2, MallocKeeps
  <2>4. os' = task_page(t)
    BY <1>1, <2>1 DEF Malloc
  <2> HIDE DEF t
  <2>5. os' = [t EXCEPT !.current = c, !.cr3 = c]
    <3>1. t.current = c
      BY <1>1, <2>3 DEF OnlyChanges
    <3> QED BY <1>1, <2>3, <2>4, <3>1, SwitchesTo
  <2>6. Steps(t, c, c)
    BY <1>1, <2>3, <2>5 DEF Steps
  <2> QED BY <2>6
<1>6. CASE \E a \in os.proc[c].allocations : Free(a)
  <2>1. PICK a \in os.proc[c].allocations : Free(a)
    BY <1>6
  <2> DEFINE t == process_free(Enter, c, a)
  <2>2. a \in Enter.proc[c].allocations
    BY <1>1
  <2>3. AddressOK(t) /\ OnlyChanges(Enter, t, c) /\ t.proc[c].alive /\ EntriesKept(Enter, t, c)
    BY <1>1, <2>2, FreeKeeps
  <2>4. os' = task_page(t)
    BY <1>1, <2>1 DEF Free
  <2> HIDE DEF t
  <2>5. os' = [t EXCEPT !.current = c, !.cr3 = c]
    <3>1. t.current = c
      BY <1>1, <2>3 DEF OnlyChanges
    <3> QED BY <1>1, <2>3, <2>4, <3>1, SwitchesTo
  <2>6. Steps(t, c, c)
    BY <1>1, <2>3, <2>5 DEF Steps
  <2> QED BY <2>6
<1>7. ASSUME NEW p \in Processes, NEW file \in Files, NEW page \in Addresses, LoadStart(p, file, page)
      PROVE  \E t, x, r : Steps(t, x, r)
  <2>1. /\ ~ os.proc[p].alive
        /\ \/ \E s \in Loaded(Enter, p, file) : os' = task_switch(s, p)
           \/ os' = task_page(Enter)
    BY <1>2, <1>7 DEF LoadStart, Alive
  <2>2. CASE \E s \in Loaded(Enter, p, file) : os' = task_switch(s, p)
    <3>1. PICK s \in Loaded(Enter, p, file) : os' = task_switch(s, p)
      BY <2>2
    <3>2. AddressOK(s) /\ OnlyChanges(Enter, s, p) /\ s.proc[p].alive
      BY <1>1, <2>1, LoadKeeps
    <3>3. os' = [s EXCEPT !.current = p, !.cr3 = p]
      BY <3>1, <3>2, SwitchesTo
    <3>4. Steps(s, p, p)
      BY <2>1, <3>2, <3>3 DEF Steps
    <3> QED BY <3>4
  <2> QED BY <1>3, <2>1, <2>2
<1>8. ASSUME NEW p \in Processes, NEW file \in Files, NEW page \in Addresses, NEW n \in 1 .. MaxArguments,
             SystemCommand(p, file, page, n)
      PROVE  \E t, x, r : Steps(t, x, r)
  <2>1. n \in Nat
    BY RequestsAssumption
  <2>2. /\ ~ os.proc[p].alive
        /\ \/ \E s \in Loaded(Enter, p, file) :
                LET t == process_inject_arguments(s, p, n) IN os' = task_switch(t, p) \/ os' = task_page(t)
           \/ os' = task_page(Enter)
    BY <1>2, <1>8 DEF SystemCommand, Alive
  <2>3. CASE \E s \in Loaded(Enter, p, file) :
                LET t == process_inject_arguments(s, p, n) IN os' = task_switch(t, p) \/ os' = task_page(t)
    <3>1. PICK s \in Loaded(Enter, p, file) :
                LET t == process_inject_arguments(s, p, n) IN os' = task_switch(t, p) \/ os' = task_page(t)
      BY <2>3
    <3> DEFINE t == process_inject_arguments(s, p, n)
    <3>2. AddressOK(s) /\ OnlyChanges(Enter, s, p) /\ s.proc[p].alive
      BY <1>1, <2>2, LoadKeeps
    <3>3. AddressOK(t) /\ OnlyChanges(s, t, p) /\ t.proc[p].alive
      BY <2>1, <3>2, InjectKeeps
    <3>4. os' = task_switch(t, p) \/ os' = task_page(t)
      BY <3>1
    <3> HIDE DEF t
    <3>5. OnlyChanges(Enter, t, p)
      BY <3>2, <3>3 DEF OnlyChanges
    <3>6. t.current = c /\ t.proc[c].alive
      BY <1>1, <2>2, <3>5 DEF OnlyChanges
    <3>7. CASE os' = task_switch(t, p)
      <4>1. Steps(t, p, p)
        BY <2>2, <3>3, <3>5, <3>7, SwitchesTo DEF Steps
      <4> QED BY <4>1
    <3>8. CASE os' = task_page(t)
      <4>1. os' = [t EXCEPT !.current = c, !.cr3 = c]
        BY <1>1, <3>3, <3>6, <3>8, SwitchesTo
      <4>2. Steps(t, c, p)
        BY <1>1, <2>2, <3>3, <3>5, <3>6, <4>1 DEF Steps
      <4> QED BY <4>2
    <3> QED BY <3>4, <3>7, <3>8
  <2> QED BY <1>3, <2>2, <2>3
<1>9. CASE \E m \in Memory(os.proc[c]) : GetArguments(m)
  BY <1>2, <1>3, <1>9 DEF GetArguments
<1>10. ASSUME NEW p \in Processes, Exit(p) PROVE \E t, x, r : Steps(t, x, r)
  <2> DEFINE t == process_terminate(Enter, c)
  <2>1. os.proc[p].alive /\ p # c /\ os' = task_switch(t, p)
    BY <1>10 DEF Exit, Alive
  <2>2. AddressOK(t) /\ OnlyChanges(Enter, t, c) /\ ~ t.proc[c].alive
    BY <1>1, TerminateKeeps
  <2> HIDE DEF t
  <2>3. t.proc[p].alive
    BY <1>1, <2>1, <2>2 DEF OnlyChanges
  <2>4. os' = [t EXCEPT !.current = p, !.cr3 = p]
    BY <2>1, <2>2, <2>3, SwitchesTo
  <2>5. Steps(t, p, c)
    BY <1>1, <2>2, <2>3, <2>4 DEF Steps
  <2> QED BY <2>5
<1>11. ASSUME NEW p \in Processes, Clock(p) PROVE \E t, x, r : Steps(t, x, r)
  <2>1. Enter.proc[p].alive /\ os' = task_switch(Enter, p)
    BY <1>1, <1>11 DEF Clock, Alive
  <2>2. os' = [Enter EXCEPT !.current = p, !.cr3 = p]
    BY <1>1, <2>1, SwitchesTo
  <2>3. Steps(Enter, p, c)
    BY <1>1, <2>1, <2>2 DEF Steps
  <2> QED BY <2>3
<1>12. ASSUME NEW page \in Addresses, NEW p \in Processes, CommandFaults(page, p)
       PROVE  \E t, x, r : Steps(t, x, r)
  <2> DEFINE s == Taken(Enter, Place(Enter, 1), PageSize)
             t == process_terminate(s, c)
  <2>1. Place(Enter, 1) # Null /\ os.proc[p].alive /\ p # c /\ os' = task_switch(t, p)
    BY <1>1, <1>12 DEF CommandFaults, CopyFaults, Alive
  <2>2. AddressOK(s) /\ OnlyChanges(Enter, s, c) /\ s.proc[c].alive
    BY <1>1, <2>1, TakenKeeps
  <2> HIDE DEF s
  <2>3. AddressOK(t) /\ OnlyChanges(s, t, c) /\ ~ t.proc[c].alive
    BY <1>1, <2>2, TerminateKeeps
  <2> HIDE DEF t
  <2>4. OnlyChanges(Enter, t, c)
    BY <2>2, <2>3 DEF OnlyChanges
  <2>5. t.proc[p].alive
    BY <1>1, <2>1, <2>4 DEF OnlyChanges
  <2>6. os' = [t EXCEPT !.current = p, !.cr3 = p]
    BY <2>1, <2>3, <2>5, SwitchesTo
  <2>7. Steps(t, p, c)
    BY <1>1, <2>3, <2>4, <2>5, <2>6 DEF Steps
  <2> QED BY <2>7
<1> QED BY <1>4, <1>5, <1>6, <1>7, <1>8, <1>9, <1>10, <1>11, <1>12 DEF Next

-----------------------------------------------------------------------------
(* The invariant                                                           *)

(* The two programs of the kernel are loaded into a machine with none.     *)
LEMMA InitOK == Init => AddressInv
<1> SUFFICES ASSUME Init PROVE AddressInv
  OBVIOUS
<1>1. AddressOK(Empty) /\ \A p \in Processes : ~ Empty.proc[p].alive
  <2> DEFINE T == [p \in Processes |-> paging_new_4gb(0)]
             P == [p \in Processes |-> NoProcess]
  <2>1. T \in [Processes -> Directory]
    BY NewFacts
  <2>2. P \in [Processes -> Process] /\ \A p \in Processes : ~ P[p].alive
    BY DEF NoProcess, Process, Null, NoEnds, Ends
  <2>3. Empty = [tables |-> T, cr3 |-> Kernel, current |-> Null, proc |-> P, taken |-> {},
                 faulted |-> FALSE, strayed |-> FALSE, loads |-> 0]
    BY DEF Empty
  <2> HIDE DEF T, P
  <2>4. Empty \in State /\ ~ Empty.faulted /\ ~ Empty.strayed /\ Empty.proc = P
    BY <2>1, <2>2, <2>3 DEF State
  <2> QED BY <2>2, <2>4 DEF AddressOK
<1>2. PICK p \in Processes, q \in Processes, file \in Files :
         /\ p # q
         /\ \E s \in Loaded(Empty, p, file) :
              \E t \in Loaded(process_inject_arguments(s, p, 1), q, file) :
                os = task_switch(process_inject_arguments(t, q, 1), p)
  BY DEF Init
<1>3. PICK s \in Loaded(Empty, p, file) :
         \E t \in Loaded(process_inject_arguments(s, p, 1), q, file) :
           os = task_switch(process_inject_arguments(t, q, 1), p)
  BY <1>2
<1> DEFINE x == process_inject_arguments(s, p, 1)
<1>4. PICK t \in Loaded(x, q, file) : os = task_switch(process_inject_arguments(t, q, 1), p)
  BY <1>3
<1> DEFINE y == process_inject_arguments(t, q, 1)
<1>5. AddressOK(s) /\ s.proc[p].alive /\ ~ s.proc[q].alive
  <2>1. AddressOK(s) /\ OnlyChanges(Empty, s, p) /\ s.proc[p].alive
    BY <1>1, LoadKeeps
  <2>2. s.proc[q] = Empty.proc[q]
    BY <1>2, <2>1 DEF OnlyChanges
  <2> QED BY <1>1, <2>1, <2>2
<1>6. AddressOK(x) /\ x.proc[p].alive /\ ~ x.proc[q].alive
  <2>1. AddressOK(x) /\ OnlyChanges(s, x, p) /\ x.proc[p].alive
    BY <1>5, InjectKeeps
  <2> HIDE DEF x
  <2>2. x.proc[q] = s.proc[q]
    BY <1>2, <2>1 DEF OnlyChanges
  <2> QED BY <1>5, <2>1, <2>2
<1> HIDE DEF x
<1>7. AddressOK(t) /\ t.proc[p].alive /\ t.proc[q].alive
  <2>1. AddressOK(t) /\ OnlyChanges(x, t, q) /\ t.proc[q].alive
    BY <1>6, LoadKeeps
  <2>2. t.proc[p] = x.proc[p]
    BY <1>2, <2>1 DEF OnlyChanges
  <2> QED BY <1>6, <2>1, <2>2
<1>8. AddressOK(y) /\ y.proc[p].alive
  <2>1. AddressOK(y) /\ OnlyChanges(t, y, q)
    BY <1>7, InjectKeeps
  <2> HIDE DEF y
  <2>2. y.proc[p] = t.proc[p]
    BY <1>2, <2>1 DEF OnlyChanges
  <2> QED BY <1>7, <2>1, <2>2
<1>9. os = task_switch(y, p)
  BY <1>4
<1> HIDE DEF y
<1>10. os = [y EXCEPT !.current = p, !.cr3 = p]
  BY <1>8, <1>9, SwitchesTo
<1>11. y \in State
  BY <1>8 DEF AddressOK
<1>12. os.current = p /\ os.cr3 = p /\ os.proc = y.proc
  BY <1>10, <1>11 DEF State
<1>13. AddressOK(os)
  BY <1>8, <1>10, OtherTables
<1> QED BY <1>8, <1>12, <1>13 DEF AddressInv

(* What a step leaves, seen from the state after it.                       *)
LEMMA StepLeaves ==
  ASSUME AddressInv, NEW t, NEW p, NEW r, Steps(t, p, r)
  PROVE  /\ AddressInv' /\ os'.proc = t.proc /\ os'.tables = t.tables
         /\ \A u \in Processes \ {r} : os'.proc[u] = os.proc[u] /\ os'.tables[u] = os.tables[u]
<1>1. AddressOK(t) /\ p \in Processes /\ t.proc[p].alive /\ os' = [t EXCEPT !.current = p, !.cr3 = p]
  BY DEF Steps
<1>2. t \in State
  BY <1>1 DEF AddressOK
<1>3. os'.current = p /\ os'.cr3 = p /\ os'.proc = t.proc /\ os'.tables = t.tables
  BY <1>1, <1>2 DEF State
<1>4. AddressOK([t EXCEPT !.current = p, !.cr3 = p])
  BY <1>1, OtherTables
<1>5. AddressOK(os)'
  <2>1. AddressOK(os')
    BY <1>1, <1>4
  <2> QED BY <2>1 DEF AddressOK
<1>6. AddressInv'
  BY <1>1, <1>3, <1>5 DEF AddressInv
<1>7. Enter.proc = os.proc /\ Enter.tables = os.tables
  BY EnterFacts
<1> QED BY <1>3, <1>6, <1>7 DEF Steps, OnlyChanges

-----------------------------------------------------------------------------
(* The theorems                                                            *)

(* Whatever programs are loaded, whatever they ask for and in whatever     *)
(* order they exit, the tables of each show it what is its own, and the    *)
(* kernel finds what it needs through them.                                *)
THEOREM AddressSafety == Spec => []AddressInv
<1>1. Init => AddressInv
  BY InitOK
<1>2. AddressInv /\ [Next]_os => AddressInv'
  <2> SUFFICES ASSUME AddressInv, [Next]_os PROVE AddressInv'
    OBVIOUS
  <2>1. CASE Next
    <3>1. PICK t, p, r : Steps(t, p, r)
      BY <2>1, StepIs
    <3> QED BY <3>1, StepLeaves
  <2>2. CASE UNCHANGED os
    BY <2>2 DEF AddressInv
  <2> QED BY <2>1, <2>2
<1> QED BY <1>1, <1>2, PTL DEF Spec

(* The kernel finds its code, its stack, the task it returns to and its    *)
(* copy of a string through the tables of any process, and uses none that  *)
(* were freed (task.c:106-198, :279-299, process.c:194-216).               *)
THEOREM NeverFaults == Spec => []NoFault
<1>1. AddressInv => NoFault
  BY DEF AddressInv, AddressOK, NoFault
<1> QED BY <1>1, AddressSafety, PTL

(* At an address of a program's memory it reads and writes what the        *)
(* program has there (task.c:154-198, :279-309, isr80h/process.c:44-97).   *)
THEOREM StaysWithin == Spec => []TouchesOwn
<1>1. AddressInv => TouchesOwn
  BY DEF AddressInv, AddressOK, TouchesOwn
<1> QED BY <1>1, AddressSafety, PTL

(* A program sees its segments, its stack and its allocations where it was *)
(* linked for and told, with their protection (process.c:59-86, :385-473). *)
THEOREM ShowsPrograms == Spec => []SeesProgram
<1>1. AddressInv => SeesProgram
  <2> SUFFICES ASSUME AddressInv, NEW p \in Alive, NEW m \in Memory(os.proc[p])
               PROVE  paging_get(os.tables[p], m.page)
                        = [frame |-> m.frame, flags |-> IF m.write THEN Writeable ELSE ReadOnly]
    BY DEF SeesProgram
  <2>1. p \in Processes /\ os.proc[p].alive /\ AddressOK(os)
    BY DEF Alive, AddressInv
  <2>2. Shows(os.tables[p], os.proc[p])
    BY <2>1, LoadedFacts
  <2> QED BY <2>2 DEF Shows, EntryOf
<1> QED BY <1>1, AddressSafety, PTL

(* The ends the loader noted hold all segments, and the tables translate   *)
(* them as it noted (elfloader.c:143-164, process.c:385-423).              *)
THEOREM BoundsAgree == Spec => []BoundsTranslate
<1>1. AddressInv => BoundsTranslate
  <2> SUFFICES ASSUME AddressInv, NEW p \in Alive, elf_validate_loaded(os.proc[p].file)
               PROVE  LET e == os.proc[p].ends
                          Physical(a) == FrameOf(os.tables[p], PageOf(a)) * PageSize + (a % PageSize)
                          loaded == {h \in Range(os.proc[p].file.phdrs) : h.load}
                      IN  /\ Physical(e.virtual_base) = e.physical_base
                          /\ Physical(e.virtual_end - 1) = e.physical_end - 1
                          /\ \A h \in loaded : e.virtual_base <= h.vaddr /\ h.vaddr + h.filesz <= e.virtual_end
    BY Zenon DEF BoundsTranslate
  <2> DEFINE q == os.proc[p]
             d == os.tables[p]
  <2>1. p \in Processes /\ q.alive /\ AddressOK(os)
    BY DEF Alive, AddressInv
  <2>2. q \in Process /\ q.file \in Files /\ d \in Directory /\ Shows(d, q) /\ Own(q) \subseteq Heap
    BY <2>1, LoadedFacts
  <2>3. q.ends = EndsOf(q)
    BY <2>1 DEF AddressOK, ProcessOK
  <2>4. q.image \in Nat
    BY <2>1, LoadedFacts DEF OwnsApart
  <2> HIDE DEF q, d
  <2>5. LET e == q.ends
        IN  /\ Translated(d, e.virtual_base) = e.physical_base
            /\ Translated(d, e.virtual_end - 1) = e.physical_end - 1
            /\ \A h \in {x \in Range(q.file.phdrs) : x.load} :
                 e.virtual_base <= h.vaddr /\ h.vaddr + h.filesz <= e.virtual_end
    <3>1. elf_validate_loaded(q.file)
      BY DEF q
    <3> QED BY <2>2, <2>3, <2>4, <3>1, EndsTranslated
  <2> QED BY <2>5 DEF Translated, q, d
<1> QED BY <1>1, AddressSafety, PTL

(* The tables of a loaded process change only where it allocates and frees *)
(* itself: the copy of a string leaves no trace, and no handler changes    *)
(* another's (task.c:169-186, process.c:292).                              *)
THEOREM KeepsEntries == Spec => TablesKept
<1> DEFINE Kept == \A p \in Processes :
       os.proc[p].alive /\ os'.proc[p].alive /\ os'.tables[p] # os.tables[p] =>
       \A page \in Pages \ (IF p = os.current THEN Moved(p) ELSE {}) :
         paging_get(os'.tables[p], page) = paging_get(os.tables[p], page)
<1>1. AddressInv /\ [Next]_os => [Kept]_os
  <2> SUFFICES ASSUME AddressInv, Next PROVE Kept
    OBVIOUS
  <2>1. PICK t, c, r : Steps(t, c, r)
    BY StepIs
  <2>2. /\ os'.proc = t.proc /\ os'.tables = t.tables
        /\ \A u \in Processes \ {r} : os'.proc[u] = os.proc[u] /\ os'.tables[u] = os.tables[u]
    BY <2>1, StepLeaves
  <2>3. Enter.proc = os.proc /\ Enter.tables = os.tables
    BY EnterFacts
  <2> SUFFICES ASSUME NEW p \in Processes, os.proc[p].alive, os'.proc[p].alive, os'.tables[p] # os.tables[p],
                      NEW page \in Pages \ (IF p = os.current THEN Moved(p) ELSE {})
               PROVE  paging_get(os'.tables[p], page) = paging_get(os.tables[p], page)
    OBVIOUS
  <2>4. p = r
    BY <2>2
  <2>5. r = os.current /\ EntriesKept(Enter, t, r)
    BY <2>1, <2>2, <2>4 DEF Steps
  <2>6. Moved(r) = Differs(Enter, t, r)
    BY <2>2, <2>3 DEF Moved, Differs
  <2> QED BY <2>2, <2>3, <2>4, <2>5, <2>6 DEF EntriesKept
<1> QED BY <1>1, AddressSafety, PTL DEF Spec, TablesKept

-----------------------------------------------------------------------------
(* Grants                                                                  *)

May == [p \in Processes |-> IF os.proc[p].alive THEN WritableFrames(p) \ Shared(os.proc[p]) ELSE {}]

KeptFrames == {os.proc[p].task : p \in Alive} \cup KernelPages

(* What a process can write is in no other's hands and not kept.           *)
Apart == May \in [Processes -> SUBSET Pages] /\ G!Apart(May, KeptFrames)

(* A process can write its own frames only, and not the one with its task, *)
(* but for the low frames where its image is at address 0.                 *)
LEMMA WritesItsOwn ==
  ASSUME AddressInv, NEW p \in Processes, os.proc[p].alive
  PROVE  /\ WritableFrames(p) \ Shared(os.proc[p]) \subseteq Own(os.proc[p]) \ {os.proc[p].task}
         /\ Own(os.proc[p]) \subseteq Heap
<1> DEFINE d == os.tables[p]
<1>1. AddressOK(os)
  BY DEF AddressInv
<1>2. d \in Directory /\ Own(os.proc[p]) \subseteq Heap
  BY <1>1, LoadedFacts
<1>3. WritesOwn(d, os.proc[p])
  BY <1>1 DEF AddressOK, ProcessOK
<1>4. ASSUME NEW frame \in WritableFrames(p) \ Shared(os.proc[p]) PROVE frame \in Own(os.proc[p]) \ {os.proc[p].task}
  <2>1. PICK x \in Indexes : \E e \in Range(d[x]) : IsWriteable(e.flags) /\ e.frame = frame
    BY DEF WritableFrames
  <2>2. PICK y \in Indexes : IsWriteable(d[x][y].flags) /\ d[x][y].frame = frame
    BY <1>2, <2>1 DEF Range, Directory
  <2>3. PICK page \in Pages : paging_get(d, page) = d[x][y]
    <3> DEFINE n == Entries
               g == n * x + y
    <3>1. n \in Nat \ {0} /\ x \in 0 .. n - 1 /\ y \in 0 .. n - 1
      BY LayoutAssumption DEF Indexes
    <3>2. g \in Nat /\ g <= n * n - 1
      <4> HIDE DEF n
      <4>1. n * x <= n * (n - 1) /\ n * (n - 1) = n * n - n /\ n * x \in Nat
        BY <3>1
      <4> QED BY <3>1, <4>1
    <3>3. g \div n = x /\ g % n = y
      <4> HIDE DEF n
      <4> QED BY <3>1
    <3>4. g \in Pages
      BY <3>2, <3>1 DEF Pages
    <3> HIDE DEF g
    <3> QED BY <3>3, <3>4 DEF paging_get
  <2>4. PICK m \in Memory(os.proc[p]) : m.page = page
    BY <1>3, <2>2, <2>3 DEF WritesOwn
  <2>5. paging_get(d, page) = EntryOf(m) /\ m.frame \in (Own(os.proc[p]) \ {os.proc[p].task}) \cup Shared(os.proc[p])
    BY <1>1, <2>4, LoadedShows
  <2> QED BY <2>2, <2>3, <2>5 DEF EntryOf
<1> QED BY <1>2, <1>4

(* So no two can write the same one, and none can write what is kept.      *)
LEMMA GrantsApart ==
  ASSUME AddressInv
  PROVE  Apart
<1>1. ASSUME NEW p \in Processes
      PROVE  /\ May[p] \subseteq Pages
             /\ os.proc[p].alive => May[p] \subseteq Own(os.proc[p]) \ {os.proc[p].task} /\ Own(os.proc[p]) \subseteq Heap
             /\ ~ os.proc[p].alive => May[p] = {}
  BY WritesItsOwn, LayoutAssumption DEF May
<1>2. May \in [Processes -> SUBSET Pages]
  BY <1>1 DEF May
<1>3. ASSUME NEW p \in Processes, NEW q \in Processes, p # q, os.proc[p].alive, os.proc[q].alive
      PROVE  Own(os.proc[p]) \cap Own(os.proc[q]) = {}
  BY <1>3 DEF AddressInv, AddressOK
<1>4. ASSUME NEW p \in Processes, NEW frame \in May[p] PROVE frame \notin KeptFrames
  <2>1. os.proc[p].alive /\ frame \in Own(os.proc[p]) /\ frame # os.proc[p].task /\ frame \in Heap
    BY <1>1, <1>4
  <2>2. ASSUME NEW q \in Alive, frame = os.proc[q].task PROVE FALSE
    <3>1. q \in Processes /\ os.proc[q].alive /\ frame \in Own(os.proc[q])
      BY <2>2 DEF Alive, Own, Fixed
    <3> QED BY <1>3, <2>1, <2>2, <3>1
  <2> QED BY <2>1, <2>2, LayoutAssumption DEF KeptFrames
<1>5. (UNION Range(May)) \cap KeptFrames = {}
  <2>1. ASSUME NEW S \in Range(May), NEW frame \in S PROVE frame \notin KeptFrames
    <3>1. PICK p \in Processes : S = May[p]
      BY <1>2 DEF Range
    <3> QED BY <1>4, <2>1, <3>1
  <2> DEFINE R == Range(May)
             K == KeptFrames
  <2>2. \A S \in R : \A frame \in S : frame \notin K
    BY <2>1
  <2> HIDE DEF R, K
  <2>3. (UNION R) \cap K = {}
    BY <2>2
  <2> QED BY <2>3 DEF R, K
<1>6. \A p, q \in Processes : p # q => May[p] \cap May[q] = {}
  BY <1>1, <1>3
<1> QED BY <1>2, <1>5, <1>6 DEF Apart, G!Apart, G!Range, Range

(* The frames a process can write are its own; a step gives frames to one  *)
(* process or takes them from it (task.h:32-33, paging.c:153-211).         *)
THEOREM GrantsOnly == Spec => WritesGranted
<1>1. AddressInv => G!Init
  <2> SUFFICES ASSUME AddressInv PROVE G!Init
    OBVIOUS
  <2>1. Apart
    BY GrantsApart
  <2> QED BY <2>1 DEF Apart, G!Init, May, KeptFrames
<1>2. AddressInv => Apart
  BY GrantsApart
<1>3. AddressInv /\ Apart' /\ [Next]_os => [G!Next]_(G!vars)
  <2> SUFFICES ASSUME AddressInv, Apart', [Next]_os PROVE [G!Next]_(G!vars)
    OBVIOUS
  <2>1. CASE Next
    <3>1. PICK t, p, r : Steps(t, p, r)
      BY <2>1, StepIs
    <3>2. AddressInv' /\ \A u \in Processes \ {r} : os'.proc[u] = os.proc[u] /\ os'.tables[u] = os.tables[u]
      BY <3>1, StepLeaves
    <3>4. r \in Processes /\ \A u \in Processes \ {r} : May'[u] = May[u]
      <4>1. r \in Processes
        BY <3>1 DEF Steps
      <4>2. ASSUME NEW u \in Processes \ {r} PROVE May'[u] = May[u]
        <5>1. os'.proc[u] = os.proc[u] /\ os'.tables[u] = os.tables[u]
          BY <3>2
        <5>2. WritableFrames(u)' = WritableFrames(u)
          BY <5>1 DEF WritableFrames
        <5>3. May[u] = (IF os.proc[u].alive THEN WritableFrames(u) \ Shared(os.proc[u]) ELSE {})
              /\ May'[u] = IF os'.proc[u].alive THEN WritableFrames(u)' \ Shared(os'.proc[u]) ELSE {}
          BY DEF May, Shared
        <5> QED BY <5>1, <5>2, <5>3
      <4> QED BY <4>1, <4>2
    <3>5. G!Apart(May', KeptFrames')
      BY DEF Apart
    <3>6. G!Next
      BY <3>4, <3>5 DEF G!Next, May, KeptFrames
    <3> QED BY <3>6
  <2>2. CASE UNCHANGED os
    BY <2>2 DEF G!vars, WritableFrames, Alive
  <2> QED BY <2>1, <2>2
<1> QED BY <1>1, <1>2, <1>3, AddressSafety, InitOK, PTL DEF Spec, WritesGranted, G!Spec

==============================================================================
