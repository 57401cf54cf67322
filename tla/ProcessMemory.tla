---------------------------- MODULE ProcessMemory ----------------------------
(***************************************************************************)
(* The memory of the processes (process_malloc, process_free, the load and *)
(* the end of a process in task/process.c, commands 4 to 7 and 9 of        *)
(* isr80h/): what a process allocated, what it can write, and what is lost.*)
(*                                                                         *)
(* A handler makes several calls of the heap, so the functions are         *)
(* operators from one state of the memory (the record mem) to the next.    *)
(* The task and the page tables of a process, which are made after its     *)
(* stack and freed with it, and the struct elf_file are not counted: a     *)
(* load that has its stack has the memory for them.                        *)
(***************************************************************************)
EXTENDS HeapTable, FiniteSets

CONSTANTS
  Sizes,            \* the request sizes of user programs
  Processes,        \* the processes that are ever loaded
  MaxAllocations,   \* PLUMOS_MAX_PROGRAM_ALLOCATIONS
  Images,           \* the program files: [elf |-> whether it is an ELF file,
                    \*   file |-> bytes of the file,
                    \*   memory |-> bytes the program has in memory]
  KernelSize,       \* bytes of a stack, a struct process and an argument
  LowPages          \* pages of low memory that can be overwritten: those below
                    \*   the one with the byte kfree(NULL) clears (heap.c:159)

VARIABLE mem

Null == -1      \* kmalloc's null pointer; pointers are the blocks they point to

(* What the kernel asks the heap for, for programs and for itself. *)
Requests == Sizes \cup {i.file : i \in Images} \cup {KernelSize}

Allocation == [start : Blocks, size : Requests]

ASSUME AllocationsAssumption == MaxAllocations \in Nat

ASSUME ImagesAssumption == \A i \in Images : i.elf \in BOOLEAN /\ i.memory \in Nat

(* An ELF file is read to address 0 when there is no memory for its copy   *)
(* (elfloader.c:246): it is short enough to leave the heap's table alone.  *)
ASSUME LowAssumption ==
  /\ LowPages \in 0 .. PoolBlock
  /\ \A i \in Images : i.elf => {i.file, i.memory} \subseteq 0 .. LowPages * BlockSize

(* No request is empty or wraps around a size_t when it is rounded up.     *)
NoWrap == Requests \subseteq 1 .. WordSize - 2 * BlockSize

(* No program has more memory than its file has bytes.                     *)
NoBss == \A i \in Images : i.memory <= i.file

Indexes == 1 .. MaxAllocations

Empty == [ptr |-> Null, size |-> 0]

(* The blocks from a page-aligned pointer to paging_align_address of its   *)
(* end.                                                                    *)
Pages(ptr, size) == ptr .. ptr + (size + BlockSize - 1) \div BlockSize - 1

(* The block of an address, counted from the start of the pool as all      *)
(* blocks are: the null pointer is address 0.                              *)
Block(ptr) == IF ptr = Null THEN -PoolBlock ELSE ptr

(* The pages an image at address 0 may lie in. *)
LowMemory == -PoolBlock .. LowPages - PoolBlock - 1

NoProcess == [alive |-> FALSE, struct |-> Null, image |-> Null, file |-> 0, stack |-> Null,
              allocations |-> [i \in Indexes |-> Empty], writable |-> {}]

-----------------------------------------------------------------------------
(* kheap.c                                                                 *)

(* The block a request is given; Null when there is none. *)
Place(m, size) == heap_get_start_block(m.entries, TotalBlocks(size))

kmalloc(m, size) ==
  LET s == Place(m, size)
      n == TotalBlocks(size)
  IN  IF s = Null THEN m
      ELSE [m EXCEPT !.entries = Marked(@, s, n),
                     !.held = @ \cup {[start |-> s, size |-> size]},
                     !.stray = @ \cup PastTheEnd(s, n)]

kfree(m, ptr) ==
  IF ptr = Null THEN [m EXCEPT !.stray = @ \cup {-PoolBlock}]
  ELSE [m EXCEPT !.entries = Cleared(@, ptr),
                 !.held = {h \in @ : h.start # ptr}]

-----------------------------------------------------------------------------
(* process_malloc and process_free                                         *)

FreeIndexes(m, p) == {i \in Indexes : m.proc[p].allocations[i].ptr = Null}

First(is) == CHOOSE i \in is : \A j \in is : i <= j

(* Fault: kzalloc's null pointer is not looked at. *)
MallocUnchecked(m, p, size) ==
  IF FreeIndexes(m, p) = {} THEN m
  ELSE [kmalloc(m, size) EXCEPT
          !.proc[p].allocations[First(FreeIndexes(m, p))] =
             [ptr |-> Place(m, size), size |-> size],
          !.proc[p].writable = @ \cup Pages(Place(m, size), size)]

(* Without a free index the request fails; at out_err the memory is given  *)
(* back only if it is null (process.c:83), so it stays taken.              *)
process_malloc(m, p, size) ==
  LET s == Place(m, size)
      a == kmalloc(m, size)
  IN  IF s = Null THEN m
      ELSE IF FreeIndexes(m, p) = {}
           THEN [a EXCEPT !.lost = @ \cup {[start |-> s, size |-> size]}]
           ELSE [a EXCEPT
                   !.proc[p].allocations[First(FreeIndexes(m, p))] =
                      [ptr |-> s, size |-> size],
                   !.proc[p].writable = @ \cup Pages(s, size)]

(* Faults: the pages are not unmapped, or one too many is; whose pointer   *)
(* it is, is not looked at.                                                *)
NoPages(ptr, size) == {}
PagesAndNext(ptr, size) == IF ptr = Null THEN {} ELSE Pages(ptr, size + BlockSize)

FreeUnchecked(m, p, ptr) ==
  [kfree(m, ptr) EXCEPT
     !.proc[p].allocations =
        [i \in Indexes |-> IF @[i].ptr = ptr THEN Empty ELSE @[i]]]

UnmappedPages(ptr, size) == IF ptr = Null THEN {} ELSE Pages(ptr, size)

(* The first entry that has the pointer says how much is unmapped; every   *)
(* entry that has it is cleared.  The null pointer is that of every free   *)
(* entry, and kfree is called with it.                                     *)
process_free(m, p, ptr) ==
  LET table == m.proc[p].allocations
      with == {i \in Indexes : table[i].ptr = ptr}
      size == table[First(with)].size
      f == kfree(m, ptr)
  IN  IF with = {} THEN m
      ELSE [f EXCEPT
              !.proc[p].allocations =
                 [i \in Indexes |-> IF i \in with THEN Empty ELSE table[i]],
              !.proc[p].writable = @ \ UnmappedPages(ptr, size)]

process_terminate_allocations(m, p) ==
  LET after[i \in 0 .. MaxAllocations] ==
        IF i = 0 THEN m
        ELSE process_free(after[i - 1], p, after[i - 1].proc[p].allocations[i].ptr)
  IN  after[MaxAllocations]

(* Fault: the stack is not freed. *)
EndWithoutStack(m, p) ==
  LET q == m.proc[p]
      f == kfree(process_terminate_allocations(m, p), q.image)
  IN  [f EXCEPT !.proc[p] = NoProcess,
                !.abandoned = @ \cup {[start |-> q.struct, size |-> KernelSize]}]

(* process_terminate: the allocations, the program and the stack (and the  *)
(* task with the page tables) are freed, the struct process is not.        *)
process_terminate(m, p) ==
  LET q == m.proc[p]
      f == kfree(kfree(process_terminate_allocations(m, p), q.image), q.stack)
  IN  [f EXCEPT !.proc[p] = NoProcess,
                !.abandoned = @ \cup {[start |-> q.struct, size |-> KernelSize]}]

(* process_inject_arguments with the program's name as the one argument:   *)
(* argv, then the string, each with process_malloc.                        *)
process_inject_arguments(m, p) ==
  process_malloc(process_malloc(m, p, KernelSize), p, KernelSize)

-----------------------------------------------------------------------------
Init ==
  mem = [entries |-> [b \in Blocks |-> FreeEntry], held |-> {}, stray |-> {},
         proc |-> [p \in Processes |-> NoProcess], lost |-> {}, abandoned |-> {}]

(* The memory a load takes one after the other, as far as it gets.  Every  *)
(* program is read as an ELF file; one that is none is read again as a     *)
(* binary, and nobody refers to its first copy.                            *)
Struct(m) == kmalloc(m, KernelSize)
ElfCopy(m, image) == kmalloc(Struct(m), image.file)
Image(m, image) == IF image.elf THEN ElfCopy(m, image)
                   ELSE kmalloc(ElfCopy(m, image), image.file)
Stack(m, image) == kmalloc(Image(m, image), KernelSize)

ElfPlace(m, image) == Place(Struct(m), image.file)
DataPlace(m, image) == IF image.elf THEN ElfPlace(m, image)
                       ELSE Place(ElfCopy(m, image), image.file)
StackPlace(m, image) == Place(Image(m, image), KernelSize)

(* The pages of the segments; those of low memory when there is no copy.   *)
ImagePages(data, image) == Pages(Block(data), image.memory)

LoadedFrom(m, p, image) ==
  LET data == DataPlace(m, image)
      stack == StackPlace(m, image)
      unused == IF image.elf THEN {}
                ELSE {[start |-> ElfPlace(m, image), size |-> image.file]}
  IN  [Stack(m, image) EXCEPT
         !.abandoned = @ \cup unused,
         !.proc[p] =
           [alive |-> TRUE, struct |-> Place(m, KernelSize), image |-> data,
            file |-> image.file, stack |-> stack,
            allocations |-> [i \in Indexes |-> Empty],
            writable |-> ImagePages(data, image) \cup Pages(stack, KernelSize)]]

(* What was taken by a load that failed, and is referred to by nobody      *)
(* (process.c:573-580).                                                    *)
Abandon(m) == [m EXCEPT !.abandoned = @ \cup (m.held \ mem.held)]

(* There is an image to go on with.  elf_load does not look at kzalloc's   *)
(* pointer to the copy (elfloader.c:246): without memory the file is read  *)
(* to address 0 and taken from there.  process_load_binary does look.      *)
HasImage(m, image) ==
  /\ Place(m, KernelSize) # Null
  /\ image.elf \/ DataPlace(m, image) # Null

Enough(m, image) == HasImage(m, image) /\ StackPlace(m, image) # Null

(* Command 6, and command 7 with the arguments; whether they could be      *)
(* injected makes no difference to what is allocated.                      *)
Load(p, image) ==
  /\ ~ mem.proc[p].alive
  /\ Enough(mem, image)
  /\ \/ mem' = LoadedFrom(mem, p, image)
     \/ mem' = process_inject_arguments(LoadedFrom(mem, p, image), p)

(* The load fails: there is no struct process, or the file cannot be       *)
(* opened; it cannot be read, or is no program and there is no memory to   *)
(* read it as a binary; there is no stack for it; or it cannot be mapped,  *)
(* and the task is freed, but nothing else.                                *)
LoadFails(p, image) ==
  /\ ~ mem.proc[p].alive
  /\ \/ mem' = Abandon(Struct(mem))
     \/ /\ Place(mem, KernelSize) # Null
        /\ mem' = Abandon(ElfCopy(mem, image))
     \/ /\ HasImage(mem, image)
        /\ StackPlace(mem, image) = Null
        /\ mem' = Abandon(Image(mem, image))
     \/ /\ Enough(mem, image)
        /\ mem' = Abandon(Stack(mem, image))

(* Command 4. *)
Malloc(p, size) ==
  /\ mem.proc[p].alive
  /\ mem' = process_malloc(mem, p, size)

(* Command 5, with a pointer to the start of some block or the null one;   *)
(* what the process did not allocate is ignored.                           *)
Free(p, ptr) ==
  /\ mem.proc[p].alive
  /\ mem' = process_free(mem, p, ptr)

(* Command 9 and the exceptions. *)
Exit(p) ==
  /\ mem.proc[p].alive
  /\ mem' = process_terminate(mem, p)

Next ==
  \E p \in Processes :
    \/ \E image \in Images : Load(p, image) \/ LoadFails(p, image)
    \/ \E size \in Sizes : Malloc(p, size)
    \/ \E ptr \in Blocks \cup {Null} : Free(p, ptr)
    \/ Exit(p)

Spec == Init /\ [][Next]_mem
-----------------------------------------------------------------------------
Allocations(p) == {mem.proc[p].allocations[i] : i \in Indexes} \ {Empty}

Region(ptr, size) == [start |-> ptr, size |-> size]

(* What a process that is loaded refers to; an image at address 0 is no    *)
(* region of the heap.                                                     *)
Program(p) ==
  LET q == mem.proc[p]
  IN  {Region(q.struct, KernelSize), Region(q.stack, KernelSize)}
      \cup (IF q.image = Null THEN {} ELSE {Region(q.image, q.file)})

Requested(p) == {Region(a.ptr, a.size) : a \in Allocations(p)}

Alive == {p \in Processes : mem.proc[p].alive}

(* Type invariant of the memory and of the processes' records: no pointer  *)
(* but the null one lies outside the pool, and no page between low memory  *)
(* and the pool is given to a process (process.c:69-80).                   *)
TypeOK ==
  /\ mem.entries \in [Blocks -> Entry]
  /\ mem.held \subseteq Allocation
  /\ mem.stray \subseteq Int \ Blocks
  /\ mem.lost \subseteq Allocation
  /\ mem.abandoned \subseteq Allocation
  /\ \A p \in Processes :
       LET q == mem.proc[p]
       IN  /\ q.alive \in BOOLEAN
           /\ {q.struct, q.image, q.stack} \subseteq Blocks \cup {Null}
           /\ \A i \in Indexes : q.allocations[i].ptr \in Blocks \cup {Null}
           /\ q.writable \subseteq LowMemory \cup Nat

(* The callers of the heap never break it: whatever the processes allocate *)
(* and free, and whatever a failed load leaves, no two regions overlap and *)
(* the table marks those that are held (process.c:300, heap.c:159).        *)
HeapSound == Apart(mem.held) /\ HeldIsMarked(mem.entries, mem.held) /\ MarkedIsHeld(mem.entries, mem.held)

(* Every region taken from the heap has one owner: a process refers to it  *)
(* by one field or one entry of its table, or it is among what is lost for *)
(* good.  So nothing is freed twice and nothing freed is still referred to *)
(* (process.c:69-80, :124-131, :191-213).                                  *)
AccountedFor ==
  LET owned == UNION {Program(p) \cup Requested(p) : p \in Alive}
  IN  /\ mem.held = owned \cup mem.lost \cup mem.abandoned
      /\ mem.lost \cap mem.abandoned = {}
      /\ owned \cap (mem.lost \cup mem.abandoned) = {}
      /\ \A p, q \in Alive :
           /\ p # q => (Program(p) \cup Requested(p)) \cap (Program(q) \cup Requested(q)) = {}
           /\ Program(p) \cap Requested(q) = {}
      /\ \A p \in Alive : \A i, j \in Indexes :
           LET table == mem.proc[p].allocations
           IN  i # j /\ table[i] # Empty => table[i].ptr # table[j].ptr

RegionsPages(rs) == UNION {Pages(r.start, r.size) : r \in rs}

(* A process can write its program, its stack and what it allocated and    *)
(* not yet freed, and no other page of the heap (task.h:32-33).  A program *)
(* whose image is at address 0 can write low memory, which it shares with  *)
(* every other such program, but not so far up as the heap's table.        *)
Isolation ==
  \A p \in Alive :
    LET q == mem.proc[p]
        own == (Program(p) \cup Requested(p)) \ {Region(q.struct, KernelSize)}
        low == IF q.image = Null THEN LowMemory ELSE {}
    IN  q.writable \subseteq RegionsPages(own) \cup low

(* Freeing one allocation takes from a process no page of another.         *)
KeepsAccess ==
  \A p \in Alive : RegionsPages(Requested(p)) \subseteq mem.proc[p].writable
==============================================================================
