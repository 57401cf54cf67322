----------------------------- MODULE AddressSpace ----------------------------
(***************************************************************************)
(* The address spaces (memory/paging/paging.c, process_map_memory,         *)
(* process_malloc and process_free of task/process.c, the functions of     *)
(* task/task.c that change tables or read a task's memory, kernel_page):   *)
(* the tables of every process, which of them the processor uses, and what *)
(* the kernel touches through them.                                        *)
(*                                                                         *)
(* A handler changes the tables it uses several times with interrupts off, *)
(* so it is an operator from one state os to the next.  Frames of the heap *)
(* are given first fit.  A frame stands for all the kernel keeps of a      *)
(* process's task: struct, directory, tables and chunk; the struct         *)
(* process, never freed and never seen through these tables, is not        *)
(* counted.                                                                *)
(*                                                                         *)
(* A load is one for which there are frames enough, but for the copy of an *)
(* ELF file: elf_load does not look at its pointer (elfloader.c:246), and  *)
(* without memory the image is at address 0, in the low frames, which are  *)
(* then written by every program loaded so.                                *)
(*                                                                         *)
(* No command looks at the addresses a program gives it.  Commands 1, 6    *)
(* and 7 read there, and take any address here; command 8 writes there,    *)
(* and takes one of the program's own memory: anything may follow where it *)
(* writes elsewhere.  A stack pointer leads to the program's stack:        *)
(* elsewhere the item is read to the same effect, or the read faults and   *)
(* the program ends as in Exit.                                            *)
(***************************************************************************)
EXTENDS ElfImage, Functions

CONSTANTS
  Processes,
  Entries,          \* PAGING_TOTAL_ENTRIES_PER_TABLE
  PageSize,
  KernelPages,      \* code, data and stack of the kernel
  Heap,             \* the frames of the heap
  ProgramAddress,   \* PLUMOS_PROGRAM_VIRTUAL_ADDRESS
  StackEnd, StackSize,  \* lowest address and size of a program's stack
  Files,            \* programs: as in ElfImage
  Sizes,            \* bytes that programs ask for
  MaxAllocations,   \* PLUMOS_MAX_PROGRAM_ALLOCATIONS
  Addresses,        \* pages of the addresses that programs give commands 1, 6 and 7
  MaxArguments,     \* bound: arguments of a command
  MaxLoads          \* bound: programs loaded, those of the kernel included

VARIABLE os

Indexes == 0 .. Entries - 1

Pages == 0 .. Entries * Entries - 1

PageOf(address) == address \div PageSize

PagesOf(address, size) == {PageOf(a) : a \in address .. address + size - 1}

StackPages == PagesOf(StackEnd, StackSize)

(* The kernel, the heap and the stacks of programs have places of their    *)
(* own (config.h).                                                         *)
ASSUME LayoutAssumption ==
  /\ {Entries, PageSize, StackSize} \subseteq Nat \ {0} /\ {StackEnd, ProgramAddress} \subseteq Nat
  /\ KernelPages \cup Heap \cup StackPages \subseteq Pages
  /\ KernelPages \cap Heap = {} /\ StackPages \cap (KernelPages \cup Heap) = {}
  /\ StackEnd % PageSize = 0 /\ ProgramAddress % PageSize = 0

ProgramPages == Pages \ (KernelPages \cup Heap \cup StackPages)

(* Segments begin in file and memory at the same place of a page, hold in  *)
(* the file all they are in memory, and share no page with each other, the *)
(* kernel, the heap or the stack; a header that is not loaded covers       *)
(* nothing.                                                                *)
SegmentsApart(file) ==
  /\ \E i \in DOMAIN file.phdrs : file.phdrs[i].load
  /\ \A i \in DOMAIN file.phdrs :
       LET h == file.phdrs[i]
       IN  /\ h.offset % PageSize = h.vaddr % PageSize
           /\ h.memsz = h.filesz
           /\ IF h.load THEN h.memsz > 0 /\ h.vaddr > 0
              ELSE h.memsz = 0 /\ h.offset % PageSize = 0
           /\ h.offset + h.filesz <= file.size
           /\ PagesOf(h.vaddr, h.memsz) \subseteq ProgramPages
           /\ \A j \in DOMAIN file.phdrs \ {i} :
                PagesOf(h.vaddr, h.memsz) \cap PagesOf(file.phdrs[j].vaddr, file.phdrs[j].memsz) = {}

ASSUME FilesAssumption ==
  \A file \in Files :
    /\ file.valid \in BOOLEAN /\ file.size \in Nat \ {0} /\ file.phdrs \in Seq(ProgramHeader)
    /\ IF elf_validate_loaded(file) THEN SegmentsApart(file)
       ELSE PagesOf(ProgramAddress, file.size) \subseteq ProgramPages

(* No request is for nothing: those are left to Heap. *)
ASSUME RequestsAssumption ==
  Sizes \subseteq Nat \ {0} /\ Addresses \subseteq Pages /\ MaxArguments \in Nat

Kernel == "kernel"   \* kernel_chunk

ASSUME KernelAssumption == Kernel \notin Processes

Null == -1

NoFile == [valid |-> FALSE, size |-> 0, phdrs |-> <<>>]

NoProcess == [alive |-> FALSE, file |-> NoFile, image |-> Null, stack |-> Null,
              task |-> Null, ends |-> NoEnds, allocations |-> {}]

-----------------------------------------------------------------------------
(* paging.c: tables are a directory of tables of entries.                  *)

(* Flags: present, for the user, and perhaps writeable. *)
ReadOnly == 5
Writeable == 7

IsPresent(flags) == flags % 2 = 1

IsWriteable(flags) == (flags \div 2) % 2 = 1

(* Every page is mapped to the frame of its number. *)
paging_new_4gb(flags) ==
  [d \in Indexes |-> [t \in Indexes |-> [frame |-> d * Entries + t, flags |-> flags]]]

paging_get(directory, page) == directory[page \div Entries][page % Entries]

paging_set(directory, page, entry) ==
  [directory EXCEPT ![page \div Entries][page % Entries] = entry]

paging_align_address(address) == ((address + PageSize - 1) \div PageSize) * PageSize

paging_align_to_lower_page(address) == PageOf(address) * PageSize

Aligned(address) == address % PageSize = 0

(* Nothing is changed where an address is not aligned, or the end comes    *)
(* before the start. *)
paging_map_to(directory, virt, phys, phys_end, flags) ==
  LET count == PageOf(phys_end - phys)
      after[i \in 0 .. count] ==
        IF i = 0 THEN directory
        ELSE paging_set(after[i - 1], PageOf(virt) + i - 1,
                        [frame |-> PageOf(phys) + i - 1, flags |-> flags])
  IN  IF Aligned(virt) /\ Aligned(phys) /\ Aligned(phys_end) /\ phys_end >= phys
      THEN after[count] ELSE directory

(* paging_get_phyiscal_address, to the frame. *)
FrameOf(directory, page) == paging_get(directory, page).frame

-----------------------------------------------------------------------------
(* Frames of the heap *)

FramesFor(size) == PageOf(paging_align_address(size))

(* The frames at address 0 that an ELF file without a copy is read to.     *)
LowFrames == UNION {0 .. FramesFor(file.size) - 1 : file \in {f \in Files : elf_validate_loaded(f)}}

(* No ELF file is so long that it would overwrite the kernel or the heap.  *)
ASSUME LowAssumption == 0 \notin Heap /\ LowFrames \cap (KernelPages \cup Heap) = {}

(* The first run of n free frames. *)
Place(s, n) ==
  LET starts == {f \in Heap : f .. f + n - 1 \subseteq Heap \ s.taken}
  IN  IF starts = {} THEN Null ELSE CHOOSE f \in starts : \A g \in starts : f <= g

Taken(s, frame, size) == [s EXCEPT !.taken = @ \cup (frame .. frame + FramesFor(size) - 1)]

Freed(s, frame, size) == [s EXCEPT !.taken = @ \ (frame .. frame + FramesFor(size) - 1)]

-----------------------------------------------------------------------------
(* The memory of a program: its pages and the frames that hold them *)

Segments(q) ==
  LET program == IF elf_validate_loaded(q.file)
                 THEN {q.file.phdrs[i] : i \in {j \in DOMAIN q.file.phdrs : q.file.phdrs[j].load}}
                 ELSE {[vaddr |-> ProgramAddress, offset |-> 0, memsz |-> q.file.size,
                        write |-> TRUE]}
  IN  UNION {{[page |-> page, frame |-> q.image + PageOf(h.offset) + page - PageOf(h.vaddr),
               write |-> h.write] : page \in PagesOf(h.vaddr, h.memsz)} : h \in program}

Stack(q) ==
  {[page |-> page, frame |-> q.stack + page - PageOf(StackEnd), write |-> TRUE] : page \in StackPages}

Allocated(q) ==
  {[page |-> page, frame |-> page, write |-> TRUE] :
     page \in UNION {PagesOf(a.ptr, a.size) : a \in q.allocations}}

Memory(q) == Segments(q) \cup Stack(q) \cup Allocated(q)

-----------------------------------------------------------------------------
(* What the processor sees                                                 *)

Tables(s) == IF s.cr3 = Kernel THEN paging_new_4gb(Writeable) ELSE s.tables[s.cr3]

(* The kernel reaches the memory it means at this page. *)
InPlace(directory, page) ==
  LET entry == paging_get(directory, page)
  IN  IsPresent(entry.flags) /\ entry.frame = page

(* Code, data and stack of the kernel, and these pages, are in place;      *)
(* tables that were freed are none. *)
Sees(s, pages) ==
  /\ s.cr3 # Kernel => s.proc[s.cr3].alive
  /\ \A page \in KernelPages \cup pages : InPlace(Tables(s), page)

Checked(s, pages) == [s EXCEPT !.faulted = @ \/ ~ Sees(s, pages)]

kernel_page(s) == [s EXCEPT !.cr3 = Kernel]

(* Fault: the kernel keeps its own tables. *)
KeepsTables(s, p) == s

paging_switch(s, p) == Checked([s EXCEPT !.cr3 = p], {})

(* task_switch, and task_return with the registers in the task. *)
task_switch(s, p) == Checked([s EXCEPT !.current = p, !.cr3 = p], {s.proc[p].task})

(* The kernel uses this frame for what program p has at this page; that it *)
(* is not the one where the program has it is recorded in strayed. *)
Found(s, p, page, frame) ==
  [s EXCEPT !.strayed = @ \/ \E m \in Memory(s.proc[p]) : m.page = page /\ m.frame # frame]

(* The kernel reads memory of p through the tables it uses. *)
Touch(s, p, page) ==
  LET entry == paging_get(Tables(s), page)
  IN  Found([s EXCEPT !.faulted = @ \/ ~ IsPresent(entry.flags)], p, page, entry.frame)

(* The item is on the program's stack. *)
task_get_stack_item(s, p) ==
  LET at == PageOf(StackEnd + StackSize - 1)
  IN  kernel_page(Touch(paging_switch(s, p), p, at))

(* Command 8, and the list of command 7: the address is translated with    *)
(* the tables of p and used with the kernel's. *)
task_virtual_address_to_physical(s, p, page) ==
  Found(s, p, page, FrameOf(s.tables[p], page))

(* Faults: the entry is not restored; the old one is not replaced. *)
EntryForgotten(directory, page, entry) == directory
KeepsEntry(directory, frame) == directory

RestoreEntry(directory, page, entry) == paging_set(directory, page, entry)

ShowTmp(directory, frame) ==
  paging_map_to(directory, frame * PageSize, frame * PageSize, (frame + 1) * PageSize, Writeable)

(* tmp is mapped in place in the tables of p, which may have no entry for  *)
(* its page, written through them, and unmapped; without memory for tmp    *)
(* nothing is copied. *)
copy_string_from_task(s, p, page) ==
  LET tmp == Place(s, 1)
      old == paging_get(s.tables[p], tmp)
      mapped == [Taken(s, tmp, PageSize) EXCEPT !.tables[p] = ShowTmp(@, tmp)]
      read == Touch(Checked(paging_switch(mapped, p), {tmp}), p, page)
      restored == [kernel_page(read) EXCEPT !.tables[p] = RestoreEntry(@, tmp, old)]
  IN  IF tmp = Null THEN s ELSE Freed(restored, tmp, PageSize)

(* The copy faults: there is nothing at this page in the tables of p. *)
CopyFaults(s, p, page) ==
  LET tmp == Place(s, 1)
  IN  tmp \notin {Null, page} /\ ~ IsPresent(paging_get(s.tables[p], page).flags)

-----------------------------------------------------------------------------
(* process.c                                                               *)

(* process_malloc.  Memory for which there is no entry left is not given   *)
(* back. *)
process_malloc(s, p, size) ==
  LET frame == Place(s, FramesFor(size))
      ptr == frame * PageSize
      a == Taken(s, frame, size)
  IN  IF frame = Null THEN s
      ELSE IF Cardinality(s.proc[p].allocations) = MaxAllocations THEN a
      ELSE [a EXCEPT
              !.tables[p] = paging_map_to(@, ptr, ptr, paging_align_address(ptr + size), Writeable),
              !.proc[p].allocations = @ \cup {[ptr |-> ptr, size |-> size]}]

(* Fault: the pages keep their entries. *)
KeepsPages(directory, a) == directory

Unmapped(directory, a) ==
  paging_map_to(directory, a.ptr, a.ptr, paging_align_address(a.ptr + a.size), 0)

(* process_free of what p allocated: its pages have no entry afterwards. *)
process_free(s, p, a) ==
  LET f == Freed(s, PageOf(a.ptr), a.size)
  IN  [f EXCEPT
         !.tables[p] = Unmapped(@, a),
         !.proc[p].allocations = @ \ {a}]

(* Fault: the segment is mapped to the start of its file. *)
MapFromStart(directory, phdr, memory) ==
  paging_map_to(directory, paging_align_to_lower_page(phdr.vaddr), memory,
                paging_align_address(memory + phdr.memsz),
                IF phdr.write THEN Writeable ELSE ReadOnly)

MapSegment(directory, phdr, memory) ==
  LET phys == elf_phdr_phys_address(phdr, memory)
  IN  paging_map_to(directory, paging_align_to_lower_page(phdr.vaddr),
                    paging_align_to_lower_page(phys),
                    paging_align_address(phys + phdr.memsz),
                    IF phdr.write THEN Writeable ELSE ReadOnly)

(* Every program header is mapped, whatever its type. *)
process_map_elf(directory, file, memory) ==
  LET after[i \in 0 .. Len(file.phdrs)] ==
        IF i = 0 THEN directory ELSE MapSegment(after[i - 1], file.phdrs[i], memory)
  IN  after[Len(file.phdrs)]

process_map_binary(directory, file, memory) ==
  paging_map_to(directory, ProgramAddress, memory,
                paging_align_address(memory + file.size), Writeable)

process_map_memory(directory, file, memory, stack) ==
  LET program == IF elf_validate_loaded(file) THEN process_map_elf(directory, file, memory)
                 ELSE process_map_binary(directory, file, memory)
  IN  paging_map_to(program, StackEnd, stack, paging_align_address(stack + StackSize), Writeable)

(* Memory for a file, if there is any. *)
TakenIfAny(s, frame, size) == IF frame = Null THEN s ELSE Taken(s, frame, size)

(* process_load_for_slot: the file, the stack, the task with its tables.   *)
(* Every file is read as an ELF file, to address 0 if there is no memory;  *)
(* one that is none is read again, into other memory. *)
Loaded(s, p, file) ==
  LET elf == elf_validate_loaded(file)
      first == Place(s, FramesFor(file.size))
      s1 == TakenIfAny(s, first, file.size)
      second == Place(s1, FramesFor(file.size))
      image == IF ~ elf THEN second ELSE IF first = Null THEN 0 ELSE first
      s2 == IF elf THEN s1 ELSE Taken(s1, second, file.size)
      stack == Place(s2, FramesFor(StackSize))
      s3 == Taken(s2, stack, StackSize)
      task == Place(s3, 1)
  IN  IF Null \in {image, stack, task} \/ s.loads = MaxLoads THEN {}
      ELSE {[Taken(s3, task, PageSize) EXCEPT
               !.loads = @ + 1,
               !.tables[p] = process_map_memory(paging_new_4gb(ReadOnly), file,
                                                image * PageSize, stack * PageSize),
               !.proc[p] = [alive |-> TRUE, file |-> file, image |-> image,
                            stack |-> stack, task |-> task, allocations |-> {},
                            ends |-> IF elf THEN elf_process_pheaders(file, image * PageSize)
                                     ELSE NoEnds]]}

(* process_inject_arguments with n arguments: argv and as many strings. *)
process_inject_arguments(s, p, n) ==
  LET after[i \in 0 .. n + 1] ==
        IF i = 0 THEN s ELSE process_malloc(after[i - 1], p, PageSize)
  IN  after[n + 1]

(* process_terminate, its tables among what is freed.  An image at address *)
(* 0 has no frame of the heap to give back. *)
process_terminate(s, p) ==
  LET q == s.proc[p]
      own == UNION {PageOf(a.ptr) .. PageOf(a.ptr) + FramesFor(a.size) - 1 : a \in q.allocations}
      freed == Freed(Freed(Freed(s, q.image, q.file.size), q.stack, StackSize), q.task, PageSize)
  IN  [freed EXCEPT !.taken = @ \ own,
                    !.proc[p] = NoProcess,
                    !.tables[p] = paging_new_4gb(0)]

-----------------------------------------------------------------------------
Empty ==
  [tables |-> [p \in Processes |-> paging_new_4gb(0)], cr3 |-> Kernel, current |-> Null,
   proc |-> [p \in Processes |-> NoProcess], taken |-> {}, faulted |-> FALSE, strayed |-> FALSE,
   loads |-> 0]

(* kernel_main loads two programs, each with an argument, and runs the     *)
(* first. *)
Init ==
  \E p, q \in Processes, file \in Files :
    /\ p # q
    /\ \E s \in Loaded(Empty, p, file) :
         \E t \in Loaded(process_inject_arguments(s, p, 1), q, file) :
           os = task_switch(process_inject_arguments(t, q, 1), p)

(* A handler begins with the kernel's tables, and ends with those of the   *)
(* task that is then the current one. *)
Enter == kernel_page(os)

Entered == task_get_stack_item(Enter, os.current)

task_page(s) == task_switch(s, s.current)

Alive == {p \in Processes : os.proc[p].alive}

(* Command 1, with a string at any address. *)
PrintBuffer(page) ==
  /\ ~ CopyFaults(Entered, os.current, page)
  /\ os' = task_page(copy_string_from_task(Entered, os.current, page))

(* Command 4. *)
Malloc(size) == os' = task_page(process_malloc(Entered, os.current, size))

(* Command 5. *)
Free(a) ==
  /\ a \in os.proc[os.current].allocations
  /\ os' = task_page(process_free(Entered, os.current, a))

(* Command 6: the name, at any address, is copied, the program loaded and  *)
(* run; if it cannot be, its caller goes on, and what was taken is left to *)
(* ProcessMemory. *)
LoadStart(p, file, page) ==
  LET named == copy_string_from_task(Entered, os.current, page)
  IN  /\ p \notin Alive
      /\ ~ CopyFaults(Entered, os.current, page)
      /\ \/ \E s \in Loaded(named, p, file) :
              /\ Place(Entered, 1) # Null
              /\ os' = task_switch(s, p)
         \/ os' = task_page(named)

(* Command 7: the list of arguments is at any address.  The new program    *)
(* runs, unless there was no memory for its arguments. *)
SystemCommand(p, file, page, n) ==
  LET listed == task_virtual_address_to_physical(Entered, os.current, page)
  IN  /\ p \notin Alive
      /\ \/ \E s \in Loaded(listed, p, file) :
              LET t == process_inject_arguments(s, p, n)
              IN  IF Cardinality(t.proc[p].allocations) = n + 1
                  THEN os' = task_switch(t, p) ELSE os' = task_page(t)
         \/ os' = task_page(listed)

(* Command 8: argc and argv are written at an address of m, memory of the  *)
(* program's own. *)
GetArguments(m) ==
  os' = task_page(task_virtual_address_to_physical(Entered, os.current, m.page))

(* Commands 1 and 6 at an address without an entry: the page fault in the  *)
(* handler ends the program, and tmp stays taken; its entry goes with the  *)
(* tables. *)
CommandFaults(page, p) ==
  /\ CopyFaults(Entered, os.current, page)
  /\ p \in Alive \ {os.current}
  /\ os' = task_switch(process_terminate(Taken(Entered, Place(Entered, 1), PageSize), os.current), p)

(* Command 9 and the exceptions; the kernel panics if there is no other. *)
Exit(p) ==
  /\ p \in Alive \ {os.current}
  /\ os' = task_switch(process_terminate(Enter, os.current), p)

Clock(p) ==
  /\ p \in Alive
  /\ os' = task_switch(Enter, p)

Next ==
  \/ \E page \in Addresses : PrintBuffer(page) \/ \E p \in Processes : CommandFaults(page, p)
  \/ \E size \in Sizes : Malloc(size)
  \/ \E a \in os.proc[os.current].allocations : Free(a)
  \/ \E p \in Processes, file \in Files, page \in Addresses :
       LoadStart(p, file, page) \/ \E n \in 1 .. MaxArguments : SystemCommand(p, file, page, n)
  \/ \E m \in Memory(os.proc[os.current]) : GetArguments(m)
  \/ \E p \in Processes : Exit(p) \/ Clock(p)

Spec == Init /\ [][Next]_os

-----------------------------------------------------------------------------
(* Through the tables of any process the kernel finds its code, its stack, *)
(* the task it is about to return to and its copy of a string where it     *)
(* put them, and it never uses tables that were freed (task.c:106-121,     *)
(* :154-198, :279-299, process.c:194-216).                                 *)
NoFault == ~ os.faulted /\ os.cr3 = os.current

(* A program sees, at the addresses it was linked for, the segments of its *)
(* image with their protection, its own stack, and each allocation at the  *)
(* address it was told, which is where the kernel finds it too             *)
(* (process.c:385-473, :57-85).                                            *)
SeesProgram ==
  \A p \in Alive : \A m \in Memory(os.proc[p]) :
    paging_get(os.tables[p], m.page)
      = [frame |-> m.frame, flags |-> IF m.write THEN Writeable ELSE ReadOnly]

(* The lowest and the highest address the loader noted for a program hold  *)
(* all its segments, and its tables translate them to the places noted     *)
(* with them (elfloader.c:143-164, process.c:385-423).                     *)
BoundsTranslate ==
  \A p \in {q \in Alive : elf_validate_loaded(os.proc[q].file)} :
    LET e == os.proc[p].ends
        Physical(a) == FrameOf(os.tables[p], PageOf(a)) * PageSize + (a % PageSize)
        loaded == {h \in Range(os.proc[p].file.phdrs) : h.load}
    IN  /\ Physical(e.virtual_base) = e.physical_base
        /\ Physical(e.virtual_end - 1) = e.physical_end - 1
        /\ \A h \in loaded : e.virtual_base <= h.vaddr /\ h.vaddr + h.filesz <= e.virtual_end

(* At an address of a program's own memory the kernel reads and writes     *)
(* what the program has there, whether it goes through the program's       *)
(* tables or uses the translated address with its own (task.c:154-198,     *)
(* :279-309, isr80h/process.c:44-97).                                      *)
TouchesOwn == ~ os.strayed

(* While a process is loaded its entries change only for what it allocates *)
(* and frees itself: the copy of a string leaves no trace, and no handler  *)
(* changes the tables of another (task.c:169-186, process.c:292).          *)
Moved(p) ==
  UNION {PagesOf(a.ptr, a.size) :
           a \in (os.proc[p].allocations \cup os'.proc[p].allocations)
                 \ (os.proc[p].allocations \cap os'.proc[p].allocations)}

TablesKept ==
  [][\A p \in Processes :
       os.proc[p].alive /\ os'.proc[p].alive /\ os'.tables[p] # os.tables[p] =>
       \A page \in Pages \ (IF p = os.current THEN Moved(p) ELSE {}) :
         paging_get(os'.tables[p], page) = paging_get(os.tables[p], page)]_os

WritableFrames(p) ==
  {entry.frame : entry \in {e \in UNION {Range(os.tables[p][d]) : d \in Indexes} :
                              IsWriteable(e.flags)}}

(* What a program shares with all whose image is at address 0. *)
Shared(q) == IF q.image = 0 THEN LowFrames ELSE {}

G == INSTANCE Grants WITH
       Frames <- Pages,
       may <- [p \in Processes |->
                 IF os.proc[p].alive THEN WritableFrames(p) \ Shared(os.proc[p]) ELSE {}],
       kept <- {os.proc[p].task : p \in Alive} \cup KernelPages

(* The frames a process can write are its own, whatever is loaded, freed   *)
(* and loaded again in their place, but for the low frames of a program    *)
(* whose image is at address 0; a step gives frames to one process or      *)
(* takes them from it (task.h:32-33, elfloader.c:246).                     *)
WritesGranted == G!Spec
==============================================================================
