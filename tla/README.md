# A TLA+ development of PlumOS

PlumOS (`src/`) is a small 32-bit x86 kernel: it boots from a FAT16 disk, loads ELF or flat
programs, runs them in user mode under a round-robin scheduler driven by the timer, and serves
them through commands of interrupt 0x80. This directory holds TLA+ models of its kernel, the
TLC runs that check them on small instances, and proofs for every value of the constants.

Paths below are relative to `src/src/` unless they begin with `programs/`.

## 1. The system

| Component | State | Operations | Uses |
|---|---|---|---|
| Kernel heap (`memory/heap/`) | a byte per block: TAKEN, IS_FIRST, HAS_NEXT | `kmalloc`, `kzalloc`, `kfree` | – |
| Tasks (`task/task.c`) | `task_head`, `task_tail`, `current_task`, links, saved registers | `task_new`, `task_free`, `task_next`, `task_switch` | heap, paging |
| Processes (`task/process.c`) | `processes[12]`, `current_process` (keyboard focus), allocations of each process | load, terminate, malloc, free, inject arguments | tasks, heap, paging, file system |
| Interrupts and commands (`idt/`, `isr80h/`) | callbacks, table of commands | clock, keyboard, exceptions, commands 0 to 9 | all of the above |
| Context switch (`task/task.asm`, `idt/idt.asm`) | `task->registers`, frame on the stack | save, `task_return` | tasks |
| Keyboard (`keyboard/`) | ring buffer in each process, caps lock | interrupt pushes, command 2 pops | processes, tasks |
| Virtual file system (`fs/file.c`) | `file_descriptors[512]` | fopen, fread, fseek, fstat, fclose | path parser, FAT16 |
| FAT16 and streamer (`fs/fat/`, `disk/streamer.c`) | the volume (read only), positions of streams | resolve, open, read, seek, stat, close | disk, heap |
| ELF loader (`loader/formats/`) | the image and its bounds | `elf_load`, `elf_close` | file system, heap |
| Path parser (`fs/pparser.c`) | none | a text to a drive and parts | heap |
| Paging (`memory/paging/`, `task/task.c`) | directory and tables of each task, the kernel's, which the processor uses | `paging_map_to`, `paging_set`, `paging_switch`, `copy_string_from_task`, translation | heap, tasks |
| Terminal (`kernel.c`) | `terminal_row`, `terminal_col`, video memory | `print`, `terminal_writechar` | – |
| User library and shell (`programs/`) | the line, `strtok`'s `sp`, the frame of `plumos_parse_command` | read a line, parse it, run it | commands 1 to 4 and 7 |

How they interact: everything happens in the handler of an interrupt. A program makes a command
with `int 0x80`, or is interrupted by the timer, the keyboard or an exception; the handler saves
its registers into `current_task`, works on the kernel's data, and goes back to the same task
(`task_page`, `iret`) or enters another (`task_switch`, `task_return`, which never returns).

**Atomicity.** Every gate of the IDT is an interrupt gate, so a handler runs with interrupts
off, and interrupts are enabled only by the flags that `task_return` gives user mode
(`task.asm:28-31`). A handler runs to its end, and so is one action. What interleaves are the
programs and the devices *between* handlers, in any order.

What is hard in this code, in short (PROJECT.json lists each hazard with its line):

* one heap under every component, whose table is walked by chains of bits;
* an intrusive list whose removal repairs only one of two links, with a "current" pointer that
  two functions of the same handler move;
* two different notions of "current": the task that runs and the process that has the keys;
* loads that fail half way, and errors signalled by a mixture of 0, negative and positive values;
* tables with a limit: processes, allocations, descriptors, keys;
* positions computed over sectors, clusters and chains, with several off-by-one boundaries;
* a kernel that lives in everybody's tables: it works on its own, switches to a program's to read
  its stack or its strings, and must still find itself there;
* one row and one column for all programs that print, and unsigned where they are taken back;
* a library that keeps pointers into the frames of calls that returned.

What makes each component correct: allocations are disjoint and the table says where each ends;
list, process table, focus and processor agree, and each program gets its turn; a process can
write its own memory only and gives everything back; a program resumes with the registers it
had; each program reads the keys typed to it once and in order, and gets one if it waits; what
is read is the file, and a path leads to what it names; a load closes its file; each program sees
the segments of its file, its stack and its allocations at their addresses, no two write the same
frame, and the kernel finds its own data through every set of tables; the screen shows the line
that will be run.

## 2. Modules

| Module | What it is |
|---|---|
| `Allocator` | what the heap promises: a set of pairwise disjoint, non-empty regions |
| `HeapTable` | the table of `heap.c` and its loops, as operators |
| `Heap` | the callers of the heap and its table; refines `Allocator` |
| `RoundRobin` | what the scheduler promises: a queue in load order, the clock passes round it |
| `Scheduler` | list, process table, focus and processor; refines `RoundRobin` |
| `ProcessMemory` | the memory of processes, on the operators of `HeapTable` |
| `ContextSwitch` | the registers through interrupts and switches |
| `KeyQueue` | what the keyboard promises: one queue for each process |
| `Keyboard` | ring buffers, focus, waiting programs; refines `KeyQueue` |
| `Path` | pure operators: the parts of a path, 8.3 names, how they are compared |
| `Fat16` | pure operators: clusters, positions, reads, directories, and what they should give |
| `Files` | the table of descriptors on a FAT16 volume, on the operators of `Fat16` |
| `Grants` | what the address spaces promise: frames given to one process at a time |
| `ElfImage` | pure operators: the program headers of a file in memory and their bounds |
| `AddressSpace` | the tables of each process and what the kernel does through them; refines `Grants` |
| `Page` | what the terminal promises: a sheet with a cursor |
| `Terminal` | row, column and video memory, as operators |
| `Shell` | the shell, the library it uses and other programs, on a terminal; its terminal refines `Page` |
| `MC*` | the values of the constants of the runs |
| `Numbers` | lemmas: remainders, least and greatest numbers, sets closed under a step, iterated operators |
| `HeapTableProofs` | lemmas on the operators of `HeapTable`, for any table and any set of regions |
| `HeapProofs`, `SchedulerProofs`, `ProcessMemoryProofs`, `FilesProofs`, `AddressSpaceProofs` | the theorems on the module of that name (section 5) |
| `ProgramProofs` | the theorems on what a program has of the machine: `ContextSwitch`, `Keyboard`, `Shell` with its terminal |

A definition named after a C function is that function. Definitions whose comment begins with
*Fault* are mistakes a programmer could have made in the definition that follows; the
specification does not use them. Each one, put in the place of the definition, makes TLC
report the property named with it in PROJECT.json ("mutants"): so no property holds by the
shape of the model.

### Heap
The table and its loops are operators of `HeapTable`, which `ProcessMemory` uses too. `entries` is
the table. `held` (what callers were given) and `stray` (indices outside the table
that were written) are ghosts. `IsStartBlock` says which block the search gives in set terms;
`heap_get_start_block` is the loop itself, and the invariant `ScanAgrees` says they are the same
in every reachable table. `Marked`, `Chain` and `Cleared` are the marking and freeing loops.
`FreeNull` is `kfree(NULL)`, which `process_terminate_allocations` really does for every unused
entry: it clears a byte below the table. Sizes are 32-bit words in the code and words of
`WordSize` values here, a whole number of blocks (`WordAssumption`); `heap_align_value_to_upper` has
the signed parameter of the code. Two conditions on the requests are definitions, since the code
does not check them: `SomeBlocks` (none is for no block at all) and `NoWrap` (none is empty or so
large that rounding it up wraps or turns negative), which implies the other.

### Scheduler
`list` holds the three pointers and every task's `next` and `prev`, freed tasks included, since
freed memory keeps its contents. A process and its task are created and freed together and
share an address. `task_new`, `task_list_remove` and `task_get_next` take the list and return
it; the handlers are `idt_clock`, `LoadAndRun` (commands 6 and 7), `LoadWithoutArguments`
(command 7 when the arguments cannot be injected), `LoadFailsInMapping`, `LoadFailsEarly`,
`LoadRefused` (table full) and `Exit` (command 9 and exceptions). `order`, a ghost, is the
sequence of programs loaded and not ended. Three constants choose what the environment does:
`ExitAt` (where in the list the tasks that end stand), `ReuseFreed` (whether `kzalloc` gives a
freed task's address again) and `StaleFrame` (what the uninitialised word of `process.c:516`
holds). The passing run takes tasks that end at either end of the list, addresses not given
again and a null word. These are conditions under which the code is correct (`EndsAreSafe` gives
the weakest that is proved: ends at the head or the tail, at the tail only if addresses are given
again, a null word), and section 4 says what happens without them.

### ProcessMemory
A handler makes several heap calls, so the functions are operators from one record `mem` to the
next. `writable` is the set of heap pages a process can write, `lost` and `abandoned` are what
nobody refers to any more: allocations made when the table of the process was full
(`process.c:83`), the `struct process` of a process that ended, all that a load took before it
failed (`process.c:573-580`), and the first copy of a program that is no ELF file: `elf_load`
reads it, fails, keeps the copy, and `process_load_binary` reads the file again. The task, its
page tables (about four megabytes) and the `struct elf_file` are not counted. `NoWrap` is as in
`Heap`; `NoBss` says that no program has more memory than its file has bytes.

`elf_load` does not look at the pointer to the copy of the file (`elfloader.c:246`). When there is
no memory for it the file is read to address 0, the load goes on (`HasImage`), and the process has
no image to give back and the pages of low memory that its segments take (`ImagePages`, with `Block`
the block of an address, negative below the pool). `LowPages` is how far up low memory can be
overwritten: `LowAssumption` has every ELF file end below the byte that a free of the null pointer
clears, which is below the heap's table. With the table at 0x7E00 and the pool at 0x1000000 that
byte is at 0x6E00 and `LowPages` is 6; a longer file could overwrite the table, which no module has.

### ContextSwitch
A register's value says whose it is, in which register it was put, and in which round (`Marks`).
`Restored` is `restore_general_purpose_registers` and the frame of `task_return`, offset by
offset in the layout of `struct registers`.

### Keyboard
The buffers belong to processes; the interrupt pushes to the one with the focus, `GetKey` pops
from the one that runs. Letters stand for scan codes with a character. `got` records the last
pop. `KeyQueue` has the rule of the focus in its actions: a key goes to the program with the focus,
the program that runs reads its own queue, and only a load empties one; that the focus passes to
some program when the one that had it ends, and the processor to some program when the clock
ticks, is all it says of these. `head` and `tail` are words that wrap; the remainder by `sizeof` is unsigned, so only the
divisibility of the word by the size matters (`RingAssumption`). `TypedAheadFits` says that no more
is typed ahead than the buffer holds, which `keyboard_push` does not check; `ProcessesAssumption`
that there is a process at all.

### Path, Fat16 and Files
A path is a sequence of characters; `pathparser_parse` gives its drive and its parts up to the
first empty one, and an item of a directory has its name and extension padded with spaces as on
the disk. A byte of the disk is its position, so what is read is a sequence of positions and "reads the
file" means that they are the positions of the file's bytes according to the chain of the
allocation table (`Bytes`). `fread`, `fseek`, `fclose` and `fopen` may be called by any kernel
code in any order; today's only caller in `src/` outside `tests.c` is the loader, whose
open-measure-read-close is the one action `LoadProgram`. `fread` on a directory is possible in
the code: the first cluster is then read from whatever lies in memory behind the directory's
record, so any cluster is possible in the model. `VolumesAssumption`, `PathsAssumption` and
`OffsetsAssumption` say of which kind the constants are (unsigned entries and offsets, characters
with a lower case, directories with items); `ChainsLinked` that the chain of every file goes as far
as its size, and is a definition, since nothing in the code makes sure of it. Neither does it of
the names, so these are definitions too: `NamesApart`, that the names of a directory's items are
filled up with spaces and no two items are called the same; `MarksApart`, that no path holds the
mark (0xE5) that a deleted item's name begins with, since the search compares deleted items too;
`NamesStand`, that `names` of a path is what its text says, part by part up to the first that is
empty, and nothing for a text that is not a path of drive 0 (`StandsFor`). `MCFiles` lets TLC
evaluate all four for the disks and paths of the run.

### ElfImage and AddressSpace
`os` is one record, since a handler changes the tables it uses several times with interrupts
off; the functions take it and return it. Each process has its directory of tables; `cr3` says
whose tables the processor uses, the kernel's among them (the one entry of those that is not in
place, that of 0x1000 at `kernel.c:181`, is used by nothing and left out). What the processor
does is in `Sees` and `Touch`: after a switch the kernel's code, data and stack, and the page the
function goes on with, must be present and in place (`faulted` otherwise); memory read or
written for a program must be that program's (`strayed` otherwise). The two flags are ghosts.
`copy_string_from_task` maps its scratch page in the tables of the program, uses them, and puts
the old entry back. A frame of the heap stands for all that is kept of a task, tables included.
Frames are given first fit. A load is one with memory for its stack, its task and, of a flat
binary, its image; what a failed load keeps is the matter of `ProcessMemory`. An ELF file without
memory for its copy has its image at address 0 (`elfloader.c:246`), in frames that are nobody's
(`LowFrames`; by `LowAssumption` they are neither the kernel's pages nor the heap's). All programs
loaded so write the same of these, so `WritesGranted` leaves them out of what such a program may
write (`Shared`), and nothing is said of what the bytes there become. Interrupts of the keyboard, and
the commands 2 and 3, go to the kernel's tables and back and change nothing here.

No command looks at the addresses a program gives it. Commands 1, 6 and 7 read there, and take the
address of any page in `Addresses`, the program's or not: at one without an entry the copy of
`copy_string_from_task` faults (`CopyFaults`), and the handler of the exception ends the program
(`CommandFaults`), with the scratch block lost. Two things are assumed of a program. The buffer of
command 8 is memory of its own: `isr80h/process.c:94-96` writes through whatever the address
translates to, address 0 included, and after a write elsewhere anything may follow. And its stack
pointer leads to its stack, where every command finds its arguments.

The kernel checks little of a program or of the layout; what has to hold is said in assumptions.
`LayoutAssumption`: the kernel, the heap and the stacks of programs have places of their own
(`config.h`), aligned as `paging_map_to` wants them. `FilesAssumption`: what a linker makes of a
program (`linker.ld` of each) fits there. Segments lie at the same place of a page in file and
memory, share no page, begin above address 0, which the loader takes for "not yet set", and hold in
the file all they are in memory (what happens otherwise is the run ProcessMemoryBss); a header that
is not loaded is mapped all the same and must cover nothing; a file the loader takes for an ELF file
has something to load. `RequestsAssumption`: nobody asks for no byte (that is `Heap`'s).
`KernelAssumption`: the kernel's tables are no process's.

### Page, Terminal and Shell
Each call of `print` and `putchar` is one step, as it is one handler; between the steps of the
shell another program may print. `typed` is the line as its reader means it, `start` where it
begins on the screen, `alone` whether another program printed since. `scommand` and `sp` keep
what the last command left in them, as the frames of the two functions are the same at each turn
of the shell's loop. `memory` of `Run` is how many allocations succeed: none does once the table
of the process is full, as the shell frees nothing, and any may fail before.

`LineAssumption`: a line is not longer than the sheet (1024 cells, and 65536 rows of 80
places). `CharactersAssumption`: the keys that are shown are no control characters,
and the prompt, "> ", has no backspace. `BackspacesFit` is a hypothesis of the theorems about the
screen and holds in the run: no backspace is printed in the first column, where `kernel.c:50` is
wrong (section 4), so other programs, which do not know where the cursor is, print none.
`AreWords(words, s)` says what it is to split a line without saying how: the words begin, in this
order, where a character that is no space follows a space or the start.

## 3. Runs

Constants are in the `.cfg` files; every run is exhaustive.

| Run | Instance | What it shows |
|---|---|---|
| Heap | 7 blocks, requests of 1, 2 and 3 blocks | `Disjoint`, `TableMatchesHeld`, `RequestCovered`, `ScanAgrees`; a call leaves other callers' entries alone; implements `Allocator` |
| Scheduler | 5 tasks, table of 3 | list = load order (`WellLinked`), table and list agree, the processor runs `current_task`, focus is loaded, panic only when nothing is left, failed loads change nothing, implements `RoundRobin`, every task gets its turn once the loads come to an end |
| ProcessMemory | 2 processes, an ELF file and a binary, 10 blocks, 2 pages of low memory, 2 allocations each | the heap stays sound, every region has one owner, a process writes its own pages only, or low memory if it has no image, and keeps its own |
| ContextSwitch | 2 tasks, 2 marks | each register but ecx and flags is found again; no handler touches the context of another task |
| Keyboard | 2 processes, buffer of 2, words of 4 values | cells and counters agree, implements `KeyQueue` with its rule of the focus, a program that waits gets its key |
| Files | 2 descriptors, 3 volumes, clusters of 4 bytes in 2 sectors, 15 paths | reads give the file, programs load whole, loads close, other descriptors are kept, paths lead to what they name in letters of either case |
| Console | a screen of 2 rows of 3, lines of 3 keys, 3 allocations | the screen shows the line with the cursor after it, the command run is the line as corrected and split, the terminal implements `Page` |
| AddressSpace | 2 processes, 25 pages of 2 bytes in 5 tables, 9 frames of heap, 2 allocations each, 3 loads, addresses of 2 pages besides | no fault, each program sees its memory, the loader's bounds translate, at addresses of the program's memory the kernel finds what the program has there, tables keep the other entries, implements `Grants` |

The bounds. 7 blocks leave room for three allocations with gaps of each length between them and
for a tail too short for a request. Five tasks with three slots let the table fill, empty at
both ends and refill. 10 blocks hold two programs (three blocks each, four for a binary) and up to four blocks of
allocations, so requests are refused, tables fill up, blocks pass from one process to the other,
and the ELF file is loaded when there is no room for its copy. A buffer of two cells with counters
of four values wraps both the index and the counter.
The file sizes and offsets fall on, before and after the boundaries of sectors and clusters,
one volume has its chain out of order, and the last descriptor is the one `file.c:108` refuses.
In AddressSpace the program has two segments, the second at an odd place of its page and after
the first in memory but before it in the file, and a header that is not loaded; a flat binary is
the other program; three loads let a program end and another take its frames; the nine frames
are fewer than two programs and their allocations need, so that ELF files are loaded without a copy
of them, even two at a time. `Addresses` has a page of the program and one of the heap, which is at one time or other free, the
program's own, another's, or one the program has freed and so without an entry. In Console lines end in the last column,
before it and after it, the column counts modulo 7, and three allocations are used up by the
second or third command. Bounds that are not in the code: `LastRow` (rows printed), one print of
others in a turn of the shell, `MaxLoads`, `MaxArguments`, `MaxUnread` (keys typed ahead), `MaxPos` (how far SEEK_CUR may
go), the finite set of addresses.

Fairness. `Scheduler` assumes weak fairness of `idt_clock`: the timer interrupts user mode
again and again, as it runs with interrupts on. `EveryTaskRuns` says that every task gets the
processor unless programs are loaded again and again for ever; section 4 has the schedule that
starves one then. `Keyboard` assumes strong fairness of the clock passing to each task, which is
what `EveryTaskRuns` establishes while no more programs are loaded, and of a waiting program's call
of `getkey` while it runs: a slice is longer than a call. `WaiterGetsKey` has the same condition, and
claims nothing when programs are loaded and end for ever.

## 4. Where code and comments disagree

Four runs end in a counterexample, each for one line of the repository (PROJECT.json, "findings"):

* **HeapOverrun** (`heap.c:111`): when the pool ends in a run of free blocks too short for the
  request, the request is not refused; blocks past the end of the pool are handed out and the
  table is written past its end. Two runs of this kind never overlap (`Disjoint` still holds).
* **SchedulerRemove** (`task.c:75`): removing a task repairs `prev->next` only. After a task in
  the middle ends and then the last one, `task_tail` and the list lead to freed memory.
* **ContextSwitchState** (`task.h:20`): ecx comes back with the value of ebx and the flags are
  the kernel's.
* **ProcessMemoryBss** (`process.c:429`): the end of a segment is mapped by its size in memory,
  not in the file: heap pages behind the image become writable.

Further behaviour that the models have and no run is spent on, with the constants that show it:

* `Heap` with `Sizes = {0, 4}`: an empty request is given the start of the last free run and
  marks nothing, or rewrites an entry; `OthersUntouched` fails. With a size one below
  `WordSize`, the rounded size is 0 and `RequestCovered` fails. (`RequestsChecked` of `MCHeap`
  must be dropped for both.)
* `Scheduler` with `StaleFrame = TRUE`: a load into a full table frees the task of another
  process, and `FailedLoadKeepsTasks` fails. With `ReuseFreed = TRUE` the list stays sound if
  tasks end at the tail only; a freed address given again after an end at the head breaks it.
* `Keyboard` with `MaxUnread = Size + 1`: the key typed overwrites the oldest one, the ring is
  shifted, and `IsQueue` fails.
* `Scheduler`: `current_task` moves twice when the running task ends, once in `task_list_remove`
  (`task.c:99`) and once in `task_next`, so `Exit` passes its successor over; `RoundRobin` allows
  this at an end. With two tasks and the second running, let it load a third with arguments that
  cannot be injected, the clock pass to the third, and the third end at the tail: `current_task` is
  then the first task and `task_next` runs the second again. Repeated for ever, this starves the
  first. With three tasks, `ReuseFreed = TRUE` and `ExitAt = {"tail"}`, `EveryTaskRuns` without its
  condition on the loads fails by this schedule; with it, it holds.
* `ProcessMemory`: two ELF programs loaded without memory for their copies both have low memory as
  their image, writable where a segment is (`elfloader.c:246`); `Isolation` says that this is all
  they have besides what is theirs. In `AddressSpace` `WritesGranted` fails by the same two loads
  when `Shared` is left out of it.
* `Files` with `ReadsFile` for every read and not only those of `Apart`: a read that starts inside
  a cluster is not cut at the cluster's end (`fat16.c:522`), and takes bytes from the cluster that
  follows on the disk, where the comment at `fat16.c:542` has the next one of the chain. The
  loader reads from the start of the file, so no program is loaded wrongly.
* `Shell` with `BackspaceAtLineStart = TRUE`: a backspace in the first column blanks the last place
  of the row before and leaves the cursor at column 65535 of the row it was in, where the comment
  at `kernel.c:50` says "back to the end of previous line"; `Prints` and `ShowsLine` fail.
* `Shell`: a backspace on an empty line is stored in it as a character, and erases the prompt
  (`plumos.c:97-105`; `plain` is then false). After a parse that stops for want of memory the next
  line is not looked at, as `strtok` still has its place in the old one; `RunsWhatWasTyped` says
  that the one after it is run as typed.
* `AddressSpace` with programs that are not as `FilesAssumption` says: a segment over the kernel's
  stack (0x600000, two megabytes above the address of programs) makes `NoFault` fail at once;
  segments that share a page make `SeesProgram` fail.
* `ProcessMemory`: `lost` and `abandoned` are not empty after a refused allocation, a failed
  load or any end of a process.

## 5. What is proved

Every theorem holds for all values of the constants that satisfy the ASSUMEs of the modules, and
the hypotheses named here, which are conditions under which the code is right and which the
instances of the runs satisfy. The module of each is in parentheses.

**The heap** (`HeapProofs`, under `SomeBlocks`; `HeapCovers` under `NoWrap`). `HeapSafety`:
`HeapInv == TypeOK /\ Disjoint /\ TableMatchesHeld` is invariant. `Disjoint` alone is not inductive:
the search looks at the table, not at what callers hold, and a free follows the bits, not the
extent. `TableMatchesHeld` ties them (`IsTable` in `HeapTableProofs`): the search gives free entries,
the chain from an allocation's first block is its extent, and two extents that meet past the pool
also meet in its last block, which is why the overrun of section 4 is still disjoint. From it
`HeapTypeOK`, `HeapDisjoint`, `HeapTable`, `HeapKeepsOthers` (`OthersUntouched`) and
`HeapRefinesAllocator`: `Spec` implements `Allocator` under `Regions`, the chains of the entries
marked first. `HeapScan` (`ScanAgrees`) is about the loop itself: `ScanIs` is the loop invariant,
true before the first turn and kept by each, so the loop and the set-theoretic `IsStartBlock` give
the same block in every table. `HeapCovers` (`RequestCovered`) is the arithmetic of rounding up.

**Who runs** (`SchedulerProofs`, every theorem under `EndsAreSafe`: the tasks that end are at the
head or the tail, at the tail if addresses are given again as `kzalloc` does, and the stale word is
null; without it `ListIsLoadOrder` is false, as SchedulerRemove shows). `SchedulerSafety`: `SchedInv` is invariant. It
adds two parts to the properties of the run: `HeadIsFirst`, that the `prev` of the first task, which
`task_list_remove` does not repair, is null or leads to a task that is not given again, and
`CurrentIsLoaded`, which says before user mode what `CpuIsCurrent` and `FocusIsLoaded` say in it.
The sequence `order` is the witness of the list: an append or a removal at an end of the list is one
of the sequence. From it `SchedulerTypes`, `ListIsLoadOrder`, `TableIsRight`, `CpuRunsCurrent`,
`FocusExists`, `PanicsWhenDone`, `FailedLoadsAreUndone` and `SchedulesRoundRobin`, the refinement
of `RoundRobin`.

**The context switch** (`ProgramProofs`). `ContextsAreKept`: `SavedIsLeft`, the struct of a task that waits holds the registers it
left. From it `SwitchRestores` (`ResumesWhatItLeft`, all
registers but ecx and the flags) and `WaitingContextsKept` (`OthersContextKept`).

**The keyboard** (`ProgramProofs`, under `TypedAheadFits`). `BuffersAreSound`: `KeysInv`. In each ring
the cells that are not empty are those less than `Length` ahead of the head; the distances are
taken modulo the size, the counters modulo the word, and the lemmas of `Numbers` take one to the
other when the size divides the word. From it `CellsAreRight` and `KeysAreQueued`, the refinement
of `KeyQueue`: its rule of the focus needs of `KeysInv` that the focus is loaded while anything is,
and of each step that it changes no buffer but that of the focus, of the reader or of what is
loaded (`QueuesStay`, `ProgramsChange`).

**The terminal** (`ProgramProofs`, under `BackspacesFit`). A screen is a row, a column and the cells of
video memory (`Screens`); `Sheet` takes it to a sheet with a cursor, and `PlaceOf` says that nothing
is lost on the way. One character on the screen is the same character on the sheet
(`WritecharIsChar`: writing across the end of a row, a new line in the last row, where the counter
wraps, and a backspace), so is each turn of `print` (`PrintIsPrinted`), and each step of the shell
or of another program prints one text (`StepPrints`): `PrintsOnPage` is the refinement of `Page`.

**The line and the command** (`ProgramProofs`). `LineOK` says that the buffer holds the keys typed less
those taken back, with room for its end, in every state of main. `LineIsShown` (`ShowsLine`, under
`BackspacesFit`): a key is stored where the index is and shown where the cursor is, a backspace
takes both back, and no two characters share a place, since the line is not longer than the sheet.
The line may take several rows; the correction that crosses the start of a row is what
`BackspacesFit` leaves out. The prints of others only end `alone`. `CommandIsLine` (`RunsWhatWasTyped`) needs no hypothesis. It
takes `plumos_parse_command` turn by turn with two loop invariants. `Ends`: after k turns strtok's
place is 2k characters on, or at the end, so the loop ends before `MaxLine` turns, whatever place
it began with. `Splits`: the cells from the place on are still those of the line, and the words
so far are those that begin before it; so the last turn finds all of them. What lives on between
commands is `ParseOK`: the last cell of `scommand` stays null, and strtok has no place left unless
the parse before stopped for want of memory. That is why one line is spoiled by such a parse, and
never two.

**The memory of processes** (`ProcessMemoryProofs`, under `NoWrap`). A handler makes many heap calls,
so `MemoryOK(m, pending)` is stated of a record between two of them: the table matches what is held
(`IsTable`), every process is well formed, and each region held is referred to by one field of one
process, or lost, or abandoned, or pending, that is, taken and not yet given an owner. Each function
keeps it (`KmallocAdds`, `ProcessMallocIsOwned`, `ProcessFreeIsOwned`, `AllAreFreed` for the loop of
`process_terminate_allocations`, `SomeGrown` for the stages of a load); with nothing pending it is
the invariant of `MemorySafety`. From it `MemoryTypeOK`, `MemoryHeapSound`, `MemoryAccountedFor`,
`MemoryKeepsAccess` and, under `NoBss` as well, `MemoryIsolation`. A process without an image has
a null pointer there, which is no region, and its pages are those of `LowMemory`, which by
`LowAssumption` are below the pool (`LoadedFrom` is followed for both cases).

**Files** (`FilesProofs`). `FilesKeepOthers` and `FilesLoadCloses` need only that the table keeps its
domain (`TableInv`). `FilesReadFile` (`ReadsFile`) needs that what is open is an item of the volume
at a position that is a number (`FilesInv`), and that rests on what a path is parsed to and what a
search in a directory can give. The reading is proved from below: the streamer across sectors
(`DiskRead`), the walk along the chain and the chain itself (`ClusterFound`), one recursion of
`fat16_read_internal` (`InternalRead`), and the loop over members (`FileRead`). `FilesLoadWhole`
(`LoadsWhole`) is under `ChainsLinked`: a walk along a linked chain meets no mark, so no read of a
load is refused. `FilesFindWhatIsThere` (`FindsWhatIsThere`) is under `NamesApart`, `MarksApart` and
`NamesStand`. The parser's function of positions gives the parts as they are written (`EndIs`,
`PartsAre`); the name an item is looked for with is the one it is called by, whatever fills it up
(`FullName`), and a deleted item's never is (`DeletedName`); so the search of one directory agrees
with what the name stands for there (`SearchAgrees`, where `ItemsCounted` is what fails when something
was deleted), and by induction along the path so does the walk (`EntryAgrees`). Uniqueness of names
is needed only for the half about undeleted directories: of two directories called the same the
walk enters the last.

**Address spaces** (`AddressSpaceProofs`). A handler switches tables, maps, reads, unmaps and switches
back in one step, so here too the invariant is stated of a record between two functions:
`AddressOK(s)` says that no flag is raised, and that every loaded process owns frames of the heap
(`Own`: image, unless it is at address 0, stack, task, allocations) that are taken, do not overlap and are no other process's;
that its tables show its memory (`Shows`), let it write nothing else (`WritesOwn`) and leave the
kernel and its task in place (`KernelInPlace`); and that its bounds are those the loader computes.
`AddressInv` adds that the processor uses the tables of the current process. `NoFault` and
`TouchesOwn` are about flags that handlers raise, and hold because what these parts say of a page of
the kernel, of the task or of the program's memory is what a handler finds there; a page that is
none of these, at an address the program made up, is either mapped, and read, or ends the program
before `faulted` could rise (`CopyFaults`). `SeesProgram` alone is not inductive, since whether a new allocation hides an
old one depends on whose frames are free.
The proof is built from below: pages and addresses (`PageFacts` to `PagesFromStart`), one entry of a
table (`SetFacts`), the loop of `paging_map_to` (`MapFacts`: it maps these pages to those frames and
leaves the others), the segments of a program and the loop over its headers (`SegmentMapped`,
`ElfMapped`, `ProgramMapped`), the bounds (`EndsFacts`, `EndsTranslated`). In a state that is
`AddressOK` the functions that only read give the state back (`StackItemFacts`, `TouchFacts`, `FoundFacts`, `TranslateFacts` for an address that may be anywhere, and
`CopyFacts`: the scratch page is mapped, used and its old entry restored, and tables with equal
entries are equal); those that change one process keep `AddressOK` (`MallocKeeps`, `FreeKeeps`,
`InjectKeeps`, `LoadKeeps`, `TerminateKeeps`, all by `ChangeOK`), as does the block lost by a copy that
faults (`TakenKeeps`). `StepIs` puts each handler in one
form, `Steps(t, p, r)`: process `r` changes, process `p` runs next. From it `AddressSafety`, and from
that `NeverFaults`, `StaysWithin`, `ShowsPrograms`, `BoundsAgree`, `KeepsEntries` (`TablesKept`) and
`GrantsOnly`, the refinement of `Grants`: what a process can write, but for the low frames of
an image at address 0 (`LowFacts`), lies in its own frames, and those of two processes are disjoint.

**Recursive functions.** The loops are functions defined in a LET, `f[i \in S] == ...`. Such a
definition says something of `f` only when a function of this kind exists; each proof shows that
one does (`IterationExists` and `BoundedInduction` of `Numbers`) before it uses the equation. The
library's induction theorems take an operator as a parameter, which the provers cannot
instantiate, so `SetInduction` states induction for a set of numbers, and each proof names the
set of those for which its claim holds.

**Only model-checked.** Liveness (`EveryTaskRuns`, `WaiterGetsKey`), which needs ENABLED. The four
runs that end in a counterexample are about the code without the hypotheses above.

## 6. What is not modelled, and why

The disk driver (port I/O that waits for the device and always answers 0), boot, GDT and TSS
(straight-line set-up), the byte functions of `string/` and `memory/memory.c` but for those that
compare names, `tests.c`, `printf` and the example programs. Within modelled components:

* the header checks of `fat16_resolve`, a directory's own clusters (it is a sequence of items),
  memory taken by the file system (`fopen` never frees the parsed path, and loses the FAT
  descriptor when the table is full, `file.c:205`; the loader keeps its `elf_file` when a load
  fails, `elfloader.c:228`);
* the list of keyboards, `keyboard_backspace`, which nothing calls, and the table of scan codes,
  whose keypad is two codes off (`classic.c:34`);
* what is written through a null pointer when memory runs out: `process_inject_arguments` goes on
  without `argv` (`process.c:255`), `paging_new_4gb` without a table (`paging.c:23`), `elf_load`
  without a copy of the file (`elfloader.c:246`): that the load goes on and which pages the process
  then has is in `ProcessMemory` and `AddressSpace`, the bytes at these addresses are in no module, nor is the byte
  that a free of the null pointer clears (`heap.c:163`);
* what a write of command 8 at an address that is not the program's does (`isr80h/process.c:96`), and
  the links of the list of command 7, which the kernel follows through its own tables
  (`process.c:234`): `SystemCommand` has any number of arguments up to `MaxArguments`;
* what lies behind video memory: the terminal does not scroll, and rows below the last one are
  written there (`kernel.c:84`);
* SEEK_CUR checks the offset and not the sum (`fat16.c:793`): the position goes past the end of
  the file, and reads beyond a file's size are outside the properties. A chain's end is looked
  for with the marks 0xFF8 and 0xFFF (`fat16.c:473`) while disks carry 0xFFF8 and above; the model
  has the code's marks and volumes with 0xFFFF.

## 7. Running

In this directory: `tlc -config Heap.cfg MCHeap.tla` and likewise for the other runs (module and
configuration of each are in PROJECT.json). For the proofs `tlapm M.tla` with M each of `Numbers`,
`HeapTableProofs`, `HeapProofs`, `SchedulerProofs`, `ProgramProofs`, `ProcessMemoryProofs`,
`FilesProofs` and `AddressSpaceProofs`, which takes longest, some minutes.

## 8. What is left

Every safety property and every refinement of the runs that hold is proved. Of the model, section
6 says what could be added: the memory the file system takes, and the checks of `fat16_resolve`.
