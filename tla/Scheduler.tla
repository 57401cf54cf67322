------------------------------ MODULE Scheduler ------------------------------
(***************************************************************************)
(* Multitasking (task/task.c, task/process.c, and the handlers of          *)
(* idt/idt.c and isr80h/process.c that change which task runs): the linked *)
(* list of tasks, the table of processes, the process that has the         *)
(* keyboard focus, and the task the processor executes.                    *)
(*                                                                         *)
(* All gates of the IDT are interrupt gates (idt.c:54) and user mode runs  *)
(* with interrupts on (task.asm:28-31), so a handler runs to its end: one  *)
(* action per handler.  A process has one task, allocated after it and     *)
(* freed with it; both go by the address of the task.                      *)
(***************************************************************************)
EXTENDS Integers, Sequences

CONSTANTS
  Tasks,        \* the addresses a struct task can have
  NoTask,       \* the null pointer
  MaxProcesses, \* PLUMOS_MAX_PROCESSES
  ExitAt,       \* where in the list the tasks that exit stand
  ReuseFreed,   \* whether kzalloc may give a new task a freed task's address
  StaleFrame    \* whether the uninitialised _process of process.c:516 may
                \* still hold the address of an earlier process

VARIABLES
  list,       \* task_head, task_tail, current_task and every task's links
  processes,  \* the table: the process in each slot
  id,         \* process->id of each process
  focus,      \* current_process, which gets the keys typed
  cpu,        \* the task whose registers are in the processor
  mode,       \* "boot", "user" or "panic"
  order,      \* ghost: the tasks loaded and not ended, in load order
  used        \* ghost: the addresses that have held a task

vars == <<list, processes, id, focus, cpu, mode, order, used>>

ASSUME NoTaskAssumption == NoTask \notin Tasks

ASSUME SlotsAssumption == MaxProcesses \in Nat \ {0}

ASSUME SwitchAssumption ==
  /\ ExitAt \subseteq {"head", "middle", "tail"}
  /\ {ReuseFreed, StaleFrame} \subseteq BOOLEAN

(* What task_list_remove needs, as it leaves the prev link of the task     *)
(* after (task.c:75-101): no task in the middle ends, and, where memory is *)
(* given again, none but the last; and process.c:516 finds a null word.    *)
EndsAreSafe ==
  /\ ExitAt \subseteq {"head", "tail"}
  /\ ReuseFreed => ExitAt \subseteq {"tail"}
  /\ ~ StaleFrame

Pointer == Tasks \cup {NoTask}

Slots == 0 .. MaxProcesses - 1

Loaded == {order[i] : i \in DOMAIN order}

R == INSTANCE RoundRobin WITH queue <- order, running <- IF mode = "user" THEN cpu ELSE NoTask

-----------------------------------------------------------------------------
(* task.c.  Each operator takes the list and returns it as the function    *)
(* leaves it; freed memory keeps its contents.                             *)

(* Faults: the end of the list is not wrapped; the scan restarts each time. *)
NextWithoutWrap(l) == IF l.next[l.current] = NoTask THEN l.current ELSE l.next[l.current]
NextIsHead(l) == l.head

task_get_next(l) ==
  IF l.next[l.current] = NoTask THEN l.head ELSE l.next[l.current]

(* A new task is zeroed, then linked after the tail. *)
task_new(l, t) ==
  LET zeroed == [l EXCEPT !.next[t] = NoTask, !.prev[t] = NoTask]
  IN  IF l.head = NoTask
      THEN [zeroed EXCEPT !.head = t, !.tail = t, !.current = t]
      ELSE [zeroed EXCEPT !.next[l.tail] = t, !.prev[t] = l.tail, !.tail = t]

(* Faults: the removed tail stays the tail; the previous task is forgotten. *)
RemoveKeepsTail(l, t) ==
  LET unlinked == IF l.prev[t] = NoTask THEN l
                  ELSE [l EXCEPT !.next[l.prev[t]] = l.next[t]]
      ends == [unlinked EXCEPT !.head = IF t = l.head THEN l.next[t] ELSE l.head]
  IN  IF t = l.current THEN [ends EXCEPT !.current = task_get_next(ends)] ELSE ends

RemoveKeepsNext(l, t) ==
  LET ends == [l EXCEPT
                 !.head = IF t = l.head THEN l.next[t] ELSE l.head,
                 !.tail = IF t = l.tail THEN l.prev[t] ELSE l.tail]
  IN  IF t = l.current THEN [ends EXCEPT !.current = task_get_next(ends)] ELSE ends

(* The next of the previous task is updated, the prev of the next one is   *)
(* not.  current_task moves on when it is the task removed.                *)
task_list_remove(l, t) ==
  LET unlinked == IF l.prev[t] = NoTask THEN l
                  ELSE [l EXCEPT !.next[l.prev[t]] = l.next[t]]
      ends == [unlinked EXCEPT
                 !.head = IF t = l.head THEN l.next[t] ELSE l.head,
                 !.tail = IF t = l.tail THEN l.prev[t] ELSE l.tail]
  IN  IF t = l.current THEN [ends EXCEPT !.current = task_get_next(ends)] ELSE ends

(* Fault: the page directory is loaded, current_task is not updated. *)
SwitchPagesOnly(l, t) == l

task_switch(l, t) == [l EXCEPT !.current = t]

-----------------------------------------------------------------------------
(* process.c                                                               *)

FreeSlots == {s \in Slots : processes[s] = NoTask}

(* Fault: the scan starts at the slot after the first and runs past the end. *)
SlotAfterFirst == CHOOSE s \in (FreeSlots \ {0}) \cup {MaxProcesses} :
                    \A r \in FreeSlots \ {0} : s <= r

process_get_free_slot == CHOOSE s \in FreeSlots : \A r \in FreeSlots : s <= r

(* Fault: the scan skips slot 0. *)
FirstButOne(table) ==
  LET taken == {s \in Slots \ {0} : table[s] # NoTask}
  IN  IF taken = {} THEN NoTask
      ELSE table[CHOOSE s \in taken : \A r \in taken : s <= r]

(* The first process in the table, NoTask when there is none: then         *)
(* process_swtich_to_any panics.                                           *)
FirstProcess(table) ==
  LET taken == {s \in Slots : table[s] # NoTask}
  IN  IF taken = {} THEN NoTask
      ELSE table[CHOOSE s \in taken : \A r \in taken : s <= r]

(* Fault: the slot of the process with the focus is cleared instead. *)
UnlinkFocused(t) == [processes EXCEPT ![id[focus]] = NoTask]

(* process_unlink: the slot the process was given at its load is cleared   *)
(* and the focus, if the process had it, passes to the first one left.     *)
TableWithout(t) == [processes EXCEPT ![id[t]] = NoTask]

(* Fault: the focus is never passed on. *)
FocusStays(t) == focus

FocusWithout(t) == IF focus = t THEN FirstProcess(TableWithout(t)) ELSE focus

(* Where kzalloc may place the next struct task. *)
FreshTasks == IF ReuseFreed THEN Tasks \ Loaded ELSE Tasks \ used

(* The part of process_load_for_slot that every successful load shares,    *)
(* and process_load_switch's process_switch.                               *)
EnterProcess(t) ==
  LET slot == process_get_free_slot
  IN  /\ processes' = [processes EXCEPT ![slot] = t]
      /\ id' = [id EXCEPT ![t] = slot]
      /\ focus' = t
      /\ order' = Append(order, t)
      /\ used' = used \cup {t}

-----------------------------------------------------------------------------
Init ==
  /\ list = [head |-> NoTask, tail |-> NoTask, current |-> NoTask,
             next |-> [t \in Tasks |-> NoTask], prev |-> [t \in Tasks |-> NoTask]]
  /\ processes = [s \in Slots |-> NoTask]
  /\ id = [t \in Tasks |-> 0]
  /\ focus = NoTask
  /\ cpu = NoTask
  /\ mode = "boot"
  /\ order = <<>>
  /\ used = {}

(* kernel_main loads two programs, each with process_load_switch ...       *)
BootPrograms == 2

BootLoad(t) ==
  /\ mode = "boot"
  /\ Len(order) < BootPrograms
  /\ FreeSlots # {}
  /\ t \in FreshTasks
  /\ EnterProcess(t)
  /\ list' = task_new(list, t)
  /\ UNCHANGED <<cpu, mode>>

(* ... panics if one cannot be loaded ...                                  *)
BootFails ==
  /\ mode = "boot"
  /\ Len(order) < BootPrograms
  /\ mode' = "panic"
  /\ UNCHANGED <<list, processes, id, focus, cpu, order, used>>

(* ... and enters user mode with task_run_first_ever_task.                 *)
task_run_first_ever_task ==
  /\ mode = "boot"
  /\ Len(order) = BootPrograms
  /\ list.current # NoTask
  /\ list' = task_switch(list, list.head)
  /\ cpu' = list.head
  /\ mode' = "user"
  /\ UNCHANGED <<processes, id, focus, order, used>>

(* task_next: the next task becomes current_task and enters user mode; the *)
(* kernel panics if there is none.                                         *)
task_next(l) ==
  LET t == task_get_next(l)
  IN  /\ list' = IF t = NoTask THEN l ELSE task_switch(l, t)
      /\ cpu' = t
      /\ mode' = IF t = NoTask THEN "panic" ELSE "user"

(* The clock interrupt.                                                    *)
idt_clock ==
  /\ mode = "user"
  /\ task_next(list)
  /\ UNCHANGED <<processes, id, focus, order, used>>

(* Commands 6 and 7: the program is loaded, gets the focus and runs.       *)
LoadAndRun(t) ==
  /\ mode = "user"
  /\ FreeSlots # {}
  /\ t \in FreshTasks
  /\ EnterProcess(t)
  /\ list' = task_switch(task_new(list, t), t)
  /\ cpu' = t
  /\ UNCHANGED mode

(* Command 7 when process_inject_arguments fails: the program stays loaded *)
(* and has the focus, and the command returns its error to the caller.     *)
LoadWithoutArguments(t) ==
  /\ mode = "user"
  /\ FreeSlots # {}
  /\ t \in FreshTasks
  /\ EnterProcess(t)
  /\ list' = task_switch(task_new(list, t), list.current)
  /\ UNCHANGED <<cpu, mode>>

(* The load fails in process_map_memory, after the task was linked: the    *)
(* task is freed and the command returns to the caller.                    *)
LoadFailsInMapping(t) ==
  /\ mode = "user"
  /\ FreeSlots # {}
  /\ t \in FreshTasks
  /\ list' = task_list_remove(task_new(list, t), t)
  /\ used' = used \cup {t}
  /\ UNCHANGED <<processes, id, focus, cpu, mode, order>>

(* The load fails before a task is made (no such file, no memory): nothing *)
(* of what is modelled here changes.                                       *)
LoadFailsEarly ==
  /\ mode = "user"
  /\ FreeSlots # {}
  /\ UNCHANGED vars

(* The table is full.  process_get_free_slot answers EISTKN, a positive    *)
(* number, so process_load goes on to process_load_for_slot, which jumps   *)
(* to its exit with _process uninitialised: if that word still points to a *)
(* process, the task of that process is freed.                             *)
LoadRefused ==
  /\ mode = "user"
  /\ FreeSlots = {}
  /\ \E l \in {list} \cup
            {task_list_remove(list, stale) : stale \in IF StaleFrame THEN used ELSE {}} :
       list' = l
  /\ UNCHANGED <<processes, id, focus, cpu, mode, order, used>>

Position(t) ==
  IF t = list.head THEN "head" ELSE IF t = list.tail THEN "tail" ELSE "middle"

(* Command 9 (exit) and every exception end the current task's process and *)
(* pass to the next task: process_terminate, process_unlink, task_next.    *)
Exit ==
  LET t == list.current
      rest == task_list_remove(list, t)
  IN  /\ mode = "user"
      /\ t # NoTask
      /\ Position(t) \in ExitAt
      /\ processes' = TableWithout(t)
      /\ order' = R!Without(order, t)
      /\ UNCHANGED <<id, used>>
      /\ \/ /\ FocusWithout(t) = NoTask
            /\ list' = rest
            /\ cpu' = NoTask
            /\ mode' = "panic"
            /\ UNCHANGED focus
         \/ /\ FocusWithout(t) # NoTask
            /\ task_next(rest)
            /\ focus' = FocusWithout(t)

(* panic() prints and loops for ever. *)
Panic == mode = "panic" /\ UNCHANGED vars

Next ==
  \/ \E t \in Tasks : \/ BootLoad(t)
                      \/ LoadAndRun(t)
                      \/ LoadWithoutArguments(t)
                      \/ LoadFailsInMapping(t)
  \/ BootFails
  \/ task_run_first_ever_task
  \/ idt_clock
  \/ LoadFailsEarly
  \/ LoadRefused
  \/ Exit
  \/ Panic

(* The timer interrupts user mode again and again.                         *)
Spec == Init /\ [][Next]_vars /\ WF_vars(idt_clock)

-----------------------------------------------------------------------------
(* Type invariant of the list, the table and the ghosts.                   *)
TypeOK ==
  /\ list \in [head : Pointer, tail : Pointer, current : Pointer,
               next : [Tasks -> Pointer], prev : [Tasks -> Pointer]]
  /\ processes \in [Slots -> Pointer]
  /\ id \in [Tasks -> Slots]
  /\ focus \in Pointer
  /\ cpu \in Pointer
  /\ mode \in {"boot", "user", "panic"}
  /\ order \in Seq(Tasks)
  /\ used \subseteq Tasks

(* The list from task_head along next is the tasks loaded and not ended,   *)
(* in load order, and task_tail is the last of them: what task_new, failed *)
(* loads and ends at the head and the tail leave behind, in whatever order *)
(* (task.c:56-66, :75-101).  An end in the middle breaks it                *)
(* (RemovedIsUnlinked).                                                    *)
WellLinked ==
  LET n == Len(order)
  IN  /\ list.head = (IF n = 0 THEN NoTask ELSE order[1])
      /\ n > 0 => list.tail = order[n] /\ list.next[order[n]] = NoTask
      /\ \A i \in 1 .. n - 1 : /\ list.next[order[i]] = order[i + 1]
                               /\ list.prev[order[i + 1]] = order[i]

(* The process table and the task list hold the same programs, each once,  *)
(* and a process finds its own slot: process_unlink clears the entry of    *)
(* the process that ends and of no other (process.c:182).                  *)
TableMatchesTasks ==
  /\ \A i, j \in DOMAIN order : order[i] = order[j] => i = j
  /\ \A s \in Slots : processes[s] # NoTask =>
       processes[s] \in Loaded /\ id[processes[s]] = s
  /\ \A t \in Loaded : processes[id[t]] = t

(* User mode executes the task the kernel takes for the current one, whose *)
(* page directory task_page restores, and that task has not ended: a saved *)
(* frame goes into the registers of the task it came from (idt.c:72, :206).*)
CpuIsCurrent ==
  mode = "user" => cpu = list.current /\ cpu \in Loaded

(* Keys are pushed to a process that still exists (process.c:184-187).     *)
FocusIsLoaded ==
  mode = "user" => focus \in Loaded

(* Once user mode runs, the kernel panics only when the last program ends  *)
(* (process.c:176, task.c:119).                                            *)
PanicOnlyWhenDone ==
  [][mode = "user" /\ mode' = "panic" => order' = <<>>]_vars

(* isr80h/process.c:42-43: a load that fails returns to its caller.  The   *)
(* list of the tasks loaded is then what it was.                           *)
LinksOf(l) == [head |-> l.head, tail |-> l.tail, current |-> l.current,
               next |-> [t \in Loaded |-> l.next[t]],
               prev |-> [t \in Loaded |-> l.prev[t]]]

FailedLoadKeepsTasks ==
  [][mode = "user" /\ processes' = processes /\ cpu' = cpu
       => LinksOf(list') = LinksOf(list)]_vars

(* task.c:75, "Remove task from linked-list": a task that ended is not     *)
(* reached from the list any more.                                         *)
RemovedIsUnlinked ==
  mode = "user" =>
    /\ {list.head, list.tail, list.current} \subseteq Loaded
    /\ \A t \in Loaded : list.next[t] \in Loaded \cup {NoTask}

(* A program was loaded. *)
Loads == Len(order') > Len(order)

(* A task that is loaded runs, or ends, whenever the clock comes in and    *)
(* whichever tasks end, once programs are no longer loaded (task.c:121,    *)
(* :98).  Nothing is claimed where they are loaded for ever: the end of    *)
(* the last task takes current_task to the head and then passes to the     *)
(* task after it, so a task that loads another and runs again when that    *)
(* one has ended keeps the head from running (README, section 4).          *)
EveryTaskRuns ==
  \/ []<><<Loads>>_vars
  \/ \A t \in Tasks : t \in Loaded /\ mode = "user" ~> cpu = t \/ t \notin Loaded

(* The links, the table and the handlers implement the round robin.        *)
Schedules == R!Spec
==============================================================================
