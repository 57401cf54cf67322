---------------------------- MODULE ContextSwitch ----------------------------
(***************************************************************************)
(* What happens to a program's registers when it is interrupted and        *)
(* resumed (task/task.asm, idt/idt.asm, task_save_state in task/task.c,    *)
(* interrupt_handler and isr80h_handler in idt/idt.c).  Which task is next *)
(* is Scheduler's subject: here it is any.                                 *)
(***************************************************************************)
EXTENDS Naturals, Sequences

CONSTANTS
  Tasks,
  Marks     \* what tells apart the values a program puts in its registers

VARIABLES
  regs,     \* the registers of the processor in user mode
  current,  \* current_task
  saved,    \* task->registers of every task
  started,  \* the tasks that exist
  left      \* ghost: the registers each task had when it last lost the processor

contexts == <<regs, current, saved, started, left>>

(* struct registers (task.h:36-51), one word each. *)
Layout == <<"edi", "esi", "ebp", "ebx", "edx", "ecx", "eax", "ip", "cs", "flags", "esp", "ss">>

Registers == {Layout[i] : i \in DOMAIN Layout}

Selectors == {"cs", "ss"}

(* A value says whose it is and which register it was put in; mark 0 is    *)
(* what a new task starts with, "kernel" what kernel code left there.      *)
Value(t, m, r) == [task |-> t, mark |-> m, reg |-> r]

Kernel == "kernel"

UserSelector(r) == Value(Kernel, 0, r)

At(registers, offset) == registers[Layout[(offset \div 4) + 1]]

(* Fault: edx is read from the word of edi. *)
RestoredWithEdi(context) ==
  [r \in Registers |-> IF r = "flags" THEN Value(Kernel, 0, "flags")
                       ELSE IF r = "edx" THEN At(context, 0) ELSE context[r]]

(* task_return with restore_general_purpose_registers: the words of the    *)
(* saved registers that reach the processor.  The flags pushed for iret    *)
(* are those of the kernel, with interrupts enabled; ecx is read from the  *)
(* word of ebx, and its own word is loaded into eax, then overwritten.     *)
Restored(context) ==
  [edi |-> At(context, 0), esi |-> At(context, 4), ebp |-> At(context, 8),
   edx |-> At(context, 16), ecx |-> At(context, 12), eax |-> At(context, 24),
   ebx |-> At(context, 12), ip |-> At(context, 28), cs |-> At(context, 32),
   flags |-> Value(Kernel, 0, "flags"), esp |-> At(context, 40), ss |-> At(context, 44)]

(* task_init: the registers of a task that has not run. *)
Fresh(t) ==
  [r \in Registers |-> IF r \in Selectors THEN UserSelector(r) ELSE Value(t, 0, r)]

ContextInit ==
  /\ current \in Tasks
  /\ started = {current}
  /\ saved = [t \in Tasks |-> Fresh(t)]
  /\ regs = Restored(Fresh(current))
  /\ left = saved

(* The program computes: its registers, all but the segments, may hold     *)
(* anything.                                                               *)
Compute(m) ==
  /\ regs' = [r \in Registers |-> IF r \in Selectors THEN regs[r] ELSE Value(current, m, r)]
  /\ UNCHANGED <<current, saved, started, left>>

(* Fault: one area for the registers of all the tasks. *)
SaveInOneArea(t) == saved' = [u \in Tasks |-> regs]

(* task_current_save_state: the frame is what the processor and pushad put *)
(* on the kernel's stack, the registers of the program interrupted.        *)
SaveState(t) == saved' = [saved EXCEPT ![t] = regs]

(* task_switch and task_return. *)
SwitchTo(t) ==
  /\ current' = t
  /\ regs' = Restored(saved'[t])

(* The clock interrupt: save, then resume the next task. *)
ClockInterrupt(t) ==
  /\ t \in started
  /\ SaveState(current)
  /\ left' = [left EXCEPT ![current] = regs]
  /\ SwitchTo(t)
  /\ UNCHANGED started

(* The keyboard interrupt: saved too, but popad and iret put back what was *)
(* pushed.                                                                 *)
KeyboardInterrupt ==
  /\ SaveState(current)
  /\ UNCHANGED <<regs, current, started, left>>

(* An interrupt without a callback: nothing is saved. *)
OtherInterrupt == UNCHANGED contexts

(* A command of int 0x80 that returns: popad, then eax is the result. *)
Command(m) ==
  /\ SaveState(current)
  /\ regs' = [regs EXCEPT !["eax"] = Value(Kernel, m, "eax")]
  /\ UNCHANGED <<current, started, left>>

(* Commands 6 and 7: a new task runs at once; the caller is resumed by a   *)
(* clock interrupt, eax as it was when it made the call.                   *)
CommandLoad(t) ==
  /\ t \notin started
  /\ saved' = [saved EXCEPT ![current] = regs, ![t] = Fresh(t)]
  /\ left' = [left EXCEPT ![current] = regs, ![t] = Fresh(t)]
  /\ started' = started \cup {t}
  /\ SwitchTo(t)

(* Command 9 and the exceptions: the current task ends, another resumes.   *)
CommandExit(t) ==
  /\ t \in started \ {current}
  /\ SaveState(current)
  /\ started' = started \ {current}
  /\ SwitchTo(t)
  /\ UNCHANGED left

ContextNext ==
  \/ \E m \in Marks : Compute(m) \/ Command(m)
  \/ \E t \in Tasks : ClockInterrupt(t) \/ CommandLoad(t) \/ CommandExit(t)
  \/ KeyboardInterrupt
  \/ OtherInterrupt

ContextSpec == ContextInit /\ [][ContextNext]_contexts

-----------------------------------------------------------------------------
(* A task that is resumed by a switch finds in each of its registers, but  *)
(* ecx and the flags, what it had there when it was interrupted, whatever  *)
(* ran in between (task.asm:12-73, task.c:138-152).                        *)
Switch == \E t \in Tasks : ClockInterrupt(t) \/ CommandExit(t)

ResumesWhatItLeft ==
  [][Switch => \A r \in Registers \ {"ecx", "flags"} :
       regs'[r] = IF current' = current THEN regs[r] ELSE left[current'][r]]_contexts

(* task.h:20, "registers values in order to resume the task to the same    *)
(* state it was stopped".                                                  *)
ResumesSameState ==
  [][Switch => regs' = IF current' = current THEN regs ELSE left[current']]_contexts

(* No interrupt or command writes into the context of a task that is not   *)
(* running and not being created: what was saved stays saved (idt.c:72).   *)
OthersContextKept ==
  [][\A t \in started \cap started' : t # current => saved'[t] = saved[t]]_contexts
==============================================================================
