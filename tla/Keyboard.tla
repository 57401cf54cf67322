------------------------------ MODULE Keyboard -------------------------------
(***************************************************************************)
(* The keyboard (keyboard/keyboard.c, keyboard/classic.c, command 2 of     *)
(* isr80h/io.c and the loop of programs that wait for a key): an interrupt *)
(* pushes characters into the ring buffer of the process that has the      *)
(* focus, a command pops them from the buffer of the process that runs.    *)
(***************************************************************************)
EXTENDS Integers

CONSTANTS
  Processes,
  Letters,      \* keys that give a letter
  Size,         \* PLUMOS_KEYBOARD_BUFFER_SIZE
  WordSize,     \* the number of values of head and tail
  MaxUnread     \* the most keys that are typed ahead of the program reading them

VARIABLES
  keyboard,   \* process->keyboard of every process: buffer, head and tail
  capslock,   \* classic_keyboard.capslock_state
  loaded,     \* the processes that exist
  focus,      \* current_process
  running,    \* current_task->process
  waiting,    \* the processes in the loop that waits for a key
  got         \* the process that last popped, and the character it got

vars == <<keyboard, capslock, loaded, focus, running, waiting, got>>

(* A process starts with head and tail 0, and no index jumps where they    *)
(* wrap around.                                                            *)
ASSUME RingAssumption ==
  /\ Size \in Nat \ {0} /\ WordSize \in Nat
  /\ Size < WordSize /\ WordSize % Size = 0

ASSUME LettersAssumption == "none" \notin Letters

ASSUME ProcessesAssumption == Processes # {}

(* No more is typed ahead than the buffer holds: keyboard_push does not    *)
(* look (keyboard.c:79-91).                                                *)
TypedAheadFits == MaxUnread \in 0 .. Size

NoChar == [letter |-> "none", upper |-> FALSE]

Chars == [letter : Letters, upper : BOOLEAN]

Cells == 0 .. Size - 1

Cleared == [buffer |-> [i \in Cells |-> NoChar], head |-> 0, tail |-> 0]

(* The counters wrap around; an index is taken modulo the size of the      *)
(* buffer, which is unsigned, so of the counter as an unsigned word. *)
Plus1(word) == (word + 1) % WordSize

(* The keys typed and not yet read: tail has run this far ahead of head. *)
Unread(p) == (keyboard[p].tail - keyboard[p].head) % WordSize

-----------------------------------------------------------------------------
Init ==
  /\ keyboard = [p \in Processes |-> Cleared]
  /\ capslock = FALSE
  /\ loaded = {}
  /\ focus = CHOOSE p \in Processes : TRUE
  /\ running = focus
  /\ waiting = {}
  /\ got = [by |-> NoChar, char |-> NoChar]

(* Fault: the index is that of the cell after. *)
TailPastEnd(k) == (k.tail + 1) % Size

keyboard_get_tail_index(k) == k.tail % Size

(* Fault: the character goes to the process that runs. *)
PushToRunning(c) ==
  keyboard' = [keyboard EXCEPT
    ![running] = [@ EXCEPT !.buffer[keyboard_get_tail_index(@)] = c,
                           !.tail = Plus1(@)]]

keyboard_push(c) ==
  keyboard' = [keyboard EXCEPT
    ![focus].buffer[keyboard_get_tail_index(keyboard[focus])] = c,
    ![focus].tail = Plus1(@)]

(* The keyboard interrupt for a key that gives a letter, capital if caps   *)
(* lock is on. *)
Press(letter) ==
  /\ loaded # {}
  /\ Unread(focus) < MaxUnread
  /\ keyboard_push([letter |-> letter, upper |-> capslock])
  /\ UNCHANGED <<capslock, loaded, focus, running, waiting, got>>

(* Caps lock changes the state and gives no character. *)
PressCapslock ==
  /\ loaded # {}
  /\ capslock' = ~ capslock
  /\ UNCHANGED <<keyboard, loaded, focus, running, waiting, got>>

(* Keys without a character, and the release of any key. *)
ReleaseOrOther ==
  /\ loaded # {}
  /\ UNCHANGED vars

(* Fault: the cell keeps its character. *)
PopKeepsCell(p) == [keyboard[p] EXCEPT !.head = Plus1(@)]

(* The buffer of p after a character was popped. *)
Popped(p) ==
  [keyboard[p] EXCEPT !.buffer[keyboard[p].head % Size] = NoChar, !.head = Plus1(@)]

(* Command 2, getkey: the cell at head, unless it is 0.  A program that    *)
(* waits for a key leaves its loop when it gets one. *)
GetKey(p) ==
  LET c == keyboard[p].buffer[keyboard[p].head % Size]
  IN  /\ p = running
      /\ p \in loaded
      /\ got' = [by |-> p, char |-> c]
      /\ \/ /\ c = NoChar
            /\ UNCHANGED <<keyboard, waiting>>
         \/ /\ c # NoChar
            /\ keyboard' = [keyboard EXCEPT ![p] = Popped(p)]
            /\ waiting' = waiting \ {p}
      /\ UNCHANGED <<capslock, loaded, focus, running>>

(* A program starts to wait: plumos_getkeyblock. *)
StartWaiting(p) ==
  /\ p = running
  /\ p \in loaded \ waiting
  /\ waiting' = waiting \cup {p}
  /\ UNCHANGED <<keyboard, capslock, loaded, focus, running, got>>

(* A program is loaded, with a zeroed struct process; it has the focus and *)
(* runs. *)
Load(p) ==
  /\ p \notin loaded
  /\ loaded' = loaded \cup {p}
  /\ keyboard' = [keyboard EXCEPT ![p] = Cleared]
  /\ focus' = p
  /\ running' = p
  /\ UNCHANGED <<capslock, waiting, got>>

(* The program that runs ends, not being the last; another runs, and gets  *)
(* the focus if it was there. *)
Exit(p, q) ==
  /\ p = running
  /\ p \in loaded
  /\ q \in loaded \ {p}
  /\ loaded' = loaded \ {p}
  /\ waiting' = waiting \ {p}
  /\ running' = q
  /\ focus' \in IF focus = p THEN loaded \ {p} ELSE {focus}
  /\ UNCHANGED <<keyboard, capslock, got>>

(* The clock passes to another task. *)
Clock(p) ==
  /\ running \in loaded
  /\ p \in loaded \ {running}
  /\ running' = p
  /\ UNCHANGED <<keyboard, capslock, loaded, focus, waiting, got>>

Next ==
  \/ \E l \in Letters : Press(l)
  \/ PressCapslock
  \/ ReleaseOrOther
  \/ \E p \in Processes : GetKey(p) \/ StartWaiting(p) \/ Load(p) \/ Clock(p)
  \/ \E p, q \in Processes : Exit(p, q)

(* A program in the loop calls again and again while it runs: a slice of   *)
(* the clock is longer than a call.  Every task gets its slice, as         *)
(* EveryTaskRuns of Scheduler says. *)
Fairness ==
  \A p \in Processes : SF_vars(p \in waiting /\ GetKey(p)) /\ SF_vars(Clock(p))

Spec == Init /\ [][Next]_vars /\ Fairness

-----------------------------------------------------------------------------
(* The cells from head to tail, and no others, hold characters: a zero     *)
(* cell at head means that there is nothing to read, and a key pushed      *)
(* never lands on one that waits (keyboard.c:86-88, :101-110).             *)
CellsMatchCounters ==
  \A p \in Processes : \A i \in Cells :
    LET k == keyboard[p]
        distance == (i - k.head) % Size
    IN  k.buffer[i] # NoChar <=> distance < Unread(p)

(* Each process reads, in order and each once, the keys that were typed    *)
(* while it had the focus, and no others, wherever the processor was       *)
(* (keyboard.c:75-76; process.h:90, "Keyboard buffer of the process -      *)
(* Queue").  Nothing but a load empties a queue.                           *)
Queue(p) == [i \in 1 .. Unread(p) |-> keyboard[p].buffer[(keyboard[p].head + i - 1) % Size]]

Q == INSTANCE KeyQueue WITH queue <- [p \in Processes |-> Queue(p)]

IsQueue == Q!Spec

(* A program that waits for a key gets one, once there is one in its       *)
(* buffer, unless it ends (keyboard.c:94-112, io.c:20-24).  Where programs *)
(* are loaded and end for ever the scheduler itself may pass a task over:  *)
(* nothing is claimed there.                                               *)
WaiterGetsKey ==
  \/ []<><<\E p \in Processes : Load(p)>>_vars
  \/ \A p \in Processes : p \in waiting /\ Unread(p) > 0 ~> p \notin waiting
==============================================================================
