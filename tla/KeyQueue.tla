------------------------------ MODULE KeyQueue -------------------------------
(***************************************************************************)
(* What the keyboard promises a program: a queue of its own, in which it   *)
(* finds the characters typed while it had the focus, each once and in the *)
(* order they were typed.  A key goes to the program with the focus and to *)
(* no other, only the program that runs reads, and only from its own       *)
(* queue, and a queue is emptied by nothing but the load of its program.   *)
(***************************************************************************)
EXTENDS Sequences

CONSTANTS Processes, Chars, NoChar

VARIABLES
  loaded,   \* the programs that exist
  focus,    \* the one the user types to
  running,  \* the one that has the processor
  queue,    \* for each process, the characters typed and not yet read
  got       \* the process that last read its queue, and what it got

programs == <<loaded, focus, running>>

vars == <<loaded, focus, running, queue, got>>

Init ==
  /\ loaded = {}
  /\ focus \in Processes
  /\ running \in Processes
  /\ queue = [p \in Processes |-> <<>>]
  /\ got = [by |-> NoChar, char |-> NoChar]

Type(c) ==
  /\ focus \in loaded
  /\ queue' = [queue EXCEPT ![focus] = Append(@, c)]
  /\ UNCHANGED <<programs, got>>

ReadNothing(p) ==
  /\ queue[p] = <<>>
  /\ got' = [by |-> p, char |-> NoChar]
  /\ UNCHANGED queue

ReadFirst(p) ==
  /\ queue[p] # <<>>
  /\ got' = [by |-> p, char |-> Head(queue[p])]
  /\ queue' = [queue EXCEPT ![p] = Tail(@)]

Read(p) ==
  /\ p = running
  /\ p \in loaded
  /\ ReadNothing(p) \/ ReadFirst(p)
  /\ UNCHANGED programs

(* A program that is loaded has the focus and the processor, and starts    *)
(* with an empty queue.                                                    *)
Load(p) ==
  /\ p \notin loaded
  /\ loaded' = loaded \cup {p}
  /\ focus' = p
  /\ running' = p
  /\ queue' = [queue EXCEPT ![p] = <<>>]
  /\ UNCHANGED got

(* The program that runs ends; the focus moves only if it was there.       *)
End(p) ==
  /\ p = running
  /\ loaded' = loaded \ {p}
  /\ running' \in loaded'
  /\ focus' \in IF focus = p THEN loaded' ELSE {focus}
  /\ UNCHANGED <<queue, got>>

Switch(p) ==
  /\ p \in loaded
  /\ running' = p
  /\ UNCHANGED <<loaded, focus, queue, got>>

Next ==
  \/ \E c \in Chars : Type(c)
  \/ \E p \in Processes : Read(p) \/ Load(p) \/ End(p) \/ Switch(p)

Spec == Init /\ [][Next]_vars
==============================================================================
