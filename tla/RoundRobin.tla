----------------------------- MODULE RoundRobin ------------------------------
(***************************************************************************)
(* What the scheduler promises: the programs loaded and not yet ended form *)
(* a queue in the order they were loaded, one of them runs, and a clock    *)
(* tick passes the processor to the next one round the queue.  Which of    *)
(* the others runs when a program ends is left open.                       *)
(***************************************************************************)
EXTENDS Naturals, Sequences

CONSTANTS Tasks, NoTask

VARIABLES
  queue,      \* the programs alive, in load order
  running     \* the one that runs in user mode; NoTask while the kernel boots
              \* and once it has panicked

vars == <<queue, running>>

Members(q) == {q[i] : i \in DOMAIN q}

(* The queue without t, which is in it once. *)
Without(q, t) ==
  [i \in 1 .. Len(q) - 1 |-> IF \E j \in 1 .. i : q[j] = t THEN q[i + 1] ELSE q[i]]

Init == queue = <<>> /\ running = NoTask

(* A new program goes to the end of the queue.  The one that loaded it     *)
(* goes on, or gives way to it.                                            *)
Load(t) ==
  /\ t \notin Members(queue)
  /\ queue' = Append(queue, t)
  /\ running' \in IF running = NoTask THEN {NoTask} ELSE {running, t}

Start ==
  /\ running = NoTask
  /\ queue # <<>>
  /\ running' = Head(queue)
  /\ UNCHANGED queue

Tick ==
  /\ \E i \in DOMAIN queue :
       /\ queue[i] = running
       /\ running' = queue[(i % Len(queue)) + 1]
  /\ UNCHANGED queue

End ==
  /\ running # NoTask
  /\ queue' = Without(queue, running)
  /\ running' \in IF queue' = <<>> THEN {NoTask} ELSE Members(queue')

Next == (\E t \in Tasks : Load(t)) \/ Start \/ Tick \/ End

Spec == Init /\ [][Next]_vars
==============================================================================
