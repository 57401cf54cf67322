---------------------------- MODULE ProgramProofs ----------------------------
(***************************************************************************)
(* What a program has of the machine: its registers, its keys and its      *)
(* place on the screen, which others use as well.                          *)
(*                                                                         *)
(* The context switch, for any number of tasks and any values in the       *)
(* registers.                                                              *)
(*                                                                         *)
(* The ring buffers of the keyboard, for any number of processes, any size *)
(* and any width of the counters, as long as no more is typed ahead than a *)
(* buffer holds.  The proof speaks of one buffer k (a keyboard of struct   *)
(* process): Push and Take are what an interrupt and getkey do to it.      *)
(*                                                                         *)
(* The terminal and the shell, for a screen, lines and arguments of any    *)
(* size, whatever is typed and whatever other programs print.              *)
(***************************************************************************)
EXTENDS ContextSwitch, Keyboard, Shell, Numbers

-----------------------------------------------------------------------------
(* The context switch                                                      *)

(* A task that exists and does not run has in its struct the registers it  *)
(* had when it lost the processor.                                         *)
SavedIsLeft ==
  /\ current \in started /\ started \subseteq Tasks
  /\ saved = [t \in Tasks |-> saved[t]]
  /\ left = [t \in Tasks |-> left[t]]
  /\ \A t \in started \ {current} : saved[t] = left[t]

-----------------------------------------------------------------------------
(* The words of struct registers, by their offsets (task.h:36-51).         *)
LEMMA Offsets ==
  ASSUME NEW context
  PROVE  /\ At(context, 0) = context["edi"] /\ At(context, 4) = context["esi"]
         /\ At(context, 8) = context["ebp"] /\ At(context, 12) = context["ebx"]
         /\ At(context, 16) = context["edx"] /\ At(context, 24) = context["eax"]
         /\ At(context, 28) = context["ip"] /\ At(context, 32) = context["cs"]
         /\ At(context, 40) = context["esp"] /\ At(context, 44) = context["ss"]
<1>1. /\ Layout[1] = "edi" /\ Layout[2] = "esi" /\ Layout[3] = "ebp" /\ Layout[4] = "ebx"
      /\ Layout[5] = "edx" /\ Layout[7] = "eax" /\ Layout[8] = "ip" /\ Layout[9] = "cs"
      /\ Layout[11] = "esp" /\ Layout[12] = "ss"
  BY DEF Layout
<1>2. /\ (0 \div 4) + 1 = 1 /\ (4 \div 4) + 1 = 2 /\ (8 \div 4) + 1 = 3
      /\ (12 \div 4) + 1 = 4 /\ (16 \div 4) + 1 = 5 /\ (24 \div 4) + 1 = 7
      /\ (28 \div 4) + 1 = 8 /\ (32 \div 4) + 1 = 9 /\ (40 \div 4) + 1 = 11
      /\ (44 \div 4) + 1 = 12
  OBVIOUS
<1> QED BY <1>1, <1>2 DEF At

(* task_return gives a program all its registers but ecx and the flags.    *)
LEMMA RestoredFacts ==
  ASSUME NEW context, NEW r \in Registers \ {"ecx", "flags"}
  PROVE  Restored(context)[r] = context[r]
<1>1. r \in {"edi", "esi", "ebp", "ebx", "edx", "eax", "ip", "cs", "esp", "ss"}
  BY DEF Registers, Layout
<1> QED BY <1>1, Offsets DEF Restored

(* No task has run yet.                                                    *)
LEMMA ContextsInit == ContextInit => SavedIsLeft
BY DEF ContextInit, SavedIsLeft

(* Each handler saves the registers of the task it interrupts and of no    *)
(* other (task_save_state).                                                *)
LEMMA ContextsStep ==
  ASSUME SavedIsLeft, [ContextNext]_contexts
  PROVE  SavedIsLeft'
<1> USE DEF SavedIsLeft
<1>1. ASSUME NEW m \in Marks, Compute(m) PROVE SavedIsLeft'
  BY <1>1 DEF Compute
<1>2. ASSUME NEW m \in Marks, Command(m) PROVE SavedIsLeft'
  BY <1>2 DEF Command, SaveState
<1>3. ASSUME NEW t \in Tasks, ClockInterrupt(t) PROVE SavedIsLeft'
  BY <1>3 DEF ClockInterrupt, SaveState, SwitchTo
<1>4. ASSUME NEW t \in Tasks, CommandLoad(t) PROVE SavedIsLeft'
  BY <1>4 DEF CommandLoad, SwitchTo
<1>5. ASSUME NEW t \in Tasks, CommandExit(t) PROVE SavedIsLeft'
  BY <1>5 DEF CommandExit, SaveState, SwitchTo
<1>6. CASE KeyboardInterrupt
  BY <1>6 DEF KeyboardInterrupt, SaveState
<1>7. CASE OtherInterrupt \/ UNCHANGED contexts
  BY <1>7 DEF OtherInterrupt, contexts
<1> QED BY <1>1, <1>2, <1>3, <1>4, <1>5, <1>6, <1>7 DEF ContextNext

(* What a struct task says of a task that waits (task.c:138-152).          *)
THEOREM ContextsAreKept == ContextSpec => []SavedIsLeft
BY ContextsInit, ContextsStep, PTL DEF ContextSpec

-----------------------------------------------------------------------------
(* A switch gives the next task every register it left, but ecx and the    *)
(* flags (task.asm:12-73).                                                 *)
THEOREM SwitchRestores == ContextSpec => ResumesWhatItLeft
<1> DEFINE Resumed ==
             \A r \in Registers \ {"ecx", "flags"} :
               regs'[r] = IF current' = current THEN regs[r] ELSE left[current'][r]
<1>1. SavedIsLeft /\ [ContextNext]_contexts => [Switch => Resumed]_contexts
  <2> SUFFICES ASSUME SavedIsLeft, NEW t \in Tasks, ClockInterrupt(t) \/ CommandExit(t),
                      NEW r \in Registers \ {"ecx", "flags"}
               PROVE  regs'[r] = IF current' = current THEN regs[r] ELSE left[current'][r]
    BY DEF Switch
  <2>1. /\ t \in started /\ current' = t /\ regs' = Restored(saved'[t])
        /\ saved' = [saved EXCEPT ![current] = regs]
    BY DEF ClockInterrupt, CommandExit, SwitchTo, SaveState
  <2>2. regs'[r] = saved'[t][r]
    BY <2>1, RestoredFacts
  <2>3. saved'[t] = IF t = current THEN regs ELSE left[t]
    BY <2>1 DEF SavedIsLeft
  <2> QED BY <2>1, <2>2, <2>3
<1> QED BY <1>1, ContextsAreKept, PTL DEF ContextSpec, ResumesWhatItLeft

(* No handler writes into the context of a task that waits (idt.c:72).     *)
THEOREM WaitingContextsKept == ContextSpec => OthersContextKept
<1> DEFINE Kept == \A t \in started \cap started' : t # current => saved'[t] = saved[t]
<1>1. SavedIsLeft /\ [ContextNext]_contexts => [Kept]_contexts
  <2> SUFFICES ASSUME SavedIsLeft, ContextNext, NEW t \in started \cap started', t # current
               PROVE  saved'[t] = saved[t]
    BY DEF contexts
  <2>1. t \in Tasks /\ saved = [u \in Tasks |-> saved[u]]
    BY DEF SavedIsLeft
  <2>2. \/ saved' = saved
        \/ saved' = [saved EXCEPT ![current] = regs]
        \/ \E u \in Tasks \ started : saved' = [saved EXCEPT ![current] = regs, ![u] = Fresh(u)]
    BY DEF ContextNext, Compute, Command, ClockInterrupt, CommandLoad, CommandExit,
           KeyboardInterrupt, OtherInterrupt, SaveState, contexts
  <2> QED BY <2>1, <2>2
<1> QED BY <1>1, ContextsAreKept, PTL DEF ContextSpec, OthersContextKept

-----------------------------------------------------------------------------
(* The keyboard                                                            *)

Rings == [buffer : [Cells -> Chars \cup {NoChar}],
          head : 0 .. WordSize - 1, tail : 0 .. WordSize - 1]

Length(k) == (k.tail - k.head) % WordSize

(* How far cell i is from the head.                                        *)
Ahead(k, i) == (i - k.head) % Size

Sound(k) ==
  /\ k \in Rings
  /\ Length(k) <= MaxUnread
  /\ \A i \in Cells : k.buffer[i] # NoChar <=> Ahead(k, i) < Length(k)

Push(k, c) ==
  [buffer |-> [k.buffer EXCEPT ![k.tail % Size] = c], head |-> k.head, tail |-> Plus1(k.tail)]

Take(k) ==
  [buffer |-> [k.buffer EXCEPT ![k.head % Size] = NoChar], head |-> Plus1(k.head), tail |-> k.tail]

Content(k) == [i \in 1 .. Length(k) |-> k.buffer[(k.head + i - 1) % Size]]

KeysInv ==
  /\ keyboard \in [Processes -> Rings]
  /\ \A p \in Processes : Sound(keyboard[p])
  /\ capslock \in BOOLEAN
  /\ loaded \subseteq Processes
  /\ loaded # {} => focus \in loaded

-----------------------------------------------------------------------------
(* The arithmetic of the counters                                          *)

(* The parts of RingAssumption and what they come to.                      *)
LEMMA SizeFacts ==
  /\ Size \in Nat \ {0} /\ WordSize \in Nat \ {0} /\ Size < WordSize
  /\ \E m \in Nat \ {0} : WordSize = Size * m
<1>1. Size \in Nat \ {0} /\ WordSize \in Nat \ {0} /\ Size < WordSize /\ WordSize % Size = 0
  BY RingAssumption
<1> DEFINE m == WordSize \div Size
<1>2. WordSize = Size * m /\ m \in Int
  BY <1>1
<1> HIDE DEF m
<1>3. m > 0
  BY <1>1, <1>2
<1> QED BY <1>1, <1>2, <1>3

(* An index does not depend on where the counter wrapped around.           *)
LEMMA IndexOfWord ==
  ASSUME NEW a \in Int, NEW c \in Int
  PROVE  /\ (c + (a % WordSize)) % Size = (c + a) % Size
         /\ (c - (a % WordSize)) % Size = (c - a) % Size
<1>1. PICK m \in Nat \ {0} : WordSize = Size * m
  BY SizeFacts
<1>2. Size \in Nat \ {0}
  BY SizeFacts
<1>3. /\ (c + (a % (Size * m))) % Size = (c + a) % Size
      /\ (c - (a % (Size * m))) % Size = (c - a) % Size
  BY <1>2, RemainderOfMultiple, RemainderOfDifference
<1> QED BY <1>1, <1>3

(* Two cells are not as far from the head.                                 *)
LEMMA AheadFacts ==
  ASSUME NEW k \in Rings, NEW i \in Cells
  PROVE  /\ Ahead(k, i) \in Cells /\ (k.head + i) % Size \in Cells
         /\ (k.head + Ahead(k, i)) % Size = i
         /\ Ahead(k, (k.head + i) % Size) = i
<1>1. Size \in Nat \ {0} /\ Cells = 0 .. Size - 1
  BY SizeFacts DEF Cells
<1>2. k.head \in Int
  BY SizeFacts DEF Rings
<1> QED BY <1>1, <1>2, Around DEF Ahead

-----------------------------------------------------------------------------
(* One buffer                                                              *)

(* A ring is its three fields, of their types (keyboard.h).                *)
LEMMA RingFacts ==
  ASSUME NEW k \in Rings
  PROVE  /\ k = [buffer |-> k.buffer, head |-> k.head, tail |-> k.tail]
         /\ k.buffer \in [Cells -> Chars \cup {NoChar}]
         /\ k.head \in Nat /\ k.tail \in Nat
         /\ Length(k) \in 0 .. WordSize - 1
<1>1. /\ k = [buffer |-> k.buffer, head |-> k.head, tail |-> k.tail]
      /\ k.buffer \in [Cells -> Chars \cup {NoChar}]
      /\ k.head \in 0 .. WordSize - 1 /\ k.tail \in 0 .. WordSize - 1
  BY DEF Rings
<1>2. WordSize \in Nat \ {0}
  BY SizeFacts
<1> QED BY <1>1, <1>2 DEF Length

(* The cell at tail is as far from the head as there are characters.       *)
LEMMA TailCell ==
  ASSUME NEW k \in Rings, Length(k) < Size
  PROVE  /\ k.tail % Size \in Cells /\ Ahead(k, k.tail % Size) = Length(k)
         /\ (k.head + Length(k)) % Size = k.tail % Size
<1> DEFINE t == k.tail
           h == k.head
           u == Length(k)
<1>1. t \in Nat /\ h \in Nat /\ u \in 0 .. Size - 1 /\ Size \in Nat \ {0} /\ WordSize \in Nat \ {0}
  BY RingFacts, SizeFacts
<1>2. u = (t - h) % WordSize
  BY DEF Length
<1> HIDE DEF t, h, u
<1>3. ((t % Size) - h) % Size = (t - h) % Size
  <2> DEFINE e == - h
  <2>1. e \in Int /\ t \in Int /\ Size \in Nat \ {0}
    BY <1>1
  <2> HIDE DEF e
  <2>2. ((t % Size) + e) % Size = (t + e) % Size
    BY <2>1, RemainderOfSum
  <2> QED BY <1>1, <2>2 DEF e
<1>4. (t - h) % Size = u
  <2> DEFINE d == t - h
  <2>1. d \in Int
    BY <1>1
  <2> HIDE DEF d
  <2>2. (0 + (d % WordSize)) % Size = (0 + d) % Size
    BY <2>1, IndexOfWord
  <2>3. 0 + d = d /\ 0 + (d % WordSize) = d % WordSize
    BY <1>1, <2>1
  <2>4. (d % WordSize) % Size = d % Size
    BY <2>2, <2>3
  <2>5. d % WordSize = u
    BY <1>2 DEF d
  <2>6. u % Size = u
    BY <1>1
  <2> QED BY <2>4, <2>5, <2>6 DEF d
<1>5. t % Size \in Cells /\ Ahead(k, t % Size) = u
  BY <1>1, <1>3, <1>4 DEF Ahead, Cells, h
<1>6. (h + u) % Size = t % Size
  BY <1>5, AheadFacts DEF h
<1> QED BY <1>5, <1>6 DEF t, h, u

(* Append, element by element.                                             *)
LEMMA AppendIs ==
  ASSUME NEW S, NEW s \in Seq(S), NEW c \in S
  PROVE  Append(s, c) = [i \in 1 .. Len(s) + 1 |-> IF i = Len(s) + 1 THEN c ELSE s[i]]
<1> DEFINE a == Append(s, c)
           f == [i \in 1 .. Len(s) + 1 |-> IF i = Len(s) + 1 THEN c ELSE s[i]]
<1>1. a \in Seq(S) /\ Len(a) = Len(s) + 1 /\ \A i \in 1 .. Len(s) + 1 : a[i] = f[i]
  OBVIOUS
<1>2. f \in Seq(S) /\ Len(f) = Len(s) + 1
  OBVIOUS
<1> HIDE DEF a, f
<1>3. a = f
  BY <1>1, <1>2
<1> QED BY <1>3 DEF a, f

(* keyboard_push: the character goes behind those that wait                *)
(* (keyboard.c:86-88).                                                     *)
LEMMA PushFacts ==
  ASSUME TypedAheadFits, NEW k, Sound(k), NEW c \in Chars, Length(k) < MaxUnread
  PROVE  /\ Sound(Push(k, c))
         /\ Content(Push(k, c)) = Append(Content(k), c)
<1> DEFINE u == Length(k)
           m == Push(k, c)
           t == k.tail % Size
<1>1. /\ k \in Rings /\ u \in 0 .. Size - 1 /\ MaxUnread \in 0 .. Size /\ u < MaxUnread
      /\ Size \in Nat \ {0} /\ WordSize \in Nat \ {0} /\ Size < WordSize
      /\ \A i \in Cells : k.buffer[i] # NoChar <=> Ahead(k, i) < u
  BY RingFacts, SizeFacts DEF Sound, TypedAheadFits
<1>2. /\ k.buffer \in [Cells -> Chars \cup {NoChar}]
      /\ k.head \in 0 .. WordSize - 1 /\ k.tail \in Nat
  BY <1>1, RingFacts DEF Rings
<1>3. t \in Cells /\ Ahead(k, t) = u /\ (k.head + u) % Size = t
  BY <1>1, TailCell
<1>4. c # NoChar
  BY LettersAssumption DEF Chars, NoChar
<1> HIDE DEF t
<1>5. /\ m.buffer = [k.buffer EXCEPT ![t] = c] /\ m.head = k.head
      /\ m.tail = Plus1(k.tail)
      /\ m = [buffer |-> m.buffer, head |-> m.head, tail |-> m.tail]
  BY DEF Push, t
<1> HIDE DEF m
<1>6. m \in Rings
  <2>1. m.tail \in 0 .. WordSize - 1
    BY <1>1, <1>2, <1>5 DEF Plus1
  <2>2. m.buffer \in [Cells -> Chars \cup {NoChar}]
    BY <1>2, <1>3, <1>5
  <2> QED BY <1>2, <1>5, <2>1, <2>2 DEF Rings
<1>7. Length(m) = u + 1
  <2> DEFINE d == k.tail - k.head
             e == - k.head
             f == k.tail + 1
  <2>1. d \in Int /\ e \in Int /\ f \in Int /\ f + e = d + 1
    BY <1>2
  <2>2. Length(m) = ((f % WordSize) + e) % WordSize /\ u = d % WordSize
    BY <1>1, <1>2, <1>5 DEF Length, Plus1
  <2> HIDE DEF d, e, f
  <2>3. Length(m) = (d + 1) % WordSize
    <3>1. WordSize \in Nat \ {0}
      BY <1>1
    <3>2. ((f % WordSize) + e) % WordSize = (f + e) % WordSize
      BY <2>1, <3>1, RemainderOfSum
    <3> QED BY <2>1, <2>2, <3>2
  <2>4. (d + 1) % WordSize = (d % WordSize) + 1
    <3>1. WordSize \in Nat \ {0} /\ (d % WordSize) + 1 < WordSize
      BY <1>1, <2>2
    <3> QED BY <2>1, <3>1, OneMore
  <2> QED BY <2>2, <2>3, <2>4
<1>8. ASSUME NEW i \in Cells PROVE m.buffer[i] # NoChar <=> Ahead(m, i) < u + 1
  <2>1. Ahead(m, i) = Ahead(k, i) /\ Ahead(k, i) \in Nat
    BY <1>1, <1>5, AheadFacts DEF Ahead, Cells
  <2>2. CASE i = t
    BY <1>1, <1>2, <1>3, <1>4, <1>5, <2>1, <2>2
  <2>3. CASE i # t
    <3>1. Ahead(k, i) # u
      BY <1>1, <1>3, <2>3, AheadFacts
    <3>2. m.buffer[i] = k.buffer[i]
      BY <1>2, <1>5, <2>3
    <3> QED BY <1>1, <2>1, <3>1, <3>2
  <2> QED BY <2>2, <2>3
<1>9. Sound(m)
  BY <1>1, <1>6, <1>7, <1>8 DEF Sound
<1>10. Content(m) = Append(Content(k), c)
  <2>1. ASSUME NEW i \in 1 .. u
        PROVE  m.buffer[(k.head + i - 1) % Size] = k.buffer[(k.head + i - 1) % Size]
               /\ k.buffer[(k.head + i - 1) % Size] \in Chars \cup {NoChar}
    <3>1. i - 1 \in Cells /\ i - 1 # u /\ k.head + i - 1 = k.head + (i - 1)
      BY <1>1, <1>2 DEF Cells
    <3>2. (k.head + (i - 1)) % Size \in Cells /\ Ahead(k, (k.head + (i - 1)) % Size) = i - 1
      BY <1>1, <3>1, AheadFacts
    <3>3. (k.head + (i - 1)) % Size # t
      BY <1>3, <3>1, <3>2
    <3> QED BY <1>2, <1>5, <3>1, <3>2, <3>3
  <2>2. m.buffer[(k.head + (u + 1) - 1) % Size] = c
    <3>1. k.head + (u + 1) - 1 = k.head + u
      BY <1>1, <1>2
    <3> QED BY <1>2, <1>3, <1>5, <3>1
  <2>3. Content(k) = [i \in 1 .. u |-> k.buffer[(k.head + i - 1) % Size]]
    BY DEF Content
  <2>4. Content(m) = [i \in 1 .. u + 1 |-> m.buffer[(k.head + i - 1) % Size]]
    BY <1>5, <1>7 DEF Content
  <2>5. u \in Nat
    BY <1>1
  <2> HIDE DEF u
  <2>6. Content(k) \in Seq(Chars \cup {NoChar}) /\ Len(Content(k)) = u
    BY <2>1, <2>3, <2>5
  <2>7. Append(Content(k), c) = [i \in 1 .. u + 1 |-> IF i = u + 1 THEN c ELSE Content(k)[i]]
    BY <2>5, <2>6, AppendIs
  <2>8. ASSUME NEW i \in 1 .. u + 1
        PROVE  m.buffer[(k.head + i - 1) % Size] = IF i = u + 1 THEN c ELSE Content(k)[i]
    <3>1. CASE i = u + 1
      BY <2>2, <3>1
    <3>2. CASE i # u + 1
      BY <2>1, <2>3, <2>5, <3>2
    <3> QED BY <3>1, <3>2
  <2> QED BY <2>4, <2>7, <2>8
<1> QED BY <1>9, <1>10 DEF m

(* Tail, element by element.                                               *)
LEMMA TailIs ==
  ASSUME NEW S, NEW s \in Seq(S), s # <<>>
  PROVE  Tail(s) = [i \in 1 .. Len(s) - 1 |-> s[i + 1]]
<1> DEFINE f == [i \in 1 .. Len(s) - 1 |-> s[i + 1]]
<1>1. /\ Tail(s) \in Seq(S) /\ Len(Tail(s)) = Len(s) - 1
      /\ \A i \in 1 .. Len(s) - 1 : Tail(s)[i] = f[i]
  OBVIOUS
<1>2. f \in Seq(S) /\ Len(f) = Len(s) - 1
  OBVIOUS
<1> HIDE DEF f
<1>3. Tail(s) = f
  BY <1>1, <1>2
<1> QED BY <1>3 DEF f

(* keyboard_pop: there is a character at head unless the buffer is empty;  *)
(* it is the oldest, and the others stay as they are (keyboard.c:94-112).  *)
LEMMA TakeFacts ==
  ASSUME TypedAheadFits, NEW k, Sound(k)
  PROVE  /\ Length(k) \in Nat
         /\ k.buffer[k.head % Size] # NoChar <=> Length(k) > 0
         /\ Length(k) > 0 => /\ Sound(Take(k))
                             /\ Content(k) # <<>>
                             /\ k.buffer[k.head % Size] = Head(Content(k))
                             /\ Content(Take(k)) = Tail(Content(k))
<1> DEFINE u == Length(k)
           m == Take(k)
           h == k.head % Size
<1>1. /\ k \in Rings /\ u \in Nat /\ u <= Size /\ u <= MaxUnread
      /\ Size \in Nat \ {0} /\ WordSize \in Nat \ {0} /\ Size < WordSize
      /\ \A i \in Cells : k.buffer[i] # NoChar <=> Ahead(k, i) < u
      /\ Cells = 0 .. Size - 1 /\ MaxUnread \in Nat
  BY RingFacts, SizeFacts DEF Sound, TypedAheadFits, Cells
<1>2. /\ k.buffer \in [Cells -> Chars \cup {NoChar}]
      /\ k.head \in Nat /\ k.tail \in 0 .. WordSize - 1
  BY <1>1, RingFacts DEF Rings
<1>3. h \in Cells /\ Ahead(k, h) = 0
  <2>1. 0 \in Cells /\ k.head + 0 = k.head
    BY <1>1, <1>2
  <2> QED BY <1>1, <2>1, AheadFacts
<1> HIDE DEF h
<1>4. k.buffer[h] # NoChar <=> u > 0
  BY <1>1, <1>3
<1>5. /\ m.buffer = [k.buffer EXCEPT ![h] = NoChar] /\ m.head = Plus1(k.head)
      /\ m.tail = k.tail
      /\ m = [buffer |-> m.buffer, head |-> m.head, tail |-> m.tail]
  BY DEF Take, h
<1> HIDE DEF m
<1>6. m \in Rings
  <2>1. m.head \in 0 .. WordSize - 1
    BY <1>1, <1>2, <1>5 DEF Plus1
  <2>2. m.buffer \in [Cells -> Chars \cup {NoChar}]
    BY <1>2, <1>3, <1>5
  <2>3. m.tail \in 0 .. WordSize - 1
    BY <1>2, <1>5
  <2> QED BY <1>5, <2>1, <2>2, <2>3 DEF Rings
<1>7. Length(m) = IF u = 0 THEN WordSize - 1 ELSE u - 1
  <2> DEFINE d == k.tail - k.head
             f == k.head + 1
  <2>1. d \in Int /\ k.tail \in Int /\ f \in Int /\ k.tail - f = d - 1 /\ WordSize \in Nat \ {0}
    <3>1. k.tail \in Int /\ k.head \in Int
      BY <1>1, <1>2
    <3>2. WordSize \in Nat \ {0}
      BY <1>1
    <3> QED BY <3>1, <3>2
  <2>2. Length(m) = (k.tail - (f % WordSize)) % WordSize /\ u = d % WordSize
    BY <1>5 DEF Length, Plus1
  <2> HIDE DEF d, f
  <2>3. (k.tail - (f % WordSize)) % WordSize = (k.tail - f) % WordSize
    <3>1. PICK one \in Nat \ {0} : WordSize * one = WordSize
      <4>1. WordSize * 1 = WordSize /\ 1 \in Nat \ {0}
        BY <2>1
      <4> QED BY <4>1
    <3> DEFINE t == k.tail
    <3>2. t \in Int
      BY <2>1
    <3> HIDE DEF t
    <3>3. (t - (f % (WordSize * one))) % WordSize = (t - f) % WordSize
      BY <2>1, <3>2, RemainderOfDifference
    <3> QED BY <3>1, <3>3 DEF t
  <2>4. (d - 1) % WordSize = IF d % WordSize = 0 THEN WordSize - 1 ELSE (d % WordSize) - 1
    BY <2>1, OneLess
  <2> QED BY <2>1, <2>2, <2>3, <2>4
<1>8. ASSUME NEW i \in Cells
      PROVE  Ahead(m, i) = IF Ahead(k, i) = 0 THEN Size - 1 ELSE Ahead(k, i) - 1
  <2> DEFINE d == i - k.head
             f == k.head + 1
  <2>1. d \in Int /\ i \in Int /\ f \in Int /\ i - f = d - 1 /\ Size \in Nat \ {0}
    BY <1>1, <1>2
  <2>2. Ahead(m, i) = (i - (f % WordSize)) % Size /\ Ahead(k, i) = d % Size
    BY <1>5 DEF Ahead, Plus1
  <2> HIDE DEF d, f
  <2>3. (i - (f % WordSize)) % Size = (i - f) % Size
    BY <2>1, IndexOfWord
  <2>4. (d - 1) % Size = IF d % Size = 0 THEN Size - 1 ELSE (d % Size) - 1
    BY <2>1, OneLess
  <2> QED BY <2>1, <2>2, <2>3, <2>4
<1>9. ASSUME u > 0, NEW i \in Cells PROVE m.buffer[i] # NoChar <=> Ahead(m, i) < u - 1
  <2>0. k \in Rings
    BY <1>1
  <2>1. Ahead(k, i) \in Cells /\ (k.head + Ahead(k, i)) % Size = i
    BY <2>0, AheadFacts
  <2>2. CASE i = h
    BY <1>1, <1>2, <1>3, <1>5, <1>8, <2>2
  <2>3. CASE i # h
    <3>1. Ahead(k, i) # 0
      <4>1. k.head + 0 = k.head
        BY <1>2
      <4> QED BY <2>1, <2>3, <4>1 DEF h
    <3>2. m.buffer[i] = k.buffer[i]
      BY <1>2, <1>5, <2>3
    <3> QED BY <1>1, <1>8, <2>1, <3>1, <3>2
  <2> QED BY <2>2, <2>3
<1>10. u > 0 => Sound(m)
  BY <1>1, <1>6, <1>7, <1>9 DEF Sound
<1>11. Content(k) = [i \in 1 .. u |-> k.buffer[(k.head + i - 1) % Size]]
  BY DEF Content
<1>12. ASSUME NEW i \in 1 .. u
       PROVE  /\ k.buffer[(k.head + i - 1) % Size] \in Chars \cup {NoChar}
              /\ (k.head + i - 1) % Size \in Cells
              /\ i > 1 => (k.head + i - 1) % Size # h
  <2>1. i - 1 \in Cells /\ k.head + i - 1 = k.head + (i - 1)
    BY <1>1, <1>2
  <2>2. (k.head + (i - 1)) % Size \in Cells /\ Ahead(k, (k.head + (i - 1)) % Size) = i - 1
    BY <1>1, <2>1, AheadFacts
  <2> QED BY <1>2, <1>3, <2>1, <2>2
<1>13. ASSUME u > 0
       PROVE  /\ Content(k) # <<>>
              /\ k.buffer[h] = Head(Content(k))
              /\ Content(m) = Tail(Content(k))
  <2>1. u \in Nat \ {0}
    BY <1>1, <1>13
  <2> HIDE DEF u
  <2>2. Content(k) \in Seq(Chars \cup {NoChar}) /\ Len(Content(k)) = u
    BY <1>11, <1>12, <2>1
  <2>3. Content(k) # <<>> /\ Head(Content(k)) = Content(k)[1]
    BY <2>1, <2>2
  <2>4. Content(k)[1] = k.buffer[h]
    <3>1. k.head + 1 - 1 = k.head
      BY <1>2
    <3> QED BY <1>11, <2>1, <3>1 DEF h
  <2>5. Tail(Content(k)) = [i \in 1 .. u - 1 |-> Content(k)[i + 1]]
    BY <2>2, <2>3, TailIs
  <2>6. Content(m) = [i \in 1 .. u - 1 |-> m.buffer[(m.head + i - 1) % Size]]
    BY <1>7, <2>1 DEF Content
  <2>7. ASSUME NEW i \in 1 .. u - 1
        PROVE  m.buffer[(m.head + i - 1) % Size] = Content(k)[i + 1]
    <3> DEFINE f == k.head + 1
               e == i - 1
    <3>1. f \in Int /\ e \in Int /\ e + f = k.head + (i + 1) - 1 /\ i + 1 \in 1 .. u /\ i + 1 > 1
      BY <1>2, <2>1
    <3>2. m.head = f % WordSize
      BY <1>5 DEF Plus1
    <3>3. m.head + i - 1 = e + m.head
      BY <1>6, RingFacts
    <3> HIDE DEF e, f
    <3>4. (m.head + i - 1) % Size = (e + f) % Size
      BY <3>1, <3>2, <3>3, IndexOfWord
    <3>5. (e + f) % Size \in Cells /\ (e + f) % Size # h
      BY <1>12, <3>1
    <3>6. m.buffer[(e + f) % Size] = k.buffer[(e + f) % Size]
      BY <1>2, <1>5, <3>5
    <3> QED BY <1>11, <3>1, <3>4, <3>6
  <2> QED BY <2>3, <2>4, <2>5, <2>6, <2>7
<1> QED BY <1>1, <1>4, <1>10, <1>13 DEF m, h

(* A process starts with nothing to read.                                  *)
LEMMA ClearedFacts ==
  ASSUME TypedAheadFits
  PROVE  Sound(Cleared) /\ Content(Cleared) = <<>>
<1>1. /\ Size \in Nat \ {0} /\ WordSize \in Nat \ {0} /\ Cells = 0 .. Size - 1
      /\ MaxUnread \in Nat
  BY SizeFacts DEF Cells, TypedAheadFits
<1>2. Cleared \in Rings
  BY <1>1 DEF Cleared, Rings
<1>3. Cleared.head = 0 /\ Cleared.tail = 0 /\ \A i \in Cells : Cleared.buffer[i] = NoChar
  BY DEF Cleared
<1>4. Length(Cleared) = 0
  BY <1>1, <1>3 DEF Length
<1>5. \A i \in Cells : Ahead(Cleared, i) \in Nat
  <2>1. \A i \in Cells : Ahead(Cleared, i) \in Cells
    BY <1>2, AheadFacts
  <2> QED BY <1>1, <2>1
<1>6. Sound(Cleared)
  BY <1>1, <1>2, <1>3, <1>4, <1>5 DEF Sound
<1>7. Content(Cleared) = <<>>
  BY <1>4 DEF Content
<1> QED BY <1>6, <1>7

-----------------------------------------------------------------------------
(* The handlers, as Push, Take and Cleared                                 *)

(* The writes to the fields, one after the other, are Push and Take.       *)
LEMMA FieldsWritten ==
  ASSUME NEW k \in Rings, NEW c
  PROVE  /\ [[k EXCEPT !.buffer = [@ EXCEPT ![k.tail % Size] = c]] EXCEPT !.tail = Plus1(@)] = Push(k, c)
         /\ [k EXCEPT !.buffer[k.head % Size] = NoChar, !.head = Plus1(@)] = Take(k)
<1>1. PICK b \in [Cells -> Chars \cup {NoChar}], h \in 0 .. WordSize - 1, t \in 0 .. WordSize - 1 :
        k = [buffer |-> b, head |-> h, tail |-> t]
  BY DEF Rings
<1> DEFINE m == [buffer |-> b, head |-> h, tail |-> t]
<1>2. [[m EXCEPT !.buffer = [@ EXCEPT ![m.tail % Size] = c]] EXCEPT !.tail = Plus1(@)] = Push(m, c)
  <2>1. [m EXCEPT !.buffer = [@ EXCEPT ![m.tail % Size] = c]]
        = [buffer |-> [b EXCEPT ![t % Size] = c], head |-> h, tail |-> t]
    OBVIOUS
  <2>2. [[buffer |-> [b EXCEPT ![t % Size] = c], head |-> h, tail |-> t] EXCEPT !.tail = Plus1(@)]
        = [buffer |-> [b EXCEPT ![t % Size] = c], head |-> h, tail |-> Plus1(t)]
    OBVIOUS
  <2>3. Push(m, c) = [buffer |-> [b EXCEPT ![t % Size] = c], head |-> h, tail |-> Plus1(t)]
    BY DEF Push
  <2> HIDE DEF m
  <2> QED BY <2>1, <2>2, <2>3, Zenon
<1>3. [m EXCEPT !.buffer[m.head % Size] = NoChar, !.head = Plus1(@)] = Take(m)
  <2>1. [m EXCEPT !.buffer[m.head % Size] = NoChar]
        = [buffer |-> [b EXCEPT ![h % Size] = NoChar], head |-> h, tail |-> t]
    OBVIOUS
  <2>2. [[buffer |-> [b EXCEPT ![h % Size] = NoChar], head |-> h, tail |-> t] EXCEPT !.head = Plus1(@)]
        = [buffer |-> [b EXCEPT ![h % Size] = NoChar], head |-> Plus1(h), tail |-> t]
    OBVIOUS
  <2>3. Take(m) = [buffer |-> [b EXCEPT ![h % Size] = NoChar], head |-> Plus1(h), tail |-> t]
    BY DEF Take
  <2> HIDE DEF m
  <2> QED BY <2>1, <2>2, <2>3, Zenon
<1>4. k = m
  BY <1>1
<1> HIDE DEF m
<1> QED BY <1>2, <1>3, <1>4, Zenon

(* The interrupt pushes one character to the ring of the process with the  *)
(* focus (keyboard.c:87).                                                  *)
LEMMA PressEffect ==
  ASSUME KeysInv, NEW letter \in Letters, Press(letter)
  PROVE  LET c == [letter |-> letter, upper |-> capslock]
         IN  /\ focus \in Processes /\ c \in Chars
             /\ Length(keyboard[focus]) < MaxUnread
             /\ keyboard' = [keyboard EXCEPT ![focus] = Push(keyboard[focus], c)]
<1> DEFINE c == [letter |-> letter, upper |-> capslock]
           k == keyboard[focus]
<1>1. focus \in Processes /\ c \in Chars /\ Length(k) < MaxUnread
  BY DEF KeysInv, Press, Unread, Length, Chars
<1> HIDE DEF c
<1>2. k \in Rings /\ keyboard \in [Processes -> Rings]
  BY <1>1 DEF KeysInv
<1>3. keyboard' = [keyboard EXCEPT ![focus].buffer[k.tail % Size] = c, ![focus].tail = Plus1(@)]
  BY DEF Press, keyboard_push, keyboard_get_tail_index, c
<1>4. k = [buffer |-> k.buffer, head |-> k.head, tail |-> k.tail]
  BY <1>2, RingFacts
<1>5. keyboard' = [keyboard EXCEPT ![focus] =
                    [[k EXCEPT !.buffer = [@ EXCEPT ![k.tail % Size] = c]] EXCEPT !.tail = Plus1(@)]]
  BY <1>1, <1>2, <1>3
<1>6. [[k EXCEPT !.buffer = [@ EXCEPT ![k.tail % Size] = c]] EXCEPT !.tail = Plus1(@)] = Push(k, c)
  BY <1>2, FieldsWritten
<1> QED BY <1>1, <1>5, <1>6 DEF c

(* Command 2 takes what lies at the head, or nothing if that cell is empty *)
(* (keyboard.c:94).                                                        *)
LEMMA GetKeyEffect ==
  ASSUME KeysInv, NEW p \in Processes, GetKey(p)
  PROVE  LET c == keyboard[p].buffer[keyboard[p].head % Size]
         IN  /\ got' = [by |-> p, char |-> c]
             /\ \/ c = NoChar /\ keyboard' = keyboard
                \/ c # NoChar /\ keyboard' = [keyboard EXCEPT ![p] = Take(keyboard[p])]
<1> DEFINE k == keyboard[p]
<1>1. k \in Rings
  BY DEF KeysInv
<1>2. Popped(p) = Take(k)
  BY <1>1, FieldsWritten DEF Popped
<1> QED BY <1>2 DEF GetKey

-----------------------------------------------------------------------------
(* The rings are empty at first.                                           *)
LEMMA KeysInit ==
  ASSUME TypedAheadFits
  PROVE  Init => KeysInv
BY ClearedFacts DEF Init, KeysInv, Sound

(* Every step keeps the rings sound.                                       *)
LEMMA KeysStep ==
  ASSUME TypedAheadFits, KeysInv, [Next]_vars
  PROVE  KeysInv'
<1>1. ASSUME NEW letter \in Letters, Press(letter) PROVE KeysInv'
  <2> DEFINE c == [letter |-> letter, upper |-> capslock]
  <2>1. Sound(Push(keyboard[focus], c))
    BY <1>1, PressEffect, PushFacts DEF KeysInv
  <2>2. keyboard' = [keyboard EXCEPT ![focus] = Push(keyboard[focus], c)] /\ focus \in Processes
    BY <1>1, PressEffect
  <2>3. UNCHANGED <<capslock, loaded, focus>>
    BY <1>1 DEF Press
  <2> QED BY <2>1, <2>2, <2>3 DEF KeysInv, Sound
<1>2. ASSUME NEW p \in Processes, GetKey(p) PROVE KeysInv'
  <2>1. \/ keyboard' = keyboard
        \/ keyboard' = [keyboard EXCEPT ![p] = Take(keyboard[p])] /\ Sound(Take(keyboard[p]))
    BY <1>2, GetKeyEffect, TakeFacts DEF KeysInv
  <2>2. UNCHANGED <<capslock, loaded, focus>>
    BY <1>2 DEF GetKey
  <2> QED BY <2>1, <2>2 DEF KeysInv, Sound
<1>3. ASSUME NEW p \in Processes, Load(p) PROVE KeysInv'
  BY <1>3, ClearedFacts DEF Load, KeysInv, Sound
<1>4. ASSUME NEW p \in Processes, NEW q \in Processes, Exit(p, q) PROVE KeysInv'
  BY <1>4 DEF Exit, KeysInv
<1>5. ASSUME NEW p \in Processes, Clock(p) \/ StartWaiting(p) PROVE KeysInv'
  BY <1>5 DEF Clock, StartWaiting, KeysInv
<1>6. CASE PressCapslock
  BY <1>6 DEF PressCapslock, KeysInv
<1>7. CASE ReleaseOrOther \/ UNCHANGED vars
  BY <1>7 DEF ReleaseOrOther, vars, KeysInv
<1> QED BY <1>1, <1>2, <1>3, <1>4, <1>5, <1>6, <1>7 DEF Next

(* Every buffer is sound in every reachable state.                         *)
THEOREM BuffersAreSound ==
  ASSUME TypedAheadFits PROVE Spec => []KeysInv
<1>1. KeysInv /\ [Next]_vars => KeysInv'
  BY KeysStep
<1> QED BY <1>1, KeysInit, PTL DEF Spec

(* The cells from head to tail and no others hold characters               *)
(* (keyboard.c:86-88, :101-110).                                           *)
THEOREM CellsAreRight ==
  ASSUME TypedAheadFits PROVE Spec => []CellsMatchCounters
<1>1. KeysInv => CellsMatchCounters
  BY DEF KeysInv, Sound, CellsMatchCounters, Ahead, Unread, Length
<1> QED BY <1>1, BuffersAreSound, PTL

-----------------------------------------------------------------------------
(* A buffer is a queue: an interrupt is a Type of KeyQueue, getkey a Read, *)
(* and loads, ends and the clock are its Load, End and Switch              *)
(* (process.h:90).                                                         *)

(* The refinement mapping is the content of a ring.                        *)
LEMMA QueueIsContent == \A p \in Processes : Queue(p) = Content(keyboard[p])
BY DEF Queue, Content, Unread, Length

(* An interrupt of the keyboard is a Type of the queue (keyboard.c:74).    *)
LEMMA PressTypes ==
  ASSUME TypedAheadFits, KeysInv, NEW letter \in Letters, Press(letter)
  PROVE  Q!Next
<1> DEFINE c == [letter |-> letter, upper |-> capslock]
<1>1. /\ focus \in Processes /\ c \in Chars
      /\ keyboard' = [keyboard EXCEPT ![focus] = Push(keyboard[focus], c)]
      /\ Content(Push(keyboard[focus], c)) = Append(Content(keyboard[focus]), c)
      /\ keyboard \in [Processes -> Rings]
  BY PressEffect, PushFacts DEF KeysInv
<1>2. got' = got /\ UNCHANGED Q!programs /\ focus \in loaded
  BY DEF Press, KeysInv, Q!programs
<1> HIDE DEF c
<1>3. \A p \in Processes :
        Content(keyboard'[p]) = IF p = focus THEN Append(Content(keyboard[focus]), c)
                                ELSE Content(keyboard[p])
  BY <1>1
<1>4. \A p \in Processes : Queue(p)' = Content(keyboard'[p])
  BY DEF Queue, Content, Unread, Length
<1>5. Q!Type(c)
  BY <1>1, <1>2, <1>3, <1>4, QueueIsContent DEF Q!Type
<1> QED BY <1>1, <1>5 DEF Q!Next

(* A call of getkey is a Read of the queue (keyboard.c:94).                *)
LEMMA GetKeyReads ==
  ASSUME TypedAheadFits, KeysInv, NEW p \in Processes, GetKey(p)
  PROVE  Q!Next
<1> DEFINE k == keyboard[p]
           c == k.buffer[k.head % Size]
<1>1. /\ keyboard \in [Processes -> Rings]
      /\ got' = [by |-> p, char |-> c]
      /\ \/ c = NoChar /\ keyboard' = keyboard
         \/ c # NoChar /\ keyboard' = [keyboard EXCEPT ![p] = Take(k)]
  BY GetKeyEffect DEF KeysInv
<1>2. Sound(k)
  BY DEF KeysInv
<1>3. /\ Length(k) \in Nat
      /\ c # NoChar <=> Length(k) > 0
      /\ Length(k) > 0 => /\ Content(k) # <<>> /\ c = Head(Content(k))
                          /\ Content(Take(k)) = Tail(Content(k))
  BY <1>2, TakeFacts
<1>4. \A q \in Processes : Queue(q)' = Content(keyboard'[q])
  BY DEF Queue, Content, Unread, Length
<1>7. p = running /\ p \in loaded /\ UNCHANGED Q!programs
  BY DEF GetKey, Q!programs
<1>5. CASE c = NoChar
  <2>1. Length(k) = 0
    BY <1>3, <1>5
  <2>2. Content(k) = <<>>
    BY <2>1 DEF Content
  <2>3. keyboard' = keyboard
    BY <1>1, <1>5
  <2> HIDE DEF c
  <2>4. Q!ReadNothing(p)
    BY <1>1, <1>4, <1>5, <2>2, <2>3, QueueIsContent DEF Q!ReadNothing
  <2> QED BY <1>7, <2>4 DEF Q!Read, Q!Next
<1>6. CASE c # NoChar
  <2> HIDE DEF c
  <2>1. /\ Content(k) # <<>> /\ c = Head(Content(k)) /\ Content(Take(k)) = Tail(Content(k))
        /\ keyboard' = [keyboard EXCEPT ![p] = Take(k)]
    BY <1>1, <1>3, <1>6
  <2>2. \A q \in Processes :
          Content(keyboard'[q]) = IF q = p THEN Tail(Content(k)) ELSE Content(keyboard[q])
    BY <1>1, <2>1
  <2>3. Q!ReadFirst(p)
    BY <1>1, <1>4, <2>1, <2>2, QueueIsContent DEF Q!ReadFirst
  <2> QED BY <1>7, <2>3 DEF Q!Read, Q!Next
<1> QED BY <1>5, <1>6

(* A load gives its process an empty queue, the focus and the processor    *)
(* (process.c:18).                                                         *)
LEMMA LoadClears ==
  ASSUME TypedAheadFits, KeysInv, NEW p \in Processes, Load(p)
  PROVE  Q!Next
<1>1. /\ keyboard \in [Processes -> Rings] /\ keyboard' = [keyboard EXCEPT ![p] = Cleared]
      /\ got' = got
      /\ p \notin loaded /\ loaded' = loaded \cup {p} /\ focus' = p /\ running' = p
  BY DEF KeysInv, Load
<1>2. \A q \in Processes : Queue(q)' = Content(keyboard'[q])
  BY DEF Queue, Content, Unread, Length
<1>3. \A q \in Processes :
        Content(keyboard'[q]) = IF q = p THEN <<>> ELSE Content(keyboard[q])
  BY <1>1, ClearedFacts
<1>4. Q!Load(p)
  BY <1>1, <1>2, <1>3, QueueIsContent DEF Q!Load
<1> QED BY <1>4 DEF Q!Next

(* Where the rings are left alone, so are the queues.                      *)
LEMMA QueuesStay ==
  ASSUME UNCHANGED keyboard
  PROVE  UNCHANGED [p \in Processes |-> Queue(p)]
BY DEF Queue, Unread

(* Ends and the clock move the focus and the processor only.               *)
LEMMA ProgramsChange ==
  ASSUME NEW p \in Processes, NEW q \in Processes, Exit(p, q) \/ Clock(p)
  PROVE  Q!Next
<1>1. UNCHANGED [r \in Processes |-> Queue(r)]
  BY QueuesStay DEF Exit, Clock
<1>2. CASE Exit(p, q)
  <2>1. Q!End(p)
    BY <1>1, <1>2 DEF Exit, Q!End
  <2> QED BY <2>1 DEF Q!Next
<1>3. CASE Clock(p)
  <2>1. Q!Switch(p)
    BY <1>1, <1>3 DEF Clock, Q!Switch
  <2> QED BY <2>1 DEF Q!Next
<1> QED BY <1>2, <1>3

(* Steps that touch neither the rings nor the answer, the focus or the     *)
(* processor are stutters of the queue.                                    *)
LEMMA OthersStutter ==
  ASSUME UNCHANGED <<keyboard, got, loaded, focus, running>>
  PROVE  UNCHANGED Q!vars
BY QueuesStay DEF Q!vars

(* Each process reads, in order and each once, the keys typed while it had *)
(* the focus, and no others (keyboard.c:75-76, process.h:90).              *)
THEOREM KeysAreQueued ==
  ASSUME TypedAheadFits PROVE Spec => IsQueue
<1>1. Init => Q!Init
  <2> SUFFICES ASSUME Init PROVE Q!Init
    OBVIOUS
  <2>1. \A p \in Processes : Queue(p) = <<>>
    BY ClearedFacts, QueueIsContent DEF Init
  <2>2. focus \in Processes /\ running \in Processes
    BY ProcessesAssumption DEF Init
  <2> QED BY <2>1, <2>2 DEF Init, Q!Init
<1>2. KeysInv /\ [Next]_vars => [Q!Next]_Q!vars
  <2> SUFFICES ASSUME KeysInv, [Next]_vars PROVE [Q!Next]_Q!vars
    OBVIOUS
  <2>1. ASSUME NEW letter \in Letters, Press(letter) PROVE Q!Next
    BY <2>1, PressTypes
  <2>2. ASSUME NEW p \in Processes, GetKey(p) PROVE Q!Next
    BY <2>2, GetKeyReads
  <2>3. ASSUME NEW p \in Processes, Load(p) PROVE Q!Next
    BY <2>3, LoadClears
  <2>4. ASSUME NEW p \in Processes, NEW q \in Processes, Clock(p) \/ Exit(p, q)
        PROVE  Q!Next
    BY <2>4, ProgramsChange
  <2>6. ASSUME NEW p \in Processes, StartWaiting(p) PROVE UNCHANGED Q!vars
    BY <2>6, OthersStutter DEF StartWaiting
  <2>5. CASE PressCapslock \/ ReleaseOrOther \/ UNCHANGED vars
    BY <2>5, OthersStutter DEF PressCapslock, ReleaseOrOther, vars
  <2> QED BY <2>1, <2>2, <2>3, <2>4, <2>5, <2>6 DEF Next
<1> QED BY <1>1, <1>2, BuffersAreSound, PTL DEF Spec, IsQueue, Q!Spec

-----------------------------------------------------------------------------
(* The terminal                                                            *)

Characters ==
  Glyphs \cup {NewLine, Backspace, Blank} \cup Range(Prompt) \cup UNION {Range(str) : str \in Others}

(* What is printed in one call, without a backspace.                       *)
Texts == Seq(Characters \ {Backspace})

Screens == [row : 0 .. Word - 1, col : 0 .. Width - 1, video_mem : [0 .. Visible - 1 -> Characters]]

(* A screen as a sheet with a cursor.                                      *)
Sheets == [sheet : [0 .. Visible - 1 -> Characters], cursor : 0 .. Places - 1]

Sheet(t) == [sheet |-> t.video_mem, cursor |-> Position(t)]

(* The numbers of TerminalAssumption.                                      *)
LEMMA ScreenFacts ==
  /\ Width \in Nat \ {0} /\ Height \in Nat \ {0} /\ Word \in Nat \ {0} /\ Width < Word
  /\ Visible \in Nat /\ Places \in Nat \ {0} /\ Visible < Places
<1>1. Width \in Nat \ {0} /\ Height \in Nat \ {0} /\ Word \in Nat \ {0} /\ Word > Width * Height
  BY TerminalAssumption
<1>2. Width * Height >= Width /\ Width * Height \in Nat
  BY <1>1
<1>3. Word * Width >= Word /\ Word * Width \in Nat \ {0}
  BY <1>1
<1> QED BY <1>1, <1>2, <1>3 DEF Visible, Places

(* A row and a column are a place, and the other way round.                *)
LEMMA PlaceOf ==
  ASSUME NEW t \in Screens
  PROVE  /\ Position(t) \in 0 .. Places - 1
         /\ Position(t) \div Width = t.row /\ Position(t) % Width = t.col
         /\ Sheet(t) \in Sheets
<1> DEFINE r == t.row
           c == t.col
<1>1. /\ Width \in Nat \ {0} /\ Word \in Nat \ {0}
      /\ r \in 0 .. Word - 1 /\ c \in 0 .. Width - 1 /\ t.video_mem \in [0 .. Visible - 1 -> Characters]
  BY ScreenFacts DEF Screens
<1> HIDE DEF r, c
<1>2. r * Width + c \in Nat /\ r * Width + c < Word * Width
  <2>1. r + 1 <= Word
    BY <1>1
  <2>2. (r + 1) * Width <= Word * Width /\ (r + 1) * Width = r * Width + Width /\ r * Width \in Nat
    BY <1>1, <2>1
  <2>3. Word * Width \in Nat
    BY <1>1
  <2> QED BY <1>1, <2>2, <2>3
<1>3. (r * Width + c) % Width = c /\ (r * Width + c) \div Width = r
  <2>1. r * Width = Width * r
    BY <1>1
  <2>2. (Width * r + c) % Width = c
    BY <1>1, SmallRemainder
  <2>3. (Width * r + c) = Width * ((Width * r + c) \div Width) + ((Width * r + c) % Width)
    BY <1>1
  <2>4. Width * r = Width * ((Width * r + c) \div Width) /\ (Width * r + c) \div Width \in Int
    BY <1>1, <2>2, <2>3
  <2>5. r = (Width * r + c) \div Width
    BY <1>1, <2>4
  <2> QED BY <2>1, <2>2, <2>5
<1>4. Position(t) = r * Width + c
  BY DEF Position, r, c
<1>5. Position(t) \in 0 .. Places - 1
  <2>1. Word * Width \in Nat
    BY <1>1
  <2> QED BY <1>2, <1>4, <2>1 DEF Places
<1> QED BY <1>1, <1>3, <1>4, <1>5 DEF Sheets, Sheet, r, c

(* Small numbers are their remainders: no counter and no place wraps there.*)
LEMMA NoWrapAround ==
  /\ \A a, n \in Int : a + n \in 0 .. Word - 1 => Plus(a, n) = a + n
  /\ \A x \in 0 .. Places - 1 : x % Places = x
BY ScreenFacts DEF Plus

(* The row after the last one is the first.                                *)
LEMMA RowAfter ==
  ASSUME NEW r \in 0 .. Word - 1
  PROVE  /\ Plus(r, 1) \in 0 .. Word - 1
         /\ Plus(r, 1) * Width = ((r + 1) * Width) % Places
<1>1. Width \in Nat \ {0} /\ Word \in Nat \ {0} /\ Places \in Nat \ {0} /\ Places = Word * Width
  BY ScreenFacts DEF Places
<1>2. CASE r + 1 < Word
  <2>1. Plus(r, 1) = r + 1
    BY <1>1, <1>2 DEF Plus
  <2>2. (r + 1) * Width \in Nat /\ (r + 1) * Width < Places
    <3>1. (r + 2) * Width <= Word * Width /\ (r + 2) * Width = (r + 1) * Width + Width
      BY <1>1, <1>2
    <3>2. (r + 1) * Width \in Nat /\ Word * Width \in Nat
      BY <1>1
    <3> QED BY <1>1, <3>1, <3>2
  <2> QED BY <1>1, <1>2, <2>1, <2>2
<1>3. CASE r + 1 = Word
  <2>1. Plus(r, 1) = 0 /\ 0 * Width = 0
    BY <1>1, <1>3 DEF Plus
  <2>2. ((r + 1) * Width) % Places = 0
    BY <1>1, <1>3
  <2> QED BY <1>1, <2>1, <2>2
<1> QED BY <1>1, <1>2, <1>3

(* A character that is shown is put at the cursor, whether the row goes on *)
(* or not (kernel.c:78-86).                                                *)
LEMMA WriteIsPut ==
  ASSUME NEW t \in Screens, NEW c \in Characters
  PROVE  Write(t, c) \in Screens /\ Sheet(Write(t, c)) = P!Put(Sheet(t), c)
<1> DEFINE x == Position(t)
           mem == [p \in 0 .. Visible - 1 |-> IF p = x THEN c ELSE t.video_mem[p]]
           row == IF t.col + 1 = Width THEN Plus(t.row, 1) ELSE t.row
           col == IF t.col + 1 = Width THEN 0 ELSE t.col + 1
<1>1. /\ Width \in Nat \ {0} /\ Word \in Nat \ {0} /\ Width < Word /\ Places \in Nat \ {0}
      /\ Visible \in Nat
      /\ t.row \in 0 .. Word - 1 /\ t.col \in 0 .. Width - 1
      /\ t.video_mem \in [0 .. Visible - 1 -> Characters]
      /\ t = [row |-> t.row, col |-> t.col, video_mem |-> t.video_mem]
      /\ x \in 0 .. Places - 1
  BY ScreenFacts, PlaceOf DEF Screens
<1>2. x = t.row * Width + t.col
  BY DEF Position
<1>3. terminal_putchar(t, c) = [row |-> t.row, col |-> t.col, video_mem |-> mem]
  <2>1. CASE x < Visible
    <3>1. mem = [t.video_mem EXCEPT ![x] = c]
      BY <1>1
    <3>2. terminal_putchar(t, c) = [t EXCEPT !.video_mem = [t.video_mem EXCEPT ![x] = c]]
      BY <1>2, <2>1 DEF terminal_putchar
    <3> QED BY <1>1, <3>1, <3>2
  <2>2. CASE ~ x < Visible
    <3>1. mem = t.video_mem
      BY <1>1, <2>2
    <3> QED BY <1>1, <1>2, <2>2, <3>1 DEF terminal_putchar
  <2> QED BY <2>1, <2>2
<1>4. Plus(t.col, 1) = t.col + 1
  <2>1. t.col + 1 \in 0 .. Word - 1 /\ t.col \in Int /\ 1 \in Int
    BY <1>1
  <2> QED BY <2>1, NoWrapAround
<1>5. mem \in [0 .. Visible - 1 -> Characters]
  BY <1>1
<1> HIDE DEF mem
<1>6. Write(t, c) = [row |-> row, col |-> col, video_mem |-> mem]
  <2> DEFINE v == [row |-> t.row, col |-> t.col + 1, video_mem |-> mem]
  <2>1. [terminal_putchar(t, c) EXCEPT !.col = Plus(@, 1)] = v
    BY <1>3, <1>4
  <2>2. Write(t, c) = IF v.col >= Width THEN [v EXCEPT !.row = Plus(v.row, 1), !.col = 0] ELSE v
    BY <2>1, Zenon DEF Write, WrapAtEnd
  <2>3. v.col >= Width <=> t.col + 1 = Width
    BY <1>1
  <2> QED BY <2>2, <2>3
<1>7. row \in 0 .. Word - 1 /\ col \in 0 .. Width - 1
  BY <1>1, RowAfter
<1>8. row * Width + col = (x + 1) % Places
  <2>1. CASE t.col + 1 = Width
    <3>1. x + 1 = (t.row + 1) * Width
      <4>1. (t.row + 1) * Width = t.row * Width + Width
        BY <1>1
      <4> QED BY <1>1, <1>2, <2>1, <4>1
    <3>2. row * Width \in Int
      BY <1>1, <1>7
    <3> QED BY <1>1, <2>1, <3>1, <3>2, RowAfter
  <2>2. CASE t.col + 1 # Width
    <3> DEFINE u == [row |-> row, col |-> col, video_mem |-> mem]
    <3>1. u \in Screens
      BY <1>5, <1>7 DEF Screens
    <3>2. row * Width + col \in 0 .. Places - 1
      BY <3>1, PlaceOf DEF Position
    <3>3. row * Width + col = x + 1
      <4>1. t.row * Width \in Int
        BY <1>1
      <4> QED BY <1>1, <1>2, <2>2, <4>1
    <3> QED BY <3>2, <3>3, NoWrapAround
  <2> QED BY <2>1, <2>2
<1> HIDE DEF row, col, x
<1>9. Sheet(Write(t, c)) = [sheet |-> mem, cursor |-> (x + 1) % Places]
  BY <1>6, <1>8 DEF Sheet, Position
<1>10. P!Put(Sheet(t), c) = [sheet |-> mem, cursor |-> (x + 1) % Places]
  BY DEF P!Put, Sheet, mem, x
<1> QED BY <1>5, <1>6, <1>7, <1>9, <1>10 DEF Screens

(* A new line moves the cursor to the next row (kernel.c:68-72).           *)
LEMMA NewLineIsChar ==
  ASSUME NEW t \in Screens
  PROVE  /\ terminal_writechar(t, NewLine) \in Screens
         /\ Sheet(terminal_writechar(t, NewLine)) = P!Char(Sheet(t), NewLine)
<1> DEFINE u == [row |-> Plus(t.row, 1), col |-> 0, video_mem |-> t.video_mem]
<1>1. /\ Width \in Nat \ {0} /\ Places \in Nat \ {0} /\ t.row \in 0 .. Word - 1
      /\ t = [row |-> t.row, col |-> t.col, video_mem |-> t.video_mem]
      /\ t.video_mem \in [0 .. Visible - 1 -> Characters]
  BY ScreenFacts DEF Screens
<1>2. terminal_writechar(t, NewLine) = u
  BY <1>1, CharactersAssumption DEF terminal_writechar
<1>3. Plus(t.row, 1) \in 0 .. Word - 1 /\ Plus(t.row, 1) * Width = ((t.row + 1) * Width) % Places
  BY <1>1, RowAfter
<1>4. u \in Screens
  BY <1>1, <1>3 DEF Screens
<1>5. Sheet(u) = [sheet |-> t.video_mem, cursor |-> ((t.row + 1) * Width) % Places]
  <2>1. Plus(t.row, 1) * Width \in Int
    BY <1>1, <1>3
  <2> QED BY <1>3, <2>1 DEF Sheet, Position
<1>6. P!Char(Sheet(t), NewLine) = [Sheet(t) EXCEPT !.cursor = ((@ \div Width + 1) * Width) % Places]
  BY CharactersAssumption DEF P!Char
<1>7. P!Char(Sheet(t), NewLine) = [sheet |-> t.video_mem, cursor |-> ((t.row + 1) * Width) % Places]
  BY <1>6, PlaceOf DEF Sheet
<1> QED BY <1>2, <1>4, <1>5, <1>7

(* A backspace that is not in the first column blanks the place before and *)
(* leaves the cursor there; at the start of the screen it does nothing     *)
(* (kernel.c:42-62).                                                       *)
LEMMA BackspaceIsBack ==
  ASSUME NEW t \in Screens, t.col # 0 \/ t.row = 0
  PROVE  terminal_backspace(t) \in Screens /\ Sheet(terminal_backspace(t)) = P!Back(Sheet(t))
<1>1. /\ Width \in Nat \ {0} /\ Word \in Nat \ {0} /\ Width < Word /\ Places \in Nat \ {0}
      /\ t.row \in 0 .. Word - 1 /\ t.col \in 0 .. Width - 1
      /\ t.video_mem \in [0 .. Visible - 1 -> Characters]
      /\ t = [row |-> t.row, col |-> t.col, video_mem |-> t.video_mem]
      /\ Position(t) \in 0 .. Places - 1
  BY ScreenFacts, PlaceOf DEF Screens
<1>2. Position(t) = t.row * Width + t.col
  BY DEF Position
<1>3. CASE t.col = 0
  <2>1. terminal_backspace(t) = t
    BY <1>3 DEF terminal_backspace
  <2>2. Position(t) = 0
    BY <1>1, <1>2, <1>3
  <2> QED BY <2>1, <2>2 DEF P!Back, Sheet
<1>4. CASE t.col # 0
  <2> DEFINE b == [t EXCEPT !.col = t.col - 1]
             w == Write(b, Blank)
             x == Position(t)
  <2>1. Plus(t.col, -1) = t.col - 1
    <3>1. t.col + (-1) \in 0 .. Word - 1 /\ t.col \in Int /\ -1 \in Int
      BY <1>1, <1>4
    <3> QED BY <3>1, NoWrapAround
  <2>2. b = [row |-> t.row, col |-> t.col - 1, video_mem |-> t.video_mem] /\ b \in Screens
    BY <1>1, <1>4 DEF Screens
  <2>3. Position(b) = x - 1 /\ x # 0
    <3> DEFINE y == t.row * Width
    <3>1. y \in Nat /\ t.col \in Nat
      BY <1>1
    <3>2. Position(b) = y + (t.col - 1) /\ x = y + t.col
      BY <1>2, <2>2 DEF Position
    <3> HIDE DEF y, x, b
    <3> QED BY <1>4, <3>1, <3>2
  <2>4. terminal_backspace(t) = [w EXCEPT !.col = Plus(w.col, -1)]
    BY <1>4, <2>1 DEF terminal_backspace
  <2>5. w \in Screens /\ Sheet(w) = P!Put(Sheet(b), Blank)
    BY <2>2, WriteIsPut DEF Characters
  <2>6. Sheet(b) = [Sheet(t) EXCEPT !.cursor = x - 1]
    BY <1>1, <2>2, <2>3 DEF Sheet
  <2>7. P!Back(Sheet(t)) = [Sheet(w) EXCEPT !.cursor = x - 1]
    BY <2>3, <2>5, <2>6 DEF P!Back, Sheet
  <2>8. (x - 1) + 1 = x /\ x % Places = x
    BY <1>1, NoWrapAround
  <2>9. Position(w) = x
    <3>1. P!Put(Sheet(b), Blank).cursor = (Position(b) + 1) % Places
      BY DEF P!Put, Sheet
    <3> QED BY <2>3, <2>5, <2>8, <3>1 DEF Sheet
  <2> HIDE DEF w, x, b
  <2>10. w.row = t.row /\ w.col = t.col
    BY <2>5, <2>9, PlaceOf DEF x
  <2>11. [w EXCEPT !.col = Plus(w.col, -1)]
           = [row |-> t.row, col |-> t.col - 1, video_mem |-> w.video_mem]
    BY <2>1, <2>5, <2>10 DEF Screens
  <2>12. t.row * Width + (t.col - 1) = x - 1
    <3>1. t.row * Width \in Nat
      BY <1>1
    <3> QED BY <1>1, <1>2, <3>1 DEF x
  <2>13. w.video_mem \in [0 .. Visible - 1 -> Characters]
    BY <2>5 DEF Screens
  <2> QED BY <1>1, <1>4, <2>4, <2>7, <2>11, <2>12, <2>13 DEF Screens, Sheet, Position
<1> QED BY <1>3, <1>4

(* One character (kernel.c:65-87).                                         *)
LEMMA WritecharIsChar ==
  ASSUME NEW t \in Screens, NEW c \in Characters, c = Backspace => t.col # 0
  PROVE  /\ terminal_writechar(t, c) \in Screens
         /\ Sheet(terminal_writechar(t, c)) = P!Char(Sheet(t), c)
<1>1. CASE c = NewLine
  BY <1>1, NewLineIsChar
<1>2. CASE c = Backspace
  <2>1. terminal_writechar(t, c) = terminal_backspace(t) /\ P!Char(Sheet(t), c) = P!Back(Sheet(t))
    BY <1>2, CharactersAssumption DEF terminal_writechar, P!Char
  <2> QED BY <1>2, <2>1, BackspaceIsBack
<1>3. CASE c \notin {NewLine, Backspace}
  <2>1. terminal_writechar(t, c) = Write(t, c) /\ P!Char(Sheet(t), c) = P!Put(Sheet(t), c)
    BY <1>3 DEF terminal_writechar, P!Char
  <2> QED BY <2>1, WriteIsPut
<1> QED BY <1>1, <1>2, <1>3

(* print goes from one character to the next (kernel.c:100-106).           *)
LEMMA PrintSteps ==
  ASSUME NEW t \in Screens, NEW str \in Texts
  PROVE  \E f : /\ f[0] = t /\ print(t, str) = f[Len(str)]
                /\ \A k \in 0 .. Len(str) : f[k] \in Screens
                /\ \A k \in 1 .. Len(str) : f[k] = terminal_writechar(f[k - 1], str[k])
<1> DEFINE n == Len(str)
           Step(v, k) == terminal_writechar(v, str[k])
           Body(g) == [k \in 0 .. n |-> IF k = 0 THEN t ELSE Step(g[k - 1], k)]
           after == CHOOSE g : g = Body(g)
           step == [k \in 1 .. n |-> [v \in Screens |-> Step(v, k)]]
<1>1. n \in Nat /\ \A k \in 1 .. n : str[k] \in Characters \ {Backspace}
  BY DEF Texts
<1>2. print(t, str) = after[n]
  BY DEF print
<1>3. ASSUME NEW v \in Screens, NEW k \in 1 .. n PROVE Step(v, k) \in Screens
  BY <1>1, <1>3, WritecharIsChar
<1> HIDE DEF n, Step
<1>4. \A k \in 1 .. n : \A v \in Screens : step[k][v] = Step(v, k) /\ step[k][v] \in Screens
  BY <1>3
<1> HIDE DEF step
<1>5. PICK g : Iterates(g, n, t, step) /\ \A k \in 0 .. n : g[k] \in Screens
  <2>1. \A k \in 1 .. n : \A v \in Screens : step[k][v] \in Screens
    BY <1>4
  <2>2. t \in Screens /\ n \in Nat
    BY <1>1
  <2> QED BY <2>1, <2>2, Iteration, Zenon
<1>6. g = [k \in 0 .. n |-> IF k = 0 THEN t ELSE step[k][g[k - 1]]]
  BY <1>5 DEF Iterates
<1>7. ASSUME NEW k \in 0 .. n
      PROVE  (IF k = 0 THEN t ELSE step[k][g[k - 1]]) = IF k = 0 THEN t ELSE Step(g[k - 1], k)
  <2>1. k # 0 => k \in 1 .. n /\ k - 1 \in 0 .. n /\ g[k - 1] \in Screens
    BY <1>1, <1>5
  <2> QED BY <1>4, <2>1
<1>8. g = Body(g)
  BY <1>6, <1>7, Zenon
<1>9. after = Body(after)
  <2> HIDE DEF Body
  <2> QED BY <1>8
<1> HIDE DEF after
<1>10. \A k \in 0 .. n : after[k] = IF k = 0 THEN t ELSE Step(after[k - 1], k)
  <2>1. \A k \in 0 .. n : Body(after)[k] = IF k = 0 THEN t ELSE Step(after[k - 1], k)
    OBVIOUS
  <2> HIDE DEF Body
  <2> QED BY <1>9, <2>1
<1> HIDE DEF Body
<1> DEFINE inv == [k \in 0 .. n |-> Screens]
<1>11. \A k \in 0 .. n : after[k] \in inv[k]
  <2>1. after[0] \in inv[0]
    BY <1>1, <1>10
  <2>2. ASSUME NEW k \in 1 .. n, after[k - 1] \in inv[k - 1] PROVE after[k] \in inv[k]
    <3>1. k - 1 \in 0 .. n /\ k \in 0 .. n /\ k # 0
      BY <1>1
    <3>2. after[k - 1] \in Screens /\ after[k] = Step(after[k - 1], k)
      BY <1>10, <2>2, <3>1
    <3> QED BY <1>3, <3>1, <3>2
  <2> HIDE DEF inv
  <2> QED BY <1>1, <2>1, <2>2, Stepwise
<1>12. \A k \in 0 .. n : after[k] \in Screens
  BY <1>11
<1>13. after[0] = t /\ \A k \in 1 .. n : after[k] = Step(after[k - 1], k)
  BY <1>1, <1>10
<1> QED BY <1>2, <1>12, <1>13 DEF n, Step

(* What is printed on the screen is printed on the page.                   *)
LEMMA PrintIsPrinted ==
  ASSUME term \in Screens, NEW str \in Texts, term' = print(term, str)
  PROVE  term' \in Screens /\ P!Printed(str)
<1> DEFINE n == Len(str)
           Step(v, k) == P!Char(v, str[k])
           Body(g) == [k \in 0 .. n |-> IF k = 0 THEN Sheet(term) ELSE Step(g[k - 1], k)]
           after == CHOOSE g : g = Body(g)
<1>1. n \in Nat /\ \A k \in 1 .. n : str[k] \in Characters \ {Backspace}
  BY DEF Texts
<1>2. PICK f : /\ f[0] = term /\ term' = f[n]
               /\ \A k \in 0 .. n : f[k] \in Screens
               /\ \A k \in 1 .. n : f[k] = terminal_writechar(f[k - 1], str[k])
  BY PrintSteps
<1>3. term' \in Screens
  BY <1>1, <1>2
<1>4. P!Printed(str) <=> /\ (term.video_mem)' = after[n].sheet
                         /\ Position(term)' = after[n].cursor
  BY DEF P!Printed, Sheet
<1>5. Position(term)' = Position(term') /\ (term.video_mem)' = term'.video_mem
  BY DEF Position
<1> DEFINE shown == [k \in 0 .. n |-> Sheet(f[k])]
<1>6. ASSUME NEW k \in 1 .. n PROVE Sheet(f[k]) = Step(Sheet(f[k - 1]), k)
  <2>1. k - 1 \in 0 .. n /\ f[k - 1] \in Screens /\ f[k] = terminal_writechar(f[k - 1], str[k])
    BY <1>1, <1>2
  <2>2. str[k] \in Characters /\ str[k] # Backspace
    BY <1>1
  <2> QED BY <2>1, <2>2, WritecharIsChar
<1> HIDE DEF n, Step
<1>7. shown = Body(shown)
  <2>1. ASSUME NEW k \in 0 .. n
        PROVE  Sheet(f[k]) = IF k = 0 THEN Sheet(term) ELSE Step(shown[k - 1], k)
    <3>1. k # 0 => k \in 1 .. n /\ k - 1 \in 0 .. n
      BY <1>1
    <3> QED BY <1>2, <1>6, <3>1
  <2> QED BY <2>1
<1> HIDE DEF shown
<1>8. after = Body(after)
  <2> HIDE DEF Body
  <2> QED BY <1>7
<1> HIDE DEF after
<1>9. \A k \in 0 .. n : after[k] = IF k = 0 THEN Sheet(term) ELSE Step(after[k - 1], k)
  <2>1. \A k \in 0 .. n : Body(after)[k] = IF k = 0 THEN Sheet(term) ELSE Step(after[k - 1], k)
    OBVIOUS
  <2> HIDE DEF Body
  <2> QED BY <1>8, <2>1
<1> HIDE DEF Body
<1> DEFINE inv == [k \in 0 .. n |-> {Sheet(f[k])}]
<1>10. \A k \in 0 .. n : after[k] \in inv[k]
  <2>1. after[0] \in inv[0]
    BY <1>1, <1>2, <1>9
  <2>2. ASSUME NEW k \in 1 .. n, after[k - 1] \in inv[k - 1] PROVE after[k] \in inv[k]
    <3>1. k - 1 \in 0 .. n /\ k \in 0 .. n /\ k # 0
      BY <1>1
    <3>2. after[k - 1] = Sheet(f[k - 1]) /\ after[k] = Step(after[k - 1], k)
      BY <1>9, <2>2, <3>1
    <3> QED BY <1>6, <3>1, <3>2
  <2> HIDE DEF inv
  <2> QED BY <1>1, <2>1, <2>2, Stepwise
<1>11. after[n] = Sheet(term')
  BY <1>1, <1>2, <1>10
<1> QED BY <1>3, <1>4, <1>5, <1>11 DEF Sheet

(* A character on its own.                                                 *)
LEMMA OneIsPrinted ==
  ASSUME term \in Screens, NEW c \in Characters, c = Backspace => term.col # 0,
         term' = terminal_writechar(term, c)
  PROVE  /\ term' \in Screens /\ P!Printed(<<c>>)
         /\ Sheet(term') = P!Char(Sheet(term), c)
<1> DEFINE str == <<c>>
           Body(g) == [k \in 0 .. 1 |-> IF k = 0 THEN Sheet(term) ELSE P!Char(g[k - 1], str[k])]
           after == CHOOSE g : g = Body(g)
           both == [k \in 0 .. 1 |-> IF k = 0 THEN Sheet(term) ELSE P!Char(Sheet(term), c)]
<1>1. term' \in Screens /\ Sheet(term') = P!Char(Sheet(term), c)
  BY WritecharIsChar
<1>2. Len(str) = 1 /\ str[1] = c
  OBVIOUS
<1>3. P!Printed(str) <=> /\ (term.video_mem)' = after[1].sheet
                         /\ Position(term)' = after[1].cursor
  BY <1>2 DEF P!Printed, Sheet
<1>4. Position(term)' = Position(term') /\ (term.video_mem)' = term'.video_mem
  BY DEF Position
<1>5. both = Body(both)
  BY <1>2
<1>6. after = Body(after)
  <2> HIDE DEF Body
  <2> QED BY <1>5
<1> HIDE DEF after
<1>7. after[0] = Sheet(term) /\ after[1] = P!Char(Sheet(term), c)
  <2>1. Body(after)[0] = Sheet(term) /\ Body(after)[1] = P!Char(after[0], str[1])
    OBVIOUS
  <2> HIDE DEF Body
  <2> QED BY <1>2, <1>6, <2>1
<1> QED BY <1>1, <1>3, <1>4, <1>7 DEF Sheet

-----------------------------------------------------------------------------
(* What is printed                                                         *)

(* The screen is empty at first.                                           *)
LEMMA ScreenInit == ShellInit => term \in Screens /\ P!Init
<1> SUFFICES ASSUME ShellInit PROVE term \in Screens /\ P!Init
  OBVIOUS
<1>1. term = [row |-> 0, col |-> 0, video_mem |-> [x \in 0 .. Visible - 1 |-> Blank]]
  BY DEF ShellInit, terminal_initialize
<1>2. Blank \in Characters /\ 0 \in 0 .. Word - 1 /\ 0 \in 0 .. Width - 1
  BY ScreenFacts DEF Characters
<1>3. term \in Screens
  BY <1>1, <1>2 DEF Screens
<1>4. Position(term) = 0
  BY <1>1, ScreenFacts DEF Position
<1> QED BY <1>1, <1>3, <1>4 DEF P!Init

(* What the shell and the others print is without a backspace, but for the *)
(* key that is echoed.                                                     *)
LEMMA TextFacts ==
  ASSUME BackspacesFit
  PROVE  /\ Prompt \in Texts /\ <<NewLine>> \in Texts
         /\ \A str \in Others : str \in Texts
         /\ Glyphs \cup {Backspace} \subseteq Characters
<1>1. Prompt \in Texts
  <2>1. Prompt \in Seq(Range(Prompt) \ {Backspace})
    BY CharactersAssumption
  <2>2. Range(Prompt) \ {Backspace} \subseteq Characters \ {Backspace}
    BY DEF Characters
  <2> QED BY <2>1, <2>2 DEF Texts
<1>2. <<NewLine>> \in Texts
  BY CharactersAssumption DEF Texts, Characters
<1>3. ASSUME NEW str \in Others PROVE str \in Texts
  <2>1. str \in Seq(Range(str)) /\ Backspace \notin Range(str)
    BY CharactersAssumption DEF BackspacesFit
  <2>2. Range(str) \subseteq Characters \ {Backspace}
    BY <2>1 DEF Characters
  <2> QED BY <2>1, <2>2 DEF Texts
<1> QED BY <1>1, <1>2, <1>3 DEF Characters

(* A step of the shell or of another program prints a text, echoes a key   *)
(* or leaves the screen.                                                   *)
LEMMA StepPrints ==
  ASSUME BackspacesFit, term \in Screens, [ShellNext]_shell
  PROVE  term' \in Screens /\ [P!Next]_P!vars
<1>1. ASSUME NEW str \in Strings, str \in Texts, term' = print(term, str)
      PROVE  term' \in Screens /\ P!Next
  BY <1>1, PrintIsPrinted DEF P!Next
<1>2. ASSUME NEW c \in Glyphs \cup {Backspace}, c = Backspace => term.col # 0,
             term' = terminal_writechar(term, c)
      PROVE  term' \in Screens /\ P!Next
  <2>1. <<c>> \in Strings
    BY DEF Strings
  <2>2. c \in Characters
    BY TextFacts
  <2> QED BY <1>2, <2>1, <2>2, OneIsPrinted DEF P!Next
<1>3. ASSUME UNCHANGED term PROVE term' \in Screens /\ UNCHANGED P!vars
  BY <1>3 DEF P!vars, Position
<1>4. CASE PrintPrompt
  BY <1>1, <1>4, TextFacts DEF PrintPrompt, Strings
<1>5. CASE EndLine \/ EndCommand
  BY <1>1, <1>5, TextFacts DEF EndLine, EndCommand, Strings
<1>6. ASSUME NEW str \in Others, OtherPrints(str) PROVE term' \in Screens /\ P!Next
  BY <1>1, <1>6, TextFacts DEF OtherPrints, Strings
<1>7. ASSUME NEW key \in Glyphs, ReadGlyph(key) PROVE term' \in Screens /\ P!Next
  BY <1>2, <1>7, CharactersAssumption DEF ReadGlyph, Echo
<1>8. CASE ReadBackspace
  BY <1>2, <1>8 DEF ReadBackspace, Echo, BackspacesFit
<1>9. CASE Run \/ ReadReturn \/ UNCHANGED shell
  BY <1>3, <1>9 DEF Run, ReadReturn, shell, screen
<1> QED BY <1>4, <1>5, <1>6, <1>7, <1>8, <1>9 DEF ShellNext

(* The row, the column and video memory are a sheet with a cursor, however *)
(* the prints of the shell and of other programs alternate, while no       *)
(* backspace comes in the first column (kernel.c:42-106).                  *)
THEOREM PrintsOnPage ==
  ASSUME BackspacesFit PROVE ShellSpec => Prints
<1>1. ShellInit => term \in Screens /\ P!Init
  BY ScreenInit
<1>2. term \in Screens /\ [ShellNext]_shell => (term \in Screens)' /\ [P!Next]_P!vars
  BY StepPrints
<1> QED BY <1>1, <1>2, PTL DEF ShellSpec, Prints, P!Spec

-----------------------------------------------------------------------------
(* The line                                                                *)

(* The buffer holds the keys typed, one less than it has room for; what is *)
(* taken back is not in it.                                                *)
LineOK ==
  /\ pc \in {"prompt", "read", "newline", "run", "ran"}
  /\ buf \in [0 .. MaxLine - 1 -> Glyphs \cup {Nul, Backspace}]
  /\ index \in 0 .. MaxLine - 1
  /\ pc = "read" => index < MaxLine - 1
  /\ pc \in {"newline", "run"} => buf[index] = Nul
  /\ pc = "prompt" => typed = <<>>
  /\ pc # "prompt" /\ plain => typed \in Seq(Glyphs) /\ typed = [k \in 1 .. index |-> buf[k - 1]]

(* No line is read yet.                                                    *)
LEMMA LineInit == ShellInit => LineOK
<1> SUFFICES ASSUME ShellInit PROVE LineOK
  OBVIOUS
<1>1. MaxLine \in Nat /\ MaxLine >= 2
  BY LineAssumption
<1>2. buf = [x \in 0 .. MaxLine - 1 |-> Nul] /\ index = 0 /\ pc = "prompt" /\ typed = <<>>
  BY DEF ShellInit
<1> QED BY <1>1, <1>2 DEF LineOK

(* A key that is shown goes to the end of the line (plumos.c:91-106).      *)
LEMMA KeyIsStored ==
  ASSUME LineOK, NEW key \in Glyphs, ReadGlyph(key)
  PROVE  LineOK' /\ index' = index + 1 /\ \A k \in 0 .. index - 1 : buf'[k] = buf[k]
<1>1. /\ MaxLine \in Nat /\ pc = "read" /\ index \in 0 .. MaxLine - 1 /\ index < MaxLine - 1
      /\ buf \in [0 .. MaxLine - 1 -> Glyphs \cup {Nul, Backspace}]
      /\ typed' = Append(typed, key) /\ plain' = plain /\ index' = index + 1
  BY LineAssumption DEF LineOK, ReadGlyph, Store
<1>2. \/ /\ index + 1 = MaxLine - 1 /\ pc' = "newline"
         /\ buf' = [buf EXCEPT ![index] = key, ![index + 1] = Nul]
      \/ /\ index + 1 # MaxLine - 1 /\ pc' = "read"
         /\ buf' = [buf EXCEPT ![index] = key]
  BY DEF ReadGlyph, Store
<1>3. /\ buf' \in [0 .. MaxLine - 1 -> Glyphs \cup {Nul, Backspace}] /\ index' \in 0 .. MaxLine - 1
      /\ buf'[index] = key /\ \A k \in 0 .. index - 1 : buf'[k] = buf[k]
      /\ pc' = "newline" => buf'[index'] = Nul
      /\ pc' = "read" => index' < MaxLine - 1
      /\ pc' \in {"read", "newline"}
  BY <1>1, <1>2
<1>4. ASSUME plain PROVE typed' \in Seq(Glyphs) /\ typed' = [k \in 1 .. index' |-> buf'[k - 1]]
  <2>1. typed \in Seq(Glyphs) /\ typed = [k \in 1 .. index |-> buf[k - 1]] /\ Len(typed) = index
    BY <1>1, <1>4 DEF LineOK
  <2>2. Append(typed, key) = [k \in 1 .. index + 1 |-> IF k = index + 1 THEN key ELSE typed[k]]
    <3>1. Append(typed, key)
            = [k \in 1 .. Len(typed) + 1 |-> IF k = Len(typed) + 1 THEN key ELSE typed[k]]
      <4>1. typed \in Seq(Glyphs)
        BY <2>1, Zenon
      <4> QED BY <4>1, AppendIs
    <3> QED BY <2>1, <3>1, Zenon
  <2>3. ASSUME NEW k \in 1 .. index + 1
        PROVE  (IF k = index + 1 THEN key ELSE typed[k]) = buf'[k - 1]
    <3>1. k # index + 1 => k \in 1 .. index /\ k - 1 \in 0 .. index - 1
      BY <1>1
    <3>2. k = index + 1 => k - 1 = index
      BY <1>1
    <3> QED BY <1>3, <2>1, <3>1, <3>2
  <2>4. typed' \in Seq(Glyphs)
    BY <1>1, <2>1
  <2>5. [k \in 1 .. index + 1 |-> IF k = index + 1 THEN key ELSE typed[k]]
          = [k \in 1 .. index + 1 |-> buf'[k - 1]]
    BY <2>3, Zenon
  <2> QED BY <1>1, <2>2, <2>4, <2>5, Zenon
<1> QED BY <1>1, <1>3, <1>4 DEF LineOK

(* A backspace takes back the key before it; on an empty line it is stored *)
(* itself, and the line is no longer what was typed (plumos.c:97-105).     *)
LEMMA KeyIsTakenBack ==
  ASSUME LineOK, ReadBackspace
  PROVE  /\ LineOK'
         /\ plain' => /\ plain /\ pc' = "read" /\ index >= 1 /\ index' = index - 1
                      /\ \A k \in 0 .. index - 2 : buf'[k] = buf[k]
<1>1. /\ MaxLine \in Nat /\ pc = "read" /\ index \in 0 .. MaxLine - 1 /\ index < MaxLine - 1
      /\ buf \in [0 .. MaxLine - 1 -> Glyphs \cup {Nul, Backspace}]
  BY LineAssumption DEF LineOK, ReadBackspace
<1>2. CASE index >= 1
  <2>1. /\ buf' = [buf EXCEPT ![index - 1] = Nul] /\ index' = index - 1 /\ typed' = Front(typed)
        /\ plain' = plain /\ pc' = pc
    BY <1>1, <1>2 DEF ReadBackspace, StepBack
  <2>2. /\ buf' \in [0 .. MaxLine - 1 -> Glyphs \cup {Nul, Backspace}] /\ index' \in 0 .. MaxLine - 1
        /\ index' < MaxLine - 1 /\ \A k \in 0 .. index - 2 : buf'[k] = buf[k]
    BY <1>1, <1>2, <2>1
  <2>3. ASSUME plain PROVE typed' \in Seq(Glyphs) /\ typed' = [k \in 1 .. index' |-> buf'[k - 1]]
    <3>1. typed \in Seq(Glyphs) /\ typed = [k \in 1 .. index |-> buf[k - 1]] /\ Len(typed) = index
      BY <1>1, <2>3 DEF LineOK
    <3>2. typed' = [k \in 1 .. index - 1 |-> typed[k]]
      BY <1>1, <1>2, <2>1, <3>1 DEF Front
    <3>3. ASSUME NEW k \in 1 .. index - 1 PROVE typed[k] = buf'[k - 1] /\ typed[k] \in Glyphs
      <4>1. k \in 1 .. index /\ k - 1 \in 0 .. index - 2
        BY <1>1
      <4>2. typed[k] = buf[k - 1]
        BY <3>1, <4>1, Zenon
      <4>4. typed[k] \in Glyphs
        <5>1. typed \in Seq(Glyphs)
          BY <3>1, Zenon
        <5>2. typed \in [1 .. Len(typed) -> Glyphs]
          BY <5>1
        <5> QED BY <3>1, <4>1, <5>2, Zenon
      <4>3. buf'[k - 1] = buf[k - 1]
        BY <2>2, <4>1
      <4> QED BY <4>2, <4>3, <4>4, Zenon
    <3>4. index - 1 \in Nat
      BY <1>1, <1>2
    <3> QED BY <2>1, <3>2, <3>3, <3>4
  <2> QED BY <1>1, <1>2, <2>1, <2>2, <2>3 DEF LineOK
<1>3. CASE index = 0
  <2>1. ~ plain' /\ index' = 1 /\ pc' \in {"read", "newline"}
    BY <1>1, <1>3 DEF ReadBackspace, Store
  <2>2. \/ /\ 1 = MaxLine - 1 /\ pc' = "newline"
           /\ buf' = [buf EXCEPT ![0] = Backspace, ![1] = Nul]
        \/ /\ 1 # MaxLine - 1 /\ pc' = "read" /\ buf' = [buf EXCEPT ![0] = Backspace]
    BY <1>1, <1>3 DEF ReadBackspace, Store
  <2> QED BY <1>1, <1>3, <2>1, <2>2 DEF LineOK
<1> QED BY <1>1, <1>2, <1>3

(* The rest of main leaves the line or ends it (shell.c).                  *)
LEMMA LineStep ==
  ASSUME LineOK, [ShellNext]_shell PROVE LineOK'
<1>0. MaxLine \in Nat /\ MaxLine >= 2
  BY LineAssumption
<1>1. CASE PrintPrompt
  <2>1. [k \in 1 .. 0 |-> buf[k - 1]] = <<>>
    OBVIOUS
  <2> QED BY <1>0, <1>1, <2>1 DEF PrintPrompt, LineOK
<1>2. CASE ReadReturn
  <2>1. pc = "read" /\ pc' = "newline" /\ buf' = [buf EXCEPT ![index] = Nul]
        /\ index' = index /\ typed' = typed /\ plain' = plain
    BY <1>2 DEF ReadReturn
  <2>2. ASSUME plain PROVE typed' \in Seq(Glyphs) /\ typed' = [k \in 1 .. index' |-> buf'[k - 1]]
    <3>1. ASSUME NEW k \in 1 .. index PROVE buf'[k - 1] = buf[k - 1]
      BY <1>0, <2>1 DEF LineOK
    <3> QED BY <2>1, <2>2, <3>1 DEF LineOK
  <2> QED BY <1>0, <2>1, <2>2 DEF LineOK
<1>3. ASSUME NEW key \in Glyphs, ReadGlyph(key) PROVE LineOK'
  BY <1>3, KeyIsStored
<1>4. CASE ReadBackspace
  BY <1>4, KeyIsTakenBack
<1>5. CASE EndLine
  BY <1>5 DEF EndLine, line, LineOK
<1>6. CASE Run
  BY <1>6 DEF Run, line, LineOK
<1>7. CASE EndCommand
  BY <1>7 DEF EndCommand, LineOK
<1>8. ASSUME NEW str \in Others, OtherPrints(str) PROVE LineOK'
  BY <1>8 DEF OtherPrints, line, LineOK
<1>9. CASE UNCHANGED shell
  BY <1>9 DEF shell, line, LineOK
<1> QED BY <1>1, <1>2, <1>3, <1>4, <1>5, <1>6, <1>7, <1>8, <1>9 DEF ShellNext

(* What the screen shows of the line, with where it starts.                *)
LineShown ==
  /\ term \in Screens
  /\ LineOK
  /\ start \in 0 .. Places - 1
  /\ ShowsLine

(* The line is not longer than the sheet: its characters have places of    *)
(* their own.                                                              *)
LEMMA OwnPlaces ==
  ASSUME NEW h \in Int, NEW j \in 0 .. Places - 1, NEW k \in 0 .. Places - 1
  PROVE  /\ (h + k) % Places \in 0 .. Places - 1
         /\ j # k => (h + j) % Places # (h + k) % Places
<1>1. Places \in Nat \ {0}
  BY ScreenFacts
<1> HIDE DEF Places
<1>2. /\ (h + k) % Places \in 0 .. Places - 1
      /\ (((h + j) % Places) - h) % Places = j /\ (((h + k) % Places) - h) % Places = k
  BY <1>1, Around
<1> QED BY <1>2

(* The key that is echoed stands where the cursor was (plumos.c:93).       *)
LEMMA KeyIsShown ==
  ASSUME BackspacesFit, LineShown, NEW key \in Glyphs, ReadGlyph(key)
  PROVE  ShowsLine'
<1> SUFFICES ASSUME pc = "read", alone, plain
             PROVE  /\ Position(term') = (start + index') % Places
                    /\ \A k \in 0 .. index' - 1 :
                         LET x == (start + k) % Places
                         IN  x < Visible => term'.video_mem[x] = buf'[k]
  BY DEF ShowsLine, ReadGlyph, Echo, Position
<1> DEFINE x == Position(term)
<1>1. /\ MaxLine \in Nat /\ MaxLine <= Places /\ index \in 0 .. MaxLine - 1 /\ index' = index + 1
      /\ start \in 0 .. Places - 1 /\ Places \in Nat \ {0} /\ Visible \in Nat
      /\ \A k \in 0 .. index - 1 : buf'[k] = buf[k]
  BY LineAssumption, ScreenFacts, KeyIsStored DEF LineShown, LineOK, Places
<1>2. x = (start + index) % Places
  BY DEF LineShown, ShowsLine
<1>3. Sheet(term') = P!Put(Sheet(term), key)
  <2>1. key \in Characters /\ key \notin {NewLine, Backspace}
    BY CharactersAssumption DEF Characters
  <2>2. Sheet(term') = P!Char(Sheet(term), key)
    BY <2>1, OneIsPrinted DEF LineShown, ReadGlyph, Echo
  <2> QED BY <2>1, <2>2 DEF P!Char
<1>4. /\ Position(term') = (x + 1) % Places
      /\ term'.video_mem = [p \in 0 .. Visible - 1 |-> IF p = x THEN key ELSE term.video_mem[p]]
  BY <1>3 DEF P!Put, Sheet
<1>5. buf'[index] = key
  <2>1. index \in 0 .. MaxLine - 1 /\ index + 1 # index /\ buf \in [0 .. MaxLine - 1 -> Glyphs \cup {Nul, Backspace}]
    BY <1>1 DEF LineShown, LineOK
  <2> QED BY <2>1 DEF ReadGlyph, Store
<1> HIDE DEF x, Places, Visible
<1>6. Position(term') = (start + index') % Places
  <2>1. start + index \in Int /\ (start + index) + 1 = start + index'
    BY <1>1
  <2>2. (((start + index) % Places) + 1) % Places = ((start + index) + 1) % Places
    <3> DEFINE d == start + index
    <3>1. d \in Int /\ Places \in Nat \ {0} /\ 1 \in Int
      BY <1>1, <2>1
    <3> HIDE DEF d
    <3>2. ((d % Places) + 1) % Places = (d + 1) % Places
      BY <3>1, RemainderOfSum
    <3> QED BY <3>2 DEF d
  <2> QED BY <1>2, <1>4, <2>1, <2>2
<1>7. ASSUME NEW k \in 0 .. index' - 1, (start + k) % Places < Visible
      PROVE  term'.video_mem[(start + k) % Places] = buf'[k]
  <2> DEFINE y == (start + k) % Places
  <2>1. k \in 0 .. Places - 1 /\ index \in 0 .. Places - 1 /\ start \in Int /\ k \in 0 .. index
    BY <1>1
  <2>2. y \in 0 .. Places - 1 /\ (k # index => y # x)
    BY <1>2, <2>1, OwnPlaces
  <2>3. y \in 0 .. Visible - 1
    BY <1>1, <1>7, <2>2
  <2>4. CASE k = index
    BY <1>2, <1>4, <1>5, <2>3, <2>4
  <2>5. CASE k # index
    <3>1. k \in 0 .. index - 1
      BY <1>1, <2>1, <2>5
    <3>2. term.video_mem[y] = buf[k]
      BY <1>7, <3>1 DEF LineShown, ShowsLine
    <3>3. term'.video_mem[y] = term.video_mem[y]
      BY <1>4, <2>2, <2>3, <2>5
    <3> QED BY <1>1, <3>1, <3>2, <3>3
  <2> QED BY <2>4, <2>5
<1> QED BY <1>6, <1>7

(* The character that is taken back is blanked, and the cursor is before   *)
(* it (plumos.c:97-102).                                                   *)
LEMMA BackspaceIsShown ==
  ASSUME BackspacesFit, LineShown, ReadBackspace
  PROVE  ShowsLine'
<1> SUFFICES ASSUME alone, plain'
             PROVE  /\ Position(term') = (start + index') % Places
                    /\ \A k \in 0 .. index' - 1 :
                         LET x == (start + k) % Places
                         IN  x < Visible => term'.video_mem[x] = buf'[k]
  BY DEF ShowsLine, ReadBackspace, Echo, Position
<1> DEFINE x == Position(term)
<1>1. /\ MaxLine \in Nat /\ MaxLine <= Places /\ index \in 0 .. MaxLine - 1
      /\ start \in 0 .. Places - 1 /\ Places \in Nat \ {0} /\ Visible \in Nat
      /\ plain /\ index >= 1 /\ index' = index - 1
      /\ \A k \in 0 .. index - 2 : buf'[k] = buf[k]
  BY LineAssumption, ScreenFacts, KeyIsTakenBack DEF LineShown, LineOK, Places
<1>2. pc = "read" /\ term.col # 0 /\ term \in Screens
  BY DEF ReadBackspace, BackspacesFit, LineShown
<1>3. x = (start + index) % Places
  BY <1>1, <1>2 DEF LineShown, ShowsLine
<1>4. x # 0 /\ x \in 0 .. Places - 1
  <2>1. 0 % Width = 0
    BY ScreenFacts
  <2> QED BY <1>2, <2>1, PlaceOf
<1>5. Sheet(term') = P!Back(Sheet(term))
  <2>1. Backspace \in Characters
    BY DEF Characters
  <2>2. Sheet(term') = P!Char(Sheet(term), Backspace)
    BY <1>2, <2>1, OneIsPrinted DEF ReadBackspace, Echo
  <2> QED BY <2>2, CharactersAssumption DEF P!Char
<1>6. /\ Position(term') = x - 1
      /\ term'.video_mem = [p \in 0 .. Visible - 1 |-> IF p = x - 1 THEN Blank ELSE term.video_mem[p]]
  BY <1>4, <1>5 DEF P!Back, P!Put, Sheet
<1> HIDE DEF x, Places, Visible
<1>7. Position(term') = (start + index') % Places
  <2>1. start + index \in Int /\ (start + index) - 1 = start + index'
    BY <1>1
  <2>2. ((start + index) - 1) % Places = ((start + index) % Places) - 1
    BY <1>1, <1>3, <1>4, <2>1, OneLess
  <2> QED BY <1>3, <1>6, <2>1, <2>2
<1>8. ASSUME NEW k \in 0 .. index' - 1, (start + k) % Places < Visible
      PROVE  term'.video_mem[(start + k) % Places] = buf'[k]
  <2> DEFINE y == (start + k) % Places
  <2>1. /\ k \in 0 .. Places - 1 /\ index' \in 0 .. Places - 1 /\ start \in Int /\ k # index'
        /\ k \in 0 .. index - 2 /\ k \in 0 .. index - 1
    BY <1>1
  <2>2. y \in 0 .. Places - 1 /\ y # x - 1
    BY <1>6, <1>7, <2>1, OwnPlaces
  <2>3. y \in 0 .. Visible - 1
    BY <1>1, <1>8, <2>2
  <2>4. term.video_mem[y] = buf[k]
    BY <1>1, <1>2, <1>8, <2>1 DEF LineShown, ShowsLine
  <2>5. term'.video_mem[y] = term.video_mem[y]
    BY <1>6, <2>2, <2>3
  <2> QED BY <1>1, <2>1, <2>4, <2>5
<1> QED BY <1>7, <1>8

(* The line is shown from its prompt on; what another program prints ends  *)
(* that (plumos.c:70-110, shell.c:41-45).                                  *)
LEMMA LineShownStep ==
  ASSUME BackspacesFit, LineShown, [ShellNext]_shell
  PROVE  LineShown'
<1>1. (term \in Screens)' /\ LineOK'
  BY StepPrints, LineStep DEF LineShown
<1>2. (start \in 0 .. Places - 1)' /\ ShowsLine'
  <2>1. CASE PrintPrompt
    <3>1. start' = Position(term') /\ index' = 0 /\ start' \in 0 .. Places - 1
      BY <1>1, <2>1, PlaceOf DEF PrintPrompt
    <3>2. (start' + 0) % Places = start'
      BY <3>1, NoWrapAround
    <3> QED BY <3>1, <3>2 DEF ShowsLine, Position
  <2>2. ASSUME NEW key \in Glyphs, ReadGlyph(key) PROVE start' = start /\ ShowsLine'
    BY <2>2, KeyIsShown DEF ReadGlyph, Echo
  <2>3. CASE ReadBackspace
    BY <2>3, BackspaceIsShown DEF ReadBackspace, Echo, LineShown
  <2>4. CASE ReadReturn \/ EndLine
    BY <2>4 DEF ReadReturn, EndLine, screen, ShowsLine, LineShown
  <2>5. CASE Run
    BY <2>5 DEF Run, screen, ShowsLine, LineShown
  <2>6. CASE EndCommand
    BY <2>6, ScreenFacts DEF EndCommand, ShowsLine
  <2>7. ASSUME NEW str \in Others, OtherPrints(str) PROVE start' = start /\ ShowsLine'
    BY <2>7 DEF OtherPrints, ShowsLine
  <2>8. CASE UNCHANGED shell
    BY <2>8 DEF shell, line, screen, ShowsLine, LineShown, Position
  <2> QED BY <2>1, <2>2, <2>3, <2>4, <2>5, <2>6, <2>7, <2>8 DEF ShellNext, LineShown
<1> QED BY <1>1, <1>2 DEF LineShown

(* While nobody else prints, the screen shows the line as it will be run,  *)
(* with the cursor after it, however long the line is and however often it *)
(* is corrected, while no backspace comes in the first column              *)
(* (plumos.c:70-110, kernel.c:42-87).                                      *)
THEOREM LineIsShown ==
  ASSUME BackspacesFit PROVE ShellSpec => []ShowsLine
<1>1. ShellInit => LineShown
  <2> SUFFICES ASSUME ShellInit PROVE LineShown
    OBVIOUS
  <2>1. start = 0 /\ pc = "prompt" /\ 0 \in 0 .. Places - 1
    BY ScreenFacts DEF ShellInit
  <2> QED BY <2>1, ScreenInit, LineInit DEF LineShown, ShowsLine
<1>2. LineShown /\ [ShellNext]_shell => LineShown'
  BY LineShownStep
<1>3. LineShown => ShowsLine
  BY DEF LineShown
<1> QED BY <1>1, <1>2, <1>3, PTL DEF ShellSpec

-----------------------------------------------------------------------------
(* The words of the line                                                   *)

Keys == Glyphs \cup {Nul, Backspace}

(* Cells of scommand: its last one is never written (plumos.c:12-18).      *)
Commands == {cells \in [0 .. MaxLine -> Keys] : cells[MaxLine] = Nul}

(* The token after `from' is in the cells p .. e - 1.                      *)
Finds(cells, from, p, e) ==
  /\ p \in from .. MaxLine /\ e \in p + 1 .. MaxLine
  /\ \A x \in from .. p - 1 : cells[x] = Space
  /\ \A x \in p .. e - 1 : cells[x] \notin {Space, Nul}
  /\ cells[e] \in {Space, Nul}

NoToken(cells, from) ==
  \E p \in from .. MaxLine : cells[p] = Nul /\ \A x \in from .. p - 1 : cells[x] = Space

Found(cells, p, e) ==
  [cells |-> [cells EXCEPT ![e] = Nul],
   sp |-> IF cells[e] = Space THEN e + 1 ELSE e,
   token |-> [k \in 1 .. e - p |-> cells[p + k - 1]]]

(* The least of a set of cells.                                            *)
LEMMA LeastCell ==
  ASSUME NEW S \in SUBSET Nat, S # {}
  PROVE  Min(S) \in S /\ \A x \in S : Min(S) <= x
<1>1. \E m \in S : \A x \in S : m <= x
  BY LeastNumber
<1> QED BY <1>1 DEF Min

(* A call of strtok gives the next token, if there is one, and ends it     *)
(* with a null character (string.c:115-177).                               *)
LEMMA StrtokFacts ==
  ASSUME NEW cells \in Commands, NEW place \in Null .. MaxLine, NEW str \in {Null, 0}
  PROVE  LET t == strtok([cells |-> cells, sp |-> place], str)
             from == IF place = Null THEN str ELSE place
         IN  \/ /\ from = Null \/ NoToken(cells, from)
                /\ t = [cells |-> cells, sp |-> Null, token |-> <<>>]
             \/ /\ from # Null
                /\ \E p, e \in 0 .. MaxLine : Finds(cells, from, p, e) /\ t = Found(cells, p, e)
<1> DEFINE s == [cells |-> cells, sp |-> place]
           t == strtok(s, str)
           from == IF place = Null THEN str ELSE place
           p == Min({x \in from .. MaxLine : cells[x] # Space})
           e == Min({x \in p .. MaxLine : cells[x] \in {Space, Nul}})
<1>1. /\ MaxLine \in Nat /\ cells \in [0 .. MaxLine -> Keys] /\ cells[MaxLine] = Nul
      /\ Nul # Space /\ from \in Null .. MaxLine
  BY LineAssumption, CharactersAssumption DEF Commands, Null
<1>2. s.cells = cells /\ s.sp = place
  OBVIOUS
<1>3. t = IF from = Null THEN [cells |-> cells, sp |-> Null, token |-> <<>>]
          ELSE IF cells[p] = Nul THEN [cells |-> cells, sp |-> Null, token |-> <<>>]
          ELSE Found(cells, p, e)
  BY <1>2 DEF strtok, PlaceAtEnd, Found
<1> HIDE DEF s, t, from
<1>4. ASSUME from # Null
      PROVE  /\ p \in from .. MaxLine /\ cells[p] # Space
             /\ \A x \in from .. p - 1 : cells[x] = Space
  <2> DEFINE S == {x \in from .. MaxLine : cells[x] # Space}
  <2>1. MaxLine \in S /\ S \in SUBSET Nat
    BY <1>1, <1>4 DEF Null
  <2>2. p \in S /\ \A x \in S : p <= x
    BY <2>1, LeastCell
  <2> HIDE DEF p
  <2> QED BY <1>1, <1>4, <2>2 DEF Null
<1>5. ASSUME from # Null, cells[p] # Nul
      PROVE  /\ e \in p + 1 .. MaxLine /\ cells[e] \in {Space, Nul}
             /\ \A x \in p .. e - 1 : cells[x] \notin {Space, Nul}
  <2> DEFINE S == {x \in p .. MaxLine : cells[x] \in {Space, Nul}}
  <2>0. p \in Nat /\ p <= MaxLine /\ cells[p] # Space
    BY <1>1, <1>4, <1>5 DEF Null
  <2> HIDE DEF p
  <2>1. MaxLine \in S /\ S \in SUBSET Nat
    BY <1>1, <2>0
  <2>2. e \in S /\ \A x \in S : e <= x
    BY <2>1, LeastCell
  <2> HIDE DEF e
  <2> QED BY <1>1, <1>5, <2>0, <2>2
<1> HIDE DEF p, e
<1>6. CASE from = Null
  BY <1>3, <1>6 DEF t, s, from
<1>7. CASE from # Null /\ cells[p] = Nul
  BY <1>3, <1>4, <1>7 DEF NoToken, t, s, from
<1>8. CASE from # Null /\ cells[p] # Nul
  <2>1. Finds(cells, from, p, e) /\ p \in 0 .. MaxLine /\ e \in 0 .. MaxLine
    BY <1>1, <1>4, <1>5, <1>8 DEF Finds, Null
  <2>2. t = Found(cells, p, e)
    BY <1>3, <1>8
  <2> QED BY <1>8, <2>1, <2>2 DEF t, s, from
<1> QED BY <1>6, <1>7, <1>8

-----------------------------------------------------------------------------
(* What plumos_parse_command has made of the line so far.                  *)
Parses == [cells : Commands, sp : Null .. MaxLine, words : Seq(Seq(Keys)),
           done : BOOLEAN, short : BOOLEAN]

(* One call of strtok and what is made of its token (plumos.c:20-54).      *)
Turn(s, k, memory) ==
  LET t == strtok([cells |-> s.cells, sp |-> s.sp], IF k = 1 THEN 0 ELSE Null)
      next == [s EXCEPT !.cells = t.cells, !.sp = t.sp]
  IN  IF s.done THEN s
      ELSE IF t.token = <<>> THEN [next EXCEPT !.done = TRUE]
      ELSE IF k > memory THEN [next EXCEPT !.done = TRUE, !.short = TRUE]
      ELSE [next EXCEPT !.words = Append(@, Argument(t.token))]

(* Where the next token is looked for.                                     *)
Place(s) == IF s.sp = Null THEN 0 ELSE s.sp

(* A parse is its five fields.                                             *)
LEMMA PlaceWritten ==
  ASSUME NEW s \in Parses, NEW c, NEW q
  PROVE  [s EXCEPT !.cells = c, !.sp = q]
           = [cells |-> c, sp |-> q, words |-> s.words, done |-> s.done, short |-> s.short]
<1> DEFINE m == [s EXCEPT !.cells = c]
<1>1. m = [cells |-> c, sp |-> s.sp, words |-> s.words, done |-> s.done, short |-> s.short]
  BY DEF Parses
<1>2. [s EXCEPT !.cells = c, !.sp = q] = [m EXCEPT !.sp = q]
  OBVIOUS
<1> HIDE DEF m
<1>3. [m EXCEPT !.sp = q]
        = [cells |-> c, sp |-> q, words |-> s.words, done |-> s.done, short |-> s.short]
  BY <1>1
<1> QED BY <1>2, <1>3, Zenon

(* Its fields are of these types.                                          *)
LEMMA ParseIs ==
  ASSUME NEW c \in Commands, NEW q \in Null .. MaxLine, NEW w \in Seq(Seq(Keys)),
         NEW d \in BOOLEAN, NEW m \in BOOLEAN
  PROVE  [cells |-> c, sp |-> q, words |-> w, done |-> d, short |-> m] \in Parses
BY DEF Parses

(* The turn took the token in cells p .. e - 1; r is what it made of it.   *)
Takes(s, p, e, r) ==
  LET t == Found(s.cells, p, e)
  IN  /\ t.cells \in Commands /\ t.sp \in 0 .. MaxLine /\ t.token \in Seq(Keys)
      /\ \/ r = [cells |-> t.cells, sp |-> t.sp, words |-> s.words, done |-> TRUE, short |-> TRUE]
         \/ r = [cells |-> t.cells, sp |-> t.sp, words |-> Append(s.words, Argument(t.token)),
                 done |-> FALSE, short |-> s.short]

(* A turn finds no token and is the last one, or finds one, for which      *)
(* there is memory or not.                                                 *)
LEMMA TurnFacts ==
  ASSUME NEW s \in Parses, ~ s.done, NEW k \in 1 .. MaxLine, k # 1 => s.sp # Null, NEW memory
  PROVE  \/ /\ NoToken(s.cells, Place(s))
            /\ Turn(s, k, memory) = [s EXCEPT !.sp = Null, !.done = TRUE]
         \/ \E p, e \in 0 .. MaxLine : /\ Finds(s.cells, Place(s), p, e)
                                       /\ Takes(s, p, e, Turn(s, k, memory))
<1> DEFINE str == IF k = 1 THEN 0 ELSE Null
           t == strtok([cells |-> s.cells, sp |-> s.sp], str)
           next == [s EXCEPT !.cells = t.cells, !.sp = t.sp]
<1>1. /\ s.cells \in Commands /\ s.sp \in Null .. MaxLine /\ str \in {Null, 0}
      /\ s = [cells |-> s.cells, sp |-> s.sp, words |-> s.words, done |-> s.done, short |-> s.short]
  BY DEF Parses
<1>2. (IF s.sp = Null THEN str ELSE s.sp) = Place(s) /\ Place(s) # Null
  BY DEF Place, Null
<1>3. \/ NoToken(s.cells, Place(s)) /\ t = [cells |-> s.cells, sp |-> Null, token |-> <<>>]
      \/ \E p, e \in 0 .. MaxLine : Finds(s.cells, Place(s), p, e) /\ t = Found(s.cells, p, e)
  <2> HIDE DEF t, str
  <2> QED BY <1>1, <1>2, StrtokFacts DEF t
<1>4. Turn(s, k, memory) = IF t.token = <<>> THEN [next EXCEPT !.done = TRUE]
                           ELSE IF k > memory THEN [next EXCEPT !.done = TRUE, !.short = TRUE]
                           ELSE [next EXCEPT !.words = Append(@, Argument(t.token))]
  BY DEF Turn
<1> HIDE DEF t, str
<1>5. CASE NoToken(s.cells, Place(s)) /\ t = [cells |-> s.cells, sp |-> Null, token |-> <<>>]
  <2>1. t.token = <<>> /\ t.cells = s.cells /\ t.sp = Null
    BY <1>5
  <2>2. next = [s EXCEPT !.sp = Null]
    BY <1>1, <2>1
  <2> QED BY <1>4, <1>5, <2>1, <2>2
<1>6. ASSUME NEW p \in 0 .. MaxLine, NEW e \in 0 .. MaxLine,
             Finds(s.cells, Place(s), p, e), t = Found(s.cells, p, e)
      PROVE  Takes(s, p, e, Turn(s, k, memory))
  <2>1. /\ MaxLine \in Nat /\ Nul # Space /\ Nul \in Keys
        /\ s.cells \in [0 .. MaxLine -> Keys] /\ s.cells[MaxLine] = Nul
    BY <1>1, LineAssumption, CharactersAssumption DEF Commands, Keys
  <2>2. e \in p + 1 .. MaxLine
    BY <1>6 DEF Finds
  <2>3. t.cells = [s.cells EXCEPT ![e] = Nul] /\ t.sp = (IF s.cells[e] = Space THEN e + 1 ELSE e)
        /\ t.token = [j \in 1 .. e - p |-> s.cells[p + j - 1]]
    BY <1>6 DEF Found
  <2>4. t.cells \in Commands
    BY <2>1, <2>3 DEF Commands
  <2>5. t.sp \in 0 .. MaxLine
    BY <2>1, <2>2, <2>3
  <2>6. t.token \in Seq(Keys) /\ t.token # <<>>
    <3>1. e - p \in Nat /\ e - p # 0 /\ \A j \in 1 .. e - p : s.cells[p + j - 1] \in Keys
      BY <2>1, <2>2
    <3>2. t.token \in Seq(Keys) /\ Len(t.token) = e - p
      BY <2>3, <3>1
    <3>3. Len(<<>>) = 0
      OBVIOUS
    <3> QED BY <3>1, <3>2, <3>3
  <2>7. \/ Turn(s, k, memory) = [next EXCEPT !.done = TRUE, !.short = TRUE]
        \/ Turn(s, k, memory) = [next EXCEPT !.words = Append(@, Argument(t.token))]
    BY <1>4, <2>6
  <2>8. next = [cells |-> t.cells, sp |-> t.sp, words |-> s.words, done |-> s.done, short |-> s.short]
    BY PlaceWritten
  <2>9. \/ Turn(s, k, memory) = [cells |-> t.cells, sp |-> t.sp, words |-> s.words,
                                 done |-> TRUE, short |-> TRUE]
        \/ Turn(s, k, memory) = [cells |-> t.cells, sp |-> t.sp,
                                 words |-> Append(s.words, Argument(t.token)),
                                 done |-> FALSE, short |-> s.short]
    <3> HIDE DEF next
    <3>1. s.done = FALSE
      BY DEF Parses
    <3> QED BY <2>7, <2>8, <3>1
  <2> QED BY <1>6, <2>4, <2>5, <2>6, <2>9 DEF Takes
<1>7. CASE \E p, e \in 0 .. MaxLine : Finds(s.cells, Place(s), p, e) /\ t = Found(s.cells, p, e)
  <2>1. PICK p \in 0 .. MaxLine, e \in 0 .. MaxLine :
          Finds(s.cells, Place(s), p, e) /\ t = Found(s.cells, p, e)
    BY <1>7
  <2>2. Takes(s, p, e, Turn(s, k, memory))
    BY <1>6, <2>1
  <2> QED BY <2>1, <2>2
<1> QED BY <1>3, <1>5, <1>7

(* An argument is as much of a word as it has room for (plumos.c:33, :47). *)
LEMMA ArgumentType ==
  ASSUME NEW token \in Seq(Keys)
  PROVE  Argument(token) \in Seq(Keys)
<1> DEFINE m == IF Len(token) < ArgumentSize THEN Len(token) ELSE ArgumentSize - 1
<1>1. Argument(token) = SubSeq(token, 1, m)
  BY DEF Argument
<1>2. m \in 0 .. Len(token)
  BY LineAssumption
<1> HIDE DEF m
<1>3. \A j \in 1 .. m : token[j] \in Keys
  BY <1>2
<1>4. SubSeq(token, 1, m) \in Seq(Keys)
  BY <1>2, <1>3
<1> QED BY <1>1, <1>4

(* A turn makes a parse of a parse.                                        *)
LEMMA TurnType ==
  ASSUME NEW s \in Parses, NEW k \in 1 .. MaxLine, NEW memory
  PROVE  Turn(s, k, memory) \in Parses
<1> DEFINE str == IF k = 1 THEN 0 ELSE Null
           t == strtok([cells |-> s.cells, sp |-> s.sp], str)
           next == [s EXCEPT !.cells = t.cells, !.sp = t.sp]
<1>1. /\ s.cells \in Commands /\ s.sp \in Null .. MaxLine /\ str \in {Null, 0} /\ MaxLine \in Nat
      /\ s = [cells |-> s.cells, sp |-> s.sp, words |-> s.words, done |-> s.done, short |-> s.short]
      /\ s.words \in Seq(Seq(Keys)) /\ s.done \in BOOLEAN /\ s.short \in BOOLEAN
  BY LineAssumption DEF Parses
<1>2. CASE s.done
  BY <1>2 DEF Turn
<1>3. CASE ~ s.done
  <2>1. Turn(s, k, memory) = IF t.token = <<>> THEN [next EXCEPT !.done = TRUE]
                             ELSE IF k > memory THEN [next EXCEPT !.done = TRUE, !.short = TRUE]
                             ELSE [next EXCEPT !.words = Append(@, Argument(t.token))]
    BY <1>3 DEF Turn
  <2>2. \/ t.token = <<>> /\ t.cells = s.cells /\ t.sp = Null
        \/ k # 1 => s.sp # Null
    <3>1. ASSUME k # 1, s.sp = Null PROVE t = [cells |-> s.cells, sp |-> Null, token |-> <<>>]
      BY <3>1 DEF strtok, Null
    <3> QED BY <3>1
  <2> HIDE DEF t
  <2>3. CASE t.token = <<>> /\ t.cells = s.cells /\ t.sp = Null
    <3>1. Null \in Null .. MaxLine
      BY <1>1 DEF Null
    <3> QED BY <1>1, <2>1, <2>3, <3>1 DEF Parses
  <2>4. CASE k # 1 => s.sp # Null
    <3>1. \/ Turn(s, k, memory) = [s EXCEPT !.sp = Null, !.done = TRUE]
          \/ \E p, e \in 0 .. MaxLine : Takes(s, p, e, Turn(s, k, memory))
      BY <1>3, <2>4, TurnFacts
    <3>2. CASE Turn(s, k, memory) = [s EXCEPT !.sp = Null, !.done = TRUE]
      <4>1. Null \in Null .. MaxLine
        BY <1>1 DEF Null
      <4> QED BY <1>1, <3>2, <4>1 DEF Parses
    <3>3. ASSUME NEW p \in 0 .. MaxLine, NEW e \in 0 .. MaxLine,
                 Takes(s, p, e, Turn(s, k, memory))
          PROVE  Turn(s, k, memory) \in Parses
      <4> DEFINE u == Found(s.cells, p, e)
                 w == Append(s.words, Argument(u.token))
      <4>1. u.cells \in Commands /\ u.sp \in Null .. MaxLine /\ u.token \in Seq(Keys)
        BY <1>1, <3>3 DEF Null, Takes
      <4>2. \/ Turn(s, k, memory) = [cells |-> u.cells, sp |-> u.sp, words |-> s.words,
                                     done |-> TRUE, short |-> TRUE]
            \/ Turn(s, k, memory) = [cells |-> u.cells, sp |-> u.sp, words |-> w,
                                     done |-> FALSE, short |-> s.short]
        BY <3>3 DEF Takes
      <4> HIDE DEF u
      <4>3. Argument(u.token) \in Seq(Keys)
        BY <4>1, ArgumentType
      <4>4. w \in Seq(Seq(Keys))
        <5> DEFINE g == Argument(u.token)
        <5>1. g \in Seq(Keys)
          BY <4>3
        <5> HIDE DEF g
        <5>2. Append(s.words, g) \in Seq(Seq(Keys))
          BY <1>1, <5>1
        <5> QED BY <5>2 DEF g
      <4> HIDE DEF w
      <4>5. TRUE \in BOOLEAN /\ FALSE \in BOOLEAN /\ s.words \in Seq(Seq(Keys)) /\ s.short \in BOOLEAN
        BY <1>1
      <4>6. /\ [cells |-> u.cells, sp |-> u.sp, words |-> s.words,
                 done |-> TRUE, short |-> TRUE] \in Parses
            /\ [cells |-> u.cells, sp |-> u.sp, words |-> w,
                done |-> FALSE, short |-> s.short] \in Parses
        BY <4>1, <4>4, <4>5, ParseIs
      <4> QED BY <4>2, <4>6, Zenon
    <3> QED BY <3>1, <3>2, <3>3
  <2> QED BY <2>2, <2>3, <2>4
<1> QED BY <1>2, <1>3

(* plumos_parse_command is these turns, one after the other.               *)
LEMMA ParseTurns ==
  ASSUME scommand \in Commands, sp \in Null .. MaxLine, NEW command, NEW memory,
         Copied(scommand, command) \in Commands
  PROVE  \E f : /\ f[0] = [cells |-> Copied(scommand, command), sp |-> sp,
                           words |-> <<>>, done |-> FALSE, short |-> FALSE]
                /\ plumos_parse_command(command, memory) = f[MaxLine]
                /\ \A k \in 0 .. MaxLine : f[k] \in Parses
                /\ \A k \in 1 .. MaxLine : f[k] = Turn(f[k - 1], k, memory)
<1> DEFINE n == MaxLine
           first == [cells |-> Copied(scommand, command), sp |-> sp,
                     words |-> <<>>, done |-> FALSE, short |-> FALSE]
           Step(v, k) == Turn(v, k, memory)
           Body(g) == [k \in 0 .. n |-> IF k = 0 THEN first ELSE Step(g[k - 1], k)]
           after == CHOOSE g : g = Body(g)
           step == [k \in 1 .. n |-> [v \in Parses |-> Step(v, k)]]
<1>1. n \in Nat /\ first \in Parses
  BY LineAssumption DEF Parses
<1>2. plumos_parse_command(command, memory) = after[n]
  BY DEF plumos_parse_command, Turn
<1>3. ASSUME NEW v \in Parses, NEW k \in 1 .. n PROVE Step(v, k) \in Parses
  BY TurnType
<1> HIDE DEF n, Step, first
<1>4. \A k \in 1 .. n : \A v \in Parses : step[k][v] = Step(v, k) /\ step[k][v] \in Parses
  BY <1>3
<1> HIDE DEF step
<1>5. PICK g : Iterates(g, n, first, step) /\ \A k \in 0 .. n : g[k] \in Parses
  <2>1. \A k \in 1 .. n : \A v \in Parses : step[k][v] \in Parses
    BY <1>4
  <2> QED BY <1>1, <2>1, Iteration, Zenon
<1>6. g = [k \in 0 .. n |-> IF k = 0 THEN first ELSE step[k][g[k - 1]]]
  BY <1>5 DEF Iterates
<1>7. ASSUME NEW k \in 0 .. n
      PROVE  (IF k = 0 THEN first ELSE step[k][g[k - 1]]) = IF k = 0 THEN first ELSE Step(g[k - 1], k)
  <2>1. k # 0 => k \in 1 .. n /\ k - 1 \in 0 .. n /\ g[k - 1] \in Parses
    BY <1>1, <1>5
  <2> QED BY <1>4, <2>1
<1>8. g = Body(g)
  BY <1>6, <1>7, Zenon
<1>9. after = Body(after)
  <2> HIDE DEF Body
  <2> QED BY <1>8
<1> HIDE DEF after
<1>10. \A k \in 0 .. n : after[k] = IF k = 0 THEN first ELSE Step(after[k - 1], k)
  <2>1. \A k \in 0 .. n : Body(after)[k] = IF k = 0 THEN first ELSE Step(after[k - 1], k)
    OBVIOUS
  <2> HIDE DEF Body
  <2> QED BY <1>9, <2>1
<1> HIDE DEF Body
<1> DEFINE inv == [k \in 0 .. n |-> Parses]
<1>11. \A k \in 0 .. n : after[k] \in inv[k]
  <2>1. after[0] \in inv[0]
    BY <1>1, <1>10
  <2>2. ASSUME NEW k \in 1 .. n, after[k - 1] \in inv[k - 1] PROVE after[k] \in inv[k]
    <3>1. k - 1 \in 0 .. n /\ k \in 0 .. n /\ k # 0
      BY <1>1
    <3>2. after[k - 1] \in Parses /\ after[k] = Step(after[k - 1], k)
      BY <1>10, <2>2, <3>1
    <3> QED BY <1>3, <3>1, <3>2
  <2> HIDE DEF inv
  <2> QED BY <1>1, <2>1, <2>2, Stepwise
<1>12. after[0] = first /\ \A k \in 1 .. n : after[k] = Step(after[k - 1], k)
  BY <1>1, <1>10
<1>13. \A k \in 0 .. n : after[k] \in Parses
  BY <1>11
<1> QED BY <1>2, <1>12, <1>13 DEF n, Step, first

-----------------------------------------------------------------------------
(* The parse ends                                                          *)

(* After k turns: each but the last one has passed a character of its word *)
(* and the space behind it.                                                *)
Ends(s, k) ==
  /\ s \in Parses
  /\ s.done /\ ~ s.short => s.sp = Null
  /\ ~ s.done => /\ ~ s.short
                 /\ k # 0 => s.sp # Null
                 /\ 2 * k <= Place(s) \/ (2 * k <= Place(s) + 1 /\ s.cells[Place(s)] = Nul)

(* A turn goes on to the next word (string.c:150-176).                     *)
LEMMA EndsStep ==
  ASSUME NEW k \in 1 .. MaxLine, NEW s, Ends(s, k - 1), NEW memory
  PROVE  Ends(Turn(s, k, memory), k)
<1>1. /\ s \in Parses /\ Turn(s, k, memory) \in Parses /\ MaxLine \in Nat /\ k \in Nat
      /\ Nul # Space
      /\ s = [cells |-> s.cells, sp |-> s.sp, words |-> s.words, done |-> s.done, short |-> s.short]
      /\ s.sp \in Null .. MaxLine /\ s.cells \in [0 .. MaxLine -> Keys]
      /\ s.cells[MaxLine] = Nul
  BY TurnType, LineAssumption, CharactersAssumption DEF Ends, Parses, Commands
<1>2. CASE s.done
  <2>1. Turn(s, k, memory) = s
    BY <1>2 DEF Turn
  <2> QED BY <1>1, <1>2, <2>1 DEF Ends
<1>3. CASE ~ s.done
  <2>1. k # 1 => s.sp # Null
    BY <1>1, <1>3 DEF Ends
  <2>2. Place(s) \in 0 .. MaxLine
    BY <1>1 DEF Place, Null
  <2>3. CASE Turn(s, k, memory) = [s EXCEPT !.sp = Null, !.done = TRUE]
    BY <1>1, <1>3, <2>3 DEF Ends
  <2>4. ASSUME NEW p \in 0 .. MaxLine, NEW e \in 0 .. MaxLine, NEW w, NEW d, NEW m,
               Finds(s.cells, Place(s), p, e),
               Turn(s, k, memory) = [cells |-> Found(s.cells, p, e).cells,
                                     sp |-> Found(s.cells, p, e).sp,
                                     words |-> w, done |-> d, short |-> m],
               d <=> m
        PROVE  Ends(Turn(s, k, memory), k)
    <3> DEFINE t == Found(s.cells, p, e)
               r == Turn(s, k, memory)
    <3>1. /\ p \in Place(s) .. MaxLine /\ e \in p + 1 .. MaxLine /\ s.cells[e] \in {Space, Nul}
          /\ s.cells[p] # Nul /\ \A x \in Place(s) .. p - 1 : s.cells[x] = Space
      BY <2>4 DEF Finds
    <3>2. r.cells = [s.cells EXCEPT ![e] = Nul] /\ r.sp = (IF s.cells[e] = Space THEN e + 1 ELSE e)
          /\ r.done = d /\ r.short = m
      BY <2>4 DEF Found
    <3> HIDE DEF r
    <3>3. s.cells[Place(s)] # Nul
      <4>1. CASE p = Place(s)
        BY <3>1, <4>1
      <4>2. CASE p # Place(s)
        BY <1>1, <2>2, <3>1, <4>2
      <4> QED BY <4>1, <4>2
    <3>4. 2 * (k - 1) <= Place(s)
      BY <1>3, <3>3 DEF Ends
    <3>5. 2 * k <= e + 1 /\ e \in Nat
      BY <1>1, <2>2, <3>1, <3>4
    <3>6. r.sp # Null /\ Place(r) = r.sp
      BY <3>2, <3>5 DEF Null, Place
    <3>7. 2 * k <= Place(r) \/ (2 * k <= Place(r) + 1 /\ r.cells[Place(r)] = Nul)
      <4>1. CASE s.cells[e] = Space
        BY <1>1, <3>2, <3>5, <3>6, <4>1
      <4>2. CASE s.cells[e] # Space
        <5>1. r.sp = e /\ r.cells[e] = Nul
          BY <1>1, <3>1, <3>2, <4>2
        <5> QED BY <3>5, <3>6, <5>1
      <4> QED BY <4>1, <4>2
    <3> QED BY <1>1, <2>4, <3>2, <3>6, <3>7 DEF Ends, r
  <2>5. \/ Turn(s, k, memory) = [s EXCEPT !.sp = Null, !.done = TRUE]
        \/ \E p, e \in 0 .. MaxLine : /\ Finds(s.cells, Place(s), p, e)
                                      /\ Takes(s, p, e, Turn(s, k, memory))
    BY <1>1, <1>3, <2>1, TurnFacts
  <2>6. ~ s.short
    BY <1>3 DEF Ends
  <2>7. ASSUME NEW p \in 0 .. MaxLine, NEW e \in 0 .. MaxLine,
               Finds(s.cells, Place(s), p, e), Takes(s, p, e, Turn(s, k, memory))
        PROVE  Ends(Turn(s, k, memory), k)
    BY <2>4, <2>6, <2>7 DEF Takes
  <2> QED BY <2>3, <2>5, <2>7
<1> QED BY <1>2, <1>3

-----------------------------------------------------------------------------
(* The parse splits at the spaces                                          *)

(* These are the words of str that begin in its first n characters.        *)
WordsUpTo(words, str, n) ==
  \E at \in [DOMAIN words -> Starts(str)] :
    /\ Range(at) = {k \in Starts(str) : k <= n}
    /\ \A j, k \in DOMAIN words : j < k => at[j] < at[k]
    /\ \A k \in DOMAIN words : words[k] = Argument(WordAt(str, at[k]))

(* The cells from the place on hold the rest of the line, and the words    *)
(* are those before.                                                       *)
Splits(s, str) ==
  IF s.done THEN ~ s.short => AreWords(s.words, str)
  ELSE /\ Place(s) \in 0 .. Len(str)
       /\ \A x \in Place(s) .. Len(str) - 1 : s.cells[x] = str[x + 1]
       /\ s.cells[Len(str)] = Nul
       /\ Place(s) \in {0, Len(str)} \/ str[Place(s)] = Space
       /\ WordsUpTo(s.words, str, Place(s))

(* A word that begins behind the ones found.                               *)
LEMMA OneMoreWord ==
  ASSUME NEW str, NEW S, NEW words \in Seq(S), NEW n \in Nat, NEW m \in Nat,
         NEW b \in Starts(str), b > n, Starts(str) \in SUBSET Nat, WordsUpTo(words, str, n),
         {k \in Starts(str) : k <= m} = {k \in Starts(str) : k <= n} \cup {b},
         NEW w \in S, w = Argument(WordAt(str, b))
  PROVE  WordsUpTo(Append(words, w), str, m)
<1>1. PICK at \in [DOMAIN words -> Starts(str)] :
        /\ Range(at) = {k \in Starts(str) : k <= n}
        /\ \A j, k \in DOMAIN words : j < k => at[j] < at[k]
        /\ \A k \in DOMAIN words : words[k] = Argument(WordAt(str, at[k]))
  BY DEF WordsUpTo
<1> DEFINE l == Len(words)
           new == [k \in 1 .. l + 1 |-> IF k = l + 1 THEN b ELSE at[k]]
           all == Append(words, w)
<1>2. l \in Nat /\ DOMAIN words = 1 .. l /\ DOMAIN all = 1 .. l + 1
  OBVIOUS
<1>3. /\ \A k \in 1 .. l : all[k] = words[k]
      /\ all[l + 1] = w
  OBVIOUS
<1> HIDE DEF l, all
<1>4. /\ new \in [1 .. l + 1 -> Starts(str)] /\ new[l + 1] = b
      /\ \A k \in 1 .. l : new[k] = at[k] /\ k \in 1 .. l + 1 /\ k # l + 1
      /\ \A k \in 1 .. l + 1 : k \in 1 .. l \/ k = l + 1
  BY <1>1, <1>2
<1> HIDE DEF new
<1>5. Range(new) = {k \in Starts(str) : k <= m}
  <2>1. Range(new) = {new[k] : k \in 1 .. l + 1} /\ Range(at) = {at[k] : k \in 1 .. l}
    BY <1>1, <1>2, <1>4 DEF Range
  <2>2. l + 1 \in 1 .. l + 1
    BY <1>2
  <2>3. {new[k] : k \in 1 .. l + 1} = {at[k] : k \in 1 .. l} \cup {b}
    BY <1>4, <2>2, Zenon
  <2> QED BY <1>1, <2>1, <2>3, Zenon
<1>6. ASSUME NEW j \in 1 .. l + 1, NEW k \in 1 .. l + 1, j < k PROVE new[j] < new[k]
  <2>1. j \in 1 .. l
    BY <1>2, <1>6
  <2>2. CASE k \in 1 .. l
    BY <1>1, <1>2, <1>4, <1>6, <2>1, <2>2
  <2>3. CASE k = l + 1
    <3>1. at[j] \in Range(at)
      BY <1>1, <1>2, <2>1 DEF Range
    <3>2. at[j] <= n
      BY <1>1, <3>1
    <3>3. at[j] \in Nat /\ b \in Nat
      BY <1>1, <1>2, <2>1
    <3> QED BY <1>4, <2>1, <2>3, <3>2, <3>3
  <2> QED BY <1>4, <2>2, <2>3
<1>7. ASSUME NEW k \in 1 .. l + 1 PROVE all[k] = Argument(WordAt(str, new[k]))
  <2>1. CASE k \in 1 .. l
    BY <1>1, <1>2, <1>3, <1>4, <2>1
  <2>2. CASE k = l + 1
    BY <1>3, <1>4, <2>2
  <2> QED BY <1>4, <2>1, <2>2
<1> QED BY <1>2, <1>4, <1>5, <1>6, <1>7, Zenon DEF WordsUpTo, all

(* A token is the word that begins where it was found.                     *)
LEMMA TokenIsWord ==
  ASSUME NEW str \in Seq(Glyphs), NEW p \in Nat, NEW e \in p + 1 .. Len(str),
         \A x \in p .. e - 1 : str[x + 1] # Space,
         e = Len(str) \/ str[e + 1] = Space
  PROVE  WordAt(str, p + 1) = [k \in 1 .. e - p |-> str[p + k]]
<1> DEFINE S == {x \in p + 1 .. Len(str) + 1 : x = Len(str) + 1 \/ str[x] = Space}
<1>1. Len(str) \in Nat /\ e \in Nat /\ p < e /\ e <= Len(str)
  OBVIOUS
<1>2. e + 1 \in S /\ S \in SUBSET Nat
  BY <1>1
<1>3. ASSUME NEW x \in S PROVE e + 1 <= x
  <2>1. x \in Nat /\ x >= p + 1 /\ (x = Len(str) + 1 \/ str[x] = Space)
    BY <1>2
  <2>2. CASE x <= e
    <3>1. x - 1 \in p .. e - 1 /\ (x - 1) + 1 = x /\ x # Len(str) + 1
      BY <1>1, <2>1, <2>2
    <3> QED BY <2>1, <3>1
  <2> QED BY <1>1, <2>1, <2>2
<1>4. Min(S) \in S /\ \A x \in S : Min(S) <= x
  BY <1>2, LeastCell
<1>5. Min(S) = e + 1
  <2> DEFINE a == Min(S)
  <2>1. a \in Nat /\ e + 1 <= a /\ a <= e + 1
    BY <1>1, <1>2, <1>3, <1>4
  <2> HIDE DEF a
  <2>2. a = e + 1
    BY <1>1, <2>1
  <2> QED BY <2>2 DEF a
<1>6. WordAt(str, p + 1) = SubSeq(str, p + 1, Min(S) - 1)
  BY DEF WordAt
<1> HIDE DEF S
<1>7. WordAt(str, p + 1) = SubSeq(str, p + 1, e)
  BY <1>1, <1>5, <1>6
<1>8. SubSeq(str, p + 1, e) = [k \in 1 .. e - p |-> str[p + k]]
  BY <1>1
<1> QED BY <1>7, <1>8

(* When there is no token left, all the words are found.                   *)
LEMMA NoTokenIsEnd ==
  ASSUME NEW str \in Seq(Glyphs), Len(str) < MaxLine, NEW s \in Parses, ~ s.done, Splits(s, str),
         NoToken(s.cells, Place(s))
  PROVE  AreWords(s.words, str)
<1> DEFINE n == Len(str)
           from == Place(s)
           cells == s.cells
<1>1. /\ MaxLine \in Nat /\ n \in Nat /\ n < MaxLine /\ Nul # Space /\ Nul \notin Glyphs
      /\ \A x \in 1 .. n : str[x] \in Glyphs
      /\ from \in 0 .. n /\ cells[n] = Nul /\ \A x \in from .. n - 1 : cells[x] = str[x + 1]
  BY LineAssumption, CharactersAssumption DEF Splits
<1>2. PICK p \in from .. MaxLine : cells[p] = Nul /\ \A x \in from .. p - 1 : cells[x] = Space
  BY DEF NoToken
<1>3. WordsUpTo(s.words, str, from)
  BY DEF Splits
<1> HIDE DEF n, from, cells
<1>4. p = n
  <2>1. CASE p < n
    <3>1. p \in from .. n - 1 /\ p + 1 \in 1 .. n
      BY <1>1, <1>2, <2>1
    <3> QED BY <1>1, <1>2, <3>1
  <2>2. CASE n < p
    <3>1. n \in from .. p - 1
      BY <1>1, <1>2, <2>2
    <3> QED BY <1>1, <1>2, <3>1
  <2> QED BY <1>1, <1>2, <2>1, <2>2
<1>5. ASSUME NEW q \in Starts(str) PROVE q <= from
  <2>1. q \in 1 .. n /\ str[q] # Space
    BY DEF Starts, n
  <2>2. CASE q > from
    <3>1. q - 1 \in from .. n - 1 /\ (q - 1) + 1 = q
      BY <1>1, <2>1, <2>2
    <3>2. cells[q - 1] = str[q] /\ cells[q - 1] = Space
      BY <1>1, <1>2, <1>4, <3>1
    <3> QED BY <2>1, <3>2
  <2> QED BY <1>1, <2>1, <2>2
<1>6. {k \in Starts(str) : k <= from} = Starts(str)
  BY <1>5
<1> QED BY <1>3, <1>6 DEF WordsUpTo, AreWords

(* The token that is found is the next word of the line.                   *)
LEMMA TokenIsNext ==
  ASSUME NEW str \in Seq(Glyphs), Len(str) < MaxLine, NEW s \in Parses, ~ s.done, Splits(s, str),
         NEW p \in 0 .. MaxLine, NEW e \in 0 .. MaxLine, Finds(s.cells, Place(s), p, e),
         NEW r, LET t == Found(s.cells, p, e)
                IN  /\ t.token \in Seq(Keys)
                    /\ r = [cells |-> t.cells, sp |-> t.sp,
                            words |-> Append(s.words, Argument(t.token)),
                            done |-> FALSE, short |-> s.short]
  PROVE  Splits(r, str)
<1> DEFINE n == Len(str)
           from == Place(s)
           cells == s.cells
           t == Found(cells, p, e)
           next == IF cells[e] = Space THEN e + 1 ELSE e
<1>1. /\ MaxLine \in Nat /\ n \in Nat /\ n < MaxLine /\ Nul # Space /\ Nul \notin Glyphs
      /\ \A x \in 1 .. n : str[x] \in Glyphs
      /\ from \in 0 .. n /\ cells[n] = Nul /\ \A x \in from .. n - 1 : cells[x] = str[x + 1]
      /\ from \in {0, n} \/ str[from] = Space
      /\ cells \in [0 .. MaxLine -> Keys]
  BY LineAssumption, CharactersAssumption DEF Splits, Parses, Commands
<1>2. /\ p \in from .. MaxLine /\ e \in p + 1 .. MaxLine /\ cells[e] \in {Space, Nul}
      /\ \A x \in from .. p - 1 : cells[x] = Space
      /\ \A x \in p .. e - 1 : cells[x] \notin {Space, Nul}
  BY DEF Finds
<1>3. WordsUpTo(s.words, str, from) /\ s.words \in Seq(Seq(Keys))
  BY DEF Splits, Parses
<1>4. /\ r.cells = [cells EXCEPT ![e] = Nul] /\ r.sp = next /\ ~ r.done
      /\ r.words = Append(s.words, Argument(t.token)) /\ t.token \in Seq(Keys)
      /\ t.token = [k \in 1 .. e - p |-> cells[p + k - 1]]
  BY DEF Found
<1> HIDE DEF n, from, cells, t, next
<1>5. p < n /\ e <= n /\ p \in Nat /\ e \in Nat /\ p < e
  <2>1. CASE n < p
    <3>1. n \in from .. p - 1
      BY <1>1, <1>2, <2>1
    <3> QED BY <1>1, <1>2, <3>1
  <2>2. CASE p <= n /\ n < e
    <3>1. n \in p .. e - 1
      BY <1>1, <1>2, <2>2
    <3> QED BY <1>1, <1>2, <3>1
  <2> QED BY <1>1, <1>2, <2>1, <2>2
<1>6. /\ \A x \in p .. e - 1 : str[x + 1] = cells[x] /\ str[x + 1] # Space
      /\ \A x \in from .. p - 1 : str[x + 1] = Space
      /\ cells[e] = Space => e < n /\ str[e + 1] = Space
      /\ cells[e] # Space => e = n
  <2>1. ASSUME NEW x \in p .. e - 1 PROVE str[x + 1] = cells[x] /\ str[x + 1] # Space
    <3>1. x \in from .. n - 1
      BY <1>1, <1>2, <1>5
    <3> QED BY <1>1, <1>2, <3>1
  <2>2. ASSUME NEW x \in from .. p - 1 PROVE str[x + 1] = Space
    <3>1. x \in from .. n - 1
      BY <1>1, <1>2, <1>5
    <3> QED BY <1>1, <1>2, <3>1
  <2>3. e < n => cells[e] = str[e + 1] /\ str[e + 1] \in Glyphs
    <3>1. e < n => e \in from .. n - 1 /\ e + 1 \in 1 .. n
      BY <1>1, <1>2, <1>5
    <3> QED BY <1>1, <3>1
  <2> QED BY <1>1, <1>2, <1>5, <2>1, <2>2, <2>3
<1>7. p + 1 \in Starts(str) /\ p + 1 > from /\ Starts(str) \in SUBSET Nat
  <2>1. p + 1 \in 1 .. n /\ str[p + 1] # Space
    <3>1. p \in p .. e - 1
      BY <1>5
    <3> QED BY <1>1, <1>5, <1>6, <3>1
  <2>2. p + 1 = 1 \/ str[(p + 1) - 1] = Space
    <3>0. (p + 1) - 1 = p
      BY <1>5
    <3>1. CASE p = from
      BY <1>1, <1>5, <3>0, <3>1
    <3>2. CASE p # from
      <4>1. p - 1 \in from .. p - 1 /\ (p - 1) + 1 = p
        BY <1>1, <1>2, <3>2
      <4> QED BY <1>6, <3>0, <4>1
    <3> QED BY <3>1, <3>2
  <2>3. DOMAIN str = 1 .. n
    BY DEF n
  <2> QED BY <1>1, <1>2, <2>1, <2>2, <2>3 DEF Starts
<1>8. next \in Nat /\ e <= next /\ next <= n /\ (next = n \/ str[next] = Space) /\ next # Null
  <2>1. cells[e] = Space => next = e + 1
    BY DEF next
  <2>2. cells[e] # Space => next = e
    BY DEF next
  <2> QED BY <1>1, <1>5, <1>6, <2>1, <2>2 DEF Null
<1>9. {k \in Starts(str) : k <= next} = {k \in Starts(str) : k <= from} \cup {p + 1}
  <2>1. ASSUME NEW q \in Starts(str), q <= next, q > from PROVE q = p + 1
    <3>1. q \in 1 .. n /\ str[q] # Space /\ (q = 1 \/ str[q - 1] = Space)
      BY DEF Starts, n
    <3>2. ~ q - 1 \in from .. p - 1
      <4>1. (q - 1) + 1 = q
        BY <3>1
      <4> QED BY <1>6, <3>1, <4>1
    <3>3. ~ (q - 1) - 1 \in p .. e - 1
      <4>1. CASE q = 1
        BY <1>5, <4>1
      <4>2. CASE q # 1
        <5>1. ((q - 1) - 1) + 1 = q - 1
          BY <3>1
        <5> QED BY <1>6, <3>1, <4>2, <5>1
      <4> QED BY <4>1, <4>2
    <3>4. q # e + 1
      <4>1. CASE cells[e] = Space
        BY <1>6, <3>1, <4>1
      <4>2. CASE cells[e] # Space
        BY <1>1, <1>6, <3>1, <4>2
      <4> QED BY <4>1, <4>2
    <3>5. next <= e + 1
      BY <1>5 DEF next
    <3> QED BY <1>1, <1>2, <1>5, <1>8, <2>1, <3>1, <3>2, <3>3, <3>4, <3>5
  <2>2. p + 1 <= next /\ from <= next
    BY <1>1, <1>2, <1>5, <1>8
  <2>3. \A q \in Starts(str) : q \in Nat
    BY <1>7
  <2> QED BY <1>1, <1>7, <1>8, <2>1, <2>2, <2>3
<1>10. t.token = WordAt(str, p + 1)
  <2>1. ASSUME NEW k \in 1 .. e - p PROVE cells[p + k - 1] = str[p + k]
    <3>1. p + k - 1 \in p .. e - 1 /\ (p + k - 1) + 1 = p + k
      BY <1>5
    <3> QED BY <1>6, <3>1
  <2>2. WordAt(str, p + 1) = [k \in 1 .. e - p |-> str[p + k]]
    <3>1. e \in p + 1 .. Len(str) /\ (e = Len(str) \/ str[e + 1] = Space)
      BY <1>1, <1>2, <1>5, <1>6 DEF n
    <3>2. \A x \in p .. e - 1 : str[x + 1] # Space
      BY <1>6
    <3> QED BY <1>5, <3>1, <3>2, TokenIsWord
  <2>3. [k \in 1 .. e - p |-> cells[p + k - 1]] = [k \in 1 .. e - p |-> str[p + k]]
    BY <2>1, Zenon
  <2> QED BY <1>4, <2>2, <2>3, Zenon
<1>11. WordsUpTo(r.words, str, next)
  <2> DEFINE w == Argument(t.token)
             b == p + 1
  <2>1. /\ w \in Seq(Keys) /\ w = Argument(WordAt(str, b)) /\ s.words \in Seq(Seq(Keys))
        /\ from \in Nat /\ next \in Nat /\ b \in Starts(str) /\ b > from
        /\ Starts(str) \in SUBSET Nat /\ WordsUpTo(s.words, str, from)
        /\ {k \in Starts(str) : k <= next} = {k \in Starts(str) : k <= from} \cup {b}
        /\ r.words = Append(s.words, w)
    BY <1>1, <1>3, <1>4, <1>7, <1>8, <1>9, <1>10, ArgumentType
  <2> HIDE DEF w, b
  <2> QED BY <2>1, OneMoreWord
<1>12. Place(r) = next
  BY <1>4, <1>8 DEF Place
<1>13. /\ \A x \in next .. n - 1 : r.cells[x] = str[x + 1]
       /\ r.cells[n] = Nul
  <2>1. ASSUME NEW x \in next .. n - 1 PROVE r.cells[x] = str[x + 1]
    <3>1. x \in from .. n - 1 /\ x \in 0 .. MaxLine
      BY <1>1, <1>2, <1>5, <1>8
    <3>2. x # e
      <4>1. CASE cells[e] = Space
        BY <1>5, <1>8, <4>1 DEF next
      <4>2. CASE cells[e] # Space
        BY <1>1, <1>6, <4>2
      <4> QED BY <4>1, <4>2
    <3> QED BY <1>1, <1>4, <3>1, <3>2
  <2>2. n \in 0 .. MaxLine
    BY <1>1
  <2> QED BY <1>1, <1>4, <2>1, <2>2
<1>14. Place(r) \in 0 .. n
  BY <1>1, <1>8, <1>12
<1>15. Place(r) \in {0, n} \/ str[Place(r)] = Space
  BY <1>8, <1>12
<1> QED BY <1>4, <1>11, <1>12, <1>13, <1>14, <1>15 DEF Splits, n

(* A turn finds the next word, or sees that there is none.                 *)
LEMMA SplitsStep ==
  ASSUME NEW str \in Seq(Glyphs), Len(str) < MaxLine, NEW k \in 1 .. MaxLine, NEW memory,
         NEW s, Ends(s, k - 1), Splits(s, str)
  PROVE  Splits(Turn(s, k, memory), str)
<1>1. s \in Parses /\ MaxLine \in Nat
  BY LineAssumption DEF Ends
<1>2. CASE s.done
  BY <1>2 DEF Turn
<1>3. CASE ~ s.done
  <2>1. (k # 1 => s.sp # Null) /\ ~ s.short
    <3>1. k - 1 # 0 <=> k # 1
      BY <1>1
    <3> QED BY <1>3, <3>1 DEF Ends
  <2>2. \/ /\ NoToken(s.cells, Place(s))
           /\ Turn(s, k, memory) = [s EXCEPT !.sp = Null, !.done = TRUE]
        \/ \E p, e \in 0 .. MaxLine : /\ Finds(s.cells, Place(s), p, e)
                                      /\ Takes(s, p, e, Turn(s, k, memory))
    BY <1>1, <1>3, <2>1, TurnFacts
  <2>3. CASE /\ NoToken(s.cells, Place(s))
             /\ Turn(s, k, memory) = [s EXCEPT !.sp = Null, !.done = TRUE]
    <3>1. AreWords(s.words, str)
      BY <1>1, <1>3, <2>3, NoTokenIsEnd
    <3>2. Turn(s, k, memory).done /\ Turn(s, k, memory).words = s.words
      BY <1>1, <2>3 DEF Parses
    <3> QED BY <3>1, <3>2 DEF Splits
  <2>4. ASSUME NEW p \in 0 .. MaxLine, NEW e \in 0 .. MaxLine,
               Finds(s.cells, Place(s), p, e), Takes(s, p, e, Turn(s, k, memory))
        PROVE  Splits(Turn(s, k, memory), str)
    <3> DEFINE r == Turn(s, k, memory)
               t == Found(s.cells, p, e)
    <3>1. /\ t.token \in Seq(Keys)
          /\ \/ r = [cells |-> t.cells, sp |-> t.sp, words |-> s.words, done |-> TRUE, short |-> TRUE]
             \/ r = [cells |-> t.cells, sp |-> t.sp, words |-> Append(s.words, Argument(t.token)),
                     done |-> FALSE, short |-> s.short]
      BY <2>4 DEF Takes
    <3> HIDE DEF r
    <3>2. CASE r = [cells |-> t.cells, sp |-> t.sp, words |-> s.words, done |-> TRUE, short |-> TRUE]
      <4>1. r.done /\ r.short
        BY <3>2
      <4> QED BY <4>1 DEF Splits, r
    <3>3. CASE r = [cells |-> t.cells, sp |-> t.sp, words |-> Append(s.words, Argument(t.token)),
                    done |-> FALSE, short |-> s.short]
      <4>1. Splits(r, str)
        BY <1>1, <1>3, <2>4, <3>1, <3>3, TokenIsNext
      <4> QED BY <4>1 DEF r
    <3> QED BY <3>1, <3>2, <3>3
  <2> QED BY <2>2, <2>3, <2>4
<1> QED BY <1>2, <1>3

(* plumos_parse_command of a line ends and leaves no place, unless memory  *)
(* ran short.  If it began with no place either, it gives the words of the *)
(* line (plumos.c:9-58).                                                   *)
LEMMA ParseSplits ==
  ASSUME scommand \in Commands, sp \in Null .. MaxLine,
         NEW command \in [0 .. MaxLine - 1 -> Keys], NEW last \in 0 .. MaxLine - 1,
         command[last] = Nul, NEW memory
  PROVE  LET p == plumos_parse_command(command, memory)
         IN  /\ p \in Parses /\ (~ p.short => p.sp = Null)
             /\ \A str \in Seq(Glyphs) :
                  sp = Null /\ ~ p.short /\ str = [k \in 1 .. last |-> command[k - 1]]
                    => AreWords(p.words, str)
<1> DEFINE p == plumos_parse_command(command, memory)
           cells == Copied(scommand, command)
           S == {x \in 0 .. MaxLine - 1 : command[x] = Nul}
           end == Min(S)
<1>1. /\ MaxLine \in Nat /\ MaxLine >= 2 /\ Nul \notin Glyphs /\ Nul \in Keys
      /\ scommand \in [0 .. MaxLine -> Keys] /\ scommand[MaxLine] = Nul
  BY LineAssumption, CharactersAssumption DEF Commands, Keys
<1>2. end \in S /\ \A x \in S : end <= x
  <2>1. last \in S /\ S \in SUBSET Nat
    BY <1>1
  <2> HIDE DEF S
  <2> QED BY <2>1, LeastCell
<1>3. cells = [x \in 0 .. MaxLine |-> IF x <= end THEN command[x] ELSE scommand[x]]
  BY DEF Copied
<1>4. end \in 0 .. MaxLine - 1 /\ command[end] = Nul
      /\ \A x \in 0 .. end - 1 : command[x] # Nul
  <2> HIDE DEF end
  <2> QED BY <1>1, <1>2
<1> HIDE DEF end
<1>5. cells \in Commands
  <2>1. ASSUME NEW x \in 0 .. MaxLine
        PROVE  (IF x <= end THEN command[x] ELSE scommand[x]) \in Keys
    BY <1>1, <1>4
  <2>2. cells[MaxLine] = scommand[MaxLine]
    BY <1>1, <1>3, <1>4
  <2> QED BY <1>1, <1>3, <2>1, <2>2 DEF Commands
<1>6. PICK f : /\ f[0] = [cells |-> cells, sp |-> sp, words |-> <<>>, done |-> FALSE, short |-> FALSE]
               /\ p = f[MaxLine]
               /\ \A k \in 0 .. MaxLine : f[k] \in Parses
               /\ \A k \in 1 .. MaxLine : f[k] = Turn(f[k - 1], k, memory)
  BY <1>5, ParseTurns
<1> HIDE DEF p, cells
<1>7. f[0].cells = cells /\ f[0].sp = sp /\ f[0].words = <<>> /\ ~ f[0].done /\ ~ f[0].short
  BY <1>6
<1>8. \A k \in 0 .. MaxLine : Ends(f[k], k)
  <2> DEFINE inv == [k \in 0 .. MaxLine |-> {s \in Parses : Ends(s, k)}]
  <2>1. Ends(f[0], 0)
    <3>1. Place(f[0]) \in 0 .. MaxLine
      BY <1>1, <1>7 DEF Place, Null
    <3>2. 2 * 0 <= Place(f[0]) /\ f[0] \in Parses
      BY <1>1, <1>6, <3>1
    <3> QED BY <1>7, <3>2 DEF Ends
  <2>2. f[0] \in inv[0]
    BY <1>1, <1>6, <2>1
  <2>3. ASSUME NEW k \in 1 .. MaxLine, f[k - 1] \in inv[k - 1] PROVE f[k] \in inv[k]
    <3>1. k - 1 \in 0 .. MaxLine /\ k \in 0 .. MaxLine
      BY <1>1
    <3>2. Ends(f[k - 1], k - 1)
      BY <2>3, <3>1
    <3>3. Ends(f[k], k) /\ f[k] \in Parses
      BY <1>6, <3>1, <3>2, EndsStep
    <3> QED BY <3>1, <3>3
  <2> HIDE DEF inv
  <2>4. \A k \in 0 .. MaxLine : f[k] \in inv[k]
    BY <1>1, <2>2, <2>3, Stepwise
  <2> QED BY <2>4 DEF inv
<1>9. p \in Parses /\ p.done /\ (~ p.short => p.sp = Null)
  <2>1. MaxLine \in 0 .. MaxLine
    BY <1>1
  <2>2. Ends(p, MaxLine) /\ p \in Parses
    BY <1>6, <1>8, <2>1
  <2>3. Place(p) <= MaxLine /\ Place(p) \in Nat
    BY <1>1, <2>2 DEF Parses, Place, Null
  <2>4. p.done
    <3> SUFFICES ASSUME ~ p.done PROVE FALSE
      OBVIOUS
    <3>1. 2 * MaxLine <= Place(p) \/ 2 * MaxLine <= Place(p) + 1
      BY <2>2 DEF Ends
    <3> QED BY <1>1, <2>3, <3>1
  <2> QED BY <2>2, <2>4 DEF Ends
<1>10. ASSUME NEW str \in Seq(Glyphs), sp = Null, ~ p.short, str = [k \in 1 .. last |-> command[k - 1]]
       PROVE  AreWords(p.words, str)
  <2>1. Len(str) = last /\ \A x \in 0 .. last - 1 : command[x] = str[x + 1] /\ command[x] \in Glyphs
    <3>1. last \in Nat
      BY <1>1
    <3>2. Len(str) = last
      BY <1>10, <3>1
    <3>3. ASSUME NEW x \in 0 .. last - 1 PROVE command[x] = str[x + 1] /\ str[x + 1] \in Glyphs
      <4>1. x + 1 \in 1 .. last /\ (x + 1) - 1 = x
        BY <3>1
      <4>2. str[x + 1] = command[x]
        BY <1>10, <4>1
      <4>3. str \in Seq(Glyphs)
        OBVIOUS
      <4>4. str[x + 1] \in Glyphs
        BY <3>2, <4>1, <4>3
      <4> QED BY <4>2, <4>4
    <3> QED BY <3>2, <3>3
  <2>2. end = last
    <3>1. last \in S
      BY <1>1
    <3>2. end <= last
      BY <1>2, <3>1 DEF end
    <3>3. ~ end \in 0 .. last - 1
      BY <1>1, <1>4, <2>1
    <3> QED BY <1>1, <1>4, <3>2, <3>3
  <2>3. /\ \A x \in 0 .. last - 1 : cells[x] = str[x + 1]
        /\ cells[last] = Nul
    <3>1. \A x \in 0 .. last : cells[x] = command[x]
      BY <1>1, <1>3, <2>2
    <3> QED BY <1>1, <2>1, <3>1
  <2>4. Splits(f[0], str)
    <3>1. Place(f[0]) = 0
      BY <1>7, <1>10 DEF Place
    <3>2. {k \in Starts(str) : k <= 0} = {}
      BY DEF Starts
    <3>3. WordsUpTo(<<>>, str, 0)
      <4> DEFINE at == [k \in {} |-> 0]
      <4>1. DOMAIN <<>> = {} /\ at \in [{} -> Starts(str)] /\ Range(at) = {}
        BY DEF Range
      <4> HIDE DEF at
      <4> QED BY <3>2, <4>1 DEF WordsUpTo
    <3> QED BY <1>1, <1>7, <2>1, <2>3, <3>1, <3>3 DEF Splits
  <2>5. \A k \in 0 .. MaxLine : Splits(f[k], str)
    <3> DEFINE inv == [k \in 0 .. MaxLine |-> {s \in Parses : Splits(s, str)}]
    <3>1. f[0] \in inv[0]
      BY <1>1, <1>6, <2>4
    <3>2. ASSUME NEW k \in 1 .. MaxLine, f[k - 1] \in inv[k - 1] PROVE f[k] \in inv[k]
      <4>1. k - 1 \in 0 .. MaxLine /\ k \in 0 .. MaxLine /\ Len(str) < MaxLine
        BY <1>1, <2>1
      <4>2. Splits(f[k - 1], str) /\ Ends(f[k - 1], k - 1)
        BY <1>8, <3>2, <4>1
      <4>3. Splits(f[k], str) /\ f[k] \in Parses
        BY <1>6, <4>1, <4>2, SplitsStep
      <4> QED BY <4>1, <4>3
    <3> HIDE DEF inv
    <3>3. \A k \in 0 .. MaxLine : f[k] \in inv[k]
      BY <1>1, <3>1, <3>2, Stepwise
    <3> QED BY <3>3 DEF inv
  <2>6. Splits(p, str)
    BY <1>1, <1>6, <2>5
  <2> QED BY <1>9, <1>10, <2>6 DEF Splits
<1> QED BY <1>9, <1>10 DEF p

-----------------------------------------------------------------------------
(* The command that is run                                                 *)

(* strtok's place outlives only a parse for which memory ran short.        *)
ParseOK ==
  /\ scommand \in Commands
  /\ sp \in Null .. MaxLine
  /\ short \in BOOLEAN \X BOOLEAN
  /\ ~ short[1] => sp = Null

(* What is known of the line and its parse whenever main waits.            *)
CommandOK == LineOK /\ ParseOK /\ RunsWhatWasTyped

(* A command is parsed and run (plumos.c:113-130).                         *)
LEMMA RunParses ==
  ASSUME CommandOK, Run
  PROVE  ParseOK' /\ RunsWhatWasTyped'
<1>1. PICK memory \in 0 .. MaxAllocations - used :
        LET p == plumos_parse_command(buf, memory)
        IN  /\ scommand' = p.cells /\ sp' = p.sp /\ ran' = p.words
            /\ short' = <<p.short, short[1]>>
  BY DEF Run
<1> DEFINE p == plumos_parse_command(buf, memory)
<1>2. pc = "run" /\ UNCHANGED <<buf, index, typed, plain>>
  BY DEF Run, line
<1>3. /\ buf \in [0 .. MaxLine - 1 -> Keys] /\ index \in 0 .. MaxLine - 1 /\ buf[index] = Nul
      /\ plain => typed \in Seq(Glyphs) /\ typed = [k \in 1 .. index |-> buf[k - 1]]
  BY <1>2 DEF CommandOK, LineOK, Keys
<1>4. /\ scommand \in Commands /\ sp \in Null .. MaxLine /\ short \in BOOLEAN \X BOOLEAN
      /\ ~ short[1] => sp = Null
  BY DEF CommandOK, ParseOK
<1>5. /\ p \in Parses /\ (~ p.short => p.sp = Null)
      /\ \A str \in Seq(Glyphs) :
           sp = Null /\ ~ p.short /\ str = [k \in 1 .. index |-> buf[k - 1]]
             => AreWords(p.words, str)
  BY <1>3, <1>4, ParseSplits
<1>6. /\ scommand' = p.cells /\ sp' = p.sp /\ ran' = p.words /\ short' = <<p.short, short[1]>>
  BY <1>1
<1> HIDE DEF p
<1>7. p.cells \in Commands /\ p.sp \in Null .. MaxLine /\ p.short \in BOOLEAN
  BY <1>5 DEF Parses
<1>8. short'[1] = p.short /\ short'[2] = short[1] /\ short' \in BOOLEAN \X BOOLEAN
  BY <1>4, <1>6, <1>7
<1>9. ParseOK'
  BY <1>5, <1>6, <1>7, <1>8 DEF ParseOK
<1>10. ASSUME plain, short' = <<FALSE, FALSE>> PROVE AreWords(ran', typed')
  <2>1. ~ p.short /\ sp = Null
    BY <1>4, <1>8, <1>10
  <2>2. AreWords(p.words, typed)
    BY <1>3, <1>5, <1>10, <2>1, Zenon
  <2>3. ran' = p.words /\ typed' = typed
    BY <1>2, <1>6
  <2> QED BY <2>2, <2>3
<1>11. RunsWhatWasTyped' <=> (pc' = "ran" /\ plain' /\ short' = <<FALSE, FALSE>> => AreWords(ran', typed'))
  BY DEF RunsWhatWasTyped, AreWords, Starts, WordAt, Argument
<1> QED BY <1>2, <1>9, <1>10, <1>11

(* The rest of main leaves what is parsed.                                 *)
LEMMA CommandStep ==
  ASSUME CommandOK, [ShellNext]_shell
  PROVE  CommandOK'
<1>1. LineOK'
  BY LineStep DEF CommandOK
<1>2. CASE Run
  BY <1>1, <1>2, RunParses DEF CommandOK
<1>3. CASE EndCommand
  <2>1. ParseOK'
    BY <1>3 DEF EndCommand, CommandOK, ParseOK
  <2>2. RunsWhatWasTyped'
    BY <1>3 DEF EndCommand, RunsWhatWasTyped
  <2> QED BY <1>1, <2>1, <2>2 DEF CommandOK
<1>4. ASSUME UNCHANGED parse, pc' # "ran" \/ UNCHANGED <<pc, plain, typed>> PROVE CommandOK'
  <2>1. ParseOK'
    BY <1>4 DEF parse, CommandOK, ParseOK
  <2>2. RunsWhatWasTyped'
    <3>1. RunsWhatWasTyped'
            <=> (pc' = "ran" /\ plain' /\ short' = <<FALSE, FALSE>> => AreWords(ran', typed'))
      BY DEF RunsWhatWasTyped, AreWords, Starts, WordAt, Argument
    <3>2. ran' = ran /\ short' = short
      BY <1>4 DEF parse
    <3>3. pc = "ran" /\ plain /\ short = <<FALSE, FALSE>> => AreWords(ran, typed)
      BY DEF CommandOK, RunsWhatWasTyped
    <3> QED BY <1>4, <3>1, <3>2, <3>3
  <2> QED BY <1>1, <2>1, <2>2 DEF CommandOK
<1>5. CASE PrintPrompt
  BY <1>4, <1>5 DEF PrintPrompt
<1>6. CASE ReadReturn
  BY <1>4, <1>6 DEF ReadReturn
<1>7. ASSUME NEW key \in Glyphs, ReadGlyph(key) PROVE CommandOK'
  BY <1>4, <1>7 DEF ReadGlyph, Echo, Store
<1>8. CASE ReadBackspace
  BY <1>4, <1>8 DEF ReadBackspace, Echo, Store
<1>9. CASE EndLine
  BY <1>4, <1>9 DEF EndLine
<1>10. ASSUME NEW str \in Others, OtherPrints(str) PROVE CommandOK'
  BY <1>4, <1>10 DEF OtherPrints, line
<1>11. CASE UNCHANGED shell
  BY <1>4, <1>11 DEF shell, line
<1> QED BY <1>2, <1>3, <1>5, <1>6, <1>7, <1>8, <1>9, <1>10, <1>11 DEF ShellNext

(* The command that is run is the line as it was typed and corrected,      *)
(* split at its spaces, for lines and arguments of any size, unless memory *)
(* ran short while it was parsed or while the one before it was; then the  *)
(* place strtok kept is gone again (plumos.c:9-58, string.c:124-177).      *)
THEOREM CommandIsLine == ShellSpec => []RunsWhatWasTyped
<1>1. ShellInit => CommandOK
  <2> SUFFICES ASSUME ShellInit PROVE CommandOK
    OBVIOUS
  <2>1. ParseOK
    <3>1. scommand = [x \in 0 .. MaxLine |-> Nul] /\ sp = Null /\ short = <<FALSE, FALSE>>
      BY DEF ShellInit
    <3>2. MaxLine \in Nat /\ Nul \in Keys
      BY LineAssumption DEF Keys
    <3>3. scommand \in Commands /\ sp \in Null .. MaxLine
      BY <3>1, <3>2 DEF Commands, Null
    <3>4. short \in BOOLEAN \X BOOLEAN
      BY <3>1
    <3> QED BY <3>1, <3>3, <3>4 DEF ParseOK
  <2>2. RunsWhatWasTyped
    BY DEF ShellInit, RunsWhatWasTyped
  <2> QED BY <2>1, <2>2, LineInit DEF CommandOK
<1>2. CommandOK /\ [ShellNext]_shell => CommandOK'
  BY CommandStep
<1>3. CommandOK => RunsWhatWasTyped
  BY DEF CommandOK
<1> QED BY <1>1, <1>2, <1>3, PTL DEF ShellSpec

==============================================================================
