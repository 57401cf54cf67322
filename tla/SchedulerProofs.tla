--------------------------- MODULE SchedulerProofs ---------------------------
(***************************************************************************)
(* The scheduler for any number of tasks and any size of the table.        *)
(*                                                                         *)
(* The proof speaks of a list l that is linked in the order of a sequence  *)
(* q (Linked).  What task_new, task_list_remove and task_get_next do to    *)
(* such a list is stated once for each, of any l and q.                    *)
(***************************************************************************)
EXTENDS Scheduler, Numbers

Lists == [head : Pointer, tail : Pointer, current : Pointer,
          next : [Tasks -> Pointer], prev : [Tasks -> Pointer]]

Members(q) == {q[i] : i \in DOMAIN q}

Distinct(q) == \A i, j \in DOMAIN q : q[i] = q[j] => i = j

Linked(l, q) ==
  LET n == Len(q)
  IN  /\ l.head = (IF n = 0 THEN NoTask ELSE q[1])
      /\ n > 0 => l.tail = q[n] /\ l.next[q[n]] = NoTask
      /\ \A i \in 1 .. n - 1 : l.next[q[i]] = q[i + 1] /\ l.prev[q[i + 1]] = q[i]

(* The prev link of the first task is not repaired when the one before it  *)
(* ends: it is null, or leads to a task that ended and is not given again. *)
HeadIsFirst ==
  order # <<>> =>
    /\ list.prev[order[1]] \in {NoTask} \cup (used \ Loaded)
    /\ ReuseFreed => list.prev[order[1]] = NoTask

(* The kernel's two notions of the current one, before user mode too.      *)
CurrentIsLoaded ==
  /\ Loaded \subseteq used
  /\ mode # "panic" /\ order # <<>> => list.current \in Loaded /\ focus \in Loaded
  /\ mode = "boot" => cpu = NoTask

SchedInv ==
  /\ TypeOK /\ WellLinked /\ TableMatchesTasks
  /\ CpuIsCurrent /\ FocusIsLoaded /\ HeadIsFirst /\ CurrentIsLoaded

-----------------------------------------------------------------------------
(* Sequences                                                               *)

(* Appending a new task.                                                   *)
LEMMA AppendFacts ==
  ASSUME NEW q \in Seq(Tasks), Distinct(q), NEW t \in Tasks, t \notin Members(q)
  PROVE  /\ Append(q, t) \in Seq(Tasks)
         /\ Len(Append(q, t)) = Len(q) + 1
         /\ \A i \in 1 .. Len(q) : Append(q, t)[i] = q[i]
         /\ Append(q, t)[Len(q) + 1] = t
         /\ Members(Append(q, t)) = Members(q) \cup {t}
         /\ Distinct(Append(q, t))
<1> DEFINE r == Append(q, t)
<1>1. /\ r \in Seq(Tasks)
      /\ Len(r) = Len(q) + 1
      /\ \A i \in 1 .. Len(q) : r[i] = q[i]
      /\ r[Len(q) + 1] = t
      /\ DOMAIN r = 1 .. Len(q) + 1
      /\ DOMAIN q = 1 .. Len(q) /\ Len(q) \in Nat
  OBVIOUS
<1> HIDE DEF r
<1>2. Members(r) = Members(q) \cup {t}
  BY <1>1 DEF Members
<1>3. Distinct(r)
  BY <1>1 DEF Distinct, Members
<1> QED BY <1>1, <1>2, <1>3 DEF r

(* Taking out the last task, and the first.                                *)
LEMMA WithoutFacts ==
  ASSUME NEW q \in Seq(Tasks), Distinct(q), NEW k \in DOMAIN q
  PROVE  /\ R!Without(q, q[k]) \in Seq(Tasks)
         /\ Len(R!Without(q, q[k])) = Len(q) - 1
         /\ \A i \in 1 .. Len(q) - 1 :
              R!Without(q, q[k])[i] = IF i < k THEN q[i] ELSE q[i + 1]
         /\ Members(R!Without(q, q[k])) = Members(q) \ {q[k]}
         /\ Distinct(R!Without(q, q[k]))
<1> DEFINE r == R!Without(q, q[k])
<1>1. Len(q) \in Nat \ {0} /\ DOMAIN q = 1 .. Len(q) /\ k \in 1 .. Len(q)
  OBVIOUS
<1>2. \A i \in 1 .. Len(q) - 1 : (\E j \in 1 .. i : q[j] = q[k]) <=> k <= i
  BY <1>1 DEF Distinct
<1>3. r = [i \in 1 .. Len(q) - 1 |-> IF i < k THEN q[i] ELSE q[i + 1]]
  BY <1>1, <1>2 DEF R!Without
<1> HIDE DEF r
<1>4. r \in Seq(Tasks) /\ Len(r) = Len(q) - 1 /\ DOMAIN r = 1 .. Len(q) - 1
  BY <1>1, <1>3
<1>5. Members(r) = Members(q) \ {q[k]}
  <2>1. ASSUME NEW i \in DOMAIN q, i # k PROVE q[i] \in Members(r)
    <3>1. CASE i < k
      BY <1>1, <1>3, <1>4, <3>1 DEF Members
    <3>2. CASE i > k
      <4>1. i - 1 \in DOMAIN r /\ r[i - 1] = q[i]
        BY <1>1, <1>3, <1>4, <3>2
      <4> QED BY <4>1 DEF Members
    <3> QED BY <1>1, <2>1, <3>1, <3>2
  <2>2. ASSUME NEW i \in DOMAIN r PROVE r[i] \in Members(q) \ {q[k]}
    BY <1>1, <1>3, <1>4 DEF Members, Distinct
  <2> QED BY <2>1, <2>2 DEF Members
<1>6. Distinct(r)
  BY <1>1, <1>3, <1>4 DEF Distinct
<1> QED BY <1>3, <1>4, <1>5, <1>6 DEF r

-----------------------------------------------------------------------------
(* The list                                                                *)

(* task_new and task_list_remove, field by field.                          *)
LEMMA NewFields ==
  ASSUME NEW l \in Lists, NEW t \in Tasks, l.head # NoTask, l.tail \in Tasks, l.tail # t
  PROVE  task_new(l, t) = [head |-> l.head, tail |-> t, current |-> l.current,
                           next |-> [l.next EXCEPT ![t] = NoTask, ![l.tail] = t],
                           prev |-> [l.prev EXCEPT ![t] = l.tail]]
<1>1. PICK h \in Pointer, e \in Pointer, c \in Pointer,
           next \in [Tasks -> Pointer], prev \in [Tasks -> Pointer] :
        l = [head |-> h, tail |-> e, current |-> c, next |-> next, prev |-> prev]
  BY DEF Lists
<1>2. l.head = h /\ l.tail = e /\ l.current = c /\ l.next = next /\ l.prev = prev
  BY <1>1
<1>3. task_new([head |-> h, tail |-> e, current |-> c, next |-> next, prev |-> prev], t)
      = [head |-> h, tail |-> t, current |-> c,
         next |-> [next EXCEPT ![t] = NoTask, ![e] = t], prev |-> [prev EXCEPT ![t] = e]]
  BY <1>2 DEF task_new
<1>4. task_new(l, t)
      = [head |-> h, tail |-> t, current |-> c,
         next |-> [next EXCEPT ![t] = NoTask, ![e] = t], prev |-> [prev EXCEPT ![t] = e]]
  BY <1>1, <1>3, Zenon
<1> QED BY <1>2, <1>4, Zenon

(* task_new on an empty list (task.c:45-51).                               *)
LEMMA NewFieldsOfEmpty ==
  ASSUME NEW l \in Lists, NEW t \in Tasks, l.head = NoTask
  PROVE  task_new(l, t) = [head |-> t, tail |-> t, current |-> t,
                           next |-> [l.next EXCEPT ![t] = NoTask],
                           prev |-> [l.prev EXCEPT ![t] = NoTask]]
<1>1. PICK e \in Pointer, c \in Pointer,
           next \in [Tasks -> Pointer], prev \in [Tasks -> Pointer] :
        l = [head |-> NoTask, tail |-> e, current |-> c, next |-> next, prev |-> prev]
  BY DEF Lists
<1>2. l.next = next /\ l.prev = prev
  BY <1>1
<1>3. task_new([head |-> NoTask, tail |-> e, current |-> c, next |-> next, prev |-> prev], t)
      = [head |-> t, tail |-> t, current |-> t,
         next |-> [next EXCEPT ![t] = NoTask], prev |-> [prev EXCEPT ![t] = NoTask]]
  BY DEF task_new
<1>4. task_new(l, t)
      = [head |-> t, tail |-> t, current |-> t,
         next |-> [next EXCEPT ![t] = NoTask], prev |-> [prev EXCEPT ![t] = NoTask]]
  BY <1>1, <1>3, Zenon
<1> QED BY <1>2, <1>4, Zenon

Unlinked(l, t) ==
  IF l.prev[t] = NoTask THEN l.next ELSE [l.next EXCEPT ![l.prev[t]] = l.next[t]]

HeadWithout(l, t) == IF t = l.head THEN l.next[t] ELSE l.head

(* task_list_remove, field by field (task.c:76).                           *)
LEMMA RemoveFields ==
  ASSUME NEW l \in Lists, NEW t \in Tasks
  PROVE  task_list_remove(l, t)
         = [head |-> HeadWithout(l, t),
            tail |-> IF t = l.tail THEN l.prev[t] ELSE l.tail,
            current |-> IF t # l.current THEN l.current
                        ELSE IF l.next[t] = NoTask THEN HeadWithout(l, t) ELSE l.next[t],
            next |-> Unlinked(l, t), prev |-> l.prev]
<1>1. PICK h \in Pointer, e \in Pointer, c \in Pointer,
           next \in [Tasks -> Pointer], prev \in [Tasks -> Pointer] :
        l = [head |-> h, tail |-> e, current |-> c, next |-> next, prev |-> prev]
  BY DEF Lists
<1>2. l.head = h /\ l.tail = e /\ l.current = c /\ l.next = next /\ l.prev = prev
  BY <1>1
<1> DEFINE first == IF t = h THEN next[t] ELSE h
           after == IF prev[t] = NoTask THEN next ELSE [next EXCEPT ![prev[t]] = next[t]]
           without == [head |-> first, tail |-> IF t = e THEN prev[t] ELSE e,
                       current |-> IF t # c THEN c
                                   ELSE IF next[t] = NoTask THEN first ELSE next[t],
                       next |-> after, prev |-> prev]
<1>3. task_list_remove([head |-> h, tail |-> e, current |-> c, next |-> next, prev |-> prev], t)
      = without
  <2>1. CASE prev[t] = NoTask
    BY <2>1 DEF task_list_remove, task_get_next
  <2>2. CASE prev[t] # NoTask
    BY <2>2 DEF task_list_remove, task_get_next
  <2> QED BY <2>1, <2>2
<1>4. task_list_remove(l, t) = without
  BY <1>1, <1>3, Zenon
<1> QED BY <1>2, <1>4, Zenon DEF HeadWithout, Unlinked

(* task_new links a task that is not in the list after its tail; the task  *)
(* becomes the current one only of an empty list (task.c:36-58).           *)
LEMMA NewIsLinked ==
  ASSUME NEW l \in Lists, NEW q \in Seq(Tasks), Distinct(q), Linked(l, q),
         NEW t \in Tasks, t \notin Members(q)
  PROVE  /\ task_new(l, t) \in Lists
         /\ Linked(task_new(l, t), Append(q, t))
         /\ task_new(l, t).current = IF q = <<>> THEN t ELSE l.current
         /\ \A u \in Tasks \ {t} : task_new(l, t).prev[u] = l.prev[u]
         /\ \A u \in Tasks \ {t} : Len(q) = 0 \/ u # q[Len(q)] => task_new(l, t).next[u] = l.next[u]
         /\ task_new(l, t).prev[t] = IF q = <<>> THEN NoTask ELSE q[Len(q)]
         /\ task_new(l, t).head = IF q = <<>> THEN t ELSE l.head
<1> DEFINE r == Append(q, t)
           n == Len(q)
<1>1. /\ n \in Nat
      /\ Len(r) = n + 1
      /\ \A i \in 1 .. n : r[i] = q[i] /\ q[i] \in Tasks /\ q[i] # t
      /\ r[n + 1] = t
      /\ q = <<>> <=> n = 0
  BY AppendFacts DEF Members
<1> HIDE DEF r
<1>2. l.head = NoTask <=> n = 0
  BY <1>1, NoTaskAssumption DEF Linked
<1>0. /\ l = [head |-> l.head, tail |-> l.tail, current |-> l.current,
                next |-> l.next, prev |-> l.prev]
      /\ l.head \in Pointer /\ l.tail \in Pointer /\ l.current \in Pointer
      /\ l.next \in [Tasks -> Pointer] /\ l.prev \in [Tasks -> Pointer]
  BY DEF Lists
<1>3. CASE n = 0
  <2>1. task_new(l, t) = [head |-> t, tail |-> t, current |-> t,
                          next |-> [l.next EXCEPT ![t] = NoTask],
                          prev |-> [l.prev EXCEPT ![t] = NoTask]]
    BY <1>2, <1>3, NewFieldsOfEmpty
  <2>2. task_new(l, t) \in Lists
    BY <1>0, <2>1 DEF Lists, Pointer
  <2>3. Linked(task_new(l, t), r)
    BY <1>0, <1>1, <1>3, <2>1 DEF Linked
  <2> QED BY <1>0, <1>1, <1>3, <2>1, <2>2, <2>3 DEF r
<1>4. CASE n > 0
  <2> DEFINE m == task_new(l, t)
             last == q[n]
  <2>1. /\ l.tail = last /\ last \in Tasks /\ last # t
        /\ l.next[last] = NoTask
        /\ \A i \in 1 .. n - 1 : q[i] # last
    BY <1>1, <1>4 DEF Linked, Distinct
  <2>2. m = [head |-> l.head, tail |-> t, current |-> l.current,
             next |-> [l.next EXCEPT ![t] = NoTask, ![last] = t],
             prev |-> [l.prev EXCEPT ![t] = last]]
    <3>1. l.head # NoTask /\ l.tail \in Tasks /\ l.tail # t
      BY <1>1, <1>2, <1>4, <2>1
    <3>2. m = [head |-> l.head, tail |-> t, current |-> l.current,
               next |-> [l.next EXCEPT ![t] = NoTask, ![l.tail] = t],
               prev |-> [l.prev EXCEPT ![t] = l.tail]]
      BY <3>1, NewFields
    <3> QED BY <2>1, <3>2, Zenon
  <2>3. m \in Lists
    BY <1>0, <2>1, <2>2 DEF Lists, Pointer
  <2>4. Linked(m, r)
    <3>1. m.head = r[1] /\ m.tail = r[n + 1] /\ m.next[r[n + 1]] = NoTask
      BY <1>1, <1>4, <2>1, <2>2 DEF Linked, Lists
    <3>2. ASSUME NEW i \in 1 .. n
          PROVE  m.next[r[i]] = r[i + 1] /\ m.prev[r[i + 1]] = r[i]
      <4>1. CASE i = n
        BY <1>1, <2>1, <2>2, <4>1 DEF Lists
      <4>2. CASE i < n
        <5>1. /\ r[i] = q[i] /\ r[i + 1] = q[i + 1]
              /\ l.next[q[i]] = q[i + 1] /\ l.prev[q[i + 1]] = q[i]
          BY <1>1, <4>2 DEF Linked
        <5>2. q[i] # last /\ q[i] # t /\ q[i + 1] # t /\ q[i] \in Tasks /\ q[i + 1] \in Tasks
          BY <1>1, <2>1, <4>2
        <5> QED BY <2>2, <5>1, <5>2 DEF Lists
      <4> QED BY <4>1, <4>2
    <3> QED BY <1>1, <1>4, <3>1, <3>2 DEF Linked
  <2> HIDE DEF m
  <2>5. /\ m.current = l.current /\ m.head = l.head
        /\ \A u \in Tasks \ {t} : m.prev[u] = l.prev[u]
        /\ \A u \in Tasks \ {t} : u # last => m.next[u] = l.next[u]
        /\ m.prev[t] = last
    BY <2>1, <2>2 DEF Lists
  <2> QED BY <1>1, <1>4, <2>3, <2>4, <2>5 DEF m, r
<1> QED BY <1>1, <1>3, <1>4

(* The task after the current one, round the list (task.c:71-77).          *)
LEMMA NextRoundTheList ==
  ASSUME NEW l \in Lists, NEW q \in Seq(Tasks), Linked(l, q),
         NEW i \in DOMAIN q, l.current = q[i]
  PROVE  /\ task_get_next(l) = q[(i % Len(q)) + 1]
         /\ (i % Len(q)) + 1 \in DOMAIN q
<1>1. Len(q) \in Nat \ {0} /\ DOMAIN q = 1 .. Len(q) /\ \A j \in 1 .. Len(q) : q[j] \in Tasks
  OBVIOUS
<1>2. CASE i = Len(q)
  BY <1>1, <1>2 DEF task_get_next, Linked
<1>3. CASE i < Len(q)
  <2>1. l.next[q[i]] = q[i + 1] /\ q[i + 1] # NoTask
    BY <1>1, <1>3, NoTaskAssumption DEF Linked
  <2>2. i % Len(q) = i
    BY <1>1, <1>3
  <2> QED BY <1>1, <1>3, <2>1, <2>2 DEF task_get_next
<1> QED BY <1>1, <1>2, <1>3

(* task_list_remove of the last of several tasks.                          *)
LEMMA TailRemoved ==
  ASSUME NEW l \in Lists, NEW q \in Seq(Tasks), Distinct(q), Linked(l, q), Len(q) > 1
  PROVE  LET t == q[Len(q)]
             rest == task_list_remove(l, t)
         IN  /\ rest \in Lists
             /\ Linked(rest, R!Without(q, t))
             /\ rest.current = IF t # l.current THEN l.current ELSE q[1]
             /\ rest.prev = l.prev
<1> DEFINE n == Len(q)
           t == q[n]
           r == R!Without(q, t)
           rest == task_list_remove(l, t)
<1>1. /\ n \in Nat /\ n > 1 /\ DOMAIN q = 1 .. n
      /\ \A i \in 1 .. n : q[i] \in Tasks
      /\ \A i \in 1 .. n - 1 : q[i] # t
      /\ Len(r) = n - 1 /\ \A i \in 1 .. n - 1 : r[i] = q[i]
      /\ t = q[n]
  BY WithoutFacts DEF Distinct
<1> HIDE DEF rest, r, t
<1>2. /\ l.head = q[1] /\ l.tail = t /\ l.next[t] = NoTask /\ l.prev[t] = q[n - 1]
      /\ q[1] # t /\ q[n - 1] # NoTask
  <2>1. n - 1 \in 1 .. n - 1 /\ (n - 1) + 1 = n /\ 1 \in 1 .. n - 1
    BY <1>1
  <2>2. q[n - 1] \in Tasks /\ q[1] # t
    BY <1>1, <2>1
  <2>3. l.prev[q[(n - 1) + 1]] = q[n - 1]
    BY <2>1 DEF Linked
  <2>4. l.head = q[1] /\ l.tail = t /\ l.next[t] = NoTask
    BY <1>1 DEF Linked
  <2> QED BY <1>1, <2>1, <2>2, <2>3, <2>4, NoTaskAssumption
<1>3. rest = [head |-> q[1], tail |-> q[n - 1],
              current |-> IF t # l.current THEN l.current ELSE q[1],
              next |-> [l.next EXCEPT ![q[n - 1]] = NoTask], prev |-> l.prev]
  <2>1. HeadWithout(l, t) = q[1] /\ Unlinked(l, t) = [l.next EXCEPT ![q[n - 1]] = NoTask]
    BY <1>2 DEF HeadWithout, Unlinked
  <2>2. t \in Tasks
    BY <1>1
  <2> QED BY <1>2, <2>1, <2>2, RemoveFields DEF rest
<1>4. l.next \in [Tasks -> Pointer] /\ l.prev \in [Tasks -> Pointer] /\ l.current \in Pointer
  BY DEF Lists
<1>5. rest \in Lists
  <2>1. q[1] \in Pointer /\ q[n - 1] \in Tasks /\ q[n - 1] \in Pointer
    BY <1>1 DEF Pointer
  <2>2. [l.next EXCEPT ![q[n - 1]] = NoTask] \in [Tasks -> Pointer]
    BY <1>4 DEF Pointer
  <2> QED BY <1>3, <1>4, <2>1, <2>2 DEF Lists
<1>6. Linked(rest, r)
  <2>1. rest.head = r[1] /\ rest.tail = r[n - 1] /\ rest.next[r[n - 1]] = NoTask
    BY <1>1, <1>3, <1>4
  <2>2. ASSUME NEW i \in 1 .. Len(r) - 1
        PROVE  rest.next[r[i]] = r[i + 1] /\ rest.prev[r[i + 1]] = r[i]
    <3>1. q[i] # q[n - 1] /\ r[i] = q[i] /\ r[i + 1] = q[i + 1] /\ q[i] \in Tasks
      BY <1>1 DEF Distinct
    <3>2. l.next[q[i]] = q[i + 1] /\ l.prev[q[i + 1]] = q[i]
      BY <1>1 DEF Linked
    <3>3. rest.next = [l.next EXCEPT ![q[n - 1]] = NoTask] /\ rest.prev = l.prev
      BY <1>3
    <3>4. rest.next[q[i]] = l.next[q[i]]
      BY <1>4, <3>1, <3>3
    <3> QED BY <3>1, <3>2, <3>3, <3>4
  <2> QED BY <1>1, <2>1, <2>2 DEF Linked
<1>7. rest.current = (IF t # l.current THEN l.current ELSE q[1]) /\ rest.prev = l.prev
  BY <1>3
<1> QED BY <1>5, <1>6, <1>7 DEF rest, r, t

(* task_list_remove of the first task, whose prev link leads to no task of *)
(* the list.                                                               *)
LEMMA HeadRemoved ==
  ASSUME NEW l \in Lists, NEW q \in Seq(Tasks), Distinct(q), Linked(l, q), q # <<>>,
         l.prev[q[1]] \notin Members(q)
  PROVE  LET t == q[1]
             rest == task_list_remove(l, t)
         IN  /\ rest \in Lists
             /\ Linked(rest, R!Without(q, t))
             /\ rest.current = IF t # l.current THEN l.current
                               ELSE IF Len(q) = 1 THEN NoTask ELSE q[2]
             /\ rest.prev = l.prev
<1> DEFINE n == Len(q)
           t == q[1]
           r == R!Without(q, t)
           rest == task_list_remove(l, t)
           before == l.prev[t]
<1>1. /\ n \in Nat \ {0} /\ DOMAIN q = 1 .. n /\ t = q[1] /\ t \in Tasks
      /\ \A i \in 1 .. n : q[i] \in Tasks /\ q[i] # before
      /\ \A i \in 2 .. n : q[i] # t
      /\ Len(r) = n - 1 /\ \A i \in 1 .. n - 1 : r[i] = q[i + 1]
      /\ before = l.prev[t]
  BY WithoutFacts DEF Distinct, Members
<1> HIDE DEF rest, r, t, before
<1>2. /\ l.next \in [Tasks -> Pointer] /\ l.prev \in [Tasks -> Pointer]
      /\ l.current \in Pointer /\ l.tail \in Pointer /\ before \in Pointer
  BY <1>1 DEF Lists
<1>3. /\ l.head = t /\ l.tail = q[n]
      /\ l.next[t] = (IF n = 1 THEN NoTask ELSE q[2])
      /\ n > 1 => l.prev[q[2]] = t
  <2>1. n > 1 => 1 \in 1 .. n - 1 /\ 1 + 1 = 2
    BY <1>1
  <2>2. n > 1 => l.next[q[1]] = q[1 + 1] /\ l.prev[q[1 + 1]] = q[1]
    BY <2>1 DEF Linked
  <2>3. l.head = q[1] /\ l.tail = q[n] /\ l.next[q[n]] = NoTask
    BY <1>1 DEF Linked
  <2> QED BY <1>1, <2>1, <2>2, <2>3
<1>4. rest = [head |-> l.next[t], tail |-> IF t = l.tail THEN before ELSE l.tail,
              current |-> IF t # l.current THEN l.current ELSE l.next[t],
              next |-> Unlinked(l, t), prev |-> l.prev]
  <2>1. HeadWithout(l, t) = l.next[t]
    BY <1>3 DEF HeadWithout
  <2>2. (IF l.next[t] = NoTask THEN l.next[t] ELSE l.next[t]) = l.next[t]
    OBVIOUS
  <2> QED BY <1>1, <2>1, <2>2, RemoveFields DEF rest
<1>5. /\ Unlinked(l, t) \in [Tasks -> Pointer]
      /\ \A i \in 1 .. n : Unlinked(l, t)[q[i]] = l.next[q[i]]
  BY <1>1, <1>2 DEF Unlinked, Pointer
<1>6. rest \in Lists
  <2>1. l.next[t] \in Pointer
    BY <1>1, <1>2 DEF t
  <2> QED BY <1>2, <1>4, <1>5, <2>1 DEF Lists
<1>7. Linked(rest, r)
  <2>1. CASE n = 1
    BY <1>1, <1>3, <1>4, <2>1 DEF Linked
  <2>2. CASE n > 1
    <3>1. /\ rest.head = r[1] /\ rest.tail = r[n - 1]
          /\ rest.next[r[n - 1]] = NoTask
      <4>1. t # q[n] /\ r[n - 1] = q[n] /\ r[1] = q[2] /\ l.next[q[n]] = NoTask
        BY <1>1, <2>2 DEF Linked
      <4> QED BY <1>1, <1>3, <1>4, <1>5, <2>2, <4>1
    <3>2. ASSUME NEW i \in 1 .. Len(r) - 1
          PROVE  rest.next[r[i]] = r[i + 1] /\ rest.prev[r[i + 1]] = r[i]
      <4>1. l.next[q[i + 1]] = q[i + 2] /\ l.prev[q[i + 2]] = q[i + 1]
        <5>1. i + 1 \in 1 .. n - 1 /\ (i + 1) + 1 = i + 2
          BY <1>1
        <5>2. l.next[q[i + 1]] = q[(i + 1) + 1] /\ l.prev[q[(i + 1) + 1]] = q[i + 1]
          BY <5>1 DEF Linked
        <5> QED BY <5>1, <5>2
      <4>2. r[i] = q[i + 1] /\ r[i + 1] = q[i + 2] /\ i + 1 \in 1 .. n
        BY <1>1
      <4>3. rest.next = Unlinked(l, t) /\ rest.prev = l.prev
        BY <1>4
      <4> QED BY <1>5, <4>1, <4>2, <4>3
    <3>3. Len(r) = n - 1 /\ n - 1 # 0 /\ n - 1 > 0
      BY <1>1, <2>2
    <3> HIDE DEF rest, r, n, t
    <3> QED BY <3>1, <3>2, <3>3 DEF Linked
  <2> QED BY <1>1, <2>1, <2>2
<1>8. /\ rest.current = IF t # l.current THEN l.current
                        ELSE IF n = 1 THEN NoTask ELSE q[2]
      /\ rest.prev = l.prev
  BY <1>3, <1>4
<1> QED BY <1>6, <1>7, <1>8 DEF rest, r, t

(* A load that fails in process_map_memory (process.c:573-580): the task   *)
(* that was linked is unlinked, and the list is what it was.               *)
LEMMA LinkedAndRemoved ==
  ASSUME NEW l \in Lists, NEW q \in Seq(Tasks), Distinct(q), Linked(l, q), q # <<>>,
         NEW t \in Tasks, t \notin Members(q), l.current # t
  PROVE  LET rest == task_list_remove(task_new(l, t), t)
         IN  /\ rest \in Lists
             /\ Linked(rest, q)
             /\ rest.current = l.current
             /\ \A u \in Tasks \ {t} : rest.prev[u] = l.prev[u]
<1> DEFINE m == task_new(l, t)
           r == Append(q, t)
<1>1. /\ r \in Seq(Tasks) /\ Distinct(r) /\ Len(r) = Len(q) + 1 /\ r[Len(r)] = t
      /\ \A i \in 1 .. Len(q) : r[i] = q[i]
      /\ Len(q) \in Nat \ {0}
  BY AppendFacts
<1>2. /\ m \in Lists /\ Linked(m, r) /\ m.current = l.current
      /\ \A u \in Tasks \ {t} : m.prev[u] = l.prev[u]
  BY NewIsLinked
<1> HIDE DEF m, r
<1>3. R!Without(r, t) = q
  <2> DEFINE w == R!Without(r, t)
  <2>1. Len(r) \in DOMAIN r
    BY <1>1
  <2>2. /\ w \in Seq(Tasks) /\ Len(w) = Len(q)
        /\ \A i \in 1 .. Len(q) : w[i] = q[i]
    <3>1. /\ R!Without(r, r[Len(r)]) \in Seq(Tasks)
          /\ Len(R!Without(r, r[Len(r)])) = Len(r) - 1
          /\ \A i \in 1 .. Len(r) - 1 :
               R!Without(r, r[Len(r)])[i] = IF i < Len(r) THEN r[i] ELSE r[i + 1]
      BY <1>1, <2>1, WithoutFacts
    <3> QED BY <1>1, <3>1
  <2> HIDE DEF w
  <2>3. w = q
    BY <1>1, <2>2
  <2> QED BY <2>3 DEF w
<1>4. LET rest == task_list_remove(m, t)
      IN  /\ rest \in Lists
          /\ Linked(rest, R!Without(r, t))
          /\ rest.current = IF t # m.current THEN m.current ELSE r[1]
          /\ rest.prev = m.prev
  BY <1>1, <1>2, TailRemoved
<1> QED BY <1>2, <1>3, <1>4 DEF m

(* task_switch changes current_task only.                                  *)
LEMMA SwitchFacts ==
  ASSUME NEW l \in Lists, NEW t \in Tasks
  PROVE  /\ task_switch(l, t) \in Lists
         /\ task_switch(l, t).current = t
         /\ task_switch(l, t).prev = l.prev
         /\ task_switch(l, t).next = l.next
         /\ task_switch(l, t).head = l.head
         /\ \A q : Linked(l, q) => Linked(task_switch(l, t), q)
<1>1. task_switch(l, t) = [head |-> l.head, tail |-> l.tail, current |-> t,
                           next |-> l.next, prev |-> l.prev]
  BY DEF task_switch, Lists
<1> QED BY <1>1 DEF Lists, Linked, Pointer

(* The task after one of the list is one of the list.                      *)
LEMMA NextIsMember ==
  ASSUME NEW l \in Lists, NEW q \in Seq(Tasks), Linked(l, q), l.current \in Members(q)
  PROVE  task_get_next(l) \in Members(q)
<1>1. PICK i \in DOMAIN q : l.current = q[i]
  BY DEF Members
<1> QED BY <1>1, NextRoundTheList DEF Members

-----------------------------------------------------------------------------
(* The table                                                               *)

(* process_get_free_slot finds one when there is one.                      *)
LEMMA FreeSlotFound ==
  ASSUME FreeSlots # {}
  PROVE  process_get_free_slot \in FreeSlots
<1>1. FreeSlots \in SUBSET Nat
  BY SlotsAssumption DEF FreeSlots, Slots
<1>2. \E s \in FreeSlots : \A r \in FreeSlots : s <= r
  BY <1>1, LeastNumber
<1> QED BY <1>2 DEF process_get_free_slot

(* process_swtich_to_any finds a process when there is one.                *)
LEMMA FirstProcessFound ==
  ASSUME NEW table
  PROVE  \/ /\ FirstProcess(table) = NoTask
            /\ \A s \in Slots : table[s] = NoTask
         \/ \E s \in Slots : FirstProcess(table) = table[s] /\ table[s] # NoTask
<1> DEFINE taken == {s \in Slots : table[s] # NoTask}
<1>1. CASE taken = {}
  BY <1>1 DEF FirstProcess
<1>2. CASE taken # {}
  <2>1. taken \in SUBSET Nat
    BY SlotsAssumption DEF Slots
  <2>2. \E s \in taken : \A r \in taken : s <= r
    BY <1>2, <2>1, LeastNumber
  <2>3. (CHOOSE s \in taken : \A r \in taken : s <= r) \in taken
    BY <2>2
  <2> QED BY <1>2, <2>3 DEF FirstProcess
<1> QED BY <1>1, <1>2

-----------------------------------------------------------------------------
(* The invariant                                                           *)

(* The parts of the invariant that most proofs need.                       *)
LEMMA InvFacts ==
  ASSUME SchedInv
  PROVE  /\ list \in Lists /\ order \in Seq(Tasks) /\ Distinct(order)
         /\ Linked(list, order) /\ Loaded = Members(order) /\ Loaded \subseteq Tasks
         /\ used \subseteq Tasks
         /\ Loaded = {} <=> order = <<>>
<1>1. list \in Lists /\ order \in Seq(Tasks) /\ Distinct(order) /\ Linked(list, order)
  BY DEF SchedInv, TypeOK, Lists, WellLinked, Linked, TableMatchesTasks, Distinct
<1>2. Loaded = Members(order) /\ Loaded \subseteq Tasks
  BY <1>1 DEF Loaded, Members
<1>3. order # <<>> => order[1] \in Loaded
  BY <1>1 DEF Loaded
<1>4. order = <<>> => Loaded = {}
  BY DEF Loaded
<1> QED BY <1>1, <1>2, <1>3, <1>4 DEF SchedInv, TypeOK

(* The same, to establish it.                                              *)
LEMMA FactsInv ==
  ASSUME list \in Lists, order \in Seq(Tasks), Distinct(order), Linked(list, order),
         processes \in [Slots -> Pointer], id \in [Tasks -> Slots], focus \in Pointer,
         cpu \in Pointer, mode \in {"boot", "user", "panic"}, used \subseteq Tasks,
         \A s \in Slots : processes[s] # NoTask =>
           processes[s] \in Loaded /\ id[processes[s]] = s,
         \A t \in Loaded : processes[id[t]] = t,
         CpuIsCurrent, FocusIsLoaded, HeadIsFirst, CurrentIsLoaded
  PROVE  SchedInv
BY DEF SchedInv, TypeOK, Lists, WellLinked, Linked, TableMatchesTasks, Distinct

(* The invariant holds before the first load.                              *)
LEMMA SchedInit == Init => SchedInv
<1> SUFFICES ASSUME Init PROVE SchedInv
  OBVIOUS
<1>1. order = <<>> /\ Loaded = {} /\ Len(order) = 0
  BY DEF Init, Loaded
<1>2. list \in Lists /\ Linked(list, order)
  BY <1>1 DEF Init, Lists, Pointer, Linked
<1>3. /\ processes \in [Slots -> Pointer] /\ id \in [Tasks -> Slots]
      /\ \A s \in Slots : processes[s] = NoTask
  BY SlotsAssumption DEF Init, Pointer, Slots
<1>4. CpuIsCurrent /\ FocusIsLoaded /\ HeadIsFirst /\ CurrentIsLoaded
  BY <1>1 DEF Init, CpuIsCurrent, FocusIsLoaded, HeadIsFirst, CurrentIsLoaded
<1>5. /\ Distinct(order) /\ order \in Seq(Tasks)
      /\ focus \in Pointer /\ cpu \in Pointer /\ used \subseteq Tasks
      /\ mode \in {"boot", "user", "panic"}
  BY <1>1 DEF Init, Distinct, Pointer
<1> QED BY <1>1, <1>2, <1>3, <1>4, <1>5, FactsInv

-----------------------------------------------------------------------------
(* The steps                                                               *)

(* A program that was loaded: whatever the list makes of the new task, as  *)
(* long as it is at the end of it (process_load_for_slot).                 *)
LEMMA EnterKeepsInv ==
  ASSUME SchedInv, FreeSlots # {}, NEW t \in FreshTasks, EnterProcess(t),
         mode' = mode, mode # "panic",
         list' \in Lists, Linked(list', Append(order, t)),
         \A u \in Tasks \ {t} : list'.prev[u] = list.prev[u],
         order = <<>> => list'.prev[t] = NoTask,
         list'.current \in Loaded \cup {t},
         cpu' \in Pointer,
         mode = "user" => cpu' = list'.current,
         mode = "boot" => cpu' = NoTask
  PROVE  SchedInv'
<1> DEFINE slot == process_get_free_slot
<1>1. /\ order \in Seq(Tasks) /\ Distinct(order) /\ Loaded = Members(order)
      /\ Loaded \subseteq Tasks /\ used \subseteq Tasks /\ Loaded \subseteq used
      /\ processes \in [Slots -> Pointer] /\ id \in [Tasks -> Slots]
      /\ mode \in {"boot", "user", "panic"}
  BY InvFacts DEF SchedInv, TypeOK, CurrentIsLoaded
<1>2. t \in Tasks /\ t \notin Loaded /\ (~ ReuseFreed => t \notin used)
  BY <1>1 DEF FreshTasks
<1>3. slot \in Slots /\ processes[slot] = NoTask
  BY FreeSlotFound DEF FreeSlots
<1> HIDE DEF slot
<1>4. /\ processes' = [processes EXCEPT ![slot] = t] /\ id' = [id EXCEPT ![t] = slot]
      /\ focus' = t /\ order' = Append(order, t) /\ used' = used \cup {t}
  BY DEF EnterProcess, slot
<1>5. /\ order' \in Seq(Tasks) /\ Distinct(order') /\ Loaded' = Loaded \cup {t}
      /\ order' # <<>> /\ Len(order') = Len(order) + 1
      /\ order'[1] = IF order = <<>> THEN t ELSE order[1]
  <2>1. /\ order' \in Seq(Tasks) /\ Distinct(order') /\ Members(order') = Members(order) \cup {t}
        /\ Len(order') = Len(order) + 1 /\ order'[Len(order) + 1] = t
        /\ \A i \in 1 .. Len(order) : order'[i] = order[i]
    BY <1>1, <1>2, <1>4, AppendFacts
  <2>2. Loaded' = Members(order')
    BY DEF Loaded, Members
  <2> QED BY <1>1, <2>1, <2>2
<1>6. TypeOK'
  BY <1>1, <1>2, <1>3, <1>4, <1>5 DEF TypeOK, Lists, Pointer
<1>7. WellLinked'
  BY <1>4 DEF WellLinked, Linked
<1>8. TableMatchesTasks'
  <2>1. \A i, j \in DOMAIN order' : order'[i] = order'[j] => i = j
    BY <1>5 DEF Distinct
  <2>2. \A s \in Slots : processes[s] # NoTask => processes[s] \in Loaded /\ id[processes[s]] = s
    BY DEF SchedInv, TableMatchesTasks
  <2>3. \A u \in Loaded : processes[id[u]] = u
    BY DEF SchedInv, TableMatchesTasks
  <2>4. ASSUME NEW s \in Slots, processes'[s] # NoTask
        PROVE  processes'[s] \in Loaded' /\ id'[processes'[s]] = s
    BY <1>1, <1>2, <1>3, <1>4, <1>5, <2>2, <2>4
  <2>5. ASSUME NEW u \in Loaded' PROVE processes'[id'[u]] = u
    <3>1. CASE u = t
      BY <1>1, <1>2, <1>3, <1>4, <3>1
    <3>2. CASE u # t
      <4>1. u \in Loaded /\ u \in Tasks /\ id[u] \in Slots /\ id'[u] = id[u]
        BY <1>1, <1>4, <1>5, <3>2
      <4>2. id[u] # slot
        BY <1>1, <1>3, <2>3, <4>1, NoTaskAssumption
      <4> QED BY <1>1, <1>4, <2>3, <4>1, <4>2
    <3> QED BY <3>1, <3>2
  <2> QED BY <2>1, <2>4, <2>5 DEF TableMatchesTasks
<1>9. CpuIsCurrent' /\ FocusIsLoaded' /\ CurrentIsLoaded'
  BY <1>1, <1>4, <1>5 DEF CpuIsCurrent, FocusIsLoaded, CurrentIsLoaded
<1>10. HeadIsFirst'
  <2>1. CASE order = <<>>
    BY <1>5, <2>1 DEF HeadIsFirst
  <2>2. CASE order # <<>>
    <3>1. /\ list.prev[order[1]] \in {NoTask} \cup (used \ Loaded)
          /\ ReuseFreed => list.prev[order[1]] = NoTask
      BY <2>2 DEF SchedInv, HeadIsFirst
    <3>2. order[1] \in Loaded
      BY <1>1, <2>2 DEF Members
    <3>3. list'.prev[order'[1]] = list.prev[order[1]]
      BY <1>1, <1>2, <1>5, <2>2, <3>2
    <3>4. list.prev[order[1]] # t \/ list.prev[order[1]] = NoTask
      BY <1>2, <3>1
    <3> QED BY <1>4, <1>5, <3>1, <3>3, <3>4 DEF HeadIsFirst
  <2> QED BY <2>1, <2>2
<1> QED BY <1>6, <1>7, <1>8, <1>9, <1>10 DEF SchedInv

(* The list before a new task is linked, and after.                        *)
LEMMA NewTask ==
  ASSUME SchedInv, mode # "panic", NEW t \in FreshTasks
  PROVE  LET m == task_new(list, t)
         IN  /\ t \in Tasks /\ t \notin Members(order)
             /\ m \in Lists /\ Linked(m, Append(order, t))
             /\ \A u \in Tasks \ {t} : m.prev[u] = list.prev[u]
             /\ order = <<>> => m.prev[t] = NoTask
             /\ m.current \in Loaded \cup {t}
<1>1. /\ list \in Lists /\ order \in Seq(Tasks) /\ Distinct(order) /\ Linked(list, order)
      /\ Loaded = Members(order) /\ Loaded \subseteq used
      /\ order # <<>> => list.current \in Loaded
  BY InvFacts DEF SchedInv, CurrentIsLoaded
<1>2. t \in Tasks /\ t \notin Members(order)
  BY <1>1 DEF FreshTasks
<1> QED BY <1>1, <1>2, NewIsLinked

(* The load of the kernel keeps the invariant (kernel_main).               *)
LEMMA BootLoadKeeps ==
  ASSUME SchedInv, NEW t \in Tasks, BootLoad(t)
  PROVE  SchedInv'
<1>1. cpu = NoTask /\ cpu' = cpu /\ mode' = mode /\ mode = "boot"
  BY DEF SchedInv, CurrentIsLoaded, BootLoad
<1>2. t \in FreshTasks /\ EnterProcess(t) /\ FreeSlots # {} /\ list' = task_new(list, t)
  BY DEF BootLoad
<1> QED BY <1>1, <1>2, NewTask, EnterKeepsInv DEF Pointer

(* Commands 6 and 7 keep it (isr80h/process.c).                            *)
LEMMA LoadAndRunKeeps ==
  ASSUME SchedInv, NEW t \in Tasks, LoadAndRun(t)
  PROVE  SchedInv'
<1> DEFINE m == task_new(list, t)
<1>1. /\ mode = "user" /\ mode' = mode /\ t \in FreshTasks /\ EnterProcess(t)
      /\ FreeSlots # {} /\ cpu' = t /\ list' = task_switch(m, t)
  BY DEF LoadAndRun
<1>2. /\ m \in Lists /\ Linked(m, Append(order, t))
      /\ \A u \in Tasks \ {t} : m.prev[u] = list.prev[u]
      /\ order = <<>> => m.prev[t] = NoTask
  BY <1>1, NewTask
<1> HIDE DEF m
<1>3. /\ list' \in Lists /\ Linked(list', Append(order, t))
      /\ list'.prev = m.prev /\ list'.current = t
  BY <1>1, <1>2, SwitchFacts
<1> QED BY <1>1, <1>2, <1>3, EnterKeepsInv DEF Pointer

(* So does command 7 when its arguments cannot be injected.                *)
LEMMA LoadWithoutArgumentsKeeps ==
  ASSUME SchedInv, NEW t \in Tasks, LoadWithoutArguments(t)
  PROVE  SchedInv'
<1> DEFINE m == task_new(list, t)
<1>1. /\ mode = "user" /\ mode' = mode /\ t \in FreshTasks /\ EnterProcess(t)
      /\ FreeSlots # {} /\ cpu' = cpu /\ list' = task_switch(m, list.current)
  BY DEF LoadWithoutArguments
<1>2. /\ m \in Lists /\ Linked(m, Append(order, t))
      /\ \A u \in Tasks \ {t} : m.prev[u] = list.prev[u]
      /\ order = <<>> => m.prev[t] = NoTask
  BY <1>1, NewTask
<1>3. list.current = cpu /\ list.current \in Loaded /\ list.current \in Tasks
  BY <1>1, InvFacts DEF SchedInv, CpuIsCurrent
<1> HIDE DEF m
<1>4. /\ list' \in Lists /\ Linked(list', Append(order, t))
      /\ list'.prev = m.prev /\ list'.current = list.current
  BY <1>1, <1>2, <1>3, SwitchFacts
<1> QED BY <1>1, <1>2, <1>3, <1>4, EnterKeepsInv DEF Pointer

(* Steps that leave the programs loaded as they are, and change the list   *)
(* at most in tasks that are not.                                          *)
LEMMA SameProgramsKeeps ==
  ASSUME SchedInv, list' \in Lists, Linked(list', order),
         order # <<>> => list'.prev[order[1]] = list.prev[order[1]],
         order # <<>> => list'.current \in Loaded,
         UNCHANGED <<processes, id, focus, order>>,
         used' \in SUBSET Tasks, used \subseteq used',
         mode \in {"boot", "user"}, mode' \in {"boot", "user"},
         mode' = "boot" => mode = "boot" /\ cpu' = cpu,
         mode' = "user" => cpu' = list'.current /\ order # <<>>
  PROVE  SchedInv'
<1>1. Loaded' = Loaded
  BY DEF Loaded
<1>2. Loaded \subseteq Tasks /\ list'.current \in Pointer
  BY InvFacts DEF Lists
<1>3. TypeOK'
  BY <1>2 DEF SchedInv, TypeOK, Lists, CurrentIsLoaded
<1>4. WellLinked' /\ TableMatchesTasks'
  BY <1>1 DEF SchedInv, WellLinked, Linked, TableMatchesTasks
<1>5. CurrentIsLoaded'
  BY <1>1 DEF SchedInv, CurrentIsLoaded
<1>6. CpuIsCurrent' /\ FocusIsLoaded' /\ HeadIsFirst'
  BY <1>1 DEF SchedInv, CpuIsCurrent, FocusIsLoaded, HeadIsFirst, CurrentIsLoaded
<1> QED BY <1>3, <1>4, <1>5, <1>6 DEF SchedInv

(* What holds when a program was interrupted.                              *)
LEMMA UserFacts ==
  ASSUME SchedInv, mode = "user"
  PROVE  /\ order # <<>> /\ list.current = cpu /\ list.current \in Loaded
         /\ list.current \in Tasks /\ focus \in Loaded
         /\ task_get_next(list) \in Loaded /\ task_get_next(list) # NoTask
<1>1. list.current = cpu /\ list.current \in Loaded /\ focus \in Loaded
  BY DEF SchedInv, CpuIsCurrent, FocusIsLoaded
<1>2. task_get_next(list) \in Loaded
  BY <1>1, InvFacts, NextIsMember
<1> QED BY <1>1, <1>2, InvFacts, NoTaskAssumption

(* Entering the first task keeps the invariant (task_run_first_ever_task). *)
LEMMA FirstTaskKeeps ==
  ASSUME SchedInv, task_run_first_ever_task
  PROVE  SchedInv'
<1>1. /\ list \in Lists /\ Linked(list, order) /\ Loaded = Members(order) /\ order \in Seq(Tasks)
      /\ used \subseteq Tasks
  BY InvFacts
<1>2. order # <<>> /\ list.head = order[1] /\ list.head \in Loaded /\ list.head \in Tasks
  <2>1. Len(order) = 2
    BY DEF task_run_first_ever_task, BootPrograms
  <2>2. order # <<>> /\ 1 \in DOMAIN order /\ list.head = order[1]
    BY <1>1, <2>1 DEF Linked
  <2> QED BY <1>1, <2>2, InvFacts DEF Members
<1>3. /\ list' \in Lists /\ list'.current = list.head /\ list'.prev = list.prev
      /\ Linked(list', order)
  BY <1>1, <1>2, SwitchFacts DEF task_run_first_ever_task
<1> QED BY <1>1, <1>2, <1>3, SameProgramsKeeps DEF task_run_first_ever_task

(* The timer keeps it (idt.c:102).                                         *)
LEMMA ClockKeeps ==
  ASSUME SchedInv, idt_clock
  PROVE  SchedInv'
<1> DEFINE t == task_get_next(list)
<1>1. mode = "user" /\ UNCHANGED <<processes, id, focus, order, used>>
  BY DEF idt_clock
<1>2. /\ list \in Lists /\ Linked(list, order) /\ Loaded \subseteq Tasks /\ used \subseteq Tasks
      /\ t \in Loaded /\ t # NoTask /\ order # <<>>
  BY <1>1, InvFacts, UserFacts
<1>3. list' = task_switch(list, t) /\ cpu' = t /\ mode' = "user"
  BY <1>2 DEF idt_clock, task_next
<1> HIDE DEF t
<1>4. /\ list' \in Lists /\ list'.current = t /\ list'.prev = list.prev
      /\ Linked(list', order)
  BY <1>2, <1>3, SwitchFacts
<1> QED BY <1>1, <1>2, <1>3, <1>4, SameProgramsKeeps

(* A load that fails in the mapping adds its task and removes it again     *)
(* (process.c:573).                                                        *)
LEMMA FailedLoadFacts ==
  ASSUME SchedInv, NEW t \in Tasks, LoadFailsInMapping(t)
  PROVE  /\ list' \in Lists /\ Linked(list', order) /\ list'.current = list.current
         /\ \A u \in Loaded : list'.prev[u] = list.prev[u]
<1>1. mode = "user" /\ t \in FreshTasks /\ list' = task_list_remove(task_new(list, t), t)
  BY DEF LoadFailsInMapping
<1>2. t \notin Members(order) /\ Loaded = Members(order) /\ list.current # t /\ Loaded \subseteq Tasks
  BY <1>1, NewTask, InvFacts, UserFacts
<1> QED BY <1>1, <1>2, InvFacts, UserFacts, LinkedAndRemoved

(* So it keeps the invariant.                                              *)
LEMMA FailedLoadKeeps ==
  ASSUME SchedInv, NEW t \in Tasks, LoadFailsInMapping(t)
  PROVE  SchedInv'
<1>1. /\ mode = "user" /\ UNCHANGED <<processes, id, focus, cpu, mode, order>>
      /\ used' = used \cup {t}
  BY DEF LoadFailsInMapping
<1>2. /\ order # <<>> /\ list.current = cpu /\ list.current \in Loaded /\ used \subseteq Tasks
      /\ order[1] \in Loaded
  BY <1>1, InvFacts, UserFacts DEF Members
<1> QED BY <1>1, <1>2, FailedLoadFacts, SameProgramsKeeps

(* The list after an end: that of the others, if the task stood where the  *)
(* removal is right (task.c:76).                                           *)
LEMMA ExitList ==
  ASSUME SchedInv, EndsAreSafe, mode = "user", Position(list.current) \in ExitAt
  PROVE  LET t == list.current
             rest == task_list_remove(list, t)
             q == R!Without(order, t)
         IN  /\ rest \in Lists /\ Linked(rest, q)
             /\ q \in Seq(Tasks) /\ Distinct(q) /\ Members(q) = Loaded \ {t}
             /\ q # <<>> => /\ rest.current \in Members(q)
                            /\ rest.prev[q[1]] \in {NoTask} \cup (used \ Members(q))
                            /\ ReuseFreed => rest.prev[q[1]] = NoTask
             /\ q = <<>> => rest.current = NoTask /\ rest.head = NoTask
<1> DEFINE t == list.current
           rest == task_list_remove(list, t)
           q == R!Without(order, t)
           n == Len(order)
<1>1. /\ list \in Lists /\ order \in Seq(Tasks) /\ Distinct(order) /\ Linked(list, order)
      /\ Loaded = Members(order) /\ Loaded \subseteq used /\ order # <<>>
      /\ list.prev[order[1]] \in {NoTask} \cup (used \ Loaded)
      /\ ReuseFreed => list.prev[order[1]] = NoTask
      /\ t \in Loaded /\ t \in Tasks
  BY InvFacts, UserFacts DEF SchedInv, CurrentIsLoaded, HeadIsFirst
<1>2. /\ n \in Nat \ {0} /\ DOMAIN order = 1 .. n
      /\ \A i \in 1 .. n : order[i] \in Tasks /\ order[i] \in Loaded /\ order[i] # NoTask
      /\ order[1] = list.head /\ order[n] = list.tail
  BY <1>1, NoTaskAssumption DEF Linked, Members
<1>3. PICK k \in 1 .. n : t = order[k]
  BY <1>1, <1>2 DEF Members
<1>4. /\ q \in Seq(Tasks) /\ Distinct(q) /\ Members(q) = Loaded \ {t}
      /\ Len(q) = n - 1 /\ DOMAIN q = 1 .. n - 1
      /\ \A i \in 1 .. n - 1 : q[i] = IF i < k THEN order[i] ELSE order[i + 1]
      /\ q = <<>> <=> n = 1
  <2>1. /\ q \in Seq(Tasks) /\ Distinct(q) /\ Members(q) = Loaded \ {t} /\ Len(q) = n - 1
        /\ \A i \in 1 .. n - 1 : q[i] = IF i < k THEN order[i] ELSE order[i + 1]
    <3> DEFINE w == R!Without(order, order[k])
    <3>1. k \in DOMAIN order
      BY <1>2
    <3>2. /\ w \in Seq(Tasks) /\ Distinct(w) /\ Members(w) = Members(order) \ {order[k]}
          /\ Len(w) = n - 1
          /\ \A i \in 1 .. n - 1 : w[i] = IF i < k THEN order[i] ELSE order[i + 1]
      BY <1>1, <3>1, WithoutFacts
    <3>3. w = q
      BY <1>3
    <3> HIDE DEF w, q
    <3> QED BY <1>1, <1>3, <3>2, <3>3
  <2> HIDE DEF q
  <2> QED BY <1>2, <2>1
<1>5. t = order[1] \/ (n > 1 /\ t = order[n] /\ ~ ReuseFreed) \/ (n > 1 /\ t = order[n])
  BY <1>2, <1>3 DEF EndsAreSafe, Position
<1>6. ReuseFreed /\ t = order[1] => FALSE
  BY <1>2 DEF EndsAreSafe, Position
<1> HIDE DEF t, rest, q
<1>7. CASE t = order[1]
  <2>1. list.prev[order[1]] \notin Members(order)
    <3>1. NoTask \notin Loaded
      BY InvFacts, NoTaskAssumption
    <3> QED BY <1>1, <3>1
  <2>2. /\ rest \in Lists /\ Linked(rest, q)
        /\ rest.current = IF n = 1 THEN NoTask ELSE order[2]
        /\ rest.prev = list.prev
    BY <1>1, <1>7, <2>1, HeadRemoved DEF t, rest, q
  <2>3. CASE n = 1
    BY <1>4, <2>2, <2>3 DEF t, rest, q, Linked
  <2>4. CASE n > 1
    <3>1. k = 1
      <4>1. order[k] = order[1] /\ k \in DOMAIN order /\ 1 \in DOMAIN order
        BY <1>2, <1>3, <1>7 DEF t
      <4> QED BY <1>1, <4>1 DEF Distinct
    <3>2. q[1] = order[2] /\ 1 \in DOMAIN q
      BY <1>4, <2>4, <3>1
    <3>3. list.prev[order[2]] = order[1]
      <4>1. 1 \in 1 .. n - 1 /\ 1 + 1 = 2
        BY <1>2, <2>4
      <4>2. list.prev[order[1 + 1]] = order[1]
        BY <1>1, <4>1 DEF Linked
      <4> QED BY <4>1, <4>2
    <3>4. order[2] \in Members(q)
      BY <3>2 DEF Members
    <3> QED BY <1>1, <1>4, <1>6, <1>7, <2>2, <2>4, <3>2, <3>3, <3>4 DEF t, rest, q
  <2> QED BY <1>2, <2>3, <2>4
<1>8. CASE n > 1 /\ t = order[n]
  <2>1. /\ rest \in Lists /\ Linked(rest, q)
        /\ rest.current = order[1] /\ rest.prev = list.prev
    BY <1>1, <1>2, <1>8, TailRemoved DEF t, rest, q
  <2>2. k = n
    <3>1. order[k] = order[n] /\ k \in DOMAIN order /\ n \in DOMAIN order
      BY <1>2, <1>3, <1>8 DEF t
    <3> QED BY <1>1, <3>1 DEF Distinct
  <2>3. q[1] = order[1] /\ 1 \in DOMAIN q
    BY <1>2, <1>4, <1>8, <2>2
  <2>4. order[1] \in Members(q)
    BY <2>3 DEF Members
  <2> QED BY <1>1, <1>4, <1>8, <2>1, <2>3, <2>4 DEF t, rest, q
<1> QED BY <1>5, <1>7, <1>8

(* process_unlink: the focus goes to a process that is left, if any is.    *)
LEMMA FocusFacts ==
  ASSUME SchedInv, mode = "user", NEW t \in Loaded
  PROVE  /\ TableWithout(t) \in [Slots -> Pointer]
         /\ \A s \in Slots : TableWithout(t)[s] # NoTask =>
               TableWithout(t)[s] \in Loaded \ {t} /\ id[TableWithout(t)[s]] = s
         /\ \A u \in Loaded \ {t} : TableWithout(t)[id[u]] = u
         /\ FocusWithout(t) = NoTask => Loaded = {t}
         /\ FocusWithout(t) # NoTask => FocusWithout(t) \in Loaded \ {t}
<1> DEFINE table == TableWithout(t)
<1>1. /\ processes \in [Slots -> Pointer] /\ id \in [Tasks -> Slots] /\ Loaded \subseteq Tasks
      /\ \A s \in Slots : processes[s] # NoTask =>
           processes[s] \in Loaded /\ id[processes[s]] = s
      /\ \A u \in Loaded : processes[id[u]] = u
      /\ focus \in Loaded
  BY InvFacts, UserFacts DEF SchedInv, TypeOK, TableMatchesTasks
<1>2. table = [processes EXCEPT ![id[t]] = NoTask]
  BY DEF TableWithout
<1> HIDE DEF table
<1>3. table \in [Slots -> Pointer]
  BY <1>1, <1>2 DEF Pointer
<1>4. \A s \in Slots : table[s] # NoTask => table[s] \in Loaded \ {t} /\ id[table[s]] = s
  BY <1>1, <1>2
<1>5. \A u \in Loaded \ {t} : table[id[u]] = u /\ id[u] \in Slots
  BY <1>1, <1>2
<1>6. focus = t =>
        \/ FirstProcess(table) = NoTask /\ Loaded = {t}
        \/ FirstProcess(table) # NoTask /\ FirstProcess(table) \in Loaded \ {t}
  BY <1>1, <1>4, <1>5, FirstProcessFound, NoTaskAssumption
<1>7. focus # NoTask
  BY <1>1, NoTaskAssumption
<1> QED BY <1>1, <1>3, <1>4, <1>5, <1>6, <1>7 DEF table, FocusWithout

(* An end keeps the invariant, and panics only when nothing is left        *)
(* (process.c:191, task.c:115).                                            *)
LEMMA ExitKeeps ==
  ASSUME SchedInv, EndsAreSafe, Exit
  PROVE  SchedInv' /\ (mode' = "panic" => order' = <<>>)
<1> DEFINE t == list.current
           rest == task_list_remove(list, t)
           q == R!Without(order, t)
           next == task_get_next(rest)
<1>1. mode = "user" /\ Position(t) \in ExitAt /\ t \in Loaded /\ t \in Tasks
  BY UserFacts DEF Exit
<1>2. /\ processes' = TableWithout(t) /\ order' = q /\ UNCHANGED <<id, used>>
      /\ \/ /\ FocusWithout(t) = NoTask
            /\ list' = rest /\ cpu' = NoTask /\ mode' = "panic" /\ focus' = focus
         \/ /\ FocusWithout(t) # NoTask
            /\ list' = IF next = NoTask THEN rest ELSE task_switch(rest, next)
            /\ cpu' = next
            /\ mode' = (IF next = NoTask THEN "panic" ELSE "user")
            /\ focus' = FocusWithout(t)
  BY DEF Exit, task_next
<1>3. /\ rest \in Lists /\ Linked(rest, q)
      /\ q \in Seq(Tasks) /\ Distinct(q) /\ Members(q) = Loaded \ {t}
      /\ q # <<>> => /\ rest.current \in Members(q)
                     /\ rest.prev[q[1]] \in {NoTask} \cup (used \ Members(q))
                     /\ ReuseFreed => rest.prev[q[1]] = NoTask
  BY <1>1, ExitList
<1>4. /\ TableWithout(t) \in [Slots -> Pointer]
      /\ \A s \in Slots : TableWithout(t)[s] # NoTask =>
            TableWithout(t)[s] \in Loaded \ {t} /\ id[TableWithout(t)[s]] = s
      /\ \A u \in Loaded \ {t} : TableWithout(t)[id[u]] = u
      /\ FocusWithout(t) = NoTask => Loaded = {t}
      /\ FocusWithout(t) # NoTask => FocusWithout(t) \in Loaded \ {t}
  BY <1>1, FocusFacts
<1>5. /\ id \in [Tasks -> Slots] /\ focus \in Pointer /\ used \subseteq Tasks
      /\ Loaded \subseteq used /\ Loaded \subseteq Tasks
  BY InvFacts DEF SchedInv, TypeOK, CurrentIsLoaded
<1> HIDE DEF t, rest, q, next
<1>6. Loaded' = Loaded \ {t}
  BY <1>2, <1>3 DEF Loaded, Members
<1>7. /\ list' \in Lists /\ Linked(list', q) /\ list'.prev = rest.prev
      /\ \/ mode' = "panic" /\ q = <<>>
         \/ mode' = "user" /\ list'.current = cpu' /\ cpu' \in Members(q) /\ focus' \in Members(q)
      /\ cpu' \in Pointer /\ focus' \in Pointer
  <2>1. CASE FocusWithout(t) = NoTask
    <3>1. Members(q) = {}
      BY <1>3, <1>4, <2>1
    <3>2. q = <<>>
      BY <1>3, <3>1 DEF Members
    <3> QED BY <1>2, <1>3, <1>5, <2>1, <3>2 DEF Pointer
  <2>2. CASE FocusWithout(t) # NoTask
    <3>1. FocusWithout(t) \in Members(q) /\ FocusWithout(t) \in Tasks
      BY <1>3, <1>4, <1>5, <2>2
    <3>2. q # <<>>
      BY <3>1 DEF Members
    <3>3. next \in Members(q)
      BY <1>3, <3>2, NextIsMember DEF next
    <3>4. next \in Tasks /\ next # NoTask
      BY <1>3, <1>5, <3>3, NoTaskAssumption
    <3>5. list' = task_switch(rest, next) /\ cpu' = next /\ mode' = "user" /\ focus' = FocusWithout(t)
      BY <1>2, <2>2, <3>4
    <3>6. /\ list' \in Lists /\ Linked(list', q) /\ list'.prev = rest.prev /\ list'.current = next
      BY <1>3, <3>4, <3>5, SwitchFacts
    <3> QED BY <3>1, <3>3, <3>4, <3>5, <3>6 DEF Pointer
  <2> QED BY <2>1, <2>2
<1>8. TypeOK' /\ WellLinked' /\ TableMatchesTasks'
  BY <1>2, <1>3, <1>4, <1>5, <1>6, <1>7
     DEF TypeOK, Lists, WellLinked, Linked, TableMatchesTasks, Distinct
<1>9. CpuIsCurrent' /\ FocusIsLoaded' /\ CurrentIsLoaded' /\ HeadIsFirst'
  BY <1>2, <1>3, <1>5, <1>6, <1>7
     DEF CpuIsCurrent, FocusIsLoaded, CurrentIsLoaded, HeadIsFirst
<1> QED BY <1>2, <1>7, <1>8, <1>9 DEF SchedInv

(* A full table: nothing is removed when no earlier process is found in    *)
(* the uninitialised word.                                                 *)
LEMMA RefusedIsStutter ==
  ASSUME EndsAreSafe, LoadRefused
  PROVE  UNCHANGED vars
BY DEF EndsAreSafe, LoadRefused, vars

(* Nothing happens.                                                        *)
LEMMA StutterKeeps ==
  ASSUME SchedInv, UNCHANGED vars
  PROVE  SchedInv'
BY DEF vars, SchedInv, TypeOK, WellLinked, TableMatchesTasks, CpuIsCurrent, FocusIsLoaded,
       HeadIsFirst, CurrentIsLoaded, Loaded

(* A boot that cannot load its program keeps the invariant (kernel_main).  *)
LEMMA BootFailsKeeps ==
  ASSUME SchedInv, BootFails
  PROVE  SchedInv'
<1>1. mode' = "panic" /\ UNCHANGED <<list, processes, id, focus, cpu, order, used>>
  BY DEF BootFails
<1>2. Loaded' = Loaded
  BY <1>1 DEF Loaded
<1> QED BY <1>1, <1>2 DEF SchedInv, TypeOK, WellLinked, TableMatchesTasks, CpuIsCurrent,
          FocusIsLoaded, HeadIsFirst, CurrentIsLoaded

(* All the steps together.                                                 *)
LEMMA SchedStep ==
  ASSUME SchedInv, EndsAreSafe, [Next]_vars
  PROVE  SchedInv'
<1>1. ASSUME NEW t \in Tasks, BootLoad(t) PROVE SchedInv'
  BY <1>1, BootLoadKeeps
<1>2. ASSUME NEW t \in Tasks, LoadAndRun(t) PROVE SchedInv'
  BY <1>2, LoadAndRunKeeps
<1>3. ASSUME NEW t \in Tasks, LoadWithoutArguments(t) PROVE SchedInv'
  BY <1>3, LoadWithoutArgumentsKeeps
<1>4. ASSUME NEW t \in Tasks, LoadFailsInMapping(t) PROVE SchedInv'
  BY <1>4, FailedLoadKeeps
<1>5. CASE BootFails
  BY <1>5, BootFailsKeeps
<1>6. CASE task_run_first_ever_task
  BY <1>6, FirstTaskKeeps
<1>7. CASE idt_clock
  BY <1>7, ClockKeeps
<1>8. CASE LoadFailsEarly \/ Panic \/ UNCHANGED vars
  BY <1>8, StutterKeeps DEF LoadFailsEarly, Panic
<1>9. CASE LoadRefused
  BY <1>9, RefusedIsStutter, StutterKeeps
<1>10. CASE Exit
  BY <1>10, ExitKeeps
<1> QED BY <1>1, <1>2, <1>3, <1>4, <1>5, <1>6, <1>7, <1>8, <1>9, <1>10 DEF Next

-----------------------------------------------------------------------------
(* The theorems                                                            *)

(* Every reachable state of task.c and process.c satisfies the invariant,  *)
(* for any number of programs and any size of the table.                   *)
THEOREM SchedulerSafety ==
  ASSUME EndsAreSafe PROVE Spec => []SchedInv
<1>1. SchedInv /\ [Next]_vars => SchedInv'
  BY SchedStep
<1> QED BY <1>1, SchedInit, PTL DEF Spec

(* The links, the table and the rest keep their types.                     *)
THEOREM SchedulerTypes ==
  ASSUME EndsAreSafe PROVE Spec => []TypeOK
<1>1. SchedInv => TypeOK
  BY DEF SchedInv
<1> QED BY <1>1, SchedulerSafety, PTL

(* While the tasks that end are at the head or the tail, at the tail only  *)
(* where a freed address is given again, the list from task_head along     *)
(* next is the tasks loaded and not ended, in load order, through loads    *)
(* that succeed, fail or are refused (task.c:36-101).                      *)
THEOREM ListIsLoadOrder ==
  ASSUME EndsAreSafe PROVE Spec => []WellLinked
<1>1. SchedInv => WellLinked
  BY DEF SchedInv
<1> QED BY <1>1, SchedulerSafety, PTL

(* The process table and the task list agree (process.c:182).              *)
THEOREM TableIsRight ==
  ASSUME EndsAreSafe PROVE Spec => []TableMatchesTasks
<1>1. SchedInv => TableMatchesTasks
  BY DEF SchedInv
<1> QED BY <1>1, SchedulerSafety, PTL

(* User mode executes current_task, and it has not ended (idt.c:72, :206). *)
THEOREM CpuRunsCurrent ==
  ASSUME EndsAreSafe PROVE Spec => []CpuIsCurrent
<1>1. SchedInv => CpuIsCurrent
  BY DEF SchedInv
<1> QED BY <1>1, SchedulerSafety, PTL

(* The process that gets the keys exists (process.c:184-187).              *)
THEOREM FocusExists ==
  ASSUME EndsAreSafe PROVE Spec => []FocusIsLoaded
<1>1. SchedInv => FocusIsLoaded
  BY DEF SchedInv
<1> QED BY <1>1, SchedulerSafety, PTL

(* Once user mode runs, only the end of the last program panics            *)
(* (process.c:176, task.c:119).                                            *)
THEOREM PanicsWhenDone ==
  ASSUME EndsAreSafe PROVE Spec => PanicOnlyWhenDone
<1>1. SchedInv /\ [Next]_vars => [mode = "user" /\ mode' = "panic" => order' = <<>>]_vars
  <2> SUFFICES ASSUME SchedInv, Next, mode = "user", mode' = "panic" PROVE order' = <<>>
    BY DEF vars
  <2>1. ASSUME idt_clock PROVE FALSE
    <3>1. task_get_next(list) # NoTask
      BY UserFacts
    <3> QED BY <2>1, <3>1 DEF idt_clock, task_next
  <2>2. Exit
    BY <2>1 DEF Next, BootLoad, LoadAndRun, LoadWithoutArguments, LoadFailsInMapping,
         BootFails, task_run_first_ever_task, LoadFailsEarly, LoadRefused, Panic, vars
  <2> QED BY <2>2, ExitKeeps
<1> QED BY <1>1, SchedulerSafety, PTL DEF Spec, PanicOnlyWhenDone

(* What a linked list holds of the tasks in it is settled by their order.  *)
LEMMA LinkedIsSettled ==
  ASSUME SchedInv, NEW l \in Lists, Linked(l, order), l.current = list.current,
         order # <<>>, \A u \in Loaded : l.prev[u] = list.prev[u]
  PROVE  LinksOf(l) = LinksOf(list)
<1>1. /\ list \in Lists /\ order \in Seq(Tasks) /\ Distinct(order) /\ Linked(list, order)
      /\ Loaded = Members(order)
  BY InvFacts
<1>2. l.head = list.head /\ l.tail = list.tail
  BY <1>1 DEF Linked
<1>3. ASSUME NEW u \in Loaded PROVE l.next[u] = list.next[u]
  <2>1. PICK i \in DOMAIN order : u = order[i]
    BY <1>1 DEF Members
  <2>2. Len(order) \in Nat \ {0} /\ i \in 1 .. Len(order)
    BY <1>1
  <2>3. CASE i = Len(order)
    BY <1>1, <2>1, <2>2, <2>3 DEF Linked
  <2>4. CASE i < Len(order)
    <3>1. i \in 1 .. Len(order) - 1
      BY <2>2, <2>4
    <3> QED BY <1>1, <2>1, <2>2, <3>1 DEF Linked
  <2> QED BY <2>2, <2>3, <2>4
<1> QED BY <1>1, <1>2, <1>3 DEF LinksOf

(* A load that fails, and every other step that neither changes the table  *)
(* nor the task that runs, leaves the list as it was                       *)
(* (isr80h/process.c:42-43).                                               *)
THEOREM FailedLoadsAreUndone ==
  ASSUME EndsAreSafe PROVE Spec => FailedLoadKeepsTasks
<1> DEFINE A == mode = "user" /\ processes' = processes /\ cpu' = cpu
                  => LinksOf(list') = LinksOf(list)
<1>1. SchedInv /\ [Next]_vars => [A]_vars
  <2> SUFFICES ASSUME SchedInv, Next, mode = "user", processes' = processes, cpu' = cpu
               PROVE  LinksOf(list') = LinksOf(list)
    BY DEF vars
  <2>1. processes \in [Slots -> Pointer] /\ order # <<>> /\ list.current = cpu
    BY UserFacts DEF SchedInv, TypeOK
  <2>2. ASSUME NEW t \in Tasks, LoadAndRun(t) \/ LoadWithoutArguments(t) PROVE FALSE
    <3>1. process_get_free_slot \in Slots /\ processes[process_get_free_slot] = NoTask
      BY <2>2, FreeSlotFound DEF FreeSlots, LoadAndRun, LoadWithoutArguments
    <3>2. processes' = [processes EXCEPT ![process_get_free_slot] = t]
      BY <2>2 DEF LoadAndRun, LoadWithoutArguments, EnterProcess
    <3> QED BY <2>1, <2>2, <3>1, <3>2, NoTaskAssumption
  <2>3. ASSUME NEW t \in Tasks, LoadFailsInMapping(t) PROVE LinksOf(list') = LinksOf(list)
    BY <2>1, <2>3, FailedLoadFacts, LinkedIsSettled
  <2>4. CASE idt_clock
    <3> DEFINE t == task_get_next(list)
    <3>1. t # NoTask /\ t \in Loaded /\ list \in Lists /\ Loaded \subseteq Tasks
          /\ Linked(list, order)
      BY UserFacts, InvFacts
    <3>2. list' = task_switch(list, t) /\ cpu' = t
      BY <2>4, <3>1 DEF idt_clock, task_next
    <3> HIDE DEF t
    <3>3. list' \in Lists /\ Linked(list', order) /\ list'.current = t /\ list'.prev = list.prev
      BY <3>1, <3>2, SwitchFacts
    <3> QED BY <2>1, <3>2, <3>3, LinkedIsSettled
  <2>5. CASE Exit
    <3>1. list.current \in Loaded /\ list.current \in Tasks
      BY UserFacts
    <3>2. /\ processes[id[list.current]] = list.current /\ id[list.current] \in Slots
      BY <3>1 DEF SchedInv, TypeOK, TableMatchesTasks
    <3>3. processes' = [processes EXCEPT ![id[list.current]] = NoTask]
      BY <2>5 DEF Exit, TableWithout
    <3> QED BY <2>1, <3>1, <3>2, <3>3, NoTaskAssumption
  <2>6. CASE LoadFailsEarly \/ LoadRefused \/ Panic
    BY <2>6, RefusedIsStutter DEF LoadFailsEarly, Panic, vars
  <2> QED
    BY <2>2, <2>3, <2>4, <2>5, <2>6 DEF Next, BootLoad, BootFails, task_run_first_ever_task
<1> QED BY <1>1, SchedulerSafety, PTL DEF Spec, FailedLoadKeepsTasks

-----------------------------------------------------------------------------
(* The links, the table and the handlers schedule as RoundRobin does: each *)
(* handler is a step of it, or leaves what it shows as it was.             *)

Running == IF mode = "user" THEN cpu ELSE NoTask

(* A load appends to the queue of the round robin.                         *)
LEMMA LoadsAreRounds ==
  ASSUME SchedInv, NEW t \in Tasks,
         BootLoad(t) \/ LoadAndRun(t) \/ LoadWithoutArguments(t)
  PROVE  R!Load(t)
<1>1. t \in FreshTasks /\ order' = Append(order, t) /\ mode' = mode /\ mode \in {"boot", "user"}
  BY DEF BootLoad, LoadAndRun, LoadWithoutArguments, EnterProcess
<1>2. t \notin R!Members(order)
  <2>1. Loaded \subseteq used
    BY DEF SchedInv, CurrentIsLoaded
  <2> QED BY <1>1, <2>1 DEF FreshTasks, R!Members, Loaded
<1>3. Running' \in IF Running = NoTask THEN {NoTask} ELSE {Running, t}
  <2>1. CASE mode = "boot"
    BY <1>1, <2>1 DEF Running
  <2>2. CASE mode = "user"
    <3>1. cpu # NoTask
      BY <2>2, UserFacts, NoTaskAssumption
    <3>2. cpu' \in {cpu, t}
      BY <2>2 DEF BootLoad, LoadAndRun, LoadWithoutArguments
    <3> QED BY <1>1, <2>2, <3>1, <3>2 DEF Running
  <2> QED BY <1>1, <2>1, <2>2
<1> QED BY <1>1, <1>2, <1>3 DEF R!Load, Running

(* The first entry starts the rounds.                                      *)
LEMMA FirstTaskStarts ==
  ASSUME SchedInv, task_run_first_ever_task
  PROVE  R!Start
<1>1. Len(order) = 2 /\ order \in Seq(Tasks)
  BY InvFacts DEF task_run_first_ever_task, BootPrograms
<1>2. order # <<>> /\ order[1] = Head(order)
  BY <1>1
<1>3. Linked(list, order)
  BY InvFacts
<1>4. list.head = order[1]
  BY <1>1, <1>3 DEF Linked
<1> QED BY <1>2, <1>4 DEF task_run_first_ever_task, R!Start

(* The timer passes the turn to the next of the queue.                     *)
LEMMA ClockTicks ==
  ASSUME SchedInv, idt_clock
  PROVE  R!Tick
<1>1. /\ list \in Lists /\ order \in Seq(Tasks) /\ Linked(list, order)
      /\ mode = "user" /\ list.current = cpu /\ cpu \in Members(order)
      /\ task_get_next(list) # NoTask
  BY InvFacts, UserFacts DEF idt_clock
<1>2. PICK i \in DOMAIN order : order[i] = cpu
  BY <1>1 DEF Members
<1>3. task_get_next(list) = order[(i % Len(order)) + 1]
  BY <1>1, <1>2, NextRoundTheList
<1>4. mode' = "user" /\ cpu' = task_get_next(list) /\ order' = order
  BY <1>1 DEF idt_clock, task_next
<1> QED BY <1>1, <1>2, <1>3, <1>4 DEF R!Tick

(* An end takes the task out of the queue.                                 *)
LEMMA ExitEnds ==
  ASSUME SchedInv, EndsAreSafe, Exit
  PROVE  R!End
<1>1. mode = "user" /\ list.current = cpu /\ cpu # NoTask
  BY UserFacts, NoTaskAssumption DEF Exit
<1>2. order' = R!Without(order, cpu)
  BY <1>1 DEF Exit
<1>3. SchedInv' /\ (mode' = "panic" => order' = <<>>)
  BY ExitKeeps
<1>4. mode' = "user" => cpu' \in R!Members(order') /\ order' # <<>>
  BY <1>3 DEF SchedInv, CpuIsCurrent, Loaded, R!Members
<1>5. mode' \in {"panic", "user"}
  BY DEF Exit, task_next
<1> QED BY <1>1, <1>2, <1>3, <1>4, <1>5 DEF R!End

(* The queue, the task that runs and the screen implement a round-robin    *)
(* schedule: each step of the scheduler is a step of RoundRobin, or leaves *)
(* the order of the tasks and the one that runs as they are (task.c,       *)
(* process.c, idt.c:180-190).                                              *)
THEOREM SchedulesRoundRobin ==
  ASSUME EndsAreSafe PROVE Spec => Schedules
<1>1. Init => R!Init
  BY DEF Init, R!Init
<1>2. SchedInv /\ [Next]_vars => [R!Next]_R!vars
  <2> SUFFICES ASSUME SchedInv, [Next]_vars PROVE [R!Next]_R!vars
    OBVIOUS
  <2>1. ASSUME NEW t \in Tasks, BootLoad(t) \/ LoadAndRun(t) \/ LoadWithoutArguments(t)
        PROVE  R!Next
    BY <2>1, LoadsAreRounds DEF R!Next
  <2>2. ASSUME NEW t \in Tasks, LoadFailsInMapping(t) PROVE UNCHANGED R!vars
    BY <2>2 DEF LoadFailsInMapping, R!vars
  <2>3. CASE BootFails
    BY <2>3 DEF BootFails, R!vars
  <2>4. CASE task_run_first_ever_task
    BY <2>4, FirstTaskStarts DEF R!Next
  <2>5. CASE idt_clock
    BY <2>5, ClockTicks DEF R!Next
  <2>6. CASE LoadFailsEarly \/ LoadRefused \/ Panic \/ UNCHANGED vars
    BY <2>6, RefusedIsStutter DEF LoadFailsEarly, Panic, vars, R!vars
  <2>7. CASE Exit
    BY <2>7, ExitEnds DEF R!Next
  <2> QED BY <2>1, <2>2, <2>3, <2>4, <2>5, <2>6, <2>7 DEF Next
<1> QED BY <1>1, <1>2, SchedulerSafety, PTL DEF Spec, Schedules, R!Spec
==============================================================================
