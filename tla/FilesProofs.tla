------------------------------ MODULE FilesProofs ------------------------------
(***************************************************************************)
(* The table of file descriptors, what is read through it, and what a path *)
(* leads to, for any number of descriptors, volumes and paths.             *)
(***************************************************************************)
EXTENDS Files, Numbers, FiniteSetTheorems, SequenceTheorems

TableInv == table = [s \in Slots |-> table[s]]

(* The slot of a new descriptor is free. *)
LEMMA NewSlotIsFree ==
  ASSUME FreeSlots # {}
  PROVE  NewSlot \in Slots /\ table[NewSlot] = Closed
<1>1. FreeSlots \subseteq Nat /\ FreeSlots \subseteq Slots
  BY DescriptorsAssumption DEF FreeSlots, Slots
<1>2. \E s \in FreeSlots : \A r \in FreeSlots : s <= r
  BY <1>1, LeastNumber
<1>3. NewSlot \in FreeSlots
  BY <1>2 DEF NewSlot
<1> QED BY <1>3 DEF FreeSlots

(* Every handler of fs/file.c changes entries of the table, never its      *)
(* domain (file.c:77, :97).                                                *)
LEMMA TableStep == TableInv /\ [Next]_vars => TableInv'
<1> SUFFICES ASSUME TableInv, [Next]_vars PROVE TableInv'
  OBVIOUS
<1>1. ASSUME NEW x, NEW d, table' = [table EXCEPT ![x] = d] PROVE TableInv'
  BY <1>1 DEF TableInv
<1>2. ASSUME table' = table PROVE TableInv'
  BY <1>2 DEF TableInv
<1>3. ASSUME NEW path \in Paths, fopen(path) PROVE TableInv'
  BY <1>1, <1>2, <1>3 DEF fopen
<1>4. ASSUME NEW path \in Paths, LoadProgram(path) PROVE TableInv'
  <2> DEFINE opened == [table EXCEPT ![NewSlot] = [item |-> Item(path), pos |-> 0]]
  <2>1. opened = [s \in Slots |-> opened[s]]
    BY DEF TableInv
  <2> HIDE DEF opened
  <2>2. \/ table' = table \/ table' = opened
        \/ table' = [opened EXCEPT ![NumberOf(NewSlot) - 1] = Closed]
    BY <1>4, Zenon DEF LoadProgram, ClosedByLoader, opened
  <2> QED BY <1>2, <2>1, <2>2 DEF TableInv
<1>5. ASSUME NEW fd \in Descriptors, fclose(fd) PROVE TableInv'
  BY <1>1, <1>5 DEF fclose
<1>6. ASSUME NEW fd \in Descriptors, Refuse(fd) PROVE TableInv'
  BY <1>2, <1>6 DEF Refuse
<1>7. ASSUME NEW fd \in Descriptors, NEW size, NEW nmemb, fread(fd, size, nmemb) PROVE TableInv'
  BY <1>2, <1>7 DEF fread
<1>8. ASSUME NEW fd \in Descriptors, NEW offset, NEW whence, fseek(fd, offset, whence) PROVE TableInv'
  BY <1>1, <1>8 DEF fseek
<1>9. CASE UNCHANGED vars
  BY <1>2, <1>9 DEF vars
<1> QED BY <1>3, <1>4, <1>5, <1>6, <1>7, <1>8, <1>9 DEF Next

(* The descriptors are those of Slots in every reachable state             *)
(* (file.c:14).                                                            *)
LEMMA TableIsKept == Spec => []TableInv
<1>1. Init => TableInv
  BY DEF Init, TableInv
<1> QED BY <1>1, TableStep, PTL DEF Spec

(* What a load makes of the table. *)
LEMMA TableAfterLoad ==
  ASSUME TableInv, NEW path, LoadProgram(path)
  PROVE  /\ last'.fd \in Int
         /\ last'.fd < MaxDescriptors => table' = table
         /\ \A s \in Slots : last'.fd # s + 1 => table'[s] = table[s]
<1> DEFINE d == [item |-> Item(path), pos |-> 0]
           n == NewSlot
           opened == [table EXCEPT ![n] = d]
<1>1. CASE FreeSlots = {} \/ Item(path) = NoItem
  <2>1. table' = table /\ last' = [Nothing EXCEPT !.call = "load", !.res = EIO]
    BY <1>1 DEF LoadProgram
  <2>2. last'.fd = 0
    BY <2>1 DEF Nothing
  <2> QED BY <2>1, <2>2
<1>2. CASE FreeSlots # {} /\ Item(path) # NoItem
  <2>1. n \in Slots /\ table[n] = Closed
    BY <1>2, NewSlotIsFree
  <2>2. n \in 0 .. MaxDescriptors - 1 /\ MaxDescriptors \in Nat
    BY <2>1, DescriptorsAssumption DEF Slots
  <2>3. last'.fd = n + 1
    <3>1. last'.fd = NumberOf(n)
      BY <1>2 DEF LoadProgram
    <3> QED BY <3>1 DEF NumberOf
  <2>4. table' = IF n + 1 = MaxDescriptors THEN opened ELSE [opened EXCEPT ![(n + 1) - 1] = Closed]
    <3>1. \E res : table' = ClosedByLoader(opened, NumberOf(n), res)
      BY <1>2 DEF LoadProgram
    <3> HIDE DEF opened, n
    <3> QED BY <3>1 DEF ClosedByLoader, NumberOf
  <2> HIDE DEF n, d
  <2>5. (n + 1) - 1 = n
    BY <2>2
  <2>6. [opened EXCEPT ![n] = Closed] = table
    BY <2>1 DEF TableInv
  <2>7. \A s \in Slots : s # n => opened[s] = table[s]
    BY DEF TableInv
  <2> HIDE DEF opened
  <2>8. n + 1 # MaxDescriptors => table' = table
    BY <2>4, <2>5, <2>6
  <2>9. n + 1 = MaxDescriptors => table' = opened
    BY <2>4
  <2> QED BY <2>2, <2>3, <2>7, <2>8, <2>9
<1> QED BY <1>1, <1>2

(* A call with one descriptor, or a load, leaves the item and the position *)
(* of every other file that is open (file.c:76-103).                       *)
THEOREM FilesKeepOthers == Spec => OthersKept
<1>1. ASSUME TableInv, Next, NEW s \in Slots, table[s] # Closed, last'.fd # s + 1
      PROVE  table'[s] = table[s]
  <2>0. s \in Nat
    BY DescriptorsAssumption DEF Slots
  <2>1. ASSUME NEW path \in Paths, fopen(path) PROVE table'[s] = table[s]
    <3>1. CASE FreeSlots = {} \/ Item(path) = NoItem
      BY <2>1, <3>1 DEF fopen
    <3>2. CASE FreeSlots # {} /\ Item(path) # NoItem
      <4>1. last'.fd = NewSlot + 1 /\ table' = [table EXCEPT ![NewSlot] = [item |-> Item(path), pos |-> 0]]
        BY <2>1, <3>2 DEF fopen, NumberOf, Nothing
      <4> QED BY <1>1, <4>1 DEF TableInv
    <3> QED BY <3>1, <3>2
  <2>2. ASSUME NEW path \in Paths, LoadProgram(path) PROVE table'[s] = table[s]
    BY <1>1, <2>2, TableAfterLoad
  <2>3. ASSUME NEW fd \in Descriptors, fclose(fd) PROVE table'[s] = table[s]
    <3>1. last'.fd = fd /\ fd \in Nat
      BY <2>3, DescriptorsAssumption DEF fclose, Nothing, Descriptors
    <3>2. fd - 1 # s
      BY <1>1, <2>0, <3>1
    <3> QED BY <1>1, <2>3, <3>2 DEF fclose, SlotOf, TableInv
  <2>4. ASSUME NEW fd \in Descriptors, NEW offset, NEW whence, fseek(fd, offset, whence)
        PROVE  table'[s] = table[s]
    <3>1. last'.fd = fd /\ fd \in Nat
      BY <2>4, DescriptorsAssumption DEF fseek, Nothing, Descriptors
    <3>2. fd - 1 # s
      BY <1>1, <2>0, <3>1
    <3> QED BY <1>1, <2>4, <3>2 DEF fseek, TableInv
  <2>5. ASSUME NEW fd \in Descriptors, Refuse(fd) PROVE table'[s] = table[s]
    BY <2>5 DEF Refuse
  <2>6. ASSUME NEW fd \in Descriptors, NEW size, NEW nmemb, fread(fd, size, nmemb) PROVE table'[s] = table[s]
    BY <2>6 DEF fread
  <2> QED BY <1>1, <2>1, <2>2, <2>3, <2>4, <2>5, <2>6 DEF Next
<1>2. TableInv /\ [Next]_vars
        => [\A s \in Slots : table[s] # Closed /\ last'.fd # s + 1 => table'[s] = table[s]]_vars
  BY <1>1
<1> QED BY <1>2, TableIsKept, PTL DEF Spec, OthersKept

(* A load closes what it opened, whether it succeeds or not; only the last *)
(* descriptor, which fclose refuses, stays taken (elfloader.c:262-265).    *)
THEOREM FilesLoadCloses == Spec => LoadCloses
<1>1. ASSUME TableInv, Next, last'.call = "load", last'.fd < MaxDescriptors
      PROVE  table' = table
  <2>1. ASSUME NEW path \in Paths, LoadProgram(path) PROVE table' = table
    BY <1>1, <2>1, TableAfterLoad
  <2>2. ASSUME NEW path \in Paths, fopen(path) PROVE FALSE
    BY <1>1, <2>2 DEF fopen, Nothing
  <2>3. ASSUME NEW fd \in Descriptors, fclose(fd) PROVE FALSE
    BY <1>1, <2>3 DEF fclose, Nothing
  <2>4. ASSUME NEW fd \in Descriptors, NEW offset, NEW whence, fseek(fd, offset, whence) PROVE FALSE
    BY <1>1, <2>4 DEF fseek, Nothing
  <2>5. ASSUME NEW fd \in Descriptors, Refuse(fd) PROVE FALSE
    BY <1>1, <2>5 DEF Refuse, Nothing
  <2>6. ASSUME NEW fd \in Descriptors, NEW size, NEW nmemb, fread(fd, size, nmemb) PROVE FALSE
    BY <1>1, <2>6 DEF fread
  <2> QED BY <1>1, <2>1, <2>2, <2>3, <2>4, <2>5, <2>6 DEF Next
<1>2. TableInv /\ [Next]_vars => [last'.call = "load" /\ last'.fd < MaxDescriptors => table' = table]_vars
  BY <1>1
<1> QED BY <1>2, TableIsKept, PTL DEF Spec, LoadCloses

-----------------------------------------------------------------------------
(* What is read from the disk (streamer.c:26-68): sector after sector, the *)
(* bytes asked for.                                                        *)

(* A sequence of m elements, followed by one of n. *)
Joins(S, m, n, s, t, u) ==
  /\ m \in Nat /\ n \in Nat
  /\ s \in [1 .. m -> S] /\ t \in [1 .. n -> S] /\ u \in [1 .. m + n -> S]
  /\ \A i \in 1 .. m : u[i] = s[i]
  /\ \A i \in 1 .. n : u[m + i] = t[i]

(* Two sequences put one after the other, given by their elements.         *)
LEMMA Joined ==
  ASSUME NEW S, NEW m, NEW n, NEW s, NEW t, NEW u, Joins(S, m, n, s, t, u)
  PROVE  s \o t = u
<1>0. /\ m \in Nat /\ n \in Nat
      /\ s \in [1 .. m -> S] /\ t \in [1 .. n -> S] /\ u \in [1 .. m + n -> S]
      /\ \A i \in 1 .. m : u[i] = s[i]
      /\ \A i \in 1 .. n : u[m + i] = t[i]
  BY DEF Joins
<1>1. s \in Seq(S) /\ t \in Seq(S) /\ u \in Seq(S) /\ Len(s) = m /\ Len(t) = n /\ Len(u) = m + n
  BY <1>0
<1>2. /\ s \o t \in Seq(S) /\ Len(s \o t) = m + n
      /\ \A i \in 1 .. m + n : (s \o t)[i] = IF i <= m THEN s[i] ELSE t[i - m]
  BY <1>1, ConcatProperties
<1>3. s \o t \in [1 .. m + n -> S]
  BY <1>2, LenProperties
<1>4. ASSUME NEW i \in 1 .. m + n PROVE (s \o t)[i] = u[i]
  <2>1. CASE i <= m
    BY <1>0, <1>2, <2>1
  <2>2. CASE i > m
    <3>1. i - m \in 1 .. n /\ m + (i - m) = i
      BY <1>0, <2>2
    <3>2. u[m + (i - m)] = t[i - m]
      BY <1>0, <3>1
    <3>3. (s \o t)[i] = t[i - m]
      BY <1>0, <1>2, <2>2
    <3> QED BY <3>1, <3>2, <3>3
  <2> QED BY <1>0, <2>1, <2>2
<1> DEFINE c == s \o t
<1>5. c \in [1 .. m + n -> S] /\ \A i \in 1 .. m + n : c[i] = u[i]
  BY <1>3, <1>4
<1> HIDE DEF c
<1>6. c = u
  BY ONLY <1>0, <1>5
<1> QED BY <1>6 DEF c

Span(pos, n) == [i \in 1 .. n |-> pos + i - 1]

(* Positions that follow each other on the disk, and how they are cut in   *)
(* two.                                                                    *)
LEMMA SpanFacts ==
  ASSUME NEW pos \in Int, NEW n \in Nat
  PROVE  /\ Span(pos, n) \in [1 .. n -> Int] /\ Span(pos, n) \in Seq(Int) /\ Len(Span(pos, n)) = n
         /\ \A k \in 0 .. n : Span(pos, k) \o Span(pos + k, n - k) = Span(pos, n)
<1>1. \A x \in Int : \A k \in Nat : Span(x, k) \in [1 .. k -> Int]
  BY DEF Span
<1>2. Span(pos, n) \in Seq(Int) /\ Len(Span(pos, n)) = n
  BY <1>1
<1>3. ASSUME NEW k \in 0 .. n PROVE Span(pos, k) \o Span(pos + k, n - k) = Span(pos, n)
  <2>1. k \in Nat /\ n - k \in Nat /\ k + (n - k) = n /\ pos + k \in Int
    OBVIOUS
  <2> DEFINE s == Span(pos, k)
             l == n - k
             t == Span(pos + k, l)
             u == Span(pos, n)
  <2>2. s \in [1 .. k -> Int] /\ t \in [1 .. l -> Int] /\ u \in [1 .. k + l -> Int]
    BY <1>1, <2>1
  <2>3. \A i \in 1 .. k : u[i] = s[i]
    BY DEF Span
  <2>4. \A i \in 1 .. l : u[k + i] = t[i]
    BY DEF Span
  <2> HIDE DEF s, t, u, l
  <2>5. k \in Nat /\ l \in Nat
    BY <2>1 DEF l
  <2>6. s \o t = u
    <3>1. Joins(Int, k, l, s, t, u)
      BY <2>2, <2>3, <2>4, <2>5 DEF Joins
    <3> QED BY <3>1, Joined
  <2> QED BY <2>6 DEF s, t, u, l
<1> QED BY <1>1, <1>2, <1>3

DiskStep(pos, total, left, f) ==
  LET at == pos + total - left
      part == PartOfSector(at, left)
      bytes == [i \in 1 .. part |-> at + i - 1]
  IN  IF (at % SectorSize) + left < SectorSize THEN bytes ELSE bytes \o f[left - part]

(* One turn of the recursion of diskstreamer_read (streamer.c:29): the     *)
(* part in this sector, then the rest.                                     *)
LEMMA DiskStepFacts ==
  ASSUME NEW pos \in Int, NEW total \in Nat, NEW left \in 0 .. total, NEW f,
         \A l \in 0 .. left - 1 : f[l] = Span(pos + total - l, l)
  PROVE  DiskStep(pos, total, left, f) = Span(pos + total - left, left)
<1> DEFINE at == pos + total - left
           offset == at % SectorSize
           part == PartOfSector(at, left)
<1>1. SectorSize \in Nat \ {0} /\ at \in Int /\ left \in Nat
  BY GeometryAssumption
<1>2. offset \in 0 .. SectorSize - 1
  BY <1>1
<1>3. part = IF offset + left >= SectorSize THEN SectorSize - offset ELSE left
  BY DEF PartOfSector
<1>4. DiskStep(pos, total, left, f)
        = IF offset + left < SectorSize THEN Span(at, part) ELSE Span(at, part) \o f[left - part]
  BY DEF DiskStep, Span
<1> HIDE DEF offset, part
<1>5. CASE offset + left < SectorSize
  <2>1. part = left
    BY <1>1, <1>2, <1>3, <1>5
  <2> QED BY <1>4, <1>5, <2>1
<1>6. CASE offset + left >= SectorSize
  <2>1. part \in 1 .. left /\ part \in 0 .. left /\ left - part \in 0 .. left - 1
    BY <1>1, <1>2, <1>3, <1>6
  <2>2. f[left - part] = Span(pos + total - (left - part), left - part)
    BY <2>1
  <2>3. pos + total - (left - part) = at + part
    BY <2>1
  <2>4. Span(at, part) \o Span(at + part, left - part) = Span(at, left)
    <3> HIDE DEF at
    <3> QED BY <1>1, <2>1, SpanFacts
  <2>5. ~ (offset + left < SectorSize)
    BY <1>1, <1>2, <1>6
  <2> QED BY <1>4, <2>2, <2>3, <2>4, <2>5
<1> QED BY <1>1, <1>2, <1>5, <1>6

(* The streamer reads the bytes that follow its position, across sectors   *)
(* (streamer.c:29).                                                        *)
LEMMA DiskRead ==
  ASSUME NEW pos \in Int, NEW total \in Nat
  PROVE  diskstreamer_read(pos, total) = Span(pos, total)
<1> DEFINE Body(f) == [left \in 0 .. total |-> DiskStep(pos, total, left, f)]
           read == CHOOSE f : f = Body(f)
           c == [left \in 0 .. total |-> Span(pos + total - left, left)]
<1>1. diskstreamer_read(pos, total) = read[total]
  BY Zenon DEF diskstreamer_read, DiskStep
<1>2. c = Body(c)
  <2>1. \A left \in 0 .. total : c[left] = Span(pos + total - left, left)
    OBVIOUS
  <2> HIDE DEF c
  <2>2. \A left \in 0 .. total : DiskStep(pos, total, left, c) = Span(pos + total - left, left)
    <3> SUFFICES ASSUME NEW left \in 0 .. total
                 PROVE  DiskStep(pos, total, left, c) = Span(pos + total - left, left)
      OBVIOUS
    <3>1. \A l \in 0 .. left - 1 : c[l] = Span(pos + total - l, l)
      BY <2>1
    <3> QED BY <3>1, DiskStepFacts
  <2> QED BY <2>2, Zenon DEF c
<1>3. read = Body(read)
  <2> HIDE DEF Body, c
  <2> QED BY <1>2
<1> HIDE DEF read
<1>4. \A left \in 0 .. total : read[left] = DiskStep(pos, total, left, read)
  <2>1. \A left \in 0 .. total : read[left] = Body(read)[left]
    BY <1>3, Zenon
  <2> QED BY <2>1
<1> DEFINE T == {left \in 0 .. total : read[left] = Span(pos + total - left, left)}
<1>5. ASSUME NEW left \in 0 .. total, \A l \in 0 .. left - 1 : l \in T
      PROVE  left \in T
  BY <1>4, <1>5, DiskStepFacts
<1>6. total \in T
  <2>1. 0 .. total \subseteq T
    <3> HIDE DEF T
    <3> QED BY <1>5, BoundedInduction
  <2> QED BY <2>1
<1> QED BY <1>1, <1>6

-----------------------------------------------------------------------------
(* The cluster of an offset (fat16.c:398-459): as long as the walk meets   *)
(* no entry that ends it, it is on the cluster the table links to.         *)
LEMMA ClusterSizeFacts == ClusterSize \in Nat \ {0}
BY GeometryAssumption DEF ClusterSize

ChainStep(fat, v) ==
  IF v = EIO \/ FatEntry(fat, v) \in Refused THEN EIO ELSE FatEntry(fat, v)

(* A step along the chain is a number or an error, and a number is the     *)
(* table's entry (fat16.c:462).                                            *)
LEMMA ChainStepFacts ==
  ASSUME NEW C, NEW fat \in [C -> Nat], NEW v \in Nat \cup {EIO}
  PROVE  /\ ChainStep(fat, v) \in Nat \cup {EIO}
         /\ ChainStep(fat, v) # EIO => v # EIO /\ ChainStep(fat, v) = fat[v]
<1>1. FatEntry(fat, v) \in Nat /\ (FatEntry(fat, v) # 0 => FatEntry(fat, v) = fat[v])
  BY DEF FatEntry
<1>2. 0 \in Refused
  BY DEF Refused
<1> QED BY <1>1, <1>2 DEF ChainStep

(* The walk over the table, and the clusters it links: the functions that  *)
(* the model defines them by.                                              *)
IsWalk(fat, first, n, f) == \A i \in 0 .. n : f[i] = IF i = 0 THEN first ELSE ChainStep(fat, f[i - 1])

IsChain(fat, first, n, f) == \A i \in 0 .. n : f[i] = IF i = 0 THEN first ELSE fat[f[i - 1]]

(* The walk of fat16_get_cluster_for_offset is a function on 0 .. n,       *)
(* defined turn by turn.                                                   *)
LEMMA WalkExists ==
  ASSUME NEW C, NEW fat \in [C -> Nat], NEW first \in Nat, NEW at \in Nat
  PROVE  \E walk : /\ IsWalk(fat, first, at \div ClusterSize, walk)
                   /\ fat16_get_cluster_for_offset(fat, first, at) = walk[at \div ClusterSize]
<1> DEFINE n == at \div ClusterSize
           S == Nat \cup {EIO}
           Walk(f) == [i \in 0 .. n |-> IF i = 0 THEN first ELSE ChainStep(fat, f[i - 1])]
           walk == CHOOSE f : f = Walk(f)
           step == [i \in 1 .. n |-> [v \in S |-> ChainStep(fat, v)]]
<1>1. n \in Nat
  BY ClusterSizeFacts
<1>2. fat16_get_cluster_for_offset(fat, first, at) = walk[n]
  BY Zenon DEF fat16_get_cluster_for_offset, ChainStep
<1> HIDE DEF n
<1>3. walk = Walk(walk)
  <2>1. \A i \in 1 .. n : \A v \in S : step[i][v] = ChainStep(fat, v) /\ step[i][v] \in S
    BY ChainStepFacts
  <2> HIDE DEF step, S
  <2>2. first \in S
    BY DEF S
  <2>3. PICK f : Iterates(f, n, first, step) /\ \A i \in 0 .. n : f[i] \in S
    <3>1. \A i \in 1 .. n : \A v \in S : step[i][v] \in S
      BY <2>1
    <3> QED BY <1>1, <2>2, <3>1, Iteration
  <2>4. \A i \in 0 .. n : (IF i = 0 THEN first ELSE step[i][f[i - 1]])
                            = IF i = 0 THEN first ELSE ChainStep(fat, f[i - 1])
    BY <1>1, <2>1, <2>3
  <2>5. f = [i \in 0 .. n |-> IF i = 0 THEN first ELSE step[i][f[i - 1]]]
    BY <2>3 DEF Iterates
  <2>6. f = Walk(f)
    BY <2>4, <2>5, Zenon
  <2> HIDE DEF Walk
  <2> QED BY <2>6
<1> HIDE DEF walk
<1>4. IsWalk(fat, first, n, walk)
  <2>1. \A i \in 0 .. n : walk[i] = Walk(walk)[i]
    BY <1>3, Zenon
  <2> QED BY <2>1 DEF IsWalk
<1> QED BY <1>2, <1>4 DEF n

(* The chain that the reference follows is a function as well.             *)
LEMMA ChainExists ==
  ASSUME NEW fat, NEW item, NEW at \in Nat
  PROVE  \E chain : /\ IsChain(fat, item.first, at \div ClusterSize, chain)
                    /\ ClusterOf(fat, item, at) = chain[at \div ClusterSize]
<1> DEFINE n == at \div ClusterSize
           first == item.first
           Links(f) == [i \in 0 .. n |-> IF i = 0 THEN item.first ELSE fat[f[i - 1]]]
           nth == CHOOSE f : f = Links(f)
           link == [i \in 1 .. n |-> fat]
<1>1. n \in Nat
  BY ClusterSizeFacts
<1>2. ClusterOf(fat, item, at) = nth[n]
  BY Zenon DEF ClusterOf
<1> HIDE DEF n
<1>3. nth = Links(nth)
  <2>1. \A i \in 1 .. n : link[i] = fat
    OBVIOUS
  <2> HIDE DEF link
  <2>3. PICK f : Iterates(f, n, first, link)
    BY <1>1, IterationExists
  <2>4. \A i \in 0 .. n : (IF i = 0 THEN first ELSE link[i][f[i - 1]])
                            = IF i = 0 THEN item.first ELSE fat[f[i - 1]]
    BY <1>1, <2>1
  <2>5. f = [i \in 0 .. n |-> IF i = 0 THEN first ELSE link[i][f[i - 1]]]
    BY <2>3 DEF Iterates
  <2>6. f = Links(f)
    BY <2>4, <2>5, Zenon
  <2> HIDE DEF Links
  <2> QED BY <2>6
<1> HIDE DEF nth
<1>4. IsChain(fat, item.first, n, nth)
  <2>1. \A i \in 0 .. n : nth[i] = Links(nth)[i]
    BY <1>3, Zenon
  <2> QED BY <2>1 DEF IsChain
<1> QED BY <1>2, <1>4 DEF n

(* Two chains of one file agree as far as both go.                         *)
LEMMA SameChain ==
  ASSUME NEW fat, NEW first, NEW m \in Nat, NEW n \in Nat, m <= n,
         NEW f, NEW g, IsChain(fat, first, m, f), IsChain(fat, first, n, g)
  PROVE  f[m] = g[m]
<1> DEFINE T == {i \in Nat : i <= m => f[i] = g[i]}
<1>1. 0 \in T
  BY DEF IsChain
<1>2. ASSUME NEW i \in Nat, i \in T PROVE i + 1 \in T
  <2> SUFFICES ASSUME i + 1 <= m PROVE f[i + 1] = g[i + 1]
    OBVIOUS
  <2>1. i + 1 \in 0 .. m /\ i + 1 \in 0 .. n /\ i + 1 # 0 /\ (i + 1) - 1 = i /\ f[i] = g[i]
    BY <1>2
  <2> QED BY <2>1 DEF IsChain
<1>3. Nat \subseteq T
  <2> HIDE DEF T
  <2> QED BY <1>1, <1>2, SetInduction
<1> QED BY <1>3

(* When the walk gives a cluster, it is the one the chain has at that      *)
(* offset (fat16.c:462).                                                   *)
LEMMA ClusterFound ==
  ASSUME NEW C, NEW fat \in [C -> Nat], NEW item, item.first \in Nat, NEW at \in Nat
  PROVE  LET cluster == fat16_get_cluster_for_offset(fat, item.first, at)
         IN  cluster \in Nat \cup {EIO} /\ (cluster # EIO => cluster = ClusterOf(fat, item, at))
<1> DEFINE n == at \div ClusterSize
           first == item.first
<1>1. n \in Nat
  BY ClusterSizeFacts
<1>2. PICK walk : IsWalk(fat, first, n, walk) /\ fat16_get_cluster_for_offset(fat, first, at) = walk[n]
  BY WalkExists
<1>3. PICK nth : IsChain(fat, first, n, nth) /\ ClusterOf(fat, item, at) = nth[n]
  BY ChainExists
<1> HIDE DEF n
<1> DEFINE T == {i \in Nat : i <= n => walk[i] \in Nat \cup {EIO} /\ (walk[i] # EIO => walk[i] = nth[i])}
<1>4. 0 \in T
  BY <1>1, <1>2, <1>3 DEF IsWalk, IsChain
<1>5. ASSUME NEW i \in Nat, i \in T PROVE i + 1 \in T
  <2> SUFFICES ASSUME i + 1 <= n
               PROVE  walk[i + 1] \in Nat \cup {EIO} /\ (walk[i + 1] # EIO => walk[i + 1] = nth[i + 1])
    OBVIOUS
  <2>1. walk[i] \in Nat \cup {EIO} /\ (walk[i] # EIO => walk[i] = nth[i])
    BY <1>1, <1>5
  <2>2. i + 1 \in 0 .. n /\ i + 1 # 0 /\ (i + 1) - 1 = i
    BY <1>1
  <2>3. walk[i + 1] = ChainStep(fat, walk[i]) /\ nth[i + 1] = fat[nth[i]]
    BY <1>2, <1>3, <2>2 DEF IsWalk, IsChain
  <2>4. /\ ChainStep(fat, walk[i]) \in Nat \cup {EIO}
        /\ ChainStep(fat, walk[i]) # EIO => walk[i] # EIO /\ ChainStep(fat, walk[i]) = fat[walk[i]]
    BY <2>1, ChainStepFacts
  <2> QED BY <2>1, <2>3, <2>4
<1>6. Nat \subseteq T
  <2> HIDE DEF T
  <2> QED BY <1>4, <1>5, SetInduction
<1> QED BY <1>1, <1>2, <1>3, <1>6

(* In a file whose clusters are linked the walk does not end early.        *)
LEMMA LinkedClusterFound ==
  ASSUME NEW C, NEW fat \in [C -> Nat], NEW item, item.first \in Nat, item.size \in Nat, Linked(fat, item),
         NEW at \in 0 .. item.size - 1
  PROVE  fat16_get_cluster_for_offset(fat, item.first, at) # EIO
<1> DEFINE n == at \div ClusterSize
           first == item.first
<1>0. at \in Nat /\ ClusterSize \in Nat \ {0}
  BY ClusterSizeFacts
<1>1. n \in Nat /\ ClusterSize * n <= at
  BY <1>0
<1>2. PICK walk : IsWalk(fat, first, n, walk) /\ fat16_get_cluster_for_offset(fat, first, at) = walk[n]
  BY <1>0, WalkExists
<1>3. PICK nth : IsChain(fat, first, n, nth) /\ ClusterOf(fat, item, at) = nth[n]
  BY <1>0, ChainExists
<1> HIDE DEF n
<1>4. ASSUME NEW i \in 0 .. n PROVE nth[i] \in DOMAIN fat \ Refused
  <2> DEFINE o == ClusterSize * i
  <2>1. o \in Nat /\ o <= at
    <3>1. o \in Nat
      BY <1>0
    <3>2. ClusterSize * n = o + ClusterSize * (n - i) /\ ClusterSize * (n - i) \in Nat
      BY <1>0, <1>1
    <3> QED BY <1>1, <3>1, <3>2
  <2>2. o \div ClusterSize = i
    BY <1>0, Z3
  <2>3. o \in 0 .. item.size - 1
    BY <2>1
  <2> HIDE DEF o
  <2>4. PICK g : IsChain(fat, first, i, g) /\ ClusterOf(fat, item, o) = g[i]
    BY <2>1, <2>2, ChainExists
  <2>5. g[i] = nth[i]
    BY <1>1, <1>3, <2>4, SameChain
  <2> QED BY <2>3, <2>4, <2>5 DEF Linked
<1> DEFINE T == {i \in Nat : i <= n => walk[i] = nth[i] /\ nth[i] \in Nat}
<1>5. 0 \in T
  BY <1>1, <1>2, <1>3 DEF IsWalk, IsChain
<1>6. ASSUME NEW i \in Nat, i \in T PROVE i + 1 \in T
  <2> SUFFICES ASSUME i + 1 <= n PROVE walk[i + 1] = nth[i + 1] /\ nth[i + 1] \in Nat
    OBVIOUS
  <2>1. /\ walk[i] = nth[i] /\ nth[i] \in Nat /\ nth[i] \in C
        /\ nth[i + 1] \notin Refused
    BY <1>1, <1>4, <1>6
  <2>2. i + 1 \in 0 .. n /\ i + 1 # 0 /\ (i + 1) - 1 = i
    BY <1>1
  <2>3. walk[i + 1] = ChainStep(fat, nth[i]) /\ nth[i + 1] = fat[nth[i]]
    BY <1>2, <1>3, <2>1, <2>2 DEF IsWalk, IsChain
  <2>4. FatEntry(fat, nth[i]) = fat[nth[i]] /\ fat[nth[i]] \in Nat /\ nth[i] # EIO
    BY <2>1 DEF FatEntry, EIO
  <2> QED BY <2>1, <2>3, <2>4 DEF ChainStep
<1>7. Nat \subseteq T
  <2> HIDE DEF T
  <2> QED BY <1>5, <1>6, SetInduction
<1>8. nth[n] \in Nat /\ walk[n] = nth[n]
  BY <1>1, <1>7
<1> QED BY <1>2, <1>8 DEF EIO

(* The bytes of a file that lie in one cluster follow one another on the   *)
(* disk (fat16.c:426, :480-483).                                           *)
LEMMA ClusterOfPart ==
  ASSUME NEW fat, NEW item, NEW a, NEW b, a \div ClusterSize = b \div ClusterSize
  PROVE  ClusterOf(fat, item, a) = ClusterOf(fat, item, b)
<1> DEFINE Nth(n) == LET nth[k \in 0 .. n] == IF k = 0 THEN item.first ELSE fat[nth[k - 1]] IN nth[n]
<1>1. ClusterOf(fat, item, a) = Nth(a \div ClusterSize) /\ ClusterOf(fat, item, b) = Nth(b \div ClusterSize)
  BY Zenon DEF ClusterOf
<1> HIDE DEF Nth
<1> QED BY <1>1

PosOf(cluster, at) == fat16_cluster_to_sector(cluster) * SectorSize + (at % ClusterSize)

(* Sectors and positions are numbers.                                      *)
LEMMA PosFacts ==
  ASSUME NEW cluster \in Int, NEW at \in Int
  PROVE  /\ fat16_cluster_to_sector(cluster) * SectorSize \in Int
         /\ PosOf(cluster, at) \in Int
<1>1. SectorSize \in Int /\ SectorsPerCluster \in Int /\ DataSector \in Int /\ at % ClusterSize \in Int
  BY GeometryAssumption, ClusterSizeFacts
<1>2. (cluster - 2) * SectorsPerCluster \in Int
  BY <1>1
<1>3. fat16_cluster_to_sector(cluster) \in Int
  BY <1>1, <1>2 DEF fat16_cluster_to_sector
<1>4. fat16_cluster_to_sector(cluster) * SectorSize \in Int
  BY <1>1, <1>3
<1> QED BY <1>1, <1>4 DEF PosOf

(* What the streamer reads inside one cluster is that part of the file.    *)
LEMMA PartRead ==
  ASSUME NEW fat, NEW item, NEW at \in Nat, NEW n \in Nat, (at % ClusterSize) + n <= ClusterSize,
         ClusterOf(fat, item, at) \in Int
  PROVE  diskstreamer_read(PosOf(ClusterOf(fat, item, at), at), n) = Bytes(fat, item, at, n)
<1> DEFINE cluster == ClusterOf(fat, item, at)
           pos == PosOf(cluster, at)
<1>1. pos \in Int
  BY PosFacts
<1>2. diskstreamer_read(pos, n) = Span(pos, n)
  BY <1>1, DiskRead
<1>3. ASSUME NEW k \in 1 .. n PROVE pos + k - 1 = ByteOf(fat, item, at + k - 1)
  <2> DEFINE j == k - 1
  <2>1. j \in Nat /\ (at % ClusterSize) + j < ClusterSize /\ at + k - 1 = at + j /\ at \in Int
    BY <1>3, ClusterSizeFacts
  <2> HIDE DEF j
  <2>2. (at + j) % ClusterSize = (at % ClusterSize) + j /\ (at + j) \div ClusterSize = at \div ClusterSize
    BY <2>1, ClusterSizeFacts, SamePart
  <2>3. ClusterOf(fat, item, at + j) = cluster
    BY <2>2, ClusterOfPart
  <2> DEFINE base == fat16_cluster_to_sector(cluster) * SectorSize
  <2>4. base \in Int /\ at % ClusterSize \in Int
    BY PosFacts, ClusterSizeFacts
  <2>5. ByteOf(fat, item, at + j) = base + ((at % ClusterSize) + j)
    BY <2>2, <2>3, Zenon DEF ByteOf, fat16_cluster_to_sector
  <2>6. pos = base + (at % ClusterSize)
    BY DEF PosOf
  <2> HIDE DEF base, pos, cluster
  <2>7. pos + j = ByteOf(fat, item, at + j)
    BY <2>1, <2>4, <2>5, <2>6
  <2>8. pos + k - 1 = pos + j
    BY <1>1 DEF j
  <2> QED BY <2>1, <2>7, <2>8
<1> HIDE DEF pos
<1>4. Span(pos, n) = Bytes(fat, item, at, n)
  BY <1>3, Zenon DEF Span, Bytes
<1> QED BY <1>2, <1>4 DEF pos

(* The bytes of a file from one offset, and those from where they end, are *)
(* the bytes from the first.                                               *)
LEMMA BytesJoined ==
  ASSUME NEW fat, NEW item, NEW from \in Int, NEW m \in Nat, NEW n \in Nat,
         Bytes(fat, item, from, m) \in Seq(Int), Bytes(fat, item, from + m, n) \in Seq(Int)
  PROVE  Bytes(fat, item, from, m) \o Bytes(fat, item, from + m, n) = Bytes(fat, item, from, m + n)
<1> DEFINE s == Bytes(fat, item, from, m)
           t == Bytes(fat, item, from + m, n)
           u == Bytes(fat, item, from, m + n)
<1>1. s = [k \in 1 .. m |-> ByteOf(fat, item, from + k - 1)]
  BY DEF Bytes
<1>2. t = [k \in 1 .. n |-> ByteOf(fat, item, (from + m) + k - 1)]
  BY DEF Bytes
<1>3. u = [k \in 1 .. m + n |-> ByteOf(fat, item, from + k - 1)]
  BY DEF Bytes
<1>4. s \in Seq(Int) /\ t \in Seq(Int)
  OBVIOUS
<1> HIDE DEF s, t, u
<1>5. s \in [1 .. m -> Int]
  <2>1. Len(s) = m
    BY <1>1
  <2> QED BY <1>4, <2>1
<1>6. t \in [1 .. n -> Int]
  <2>1. Len(t) = n
    BY <1>2
  <2> QED BY <1>4, <2>1
<1>7. \A i \in 1 .. m : u[i] = s[i]
  BY <1>1, <1>3
<1>8. ASSUME NEW i \in 1 .. n PROVE u[m + i] = t[i]
  <2>1. m + i \in 1 .. m + n /\ from + (m + i) - 1 = (from + m) + i - 1
    OBVIOUS
  <2> QED BY <1>2, <1>3, <2>1
<1>9. u \in [1 .. m + n -> Int]
  <2>1. ASSUME NEW i \in 1 .. m + n PROVE u[i] \in Int
    <3>1. CASE i <= m
      BY <1>5, <1>7, <3>1
    <3>2. CASE i > m
      <4>1. i - m \in 1 .. n /\ m + (i - m) = i
        BY <3>2
      <4> QED BY <1>6, <1>8, <4>1
    <3> QED BY <3>1, <3>2
  <2> QED BY <1>3, <2>1
<1>10. Joins(Int, m, n, s, t, u)
  BY <1>5, <1>6, <1>7, <1>8, <1>9 DEF Joins
<1>11. s \o t = u
  BY <1>10, Joined
<1> QED BY <1>11 DEF s, t, u

-----------------------------------------------------------------------------
(* One member of a read (fat16.c:461-496), from the cluster of the offset  *)
(* on: what is left, and what of it v gives.                               *)
ReadStep(fat, start, offset, total, left, v) ==
  LET at == offset + total - left
      cluster == fat16_get_cluster_for_offset(fat, start, at)
      pos == fat16_cluster_to_sector(cluster) * SectorSize + (at % ClusterSize)
      part == IF left > ClusterSize THEN ClusterSize ELSE left
  IN  IF cluster = EIO THEN [res |-> EIO, data |-> <<>>]
      ELSE IF left = part THEN [res |-> 0, data |-> diskstreamer_read(pos, part)]
      ELSE [res |-> v.res, data |-> diskstreamer_read(pos, part) \o v.data]

PartOfCluster(left) == IF left > ClusterSize THEN ClusterSize ELSE left

(* What a read of n bytes from at on may give: an error, or bytes, which   *)
(* are those of the file if the read begins with a cluster or stays in one.*)
Outcomes == [res : {0, EIO}, data : Seq(Int)]

GivesFile(fat, item, at, n, v) ==
  /\ v \in Outcomes
  /\ v.res # EIO /\ Apart(at, n) => v.data = Bytes(fat, item, at, n)

(* One turn of fat16_read_internal: if the rest gives the file, so does    *)
(* all (fat16.c:508).                                                      *)
LEMMA ReadStepFacts ==
  ASSUME NEW C, NEW fat \in [C -> Nat], NEW item, item.first \in Nat,
         NEW offset \in Nat, NEW total \in Nat, NEW left \in 0 .. total, NEW v,
         left > ClusterSize
           => GivesFile(fat, item, offset + total - (left - ClusterSize), left - ClusterSize, v)
  PROVE  GivesFile(fat, item, offset + total - left, left, ReadStep(fat, item.first, offset, total, left, v))
<1> DEFINE at == offset + total - left
           cluster == fat16_get_cluster_for_offset(fat, item.first, at)
           part == PartOfCluster(left)
           read == diskstreamer_read(PosOf(cluster, at), part)
           r == ReadStep(fat, item.first, offset, total, left, v)
<1>0. at \in Nat /\ left \in Nat /\ ClusterSize \in Nat \ {0} /\ offset + total - (left - ClusterSize) = at + ClusterSize
  BY ClusterSizeFacts
<1>1. cluster \in Nat \cup {EIO} /\ (cluster # EIO => cluster = ClusterOf(fat, item, at))
  BY <1>0, ClusterFound
<1>2. r = IF cluster = EIO THEN [res |-> EIO, data |-> <<>>]
          ELSE IF left = part THEN [res |-> 0, data |-> read]
          ELSE [res |-> v.res, data |-> read \o v.data]
  BY Zenon DEF ReadStep, PartOfCluster, PosOf
<1>3. part \in Nat /\ part = IF left > ClusterSize THEN ClusterSize ELSE left
  BY <1>0 DEF PartOfCluster
<1> HIDE DEF at, cluster, part, r
<1>4. CASE cluster = EIO
  <2>1. r = [res |-> EIO, data |-> <<>>]
    BY <1>2, <1>4
  <2> QED BY <2>1 DEF GivesFile, Outcomes, r, at
<1>5. CASE cluster # EIO
  <2>1. cluster \in Nat /\ cluster = ClusterOf(fat, item, at)
    BY <1>1, <1>5
  <2>2. PosOf(cluster, at) \in Int
    BY <1>0, <2>1, PosFacts
  <2>3. read \in Seq(Int)
    <3>1. read = Span(PosOf(cluster, at), part)
      BY <1>3, <2>2, DiskRead
    <3> QED BY <1>3, <2>2, <3>1, SpanFacts
  <2>4. (at % ClusterSize) + part <= ClusterSize => read = Bytes(fat, item, at, part)
    BY <1>0, <1>3, <2>1, PartRead
  <2> HIDE DEF read
  <2>5. CASE left <= ClusterSize
    <3>1. left = part
      BY <1>0, <1>3, <2>5
    <3>2. r = [res |-> 0, data |-> read]
      BY <1>2, <1>5, <3>1
    <3>3. Apart(at, left) => (at % ClusterSize) + left <= ClusterSize
      BY <1>0, <2>5 DEF Apart
    <3>4. r \in Outcomes /\ r.data = read
      BY <2>3, <3>2 DEF Outcomes
    <3> QED BY <2>4, <3>1, <3>3, <3>4 DEF GivesFile, r, at
  <2>6. CASE left > ClusterSize
    <3> DEFINE n == left - ClusterSize
    <3>1. part = ClusterSize /\ left # part /\ n \in Nat /\ ClusterSize + n = left
      BY <1>0, <1>3, <2>6
    <3>2. r = [res |-> v.res, data |-> read \o v.data]
      BY <1>2, <1>5, <3>1
    <3>3. GivesFile(fat, item, at + ClusterSize, n, v)
      BY <1>0, <2>6
    <3> HIDE DEF n
    <3>4. v \in Outcomes
      BY <3>3 DEF GivesFile
    <3>5. r \in Outcomes /\ r.res = v.res /\ r.data = read \o v.data
      BY <2>3, <3>2, <3>4 DEF Outcomes
    <3>6. ASSUME r.res # EIO, Apart(at, left) PROVE r.data = Bytes(fat, item, at, left)
      <4>1. at % ClusterSize = 0
        BY <1>0, <2>6, <3>6 DEF Apart
      <4>2. (at + ClusterSize) % ClusterSize = 0
        <5>1. at \in Int
          BY <1>0
        <5> QED BY <1>0, <4>1, <5>1, NextMultiple
      <4>3. v.data = Bytes(fat, item, at + ClusterSize, n)
        BY <3>3, <3>5, <3>6, <4>2 DEF GivesFile, Apart
      <4>4. read = Bytes(fat, item, at, ClusterSize)
        BY <1>0, <2>4, <3>1, <4>1
      <4>5. v.data \in Seq(Int)
        BY <3>4 DEF Outcomes
      <4>6. at \in Int /\ ClusterSize \in Nat
        BY <1>0
      <4>7. Bytes(fat, item, at, ClusterSize) \o Bytes(fat, item, at + ClusterSize, n)
              = Bytes(fat, item, at, ClusterSize + n)
        <5>1. Bytes(fat, item, at, ClusterSize) \in Seq(Int) /\ Bytes(fat, item, at + ClusterSize, n) \in Seq(Int)
          BY <2>3, <4>3, <4>4, <4>5
        <5>2. n \in Nat
          BY <3>1
        <5> QED BY <4>6, <5>1, <5>2, BytesJoined
      <4> QED BY <3>1, <3>5, <4>3, <4>4, <4>7
    <3> QED BY <3>5, <3>6 DEF GivesFile, r, at
  <2> QED BY <1>0, <2>5, <2>6
<1> QED BY <1>4, <1>5

IsRead(fat, start, offset, total, f) ==
  f = [left \in 0 .. total |-> ReadStep(fat, start, offset, total, left, f[left - PartOfCluster(left)])]

(* The read of each number of bytes left exists: it takes that of fewer.   *)
LEMMA ReadExists ==
  ASSUME NEW fat, NEW start, NEW offset, NEW total \in Nat
  PROVE  \E f : IsRead(fat, start, offset, total, f)
<1> DEFINE Step(left, v) == ReadStep(fat, start, offset, total, left, v)
           Before(left) == left - PartOfCluster(left)
           Solves(f, k) == \A i \in 0 .. k : f[i] = Step(i, f[Before(i)])
           T == {k \in Nat : \E f : Solves(f, k)}
<1>1. ASSUME NEW i \in Nat \ {0} PROVE Before(i) \in 0 .. i - 1
  <2>1. PartOfCluster(i) \in 1 .. i
    BY ClusterSizeFacts DEF PartOfCluster
  <2> QED BY <2>1
<1>2. Before(0) = 0
  <2>1. PartOfCluster(0) = 0
    BY ClusterSizeFacts DEF PartOfCluster
  <2> QED BY <2>1
<1>3. \A v, w : Step(0, v) = Step(0, w)
  <2>1. PartOfCluster(0) = 0
    BY ClusterSizeFacts DEF PartOfCluster
  <2> QED BY <2>1, Zenon DEF ReadStep, PartOfCluster
<1> HIDE DEF Step, Before
<1>4. 0 \in T
  <2> DEFINE g == [i \in {0} |-> Step(0, 0)]
  <2>1. \A i \in 0 .. 0 : g[i] = Step(i, g[Before(i)])
    <3>1. g[0] = Step(0, 0) /\ Step(0, 0) = Step(0, g[Before(0)])
      BY <1>3
    <3> HIDE DEF g
    <3> QED BY <3>1
  <2> HIDE DEF g
  <2> QED BY <2>1
<1>5. ASSUME NEW k \in Nat, k \in T PROVE k + 1 \in T
  <2>1. PICK f : Solves(f, k)
    BY <1>5
  <2> DEFINE g == [i \in 0 .. k + 1 |-> IF i = k + 1 THEN Step(k + 1, f[Before(k + 1)]) ELSE f[i]]
  <2>2. ASSUME NEW i \in 0 .. k + 1 PROVE g[i] = Step(i, g[Before(i)])
    <3>1. Before(i) \in 0 .. k
      BY <1>1, <1>2
    <3>2. g[Before(i)] = f[Before(i)]
      BY <3>1
    <3>3. g[i] = Step(i, f[Before(i)])
      <4>1. CASE i \in 0 .. k
        BY <2>1, <4>1
      <4>2. CASE i = k + 1
        BY <4>2
      <4> QED BY <4>1, <4>2
    <3> HIDE DEF g
    <3> QED BY <3>2, <3>3
  <2>3. Solves(g, k + 1)
    <3> HIDE DEF g
    <3> QED BY <2>2
  <2> HIDE DEF Solves, g
  <2> QED BY <2>3
<1>6. total \in T
  <2> HIDE DEF T
  <2> QED BY <1>4, <1>5, SetInduction
<1>7. PICK f : Solves(f, total)
  BY <1>6
<1> DEFINE h == [i \in 0 .. total |-> f[i]]
<1>8. ASSUME NEW i \in 0 .. total PROVE f[i] = Step(i, h[Before(i)])
  <2>1. Before(i) \in 0 .. total
    BY <1>1, <1>2
  <2>2. h[Before(i)] = f[Before(i)]
    BY <2>1
  <2> HIDE DEF h
  <2> QED BY <1>7, <2>2
<1>9. h = [i \in 0 .. total |-> Step(i, h[Before(i)])]
  <2>1. \A i \in 0 .. total : f[i] = Step(i, h[Before(i)])
    BY <1>8
  <2> HIDE DEF Solves
  <2> QED BY <2>1, Zenon
<1> HIDE DEF h, Solves
<1>10. IsRead(fat, start, offset, total, h)
  BY <1>9, Zenon DEF IsRead, Step, Before
<1> QED BY <1>10

IsInternalRead(fat, start, offset, total, f) ==
  \A left \in 0 .. total :
    f[left] = ReadStep(fat, start, offset, total, left, f[left - PartOfCluster(left)])

(* The recursion of fat16_read_internal is a function on 0 .. total.       *)
LEMMA InternalReadExists ==
  ASSUME NEW fat, NEW start, NEW offset, NEW total \in Nat
  PROVE  \E read : /\ IsInternalRead(fat, start, offset, total, read)
                   /\ fat16_read_internal(fat, start, offset, total) = read[total]
<1> DEFINE Body(f) == [left \in 0 .. total |->
                         ReadStep(fat, start, offset, total, left, f[left - PartOfCluster(left)])]
           read == CHOOSE f : f = Body(f)
<1>1. fat16_read_internal(fat, start, offset, total) = read[total]
  BY Zenon DEF fat16_read_internal, ReadStep, PartOfCluster
<1>2. read = Body(read)
  <2>1. \E f : IsRead(fat, start, offset, total, f)
    BY ReadExists
  <2>2. \E f : f = Body(f)
    BY <2>1, Zenon DEF IsRead
  <2> HIDE DEF Body
  <2> QED BY <2>2
<1> HIDE DEF read
<1>3. IsInternalRead(fat, start, offset, total, read)
  <2>1. \A left \in 0 .. total : read[left] = Body(read)[left]
    BY <1>2, Zenon
  <2> QED BY <2>1 DEF IsInternalRead
<1> QED BY <1>1, <1>3

(* fat16_read_internal gives the bytes of the file or an error, when no    *)
(* part goes past a cluster (fat16.c:508).                                 *)
LEMMA InternalRead ==
  ASSUME NEW C, NEW fat \in [C -> Nat], NEW item, item.first \in Nat,
         NEW offset \in Nat, NEW total \in Nat
  PROVE  GivesFile(fat, item, offset, total, fat16_read_internal(fat, item.first, offset, total))
<1> DEFINE start == item.first
<1>1. PICK read : /\ IsInternalRead(fat, start, offset, total, read)
                  /\ fat16_read_internal(fat, start, offset, total) = read[total]
  BY InternalReadExists
<1> DEFINE Right(left) == GivesFile(fat, item, offset + total - left, left, read[left])
           T == {left \in 0 .. total : Right(left)}
<1>2. ASSUME NEW left \in 0 .. total, \A l \in 0 .. left - 1 : l \in T
      PROVE  left \in T
  <2>1. ASSUME left > ClusterSize
        PROVE  left - PartOfCluster(left) = left - ClusterSize /\ Right(left - ClusterSize)
    <3>1. PartOfCluster(left) = ClusterSize /\ left - ClusterSize \in 0 .. left - 1
      BY <2>1, ClusterSizeFacts DEF PartOfCluster
    <3> HIDE DEF Right
    <3> QED BY <1>2, <3>1
  <2> DEFINE v == read[left - PartOfCluster(left)]
  <2>2. left > ClusterSize
          => GivesFile(fat, item, offset + total - (left - ClusterSize), left - ClusterSize, v)
    BY <2>1
  <2>3. read[left] = ReadStep(fat, start, offset, total, left, v)
    BY <1>1 DEF IsInternalRead
  <2> HIDE DEF v
  <2>4. Right(left)
    BY <2>2, <2>3, ReadStepFacts
  <2> HIDE DEF Right
  <2> QED BY <2>4
<1>3. Right(total)
  <2>1. 0 .. total \subseteq T
    <3> HIDE DEF T
    <3> QED BY <1>2, BoundedInduction
  <2> HIDE DEF Right
  <2> QED BY <2>1
<1>4. offset + total - total = offset
  OBVIOUS
<1> QED BY <1>1, <1>3, <1>4

(* All of a file whose clusters are linked can be read. *)
LEMMA WholeFileRead ==
  ASSUME NEW C, NEW fat \in [C -> Nat], NEW item, item.first \in Nat, item.size \in Nat \ {0},
         Linked(fat, item)
  PROVE  fat16_read_internal(fat, item.first, 0, item.size).res = 0
<1> DEFINE total == item.size
<1>0. total \in Nat \ {0} /\ item.size \in Nat
  OBVIOUS
<1>1. PICK read : /\ IsInternalRead(fat, item.first, 0, total, read)
                  /\ fat16_read_internal(fat, item.first, 0, total) = read[total]
  BY InternalReadExists
<1> DEFINE T == {left \in 0 .. total : left > 0 => read[left].res = 0}
<1>2. ASSUME NEW left \in 0 .. total, \A l \in 0 .. left - 1 : l \in T
      PROVE  left \in T
  <2> SUFFICES ASSUME left > 0 PROVE read[left].res = 0
    OBVIOUS
  <2> DEFINE at == 0 + total - left
             v == read[left - PartOfCluster(left)]
             cluster == fat16_get_cluster_for_offset(fat, item.first, at)
             bytes == diskstreamer_read(PosOf(cluster, at), PartOfCluster(left))
  <2>1. at \in 0 .. item.size - 1
    OBVIOUS
  <2> HIDE DEF at
  <2>2. cluster # EIO
    BY <1>0, <2>1, LinkedClusterFound
  <2>3. read[left] = ReadStep(fat, item.first, 0, total, left, v)
    BY <1>1 DEF IsInternalRead
  <2>4. ReadStep(fat, item.first, 0, total, left, v)
          = IF cluster = EIO THEN [res |-> EIO, data |-> <<>>]
            ELSE IF left = PartOfCluster(left) THEN [res |-> 0, data |-> bytes]
            ELSE [res |-> v.res, data |-> bytes \o v.data]
    BY Zenon DEF ReadStep, PartOfCluster, PosOf, at
  <2>5. ASSUME left # PartOfCluster(left) PROVE v.res = 0
    <3>1. left - PartOfCluster(left) \in 0 .. left - 1 /\ left - PartOfCluster(left) > 0
      BY <2>5, ClusterSizeFacts DEF PartOfCluster
    <3> QED BY <1>2, <3>1
  <2> HIDE DEF cluster, bytes, v
  <2> QED BY <2>2, <2>3, <2>4, <2>5
<1>3. total \in T
  <2>1. 0 .. total \subseteq T
    <3> HIDE DEF T, total
    <3> QED BY <1>0, <1>2, BoundedInduction
  <2> HIDE DEF T
  <2> QED BY <1>0, <2>1
<1> QED BY <1>0, <1>1, <1>3

-----------------------------------------------------------------------------
(* The members of a read follow one another (fat16.c:527-551).             *)
MemberStep(fat, first, pos, size, i, v) ==
  LET m == fat16_read_internal(fat, first, pos + (i - 1) * size, size)
  IN  IF v.res = EIO THEN v ELSE [res |-> m.res, data |-> v.data \o m.data]

MembersApart(pos, size, i) == \A j \in 1 .. i : Apart(pos + (j - 1) * size, size)

GoesOn(fat, item, pos, size, i, v, r) ==
  /\ r \in Outcomes
  /\ v.res = EIO => r.res = EIO
  /\ v.res # EIO /\ r.res # EIO /\ MembersApart(pos, size, i) /\ v.data = Bytes(fat, item, pos, (i - 1) * size)
       => r.data = Bytes(fat, item, pos, i * size)

(* One turn of the loop of fat16_read keeps what was read before it        *)
(* (fat16.c:742).                                                          *)
LEMMA MemberStepFacts ==
  ASSUME NEW C, NEW fat \in [C -> Nat], NEW item, item.first \in Nat,
         NEW pos \in Nat, NEW size \in Nat, NEW i \in Nat \ {0}, NEW v \in Outcomes
  PROVE  GoesOn(fat, item, pos, size, i, v, MemberStep(fat, item.first, pos, size, i, v))
<1> DEFINE k == (i - 1) * size
           at == pos + k
           m == fat16_read_internal(fat, item.first, at, size)
           r == MemberStep(fat, item.first, pos, size, i, v)
<1>1. k \in Nat /\ at \in Nat /\ k + size = i * size
  BY Z3
<1>2. GivesFile(fat, item, at, size, m)
  BY <1>1, InternalRead
<1>3. r = IF v.res = EIO THEN v ELSE [res |-> m.res, data |-> v.data \o m.data]
  BY DEF MemberStep
<1>4. MembersApart(pos, size, i) => Apart(at, size)
  BY DEF MembersApart
<1> HIDE DEF m, r, at, k
<1>5. m \in Outcomes /\ m.res \in {0, EIO} /\ m.data \in Seq(Int) /\ v.data \in Seq(Int)
  BY <1>2 DEF GivesFile, Outcomes
<1>6. CASE v.res = EIO
  <2>1. r = v
    BY <1>3, <1>6
  <2> QED BY <1>6, <2>1 DEF GoesOn, r
<1>7. CASE v.res # EIO
  <2>1. r = [res |-> m.res, data |-> v.data \o m.data]
    BY <1>3, <1>7
  <2>2. r \in Outcomes /\ r.res = m.res /\ r.data = v.data \o m.data
    BY <1>5, <2>1 DEF Outcomes
  <2>3. ASSUME r.res # EIO, MembersApart(pos, size, i), v.data = Bytes(fat, item, pos, k)
        PROVE  r.data = Bytes(fat, item, pos, i * size)
    <3>1. m.data = Bytes(fat, item, pos + k, size)
      BY <1>2, <1>4, <2>2, <2>3 DEF GivesFile, at
    <3>2. Bytes(fat, item, pos, k) \in Seq(Int) /\ Bytes(fat, item, pos + k, size) \in Seq(Int)
      BY <1>5, <2>3, <3>1
    <3>3. pos \in Int /\ k \in Nat /\ size \in Nat
      BY <1>1
    <3>4. Bytes(fat, item, pos, k) \o Bytes(fat, item, pos + k, size) = Bytes(fat, item, pos, k + size)
      BY <3>2, <3>3, BytesJoined
    <3> QED BY <1>1, <2>2, <2>3, <3>1, <3>4
  <2> QED BY <1>7, <2>2, <2>3 DEF GoesOn, r, k
<1> QED BY <1>6, <1>7

(* The first n members, one after the other. *)
AreMembers(fat, first, pos, size, n, f) ==
  \A i \in 0 .. n :
    f[i] = IF i = 0 THEN [res |-> 0, data |-> <<>>] ELSE MemberStep(fat, first, pos, size, i, f[i - 1])

(* The loop of fat16_read is a function on 0 .. nmemb.                     *)
LEMMA MembersExist ==
  ASSUME NEW C, NEW fat \in [C -> Nat], NEW item, item.first \in Nat,
         NEW pos \in Nat, NEW size \in Nat, NEW nmemb \in Nat
  PROVE  \E read : /\ AreMembers(fat, item.first, pos, size, nmemb, read)
                   /\ fat16_read(fat, item.first, pos, size, nmemb) = Result(read[nmemb], nmemb)
<1> DEFINE first == item.first
           start == [res |-> 0, data |-> <<>>]
           Body(f) == [i \in 0 .. nmemb |->
                         IF i = 0 THEN start ELSE MemberStep(fat, first, pos, size, i, f[i - 1])]
           read == CHOOSE f : f = Body(f)
           step == [i \in 1 .. nmemb |-> [v \in Outcomes |-> MemberStep(fat, first, pos, size, i, v)]]
<1>1. fat16_read(fat, first, pos, size, nmemb) = Result(read[nmemb], nmemb)
  BY Zenon DEF fat16_read, MemberStep
<1>2. start \in Outcomes
  BY DEF Outcomes
<1>3. read = Body(read)
  <2>1. \A i \in 1 .. nmemb : \A v \in Outcomes :
          step[i][v] = MemberStep(fat, first, pos, size, i, v) /\ step[i][v] \in Outcomes
    <3>1. ASSUME NEW i \in 1 .. nmemb, NEW v \in Outcomes
          PROVE  MemberStep(fat, item.first, pos, size, i, v) \in Outcomes
      BY MemberStepFacts DEF GoesOn
    <3> QED BY <3>1
  <2> HIDE DEF step, start
  <2>2. PICK f : Iterates(f, nmemb, start, step) /\ \A i \in 0 .. nmemb : f[i] \in Outcomes
    <3>1. \A i \in 1 .. nmemb : \A v \in Outcomes : step[i][v] \in Outcomes
      BY <2>1
    <3> QED BY <1>2, <3>1, Iteration
  <2>3. \A i \in 0 .. nmemb : (IF i = 0 THEN start ELSE step[i][f[i - 1]])
                                = IF i = 0 THEN start ELSE MemberStep(fat, first, pos, size, i, f[i - 1])
    BY <2>1, <2>2
  <2>4. f = [i \in 0 .. nmemb |-> IF i = 0 THEN start ELSE step[i][f[i - 1]]]
    BY <2>2 DEF Iterates
  <2>5. f = Body(f)
    BY <2>3, <2>4, Zenon
  <2> HIDE DEF Body
  <2> QED BY <2>5
<1> HIDE DEF read
<1>4. AreMembers(fat, first, pos, size, nmemb, read)
  <2>1. \A i \in 0 .. nmemb : read[i] = Body(read)[i]
    BY <1>3, Zenon
  <2> QED BY <2>1 DEF AreMembers
<1> QED BY <1>1, <1>4

(* fread answers nmemb or an error, and what it answers with nmemb is the  *)
(* file (fat16.c:742).                                                     *)
LEMMA FileRead ==
  ASSUME NEW C, NEW fat \in [C -> Nat], NEW item, item.first \in Nat,
         NEW pos \in Nat, NEW size \in Nat, NEW nmemb \in Nat
  PROVE  LET r == fat16_read(fat, item.first, pos, size, nmemb)
         IN  /\ r.res \in {nmemb, EIO} /\ r.data \in Seq(Int)
             /\ r.res # EIO /\ MembersApart(pos, size, nmemb) => r.data = Bytes(fat, item, pos, nmemb * size)
<1> DEFINE first == item.first
           start == [res |-> 0, data |-> <<>>]
<1>1. PICK read : /\ AreMembers(fat, first, pos, size, nmemb, read)
                  /\ fat16_read(fat, first, pos, size, nmemb) = Result(read[nmemb], nmemb)
  BY MembersExist
<1>2. start \in Outcomes
  BY DEF Outcomes
<1>3. \A i \in 0 .. nmemb :
        read[i] = IF i = 0 THEN start ELSE MemberStep(fat, first, pos, size, i, read[i - 1])
  BY <1>1 DEF AreMembers
<1> DEFINE Right(i) == /\ read[i] \in Outcomes
                       /\ read[i].res # EIO /\ MembersApart(pos, size, i)
                            => read[i].data = Bytes(fat, item, pos, i * size)
           T == {i \in Nat : i <= nmemb => Right(i)}
<1>4. 0 \in T
  <2>1. read[0] = start
    BY <1>3
  <2>2. Bytes(fat, item, pos, 0 * size) = <<>>
    <3>1. 0 * size = 0
      OBVIOUS
    <3> QED BY <3>1 DEF Bytes
  <2> QED BY <1>2, <2>1, <2>2
<1>5. ASSUME NEW i \in Nat, i \in T PROVE i + 1 \in T
  <2> SUFFICES ASSUME i + 1 <= nmemb PROVE Right(i + 1)
    OBVIOUS
  <2> DEFINE n == i + 1
             v == read[i]
  <2>1. n \in Nat \ {0} /\ n \in 0 .. nmemb /\ n - 1 = i /\ i <= nmemb
    OBVIOUS
  <2>2. v \in Outcomes /\ (v.res # EIO /\ MembersApart(pos, size, i) => v.data = Bytes(fat, item, pos, i * size))
    BY <1>5, <2>1
  <2>3. MembersApart(pos, size, n) => MembersApart(pos, size, i)
    BY DEF MembersApart
  <2>4. read[n] = MemberStep(fat, first, pos, size, n, v)
    BY <1>3, <2>1
  <2> HIDE DEF n, v
  <2>5. GoesOn(fat, item, pos, size, n, v, MemberStep(fat, item.first, pos, size, n, v))
    BY <2>1, <2>2, MemberStepFacts
  <2>6. Right(n)
    BY <2>1, <2>2, <2>3, <2>4, <2>5 DEF GoesOn
  <2> QED BY <2>6 DEF n
<1>6. Right(nmemb)
  <2>1. Nat \subseteq T
    <3> HIDE DEF T
    <3> QED BY <1>4, <1>5, SetInduction
  <2> HIDE DEF Right
  <2> QED BY <2>1
<1>7. read[nmemb].res \in {0, EIO} /\ read[nmemb].data \in Seq(Int)
      /\ read[nmemb] \in [res : {0, EIO}, data : Seq(Int)]
  BY <1>6 DEF Outcomes
<1> HIDE DEF first
<1>8. CASE read[nmemb].res = EIO
  <2>1. Result(read[nmemb], nmemb) = read[nmemb]
    BY <1>8 DEF Result
  <2> QED BY <1>1, <1>7, <1>8, <2>1 DEF first
<1>9. CASE read[nmemb].res # EIO
  <2>1. Result(read[nmemb], nmemb) = [read[nmemb] EXCEPT !.res = nmemb]
    BY <1>9 DEF Result
  <2>2. Result(read[nmemb], nmemb).res = nmemb /\ Result(read[nmemb], nmemb).data = read[nmemb].data
    BY <1>7, <2>1
  <2> QED BY <1>1, <1>6, <1>7, <1>9, <2>2 DEF first
<1> QED BY <1>8, <1>9

(* A file whose clusters are linked is read whole.                         *)
LEMMA WholeFile ==
  ASSUME NEW C, NEW fat \in [C -> Nat], NEW item, item.first \in Nat, item.size \in Nat \ {0},
         Linked(fat, item)
  PROVE  LET r == fat16_read(fat, item.first, 0, item.size, 1)
         IN  r.res = 1 /\ Len(r.data) = item.size
<1> DEFINE size == item.size
           r == fat16_read(fat, item.first, 0, size, 1)
           m == fat16_read_internal(fat, item.first, 0 + (1 - 1) * size, size)
           start == [res |-> 0, data |-> <<>>]
<1>0. size \in Nat \ {0} /\ 0 + (1 - 1) * size = 0 /\ 1 * size = size /\ ClusterSize \in Nat \ {0}
  BY ClusterSizeFacts
<1>1. PICK read : AreMembers(fat, item.first, 0, size, 1, read) /\ r = Result(read[1], 1)
  BY <1>0, MembersExist
<1>2. m.res = 0
  BY <1>0, WholeFileRead
<1>3. read[0] = start /\ read[1] = MemberStep(fat, item.first, 0, size, 1, read[0])
  BY <1>1 DEF AreMembers
<1>4. MemberStep(fat, item.first, 0, size, 1, start) = [res |-> m.res, data |-> start.data \o m.data]
  BY DEF MemberStep, EIO
<1> DEFINE d == start.data \o m.data
<1>5. read[1] = [res |-> 0, data |-> d]
  BY <1>2, <1>3, <1>4
<1> HIDE DEF d, start, m
<1>6. r.res = 1
  BY <1>1, <1>5 DEF Result, EIO
<1>7. r.res # EIO /\ MembersApart(0, size, 1) => r.data = Bytes(fat, item, 0, 1 * size)
  BY <1>0, FileRead
<1> HIDE DEF r, size
<1>8. MembersApart(0, size, 1)
  <2>1. 0 % ClusterSize = 0
    BY <1>0
  <2> QED BY <1>0, <2>1 DEF MembersApart, Apart
<1>9. Len(Bytes(fat, item, 0, size)) = size
  BY <1>0 DEF Bytes
<1> QED BY <1>0, <1>6, <1>7, <1>8, <1>9 DEF r, size, EIO

-----------------------------------------------------------------------------
(* What a path leads to is an item of the volume.                          *)

(* The end of the part of a path that begins at k (pparser.c:77-94).       *)
EndOf(path, k) == Min({j \in k .. Len(path) + 1 : j = Len(path) + 1 \/ path[j] = "/"})

ParseStep(path, k, v) ==
  IF k > Len(path) \/ EndOf(path, k) = k THEN <<>>
  ELSE <<SubSeq(path, k, EndOf(path, k) - 1)>> \o v

IsParse(path, f) ==
  f = [k \in 4 .. Len(path) + 2 |-> ParseStep(path, k, f[StartAfterSlash(EndOf(path, k))])]

(* A part of a path ends after it begins and within the text               *)
(* (pparser.c:43).                                                         *)
LEMMA EndFacts ==
  ASSUME NEW path, Len(path) \in Nat, NEW k \in 4 .. Len(path)
  PROVE  EndOf(path, k) \in k .. Len(path) + 1
<1> DEFINE S == {j \in k .. Len(path) + 1 : j = Len(path) + 1 \/ path[j] = "/"}
<1>1. S \subseteq Nat /\ Len(path) + 1 \in S /\ S \subseteq k .. Len(path) + 1
  OBVIOUS
<1>2. EndOf(path, k) = CHOOSE m \in S : \A j \in S : m <= j
  BY Zenon DEF EndOf, Min
<1> HIDE DEF S
<1>3. \E m \in S : \A j \in S : m <= j
  BY <1>1, LeastNumber
<1>4. EndOf(path, k) \in S
  BY <1>2, <1>3
<1> QED BY <1>1, <1>4

(* A path is parsed from its end: a part takes those behind it. *)
LEMMA ParseExists ==
  ASSUME NEW path, Len(path) \in Nat
  PROVE  \E f : IsParse(path, f)
<1> DEFINE L == Len(path)
           After(k) == StartAfterSlash(EndOf(path, k))
           Solves(f, d) == \A k \in 4 .. L + 2 : k >= L + 2 - d => f[k] = ParseStep(path, k, f[After(k)])
           T == {d \in Nat : \E f : Solves(f, d)}
<1>1. \A k \in 4 .. L : After(k) \in k + 1 .. L + 2
  BY EndFacts DEF StartAfterSlash
<1>2. \A k : k > L => \A v : ParseStep(path, k, v) = <<>>
  BY DEF ParseStep
<1> HIDE DEF After
<1>3. 0 \in T
  <2> DEFINE g == [k \in {L + 2} |-> <<>>]
  <2>1. \A k \in 4 .. L + 2 : k >= L + 2 - 0 => g[k] = ParseStep(path, k, g[After(k)])
    BY <1>2
  <2> HIDE DEF g
  <2> QED BY <2>1
<1>4. ASSUME NEW d \in Nat, d \in T PROVE d + 1 \in T
  <2>1. PICK f : Solves(f, d)
    BY <1>4
  <2> DEFINE c == L + 2 - (d + 1)
             w == ParseStep(path, c, f[After(c)])
             g == [k \in 4 .. L + 2 |-> IF k = c THEN w ELSE f[k]]
  <2>0. c \in Int /\ c < L + 2
    OBVIOUS
  <2>2. ASSUME NEW k \in 4 .. L + 2, k >= c PROVE g[k] = ParseStep(path, k, g[After(k)])
    <3>1. g[k] = ParseStep(path, k, f[After(k)])
      <4>1. CASE k = c
        BY <4>1
      <4>2. CASE k # c
        <5>1. k >= L + 2 - d /\ g[k] = f[k]
          BY <2>2, <4>2
        <5> HIDE DEF g
        <5> QED BY <2>1, <5>1
      <4> QED BY <4>1, <4>2
    <3>2. CASE k > L
      <4> HIDE DEF g
      <4> QED BY <1>2, <3>1, <3>2
    <3>3. CASE k <= L
      <4>1. After(k) \in k + 1 .. L + 2
        BY <1>1, <3>3
      <4>2. g[After(k)] = f[After(k)]
        BY <2>0, <2>2, <4>1
      <4> HIDE DEF g
      <4> QED BY <3>1, <4>2
    <3> QED BY <3>2, <3>3
  <2>3. Solves(g, d + 1)
    <3> HIDE DEF g
    <3> QED BY <2>2
  <2> HIDE DEF Solves, g
  <2> QED BY <2>3
<1>5. L \in T
  <2> HIDE DEF T
  <2> QED BY <1>3, <1>4, SetInduction
<1>6. PICK f : Solves(f, L)
  BY <1>5
<1> DEFINE h == [k \in 4 .. L + 2 |-> f[k]]
<1>7. ASSUME NEW k \in 4 .. L + 2 PROVE f[k] = ParseStep(path, k, h[After(k)])
  <2>1. f[k] = ParseStep(path, k, f[After(k)])
    BY <1>6
  <2>2. CASE k > L
    <3> HIDE DEF h
    <3> QED BY <1>2, <2>1, <2>2
  <2>3. CASE k <= L
    <3>1. After(k) \in 4 .. L + 2
      BY <1>1, <2>3
    <3>2. h[After(k)] = f[After(k)]
      BY <3>1
    <3> HIDE DEF h
    <3> QED BY <2>1, <3>2
  <2> QED BY <2>2, <2>3
<1>8. h = [k \in 4 .. L + 2 |-> ParseStep(path, k, h[After(k)])]
  <2>1. \A k \in 4 .. L + 2 : f[k] = ParseStep(path, k, h[After(k)])
    BY <1>7
  <2> HIDE DEF Solves
  <2> QED BY <2>1, Zenon
<1> HIDE DEF h, Solves
<1>9. IsParse(path, h)
  BY <1>8, Zenon DEF IsParse, After
<1> QED BY <1>9

(* The parts of a path are a sequence. *)
LEMMA PathParts ==
  ASSUME NEW path, Len(path) \in Nat
  PROVE  Len(pathparser_parse(path).parts) \in Nat
           /\ (pathparser_parse(path).parts # <<>> => Len(pathparser_parse(path).parts) > 0)
<1> DEFINE S == {SubSeq(path, x[1], x[2]) : x \in Int \X Int}
           Body(f) == [k \in 4 .. Len(path) + 2 |-> ParseStep(path, k, f[StartAfterSlash(EndOf(path, k))])]
           from == CHOOSE f : f = Body(f)
           L == Len(path)
<1>0. ASSUME NEW i \in Int, NEW j \in Int PROVE SubSeq(path, i, j) \in S
  <2> DEFINE x == <<i, j>>
  <2>1. x \in Int \X Int /\ x[1] = i /\ x[2] = j
    OBVIOUS
  <2> HIDE DEF x
  <2> QED BY <2>1
<1>1. pathparser_parse(path) = IF Len(path) > MaxPath \/ ~ pathparser_path_valid_format(path) THEN NoPath
                               ELSE [drive |-> path[1], parts |-> from[4]]
  BY Zenon DEF pathparser_parse, ParseStep, EndOf
<1>2. from = Body(from)
  <2>1. \E f : IsParse(path, f)
    BY ParseExists
  <2>2. \E f : f = Body(f)
    BY <2>1, Zenon DEF IsParse
  <2> HIDE DEF Body
  <2> QED BY <2>2
<1> HIDE DEF from
<1>3. \A k \in 4 .. L + 2 : from[k] = ParseStep(path, k, from[StartAfterSlash(EndOf(path, k))])
  <2>1. \A k \in 4 .. L + 2 : from[k] = Body(from)[k]
    BY <1>2, Zenon
  <2> QED BY <2>1
<1> DEFINE T == {d \in 0 .. L : L + 2 - d >= 4 => from[L + 2 - d] \in Seq(S)}
<1>4. ASSUME NEW d \in 0 .. L, \A e \in 0 .. d - 1 : e \in T PROVE d \in T
  <2> SUFFICES ASSUME L + 2 - d >= 4 PROVE from[L + 2 - d] \in Seq(S)
    OBVIOUS
  <2> DEFINE k == L + 2 - d
             e == EndOf(path, k)
  <2>1. k \in 4 .. L + 2
    OBVIOUS
  <2>2. from[k] = ParseStep(path, k, from[StartAfterSlash(e)])
    BY <1>3, <2>1
  <2>3. CASE k > L \/ e = k
    <3>1. from[k] = <<>>
      BY <2>2, <2>3 DEF ParseStep
    <3> QED BY <3>1
  <2>4. CASE k <= L /\ e # k
    <3>1. e \in k + 1 .. L + 1
      BY <2>1, <2>4, EndFacts
    <3> DEFINE n == L + 2 - (e + 1)
    <3>2. n \in 0 .. d - 1 /\ L + 2 - n = e + 1 /\ L + 2 - n >= 4
      BY <2>1, <3>1
    <3> HIDE DEF e
    <3>3. from[e + 1] \in Seq(S)
      <4> HIDE DEF n, S
      <4> QED BY <1>4, <3>2
    <3>4. SubSeq(path, k, e - 1) \in S
      <4>1. k \in Int /\ e - 1 \in Int
        BY <2>1, <3>1
      <4> HIDE DEF k, S
      <4> QED BY <1>0, <4>1
    <3>5. from[k] = <<SubSeq(path, k, e - 1)>> \o from[e + 1]
      <4>1. ~ (k > L)
        BY <2>1, <2>4
      <4> QED BY <2>2, <2>4, <4>1 DEF ParseStep, StartAfterSlash, e
    <3> DEFINE part == SubSeq(path, k, e - 1)
               rest == from[e + 1]
    <3> HIDE DEF S, part, rest, k
    <3>6. <<part>> \o rest \in Seq(S)
      BY <3>3, <3>4 DEF part, rest
    <3> QED BY <3>5, <3>6 DEF part, rest, k
  <2> QED BY <2>1, <2>3, <2>4
<1>5. 0 .. L \subseteq T
  <2> HIDE DEF T
  <2> QED BY <1>4, BoundedInduction
<1>6. CASE Len(path) > MaxPath \/ ~ pathparser_path_valid_format(path)
  <2>1. pathparser_parse(path).parts = <<>>
    BY <1>1, <1>6 DEF NoPath
  <2> QED BY <2>1
<1>7. CASE ~ (Len(path) > MaxPath \/ ~ pathparser_path_valid_format(path))
  <2>1. Len(path) >= 3
    BY <1>7 DEF pathparser_path_valid_format
  <2>2. L - 2 \in 0 .. L /\ L + 2 - (L - 2) = 4
    BY <2>1
  <2>3. L - 2 \in T
    <3> HIDE DEF T
    <3> QED BY <1>5, <2>2
  <2>4. from[4] \in Seq(S)
    <3> HIDE DEF S
    <3> QED BY <2>2, <2>3
  <2>5. pathparser_parse(path).parts = from[4]
    BY <1>1, <1>7
  <2> HIDE DEF S
  <2> QED BY <2>4, <2>5, EmptySeq
<1> QED BY <1>6, <1>7

(* No more items are counted than there are, and all if none was deleted   *)
(* (fat16.c:198-237).                                                      *)
LEMMA ItemsCounted ==
  ASSUME NEW I, NEW items \in Seq(I)
  PROVE  /\ fat16_get_total_items_for_directory(items) \in 0 .. Len(items)
         /\ (\A i \in DOMAIN items : items[i].kind # "deleted") =>
              fat16_get_total_items_for_directory(items) = Len(items)
<1> DEFINE kept == {i \in DOMAIN items : items[i].kind # "deleted"}
           total == fat16_get_total_items_for_directory(items)
<1>1. Len(items) \in Nat /\ kept \subseteq 1 .. Len(items) /\ DOMAIN items = 1 .. Len(items)
  OBVIOUS
<1>2. IsFiniteSet(1 .. Len(items)) /\ Cardinality(1 .. Len(items)) = Len(items)
  <2>1. Cardinality(1 .. Len(items)) = IF 1 > Len(items) THEN 0 ELSE Len(items) - 1 + 1
    BY <1>1, FS_Interval
  <2>2. IsFiniteSet(1 .. Len(items))
    BY <1>1, FS_Interval
  <2> QED BY <1>1, <2>1, <2>2
<1>3. IsFiniteSet(kept) /\ Cardinality(kept) <= Len(items)
  BY <1>1, <1>2, FS_Subset
<1>4. Cardinality(kept) \in Nat
  BY <1>3, FS_CardinalityType
<1>5. total = Cardinality(kept)
  BY DEF fat16_get_total_items_for_directory
<1>6. ASSUME \A i \in DOMAIN items : items[i].kind # "deleted" PROVE total = Len(items)
  <2>1. kept = 1 .. Len(items)
    BY <1>1, <1>6
  <2> QED BY <1>2, <1>5, <2>1
<1> HIDE DEF kept, total
<1>7. total \in 0 .. Len(items)
  BY <1>1, <1>3, <1>4, <1>5
<1> QED BY <1>6, <1>7 DEF total

(* The search of a directory finds no item, or one of it that has the      *)
(* name; where nothing was deleted it finds one if there is one            *)
(* (fat16.c:646-672).                                                      *)
LEMMA ItemFound ==
  ASSUME NEW I, NEW items \in Seq(I), NEW name
  PROVE  LET item == fat16_find_item_in_directory(items, name)
             same == {i \in DOMAIN items : SameName(fat16_get_full_relative_filename(items[i]), name)}
         IN  /\ item = NoItem \/ \E i \in same : item = items[i]
             /\ (\A i \in DOMAIN items : items[i].kind # "deleted") /\ same # {} =>
                  \E i \in same : item = items[i]
<1> DEFINE total == fat16_get_total_items_for_directory(items)
           same == {i \in DOMAIN items : SameName(fat16_get_full_relative_filename(items[i]), name)}
           named == {i \in 1 .. total : SameName(fat16_get_full_relative_filename(items[i]), name)}
           item == fat16_find_item_in_directory(items, name)
           clean == \A i \in DOMAIN items : items[i].kind # "deleted"
<1>1. item = IF named = {} THEN NoItem ELSE items[CHOOSE i \in named : \A j \in named : j <= i]
  BY DEF fat16_find_item_in_directory
<1>2. total \in 0 .. Len(items)
  BY ItemsCounted
<1>8. ASSUME clean PROVE total = Len(items)
  BY <1>8, ItemsCounted
<1>3. Len(items) \in Nat /\ DOMAIN items = 1 .. Len(items)
  OBVIOUS
<1> HIDE DEF total, item, clean
<1>4. named \subseteq same /\ named \subseteq 0 .. Len(items) /\ (clean => named = same)
  <2>1. ASSUME NEW i \in 1 .. total PROVE i \in DOMAIN items /\ i \in 0 .. Len(items)
    <3>1. total \in Nat /\ total <= Len(items)
      BY <1>2, <1>3
    <3> QED BY <1>3, <3>1
  <2>2. ASSUME clean PROVE 1 .. total = DOMAIN items
    <3>1. total = Len(items)
      BY <1>8, <2>2
    <3> QED BY <1>3, <3>1
  <2> QED BY <2>1, <2>2, Zenon
<1> HIDE DEF named, same
<1>5. named # {} => \E i \in same : item = items[i]
  <2> SUFFICES ASSUME named # {} PROVE \E i \in same : item = items[i]
    OBVIOUS
  <2> DEFINE m == CHOOSE i \in named : \A j \in named : j <= i
  <2>1. \E i \in named : \A j \in named : j <= i
    BY <1>3, <1>4, GreatestNumber
  <2>2. m \in named
    BY <2>1
  <2>3. item = items[m]
    BY <1>1
  <2> HIDE DEF m
  <2> QED BY <1>4, <2>2, <2>3
<1>6. item = NoItem \/ named # {}
  BY <1>1
<1>7. clean /\ same # {} => named # {}
  BY <1>4
<1> QED BY <1>5, <1>6, <1>7 DEF item, same, clean

(* The items a path may lead to. *)
Known(dirs) == {NoItem} \cup UNION {{dirs[d][i] : i \in DOMAIN dirs[d]} : d \in DOMAIN dirs}

WalkStep(dirs, path, i, v) ==
  IF v.kind # "directory" THEN NoItem ELSE fat16_find_item_in_directory(dirs[v.dir], path[i])

(* What the search of a directory gives is an item of a directory of the   *)
(* volume, or none (fat16.c:647).                                          *)
LEMMA KnownFacts ==
  ASSUME NEW v \in Volumes
  PROVE  /\ \A name : \A d \in DOMAIN v.dirs : fat16_find_item_in_directory(v.dirs[d], name) \in Known(v.dirs)
         /\ \A path, i : \A item \in Known(v.dirs) : WalkStep(v.dirs, path, i, item) \in Known(v.dirs)
         /\ \A item \in Known(v.dirs) : item = NoItem \/ item \in Items(v.dirs)
<1> DEFINE dirs == v.dirs
<1>1. /\ dirs \in [DOMAIN dirs -> Seq(Items(dirs))]
      /\ \A d \in DOMAIN dirs : \A i \in DOMAIN dirs[d] :
           dirs[d][i].kind = "directory" => dirs[d][i].dir \in DOMAIN dirs
  BY VolumesAssumption
<1> HIDE DEF dirs
<1>2. ASSUME NEW d \in DOMAIN dirs, NEW name PROVE fat16_find_item_in_directory(dirs[d], name) \in Known(dirs)
  <2>1. dirs[d] \in Seq(Items(dirs))
    BY <1>1
  <2> DEFINE item == fat16_find_item_in_directory(dirs[d], name)
  <2>2. item = NoItem \/ \E i \in DOMAIN dirs[d] : item = dirs[d][i]
    BY <2>1, ItemFound
  <2> HIDE DEF item
  <2>3. item \in Known(dirs)
    BY <2>2 DEF Known
  <2> QED BY <2>3 DEF item
<1>3. ASSUME NEW path, NEW i, NEW item \in Known(dirs) PROVE WalkStep(dirs, path, i, item) \in Known(dirs)
  <2>1. CASE item.kind # "directory"
    BY <2>1 DEF WalkStep, Known
  <2>2. CASE item.kind = "directory"
    <3>0. NoItem.kind = "none"
      BY DEF NoItem
    <3>1. item # NoItem
      BY <2>2, <3>0
    <3>2. item.dir \in DOMAIN dirs
      BY <1>1, <2>2, <3>1 DEF Known
    <3> QED BY <1>2, <2>2, <3>2 DEF WalkStep
  <2> QED BY <2>1, <2>2
<1>4. ASSUME NEW item \in Known(dirs) PROVE item = NoItem \/ item \in Items(dirs)
  <2>1. ASSUME NEW d \in DOMAIN dirs, NEW i \in DOMAIN dirs[d] PROVE dirs[d][i] \in Items(dirs)
    <3>1. dirs[d] \in Seq(Items(dirs))
      BY <1>1
    <3> QED BY <3>1
  <2> QED BY <2>1 DEF Known
<1> QED BY <1>2, <1>3, <1>4 DEF dirs

(* A walk of n steps, the first of which is given.                         *)
WalksFrom(h, n, start, step) == h = [i \in 1 .. n |-> IF i = 1 THEN start ELSE step[i][h[i - 1]]]

(* There is one.                                                           *)
LEMMA Walks ==
  ASSUME NEW n \in Nat \ {0}, NEW S, NEW start \in S, NEW step,
         \A i \in 2 .. n : \A v \in S : step[i][v] \in S
  PROVE  \E h : WalksFrom(h, n, start, step) /\ \A i \in 1 .. n : h[i] \in S
<1> DEFINE m == n - 1
           next == [i \in 1 .. m |-> step[i + 1]]
<1>1. m \in Nat /\ \A i \in 1 .. m : next[i] = step[i + 1] /\ i + 1 \in 2 .. n
  OBVIOUS
<1> HIDE DEF next
<1>2. \A i \in 1 .. m : \A v \in S : next[i][v] \in S
  BY <1>1
<1> HIDE DEF m
<1>3. PICK g : Iterates(g, m, start, next) /\ \A i \in 0 .. m : g[i] \in S
  <2>1. m \in Nat
    BY <1>1
  <2>2. start \in S
    OBVIOUS
  <2> QED BY <1>2, <2>1, <2>2, Iteration, Zenon
<1> USE DEF m
<1>4. \A i \in 0 .. m : g[i] = IF i = 0 THEN start ELSE next[i][g[i - 1]]
  BY <1>3, Zenon DEF Iterates
<1> DEFINE h == [i \in 1 .. n |-> g[i - 1]]
<1>5. ASSUME NEW i \in 1 .. n PROVE g[i - 1] = IF i = 1 THEN start ELSE step[i][h[i - 1]]
  <2>1. CASE i = 1
    <3>1. g[i - 1] = start
      BY <1>1, <1>4, <2>1
    <3> QED BY <2>1, <3>1
  <2>2. CASE i # 1
    <3> DEFINE j == i - 1
    <3>1. j \in 1 .. m /\ j \in 0 .. m /\ j # 0 /\ j + 1 = i /\ j \in 1 .. n
      BY <2>2
    <3>2. h[j] = g[j - 1]
      BY <3>1
    <3> HIDE DEF j, h, m
    <3>3. g[j] = next[j][g[j - 1]] /\ next[j] = step[i]
      BY <1>1, <1>4, <3>1
    <3> QED BY <2>2, <3>2, <3>3 DEF j
  <2> QED BY <2>1, <2>2
<1>6. h = [i \in 1 .. n |-> IF i = 1 THEN start ELSE step[i][h[i - 1]]]
  <2>1. \A i \in 1 .. n : g[i - 1] = IF i = 1 THEN start ELSE step[i][h[i - 1]]
    BY <1>5
  <2> QED BY <2>1, Zenon
<1>7. ASSUME NEW i \in 1 .. n PROVE h[i] \in S
  BY <1>3
<1>8. WalksFrom(h, n, start, step)
  BY <1>6, Zenon DEF WalksFrom
<1> HIDE DEF h
<1> QED BY <1>7, <1>8

(* A path of at least one part leads from item to item (fat16.c:674-700).  *)
LEMMA EntryWalked ==
  ASSUME NEW v \in Volumes, NEW path, Len(path) \in Nat \ {0}
  PROVE  \E walk : /\ fat16_get_directory_entry(v.dirs, path) = walk[Len(path)]
                   /\ \A i \in 1 .. Len(path) :
                        /\ walk[i] \in Known(v.dirs)
                        /\ walk[i] = IF i = 1 THEN fat16_find_item_in_directory(v.dirs["root"], path[1])
                                     ELSE WalkStep(v.dirs, path, i, walk[i - 1])
<1> DEFINE dirs == v.dirs
           S == Known(dirs)
           n == Len(path)
           start == fat16_find_item_in_directory(dirs["root"], path[1])
           Body(f) == [i \in 1 .. Len(path) |-> IF i = 1 THEN start ELSE WalkStep(dirs, path, i, f[i - 1])]
           walk == CHOOSE f : f = Body(f)
           step == [i \in 2 .. n |-> [item \in S |-> WalkStep(dirs, path, i, item)]]
<1>1. fat16_get_directory_entry(dirs, path) = walk[Len(path)]
  BY Zenon DEF fat16_get_directory_entry, WalkStep
<1>2. start \in S
  BY VolumesAssumption, KnownFacts
<1>3. \A i \in 2 .. n : \A item \in S :
        step[i][item] = WalkStep(dirs, path, i, item) /\ step[i][item] \in S
  BY KnownFacts
<1> HIDE DEF start, step, S
<1>4. PICK h : WalksFrom(h, n, start, step) /\ \A i \in 1 .. n : h[i] \in S
  <2>1. n \in Nat \ {0}
    OBVIOUS
  <2>3. \A i \in 2 .. n : \A item \in S : step[i][item] \in S
    BY <1>3
  <2> HIDE DEF n
  <2> QED BY <1>2, <2>1, <2>3, Walks, Zenon
<1>5. \A i \in 1 .. n : h[i] = IF i = 1 THEN start ELSE WalkStep(dirs, path, i, h[i - 1])
  <2> SUFFICES ASSUME NEW i \in 1 .. n PROVE h[i] = IF i = 1 THEN start ELSE WalkStep(dirs, path, i, h[i - 1])
    OBVIOUS
  <2>1. h[i] = IF i = 1 THEN start ELSE step[i][h[i - 1]]
    BY <1>4 DEF WalksFrom
  <2>2. i # 1 => i \in 2 .. n /\ h[i - 1] \in S
    BY <1>4
  <2> QED BY <1>3, <2>1, <2>2
<1>6. h = Body(h)
  <2>1. h = [i \in 1 .. n |-> h[i]]
    BY <1>4 DEF WalksFrom
  <2> QED BY <1>5, <2>1, Zenon
<1>7. walk = Body(walk)
  <2> HIDE DEF Body
  <2> QED BY <1>6
<1> HIDE DEF walk
<1>8. \A i \in 1 .. n : walk[i] = IF i = 1 THEN start ELSE WalkStep(dirs, path, i, walk[i - 1])
  <2>1. \A i \in 1 .. n : walk[i] = Body(walk)[i]
    BY <1>7, Zenon
  <2> QED BY <2>1
<1> DEFINE T == {i \in Nat : i + 1 <= n => walk[i + 1] \in S}
<1>9. 0 \in T
  BY <1>2, <1>8
<1>10. ASSUME NEW i \in Nat, i \in T PROVE i + 1 \in T
  <2> SUFFICES ASSUME (i + 1) + 1 <= n PROVE walk[(i + 1) + 1] \in S
    OBVIOUS
  <2>1. walk[i + 1] \in S
    BY <1>10
  <2>2. (i + 1) + 1 \in 1 .. n /\ (i + 1) + 1 # 1 /\ ((i + 1) + 1) - 1 = i + 1
    OBVIOUS
  <2>3. walk[(i + 1) + 1] = WalkStep(dirs, path, (i + 1) + 1, walk[i + 1])
    BY <1>8, <2>2
  <2> QED BY <2>1, <2>3, KnownFacts DEF S
<1>11. \A i \in 1 .. n : walk[i] \in S
  <2>1. Nat \subseteq T
    <3> HIDE DEF T
    <3> QED BY <1>9, <1>10, SetInduction
  <2> SUFFICES ASSUME NEW i \in 1 .. n PROVE walk[i] \in S
    OBVIOUS
  <2>2. i - 1 \in T /\ (i - 1) + 1 = i
    <3> HIDE DEF T
    <3> QED BY <2>1
  <2> QED BY <2>2
<1> QED BY <1>1, <1>8, <1>11 DEF S, start

(* So it leads to an item of the volume, or to none. *)
LEMMA EntryFound ==
  ASSUME NEW v \in Volumes, NEW path, Len(path) \in Nat \ {0}
  PROVE  fat16_get_directory_entry(v.dirs, path) \in Known(v.dirs)
BY EntryWalked

(* So is what a whole path leads to (fat16.c:667).                         *)
LEMMA ItemKnown ==
  ASSUME volume \in Volumes, NEW path \in Paths
  PROVE  /\ Item(path) \in Known(volume.dirs)
         /\ Item(path) = NoItem \/ Item(path) \in Items(volume.dirs)
<1> DEFINE parts == pathparser_parse(path.text).parts
<1>1. Len(path.text) \in Nat
  BY PathsAssumption, LenProperties
<1>2. Len(parts) \in Nat /\ (parts # <<>> => Len(parts) > 0)
  BY <1>1, PathParts
<1>3. Item(path) = NoItem \/ (parts # <<>> /\ Item(path) = fat16_get_directory_entry(volume.dirs, parts))
  BY DEF Item
<1> HIDE DEF parts
<1>4. parts # <<>> => fat16_get_directory_entry(volume.dirs, parts) \in Known(volume.dirs)
  BY <1>2, EntryFound
<1>5. NoItem \in Known(volume.dirs)
  BY DEF Known
<1> QED BY <1>3, <1>4, <1>5, KnownFacts

-----------------------------------------------------------------------------
(* What is open is an item of the volume, at a position that is no less    *)
(* than 0.                                                                 *)
IsOpen(dirs, desc) == desc.pos \in Nat /\ (desc.item = NoItem \/ desc.item \in Items(dirs))

FilesInv ==
  /\ TableInv
  /\ volume \in Volumes
  /\ \A s \in Slots : IsOpen(volume.dirs, table[s])

(* A read gives the bytes of the file, if no member crosses the clusters.  *)
RightRead(fat, item, pos, size, r) ==
  r.res # EIO /\ (\A i \in 1 .. r.res : Apart(pos + (i - 1) * size, size))
    => r.data = Bytes(fat, item, pos, size * r.res)

(* The reading lemmas, for the read of one call.                           *)
LEMMA ReadIsRight ==
  ASSUME volume \in Volumes, NEW item, item.first \in Nat, NEW pos \in Nat, NEW size \in Nat, NEW nmemb \in Nat
  PROVE  RightRead(volume.fat, item, pos, size, fat16_read(volume.fat, item.first, pos, size, nmemb))
<1> DEFINE fat == volume.fat
           r == fat16_read(fat, item.first, pos, size, nmemb)
<1>1. fat \in [DOMAIN fat -> Nat]
  BY VolumesAssumption
<1> HIDE DEF fat
<1>2. /\ r.res \in {nmemb, EIO}
      /\ r.res # EIO /\ MembersApart(pos, size, nmemb) => r.data = Bytes(fat, item, pos, nmemb * size)
  <2> HIDE DEF r
  <2>1. \A C : fat \in [C -> Nat] =>
          /\ r.res \in {nmemb, EIO}
          /\ r.res # EIO /\ MembersApart(pos, size, nmemb) => r.data = Bytes(fat, item, pos, nmemb * size)
    BY FileRead DEF r
  <2> QED BY <1>1, <2>1
<1> HIDE DEF r
<1>3. nmemb * size = size * nmemb
  OBVIOUS
<1>4. RightRead(fat, item, pos, size, r)
  BY <1>2, <1>3 DEF RightRead, MembersApart
<1> QED BY <1>4 DEF r, fat

(* The volume, the table and every open entry have their types in every    *)
(* reachable state.                                                        *)
LEMMA FilesTyped == Spec => []FilesInv
<1>0. IsOpen(volume.dirs, Closed)
  BY DEF IsOpen, Closed
<1>1. Init => FilesInv
  BY <1>0 DEF Init, FilesInv, TableInv
<1>2. FilesInv /\ [Next]_vars => FilesInv'
  <2> SUFFICES ASSUME FilesInv, [Next]_vars PROVE FilesInv'
    OBVIOUS
  <2> USE DEF FilesInv
  <2>0. TableInv'
    <3>1. TableInv /\ [Next]_vars => TableInv'
      BY TableStep
    <3> QED BY <3>1
  <2>1. ASSUME NEW x, NEW d, IsOpen(volume.dirs, d), table' = [table EXCEPT ![x] = d], volume' = volume
        PROVE FilesInv'
    <3>1. \A s \in Slots : IsOpen(volume.dirs, table'[s])
      BY <2>1 DEF TableInv
    <3> QED BY <2>0, <2>1, <3>1
  <2>2. ASSUME table' = table, volume' = volume PROVE FilesInv'
    BY <2>0, <2>2
  <2>3. ASSUME NEW path \in Paths, fopen(path) PROVE FilesInv'
    <3>1. CASE table' = table /\ volume' = volume
      BY <2>2, <3>1
    <3>2. CASE table' = [table EXCEPT ![NewSlot] = [item |-> Item(path), pos |-> 0]] /\ volume' = volume
      <4> DEFINE d == [item |-> Item(path), pos |-> 0]
      <4>1. IsOpen(volume.dirs, d)
        BY ItemKnown DEF IsOpen
      <4> HIDE DEF d
      <4>2. table' = [table EXCEPT ![NewSlot] = d]
        BY <3>2 DEF d
      <4> QED BY <2>1, <3>2, <4>1, <4>2
    <3> QED BY <2>3, <3>1, <3>2 DEF fopen
  <2>4. ASSUME NEW path \in Paths, LoadProgram(path) PROVE FilesInv'
    <3> DEFINE d == [item |-> Item(path), pos |-> 0]
    <3>1. volume' = volume /\ IsOpen(volume.dirs, d)
      BY <2>4, ItemKnown DEF LoadProgram, IsOpen
    <3> DEFINE opened == [table EXCEPT ![NewSlot] = d]
    <3>2. \/ table' = table \/ table' = opened
          \/ table' = [opened EXCEPT ![NumberOf(NewSlot) - 1] = Closed]
      BY <2>4, Zenon DEF LoadProgram, ClosedByLoader
    <3> HIDE DEF d
    <3>3. \A s \in Slots : IsOpen(volume.dirs, opened[s])
      BY <3>1 DEF TableInv
    <3>4. opened = [s \in Slots |-> opened[s]]
      BY DEF TableInv
    <3> HIDE DEF opened
    <3>5. \A s \in Slots : IsOpen(volume.dirs, table'[s])
      <4>1. CASE table' = table
        BY <4>1
      <4>2. CASE table' = opened
        BY <3>3, <4>2
      <4>3. CASE table' = [opened EXCEPT ![NumberOf(NewSlot) - 1] = Closed]
        BY <1>0, <3>3, <3>4, <4>3
      <4> QED BY <3>2, <4>1, <4>2, <4>3
    <3> QED BY <2>0, <3>1, <3>5
  <2>5. ASSUME NEW fd \in Descriptors, fclose(fd) PROVE FilesInv'
    BY <1>0, <2>1, <2>5 DEF fclose
  <2>6. ASSUME NEW fd \in Descriptors, Refuse(fd) PROVE FilesInv'
    BY <2>2, <2>6 DEF Refuse
  <2>7. ASSUME NEW fd \in Descriptors, NEW size, NEW nmemb, fread(fd, size, nmemb) PROVE FilesInv'
    BY <2>2, <2>7 DEF fread
  <2>8. ASSUME NEW fd \in Descriptors, NEW offset \in Offsets, NEW whence, fseek(fd, offset, whence)
        PROVE FilesInv'
    <3>1. table[fd - 1] = file_get_descriptor(fd) /\ fd - 1 \in Slots
      BY <2>8, DescriptorsAssumption DEF fseek, file_get_descriptor, Descriptors, Slots
    <3> DEFINE desc == table[fd - 1]
               d == Seeked(desc, offset, whence)
    <3>2. IsOpen(volume.dirs, desc)
      BY <3>1
    <3>3. IsOpen(volume.dirs, d)
      BY <3>2, OffsetsAssumption DEF Seeked, IsOpen
    <3> HIDE DEF d
    <3>4. table' = [table EXCEPT ![fd - 1] = d] /\ volume' = volume
      BY <2>8 DEF fseek, d
    <3> QED BY <2>1, <3>3, <3>4
  <2>9. CASE UNCHANGED vars
    BY <2>2, <2>9 DEF vars
  <2> QED BY <2>3, <2>4, <2>5, <2>6, <2>7, <2>8, <2>9 DEF Next
<1> QED BY <1>1, <1>2, PTL DEF Spec

(* What a step reads, by fread or by a load, is the right part of the file.*)
LEMMA LastRead ==
  ASSUME FilesInv, Next, last'.call \in {"fread", "load"}, last'.item.kind = "file"
  PROVE  RightRead(volume.fat, last'.item, last'.pos, last'.size, [res |-> last'.res, data |-> last'.data])
<1> USE DEF FilesInv
<1>0. \A item \in Items(volume.dirs) : item.first \in Nat /\ item.size \in Nat
  BY DEF Items
<1>1. NoItem.kind = "none"
  BY DEF NoItem
<1>2. ASSUME NEW fd \in Descriptors, NEW size \in Offsets, NEW nmemb \in Nat, fread(fd, size, nmemb)
      PROVE  RightRead(volume.fat, last'.item, last'.pos, last'.size, [res |-> last'.res, data |-> last'.data])
  <2> DEFINE desc == file_get_descriptor(fd)
  <2>1. desc = table[fd - 1] /\ fd - 1 \in Slots
    BY <1>2, DescriptorsAssumption DEF fread, file_get_descriptor, Descriptors, Slots
  <2>2. IsOpen(volume.dirs, desc)
    BY <2>1
  <2>3. PICK first \in IF desc.item.kind = "file" THEN {desc.item.first} ELSE DOMAIN volume.fat :
          LET r == fat16_read(volume.fat, first, desc.pos, size, nmemb)
          IN  last' = [call |-> "fread", fd |-> fd, res |-> r.res, item |-> desc.item,
                       pos |-> desc.pos, size |-> size, data |-> r.data]
    BY <1>2 DEF fread
  <2> HIDE DEF desc
  <2> DEFINE r == fat16_read(volume.fat, first, desc.pos, size, nmemb)
  <2>4. /\ last'.item = desc.item /\ last'.pos = desc.pos /\ last'.size = size
        /\ last'.res = r.res /\ last'.data = r.data
    BY <2>3
  <2>5. first = desc.item.first /\ desc.item.first \in Nat /\ desc.pos \in Nat /\ size \in Nat
    BY <1>0, <1>1, <2>2, <2>3, <2>4, OffsetsAssumption DEF IsOpen
  <2>6. RightRead(volume.fat, desc.item, desc.pos, size, r)
    BY <2>5, ReadIsRight
  <2> HIDE DEF r
  <2> QED BY <2>4, <2>6 DEF RightRead
<1>3. ASSUME NEW path \in Paths, LoadProgram(path)
      PROVE  RightRead(volume.fat, last'.item, last'.pos, last'.size, [res |-> last'.res, data |-> last'.data])
  <2> DEFINE item == Item(path)
             fd == NumberOf(NewSlot)
             r == IF item.kind # "file" \/ item.size = 0 \/ fd = MaxDescriptors
                  THEN [res |-> EIO, data |-> <<>>]
                  ELSE fat16_read(volume.fat, item.first, 0, item.size, 1)
  <2>1. \/ last' = [call |-> "load", fd |-> fd, res |-> r.res, item |-> item, pos |-> 0,
                    size |-> item.size, data |-> r.data]
        \/ last' = [Nothing EXCEPT !.call = "load", !.res = EIO]
    BY <1>3, Zenon DEF LoadProgram
  <2>2. item = NoItem \/ item \in Items(volume.dirs)
    BY ItemKnown
  <2> HIDE DEF item, fd
  <2>3. last' = [call |-> "load", fd |-> fd, res |-> r.res, item |-> item, pos |-> 0,
                 size |-> item.size, data |-> r.data]
    BY <1>1, <2>1 DEF Nothing
  <2>4. /\ last'.item = item /\ last'.pos = 0 /\ last'.size = item.size
        /\ last'.res = r.res /\ last'.data = r.data
    BY <2>3
  <2>5. item.first \in Nat /\ item.size \in Nat
    BY <1>0, <1>1, <2>2, <2>4
  <2>6. RightRead(volume.fat, item, 0, item.size, r)
    <3>1. CASE item.kind # "file" \/ item.size = 0 \/ fd = MaxDescriptors
      <4>1. r.res = EIO
        BY <3>1
      <4> HIDE DEF r
      <4> QED BY <4>1 DEF RightRead
    <3>2. CASE ~ (item.kind # "file" \/ item.size = 0 \/ fd = MaxDescriptors)
      <4>1. r = fat16_read(volume.fat, item.first, 0, item.size, 1)
        BY <3>2
      <4> HIDE DEF r
      <4> QED BY <2>5, <4>1, ReadIsRight
    <3> QED BY <3>1, <3>2
  <2> HIDE DEF r
  <2> QED BY <2>4, <2>6 DEF RightRead
<1>4. ASSUME NEW path \in Paths, fopen(path) PROVE FALSE
  BY <1>4 DEF fopen, Nothing
<1>5. ASSUME NEW fd \in Descriptors, fclose(fd) PROVE FALSE
  BY <1>5 DEF fclose, Nothing
<1>6. ASSUME NEW fd \in Descriptors, NEW offset, NEW whence, fseek(fd, offset, whence) PROVE FALSE
  BY <1>6 DEF fseek, Nothing
<1>7. ASSUME NEW fd \in Descriptors, Refuse(fd) PROVE FALSE
  BY <1>7 DEF Refuse, Nothing
<1> QED BY <1>2, <1>3, <1>4, <1>5, <1>6, <1>7 DEF Next

(* Every read that is answered gives the bytes of the file that lie at its *)
(* position, if no member starts within a cluster and ends behind it: so   *)
(* does every load of a program (fat16.c:461-551, streamer.c:26-68).       *)
THEOREM FilesReadFile == Spec => []ReadsFile
<1>1. Init => ReadsFile
  BY DEF Init, Nothing, ReadsFile, InFile
<1>2. FilesInv /\ ReadsFile /\ [Next]_vars => ReadsFile'
  <2> SUFFICES ASSUME FilesInv, ReadsFile, [Next]_vars PROVE ReadsFile'
    OBVIOUS
  <2>1. CASE UNCHANGED vars
    BY <2>1 DEF vars, ReadsFile, InFile, Read
  <2>2. CASE Next
    <3>1. volume' = volume
      BY <2>2 DEF Next, fopen, LoadProgram, fclose, Refuse, fread, fseek
    <3> SUFFICES ASSUME InFile', last'.res # EIO,
                        \A i \in 1 .. last'.res : Apart(last'.pos + (i - 1) * last'.size, last'.size)
                 PROVE  last'.data = Read'
      BY DEF ReadsFile
    <3>2. last'.call \in {"fread", "load"} /\ last'.item.kind = "file"
      BY DEF InFile
    <3>3. RightRead(volume.fat, last'.item, last'.pos, last'.size, [res |-> last'.res, data |-> last'.data])
      BY <2>2, <3>2, LastRead
    <3>4. last'.data = Bytes(volume.fat, last'.item, last'.pos, last'.size * last'.res)
      BY <3>3 DEF RightRead
    <3> QED BY <3>1, <3>4 DEF Read
  <2> QED BY <2>1, <2>2
<1> QED BY <1>1, <1>2, FilesTyped, PTL DEF Spec

(* A load of a file that is linked to its end reads it whole.              *)
LEMMA LoadIsWhole ==
  ASSUME ChainsLinked, FilesInv, NEW path \in Paths, LoadProgram(path),
         last'.item.kind = "file", last'.item.size > 0, last'.fd < MaxDescriptors
  PROVE  last'.res = 1 /\ Len(last'.data) = last'.item.size
<1> USE DEF FilesInv
<1> DEFINE item == Item(path)
           fd == NumberOf(NewSlot)
           r == IF item.kind # "file" \/ item.size = 0 \/ fd = MaxDescriptors
                THEN [res |-> EIO, data |-> <<>>]
                ELSE fat16_read(volume.fat, item.first, 0, item.size, 1)
<1>1. \/ last' = [call |-> "load", fd |-> fd, res |-> r.res, item |-> item, pos |-> 0,
                  size |-> item.size, data |-> r.data]
      \/ last' = [Nothing EXCEPT !.call = "load", !.res = EIO]
  BY Zenon DEF LoadProgram
<1>2. item \in Known(volume.dirs) /\ (item = NoItem \/ item \in Items(volume.dirs))
  BY ItemKnown
<1> HIDE DEF item, fd
<1>3. NoItem.kind = "none"
  BY DEF NoItem
<1>4. last' = [call |-> "load", fd |-> fd, res |-> r.res, item |-> item, pos |-> 0,
               size |-> item.size, data |-> r.data]
  BY <1>1, <1>3 DEF Nothing
<1>5. last'.item = item /\ last'.fd = fd /\ last'.res = r.res /\ last'.data = r.data
  BY <1>4
<1>6. item.kind = "file" /\ item \in Items(volume.dirs) /\ item # NoItem
  BY <1>2, <1>3, <1>5
<1>7. item.first \in Nat /\ item.size \in Nat \ {0}
  <2>1. item.first \in Nat /\ item.size \in Nat
    BY <1>6 DEF Items
  <2> QED BY <1>5, <2>1
<1>8. Linked(volume.fat, item)
  BY <1>2, <1>6 DEF Known, ChainsLinked
<1>9. fd # MaxDescriptors
  BY <1>5, DescriptorsAssumption
<1>10. r = fat16_read(volume.fat, item.first, 0, item.size, 1)
  BY <1>6, <1>7, <1>9
<1>11. volume.fat \in [DOMAIN volume.fat -> Nat]
  BY VolumesAssumption
<1> HIDE DEF r
<1>12. r.res = 1 /\ Len(r.data) = item.size
  BY <1>7, <1>8, <1>10, <1>11, WholeFile
<1> QED BY <1>5, <1>12

(* A program that is in the volume and can be opened is read whole: no     *)
(* load of it is refused while there are descriptors, on disks whose files *)
(* are linked to their ends (elfloader.c:222-265).                         *)
THEOREM FilesLoadWhole ==
  ASSUME ChainsLinked
  PROVE  Spec => []LoadsWhole
<1>1. Init => LoadsWhole
  BY DEF Init, Nothing, LoadsWhole
<1>2. FilesInv /\ LoadsWhole /\ [Next]_vars => LoadsWhole'
  <2> SUFFICES ASSUME FilesInv, LoadsWhole, [Next]_vars PROVE LoadsWhole'
    OBVIOUS
  <2>1. CASE UNCHANGED vars
    BY <2>1 DEF vars, LoadsWhole
  <2>2. ASSUME last'.call # "load" PROVE LoadsWhole'
    BY <2>2 DEF LoadsWhole
  <2>3. ASSUME NEW path \in Paths, LoadProgram(path) PROVE LoadsWhole'
    BY <2>3, LoadIsWhole DEF LoadsWhole
  <2>4. ASSUME NEW path \in Paths, fopen(path) PROVE LoadsWhole'
    BY <2>2, <2>4 DEF fopen, Nothing
  <2>5. ASSUME NEW fd \in Descriptors, fclose(fd) PROVE LoadsWhole'
    BY <2>2, <2>5 DEF fclose, Nothing
  <2>6. ASSUME NEW fd \in Descriptors, NEW offset, NEW whence, fseek(fd, offset, whence) PROVE LoadsWhole'
    BY <2>2, <2>6 DEF fseek, Nothing
  <2>7. ASSUME NEW fd \in Descriptors, Refuse(fd) PROVE LoadsWhole'
    BY <2>2, <2>7 DEF Refuse, Nothing
  <2>8. ASSUME NEW fd \in Descriptors, NEW size, NEW nmemb, fread(fd, size, nmemb) PROVE LoadsWhole'
    BY <2>2, <2>8 DEF fread
  <2> QED BY <2>1, <2>3, <2>4, <2>5, <2>6, <2>7, <2>8 DEF Next
<1> QED BY <1>1, <1>2, FilesTyped, PTL DEF Spec

-----------------------------------------------------------------------------
(* A path leads to the item it names.                                      *)

(* The characters a name in a directory is filled up and put together with.*)
Space == " "

Dot == "."

(* A filename or an extension ends before its first space                  *)
(* (fat16.c:363-379).                                                      *)
LEMMA ProperFacts ==
  ASSUME NEW C, NEW word \in Seq(C)
  PROVE  \E m \in 0 .. Len(word) :
           /\ fat16_to_proper_string(word) = SubSeq(word, 1, m)
           /\ m = Len(word) \/ word[m + 1] = Space
           /\ \A k \in 0 .. m - 1 : word[k + 1] # Space
<1> DEFINE S == {k \in 0 .. Len(word) : k = Len(word) \/ word[k + 1] = Space}
           m == CHOOSE k \in S : \A j \in S : k <= j
<1>0. Len(word) \in Nat
  BY LenProperties
<1>1. S \subseteq Nat /\ S # {}
  <2>1. Len(word) \in S
    BY <1>0
  <2> QED BY <1>0, <2>1
<1>2. fat16_to_proper_string(word) = SubSeq(word, 1, m)
  BY Zenon DEF fat16_to_proper_string, Min, Space
<1>3. m \in S /\ \A j \in S : m <= j
  <2> HIDE DEF S
  <2>1. \E k \in S : \A j \in S : k <= j
    BY <1>1, LeastNumber
  <2> QED BY <2>1
<1> HIDE DEF m
<1>4. m \in 0 .. Len(word) /\ (m = Len(word) \/ word[m + 1] = Space)
  BY <1>3
<1>5. ASSUME NEW k \in 0 .. m - 1, word[k + 1] = Space PROVE FALSE
  <2>1. k \in S /\ ~ (m <= k)
    BY <1>0, <1>4, <1>5
  <2> QED BY <1>3, <2>1
<1> QED BY <1>2, <1>4, <1>5

(* So what fills it up is left out. *)
LEMMA FilledName ==
  ASSUME NEW C, NEW word \in Seq(C), NEW n \in 0 .. Len(word), Filled(word, n)
  PROVE  fat16_to_proper_string(word) = SubSeq(word, 1, n)
<1>1. PICK m \in 0 .. Len(word) :
        /\ fat16_to_proper_string(word) = SubSeq(word, 1, m)
        /\ m = Len(word) \/ word[m + 1] = Space
        /\ \A k \in 0 .. m - 1 : word[k + 1] # Space
  BY ProperFacts
<1>0. Len(word) \in Nat /\ DOMAIN word = 1 .. Len(word)
  BY LenProperties
<1>2. \A k \in 1 .. Len(word) : word[k] = Space <=> k > n
  <2>1. \A k \in DOMAIN word : word[k] = Space <=> k > n
    BY Zenon DEF Filled, Space
  <2> QED BY <1>0, <2>1
<1>3. ~ (m < n)
  <2> SUFFICES ASSUME m < n PROVE FALSE
    OBVIOUS
  <2>1. m \in Nat /\ n \in Nat /\ n <= Len(word)
    BY <1>0
  <2>2. ASSUME m = Len(word) PROVE FALSE
    <3>1. Len(word) < n
      BY <2>2
    <3> QED BY <1>0, <2>1, <3>1
  <2>3. m + 1 \in 1 .. Len(word) /\ ~ (m + 1 > n)
    BY <1>0, <2>1
  <2> QED BY <1>1, <1>2, <2>2, <2>3
<1>4. ~ (n < m)
  <2> SUFFICES ASSUME n < m PROVE FALSE
    OBVIOUS
  <2>1. n \in 0 .. m - 1 /\ n + 1 \in 1 .. Len(word)
    BY <1>0
  <2>2. word[n + 1] # Space
    BY <1>1, <2>1
  <2>3. n + 1 > n
    OBVIOUS
  <2> QED BY <1>2, <2>1, <2>2, <2>3
<1>5. m = n
  BY <1>3, <1>4
<1> QED BY <1>1, <1>5

(* The name an item is looked for with is the one it is called by          *)
(* (fat16.c:383-395).                                                      *)
LEMMA FullName ==
  ASSUME NEW dirs, NEW item \in Items(dirs), WellNamed(item)
  PROVE  item.called = InSmall(fat16_get_full_relative_filename(item))
<1>1. item.filename \in Seq(DOMAIN Lower) /\ item.ext \in Seq(DOMAIN Lower)
  BY DEF Items
<1>2. PICK n \in 0 .. Len(item.filename), m \in 0 .. Len(item.ext) :
        /\ Filled(item.filename, n)
        /\ Filled(item.ext, m)
        /\ item.called = InSmall(SubSeq(item.filename, 1, n)
                                   \o IF m = 0 THEN <<>> ELSE <<Dot>> \o SubSeq(item.ext, 1, m))
  BY Zenon DEF WellNamed, Dot
<1>3. fat16_to_proper_string(item.filename) = SubSeq(item.filename, 1, n)
  BY <1>1, <1>2, FilledName
<1>4. fat16_to_proper_string(item.ext) = SubSeq(item.ext, 1, m)
  BY <1>1, <1>2, FilledName
<1>5. item.ext[1] = Space <=> m = 0
  <2>1. 1 \in DOMAIN item.ext
    BY <1>1 DEF WellNamed
  <2>2. item.ext[1] = Space <=> 1 > m
    BY <1>2, <2>1, Zenon DEF Filled, Space
  <2>3. Len(item.ext) \in Nat
    BY <1>1, LenProperties
  <2> QED BY <2>2, <2>3
<1>6. fat16_get_full_relative_filename(item)
        = SubSeq(item.filename, 1, n) \o IF item.ext[1] = Space THEN <<>> ELSE <<Dot>> \o SubSeq(item.ext, 1, m)
  BY <1>3, <1>4, Zenon DEF fat16_get_full_relative_filename, Space, Dot
<1> QED BY <1>2, <1>5, <1>6

(* That of a deleted item begins with its mark. *)
LEMMA DeletedName ==
  ASSUME NEW dirs, NEW item \in Items(dirs), item.filename # <<>>, item.filename[1] # Space
  PROVE  LET name == fat16_get_full_relative_filename(item)
         IN  Len(name) \in Nat /\ DOMAIN name = 1 .. Len(name)
               /\ Len(name) > 0 /\ name[1] = item.filename[1]
<1> DEFINE C == DOMAIN Lower \cup {Dot}
           word == item.filename
           e == IF item.ext[1] = Space THEN <<>> ELSE <<Dot>> \o fat16_to_proper_string(item.ext)
<1>1. word \in Seq(C) /\ item.ext \in Seq(C)
  <2>1. word \in Seq(DOMAIN Lower) /\ item.ext \in Seq(DOMAIN Lower) /\ DOMAIN Lower \subseteq C
    BY DEF Items
  <2> HIDE DEF word, C
  <2> QED BY <2>1, SeqMonotonic
<1> HIDE DEF word
<1>2. PICK m \in 0 .. Len(word) : fat16_to_proper_string(word) = SubSeq(word, 1, m) /\ (m = Len(word) \/ word[m + 1] = Space)
  <2> HIDE DEF C
  <2> QED BY <1>1, ProperFacts
<1>3. PICK r \in 0 .. Len(item.ext) : fat16_to_proper_string(item.ext) = SubSeq(item.ext, 1, r)
  <2> HIDE DEF C
  <2> QED BY <1>1, ProperFacts
<1>0. Len(word) \in Nat /\ Len(item.ext) \in Nat
  <2> HIDE DEF C
  <2> QED BY <1>1, LenProperties
<1>4. e \in Seq(C)
  <2>0. \A i \in 1 .. r : item.ext[i] \in C
    <3> HIDE DEF C
    <3> QED BY <1>0, <1>1, <1>3, ElementOfSeq
  <2>1. SubSeq(item.ext, 1, r) \in Seq(C)
    <3> HIDE DEF C
    <3> QED BY <1>0, <1>3, <2>0, SubSeqProperties
  <2>2. <<Dot>> \in Seq(C) /\ <<>> \in Seq(C)
    OBVIOUS
  <2>3. <<Dot>> \o SubSeq(item.ext, 1, r) \in Seq(C)
    <3> HIDE DEF C
    <3> QED BY <2>1, <2>2, ConcatProperties
  <2> HIDE DEF C
  <2> QED BY <1>3, <2>2, <2>3
<1> HIDE DEF e, C
<1>5. Len(word) > 0 /\ m >= 1
  <2>1. Len(word) > 0
    BY <1>0, <1>1, EmptySeq DEF word
  <2>2. word[0 + 1] # Space
    BY DEF word
  <2> QED BY <1>0, <1>2, <2>1, <2>2
<1> DEFINE p == SubSeq(word, 1, m)
<1>6. p \in Seq(C) /\ Len(p) = m /\ p[1] = word[1]
  <2>1. \A i \in 1 .. m : word[i] \in C
    BY <1>0, <1>1, <1>2, ElementOfSeq
  <2> QED BY <1>5, <2>1, SubSeqProperties
<1> HIDE DEF p
<1>7. p \o e \in Seq(C) /\ Len(p \o e) > 0 /\ (p \o e)[1] = p[1]
  <2>1. Len(e) \in Nat
    BY <1>4, LenProperties
  <2> QED BY <1>4, <1>5, <1>6, <2>1, ConcatProperties
<1>8. fat16_get_full_relative_filename(item) = p \o e
  BY <1>2, Zenon DEF fat16_get_full_relative_filename, e, p, word, Space, Dot
<1>9. Len(p \o e) \in Nat /\ DOMAIN (p \o e) = 1 .. Len(p \o e)
  BY <1>7, LenProperties
<1> QED BY <1>6, <1>7, <1>8, <1>9 DEF word

(* The items of a directory that a name in small letters stands for. *)
Matches(items, name) ==
  {items[k] : k \in {j \in DOMAIN items : items[j].called = name /\ items[j].kind # "deleted"}}

(* Names as a directory has them, and a part of a path as it is looked for.*)
WellKept(items, part) ==
  /\ \A i \in DOMAIN items : items[i].kind # "deleted" => WellNamed(items[i])
  /\ \A i \in DOMAIN items : items[i].kind = "deleted" =>
       /\ items[i].filename # <<>> /\ items[i].filename[1] # Space
       /\ \A k \in DOMAIN part : Lower[part[k]] # Lower[items[i].filename[1]]

(* Texts are compared in small letters (string.c: istrncmp). *)
LEMMA SameInSmall ==
  ASSUME NEW name, NEW part, Len(name) \in Nat, Len(part) \in Nat,
         DOMAIN name = 1 .. Len(name), DOMAIN part = 1 .. Len(part)
  PROVE  SameName(name, part) <=> InSmall(name) = InSmall(part)
<1> DEFINE a == InSmall(name)
           b == InSmall(part)
<1>1. /\ DOMAIN a = 1 .. Len(name) /\ DOMAIN b = 1 .. Len(part)
      /\ \A k \in 1 .. Len(name) : a[k] = Lower[name[k]]
      /\ \A k \in 1 .. Len(part) : b[k] = Lower[part[k]]
      /\ a = [k \in 1 .. Len(name) |-> a[k]] /\ b = [k \in 1 .. Len(part) |-> b[k]]
  BY DEF InSmall
<1> HIDE DEF a, b
<1>2. ASSUME SameName(name, part) PROVE a = b
  <2>1. Len(name) = Len(part) /\ \A k \in 1 .. Len(name) : Lower[name[k]] = Lower[part[k]]
    BY <1>2 DEF SameName
  <2> QED BY <1>1, <2>1
<1>3. ASSUME a = b PROVE SameName(name, part)
  <2>1. 1 .. Len(name) = 1 .. Len(part)
    BY <1>1, <1>3
  <2>2. Len(name) = Len(part)
    <3>1. CASE Len(name) < Len(part)
      <4>1. Len(part) \in 1 .. Len(part) /\ Len(part) \notin 1 .. Len(name)
        BY <3>1
      <4> QED BY <2>1, <4>1
    <3>2. CASE Len(part) < Len(name)
      <4>1. Len(name) \in 1 .. Len(name) /\ Len(name) \notin 1 .. Len(part)
        BY <3>2
      <4> QED BY <2>1, <4>1
    <3> DEFINE m == Len(name)
               n == Len(part)
    <3>3. m \in Int /\ n \in Int
      OBVIOUS
    <3> HIDE DEF m, n
    <3>4. m < n \/ n < m \/ m = n
      BY <3>3
    <3> QED BY <3>1, <3>2, <3>4 DEF m, n
  <2> QED BY <1>1, <1>3, <2>2 DEF SameName
<1> QED BY <1>2, <1>3 DEF a, b

(* What an item is looked for with is a text. *)
LEMMA FullNameIsText ==
  ASSUME NEW dirs, NEW item \in Items(dirs)
  PROVE  LET name == fat16_get_full_relative_filename(item)
         IN  Len(name) \in Nat /\ DOMAIN name = 1 .. Len(name)
<1> DEFINE C == DOMAIN Lower \cup {Dot}
           Part(text) == fat16_to_proper_string(text)
<1>1. ASSUME NEW word \in Seq(DOMAIN Lower) PROVE Part(word) \in Seq(C) /\ Len(word) \in Nat
  <2>1. PICK m \in 0 .. Len(word) : Part(word) = SubSeq(word, 1, m)
    BY <1>1, ProperFacts
  <2>2. Len(word) \in Nat
    BY <1>1, LenProperties
  <2>3. \A i \in 1 .. m : word[i] \in C
    BY <1>1, <2>2, ElementOfSeq
  <2> HIDE DEF C, Part
  <2> QED BY <2>1, <2>2, <2>3, SubSeqProperties
<1>2. item.filename \in Seq(DOMAIN Lower) /\ item.ext \in Seq(DOMAIN Lower)
  BY DEF Items
<1> DEFINE e == IF item.ext[1] = Space THEN <<>> ELSE <<Dot>> \o Part(item.ext)
<1>3. e \in Seq(C)
  <2>1. <<>> \in Seq(C) /\ <<Dot>> \in Seq(C)
    OBVIOUS
  <2>2. Part(item.ext) \in Seq(C)
    BY <1>1, <1>2
  <2> HIDE DEF C, Part
  <2>3. <<Dot>> \o Part(item.ext) \in Seq(C)
    BY <2>1, <2>2, ConcatProperties
  <2> QED BY <2>1, <2>3
<1>4. fat16_get_full_relative_filename(item) = Part(item.filename) \o e
  BY Zenon DEF fat16_get_full_relative_filename, Space, Dot
<1> HIDE DEF e, C, Part
<1>5. Part(item.filename) \o e \in Seq(C)
  BY <1>1, <1>2, <1>3, ConcatProperties
<1> QED BY <1>4, <1>5, LenProperties

(* The search of a directory gives an item that the part stands for, if it *)
(* gives any; where nothing was deleted it gives one if there is one.      *)
LEMMA ItemSearched ==
  ASSUME NEW dirs, NEW items \in Seq(Items(dirs)), NEW part, Len(part) \in Nat,
         DOMAIN part = 1 .. Len(part), WellKept(items, part)
  PROVE  LET item == fat16_find_item_in_directory(items, part)
             matches == Matches(items, InSmall(part))
         IN  /\ item = NoItem \/ item \in matches
             /\ (\A i \in DOMAIN items : items[i].kind # "deleted") /\ matches # {} => item \in matches
<1> DEFINE Name(i) == fat16_get_full_relative_filename(items[i])
           item == fat16_find_item_in_directory(items, part)
           same == {i \in DOMAIN items : SameName(Name(i), part)}
           matches == Matches(items, InSmall(part))
<1>1. ASSUME NEW i \in DOMAIN items
      PROVE  /\ items[i].kind # "deleted" => (i \in same <=> items[i].called = InSmall(part))
             /\ items[i].kind = "deleted" => i \notin same
  <2>1. items[i] \in Items(dirs)
    BY <1>1
  <2>2. Len(Name(i)) \in Nat /\ DOMAIN Name(i) = 1 .. Len(Name(i))
    BY <2>1, FullNameIsText
  <2>3. CASE items[i].kind # "deleted"
    <3>1. items[i].called = InSmall(Name(i))
      BY <2>1, <2>3, FullName DEF WellKept
    <3>2. SameName(Name(i), part) <=> InSmall(Name(i)) = InSmall(part)
      BY <2>2, SameInSmall
    <3> HIDE DEF Name
    <3> QED BY <2>3, <3>1, <3>2
  <2>4. CASE items[i].kind = "deleted"
    <3>1. /\ items[i].filename # <<>> /\ items[i].filename[1] # Space
          /\ \A k \in DOMAIN part : Lower[part[k]] # Lower[items[i].filename[1]]
      BY <2>4 DEF WellKept
    <3>2. Len(Name(i)) > 0 /\ Name(i)[1] = items[i].filename[1]
      BY <2>1, <3>1, DeletedName
    <3> HIDE DEF Name
    <3>3. 1 \in DOMAIN Name(i)
      BY <2>2, <3>2
    <3>4. ASSUME SameName(Name(i), part) PROVE FALSE
      <4>1. 1 \in DOMAIN part /\ Lower[Name(i)[1]] = Lower[part[1]]
        BY <2>2, <3>3, <3>4 DEF SameName
      <4> QED BY <3>1, <3>2, <4>1
    <3> QED BY <2>4, <3>4
  <2> HIDE DEF same
  <2> QED BY <2>3, <2>4
<1>2. \A i \in same : items[i] \in matches
  BY <1>1 DEF Matches
<1>3. matches # {} => same # {}
  BY <1>1 DEF Matches
<1>4. /\ item = NoItem \/ \E i \in same : item = items[i]
      /\ (\A i \in DOMAIN items : items[i].kind # "deleted") /\ same # {} => \E i \in same : item = items[i]
  BY ItemFound
<1> HIDE DEF item, same, matches
<1> QED BY <1>2, <1>3, <1>4 DEF item, matches

(* What is made of a path that is none is the null pointer; of another the *)
(* parts from the fourth character on (pparser.c:125-156).                 *)
LEMMA Parsed ==
  ASSUME NEW text, Len(text) \in Nat, Len(text) <= MaxPath, pathparser_path_valid_format(text)
  PROVE  \E from : /\ \A k \in 4 .. Len(text) + 2 :
                        from[k] = ParseStep(text, k, from[StartAfterSlash(EndOf(text, k))])
                   /\ pathparser_parse(text) = [drive |-> text[1], parts |-> from[4]]
<1> DEFINE Body(f) == [k \in 4 .. Len(text) + 2 |-> ParseStep(text, k, f[StartAfterSlash(EndOf(text, k))])]
           from == CHOOSE f : f = Body(f)
<1>1. pathparser_parse(text) = IF Len(text) > MaxPath \/ ~ pathparser_path_valid_format(text) THEN NoPath
                               ELSE [drive |-> text[1], parts |-> from[4]]
  BY Zenon DEF pathparser_parse, ParseStep, EndOf
<1>2. from = Body(from)
  <2>1. \E f : IsParse(text, f)
    BY ParseExists
  <2>2. \E f : f = Body(f)
    BY <2>1, Zenon DEF IsParse
  <2> HIDE DEF Body
  <2> QED BY <2>2
<1> HIDE DEF from
<1>3. \A k \in 4 .. Len(text) + 2 : from[k] = ParseStep(text, k, from[StartAfterSlash(EndOf(text, k))])
  <2>1. \A k \in 4 .. Len(text) + 2 : from[k] = Body(from)[k]
    BY <1>2, Zenon
  <2> QED BY <2>1
<1>4. ASSUME Len(text) > MaxPath PROVE FALSE
  <2>1. pathparser_path_valid_format(text) => Len(text) >= 3
    BY DEF pathparser_path_valid_format
  <2> QED BY <1>4, <2>1, MaxPathAssumption
<1>5. pathparser_parse(text) = [drive |-> text[1], parts |-> from[4]]
  BY <1>1, <1>4
<1> QED BY <1>3, <1>5

(* What stands at a place of a path up to the slash is a part.             *)
LEMMA EndIs ==
  ASSUME NEW text, Len(text) \in Nat, NEW k \in 4 .. Len(text), NEW e \in k .. Len(text) + 1,
         e <= Len(text) => text[e] = "/", \A j \in k .. e - 1 : text[j] # "/"
  PROVE  EndOf(text, k) = e
<1> DEFINE S == {j \in k .. Len(text) + 1 : j = Len(text) + 1 \/ text[j] = "/"}
<1>1. S \subseteq Nat /\ e \in S /\ \A j \in S : ~ (j < e)
  <2>1. e \in S
    <3>1. e <= Len(text) \/ e = Len(text) + 1
      OBVIOUS
    <3> QED BY <3>1
  <2>2. ASSUME NEW j \in S, j < e PROVE FALSE
    <3>1. j \in k .. e - 1 /\ j # Len(text) + 1
      BY <2>2
    <3> QED BY <2>2, <3>1
  <2> QED BY <2>1, <2>2
<1>2. EndOf(text, k) = CHOOSE m \in S : \A j \in S : m <= j
  BY Zenon DEF EndOf, Min
<1> HIDE DEF S
<1>3. EndOf(text, k) \in S /\ \A j \in S : EndOf(text, k) <= j
  <2>1. \E m \in S : \A j \in S : m <= j
    BY <1>1, LeastNumber
  <2> QED BY <1>2, <2>1
<1> DEFINE m == EndOf(text, k)
<1> HIDE DEF m
<1>4. m \in Int /\ e \in Int /\ m <= e /\ ~ (m < e)
  <2>1. m \in S /\ \A j \in S : m <= j
    BY <1>3 DEF m
  <2>2. m \in Nat /\ m <= e /\ ~ (m < e)
    BY <1>1, <2>1
  <2>3. e \in Nat
    BY <1>1
  <2> QED BY <2>2, <2>3
<1>5. m = e
  BY <1>4
<1> QED BY <1>5 DEF m

(* The places of the names in a path: each is followed by the next, and    *)
(* the parser finds where it ends.                                         *)
LEMMA PlaceFacts ==
  ASSUME NEW path \in Paths, path.names # <<>>,
         NEW at \in [1 .. Len(path.names) + 1 -> 4 .. Len(path.text) + 2],
         StandAt(path.text, path.names, at)
  PROVE  /\ Len(path.text) \in Nat /\ Len(path.names) \in Nat \ {0}
         /\ \A i \in 1 .. Len(path.names) :
              /\ at[i] \in 4 .. Len(path.text)
              /\ at[i + 1] \in at[i] + 2 .. Len(path.text) + 2
              /\ EndOf(path.text, at[i]) = at[i + 1] - 1
         /\ at[Len(path.names) + 1] <= Len(path.text) =>
              EndOf(path.text, at[Len(path.names) + 1]) = at[Len(path.names) + 1]
<1> DEFINE text == path.text
           names == path.names
           C == {Lower[c] : c \in DOMAIN Lower}
           n == Len(names)
           L == Len(text)
<1>1. text \in Seq(DOMAIN Lower) /\ names \in Seq(Seq(C)) /\ names # <<>>
  BY PathsAssumption
<1>2. L \in Nat
  BY <1>1, LenProperties
<1>3. n \in Nat \ {0} /\ \A i \in 1 .. n : names[i] \in Seq(C)
  <2> HIDE DEF names, C
  <2>1. n \in Nat \ {0}
    BY <1>1, EmptySeq
  <2> QED BY <1>1, <2>1, ElementOfSeq
<1>4. /\ at[1] = 4
      /\ \A i \in 1 .. n :
           /\ names[i] # <<>>
           /\ at[i + 1] = at[i] + Len(names[i]) + 1
           /\ names[i] = InSmall(SubSeq(text, at[i], at[i + 1] - 2))
           /\ \A k \in at[i] .. at[i + 1] - 1 : k <= L => (text[k] = "/" <=> k = at[i + 1] - 1)
      /\ at[n + 1] <= L => text[at[n + 1]] = "/"
  BY Zenon DEF StandAt
<1>5. at \in [1 .. n + 1 -> 4 .. L + 2]
  OBVIOUS
<1> HIDE DEF text, names, n, L, C
<1>6. ASSUME NEW i \in 1 .. n
      PROVE  at[i] \in 4 .. L /\ at[i + 1] \in at[i] + 2 .. L + 2 /\ EndOf(text, at[i]) = at[i + 1] - 1
  <2> DEFINE l == Len(names[i])
             k == at[i]
             e == at[i + 1] - 1
  <2>1. l \in Nat \ {0}
    BY <1>3, <1>4, EmptySeq
  <2>2. k \in 4 .. L + 2 /\ at[i + 1] \in 4 .. L + 2
    BY <1>3, <1>5
  <2>3. at[i + 1] = k + l + 1
    BY <1>4
  <2>4. \A j \in k .. e : j <= L => (text[j] = "/" <=> j = e)
    BY <1>4
  <2>5. at[i + 1] = e + 1 /\ e = k + l
    BY <2>1, <2>2, <2>3
  <2> HIDE DEF l, k, e
  <2>6. k \in 4 .. L /\ e \in k .. L + 1 /\ e + 1 \in k + 2 .. L + 2
    BY <1>2, <2>1, <2>2, <2>5
  <2>7. e <= L => text[e] = "/"
    BY <1>2, <2>4, <2>6
  <2>8. ASSUME NEW j \in k .. e - 1 PROVE text[j] # "/"
    <3>1. j \in k .. e /\ j <= L /\ j # e
      BY <1>2, <2>6
    <3> QED BY <2>4, <3>1
  <2>9. EndOf(text, k) = e
    BY <1>2, <2>6, <2>7, <2>8, EndIs DEF L
  <2> QED BY <2>5, <2>6, <2>9 DEF k, e
<1>7. ASSUME at[n + 1] <= L PROVE EndOf(text, at[n + 1]) = at[n + 1]
  <2> DEFINE k == at[n + 1]
  <2>1. k \in 4 .. L + 2 /\ k <= L /\ text[k] = "/"
    BY <1>3, <1>4, <1>5, <1>7
  <2> HIDE DEF k
  <2>2. k \in 4 .. L /\ k \in k .. L + 1 /\ \A j \in k .. k - 1 : text[j] # "/"
    BY <1>2, <2>1
  <2>3. EndOf(text, k) = k
    BY <1>2, <2>1, <2>2, EndIs DEF L
  <2> QED BY <2>3 DEF k
<1> QED BY <1>2, <1>3, <1>6, <1>7 DEF text, names, n, L

(* The parts of a path are the names it stands for, as they are written    *)
(* (pparser.c:77-156).                                                     *)
LEMMA PartsAre ==
  ASSUME NEW path \in Paths, path.names # <<>>,
         NEW at \in [1 .. Len(path.names) + 1 -> 4 .. Len(path.text) + 2],
         StandAt(path.text, path.names, at), Len(path.text) <= MaxPath, pathparser_path_valid_format(path.text)
  PROVE  LET parts == pathparser_parse(path.text).parts
         IN  /\ pathparser_parse(path.text).drive = path.text[1]
             /\ Len(parts) = Len(path.names)
             /\ \A i \in 1 .. Len(path.names) : parts[i] = SubSeq(path.text, at[i], at[i + 1] - 2)
<1> DEFINE text == path.text
           n == Len(path.names)
           L == Len(text)
           P(i) == SubSeq(text, at[i], at[i + 1] - 2)
           S == {P(i) : i \in 1 .. n}
<1>1. L \in Nat /\ n \in Nat \ {0} /\ at[1] = 4
  BY PlaceFacts DEF StandAt
<1>2. \A i \in 1 .. n : at[i] \in 4 .. L /\ at[i + 1] \in at[i] + 2 .. L + 2 /\ EndOf(text, at[i]) = at[i + 1] - 1
  BY PlaceFacts
<1>3. at[n + 1] <= L => EndOf(text, at[n + 1]) = at[n + 1]
  BY PlaceFacts
<1>4. at[n + 1] \in 4 .. L + 2
  BY <1>1
<1>5. PICK from : /\ \A k \in 4 .. L + 2 : from[k] = ParseStep(text, k, from[StartAfterSlash(EndOf(text, k))])
                  /\ pathparser_parse(text) = [drive |-> text[1], parts |-> from[4]]
  BY <1>1, Parsed
<1> HIDE DEF text, n, L
<1>6. \A i \in 1 .. n : P(i) \in S
  OBVIOUS
<1>7. ASSUME NEW i \in 1 .. n PROVE from[at[i]] = <<P(i)>> \o from[at[i + 1]]
  <2> DEFINE k == at[i]
             a == at[i + 1]
  <2>1. k \in 4 .. L /\ a \in k + 2 .. L + 2 /\ EndOf(text, k) = a - 1
    BY <1>2
  <2>2. P(i) = SubSeq(text, k, a - 2)
    OBVIOUS
  <2> HIDE DEF k, a, P
  <2>3. k \in 4 .. L + 2 /\ ~ (k > L) /\ a - 1 # k /\ (a - 1) + 1 = a /\ (a - 1) - 1 = a - 2
    BY <1>1, <2>1
  <2>4. from[k] = ParseStep(text, k, from[a])
    BY <1>5, <2>1, <2>3 DEF StartAfterSlash
  <2>5. ParseStep(text, k, from[a]) = <<SubSeq(text, k, a - 2)>> \o from[a]
    BY <2>1, <2>3 DEF ParseStep, L
  <2> QED BY <2>2, <2>4, <2>5 DEF k, a
<1>8. from[at[n + 1]] = <<>>
  <2> DEFINE k == at[n + 1]
  <2>1. k \in 4 .. L + 2 /\ (k <= L => EndOf(text, k) = k)
    BY <1>3, <1>4
  <2> HIDE DEF k
  <2>2. k > L \/ EndOf(text, k) = k
    BY <1>1, <2>1
  <2>3. from[k] = ParseStep(text, k, from[StartAfterSlash(EndOf(text, k))])
    BY <1>5, <2>1
  <2>4. from[k] = <<>>
    BY <2>2, <2>3 DEF ParseStep, L
  <2> QED BY <2>4 DEF k
<1> HIDE DEF P, S
<1> DEFINE Right(d) == LET i == n + 1 - d
                       IN  /\ from[at[i]] \in Seq(S) /\ Len(from[at[i]]) = d
                           /\ \A j \in 1 .. d : from[at[i]][j] = P(i + j - 1)
           T == {d \in Nat : d <= n => Right(d)}
<1>9. 0 \in T
  <2>1. n + 1 - 0 = n + 1
    BY <1>1
  <2>2. from[at[n + 1 - 0]] = <<>>
    BY <1>8, <2>1
  <2>3. from[at[n + 1 - 0]] \in Seq(S) /\ Len(from[at[n + 1 - 0]]) = 0
    BY <2>2, EmptySeq
  <2> QED BY <2>3
<1>10. ASSUME NEW d \in Nat, d \in T PROVE d + 1 \in T
  <2> SUFFICES ASSUME d + 1 <= n PROVE Right(d + 1)
    OBVIOUS
  <2> DEFINE i == n + 1 - (d + 1)
             s == from[at[i]]
             t == from[at[i + 1]]
  <2>1. i \in 1 .. n /\ n + 1 - d = i + 1 /\ d <= n
    BY <1>1
  <2>2. t \in Seq(S) /\ Len(t) = d /\ \A j \in 1 .. d : t[j] = P((i + 1) + j - 1)
    <3>1. Right(d)
      BY <1>10, <2>1
    <3> QED BY <2>1, <3>1
  <2>3. s = <<P(i)>> \o t
    BY <1>7, <2>1
  <2> HIDE DEF i, s, t
  <2>4. <<P(i)>> \in Seq(S) /\ Len(<<P(i)>>) = 1 /\ <<P(i)>>[1] = P(i)
    BY <1>6, <2>1
  <2>5. /\ s \in Seq(S) /\ Len(s) = 1 + d
        /\ \A j \in 1 .. 1 + d : s[j] = IF j <= 1 THEN <<P(i)>>[j] ELSE t[j - 1]
    BY <2>2, <2>3, <2>4, ConcatProperties
  <2>6. ASSUME NEW j \in 1 .. d + 1 PROVE s[j] = P(i + j - 1)
    <3>1. CASE j = 1
      <4>1. s[1] = P(i) /\ i + 1 - 1 = i
        BY <2>1, <2>4, <2>5
      <4> QED BY <3>1, <4>1
    <3>2. CASE j # 1
      <4>1. j - 1 \in 1 .. d /\ j \in 1 .. 1 + d /\ ~ (j <= 1) /\ (i + 1) + (j - 1) - 1 = i + j - 1
        BY <2>1, <3>2
      <4>2. s[j] = t[j - 1] /\ t[j - 1] = P((i + 1) + (j - 1) - 1)
        BY <2>2, <2>5, <4>1
      <4> QED BY <4>1, <4>2
    <3> QED BY <3>1, <3>2
  <2>7. 1 + d = d + 1
    OBVIOUS
  <2> QED BY <2>5, <2>6, <2>7 DEF i, s
<1>11. Right(n)
  <2> HIDE DEF T
  <2>1. Nat \subseteq T
    BY <1>9, <1>10, SetInduction
  <2>2. n \in T
    BY <1>1, <2>1
  <2> HIDE DEF Right
  <2> QED BY <1>1, <2>2 DEF T
<1>12. n + 1 - n = 1 /\ \A j \in 1 .. n : 1 + j - 1 = j
  BY <1>1
<1>13. Len(from[4]) = n /\ \A j \in 1 .. n : from[4][j] = P(j)
  BY <1>1, <1>11, <1>12
<1> QED BY <1>5, <1>13 DEF P, n, text

(* The items that a name stands for in the directories of a set of items.  *)
UnderStep(dirs, name, items) ==
  UNION {Matches(dirs[d.dir], name) : d \in {e \in items : e.kind = "directory"}}

(* They are items of the volume. *)
LEMMA MatchesKnown ==
  ASSUME NEW v \in Volumes, NEW name
  PROVE  /\ \A d \in DOMAIN v.dirs : Matches(v.dirs[d], name) \subseteq Known(v.dirs) \ {NoItem}
         /\ \A items \in SUBSET Known(v.dirs) : UnderStep(v.dirs, name, items) \subseteq Known(v.dirs) \ {NoItem}
         /\ \A item \in Known(v.dirs) : item.kind = "directory" => item # NoItem /\ item.dir \in DOMAIN v.dirs
<1> DEFINE dirs == v.dirs
<1>1. /\ dirs \in [DOMAIN dirs -> Seq(Items(dirs))]
      /\ \A d \in DOMAIN dirs : \A i \in DOMAIN dirs[d] :
           dirs[d][i].kind = "directory" => dirs[d][i].dir \in DOMAIN dirs
  BY VolumesAssumption
<1> HIDE DEF dirs
<1>2. NoItem.kind = "none"
  BY DEF NoItem
<1>3. ASSUME NEW d \in DOMAIN dirs PROVE Matches(dirs[d], name) \subseteq Known(dirs) \ {NoItem}
  <2>1. dirs[d] \in Seq(Items(dirs))
    BY <1>1
  <2>2. \A i \in DOMAIN dirs[d] : dirs[d][i] \in Items(dirs)
    BY <2>1
  <2>3. \A item \in Items(dirs) : item.kind # "none"
    BY DEF Items
  <2>4. \A i \in DOMAIN dirs[d] : dirs[d][i] # NoItem
    BY <1>2, <2>2, <2>3
  <2> QED BY <2>4 DEF Matches, Known
<1>4. ASSUME NEW item \in Known(dirs), item.kind = "directory" PROVE item # NoItem /\ item.dir \in DOMAIN dirs
  <2>1. item # NoItem
    BY <1>2, <1>4
  <2> QED BY <1>1, <1>4, <2>1 DEF Known
<1>5. ASSUME NEW items \in SUBSET Known(dirs)
      PROVE  UnderStep(dirs, name, items) \subseteq Known(dirs) \ {NoItem}
  BY <1>3, <1>4 DEF UnderStep
<1> QED BY <1>3, <1>4, <1>5 DEF dirs

(* What names stand for is found directory by directory. *)
LEMMA NamedWalked ==
  ASSUME NEW v \in Volumes, NEW names, Len(names) \in Nat \ {0}
  PROVE  \E under : /\ Named(v.dirs, names) = under[Len(names)]
                    /\ \A i \in 1 .. Len(names) :
                         under[i] = IF i = 1 THEN Matches(v.dirs["root"], names[1])
                                    ELSE UnderStep(v.dirs, names[i], under[i - 1])
<1> DEFINE dirs == v.dirs
           S == SUBSET Known(dirs)
           n == Len(names)
           start == Matches(dirs["root"], names[1])
           Body(f) == [i \in 1 .. Len(names) |-> IF i = 1 THEN start ELSE UnderStep(dirs, names[i], f[i - 1])]
           under == CHOOSE f : f = Body(f)
           step == [i \in 2 .. n |-> [items \in S |-> UnderStep(dirs, names[i], items)]]
<1>1. Named(dirs, names) = under[Len(names)]
  BY Zenon DEF Named, Matches, UnderStep
<1>2. start \in S
  BY VolumesAssumption, MatchesKnown
<1>3. \A i \in 2 .. n : \A items \in S :
        step[i][items] = UnderStep(dirs, names[i], items) /\ step[i][items] \in S
  <2>1. ASSUME NEW i \in 2 .. n, NEW items \in S PROVE UnderStep(dirs, names[i], items) \in S
    BY MatchesKnown
  <2> HIDE DEF S
  <2> QED BY <2>1
<1> HIDE DEF start, step, S
<1>4. PICK h : WalksFrom(h, n, start, step) /\ \A i \in 1 .. n : h[i] \in S
  <2>1. n \in Nat \ {0}
    OBVIOUS
  <2>3. \A i \in 2 .. n : \A items \in S : step[i][items] \in S
    BY <1>3
  <2> HIDE DEF n
  <2> QED BY <1>2, <2>1, <2>3, Walks, Zenon
<1>5. \A i \in 1 .. n : h[i] = IF i = 1 THEN start ELSE UnderStep(dirs, names[i], h[i - 1])
  <2> SUFFICES ASSUME NEW i \in 1 .. n PROVE h[i] = IF i = 1 THEN start ELSE UnderStep(dirs, names[i], h[i - 1])
    OBVIOUS
  <2>1. h[i] = IF i = 1 THEN start ELSE step[i][h[i - 1]]
    BY <1>4 DEF WalksFrom
  <2>2. i # 1 => i \in 2 .. n /\ h[i - 1] \in S
    BY <1>4
  <2> QED BY <1>3, <2>1, <2>2
<1>6. h = Body(h)
  <2>1. h = [i \in 1 .. n |-> h[i]]
    BY <1>4 DEF WalksFrom
  <2> QED BY <1>5, <2>1, Zenon
<1>7. under = Body(under)
  <2> HIDE DEF Body
  <2> QED BY <1>6
<1> HIDE DEF under
<1>8. \A i \in 1 .. n : under[i] = IF i = 1 THEN start ELSE UnderStep(dirs, names[i], under[i - 1])
  <2>1. \A i \in 1 .. n : under[i] = Body(under)[i]
    BY <1>7, Zenon
  <2> QED BY <2>1
<1> QED BY <1>1, <1>8 DEF start

(* Nothing was deleted from the directories of a volume. *)
Undeleted(dirs) == \A d \in DOMAIN dirs : \A i \in DOMAIN dirs[d] : dirs[d][i].kind # "deleted"

(* A search and what the name stands for, in one directory. *)
Agree(dirs, item, items) ==
  /\ item = NoItem \/ item \in items
  /\ Undeleted(dirs) /\ items # {} => items = {item}

LEMMA SearchAgrees ==
  ASSUME NamesApart, NEW v \in Volumes, NEW d \in DOMAIN v.dirs, NEW part, Len(part) \in Nat,
         DOMAIN part = 1 .. Len(part), WellKept(v.dirs[d], part)
  PROVE  Agree(v.dirs, fat16_find_item_in_directory(v.dirs[d], part), Matches(v.dirs[d], InSmall(part)))
<1> DEFINE items == v.dirs[d]
           item == fat16_find_item_in_directory(items, part)
           matches == Matches(items, InSmall(part))
<1>1. items \in Seq(Items(v.dirs))
  BY VolumesAssumption
<1>2. /\ item = NoItem \/ item \in matches
      /\ (\A i \in DOMAIN items : items[i].kind # "deleted") /\ matches # {} => item \in matches
  BY <1>1, ItemSearched
<1>3. \A x, y \in matches : x = y
  BY DEF NamesApart, Matches
<1> HIDE DEF item, matches
<1>4. ASSUME Undeleted(v.dirs), matches # {} PROVE matches = {item}
  <2>1. \A i \in DOMAIN items : items[i].kind # "deleted"
    BY <1>4 DEF Undeleted
  <2>2. item \in matches
    BY <1>2, <1>4, <2>1
  <2> QED BY <1>3, <2>2
<1> QED BY <1>2, <1>4 DEF Agree, item, matches

(* So they agree all along a path. *)
LEMMA EntryAgrees ==
  ASSUME NamesApart, NEW v \in Volumes, NEW parts, NEW names, Len(names) \in Nat \ {0},
         Len(parts) = Len(names),
         \A i \in 1 .. Len(names) :
           /\ Len(parts[i]) \in Nat /\ DOMAIN parts[i] = 1 .. Len(parts[i])
           /\ InSmall(parts[i]) = names[i]
           /\ \A d \in DOMAIN v.dirs : WellKept(v.dirs[d], parts[i])
  PROVE  Agree(v.dirs, fat16_get_directory_entry(v.dirs, parts), Named(v.dirs, names))
<1> DEFINE dirs == v.dirs
           n == Len(names)
<1>1. PICK walk : /\ fat16_get_directory_entry(dirs, parts) = walk[n]
                  /\ \A i \in 1 .. n :
                       /\ walk[i] \in Known(dirs)
                       /\ walk[i] = IF i = 1 THEN fat16_find_item_in_directory(dirs["root"], parts[1])
                                    ELSE WalkStep(dirs, parts, i, walk[i - 1])
  <2>1. Len(parts) \in Nat \ {0}
    OBVIOUS
  <2> QED BY <2>1, EntryWalked
<1>2. PICK under : /\ Named(dirs, names) = under[n]
                   /\ \A i \in 1 .. n :
                        under[i] = IF i = 1 THEN Matches(dirs["root"], names[1])
                                   ELSE UnderStep(dirs, names[i], under[i - 1])
  BY NamedWalked
<1>3. ASSUME NEW i \in 1 .. n, NEW d \in DOMAIN dirs
      PROVE  Agree(dirs, fat16_find_item_in_directory(dirs[d], parts[i]), Matches(dirs[d], names[i]))
  BY <1>3, SearchAgrees
<1>4. "root" \in DOMAIN dirs
  BY VolumesAssumption
<1>5. \A item \in Known(dirs) : item.kind = "directory" => item # NoItem /\ item.dir \in DOMAIN dirs
  BY MatchesKnown
<1>6. n \in Nat \ {0}
  OBVIOUS
<1> HIDE DEF dirs, n
<1> DEFINE T == {k \in Nat : k + 1 <= n => Agree(dirs, walk[k + 1], under[k + 1])}
<1>7. 0 \in T
  <2>1. 1 \in 1 .. n
    BY <1>6
  <2>2. walk[1] = fat16_find_item_in_directory(dirs["root"], parts[1]) /\ under[1] = Matches(dirs["root"], names[1])
    BY <1>1, <1>2, <2>1
  <2>3. Agree(dirs, walk[1], under[1])
    BY <1>3, <1>4, <2>1, <2>2
  <2> QED BY <2>3
<1>8. ASSUME NEW k \in Nat, k \in T PROVE k + 1 \in T
  <2> SUFFICES ASSUME (k + 1) + 1 <= n PROVE Agree(dirs, walk[(k + 1) + 1], under[(k + 1) + 1])
    OBVIOUS
  <2> DEFINE i == (k + 1) + 1
             item == walk[k + 1]
             items == under[k + 1]
  <2>1. i \in 1 .. n /\ i # 1 /\ i - 1 = k + 1 /\ k + 1 \in 1 .. n
    BY <1>6
  <2>2. Agree(dirs, item, items) /\ item \in Known(dirs)
    BY <1>1, <1>8, <2>1
  <2>3. walk[i] = WalkStep(dirs, parts, i, item) /\ under[i] = UnderStep(dirs, names[i], items)
    BY <1>1, <1>2, <2>1
  <2> HIDE DEF i, item, items
  <2>4. CASE item.kind # "directory"
    <3>1. walk[i] = NoItem
      BY <2>3, <2>4 DEF WalkStep
    <3>2. ASSUME Undeleted(dirs), under[i] # {} PROVE FALSE
      <4>1. PICK e \in items : e.kind = "directory"
        BY <2>3, <3>2 DEF UnderStep
      <4>2. items = {item}
        BY <2>2, <3>2, <4>1 DEF Agree
      <4> QED BY <2>4, <4>1, <4>2
    <3> QED BY <3>1, <3>2 DEF Agree, i
  <2>5. CASE item.kind = "directory"
    <3> DEFINE matches == Matches(dirs[item.dir], names[i])
    <3>1. item # NoItem /\ item.dir \in DOMAIN dirs
      BY <1>5, <2>2, <2>5
    <3>2. walk[i] = fat16_find_item_in_directory(dirs[item.dir], parts[i])
      BY <2>3, <2>5 DEF WalkStep
    <3>3. Agree(dirs, walk[i], matches)
      BY <1>3, <2>1, <3>1, <3>2
    <3>4. item \in items
      BY <2>2, <3>1 DEF Agree
    <3>5. matches \subseteq under[i]
      BY <2>3, <2>5, <3>4 DEF UnderStep
    <3>6. Undeleted(dirs) => under[i] = matches
      <4> SUFFICES ASSUME Undeleted(dirs) PROVE under[i] = matches
        OBVIOUS
      <4>1. items = {item}
        BY <2>2, <3>4 DEF Agree
      <4> QED BY <2>3, <2>5, <4>1 DEF UnderStep
    <3> HIDE DEF matches
    <3> QED BY <3>3, <3>5, <3>6 DEF Agree, i
  <2> QED BY <2>4, <2>5
<1>9. Nat \subseteq T
  <2> HIDE DEF T
  <2> QED BY <1>7, <1>8, SetInduction
<1>10. n - 1 \in T /\ (n - 1) + 1 = n
  <2> HIDE DEF T
  <2> QED BY <1>6, <1>9
<1>11. Agree(dirs, walk[n], under[n])
  BY <1>6, <1>10
<1> QED BY <1>1, <1>2, <1>11 DEF dirs

(* A part of a path is a text, and holds no mark of a deleted item. *)
LEMMA PartsKept ==
  ASSUME NamesApart, MarksApart, NEW v \in Volumes, NEW path \in Paths,
         NEW from \in 4 .. Len(path.text), NEW to \in from .. Len(path.text)
  PROVE  LET part == SubSeq(path.text, from, to)
         IN  /\ Len(part) \in Nat /\ DOMAIN part = 1 .. Len(part)
             /\ \A d \in DOMAIN v.dirs : WellKept(v.dirs[d], part)
<1> DEFINE text == path.text
           part == SubSeq(text, from, to)
           L == Len(text)
<1>1. text \in Seq(DOMAIN Lower) /\ L \in Nat /\ DOMAIN text = 1 .. L
  <2>1. text \in Seq(DOMAIN Lower)
    BY PathsAssumption
  <2> QED BY <2>1, LenProperties
<1> HIDE DEF text, L
<1>2. from \in 4 .. L /\ to \in from .. L
  BY DEF L, text
<1>3. \A k \in from .. to : text[k] \in DOMAIN Lower
  BY <1>1, <1>2, ElementOfSeq DEF L
<1>4. /\ part \in Seq(DOMAIN Lower) /\ Len(part) = to - from + 1
      /\ \A k \in 1 .. to - from + 1 : part[k] = text[from + k - 1]
  <2>1. from \in Int /\ to \in Int /\ from <= to
    BY <1>1, <1>2
  <2> QED BY <1>3, <2>1, SubSeqProperties
<1> HIDE DEF part
<1>5. Len(part) \in Nat /\ DOMAIN part = 1 .. Len(part)
  BY <1>4, LenProperties
<1>6. ASSUME NEW k \in DOMAIN part PROVE \E j \in DOMAIN text : part[k] = text[j]
  <2>1. k \in 1 .. to - from + 1
    BY <1>4, <1>5
  <2>2. from + k - 1 \in 1 .. L
    BY <1>1, <1>2, <2>1
  <2> QED BY <1>1, <1>4, <2>1, <2>2
<1>7. ASSUME NEW d \in DOMAIN v.dirs PROVE WellKept(v.dirs[d], part)
  <2>1. \A i \in DOMAIN v.dirs[d] : v.dirs[d][i].kind # "deleted" => WellNamed(v.dirs[d][i])
    BY DEF NamesApart
  <2>2. ASSUME NEW i \in DOMAIN v.dirs[d], v.dirs[d][i].kind = "deleted"
        PROVE  LET name == v.dirs[d][i].filename
               IN  name # <<>> /\ name[1] # Space /\ \A k \in DOMAIN part : Lower[part[k]] # Lower[name[1]]
    <3> DEFINE name == v.dirs[d][i].filename
    <3>1. /\ name # <<>> /\ name[1] # Space
          /\ \A k \in DOMAIN text : Lower[text[k]] # Lower[name[1]]
      BY <2>2, Zenon DEF MarksApart, Space, text
    <3> HIDE DEF name
    <3>2. \A k \in DOMAIN part : Lower[part[k]] # Lower[name[1]]
      BY <1>6, <3>1
    <3> QED BY <3>1, <3>2 DEF name
  <2> QED BY <2>1, <2>2 DEF WellKept
<1> QED BY <1>5, <1>7 DEF part, text

(* What names stand for are items of the volume. *)
LEMMA NamedKnown ==
  ASSUME NEW v \in Volumes, NEW path \in Paths, path.names # <<>>
  PROVE  NoItem \notin Named(v.dirs, path.names)
<1> DEFINE names == path.names
           n == Len(names)
<1>1. n \in Nat \ {0}
  BY PathsAssumption, EmptySeq
<1>2. PICK under : /\ Named(v.dirs, names) = under[n]
                   /\ \A i \in 1 .. n :
                        under[i] = IF i = 1 THEN Matches(v.dirs["root"], names[1])
                                   ELSE UnderStep(v.dirs, names[i], under[i - 1])
  BY <1>1, NamedWalked
<1> HIDE DEF names, n
<1> DEFINE S == Known(v.dirs) \ {NoItem}
           T == {k \in Nat : k + 1 <= n => under[k + 1] \subseteq S}
<1>3. 0 \in T
  <2>1. under[1] = Matches(v.dirs["root"], names[1]) /\ "root" \in DOMAIN v.dirs
    BY <1>1, <1>2, VolumesAssumption
  <2> DEFINE name == names[1]
  <2>2. under[1] = Matches(v.dirs["root"], name)
    BY <2>1
  <2> HIDE DEF name
  <2>3. Matches(v.dirs["root"], name) \subseteq S
    BY <2>1, MatchesKnown, Zenon
  <2>4. under[1] \subseteq S
    BY <2>2, <2>3
  <2> QED BY <2>4
<1>4. ASSUME NEW k \in Nat, k \in T PROVE k + 1 \in T
  <2> SUFFICES ASSUME (k + 1) + 1 <= n PROVE under[(k + 1) + 1] \subseteq S
    OBVIOUS
  <2>1. (k + 1) + 1 \in 1 .. n /\ (k + 1) + 1 # 1 /\ ((k + 1) + 1) - 1 = k + 1 /\ k + 1 <= n
    BY <1>1
  <2>2. under[(k + 1) + 1] = UnderStep(v.dirs, names[(k + 1) + 1], under[k + 1])
    BY <1>2, <2>1
  <2> DEFINE name == names[(k + 1) + 1]
             items == under[k + 1]
  <2>3. items \in SUBSET Known(v.dirs)
    BY <1>4, <2>1
  <2>4. under[(k + 1) + 1] = UnderStep(v.dirs, name, items)
    BY <2>2
  <2> HIDE DEF name, items
  <2>5. UnderStep(v.dirs, name, items) \subseteq S
    BY <2>3, MatchesKnown, Zenon
  <2> QED BY <2>4, <2>5
<1>5. Nat \subseteq T
  <2> HIDE DEF T
  <2> QED BY <1>3, <1>4, SetInduction
<1>6. n - 1 \in T /\ (n - 1) + 1 = n
  <2> HIDE DEF T
  <2> QED BY <1>1, <1>5
<1>7. under[n] \subseteq S
  BY <1>1, <1>6
<1> QED BY <1>2, <1>7 DEF names, n

(* A text that is no path of drive 0, or has no part, leads nowhere        *)
(* (file.c:165-175, pparser.c:22-33).                                      *)
LEMMA NoNameNoItem ==
  ASSUME NEW path \in Paths,
         ~ (Len(path.text) \in 4 .. MaxPath /\ SubSeq(path.text, 1, 3) = <<"0", ":", "/">> /\ path.text[4] # "/")
  PROVE  Item(path) = NoItem
<1> DEFINE text == path.text
           root == pathparser_parse(text)
           L == Len(text)
<1>1. text \in Seq(DOMAIN Lower) /\ L \in Nat
  <2>1. text \in Seq(DOMAIN Lower)
    BY PathsAssumption
  <2> QED BY <2>1, LenProperties
<1>2. root.parts = <<>> \/ root.drive # "0" => Item(path) = NoItem
  BY DEF Item
<1>5. ~ (L \in 4 .. MaxPath /\ SubSeq(text, 1, 3) = <<"0", ":", "/">> /\ text[4] # "/")
  OBVIOUS
<1> HIDE DEF text, root
<1>3. CASE L > MaxPath \/ ~ pathparser_path_valid_format(text)
  <2>1. root = NoPath
    BY <1>3, Zenon DEF pathparser_parse, root, L
  <2> QED BY <1>2, <2>1 DEF NoPath
<1>4. CASE ~ (L > MaxPath) /\ pathparser_path_valid_format(text)
  <2>1. L >= 3 /\ text[2] = ":" /\ text[3] = "/"
    BY <1>4 DEF pathparser_path_valid_format
  <2>2. L <= MaxPath
    BY <1>1, <1>4, MaxPathAssumption
  <2>3. PICK from : /\ \A k \in 4 .. L + 2 : from[k] = ParseStep(text, k, from[StartAfterSlash(EndOf(text, k))])
                    /\ root = [drive |-> text[1], parts |-> from[4]]
    BY <1>1, <1>4, <2>2, Parsed DEF root
  <2>4. from[4] = ParseStep(text, 4, from[StartAfterSlash(EndOf(text, 4))])
    BY <1>1, <2>1, <2>3
  <2>5. CASE text[1] # "0"
    BY <1>2, <2>3, <2>5
  <2>6. CASE text[1] = "0"
    <3>1. SubSeq(text, 1, 3) = <<"0", ":", "/">>
      <4>1. \A i \in 1 .. 3 : text[i] \in DOMAIN Lower
        BY <1>1, <2>1, ElementOfSeq
      <4>2. /\ SubSeq(text, 1, 3) \in Seq(DOMAIN Lower) /\ Len(SubSeq(text, 1, 3)) = 3
            /\ \A i \in 1 .. 3 : SubSeq(text, 1, 3)[i] = text[i]
        BY <4>1, SubSeqProperties
      <4>3. <<"0", ":", "/">> \in Seq(DOMAIN Lower)
        BY <2>1, <2>6, <4>1
      <4>4. \A i \in 1 .. 3 : SubSeq(text, 1, 3)[i] = <<"0", ":", "/">>[i]
        BY <2>1, <2>6, <4>2
      <4> QED BY <4>2, <4>3, <4>4, SeqEqual
    <3>2. L = 3 \/ (L >= 4 /\ text[4] = "/")
      <4>1. L \notin 4 .. MaxPath \/ text[4] = "/"
        BY <1>5, <3>1, Zenon
      <4> HIDE DEF L
      <4> QED BY <1>1, <2>1, <2>2, <4>1, MaxPathAssumption
    <3>3. L < 4 \/ EndOf(text, 4) = 4
      <4> SUFFICES ASSUME L >= 4, text[4] = "/" PROVE EndOf(text, 4) = 4
        BY <3>2
      <4>1. 4 \in 4 .. L /\ 4 \in 4 .. L + 1 /\ \A j \in 4 .. 4 - 1 : text[j] # "/"
        BY <1>1
      <4> QED BY <1>1, <4>1, EndIs DEF L
    <3>4. from[4] = <<>>
      BY <1>1, <2>4, <3>3 DEF ParseStep
    <3> QED BY <1>2, <2>3, <3>4
  <2> QED BY <2>5, <2>6
<1> QED BY <1>3, <1>4

(* A path and what its names stand for, in every disk. *)
LEMMA ItemAgrees ==
  ASSUME NamesApart, MarksApart, NamesStand, volume \in Volumes, NEW path \in Paths
  PROVE  Agree(volume.dirs, Item(path), IF path.names = <<>> THEN {} ELSE Named(volume.dirs, path.names))
<1> DEFINE text == path.text
           names == path.names
           good == Len(text) \in 4 .. MaxPath /\ SubSeq(text, 1, 3) = <<"0", ":", "/">> /\ text[4] # "/"
<1>1. StandsFor(text, names)
  BY DEF NamesStand
<1>2. CASE ~ good
  <2>1. names = <<>>
    BY <1>1, <1>2, Zenon DEF StandsFor
  <2>2. Item(path) = NoItem
    BY <1>2, NoNameNoItem
  <2> QED BY <2>1, <2>2 DEF Agree
<1>3. CASE good
  <2>1. names # <<>> /\ \E at \in [1 .. Len(names) + 1 -> 4 .. Len(text) + 2] : StandAt(text, names, at)
    BY <1>1, <1>3, Zenon DEF StandsFor
  <2>2. PICK at \in [1 .. Len(names) + 1 -> 4 .. Len(text) + 2] : StandAt(text, names, at)
    BY <2>1
  <2> DEFINE root == pathparser_parse(text)
             parts == root.parts
             n == Len(names)
  <2>3. text[1] = "0" /\ text[2] = ":" /\ text[3] = "/" /\ Len(text) >= 4 /\ Len(text) <= MaxPath
    <3>1. text \in Seq(DOMAIN Lower)
      BY PathsAssumption
    <3>2. Len(text) \in Nat /\ Len(text) >= 4 /\ Len(text) <= MaxPath
      BY <1>3, <3>1, LenProperties, MaxPathAssumption
    <3>3. \A i \in 1 .. 3 : text[i] \in DOMAIN Lower
      BY <3>1, <3>2, ElementOfSeq
    <3>4. \A i \in 1 .. 3 : SubSeq(text, 1, 3)[i] = text[i]
      BY <3>3, SubSeqProperties
    <3>5. SubSeq(text, 1, 3)[1] = "0" /\ SubSeq(text, 1, 3)[2] = ":" /\ SubSeq(text, 1, 3)[3] = "/"
      <4> DEFINE s == SubSeq(text, 1, 3)
      <4>1. s = <<"0", ":", "/">>
        BY <1>3
      <4> HIDE DEF s
      <4>2. s[1] = "0" /\ s[2] = ":" /\ s[3] = "/"
        BY <4>1
      <4> QED BY <4>2 DEF s
    <3> QED BY <3>2, <3>4, <3>5
  <2>4. pathparser_path_valid_format(text)
    BY <2>3 DEF pathparser_path_valid_format, NamesStand
  <2>5. root.drive = "0" /\ Len(parts) = n /\ \A i \in 1 .. n : parts[i] = SubSeq(text, at[i], at[i + 1] - 2)
    BY <2>1, <2>2, <2>3, <2>4, PartsAre
  <2>6. n \in Nat \ {0} /\ \A i \in 1 .. n : at[i] \in 4 .. Len(text) /\ at[i + 1] \in at[i] + 2 .. Len(text) + 2
    BY <2>1, <2>2, PlaceFacts
  <2>7. \A i \in 1 .. n : names[i] = InSmall(SubSeq(text, at[i], at[i + 1] - 2))
    BY <2>2, Zenon DEF StandAt
  <2> HIDE DEF root, parts
  <2>8. ASSUME NEW i \in 1 .. n
        PROVE  /\ Len(parts[i]) \in Nat /\ DOMAIN parts[i] = 1 .. Len(parts[i])
               /\ InSmall(parts[i]) = names[i]
               /\ \A d \in DOMAIN volume.dirs : WellKept(volume.dirs[d], parts[i])
    <3> DEFINE to == at[i + 1] - 2
    <3>1. at[i] \in 4 .. Len(text) /\ to \in at[i] .. Len(text)
      BY <2>6, PlaceFacts, <2>1, <2>2
    <3>2. parts[i] = SubSeq(text, at[i], to)
      BY <2>5
    <3>3. InSmall(parts[i]) = names[i]
      BY <2>7, <3>2
    <3> HIDE DEF to
    <3> QED BY <3>1, <3>2, <3>3, PartsKept
  <2>9. Agree(volume.dirs, fat16_get_directory_entry(volume.dirs, parts), Named(volume.dirs, names))
    BY <2>5, <2>6, <2>8, EntryAgrees
  <2>10. Item(path) = fat16_get_directory_entry(volume.dirs, parts)
    <3>1. parts # <<>>
      BY <2>5, <2>6, EmptySeq
    <3> QED BY <2>5, <3>1 DEF Item, root, parts
  <2> QED BY <2>1, <2>9, <2>10
<1> QED BY <1>2, <1>3

(* A path leads to the item it names, and to none if it names none; where  *)
(* something was deleted it never leads to another.  This is so on disks   *)
(* whose directories have names that are apart, for paths that hold no     *)
(* mark of a deleted item (pparser.c:14-156, fat16.c:196-243, :362-396,    *)
(* :646-700).                                                              *)
THEOREM FilesFindWhatIsThere ==
  ASSUME NamesApart, MarksApart, NamesStand
  PROVE  Spec => []FindsWhatIsThere
<1>1. FilesInv => FindsWhatIsThere
  <2> SUFFICES ASSUME FilesInv, NEW path \in Paths
               PROVE  LET named == IF path.names = <<>> THEN {} ELSE Named(volume.dirs, path.names)
                      IN  /\ Item(path) \in named \cup {NoItem}
                          /\ Undeleted(volume.dirs) /\ named # {} => Item(path) # NoItem
    BY Zenon DEF FindsWhatIsThere, Undeleted
  <2> DEFINE named == IF path.names = <<>> THEN {} ELSE Named(volume.dirs, path.names)
  <2>1. volume \in Volumes
    BY DEF FilesInv
  <2>2. Agree(volume.dirs, Item(path), named)
    BY <2>1, ItemAgrees
  <2>3. NoItem \notin named
    <3>1. CASE path.names = <<>>
      BY <3>1
    <3>2. CASE path.names # <<>>
      BY <2>1, <3>2, NamedKnown
    <3> QED BY <3>1, <3>2
  <2> HIDE DEF named
  <2>4. Item(path) \in named \cup {NoItem} /\ (Undeleted(volume.dirs) /\ named # {} => Item(path) # NoItem)
    BY <2>2, <2>3 DEF Agree
  <2> QED BY <2>4 DEF named
<1> QED BY <1>1, FilesTyped, PTL

==============================================================================
