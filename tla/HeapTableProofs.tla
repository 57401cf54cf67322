--------------------------- MODULE HeapTableProofs ---------------------------
(***************************************************************************)
(* What the functions of heap.c do to any table: how a request is rounded, *)
(* which block the loop of the search finds, and that marking and freeing  *)
(* keep the table and the allocations in agreement.  The proofs about the  *)
(* callers of the heap (HeapProofs, ProcessMemoryProofs) rest on these.    *)
(***************************************************************************)
EXTENDS HeapTable, Numbers

(* What the rounding makes of a request that does not wrap around: a whole *)
(* number of blocks, and enough of them (heap.c:59, :199).                 *)
LEMMA Rounded ==
  ASSUME NEW size \in 1 .. WordSize - 2 * BlockSize
  PROVE  \E k \in Int : /\ heap_align_value_to_upper(size) = BlockSize * k
                        /\ BlockSize * k >= size
<1> DEFINE B == BlockSize
           W == WordSize
           up == heap_align_value_to_upper(size)
           val == Signed(size)
<1>1. B \in Nat \ {0} /\ W \in Nat /\ W % B = 0 /\ size \in 1 .. W - 2 * B
  BY WordAssumption
<1>2. up = IF Remainder(val) = 0 THEN size ELSE (val - Remainder(val) + B) % W
  BY DEF heap_align_value_to_upper
<1>3. Remainder(val) = IF val >= 0 THEN val % B ELSE - ((- val) % B)
  BY DEF Remainder
<1>4. val = IF 2 * size >= W THEN size - W ELSE size
  BY DEF Signed
<1> SUFFICES \E k \in Int : up = B * k /\ B * k >= size
  OBVIOUS
<1> HIDE DEF B, W, up, val
<1>5. CASE 2 * size < W
  <2> DEFINE q == size \div B
             r == size % B
  <2>1. size = B * q + r /\ r \in 0 .. B - 1 /\ q \in Int
    BY <1>1
  <2>2. up = IF r = 0 THEN size ELSE (size - r + B) % W
    <3>1. val = size /\ val >= 0
      BY <1>1, <1>4, <1>5
    <3>2. Remainder(val) = r
      BY <1>3, <3>1
    <3> HIDE DEF r
    <3> QED BY <1>2, <3>1, <3>2
  <2> HIDE DEF q, r
  <2>3. CASE r = 0
    BY <1>1, <2>1, <2>2, <2>3
  <2>4. CASE r # 0
    <3>1. B * (q + 1) = size - r + B
      BY <1>1, <2>1
    <3> DEFINE d == size - r + B
    <3>2. d \in 0 .. W - 1 /\ d >= size
      BY <1>1, <2>1
    <3>3. d % W = d
      <4> HIDE DEF d
      <4> QED BY <1>1, <3>2
    <3>4. q + 1 \in Int /\ up = B * (q + 1) /\ B * (q + 1) >= size
      BY <2>1, <2>2, <2>4, <3>1, <3>2, <3>3
    <3> QED BY <3>4
  <2> QED BY <2>3, <2>4
<1>6. CASE 2 * size >= W
  <2> DEFINE y == W - size
             q == y \div B
             r == y % B
             w == W \div B
  <2>0. y \in Int /\ y >= 2 * B /\ y <= W /\ size = W - y
    BY <1>1
  <2>1. y = B * q + r /\ r \in 0 .. B - 1 /\ q \in Int
    BY <1>1, <2>0
  <2>2. W = B * w /\ w \in Int
    BY <1>1
  <2>3. up = IF r = 0 THEN size ELSE (- y + r + B) % W
    <3>1. val = - y /\ ~ (val >= 0) /\ - val = y
      BY <1>1, <1>4, <1>6, <2>0
    <3>2. Remainder(val) = - r
      BY <1>3, <3>1
    <3>3. r \in Int
      BY <2>1
    <3> HIDE DEF y, r
    <3>4. - r = 0 <=> r = 0
      BY <3>3
    <3>5. val - (- r) + B = - y + r + B
      BY <3>1, <3>3, <2>0, <1>1
    <3> QED BY <1>2, <3>2, <3>4, <3>5
  <2> HIDE DEF q, r, w, y
  <2>4. CASE r = 0
    <3>1. size = B * (w - q) /\ w - q \in Int
      BY <1>1, <2>0, <2>1, <2>2, <2>4
    <3> QED BY <2>3, <2>4, <3>1
  <2>5. CASE r # 0
    <3> DEFINE d == - y + r + B
               e == d + W
    <3>1. d \in Int /\ e \in 0 .. W - 1 /\ e >= size
      BY <1>1, <2>0, <2>1, <2>5
    <3>2. e = B * (w - q + 1) /\ w - q + 1 \in Int
      BY <1>1, <2>0, <2>1, <2>2, <2>5
    <3>3. d = W * (-1) + e /\ W \in Nat \ {0}
      BY <1>1, <3>1, <2>0
    <3> HIDE DEF e, d
    <3>4. d % W = e
      BY <3>1, <3>3, SmallRemainder
    <3> QED BY <2>3, <2>5, <3>1, <3>2, <3>4 DEF d
  <2> QED BY <2>4, <2>5
<1> QED BY <1>1, <1>5, <1>6

(* A size that does not wrap when rounded up gets at least one block, and  *)
(* enough of them (heap.c:61).                                             *)
LEMMA WholeBlocks ==
  ASSUME NEW size \in 1 .. WordSize - 2 * BlockSize
  PROVE  TotalBlocks(size) \in Nat \ {0} /\ TotalBlocks(size) * BlockSize >= size
<1>2. PICK k \in Int : heap_align_value_to_upper(size) = BlockSize * k /\ BlockSize * k >= size
  BY Rounded
<1>3. TotalBlocks(size) = (BlockSize * k) \div BlockSize
  BY <1>2 DEF TotalBlocks
<1>4. BlockSize \in Nat \ {0}
  BY WordAssumption
<1>5. (BlockSize * k) \div BlockSize = k
  BY <1>4
<1>6. size \in Nat \ {0}
  BY WordAssumption
<1>7. k > 0
  BY <1>2, <1>4, <1>6
<1> QED BY <1>2, <1>3, <1>4, <1>5, <1>6, <1>7

-----------------------------------------------------------------------------
(* The loop of heap_get_start_block.  After i entries it has found a run,  *)
(* or bs is the start of the run of free entries before i.                 *)

ScanStep(e, n, i, prev) ==
  LET bs == IF prev.bs = -1 THEN i - 1 ELSE prev.bs
  IN  IF prev.found THEN prev
      ELSE IF ~ IsFree(e, i - 1) THEN [bs |-> -1, bc |-> 0, found |-> FALSE]
      ELSE [bs |-> bs, bc |-> prev.bc + 1, found |-> prev.bc + 1 = n]

IsScan(e, n, scan) ==
  \A i \in 0 .. Total :
    scan[i] = IF i = 0 THEN [bs |-> -1, bc |-> 0, found |-> FALSE] ELSE ScanStep(e, n, i, scan[i - 1])

(* s is the start of the run of free entries that ends before i. *)
RunTo(e, s, i) ==
  /\ s \in 0 .. i
  /\ \A b \in s .. i - 1 : IsFree(e, b)
  /\ s > 0 => ~ IsFree(e, s - 1)

(* What holds of the loop's variables after i entries. *)
ScanIs(e, n, i, v) ==
  \/ /\ v.found = TRUE
     /\ v.bs \in Blocks
     /\ v.bs + n <= i
     /\ Fits(e, v.bs, n)
     /\ \A t \in 0 .. v.bs - 1 : ~ Fits(e, t, n)
  \/ /\ v.found = FALSE
     /\ \E s \in 0 .. i : /\ RunTo(e, s, i)
                          /\ i - s < n
                          /\ v = [bs |-> IF s = i THEN -1 ELSE s, bc |-> i - s, found |-> FALSE]
     /\ \A t \in 0 .. i : t + n <= i => ~ Fits(e, t, n)

(* No free entry is remembered. *)
LEMMA NothingRead ==
  ASSUME NEW e, NEW n \in Nat \ {0}, NEW i \in Nat, RunTo(e, i, i),
         \A t \in 0 .. i : t + n <= i => ~ Fits(e, t, n)
  PROVE  ScanIs(e, n, i, [bs |-> -1, bc |-> 0, found |-> FALSE])
<1> DEFINE v == [bs |-> -1, bc |-> 0, found |-> FALSE]
<1>1. v = [bs |-> IF i = i THEN -1 ELSE i, bc |-> i - i, found |-> FALSE]
  OBVIOUS
<1>2. i \in 0 .. i /\ i - i < n /\ v.found = FALSE
  OBVIOUS
<1> HIDE DEF v
<1>3. \E s \in 0 .. i : /\ RunTo(e, s, i)
                        /\ i - s < n
                        /\ v = [bs |-> IF s = i THEN -1 ELSE s, bc |-> i - s, found |-> FALSE]
  BY <1>1, <1>2
<1>4. ScanIs(e, n, i, v)
  BY <1>2, <1>3 DEF ScanIs
<1> QED BY <1>4 DEF v

(* Before its first turn the loop has seen no run (heap.c:87-88).          *)
LEMMA ScanStarts ==
  ASSUME NEW e, NEW n \in Nat \ {0}
  PROVE  ScanIs(e, n, 0, [bs |-> -1, bc |-> 0, found |-> FALSE])
BY NothingRead DEF RunTo

(* Each turn keeps the loop invariant (heap.c:90-108).                     *)
LEMMA ScanGoesOn ==
  ASSUME NEW e, NEW n \in Nat \ {0}, NEW i \in 1 .. Total, NEW v, ScanIs(e, n, i - 1, v)
  PROVE  ScanIs(e, n, i, ScanStep(e, n, i, v))
<1>0. Total \in Nat \ {0} /\ i \in Nat \ {0} /\ Blocks = 0 .. Total - 1
  BY TotalAssumption DEF Blocks
<1>1. CASE v.found = TRUE
  <2>1. ScanStep(e, n, i, v) = v
    BY <1>1 DEF ScanStep
  <2>2. /\ v.bs \in Blocks /\ v.bs + n <= i - 1 /\ Fits(e, v.bs, n)
        /\ \A t \in 0 .. v.bs - 1 : ~ Fits(e, t, n)
    BY <1>1 DEF ScanIs
  <2>3. v.bs + n <= i
    BY <1>0, <2>2
  <2> QED BY <1>1, <2>1, <2>2, <2>3 DEF ScanIs
<1>2. CASE v.found = FALSE
  <2>1. PICK s \in 0 .. i - 1 :
          /\ RunTo(e, s, i - 1)
          /\ i - 1 - s < n
          /\ v = [bs |-> IF s = i - 1 THEN -1 ELSE s, bc |-> i - 1 - s, found |-> FALSE]
    BY <1>2 DEF ScanIs
  <2>2. \A t \in 0 .. i - 1 : t + n <= i - 1 => ~ Fits(e, t, n)
    BY <1>2 DEF ScanIs
  <2>3. CASE ~ IsFree(e, i - 1)
    <3>1. ScanStep(e, n, i, v) = [bs |-> -1, bc |-> 0, found |-> FALSE]
      BY <1>2, <2>3 DEF ScanStep
    <3>2. RunTo(e, i, i)
      BY <1>0, <2>3 DEF RunTo
    <3>3. ASSUME NEW t \in 0 .. i, t + n <= i PROVE ~ Fits(e, t, n)
      <4>1. t \in 0 .. i - 1 /\ (t + n <= i - 1 \/ i - 1 \in t .. t + n - 1)
        BY <1>0, <3>3
      <4> QED BY <2>2, <2>3, <4>1 DEF Fits
    <3> QED BY <1>0, <3>1, <3>2, <3>3, NothingRead
  <2>4. CASE IsFree(e, i - 1)
    <3> DEFINE w == [bs |-> s, bc |-> i - s, found |-> i - s = n]
    <3>1. ScanStep(e, n, i, v) = w
      <4>1. (IF v.bs = -1 THEN i - 1 ELSE v.bs) = s
        BY <1>0, <2>1
      <4>2. v.bc + 1 = i - s
        BY <1>0, <2>1
      <4>3. ~ v.found
        BY <1>2
      <4> QED BY <2>4, <4>1, <4>2, <4>3, Zenon DEF ScanStep
    <3>2. RunTo(e, s, i)
      BY <1>0, <2>1, <2>4 DEF RunTo
    <3>3. CASE i - s = n
      <4>1. Fits(e, s, n) /\ s + n = i /\ s \in Blocks
        BY <1>0, <3>2, <3>3 DEF Fits, RunTo
      <4>2. \A t \in 0 .. s - 1 : ~ Fits(e, t, n)
        <5> SUFFICES ASSUME NEW t \in 0 .. s - 1, Fits(e, t, n) PROVE FALSE
          OBVIOUS
        <5>1. s > 0 /\ ~ IsFree(e, s - 1) /\ t \in 0 .. i - 1
          BY <1>0, <3>2 DEF RunTo
        <5>2. s - 1 \notin t .. t + n - 1
          BY <5>1 DEF Fits
        <5>3. t + n <= i - 1
          BY <1>0, <4>1, <5>1, <5>2
        <5> QED BY <2>2, <5>1, <5>3
      <4>3. w.found = TRUE /\ w.bs = s
        BY <3>3
      <4> HIDE DEF w
      <4>4. w.bs + n <= i
        BY <1>0, <4>1, <4>3
      <4> QED BY <3>1, <4>1, <4>2, <4>3, <4>4 DEF ScanIs
    <3>4. CASE i - s # n
      <4>1. i - s < n /\ s # i
        BY <1>0, <2>1, <3>4
      <4>2. w = [bs |-> IF s = i THEN -1 ELSE s, bc |-> i - s, found |-> FALSE]
        BY <3>4, <4>1
      <4>3. ASSUME NEW t \in 0 .. i, t + n <= i PROVE ~ Fits(e, t, n)
        <5>1. CASE t + n <= i - 1
          BY <1>0, <2>2, <5>1
        <5>2. CASE t + n = i
          <6>1. t < s /\ s - 1 \in t .. t + n - 1 /\ ~ IsFree(e, s - 1)
            BY <1>0, <3>2, <4>1, <5>2 DEF RunTo
          <6> QED BY <6>1 DEF Fits
        <5> QED BY <1>0, <4>3, <5>1, <5>2
      <4>4. w.found = FALSE
        BY <3>4
      <4>5. s \in 0 .. i
        BY <1>0
      <4> HIDE DEF w
      <4>6. \E r \in 0 .. i : /\ RunTo(e, r, i)
                              /\ i - r < n
                              /\ w = [bs |-> IF r = i THEN -1 ELSE r, bc |-> i - r, found |-> FALSE]
        BY <3>2, <4>1, <4>2, <4>5
      <4> QED BY <3>1, <4>3, <4>4, <4>6 DEF ScanIs
    <3> QED BY <3>3, <3>4
  <2> QED BY <2>3, <2>4
<1> QED BY <1>1, <1>2 DEF ScanIs

(* So the loop invariant holds after the last turn.                        *)
LEMMA ScanHolds ==
  ASSUME NEW e, NEW n \in Nat \ {0}, NEW scan, IsScan(e, n, scan)
  PROVE  ScanIs(e, n, Total, scan[Total])
<1>0. Total \in Nat \ {0}
  BY TotalAssumption
<1> DEFINE T == {i \in Nat : i <= Total => ScanIs(e, n, i, scan[i])}
<1>1. 0 \in T
  <2>1. scan[0] = [bs |-> -1, bc |-> 0, found |-> FALSE]
    BY <1>0 DEF IsScan
  <2> QED BY <2>1, ScanStarts
<1>2. ASSUME NEW i \in Nat, i \in T PROVE i + 1 \in T
  <2> SUFFICES ASSUME i + 1 <= Total PROVE ScanIs(e, n, i + 1, scan[i + 1])
    OBVIOUS
  <2>1. i + 1 \in 0 .. Total /\ i + 1 \in 1 .. Total /\ i + 1 # 0 /\ (i + 1) - 1 = i /\ i <= Total
    BY <1>0
  <2>2. scan[i + 1] = ScanStep(e, n, i + 1, scan[i])
    BY <2>1 DEF IsScan
  <2>3. ScanIs(e, n, i, scan[i])
    BY <1>2, <2>1
  <2> HIDE DEF T
  <2> QED BY <2>1, <2>2, <2>3, ScanGoesOn
<1> HIDE DEF T
<1>3. Nat \subseteq T
  BY <1>1, <1>2, SetInduction
<1> QED BY <1>0, <1>3 DEF T

(* Some function satisfies the equation of the loop. *)
LEMMA ScanExists ==
  ASSUME NEW e, NEW n \in Nat \ {0}
  PROVE  \E scan : scan = [i \in 0 .. Total |-> scan[i]] /\ IsScan(e, n, scan)
<1> DEFINE start == [bs |-> -1, bc |-> 0, found |-> FALSE]
           Solves(f, k) == \A i \in 0 .. k : f[i] = IF i = 0 THEN start ELSE ScanStep(e, n, i, f[i - 1])
           T == {k \in Nat : \E f : Solves(f, k)}
<1>1. 0 \in T
  <2>1. Solves([i \in {0} |-> start], 0)
    OBVIOUS
  <2> QED BY <2>1
<1>2. ASSUME NEW k \in Nat, k \in T PROVE k + 1 \in T
  <2>1. PICK f : Solves(f, k)
    BY <1>2
  <2> DEFINE g == [i \in 0 .. k + 1 |-> IF i = k + 1 THEN ScanStep(e, n, i, f[k]) ELSE f[i]]
  <2>2. ASSUME NEW i \in 0 .. k + 1
        PROVE  g[i] = IF i = 0 THEN start ELSE ScanStep(e, n, i, g[i - 1])
    <3>1. CASE i = 0
      <4>1. i # k + 1 /\ 0 \in 0 .. k
        BY <3>1
      <4>2. g[i] = f[i]
        BY <4>1
      <4>3. f[0] = start
        BY <2>1, <4>1
      <4> QED BY <3>1, <4>2, <4>3
    <3>2. CASE i = k + 1
      <4>1. i # 0 /\ i - 1 = k /\ k \in 0 .. k + 1 /\ k # k + 1
        BY <3>2
      <4>2. g[k] = f[k] /\ g[i] = ScanStep(e, n, i, f[k])
        BY <3>2, <4>1
      <4> HIDE DEF g
      <4> QED BY <4>1, <4>2
    <3>3. CASE i \in 1 .. k
      <4>1. i \in 0 .. k /\ i - 1 \in 0 .. k + 1 /\ i - 1 # k + 1 /\ i # k + 1 /\ i # 0
        BY <3>3
      <4>2. g[i] = f[i] /\ g[i - 1] = f[i - 1]
        BY <4>1
      <4>3. f[i] = ScanStep(e, n, i, f[i - 1])
        BY <2>1, <4>1
      <4> HIDE DEF g
      <4> QED BY <4>1, <4>2, <4>3
    <3> QED BY <3>1, <3>2, <3>3
  <2>3. Solves(g, k + 1)
    <3> HIDE DEF g
    <3> QED BY <2>2
  <2> HIDE DEF Solves, g
  <2> QED BY <2>3
<1>3. Total \in T
  <2> HIDE DEF T
  <2> QED BY <1>1, <1>2, SetInduction, TotalAssumption
<1>4. PICK f : Solves(f, Total)
  BY <1>3
<1> DEFINE h == [i \in 0 .. Total |-> f[i]]
<1>5. \A i \in 0 .. Total : h[i] = f[i]
  OBVIOUS
<1>6. ASSUME NEW i \in 0 .. Total
      PROVE  h[i] = IF i = 0 THEN start ELSE ScanStep(e, n, i, h[i - 1])
  <2>1. i # 0 => i - 1 \in 0 .. Total
    BY TotalAssumption
  <2>2. f[i] = IF i = 0 THEN start ELSE ScanStep(e, n, i, f[i - 1])
    BY <1>4
  <2> HIDE DEF h, Solves, start
  <2> QED BY <1>5, <2>1, <2>2
<1>7. h = [i \in 0 .. Total |-> h[i]]
  OBVIOUS
<1> HIDE DEF h
<1> QED BY <1>6, <1>7 DEF IsScan

(* heap_get_start_block answers the bs of a search that went through the   *)
(* table (heap.c:110-115).                                                 *)
LEMMA ScanResult ==
  ASSUME NEW e, NEW n \in Nat \ {0}
  PROVE  \E v : ScanIs(e, n, Total, v) /\ heap_get_start_block(e, n) = v.bs
<1> DEFINE start == [bs |-> -1, bc |-> 0, found |-> FALSE]
           Body(f) == [i \in 0 .. Total |-> IF i = 0 THEN start ELSE ScanStep(e, n, i, f[i - 1])]
           scan == CHOOSE f : f = Body(f)
<1>1. heap_get_start_block(e, n) = scan[Total].bs
  BY Zenon DEF heap_get_start_block, ScanStep
<1>2. \E f : f = Body(f)
  <2>1. PICK f : f = [i \in 0 .. Total |-> f[i]] /\ IsScan(e, n, f)
    BY ScanExists
  <2>2. \A i \in 0 .. Total : f[i] = IF i = 0 THEN start ELSE ScanStep(e, n, i, f[i - 1])
    BY <2>1 DEF IsScan
  <2>3. [i \in 0 .. Total |-> f[i]] = Body(f)
    BY <2>2, Zenon
  <2> QED BY <2>1, <2>3
<1>3. scan = Body(scan)
  <2> HIDE DEF Body
  <2> QED BY <1>2
<1> HIDE DEF scan
<1>4. IsScan(e, n, scan)
  <2>1. \A i \in 0 .. Total : scan[i] = Body(scan)[i]
    BY <1>3, Zenon
  <2> QED BY <2>1 DEF IsScan
<1> QED BY <1>1, <1>4, ScanHolds

(* The search of the actions and the loop of the code find the same block. *)
LEMMA ScanIsSearch ==
  ASSUME NEW e, NEW n \in Nat \ {0}
  PROVE  LET start == heap_get_start_block(e, n)
         IN  /\ start \in Blocks \cup {-1}
             /\ \A s \in Blocks : IsStartBlock(e, s, n) <=> start = s
<1>0. Total \in Nat \ {0} /\ Blocks = 0 .. Total - 1
  BY TotalAssumption DEF Blocks
<1>1. PICK v : ScanIs(e, n, Total, v) /\ heap_get_start_block(e, n) = v.bs
  BY ScanResult
<1>2. CASE v.found = TRUE
  <2>1. v.bs \in Blocks /\ Fits(e, v.bs, n) /\ \A t \in 0 .. v.bs - 1 : ~ Fits(e, t, n)
    BY <1>1, <1>2 DEF ScanIs
  <2>2. IsStartBlock(e, v.bs, n)
    BY <2>1 DEF IsStartBlock
  <2>3. ASSUME NEW s \in Blocks, IsStartBlock(e, s, n) PROVE v.bs = s
    <3>1. Fits(e, s, n) /\ \A t \in 0 .. s - 1 : ~ Fits(e, t, n)
      BY <2>1, <2>3 DEF IsStartBlock
    <3>2. v.bs \notin 0 .. s - 1 /\ s \notin 0 .. v.bs - 1
      BY <2>1, <3>1
    <3> QED BY <1>0, <2>1, <3>2
  <2> QED BY <1>1, <2>1, <2>2, <2>3
<1>3. CASE v.found = FALSE
  <2>1. PICK r \in 0 .. Total : /\ RunTo(e, r, Total)
                               /\ v = [bs |-> IF r = Total THEN -1 ELSE r, bc |-> Total - r, found |-> FALSE]
    BY <1>1, <1>3 DEF ScanIs
  <2>2. \A t \in Blocks : ~ Fits(e, t, n)
    <3>1. \A t \in 0 .. Total : t + n <= Total => ~ Fits(e, t, n)
      BY <1>1, <1>3 DEF ScanIs
    <3> QED BY <1>0, <3>1 DEF Fits
  <2>3. v.bs = IF r = Total THEN -1 ELSE r
    BY <2>1
  <2>4. ASSUME NEW s \in Blocks
        PROVE  IsStartBlock(e, s, n) <=> s = r
    <3>1. IsStartBlock(e, s, n)
            <=> /\ \A b \in s .. Total - 1 : IsFree(e, b)
                /\ s > 0 => ~ IsFree(e, s - 1)
      BY <2>2 DEF IsStartBlock
    <3>2. CASE s = r
      BY <2>1, <3>1, <3>2 DEF RunTo
    <3>3. CASE s < r
      <4>1. r - 1 \in s .. Total - 1 /\ ~ IsFree(e, r - 1)
        BY <1>0, <2>1, <3>3 DEF RunTo
      <4> QED BY <1>0, <3>1, <3>3, <4>1
    <3>4. CASE s > r
      <4>1. s - 1 \in r .. Total - 1 /\ IsFree(e, s - 1) /\ s > 0
        BY <1>0, <2>1, <3>4 DEF RunTo
      <4> QED BY <1>0, <3>1, <3>4, <4>1
    <3> QED BY <1>0, <3>2, <3>3, <3>4
  <2> QED BY <1>0, <1>1, <2>3, <2>4
<1> QED BY <1>1, <1>2, <1>3 DEF ScanIs

-----------------------------------------------------------------------------
(* A table in agreement with the allocations hs, none of them empty.       *)

Proper(h) == h.start \in Blocks /\ TotalBlocks(h.size) \in Nat \ {0}

IsTable(e, hs) ==
  /\ e \in [Blocks -> Entry]
  /\ \A h \in hs : Proper(h)
  /\ Apart(hs)
  /\ HeldIsMarked(e, hs)
  /\ MarkedIsHeld(e, hs)

(* heap_create makes a table that matches an empty set of allocations      *)
(* (heap.c:53).                                                            *)
LEMMA FreshTable == IsTable([b \in Blocks |-> FreeEntry], {})
BY DEF IsTable, Apart, HeldIsMarked, MarkedIsHeld, Entry, FreeEntry

(* An extent begins in the pool, and one that leaves the pool has its last *)
(* block.                                                                  *)
LEMMA ExtentFacts ==
  ASSUME NEW h, Proper(h)
  PROVE  /\ h.start \in Extent(h) \cap Blocks
         /\ \A b \in Extent(h) : b \in Int /\ b >= h.start
         /\ \A b \in Extent(h) \ Blocks : Total - 1 \in Extent(h) \cap Blocks
BY TotalAssumption DEF Proper, Extent, Blocks

(* Whichever disjunct of the search applies, the blocks of the table that  *)
(* Marked marks are free (heap_get_start_block, heap.c:83).                *)
LEMMA StartIsFree ==
  ASSUME NEW e, NEW n \in Nat \ {0}, NEW s \in Blocks, IsStartBlock(e, s, n)
  PROVE  \A b \in (s .. s + n - 1) \cap Blocks : IsFree(e, b)
<1>1. CASE Fits(e, s, n)
  BY <1>1 DEF Fits
<1>2. CASE \A b \in s .. Total - 1 : IsFree(e, b)
  BY <1>2, TotalAssumption DEF Blocks
<1> QED BY <1>1, <1>2 DEF IsStartBlock

(* The chain heap_mark_blocks_free follows from the first block of an      *)
(* allocation is its extent (heap.c:168).                                  *)
LEMMA ChainIsExtent ==
  ASSUME NEW e, NEW hs, IsTable(e, hs), NEW h \in hs
  PROVE  Chain(e, h.start) = Extent(h) \cap Blocks
<1> DEFINE n == TotalBlocks(h.size)
           s == h.start
<1>1. n \in Nat \ {0} /\ s \in Blocks /\ s \in Int
  BY DEF IsTable, Proper, Blocks
<1>2. Extent(h) = s .. s + n - 1
  BY DEF Extent
<1>3. \A b \in Extent(h) \cap Blocks : e[b].next <=> b # s + n - 1
  BY DEF IsTable, HeldIsMarked
<1> HIDE DEF n, s
<1>4. ASSUME NEW b \in Blocks, b \in Extent(h)
      PROVE  b \in Chain(e, s)
  <2>1. \A c \in s .. b - 1 : c \in Extent(h) \cap Blocks /\ c # s + n - 1
    BY <1>1, <1>2, <1>4, TotalAssumption DEF Blocks
  <2>2. \A c \in s .. b - 1 : e[c].next
    BY <1>3, <2>1
  <2>3. b >= s
    BY <1>1, <1>2, <1>4
  <2> QED BY <2>2, <2>3 DEF Chain
<1>5. ASSUME NEW b \in Blocks, b \in Chain(e, s)
      PROVE  b \in Extent(h)
  <2>1. SUFFICES ASSUME b > s + n - 1 PROVE FALSE
    BY <1>1, <1>2, <1>5 DEF Chain, Blocks
  <2>2. s + n - 1 \in Extent(h) \cap Blocks /\ s + n - 1 \in s .. b - 1
    BY <1>1, <1>2, <1>5, <2>1, TotalAssumption DEF Blocks
  <2>3. e[s + n - 1].next
    BY <1>5, <2>2 DEF Chain
  <2> QED BY <1>3, <2>2, <2>3
<1> QED BY <1>4, <1>5 DEF Chain, s

(* heap_mark_blocks_taken where the search found a block.                  *)
LEMMA AllocationKeepsTable ==
  ASSUME NEW e, NEW hs, IsTable(e, hs), NEW new, Proper(new),
         IsStartBlock(e, new.start, TotalBlocks(new.size))
  PROVE  /\ IsTable(Marked(e, new.start, TotalBlocks(new.size)), hs \cup {new})
         /\ \A h \in hs : Extent(h) \cap Extent(new) = {}
         /\ PastTheEnd(new.start, TotalBlocks(new.size)) \subseteq Int \ Blocks
<1> DEFINE n == TotalBlocks(new.size)
           s == new.start
           marked == Marked(e, s, n)
<1>1. n \in Nat \ {0} /\ s \in Blocks /\ s \in Int
  BY DEF Proper, Blocks
<1>2. Extent(new) = s .. s + n - 1
  BY DEF Extent
<1>3. \A b \in Extent(new) \cap Blocks : IsFree(e, b)
  BY <1>1, <1>2, StartIsFree
<1>4. \A h \in hs : Extent(h) \cap Extent(new) = {}
  <2> SUFFICES ASSUME NEW h \in hs, NEW b \in Extent(h), b \in Extent(new)
               PROVE  FALSE
    OBVIOUS
  <2>1. PICK c \in Blocks : c \in Extent(h) /\ c \in Extent(new)
    BY ExtentFacts DEF IsTable
  <2>2. ~ IsFree(e, c)
    BY <2>1 DEF IsTable, HeldIsMarked, IsFree
  <2> QED BY <1>3, <2>1, <2>2
<1>5. marked = [b \in Blocks |-> IF b \in Extent(new)
                                THEN [taken |-> TRUE, first |-> b = s, next |-> b # s + n - 1]
                                ELSE e[b]]
  BY <1>2 DEF Marked
<1>6. PastTheEnd(s, n) \subseteq Int \ Blocks
  BY <1>1, TotalAssumption DEF PastTheEnd, Blocks
<1>7. HeldIsMarked(marked, hs \cup {new})
  <2> SUFFICES ASSUME NEW h \in hs \cup {new}, NEW b \in Extent(h) \cap Blocks
               PROVE  /\ marked[b].taken
                      /\ marked[b].first <=> b = h.start
                      /\ marked[b].next <=> b # h.start + TotalBlocks(h.size) - 1
    BY DEF HeldIsMarked
  <2> HIDE DEF marked
  <2>1. CASE h = new
    <3>1. s = h.start /\ n = TotalBlocks(h.size) /\ b \in Extent(new) /\ b \in Blocks
      BY <2>1
    <3> HIDE DEF s, n
    <3>2. marked[b].taken /\ (marked[b].first <=> b = s) /\ (marked[b].next <=> b # s + n - 1)
      BY <1>5, <3>1
    <3> QED BY <3>1, <3>2
  <2>2. CASE h \in hs
    <3>1. marked[b] = e[b]
      BY <1>4, <1>5, <2>2
    <3> QED BY <2>2, <3>1 DEF IsTable, HeldIsMarked
  <2> QED BY <2>1, <2>2
<1>8. MarkedIsHeld(marked, hs \cup {new})
  BY <1>5 DEF IsTable, MarkedIsHeld
<1>9. marked \in [Blocks -> Entry]
  <2>1. \A b \in Blocks : [taken |-> TRUE, first |-> b = s, next |-> b # s + n - 1] \in Entry
    BY DEF Entry
  <2>2. e \in [Blocks -> Entry]
    BY DEF IsTable
  <2> HIDE DEF marked
  <2> QED BY <1>5, <2>1, <2>2
<1>10. Apart(hs \cup {new})
  BY <1>4 DEF IsTable, Apart
<1>11. \A h \in hs \cup {new} : Proper(h)
  BY DEF IsTable
<1> QED BY <1>4, <1>6, <1>7, <1>8, <1>9, <1>10, <1>11 DEF IsTable

(* heap_mark_blocks_free from the first block of an allocation.            *)
LEMMA FreeKeepsTable ==
  ASSUME NEW e, NEW hs, IsTable(e, hs), NEW h \in hs
  PROVE  /\ IsTable(Cleared(e, h.start), hs \ {h})
         /\ Cleared(e, h.start) = [b \in Blocks |-> IF b \in Extent(h) THEN FreeEntry ELSE e[b]]
         /\ {g \in hs : g.start # h.start} = hs \ {h}
<1> DEFINE cleared == Cleared(e, h.start)
<1>1. cleared = [b \in Blocks |-> IF b \in Extent(h) THEN FreeEntry ELSE e[b]]
  BY ChainIsExtent DEF Cleared
<1>2. \A g \in hs \ {h} : Extent(g) \cap Extent(h) = {}
  BY DEF IsTable, Apart
<1>3. HeldIsMarked(cleared, hs \ {h})
  BY <1>1, <1>2 DEF IsTable, HeldIsMarked
<1>4. MarkedIsHeld(cleared, hs \ {h})
  BY <1>1 DEF IsTable, MarkedIsHeld
<1>5. cleared \in [Blocks -> Entry]
  BY <1>1 DEF IsTable, Entry, FreeEntry
<1>6. {g \in hs : g.start # h.start} = hs \ {h}
  <2>1. \A g \in hs : g.start \in Extent(g)
    BY ExtentFacts DEF IsTable
  <2> QED BY <1>2, <2>1
<1> QED BY <1>1, <1>3, <1>4, <1>5, <1>6 DEF IsTable, Apart
==============================================================================
