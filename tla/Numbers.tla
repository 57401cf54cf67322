------------------------------ MODULE Numbers -------------------------------
(***************************************************************************)
(* Facts about the natural numbers that the proofs of the components share:*)
(* least elements, induction over a set of numbers, division.              *)
(***************************************************************************)
EXTENDS Integers, WellFoundedInduction, TLAPS

(* A set of natural numbers has a least one: what the searches for a free  *)
(* slot or for the first process find (process.c:478, :149).               *)
LEMMA LeastNumber ==
  ASSUME NEW S \in SUBSET Nat, S # {}
  PROVE  \E m \in S : \A k \in S : m <= k
<1> DEFINE R == {pair \in Nat \X Nat : pair[1] < pair[2]}
<1>1. IsWellFoundedOn(R, Nat)
  BY NatLessThanWellFounded, Zenon DEF OpToRel
<1>2. PICK x \in S : \A y \in S : ~ (<<y, x>> \in R)
  BY <1>1, WFMin, Zenon
<1>3. \A y \in S : ~ (y < x)
  BY <1>2
<1> QED BY <1>3

(* Induction, of a set that is closed under the step.                      *)
LEMMA SetInduction ==
  ASSUME NEW T, 0 \in T, \A n \in Nat : n \in T => n + 1 \in T
  PROVE  Nat \subseteq T
<1> SUFFICES ASSUME Nat \ T # {} PROVE FALSE
  OBVIOUS
<1>1. PICK m \in Nat \ T : \A k \in Nat \ T : m <= k
  BY LeastNumber
<1>2. m # 0 /\ m - 1 \in Nat /\ m - 1 \in T
  BY <1>1
<1> QED BY <1>2

Iterates(f, n, start, step) ==
  f = [i \in 0 .. n |-> IF i = 0 THEN start ELSE step[i][f[i - 1]]]

(* A function that is defined step by step, each from the one before it,   *)
(* exists.                                                                 *)
LEMMA IterationExists ==
  ASSUME NEW n \in Nat, NEW start, NEW step
  PROVE  \E f : Iterates(f, n, start, step)
<1> DEFINE Solves(f, k) == \A i \in 0 .. k : f[i] = IF i = 0 THEN start ELSE step[i][f[i - 1]]
           T == {k \in Nat : \E f : Solves(f, k)}
<1>1. 0 \in T
  <2>1. Solves([i \in {0} |-> start], 0)
    OBVIOUS
  <2> QED BY <2>1
<1>2. ASSUME NEW k \in Nat, k \in T PROVE k + 1 \in T
  <2>1. PICK f : Solves(f, k)
    BY <1>2
  <2> DEFINE g == [i \in 0 .. k + 1 |-> IF i = k + 1 THEN step[i][f[k]] ELSE f[i]]
  <2>2. ASSUME NEW i \in 0 .. k + 1
        PROVE  g[i] = IF i = 0 THEN start ELSE step[i][g[i - 1]]
    <3>1. CASE i \in 0 .. k
      <4>1. /\ g[i] = f[i] /\ (i # 0 => g[i - 1] = f[i - 1])
        BY <3>1
      <4>2. f[i] = IF i = 0 THEN start ELSE step[i][f[i - 1]]
        BY <2>1, <3>1
      <4> HIDE DEF g
      <4> QED BY <4>1, <4>2
    <3>2. CASE i = k + 1
      <4>1. g[i] = step[i][f[k]] /\ g[i - 1] = f[k] /\ i # 0
        BY <3>2
      <4> HIDE DEF g
      <4> QED BY <4>1
    <3> QED BY <3>1, <3>2
  <2>3. Solves(g, k + 1)
    <3> HIDE DEF g
    <3> QED BY <2>2
  <2> HIDE DEF Solves, g
  <2> QED BY <2>3
<1>3. n \in T
  <2> HIDE DEF T
  <2> QED BY <1>1, <1>2, SetInduction
<1>4. PICK f : Solves(f, n)
  BY <1>3
<1> DEFINE h == [i \in 0 .. n |-> f[i]]
<1>5. ASSUME NEW i \in 0 .. n
      PROVE  f[i] = IF i = 0 THEN start ELSE step[i][h[i - 1]]
  <2>1. i # 0 => h[i - 1] = f[i - 1]
    OBVIOUS
  <2> HIDE DEF h
  <2> QED BY <1>4, <2>1
<1>6. h = [i \in 0 .. n |-> IF i = 0 THEN start ELSE step[i][h[i - 1]]]
  <2> HIDE DEF Solves
  <2>1. \A i \in 0 .. n : f[i] = IF i = 0 THEN start ELSE step[i][h[i - 1]]
    BY <1>5
  <2> QED BY <2>1, Zenon
<1> HIDE DEF h, Solves
<1> QED BY <1>6 DEF Iterates

(* It stays in a set that its steps do not leave. *)
LEMMA Iteration ==
  ASSUME NEW S, NEW n \in Nat, NEW start \in S, NEW step,
         \A i \in 1 .. n : \A v \in S : step[i][v] \in S
  PROVE  \E f : Iterates(f, n, start, step) /\ \A i \in 0 .. n : f[i] \in S
<1>1. PICK f : Iterates(f, n, start, step)
  BY IterationExists
<1>2. \A i \in 0 .. n : f[i] = IF i = 0 THEN start ELSE step[i][f[i - 1]]
  BY <1>1, Zenon DEF Iterates
<1> DEFINE T == {k \in Nat : k <= n => f[k] \in S}
<1>3. 0 \in T
  BY <1>2
<1>4. ASSUME NEW k \in Nat, k \in T PROVE k + 1 \in T
  <2> SUFFICES ASSUME k + 1 <= n PROVE f[k + 1] \in S
    OBVIOUS
  <2>1. f[k] \in S /\ k + 1 \in 1 .. n /\ k + 1 \in 0 .. n /\ k + 1 # 0 /\ (k + 1) - 1 = k
    BY <1>4
  <2>2. f[k + 1] = step[k + 1][f[k]]
    BY <1>2, <2>1
  <2> QED BY <2>1, <2>2
<1>5. Nat \subseteq T
  <2> HIDE DEF T
  <2> QED BY <1>3, <1>4, SetInduction
<1> QED BY <1>1, <1>5

(* What each step keeps holds of every value on the way. *)
LEMMA Stepwise ==
  ASSUME NEW n \in Nat, NEW f, NEW inv, f[0] \in inv[0],
         \A i \in 1 .. n : f[i - 1] \in inv[i - 1] => f[i] \in inv[i]
  PROVE  \A i \in 0 .. n : f[i] \in inv[i]
<1> DEFINE T == {i \in Nat : i <= n => f[i] \in inv[i]}
<1>1. 0 \in T
  OBVIOUS
<1>2. ASSUME NEW i \in Nat, i \in T PROVE i + 1 \in T
  <2> SUFFICES ASSUME i + 1 <= n PROVE f[i + 1] \in inv[i + 1]
    OBVIOUS
  <2>1. i + 1 \in 1 .. n /\ (i + 1) - 1 = i /\ f[i] \in inv[i]
    BY <1>2
  <2> QED BY <2>1
<1>3. Nat \subseteq T
  <2> HIDE DEF T
  <2> QED BY <1>1, <1>2, SetInduction
<1> QED BY <1>3

(* Induction up to a bound, from all that is below. *)
LEMMA BoundedInduction ==
  ASSUME NEW n \in Nat, NEW T, \A k \in 0 .. n : (\A j \in 0 .. k - 1 : j \in T) => k \in T
  PROVE  0 .. n \subseteq T
<1> SUFFICES ASSUME (0 .. n) \ T # {} PROVE FALSE
  OBVIOUS
<1>0. (0 .. n) \ T \subseteq Nat
  OBVIOUS
<1>1. PICK m \in (0 .. n) \ T : \A k \in (0 .. n) \ T : m <= k
  BY <1>0, LeastNumber
<1>2. \A j \in 0 .. m - 1 : j \in T
  BY <1>1
<1> QED BY <1>1, <1>2

(* A set of numbers that has a bound has a greatest one. *)
LEMMA GreatestNumber ==
  ASSUME NEW n \in Nat, NEW S \in SUBSET (0 .. n), S # {}
  PROVE  \E m \in S : \A k \in S : k <= m
<1> DEFINE D == {k \in 0 .. n : n - k \in S}
<1>1. D # {} /\ D \subseteq Nat
  <2>1. PICK k \in S : TRUE
    OBVIOUS
  <2>2. k \in 0 .. n /\ n - k \in 0 .. n /\ n - (n - k) = k
    BY <2>1
  <2>3. n - k \in D
    BY <2>1, <2>2
  <2>4. D \subseteq Nat
    OBVIOUS
  <2> HIDE DEF D
  <2> QED BY <2>3, <2>4
<1>2. PICK m \in D : \A k \in D : m <= k
  BY <1>1, LeastNumber
<1>3. n - m \in S /\ \A k \in S : n - k \in D
  OBVIOUS
<1>4. \A k \in S : k <= n - m
  BY <1>2, <1>3
<1> QED BY <1>3, <1>4

-----------------------------------------------------------------------------
(* The remainder is the only one below the divisor.                        *)
LEMMA SmallRemainder ==
  ASSUME NEW b \in Nat \ {0}, NEW q \in Int, NEW r \in 0 .. b - 1
  PROVE  (b * q + r) % b = r
OBVIOUS

(* Multiples of the divisor do not change a remainder.                     *)
LEMMA RemainderShift ==
  ASSUME NEW b \in Nat \ {0}, NEW a \in Int, NEW k \in Int
  PROVE  (a + b * k) % b = a % b
<1> DEFINE q == a \div b
           r == a % b
<1>1. a = b * q + r /\ r \in 0 .. b - 1 /\ q \in Int
  OBVIOUS
<1> HIDE DEF q, r
<1>2. a + b * k = b * (q + k) + r /\ q + k \in Int
  <2>1. b * (q + k) = b * q + b * k
    BY <1>1
  <2> QED BY <1>1, <2>1
<1>3. (a + b * k) % b = r
  BY <1>1, <1>2, SmallRemainder
<1> QED BY <1>3 DEF r

(* Nor does the divisor itself.                                            *)
LEMMA NextMultiple ==
  ASSUME NEW b \in Nat \ {0}, NEW a \in Int
  PROVE  (a + b) % b = a % b
<1> DEFINE q == a \div b
           r == a % b
<1>1. a = b * q + r /\ r \in 0 .. b - 1 /\ q \in Int
  OBVIOUS
<1> HIDE DEF q, r
<1>2. a + b = b * (q + 1) + r /\ q + 1 \in Int
  BY <1>1
<1>3. (b * (q + 1) + r) % b = r
  BY <1>1, <1>2, SmallRemainder
<1> QED BY <1>2, <1>3 DEF r

(* A remainder taken before makes no difference, nor one modulo a multiple.*)
LEMMA RemainderOfSum ==
  ASSUME NEW b \in Nat \ {0}, NEW a \in Int, NEW c \in Int
  PROVE  ((a % b) + c) % b = (a + c) % b
<1> DEFINE q == a \div b
           r == a % b
<1>1. a = b * q + r /\ r \in 0 .. b - 1 /\ q \in Int
  OBVIOUS
<1> HIDE DEF q, r
<1>2. a + c = (r + c) + b * q /\ r + c \in Int
  BY <1>1
<1>3. ((r + c) + b * q) % b = (r + c) % b
  BY <1>1, <1>2, RemainderShift
<1>4. (a + c) % b = (r + c) % b
  BY <1>2, <1>3
<1> QED BY <1>4 DEF r

(* A sum may be reduced by a multiple of the divisor first: a counter that *)
(* wraps at b * m still counts modulo b.                                   *)
LEMMA RemainderOfMultiple ==
  ASSUME NEW b \in Nat \ {0}, NEW m \in Nat \ {0}, NEW a \in Int, NEW c \in Int
  PROVE  (c + (a % (b * m))) % b = (c + a) % b
<1> DEFINE w == b * m
           q == a \div w
           r == a % w
<1>1. w \in Nat \ {0}
  OBVIOUS
<1> HIDE DEF w
<1>2. a = w * q + r /\ r \in 0 .. w - 1 /\ q \in Int
  BY <1>1
<1> HIDE DEF q, r
<1>3. c + r = (c + a) + b * (m * (- q)) /\ m * (- q) \in Int
  <2>1. w * q = - (b * (m * (- q))) /\ m * (- q) \in Int
    BY <1>2 DEF w
  <2> QED BY <1>2, <2>1
<1> DEFINE d == c + a
<1>4. PICK k \in Int : c + r = d + b * k
  BY <1>3
<1>5. d \in Int
  OBVIOUS
<1> HIDE DEF d
<1>6. (c + r) % b = d % b
  BY <1>4, <1>5, RemainderShift
<1> QED BY <1>6 DEF r, w, d

(* The same for a difference.                                              *)
LEMMA RemainderOfDifference ==
  ASSUME NEW b \in Nat \ {0}, NEW m \in Nat \ {0}, NEW a \in Int, NEW c \in Int
  PROVE  (c - (a % (b * m))) % b = (c - a) % b
<1> DEFINE w == b * m
           q == a \div w
           r == a % w
<1>1. w \in Nat \ {0}
  OBVIOUS
<1> HIDE DEF w
<1>2. a = w * q + r /\ r \in 0 .. w - 1 /\ q \in Int
  BY <1>1
<1> HIDE DEF q, r
<1>3. c - r = (c - a) + b * (m * q) /\ m * q \in Int
  <2>1. w * q = b * (m * q) /\ m * q \in Int
    BY <1>2 DEF w
  <2> QED BY <1>2, <2>1
<1> DEFINE d == c - a
<1>4. PICK k \in Int : c - r = d + b * k
  BY <1>3
<1>5. d \in Int
  OBVIOUS
<1> HIDE DEF d
<1>6. (c - r) % b = d % b
  BY <1>4, <1>5, RemainderShift
<1> QED BY <1>6 DEF r, w, d

(* A place of a ring of b cells, and how far it is from place h.           *)
LEMMA Around ==
  ASSUME NEW b \in Nat \ {0}, NEW h \in Int, NEW i \in 0 .. b - 1
  PROVE  /\ (i - h) % b \in 0 .. b - 1 /\ (h + i) % b \in 0 .. b - 1
         /\ (h + ((i - h) % b)) % b = i
         /\ (((h + i) % b) - h) % b = i
<1>1. i % b = i
  OBVIOUS
<1>2. (((i - h) % b) + h) % b = i
  <2> DEFINE d == i - h
  <2>1. d \in Int /\ d + h = i
    OBVIOUS
  <2> HIDE DEF d
  <2>2. ((d % b) + h) % b = (d + h) % b
    BY <2>1, RemainderOfSum
  <2> QED BY <1>1, <2>1, <2>2 DEF d
<1>3. (((h + i) % b) + (- h)) % b = i
  <2> DEFINE d == h + i
             e == - h
  <2>1. d \in Int /\ e \in Int /\ d + e = i
    OBVIOUS
  <2> HIDE DEF d, e
  <2>2. ((d % b) + e) % b = (d + e) % b
    BY <2>1, RemainderOfSum
  <2> QED BY <1>1, <2>1, <2>2 DEF d, e
<1>4. (i - h) % b \in 0 .. b - 1 /\ (h + i) % b \in 0 .. b - 1
  OBVIOUS
<1>5. ((i - h) % b) + h = h + ((i - h) % b) /\ ((h + i) % b) + (- h) = ((h + i) % b) - h
  BY <1>4
<1> QED BY <1>2, <1>3, <1>4, <1>5

(* A counter that goes up, one that goes down.                             *)
LEMMA OneMore ==
  ASSUME NEW b \in Nat \ {0}, NEW a \in Int, (a % b) + 1 < b
  PROVE  (a + 1) % b = (a % b) + 1
<1> DEFINE q == a \div b
           r == a % b
<1>1. a = b * q + r /\ r \in 0 .. b - 1 /\ q \in Int /\ r + 1 < b
  OBVIOUS
<1> HIDE DEF q, r
<1>2. a + 1 = b * q + (r + 1) /\ r + 1 \in 0 .. b - 1
  BY <1>1
<1>3. (b * q + (r + 1)) % b = r + 1
  BY <1>1, <1>2, SmallRemainder
<1> QED BY <1>2, <1>3 DEF r

(* Taking one away from a number, as seen in its remainder.                *)
LEMMA OneLess ==
  ASSUME NEW b \in Nat \ {0}, NEW a \in Int
  PROVE  (a - 1) % b = IF a % b = 0 THEN b - 1 ELSE (a % b) - 1
<1> DEFINE q == a \div b
           r == a % b
<1>1. a = b * q + r /\ r \in 0 .. b - 1 /\ q \in Int
  OBVIOUS
<1> HIDE DEF q, r
<1>2. CASE r = 0
  <2>1. a - 1 = b * (q - 1) + (b - 1) /\ q - 1 \in Int /\ b - 1 \in 0 .. b - 1
    BY <1>1, <1>2
  <2>2. (b * (q - 1) + (b - 1)) % b = b - 1
    BY <2>1, SmallRemainder
  <2> QED BY <1>2, <2>1, <2>2 DEF r
<1>3. CASE r > 0
  <2>1. a - 1 = b * q + (r - 1) /\ r - 1 \in 0 .. b - 1
    BY <1>1, <1>3
  <2>2. (b * q + (r - 1)) % b = r - 1
    BY <1>1, <2>1, SmallRemainder
  <2> QED BY <1>3, <2>1, <2>2 DEF r
<1> QED BY <1>1, <1>2, <1>3

(* The numbers that follow one in the same part of a range cut into equal  *)
(* parts, and the first of the next.                                       *)
LEMMA SamePart ==
  ASSUME NEW b \in Nat \ {0}, NEW a \in Int, NEW k \in Nat, (a % b) + k < b
  PROVE  (a + k) % b = (a % b) + k /\ (a + k) \div b = a \div b
<1> DEFINE q == a \div b
           r == a % b
<1>1. a = b * q + r /\ r \in 0 .. b - 1 /\ q \in Int
  OBVIOUS
<1> HIDE DEF q, r
<1>2. r + k \in 0 .. b - 1
  BY <1>1 DEF r
<1>3. a + k = b * q + (r + k)
  BY <1>1
<1>4. (b * q + (r + k)) % b = r + k /\ (b * q + (r + k)) \div b = q
  BY <1>1, <1>2
<1> QED BY <1>3, <1>4 DEF q, r
==============================================================================
