---------------------------- MODULE Memory_proofs ----------------------------
(***************************************************************************)
(* Proofs about the allocators of memory, for any sizes and any calls: the *)
(* allocations of the kernel heap never overlap and its counters are       *)
(* exact; the bitmap of the physical memory manager is exact from boot on, *)
(* for any aligned memory map, and frames reach their next owner zeroed;   *)
(* the lists stay rings, the hash table is exact and iterations complete.  *)
(***************************************************************************)
EXTENDS ZeroWorker, Heap, HashTable, WellFoundedInduction, SequenceTheorems, FiniteSetTheorems, TLAPS

----------------------------------------------------------------------------
\* Numbers

\* Every set of numbers has a least element; induction over numbers in the form the
\* provers can use.
LEMMA Least ==
    ASSUME NEW T, T \subseteq Nat, T # {}
    PROVE  \E x \in T : \A y \in T : x <= y
<1> DEFINE R == {ss \in Nat \X Nat : ss[1] < ss[2]}
<1>1. IsWellFoundedOn(R, Nat)
  BY NatLessThanWellFounded DEF OpToRel
<1> HIDE DEF R
<1>2. PICK x \in T : \A y \in T : ~ (<<y, x>> \in R)
  BY <1>1, WFMin
<1>3. ASSUME NEW y \in T
      PROVE  x <= y
  <2>1. x \in Nat /\ y \in Nat /\ <<y, x>> \notin R
    BY <1>2
  <2>2. ~(y < x)
    BY <2>1 DEF R
  <2> QED
    BY <2>1, <2>2
<1> QED
  BY <1>3

\* Finitely many numbers have a greatest one.
LEMMA GreatestOf ==
    ASSUME NEW n \in Nat, NEW g, \A i \in 1 .. n : g[i] \in Nat
    PROVE  \E m \in {0} \cup {g[i] : i \in 1 .. n} : m \in Nat /\ \A i \in 1 .. n : g[i] <= m
<1> DEFINE Values(k) == {0} \cup {g[i] : i \in 1 .. k}
           Bounded(k) == \E m \in Values(k) : m \in Nat /\ \A i \in 1 .. k : g[i] <= m
           Bad == {k \in 0 .. n : ~Bounded(k)}
<1>1. SUFFICES ASSUME ~Bounded(n)
               PROVE  FALSE
  OBVIOUS
<1>2. Bad \subseteq Nat /\ n \in Bad
  BY <1>1
<1>3. PICK k \in Bad : \A j \in Bad : k <= j
  BY <1>2, Least
<1>4. k \in 0 .. n /\ ~Bounded(k)
  OBVIOUS
<1>5. Bounded(0)
  OBVIOUS
<1>6. k \in 1 .. n
  BY <1>4, <1>5
<1>7. Bounded(k - 1)
  <2>1. k - 1 \in 0 .. n /\ ~(k <= k - 1)
    BY <1>6
  <2> QED
    BY <1>3, <2>1
<1>8. PICK m \in Values(k - 1) : m \in Nat /\ \A i \in 1 .. k - 1 : g[i] <= m
  BY <1>7
<1>9. \A i \in 1 .. k : i = k \/ i \in 1 .. k - 1
  BY <1>6
<1>10. 1 .. k - 1 \subseteq 1 .. k /\ g[k] \in Nat /\ k \in 1 .. k
  BY <1>6
<1>11. CASE g[k] <= m
  <2>1. m \in Values(k)
    BY <1>8, <1>10
  <2> QED
    BY <1>4, <1>8, <1>9, <1>11, <2>1
<1>12. CASE m < g[k]
  <2>1. g[k] \in Values(k)
    BY <1>10
  <2>2. \A i \in 1 .. k : g[i] <= g[k]
    <3>1. ASSUME NEW i \in 1 .. k - 1
          PROVE  g[i] <= g[k]
      <4>1. g[i] <= m /\ g[i] \in Nat
        <5>1. i \in 1 .. n
          BY <1>6
        <5> QED
          BY <1>8, <5>1
      <4> QED
        BY <1>8, <1>10, <1>12, <4>1
    <3> QED
      BY <1>9, <1>10, <3>1
  <2> QED
    BY <1>4, <1>10, <2>1, <2>2
<1> QED
  BY <1>8, <1>10, <1>11, <1>12

\* What DIV and MOD give.
LEMMA Division ==
    ASSUME NEW a \in Nat, NEW p \in Nat \ {0}
    PROVE  a \div p \in Nat /\ a % p \in 0 .. p - 1 /\ a = p * (a \div p) + (a % p)
  OBVIOUS

\* A multiple divided by its factor.
LEMMA FrameOfAddress ==
    ASSUME NEW f \in Nat, NEW p \in Nat \ {0}
    PROVE  /\ (f * p) \div p = f
           /\ f * p = 0 => f = 0
<1> DEFINE a == f * p
<1>1. a \in Nat /\ a = p * f
  OBVIOUS
<1>2. a \div p \in Nat /\ a = p * (a \div p) + (a % p) /\ a % p \in 0 .. p - 1
  BY <1>1
<1>3. PICK q \in Nat, r \in 0 .. p - 1 : q = a \div p /\ a = p * q + r
  BY <1>2
<1>4. p * f = p * q + r
  BY <1>1, <1>3
<1> HIDE DEF a
<1>5. q = f
  <2>1. CASE q < f
    <3>1. p * (f - q - 1) >= 0 /\ p * (f - q - 1) = p * f - p * q - p
      BY <2>1
    <3>2. p * f \in Int /\ p * q \in Int
      OBVIOUS
    <3> QED
      BY <1>4, <3>1, <3>2
  <2>2. CASE f < q
    <3>1. p * (q - f - 1) >= 0 /\ p * (q - f - 1) = p * q - p * f - p
      BY <2>2
    <3>2. p * f \in Int /\ p * q \in Int
      OBVIOUS
    <3> QED
      BY <1>4, <3>1, <3>2
  <2> QED
    BY <2>1, <2>2
<1> QED
  BY <1>3, <1>5 DEF a

----------------------------------------------------------------------------
\* Scans

\* Induction from the last number down.
LEMMA Backwards ==
    ASSUME NEW last \in Nat, NEW S, S \subseteq 0 .. last + 1, last + 1 \in S,
           \A k \in 0 .. last : k + 1 \in S => k \in S
    PROVE  S = 0 .. last + 1
<1> DEFINE T == {n \in 0 .. last + 1 : last + 1 - n \notin S}
<1>1. SUFFICES ASSUME NEW i \in 0 .. last + 1, i \notin S
               PROVE  FALSE
  OBVIOUS
<1>2. T \subseteq Nat /\ last + 1 - i \in T
  <2>1. last + 1 - i \in 0 .. last + 1 /\ last + 1 - (last + 1 - i) = i
    OBVIOUS
  <2> QED
    BY <1>1, <2>1
<1>3. PICK n \in T : \A m \in T : n <= m
  BY <1>2, Least
<1>4. n \in 0 .. last + 1 /\ last + 1 - n \notin S
  OBVIOUS
<1>5. n # 0
  BY <1>4
<1>6. n - 1 \in 0 .. last + 1 /\ n - 1 \notin T
  BY <1>3, <1>4, <1>5
<1>7. last + 1 - (n - 1) \in S
  BY <1>6
<1>8. last + 1 - n \in 0 .. last /\ (last + 1 - n) + 1 = last + 1 - (n - 1)
  BY <1>4, <1>5
<1> QED
  BY <1>4, <1>7, <1>8

\* The least member of H that is not below i, or nothing.
FirstIn(H, i, last, none) ==
    IF \A x \in i .. last : x \notin H THEN none
    ELSE CHOOSE x \in i .. last : x \in H /\ \A y \in i .. x - 1 : y \notin H

LEMMA FirstInFacts ==
    ASSUME NEW H, NEW last \in Nat, NEW i \in Nat, NEW none
    PROVE  LET x == FirstIn(H, i, last, none) IN
           \/ x = none /\ \A y \in i .. last : y \notin H
           \/ x \in i .. last /\ x \in H /\ \A y \in i .. x - 1 : y \notin H
<1>1. CASE \A x \in i .. last : x \notin H
  BY <1>1 DEF FirstIn
<1>2. CASE ~ \A x \in i .. last : x \notin H
  <2> DEFINE T == {x \in i .. last : x \in H}
  <2>1. T \subseteq Nat /\ T # {}
    BY <1>2
  <2>2. PICK x \in T : \A y \in T : x <= y
    BY <2>1, Least
  <2>3. \A y \in i .. x - 1 : y \notin H
    <3>1. SUFFICES ASSUME NEW y \in i .. x - 1, y \in H PROVE FALSE
      OBVIOUS
    <3>2. x \in i .. last
      OBVIOUS
    <3>3. y \in i .. last /\ ~(x <= y)
      BY <3>2
    <3> QED
      BY <2>2, <3>1, <3>3
  <2>4. \E z \in i .. last : z \in H /\ \A y \in i .. z - 1 : y \notin H
    BY <2>3
  <2>5. FirstIn(H, i, last, none) = CHOOSE z \in i .. last : z \in H /\ \A y \in i .. z - 1 : y \notin H
    BY <1>2 DEF FirstIn
  <2> QED
    BY <2>4, <2>5
<1> QED
  BY <1>1, <1>2

LEMMA FirstInStep ==
    ASSUME NEW H, NEW last \in Nat, NEW i \in Nat, NEW none
    PROVE  FirstIn(H, i, last, none) =
              IF i > last THEN none ELSE IF i \in H THEN i ELSE FirstIn(H, i + 1, last, none)
<1> DEFINE x == FirstIn(H, i, last, none)
           z == FirstIn(H, i + 1, last, none)
<1>1. \/ x = none /\ \A y \in i .. last : y \notin H
      \/ x \in i .. last /\ x \in H /\ \A y \in i .. x - 1 : y \notin H
  BY FirstInFacts
<1>2. \/ z = none /\ \A y \in i + 1 .. last : y \notin H
      \/ z \in i + 1 .. last /\ z \in H /\ \A y \in i + 1 .. z - 1 : y \notin H
  <2>1. i + 1 \in Nat
    OBVIOUS
  <2> HIDE DEF x
  <2> QED
    BY <2>1, FirstInFacts
<1>3. CASE i > last
  BY <1>1, <1>3
<1> HIDE DEF x, z
<1>4. CASE i <= last /\ i \in H
  <2>1. x \in i .. last /\ \A y \in i .. x - 1 : y \notin H
    BY <1>1, <1>4
  <2>2. ~(i \in i .. x - 1)
    BY <1>4, <2>1
  <2>3. x = i
    BY <2>1, <2>2
  <2> QED
    BY <1>4, <2>3 DEF x
<1>5. CASE i <= last /\ i \notin H
  <2>1. \A y \in i .. last : y = i \/ y \in i + 1 .. last
    OBVIOUS
  <2>2. CASE z = none /\ \A y \in i + 1 .. last : y \notin H
    BY <1>1, <1>5, <2>1, <2>2 DEF x, z
  <2>3. CASE z \in i + 1 .. last /\ z \in H /\ \A y \in i + 1 .. z - 1 : y \notin H
    <3>1. x \in i .. last /\ x \in H /\ x # i /\ \A y \in i .. x - 1 : y \notin H
      <4>1. z \in i .. last
        BY <2>3
      <4> QED
        BY <1>1, <1>5, <2>3, <4>1
    <3>2. x \in i + 1 .. last
      BY <3>1
    <3>3. ~(x < z)
      BY <2>3, <3>1, <3>2
    <3>4. ~(z < x)
      <4>1. z \in i .. x - 1 <=> z < x
        BY <2>3, <3>2
      <4> QED
        BY <2>3, <3>1, <4>1
    <3>5. x = z
      BY <2>3, <3>2, <3>3, <3>4
    <3> QED
      BY <1>5, <3>5 DEF x, z
  <2> QED
    BY <1>2, <2>2, <2>3
<1> QED
  BY <1>3, <1>4, <1>5 DEF x, z

\* Where a run of count bits begins, up to index last.
RunStarts(b, last, count, Set) == {i \in 0 .. last : \A j \in 0 .. count - 1 : b[i + j] = Set}

\* What the loop of _BitmapScanInternal computes.
LEMMA ScanInternalFinds ==
    ASSUME NEW b, NEW start \in Nat, NEW end \in Nat, NEW count \in Nat, NEW Set,
           end - start >= count
    PROVE  ScanInternal(b, start, end, count, Set) =
              FirstIn(RunStarts(b, end - count, count, Set), start, end - count, MAX_DWORD)
<1> DEFINE last == end - count
           H == RunStarts(b, last, count, Set)
           Loop(f, i) == IF i > last THEN MAX_DWORD
                         ELSE IF \A j \in 0 .. count - 1 : b[i + j] = Set THEN i ELSE f[i + 1]
           Body(f) == [i \in 0 .. last + 1 |-> Loop(f, i)]
           scan == CHOOSE f : f = Body(f)
<1>1. last \in Nat /\ start <= last
  OBVIOUS
<1>2. ScanInternal(b, start, end, count, Set) = scan[start]
  BY DEF ScanInternal
<1>3. \A f : \A i \in 0 .. last + 1 :
         Loop(f, i) = IF i > last THEN MAX_DWORD ELSE IF i \in H THEN i ELSE f[i + 1]
  BY <1>1 DEF RunStarts
<1> HIDE DEF last, H, Loop
<1>4. PICK g : g = [i \in 0 .. last + 1 |-> FirstIn(H, i, last, MAX_DWORD)]
  OBVIOUS
<1>5. ASSUME NEW i \in 0 .. last + 1
      PROVE  FirstIn(H, i, last, MAX_DWORD) = Loop(g, i)
  <2>1. i \in Nat
    BY <1>1
  <2>2. FirstIn(H, i, last, MAX_DWORD) =
           IF i > last THEN MAX_DWORD ELSE IF i \in H THEN i ELSE FirstIn(H, i + 1, last, MAX_DWORD)
    BY <1>1, <2>1, FirstInStep
  <2>3. CASE i > last
    BY <1>3, <2>2, <2>3
  <2>4. CASE ~(i > last)
    <3>1. i + 1 \in 0 .. last + 1
      BY <1>1, <2>4
    <3>2. g[i + 1] = FirstIn(H, i + 1, last, MAX_DWORD)
      BY <1>4, <3>1
    <3> QED
      BY <1>3, <2>2, <2>4, <3>2
  <2> QED
    BY <2>3, <2>4
<1>6. g = Body(g)
  BY <1>4, <1>5
<1>7. scan = Body(scan)
  BY <1>6
<1> HIDE DEF scan
<1>8. ASSUME NEW i \in 0 .. last + 1
      PROVE  scan[i] = IF i > last THEN MAX_DWORD ELSE IF i \in H THEN i ELSE scan[i + 1]
  <2>1. Body(scan)[i] = Loop(scan, i)
    OBVIOUS
  <2> QED
    BY <1>3, <1>7, <2>1
<1> HIDE DEF Body
<1> DEFINE S == {i \in 0 .. last + 1 : scan[i] = FirstIn(H, i, last, MAX_DWORD)}
<1>9. last + 1 \in S
  <2>1. last + 1 \in 0 .. last + 1 /\ last + 1 > last /\ last + 1 \in Nat
    BY <1>1
  <2>2. FirstIn(H, last + 1, last, MAX_DWORD) = MAX_DWORD
    BY <1>1, <2>1, FirstInStep
  <2> QED
    BY <1>8, <2>1, <2>2
<1>10. ASSUME NEW k \in 0 .. last, k + 1 \in S
       PROVE  k \in S
  <2>1. k \in Nat /\ ~(k > last) /\ k \in 0 .. last + 1
    BY <1>1
  <2>2. FirstIn(H, k, last, MAX_DWORD) = IF k \in H THEN k ELSE FirstIn(H, k + 1, last, MAX_DWORD)
    BY <1>1, <2>1, FirstInStep
  <2>3. scan[k + 1] = FirstIn(H, k + 1, last, MAX_DWORD)
    BY <1>10
  <2> QED
    BY <1>8, <2>1, <2>2, <2>3
<1>11. S = 0 .. last + 1
  <2>1. S \subseteq 0 .. last + 1
    OBVIOUS
  <2> HIDE DEF S
  <2> QED
    BY <1>1, <1>9, <1>10, <2>1, Backwards
<1>12. start \in S
  BY <1>1, <1>11
<1> QED
  BY <1>2, <1>12 DEF last, H

LEMMA BitCountIs ==
    ASSUME NEW b, NEW n \in 1 .. MAX_DWORD, b \in [0 .. n - 1 -> BOOLEAN]
    PROVE  BitCount(b) = n
<1>1. n \in 0 .. MAX_DWORD /\ DOMAIN b = 0 .. n - 1
  BY DwordAssumption
<1>2. ASSUME NEW m \in 0 .. MAX_DWORD, DOMAIN b = 0 .. m - 1
      PROVE  m = n
  <2>1. n - 1 \in 0 .. m - 1 /\ m \in Nat
    BY <1>1, <1>2, DwordAssumption
  <2>2. m - 1 \in 0 .. n - 1
    BY <1>1, <1>2, <2>1
  <2> QED
    BY <2>1, <2>2
<1> QED
  BY <1>1, <1>2 DEF BitCount

\* BitmapScanFromTo finds the first run of bits, and nothing only if there is none.
LEMMA ScanFindsFirstRun ==
    ASSUME NEW b, NEW n \in 1 .. MAX_DWORD - 1, b \in [0 .. n - 1 -> BOOLEAN],
           NEW start \in Nat, NEW end \in 0 .. n, NEW count \in Nat, NEW Set \in BOOLEAN
    PROVE  IsFirstRun(ScanFromTo(b, start, end, count, Set), b, start, end, count, Set)
<1> DEFINE runs == Runs(b, start, end, count, Set)
           last == end - count
           H == RunStarts(b, last, count, Set)
<1>0. n \in Nat /\ MAX_DWORD \in Nat /\ n < MAX_DWORD /\ end \in Nat /\ end <= n /\ DOMAIN b = 0 .. n - 1 /\ BitCount(b) = n
  <2>1. n \in 1 .. MAX_DWORD
    BY DwordAssumption
  <2> QED
    BY <2>1, BitCountIs, DwordAssumption
<1>1. CASE count = 0 \/ start > end \/ end - start < count
  <2>1. runs = {}
    BY <1>0, <1>1 DEF Runs
  <2>2. ScanFromTo(b, start, end, count, Set) = MAX_DWORD
    BY <1>0, <1>1 DEF ScanFromTo, ScanInternal
  <2> QED
    BY <2>1, <2>2 DEF IsFirstRun
<1>2. CASE count > 0 /\ start <= end /\ end - start >= count
  <2>1. last \in Nat /\ start <= last
    BY <1>0, <1>2
  <2>2. ASSUME NEW i
        PROVE  i \in runs <=> i \in start .. last /\ i \in H
    <3>1. ASSUME i \in runs
          PROVE  i \in start .. last /\ i \in H
      <4>1. i \in 0 .. n - 1 /\ start <= i /\ i + count <= end
            /\ \A k \in i .. i + count - 1 : k \in DOMAIN b /\ b[k] = Set
        BY <1>0, <3>1 DEF Runs
      <4>2. i \in start .. last /\ i \in 0 .. last
        BY <1>0, <1>2, <4>1
      <4>3. \A j \in 0 .. count - 1 : b[i + j] = Set
        <5>1. SUFFICES ASSUME NEW j \in 0 .. count - 1
                       PROVE  b[i + j] = Set
          OBVIOUS
        <5>2. i + j \in i .. i + count - 1
          BY <4>1
        <5> QED
          BY <4>1, <5>2
      <4> QED
        BY <4>2, <4>3 DEF RunStarts
    <3>2. ASSUME i \in start .. last, i \in H
          PROVE  i \in runs
      <4>1. i \in Nat /\ i + count <= end /\ start <= i /\ i \in 0 .. n - 1
        <5>1. i \in start .. end - count
          BY <3>2
        <5> HIDE <3>2
        <5> QED
          BY <1>0, <1>2, <5>1
      <4>2. ASSUME NEW k \in i .. i + count - 1
            PROVE  k \in DOMAIN b /\ b[k] = Set
        <5>1. k - i \in 0 .. count - 1 /\ i + (k - i) = k /\ k \in 0 .. n - 1
          BY <1>0, <4>1
        <5>2. b[i + (k - i)] = Set
          BY <3>2, <5>1 DEF RunStarts
        <5> QED
          BY <1>0, <5>1, <5>2
      <4> QED
        BY <1>0, <1>2, <4>1, <4>2 DEF Runs
    <3> QED
      BY <3>1, <3>2
  <2>3. ScanFromTo(b, start, end, count, Set) = FirstIn(H, start, last, MAX_DWORD)
    <3>1. ScanFromTo(b, start, end, count, Set) = ScanInternal(b, start, end, count, Set)
      BY <1>0, <1>2 DEF ScanFromTo
    <3>2. end \in Nat /\ end - start >= count
      BY <1>0, <1>2
    <3>3. ScanInternal(b, start, end, count, Set) = FirstIn(H, start, last, MAX_DWORD)
      BY <3>2, ScanInternalFinds
    <3> QED
      BY <3>1, <3>3
  <2> HIDE DEF runs, H, last
  <2>4. PICK x : x = FirstIn(H, start, last, MAX_DWORD)
    OBVIOUS
  <2>5. \/ x = MAX_DWORD /\ \A y \in start .. last : y \notin H
        \/ x \in start .. last /\ x \in H /\ \A y \in start .. x - 1 : y \notin H
    BY <2>1, <2>4, FirstInFacts
  <2>6. CASE x = MAX_DWORD /\ \A y \in start .. last : y \notin H
    <3>1. runs = {}
      BY <2>2, <2>6
    <3> QED
      BY <2>3, <2>4, <2>6, <3>1 DEF IsFirstRun, runs
  <2>7. CASE x \in start .. last /\ x \in H /\ \A y \in start .. x - 1 : y \notin H
    <3>1. x \in runs
      BY <2>2, <2>7
    <3>2. ASSUME NEW i \in runs
          PROVE  x <= i
      <4>1. i \in start .. last /\ i \in H
        BY <2>2
      <4>2. ~(i \in start .. x - 1)
        BY <2>7, <4>1
      <4> QED
        BY <2>1, <2>7, <4>1, <4>2
    <3> QED
      BY <2>3, <2>4, <3>1, <3>2 DEF IsFirstRun, runs
  <2> QED
    BY <2>5, <2>6, <2>7
<1>3. (count = 0 \/ start > end \/ end - start < count) \/ (count > 0 /\ start <= end /\ end - start >= count)
  BY <1>0
<1> QED
  BY <1>1, <1>2, <1>3

\* The assertion of BitmapSetBitsValue holds for a run inside the bitmap: the difference of
\* two DWORDs does not wrap.
LEMMA RunFitsInDword ==
    ASSUME NEW size \in Nat, NEW index \in Nat, NEW n \in Nat \ {0}, index + n <= size, size < MAX_DWORD
    PROVE  (size - n) % (MAX_DWORD + 1) >= index
<1>1. size - n \in Nat /\ size - n < MAX_DWORD + 1 /\ size - n >= index /\ MAX_DWORD + 1 \in Nat \ {0}
  BY DwordAssumption
<1>2. PICK x \in Nat, m \in Nat \ {0} : x = size - n /\ m = MAX_DWORD + 1
  BY <1>1
<1>3. x % m = x
  BY <1>1, <1>2
<1> QED
  BY <1>1, <1>2, <1>3

----------------------------------------------------------------------------
\* Numbers and sequences

LEMMA MinIsMember ==
    ASSUME NEW T, T \subseteq Nat, T # {}
    PROVE  Min(T) \in T
<1>1. \E x \in T : \A y \in T : x <= y
  BY Least
<1> QED
  BY <1>1 DEF Min

\* The greatest member of a set whose members are known not to exceed m.
LEMMA MaxIs ==
    ASSUME NEW T, T \subseteq Nat, NEW m \in T, \A y \in T : m >= y
    PROVE  Max(T) = m
<1>1. Max(T) \in T /\ \A y \in T : Max(T) >= y
  BY DEF Max
<1>2. Max(T) \in Nat /\ m \in Nat /\ Max(T) >= m /\ m >= Max(T)
  BY <1>1
<1> QED
  BY <1>2

LEMMA AlignUpperFacts ==
    ASSUME NEW a \in Nat, NEW n \in Nat \ {0}
    PROVE  /\ AlignUpper(a, n) \in Nat
           /\ AlignUpper(a, n) >= a
           /\ AlignUpper(a, n) % n = 0
<1> DEFINE q == (a + n - 1) \div n
<1>1. q \in Nat /\ a + n - 1 = n * q + ((a + n - 1) % n) /\ (a + n - 1) % n \in 0 .. n - 1
  OBVIOUS
<1>2. q * n = n * q /\ q * n \in Nat
  BY <1>1
<1>3. (q * n) % n = 0
  BY <1>1
<1> HIDE DEF q
<1>4. q * n >= a
  BY <1>1, <1>2
<1> QED
  BY <1>2, <1>3, <1>4 DEF AlignUpper, q

\* The position behind p in a ring of n + 1 positions.
LEMMA RingFacts ==
    ASSUME NEW m \in Nat \ {0}, NEW x \in Nat
    PROVE  /\ x < m => x % m = x
           /\ x >= m /\ x < 2 * m => x % m = x - m
  OBVIOUS

LEMMA InsertAtFacts ==
    ASSUME NEW S, NEW s \in Seq(S), NEW e \in S, NEW i \in 1 .. Len(s) + 1
    PROVE  /\ InsertAt(s, i, e) \in Seq(S)
           /\ Len(InsertAt(s, i, e)) = Len(s) + 1
           /\ \A j \in 1 .. Len(s) + 1 :
                 InsertAt(s, i, e)[j] = IF j < i THEN s[j] ELSE IF j = i THEN e ELSE s[j - 1]
<1> DEFINE before == SubSeq(s, 1, i - 1)
           after == SubSeq(s, i, Len(s))
<1>1. before \in Seq(S) /\ Len(before) = i - 1 /\ \A j \in 1 .. i - 1 : before[j] = s[j]
  OBVIOUS
<1>2. after \in Seq(S) /\ Len(after) = Len(s) - i + 1
      /\ \A j \in 1 .. Len(s) - i + 1 : after[j] = s[i + j - 1]
  OBVIOUS
<1> HIDE DEF before, after
<1>3. before \o <<e>> \in Seq(S) /\ Len(before \o <<e>>) = i
      /\ \A j \in 1 .. i : (before \o <<e>>)[j] = IF j < i THEN s[j] ELSE e
  <2>1. <<e>> \in Seq(S) /\ Len(<<e>>) = 1 /\ <<e>>[1] = e
    OBVIOUS
  <2>2. before \o <<e>> \in Seq(S) /\ Len(before \o <<e>>) = i
    BY <1>1, <2>1
  <2>3. ASSUME NEW j \in 1 .. i
        PROVE  (before \o <<e>>)[j] = IF j < i THEN s[j] ELSE e
    <3>1. (before \o <<e>>)[j] = IF j <= Len(before) THEN before[j] ELSE <<e>>[j - Len(before)]
      BY <1>1, <2>1
    <3>2. j \in Int /\ i \in Int /\ (j = i \/ j \in 1 .. i - 1)
      OBVIOUS
    <3> QED
      BY <1>1, <2>1, <3>1, <3>2
  <2> QED
    BY <2>2, <2>3
<1>4. InsertAt(s, i, e) = (before \o <<e>>) \o after
  BY DEF InsertAt, before, after
<1> DEFINE front == before \o <<e>>
<1> HIDE DEF front
<1>5. front \in Seq(S) /\ Len(front) = i /\ \A j \in 1 .. i : front[j] = IF j < i THEN s[j] ELSE e
  BY <1>3 DEF front
<1>6. front \o after \in Seq(S) /\ Len(front \o after) = Len(s) + 1
  BY <1>2, <1>5
<1>7. ASSUME NEW j \in 1 .. Len(s) + 1
      PROVE  (front \o after)[j] = IF j < i THEN s[j] ELSE IF j = i THEN e ELSE s[j - 1]
  <2>0. j <= i \/ j > i
    OBVIOUS
  <2>1. CASE j <= i
    BY <1>2, <1>5, <2>1
  <2>2. CASE j > i
    <3>1. (front \o after)[j] = after[j - i]
      BY <1>2, <1>5, <2>2
    <3>2. j - i \in 1 .. Len(s) - i + 1 /\ i + (j - i) - 1 = j - 1
      BY <2>2
    <3>3. after[j - i] = s[i + (j - i) - 1]
      BY <1>2, <3>2
    <3> QED
      BY <2>2, <3>1, <3>2, <3>3
  <2> QED
    BY <2>0, <2>1, <2>2
<1> QED
  BY <1>4, <1>6, <1>7 DEF front

\* t is s with e at position i.
Inserted(s, i, e, t) ==
    /\ Len(t) = Len(s) + 1
    /\ \A j \in 1 .. Len(s) + 1 : t[j] = IF j < i THEN s[j] ELSE IF j = i THEN e ELSE s[j - 1]

LEMMA InsertAtIs ==
    ASSUME NEW S, NEW s \in Seq(S), NEW e \in S, NEW i \in 1 .. Len(s) + 1
    PROVE  InsertAt(s, i, e) \in Seq(S) /\ Inserted(s, i, e, InsertAt(s, i, e))
BY InsertAtFacts DEF Inserted

LEMMA RemoveAtFacts ==
    ASSUME NEW S, NEW s \in Seq(S), NEW i \in 1 .. Len(s)
    PROVE  /\ RemoveAt(s, i) \in Seq(S)
           /\ Len(RemoveAt(s, i)) = Len(s) - 1
           /\ \A j \in 1 .. Len(s) - 1 : RemoveAt(s, i)[j] = IF j < i THEN s[j] ELSE s[j + 1]
<1> DEFINE before == SubSeq(s, 1, i - 1)
           after == SubSeq(s, i + 1, Len(s))
<1>1. before \in Seq(S) /\ Len(before) = i - 1 /\ \A j \in 1 .. i - 1 : before[j] = s[j]
  OBVIOUS
<1>2. after \in Seq(S) /\ Len(after) = Len(s) - i
      /\ \A j \in 1 .. Len(s) - i : after[j] = s[i + j]
  OBVIOUS
<1> HIDE DEF before, after
<1>3. RemoveAt(s, i) = before \o after
  BY DEF RemoveAt, before, after
<1>4. before \o after \in Seq(S) /\ Len(before \o after) = Len(s) - 1
  BY <1>1, <1>2
<1>5. ASSUME NEW j \in 1 .. Len(s) - 1
      PROVE  (before \o after)[j] = IF j < i THEN s[j] ELSE s[j + 1]
  <2>0. j < i \/ j >= i
    OBVIOUS
  <2>1. CASE j < i
    BY <1>1, <1>2, <2>1
  <2>2. CASE j >= i
    <3>1. (before \o after)[j] = after[j - (i - 1)]
      BY <1>1, <1>2, <2>2
    <3>2. j - (i - 1) \in 1 .. Len(s) - i /\ i + (j - (i - 1)) = j + 1
      BY <2>2
    <3>3. after[j - (i - 1)] = s[i + (j - (i - 1))]
      BY <1>2, <3>2
    <3> QED
      BY <2>2, <3>1, <3>2, <3>3
  <2> QED
    BY <2>0, <2>1, <2>2
<1> QED
  BY <1>3, <1>4, <1>5

----------------------------------------------------------------------------
\* Lists of allocations

Allocation == [data : Nat, size : Nat \ {0}, alignment : Nat \ {0}]

\* Not only neighbours: every allocation ends before every later one begins.
Ordered(s) ==
    /\ \A i \in 1 .. Len(s) : HeaderSize <= StartOf(s[i]) /\ s[i].data % s[i].alignment = 0
    /\ \A i, j \in 1 .. Len(s) : i < j => EndOf(s[i]) <= StartOf(s[j])

\* total[i] is the number of bytes of the first i allocations.
IsTotal(total, s) ==
    /\ total \in [0 .. Len(s) -> Int]
    /\ total[0] = 0
    /\ \A i \in 1 .. Len(s) : total[i] = total[i - 1] + BlockSize(s[i].size)

Bytes(s, b) == \E total : IsTotal(total, s) /\ total[Len(s)] = b

LEMMA AllocationFacts ==
    ASSUME NEW e \in Allocation
    PROVE  /\ e.data \in Nat /\ e.size \in Nat \ {0} /\ e.alignment \in Nat \ {0}
           /\ StartOf(e) \in Int /\ EndOf(e) \in Nat /\ StartOf(e) < EndOf(e)
           /\ BlockSize(e.size) \in Nat
           /\ EndOf(e) - StartOf(e) = BlockSize(e.size)
<1>1. EntrySize \in Nat \ {0} /\ TailSize \in Nat \ {0}
  BY HeapAssumption
<1>2. e.data \in Nat /\ e.size \in Nat \ {0} /\ e.alignment \in Nat \ {0}
  BY DEF Allocation
<1> QED
  BY <1>1, <1>2 DEF StartOf, EndOf, BlockSize

LEMMA OrderedInsert ==
    ASSUME NEW s \in Seq(Allocation), Ordered(s), NEW e \in Allocation, NEW p \in 1 .. Len(s) + 1,
           HeaderSize <= StartOf(e), e.data % e.alignment = 0,
           \A i \in 1 .. p - 1 : EndOf(s[i]) <= StartOf(e),
           \A i \in p .. Len(s) : EndOf(e) <= StartOf(s[i])
    PROVE  Ordered(InsertAt(s, p, e))
<1> DEFINE t == InsertAt(s, p, e)
<1>1. t \in Seq(Allocation) /\ Len(t) = Len(s) + 1
      /\ \A j \in 1 .. Len(s) + 1 : t[j] = IF j < p THEN s[j] ELSE IF j = p THEN e ELSE s[j - 1]
  BY InsertAtFacts
<1>2. Len(s) \in Nat
  OBVIOUS
<1> HIDE DEF t
<1>3. ASSUME NEW i \in 1 .. Len(t)
      PROVE  \/ i < p /\ i \in 1 .. Len(s) /\ i \in 1 .. p - 1 /\ t[i] = s[i]
             \/ i = p /\ t[i] = e
             \/ i > p /\ i - 1 \in 1 .. Len(s) /\ i - 1 \in p .. Len(s) /\ t[i] = s[i - 1]
  BY <1>1, <1>2
<1>4. ASSUME NEW i \in 1 .. Len(t)
      PROVE  HeaderSize <= StartOf(t[i]) /\ t[i].data % t[i].alignment = 0
  BY <1>3 DEF Ordered
<1>5. ASSUME NEW i \in 1 .. Len(t), NEW j \in 1 .. Len(t), i < j
      PROVE  EndOf(t[i]) <= StartOf(t[j])
  <2>0. i \in Int /\ j \in Int /\ p \in Int /\ i < j
    BY <1>1, <1>2, <1>5
  <2>1. CASE i < p /\ j < p
    BY <1>3, <2>0, <2>1 DEF Ordered
  <2>2. CASE i < p /\ j = p
    BY <1>3, <2>0, <2>2
  <2>3. CASE i < p /\ j > p
    <3>1. i \in 1 .. Len(s) /\ t[i] = s[i] /\ j - 1 \in 1 .. Len(s) /\ t[j] = s[j - 1] /\ i < j - 1
      BY <1>3, <2>0, <2>3
    <3> QED
      BY <3>1 DEF Ordered
  <2>4. CASE i = p
    <3>1. t[i] = e /\ j - 1 \in p .. Len(s) /\ t[j] = s[j - 1]
      BY <1>3, <2>0, <2>4
    <3> QED
      BY <3>1
  <2>5. CASE i > p
    <3>1. i - 1 \in 1 .. Len(s) /\ t[i] = s[i - 1] /\ j - 1 \in 1 .. Len(s) /\ t[j] = s[j - 1] /\ i - 1 < j - 1
      BY <1>3, <2>0, <2>5
    <3> QED
      BY <3>1 DEF Ordered
  <2> QED
    BY <2>0, <2>1, <2>2, <2>3, <2>4, <2>5
<1>6. Ordered(t)
  BY <1>4, <1>5 DEF Ordered
<1> QED
  BY <1>6 DEF t

LEMMA OrderedRemove ==
    ASSUME NEW s \in Seq(Allocation), Ordered(s), NEW p \in 1 .. Len(s)
    PROVE  Ordered(RemoveAt(s, p))
<1> DEFINE t == RemoveAt(s, p)
<1>1. t \in Seq(Allocation) /\ Len(t) = Len(s) - 1
      /\ \A j \in 1 .. Len(s) - 1 : t[j] = IF j < p THEN s[j] ELSE s[j + 1]
  BY RemoveAtFacts
<1>2. Len(s) \in Nat
  OBVIOUS
<1> HIDE DEF t
<1>3. ASSUME NEW i \in 1 .. Len(t)
      PROVE  \/ i < p /\ i \in 1 .. Len(s) /\ t[i] = s[i]
             \/ i >= p /\ i + 1 \in 1 .. Len(s) /\ t[i] = s[i + 1]
  BY <1>1, <1>2
<1>4. ASSUME NEW i \in 1 .. Len(t)
      PROVE  HeaderSize <= StartOf(t[i]) /\ t[i].data % t[i].alignment = 0
  BY <1>3 DEF Ordered
<1>5. ASSUME NEW i \in 1 .. Len(t), NEW j \in 1 .. Len(t), i < j
      PROVE  EndOf(t[i]) <= StartOf(t[j])
  <2>1. i \in Int /\ j \in Int /\ p \in Int /\ i < j
    BY <1>1, <1>2, <1>5
  <2>2. PICK a \in 1 .. Len(s), b \in 1 .. Len(s) : t[i] = s[a] /\ t[j] = s[b] /\ a < b
    <3>1. PICK a \in 1 .. Len(s) : t[i] = s[a] /\ ((i < p /\ a = i) \/ (i >= p /\ a = i + 1))
      BY <1>3
    <3>2. PICK b \in 1 .. Len(s) : t[j] = s[b] /\ ((j < p /\ b = j) \/ (j >= p /\ b = j + 1))
      BY <1>3
    <3>3. a < b
      BY <2>1, <3>1, <3>2
    <3> QED
      BY <3>1, <3>2, <3>3
  <2> QED
    BY <2>2 DEF Ordered
<1>6. Ordered(t)
  BY <1>4, <1>5 DEF Ordered
<1> QED
  BY <1>6 DEF t

LEMMA BytesInsert ==
    ASSUME NEW s \in Seq(Allocation), NEW e \in Allocation, NEW p \in 1 .. Len(s) + 1,
           NEW b, Bytes(s, b)
    PROVE  b \in Int /\ Bytes(InsertAt(s, p, e), b + BlockSize(e.size))
<1> DEFINE t == InsertAt(s, p, e)
<1>1. t \in Seq(Allocation) /\ Len(t) = Len(s) + 1
      /\ \A j \in 1 .. Len(s) + 1 : t[j] = IF j < p THEN s[j] ELSE IF j = p THEN e ELSE s[j - 1]
  <2>1. p \in 1 .. Len(s) + 1
    OBVIOUS
  <2> QED
    BY <2>1, InsertAtFacts, SMTT(30)
<1>2. Len(s) \in Nat /\ p \in Int /\ p >= 1 /\ p <= Len(s) + 1
  OBVIOUS
<1> HIDE DEF t
<1>3. PICK total : IsTotal(total, s) /\ total[Len(s)] = b
  BY DEF Bytes
<1> DEFINE size == BlockSize(e.size)
<1>4. size \in Nat
  BY AllocationFacts
<1> HIDE DEF size
<1>5. total \in [0 .. Len(s) -> Int] /\ total[0] = 0
      /\ \A i \in 1 .. Len(s) : total[i] = total[i - 1] + BlockSize(s[i].size)
  BY <1>3 DEF IsTotal
<1>6. b \in Int
  BY <1>2, <1>3, <1>5
<1> DEFINE new == [i \in 0 .. Len(s) + 1 |-> IF i < p THEN total[i] ELSE total[i - 1] + size]
<1>7. \A i \in 0 .. Len(s) + 1 : new[i] = IF i < p THEN total[i] ELSE total[i - 1] + size
  OBVIOUS
<1>8. new \in [0 .. Len(s) + 1 -> Int]
  <2>1. ASSUME NEW i \in 0 .. Len(s) + 1
        PROVE  (IF i < p THEN total[i] ELSE total[i - 1] + size) \in Int
    <3>1. CASE i < p
      <4>1. i \in 0 .. Len(s)
        BY <1>2, <3>1
      <4> QED
        BY <1>5, <3>1, <4>1
    <3>2. CASE ~(i < p)
      <4>1. i - 1 \in 0 .. Len(s)
        BY <1>2, <3>2
      <4>2. total[i - 1] \in Int
        BY <1>5, <4>1
      <4> QED
        BY <1>4, <3>2, <4>2
    <3> QED
      BY <3>1, <3>2
  <2> QED
    BY <2>1
<1> HIDE DEF new
<1>9. new[0] = 0 /\ new[Len(s) + 1] = b + size
  <2>1. 0 \in 0 .. Len(s) + 1 /\ 0 < p /\ Len(s) + 1 \in 0 .. Len(s) + 1 /\ ~(Len(s) + 1 < p)
        /\ Len(s) + 1 - 1 = Len(s)
    BY <1>2
  <2> QED
    BY <1>3, <1>5, <1>7, <2>1
<1>10. ASSUME NEW i \in 1 .. Len(s) + 1
       PROVE  new[i] = new[i - 1] + BlockSize(t[i].size)
  <2>1. i \in 0 .. Len(s) + 1 /\ i - 1 \in 0 .. Len(s) + 1 /\ i \in Int
    BY <1>2
  <2>2. CASE i < p
    <3>1. new[i] = total[i] /\ new[i - 1] = total[i - 1] /\ t[i] = s[i] /\ i \in 1 .. Len(s)
      BY <1>1, <1>2, <1>7, <2>1, <2>2
    <3> QED
      BY <1>5, <3>1
  <2>3. CASE i = p
    <3>1. new[i] = total[i - 1] + size /\ new[i - 1] = total[i - 1] /\ t[i] = e
      BY <1>1, <1>2, <1>7, <2>1, <2>3
    <3> QED
      BY <3>1 DEF size
  <2>4. CASE i > p
    <3>1. new[i] = total[i - 1] + size /\ new[i - 1] = total[i - 1 - 1] + size /\ t[i] = s[i - 1]
          /\ i - 1 \in 1 .. Len(s) /\ i - 1 - 1 \in 0 .. Len(s)
      BY <1>1, <1>2, <1>7, <2>1, <2>4
    <3>2. total[i - 1] = total[i - 1 - 1] + BlockSize(s[i - 1].size)
      BY <1>5, <3>1
    <3>3. BlockSize(s[i - 1].size) \in Nat /\ total[i - 1 - 1] \in Int
      <4>1. s[i - 1] \in Allocation
        BY <3>1
      <4>2. total[i - 1 - 1] \in Int
        BY <1>5, <3>1
      <4> QED
        BY <4>1, <4>2, AllocationFacts
    <3>4. BlockSize(t[i].size) = BlockSize(s[i - 1].size)
      BY <3>1
    <3>5. new[i] = total[i - 1] + size /\ new[i - 1] = total[i - 1 - 1] + size
      BY <3>1
    <3> HIDE <3>1
    <3> QED
      BY <1>4, <3>2, <3>3, <3>4, <3>5
  <2> QED
    BY <1>2, <2>1, <2>2, <2>3, <2>4
<1>11. IsTotal(new, t) /\ new[Len(t)] = b + size
  BY <1>1, <1>8, <1>9, <1>10 DEF IsTotal
<1> QED
  BY <1>6, <1>11 DEF Bytes, t, size

LEMMA BytesRemove ==
    ASSUME NEW s \in Seq(Allocation), NEW p \in 1 .. Len(s), NEW b, Bytes(s, b)
    PROVE  b \in Int /\ Bytes(RemoveAt(s, p), b - BlockSize(s[p].size))
<1> DEFINE t == RemoveAt(s, p)
<1>1. t \in Seq(Allocation) /\ Len(t) = Len(s) - 1
      /\ \A j \in 1 .. Len(s) - 1 : t[j] = IF j < p THEN s[j] ELSE s[j + 1]
  BY RemoveAtFacts
<1>2. Len(s) \in Nat /\ p \in Int /\ p >= 1 /\ p <= Len(s)
  OBVIOUS
<1> HIDE DEF t
<1>3. PICK total : IsTotal(total, s) /\ total[Len(s)] = b
  BY DEF Bytes
<1> DEFINE size == BlockSize(s[p].size)
<1>4. size \in Nat
  BY AllocationFacts
<1>5. total \in [0 .. Len(s) -> Int] /\ total[0] = 0
      /\ \A i \in 1 .. Len(s) : total[i] = total[i - 1] + BlockSize(s[i].size)
  BY <1>3 DEF IsTotal
<1>6. b \in Int
  BY <1>2, <1>3, <1>5
<1>7. total[p] = total[p - 1] + size /\ total[p - 1] \in Int
  <2>1. p - 1 \in 0 .. Len(s)
    BY <1>2
  <2> QED
    BY <1>5, <2>1
<1> HIDE DEF size
<1> DEFINE new == [i \in 0 .. Len(s) - 1 |-> IF i < p THEN total[i] ELSE total[i + 1] - size]
<1>8. \A i \in 0 .. Len(s) - 1 : new[i] = IF i < p THEN total[i] ELSE total[i + 1] - size
  OBVIOUS
<1>9. new \in [0 .. Len(s) - 1 -> Int]
  <2>1. ASSUME NEW i \in 0 .. Len(s) - 1
        PROVE  (IF i < p THEN total[i] ELSE total[i + 1] - size) \in Int
    <3>1. i \in 0 .. Len(s) /\ i + 1 \in 0 .. Len(s)
      BY <1>2
    <3>2. total[i] \in Int /\ total[i + 1] \in Int
      BY <1>5, <3>1
    <3> QED
      BY <1>4, <3>2
  <2> QED
    BY <2>1
<1> HIDE DEF new
<1>10. new[0] = 0 /\ new[Len(s) - 1] = b - size
  <2>1. 0 \in 0 .. Len(s) - 1 /\ 0 < p /\ Len(s) - 1 \in 0 .. Len(s) - 1
    BY <1>2
  <2>2. new[0] = 0
    BY <1>5, <1>8, <2>1
  <2>3. CASE p = Len(s)
    <3>1. Len(s) - 1 < p /\ Len(s) - 1 = p - 1
      BY <1>2, <2>3
    <3>2. new[Len(s) - 1] = total[p - 1]
      BY <1>8, <2>1, <3>1
    <3> QED
      BY <1>3, <1>4, <1>7, <2>2, <2>3, <3>2
  <2>4. CASE p < Len(s)
    <3>1. ~(Len(s) - 1 < p) /\ Len(s) - 1 + 1 = Len(s)
      BY <1>2, <2>4
    <3> QED
      BY <1>3, <1>8, <2>1, <2>2, <3>1
  <2> QED
    BY <1>2, <2>3, <2>4
<1>11. ASSUME NEW i \in 1 .. Len(s) - 1
       PROVE  new[i] = new[i - 1] + BlockSize(t[i].size)
  <2>1. i \in 0 .. Len(s) - 1 /\ i - 1 \in 0 .. Len(s) - 1 /\ i \in Int /\ i + 1 \in 1 .. Len(s)
        /\ i + 1 - 1 = i /\ i - 1 + 1 = i /\ i \in 1 .. Len(s) /\ i \in 0 .. Len(s)
    BY <1>2
  <2>2. CASE i < p
    <3>1. new[i] = total[i] /\ new[i - 1] = total[i - 1] /\ t[i] = s[i]
      BY <1>1, <1>2, <1>8, <2>1, <2>2
    <3> QED
      BY <1>5, <2>1, <3>1
  <2>3. CASE i >= p
    <3>1. new[i] = total[i + 1] - size /\ t[i] = s[i + 1]
      BY <1>1, <1>2, <1>8, <2>1, <2>3
    <3>2. total[i + 1] = total[i] + BlockSize(s[i + 1].size) /\ total[i] \in Int
      BY <1>5, <2>1
    <3>3. BlockSize(s[i + 1].size) \in Nat
      <4>1. s[i + 1] \in Allocation
        BY <2>1
      <4> QED
        BY <4>1, AllocationFacts
    <3>4. new[i - 1] = total[i] - size
      <4>1. CASE i = p
        <5>1. new[i - 1] = total[p - 1]
          BY <1>2, <1>8, <2>1, <4>1
        <5> QED
          BY <1>4, <1>7, <4>1, <5>1
      <4>2. CASE i > p
        <5>1. ~(i - 1 < p)
          BY <1>2, <2>1, <4>2
        <5> QED
          BY <1>8, <2>1, <5>1
      <4> QED
        BY <1>2, <2>1, <2>3, <4>1, <4>2
    <3> QED
      BY <1>4, <3>1, <3>2, <3>3, <3>4
  <2> QED
    BY <1>2, <2>1, <2>2, <2>3
<1>12. IsTotal(new, t) /\ new[Len(t)] = b - size
  BY <1>1, <1>9, <1>10, <1>11 DEF IsTotal
<1> QED
  BY <1>6, <1>12 DEF Bytes, t, size

\* The recursive count of the model agrees with any other; an induction over the list.
LEMMA BytesAreAllocated ==
    ASSUME HeapAllocations \in Seq(Allocation), NEW b, Bytes(HeapAllocations, b)
    PROVE  AllocatedBytes = b
<1> DEFINE s == HeapAllocations
           Body(f) == [n \in 0 .. Len(s) |-> IF n = 0 THEN 0 ELSE f[n - 1] + BlockSize(s[n].size)]
           g == CHOOSE f : f = Body(f)
<1>1. PICK total : IsTotal(total, s) /\ total[Len(s)] = b
  BY DEF Bytes
<1>2. total = Body(total)
  BY <1>1 DEF IsTotal
<1>3. g = Body(g)
  BY <1>2
<1>4. AllocatedBytes = g[Len(s)]
  BY DEF AllocatedBytes
<1> HIDE DEF g
<1>5. Len(s) \in Nat
  OBVIOUS
<1>6. ASSUME NEW i \in 0 .. Len(s)
      PROVE  g[i] = IF i = 0 THEN 0 ELSE g[i - 1] + BlockSize(s[i].size)
  <2>1. Body(g)[i] = IF i = 0 THEN 0 ELSE g[i - 1] + BlockSize(s[i].size)
    OBVIOUS
  <2> QED
    BY <1>3, <2>1
<1> HIDE DEF Body
<1> DEFINE T == {i \in 0 .. Len(s) : g[i] # total[i]}
<1>7. ASSUME T # {}
      PROVE  FALSE
  <2>1. T \subseteq Nat
    BY <1>5
  <2>2. PICK i \in T : \A j \in T : i <= j
    BY <1>7, <2>1, Least
  <2>3. i \in 0 .. Len(s) /\ g[i] # total[i]
    OBVIOUS
  <2>4. 0 \in 0 .. Len(s) /\ g[0] = 0 /\ total[0] = 0
    BY <1>1, <1>5, <1>6 DEF IsTotal
  <2>5. i # 0
    BY <2>3, <2>4
  <2>6. i \in 1 .. Len(s) /\ i - 1 \in 0 .. Len(s) /\ ~(i <= i - 1)
    BY <1>5, <2>3, <2>5
  <2>7. i - 1 \notin T
    BY <2>2, <2>6
  <2>8. g[i - 1] = total[i - 1]
    BY <2>6, <2>7
  <2>9. total[i] = total[i - 1] + BlockSize(s[i].size)
    BY <1>1, <2>6 DEF IsTotal
  <2>10. g[i] = g[i - 1] + BlockSize(s[i].size)
    BY <1>6, <2>3, <2>5
  <2> QED
    BY <2>3, <2>8, <2>9, <2>10
<1>8. g[Len(s)] = total[Len(s)]
  BY <1>5, <1>7
<1> QED
  BY <1>1, <1>4, <1>8

----------------------------------------------------------------------------
\* The inductive invariant

ListIsOrdered == Ordered(HeapAllocations)

FreeIsBehind ==
    FreeAddress = IF Len(HeapAllocations) = 0 THEN HeaderSize
                  ELSE EndOf(HeapAllocations[Len(HeapAllocations)])

HeapCountersExact ==
    /\ HeapNumberOfAllocations = Len(HeapAllocations)
    /\ Bytes(HeapAllocations, HeapSizeMaximum - HeaderSize - HeapSizeRemaining)

HeapIInv == HeapTypeOK /\ ListIsOrdered /\ FreeIsBehind /\ HeapCountersExact

LEMMA Sizes ==
    /\ HeapSizeMaximum \in Nat /\ HeaderSize \in Nat /\ EntrySize \in Nat \ {0} /\ TailSize \in Nat \ {0}
    /\ DefaultAlignment \in Nat \ {0} /\ HeaderSize < HeapSizeMaximum
    /\ \A call \in PoolCalls : call.size \in Nat /\ call.alignment \in Nat
BY HeapAssumption

\* An entry made at address a lies behind a, and in front of what follows if it fits.
LEMMA NewEntryFacts ==
    ASSUME NEW call \in PoolCalls, call.size # 0, NEW a \in Nat, NEW available \in Int
    PROVE  LET e == NewEntry(a, call) IN
           /\ e \in Allocation
           /\ e.size = call.size
           /\ a <= StartOf(e)
           /\ e.data % e.alignment = 0
           /\ InitHeapEntryFits(a, available, call) => EndOf(e) <= a + available
<1> DEFINE alignment == IF call.alignment = 0 THEN DefaultAlignment ELSE call.alignment
           data == AlignUpper(a + EntrySize, alignment)
           e == [data |-> data, size |-> call.size, alignment |-> alignment]
<1>1. call.size \in Nat \ {0} /\ alignment \in Nat \ {0} /\ EntrySize \in Nat /\ TailSize \in Nat /\ a + EntrySize \in Nat
  BY Sizes
<1> HIDE DEF alignment
<1>2. data \in Nat /\ data >= a + EntrySize /\ data % alignment = 0
  BY <1>1, AlignUpperFacts
<1>3. NewEntry(a, call) = e
  BY DEF NewEntry, alignment
<1> HIDE DEF data
<1>4. e \in Allocation /\ e.size = call.size /\ e.data = data /\ e.alignment = alignment
  BY <1>1, <1>2 DEF Allocation
<1> HIDE DEF e
<1>5. a <= StartOf(e)
  BY <1>1, <1>2, <1>4 DEF StartOf
<1>6. ASSUME InitHeapEntryFits(a, available, call)
      PROVE  EndOf(e) <= a + available
  <2>1. data - (a + EntrySize) + (call.size + EntrySize + TailSize) <= available
    BY <1>3, <1>4, <1>6 DEF InitHeapEntryFits, BlockSize
  <2>2. EndOf(e) = data + call.size + TailSize
    BY <1>4 DEF EndOf
  <2> QED
    BY <1>1, <1>2, <2>1, <2>2
<1> QED
  BY <1>2, <1>3, <1>4, <1>5, <1>6

\* Where the search is after k iterations when it started at position start.
LEMMA PositionFacts ==
    ASSUME NEW n \in Nat \ {0}, n = Len(HeapAllocations), RestartIsListed
    PROVE  \E start \in 0 .. n :
              \A k \in 0 .. n - 1 :
                 Position(k, n) = IF start + 1 + k < n + 1 THEN start + 1 + k ELSE start + k - n
<1> DEFINE start == IF EntryToRestartSearch = 0 THEN 0
                    ELSE CHOOSE i \in 1 .. n : HeapAllocations[i].data = EntryToRestartSearch
<1>1. start \in 0 .. n
  <2>1. CASE EntryToRestartSearch = 0
    BY <2>1
  <2>2. CASE EntryToRestartSearch # 0
    <3>1. \E i \in DOMAIN HeapAllocations : HeapAllocations[i].data = EntryToRestartSearch
      BY <2>2 DEF RestartIsListed
    <3>2. \E i \in 1 .. n : HeapAllocations[i].data = EntryToRestartSearch
      BY <3>1
    <3> QED
      BY <2>2, <3>2
  <2> QED
    BY <2>1, <2>2
<1>2. \A k : Position(k, n) = (start + 1 + k) % (n + 1)
  BY DEF Position
<1> HIDE DEF start
<1>3. ASSUME NEW k \in 0 .. n - 1
      PROVE  Position(k, n) = IF start + 1 + k < n + 1 THEN start + 1 + k ELSE start + k - n
  <2>1. n + 1 \in Nat \ {0} /\ start + 1 + k \in Nat /\ start + 1 + k < 2 * (n + 1)
        /\ start + 1 + k - (n + 1) = start + k - n
    BY <1>1
  <2>2. PICK x \in Nat, m \in Nat \ {0} : x = start + 1 + k /\ m = n + 1
    BY <2>1
  <2>3. Position(k, n) = x % m
    BY <1>2, <2>2
  <2>4. (x < m => x % m = x) /\ (x >= m /\ x < 2 * m => x % m = x - m)
    BY RingFacts
  <2>5. CASE x < m
    <3>1. start + 1 + k < n + 1 /\ Position(k, n) = x
      BY <2>2, <2>3, <2>4, <2>5
    <3> QED
      BY <2>2, <3>1
  <2>6. CASE x >= m
    <3>1. Position(k, n) = x - m /\ x - m = start + k - n /\ ~(start + 1 + k < n + 1)
      BY <1>1, <2>1, <2>2, <2>3, <2>4, <2>6
    <3> QED
      BY <3>1
  <2> QED
    BY <2>2, <2>5, <2>6
<1> QED
  BY <1>1, <1>3

\* The gap the search takes lies between two neighbours: behind the head of the ring the
\* entry it remembers is the last one, and what lies between that and the second entry is
\* no gap as the list is ordered.
LEMMA SearchFindsNeighbours ==
    ASSUME HeapIInv, RestartIsListed, NEW call \in PoolCalls, call.size # 0,
           NEW n \in Nat, n = Len(HeapAllocations),
           NEW k \in Decisive(n, call), PreviousHeapEntry(k, n) # 0
    PROVE  /\ Position(k, n) \in 1 .. n - 1
           /\ Position(k + 1, n) = Position(k, n) + 1
           /\ PreviousHeapEntry(k, n) = Position(k, n)
           /\ FitsBetween(k, n, call)
<1>1. k \in 0 .. n - 2 /\ ~Skipped(k, n) /\ FitsBetween(k, n, call)
  BY DEF Decisive
<1>2. n \in Nat \ {0}
  BY <1>1
<1>3. PICK start \in 0 .. n :
         \A j \in 0 .. n - 1 :
            Position(j, n) = IF start + 1 + j < n + 1 THEN start + 1 + j ELSE start + j - n
  BY <1>2, PositionFacts
<1> DEFINE done == {j \in 0 .. k - 1 : ~Skipped(j, n)}
<1>4. ASSUME NEW j \in 0 .. n - 2
      PROVE  /\ Position(j, n) = IF start + j < n THEN start + 1 + j ELSE start + j - n
             /\ Position(j + 1, n) = IF start + j + 1 < n THEN start + 2 + j ELSE start + j + 1 - n
             /\ Skipped(j, n) <=> start + j = n \/ start + j = n - 1
  <2>1. j \in 0 .. n - 1 /\ j + 1 \in 0 .. n - 1
    OBVIOUS
  <2>2. Position(j, n) = IF start + j < n THEN start + 1 + j ELSE start + j - n
    BY <1>3, <2>1
  <2>3. Position(j + 1, n) = IF start + j + 1 < n THEN start + 2 + j ELSE start + j + 1 - n
    BY <1>3, <2>1
  <2>4. Skipped(j, n) <=> Position(j, n) = 0 \/ Position(j + 1, n) = 0
    BY DEF Skipped
  <2> QED
    BY <2>2, <2>3, <2>4
<1>5. /\ start + k # n /\ start + k # n - 1
      /\ Position(k, n) = IF start + k < n THEN start + 1 + k ELSE start + k - n
      /\ Position(k + 1, n) = Position(k, n) + 1
      /\ Position(k, n) \in 1 .. n - 1
  BY <1>1, <1>4
<1>6. ASSUME k = 0 \/ start + k # n + 1
      PROVE  PreviousHeapEntry(k, n) = Position(k, n)
  <2>1. CASE k = 0
    BY <2>1 DEF PreviousHeapEntry
  <2>2. CASE k # 0 /\ start + k # n + 1
    <3>1. k - 1 \in 0 .. n - 2 /\ k - 1 \in 0 .. k - 1 /\ k - 1 + 1 = k
      BY <1>1, <2>2
    <3>2. PICK j \in 0 .. n - 2 : j = k - 1
      BY <3>1
    <3>3. start + j # n /\ start + j # n - 1
      BY <1>1, <1>5, <2>2, <3>2
    <3>4. ~Skipped(k - 1, n)
      BY <1>4, <3>2, <3>3
    <3>5. k - 1 \in done /\ done \subseteq Nat /\ \A i \in done : k - 1 >= i
      BY <1>1, <3>1, <3>4
    <3>6. Max(done) = k - 1 /\ done # {}
      BY <3>5, MaxIs
    <3>7. PreviousHeapEntry(k, n) = Position(k - 1 + 1, n)
      BY <2>2, <3>6 DEF PreviousHeapEntry
    <3> QED
      BY <3>1, <3>7
  <2> QED
    BY <1>6, <2>1, <2>2
<1>7. ASSUME k # 0, start + k = n + 1
      PROVE  FALSE
  <2>1. Position(k, n) = 1 /\ Position(k + 1, n) = 2 /\ n >= 2
    BY <1>1, <1>5, <1>7
  <2>2. PreviousHeapEntry(k, n) = n
    <3>1. CASE k = 1 \/ k = 2
      <4>1. \A j \in 0 .. k - 1 : Skipped(j, n)
        BY <1>1, <1>4, <1>7, <3>1
      <4>2. PreviousHeapEntry(k, n) = 0
        BY <1>7, <4>1 DEF PreviousHeapEntry
      <4> QED
        BY <4>2
    <3>2. CASE k > 2
      <4>1. k - 3 \in 0 .. n - 2 /\ k - 3 \in 0 .. k - 1 /\ k - 3 + 1 = k - 2 /\ start + (k - 3) = n - 2
        BY <1>1, <1>7, <3>2
      <4>2. ~Skipped(k - 3, n) /\ Position(k - 2, n) = n
        <5>1. PICK i \in 0 .. n - 2 : i = k - 3
          BY <4>1
        <5>2. start + i = n - 2 /\ i + 1 = k - 2
          BY <4>1, <5>1
        <5>3. /\ Position(i + 1, n) = IF start + i + 1 < n THEN start + 2 + i ELSE start + i + 1 - n
              /\ Skipped(i, n) <=> start + i = n \/ start + i = n - 1
          BY <1>4
        <5>4. start + i + 1 < n /\ start + 2 + i = n /\ ~(start + i = n \/ start + i = n - 1)
          BY <5>2
        <5>5. Position(i + 1, n) = n /\ ~Skipped(i, n)
          BY <5>3, <5>4
        <5>6. Position(k - 2, n) = Position(i + 1, n) /\ Skipped(k - 3, n) = Skipped(i, n)
          BY <5>1, <5>2
        <5> QED
          BY <5>5, <5>6
      <4>3. ASSUME NEW j \in done
            PROVE  k - 3 >= j /\ j \in Nat
        <5>1. j \in 0 .. k - 1 /\ j \in 0 .. n - 2 /\ ~Skipped(j, n)
          BY <1>1
        <5>2. start + j # n /\ start + j # n - 1
          BY <1>4, <5>1
        <5> QED
          BY <1>1, <1>7, <5>1, <5>2
      <4>4. k - 3 \in done /\ done \subseteq Nat /\ \A j \in done : k - 3 >= j
        BY <4>1, <4>2, <4>3
      <4>5. Max(done) = k - 3 /\ done # {}
        BY <4>4, MaxIs
      <4>6. PreviousHeapEntry(k, n) = Position(k - 3 + 1, n)
        BY <1>7, <4>5 DEF PreviousHeapEntry
      <4> QED
        BY <4>1, <4>2, <4>6
    <3> QED
      BY <1>1, <1>7, <3>1, <3>2
  <2>3. PICK second \in Allocation, last \in Allocation :
           second = HeapAllocations[2] /\ last = HeapAllocations[n]
    <3>1. HeapAllocations \in Seq(Allocation)
      BY DEF HeapIInv, HeapTypeOK, Allocation
    <3>2. 2 \in 1 .. n /\ n \in 1 .. n
      BY <2>1
    <3> QED
      BY <3>1, <3>2
  <2>4. StartOf(second) < EndOf(last)
    <3>1. CASE n = 2
      BY <2>3, <3>1, AllocationFacts
    <3>2. CASE n > 2
      <4>1. EndOf(second) <= StartOf(last)
        BY <2>1, <2>3, <3>2 DEF HeapIInv, ListIsOrdered, Ordered
      <4>2. /\ StartOf(second) \in Int /\ EndOf(second) \in Int /\ StartOf(second) < EndOf(second)
            /\ StartOf(last) \in Int /\ EndOf(last) \in Int /\ StartOf(last) < EndOf(last)
        BY AllocationFacts
      <4> QED
        BY <4>1, <4>2
    <3> QED
      BY <2>1, <3>1, <3>2
  <2>5. Gap(k, n) = StartOf(second) - EndOf(last)
    BY <2>1, <2>2, <2>3 DEF Gap
  <2>6. Gap(k, n) >= BlockSize(call.size) /\ BlockSize(call.size) \in Nat
    BY <1>1, Sizes DEF FitsBetween, BlockSize
  <2>7. StartOf(second) \in Int /\ EndOf(last) \in Int
    BY AllocationFacts
  <2> QED
    BY <2>4, <2>5, <2>6, <2>7
<1> QED
  BY <1>1, <1>5, <1>6, <1>7

----------------------------------------------------------------------------
\* The steps

LEMMA AppendIsInsert ==
    ASSUME NEW s \in Seq(Allocation), NEW e \in Allocation
    PROVE  Append(s, e) = InsertAt(s, Len(s) + 1, e)
<1>1. /\ InsertAt(s, Len(s) + 1, e) \in Seq(Allocation)
      /\ Len(InsertAt(s, Len(s) + 1, e)) = Len(s) + 1
      /\ \A j \in 1 .. Len(s) + 1 :
            InsertAt(s, Len(s) + 1, e)[j] = IF j < Len(s) + 1 THEN s[j] ELSE IF j = Len(s) + 1 THEN e ELSE s[j - 1]
  BY InsertAtFacts
<1>2. /\ Append(s, e) \in Seq(Allocation)
      /\ Len(Append(s, e)) = Len(s) + 1
      /\ \A j \in 1 .. Len(s) + 1 : Append(s, e)[j] = IF j < Len(s) + 1 THEN s[j] ELSE e
  OBVIOUS
<1>3. ASSUME NEW j \in 1 .. Len(s) + 1
      PROVE  Append(s, e)[j] = InsertAt(s, Len(s) + 1, e)[j]
  <2>1. j < Len(s) + 1 \/ j = Len(s) + 1
    OBVIOUS
  <2> QED
    BY <1>1, <1>2, <2>1
<1> QED
  BY <1>1, <1>2, <1>3, SeqEqual

LEMMA AccountIsExact ==
    ASSUME NEW whole \in Int, NEW remaining \in Nat, NEW size \in Nat, size <= remaining
    PROVE  remaining - size \in Nat /\ whole - remaining + size = whole - (remaining - size)
  OBVIOUS

\* What the invariant says, for a list, an address and a number that are not variables.
LEMMA InvariantFacts ==
    ASSUME HeapIInv
    PROVE  /\ HeapAllocations \in Seq(Allocation) /\ Ordered(HeapAllocations)
           /\ FreeAddress \in Nat /\ HeaderSize <= FreeAddress /\ FreeAddress <= HeapSizeMaximum
           /\ HeapSizeRemaining \in Nat /\ HeapNumberOfAllocations = Len(HeapAllocations)
           /\ Bytes(HeapAllocations, HeapSizeMaximum - HeaderSize - HeapSizeRemaining)
           /\ \A i \in 1 .. Len(HeapAllocations) : EndOf(HeapAllocations[i]) <= FreeAddress
<1>1. /\ HeapAllocations \in Seq(Allocation) /\ Ordered(HeapAllocations)
      /\ FreeAddress \in Nat /\ HeaderSize <= FreeAddress /\ FreeAddress <= HeapSizeMaximum
      /\ HeapSizeRemaining \in Nat /\ HeapNumberOfAllocations = Len(HeapAllocations)
      /\ Bytes(HeapAllocations, HeapSizeMaximum - HeaderSize - HeapSizeRemaining)
  BY Sizes DEF HeapIInv, HeapTypeOK, ListIsOrdered, HeapCountersExact, Allocation
<1>2. ASSUME NEW i \in 1 .. Len(HeapAllocations)
      PROVE  EndOf(HeapAllocations[i]) <= FreeAddress
  <2>1. PICK n \in Nat \ {0} : n = Len(HeapAllocations)
    BY <1>1
  <2>2. FreeAddress = EndOf(HeapAllocations[n])
    BY <2>1 DEF HeapIInv, FreeIsBehind
  <2>3. CASE i = n
    BY <1>1, <2>2, <2>3
  <2>4. CASE i < n
    <3>1. EndOf(HeapAllocations[i]) <= StartOf(HeapAllocations[n])
      BY <1>1, <2>1, <2>4 DEF Ordered
    <3>2. PICK last \in Allocation, this \in Allocation : last = HeapAllocations[n] /\ this = HeapAllocations[i]
      BY <1>1, <2>1
    <3>3. EndOf(this) <= StartOf(last) /\ FreeAddress = EndOf(last)
      BY <2>2, <3>1, <3>2
    <3>4. StartOf(last) \in Int /\ EndOf(last) \in Int /\ StartOf(last) < EndOf(last) /\ EndOf(this) \in Int
      BY AllocationFacts
    <3>5. EndOf(this) <= FreeAddress
      BY <3>3, <3>4
    <3> QED
      BY <3>2, <3>5
  <2> QED
    BY <2>1, <2>3, <2>4
<1> QED
  BY <1>1, <1>2

\* A list with a new entry, and the counters after Account.
LEMMA InsertStep ==
    ASSUME HeapIInv, NEW call \in PoolCalls, Possible(call), Account(call),
           NEW e \in Allocation, e.size = call.size, HeaderSize <= StartOf(e), e.data % e.alignment = 0,
           NEW p \in 1 .. Len(HeapAllocations) + 1,
           \A i \in 1 .. p - 1 : EndOf(HeapAllocations[i]) <= StartOf(e),
           \A i \in p .. Len(HeapAllocations) : EndOf(e) <= StartOf(HeapAllocations[i]),
           HeapAllocations' = InsertAt(HeapAllocations, p, e)
    PROVE  /\ HeapAllocations' \in Seq(Allocation)
           /\ HeapSizeRemaining' \in Nat
           /\ ListIsOrdered'
           /\ HeapCountersExact'
           /\ Len(HeapAllocations') = Len(HeapAllocations) + 1
           /\ \A j \in 1 .. Len(HeapAllocations) + 1 :
                 HeapAllocations'[j] = IF j < p THEN HeapAllocations[j]
                                       ELSE IF j = p THEN e ELSE HeapAllocations[j - 1]
<1>1. PICK s \in Seq(Allocation) : s = HeapAllocations
  BY InvariantFacts
<1>2. PICK t : t = HeapAllocations'
  OBVIOUS
<1>3. t = InsertAt(s, p, e) /\ p \in 1 .. Len(s) + 1
  BY <1>1, <1>2
<1>4. t \in Seq(Allocation) /\ Len(t) = Len(s) + 1
      /\ \A j \in 1 .. Len(s) + 1 : t[j] = IF j < p THEN s[j] ELSE IF j = p THEN e ELSE s[j - 1]
  <2>1. InsertAt(s, p, e) \in Seq(Allocation) /\ Len(InsertAt(s, p, e)) = Len(s) + 1
        /\ \A j \in 1 .. Len(s) + 1 : InsertAt(s, p, e)[j] = IF j < p THEN s[j] ELSE IF j = p THEN e ELSE s[j - 1]
    <3>1. p \in 1 .. Len(s) + 1
      BY <1>3
    <3> QED
      BY <3>1, InsertAtFacts
  <2> QED
    BY <1>3, <2>1
<1>5. Ordered(s)
  BY <1>1, InvariantFacts
<1>6. /\ \A i \in 1 .. p - 1 : EndOf(s[i]) <= StartOf(e)
      /\ \A i \in p .. Len(s) : EndOf(e) <= StartOf(s[i])
  BY <1>1
<1>7. Ordered(t)
  BY <1>3, <1>5, <1>6, OrderedInsert
<1>8. PICK size \in Nat, b \in Int : b = HeapSizeMaximum - HeaderSize - HeapSizeRemaining /\ size = BlockSize(e.size)
  <2>1. BlockSize(e.size) \in Nat
    BY AllocationFacts
  <2>2. HeapSizeRemaining \in Nat /\ HeapSizeMaximum \in Nat /\ HeaderSize \in Nat
    BY InvariantFacts, Sizes
  <2>3. HeapSizeMaximum - HeaderSize - HeapSizeRemaining \in Int
    BY <2>2
  <2> QED
    BY <2>1, <2>3
<1>9. Bytes(s, b)
  BY <1>1, <1>8, InvariantFacts
<1>10. b \in Int /\ Bytes(t, b + size)
  BY <1>3, <1>8, <1>9, BytesInsert
<1>11. size <= HeapSizeRemaining /\ HeapSizeRemaining \in Nat /\ HeapSizeRemaining' = HeapSizeRemaining - size
       /\ HeapNumberOfAllocations' = HeapNumberOfAllocations + 1 /\ HeapNumberOfAllocations = Len(s)
  BY <1>1, <1>8, InvariantFacts DEF Possible, Account
<1>12. HeapSizeRemaining' \in Nat /\ b + size = HeapSizeMaximum - HeaderSize - HeapSizeRemaining'
  <2>1. PICK whole \in Int : whole = HeapSizeMaximum - HeaderSize
    BY Sizes
  <2>2. b = whole - HeapSizeRemaining
    BY <1>8, <2>1
  <2>3. HeapSizeRemaining - size \in Nat
        /\ whole - HeapSizeRemaining + size = whole - (HeapSizeRemaining - size)
    BY <1>11, AccountIsExact
  <2> QED
    BY <1>11, <2>1, <2>2, <2>3
<1>13. HeapCountersExact'
  BY <1>2, <1>4, <1>10, <1>11, <1>12 DEF HeapCountersExact
<1>14. ListIsOrdered'
  BY <1>2, <1>7 DEF ListIsOrdered
<1> QED
  BY <1>1, <1>2, <1>4, <1>12, <1>13, <1>14

LEMMA AllocateAtEndStep ==
    ASSUME HeapIInv, NEW call \in PoolCalls, AllocateAtEnd(call)
    PROVE  HeapIInv'
<1>1. call.size # 0 /\ call.size \in Nat /\ FreeAddress \in Nat /\ HeaderSize <= FreeAddress
      /\ FreeAddress <= HeapSizeMaximum
  BY Sizes, InvariantFacts DEF AllocateAtEnd, Possible
<1>2. PICK available \in Int : available = RemainingUntilEnd /\ FreeAddress + available = HeapSizeMaximum - EntrySize
  <2>1. RemainingUntilEnd \in Int /\ FreeAddress + RemainingUntilEnd = HeapSizeMaximum - EntrySize
    BY <1>1, Sizes DEF RemainingUntilEnd
  <2> QED
    BY <2>1
<1>3. InitHeapEntryFits(FreeAddress, available, call)
  BY <1>2 DEF AllocateAtEnd, FitsAtEnd
<1>4. PICK e \in Allocation : e = NewEntry(FreeAddress, call)
  BY <1>1, <1>2, NewEntryFacts
<1>5. e.size = call.size /\ FreeAddress <= StartOf(e) /\ e.data % e.alignment = 0
      /\ EndOf(e) <= FreeAddress + available
  BY <1>1, <1>3, <1>4, NewEntryFacts
<1>6. StartOf(e) \in Int /\ EndOf(e) \in Nat /\ StartOf(e) < EndOf(e)
  BY AllocationFacts
<1>7. PICK n \in Nat : n = Len(HeapAllocations)
  BY InvariantFacts
<1>8. HeapAllocations' = InsertAt(HeapAllocations, n + 1, e)
  <2>1. HeapAllocations' = Append(HeapAllocations, e)
    BY <1>4 DEF AllocateAtEnd
  <2> QED
    BY <1>7, <2>1, AppendIsInsert, InvariantFacts
<1>9. ASSUME NEW i \in 1 .. n + 1 - 1
      PROVE  EndOf(HeapAllocations[i]) <= StartOf(e)
  <2>1. i \in 1 .. Len(HeapAllocations)
    BY <1>7
  <2>2. PICK x \in Allocation : x = HeapAllocations[i]
    BY <2>1, InvariantFacts
  <2>3. EndOf(x) <= FreeAddress /\ EndOf(x) \in Int
    <3>1. EndOf(HeapAllocations[i]) <= FreeAddress
      BY <2>1, InvariantFacts
    <3>2. EndOf(x) \in Int
      BY AllocationFacts
    <3> QED
      BY <2>2, <3>1, <3>2
  <2> QED
    BY <1>1, <1>5, <1>6, <2>2, <2>3
<1>10. \A i \in n + 1 .. n : FALSE
  OBVIOUS
<1>11. n + 1 \in 1 .. Len(HeapAllocations) + 1 /\ HeaderSize <= StartOf(e) /\ Possible(call) /\ Account(call)
  BY <1>1, <1>5, <1>6, <1>7, Sizes DEF AllocateAtEnd
<1>12. /\ HeapAllocations' \in Seq(Allocation) /\ HeapSizeRemaining' \in Nat /\ ListIsOrdered' /\ HeapCountersExact'
       /\ Len(HeapAllocations') = n + 1 /\ HeapAllocations'[n + 1] = e
  <2>1. /\ HeapAllocations' \in Seq(Allocation) /\ HeapSizeRemaining' \in Nat /\ ListIsOrdered' /\ HeapCountersExact'
        /\ Len(HeapAllocations') = n + 1
        /\ \A j \in 1 .. n + 1 : HeapAllocations'[j] = IF j < n + 1 THEN HeapAllocations[j]
                                       ELSE IF j = n + 1 THEN e ELSE HeapAllocations[j - 1]
    BY <1>5, <1>7, <1>8, <1>9, <1>10, <1>11, InsertStep
  <2> QED
    BY <2>1
<1>13. FreeAddress' = EndOf(e) /\ EntryToRestartSearch' = EntryToRestartSearch /\ heapStatus' = heapStatus
  BY <1>4 DEF AllocateAtEnd
<1>14. FreeIsBehind'
  BY <1>12, <1>13 DEF FreeIsBehind
<1>15. EndOf(e) \in HeaderSize .. HeapSizeMaximum
  BY <1>2, <1>5, <1>6, <1>11, Sizes
<1>16. HeapTypeOK'
  BY <1>12, <1>13, <1>15 DEF HeapIInv, HeapTypeOK, HeapCountersExact, Allocation
<1> QED
  BY <1>12, <1>14, <1>16 DEF HeapIInv

LEMMA AllocateBetweenStep ==
    ASSUME HeapIInv, NEW call \in PoolCalls, AllocateBetween(call)
    PROVE  HeapIInv'
<1>1. call.size # 0 /\ call.size \in Nat /\ RestartIsListed /\ Possible(call) /\ Account(call)
  BY Sizes DEF AllocateBetween, Searches, Possible
<1>2. PICK n \in Nat : n = Len(HeapAllocations)
  BY InvariantFacts
<1>3. PICK k : k = Min(Decisive(n, call))
  OBVIOUS
<1>4. Decisive(n, call) # {} /\ PreviousHeapEntry(k, n) # 0
  BY <1>2, <1>3 DEF AllocateBetween
<1>5. k \in Decisive(n, call)
  <2>1. Decisive(n, call) \subseteq Nat
    BY <1>2 DEF Decisive
  <2> QED
    BY <1>3, <1>4, <2>1, MinIsMember
<1>6. PICK p : p = Position(k, n)
  OBVIOUS
<1>7. p \in 1 .. n - 1 /\ Position(k + 1, n) = p + 1 /\ PreviousHeapEntry(k, n) = p /\ FitsBetween(k, n, call)
  BY <1>1, <1>2, <1>4, <1>5, <1>6, SearchFindsNeighbours
<1>8. PICK before \in Allocation, after \in Allocation : before = HeapAllocations[p] /\ after = HeapAllocations[p + 1]
  BY <1>2, <1>7, InvariantFacts
<1>9. /\ StartOf(before) \in Int /\ EndOf(before) \in Nat /\ StartOf(before) < EndOf(before)
      /\ StartOf(after) \in Int /\ EndOf(after) \in Nat /\ StartOf(after) < EndOf(after)
  BY AllocationFacts
<1>10. PICK available \in Int : available = StartOf(after) - EndOf(before)
  BY <1>9
<1>11. InitHeapEntryFits(EndOf(before), available, call)
  BY <1>7, <1>8, <1>10 DEF FitsBetween, Gap
<1>12. PICK e \in Allocation : e = NewEntry(EndOf(before), call)
  BY <1>1, <1>9, <1>10, NewEntryFacts
<1>13. e.size = call.size /\ EndOf(before) <= StartOf(e) /\ e.data % e.alignment = 0
       /\ EndOf(e) <= EndOf(before) + available
  BY <1>1, <1>9, <1>11, <1>12, NewEntryFacts
<1>14. EndOf(e) <= StartOf(after) /\ StartOf(e) \in Int /\ EndOf(e) \in Nat /\ StartOf(e) < EndOf(e) /\ e.data \in Nat
  BY <1>9, <1>10, <1>13, AllocationFacts
<1>15. /\ HeapAllocations' = InsertAt(HeapAllocations, p + 1, e)
       /\ EntryToRestartSearch' = e.data /\ FreeAddress' = FreeAddress /\ heapStatus' = heapStatus
  BY <1>2, <1>3, <1>6, <1>7, <1>8, <1>12 DEF AllocateBetween
<1>16. HeaderSize <= StartOf(before)
  BY <1>2, <1>7, <1>8, InvariantFacts DEF Ordered
<1>17. ASSUME NEW i \in 1 .. p + 1 - 1
       PROVE  EndOf(HeapAllocations[i]) <= StartOf(e)
  <2>1. i \in 1 .. n /\ p \in 1 .. n /\ (i = p \/ i < p)
    BY <1>7
  <2>2. PICK x \in Allocation : x = HeapAllocations[i]
    BY <1>2, <2>1, InvariantFacts
  <2>3. CASE i = p
    BY <1>8, <1>13, <2>3
  <2>4. CASE i < p
    <3>1. EndOf(x) <= StartOf(before)
      BY <1>2, <1>8, <2>1, <2>2, <2>4, InvariantFacts DEF Ordered
    <3>2. EndOf(x) \in Int
      BY AllocationFacts
    <3> QED
      BY <1>9, <1>13, <1>14, <2>2, <3>1, <3>2
  <2> QED
    BY <2>1, <2>3, <2>4
<1>18. ASSUME NEW i \in p + 1 .. n
       PROVE  EndOf(e) <= StartOf(HeapAllocations[i])
  <2>1. i \in 1 .. n /\ p + 1 \in 1 .. n /\ (i = p + 1 \/ i > p + 1)
    BY <1>7
  <2>2. PICK x \in Allocation : x = HeapAllocations[i]
    BY <1>2, <2>1, InvariantFacts
  <2>3. CASE i = p + 1
    BY <1>8, <1>14, <2>3
  <2>4. CASE i > p + 1
    <3>1. EndOf(after) <= StartOf(x)
      BY <1>2, <1>8, <2>1, <2>2, <2>4, InvariantFacts DEF Ordered
    <3>2. StartOf(x) \in Int
      BY AllocationFacts
    <3> QED
      BY <1>9, <1>14, <2>2, <3>1, <3>2
  <2> QED
    BY <2>1, <2>3, <2>4
<1>19. p + 1 \in 1 .. Len(HeapAllocations) + 1 /\ HeaderSize <= StartOf(e)
  <2>1. p + 1 \in 1 .. Len(HeapAllocations) + 1
    BY <1>2, <1>7
  <2>2. HeaderSize \in Nat
    BY Sizes
  <2>3. EndOf(before) <= StartOf(e)
    BY <1>13
  <2> QED
    BY <1>9, <1>14, <1>16, <2>1, <2>2, <2>3
<1>20. /\ HeapAllocations' \in Seq(Allocation) /\ HeapSizeRemaining' \in Nat /\ ListIsOrdered' /\ HeapCountersExact'
       /\ Len(HeapAllocations') = n + 1
       /\ \A j \in 1 .. n + 1 : HeapAllocations'[j] = IF j < p + 1 THEN HeapAllocations[j]
                                      ELSE IF j = p + 1 THEN e ELSE HeapAllocations[j - 1]
  <2>1. PICK q : q = p + 1
    OBVIOUS
  <2>2. \A i \in 1 .. q - 1 : EndOf(HeapAllocations[i]) <= StartOf(e)
    <3>1. q - 1 = p + 1 - 1
      BY <1>7, <2>1
    <3>2. \A i \in 1 .. p + 1 - 1 : EndOf(HeapAllocations[i]) <= StartOf(e)
      BY <1>17
    <3> QED
      BY <3>1, <3>2
  <2>3. \A i \in q .. Len(HeapAllocations) : EndOf(e) <= StartOf(HeapAllocations[i])
    BY <1>2, <1>18, <2>1
  <2>4. HeapAllocations' = InsertAt(HeapAllocations, q, e) /\ q \in 1 .. Len(HeapAllocations) + 1
    BY <1>15, <1>19, <2>1
  <2>5. e.size = call.size /\ e.data % e.alignment = 0 /\ HeaderSize <= StartOf(e)
    BY <1>13, <1>19
  <2>6. /\ HeapAllocations' \in Seq(Allocation) /\ HeapSizeRemaining' \in Nat /\ ListIsOrdered' /\ HeapCountersExact'
        /\ Len(HeapAllocations') = Len(HeapAllocations) + 1
        /\ \A j \in 1 .. Len(HeapAllocations) + 1 :
              HeapAllocations'[j] = IF j < q THEN HeapAllocations[j] ELSE IF j = q THEN e ELSE HeapAllocations[j - 1]
    BY <1>1, <2>2, <2>3, <2>4, <2>5, InsertStep
  <2> QED
    BY <1>2, <2>1, <2>6
<1>21. HeapAllocations'[n + 1] = HeapAllocations[n]
  <2>1. n + 1 \in 1 .. n + 1 /\ ~(n + 1 < p + 1) /\ n + 1 # p + 1 /\ n + 1 - 1 = n
    BY <1>7
  <2> QED
    BY <1>20, <2>1
<1>22. FreeAddress = EndOf(HeapAllocations[n])
  BY <1>2, <1>7 DEF HeapIInv, FreeIsBehind
<1>23. FreeIsBehind'
  <2>1. Len(HeapAllocations') # 0 /\ Len(HeapAllocations') = n + 1
    BY <1>20
  <2> QED
    BY <1>15, <1>21, <1>22, <2>1 DEF FreeIsBehind
<1>24. HeapTypeOK'
  BY <1>14, <1>15, <1>20 DEF HeapIInv, HeapTypeOK, HeapCountersExact, Allocation
<1> QED
  BY <1>20, <1>23, <1>24 DEF HeapIInv

LEMMA FreeStep ==
    ASSUME HeapIInv, NEW i \in DOMAIN HeapAllocations, ClHeapFreePoolWithTag(i)
    PROVE  HeapIInv'
<1>1. PICK s \in Seq(Allocation) : s = HeapAllocations
  BY InvariantFacts
<1>2. PICK n \in Nat \ {0} : n = Len(s) /\ i \in 1 .. n
  BY <1>1
<1>3. PICK t : t = HeapAllocations'
  OBVIOUS
<1>4. t = RemoveAt(s, i)
  BY <1>1, <1>3 DEF ClHeapFreePoolWithTag
<1>5. RemoveAt(s, i) \in Seq(Allocation) /\ Len(RemoveAt(s, i)) = n - 1
      /\ \A j \in 1 .. n - 1 : RemoveAt(s, i)[j] = IF j < i THEN s[j] ELSE s[j + 1]
  BY <1>2, RemoveAtFacts
<1>6. Ordered(s)
  BY <1>1, InvariantFacts
<1>7. Ordered(t)
  BY <1>2, <1>4, <1>6, OrderedRemove
<1>8. PICK removed \in Allocation, size \in Nat : removed = s[i] /\ size = BlockSize(removed.size)
  <2>1. s[i] \in Allocation
    BY <1>2
  <2> QED
    BY <2>1, AllocationFacts
<1>9. HeapSizeRemaining \in Nat /\ HeapSizeRemaining' = HeapSizeRemaining + size
      /\ HeapNumberOfAllocations = n /\ HeapNumberOfAllocations' = n - 1
  BY <1>1, <1>2, <1>8, InvariantFacts DEF ClHeapFreePoolWithTag
<1>10. PICK whole \in Int : whole = HeapSizeMaximum - HeaderSize
  BY Sizes
<1>11. Bytes(s, whole - HeapSizeRemaining)
  BY <1>1, <1>10, InvariantFacts
<1>12. Bytes(t, whole - HeapSizeRemaining - size)
  <2>1. PICK b : b = whole - HeapSizeRemaining
    OBVIOUS
  <2>2. Bytes(RemoveAt(s, i), b - BlockSize(s[i].size))
    BY <1>2, <1>11, <2>1, BytesRemove
  <2> QED
    BY <1>4, <1>8, <2>1, <2>2
<1>13. whole - HeapSizeRemaining - size = HeapSizeMaximum - HeaderSize - HeapSizeRemaining'
  BY <1>9, <1>10
<1>14. HeapCountersExact'
  <2>1. HeapNumberOfAllocations' = Len(HeapAllocations')
    BY <1>3, <1>4, <1>5, <1>9
  <2>2. Bytes(HeapAllocations', HeapSizeMaximum - HeaderSize - HeapSizeRemaining')
    BY <1>3, <1>12, <1>13
  <2> QED
    BY <2>1, <2>2 DEF HeapCountersExact
<1>15. ListIsOrdered'
  BY <1>3, <1>7 DEF ListIsOrdered
<1>16. EntryToRestartSearch' = EntryToRestartSearch /\ heapStatus' = heapStatus
       /\ FreeAddress' = IF EndOf(removed) = FreeAddress THEN PreviousAddress(i) ELSE FreeAddress
  BY <1>1, <1>8 DEF ClHeapFreePoolWithTag
<1>17. PICK last \in Allocation : last = s[n]
  BY <1>2
<1>18. FreeAddress = EndOf(last)
  BY <1>1, <1>2, <1>17 DEF HeapIInv, FreeIsBehind
<1>19. /\ StartOf(last) \in Int /\ EndOf(last) \in Nat /\ StartOf(last) < EndOf(last)
       /\ EndOf(removed) \in Nat
  BY AllocationFacts
<1>20. CASE i = n
  <2>1. FreeAddress' = PreviousAddress(n)
    BY <1>8, <1>16, <1>17, <1>18, <1>20
  <2>2. CASE n = 1
    <3>1. FreeAddress' = HeaderSize /\ Len(t) = 0
      BY <1>4, <1>5, <2>1, <2>2 DEF PreviousAddress
    <3>2. FreeIsBehind'
      BY <1>3, <3>1 DEF FreeIsBehind
    <3>3. HeaderSize \in HeaderSize .. HeapSizeMaximum
      BY Sizes
    <3>4. HeapTypeOK'
      BY <1>3, <1>4, <1>5, <1>9, <1>16, <3>1, <3>3 DEF HeapIInv, HeapTypeOK, Allocation
    <3> QED
      BY <1>14, <1>15, <3>2, <3>4 DEF HeapIInv
  <2>3. CASE n # 1
    <3>1. n - 1 \in 1 .. n - 1 /\ n - 1 < i /\ n - 1 # 0 /\ n - 1 \in 1 .. n
      BY <1>2, <1>20, <2>3
    <3>2. t[n - 1] = s[n - 1] /\ Len(t) = n - 1
      BY <1>4, <1>5, <3>1
    <3>3. FreeAddress' = EndOf(s[n - 1])
      BY <1>1, <2>1, <2>3 DEF PreviousAddress
    <3>4. FreeIsBehind'
      <4>1. Len(HeapAllocations') = n - 1 /\ HeapAllocations'[n - 1] = s[n - 1]
        BY <1>3, <3>2
      <4> QED
        BY <3>1, <3>3, <4>1 DEF FreeIsBehind
    <3>5. PICK x \in Allocation : x = s[n - 1]
      BY <1>2, <3>1
    <3>6. EndOf(x) \in HeaderSize .. HeapSizeMaximum
      <4>1. EndOf(x) <= FreeAddress
        BY <1>1, <1>2, <3>1, <3>5, InvariantFacts
      <4>2. HeaderSize <= StartOf(x)
        BY <1>2, <1>6, <3>1, <3>5 DEF Ordered
      <4>3. StartOf(x) \in Int /\ EndOf(x) \in Nat /\ StartOf(x) < EndOf(x)
        BY AllocationFacts
      <4>4. FreeAddress \in Nat /\ FreeAddress <= HeapSizeMaximum /\ HeapSizeMaximum \in Nat /\ HeaderSize \in Nat
        BY InvariantFacts, Sizes
      <4> QED
        BY <4>1, <4>2, <4>3, <4>4
    <3>7. HeapTypeOK'
      BY <1>3, <1>4, <1>5, <1>9, <1>16, <3>3, <3>5, <3>6 DEF HeapIInv, HeapTypeOK, Allocation
    <3> QED
      BY <1>14, <1>15, <3>4, <3>7 DEF HeapIInv
  <2> QED
    BY <2>2, <2>3
<1>21. CASE i # n
  <2>1. i < n /\ i \in 1 .. n /\ n \in 1 .. n
    BY <1>2, <1>21
  <2>2. EndOf(removed) <= StartOf(last)
    BY <1>2, <1>6, <1>8, <1>17, <2>1 DEF Ordered
  <2>3. FreeAddress' = FreeAddress
    <3>1. EndOf(removed) # FreeAddress
      BY <1>18, <1>19, <2>2
    <3> QED
      BY <1>16, <3>1
  <2>4. t[n - 1] = s[n] /\ Len(t) = n - 1 /\ n - 1 # 0
    <3>1. n - 1 \in 1 .. n - 1 /\ ~(n - 1 < i) /\ n - 1 + 1 = n
      BY <2>1
    <3> QED
      BY <1>4, <1>5, <3>1
  <2>5. FreeIsBehind'
    <3>1. Len(HeapAllocations') = n - 1 /\ HeapAllocations'[n - 1] = last
      BY <1>3, <1>17, <2>4
    <3> QED
      BY <1>18, <2>3, <2>4, <3>1 DEF FreeIsBehind
  <2>6. HeapTypeOK'
    BY <1>3, <1>4, <1>5, <1>9, <1>16, <2>3 DEF HeapIInv, HeapTypeOK, Allocation
  <2> QED
    BY <1>14, <1>15, <2>5, <2>6 DEF HeapIInv
<1> QED
  BY <1>20, <1>21

LEMMA OnlyStatusChanges ==
    ASSUME HeapIInv, heapStatus' \in {"running", "panic", "undefined"},
           UNCHANGED <<HeapAllocations, FreeAddress, HeapSizeRemaining, HeapNumberOfAllocations,
                       EntryToRestartSearch>>
    PROVE  HeapIInv'
BY DEF HeapIInv, HeapTypeOK, ListIsOrdered, FreeIsBehind, HeapCountersExact

\* The list stays ordered and accounted for through any sequence of allocations and frees.
THEOREM HeapInvariantHolds == HeapSpec => []HeapIInv
<1>1. ClHeapInit => HeapIInv
  <2> SUFFICES ASSUME ClHeapInit
               PROVE  HeapIInv
    OBVIOUS
  <2>1. HeapAllocations = <<>> /\ Len(HeapAllocations) = 0 /\ HeapAllocations \in Seq(Allocation)
    BY DEF ClHeapInit
  <2>2. HeapTypeOK
    BY <2>1, Sizes DEF ClHeapInit, HeapTypeOK, Allocation
  <2>3. ListIsOrdered
    BY <2>1 DEF ListIsOrdered, Ordered
  <2>4. HeapCountersExact
    <3> DEFINE total == [i \in 0 .. 0 |-> 0]
    <3>1. IsTotal(total, HeapAllocations) /\ total[Len(HeapAllocations)] = 0
      BY <2>1 DEF IsTotal
    <3>2. HeapSizeMaximum - HeaderSize - HeapSizeRemaining = 0
      BY Sizes DEF ClHeapInit
    <3>3. Bytes(HeapAllocations, 0)
      BY <3>1 DEF Bytes
    <3> QED
      BY <2>1, <3>2, <3>3 DEF HeapCountersExact, ClHeapInit
  <2> QED
    BY <2>1, <2>2, <2>3, <2>4 DEF HeapIInv, FreeIsBehind, ClHeapInit
<1>2. HeapIInv /\ [HeapNext]_heapVars => HeapIInv'
  <2> SUFFICES ASSUME HeapIInv, [HeapNext]_heapVars
               PROVE  HeapIInv'
    OBVIOUS
  <2>0. heapStatus \in {"running", "panic", "undefined"}
    BY DEF HeapIInv, HeapTypeOK
  <2>1. ASSUME NEW call \in PoolCalls, ClHeapAllocatePoolWithTag(call)
        PROVE  HeapIInv'
    <3>1. CASE AllocateAtEnd(call)
      BY <3>1, AllocateAtEndStep
    <3>2. CASE AllocateBetween(call)
      BY <3>2, AllocateBetweenStep
    <3>3. CASE AllocationFails(call)
      BY <2>0, <3>3, OnlyStatusChanges DEF AllocationFails
    <3>4. CASE SearchBreaks(call)
      BY <2>0, <3>4, OnlyStatusChanges DEF SearchBreaks
    <3> QED
      BY <2>1, <3>1, <3>2, <3>3, <3>4 DEF ClHeapAllocatePoolWithTag
  <2>2. ASSUME NEW i \in DOMAIN HeapAllocations, ClHeapFreePoolWithTag(i)
        PROVE  HeapIInv'
    BY <2>2, FreeStep
  <2>3. CASE UNCHANGED heapVars
    BY <2>0, <2>3, OnlyStatusChanges DEF heapVars
  <2> QED
    BY <2>1, <2>2, <2>3 DEF HeapNext
<1> QED
  BY <1>1, <1>2, PTL DEF HeapSpec

\* "this list is always ordered by address" (cl_heap.h), for a heap of any size: whatever
\* the circular search squeezes in, no two allocations overlap, their data are aligned,
\* FreeAddress is the end of the last one and the bytes that remain are exact.
THEOREM HeapIsCorrect == HeapSpec => []HeapInv
<1>1. ASSUME HeapIInv
      PROVE  HeapInv
  <2>1. PICK n \in Nat : n = Len(HeapAllocations)
    BY <1>1, InvariantFacts
  <2>2. ASSUME NEW i \in 1 .. n
        PROVE  /\ PreviousAddress(i) <= StartOf(HeapAllocations[i])
               /\ HeapAllocations[i].data % HeapAllocations[i].alignment = 0
    <3>1. Ordered(HeapAllocations)
      BY <1>1, InvariantFacts
    <3>2. HeaderSize <= StartOf(HeapAllocations[i]) /\ HeapAllocations[i].data % HeapAllocations[i].alignment = 0
      BY <2>1, <3>1 DEF Ordered
    <3>3. CASE i = 1
      BY <3>2, <3>3 DEF PreviousAddress
    <3>4. CASE i # 1
      <4>1. i - 1 \in 1 .. n /\ i - 1 < i
        BY <3>4
      <4>2. EndOf(HeapAllocations[i - 1]) <= StartOf(HeapAllocations[i])
        BY <2>1, <3>1, <4>1 DEF Ordered
      <4> QED
        BY <3>2, <3>4, <4>2 DEF PreviousAddress
    <3> QED
      BY <3>3, <3>4
  <2>3. FreeAddress = PreviousAddress(n + 1)
    <3>1. n + 1 - 1 = n /\ (n = 0 <=> n + 1 = 1)
      OBVIOUS
    <3> QED
      BY <1>1, <2>1, <3>1 DEF HeapIInv, FreeIsBehind, PreviousAddress
  <2>4. HeapAllocations \in Seq(Allocation) /\ HeapSizeRemaining \in Nat /\ HeapNumberOfAllocations = n
    BY <1>1, <2>1, InvariantFacts
  <2>5. HeapSizeRemaining = HeapSizeMaximum - HeaderSize - AllocatedBytes
    <3>1. AllocatedBytes = HeapSizeMaximum - HeaderSize - HeapSizeRemaining
      BY <1>1, <2>4, BytesAreAllocated DEF HeapIInv, HeapCountersExact
    <3> QED
      BY <2>4, <3>1, Sizes
  <2>6. HeapTypeOK
    BY <1>1 DEF HeapIInv
  <2> QED
    BY <2>1, <2>2, <2>3, <2>4, <2>5, <2>6 DEF HeapInv
<1> QED
  BY <1>1, HeapInvariantHolds, PTL

----------------------------------------------------------------------------
\* Page frames

\* Frame f lies from its first byte to its last in usable RAM of the map.
UsableIn(map, f) ==
    \E i \in DOMAIN map :
        /\ map[i].Valid /\ map[i].Type = "UsableRAM" /\ MB_SIZE <= map[i].BaseAddress
        /\ map[i].BaseAddress <= f * PAGE_SIZE
        /\ (f + 1) * PAGE_SIZE <= map[i].BaseAddress + map[i].Length

\* The bitmap _PmmInitializeAllocationBitmap builds for a map is exact, and no assertion
\* fails while it is built.
BootIsExact ==
    \A map \in MemoryMaps : Len(map) # 0 =>
        /\ IsBitmap(InitialBitmap(map))
        /\ \A f \in DOMAIN InitialBitmap(map) : InitialBitmap(map)[f] <=> ~UsableIn(map, f)
        /\ \A i \in DOMAIN map : IsGivenOut(map[i]) =>
              CanSetBits(InitialBitmap(map), ReleasedRun(map[i]).index, ReleasedRun(map[i]).count)

\* The inductive invariant, one part for each thing that is about a frame.
FrameRuns == [index : Nat, count : Nat \ {0}]
Calls == [frames : 0 .. MaxFrames, min : MinAddresses \cup {0}, address : Nat]

FramesTyped ==
    /\ MemoryEntries \in MemoryMaps
    /\ Booted => IsBitmap(AllocationBitmap)
    /\ held \subseteq DOMAIN AllocationBitmap
    /\ result \in Calls
    /\ asserted = FALSE

WorkerTyped ==
    /\ NewPagesSignaled \in BOOLEAN /\ signaling \subseteq Releasers
    /\ zeroer \in {"wait", "blocked", "remove", "clear", "zero", "release", "halted"}
    /\ PagesToZeroList \in Seq(FrameRuns)
    /\ item \in FrameRuns \cup {NoItem}
    /\ zeroer \in {"zero", "release", "halted"} <=> item \in FrameRuns
    /\ dirty \subseteq DOMAIN AllocationBitmap

QueuedIsHeld ==
    /\ Frames(item) \subseteq held
    /\ \A i \in DOMAIN PagesToZeroList : Frames(PagesToZeroList[i]) \subseteq held

ReleasedIsZeroed == zeroer = "release" => Frames(item) \cap dirty = {}

ZeroIInv ==
    /\ FramesTyped /\ BitmapExact /\ UnusableStaysReserved
    /\ WorkerTyped /\ QueuedIsHeld /\ QueuedOnce /\ FreeIsZeroed /\ ReleasedIsZeroed

FramesInv == FramesTyped /\ BitmapExact /\ UnusableStaysReserved

LEMMA UsableIsUsable ==
    ASSUME NEW f
    PROVE  f \in UsableFrames <=> f \in DOMAIN AllocationBitmap /\ UsableIn(MemoryEntries, f)
BY DEF UsableFrames, UsableIn

LEMMA FramesFacts ==
    ASSUME FramesInv, Booted
    PROVE  \E n \in 1 .. MAX_DWORD - 1 :
              /\ n \in Nat /\ n < MAX_DWORD /\ AllocationBitmap \in [0 .. n - 1 -> BOOLEAN]
              /\ BitCount(AllocationBitmap) = n
<1>1. PICK n \in 1 .. MAX_DWORD - 1 : AllocationBitmap \in [0 .. n - 1 -> BOOLEAN]
  BY DEF FramesInv, FramesTyped, IsBitmap
<1>2. n \in 1 .. MAX_DWORD /\ n \in Nat /\ n < MAX_DWORD
  BY DwordAssumption
<1>3. BitCount(AllocationBitmap) = n
  BY <1>1, <1>2, BitCountIs
<1> QED
  BY <1>1, <1>2, <1>3

\* Nothing of the memory manager changes.
LEMMA FramesUnchanged ==
    ASSUME FramesInv, UNCHANGED pmmVars
    PROVE  FramesInv'
<1>1. /\ MemoryEntries' = MemoryEntries /\ AllocationBitmap' = AllocationBitmap /\ held' = held
      /\ asserted' = asserted /\ result' = result
  BY DEF pmmVars
<1>2. UsableFrames' = UsableFrames
  BY <1>1 DEF UsableFrames
<1> QED
  BY <1>1, <1>2 DEF FramesInv, FramesTyped, Booted, BitmapExact, UnusableStaysReserved

\* PmmReserveMemoryEx: the frames that get reserved were free and usable.
LEMMA ReserveFrames ==
    ASSUME FramesInv, NEW n \in 0 .. MaxFrames, NEW a \in MinAddresses, PmmReserveMemoryEx(n, a)
    PROVE  /\ FramesInv'
           /\ held \subseteq held'
           /\ Booted'
           /\ DOMAIN AllocationBitmap' = DOMAIN AllocationBitmap
           /\ \A f \in DOMAIN AllocationBitmap : f \in held' \ held => AllocationBitmap'[f]
           /\ \A f \in DOMAIN AllocationBitmap : AllocationBitmap[f] => AllocationBitmap'[f]
<1>1. Booted /\ ~asserted
  BY DEF PmmReserveMemoryEx
<1>2. PICK size \in 1 .. MAX_DWORD - 1 :
         /\ size \in Nat /\ size < MAX_DWORD /\ AllocationBitmap \in [0 .. size - 1 -> BOOLEAN]
         /\ BitCount(AllocationBitmap) = size
  BY <1>1, FramesFacts
<1>3. n \in Nat /\ a \in Nat /\ a \div PAGE_SIZE \in Nat /\ MAX_DWORD \in Nat
  BY PmmAssumption, DwordAssumption
<1>4. PICK idx : idx = ReserveIndex(n, a)
  OBVIOUS
<1>5. /\ AllocationBitmap' = Flip(AllocationBitmap, idx, n, FALSE)
      /\ held' = held \cup (IF idx = MAX_DWORD THEN {} ELSE idx .. idx + n - 1)
      /\ result' = [frames |-> n, min |-> a, address |-> IF idx = MAX_DWORD THEN 0 ELSE idx * PAGE_SIZE]
      /\ MemoryEntries' = MemoryEntries /\ asserted' = asserted
  BY <1>4 DEF PmmReserveMemoryEx
<1>6. \/ idx = MAX_DWORD
      \/ /\ idx \in Nat /\ n > 0 /\ idx # MAX_DWORD
         /\ \A k \in idx .. idx + n - 1 : k \in 0 .. size - 1 /\ AllocationBitmap[k] = FALSE
  <2>1. CASE n = 0 \/ a % PAGE_SIZE # 0 \/ a \div PAGE_SIZE > MAX_DWORD
    BY <1>4, <2>1 DEF ReserveIndex
  <2>2. CASE ~(n = 0 \/ a % PAGE_SIZE # 0 \/ a \div PAGE_SIZE > MAX_DWORD)
    <3>1. idx = ScanFromTo(AllocationBitmap, a \div PAGE_SIZE, size, n, FALSE)
      BY <1>2, <1>4, <2>2 DEF ReserveIndex
    <3>2. size \in 0 .. size
      BY <1>2
    <3>3. IsFirstRun(idx, AllocationBitmap, a \div PAGE_SIZE, size, n, FALSE)
      BY <1>2, <1>3, <3>1, <3>2, ScanFindsFirstRun
    <3>4. idx = MAX_DWORD \/ idx \in Runs(AllocationBitmap, a \div PAGE_SIZE, size, n, FALSE)
      BY <3>3 DEF IsFirstRun
    <3>5. DOMAIN AllocationBitmap = 0 .. size - 1
      BY <1>2
    <3>6. ASSUME idx \in Runs(AllocationBitmap, a \div PAGE_SIZE, size, n, FALSE)
          PROVE  /\ idx \in Nat /\ n > 0 /\ idx # MAX_DWORD
                 /\ \A k \in idx .. idx + n - 1 : k \in 0 .. size - 1 /\ AllocationBitmap[k] = FALSE
      <4>1. idx \in 0 .. size - 1 /\ n > 0
            /\ \A k \in idx .. idx + n - 1 : k \in 0 .. size - 1 /\ AllocationBitmap[k] = FALSE
        BY <3>5, <3>6 DEF Runs
      <4> QED
        BY <1>2, <1>3, <4>1
    <3> QED
      BY <3>4, <3>6
  <2> QED
    BY <2>1, <2>2
<1>7. result' \in Calls
  <2>1. (IF idx = MAX_DWORD THEN 0 ELSE idx * PAGE_SIZE) \in Nat
    <3>1. CASE idx = MAX_DWORD
      BY <3>1
    <3>2. CASE idx # MAX_DWORD
      <4>1. idx \in Nat /\ PAGE_SIZE \in Nat
        BY <1>6, <3>2, PmmAssumption
      <4>2. idx * PAGE_SIZE \in Nat
        BY <4>1
      <4> QED
        BY <3>2, <4>2
    <3> QED
      BY <3>1, <3>2
  <2> QED
    BY <1>5, <2>1 DEF Calls
<1>8. CASE idx = MAX_DWORD
  <2>1. AllocationBitmap' = AllocationBitmap /\ held' = held
    BY <1>5, <1>8 DEF Flip
  <2>2. UsableFrames' = UsableFrames
    BY <1>5, <2>1 DEF UsableFrames
  <2>3. FramesInv'
    BY <1>5, <1>7, <2>1, <2>2 DEF FramesInv, FramesTyped, Booted, BitmapExact, UnusableStaysReserved
  <2> QED
    BY <1>1, <2>1, <2>3 DEF Booted
<1>9. CASE idx # MAX_DWORD
  <2> DEFINE run == idx .. idx + n - 1
  <2>1. /\ idx \in Nat /\ n > 0
        /\ \A k \in run : k \in 0 .. size - 1 /\ AllocationBitmap[k] = FALSE
    BY <1>6, <1>9
  <2>2. held' = held \cup run
    BY <1>5, <1>9
  <2>3. AllocationBitmap' = [f \in 0 .. size - 1 |-> IF idx <= f /\ f < idx + n THEN TRUE ELSE AllocationBitmap[f]]
    BY <1>2, <1>5, <1>9 DEF Flip, ChangeBits
  <2>4. \A f \in 0 .. size - 1 : (idx <= f /\ f < idx + n) <=> f \in run
    BY <1>3, <2>1
  <2>5. run \subseteq 0 .. size - 1
    BY <2>1
  <2> HIDE DEF run
  <2>6. \A f \in 0 .. size - 1 : AllocationBitmap'[f] = IF f \in run THEN TRUE ELSE AllocationBitmap[f]
    BY <2>3, <2>4
  <2>7. DOMAIN AllocationBitmap' = 0 .. size - 1 /\ DOMAIN AllocationBitmap = 0 .. size - 1
    BY <1>2, <2>3
  <2>8. AllocationBitmap' \in [0 .. size - 1 -> BOOLEAN]
    <3>1. \A f \in 0 .. size - 1 : (IF idx <= f /\ f < idx + n THEN TRUE ELSE AllocationBitmap[f]) \in BOOLEAN
      BY <1>2
    <3> QED
      BY <2>3, <3>1
  <2>9. UsableFrames' = UsableFrames
    BY <1>5, <2>7 DEF UsableFrames
  <2>10. BitmapExact'
    <3>1. ASSUME NEW f \in 0 .. size - 1
          PROVE  AllocationBitmap'[f] <=> f \notin UsableFrames \/ f \in held \cup run
      <4>1. AllocationBitmap[f] <=> f \notin UsableFrames \/ f \in held
        BY <1>1, <2>7 DEF FramesInv, BitmapExact
      <4> QED
        BY <2>6, <4>1
    <3> QED
      BY <2>2, <2>7, <2>9, <3>1 DEF BitmapExact
  <2>11. UnusableStaysReserved'
    <3>1. ASSUME NEW f \in run
          PROVE  f \in UsableFrames
      <4>1. f \in DOMAIN AllocationBitmap /\ AllocationBitmap[f] = FALSE
        BY <2>1, <2>7 DEF run
      <4> QED
        BY <1>1, <4>1 DEF FramesInv, BitmapExact
    <3> QED
      BY <2>2, <2>9, <3>1 DEF FramesInv, UnusableStaysReserved
  <2>12. IsBitmap(AllocationBitmap')
    BY <2>8 DEF IsBitmap
  <2>13. FramesTyped'
    BY <1>5, <1>7, <2>2, <2>5, <2>7, <2>12 DEF FramesInv, FramesTyped
  <2>14. AllocationBitmap' # <<>>
    <3>1. 0 \in DOMAIN AllocationBitmap'
      BY <1>2, <2>7
    <3> QED
      BY <3>1
  <2>15. FramesInv'
    BY <2>10, <2>11, <2>13 DEF FramesInv
  <2> QED
    BY <2>2, <2>6, <2>7, <2>14, <2>15 DEF Booted
<1> QED
  BY <1>8, <1>9

\* PmmReleaseMemory: no assertion fails and only frames of the run become free.
LEMMA ReleaseFrames ==
    ASSUME FramesInv, NEW index \in Nat, NEW n \in Nat, PmmReleaseMemory(index, n)
    PROVE  /\ FramesInv'
           /\ held' = held \ (index .. index + n - 1)
           /\ DOMAIN AllocationBitmap' = DOMAIN AllocationBitmap
           /\ \A f \in DOMAIN AllocationBitmap :
                 AllocationBitmap'[f] = IF f \in index .. index + n - 1 THEN FALSE ELSE AllocationBitmap[f]
<1>1. Booted /\ n > 0 /\ index .. index + n - 1 \subseteq held
  BY DEF PmmReleaseMemory
<1>2. PICK size \in 1 .. MAX_DWORD - 1 :
         /\ size \in Nat /\ size < MAX_DWORD /\ AllocationBitmap \in [0 .. size - 1 -> BOOLEAN]
         /\ BitCount(AllocationBitmap) = size
  BY <1>1, FramesFacts
<1>3. /\ AllocationBitmap' = ChangeBits(AllocationBitmap, index, FALSE, n)
      /\ asserted' = ~CanSetBits(AllocationBitmap, index, n)
      /\ held' = held \ (index .. index + n - 1)
      /\ result' = NoCall /\ MemoryEntries' = MemoryEntries
  BY DEF PmmReleaseMemory
<1> DEFINE run == index .. index + n - 1
<1>4. run \subseteq 0 .. size - 1
  BY <1>1, <1>2 DEF FramesInv, FramesTyped
<1>5. index + n <= size /\ index < size
  <2>1. index \in run /\ index + n - 1 \in run
    BY <1>1
  <2>2. index \in 0 .. size - 1 /\ index + n - 1 \in 0 .. size - 1
    BY <1>4, <2>1
  <2> HIDE DEF run
  <2> QED
    BY <1>1, <1>2, <2>2
<1>6. CanSetBits(AllocationBitmap, index, n)
  <2>1. size - n \in Nat /\ size - n < MAX_DWORD + 1 /\ size - n >= index /\ MAX_DWORD + 1 \in Nat \ {0}
    BY <1>1, <1>2, <1>5, DwordAssumption
  <2>2. PICK x \in Nat, m \in Nat \ {0} : x = size - n /\ m = MAX_DWORD + 1
    BY <2>1
  <2>3. x % m = x
    BY <2>1, <2>2
  <2>4. (BitCount(AllocationBitmap) - n) % (MAX_DWORD + 1) = x
    BY <1>2, <2>2, <2>3
  <2>5. x >= index
    BY <2>1, <2>2
  <2> QED
    BY <1>2, <1>5, <2>4, <2>5 DEF CanSetBits
<1>7. AllocationBitmap' = [f \in 0 .. size - 1 |-> IF index <= f /\ f < index + n THEN FALSE ELSE AllocationBitmap[f]]
  BY <1>2, <1>3 DEF ChangeBits
<1>8. \A f \in 0 .. size - 1 : (index <= f /\ f < index + n) <=> f \in run
  BY <1>1
<1> HIDE DEF run
<1>9. \A f \in 0 .. size - 1 : AllocationBitmap'[f] = IF f \in run THEN FALSE ELSE AllocationBitmap[f]
  BY <1>7, <1>8
<1>10. DOMAIN AllocationBitmap' = 0 .. size - 1 /\ DOMAIN AllocationBitmap = 0 .. size - 1
  BY <1>2, <1>7
<1>11. AllocationBitmap' \in [0 .. size - 1 -> BOOLEAN]
  <2>1. \A f \in 0 .. size - 1 : (IF index <= f /\ f < index + n THEN FALSE ELSE AllocationBitmap[f]) \in BOOLEAN
    BY <1>2
  <2> QED
    BY <1>7, <2>1
<1>12. UsableFrames' = UsableFrames
  BY <1>3, <1>10 DEF UsableFrames
<1>13. held' = held \ run
  BY <1>3 DEF run
<1>14. BitmapExact'
  <2>1. ASSUME NEW f \in 0 .. size - 1
        PROVE  AllocationBitmap'[f] <=> f \notin UsableFrames \/ f \in held \ run
    <3>1. AllocationBitmap[f] <=> f \notin UsableFrames \/ f \in held
      BY <1>1, <1>10 DEF FramesInv, BitmapExact
    <3>2. f \in run => f \in UsableFrames
      BY <1>1 DEF FramesInv, UnusableStaysReserved, run
    <3> QED
      BY <1>9, <3>1, <3>2
  <2> QED
    BY <1>10, <1>12, <1>13, <2>1 DEF BitmapExact
<1>15. UnusableStaysReserved'
  BY <1>12, <1>13 DEF FramesInv, UnusableStaysReserved
<1>16. FramesTyped'
  <2>1. IsBitmap(AllocationBitmap')
    BY <1>11 DEF IsBitmap
  <2>2. result' \in Calls
    BY <1>3, PmmAssumption DEF NoCall, Calls
  <2>3. held' \subseteq DOMAIN AllocationBitmap'
    BY <1>10, <1>13 DEF FramesInv, FramesTyped
  <2> QED
    BY <1>3, <1>6, <2>1, <2>2, <2>3 DEF FramesInv, FramesTyped
<1>17. FramesInv'
  BY <1>14, <1>15, <1>16 DEF FramesInv
<1> QED
  BY <1>3, <1>9, <1>10, <1>17 DEF run

LEMMA BootFrames ==
    ASSUME BootIsExact, FramesInv, PmmInitSystem
    PROVE  FramesInv' /\ held = {} /\ DOMAIN AllocationBitmap = {} /\ held' = {}
<1>1. /\ ~Booted /\ Len(MemoryEntries) # 0 /\ MemoryEntries \in MemoryMaps
      /\ AllocationBitmap' = InitialBitmap(MemoryEntries)
      /\ MemoryEntries' = MemoryEntries /\ held' = held /\ result' = result
  BY DEF PmmInitSystem, FramesInv, FramesTyped
<1>2. DOMAIN AllocationBitmap = {}
  BY <1>1 DEF Booted
<1>3. held = {}
  BY <1>2 DEF FramesInv, FramesTyped
<1>4. PICK b : b = InitialBitmap(MemoryEntries)
  OBVIOUS
<1>5. /\ IsBitmap(b)
      /\ \A f \in DOMAIN b : b[f] <=> ~UsableIn(MemoryEntries, f)
      /\ \A i \in DOMAIN MemoryEntries : IsGivenOut(MemoryEntries[i]) =>
            CanSetBits(b, ReleasedRun(MemoryEntries[i]).index, ReleasedRun(MemoryEntries[i]).count)
  BY <1>1, <1>4 DEF BootIsExact
<1>6. AllocationBitmap' = b
  BY <1>1, <1>4
<1>7. asserted' = FALSE
  BY <1>5, <1>6 DEF PmmInitSystem
<1>8. FramesTyped'
  BY <1>1, <1>3, <1>5, <1>6, <1>7 DEF FramesInv, FramesTyped
<1>9. ASSUME NEW f \in DOMAIN b
      PROVE  f \in UsableFrames' <=> UsableIn(MemoryEntries, f)
  BY <1>1, <1>6 DEF UsableFrames, UsableIn
<1>10. BitmapExact'
  BY <1>1, <1>3, <1>5, <1>6, <1>9 DEF BitmapExact
<1>11. UnusableStaysReserved'
  BY <1>1, <1>3 DEF UnusableStaysReserved
<1> QED
  BY <1>1, <1>2, <1>3, <1>8, <1>10, <1>11 DEF FramesInv

----------------------------------------------------------------------------
\* The zero worker

QueueInv == WorkerTyped /\ QueuedIsHeld /\ QueuedOnce /\ FreeIsZeroed /\ ReleasedIsZeroed

LEMMA NoItemIsEmpty == Frames(NoItem) = {} /\ NoItem \notin FrameRuns
BY DEF Frames, NoItem, FrameRuns

LEMMA RunFacts ==
    ASSUME NEW r \in FrameRuns
    PROVE  r.index \in Nat /\ r.count \in Nat \ {0} /\ Frames(r) = r.index .. r.index + r.count - 1
BY DEF FrameRuns, Frames

LEMMA NotBooted ==
    ASSUME FramesInv, NEW x \in held
    PROVE  Booted
BY DEF FramesInv, FramesTyped, Booted

LEMMA InitStep ==
    ASSUME BootIsExact, ZeroIInv, PmmInit
    PROVE  ZeroIInv'
<1>1. FramesInv' /\ held = {} /\ DOMAIN AllocationBitmap = {} /\ held' = {}
  BY BootFrames DEF PmmInit, ZeroIInv, FramesInv
<1>2. /\ PagesToZeroList' = PagesToZeroList /\ NewPagesSignaled' = NewPagesSignaled /\ signaling' = signaling
      /\ zeroer' = zeroer /\ item' = item /\ dirty' = dirty
  BY DEF PmmInit
<1>3. dirty = {}
  BY <1>1 DEF ZeroIInv, WorkerTyped
<1>4. WorkerTyped'
  BY <1>2, <1>3 DEF ZeroIInv, WorkerTyped
<1>5. QueuedIsHeld'
  BY <1>1, <1>2 DEF ZeroIInv, QueuedIsHeld, Frames
<1>6. QueuedOnce' /\ FreeIsZeroed' /\ ReleasedIsZeroed'
  BY <1>2, <1>3 DEF ZeroIInv, QueuedOnce, FreeIsZeroed, ReleasedIsZeroed, Frames
<1> QED
  BY <1>1, <1>4, <1>5, <1>6 DEF ZeroIInv, FramesInv

LEMMA ReserveStep ==
    ASSUME ZeroIInv, NEW n \in 0 .. MaxFrames, NEW a \in MinAddresses, Reserve(n, a)
    PROVE  ZeroIInv'
<1>1. /\ FramesInv'
      /\ held \subseteq held'
      /\ Booted'
      /\ DOMAIN AllocationBitmap' = DOMAIN AllocationBitmap
      /\ \A f \in DOMAIN AllocationBitmap : f \in held' \ held => AllocationBitmap'[f]
      /\ \A f \in DOMAIN AllocationBitmap : AllocationBitmap[f] => AllocationBitmap'[f]
  BY ReserveFrames DEF Reserve, ZeroIInv, FramesInv
<1>2. /\ PagesToZeroList' = PagesToZeroList /\ NewPagesSignaled' = NewPagesSignaled /\ signaling' = signaling
      /\ zeroer' = zeroer /\ item' = item /\ dirty' = dirty \cup (held' \ held)
  BY DEF Reserve
<1>3. Booted
  BY DEF Reserve, PmmReserveMemoryEx
<1>4. held' \subseteq DOMAIN AllocationBitmap'
  BY <1>1 DEF FramesInv, FramesTyped
<1>5. WorkerTyped'
  BY <1>1, <1>2, <1>4 DEF ZeroIInv, WorkerTyped
<1>6. QueuedIsHeld' /\ QueuedOnce'
  BY <1>1, <1>2 DEF ZeroIInv, QueuedIsHeld, QueuedOnce, Frames
<1>7. FreeIsZeroed'
  BY <1>1, <1>2, <1>3 DEF ZeroIInv, FreeIsZeroed
<1>8. ReleasedIsZeroed'
  BY <1>2 DEF ZeroIInv, ReleasedIsZeroed, QueuedIsHeld, Frames
<1> QED
  BY <1>1, <1>5, <1>6, <1>7, <1>8 DEF ZeroIInv, FramesInv

LEMMA MmuReleaseStep ==
    ASSUME ZeroIInv, NEW r \in Releasers, NEW i \in held, NEW n \in 1 .. MaxFrames, MmuReleaseMemory(r, i, n)
    PROVE  ZeroIInv'
<1>1. /\ n > 0 /\ i .. i + n - 1 \subseteq held \ Queued
      /\ PagesToZeroList' = Append(PagesToZeroList, [index |-> i, count |-> n])
      /\ signaling' = signaling \cup {r}
      /\ NewPagesSignaled' = NewPagesSignaled /\ zeroer' = zeroer /\ item' = item /\ dirty' = dirty
      /\ AllocationBitmap' = AllocationBitmap /\ held' = held
  BY DEF MmuReleaseMemory, pmmVars
<1>2. i \in Nat /\ n \in Nat \ {0}
  <2>1. Booted
    BY NotBooted DEF ZeroIInv, FramesInv
  <2>2. PICK size \in 1 .. MAX_DWORD - 1 : size \in Nat /\ AllocationBitmap \in [0 .. size - 1 -> BOOLEAN]
    BY <2>1, FramesFacts DEF ZeroIInv, FramesInv
  <2>3. i \in 0 .. size - 1
    BY <2>2 DEF ZeroIInv, FramesTyped
  <2> QED
    BY <2>3, PmmAssumption
<1>3. PICK new \in FrameRuns : new = [index |-> i, count |-> n] /\ Frames(new) = i .. i + n - 1
  <2>1. [index |-> i, count |-> n] \in FrameRuns
    BY <1>2 DEF FrameRuns
  <2>2. Frames([index |-> i, count |-> n]) = i .. i + n - 1
    BY DEF Frames
  <2> QED
    BY <2>1, <2>2
<1>4. PagesToZeroList \in Seq(FrameRuns)
  BY DEF ZeroIInv, WorkerTyped
<1>5. PICK len \in Nat : len = Len(PagesToZeroList) /\ DOMAIN PagesToZeroList = 1 .. len
  BY <1>4
<1>6. /\ PagesToZeroList' \in Seq(FrameRuns) /\ DOMAIN PagesToZeroList' = 1 .. len + 1
      /\ \A j \in 1 .. len + 1 : PagesToZeroList'[j] = IF j = len + 1 THEN new ELSE PagesToZeroList[j]
  BY <1>1, <1>3, <1>4, <1>5
<1>7. \A j \in 1 .. len + 1 : j = len + 1 \/ j \in 1 .. len
  OBVIOUS
<1>8. /\ Frames(new) \subseteq held /\ Frames(new) \cap Frames(item) = {}
      /\ \A j \in 1 .. len : Frames(new) \cap Frames(PagesToZeroList[j]) = {}
  BY <1>1, <1>3, <1>5 DEF Queued
<1>9. FramesInv'
  BY FramesUnchanged DEF ZeroIInv, FramesInv, MmuReleaseMemory
<1>10. WorkerTyped'
  BY <1>1, <1>6 DEF ZeroIInv, WorkerTyped
<1>11. Frames(item') = Frames(item)
  BY <1>1
<1>12. ASSUME NEW j \in 1 .. len + 1
       PROVE  Frames(PagesToZeroList'[j]) = IF j = len + 1 THEN Frames(new) ELSE Frames(PagesToZeroList[j])
  BY <1>6
<1>13. QueuedIsHeld'
  <2>1. ASSUME NEW j \in 1 .. len + 1
        PROVE  Frames(PagesToZeroList'[j]) \subseteq held
    BY <1>5, <1>7, <1>8, <1>12 DEF ZeroIInv, QueuedIsHeld
  <2>2. \A j \in DOMAIN PagesToZeroList' : Frames(PagesToZeroList'[j]) \subseteq held
    BY <1>6, <2>1
  <2>3. Frames(item') \subseteq held
    BY <1>11 DEF ZeroIInv, QueuedIsHeld
  <2> QED
    BY <1>1, <2>2, <2>3 DEF QueuedIsHeld
<1>14. QueuedOnce'
  <2>1. ASSUME NEW j \in 1 .. len + 1, NEW k \in 1 .. len + 1
        PROVE  /\ j # k => Frames(PagesToZeroList'[j]) \cap Frames(PagesToZeroList'[k]) = {}
               /\ Frames(PagesToZeroList'[j]) \cap Frames(item') = {}
    <3>1. Frames(PagesToZeroList'[j]) = IF j = len + 1 THEN Frames(new) ELSE Frames(PagesToZeroList[j])
      BY <1>6
    <3>2. Frames(PagesToZeroList'[k]) = IF k = len + 1 THEN Frames(new) ELSE Frames(PagesToZeroList[k])
      BY <1>6
    <3>3. \A x, y \in 1 .. len : /\ x # y => Frames(PagesToZeroList[x]) \cap Frames(PagesToZeroList[y]) = {}
                                /\ Frames(PagesToZeroList[x]) \cap Frames(item) = {}
      BY <1>5 DEF ZeroIInv, QueuedOnce
    <3> QED
      BY <1>7, <1>8, <1>11, <3>1, <3>2, <3>3
  <2> QED
    BY <1>6, <2>1 DEF QueuedOnce
<1>15. FreeIsZeroed' /\ ReleasedIsZeroed'
  BY <1>1, <1>11 DEF ZeroIInv, FreeIsZeroed, ReleasedIsZeroed, Booted
<1> QED
  BY <1>9, <1>10, <1>13, <1>14, <1>15 DEF ZeroIInv, FramesInv

LEMMA SignalStep ==
    ASSUME ZeroIInv, NEW r \in Releasers, SignalNewPages(r)
    PROVE  ZeroIInv'
<1>1. /\ NewPagesSignaled' = TRUE /\ signaling' = signaling \ {r}
      /\ zeroer' = IF zeroer = "blocked" THEN "remove" ELSE zeroer
      /\ PagesToZeroList' = PagesToZeroList /\ item' = item /\ dirty' = dirty
      /\ AllocationBitmap' = AllocationBitmap /\ held' = held
  BY DEF SignalNewPages, pmmVars
<1>2. FramesInv'
  BY FramesUnchanged DEF ZeroIInv, FramesInv, SignalNewPages
<1>3. WorkerTyped'
  BY <1>1 DEF ZeroIInv, WorkerTyped
<1>4. Frames(item') = Frames(item)
  BY <1>1
<1>5. QueuedIsHeld' /\ QueuedOnce' /\ FreeIsZeroed' /\ ReleasedIsZeroed'
  BY <1>1, <1>4 DEF ZeroIInv, QueuedIsHeld, QueuedOnce, FreeIsZeroed, ReleasedIsZeroed, Booted
<1> QED
  BY <1>2, <1>3, <1>5 DEF ZeroIInv, FramesInv

LEMMA WorkerWaitStep ==
    ASSUME ZeroIInv, ZeroerWait
    PROVE  ZeroIInv'
<1>1. /\ zeroer = "wait" /\ zeroer' \in {"remove", "blocked"}
      /\ NewPagesSignaled' = NewPagesSignaled /\ signaling' = signaling
      /\ PagesToZeroList' = PagesToZeroList /\ item' = item /\ dirty' = dirty
      /\ AllocationBitmap' = AllocationBitmap /\ held' = held
  BY DEF ZeroerWait, pmmVars
<1>2. FramesInv'
  BY FramesUnchanged DEF ZeroIInv, FramesInv, ZeroerWait
<1>3. WorkerTyped'
  BY <1>1 DEF ZeroIInv, WorkerTyped
<1>4. Frames(item') = Frames(item)
  BY <1>1
<1>5. QueuedIsHeld' /\ QueuedOnce' /\ FreeIsZeroed' /\ ReleasedIsZeroed'
  BY <1>1, <1>4 DEF ZeroIInv, QueuedIsHeld, QueuedOnce, FreeIsZeroed, ReleasedIsZeroed, Booted
<1> QED
  BY <1>2, <1>3, <1>5 DEF ZeroIInv, FramesInv

LEMMA ClearStep ==
    ASSUME ZeroIInv, ZeroerClear
    PROVE  ZeroIInv'
<1>1. /\ zeroer = "clear" /\ zeroer' = "wait"
      /\ NewPagesSignaled' = FALSE /\ signaling' = signaling
      /\ PagesToZeroList' = PagesToZeroList /\ item' = item /\ dirty' = dirty
      /\ AllocationBitmap' = AllocationBitmap /\ held' = held
  BY DEF ZeroerClear, pmmVars
<1>2. FramesInv'
  BY FramesUnchanged DEF ZeroIInv, FramesInv, ZeroerClear
<1>3. WorkerTyped'
  BY <1>1 DEF ZeroIInv, WorkerTyped
<1>4. Frames(item') = Frames(item)
  BY <1>1
<1>5. QueuedIsHeld' /\ QueuedOnce' /\ FreeIsZeroed' /\ ReleasedIsZeroed'
  BY <1>1, <1>4 DEF ZeroIInv, QueuedIsHeld, QueuedOnce, FreeIsZeroed, ReleasedIsZeroed, Booted
<1> QED
  BY <1>2, <1>3, <1>5 DEF ZeroIInv, FramesInv

LEMMA ZeroStep ==
    ASSUME ZeroIInv, ZeroerZero
    PROVE  ZeroIInv'
<1>1. /\ zeroer = "zero"
      /\ \/ zeroer' = "release" /\ dirty' = dirty \ Frames(item)
         \/ zeroer' = "halted" /\ dirty' = dirty
      /\ NewPagesSignaled' = NewPagesSignaled /\ signaling' = signaling
      /\ PagesToZeroList' = PagesToZeroList /\ item' = item
      /\ AllocationBitmap' = AllocationBitmap /\ held' = held
  BY DEF ZeroerZero, pmmVars
<1>2. FramesInv'
  BY FramesUnchanged DEF ZeroIInv, FramesInv, ZeroerZero
<1>3. WorkerTyped'
  BY <1>1 DEF ZeroIInv, WorkerTyped
<1>4. Frames(item') = Frames(item)
  BY <1>1
<1>5. QueuedIsHeld' /\ QueuedOnce' /\ FreeIsZeroed' /\ ReleasedIsZeroed'
  BY <1>1, <1>4 DEF ZeroIInv, QueuedIsHeld, QueuedOnce, FreeIsZeroed, ReleasedIsZeroed, Booted
<1> QED
  BY <1>2, <1>3, <1>5 DEF ZeroIInv, FramesInv

\* RemoveHeadList: the head moves from the list to the worker.
LEMMA RemoveStep ==
    ASSUME ZeroIInv, ZeroerRemove
    PROVE  ZeroIInv'
<1>1. /\ zeroer = "remove"
      /\ NewPagesSignaled' = NewPagesSignaled /\ signaling' = signaling /\ dirty' = dirty
      /\ AllocationBitmap' = AllocationBitmap /\ held' = held
  BY DEF ZeroerRemove, pmmVars
<1>2. FramesInv'
  BY FramesUnchanged DEF ZeroIInv, FramesInv, ZeroerRemove
<1>3. CASE PagesToZeroList = <<>>
  <2>1. zeroer' = "clear" /\ PagesToZeroList' = PagesToZeroList /\ item' = item
    BY <1>3 DEF ZeroerRemove
  <2>2. WorkerTyped'
    BY <1>1, <2>1 DEF ZeroIInv, WorkerTyped
  <2>3. Frames(item') = Frames(item)
    BY <2>1
  <2>4. QueuedIsHeld' /\ QueuedOnce' /\ FreeIsZeroed' /\ ReleasedIsZeroed'
    BY <1>1, <2>1, <2>3 DEF ZeroIInv, QueuedIsHeld, QueuedOnce, FreeIsZeroed, ReleasedIsZeroed, Booted
  <2> QED
    BY <1>2, <2>2, <2>4 DEF ZeroIInv, FramesInv
<1>4. CASE PagesToZeroList # <<>>
  <2>1. zeroer' = "zero" /\ PagesToZeroList' = Tail(PagesToZeroList) /\ item' = Head(PagesToZeroList)
    BY <1>4 DEF ZeroerRemove
  <2>2. PagesToZeroList \in Seq(FrameRuns)
    BY DEF ZeroIInv, WorkerTyped
  <2>3. PICK len \in Nat \ {0} : len = Len(PagesToZeroList) /\ DOMAIN PagesToZeroList = 1 .. len
    BY <1>4, <2>2
  <2>4. /\ PagesToZeroList' \in Seq(FrameRuns) /\ DOMAIN PagesToZeroList' = 1 .. len - 1
        /\ \A j \in 1 .. len - 1 : PagesToZeroList'[j] = PagesToZeroList[j + 1]
    BY <1>4, <2>1, <2>2, <2>3
  <2>5. \A j \in 1 .. len - 1 : j + 1 \in 1 .. len /\ j + 1 # 1 /\ \A k \in 1 .. len - 1 : j # k => j + 1 # k + 1
    OBVIOUS
  <2>6. item' = PagesToZeroList[1] /\ item' \in FrameRuns /\ 1 \in 1 .. len
    BY <1>4, <2>1, <2>2, <2>3
  <2>7. WorkerTyped'
    BY <1>1, <2>1, <2>4, <2>6 DEF ZeroIInv, WorkerTyped
  <2>8. ASSUME NEW j \in 1 .. len - 1
        PROVE  Frames(PagesToZeroList'[j]) = Frames(PagesToZeroList[j + 1])
    BY <2>4
  <2>9. Frames(item') = Frames(PagesToZeroList[1])
    BY <2>6
  <2>10. /\ \A x \in 1 .. len : Frames(PagesToZeroList[x]) \subseteq held
         /\ \A x, y \in 1 .. len : x # y => Frames(PagesToZeroList[x]) \cap Frames(PagesToZeroList[y]) = {}
    BY <2>3 DEF ZeroIInv, QueuedIsHeld, QueuedOnce
  <2>11. QueuedIsHeld'
    <3>1. \A j \in 1 .. len - 1 : Frames(PagesToZeroList'[j]) \subseteq held
      BY <2>5, <2>8, <2>10
    <3>2. \A j \in DOMAIN PagesToZeroList' : Frames(PagesToZeroList'[j]) \subseteq held
      BY <2>4, <3>1
    <3>3. Frames(item') \subseteq held
      BY <2>6, <2>9, <2>10
    <3> QED
      BY <1>1, <3>2, <3>3 DEF QueuedIsHeld
  <2>12. QueuedOnce'
    <3>1. ASSUME NEW j \in 1 .. len - 1, NEW k \in 1 .. len - 1
          PROVE  /\ j # k => Frames(PagesToZeroList'[j]) \cap Frames(PagesToZeroList'[k]) = {}
                 /\ Frames(PagesToZeroList'[j]) \cap Frames(item') = {}
      <4>1. PICK x, y \in 1 .. len : x = j + 1 /\ y = k + 1 /\ x # 1 /\ (j # k => x # y)
        BY <2>5
      <4>2. Frames(PagesToZeroList'[j]) = Frames(PagesToZeroList[x]) /\ Frames(PagesToZeroList'[k]) = Frames(PagesToZeroList[y])
        BY <2>8, <4>1
      <4> QED
        BY <2>6, <2>9, <2>10, <4>1, <4>2
    <3> QED
      BY <2>4, <3>1 DEF QueuedOnce
  <2>13. FreeIsZeroed' /\ ReleasedIsZeroed'
    BY <1>1, <2>1 DEF ZeroIInv, FreeIsZeroed, ReleasedIsZeroed, Booted
  <2> QED
    BY <1>2, <2>7, <2>11, <2>12, <2>13 DEF ZeroIInv, FramesInv
<1> QED
  BY <1>3, <1>4

\* PmmReleaseMemory by the worker: what it frees is zeroed and not queued any more.
LEMMA WorkerReleaseStep ==
    ASSUME ZeroIInv, ZeroerRelease
    PROVE  ZeroIInv'
<1>1. /\ zeroer = "release" /\ zeroer' = "wait" /\ item' = NoItem
      /\ PmmReleaseMemory(item.index, item.count)
      /\ PagesToZeroList' = PagesToZeroList
      /\ NewPagesSignaled' = NewPagesSignaled /\ signaling' = signaling /\ dirty' = dirty
  BY DEF ZeroerRelease
<1>2. item \in FrameRuns
  BY <1>1 DEF ZeroIInv, WorkerTyped
<1>3. PICK index \in Nat, n \in Nat : index = item.index /\ n = item.count /\ Frames(item) = index .. index + n - 1
  BY <1>2, RunFacts
<1>4. PmmReleaseMemory(index, n)
  BY <1>1, <1>3
<1>5. /\ FramesInv'
      /\ held' = held \ Frames(item)
      /\ DOMAIN AllocationBitmap' = DOMAIN AllocationBitmap
      /\ \A f \in DOMAIN AllocationBitmap :
            AllocationBitmap'[f] = IF f \in Frames(item) THEN FALSE ELSE AllocationBitmap[f]
  BY <1>3, <1>4, ReleaseFrames DEF ZeroIInv, FramesInv
<1>6. WorkerTyped'
  BY <1>1, <1>5, NoItemIsEmpty DEF ZeroIInv, WorkerTyped
<1>7. Frames(item') = {}
  BY <1>1, NoItemIsEmpty
<1>8. QueuedIsHeld' /\ QueuedOnce'
  BY <1>1, <1>5, <1>7 DEF ZeroIInv, QueuedIsHeld, QueuedOnce
<1>9. Booted
  BY <1>4 DEF PmmReleaseMemory
<1>10. Frames(item) \cap dirty = {}
  BY <1>1 DEF ZeroIInv, ReleasedIsZeroed
<1>11. FreeIsZeroed'
  BY <1>1, <1>5, <1>9, <1>10 DEF ZeroIInv, FreeIsZeroed
<1>12. ReleasedIsZeroed'
  BY <1>1 DEF ReleasedIsZeroed
<1> QED
  BY <1>5, <1>6, <1>8, <1>11, <1>12 DEF ZeroIInv, FramesInv

LEMMA ZeroStart ==
    ASSUME ZeroWorkerInit
    PROVE  ZeroIInv
<1>1. DOMAIN AllocationBitmap = {} /\ ~Booted
  BY DEF ZeroWorkerInit, PmmPreinitSystem, Booted
<1>2. FramesTyped
  BY <1>1, PmmAssumption DEF ZeroWorkerInit, PmmPreinitSystem, FramesTyped, NoCall, Calls
<1>3. Frames(item) = {} /\ item = NoItem /\ PagesToZeroList = <<>>
  BY NoItemIsEmpty DEF ZeroWorkerInit
<1>4. WorkerTyped
  <2>1. <<>> \in Seq(FrameRuns)
    OBVIOUS
  <2>2. /\ NewPagesSignaled = FALSE /\ signaling = {} /\ zeroer = "wait" /\ dirty = {}
        /\ PagesToZeroList = <<>> /\ item = NoItem /\ NoItem \notin FrameRuns
    BY NoItemIsEmpty DEF ZeroWorkerInit
  <2> QED
    BY <2>1, <2>2 DEF WorkerTyped
<1>5. BitmapExact /\ UnusableStaysReserved /\ FreeIsZeroed
  BY <1>1 DEF ZeroWorkerInit, PmmPreinitSystem, BitmapExact, UnusableStaysReserved, FreeIsZeroed
<1>6. QueuedIsHeld /\ QueuedOnce /\ ReleasedIsZeroed
  BY <1>3 DEF ZeroWorkerInit, QueuedIsHeld, QueuedOnce, ReleasedIsZeroed
<1> QED
  BY <1>2, <1>4, <1>5, <1>6 DEF ZeroIInv

LEMMA ZeroNextStep ==
    ASSUME BootIsExact, ZeroIInv, [ZeroNext]_zeroVars
    PROVE  ZeroIInv'
<1>1. CASE UNCHANGED zeroVars
  <2>1. FramesInv'
    BY <1>1, FramesUnchanged DEF ZeroIInv, FramesInv, zeroVars
  <2>2. /\ zeroer' = zeroer /\ NewPagesSignaled' = NewPagesSignaled /\ signaling' = signaling
        /\ PagesToZeroList' = PagesToZeroList /\ item' = item /\ dirty' = dirty
        /\ AllocationBitmap' = AllocationBitmap /\ held' = held
    BY <1>1 DEF zeroVars, pmmVars
  <2>3. WorkerTyped'
    BY <2>2 DEF ZeroIInv, WorkerTyped
  <2>4. Frames(item') = Frames(item)
    BY <2>2
  <2>5. QueuedIsHeld' /\ QueuedOnce' /\ FreeIsZeroed' /\ ReleasedIsZeroed'
    BY <2>2, <2>4 DEF ZeroIInv, QueuedIsHeld, QueuedOnce, FreeIsZeroed, ReleasedIsZeroed, Booted
  <2> QED
    BY <2>1, <2>3, <2>5 DEF ZeroIInv, FramesInv
<1>2. CASE PmmInit
  BY <1>2, InitStep
<1>3. ASSUME NEW n \in 0 .. MaxFrames, NEW a \in MinAddresses, Reserve(n, a)
      PROVE  ZeroIInv'
  BY <1>3, ReserveStep
<1>4. ASSUME NEW r \in Releasers, NEW i \in held, NEW n \in 1 .. MaxFrames, MmuReleaseMemory(r, i, n)
      PROVE  ZeroIInv'
  BY <1>4, MmuReleaseStep
<1>5. ASSUME NEW r \in Releasers, SignalNewPages(r)
      PROVE  ZeroIInv'
  BY <1>5, SignalStep
<1>6. CASE ZeroerStep
  BY <1>6, WorkerWaitStep, RemoveStep, ClearStep, ZeroStep, WorkerReleaseStep DEF ZeroerStep
<1> QED
  BY <1>1, <1>2, <1>3, <1>4, <1>5, <1>6 DEF ZeroNext

LEMMA ZeroIInvImplies ==
    ASSUME ZeroIInv
    PROVE  ZeroInv
<1>1. Queued \subseteq held
  BY DEF ZeroIInv, QueuedIsHeld, Queued
<1>2. /\ result.frames \in 0 .. MaxFrames /\ result.min \in MinAddresses \cup {0} /\ result.address \in Nat
  BY DEF ZeroIInv, FramesTyped, Calls
<1>3. PmmTypeOK
  BY <1>2 DEF ZeroIInv, FramesTyped, PmmTypeOK
<1>4. ZeroTypeOK
  BY <1>1, <1>3 DEF ZeroIInv, WorkerTyped, ZeroTypeOK
<1> QED
  BY <1>3, <1>4 DEF ZeroIInv, FramesTyped, ZeroInv, PmmInv, BitmapAssertsHold


----------------------------------------------------------------------------
\* What PmmReserveMemoryEx returns

MapEntry == [BaseAddress : Nat, Length : Nat, Type : STRING, Valid : BOOLEAN]

LEMMA MapFacts ==
    ASSUME NEW map \in MemoryMaps
    PROVE  /\ Len(map) \in Nat /\ DOMAIN map = 1 .. Len(map)
           /\ \A i \in 1 .. Len(map) : map[i].BaseAddress \in Nat /\ map[i].Length \in Nat
<1>1. map \in Seq(MapEntry)
  BY PmmAssumption DEF MapEntry
<1>2. \A i \in 1 .. Len(map) : map[i] \in MapEntry
  BY <1>1
<1>3. \A e \in MapEntry : e.BaseAddress \in Nat /\ e.Length \in Nat
  BY DEF MapEntry
<1> QED
  BY <1>1, <1>2, <1>3

LEMMA FitStep ==
    ASSUME FramesInv, NEW n \in 0 .. MaxFrames, NEW a \in MinAddresses, PmmReserveMemoryEx(n, a)
    PROVE  LET r == result'
               idx == IF r.address = 0 THEN MAX_DWORD ELSE r.address \div PAGE_SIZE
           IN /\ r.min % PAGE_SIZE = 0 =>
                    IsFirstRun(idx, AllocationBitmap, r.min \div PAGE_SIZE, BitCount(AllocationBitmap), r.frames, FALSE)
              /\ r.min % PAGE_SIZE # 0 => r.address = 0
              /\ r.address # 0 => (idx .. idx + r.frames - 1) \cap held = {}
<1>1. Booted /\ ~asserted
  BY DEF PmmReserveMemoryEx
<1>2. PICK size \in 1 .. MAX_DWORD - 1 :
         /\ size \in Nat /\ size < MAX_DWORD /\ AllocationBitmap \in [0 .. size - 1 -> BOOLEAN]
         /\ BitCount(AllocationBitmap) = size
  BY <1>1, FramesFacts
<1>3. /\ n \in Nat /\ a \in Nat /\ a \div PAGE_SIZE \in Nat /\ MAX_DWORD \in Nat
      /\ PAGE_SIZE \in Nat \ {0} /\ MB_SIZE \in Nat \ {0}
  BY PmmAssumption, DwordAssumption
<1>4. PICK found : found = ReserveIndex(n, a)
  OBVIOUS
<1>5. result' = [frames |-> n, min |-> a, address |-> IF found = MAX_DWORD THEN 0 ELSE found * PAGE_SIZE]
  BY <1>4 DEF PmmReserveMemoryEx
<1>6. a % PAGE_SIZE # 0 => found = MAX_DWORD
  BY <1>4 DEF ReserveIndex
<1>7. a % PAGE_SIZE = 0 => IsFirstRun(found, AllocationBitmap, a \div PAGE_SIZE, size, n, FALSE)
  <2>1. CASE ~(n = 0 \/ a % PAGE_SIZE # 0 \/ a \div PAGE_SIZE > MAX_DWORD)
    <3>1. found = ScanFromTo(AllocationBitmap, a \div PAGE_SIZE, size, n, FALSE)
      BY <1>2, <1>3, <1>4, <2>1 DEF ReserveIndex
    <3>2. size \in 0 .. size
      BY <1>2
    <3> QED
      BY <1>2, <1>3, <3>1, <3>2, ScanFindsFirstRun
  <2>2. CASE a % PAGE_SIZE = 0 /\ (n = 0 \/ a \div PAGE_SIZE > MAX_DWORD)
    <3>1. found = MAX_DWORD
      BY <1>4, <2>2 DEF ReserveIndex
    <3>2. DOMAIN AllocationBitmap = 0 .. size - 1
      BY <1>2
    <3>3. Runs(AllocationBitmap, a \div PAGE_SIZE, size, n, FALSE) = {}
      <4>1. ASSUME NEW i \in Runs(AllocationBitmap, a \div PAGE_SIZE, size, n, FALSE)
            PROVE  FALSE
        <5>1. i \in 0 .. size - 1 /\ n > 0 /\ a \div PAGE_SIZE <= i
          BY <3>2, <4>1 DEF Runs
        <5> QED
          BY <1>2, <1>3, <2>2, <5>1
      <4> QED
        BY <4>1
    <3> QED
      BY <3>1, <3>3 DEF IsFirstRun
  <2> QED
    BY <2>1, <2>2
<1>8. \/ found = MAX_DWORD
      \/ /\ found \in 0 .. size - 1 /\ found # MAX_DWORD /\ n > 0
         /\ \A k \in found .. found + n - 1 : k \in 0 .. size - 1 /\ AllocationBitmap[k] = FALSE
  <2>1. CASE a % PAGE_SIZE = 0
    <3>1. found = MAX_DWORD \/ found \in Runs(AllocationBitmap, a \div PAGE_SIZE, size, n, FALSE)
      BY <1>7, <2>1 DEF IsFirstRun
    <3>2. DOMAIN AllocationBitmap = 0 .. size - 1
      BY <1>2
    <3>3. ASSUME found \in Runs(AllocationBitmap, a \div PAGE_SIZE, size, n, FALSE)
          PROVE  /\ found \in 0 .. size - 1 /\ n > 0
                 /\ \A k \in found .. found + n - 1 : k \in 0 .. size - 1 /\ AllocationBitmap[k] = FALSE
      BY <3>2, <3>3 DEF Runs
    <3> QED
      BY <3>1, <3>3
  <2> QED
    BY <1>6, <2>1
<1>9. CASE found = MAX_DWORD
  <2>1. result' = [frames |-> n, min |-> a, address |-> 0]
    BY <1>5, <1>9
  <2> QED
    BY <1>2, <1>7, <1>9, <2>1
<1>10. CASE found # MAX_DWORD
  <2>1. result'.frames = n /\ result'.min = a /\ result'.address = found * PAGE_SIZE
    BY <1>5, <1>10
  <2>2. /\ found \in Nat /\ found \in 0 .. size - 1 /\ n > 0
        /\ \A k \in found .. found + n - 1 : k \in 0 .. size - 1 /\ AllocationBitmap[k] = FALSE
    BY <1>8, <1>10
  <2>3. \A k \in found .. found + n - 1 : k \in UsableFrames /\ k \notin held
    BY <1>1, <1>2, <2>2 DEF FramesInv, BitmapExact
  <2>4. found # 0
    <3>1. SUFFICES ASSUME found = 0
                   PROVE  FALSE
      OBVIOUS
    <3>2. 0 \in UsableFrames
      <4>1. 0 \in found .. found + n - 1
        BY <1>3, <2>2, <3>1
      <4> QED
        BY <2>3, <4>1
    <3>3. 0 * PAGE_SIZE = 0
      BY <1>3
    <3>4. PICK base \in Nat : MB_SIZE <= base /\ base <= 0
      <4>2. PICK i \in DOMAIN MemoryEntries :
              MB_SIZE <= MemoryEntries[i].BaseAddress /\ MemoryEntries[i].BaseAddress <= 0
        BY <3>2, <3>3 DEF UsableFrames
      <4>3. MemoryEntries[i].BaseAddress \in Nat
        BY MapFacts DEF FramesInv, FramesTyped
      <4> QED
        BY <4>2, <4>3
    <3> QED
      BY <1>3, <3>4
  <2>5. (found * PAGE_SIZE) \div PAGE_SIZE = found /\ found * PAGE_SIZE # 0
    BY <1>3, <2>2, <2>4, FrameOfAddress
  <2>6. (IF result'.address = 0 THEN MAX_DWORD ELSE result'.address \div PAGE_SIZE) = found
    BY <2>1, <2>5
  <2>7. (found .. found + n - 1) \cap held = {}
    BY <2>3
  <2> QED
    BY <1>2, <1>6, <1>7, <1>10, <2>1, <2>6, <2>7
<1> QED
  BY <1>9, <1>10

LEMMA FitNextStep ==
    ASSUME ZeroIInv, [ZeroNext]_zeroVars
    PROVE  [result' # NoCall /\ Booted =>
              LET r == result'
                  idx == IF r.address = 0 THEN MAX_DWORD ELSE r.address \div PAGE_SIZE
              IN /\ r.min % PAGE_SIZE = 0 =>
                       IsFirstRun(idx, AllocationBitmap, r.min \div PAGE_SIZE, BitCount(AllocationBitmap), r.frames, FALSE)
                 /\ r.min % PAGE_SIZE # 0 => r.address = 0
                 /\ r.address # 0 => (idx .. idx + r.frames - 1) \cap held = {}]_pmmVars
<1>1. CASE UNCHANGED zeroVars
  BY <1>1 DEF zeroVars
<1>2. CASE PmmInit
  BY <1>2 DEF PmmInit, PmmInitSystem
<1>3. ASSUME NEW n \in 0 .. MaxFrames, NEW a \in MinAddresses, PmmReserveMemoryEx(n, a)
      PROVE  LET r == result'
                 idx == IF r.address = 0 THEN MAX_DWORD ELSE r.address \div PAGE_SIZE
             IN /\ r.min % PAGE_SIZE = 0 =>
                      IsFirstRun(idx, AllocationBitmap, r.min \div PAGE_SIZE, BitCount(AllocationBitmap), r.frames, FALSE)
                /\ r.min % PAGE_SIZE # 0 => r.address = 0
                /\ r.address # 0 => (idx .. idx + r.frames - 1) \cap held = {}
  BY <1>3, FitStep DEF ZeroIInv, FramesInv
<1>4. CASE \E n \in 0 .. MaxFrames, a \in MinAddresses : Reserve(n, a)
  BY <1>3, <1>4 DEF Reserve
<1>5. CASE \E r \in Releasers, i \in held, n \in 1 .. MaxFrames : MmuReleaseMemory(r, i, n)
  BY <1>5 DEF MmuReleaseMemory
<1>6. CASE \E r \in Releasers : SignalNewPages(r)
  BY <1>6 DEF SignalNewPages
<1>7. CASE ZeroerStep
  BY <1>7 DEF ZeroerStep, ZeroerWait, ZeroerRemove, ZeroerClear, ZeroerZero, ZeroerRelease, PmmReleaseMemory
<1> QED
  BY <1>1, <1>2, <1>4, <1>5, <1>6, <1>7 DEF ZeroNext

----------------------------------------------------------------------------
\* The bitmap after boot

\* HighestPhysicalAddressPresent bounds every entry of the map.
LEMMA PresentBounds ==
    ASSUME NEW map \in MemoryMaps
    PROVE  /\ Limits(map).present \in Nat
           /\ \A i \in 1 .. Len(map) : map[i].BaseAddress + map[i].Length <= Limits(map).present
<1> DEFINE ends == {0} \cup {map[i].BaseAddress + map[i].Length : i \in DOMAIN map}
<1>1. Limits(map).present = MaxOf(ends)
  BY DEF Limits
<1>2. PICK g : g = [i \in 1 .. Len(map) |-> map[i].BaseAddress + map[i].Length]
  OBVIOUS
<1>3. Len(map) \in Nat /\ DOMAIN map = 1 .. Len(map)
  BY MapFacts
<1>4. \A i \in 1 .. Len(map) : g[i] = map[i].BaseAddress + map[i].Length /\ g[i] \in Nat
  <2>1. ASSUME NEW i \in 1 .. Len(map)
        PROVE  g[i] = map[i].BaseAddress + map[i].Length /\ g[i] \in Nat
    <3>1. map[i].BaseAddress \in Nat /\ map[i].Length \in Nat
      BY MapFacts
    <3> QED
      BY <1>2, <3>1
  <2> QED
    BY <2>1
<1>5. PICK m \in {0} \cup {g[i] : i \in 1 .. Len(map)} : m \in Nat /\ \A i \in 1 .. Len(map) : g[i] <= m
  BY <1>3, <1>4, GreatestOf
<1>6. ends = {0} \cup {g[i] : i \in 1 .. Len(map)}
  BY <1>3, <1>4
<1>7. ends \subseteq Nat
  BY <1>4, <1>6
<1>8. m \in ends /\ \A x \in ends : x <= m
  <2>1. m \in ends
    BY <1>5, <1>6
  <2>2. ASSUME NEW x \in ends
        PROVE  x <= m
    <3>1. x = 0 \/ \E i \in 1 .. Len(map) : x = g[i]
      BY <1>6
    <3>2. 0 <= m
      BY <1>5
    <3> QED
      BY <1>5, <3>1, <3>2
  <2> QED
    BY <2>1, <2>2
<1> HIDE DEF ends
<1>9. MaxOf(ends) \in ends /\ \A x \in ends : x <= MaxOf(ends)
  BY <1>8 DEF MaxOf
<1>10. \A i \in 1 .. Len(map) : g[i] \in ends
  BY <1>6
<1> QED
  BY <1>1, <1>4, <1>7, <1>9, <1>10

\* Frame f is in a run that PmmReleaseMemory is called for in the first i entries.
InRun(e, f) == ReleasedRun(e).index <= f /\ f < ReleasedRun(e).index + ReleasedRun(e).count
GivenOut(map, i, f) == \E j \in 1 .. i : IsGivenOut(map[j]) /\ InRun(map[j], f)

\* The bitmap before the first entry: every frame is reserved.
LEMMA AllReserved ==
    ASSUME NEW frames \in 1 .. MAX_DWORD - 1
    PROVE  LET empty == BitmapInit(frames, FALSE) IN
           Flip(empty, ScanFromTo(empty, 0, frames, frames, FALSE), frames, FALSE) = [f \in 0 .. frames - 1 |-> TRUE]
<1>1. PICK empty : empty = [f \in 0 .. frames - 1 |-> FALSE]
  OBVIOUS
<1>2. BitmapInit(frames, FALSE) = empty
  BY <1>1 DEF BitmapInit
<1>3. empty \in [0 .. frames - 1 -> BOOLEAN] /\ DOMAIN empty = 0 .. frames - 1
      /\ \A f \in 0 .. frames - 1 : empty[f] = FALSE
  BY <1>1
<1>4. frames \in Nat /\ frames > 0 /\ frames \in 0 .. frames /\ 0 \in Nat /\ MAX_DWORD \in Nat /\ frames < MAX_DWORD
  BY DwordAssumption
<1>5. PICK idx : idx = ScanFromTo(empty, 0, frames, frames, FALSE)
  OBVIOUS
<1>6. IsFirstRun(idx, empty, 0, frames, frames, FALSE)
  BY <1>3, <1>4, <1>5, ScanFindsFirstRun
<1>7. Runs(empty, 0, frames, frames, FALSE) = {0}
  <2>1. ASSUME NEW i \in 0 .. frames - 1, i + frames <= frames
        PROVE  i = 0
    BY <1>4, <2>1
  <2>2. \A k \in 0 .. 0 + frames - 1 : k \in DOMAIN empty /\ empty[k] = FALSE
    BY <1>3, <1>4
  <2>3. 0 \in DOMAIN empty /\ 0 <= 0 /\ 0 + frames <= frames
    BY <1>3, <1>4
  <2>4. 0 \in Runs(empty, 0, frames, frames, FALSE)
    BY <1>4, <2>2, <2>3 DEF Runs
  <2>5. ASSUME NEW i \in Runs(empty, 0, frames, frames, FALSE)
        PROVE  i = 0
    <3>1. i \in 0 .. frames - 1 /\ i + frames <= frames
      BY <1>3 DEF Runs
    <3> QED
      BY <2>1, <3>1
  <2> QED
    BY <2>4, <2>5
<1>8. idx = 0 /\ idx # MAX_DWORD
  <2>1. Runs(empty, 0, frames, frames, FALSE) # {}
    BY <1>7
  <2>2. idx \in Runs(empty, 0, frames, frames, FALSE)
    BY <1>6, <2>1 DEF IsFirstRun
  <2>3. idx = 0
    BY <1>7, <2>2
  <2> QED
    BY <1>4, <2>3
<1>9. Flip(empty, idx, frames, FALSE) = [f \in 0 .. frames - 1 |-> IF 0 <= f /\ f < 0 + frames THEN TRUE ELSE empty[f]]
  BY <1>3, <1>8 DEF Flip, ChangeBits
<1>10. \A f \in 0 .. frames - 1 : 0 <= f /\ f < 0 + frames
  BY <1>4
<1> QED
  BY <1>2, <1>5, <1>9, <1>10

\* What the loop of _PmmInitializeAllocationBitmap computes.
LEMMA InitialBits ==
    ASSUME NEW map \in MemoryMaps, Limits(map).present \div PAGE_SIZE \in 1 .. MAX_DWORD - 1
    PROVE  InitialBitmap(map) =
              [f \in 0 .. (Limits(map).present \div PAGE_SIZE) - 1 |-> ~GivenOut(map, Len(map), f)]
<1>1. PICK frames \in 1 .. MAX_DWORD - 1 : frames = Limits(map).present \div PAGE_SIZE
  OBVIOUS
<1>2. PICK len \in Nat : len = Len(map)
  BY MapFacts
<1>3. PICK first : first = [f \in 0 .. frames - 1 |-> TRUE]
  OBVIOUS
<1> DEFINE empty == BitmapInit(frames, FALSE)
           Loop(b, i) == IF i = 0 THEN Flip(empty, ScanFromTo(empty, 0, frames, frames, FALSE), frames, FALSE)
                         ELSE IF IsGivenOut(map[i])
                         THEN ChangeBits(b[i - 1], ReleasedRun(map[i]).index, FALSE, ReleasedRun(map[i]).count)
                         ELSE b[i - 1]
           Body(b) == [i \in 0 .. len |-> Loop(b, i)]
           bits == CHOOSE b : b = Body(b)
           Bits(i) == [f \in 0 .. frames - 1 |-> ~GivenOut(map, i, f)]
<1>4. InitialBitmap(map) = bits[len]
  BY <1>1, <1>2 DEF InitialBitmap
<1>5. \A b : Loop(b, 0) = first
  BY <1>3, AllReserved
<1>6. \A b : \A i \in 1 .. len :
         Loop(b, i) = IF IsGivenOut(map[i])
                      THEN ChangeBits(b[i - 1], ReleasedRun(map[i]).index, FALSE, ReleasedRun(map[i]).count)
                      ELSE b[i - 1]
  <2>1. SUFFICES ASSUME NEW b, NEW i \in 1 .. len
                 PROVE  Loop(b, i) = IF IsGivenOut(map[i])
                                     THEN ChangeBits(b[i - 1], ReleasedRun(map[i]).index, FALSE, ReleasedRun(map[i]).count)
                                     ELSE b[i - 1]
    OBVIOUS
  <2>2. i # 0
    OBVIOUS
  <2> QED
    BY <2>2, Zenon
<1> HIDE DEF Loop, empty
<1>7. Bits(0) = first
  <2>1. \A f : ~GivenOut(map, 0, f)
    BY DEF GivenOut
  <2> QED
    BY <1>3, <2>1
<1>8. ASSUME NEW i \in 1 .. len
      PROVE  Bits(i) = IF IsGivenOut(map[i])
                       THEN ChangeBits(Bits(i - 1), ReleasedRun(map[i]).index, FALSE, ReleasedRun(map[i]).count)
                       ELSE Bits(i - 1)
  <2>1. ASSUME NEW f
        PROVE  GivenOut(map, i, f) <=> GivenOut(map, i - 1, f) \/ (IsGivenOut(map[i]) /\ InRun(map[i], f))
    <3>1. \A j \in 1 .. i : j = i \/ j \in 1 .. i - 1
      OBVIOUS
    <3>2. 1 .. i - 1 \subseteq 1 .. i /\ i \in 1 .. i
      OBVIOUS
    <3> QED
      BY <3>1, <3>2 DEF GivenOut
  <2>2. CASE ~IsGivenOut(map[i])
    BY <2>1, <2>2
  <2>3. CASE IsGivenOut(map[i])
    <3>1. ChangeBits(Bits(i - 1), ReleasedRun(map[i]).index, FALSE, ReleasedRun(map[i]).count)
             = [f \in 0 .. frames - 1 |-> IF InRun(map[i], f) THEN FALSE ELSE ~GivenOut(map, i - 1, f)]
      BY DEF ChangeBits, InRun
    <3>2. \A f \in 0 .. frames - 1 :
             (IF InRun(map[i], f) THEN FALSE ELSE ~GivenOut(map, i - 1, f)) = ~GivenOut(map, i, f)
      BY <2>1, <2>3 DEF InRun, GivenOut
    <3> QED
      BY <2>3, <3>1, <3>2
  <2> QED
    BY <2>2, <2>3
<1>9. PICK g : g = [i \in 0 .. len |-> Bits(i)]
  OBVIOUS
<1> HIDE DEF Bits
<1>10. ASSUME NEW i \in 0 .. len
       PROVE  Bits(i) = Loop(g, i)
  <2>1. CASE i = 0
    BY <1>5, <1>7, <2>1
  <2>2. CASE i # 0
    <3>1. i \in 1 .. len /\ i - 1 \in 0 .. len
      BY <2>2
    <3>2. g[i - 1] = Bits(i - 1)
      BY <1>9, <3>1
    <3> QED
      BY <1>6, <1>8, <3>1, <3>2
  <2> QED
    BY <2>1, <2>2
<1>11. g = Body(g)
  BY <1>9, <1>10
<1>12. bits = Body(bits)
  BY <1>11
<1> HIDE DEF bits
<1>13. ASSUME NEW i \in 0 .. len
       PROVE  bits[i] = Loop(bits, i)
  BY <1>12
<1> HIDE DEF Body
<1> DEFINE Bad == {i \in 0 .. len : bits[i] # Bits(i)}
<1>14. Bad = {}
  <2>1. SUFFICES ASSUME Bad # {}
                 PROVE  FALSE
    OBVIOUS
  <2>2. Bad \subseteq Nat
    OBVIOUS
  <2>3. PICK i \in Bad : \A j \in Bad : i <= j
    <3> HIDE DEF Bad
    <3> QED
      BY <2>1, <2>2, Least
  <2>4. i \in 0 .. len /\ bits[i] # Bits(i)
    OBVIOUS
  <2>5. i # 0
    BY <1>5, <1>7, <1>13, <2>4
  <2>6. i \in 1 .. len /\ i - 1 \in 0 .. len /\ ~(i <= i - 1)
    BY <2>4, <2>5
  <2>7. bits[i - 1] = Bits(i - 1)
    BY <2>3, <2>6
  <2> QED
    BY <1>6, <1>8, <1>13, <2>4, <2>6, <2>7
<1>15. bits[len] = Bits(len)
  <2>1. len \in 0 .. len
    OBVIOUS
  <2> QED
    BY <1>14, <2>1
<1> QED
  BY <1>1, <1>2, <1>4, <1>15 DEF Bits

\* The frames of a run are the frames of the region it is computed from.
LEMMA RunOfRegion ==
    ASSUME NEW base \in Nat, NEW length \in Nat, NEW p \in Nat \ {0}, base % p = 0, NEW f \in Nat
    PROVE  LET k == (((base + p - 1) \div p) * p) \div p
               c == length \div p
           IN /\ k \in Nat /\ c \in Nat /\ base = k * p
              /\ k <= f <=> base <= f * p
              /\ f < k + c <=> (f + 1) * p <= base + length
              /\ length >= p => c >= 1
<1>1. PICK q \in Nat : base = p * q
  <2>1. PICK q, r : q = base \div p /\ r = base % p
    OBVIOUS
  <2>2. q \in Nat /\ base = p * q + r
    BY <2>1, Division
  <2>3. r = 0
    BY <2>1
  <2>4. p * q \in Int
    BY <2>2
  <2>5. base = p * q
    BY <2>2, <2>3, <2>4
  <2> QED
    BY <2>2, <2>5
<1>2. PICK c \in Nat, r \in 0 .. p - 1 : c = length \div p /\ length = p * c + r
  BY Division
<1>3. (base + p - 1) \div p = q
  <2>1. PICK d \in Nat, s \in 0 .. p - 1 : d = (base + p - 1) \div p /\ base + p - 1 = p * d + s
    <3>1. base + p - 1 \in Nat
      OBVIOUS
    <3> QED
      BY <3>1, Division
  <2>2. p * q + p - 1 = p * d + s /\ p * q \in Int /\ p * d \in Int
    BY <1>1, <2>1
  <2>3. CASE d < q
    <3>1. p * (q - d - 1) >= 0 /\ p * (q - d - 1) = p * q - p * d - p
      BY <2>3
    <3> QED
      BY <2>2, <3>1
  <2>4. CASE q < d
    <3>1. p * (d - q - 1) >= 0 /\ p * (d - q - 1) = p * d - p * q - p
      BY <2>4
    <3> QED
      BY <2>2, <3>1
  <2> QED
    BY <2>1, <2>3, <2>4
<1>4. (q * p) \div p = q /\ q * p = base
  BY <1>1, FrameOfAddress
<1>5. q <= f <=> base <= f * p
  <2>1. CASE q <= f
    <3>1. p * (f - q) >= 0 /\ p * (f - q) = p * f - p * q /\ p * f = f * p /\ p * f \in Int /\ p * q \in Int
      BY <2>1
    <3> QED
      BY <1>1, <2>1, <3>1
  <2>2. CASE f < q
    <3>1. p * (q - f - 1) >= 0 /\ p * (q - f - 1) = p * q - p * f - p /\ p * f = f * p /\ p * f \in Int /\ p * q \in Int
      BY <2>2
    <3> QED
      BY <1>1, <2>2, <3>1
  <2> QED
    BY <2>1, <2>2
<1>6. f < q + c <=> (f + 1) * p <= base + length
  <2>1. base + length = p * (q + c) + r /\ p * (q + c) \in Int
    <3>1. p * (q + c) = p * q + p * c /\ p * q \in Int /\ p * c \in Int
      OBVIOUS
    <3> QED
      BY <1>1, <1>2, <3>1
  <2>2. PICK n \in Nat : n = q + c
    OBVIOUS
  <2>3. CASE f < n
    <3>1. p * (n - f - 1) >= 0 /\ p * (n - f - 1) = p * n - (f + 1) * p /\ (f + 1) * p \in Int
      BY <2>3
    <3> QED
      BY <2>1, <2>2, <2>3, <3>1
  <2>4. CASE n <= f
    <3>1. p * (f - n) >= 0 /\ p * (f - n) = (f + 1) * p - p * n - p /\ (f + 1) * p \in Int
      BY <2>4
    <3> QED
      BY <2>1, <2>2, <2>4, <3>1
  <2> QED
    BY <2>2, <2>3, <2>4
<1>7. length >= p => c >= 1
  <2>1. SUFFICES ASSUME length >= p, c = 0
                 PROVE  FALSE
    BY <1>2
  <2>2. p * c = 0
    BY <2>1
  <2> QED
    BY <1>2, <2>1, <2>2
<1> QED
  BY <1>2, <1>3, <1>4, <1>5, <1>6, <1>7

LEMMA BootBuildsExact ==
    ASSUME MapsAreAligned
    PROVE  BootIsExact
<1> SUFFICES ASSUME NEW map \in MemoryMaps, Len(map) # 0
             PROVE  /\ IsBitmap(InitialBitmap(map))
                    /\ \A f \in DOMAIN InitialBitmap(map) : InitialBitmap(map)[f] <=> ~UsableIn(map, f)
                    /\ \A i \in DOMAIN map : IsGivenOut(map[i]) =>
                          CanSetBits(InitialBitmap(map), ReleasedRun(map[i]).index, ReleasedRun(map[i]).count)
  BY DEF BootIsExact
<1>1. IsAlignedMap(map)
  BY DEF MapsAreAligned
<1>2. PICK frames \in 1 .. MAX_DWORD - 1 : frames = Limits(map).present \div PAGE_SIZE
  BY <1>1 DEF IsAlignedMap
<1>3. PICK len \in Nat : len = Len(map) /\ DOMAIN map = 1 .. len
  BY MapFacts
<1>4. PICK b : b = InitialBitmap(map)
  OBVIOUS
<1>5. b = [f \in 0 .. frames - 1 |-> ~GivenOut(map, len, f)]
  BY <1>2, <1>3, <1>4, InitialBits
<1>6. b \in [0 .. frames - 1 -> BOOLEAN] /\ DOMAIN b = 0 .. frames - 1
  BY <1>5
<1>7. PAGE_SIZE \in Nat \ {0} /\ MAX_DWORD \in Nat /\ frames \in Nat /\ frames < MAX_DWORD
  BY PmmAssumption, DwordAssumption
<1>8. ASSUME NEW i \in 1 .. len, IsGivenOut(map[i]), NEW f \in Nat
      PROVE  /\ ReleasedRun(map[i]).index \in Nat /\ ReleasedRun(map[i]).count \in Nat
             /\ map[i].BaseAddress = ReleasedRun(map[i]).index * PAGE_SIZE
             /\ ReleasedRun(map[i]).index <= f <=> map[i].BaseAddress <= f * PAGE_SIZE
             /\ f < ReleasedRun(map[i]).index + ReleasedRun(map[i]).count
                   <=> (f + 1) * PAGE_SIZE <= map[i].BaseAddress + map[i].Length
             /\ ReleasedRun(map[i]).count >= 1
  <2>1. PICK base \in Nat, length \in Nat : base = map[i].BaseAddress /\ length = map[i].Length
    BY <1>3, MapFacts
  <2>2. base % PAGE_SIZE = 0 /\ length >= PAGE_SIZE
    BY <1>1, <1>3, <1>8, <2>1 DEF IsAlignedMap
  <2>3. /\ ReleasedRun(map[i]).index = (((base + PAGE_SIZE - 1) \div PAGE_SIZE) * PAGE_SIZE) \div PAGE_SIZE
        /\ ReleasedRun(map[i]).count = length \div PAGE_SIZE
    BY <2>1 DEF ReleasedRun, AlignAddressUpper
  <2>4. PICK k, c : k = ReleasedRun(map[i]).index /\ c = ReleasedRun(map[i]).count
    OBVIOUS
  <2>5. /\ k \in Nat /\ c \in Nat /\ base = k * PAGE_SIZE
        /\ k <= f <=> base <= f * PAGE_SIZE
        /\ f < k + c <=> (f + 1) * PAGE_SIZE <= base + length
        /\ length >= PAGE_SIZE => c >= 1
    BY <1>7, <2>2, <2>3, <2>4, RunOfRegion
  <2> QED
    BY <2>1, <2>2, <2>4, <2>5
<1>9. ASSUME NEW f \in 0 .. frames - 1
      PROVE  b[f] <=> ~UsableIn(map, f)
  <2>1. f \in Nat
    BY <1>7
  <2>2. ASSUME NEW i \in 1 .. len
        PROVE  (IsGivenOut(map[i]) /\ InRun(map[i], f)) <=>
                  /\ map[i].Valid /\ map[i].Type = "UsableRAM" /\ MB_SIZE <= map[i].BaseAddress
                  /\ map[i].BaseAddress <= f * PAGE_SIZE
                  /\ (f + 1) * PAGE_SIZE <= map[i].BaseAddress + map[i].Length
    <3>1. map[i].BaseAddress \in Nat /\ MB_SIZE \in Nat
      BY <1>3, MapFacts, PmmAssumption
    <3>2. IsGivenOut(map[i]) <=> map[i].Valid /\ map[i].Type = "UsableRAM" /\ MB_SIZE <= map[i].BaseAddress
      BY <3>1 DEF IsGivenOut
    <3>3. IsGivenOut(map[i]) =>
             (InRun(map[i], f) <=> /\ map[i].BaseAddress <= f * PAGE_SIZE
                                   /\ (f + 1) * PAGE_SIZE <= map[i].BaseAddress + map[i].Length)
      BY <1>8, <2>1 DEF InRun
    <3> QED
      BY <3>2, <3>3
  <2>3. GivenOut(map, len, f) <=> UsableIn(map, f)
    BY <1>3, <2>2 DEF GivenOut, UsableIn
  <2> QED
    BY <1>5, <2>3
<1>10. ASSUME NEW i \in 1 .. len, IsGivenOut(map[i])
       PROVE  CanSetBits(b, ReleasedRun(map[i]).index, ReleasedRun(map[i]).count)
  <2>1. PICK index \in Nat, n \in Nat \ {0} : index = ReleasedRun(map[i]).index /\ n = ReleasedRun(map[i]).count
    <3>1. 0 \in Nat
      OBVIOUS
    <3>2. /\ ReleasedRun(map[i]).index \in Nat /\ ReleasedRun(map[i]).count \in Nat
          /\ ReleasedRun(map[i]).count >= 1
      BY <1>8, <1>10, <3>1
    <3>3. ReleasedRun(map[i]).count \in Nat \ {0}
      BY <3>2
    <3> QED
      BY <3>2, <3>3
  <2>2. PICK last \in Nat : last = index + n - 1
    BY <2>1
  <2>3. last < index + n
    BY <2>1, <2>2
  <2>4. (last + 1) * PAGE_SIZE <= map[i].BaseAddress + map[i].Length
    BY <1>8, <1>10, <2>1, <2>3
  <2>5. PICK present \in Nat : present = Limits(map).present /\ (last + 1) * PAGE_SIZE <= present
    <3>1. PICK present \in Nat, bound \in Nat :
             present = Limits(map).present /\ bound = map[i].BaseAddress + map[i].Length /\ bound <= present
      BY <1>3, MapFacts, PresentBounds
    <3>2. (last + 1) * PAGE_SIZE \in Nat
      BY <1>7, <2>2
    <3> QED
      BY <2>4, <3>1, <3>2
  <2>6. last < frames
    <3>1. PICK p \in Nat \ {0}, r \in 0 .. PAGE_SIZE - 1 : p = PAGE_SIZE /\ present = p * frames + r
      BY <1>2, <1>7, <2>5, Division
    <3>2. SUFFICES ASSUME frames <= last
                   PROVE  FALSE
      BY <1>7, <2>2
    <3>3. /\ p * (last - frames) >= 0 /\ p * (last - frames) = (last + 1) * p - p * frames - p
          /\ (last + 1) * p \in Int /\ p * frames \in Int
      BY <1>7, <2>2, <3>1, <3>2
    <3> QED
      BY <1>7, <2>5, <3>1, <3>3
  <2>7. index < frames /\ index + n <= frames
    BY <1>7, <2>1, <2>2, <2>6
  <2>8. (frames - n) % (MAX_DWORD + 1) >= index
    BY <1>7, <2>1, <2>7, RunFitsInDword
  <2>10. BitCount(b) = frames
    <3>1. frames \in 1 .. MAX_DWORD
      BY <1>7
    <3> QED
      BY <1>6, <3>1, BitCountIs
  <2> QED
    BY <2>1, <2>7, <2>8, <2>10 DEF CanSetBits
<1>11. IsBitmap(b)
  BY <1>6 DEF IsBitmap
<1> QED
  BY <1>3, <1>4, <1>6, <1>9, <1>10, <1>11

----------------------------------------------------------------------------
LEMMA ZeroIsInductive ==
    ASSUME MapsAreAligned
    PROVE  /\ ZeroWorkerInit => ZeroIInv
           /\ ZeroIInv /\ [ZeroNext]_zeroVars => ZeroIInv'
<1>1. BootIsExact
  BY BootBuildsExact
<1> QED
  BY <1>1, ZeroStart, ZeroNextStep

\* The page frames and the zero worker: a frame is free exactly when it is usable RAM
\* that nobody holds, no assertion of the bitmap fails at boot or later, and a frame
\* that MmuReleaseMemory queued is queued once, stays reserved until it is zeroed, and
\* reaches its next owner zeroed, however releases, the worker and reservations
\* interleave.
THEOREM FramesAreZeroed == ASSUME MapsAreAligned PROVE ZeroSpec => []ZeroInv
<1>1. ZeroWorkerInit => ZeroIInv
  BY ZeroIsInductive
<1>2. ZeroIInv /\ [ZeroNext]_zeroVars => ZeroIInv'
  BY ZeroIsInductive
<1>3. ZeroIInv => ZeroInv
  BY ZeroIInvImplies
<1> QED
  BY <1>1, <1>2, <1>3, PTL DEF ZeroSpec

\* PmmReserveMemoryEx returns the lowest run of free frames from MinPhysAddr on, one
\* nobody holds and never frame 0, and NULL only if there is none.
THEOREM ReservationsAreFirstFit == ASSUME MapsAreAligned PROVE ZeroSpec => FirstFit
<1>1. ZeroWorkerInit => ZeroIInv
  BY ZeroIsInductive
<1>2. ZeroIInv /\ [ZeroNext]_zeroVars => ZeroIInv'
  BY ZeroIsInductive
<1> QED
  BY <1>1, <1>2, FitNextStep, PTL DEF ZeroSpec, FirstFit

\* The event is set while the worker is awake; when it has found the list empty, a run that
\* was queued since has its signal before it or has lost it.
AwakeIsSignaled ==
    /\ zeroer \in {"remove", "zero", "release"} => NewPagesSignaled
    /\ zeroer = "clear" /\ PagesToZeroList # <<>> => signaling # {} \/ signalLost

\* A run that is queued for the zero worker is not forgotten, whatever releasers and the
\* worker do: its signal is to come or has been, unless it came between the test of the
\* empty list and the clearing of the event.
THEOREM QueuedIsNotForgotten == ZeroSpec => []QueuedIsSignaled
<1> DEFINE Kept == AwakeIsSignaled /\ QueuedIsSignaled
<1>1. ZeroWorkerInit => Kept
  BY DEF ZeroWorkerInit, AwakeIsSignaled, QueuedIsSignaled
<1>2. ASSUME Kept, [ZeroNext]_zeroVars PROVE Kept'
  <2> USE DEF AwakeIsSignaled, QueuedIsSignaled
  <2>1. CASE PmmInit
    BY <1>2, <2>1 DEF PmmInit
  <2>2. ASSUME NEW n \in 0 .. MaxFrames, NEW a \in MinAddresses, Reserve(n, a) PROVE Kept'
    BY <1>2, <2>2 DEF Reserve
  <2>3. ASSUME NEW r \in Releasers, NEW i \in held, NEW n \in 1 .. MaxFrames, MmuReleaseMemory(r, i, n)
        PROVE  Kept'
    BY <1>2, <2>3 DEF MmuReleaseMemory
  <2>4. ASSUME NEW r \in Releasers, SignalNewPages(r) PROVE Kept'
    BY <1>2, <2>4 DEF SignalNewPages
  <2>5. CASE ZeroerWait
    BY <1>2, <2>5 DEF ZeroerWait
  <2>6. CASE ZeroerRemove
    BY <1>2, <2>6 DEF ZeroerRemove
  <2>7. CASE ZeroerClear
    BY <1>2, <2>7 DEF ZeroerClear
  <2>8. CASE ZeroerZero
    BY <1>2, <2>8 DEF ZeroerZero
  <2>9. CASE ZeroerRelease
    BY <1>2, <2>9 DEF ZeroerRelease
  <2>10. CASE UNCHANGED zeroVars
    BY <1>2, <2>10 DEF zeroVars
  <2> QED
    BY <1>2, <2>1, <2>2, <2>3, <2>4, <2>5, <2>6, <2>7, <2>8, <2>9, <2>10 DEF ZeroNext, ZeroerStep
<1> QED
  BY <1>1, <1>2, PTL DEF ZeroSpec

----------------------------------------------------------------------------
\* Rings

Heads == Buckets \cup {ListHead}

\* The i-th node of a ring: its head is in front of the first element and behind the last.
NodeOf(h, s, i) == IF i \in 1 .. Len(s) THEN s[i] ELSE h

Chained(l, h, s) == \A i \in 0 .. Len(s) :
    /\ l.Flink[NodeOf(h, s, i)] = NodeOf(h, s, i + 1)
    /\ l.Blink[NodeOf(h, s, i + 1)] = NodeOf(h, s, i)

\* An element is in one ring, once.
Apart(R) == \A g \in Heads, h \in Heads : \A i \in 1 .. Len(R[g]), j \in 1 .. Len(R[h]) :
    R[g][i] = R[h][j] => g = h /\ i = j

Linked(R, e) == \E h \in Heads : \E i \in 1 .. Len(R[h]) : R[h][i] = e

\* The links l form the rings R.
Rings(l, R) ==
    /\ l.Flink \in [Nodes -> Nodes] /\ l.Blink \in [Nodes -> Nodes]
    /\ R \in [Heads -> Seq(Elements)]
    /\ Apart(R)
    /\ \A h \in Heads : Chained(l, h, R[h])

\* The rings R with e entered in that of h as its k-th element, or without its k-th element.
Enter(R, h, k, e) == [R EXCEPT ![h] = InsertAt(R[h], k, e)]
Leave(R, h, k) == [R EXCEPT ![h] = RemoveAt(R[h], k)]

LEMMA HeadFacts ==
    /\ Heads \subseteq Nodes /\ Elements \subseteq Nodes
    /\ \A h \in Heads : h \notin Elements
BY HashAssumption DEF Heads, Nodes, Buckets

LEMMA NodeFacts ==
    ASSUME NEW h \in Heads, NEW s \in Seq(Elements)
    PROVE  /\ \A i \in Nat : NodeOf(h, s, i) \in Nodes
           /\ \A i \in 1 .. Len(s) : NodeOf(h, s, i) = s[i] /\ s[i] \in Elements
           /\ NodeOf(h, s, 0) = h /\ NodeOf(h, s, Len(s) + 1) = h
<1>1. \A i \in 1 .. Len(s) : s[i] \in Elements
  OBVIOUS
<1>2. \A i \in 1 .. Len(s) : NodeOf(h, s, i) = s[i]
  BY DEF NodeOf
<1>3. NodeOf(h, s, 0) = h /\ NodeOf(h, s, Len(s) + 1) = h
  BY DEF NodeOf
<1>4. \A i \in Nat : NodeOf(h, s, i) \in Nodes
  BY <1>1, HeadFacts DEF NodeOf
<1> QED
  BY <1>1, <1>2, <1>3, <1>4

\* Two places of rings that hold one node are one place; the head counts in front of the
\* elements (0) or behind them.
LEMMA NodeUnique ==
    ASSUME NEW R \in [Heads -> Seq(Elements)], Apart(R), NEW g \in Heads, NEW h \in Heads,
           NEW i \in Nat, NEW j \in Nat, NodeOf(g, R[g], i) = NodeOf(h, R[h], j)
    PROVE  /\ i \in 0 .. Len(R[g]) /\ j \in 0 .. Len(R[h]) => g = h /\ i = j
           /\ i \in 1 .. Len(R[g]) + 1 /\ j \in 1 .. Len(R[h]) + 1 => g = h /\ i = j
<1> SUFFICES ASSUME \/ i \in 0 .. Len(R[g]) /\ j \in 0 .. Len(R[h])
                    \/ i \in 1 .. Len(R[g]) + 1 /\ j \in 1 .. Len(R[h]) + 1
             PROVE  g = h /\ i = j
  OBVIOUS
<1>1. R[g] \in Seq(Elements) /\ R[h] \in Seq(Elements) /\ Len(R[g]) \in Nat /\ Len(R[h]) \in Nat
  OBVIOUS
<1>2. CASE i \in 1 .. Len(R[g]) /\ j \in 1 .. Len(R[h])
  BY <1>2 DEF Apart, NodeOf
<1>3. CASE i \in 1 .. Len(R[g]) /\ j \notin 1 .. Len(R[h])
  <2>1. NodeOf(g, R[g], i) \in Elements
    BY <1>1, <1>3, NodeFacts
  <2>2. NodeOf(h, R[h], j) = h
    BY <1>3 DEF NodeOf
  <2> QED
    BY <2>1, <2>2, HeadFacts
<1>4. CASE i \notin 1 .. Len(R[g]) /\ j \in 1 .. Len(R[h])
  <2>1. NodeOf(h, R[h], j) \in Elements
    BY <1>1, <1>4, NodeFacts
  <2>2. NodeOf(g, R[g], i) = g
    BY <1>4 DEF NodeOf
  <2> QED
    BY <2>1, <2>2, HeadFacts
<1>5. CASE i \notin 1 .. Len(R[g]) /\ j \notin 1 .. Len(R[h])
  <2>1. g = h
    BY <1>5 DEF NodeOf
  <2>2. i = j
    BY <1>1, <1>5, <2>1
  <2> QED
    BY <2>1, <2>2
<1> QED
  BY <1>2, <1>3, <1>4, <1>5

LEMMA NodeNotFree ==
    ASSUME NEW R \in [Heads -> Seq(Elements)], NEW e \in Elements, ~Linked(R, e),
           NEW g \in Heads, NEW i \in Nat
    PROVE  NodeOf(g, R[g], i) # e
BY HeadFacts DEF NodeOf, Linked

\* The nodes of a ring in order, with its head at both ends.
Places(l, h, s, N) ==
    /\ \A i \in 0 .. Len(s) + 1 : N[i] = NodeOf(h, s, i) /\ N[i] \in Nodes
    /\ \A i \in 0 .. Len(s), j \in 0 .. Len(s) : N[i] = N[j] => i = j
    /\ \A i \in 1 .. Len(s) + 1, j \in 1 .. Len(s) + 1 : N[i] = N[j] => i = j
    /\ \A i \in 0 .. Len(s) : l.Flink[N[i]] = N[i + 1] /\ l.Blink[N[i + 1]] = N[i]

LEMMA PlacesExist ==
    ASSUME NEW l, NEW R, Rings(l, R), NEW h \in Heads
    PROVE  \E N : Places(l, h, R[h], N)
<1>1. R \in [Heads -> Seq(Elements)] /\ Apart(R) /\ Chained(l, h, R[h])
  BY DEF Rings
<1>2. PICK s \in Seq(Elements) : s = R[h]
  BY <1>1
<1>3. PICK N : N = [i \in 0 .. Len(s) + 1 |-> NodeOf(h, s, i)]
  OBVIOUS
<1>4. \A i \in 0 .. Len(s) + 1 : N[i] = NodeOf(h, s, i) /\ N[i] \in Nodes
  <2> TAKE i \in 0 .. Len(s) + 1
  <2>1. i \in Nat
    OBVIOUS
  <2> QED
    BY <1>3, <2>1, NodeFacts
<1>5. \A i \in Nat, j \in Nat : NodeOf(h, s, i) = NodeOf(h, s, j) =>
          /\ i \in 0 .. Len(s) /\ j \in 0 .. Len(s) => i = j
          /\ i \in 1 .. Len(s) + 1 /\ j \in 1 .. Len(s) + 1 => i = j
  BY <1>1, <1>2, NodeUnique
<1>6. \A i \in 0 .. Len(s), j \in 0 .. Len(s) : N[i] = N[j] => i = j
  <2> TAKE i \in 0 .. Len(s), j \in 0 .. Len(s)
  <2>1. i \in Nat /\ j \in Nat /\ i \in 0 .. Len(s) + 1 /\ j \in 0 .. Len(s) + 1
    OBVIOUS
  <2> QED
    BY <1>4, <1>5, <2>1
<1>7. \A i \in 1 .. Len(s) + 1, j \in 1 .. Len(s) + 1 : N[i] = N[j] => i = j
  <2> TAKE i \in 1 .. Len(s) + 1, j \in 1 .. Len(s) + 1
  <2>1. i \in Nat /\ j \in Nat /\ i \in 0 .. Len(s) + 1 /\ j \in 0 .. Len(s) + 1
    OBVIOUS
  <2> QED
    BY <1>4, <1>5, <2>1
<1>8. \A i \in 0 .. Len(s) : l.Flink[N[i]] = N[i + 1] /\ l.Blink[N[i + 1]] = N[i]
  <2> TAKE i \in 0 .. Len(s)
  <2>1. i \in 0 .. Len(s) + 1 /\ i + 1 \in 0 .. Len(s) + 1
    OBVIOUS
  <2> QED
    BY <1>1, <1>2, <1>4, <2>1 DEF Chained
<1>9. Places(l, h, s, N)
  BY <1>4, <1>6, <1>7, <1>8 DEF Places
<1> QED
  BY <1>2, <1>9

\* The links m are l with e entered between p and q.
Entered(l, m, p, q, e) ==
    /\ m.Flink \in [Nodes -> Nodes] /\ m.Blink \in [Nodes -> Nodes]
    /\ \A n \in Nodes : m.Flink[n] = IF n = p THEN e ELSE IF n = e THEN q ELSE l.Flink[n]
    /\ \A n \in Nodes : m.Blink[n] = IF n = q THEN e ELSE IF n = e THEN p ELSE l.Blink[n]

\* Entering e behind the k-th node of a ring.
LEMMA LinkIn ==
    ASSUME NEW l, NEW m, NEW R, Rings(l, R), NEW h \in Heads, NEW k \in 0 .. Len(R[h]),
           NEW e \in Elements, ~Linked(R, e),
           Entered(l, m, NodeOf(h, R[h], k), NodeOf(h, R[h], k + 1), e)
    PROVE  Rings(m, Enter(R, h, k + 1, e))
<1>0. /\ m.Flink \in [Nodes -> Nodes] /\ m.Blink \in [Nodes -> Nodes]
      /\ \A n \in Nodes : m.Flink[n] = IF n = NodeOf(h, R[h], k) THEN e
                                         ELSE IF n = e THEN NodeOf(h, R[h], k + 1) ELSE l.Flink[n]
      /\ \A n \in Nodes : m.Blink[n] = IF n = NodeOf(h, R[h], k + 1) THEN e
                                         ELSE IF n = e THEN NodeOf(h, R[h], k) ELSE l.Blink[n]
  BY DEF Entered
<1>1. R \in [Heads -> Seq(Elements)] /\ Apart(R) /\ \A g \in Heads : Chained(l, g, R[g])
  BY DEF Rings
<1>2. PICK s \in Seq(Elements) : s = R[h]
  BY <1>1
<1>3. PICK t \in Seq(Elements) : /\ t = InsertAt(s, k + 1, e) /\ Len(t) = Len(s) + 1
                                /\ \A j \in 1 .. Len(s) + 1 :
                                      t[j] = IF j < k + 1 THEN s[j] ELSE IF j = k + 1 THEN e ELSE s[j - 1]
  <2>1. k + 1 \in 1 .. Len(s) + 1
    BY <1>2
  <2>2. PICK n \in 1 .. Len(s) + 1 : n = k + 1
    BY <2>1
  <2>3. PICK t \in Seq(Elements) : t = InsertAt(s, n, e) /\ Inserted(s, n, e, t)
    BY InsertAtIs
  <2> QED
    BY <2>2, <2>3 DEF Inserted
<1>4. PICK Q : Q = [R EXCEPT ![h] = t]
  OBVIOUS
<1>5. Q \in [Heads -> Seq(Elements)] /\ Q[h] = t /\ \A g \in Heads : g # h => Q[g] = R[g]
  BY <1>1, <1>4
<1>6. k \in Nat /\ Len(s) \in Nat /\ k <= Len(s)
  BY <1>2
<1>7. \A i \in 0 .. Len(s) + 2 :
          NodeOf(h, t, i) = IF i <= k THEN NodeOf(h, s, i)
                            ELSE IF i = k + 1 THEN e ELSE NodeOf(h, s, i - 1)
  <2> TAKE i \in 0 .. Len(s) + 2
  <2>1. CASE i = 0
    BY <1>6, <2>1, NodeFacts
  <2>2. CASE i = Len(s) + 2
    <3>1. i = Len(t) + 1 /\ ~(i <= k) /\ i # k + 1 /\ i - 1 = Len(s) + 1
      BY <1>3, <1>6, <2>2
    <3> QED
      BY <3>1, NodeFacts
  <2>3. CASE i \in 1 .. Len(s) + 1
    <3>1. NodeOf(h, t, i) = t[i]
      BY <1>3, <2>3 DEF NodeOf
    <3>2. CASE i <= k
      <4>1. i \in 1 .. Len(s) /\ i < k + 1
        BY <1>6, <2>3, <3>2
      <4> QED
        BY <1>3, <2>3, <3>1, <3>2, <4>1 DEF NodeOf
    <3>3. CASE i = k + 1
      BY <1>3, <1>6, <2>3, <3>1, <3>3
    <3>4. CASE i > k + 1
      <4>1. i - 1 \in 1 .. Len(s) /\ ~(i <= k) /\ i # k + 1 /\ ~(i < k + 1)
        BY <1>6, <2>3, <3>4
      <4> QED
        BY <1>3, <2>3, <3>1, <4>1 DEF NodeOf
    <3> QED
      BY <1>6, <3>2, <3>3, <3>4
  <2> QED
    <3>1. i = 0 \/ i = Len(s) + 2 \/ i \in 1 .. Len(s) + 1
      BY <1>6
    <3> QED
      BY <2>1, <2>2, <2>3, <3>1
<1>8. ASSUME NEW g \in Heads, NEW i \in Nat
      PROVE  NodeOf(g, R[g], i) # e /\ NodeOf(g, R[g], i) \in Nodes
  <2>1. R[g] \in Seq(Elements)
    BY <1>1
  <2>2. NodeOf(g, R[g], i) # e
    BY <1>1, NodeNotFree
  <2>3. NodeOf(g, R[g], i) \in Nodes
    BY <2>1, NodeFacts
  <2> QED
    BY <2>2, <2>3
<1>9. PICK N : Places(l, h, s, N)
  BY <1>2, PlacesExist
<1>10. /\ \A i \in 0 .. Len(s) + 1 : N[i] = NodeOf(h, s, i) /\ N[i] \in Nodes /\ N[i] # e
       /\ \A i \in 0 .. Len(s), j \in 0 .. Len(s) : N[i] = N[j] => i = j
       /\ \A i \in 1 .. Len(s) + 1, j \in 1 .. Len(s) + 1 : N[i] = N[j] => i = j
       /\ \A i \in 0 .. Len(s) : l.Flink[N[i]] = N[i + 1] /\ l.Blink[N[i + 1]] = N[i]
  <2>1. ASSUME NEW i \in 0 .. Len(s) + 1
        PROVE  N[i] = NodeOf(h, s, i) /\ N[i] \in Nodes /\ N[i] # e
    <3>1. i \in Nat
      BY <1>6
    <3> QED
      BY <1>2, <1>8, <1>9, <3>1 DEF Places
  <2> QED
    BY <1>2, <1>9, <2>1 DEF Places
<1>11. /\ \A n \in Nodes : m.Flink[n] = IF n = N[k] THEN e ELSE IF n = e THEN N[k + 1] ELSE l.Flink[n]
       /\ \A n \in Nodes : m.Blink[n] = IF n = N[k + 1] THEN e ELSE IF n = e THEN N[k] ELSE l.Blink[n]
       /\ e \in Nodes
  <2>1. k \in 0 .. Len(s) + 1 /\ k + 1 \in 0 .. Len(s) + 1
    BY <1>6
  <2> QED
    BY <1>0, <1>2, <1>10, <2>1, HeadFacts
<1>12. Chained(m, h, t)
  <2> SUFFICES ASSUME NEW i \in 0 .. Len(s) + 1
               PROVE  /\ m.Flink[NodeOf(h, t, i)] = NodeOf(h, t, i + 1)
                      /\ m.Blink[NodeOf(h, t, i + 1)] = NodeOf(h, t, i)
    BY <1>3 DEF Chained
  <2>1. i \in 0 .. Len(s) + 2 /\ i + 1 \in 0 .. Len(s) + 2
    BY <1>6
  <2>2. CASE i < k
    <3>1. i <= k /\ i + 1 <= k /\ i \in 0 .. Len(s) /\ i + 1 \in 1 .. Len(s) + 1 /\ i + 1 \in 0 .. Len(s) + 1
          /\ i \in 0 .. Len(s) + 1 /\ k \in 0 .. Len(s) /\ k + 1 \in 1 .. Len(s) + 1 /\ i # k /\ i + 1 # k + 1
      BY <1>6, <2>2
    <3>2. NodeOf(h, t, i) = N[i] /\ NodeOf(h, t, i + 1) = N[i + 1]
      BY <1>7, <1>10, <2>1, <3>1
    <3>3. N[i] # N[k] /\ N[i + 1] # N[k + 1] /\ N[i] # e /\ N[i + 1] # e /\ N[i] \in Nodes /\ N[i + 1] \in Nodes
      BY <1>10, <3>1
    <3>4. m.Flink[N[i]] = l.Flink[N[i]] /\ m.Blink[N[i + 1]] = l.Blink[N[i + 1]]
      BY <1>11, <3>3
    <3> QED
      BY <1>10, <3>1, <3>2, <3>4
  <2>3. CASE i = k
    <3>1. i <= k /\ ~(i + 1 <= k) /\ k \in 0 .. Len(s) + 1 /\ k + 1 \in 0 .. Len(s) + 1
      BY <1>6, <2>3
    <3>2. NodeOf(h, t, i) = N[k] /\ NodeOf(h, t, i + 1) = e
      BY <1>7, <1>10, <2>1, <2>3, <3>1
    <3>3. N[k] \in Nodes /\ N[k + 1] # e
      BY <1>10, <3>1
    <3> QED
      BY <1>11, <3>2, <3>3
  <2>4. CASE i = k + 1
    <3>1. ~(i <= k) /\ ~(i + 1 <= k) /\ i + 1 # k + 1 /\ i + 1 - 1 = k + 1 /\ k \in 0 .. Len(s) + 1 /\ k + 1 \in 0 .. Len(s) + 1
      BY <1>6, <2>4
    <3>2. NodeOf(h, t, i) = e /\ NodeOf(h, t, i + 1) = N[k + 1]
      BY <1>7, <1>10, <2>1, <2>4, <3>1
    <3>3. N[k + 1] \in Nodes /\ N[k] # e
      BY <1>10, <3>1
    <3> QED
      BY <1>11, <3>2, <3>3
  <2>5. CASE i > k + 1
    <3>1. /\ ~(i <= k) /\ i # k + 1 /\ ~(i + 1 <= k) /\ i + 1 # k + 1 /\ i + 1 - 1 = i
          /\ i - 1 \in 0 .. Len(s) /\ i \in 1 .. Len(s) + 1 /\ i \in 0 .. Len(s) + 1 /\ i - 1 \in 0 .. Len(s) + 1
          /\ k \in 0 .. Len(s) /\ k + 1 \in 1 .. Len(s) + 1 /\ i - 1 # k /\ (i - 1) + 1 = i
      BY <1>6, <2>5
    <3>2. NodeOf(h, t, i) = N[i - 1] /\ NodeOf(h, t, i + 1) = N[i]
      BY <1>7, <1>10, <2>1, <3>1
    <3>3. N[i - 1] # N[k] /\ N[i] # N[k + 1] /\ N[i - 1] # e /\ N[i] # e /\ N[i - 1] \in Nodes /\ N[i] \in Nodes
      BY <1>10, <3>1
    <3>4. m.Flink[N[i - 1]] = l.Flink[N[i - 1]] /\ m.Blink[N[i]] = l.Blink[N[i]]
      BY <1>11, <3>3
    <3>5. l.Flink[N[i - 1]] = N[i] /\ l.Blink[N[i]] = N[i - 1]
      BY <1>10, <3>1
    <3> QED
      BY <3>2, <3>4, <3>5
  <2> QED
    BY <1>6, <2>2, <2>3, <2>4, <2>5
<1>13. ASSUME NEW g \in Heads, g # h
       PROVE  Chained(m, g, R[g])
  <2> SUFFICES ASSUME NEW i \in 0 .. Len(R[g])
               PROVE  /\ m.Flink[NodeOf(g, R[g], i)] = NodeOf(g, R[g], i + 1)
                      /\ m.Blink[NodeOf(g, R[g], i + 1)] = NodeOf(g, R[g], i)
    BY DEF Chained
  <2>0. R[g] \in Seq(Elements) /\ Len(R[g]) \in Nat
    BY <1>1
  <2>1. i \in Nat /\ i + 1 \in Nat /\ i <= Len(R[g]) /\ i + 1 \in 1 .. Len(R[g]) + 1
        /\ k + 1 \in Nat /\ k + 1 \in 1 .. Len(R[h]) + 1 /\ k <= Len(R[h])
    BY <1>2, <1>6, <2>0
  <2>2. NodeOf(g, R[g], i) # NodeOf(h, R[h], k)
    <3>1. k \in 0 .. Len(R[h])
      OBVIOUS
    <3> QED
      BY <1>1, <1>6, <1>13, <2>1, <3>1, NodeUnique
  <2>3. NodeOf(g, R[g], i + 1) # NodeOf(h, R[h], k + 1)
    BY <1>1, <1>6, <1>13, <2>1, NodeUnique
  <2>4. /\ m.Flink[NodeOf(g, R[g], i)] = l.Flink[NodeOf(g, R[g], i)]
        /\ m.Blink[NodeOf(g, R[g], i + 1)] = l.Blink[NodeOf(g, R[g], i + 1)]
    BY <1>0, <1>8, <2>1, <2>2, <2>3
  <2> QED
    BY <1>1, <2>4 DEF Chained
<1>14. Apart(Q)
  <2>1. ASSUME NEW a \in 1 .. Len(t), NEW g \in Heads, g # h, NEW b \in 1 .. Len(R[g])
        PROVE  t[a] # R[g][b]
    <3>1. t[a] = e \/ \E c \in 1 .. Len(s) : t[a] = s[c]
      <4>1. a \in 1 .. Len(s) + 1 /\ (a < k + 1 => a \in 1 .. Len(s)) /\ (a > k + 1 => a - 1 \in 1 .. Len(s))
            /\ (a < k + 1 \/ a = k + 1 \/ a > k + 1)
        BY <1>3, <1>6
      <4> QED
        BY <1>3, <1>6, <4>1
    <3> QED
      BY <1>1, <1>2, <2>1, <3>1 DEF Apart, Linked
  <2>2. ASSUME NEW a \in 1 .. Len(t), NEW b \in 1 .. Len(t), t[a] = t[b]
        PROVE  a = b
    <3>1. a \in 1 .. Len(s) + 1 /\ b \in 1 .. Len(s) + 1
      BY <1>3
    <3>2. \A c \in 1 .. Len(s) + 1 : NodeOf(h, t, c) = t[c]
      BY <1>3 DEF NodeOf
    <3>3. \A c \in 1 .. Len(s) + 1 : t[c] = IF c <= k THEN N[c] ELSE IF c = k + 1 THEN e ELSE N[c - 1]
      <4> TAKE c \in 1 .. Len(s) + 1
      <4>1. c \in 0 .. Len(s) + 2 /\ c \in 0 .. Len(s) + 1 /\ c - 1 \in 0 .. Len(s) + 1
        BY <1>6
      <4> QED
        BY <1>7, <1>10, <3>2, <4>1
    <3>4. \A c \in 1 .. Len(s) + 1 : /\ c <= k => c \in 1 .. Len(s) /\ c \in 0 .. Len(s) + 1
                                     /\ c > k + 1 => c - 1 \in 1 .. Len(s) /\ c - 1 \in 0 .. Len(s) + 1
                                     /\ c <= k \/ c = k + 1 \/ c > k + 1
      BY <1>6
    <3>5. CASE a = k + 1 \/ b = k + 1
      <4>1. \A c \in 1 .. Len(s) + 1 : t[c] = e <=> c = k + 1
        <5> TAKE c \in 1 .. Len(s) + 1
        <5>1. CASE c <= k
          BY <1>6, <1>10, <3>3, <3>4, <5>1
        <5>2. CASE c = k + 1
          BY <1>6, <3>3, <5>2
        <5>3. CASE c > k + 1
          <6>1. ~(c <= k) /\ c # k + 1
            BY <1>6, <5>3
          <6>2. N[c - 1] # e
            BY <1>10, <3>4, <5>3
          <6> QED
            BY <3>3, <6>1, <6>2
        <5> QED
          BY <3>4, <5>1, <5>2, <5>3
      <4> QED
        BY <2>2, <3>1, <3>5, <4>1
    <3>6. CASE a # k + 1 /\ b # k + 1
      <4>1. PICK c \in 1 .. Len(s) : t[a] = N[c] /\ c = IF a <= k THEN a ELSE a - 1
        BY <3>1, <3>3, <3>4, <3>6
      <4>2. PICK d \in 1 .. Len(s) : t[b] = N[d] /\ d = IF b <= k THEN b ELSE b - 1
        BY <3>1, <3>3, <3>4, <3>6
      <4>3. c = d
        <5>1. c \in 0 .. Len(s) /\ d \in 0 .. Len(s)
          BY <1>6
        <5>2. N[c] = N[d]
          BY <2>2, <4>1, <4>2
        <5> QED
          BY <1>10, <5>1, <5>2
      <4> QED
        BY <1>6, <3>1, <3>6, <4>1, <4>2, <4>3
    <3> QED
      BY <3>5, <3>6
  <2>3. ASSUME NEW f \in Heads, NEW g \in Heads, NEW a \in 1 .. Len(Q[f]), NEW b \in 1 .. Len(Q[g]),
               Q[f][a] = Q[g][b]
        PROVE  f = g /\ a = b
    <3>1. CASE f = h /\ g = h
      BY <1>5, <2>2, <2>3, <3>1
    <3>2. CASE f = h /\ g # h
      BY <1>5, <2>1, <2>3, <3>2
    <3>3. CASE f # h /\ g = h
      BY <1>5, <2>1, <2>3, <3>3
    <3>4. CASE f # h /\ g # h
      BY <1>1, <1>5, <2>3, <3>4 DEF Apart
    <3> QED
      BY <3>1, <3>2, <3>3, <3>4
  <2> QED
    BY <2>3 DEF Apart
<1> QED
  BY <1>2, <1>3, <1>4, <1>5, <1>0, <1>12, <1>13, <1>14 DEF Rings, Enter

\* Leaving a ring at its k-th node.
LEMMA LinkOut ==
    ASSUME NEW l, NEW m, NEW R, Rings(l, R), NEW h \in Heads, NEW k \in 1 .. Len(R[h]),
           m.Flink \in [Nodes -> Nodes], m.Blink \in [Nodes -> Nodes],
           \A n \in Nodes : m.Flink[n] = IF n = NodeOf(h, R[h], k - 1) THEN NodeOf(h, R[h], k + 1) ELSE l.Flink[n],
           \A n \in Nodes : m.Blink[n] = IF n = NodeOf(h, R[h], k + 1) THEN NodeOf(h, R[h], k - 1) ELSE l.Blink[n]
    PROVE  Rings(m, Leave(R, h, k))
<1>1. R \in [Heads -> Seq(Elements)] /\ Apart(R) /\ \A g \in Heads : Chained(l, g, R[g])
  BY DEF Rings
<1>2. PICK s \in Seq(Elements) : s = R[h]
  BY <1>1
<1>3. PICK t \in Seq(Elements) : /\ t = RemoveAt(s, k) /\ Len(t) = Len(s) - 1
                                /\ \A j \in 1 .. Len(s) - 1 : t[j] = IF j < k THEN s[j] ELSE s[j + 1]
  BY <1>2, RemoveAtFacts
<1>4. PICK Q : Q = [R EXCEPT ![h] = t]
  OBVIOUS
<1>5. Q \in [Heads -> Seq(Elements)] /\ Q[h] = t /\ \A g \in Heads : g # h => Q[g] = R[g]
  BY <1>1, <1>4
<1>6. k \in Nat /\ Len(s) \in Nat /\ 1 <= k /\ k <= Len(s)
  BY <1>2
<1>7. \A i \in 0 .. Len(s) : NodeOf(h, t, i) = IF i < k THEN NodeOf(h, s, i) ELSE NodeOf(h, s, i + 1)
  <2> TAKE i \in 0 .. Len(s)
  <2>1. CASE i = 0
    BY <1>6, <2>1, NodeFacts
  <2>2. CASE i = Len(s)
    <3>1. i = Len(t) + 1 /\ ~(i < k) /\ i + 1 = Len(s) + 1
      BY <1>3, <1>6, <2>2
    <3> QED
      BY <3>1, NodeFacts
  <2>3. CASE i \in 1 .. Len(s) - 1
    <3>1. NodeOf(h, t, i) = t[i]
      BY <1>3, <2>3 DEF NodeOf
    <3>2. i \in 1 .. Len(s) /\ i + 1 \in 1 .. Len(s)
      BY <1>6, <2>3
    <3> QED
      BY <1>3, <2>3, <3>1, <3>2 DEF NodeOf
  <2> QED
    <3>1. i = 0 \/ i = Len(s) \/ i \in 1 .. Len(s) - 1
      BY <1>6
    <3> QED
      BY <2>1, <2>2, <2>3, <3>1
<1>8. PICK N : Places(l, h, s, N)
  BY <1>2, PlacesExist
<1>9. /\ \A i \in 0 .. Len(s) + 1 : N[i] = NodeOf(h, s, i) /\ N[i] \in Nodes
      /\ \A i \in 0 .. Len(s), j \in 0 .. Len(s) : N[i] = N[j] => i = j
      /\ \A i \in 1 .. Len(s) + 1, j \in 1 .. Len(s) + 1 : N[i] = N[j] => i = j
      /\ \A i \in 0 .. Len(s) : l.Flink[N[i]] = N[i + 1] /\ l.Blink[N[i + 1]] = N[i]
  BY <1>8 DEF Places
<1>10. /\ \A n \in Nodes : m.Flink[n] = IF n = N[k - 1] THEN N[k + 1] ELSE l.Flink[n]
       /\ \A n \in Nodes : m.Blink[n] = IF n = N[k + 1] THEN N[k - 1] ELSE l.Blink[n]
  <2>1. k - 1 \in 0 .. Len(s) + 1 /\ k + 1 \in 0 .. Len(s) + 1
    BY <1>6
  <2> QED
    BY <1>2, <1>9, <2>1
<1>11. Chained(m, h, t)
  <2> SUFFICES ASSUME NEW i \in 0 .. Len(s) - 1
               PROVE  /\ m.Flink[NodeOf(h, t, i)] = NodeOf(h, t, i + 1)
                      /\ m.Blink[NodeOf(h, t, i + 1)] = NodeOf(h, t, i)
    BY <1>3 DEF Chained
  <2>1. i \in 0 .. Len(s) /\ i + 1 \in 0 .. Len(s)
    BY <1>6
  <2>2. CASE i + 1 < k
    <3>1. /\ i < k /\ i \in 0 .. Len(s) + 1 /\ i + 1 \in 0 .. Len(s) + 1 /\ i + 1 \in 1 .. Len(s) + 1
          /\ k - 1 \in 0 .. Len(s) /\ k + 1 \in 1 .. Len(s) + 1 /\ i # k - 1 /\ i + 1 # k + 1
      BY <1>6, <2>2
    <3>2. NodeOf(h, t, i) = N[i] /\ NodeOf(h, t, i + 1) = N[i + 1]
      BY <1>7, <1>9, <2>1, <2>2, <3>1
    <3>3. N[i] # N[k - 1] /\ N[i + 1] # N[k + 1] /\ N[i] \in Nodes /\ N[i + 1] \in Nodes
      BY <1>9, <2>1, <3>1
    <3>4. m.Flink[N[i]] = l.Flink[N[i]] /\ m.Blink[N[i + 1]] = l.Blink[N[i + 1]]
      BY <1>10, <3>3
    <3> QED
      BY <1>9, <2>1, <3>2, <3>4
  <2>3. CASE i + 1 = k
    <3>1. /\ i < k /\ ~(i + 1 < k) /\ i = k - 1 /\ (i + 1) + 1 = k + 1
          /\ k - 1 \in 0 .. Len(s) + 1 /\ k + 1 \in 0 .. Len(s) + 1
      BY <1>6, <2>3
    <3>2. NodeOf(h, t, i) = N[k - 1] /\ NodeOf(h, t, i + 1) = N[k + 1]
      <4>1. NodeOf(h, t, i) = NodeOf(h, s, k - 1)
        BY <1>7, <2>1, <3>1
      <4>2. NodeOf(h, t, i + 1) = NodeOf(h, s, k + 1)
        BY <1>7, <2>1, <3>1
      <4> QED
        BY <1>9, <3>1, <4>1, <4>2
    <3>3. N[k - 1] \in Nodes /\ N[k + 1] \in Nodes
      BY <1>9, <3>1
    <3> QED
      BY <1>10, <3>2, <3>3
  <2>4. CASE i + 1 > k
    <3>1. /\ ~(i < k) /\ ~(i + 1 < k) /\ i + 1 \in 0 .. Len(s) + 1 /\ (i + 1) + 1 \in 0 .. Len(s) + 1
          /\ (i + 1) + 1 \in 1 .. Len(s) + 1 /\ k - 1 \in 0 .. Len(s) /\ k + 1 \in 1 .. Len(s) + 1
          /\ i + 1 # k - 1 /\ (i + 1) + 1 # k + 1
      BY <1>6, <2>4
    <3>2. NodeOf(h, t, i) = N[i + 1] /\ NodeOf(h, t, i + 1) = N[(i + 1) + 1]
      BY <1>7, <1>9, <2>1, <3>1
    <3>3. N[i + 1] # N[k - 1] /\ N[(i + 1) + 1] # N[k + 1] /\ N[i + 1] \in Nodes /\ N[(i + 1) + 1] \in Nodes
      BY <1>9, <2>1, <3>1
    <3>4. m.Flink[N[i + 1]] = l.Flink[N[i + 1]] /\ m.Blink[N[(i + 1) + 1]] = l.Blink[N[(i + 1) + 1]]
      BY <1>10, <3>3
    <3> QED
      BY <1>9, <2>1, <3>2, <3>4
  <2> QED
    BY <1>6, <2>2, <2>3, <2>4
<1>12. ASSUME NEW g \in Heads, g # h
       PROVE  Chained(m, g, R[g])
  <2> SUFFICES ASSUME NEW i \in 0 .. Len(R[g])
               PROVE  /\ m.Flink[NodeOf(g, R[g], i)] = NodeOf(g, R[g], i + 1)
                      /\ m.Blink[NodeOf(g, R[g], i + 1)] = NodeOf(g, R[g], i)
    BY DEF Chained
  <2>0. R[g] \in Seq(Elements) /\ Len(R[g]) \in Nat
    BY <1>1
  <2>1. i \in Nat /\ i + 1 \in Nat /\ i <= Len(R[g]) /\ i + 1 \in 1 .. Len(R[g]) + 1
        /\ k + 1 \in Nat /\ k + 1 \in 1 .. Len(R[h]) + 1 /\ k - 1 \in Nat /\ k - 1 \in 0 .. Len(R[h])
    BY <1>2, <1>6, <2>0
  <2>2. NodeOf(g, R[g], i) # NodeOf(h, R[h], k - 1)
    BY <1>1, <1>12, <2>1, NodeUnique
  <2>3. NodeOf(g, R[g], i + 1) # NodeOf(h, R[h], k + 1)
    BY <1>1, <1>12, <2>1, NodeUnique
  <2>4. NodeOf(g, R[g], i) \in Nodes /\ NodeOf(g, R[g], i + 1) \in Nodes
    BY <2>0, <2>1, NodeFacts
  <2>5. /\ m.Flink[NodeOf(g, R[g], i)] = l.Flink[NodeOf(g, R[g], i)]
        /\ m.Blink[NodeOf(g, R[g], i + 1)] = l.Blink[NodeOf(g, R[g], i + 1)]
    BY <2>2, <2>3, <2>4
  <2> QED
    BY <1>1, <2>5 DEF Chained
<1>13. Apart(Q)
  <2>1. \A a \in 1 .. Len(t) : /\ a < k => a \in 1 .. Len(s) /\ t[a] = s[a]
                               /\ ~(a < k) => a + 1 \in 1 .. Len(s) /\ t[a] = s[a + 1]
    <3> TAKE a \in 1 .. Len(t)
    <3>1. a \in 1 .. Len(s) - 1 /\ a \in 1 .. Len(s) /\ a + 1 \in 1 .. Len(s)
      BY <1>3, <1>6
    <3> QED
      BY <1>3, <3>1
  <2>2. ASSUME NEW a \in 1 .. Len(t), NEW g \in Heads, g # h, NEW b \in 1 .. Len(R[g])
        PROVE  t[a] # R[g][b]
    <3>1. PICK c \in 1 .. Len(R[h]) : t[a] = R[h][c]
      BY <1>2, <2>1
    <3> QED
      BY <1>1, <2>2, <3>1 DEF Apart
  <2>3. ASSUME NEW a \in 1 .. Len(t), NEW b \in 1 .. Len(t), t[a] = t[b]
        PROVE  a = b
    <3>0. a + 1 \in Nat /\ b + 1 \in Nat /\ a \in Nat /\ b \in Nat
      OBVIOUS
    <3>1. PICK c \in 1 .. Len(s) : t[a] = s[c] /\ c = IF a < k THEN a ELSE a + 1
      BY <2>1
    <3>2. PICK d \in 1 .. Len(s) : t[b] = s[d] /\ d = IF b < k THEN b ELSE b + 1
      BY <2>1
    <3>3. c = d
      <4>1. s[c] = s[d]
        BY <2>3, <3>1, <3>2
      <4> QED
        BY <1>1, <1>2, <4>1 DEF Apart
    <3> QED
      BY <1>3, <1>6, <3>1, <3>2, <3>3
  <2>4. ASSUME NEW f \in Heads, NEW g \in Heads, NEW a \in 1 .. Len(Q[f]), NEW b \in 1 .. Len(Q[g]),
               Q[f][a] = Q[g][b]
        PROVE  f = g /\ a = b
    <3>1. CASE f = h /\ g = h
      BY <1>5, <2>3, <2>4, <3>1
    <3>2. CASE f = h /\ g # h
      BY <1>5, <2>2, <2>4, <3>2
    <3>3. CASE f # h /\ g = h
      BY <1>5, <2>2, <2>4, <3>3
    <3>4. CASE f # h /\ g # h
      BY <1>1, <1>5, <2>4, <3>4 DEF Apart
    <3> QED
      BY <3>1, <3>2, <3>3, <3>4
  <2> QED
    BY <2>4 DEF Apart
<1> QED
  BY <1>2, <1>3, <1>4, <1>5, <1>11, <1>12, <1>13 DEF Rings, Leave

LEMMA OneChanged ==
    ASSUME NEW f \in [Nodes -> Nodes], NEW a \in Nodes, NEW x \in Nodes, NEW g, g = [f EXCEPT ![a] = x]
    PROVE  g \in [Nodes -> Nodes] /\ \A n \in Nodes : g[n] = IF n = a THEN x ELSE f[n]
OBVIOUS

LEMMA TwoChanged ==
    ASSUME NEW f \in [Nodes -> Nodes], NEW a \in Nodes, NEW x \in Nodes, NEW b \in Nodes, NEW y \in Nodes,
           NEW g, g = [f EXCEPT ![a] = x, ![b] = y]
    PROVE  g \in [Nodes -> Nodes] /\ \A n \in Nodes : g[n] = IF n = b THEN y ELSE IF n = a THEN x ELSE f[n]
OBVIOUS

\* The neighbours of a node of a ring.
LEMMA Neighbours ==
    ASSUME NEW l, NEW R, Rings(l, R), NEW h \in Heads, NEW k \in 0 .. Len(R[h])
    PROVE  /\ NodeOf(h, R[h], k) \in Nodes /\ NodeOf(h, R[h], k + 1) \in Nodes
           /\ l.Flink[NodeOf(h, R[h], k)] = NodeOf(h, R[h], k + 1)
           /\ l.Blink[NodeOf(h, R[h], k + 1)] = NodeOf(h, R[h], k)
<1>1. R[h] \in Seq(Elements) /\ Len(R[h]) \in Nat
  BY DEF Rings
<1>2. k \in Nat /\ k + 1 \in Nat
  BY <1>1
<1> QED
  BY <1>1, <1>2, NodeFacts DEF Rings, Chained

LEMMA InsertHeadIs ==
    ASSUME NEW l, NEW R, Rings(l, R), NEW h \in Heads, NEW k \in 0 .. Len(R[h]),
           NEW e \in Elements, ~Linked(R, e)
    PROVE  Rings(InsertHeadList(l, NodeOf(h, R[h], k), e), Enter(R, h, k + 1, e))
<1>1. PICK p, q : p = NodeOf(h, R[h], k) /\ q = NodeOf(h, R[h], k + 1)
  OBVIOUS
<1>2. p \in Nodes /\ q \in Nodes /\ l.Flink[p] = q /\ l.Blink[q] = p /\ e \in Nodes
  BY <1>1, Neighbours, HeadFacts
<1>3. p # e /\ q # e
  <2>1. k \in Nat /\ k + 1 \in Nat /\ R \in [Heads -> Seq(Elements)]
    BY DEF Rings
  <2> QED
    BY <1>1, <2>1, NodeNotFree
<1>4. PICK m : m = InsertHeadList(l, p, e)
  OBVIOUS
<1>5. m.Flink = [l.Flink EXCEPT ![e] = q, ![p] = e] /\ m.Blink = [l.Blink EXCEPT ![e] = p, ![q] = e]
  BY <1>2, <1>4 DEF InsertHeadList
<1>6. l.Flink \in [Nodes -> Nodes] /\ l.Blink \in [Nodes -> Nodes]
  BY DEF Rings
<1>7. /\ m.Flink \in [Nodes -> Nodes]
      /\ \A n \in Nodes : m.Flink[n] = IF n = p THEN e ELSE IF n = e THEN q ELSE l.Flink[n]
  <2>1. PICK f, g : f = l.Flink /\ g = m.Flink
    OBVIOUS
  <2>2. f \in [Nodes -> Nodes] /\ g = [f EXCEPT ![e] = q, ![p] = e]
    BY <1>5, <1>6, <2>1
  <2>3. g \in [Nodes -> Nodes] /\ \A n \in Nodes : g[n] = IF n = p THEN e ELSE IF n = e THEN q ELSE f[n]
    BY <1>2, <2>2, TwoChanged
  <2> QED
    BY <2>1, <2>3
<1>8. /\ m.Blink \in [Nodes -> Nodes]
      /\ \A n \in Nodes : m.Blink[n] = IF n = q THEN e ELSE IF n = e THEN p ELSE l.Blink[n]
  <2>1. PICK f, g : f = l.Blink /\ g = m.Blink
    OBVIOUS
  <2>2. f \in [Nodes -> Nodes] /\ g = [f EXCEPT ![e] = p, ![q] = e]
    BY <1>5, <1>6, <2>1
  <2>3. g \in [Nodes -> Nodes] /\ \A n \in Nodes : g[n] = IF n = q THEN e ELSE IF n = e THEN p ELSE f[n]
    BY <1>2, <2>2, TwoChanged
  <2> QED
    BY <2>1, <2>3
<1>9. Entered(l, m, p, q, e)
  BY <1>7, <1>8 DEF Entered
<1>10. Rings(m, Enter(R, h, k + 1, e))
  BY <1>1, <1>9, LinkIn
<1> QED
  BY <1>1, <1>4, <1>10

LEMMA InsertTailIs ==
    ASSUME NEW l, NEW R, Rings(l, R), NEW h \in Heads, NEW k \in 0 .. Len(R[h]),
           NEW e \in Elements, ~Linked(R, e)
    PROVE  Rings(InsertTailList(l, NodeOf(h, R[h], k + 1), e), Enter(R, h, k + 1, e))
<1>1. PICK p, q : p = NodeOf(h, R[h], k) /\ q = NodeOf(h, R[h], k + 1)
  OBVIOUS
<1>2. p \in Nodes /\ q \in Nodes /\ l.Flink[p] = q /\ l.Blink[q] = p /\ e \in Nodes
  BY <1>1, Neighbours, HeadFacts
<1>3. p # e /\ q # e
  <2>1. k \in Nat /\ k + 1 \in Nat /\ R \in [Heads -> Seq(Elements)]
    BY DEF Rings
  <2> QED
    BY <1>1, <2>1, NodeNotFree
<1>4. PICK m : m = InsertTailList(l, q, e)
  OBVIOUS
<1>5. m.Flink = [l.Flink EXCEPT ![e] = q, ![p] = e] /\ m.Blink = [l.Blink EXCEPT ![e] = p, ![q] = e]
  BY <1>2, <1>4 DEF InsertTailList
<1>6. l.Flink \in [Nodes -> Nodes] /\ l.Blink \in [Nodes -> Nodes]
  BY DEF Rings
<1>7. /\ m.Flink \in [Nodes -> Nodes]
      /\ \A n \in Nodes : m.Flink[n] = IF n = p THEN e ELSE IF n = e THEN q ELSE l.Flink[n]
  <2>1. PICK f, g : f = l.Flink /\ g = m.Flink
    OBVIOUS
  <2>2. f \in [Nodes -> Nodes] /\ g = [f EXCEPT ![e] = q, ![p] = e]
    BY <1>5, <1>6, <2>1
  <2>3. g \in [Nodes -> Nodes] /\ \A n \in Nodes : g[n] = IF n = p THEN e ELSE IF n = e THEN q ELSE f[n]
    BY <1>2, <2>2, TwoChanged
  <2> QED
    BY <2>1, <2>3
<1>8. /\ m.Blink \in [Nodes -> Nodes]
      /\ \A n \in Nodes : m.Blink[n] = IF n = q THEN e ELSE IF n = e THEN p ELSE l.Blink[n]
  <2>1. PICK f, g : f = l.Blink /\ g = m.Blink
    OBVIOUS
  <2>2. f \in [Nodes -> Nodes] /\ g = [f EXCEPT ![e] = p, ![q] = e]
    BY <1>5, <1>6, <2>1
  <2>3. g \in [Nodes -> Nodes] /\ \A n \in Nodes : g[n] = IF n = q THEN e ELSE IF n = e THEN p ELSE f[n]
    BY <1>2, <2>2, TwoChanged
  <2> QED
    BY <2>1, <2>3
<1>9. Entered(l, m, p, q, e)
  BY <1>7, <1>8 DEF Entered
<1>10. Rings(m, Enter(R, h, k + 1, e))
  BY <1>1, <1>9, LinkIn
<1> QED
  BY <1>1, <1>4, <1>10

\* What the three ways to remove a node have in common.
LEMMA Unlinked ==
    ASSUME NEW l, NEW R, Rings(l, R), NEW h \in Heads, NEW k \in 1 .. Len(R[h]), NEW m,
           m.Flink = [l.Flink EXCEPT ![NodeOf(h, R[h], k - 1)] = NodeOf(h, R[h], k + 1)],
           m.Blink = [l.Blink EXCEPT ![NodeOf(h, R[h], k + 1)] = NodeOf(h, R[h], k - 1)]
    PROVE  Rings(m, Leave(R, h, k))
<1>1. PICK p, q : p = NodeOf(h, R[h], k - 1) /\ q = NodeOf(h, R[h], k + 1)
  OBVIOUS
<1>2. p \in Nodes /\ q \in Nodes
  <2>1. R[h] \in Seq(Elements) /\ k - 1 \in Nat /\ k + 1 \in Nat
    BY DEF Rings
  <2> QED
    BY <1>1, <2>1, NodeFacts
<1>3. l.Flink \in [Nodes -> Nodes] /\ l.Blink \in [Nodes -> Nodes]
  BY DEF Rings
<1>4. m.Flink \in [Nodes -> Nodes] /\ \A n \in Nodes : m.Flink[n] = IF n = p THEN q ELSE l.Flink[n]
  BY <1>1, <1>2, <1>3, OneChanged
<1>5. m.Blink \in [Nodes -> Nodes] /\ \A n \in Nodes : m.Blink[n] = IF n = q THEN p ELSE l.Blink[n]
  BY <1>1, <1>2, <1>3, OneChanged
<1> QED
  BY <1>1, <1>4, <1>5, LinkOut

\* Where the k-th element of a ring is.
LEMMA Around ==
    ASSUME NEW l, NEW R, Rings(l, R), NEW h \in Heads, NEW k \in 1 .. Len(R[h])
    PROVE  /\ R[h][k] = NodeOf(h, R[h], k)
           /\ l.Flink[NodeOf(h, R[h], k)] = NodeOf(h, R[h], k + 1)
           /\ l.Blink[NodeOf(h, R[h], k)] = NodeOf(h, R[h], k - 1)
           /\ l.Flink[NodeOf(h, R[h], k - 1)] = NodeOf(h, R[h], k)
           /\ l.Blink[NodeOf(h, R[h], k + 1)] = NodeOf(h, R[h], k)
<1>1. R[h] \in Seq(Elements) /\ Len(R[h]) \in Nat
  BY DEF Rings
<1>2. PICK i \in 0 .. Len(R[h]) : i = k - 1 /\ i + 1 = k /\ k \in 0 .. Len(R[h])
  BY <1>1
<1>3. R[h][k] = NodeOf(h, R[h], k)
  BY DEF NodeOf
<1>4. l.Flink[NodeOf(h, R[h], k)] = NodeOf(h, R[h], k + 1) /\ l.Blink[NodeOf(h, R[h], k + 1)] = NodeOf(h, R[h], k)
  BY <1>2, Neighbours
<1>5. l.Flink[NodeOf(h, R[h], i)] = NodeOf(h, R[h], i + 1) /\ l.Blink[NodeOf(h, R[h], i + 1)] = NodeOf(h, R[h], i)
  BY <1>2, Neighbours
<1> QED
  BY <1>2, <1>3, <1>4, <1>5

LEMMA RemoveEntryIs ==
    ASSUME NEW l, NEW R, Rings(l, R), NEW h \in Heads, NEW k \in 1 .. Len(R[h])
    PROVE  Rings(RemoveEntryList(l, R[h][k]), Leave(R, h, k))
<1>1. PICK m : m = RemoveEntryList(l, R[h][k])
  OBVIOUS
<1>2. /\ m.Flink = [l.Flink EXCEPT ![NodeOf(h, R[h], k - 1)] = NodeOf(h, R[h], k + 1)]
      /\ m.Blink = [l.Blink EXCEPT ![NodeOf(h, R[h], k + 1)] = NodeOf(h, R[h], k - 1)]
  BY <1>1, Around DEF RemoveEntryList
<1> QED
  BY <1>1, <1>2, Unlinked

LEMMA RemoveHeadIs ==
    ASSUME NEW l, NEW R, Rings(l, R), NEW h \in Heads, R[h] # <<>>
    PROVE  Rings(RemoveHeadList(l, h), Leave(R, h, 1))
<1>1. PICK m : m = RemoveHeadList(l, h)
  OBVIOUS
<1>2. R[h] \in Seq(Elements) /\ Len(R[h]) \in Nat
  BY DEF Rings
<1>3. PICK k \in 1 .. Len(R[h]) : k = 1 /\ k - 1 = 0
  BY <1>2
<1>4. NodeOf(h, R[h], k - 1) = h
  BY <1>2, <1>3, NodeFacts
<1>5. l.Flink[h] = NodeOf(h, R[h], k) /\ l.Flink[l.Flink[h]] = NodeOf(h, R[h], k + 1)
  BY <1>4, Around
<1>6. /\ m.Flink = [l.Flink EXCEPT ![NodeOf(h, R[h], k - 1)] = NodeOf(h, R[h], k + 1)]
      /\ m.Blink = [l.Blink EXCEPT ![NodeOf(h, R[h], k + 1)] = NodeOf(h, R[h], k - 1)]
  BY <1>1, <1>4, <1>5 DEF RemoveHeadList
<1> QED
  BY <1>1, <1>3, <1>6, Unlinked

LEMMA RemoveTailIs ==
    ASSUME NEW l, NEW R, Rings(l, R), NEW h \in Heads, R[h] # <<>>
    PROVE  Rings(RemoveTailList(l, h), Leave(R, h, Len(R[h])))
<1>1. PICK m : m = RemoveTailList(l, h)
  OBVIOUS
<1>2. R[h] \in Seq(Elements) /\ Len(R[h]) \in Nat
  BY DEF Rings
<1>3. PICK k \in 1 .. Len(R[h]) : k = Len(R[h])
  BY <1>2
<1>4. NodeOf(h, R[h], k + 1) = h
  BY <1>2, <1>3, NodeFacts
<1>5. l.Blink[h] = NodeOf(h, R[h], k) /\ l.Blink[l.Blink[h]] = NodeOf(h, R[h], k - 1)
  BY <1>4, Around
<1>6. /\ m.Flink = [l.Flink EXCEPT ![NodeOf(h, R[h], k - 1)] = NodeOf(h, R[h], k + 1)]
      /\ m.Blink = [l.Blink EXCEPT ![NodeOf(h, R[h], k + 1)] = NodeOf(h, R[h], k - 1)]
  BY <1>1, <1>4, <1>5 DEF RemoveTailList
<1> QED
  BY <1>1, <1>3, <1>6, Unlinked

\* Removing from an empty list changes nothing.
LEMMA RemoveFromEmpty ==
    ASSUME NEW l, NEW R, Rings(l, R), NEW h \in Heads, R[h] = <<>>
    PROVE  Rings(RemoveHeadList(l, h), R) /\ Rings(RemoveTailList(l, h), R)
<1>1. PICK m, n : m = RemoveHeadList(l, h) /\ n = RemoveTailList(l, h)
  OBVIOUS
<1>2. l.Flink[h] = h /\ l.Blink[h] = h
  <2>1. R[h] \in Seq(Elements) /\ Len(R[h]) = 0 /\ 0 \in 0 .. Len(R[h])
    BY DEF Rings
  <2>2. NodeOf(h, R[h], 0) = h /\ NodeOf(h, R[h], 0 + 1) = h
    BY <2>1, NodeFacts
  <2> QED
    BY <2>1, <2>2, Neighbours
<1>3. l.Flink \in [Nodes -> Nodes] /\ l.Blink \in [Nodes -> Nodes] /\ h \in Nodes
  BY HeadFacts DEF Rings
<1>4. [l.Flink EXCEPT ![h] = h] = l.Flink /\ [l.Blink EXCEPT ![h] = h] = l.Blink
  BY <1>2, <1>3
<1>5. m.Flink = l.Flink /\ m.Blink = l.Blink /\ n.Flink = l.Flink /\ n.Blink = l.Blink
  BY <1>1, <1>2, <1>4 DEF RemoveHeadList, RemoveTailList
<1>6. Rings(m, R) /\ Rings(n, R)
  BY <1>5 DEF Rings, Chained
<1> QED
  BY <1>1, <1>6


----------------------------------------------------------------------------
\* Following the links

LEMMA UpToHolds ==
    ASSUME NEW n \in Nat, NEW S, 0 \in S, \A i \in 1 .. n : i - 1 \in S => i \in S
    PROVE  0 .. n \subseteq S
<1> DEFINE Bad == {i \in 0 .. n : i \notin S}
<1>1. SUFFICES ASSUME Bad # {}
               PROVE  FALSE
  OBVIOUS
<1>2. PICK i \in Bad : \A j \in Bad : i <= j
  <2>1. Bad \subseteq Nat
    OBVIOUS
  <2> QED
    BY <1>1, <2>1, Least
<1>3. i \in 1 .. n /\ i - 1 \in 0 .. n /\ i - 1 \in S
  BY <1>2
<1> QED
  BY <1>2, <1>3

\* The links lead from the head along s and back.
Leads(link, h, s) == \A i \in 0 .. Len(s) : link[NodeOf(h, s, i)] = NodeOf(h, s, i + 1)

\* The first n elements of s, or all of them.
UpToLength(s, n) == SubSeq(s, 1, IF n <= Len(s) THEN n ELSE Len(s))

LEMMA FirstOnes ==
    ASSUME NEW S, NEW s \in Seq(S), NEW m \in 0 .. Len(s)
    PROVE  /\ SubSeq(s, 1, m) \in Seq(S)
           /\ Len(SubSeq(s, 1, m)) = m
           /\ \A i \in 1 .. m : SubSeq(s, 1, m)[i] = s[i]
<1>1. Len(s) \in Nat
  OBVIOUS
<1>2. m \in Nat /\ m <= Len(s)
  BY <1>1
<1>3. \A i \in 1 .. m : i \in 1 .. Len(s) /\ s[i] \in S
  BY <1>1, <1>2
<1> QED
  BY <1>1, <1>2, <1>3

LEMMA FurtherIs ==
    ASSUME NEW h \in Heads, NEW s \in Seq(Elements), NEW link, Leads(link, h, s), NEW n \in Nat
    PROVE  Further(link, h, UpToLength(s, n)) = UpToLength(s, n + 1)
<1>1. PICK m \in 0 .. Len(s) : m = IF n <= Len(s) THEN n ELSE Len(s)
  OBVIOUS
<1>2. PICK b \in Seq(Elements) : b = SubSeq(s, 1, m) /\ Len(b) = m /\ \A i \in 1 .. m : b[i] = s[i]
  BY FirstOnes
<1>3. UpToLength(s, n) = b
  BY <1>1, <1>2 DEF UpToLength
<1>4. (IF b = <<>> THEN h ELSE Last(b)) = NodeOf(h, s, m)
  <2>1. CASE m = 0
    <3>1. b = <<>>
      BY <1>2, <2>1
    <3> QED
      BY <2>1, <3>1, NodeFacts
  <2>2. CASE m # 0
    <3>1. b # <<>> /\ m \in 1 .. Len(s) /\ m \in 1 .. m
      BY <1>2, <2>2
    <3>2. Last(b) = s[m]
      BY <1>2, <3>1 DEF Last
    <3> QED
      BY <3>1, <3>2 DEF NodeOf
  <2> QED
    BY <2>1, <2>2
<1>5. Further(link, h, b) = IF NodeOf(h, s, m + 1) = h THEN b ELSE Append(b, NodeOf(h, s, m + 1))
  BY <1>4 DEF Further, Leads
<1>6. CASE n < Len(s)
  <2>1. m = n /\ m + 1 \in 1 .. Len(s) /\ n + 1 <= Len(s)
    BY <1>1, <1>6
  <2>2. NodeOf(h, s, m + 1) = s[m + 1] /\ s[m + 1] \in Elements /\ s[m + 1] # h
    BY <2>1, HeadFacts DEF NodeOf
  <2>3. Further(link, h, b) = Append(b, s[m + 1])
    BY <1>5, <2>2
  <2>4. Append(b, s[m + 1]) = SubSeq(s, 1, m + 1)
    <3>1. PICK c \in Seq(Elements) : c = SubSeq(s, 1, m + 1) /\ Len(c) = m + 1 /\ \A i \in 1 .. m + 1 : c[i] = s[i]
      <4>1. m + 1 \in 0 .. Len(s)
        BY <2>1
      <4> QED
        BY <4>1, FirstOnes
    <3>2. PICK d \in Seq(Elements) : /\ d = Append(b, s[m + 1]) /\ Len(d) = m + 1
                                     /\ \A i \in 1 .. m : d[i] = b[i]
                                     /\ d[m + 1] = s[m + 1]
      <4>1. PICK x \in Elements : x = s[m + 1]
        BY <2>2
      <4>2. /\ Append(b, x) \in Seq(Elements) /\ Len(Append(b, x)) = Len(b) + 1
            /\ \A i \in 1 .. Len(b) : Append(b, x)[i] = b[i]
            /\ Append(b, x)[Len(b) + 1] = x
        BY AppendProperties
      <4> QED
        BY <1>2, <4>1, <4>2
    <3>3. \A i \in 1 .. m + 1 : c[i] = d[i]
      <4> TAKE i \in 1 .. m + 1
      <4>1. i = m + 1 \/ i \in 1 .. m
        OBVIOUS
      <4> QED
        BY <1>2, <3>1, <3>2, <4>1
    <3> QED
      BY <3>1, <3>2, <3>3
  <2>5. UpToLength(s, n + 1) = SubSeq(s, 1, m + 1)
    BY <2>1 DEF UpToLength
  <2> QED
    BY <1>3, <2>3, <2>4, <2>5
<1>7. CASE n >= Len(s)
  <2>1. m = Len(s)
    BY <1>1, <1>7
  <2>2. NodeOf(h, s, m + 1) = h
    BY <2>1, NodeFacts
  <2>3. UpToLength(s, n + 1) = b
    <3>1. (IF n + 1 <= Len(s) THEN n + 1 ELSE Len(s)) = m
      BY <1>7, <2>1
    <3> QED
      BY <1>2, <3>1 DEF UpToLength
  <2> QED
    BY <1>3, <1>5, <2>2, <2>3
<1> QED
  BY <1>6, <1>7

LEMMA NodesAreFinite == IsFiniteSet(Nodes) /\ Cardinality(Nodes) \in Nat
<1>1. IsFiniteSet(Buckets)
  BY HashAssumption, FS_Interval DEF Buckets
<1>2. IsFiniteSet(Buckets \cup Elements)
  BY <1>1, HashAssumption, FS_Union
<1>3. IsFiniteSet(Nodes)
  BY <1>2, FS_AddElement DEF Nodes
<1> QED
  BY <1>3, FS_CardinalityType

LEMMA VisitedIs ==
    ASSUME NEW h \in Heads, NEW s \in Seq(Elements), NEW link, Leads(link, h, s),
           \A i \in 1 .. Len(s), j \in 1 .. Len(s) : s[i] = s[j] => i = j
    PROVE  Visited(link, h) = s
<1> DEFINE n == Cardinality(Nodes)
           Body(f) == [i \in 0 .. n |-> IF i = 0 THEN <<>> ELSE Further(link, h, f[i - 1])]
           path == CHOOSE f : f = Body(f)
<1>1. n \in Nat /\ Len(s) \in Nat /\ Len(s) <= n
  <2>1. PICK S : S = 1 .. Len(s)
    OBVIOUS
  <2>2. s \in Injection(S, Nodes)
    <3>1. s \in [S -> Nodes]
      BY <2>1, HeadFacts
    <3> QED
      BY <2>1, <3>1 DEF Injection, IsInjective
  <2>3. Cardinality(S) <= n
    BY <2>2, NodesAreFinite, FS_Injection
  <2>4. Cardinality(S) = Len(s)
    <3>1. 1 \in Int /\ Len(s) \in Int /\ Len(s) >= 0
      OBVIOUS
    <3>2. Cardinality(1 .. Len(s)) = IF 1 > Len(s) THEN 0 ELSE Len(s) - 1 + 1
      BY <3>1, FS_Interval
    <3> QED
      BY <2>1, <3>1, <3>2
  <2> QED
    BY <2>3, <2>4, NodesAreFinite
<1> HIDE DEF n
<1>2. PICK g : g = [i \in 0 .. n |-> UpToLength(s, i)]
  OBVIOUS
<1>3. UpToLength(s, 0) = <<>> /\ UpToLength(s, n) = s
  <2>1. UpToLength(s, 0) = SubSeq(s, 1, 0)
    BY <1>1 DEF UpToLength
  <2>2. UpToLength(s, n) = SubSeq(s, 1, Len(s))
    <3>1. (IF n <= Len(s) THEN n ELSE Len(s)) = Len(s)
      BY <1>1
    <3> QED
      BY <3>1 DEF UpToLength
  <2> QED
    BY <2>1, <2>2
<1>4. g = Body(g)
  <2>1. \A i \in 0 .. n : g[i] = IF i = 0 THEN <<>> ELSE Further(link, h, g[i - 1])
    <3> TAKE i \in 0 .. n
    <3>1. CASE i = 0
      BY <1>2, <1>3, <3>1
    <3>2. CASE i # 0
      <4>1. i - 1 \in 0 .. n /\ i - 1 \in Nat /\ (i - 1) + 1 = i
        BY <1>1, <3>2
      <4>2. Further(link, h, UpToLength(s, i - 1)) = UpToLength(s, (i - 1) + 1)
        BY <4>1, FurtherIs
      <4> QED
        BY <1>2, <3>2, <4>1, <4>2
    <3> QED
      BY <3>1, <3>2
  <2> QED
    BY <1>2, <2>1
<1>5. path = Body(path)
  <2> HIDE DEF Body
  <2> QED
    BY <1>4
<1>6. VisitedUpTo(link, h) = path
  BY DEF VisitedUpTo, n
<1> HIDE DEF path
<1>7. /\ path[0] = <<>>
      /\ \A i \in 1 .. n : path[i] = Further(link, h, path[i - 1])
  <2>1. 0 \in 0 .. n /\ \A i \in 1 .. n : i \in 0 .. n /\ i # 0
    BY <1>1
  <2> QED
    BY <1>5, <2>1
<1>8. 0 .. n \subseteq {i \in 0 .. n : path[i] = UpToLength(s, i)}
  <2> DEFINE S == {i \in 0 .. n : path[i] = UpToLength(s, i)}
  <2>1. 0 \in S
    BY <1>1, <1>3, <1>7
  <2>2. ASSUME NEW i \in 1 .. n, i - 1 \in S
        PROVE  i \in S
    <3>1. i \in 0 .. n /\ i - 1 \in Nat /\ (i - 1) + 1 = i
      BY <1>1
    <3>2. Further(link, h, UpToLength(s, i - 1)) = UpToLength(s, (i - 1) + 1)
      BY <3>1, FurtherIs
    <3> QED
      BY <1>7, <2>2, <3>1, <3>2
  <2> HIDE DEF S
  <2>3. 0 .. n \subseteq S
    BY <1>1, <2>1, <2>2, UpToHolds
  <2> QED
    BY <2>3 DEF S
<1>9. path[n] = s
  <2>1. n \in 0 .. n
    BY <1>1
  <2> QED
    BY <1>3, <1>8, <2>1
<1> QED
  BY <1>6, <1>9 DEF Visited, n

\* What a loop over a ring visits, in both directions.
LEMMA RingIsVisited ==
    ASSUME NEW l, NEW R, Rings(l, R), NEW h \in Heads
    PROVE  Visited(l.Flink, h) = R[h] /\ Visited(l.Blink, h) = Reverse(R[h])
<1>1. PICK s \in Seq(Elements) : s = R[h]
  BY DEF Rings
<1>2. \A i \in 1 .. Len(s), j \in 1 .. Len(s) : s[i] = s[j] => i = j
  BY <1>1 DEF Rings, Apart
<1>3. /\ \A i \in 0 .. Len(s) : l.Flink[NodeOf(h, s, i)] = NodeOf(h, s, i + 1)
      /\ \A i \in 0 .. Len(s) : l.Blink[NodeOf(h, s, i + 1)] = NodeOf(h, s, i)
  BY <1>1 DEF Rings, Chained
<1>4. Visited(l.Flink, h) = s
  <2>1. Leads(l.Flink, h, s)
    BY <1>3 DEF Leads
  <2> QED
    BY <1>2, <2>1, VisitedIs
<1>5. PICK t \in Seq(Elements) : /\ t = Reverse(s) /\ Len(t) = Len(s)
                                /\ \A i \in 1 .. Len(s) : t[i] = s[(Len(s) - i) + 1]
  <2>1. \A i \in 1 .. Len(s) : (Len(s) - i) + 1 \in 1 .. Len(s)
    OBVIOUS
  <2>2. Reverse(s) \in [1 .. Len(s) -> Elements]
    BY <2>1 DEF Reverse
  <2>3. Reverse(s) \in Seq(Elements) /\ Len(Reverse(s)) = Len(s)
    BY <2>2
  <2> QED
    BY <2>3 DEF Reverse
<1>6. \A i \in 0 .. Len(s) + 1 : NodeOf(h, t, i) = NodeOf(h, s, (Len(s) - i) + 1)
  <2> TAKE i \in 0 .. Len(s) + 1
  <2>1. CASE i \in 1 .. Len(s)
    <3>1. (Len(s) - i) + 1 \in 1 .. Len(s)
      BY <2>1
    <3> QED
      BY <1>5, <2>1, <3>1 DEF NodeOf
  <2>2. CASE i \notin 1 .. Len(s)
    <3>1. (Len(s) - i) + 1 \notin 1 .. Len(s)
      BY <2>2
    <3> QED
      BY <1>5, <2>2, <3>1 DEF NodeOf
  <2> QED
    BY <2>1, <2>2
<1>7. Leads(l.Blink, h, t)
  <2> SUFFICES ASSUME NEW i \in 0 .. Len(s)
               PROVE  l.Blink[NodeOf(h, t, i)] = NodeOf(h, t, i + 1)
    BY <1>5 DEF Leads
  <2>1. PICK j \in 0 .. Len(s) : j = Len(s) - i /\ (Len(s) - i) + 1 = j + 1 /\ (Len(s) - (i + 1)) + 1 = j
    OBVIOUS
  <2>2. i \in 0 .. Len(s) + 1 /\ i + 1 \in 0 .. Len(s) + 1
    OBVIOUS
  <2>3. NodeOf(h, t, i) = NodeOf(h, s, j + 1) /\ NodeOf(h, t, i + 1) = NodeOf(h, s, j)
    BY <1>6, <2>1, <2>2
  <2> QED
    BY <1>3, <2>3
<1>8. \A i \in 1 .. Len(t), j \in 1 .. Len(t) : t[i] = t[j] => i = j
  <2> SUFFICES ASSUME NEW i \in 1 .. Len(s), NEW j \in 1 .. Len(s), t[i] = t[j]
               PROVE  i = j
    BY <1>5
  <2>0. (Len(s) - i) + 1 \in 1 .. Len(s) /\ (Len(s) - j) + 1 \in 1 .. Len(s)
    OBVIOUS
  <2>1. PICK c \in 1 .. Len(s), d \in 1 .. Len(s) : c = (Len(s) - i) + 1 /\ d = (Len(s) - j) + 1
    BY <2>0
  <2>2. s[c] = s[d]
    BY <1>5, <2>1
  <2>3. c = d
    BY <1>2, <2>2
  <2> QED
    BY <2>1, <2>3
<1>9. Visited(l.Blink, h) = t
  BY <1>7, <1>8, VisitedIs
<1> QED
  BY <1>1, <1>4, <1>5, <1>9


----------------------------------------------------------------------------
\* The chains of the table

Increasing(s) == \A i \in 1 .. Len(s), j \in 1 .. Len(s) : i < j => KeyOf[s[i]] < KeyOf[s[j]]

\* Every element of T is in the chain that ix names, and nothing else is in a chain.
Holds(R, ix, T) == \A b \in Buckets :
    /\ Increasing(R[b])
    /\ \A e \in Elements : (e \in T /\ ix[e] = b) <=> \E i \in 1 .. Len(R[b]) : R[b][i] = e

IndexOf == [e \in Elements |-> Index(KeyOf[e])]

\* The index of a chain depends on the key alone.
ByKey(ix) == /\ ix \in [Elements -> Buckets]
             /\ \A d \in Elements, e \in Elements : KeyOf[d] = KeyOf[e] => ix[d] = ix[e]

LEMMA IndexIs ==
    /\ \A key \in Nat : Index(key) \in Buckets
    /\ ByKey(IndexOf)
    /\ \A e \in Elements : KeyOf[e] \in Nat /\ IndexOf[e] = Index(KeyOf[e])
<1>1. ASSUME NEW key \in Nat
      PROVE  Index(key) \in Buckets
  <2>1. \A n \in Nat : n % MaxKeys \in Buckets
    BY HashAssumption DEF Buckets
  <2>2. HashFuncUniversal(key) \in Buckets
    <3>1. PICK k \in Nat : k = key % HASH_UNIVERSAL_P
      BY HashAssumption
    <3>2. PICK a \in Nat : a = HASH_UNIVERSAL_A * k
      BY <3>1, HashAssumption
    <3>3. PICK c \in Nat : c = (a + HASH_UNIVERSAL_B) % HASH_UNIVERSAL_P
      BY <3>2, HashAssumption
    <3> QED
      BY <2>1, <3>1, <3>2, <3>3 DEF HashFuncUniversal
  <2>3. HashFuncGenericIncremental(key) \in Buckets
    BY <2>1 DEF HashFuncGenericIncremental
  <2> QED
    BY <2>2, <2>3 DEF Index
<1>2. \A e \in Elements : KeyOf[e] \in Nat
  BY HashAssumption
<1>3. \A e \in Elements : IndexOf[e] = Index(KeyOf[e])
  BY DEF IndexOf
<1>4. IndexOf \in [Elements -> Buckets]
  BY <1>1, <1>2 DEF IndexOf
<1> QED
  BY <1>1, <1>2, <1>3, <1>4 DEF ByKey

LEMMA BucketFacts == /\ Buckets \subseteq Heads /\ Buckets \subseteq Nat /\ 0 \in Buckets
                     /\ ListHead \in Heads /\ ListHead \notin Buckets
BY HashAssumption DEF Buckets, Heads

LEMMA MinIsLeast ==
    ASSUME NEW T, T \subseteq Nat, T # {}
    PROVE  Min(T) \in T /\ \A y \in T : Min(T) <= y
<1>1. \E x \in T : \A y \in T : x <= y
  BY Least
<1> QED
  BY <1>1 DEF Min

\* What a search for a key finds: k is the place in the chain that the search ends behind.
Searched(s, b, key, k, search) ==
    /\ k \in 0 .. Len(s) /\ search.place = NodeOf(b, s, k)
    /\ \A j \in 1 .. Len(s) : /\ j <= k => KeyOf[s[j]] <= key
                              /\ j > k => KeyOf[s[j]] > key
    /\ IF search.found THEN k \in 1 .. Len(s) /\ KeyOf[s[k]] = key
       ELSE \A j \in 1 .. Len(s) : KeyOf[s[j]] # key

LEMMA SearchFinds ==
    ASSUME NEW R, Rings(links, R), NEW key \in Nat, NEW b \in Buckets, b = Index(key), Increasing(R[b])
    PROVE  /\ _HashTableSearchKeyInBucket(key).found \in BOOLEAN
           /\ \E k \in Nat : Searched(R[b], b, key, k, _HashTableSearchKeyInBucket(key))
<1>0. b \in Heads
  BY BucketFacts
<1>1. PICK s \in Seq(Elements) : s = R[b]
  BY <1>0 DEF Rings
<1>2. PICK I : I = {i \in 1 .. Len(s) : KeyOf[s[i]] >= key}
  OBVIOUS
<1>3. PICK n : n = IF I # {} THEN Min(I) ELSE 0
  OBVIOUS
<1>4. Visited(links.Flink, b) = s
  BY <1>0, <1>1, RingIsVisited
<1>5. ListSearchForElement(s, key) = n
  BY <1>2, <1>3 DEF ListSearchForElement, SelectInSeq
<1>6. PICK last : last = IF n # 0 THEN s[n] ELSE IF s = <<>> THEN b ELSE Last(s)
  OBVIOUS
<1>7. PICK search : search = _HashTableSearchKeyInBucket(key)
  OBVIOUS
<1>8. search = [found |-> n # 0 /\ ~(n # 0 /\ KeyOf[last] > key),
                place |-> IF n # 0 /\ KeyOf[last] > key THEN links.Blink[last] ELSE last]
  BY <1>4, <1>5, <1>6, <1>7 DEF _HashTableSearchKeyInBucket
<1>9. /\ search.found = (n # 0 /\ ~(KeyOf[last] > key))
      /\ search.place = IF n # 0 /\ KeyOf[last] > key THEN links.Blink[last] ELSE last
  BY <1>8
<1>10. \A i \in 1 .. Len(s) : KeyOf[s[i]] \in Nat
  BY HashAssumption
<1>11. CASE I = {}
  <2>1. n = 0 /\ search.found = FALSE /\ search.place = last
    BY <1>3, <1>9, <1>11
  <2>2. last = NodeOf(b, s, Len(s))
    <3>1. CASE s = <<>>
      BY <1>6, <2>1, <3>1 DEF NodeOf
    <3>2. CASE s # <<>>
      <4>1. Len(s) \in 1 .. Len(s)
        BY <3>2
      <4> QED
        BY <1>6, <2>1, <3>2, <4>1 DEF NodeOf, Last
    <3> QED
      BY <3>1, <3>2
  <2>3. \A j \in 1 .. Len(s) : KeyOf[s[j]] < key
    BY <1>2, <1>10, <1>11
  <2>4. Searched(s, b, key, Len(s), search)
    <3>1. \A j \in 1 .. Len(s) : KeyOf[s[j]] <= key /\ KeyOf[s[j]] # key /\ ~(j > Len(s))
      BY <1>10, <2>3
    <3>2. Len(s) \in 0 .. Len(s)
      OBVIOUS
    <3> QED
      BY <2>1, <2>2, <3>1, <3>2 DEF Searched
  <2>5. Len(s) \in Nat
    OBVIOUS
  <2> QED
    BY <1>1, <1>7, <2>1, <2>4, <2>5
<1>12. CASE I # {}
  <2>1. n \in I /\ \A i \in I : n <= i
    <3>1. I \subseteq Nat
      BY <1>2
    <3> QED
      BY <1>3, <1>12, <3>1, MinIsLeast
  <2>2. n \in 1 .. Len(s) /\ n # 0 /\ KeyOf[s[n]] >= key
    BY <1>2, <2>1
  <2>3. last = s[n] /\ last = NodeOf(b, s, n)
    BY <1>6, <2>2 DEF NodeOf
  <2>4. ASSUME NEW j \in 1 .. Len(s)
        PROVE  /\ j < n => KeyOf[s[j]] < key
               /\ j >= n => KeyOf[s[j]] >= KeyOf[s[n]]
               /\ j > n => KeyOf[s[j]] > KeyOf[s[n]]
    <3>1. j < n => j \notin I
      BY <2>1, <2>2
    <3>2. j < n => KeyOf[s[j]] < key
      BY <1>2, <1>10, <3>1
    <3>3. j > n => KeyOf[s[j]] > KeyOf[s[n]]
      BY <1>1, <1>10, <2>2 DEF Increasing
    <3> QED
      BY <1>10, <2>2, <3>2, <3>3
  <2>5. CASE KeyOf[last] > key
    <3>1. search.found = FALSE /\ search.place = links.Blink[last]
      BY <1>9, <2>2, <2>5
    <3>2. links.Blink[last] = NodeOf(b, s, n - 1)
      <4>1. n \in 1 .. Len(R[b])
        BY <1>1, <2>2
      <4>2. links.Blink[NodeOf(b, R[b], n)] = NodeOf(b, R[b], n - 1)
        BY <1>0, <4>1, Around
      <4> QED
        BY <1>1, <2>3, <4>2
    <3>3. \A j \in 1 .. Len(s) : /\ j <= n - 1 => KeyOf[s[j]] <= key
                                 /\ j > n - 1 => KeyOf[s[j]] > key
                                 /\ KeyOf[s[j]] # key
      <4> TAKE j \in 1 .. Len(s)
      <4>1. PICK x \in Nat, y \in Nat : x = KeyOf[s[j]] /\ y = KeyOf[s[n]]
        BY <1>10, <2>2
      <4>2. y > key
        BY <2>3, <2>5, <4>1
      <4>3. (j < n => x < key) /\ (j >= n => x >= y)
        BY <2>4, <4>1
      <4>4. x < key => x <= key /\ x # key
        BY <4>1
      <4>5. x >= y => x > key /\ x # key
        BY <4>1, <4>2
      <4>6. (j <= n - 1 <=> j < n) /\ (j > n - 1 <=> j >= n) /\ (j < n \/ j >= n)
        BY <2>2
      <4> QED
        BY <4>1, <4>3, <4>4, <4>5, <4>6
    <3>4. n - 1 \in 0 .. Len(s) /\ n - 1 \in Nat
      BY <2>2
    <3>5. Searched(s, b, key, n - 1, search)
      BY <3>1, <3>2, <3>3, <3>4 DEF Searched
    <3> QED
      BY <1>1, <1>7, <3>1, <3>4, <3>5
  <2>6. CASE ~(KeyOf[last] > key)
    <3>1. search.found = TRUE /\ search.place = last
      BY <1>9, <2>2, <2>6
    <3>2. KeyOf[s[n]] = key
      <4>1. PICK y \in Nat : y = KeyOf[s[n]]
        BY <1>10, <2>2
      <4>2. y = KeyOf[last]
        BY <2>3, <4>1
      <4>3. y >= key
        BY <2>2, <4>1
      <4>4. ~(y > key)
        BY <2>6, <4>2
      <4>5. y = key
        BY <4>3, <4>4
      <4> QED
        BY <4>1, <4>5
    <3>3. \A j \in 1 .. Len(s) : /\ j <= n => KeyOf[s[j]] <= key
                                 /\ j > n => KeyOf[s[j]] > key
      BY <1>10, <2>2, <2>4, <3>2
    <3>4. n \in 0 .. Len(s) /\ n \in Nat
      BY <2>2
    <3>5. Searched(s, b, key, n, search)
      BY <2>2, <2>3, <3>1, <3>2, <3>3, <3>4 DEF Searched
    <3> QED
      BY <1>1, <1>7, <3>1, <3>4, <3>5
  <2> QED
    BY <2>5, <2>6
<1> QED
  BY <1>11, <1>12


LEMMA HoldsMembers ==
    ASSUME NEW R, NEW ix, ByKey(ix), NEW T, T \subseteq Elements, Holds(R, ix, T)
    PROVE  /\ \A b \in Buckets : \A i \in 1 .. Len(R[b]) : R[b][i] \in Elements => R[b][i] \in T /\ ix[R[b][i]] = b
           /\ \A e \in T : ix[e] \in Buckets /\ \E i \in 1 .. Len(R[ix[e]]) : R[ix[e]][i] = e
<1>1. \A e \in T : ix[e] \in Buckets
  BY DEF ByKey
<1> QED
  BY <1>1 DEF Holds

\* A new key.
LEMMA HoldsInsert ==
    ASSUME NEW R \in [Heads -> Seq(Elements)], NEW ix, ByKey(ix), NEW T, T \subseteq Elements, Holds(R, ix, T),
           NEW e \in Elements, NEW b \in Buckets, ix[e] = b, NEW k \in 0 .. Len(R[b]),
           \A j \in 1 .. Len(R[b]) : /\ j <= k => KeyOf[R[b][j]] < KeyOf[e]
                                     /\ j > k => KeyOf[R[b][j]] > KeyOf[e]
    PROVE  Holds(Enter(R, b, k + 1, e), ix, T \cup {e})
<1>0. b \in Heads /\ k \in Nat
  BY BucketFacts
<1>1. PICK s \in Seq(Elements) : s = R[b]
  BY <1>0
<1>2. PICK t \in Seq(Elements) : /\ t = InsertAt(s, k + 1, e) /\ Len(t) = Len(s) + 1
                                /\ \A j \in 1 .. Len(s) + 1 :
                                      t[j] = IF j < k + 1 THEN s[j] ELSE IF j = k + 1 THEN e ELSE s[j - 1]
  <2>1. k + 1 \in 1 .. Len(s) + 1
    BY <1>1
  <2>2. PICK n \in 1 .. Len(s) + 1 : n = k + 1
    BY <2>1
  <2>3. PICK t \in Seq(Elements) : t = InsertAt(s, n, e) /\ Inserted(s, n, e, t)
    BY InsertAtIs
  <2> QED
    BY <2>2, <2>3 DEF Inserted
<1>3. k \in Nat /\ Len(s) \in Nat /\ k <= Len(s)
  BY <1>1
<1>4. \A j \in 1 .. Len(t) : /\ j < k + 1 => j \in 1 .. Len(s) /\ j <= k /\ t[j] = s[j]
                             /\ j = k + 1 => t[j] = e
                             /\ j > k + 1 => j - 1 \in 1 .. Len(s) /\ j - 1 > k /\ t[j] = s[j - 1]
  <2> TAKE j \in 1 .. Len(t)
  <2>1. j \in 1 .. Len(s) + 1
    BY <1>2
  <2>2. /\ j < k + 1 => j \in 1 .. Len(s) /\ j <= k
        /\ j > k + 1 => j - 1 \in 1 .. Len(s) /\ j - 1 > k /\ ~(j < k + 1) /\ j # k + 1
        /\ j = k + 1 => ~(j < k + 1)
    BY <1>3, <2>1
  <2> QED
    BY <1>2, <2>1, <2>2
<1>5. \A j \in 1 .. Len(s) : KeyOf[s[j]] \in Nat
  BY HashAssumption
<1>6. KeyOf[e] \in Nat
  BY HashAssumption
<1>7. \A i \in 1 .. Len(s), j \in 1 .. Len(s) : i < j => KeyOf[s[i]] < KeyOf[s[j]]
  BY <1>1 DEF Holds, Increasing
<1>8. Increasing(t)
  <2> SUFFICES ASSUME NEW i \in 1 .. Len(t), NEW j \in 1 .. Len(t), i < j
               PROVE  KeyOf[t[i]] < KeyOf[t[j]]
    BY DEF Increasing
  <2>0. i \in Nat /\ j \in Nat
    OBVIOUS
  <2>1. CASE j < k + 1
    <3>1. i < k + 1
      BY <1>3, <2>0, <2>1
    <3> QED
      BY <1>4, <1>7, <2>1, <3>1
  <2>2. CASE j = k + 1
    <3>1. i < k + 1
      BY <2>2
    <3> QED
      BY <1>1, <1>4, <2>2, <3>1
  <2>3. CASE j > k + 1
    <3>1. j - 1 \in 1 .. Len(s) /\ j - 1 > k /\ t[j] = s[j - 1]
      BY <1>4, <2>3
    <3>2. KeyOf[t[j]] > KeyOf[e] /\ KeyOf[t[j]] \in Nat
      BY <1>1, <1>5, <3>1
    <3>3. CASE i < k + 1
      <4>1. i \in 1 .. Len(s) /\ i <= k /\ t[i] = s[i]
        BY <1>4, <3>3
      <4>2. KeyOf[t[i]] < KeyOf[e] /\ KeyOf[t[i]] \in Nat
        BY <1>1, <1>5, <4>1
      <4> QED
        BY <1>6, <3>2, <4>2
    <3>4. CASE i = k + 1
      <4>1. t[i] = e
        BY <1>4, <3>4
      <4> QED
        BY <1>6, <3>2, <4>1
    <3>5. CASE i > k + 1
      <4>1. i - 1 \in 1 .. Len(s) /\ t[i] = s[i - 1] /\ i - 1 < j - 1
        BY <1>4, <2>0, <3>5
      <4> QED
        BY <1>7, <3>1, <4>1
    <3> QED
      BY <1>3, <2>0, <3>3, <3>4, <3>5
  <2> QED
    BY <1>3, <2>0, <2>1, <2>2, <2>3
<1>9. \A x \in Elements : (\E i \in 1 .. Len(t) : t[i] = x) <=> x = e \/ \E i \in 1 .. Len(s) : s[i] = x
  <2> TAKE x \in Elements
  <2>1. ASSUME NEW i \in 1 .. Len(t), t[i] = x
        PROVE  x = e \/ \E j \in 1 .. Len(s) : s[j] = x
    <3>1. i < k + 1 \/ i = k + 1 \/ i > k + 1
      BY <1>3
    <3> QED
      BY <1>4, <2>1, <3>1
  <2>2. ASSUME x = e
        PROVE  \E i \in 1 .. Len(t) : t[i] = x
    <3>1. k + 1 \in 1 .. Len(t)
      BY <1>2, <1>3
    <3> QED
      BY <1>4, <2>2, <3>1
  <2>3. ASSUME NEW j \in 1 .. Len(s), s[j] = x
        PROVE  \E i \in 1 .. Len(t) : t[i] = x
    <3>1. CASE j <= k
      <4>1. j \in 1 .. Len(t) /\ j < k + 1
        BY <1>2, <1>3, <3>1
      <4> QED
        BY <1>4, <2>3, <4>1
    <3>2. CASE j > k
      <4>1. j + 1 \in 1 .. Len(t) /\ j + 1 > k + 1 /\ (j + 1) - 1 = j
        BY <1>2, <1>3, <3>2
      <4>2. t[j + 1] = s[j]
        BY <1>4, <4>1
      <4> QED
        BY <2>3, <4>1, <4>2
    <3> QED
      BY <1>3, <3>1, <3>2
  <2> QED
    BY <2>1, <2>2, <2>3
<1>10. PICK Q : Q = [R EXCEPT ![b] = t]
  OBVIOUS
<1>11. Q[b] = t /\ \A c \in Buckets : c # b => Q[c] = R[c]
  BY <1>0, <1>10, BucketFacts
<1>12. Holds(Q, ix, T \cup {e})
  <2> SUFFICES ASSUME NEW c \in Buckets
               PROVE  /\ Increasing(Q[c])
                      /\ \A x \in Elements : (x \in T \cup {e} /\ ix[x] = c) <=> \E i \in 1 .. Len(Q[c]) : Q[c][i] = x
    BY DEF Holds
  <2>1. CASE c = b
    <3>1. \A x \in Elements : (x \in T /\ ix[x] = b) <=> \E i \in 1 .. Len(s) : s[i] = x
      <4>1. \A x \in Elements : (x \in T /\ ix[x] = b) <=> \E i \in 1 .. Len(R[b]) : R[b][i] = x
        BY DEF Holds
      <4> QED
        BY <1>1, <4>1
    <3> QED
      BY <1>8, <1>9, <1>11, <2>1, <3>1
  <2>2. CASE c # b
    <3>1. PICK r : r = R[c] /\ r = Q[c]
      BY <1>11, <2>2
    <3>2. /\ Increasing(r)
          /\ \A x \in Elements : (x \in T /\ ix[x] = c) <=> \E i \in 1 .. Len(r) : r[i] = x
      <4>1. /\ Increasing(R[c])
            /\ \A x \in Elements : (x \in T /\ ix[x] = c) <=> \E i \in 1 .. Len(R[c]) : R[c][i] = x
        BY DEF Holds
      <4> QED
        BY <3>1, <4>1
    <3>3. \A x \in Elements : ix[x] = c => x # e
      BY <2>2
    <3>4. \A x \in Elements : (x \in T \cup {e} /\ ix[x] = c) <=> \E i \in 1 .. Len(r) : r[i] = x
      BY <3>2, <3>3
    <3> QED
      BY <3>1, <3>2, <3>4
  <2> QED
    BY <2>1, <2>2
<1> QED
  BY <1>1, <1>2, <1>10, <1>12 DEF Enter

LEMMA HoldsRemove ==
    ASSUME NEW R \in [Heads -> Seq(Elements)], Apart(R), NEW ix, NEW T, T \subseteq Elements, Holds(R, ix, T),
           NEW b \in Buckets, NEW k \in 1 .. Len(R[b])
    PROVE  Holds(Leave(R, b, k), ix, T \ {R[b][k]})
<1>0. b \in Heads
  BY BucketFacts
<1>1. PICK s \in Seq(Elements) : s = R[b]
  BY <1>0
<1>2. PICK t \in Seq(Elements) : /\ t = RemoveAt(s, k) /\ Len(t) = Len(s) - 1
                                /\ \A j \in 1 .. Len(s) - 1 : t[j] = IF j < k THEN s[j] ELSE s[j + 1]
  <2>1. k \in 1 .. Len(s)
    BY <1>1
  <2>2. /\ RemoveAt(s, k) \in Seq(Elements) /\ Len(RemoveAt(s, k)) = Len(s) - 1
        /\ \A j \in 1 .. Len(s) - 1 : RemoveAt(s, k)[j] = IF j < k THEN s[j] ELSE s[j + 1]
    BY <2>1, RemoveAtFacts
  <2> QED
    BY <2>2
<1>3. k \in Nat /\ Len(s) \in Nat /\ 1 <= k /\ k <= Len(s)
  BY <1>1
<1>4. \A j \in 1 .. Len(t) : /\ j < k => j \in 1 .. Len(s) /\ t[j] = s[j]
                             /\ ~(j < k) => j + 1 \in 1 .. Len(s) /\ t[j] = s[j + 1]
  <2> TAKE j \in 1 .. Len(t)
  <2>1. j \in 1 .. Len(s) - 1 /\ j \in 1 .. Len(s) /\ j + 1 \in 1 .. Len(s)
    BY <1>2, <1>3
  <2> QED
    BY <1>2, <2>1
<1>5. \A i \in 1 .. Len(s), j \in 1 .. Len(s) : i < j => KeyOf[s[i]] < KeyOf[s[j]]
  BY <1>1 DEF Holds, Increasing
<1>6. \A i \in 1 .. Len(s), j \in 1 .. Len(s) : s[i] = s[j] => i = j
  BY <1>0, <1>1 DEF Apart
<1>7. Increasing(t)
  <2> SUFFICES ASSUME NEW i \in 1 .. Len(t), NEW j \in 1 .. Len(t), i < j
               PROVE  KeyOf[t[i]] < KeyOf[t[j]]
    BY DEF Increasing
  <2>0. i \in Nat /\ j \in Nat
    OBVIOUS
  <2>1. PICK c \in 1 .. Len(s) : t[i] = s[c] /\ c = IF i < k THEN i ELSE i + 1
    BY <1>4
  <2>2. PICK d \in 1 .. Len(s) : t[j] = s[d] /\ d = IF j < k THEN j ELSE j + 1
    BY <1>4
  <2>3. c < d
    BY <1>3, <2>0, <2>1, <2>2
  <2> QED
    BY <1>5, <2>1, <2>2, <2>3
<1>8. \A x \in Elements : (\E i \in 1 .. Len(t) : t[i] = x) <=> x # s[k] /\ \E i \in 1 .. Len(s) : s[i] = x
  <2> TAKE x \in Elements
  <2>1. ASSUME NEW i \in 1 .. Len(t), t[i] = x
        PROVE  x # s[k] /\ \E j \in 1 .. Len(s) : s[j] = x
    <3>1. PICK c \in 1 .. Len(s) : t[i] = s[c] /\ c = IF i < k THEN i ELSE i + 1
      BY <1>4
    <3>2. c # k /\ k \in 1 .. Len(s)
      BY <1>1, <1>3, <3>1
    <3>3. s[c] # s[k]
      BY <1>6, <3>2
    <3> QED
      BY <2>1, <3>1, <3>3
  <2>2. ASSUME NEW j \in 1 .. Len(s), s[j] = x, x # s[k]
        PROVE  \E i \in 1 .. Len(t) : t[i] = x
    <3>1. j # k
      BY <2>2
    <3>2. CASE j < k
      <4>1. j \in 1 .. Len(t)
        BY <1>2, <1>3, <3>2
      <4> QED
        BY <1>4, <2>2, <3>2, <4>1
    <3>3. CASE j > k
      <4>1. j - 1 \in 1 .. Len(t) /\ ~(j - 1 < k) /\ (j - 1) + 1 = j
        BY <1>2, <1>3, <3>3
      <4>2. t[j - 1] = s[j]
        BY <1>4, <4>1
      <4> QED
        BY <2>2, <4>1, <4>2
    <3> QED
      BY <1>3, <3>1, <3>2, <3>3
  <2> QED
    BY <2>1, <2>2
<1>9. PICK Q : Q = [R EXCEPT ![b] = t]
  OBVIOUS
<1>10. Q[b] = t /\ \A c \in Buckets : c # b => Q[c] = R[c]
  BY <1>0, <1>9, BucketFacts
<1>11. s[k] \in T /\ ix[s[k]] = b
  <2>1. k \in 1 .. Len(s) /\ s[k] \in Elements
    BY <1>1
  <2> QED
    BY <1>1, <2>1 DEF Holds
<1>12. Holds(Q, ix, T \ {s[k]})
  <2> SUFFICES ASSUME NEW c \in Buckets
               PROVE  /\ Increasing(Q[c])
                      /\ \A x \in Elements : (x \in T \ {s[k]} /\ ix[x] = c) <=> \E i \in 1 .. Len(Q[c]) : Q[c][i] = x
    BY DEF Holds
  <2>1. CASE c = b
    <3>1. \A x \in Elements : (x \in T /\ ix[x] = b) <=> \E i \in 1 .. Len(s) : s[i] = x
      <4>1. \A x \in Elements : (x \in T /\ ix[x] = b) <=> \E i \in 1 .. Len(R[b]) : R[b][i] = x
        BY DEF Holds
      <4> QED
        BY <1>1, <4>1
    <3> QED
      BY <1>7, <1>8, <1>10, <2>1, <3>1
  <2>2. CASE c # b
    <3>1. \A x \in Elements : ix[x] = c => x # s[k]
      BY <1>11, <2>2
    <3>2. PICK r : r = R[c] /\ r = Q[c]
      BY <1>10, <2>2
    <3>3. /\ Increasing(r)
          /\ \A x \in Elements : (x \in T /\ ix[x] = c) <=> \E i \in 1 .. Len(r) : r[i] = x
      <4>1. /\ Increasing(R[c])
            /\ \A x \in Elements : (x \in T /\ ix[x] = c) <=> \E i \in 1 .. Len(R[c]) : R[c][i] = x
        BY DEF Holds
      <4> QED
        BY <3>2, <4>1
    <3>4. \A x \in Elements : (x \in T \ {s[k]} /\ ix[x] = c) <=> \E i \in 1 .. Len(r) : r[i] = x
      BY <3>1, <3>3
    <3> QED
      BY <3>2, <3>3, <3>4
  <2> QED
    BY <2>1, <2>2
<1> QED
  BY <1>1, <1>2, <1>9, <1>12 DEF Leave

Replaced(T, x, e) == (T \ {x}) \cup {e}

\* An equal key takes the place of the one it replaces: entered behind it, which is then removed.
SameKeyAt(R, T, e, s, k) == k \in 1 .. Len(s) /\ KeyOf[s[k]] = KeyOf[e] /\ e \notin T

\* The rings after e has taken the place of the k-th element of ring b.
ReplaceIn(R, b, k, e) == Leave(Enter(R, b, k + 1, e), b, k)

ReplacedIn(R, ix, T, e, b, k) ==
    /\ Enter(R, b, k + 1, e)[b] \in Seq(Elements)
    /\ k \in 1 .. Len(Enter(R, b, k + 1, e)[b]) /\ Enter(R, b, k + 1, e)[b][k] = R[b][k]
    /\ Holds(ReplaceIn(R, b, k, e), ix, Replaced(T, R[b][k], e))

LEMMA HoldsReplace ==
    ASSUME NEW R \in [Heads -> Seq(Elements)], Apart(R), NEW ix, ByKey(ix), NEW T, T \subseteq Elements, Holds(R, ix, T),
           NEW e \in Elements, NEW b \in Buckets, ix[e] = b, NEW k, SameKeyAt(R, T, e, R[b], k)
    PROVE  ReplacedIn(R, ix, T, e, b, k)
<1>a. k \in 1 .. Len(R[b]) /\ KeyOf[R[b][k]] = KeyOf[e] /\ e \notin T
  BY DEF SameKeyAt
<1>b. PICK Q : Q = Enter(R, b, k + 1, e)
  OBVIOUS
<1>0. b \in Heads
  BY BucketFacts
<1>1. PICK s \in Seq(Elements) : s = R[b]
  BY <1>0
<1>2. k \in Nat /\ Len(s) \in Nat /\ 1 <= k /\ k <= Len(s)
  BY <1>a, <1>1
<1>3. PICK t \in Seq(Elements) : /\ t = InsertAt(s, k + 1, e) /\ Len(t) = Len(s) + 1
                                /\ \A j \in 1 .. Len(s) + 1 :
                                      t[j] = IF j < k + 1 THEN s[j] ELSE IF j = k + 1 THEN e ELSE s[j - 1]
  <2>1. k + 1 \in 1 .. Len(s) + 1
    BY <1>2
  <2>2. PICK n \in 1 .. Len(s) + 1 : n = k + 1
    BY <2>1
  <2>3. PICK t \in Seq(Elements) : t = InsertAt(s, n, e) /\ Inserted(s, n, e, t)
    BY InsertAtIs
  <2> QED
    BY <2>2, <2>3 DEF Inserted
<1>4. Q \in [Heads -> Seq(Elements)] /\ Q[b] = t /\ \A c \in Buckets : c # b => Q[c] = R[c]
  BY <1>0, <1>1, <1>3, <1>b, BucketFacts DEF Enter
<1>5. k \in 1 .. Len(t) /\ t[k] = s[k]
  <2>1. k \in 1 .. Len(s) + 1 /\ k < k + 1
    BY <1>2
  <2> QED
    BY <1>3, <2>1
<1>6. PICK u \in Seq(Elements) : /\ u = RemoveAt(t, k) /\ Len(u) = Len(t) - 1
                                /\ \A j \in 1 .. Len(t) - 1 : u[j] = IF j < k THEN t[j] ELSE t[j + 1]
  <2>1. /\ RemoveAt(t, k) \in Seq(Elements) /\ Len(RemoveAt(t, k)) = Len(t) - 1
        /\ \A j \in 1 .. Len(t) - 1 : RemoveAt(t, k)[j] = IF j < k THEN t[j] ELSE t[j + 1]
    BY <1>5, RemoveAtFacts
  <2> QED
    BY <2>1
<1>7. Len(u) = Len(s) /\ \A j \in 1 .. Len(s) : u[j] = IF j = k THEN e ELSE s[j]
  <2>1. Len(u) = Len(s) /\ Len(t) - 1 = Len(s)
    BY <1>2, <1>3, <1>6
  <2>2. ASSUME NEW j \in 1 .. Len(s)
        PROVE  u[j] = IF j = k THEN e ELSE s[j]
    <3>1. j \in 1 .. Len(s) + 1 /\ j + 1 \in 1 .. Len(s) + 1 /\ (j + 1) - 1 = j
      BY <1>2
    <3>2. CASE j < k
      <4>1. j < k + 1 /\ j # k
        BY <1>2, <3>2
      <4> QED
        BY <1>3, <1>6, <2>1, <3>1, <3>2, <4>1
    <3>3. CASE j = k
      <4>1. ~(j < k) /\ ~(j + 1 < k + 1) /\ j + 1 = k + 1
        BY <1>2, <3>3
      <4>2. u[j] = t[j + 1]
        BY <1>6, <2>1, <4>1
      <4>3. t[j + 1] = e
        BY <1>3, <3>1, <4>1
      <4> QED
        BY <3>3, <4>2, <4>3
    <3>4. CASE j > k
      <4>1. ~(j < k) /\ ~(j + 1 < k + 1) /\ j + 1 # k + 1 /\ j # k
        BY <1>2, <3>4
      <4>2. u[j] = t[j + 1]
        BY <1>6, <2>1, <4>1
      <4>3. t[j + 1] = s[j]
        BY <1>3, <3>1, <4>1
      <4> QED
        BY <4>1, <4>2, <4>3
    <3> QED
      BY <1>2, <3>2, <3>3, <3>4
  <2> QED
    BY <2>1, <2>2
<1>8. KeyOf[s[k]] = KeyOf[e] /\ \A i \in 1 .. Len(s), j \in 1 .. Len(s) : i < j => KeyOf[s[i]] < KeyOf[s[j]]
  BY <1>a, <1>1 DEF Holds, Increasing
<1>9. Increasing(u)
  <2>1. \A j \in 1 .. Len(s) : KeyOf[u[j]] = KeyOf[s[j]]
    BY <1>7, <1>8
  <2> QED
    BY <1>7, <1>8, <2>1 DEF Increasing
<1>10. \A i \in 1 .. Len(s), j \in 1 .. Len(s) : s[i] = s[j] => i = j
  BY <1>0, <1>1 DEF Apart
<1>11. s[k] \in T /\ ix[s[k]] = b /\ s[k] \in Elements
  <2>1. k \in 1 .. Len(s) /\ s[k] \in Elements
    BY <1>a, <1>1
  <2> QED
    BY <1>1, <2>1 DEF Holds
<1>12. PICK P : P = [Q EXCEPT ![b] = u]
  OBVIOUS
<1>13. P[b] = u /\ \A c \in Buckets : c # b => P[c] = R[c]
  BY <1>0, <1>4, <1>12, BucketFacts
<1>14. Holds(P, ix, (T \ {s[k]}) \cup {e})
  <2> SUFFICES ASSUME NEW c \in Buckets
               PROVE  /\ Increasing(P[c])
                      /\ \A x \in Elements : (x \in (T \ {s[k]}) \cup {e} /\ ix[x] = c) <=> \E i \in 1 .. Len(P[c]) : P[c][i] = x
    BY DEF Holds
  <2>1. CASE c = b
    <3>1. \A x \in Elements : (x \in T /\ ix[x] = b) <=> \E i \in 1 .. Len(s) : s[i] = x
      <4>1. \A x \in Elements : (x \in T /\ ix[x] = b) <=> \E i \in 1 .. Len(R[b]) : R[b][i] = x
        BY DEF Holds
      <4> QED
        BY <1>1, <4>1
    <3>2. \A x \in Elements : (\E i \in 1 .. Len(u) : u[i] = x) <=> x = e \/ (x # s[k] /\ \E i \in 1 .. Len(s) : s[i] = x)
      <4> TAKE x \in Elements
      <4>1. ASSUME NEW i \in 1 .. Len(u), u[i] = x
            PROVE  x = e \/ (x # s[k] /\ \E j \in 1 .. Len(s) : s[j] = x)
        <5>1. i \in 1 .. Len(s) /\ k \in 1 .. Len(s)
          BY <1>a, <1>1, <1>7
        <5>2. i # k => u[i] = s[i] /\ s[i] # s[k]
          BY <1>7, <1>10, <5>1
        <5>3. i = k => u[i] = e
          BY <1>7, <5>1
        <5> QED
          BY <4>1, <5>1, <5>2, <5>3
      <4>2. ASSUME x = e
            PROVE  \E i \in 1 .. Len(u) : u[i] = x
        BY <1>a, <1>1, <1>7, <4>2
      <4>3. ASSUME NEW j \in 1 .. Len(s), s[j] = x, x # s[k]
            PROVE  \E i \in 1 .. Len(u) : u[i] = x
        BY <1>7, <4>3
      <4> QED
        BY <4>1, <4>2, <4>3
    <3> QED
      BY <1>9, <1>13, <2>1, <3>1, <3>2
  <2>2. CASE c # b
    <3>1. \A x \in Elements : ix[x] = c => x # s[k] /\ x # e
      BY <1>11, <2>2
    <3>2. PICK r : r = R[c] /\ r = P[c]
      BY <1>13, <2>2
    <3>3. /\ Increasing(r)
          /\ \A x \in Elements : (x \in T /\ ix[x] = c) <=> \E i \in 1 .. Len(r) : r[i] = x
      <4>1. /\ Increasing(R[c])
            /\ \A x \in Elements : (x \in T /\ ix[x] = c) <=> \E i \in 1 .. Len(R[c]) : R[c][i] = x
        BY DEF Holds
      <4> QED
        BY <3>2, <4>1
    <3>4. \A x \in Elements : (x \in (T \ {s[k]}) \cup {e} /\ ix[x] = c) <=> \E i \in 1 .. Len(r) : r[i] = x
      BY <3>1, <3>3
    <3> QED
      BY <3>2, <3>3, <3>4
  <2> QED
    BY <2>1, <2>2
<1> QED
  BY <1>b, <1>1, <1>3, <1>4, <1>5, <1>6, <1>12, <1>14 DEF Leave, Replaced, ReplacedIn, ReplaceIn


----------------------------------------------------------------------------
\* The invariant of the table and the list

\* What is left of an iteration that is at the k-th place of chain b.
StartingAt(s, k) == {s[j] : j \in k .. Len(s)}
Beyond(ix, T, b) == {e \in T : ix[e] > b}
Ahead(R, ix, T, b, k) == StartingAt(R[b], k) \cup Beyond(ix, T, b)

\* The cursor c of an iteration: the element p it returned last is in front of the place.
Cursor(R, ix, T, c, p, v) ==
    /\ c.KeyIndex \in Buckets
    /\ \E k \in 1 .. Len(R[c.KeyIndex]) + 1 :
           /\ c.CurrentEntry = NodeOf(c.KeyIndex, R[c.KeyIndex], k)
           /\ v = Ahead(R, ix, T, c.KeyIndex, k)
           /\ p # NULL => k > 1 /\ p = R[c.KeyIndex][k - 1]

HashCounts ==
    /\ inTable \subseteq Elements /\ NumberOfElements = Cardinality(inTable)
    /\ pEntry \in Elements \cup {NULL} /\ clearing \in BOOLEAN
    /\ it = NULL => pEntry = NULL /\ toVisit = {} /\ clearing = FALSE
    /\ clearing => toVisit \cup ({pEntry} \ {NULL}) = inTable

\* The links form rings of which the chains hold the table and the last the list.
HashRings(R) ==
    /\ Rings(links, R) /\ R[ListHead] = inList
    /\ Holds(R, IndexOf, inTable)
    /\ it # NULL => Cursor(R, IndexOf, inTable, it, pEntry, toVisit)

HashIInv == HashCounts /\ \E R : HashRings(R)

LEMMA IndexKept ==
    ASSUME HashFunc' = HashFunc
    PROVE  IndexOf' = IndexOf
BY DEF IndexOf, Index, HashFuncGenericIncremental, HashFuncUniversal

LEMMA FreeIsApart ==
    ASSUME NEW R, HashRings(R), NEW e \in Elements, Free(e)
    PROVE  ~Linked(R, e) /\ e \notin inTable
<1>1. e \notin inTable /\ ~Contains(inList, e)
  BY DEF Free
<1>2. ASSUME NEW h \in Heads, NEW i \in 1 .. Len(R[h]), R[h][i] = e
      PROVE  FALSE
  <2>1. CASE h = ListHead
    BY <1>1, <1>2, <2>1 DEF HashRings, Contains
  <2>2. CASE h # ListHead
    <3>1. h \in Buckets
      BY <2>2 DEF Heads
    <3>2. e \in inTable
      BY <1>2, <3>1 DEF HashRings, Holds
    <3> QED
      BY <1>1, <3>2
  <2> QED
    BY <2>1, <2>2
<1> QED
  BY <1>1, <1>2 DEF Linked

LEMMA RingTypes ==
    ASSUME NEW l, NEW R, Rings(l, R)
    PROVE  /\ R \in [Heads -> Seq(Elements)] /\ Apart(R)
           /\ \A h \in Heads : R[h] \in Seq(Elements) /\ Len(R[h]) \in Nat
           /\ \A h \in Heads : \A i \in 1 .. Len(R[h]) : R[h][i] \in Elements
BY DEF Rings

LEMMA HashInitIInv == HashTableInit => HashIInv
<1> SUFFICES ASSUME HashTableInit
             PROVE  HashIInv
  OBVIOUS
<1>1. PICK l : l = links
  OBVIOUS
<1>2. l.Flink = [n \in Nodes |-> n] /\ l.Blink = [n \in Nodes |-> n]
  BY <1>1 DEF HashTableInit
<1>3. PICK R : R = [h \in Heads |-> <<>>]
  OBVIOUS
<1>4. R \in [Heads -> Seq(Elements)] /\ \A h \in Heads : R[h] = <<>> /\ Len(R[h]) = 0
  BY <1>3
<1>5. Apart(R)
  BY <1>4 DEF Apart
<1>6. ASSUME NEW h \in Heads
      PROVE  Chained(l, h, R[h])
  <2>1. \A i \in Nat : NodeOf(h, R[h], i) = h
    BY <1>4 DEF NodeOf
  <2>2. \A i \in 0 .. Len(R[h]) : i \in Nat /\ i + 1 \in Nat
    BY <1>4
  <2>3. h \in Nodes
    BY HeadFacts
  <2> QED
    BY <1>2, <2>1, <2>2, <2>3 DEF Chained
<1>7. Rings(l, R)
  BY <1>2, <1>4, <1>5, <1>6 DEF Rings
<1>8. R[ListHead] = <<>>
  BY <1>4, BucketFacts
<1>9. Holds(R, IndexOf, {})
  <2>1. \A b \in Buckets : Len(R[b]) = 0
    BY <1>4, BucketFacts
  <2> QED
    BY <2>1 DEF Holds, Increasing
<1>10. HashRings(R)
  BY <1>1, <1>7, <1>8, <1>9 DEF HashRings, HashTableInit
<1>11. HashCounts
  BY FS_EmptySet DEF HashCounts, HashTableInit
<1> QED
  BY <1>10, <1>11 DEF HashIInv

\* The elements of other keys.
Others(T, e) == {x \in T : KeyOf[x] # KeyOf[e]}
OthersAre(T, e, x, search) == /\ search.found => Others(T, e) = T \ {x}
                              /\ ~search.found => Others(T, e) = T

\* The element of a key is where the search ends.
LEMMA KeyIsAlone ==
    ASSUME NEW R, NEW ix, ByKey(ix), NEW T, T \subseteq Elements, Holds(R, ix, T), R \in [Heads -> Seq(Elements)],
           NEW e \in Elements, NEW b \in Buckets, ix[e] = b, NEW k, NEW search,
           Searched(R[b], b, KeyOf[e], k, search)
    PROVE  OthersAre(T, e, R[b][k], search)
<1>1. PICK s \in Seq(Elements) : s = R[b]
  BY BucketFacts
<1>2. \A i \in 1 .. Len(s) : KeyOf[s[i]] \in Nat
  BY HashAssumption
<1>3. ASSUME NEW x \in T, KeyOf[x] = KeyOf[e]
      PROVE  \E i \in 1 .. Len(s) : s[i] = x
  <2>1. x \in Elements /\ ix[x] = b
    BY <1>3 DEF ByKey
  <2>2. \E i \in 1 .. Len(R[b]) : R[b][i] = x
    BY <2>1 DEF Holds
  <2> QED
    BY <1>1, <2>2
<1>4. CASE search.found
  <2>1. k \in 1 .. Len(s) /\ KeyOf[s[k]] = KeyOf[e]
    BY <1>1, <1>4 DEF Searched
  <2>2. ASSUME NEW i \in 1 .. Len(s), KeyOf[s[i]] = KeyOf[e]
        PROVE  i = k
    <3>1. i < k => KeyOf[s[i]] < KeyOf[s[k]]
      BY <1>1, <2>1 DEF Holds, Increasing
    <3>2. k < i => KeyOf[s[k]] < KeyOf[s[i]]
      BY <1>1, <2>1 DEF Holds, Increasing
    <3>3. ~(i < k) /\ ~(k < i)
      BY <1>2, <2>1, <2>2, <3>1, <3>2
    <3> QED
      BY <2>1, <3>3
  <2>3. \A x \in T : KeyOf[x] # KeyOf[e] <=> x # s[k]
    BY <1>3, <2>1, <2>2
  <2> QED
    BY <1>1, <1>4, <2>3 DEF Others, OthersAre
<1>5. CASE ~search.found
  <2>1. \A i \in 1 .. Len(s) : KeyOf[s[i]] # KeyOf[e]
    BY <1>1, <1>5 DEF Searched
  <2>2. \A x \in T : KeyOf[x] # KeyOf[e]
    BY <1>3, <2>1
  <2> QED
    BY <1>5, <2>2 DEF Others, OthersAre
<1> QED
  BY <1>4, <1>5

LEMMA TableIsFinite ==
    ASSUME NEW T, T \subseteq Elements
    PROVE  IsFiniteSet(T) /\ Cardinality(T) \in Nat
<1>1. IsFiniteSet(T)
  BY HashAssumption, FS_Subset
<1> QED
  BY <1>1, FS_CardinalityType

LEMMA InsertKeepsInv ==
    ASSUME HashIInv, NEW e \in Elements, HashTableInsert(e)
    PROVE  HashIInv'
<1>1. PICK R : HashRings(R)
  BY DEF HashIInv
<1>2. PICK l, m, ix, T : l = links /\ m = links' /\ ix = IndexOf /\ T = inTable
  OBVIOUS
<1>3. Rings(l, R) /\ Holds(R, ix, T) /\ ByKey(ix) /\ T \subseteq Elements /\ ix' = ix
  BY <1>1, <1>2, IndexIs DEF HashRings, HashIInv, HashCounts
<1>4. /\ R \in [Heads -> Seq(Elements)] /\ Apart(R)
      /\ \A h \in Heads : R[h] \in Seq(Elements) /\ Len(R[h]) \in Nat
  BY <1>3, RingTypes
<1>5. PICK b \in Buckets : b = ix[e] /\ b = Index(KeyOf[e])
  BY <1>2, IndexIs DEF ByKey
<1>6. b \in Heads /\ KeyOf[e] \in Nat /\ b # ListHead
  BY BucketFacts, IndexIs
<1>7. PICK search : search = _HashTableSearchKeyInBucket(KeyOf[e])
  OBVIOUS
<1>8. search.found \in BOOLEAN /\ \E k \in Nat : Searched(R[b], b, KeyOf[e], k, search)
  <2>1. Rings(links, R) /\ Increasing(R[b])
    BY <1>2, <1>3 DEF Holds
  <2> QED
    BY <1>5, <1>6, <1>7, <2>1, SearchFinds
<1>9. PICK k \in Nat : Searched(R[b], b, KeyOf[e], k, search)
  BY <1>8
<1>10. k \in 0 .. Len(R[b]) /\ search.place = NodeOf(b, R[b], k)
  BY <1>9 DEF Searched
<1>11. ~Linked(R, e) /\ e \notin T
  BY <1>1, <1>2, FreeIsApart DEF HashTableInsert
<1>12. PICK i : i = InsertHeadList(l, search.place, e)
  OBVIOUS
<1>13. PICK Q : Q = Enter(R, b, k + 1, e)
  OBVIOUS
<1>14. Rings(i, Q)
  BY <1>3, <1>6, <1>10, <1>11, <1>12, <1>13, InsertHeadIs
<1>15. Q[ListHead] = R[ListHead] /\ ListHead \in Heads
  BY <1>4, <1>6, <1>13, BucketFacts DEF Enter
<1>16. /\ m = IF search.found THEN RemoveEntryList(i, search.place) ELSE i
       /\ NumberOfElements' = IF search.found THEN NumberOfElements ELSE NumberOfElements + 1
       /\ inTable' = Others(T, e) \cup {e}
       /\ UNCHANGED <<HashFunc, it, pEntry, clearing, inList, toVisit>> /\ it = NULL
  BY <1>2, <1>7, <1>12 DEF HashTableInsert, Others
<1>17. /\ search.found => Others(T, e) = T \ {R[b][k]}
       /\ ~search.found => Others(T, e) = T
  <2>1. OthersAre(T, e, R[b][k], search)
    BY <1>3, <1>4, <1>5, <1>9, KeyIsAlone
  <2> QED
    BY <2>1 DEF OthersAre
<1>18. IndexOf' = ix
  BY <1>2, <1>16, IndexKept
<1>19. /\ NumberOfElements = Cardinality(T) /\ pEntry = NULL /\ toVisit = {} /\ clearing = FALSE
  BY <1>2, <1>16 DEF HashIInv, HashCounts
<1>20. CASE search.found
  <2>1. k \in 1 .. Len(R[b]) /\ KeyOf[R[b][k]] = KeyOf[e]
    BY <1>9, <1>20 DEF Searched
  <2>2. ReplacedIn(R, ix, T, e, b, k)
    <3>1. SameKeyAt(R, T, e, R[b], k)
      BY <1>11, <2>1 DEF SameKeyAt
    <3> QED
      BY <1>3, <1>4, <1>5, <3>1, HoldsReplace
  <2>3. PICK P : P = Leave(Q, b, k)
    OBVIOUS
  <2>4. /\ Q \in [Heads -> Seq(Elements)]
        /\ k \in 1 .. Len(Q[b]) /\ Q[b][k] = R[b][k]
        /\ Holds(P, ix, Replaced(T, R[b][k], e))
    <3>1. Q \in [Heads -> Seq(Elements)]
      BY <1>14, RingTypes
    <3> QED
      BY <1>13, <2>2, <2>3, <3>1 DEF ReplacedIn, ReplaceIn
  <2>5. search.place = Q[b][k]
    BY <1>10, <2>1, <2>4 DEF NodeOf
  <2>6. Rings(m, P)
    BY <1>6, <1>14, <1>16, <1>20, <2>3, <2>4, <2>5, RemoveEntryIs
  <2>7. P[ListHead] = R[ListHead]
    BY <1>6, <1>15, <2>3, <2>4 DEF Leave
  <2>8. inTable' = (T \ {R[b][k]}) \cup {e}
    BY <1>16, <1>17, <1>20
  <2>9. HashRings(P)'
    BY <1>1, <1>2, <1>16, <1>18, <2>4, <2>6, <2>7, <2>8 DEF HashRings, Replaced
  <2>10. Cardinality(inTable') = Cardinality(T) /\ inTable' \subseteq Elements
    <3>1. PICK x \in T : x = R[b][k]
      <4>1. R[b][k] \in Elements
        BY <1>3, <1>6, <2>1, RingTypes
      <4> QED
        BY <1>3, <2>1, <4>1, HoldsMembers
    <3>2. IsFiniteSet(T) /\ Cardinality(T) \in Nat
      BY <1>3, TableIsFinite
    <3>3. IsFiniteSet(T \ {x}) /\ Cardinality(T \ {x}) = Cardinality(T) - 1
      BY <3>1, <3>2, FS_RemoveElement
    <3>4. Cardinality((T \ {x}) \cup {e}) = Cardinality(T \ {x}) + 1
      BY <1>11, <3>3, FS_AddElement
    <3> QED
      BY <1>3, <2>8, <3>1, <3>2, <3>3, <3>4
  <2>11. HashCounts'
    BY <1>16, <1>19, <1>20, <2>10 DEF HashCounts
  <2> QED
    BY <2>9, <2>11 DEF HashIInv
<1>21. CASE ~search.found
  <2>1. \A j \in 1 .. Len(R[b]) : /\ j <= k => KeyOf[R[b][j]] < KeyOf[e]
                                  /\ j > k => KeyOf[R[b][j]] > KeyOf[e]
    <3> TAKE j \in 1 .. Len(R[b])
    <3>1. PICK x \in Nat : x = KeyOf[R[b][j]]
      <4>1. R[b][j] \in Elements
        BY <1>3, <1>6, RingTypes
      <4> QED
        BY <4>1, HashAssumption
    <3>2. (j <= k => x <= KeyOf[e]) /\ (j > k => x > KeyOf[e]) /\ x # KeyOf[e]
      BY <1>9, <1>21, <3>1 DEF Searched
    <3> QED
      BY <1>6, <3>1, <3>2
  <2>2. Holds(Q, ix, T \cup {e})
    BY <1>3, <1>4, <1>5, <1>10, <1>13, <2>1, HoldsInsert
  <2>3. inTable' = T \cup {e}
    BY <1>16, <1>17, <1>21
  <2>4. m = i
    BY <1>16, <1>21
  <2>5. HashRings(Q)'
    BY <1>1, <1>2, <1>14, <1>15, <1>16, <1>18, <2>2, <2>3, <2>4 DEF HashRings
  <2>6. Cardinality(inTable') = Cardinality(T) + 1 /\ inTable' \subseteq Elements
    <3>1. IsFiniteSet(T)
      BY <1>3, TableIsFinite
    <3> QED
      BY <1>3, <1>11, <2>3, <3>1, FS_AddElement
  <2>7. HashCounts'
    BY <1>16, <1>19, <1>21, <2>6 DEF HashCounts
  <2> QED
    BY <2>5, <2>7 DEF HashIInv
<1> QED
  BY <1>8, <1>20, <1>21


LEMMA EntryLeaves ==
    ASSUME HashCounts, NEW R, HashRings(R), NEW b \in Buckets, NEW k \in 1 .. Len(R[b]), NEW Q, Q = Leave(R, b, k),
           HashTableRemoveEntry(R[b][k])
    PROVE  /\ Rings(links', Q) /\ Q[ListHead] = inList' /\ Holds(Q, IndexOf', inTable')
           /\ IndexOf' = IndexOf /\ \A c \in Heads : c # b => Q[c] = R[c]
           /\ Q[b] = RemoveAt(R[b], k)
           /\ R[b][k] \in inTable /\ inTable' = inTable \ {R[b][k]} /\ IndexOf[R[b][k]] = b
           /\ inTable' \subseteq Elements /\ NumberOfElements' = Cardinality(inTable')
<1>1. PICK l, m, ix, T, e : l = links /\ m = links' /\ ix = IndexOf /\ T = inTable /\ e = R[b][k]
  OBVIOUS
<1>2. Rings(l, R) /\ Holds(R, ix, T) /\ ByKey(ix) /\ T \subseteq Elements /\ R[ListHead] = inList
  BY <1>1, IndexIs DEF HashRings, HashCounts
<1>3. /\ R \in [Heads -> Seq(Elements)] /\ Apart(R) /\ b \in Heads /\ b # ListHead /\ ListHead \in Heads
      /\ e \in Elements
  BY <1>1, <1>2, RingTypes, BucketFacts
<1>4. m = RemoveEntryList(l, e) /\ NumberOfElements' = NumberOfElements - 1 /\ inTable' = T \ {e}
      /\ HashFunc' = HashFunc /\ inList' = inList
  BY <1>1 DEF HashTableRemoveEntry
<1>5. Rings(m, Q)
  BY <1>1, <1>2, <1>3, <1>4, RemoveEntryIs
<1>6. IndexOf' = ix
  BY <1>1, <1>4, IndexKept
<1>7. Holds(Q, ix, T \ {e})
  BY <1>1, <1>2, <1>3, HoldsRemove
<1>8. Q[b] = RemoveAt(R[b], k) /\ \A c \in Heads : c # b => Q[c] = R[c]
  BY <1>3 DEF Leave
<1>9. e \in T /\ ix[e] = b
  BY <1>1, <1>2, <1>3, HoldsMembers
<1>10. Cardinality(T \ {e}) = NumberOfElements - 1 /\ T \ {e} \subseteq Elements
  <2>1. IsFiniteSet(T) /\ NumberOfElements = Cardinality(T)
    BY <1>1, <1>2, TableIsFinite DEF HashCounts
  <2> QED
    BY <1>2, <1>9, <2>1, FS_RemoveElement
<1>11. Holds(Q, IndexOf', inTable')
  BY <1>4, <1>6, <1>7
<1>12. Q[ListHead] = inList'
  BY <1>2, <1>3, <1>4, <1>8
<1> QED
  BY <1>1, <1>4, <1>5, <1>6, <1>8, <1>9, <1>10, <1>11, <1>12

LEMMA RemoveKeepsInv ==
    ASSUME HashIInv, NEW e \in Elements, HashTableRemove(KeyOf[e])
    PROVE  HashIInv'
<1>1. PICK R : HashRings(R)
  BY DEF HashIInv
<1>i. PICK ix : ix = IndexOf
  OBVIOUS
<1>2. PICK b \in Buckets : b = ix[e] /\ b = Index(KeyOf[e]) /\ ix = IndexOf
  BY <1>i, IndexIs DEF ByKey
<1>3. PICK search : search = _HashTableSearchKeyInBucket(KeyOf[e])
  OBVIOUS
<1>4. PICK d : d = HashTableLookup(KeyOf[e])
  OBVIOUS
<1>5. d = (IF search.found THEN search.place ELSE NULL) /\ d # NULL /\ it = NULL
      /\ HashTableRemoveEntry(d) /\ UNCHANGED <<it, pEntry>>
  BY <1>3, <1>4 DEF HashTableRemove, HashTableLookup
<1>6. search.found /\ d = search.place
  BY <1>5
<1>7. PICK k \in Nat : Searched(R[b], b, KeyOf[e], k, search)
  <2>1. Rings(links, R) /\ Increasing(R[b]) /\ KeyOf[e] \in Nat
    BY <1>1, IndexIs DEF Holds, HashRings
  <2> QED
    BY <1>2, <1>3, <2>1, SearchFinds
<1>8. k \in 1 .. Len(R[b]) /\ d = R[b][k]
  BY <1>6, <1>7 DEF Searched, NodeOf
<1>9. PICK Q : Q = Leave(R, b, k)
  OBVIOUS
<1>10. HashCounts
  BY DEF HashIInv
<1>11. /\ Rings(links', Q) /\ Q[ListHead] = inList' /\ Holds(Q, IndexOf', inTable')
       /\ inTable' \subseteq Elements /\ NumberOfElements' = Cardinality(inTable')
  BY <1>1, <1>5, <1>8, <1>9, <1>10, EntryLeaves
<1>12. UNCHANGED <<clearing, toVisit, it, pEntry>>
  BY <1>5 DEF HashTableRemoveEntry
<1>13. HashRings(Q)'
  BY <1>5, <1>11, <1>12 DEF HashRings
<1>14. HashCounts'
  BY <1>5, <1>10, <1>11, <1>12 DEF HashCounts
<1> QED
  BY <1>13, <1>14 DEF HashIInv

LEMMA RemoveVisitedKeepsInv ==
    ASSUME HashIInv, RemoveVisited
    PROVE  HashIInv'
<1>1. PICK R : HashRings(R)
  BY DEF HashIInv
<1>2. HashCounts /\ it # NULL /\ pEntry # NULL /\ HashTableRemoveEntry(pEntry) /\ pEntry' = NULL /\ it' = it
      /\ clearing' = clearing /\ toVisit' = toVisit
  BY DEF HashIInv, RemoveVisited, HashTableRemoveEntry
<1>3. PICK c, v, ix, T, p : c = it /\ v = toVisit /\ ix = IndexOf /\ T = inTable /\ p = pEntry
  OBVIOUS
<1>4. Cursor(R, ix, T, c, p, v) /\ Rings(links, R) /\ Holds(R, ix, T)
  BY <1>1, <1>2, <1>3 DEF HashRings
<1>5. PICK b \in Buckets : b = c.KeyIndex
  BY <1>4 DEF Cursor
<1>6. PICK n \in 1 .. Len(R[b]) + 1 : /\ c.CurrentEntry = NodeOf(b, R[b], n)
                                      /\ v = Ahead(R, ix, T, b, n)
                                      /\ n > 1 /\ p = R[b][n - 1]
  BY <1>2, <1>3, <1>4, <1>5 DEF Cursor
<1>7. /\ R \in [Heads -> Seq(Elements)] /\ Apart(R) /\ b \in Heads /\ R[b] \in Seq(Elements) /\ Len(R[b]) \in Nat
  BY <1>4, RingTypes, BucketFacts
<1>8. PICK k \in 1 .. Len(R[b]) : k = n - 1 /\ k + 1 = n /\ p = R[b][k]
  BY <1>6, <1>7
<1>9. PICK Q : Q = Leave(R, b, k)
  OBVIOUS
<1>10. /\ Rings(links', Q) /\ Q[ListHead] = inList' /\ Holds(Q, IndexOf', inTable')
       /\ IndexOf' = ix /\ Q[b] = RemoveAt(R[b], k)
       /\ p \in T /\ inTable' = T \ {p} /\ ix[p] = b
       /\ inTable' \subseteq Elements /\ NumberOfElements' = Cardinality(inTable')
  BY <1>1, <1>2, <1>3, <1>8, <1>9, EntryLeaves
<1>11. PICK s \in Seq(Elements) : s = R[b]
  BY <1>7
<1>12. PICK t \in Seq(Elements) : /\ t = Q[b] /\ Len(t) = Len(s) - 1
                                 /\ \A j \in 1 .. Len(s) - 1 : t[j] = IF j < k THEN s[j] ELSE s[j + 1]
  <2>1. k \in 1 .. Len(s)
    BY <1>11
  <2>2. /\ RemoveAt(s, k) \in Seq(Elements) /\ Len(RemoveAt(s, k)) = Len(s) - 1
        /\ \A j \in 1 .. Len(s) - 1 : RemoveAt(s, k)[j] = IF j < k THEN s[j] ELSE s[j + 1]
    BY <2>1, RemoveAtFacts
  <2> QED
    BY <1>10, <1>11, <2>2
<1>13. k \in Nat /\ Len(s) \in Nat /\ 1 <= k /\ k <= Len(s) /\ n = k + 1
  BY <1>8, <1>11
<1>14. NodeOf(b, t, k) = NodeOf(b, s, n)
  <2>1. CASE k = Len(s)
    <3>1. k \notin 1 .. Len(t) /\ n \notin 1 .. Len(s)
      BY <1>12, <1>13, <2>1
    <3> QED
      BY <3>1 DEF NodeOf
  <2>2. CASE k < Len(s)
    <3>1. k \in 1 .. Len(t) /\ k \in 1 .. Len(s) - 1 /\ n \in 1 .. Len(s) /\ ~(k < k)
      BY <1>12, <1>13, <2>2
    <3>2. t[k] = s[k + 1]
      BY <1>12, <3>1
    <3> QED
      BY <1>13, <3>1, <3>2 DEF NodeOf
  <2> QED
    BY <1>13, <2>1, <2>2
<1>15. StartingAt(t, k) = StartingAt(s, n)
  <2>1. ASSUME NEW j \in k .. Len(t)
        PROVE  \E i \in n .. Len(s) : t[j] = s[i]
    <3>1. j \in 1 .. Len(s) - 1 /\ ~(j < k) /\ j + 1 \in n .. Len(s)
      BY <1>12, <1>13
    <3> QED
      BY <1>12, <3>1
  <2>2. ASSUME NEW i \in n .. Len(s)
        PROVE  \E j \in k .. Len(t) : t[j] = s[i]
    <3>1. i - 1 \in 1 .. Len(s) - 1 /\ ~(i - 1 < k) /\ i - 1 \in k .. Len(t) /\ (i - 1) + 1 = i
      BY <1>12, <1>13
    <3>2. t[i - 1] = s[i]
      BY <1>12, <3>1
    <3> QED
      BY <3>1, <3>2
  <2>3. ASSUME NEW x \in {t[j] : j \in k .. Len(t)}
        PROVE  x \in {s[j] : j \in n .. Len(s)}
    BY <2>1, Zenon
  <2>4. ASSUME NEW x \in {s[j] : j \in n .. Len(s)}
        PROVE  x \in {t[j] : j \in k .. Len(t)}
    BY <2>2, Zenon
  <2> QED
    BY <2>3, <2>4, Zenon DEF StartingAt
<1>16. Beyond(ix, T \ {p}, b) = Beyond(ix, T, b)
  <2>1. ~(ix[p] > b)
    <3>1. b \in Nat
      BY BucketFacts
    <3> QED
      BY <1>10, <3>1
  <2>2. \A x \in T : ix[x] > b => x # p
    BY <2>1, Zenon
  <2>3. ASSUME NEW x \in {e \in T \ {p} : ix[e] > b}
        PROVE  x \in {e \in T : ix[e] > b}
    OBVIOUS
  <2>4. ASSUME NEW x \in {e \in T : ix[e] > b}
        PROVE  x \in {e \in T \ {p} : ix[e] > b}
    BY <2>2, Zenon
  <2>5. \A x : x \in {e \in T \ {p} : ix[e] > b} <=> x \in {e \in T : ix[e] > b}
    BY <2>3, <2>4, Zenon
  <2> QED
    BY <2>5 DEF Beyond
<1>17. Ahead(Q, ix, T \ {p}, b, k) = v
  BY <1>6, <1>11, <1>12, <1>15, <1>16 DEF Ahead
<1>18. Cursor(Q, ix, T \ {p}, c, NULL, v)
  <2>1. k \in 1 .. Len(t) + 1
    BY <1>12, <1>13
  <2>2. c.CurrentEntry = NodeOf(b, Q[b], k)
    BY <1>6, <1>11, <1>12, <1>14
  <2> QED
    BY <1>5, <1>12, <1>17, <2>1, <2>2 DEF Cursor
<1>19. p \notin v
  <2>1. ASSUME NEW j \in n .. Len(s)
        PROVE  s[j] # p
    <3>1. j \in 1 .. Len(R[b]) /\ j # k
      BY <1>11, <1>13
    <3> QED
      BY <1>7, <1>8, <1>11, <3>1 DEF Apart
  <2>2. ~(ix[p] > b)
    <3>1. b \in Nat
      BY BucketFacts
    <3> QED
      BY <1>10, <3>1
  <2> QED
    BY <1>6, <1>11, <2>1, <2>2 DEF Ahead, StartingAt, Beyond
<1>20. HashRings(Q)'
  <2>1. Cursor(Q, IndexOf', inTable', it', pEntry', toVisit')
    BY <1>2, <1>3, <1>10, <1>18
  <2> QED
    BY <1>10, <2>1 DEF HashRings
<1>21. HashCounts'
  <2>1. clearing' => toVisit' \cup ({pEntry'} \ {NULL}) = inTable'
    <3>1. clearing => v \cup {p} = T
      BY <1>2, <1>3 DEF HashCounts
    <3> QED
      BY <1>2, <1>3, <1>10, <1>19, <3>1
  <2> QED
    BY <1>2, <1>10, <2>1 DEF HashCounts
<1> QED
  BY <1>20, <1>21 DEF HashIInv


LEMMA IteratorInitKeepsInv ==
    ASSUME HashIInv, NEW clear \in BOOLEAN, HashTableIteratorInit(clear)
    PROVE  HashIInv'
<1>1. PICK R : HashRings(R)
  BY DEF HashIInv
<1>2. /\ HashCounts /\ it = NULL /\ pEntry' = NULL /\ clearing' = clear /\ toVisit' = inTable
      /\ UNCHANGED <<links, HashFunc, NumberOfElements, inTable, inList>>
  BY DEF HashIInv, HashTableIteratorInit
<1>3. PICK c, ix, T : /\ c = it' /\ c = [KeyIndex |-> 0, CurrentEntry |-> links.Flink[0]]
                      /\ ix = IndexOf /\ T = inTable
  BY DEF HashTableIteratorInit
<1>4. PICK b \in Buckets : b = 0
  BY BucketFacts
<1>5. PICK l : l = links
  OBVIOUS
<1>6. Rings(l, R) /\ Holds(R, ix, T) /\ T \subseteq Elements /\ ByKey(ix)
  BY <1>1, <1>2, <1>3, <1>5, IndexIs DEF HashRings, HashCounts
<1>7. b \in Heads /\ b \in Nodes /\ R[b] \in Seq(Elements) /\ Len(R[b]) \in Nat /\ l.Flink \in [Nodes -> Nodes]
  BY <1>6, BucketFacts, HeadFacts DEF Rings
<1>8. l.Flink[b] = NodeOf(b, R[b], 1)
  <2>1. 0 \in 0 .. Len(R[b]) /\ 0 + 1 = 1
    BY <1>7
  <2>2. l.Flink[NodeOf(b, R[b], 0)] = NodeOf(b, R[b], 0 + 1)
    BY <1>6, <1>7, <2>1, Neighbours
  <2>3. NodeOf(b, R[b], 0) = b
    BY <1>7, NodeFacts
  <2> QED
    BY <2>1, <2>2, <2>3
<1>9. T \subseteq Ahead(R, ix, T, b, 1)
  <2> SUFFICES ASSUME NEW e \in T
               PROVE  e \in Ahead(R, ix, T, b, 1)
    OBVIOUS
  <2>0. PICK x \in Buckets : x = ix[e] /\ \E i \in 1 .. Len(R[x]) : R[x][i] = e
    BY <1>6, HoldsMembers
  <2>1. ix[e] \in Nat
    BY <2>0, BucketFacts
  <2>2. CASE ix[e] = b
    <3>1. \E i \in 1 .. Len(R[b]) : R[b][i] = e
      BY <2>0, <2>2
    <3>2. e \in StartingAt(R[b], 1)
      BY <3>1, Zenon DEF StartingAt
    <3> QED
      BY <3>2 DEF Ahead
  <2>3. CASE ix[e] # b
    <3>1. ix[e] > b
      BY <1>4, <2>1, <2>3
    <3> QED
      BY <3>1 DEF Ahead, Beyond
  <2> QED
    BY <2>2, <2>3
<1>10. Ahead(R, ix, T, b, 1) \subseteq T
  BY <1>6, <1>7, HoldsMembers, RingTypes DEF Ahead, StartingAt, Beyond
<1>11. Cursor(R, ix, T, c, NULL, T)
  <2>1. 1 \in 1 .. Len(R[b]) + 1
    BY <1>7
  <2>2. c.KeyIndex = b /\ c.CurrentEntry = NodeOf(b, R[b], 1)
    BY <1>3, <1>4, <1>5, <1>8
  <2>3. T = Ahead(R, ix, T, b, 1)
    BY <1>9, <1>10
  <2> QED
    BY <2>1, <2>2, <2>3 DEF Cursor
<1>12. it' # NULL
  <2>1. c \in [KeyIndex : 0 .. MaxKeys - 1, CurrentEntry : (0 .. MaxKeys - 1) \cup Elements \cup {ListHead}]
    BY <1>3, <1>4, <1>5, <1>7 DEF Buckets, Nodes
  <2> QED
    BY <1>3, <2>1, HashAssumption
<1>13. IndexOf' = ix
  BY <1>2, <1>3, IndexKept
<1>14. HashRings(R)'
  BY <1>1, <1>2, <1>3, <1>11, <1>13 DEF HashRings
<1>15. HashCounts'
  BY <1>2, <1>12 DEF HashCounts
<1> QED
  BY <1>14, <1>15 DEF HashIInv

\* What an iteration returns next.
LEMMA Advance ==
    ASSUME NEW l, NEW R, Rings(l, R), NEW ix, ByKey(ix), NEW T, T \subseteq Elements, Holds(R, ix, T),
           NEW b \in Buckets, NEW n \in 1 .. Len(R[b]), NEW e, e = R[b][n]
    PROVE  /\ Ahead(R, ix, T, b, n + 1) = Ahead(R, ix, T, b, n) \ {e}
           /\ e \in Ahead(R, ix, T, b, n) /\ e \in T
           /\ l.Flink[e] = NodeOf(b, R[b], n + 1)
<1>1. /\ R \in [Heads -> Seq(Elements)] /\ Apart(R) /\ b \in Heads /\ R[b] \in Seq(Elements)
      /\ Len(R[b]) \in Nat /\ n \in Nat /\ b \in Nat
  BY RingTypes, BucketFacts
<1>2. e \in Elements /\ e \in T /\ ix[e] = b
  BY <1>1, RingTypes, HoldsMembers
<1>3. l.Flink[e] = NodeOf(b, R[b], n + 1)
  BY <1>1, NodeFacts, Neighbours
<1>4. e \in StartingAt(R[b], n)
  BY <1>1 DEF StartingAt
<1>5. e \notin StartingAt(R[b], n + 1)
  <2> SUFFICES ASSUME NEW j \in n + 1 .. Len(R[b]), R[b][j] = e
               PROVE  FALSE
    BY DEF StartingAt
  <2>1. j \in 1 .. Len(R[b]) /\ j # n
    BY <1>1
  <2> QED
    BY <1>1, <2>1 DEF Apart
<1>6. StartingAt(R[b], n) \ {e} = StartingAt(R[b], n + 1) \ {e}
  <2>1. ASSUME NEW j \in n .. Len(R[b]), R[b][j] # e
        PROVE  j \in n + 1 .. Len(R[b])
    BY <1>1, <2>1
  <2>2. \A j \in n + 1 .. Len(R[b]) : j \in n .. Len(R[b])
    BY <1>1
  <2> QED
    BY <2>1, <2>2 DEF StartingAt
<1>7. e \notin Beyond(ix, T, b)
  BY <1>1, <1>2 DEF Beyond
<1> QED
  BY <1>2, <1>3, <1>4, <1>5, <1>6, <1>7 DEF Ahead

LEMMA CursorMoves ==
    ASSUME HashCounts, NEW R, HashRings(R), NEW b \in Buckets, NEW n \in 1 .. Len(R[b]),
           toVisit = Ahead(R, IndexOf, inTable, b, n), it # NULL, clearing => pEntry = NULL,
           it' = [KeyIndex |-> b, CurrentEntry |-> links.Flink[R[b][n]]],
           pEntry' = R[b][n], toVisit' = toVisit \ {R[b][n]},
           UNCHANGED <<clearing, links, HashFunc, NumberOfElements, inTable, inList>>
    PROVE  HashIInv'
<1>1. PICK l, ix, T, e, c, v, w : /\ l = links /\ ix = IndexOf /\ T = inTable /\ e = R[b][n]
                                  /\ c = it' /\ v = toVisit /\ w = toVisit'
  OBVIOUS
<1>2. Rings(l, R) /\ Holds(R, ix, T) /\ T \subseteq Elements /\ ByKey(ix)
  BY <1>1, IndexIs DEF HashRings, HashCounts
<1>3. b \in Heads /\ Len(R[b]) \in Nat /\ R[b] \in Seq(Elements) /\ n \in Nat /\ l.Flink \in [Nodes -> Nodes]
      /\ e \in Elements /\ e \in Nodes
  <2>1. b \in Heads
    BY BucketFacts
  <2>2. R[b] \in Seq(Elements) /\ Len(R[b]) \in Nat /\ l.Flink \in [Nodes -> Nodes]
    BY <1>2, <2>1, RingTypes DEF Rings
  <2>3. e \in Elements
    BY <1>1, <1>2, <2>1, RingTypes
  <2> QED
    BY <2>1, <2>2, <2>3, HeadFacts
<1>4. /\ Ahead(R, ix, T, b, n + 1) = Ahead(R, ix, T, b, n) \ {e}
      /\ e \in Ahead(R, ix, T, b, n) /\ e \in T
      /\ l.Flink[e] = NodeOf(b, R[b], n + 1)
  BY <1>1, <1>2, Advance
<1>5. v = Ahead(R, ix, T, b, n) /\ w = v \ {e} /\ c = [KeyIndex |-> b, CurrentEntry |-> l.Flink[e]]
  BY <1>1
<1>6. Cursor(R, ix, T, c, e, w)
  <2>1. PICK m \in 1 .. Len(R[b]) + 1 : m = n + 1 /\ m > 1 /\ m - 1 = n
    BY <1>3
  <2>2. c.KeyIndex = b /\ c.CurrentEntry = NodeOf(b, R[b], m) /\ w = Ahead(R, ix, T, b, m)
    BY <1>4, <1>5, <2>1
  <2>3. e = R[b][m - 1]
    BY <1>1, <2>1
  <2> QED
    BY <2>1, <2>2, <2>3 DEF Cursor
<1>7. IndexOf' = ix
  BY <1>1, IndexKept
<1>8. c # NULL
  <2>1. c \in [KeyIndex : 0 .. MaxKeys - 1, CurrentEntry : (0 .. MaxKeys - 1) \cup Elements \cup {ListHead}]
    BY <1>3, <1>5 DEF Buckets, Nodes
  <2> QED
    BY <2>1, HashAssumption
<1>9. HashRings(R)'
  <2>1. Cursor(R, IndexOf', inTable', it', pEntry', toVisit')
    BY <1>1, <1>6, <1>7
  <2>2. Rings(links', R) /\ R[ListHead] = inList' /\ Holds(R, IndexOf', inTable')
    BY <1>1, <1>2, <1>7 DEF HashRings
  <2> QED
    BY <2>1, <2>2 DEF HashRings
<1>10. HashCounts'
  <2>1. e # NULL
    BY <1>3, HashAssumption
  <2>2. clearing' => toVisit' \cup ({pEntry'} \ {NULL}) = inTable'
    <3>1. clearing => v = T
      BY <1>1 DEF HashCounts
    <3> QED
      BY <1>1, <1>4, <1>5, <2>1, <3>1
  <2> QED
    BY <1>1, <1>3, <1>8, <2>2 DEF HashCounts
<1> QED
  BY <1>9, <1>10 DEF HashIInv


\* The chains behind b that have an entry.
Rest(l, b) == {x \in Buckets : x > b /\ l.Flink[x] # x}

LEMMA FirstOfChain ==
    ASSUME NEW l, NEW R, Rings(l, R), NEW b \in Buckets
    PROVE  /\ Len(R[b]) > 0 => l.Flink[b] = R[b][1]
           /\ l.Flink[b] # b <=> Len(R[b]) > 0
<1>1. b \in Heads /\ R[b] \in Seq(Elements) /\ Len(R[b]) \in Nat /\ 0 \in 0 .. Len(R[b])
  BY BucketFacts, RingTypes
<1>2. l.Flink[NodeOf(b, R[b], 0)] = NodeOf(b, R[b], 0 + 1)
  BY <1>1, Neighbours
<1>3. NodeOf(b, R[b], 0) = b
  BY <1>1, NodeFacts
<1>4. l.Flink[b] = NodeOf(b, R[b], 1)
  BY <1>2, <1>3
<1>5. CASE Len(R[b]) > 0
  <2>1. 1 \in 1 .. Len(R[b])
    BY <1>1, <1>5
  <2>2. NodeOf(b, R[b], 1) = R[b][1] /\ R[b][1] \in Elements /\ b \notin Elements
    BY <1>1, <2>1, HeadFacts DEF NodeOf
  <2> QED
    BY <1>4, <1>5, <2>2
<1>6. CASE ~(Len(R[b]) > 0)
  <2>1. 1 \notin 1 .. Len(R[b])
    BY <1>1, <1>6
  <2> QED
    BY <1>4, <1>6, <2>1 DEF NodeOf
<1> QED
  BY <1>5, <1>6

\* What is left behind the chain b is what is left of the first chain that has an entry.
LEMMA NextChain ==
    ASSUME NEW l, NEW R, Rings(l, R), NEW ix, ByKey(ix), NEW T, T \subseteq Elements, Holds(R, ix, T),
           NEW b \in Buckets
    PROVE  /\ Rest(l, b) = {} => Beyond(ix, T, b) = {}
           /\ \A x \in Rest(l, b) : (\A y \in Rest(l, b) : x <= y) => Beyond(ix, T, b) = Ahead(R, ix, T, x, 1)
<1>1. Buckets \subseteq Nat /\ b \in Nat
  BY BucketFacts
<1>2. ASSUME NEW e \in Beyond(ix, T, b)
      PROVE  ix[e] \in Rest(l, b) /\ \E i \in 1 .. Len(R[ix[e]]) : R[ix[e]][i] = e
  <2>1. e \in T /\ ix[e] > b
    BY DEF Beyond
  <2>2. PICK x \in Buckets : x = ix[e]
    BY <2>1, HoldsMembers
  <2>3. PICK i \in 1 .. Len(R[x]) : R[x][i] = e
    BY <2>1, <2>2, HoldsMembers
  <2>4. Len(R[x]) \in Nat
    BY <2>2, BucketFacts, RingTypes
  <2>5. Len(R[x]) > 0
    BY <2>3, <2>4
  <2>6. l.Flink[x] # x
    BY <2>5, FirstOfChain
  <2> QED
    BY <2>1, <2>2, <2>3, <2>6 DEF Rest
<1>3. ASSUME NEW x \in Rest(l, b), \A y \in Rest(l, b) : x <= y
      PROVE  Beyond(ix, T, b) = Ahead(R, ix, T, x, 1)
  <2>1. x \in Buckets /\ x \in Nat /\ x > b
    BY <1>1 DEF Rest
  <2>2. ASSUME NEW e \in Beyond(ix, T, b)
        PROVE  e \in Ahead(R, ix, T, x, 1)
    <3>1. e \in T
      BY DEF Beyond
    <3>2. PICK y \in Rest(l, b) : y = ix[e] /\ \E i \in 1 .. Len(R[y]) : R[y][i] = e
      BY <1>2
    <3>3. y \in Nat /\ x <= y
      BY <1>1, <1>3 DEF Rest
    <3>4. CASE y = x
      <4>1. \E i \in 1 .. Len(R[x]) : R[x][i] = e
        BY <3>2, <3>4
      <4>2. e \in StartingAt(R[x], 1)
        BY <4>1, Zenon DEF StartingAt
      <4> QED
        BY <4>2 DEF Ahead
    <3>5. CASE y # x
      <4>1. y > x
        BY <2>1, <3>3, <3>5
      <4>2. e \in Beyond(ix, T, x)
        BY <3>1, <3>2, <4>1 DEF Beyond
      <4> QED
        BY <4>2 DEF Ahead
    <3> QED
      BY <3>4, <3>5
  <2>3. ASSUME NEW e \in Ahead(R, ix, T, x, 1)
        PROVE  e \in Beyond(ix, T, b)
    <3>1. CASE e \in StartingAt(R[x], 1)
      <4>1. PICK i \in 1 .. Len(R[x]) : R[x][i] = e
        BY <3>1 DEF StartingAt
      <4>2. x \in Heads
        BY <2>1, BucketFacts
      <4>3. e \in Elements
        BY <4>1, <4>2, RingTypes
      <4>4. e \in T /\ ix[e] = x
        BY <2>1, <4>1, <4>3, HoldsMembers
      <4> QED
        BY <2>1, <4>4 DEF Beyond
    <3>2. CASE e \in Beyond(ix, T, x)
      <4>1. e \in T /\ ix[e] > x
        BY <3>2 DEF Beyond
      <4>2. ix[e] \in Nat
        BY <1>1, <4>1, HoldsMembers
      <4> QED
        BY <1>1, <2>1, <4>1, <4>2 DEF Beyond
    <3> QED
      BY <3>1, <3>2 DEF Ahead
  <2> QED
    BY <2>2, <2>3
<1> QED
  BY <1>2, <1>3

LEMMA IteratorNextKeepsInv ==
    ASSUME HashIInv, HashTableIteratorNext
    PROVE  HashIInv'
<1>1. PICK R : HashRings(R)
  BY DEF HashIInv
<1>2. /\ HashCounts /\ it # NULL /\ (clearing => pEntry = NULL)
      /\ UNCHANGED <<links, HashFunc, NumberOfElements, inTable, inList>>
  BY DEF HashIInv, HashTableIteratorNext
<1>3. PICK l, c, v, ix, T, p : l = links /\ c = it /\ v = toVisit /\ ix = IndexOf /\ T = inTable /\ p = pEntry
  OBVIOUS
<1>4. Cursor(R, ix, T, c, p, v) /\ Rings(l, R) /\ Holds(R, ix, T) /\ T \subseteq Elements /\ ByKey(ix)
  BY <1>1, <1>2, <1>3, IndexIs DEF HashRings, HashCounts
<1>5. PICK b \in Buckets : b = c.KeyIndex
  BY <1>4 DEF Cursor
<1>6. PICK n \in 1 .. Len(R[b]) + 1 : c.CurrentEntry = NodeOf(b, R[b], n) /\ v = Ahead(R, ix, T, b, n)
  BY <1>4, <1>5 DEF Cursor
<1>7. b \in Heads /\ R[b] \in Seq(Elements) /\ Len(R[b]) \in Nat /\ n \in Nat /\ b \notin Elements
  <2>1. b \in Heads
    BY BucketFacts
  <2> QED
    BY <1>4, <2>1, RingTypes, HeadFacts
<1>8. CASE c.CurrentEntry # b
  <2>1. n \in 1 .. Len(R[b])
    BY <1>6, <1>8 DEF NodeOf
  <2>2. c.CurrentEntry = R[b][n]
    BY <1>6, <2>1 DEF NodeOf
  <2>3. /\ it' = [KeyIndex |-> b, CurrentEntry |-> links.Flink[R[b][n]]]
        /\ pEntry' = R[b][n] /\ toVisit' = toVisit \ {R[b][n]} /\ clearing' = clearing
    BY <1>3, <1>5, <1>8, <2>2 DEF HashTableIteratorNext
  <2>4. toVisit = Ahead(R, IndexOf, inTable, b, n)
    BY <1>3, <1>6
  <2> QED
    BY <1>1, <1>2, <2>1, <2>3, <2>4, CursorMoves
<1>9. CASE c.CurrentEntry = b
  <2>1. n \notin 1 .. Len(R[b])
    BY <1>6, <1>7, <1>9 DEF NodeOf
  <2>2. n = Len(R[b]) + 1
    BY <1>7, <2>1
  <2>3. StartingAt(R[b], n) = {}
    BY <1>7, <2>2 DEF StartingAt
  <2>4. v = Beyond(ix, T, b)
    BY <1>6, <2>3 DEF Ahead
  <2>5. PICK rest : rest = Rest(l, b)
    OBVIOUS
  <2>6. rest = {x \in Buckets : x > it.KeyIndex /\ links.Flink[x] # x}
    BY <1>3, <1>5, <2>5 DEF Rest
  <2>7. CASE rest = {}
    <3>1. it' = NULL /\ pEntry' = NULL /\ clearing' = FALSE /\ toVisit' = toVisit
      BY <1>3, <1>5, <1>9, <2>6, <2>7 DEF HashTableIteratorNext
    <3>2. v = {}
      BY <1>4, <2>4, <2>5, <2>7, NextChain
    <3>3. HashCounts'
      BY <1>2, <1>3, <3>1, <3>2 DEF HashCounts
    <3>4. IndexOf' = IndexOf
      BY <1>2, IndexKept
    <3>5. HashRings(R)'
      BY <1>1, <1>2, <3>1, <3>4 DEF HashRings
    <3> QED
      BY <3>3, <3>5 DEF HashIInv
  <2>8. CASE rest # {}
    <3>1. PICK x : x = CHOOSE y \in rest : \A z \in rest : y <= z
      OBVIOUS
    <3>2. rest \subseteq Nat /\ rest \subseteq Buckets
      BY <2>5, BucketFacts DEF Rest
    <3>3. \E y \in rest : \A z \in rest : y <= z
      BY <2>8, <3>2, Least
    <3>4. x \in rest /\ \A z \in rest : x <= z
      BY <3>1, <3>3
    <3>5. x \in Buckets /\ l.Flink[x] # x
      BY <2>5, <3>4 DEF Rest
    <3>6. Len(R[x]) > 0 /\ l.Flink[x] = R[x][1] /\ Len(R[x]) \in Nat
      BY <1>4, <3>5, FirstOfChain, RingTypes, BucketFacts
    <3>7. v = Ahead(R, ix, T, x, 1)
      BY <1>4, <2>4, <2>5, <3>4, NextChain
    <3>8. PICK m \in 1 .. Len(R[x]) : m = 1
      BY <3>6
    <3>9. /\ it' = [KeyIndex |-> x, CurrentEntry |-> links.Flink[links.Flink[x]]]
          /\ pEntry' = links.Flink[x] /\ toVisit' = toVisit \ {links.Flink[x]} /\ clearing' = clearing
      BY <1>3, <1>5, <1>9, <2>6, <2>8, <3>1 DEF HashTableIteratorNext
    <3>10. /\ it' = [KeyIndex |-> x, CurrentEntry |-> links.Flink[R[x][m]]]
           /\ pEntry' = R[x][m] /\ toVisit' = toVisit \ {R[x][m]}
      BY <1>3, <3>6, <3>8, <3>9
    <3>11. toVisit = Ahead(R, IndexOf, inTable, x, m)
      BY <1>3, <3>7, <3>8
    <3> QED
      BY <1>1, <1>2, <3>5, <3>8, <3>9, <3>10, <3>11, CursorMoves
  <2> QED
    BY <2>7, <2>8
<1> QED
  BY <1>8, <1>9


\* A step of the list outside the table.
LEMMA ListChanges ==
    ASSUME HashCounts, NEW R, HashRings(R), NEW Q, Rings(links', Q), Q[ListHead] = inList',
           \A b \in Buckets : Q[b] = R[b],
           UNCHANGED <<HashFunc, NumberOfElements, it, pEntry, clearing, inTable, toVisit>>
    PROVE  HashIInv'
<1>1. PICK ix, T, c, v, p : ix = IndexOf /\ T = inTable /\ c = it /\ v = toVisit /\ p = pEntry
  OBVIOUS
<1>2. IndexOf' = ix
  BY <1>1, IndexKept
<1>3. Holds(Q, ix, T)
  <2>1. Holds(R, ix, T)
    BY <1>1 DEF HashRings
  <2> SUFFICES ASSUME NEW b \in Buckets
               PROVE  /\ Increasing(Q[b])
                      /\ \A e \in Elements : (e \in T /\ ix[e] = b) <=> \E i \in 1 .. Len(Q[b]) : Q[b][i] = e
    BY DEF Holds
  <2>2. PICK s : s = R[b] /\ s = Q[b]
    OBVIOUS
  <2>3. /\ Increasing(s)
        /\ \A e \in Elements : (e \in T /\ ix[e] = b) <=> \E i \in 1 .. Len(s) : s[i] = e
    BY <2>1, <2>2 DEF Holds
  <2> QED
    BY <2>2, <2>3
<1>4. it # NULL => Cursor(Q, ix, T, c, p, v)
  <2> SUFFICES ASSUME it # NULL
               PROVE  Cursor(Q, ix, T, c, p, v)
    OBVIOUS
  <2>1. Cursor(R, ix, T, c, p, v)
    BY <1>1 DEF HashRings
  <2>2. PICK b \in Buckets : b = c.KeyIndex
    BY <2>1 DEF Cursor
  <2>3. PICK s : s = R[b] /\ s = Q[b]
    OBVIOUS
  <2>4. PICK k \in 1 .. Len(s) + 1 : /\ c.CurrentEntry = NodeOf(b, s, k)
                                     /\ v = Ahead(R, ix, T, b, k)
                                     /\ p # NULL => k > 1 /\ p = s[k - 1]
    BY <2>1, <2>2, <2>3 DEF Cursor
  <2>5. v = Ahead(Q, ix, T, b, k)
    BY <2>3, <2>4 DEF Ahead
  <2> QED
    BY <2>2, <2>3, <2>4, <2>5 DEF Cursor
<1>5. HashRings(Q)'
  BY <1>1, <1>2, <1>3, <1>4 DEF HashRings
<1>6. HashCounts'
  BY DEF HashCounts
<1> QED
  BY <1>5, <1>6 DEF HashIInv

\* The ends of a sequence.
LEMMA EndsAre ==
    ASSUME NEW S, NEW s \in Seq(S), NEW e \in S
    PROVE  /\ Append(s, e) = InsertAt(s, Len(s) + 1, e)
           /\ <<e>> \o s = InsertAt(s, 1, e)
           /\ s # <<>> => Tail(s) = RemoveAt(s, 1) /\ Front(s) = RemoveAt(s, Len(s))
<1>1. Append(s, e) = InsertAt(s, Len(s) + 1, e)
  <2>1. Len(s) + 1 \in 1 .. Len(s) + 1 /\ Len(s) \in Nat
    OBVIOUS
  <2>2. PICK t \in Seq(S) : t = InsertAt(s, Len(s) + 1, e) /\ Inserted(s, Len(s) + 1, e, t)
    BY <2>1, InsertAtIs
  <2>3. PICK u : u = Append(s, e)
    OBVIOUS
  <2>4. u \in Seq(S) /\ Len(u) = Len(s) + 1
    BY <2>3
  <2>5. \A j \in 1 .. Len(s) + 1 : u[j] = IF j < Len(s) + 1 THEN s[j] ELSE e
    BY <2>3
  <2>8. /\ Len(t) = Len(s) + 1
        /\ \A j \in 1 .. Len(s) + 1 :
              t[j] = IF j < Len(s) + 1 THEN s[j] ELSE IF j = Len(s) + 1 THEN e ELSE s[j - 1]
    BY <2>2 DEF Inserted
  <2>6. \A j \in 1 .. Len(u) : u[j] = t[j]
    BY <2>1, <2>4, <2>5, <2>8
  <2>7. u = t
    BY <2>4, <2>6, <2>8, SeqEqual
  <2> QED
    BY <2>2, <2>3, <2>7
<1>2. <<e>> \o s = InsertAt(s, 1, e)
  <2>1. Len(s) \in Int /\ 0 \in Int /\ 1 \in Int /\ 0 < 1
    OBVIOUS
  <2>2. SubSeq(s, 1, 0) = <<>>
    BY <2>1, SubSeqEmpty
  <2>3. PICK t : t = SubSeq(s, 1, Len(s))
    OBVIOUS
  <2>4. t \in Seq(S) /\ Len(t) = Len(s) /\ \A j \in 1 .. Len(t) : t[j] = s[j]
    BY <2>3
  <2>5. t = s
    BY <2>4, SeqEqual
  <2>6. <<e>> \in Seq(S)
    OBVIOUS
  <2>7. <<>> \o <<e>> = <<e>>
    BY <2>6, ConcatEmptySeq
  <2>8. InsertAt(s, 1, e) = (SubSeq(s, 1, 0) \o <<e>>) \o t
    BY <2>3 DEF InsertAt
  <2> QED
    BY <2>2, <2>5, <2>7, <2>8
<1>3. ASSUME s # <<>>
      PROVE  Tail(s) = RemoveAt(s, 1)
  <2>1. 1 \in 1 .. Len(s) /\ Len(s) \in Nat
    BY <1>3
  <2>2. PICK t \in Seq(S) : /\ t = RemoveAt(s, 1) /\ Len(t) = Len(s) - 1
                            /\ \A j \in 1 .. Len(s) - 1 : t[j] = IF j < 1 THEN s[j] ELSE s[j + 1]
    BY <2>1, RemoveAtFacts
  <2>3. PICK u : u = Tail(s)
    OBVIOUS
  <2>4. u \in Seq(S) /\ Len(u) = Len(s) - 1
    BY <1>3, <2>1, <2>3
  <2>5. \A j \in 1 .. Len(s) - 1 : u[j] = s[j + 1]
    BY <1>3, <2>1, <2>3
  <2>6. \A j \in 1 .. Len(u) : u[j] = t[j]
    BY <2>1, <2>2, <2>4, <2>5
  <2>7. u = t
    BY <2>2, <2>4, <2>6, SeqEqual
  <2> QED
    BY <2>2, <2>3, <2>7
<1>4. ASSUME s # <<>>
      PROVE  Front(s) = RemoveAt(s, Len(s))
  <2>1. PICK n \in 1 .. Len(s) : n = Len(s)
    BY <1>4
  <2>2. PICK t \in Seq(S) : /\ t = RemoveAt(s, Len(s)) /\ Len(t) = Len(s) - 1
                            /\ \A j \in 1 .. Len(s) - 1 : t[j] = IF j < Len(s) THEN s[j] ELSE s[j + 1]
    BY <2>1, RemoveAtFacts
  <2>3. PICK u : u = Front(s)
    OBVIOUS
  <2>A. u = SubSeq(s, 1, n - 1) /\ SubSeq(s, 1, n - 1) \in Seq(S) /\ Len(SubSeq(s, 1, n - 1)) = n - 1
    BY <2>1, <2>3 DEF Front
  <2>4. u \in Seq(S) /\ Len(u) = Len(s) - 1
    BY <2>1, <2>A
  <2>5. \A j \in 1 .. Len(s) - 1 : u[j] = s[j]
    BY <1>4, <2>1, <2>3 DEF Front
  <2>6. \A j \in 1 .. Len(u) : u[j] = t[j]
    BY <2>1, <2>2, <2>4, <2>5
  <2>7. u = t
    BY <2>2, <2>4, <2>6, SeqEqual
  <2> QED
    BY <2>2, <2>3, <2>7
<1> QED
  BY <1>1, <1>2, <1>3, <1>4


LEMMA EntersList ==
    ASSUME HashCounts, NEW R, HashRings(R), NEW k \in 1 .. Len(R[ListHead]) + 1, NEW e \in Elements,
           NEW l, Rings(l, Enter(R, ListHead, k, e)), ChangeList(l, InsertAt(inList, k, e))
    PROVE  HashIInv'
<1>1. PICK Q : Q = Enter(R, ListHead, k, e)
  OBVIOUS
<1>2. R \in [Heads -> Seq(Elements)] /\ ListHead \in Heads /\ R[ListHead] = inList
  BY BucketFacts DEF HashRings, Rings
<1>3. Q[ListHead] = InsertAt(inList, k, e) /\ \A b \in Buckets : Q[b] = R[b]
  <2>1. \A b \in Buckets : b \in Heads /\ b # ListHead
    BY BucketFacts
  <2> QED
    BY <1>1, <1>2, <2>1 DEF Enter, Leave
<1>4. Rings(links', Q) /\ Q[ListHead] = inList'
  BY <1>1, <1>3 DEF ChangeList
<1> QED
  BY <1>3, <1>4, ListChanges DEF ChangeList

LEMMA LeavesList ==
    ASSUME HashCounts, NEW R, HashRings(R), NEW k \in 1 .. Len(R[ListHead]),
           NEW l, Rings(l, Leave(R, ListHead, k)), ChangeList(l, RemoveAt(inList, k))
    PROVE  HashIInv'
<1>1. PICK Q : Q = Leave(R, ListHead, k)
  OBVIOUS
<1>2. R \in [Heads -> Seq(Elements)] /\ ListHead \in Heads /\ R[ListHead] = inList
  BY BucketFacts DEF HashRings, Rings
<1>3. Q[ListHead] = RemoveAt(inList, k) /\ \A b \in Buckets : Q[b] = R[b]
  <2>1. \A b \in Buckets : b \in Heads /\ b # ListHead
    BY BucketFacts
  <2> QED
    BY <1>1, <1>2, <2>1 DEF Enter, Leave
<1>4. Rings(links', Q) /\ Q[ListHead] = inList'
  BY <1>1, <1>3 DEF ChangeList
<1> QED
  BY <1>3, <1>4, ListChanges DEF ChangeList

\* The place of an ordered insertion is found along the links as it is in the list.
LEMMA OrderedPlace ==
    ASSUME NEW l, NEW R, Rings(l, R), NEW e \in Elements, ~Linked(R, e), NEW s, s = R[ListHead], NEW n,
           n = SelectInSeq(s, LAMBDA x : KeyOf[x] > KeyOf[e])
    PROVE  /\ n = 0 \/ n \in 1 .. Len(s)
           /\ n = 0 => Rings(InsertOrderedList(l, ListHead, e), Enter(R, ListHead, Len(s) + 1, e))
           /\ n # 0 => Rings(InsertOrderedList(l, ListHead, e), Enter(R, ListHead, n, e))
<1>1. ListHead \in Heads /\ s \in Seq(Elements) /\ Len(s) \in Nat
  BY BucketFacts, RingTypes
<1>2. Visited(l.Flink, ListHead) = s
  BY <1>1, RingIsVisited
<1>3. PICK I : I = {i \in 1 .. Len(s) : KeyOf[s[i]] > KeyOf[e]}
  OBVIOUS
<1>4. I = {i \in 1 .. Len(s) : KeyOf[e] < KeyOf[s[i]]}
  <2>1. \A i \in 1 .. Len(s) : s[i] \in Elements
    BY <1>1
  <2>2. \A i \in 1 .. Len(s) : KeyOf[s[i]] \in Nat /\ KeyOf[e] \in Nat
    BY <2>1, HashAssumption
  <2> QED
    BY <1>3, <2>2
<1>5. n = IF I # {} THEN Min(I) ELSE 0
  BY <1>3 DEF SelectInSeq
<1>6. SelectInSeq(s, LAMBDA x : KeyOf[e] < KeyOf[x]) = n
  BY <1>4, <1>5 DEF SelectInSeq
<1>7. InsertOrderedList(l, ListHead, e) = InsertTailList(l, IF n = 0 THEN ListHead ELSE s[n], e)
  BY <1>2, <1>6 DEF InsertOrderedList
<1>8. n = 0 \/ n \in 1 .. Len(s)
  <2>1. I \subseteq Nat /\ I \subseteq 1 .. Len(s)
    BY <1>3
  <2>2. I # {} => Min(I) \in I
    BY <2>1, MinIsLeast
  <2> QED
    BY <1>5, <2>1, <2>2
<1>9. CASE n = 0
  <2>1. PICK k \in 0 .. Len(s) : k = Len(s)
    BY <1>1
  <2>2. NodeOf(ListHead, s, k + 1) = ListHead
    BY <1>1, <2>1 DEF NodeOf
  <2>3. Rings(InsertTailList(l, NodeOf(ListHead, s, k + 1), e), Enter(R, ListHead, k + 1, e))
    BY <1>1, InsertTailIs
  <2> QED
    BY <1>7, <1>9, <2>1, <2>2, <2>3
<1>10. CASE n # 0
  <2>1. n \in 1 .. Len(s) /\ n \in Nat
    BY <1>1, <1>8, <1>10
  <2>0. n - 1 \in 0 .. Len(s) /\ (n - 1) + 1 = n
    BY <1>1, <2>1
  <2>2. PICK k \in 0 .. Len(s) : k = n - 1 /\ k + 1 = n
    BY <2>0
  <2>3. NodeOf(ListHead, s, k + 1) = s[n]
    BY <2>1, <2>2 DEF NodeOf
  <2>4. Rings(InsertTailList(l, NodeOf(ListHead, s, k + 1), e), Enter(R, ListHead, k + 1, e))
    BY <1>1, InsertTailIs
  <2> QED
    BY <1>7, <1>8, <1>10, <2>2, <2>3, <2>4
<1> QED
  BY <1>8, <1>9, <1>10

LEMMA ListKeepsInv ==
    ASSUME HashIInv, ListNext
    PROVE  HashIInv'
<1>1. PICK R : HashRings(R)
  BY DEF HashIInv
<1>2. HashCounts
  BY DEF HashIInv
<1>3. PICK l, s : l = links /\ s = inList
  OBVIOUS
<1>4. Rings(l, R) /\ R[ListHead] = s /\ ListHead \in Heads
  BY <1>1, <1>3, BucketFacts DEF HashRings
<1>5. s \in Seq(Elements) /\ Len(s) \in Nat
  BY <1>4, RingTypes
<1>6. ASSUME NEW e \in Elements, Free(e), ChangeList(InsertTailList(links, ListHead, e), Append(inList, e))
      PROVE  HashIInv'
  <2>1. ~Linked(R, e)
    BY <1>1, <1>6, FreeIsApart
  <2>2. PICK k \in 0 .. Len(s) : k = Len(s)
    BY <1>5
  <2>3. NodeOf(ListHead, s, k + 1) = ListHead
    BY <1>5, <2>2 DEF NodeOf
  <2>4. Rings(InsertTailList(l, ListHead, e), Enter(R, ListHead, k + 1, e))
    BY <1>4, <2>1, <2>3, InsertTailIs
  <2>5. Append(s, e) = InsertAt(s, k + 1, e)
    BY <1>5, <2>2, EndsAre
  <2>6. k + 1 \in 1 .. Len(s) + 1
    BY <1>5, <2>2
  <2> QED
    BY <1>1, <1>2, <1>3, <1>4, <1>6, <2>4, <2>5, <2>6, EntersList
<1>7. ASSUME NEW e \in Elements, Free(e), ChangeList(InsertHeadList(links, ListHead, e), <<e>> \o inList)
      PROVE  HashIInv'
  <2>1. ~Linked(R, e)
    BY <1>1, <1>7, FreeIsApart
  <2>2. PICK k \in 0 .. Len(s) : k = 0 /\ k + 1 = 1
    BY <1>5
  <2>3. NodeOf(ListHead, s, k) = ListHead
    BY <1>5, <2>2 DEF NodeOf
  <2>4. Rings(InsertHeadList(l, ListHead, e), Enter(R, ListHead, k + 1, e))
    BY <1>4, <2>1, <2>3, InsertHeadIs
  <2>5. <<e>> \o s = InsertAt(s, 1, e)
    BY <1>5, EndsAre
  <2>6. k + 1 \in 1 .. Len(s) + 1
    BY <1>5, <2>2
  <2> QED
    BY <1>1, <1>2, <1>3, <1>4, <1>7, <2>2, <2>4, <2>5, <2>6, EntersList
<1>8. ASSUME NEW e \in Elements, Free(e), NEW n, n = SelectInSeq(inList, LAMBDA x : KeyOf[x] > KeyOf[e]),
             ChangeList(InsertOrderedList(links, ListHead, e),
                        IF n = 0 THEN Append(inList, e) ELSE InsertAt(inList, n, e))
      PROVE  HashIInv'
  <2>1. ~Linked(R, e)
    BY <1>1, <1>8, FreeIsApart
  <2>2. n = SelectInSeq(s, LAMBDA x : KeyOf[x] > KeyOf[e])
    BY <1>3, <1>8
  <2>3. /\ n = 0 \/ n \in 1 .. Len(s)
        /\ n = 0 => Rings(InsertOrderedList(l, ListHead, e), Enter(R, ListHead, Len(s) + 1, e))
        /\ n # 0 => Rings(InsertOrderedList(l, ListHead, e), Enter(R, ListHead, n, e))
    BY <1>4, <2>1, <2>2, OrderedPlace
  <2>4. PICK k \in 1 .. Len(s) + 1 : k = IF n = 0 THEN Len(s) + 1 ELSE n
    BY <1>5, <2>3
  <2>5. Append(s, e) = InsertAt(s, Len(s) + 1, e)
    BY <1>5, EndsAre
  <2>6. ChangeList(InsertOrderedList(l, ListHead, e), InsertAt(inList, k, e))
    BY <1>3, <1>8, <2>4, <2>5
  <2>7. Rings(InsertOrderedList(l, ListHead, e), Enter(R, ListHead, k, e))
    BY <2>3, <2>4
  <2> QED
    BY <1>1, <1>2, <1>4, <2>6, <2>7, EntersList
<1>9. ASSUME ChangeList(RemoveHeadList(links, ListHead), IF inList = <<>> THEN inList ELSE Tail(inList))
      PROVE  HashIInv'
  <2>1. CASE s = <<>>
    <3>1. Rings(RemoveHeadList(l, ListHead), R)
      BY <1>4, <2>1, RemoveFromEmpty
    <3>2. Rings(links', R) /\ R[ListHead] = inList'
      BY <1>3, <1>4, <1>9, <2>1, <3>1 DEF ChangeList
    <3> QED
      BY <1>1, <1>2, <1>9, <3>2, ListChanges DEF ChangeList
  <2>2. CASE s # <<>>
    <3>1. PICK k \in 1 .. Len(s) : k = 1
      BY <1>5, <2>2
    <3>2. Rings(RemoveHeadList(l, ListHead), Leave(R, ListHead, k))
      BY <1>4, <2>2, <3>1, RemoveHeadIs
    <3>3. \A e \in Elements : Tail(s) = RemoveAt(s, 1)
      BY <1>5, <2>2, EndsAre
    <3>4. s[1] \in Elements
      BY <1>5, <3>1
    <3>5. ChangeList(RemoveHeadList(l, ListHead), RemoveAt(inList, k))
      BY <1>3, <1>9, <2>2, <3>1, <3>3, <3>4
    <3> QED
      BY <1>1, <1>2, <1>4, <3>2, <3>5, LeavesList
  <2> QED
    BY <2>1, <2>2
<1>10. ASSUME ChangeList(RemoveTailList(links, ListHead), IF inList = <<>> THEN inList ELSE Front(inList))
       PROVE  HashIInv'
  <2>1. CASE s = <<>>
    <3>1. Rings(RemoveTailList(l, ListHead), R)
      BY <1>4, <2>1, RemoveFromEmpty
    <3>2. Rings(links', R) /\ R[ListHead] = inList'
      BY <1>3, <1>4, <1>10, <2>1, <3>1 DEF ChangeList
    <3> QED
      BY <1>1, <1>2, <1>10, <3>2, ListChanges DEF ChangeList
  <2>2. CASE s # <<>>
    <3>1. PICK k \in 1 .. Len(s) : k = Len(s)
      BY <1>5, <2>2
    <3>2. Rings(RemoveTailList(l, ListHead), Leave(R, ListHead, k))
      BY <1>4, <2>2, <3>1, RemoveTailIs
    <3>3. \A e \in Elements : Front(s) = RemoveAt(s, Len(s))
      BY <1>5, <2>2, EndsAre
    <3>4. s[k] \in Elements
      BY <1>5, <3>1
    <3>5. ChangeList(RemoveTailList(l, ListHead), RemoveAt(inList, k))
      BY <1>3, <1>10, <2>2, <3>1, <3>3, <3>4
    <3> QED
      BY <1>1, <1>2, <1>4, <3>2, <3>5, LeavesList
  <2> QED
    BY <2>1, <2>2
<1>11. ASSUME NEW n \in DOMAIN inList, ChangeList(RemoveEntryList(links, inList[n]), RemoveAt(inList, n))
       PROVE  HashIInv'
  <2>1. n \in 1 .. Len(R[ListHead])
    BY <1>3, <1>4, <1>5, <1>11
  <2>2. Rings(RemoveEntryList(l, s[n]), Leave(R, ListHead, n))
    BY <1>4, <2>1, RemoveEntryIs
  <2> QED
    BY <1>1, <1>2, <1>3, <1>11, <2>1, <2>2, LeavesList
<1> QED
  BY <1>6, <1>7, <1>8, <1>9, <1>10, <1>11 DEF ListNext

LEMMA HashStutters ==
    ASSUME HashIInv, UNCHANGED hashVars
    PROVE  HashIInv'
<1>1. PICK R : HashRings(R)
  BY DEF HashIInv
<1>2. IndexOf' = IndexOf
  BY IndexKept DEF hashVars
<1>3. HashRings(R)'
  BY <1>1, <1>2 DEF HashRings, hashVars
<1>4. HashCounts'
  BY DEF HashIInv, HashCounts, hashVars
<1> QED
  BY <1>3, <1>4 DEF HashIInv

LEMMA HashNextKeepsInv ==
    ASSUME HashIInv, [TableNext \/ ListNext]_hashVars
    PROVE  HashIInv'
<1>1. ASSUME NEW e \in Elements, HashTableInsert(e)
      PROVE  HashIInv'
  BY <1>1, InsertKeepsInv
<1>2. ASSUME NEW e \in Elements, HashTableRemove(KeyOf[e])
      PROVE  HashIInv'
  BY <1>2, RemoveKeepsInv
<1>3. ASSUME NEW clear \in BOOLEAN, HashTableIteratorInit(clear)
      PROVE  HashIInv'
  BY <1>3, IteratorInitKeepsInv
<1> QED
  BY <1>1, <1>2, <1>3, IteratorNextKeepsInv, RemoveVisitedKeepsInv, ListKeepsInv, HashStutters DEF TableNext


----------------------------------------------------------------------------
\* What the rings give

\* The validation of list.c holds on a ring.
LEMMA RingIsValid ==
    ASSUME NEW l, NEW R, Rings(l, R), NEW h \in Heads
    PROVE  \A n \in {h} \cup Range(R[h]) : _ValidateListEntry(l, n)
<1>1. R[h] \in Seq(Elements) /\ Len(R[h]) \in Nat
  BY RingTypes
<1>2. PICK s \in Seq(Elements) : s = R[h]
  BY <1>1
<1>3. \A k \in 0 .. Len(s) : /\ l.Flink[NodeOf(h, s, k)] = NodeOf(h, s, k + 1)
                             /\ l.Blink[NodeOf(h, s, k + 1)] = NodeOf(h, s, k)
  BY <1>2, Neighbours
<1>4. NodeOf(h, s, 0) = h /\ NodeOf(h, s, Len(s) + 1) = h
  BY NodeFacts
<1>5. _ValidateListEntry(l, h)
  <2>1. 0 \in 0 .. Len(s) /\ Len(s) \in 0 .. Len(s)
    OBVIOUS
  <2>2. l.Flink[h] = NodeOf(h, s, 0 + 1) /\ l.Blink[NodeOf(h, s, 0 + 1)] = h
    BY <1>3, <1>4, <2>1
  <2>3. l.Blink[h] = NodeOf(h, s, Len(s)) /\ l.Flink[NodeOf(h, s, Len(s))] = h
    BY <1>3, <1>4, <2>1
  <2> QED
    BY <2>2, <2>3 DEF _ValidateListEntry
<1>6. ASSUME NEW k \in 1 .. Len(s)
      PROVE  _ValidateListEntry(l, s[k])
  <2>1. k \in 0 .. Len(s) /\ k - 1 \in 0 .. Len(s) /\ (k - 1) + 1 = k
    OBVIOUS
  <2>2. NodeOf(h, s, k) = s[k]
    BY DEF NodeOf
  <2>3. l.Flink[s[k]] = NodeOf(h, s, k + 1) /\ l.Blink[NodeOf(h, s, k + 1)] = s[k]
    BY <1>3, <2>1, <2>2
  <2>4. l.Flink[NodeOf(h, s, k - 1)] = NodeOf(h, s, (k - 1) + 1) /\ l.Blink[NodeOf(h, s, (k - 1) + 1)] = NodeOf(h, s, k - 1)
    BY <1>3, <2>1
  <2>5. l.Blink[s[k]] = NodeOf(h, s, k - 1) /\ l.Flink[NodeOf(h, s, k - 1)] = s[k]
    BY <2>1, <2>2, <2>4
  <2> QED
    BY <2>3, <2>5 DEF _ValidateListEntry
<1>7. ASSUME NEW n \in Range(s)
      PROVE  _ValidateListEntry(l, n)
  <2>1. PICK k \in 1 .. Len(s) : n = s[k]
    BY DEF Range
  <2> QED
    BY <1>6, <2>1
<1> QED
  BY <1>2, <1>5, <1>7

LEMMA RingsGiveWhole ==
    ASSUME NEW R, HashRings(R)
    PROVE  RingsAreWhole
<1>1. Rings(links, R)
  BY DEF HashRings
<1> SUFFICES ASSUME NEW h \in Heads
             PROVE  /\ Visited(links.Blink, h) = Reverse(Visited(links.Flink, h))
                    /\ \A n \in {h} \cup Range(Visited(links.Flink, h)) : _ValidateListEntry(links, n)
  BY DEF RingsAreWhole, Heads
<1>2. Visited(links.Flink, h) = R[h] /\ Visited(links.Blink, h) = Reverse(R[h])
  BY <1>1, RingIsVisited
<1>3. \A n \in {h} \cup Range(R[h]) : _ValidateListEntry(links, n)
  BY <1>1, RingIsValid
<1> QED
  BY <1>2, <1>3

LEMMA ChainsGiveTable ==
    ASSUME HashCounts, NEW R, HashRings(R), NEW b \in Buckets
    PROVE  /\ Range(Visited(links.Flink, b)) = {e \in inTable : Index(KeyOf[e]) = b}
           /\ \A m, n \in DOMAIN Visited(links.Flink, b) :
                 m < n => KeyOf[Visited(links.Flink, b)[m]] < KeyOf[Visited(links.Flink, b)[n]]
<1>1. Rings(links, R) /\ Holds(R, IndexOf, inTable) /\ inTable \subseteq Elements
  BY DEF HashRings, HashCounts
<1>2. b \in Heads
  BY BucketFacts
<1>3. PICK s \in Seq(Elements) : s = R[b] /\ s = Visited(links.Flink, b)
  <2>1. R[b] \in Seq(Elements)
    BY <1>1, <1>2, RingTypes
  <2>2. Visited(links.Flink, b) = R[b]
    BY <1>1, <1>2, RingIsVisited
  <2> QED
    BY <2>1, <2>2
<1>4. Increasing(s) /\ \A e \in Elements : (e \in inTable /\ IndexOf[e] = b) <=> \E i \in 1 .. Len(s) : s[i] = e
  <2>1. PICK r : r = s /\ r = R[b]
    BY <1>3
  <2>2. Increasing(r) /\ \A e \in Elements : (e \in inTable /\ IndexOf[e] = b) <=> \E i \in 1 .. Len(r) : r[i] = e
    BY <1>1, <2>1 DEF Holds
  <2> QED
    BY <2>1, <2>2
<1>5. \A e \in Elements : IndexOf[e] = Index(KeyOf[e])
  BY IndexIs
<1>6. ASSUME NEW e \in Range(s)
      PROVE  e \in {x \in inTable : Index(KeyOf[x]) = b}
  <2>1. PICK i \in 1 .. Len(s) : s[i] = e
    BY DEF Range
  <2>2. e \in Elements
    BY <2>1
  <2> QED
    BY <1>4, <1>5, <2>1, <2>2
<1>7. ASSUME NEW e \in {x \in inTable : Index(KeyOf[x]) = b}
      PROVE  e \in Range(s)
  <2>1. e \in Elements /\ e \in inTable /\ IndexOf[e] = b
    BY <1>1, <1>5
  <2>2. PICK i \in 1 .. Len(s) : s[i] = e
    BY <1>4, <2>1
  <2> QED
    BY <2>2 DEF Range
<1>8. \A m, n \in DOMAIN s : m < n => KeyOf[s[m]] < KeyOf[s[n]]
  BY <1>4 DEF Increasing
<1>9. Range(s) = {x \in inTable : Index(KeyOf[x]) = b}
  BY <1>6, <1>7
<1> QED
  BY <1>3, <1>8, <1>9

LEMMA LookupFinds ==
    ASSUME HashCounts, NEW R, HashRings(R), NEW e \in Elements
    PROVE  IF HashTableLookup(KeyOf[e]) = NULL THEN \A x \in inTable : KeyOf[x] # KeyOf[e]
           ELSE HashTableLookup(KeyOf[e]) \in inTable /\ KeyOf[HashTableLookup(KeyOf[e])] = KeyOf[e]
<1>1. PICK ix, T, key : ix = IndexOf /\ T = inTable /\ key = KeyOf[e]
  OBVIOUS
<1>2. Rings(links, R) /\ Holds(R, ix, T) /\ T \subseteq Elements /\ ByKey(ix) /\ key \in Nat
  BY <1>1, IndexIs DEF HashRings, HashCounts
<1>3. PICK b \in Buckets : b = ix[e] /\ b = Index(key)
  BY <1>1, IndexIs DEF ByKey
<1>4. PICK s \in Seq(Elements) : s = R[b]
  BY <1>2, RingTypes, BucketFacts
<1>5. PICK search : search = _HashTableSearchKeyInBucket(key)
  OBVIOUS
<1>6. PICK k \in Nat : Searched(s, b, key, k, search)
  <2>1. Increasing(R[b])
    BY <1>2 DEF Holds
  <2> QED
    BY <1>2, <1>3, <1>4, <1>5, <2>1, SearchFinds
<1>7. PICK d : d = HashTableLookup(key)
  OBVIOUS
<1>8. d = IF search.found THEN search.place ELSE NULL
  BY <1>5, <1>7 DEF HashTableLookup
<1>9. CASE search.found
  <2>1. k \in 1 .. Len(s) /\ KeyOf[s[k]] = key /\ d = s[k]
    BY <1>6, <1>8, <1>9 DEF Searched, NodeOf
  <2>2. d \in Elements /\ d # NULL
    BY <2>1, HashAssumption
  <2>3. d \in T
    BY <1>2, <1>4, <2>1, <2>2, HoldsMembers
  <2> QED
    BY <1>1, <1>7, <2>1, <2>2, <2>3
<1>10. CASE ~search.found
  <2>1. d = NULL /\ \A j \in 1 .. Len(s) : KeyOf[s[j]] # key
    BY <1>6, <1>8, <1>10 DEF Searched
  <2>2. ASSUME NEW x \in T, KeyOf[x] = key
        PROVE  FALSE
    <3>1. ix[x] = b
      <4>1. x \in Elements /\ KeyOf[x] = KeyOf[e]
        BY <1>1, <1>2, <2>2
      <4>2. \A f \in Elements, g \in Elements : KeyOf[f] = KeyOf[g] => ix[f] = ix[g]
        BY <1>2 DEF ByKey
      <4> QED
        BY <1>3, <4>1, <4>2
    <3>2. \A z \in T : ix[z] \in Buckets /\ \E i \in 1 .. Len(R[ix[z]]) : R[ix[z]][i] = z
      BY <1>2, HoldsMembers
    <3>3. PICK i \in 1 .. Len(s) : s[i] = x
      BY <1>4, <3>1, <3>2
    <3> QED
      BY <2>1, <2>2, <3>3
  <2> QED
    BY <1>1, <1>7, <2>1, <2>2
<1> QED
  BY <1>9, <1>10

LEMMA CursorGives ==
    ASSUME HashCounts, NEW R, HashRings(R), it # NULL
    PROVE  it.KeyIndex \in Buckets /\ it.CurrentEntry \in Nodes /\ toVisit \subseteq inTable
<1>1. PICK ix, T, c, v, p : ix = IndexOf /\ T = inTable /\ c = it /\ v = toVisit /\ p = pEntry
  OBVIOUS
<1>2. Rings(links, R) /\ Holds(R, ix, T) /\ T \subseteq Elements /\ ByKey(ix) /\ Cursor(R, ix, T, c, p, v)
  BY <1>1, IndexIs DEF HashRings, HashCounts
<1>3. PICK b \in Buckets : b = c.KeyIndex
  BY <1>2 DEF Cursor
<1>4. b \in Heads
  BY BucketFacts
<1>5. PICK s \in Seq(Elements) : s = R[b] /\ Len(s) \in Nat
  BY <1>2, <1>4, RingTypes
<1>6. PICK n \in 1 .. Len(s) + 1 : c.CurrentEntry = NodeOf(b, s, n) /\ v = Ahead(R, ix, T, b, n)
  BY <1>2, <1>3, <1>5 DEF Cursor
<1>7. n \in Nat /\ \A j \in n .. Len(s) : j \in 1 .. Len(s)
  BY <1>5
<1>8. c.CurrentEntry \in Nodes
  BY <1>4, <1>6, <1>7, NodeFacts
<1>9. StartingAt(s, n) \subseteq T
  <2>1. ASSUME NEW j \in n .. Len(s)
        PROVE  s[j] \in T
    <3>1. j \in 1 .. Len(s) /\ s[j] \in Elements
      BY <1>7
    <3> QED
      BY <1>2, <1>5, <3>1, HoldsMembers
  <2> QED
    BY <2>1 DEF StartingAt
<1>10. v \subseteq T
  BY <1>5, <1>6, <1>9 DEF Ahead, Beyond
<1> QED
  BY <1>1, <1>3, <1>8, <1>10

LEMMA HashIInvGives == HashIInv => HashInv
<1> SUFFICES ASSUME HashIInv
             PROVE  HashInv
  OBVIOUS
<1>1. PICK R : HashRings(R)
  BY DEF HashIInv
<1>2. HashCounts
  BY DEF HashIInv
<1>3. Rings(links, R) /\ R[ListHead] = inList
  BY <1>1 DEF HashRings
<1>4. HashTypeOK
  <2>1. it # NULL => it.KeyIndex \in Buckets /\ it.CurrentEntry \in Nodes
    BY <1>1, <1>2, CursorGives
  <2> QED
    BY <1>2, <1>3, <2>1 DEF HashTypeOK, HashCounts, Rings
<1>5. RingsAreWhole
  BY <1>1, RingsGiveWhole
<1>6. TableIsExact
  <2>1. NumberOfElements = Cardinality(inTable)
    BY <1>2 DEF HashCounts
  <2>2. ASSUME NEW b \in Buckets
        PROVE  /\ Range(Visited(links.Flink, b)) = {e \in inTable : Index(KeyOf[e]) = b}
               /\ \A m, n \in DOMAIN Visited(links.Flink, b) :
                     m < n => KeyOf[Visited(links.Flink, b)[m]] < KeyOf[Visited(links.Flink, b)[n]]
    BY <1>1, <1>2, ChainsGiveTable
  <2>3. ASSUME NEW e \in Elements
        PROVE  IF HashTableLookup(KeyOf[e]) = NULL THEN \A x \in inTable : KeyOf[x] # KeyOf[e]
               ELSE HashTableLookup(KeyOf[e]) \in inTable /\ KeyOf[HashTableLookup(KeyOf[e])] = KeyOf[e]
    BY <1>1, <1>2, LookupFinds
  <2> QED
    BY <2>1, <2>2, <2>3 DEF TableIsExact
<1>7. IterationIsComplete
  <2>1. it # NULL => toVisit \subseteq inTable
    BY <1>1, <1>2, CursorGives
  <2> QED
    BY <1>2, <2>1 DEF HashCounts, IterationIsComplete
<1>8. Visited(links.Flink, ListHead) = inList
  BY <1>3, RingIsVisited, BucketFacts
<1>9. ListSize(links, ListHead) = Len(inList)
  BY <1>8 DEF ListSize
<1> QED
  BY <1>4, <1>5, <1>6, <1>7, <1>8, <1>9 DEF HashInv

\* list.c and hash_table.c, for any elements, keys and either hash function: every list stays a
\* ring in both directions, the chains hold exactly the elements of the table in the order of
\* their keys, a lookup finds an element exactly when one has the key, and an iteration whose
\* caller removes what it was given returns every other element once.
THEOREM HashTableIsCorrect == HashSpec => []HashInv
<1>1. HashIInv /\ [TableNext \/ ListNext]_hashVars => HashIInv'
  BY HashNextKeepsInv
<1> QED
  BY <1>1, HashInitIInv, HashIInvGives, PTL DEF HashSpec

=============================================================================
