------------------------------ MODULE Io_proofs ------------------------------
(***************************************************************************)
(* Proofs about the devices, for any number of callers, CPUs, requests,    *)
(* sectors, descriptors and frames, and for any layout of the keys, length *)
(* of a line and size of the history.                                      *)
(*                                                                         *)
(* Storage: the DeviceLocks of a request nest; and on a channel with one   *)
(* drive no ASSERT on the transfer fails and a request moves exactly the   *)
(* sectors it names.  Network: the frames leave in the order in which they *)
(* were accepted as long as the ring is not overrun (NetworkTx), and       *)
(* arrive in the order in which the card stored them as long as interrupt  *)
(* handlers do not compete (NetworkRx).  Console: a press is read once,    *)
(* and as the key it was unless handlers overlapped (Keyboard); the line   *)
(* is a string with its terminator and what a user expects of the keys,    *)
(* and the history is the last commands (CommandLine).                     *)
(***************************************************************************)
EXTENDS Storage, NetworkTx, NetworkRx, CommandLine, FiniteSetTheorems, SequenceTheorems, WellFoundedInduction, TLAPS

----------------------------------------------------------------------------
\* Recursion over numbers

\* Every set of numbers has a least element.
LEMMA LeastOf ==
    ASSUME NEW T, T \subseteq Nat, T # {}
    PROVE  \E x \in T : \A y \in T : x <= y
<1> DEFINE R == {ss \in Nat \X Nat : ss[1] < ss[2]}
<1>1. IsWellFoundedOn(R, Nat)
  BY NatLessThanWellFounded DEF OpToRel
<1> HIDE DEF R
<1>2. PICK x \in T : \A y \in T : ~ (<<y, x>> \in R)
  BY <1>1, WFMin
<1>3. ASSUME NEW y \in T
      PROVE  x <= y
  <2>1. x \in Nat /\ y \in Nat /\ <<y, x>> \notin R
    BY <1>2
  <2>2. ~(y < x)
    BY <2>1 DEF R
  <2> QED
    BY <2>1, <2>2
<1> QED
  BY <1>3

\* What holds at 0 and is handed on holds everywhere.
LEMMA UpTo ==
    ASSUME NEW n \in Nat, NEW S, 0 \in S, \A i \in 1 .. n : i - 1 \in S => i \in S
    PROVE  0 .. n \subseteq S
<1> DEFINE Bad == {i \in 0 .. n : i \notin S}
<1>1. SUFFICES ASSUME Bad # {}
               PROVE  FALSE
  OBVIOUS
<1>2. PICK i \in Bad : \A j \in Bad : i <= j
  <2>1. Bad \subseteq Nat
    OBVIOUS
  <2> QED
    BY <1>1, <2>1, LeastOf
<1>3. i \in 1 .. n /\ i - 1 \in 0 .. n /\ i - 1 \in S
  BY <1>2
<1> QED
  BY <1>2, <1>3

\* A recursion over numbers has a solution.
HasSolution(S, base, n, next) ==
    \E g \in [0 .. n -> S] : g[0] = base /\ \A i \in 1 .. n : g[i] = next[<<i, g[i - 1]>>]

LEMMA Recursion ==
    ASSUME NEW S, NEW base \in S, NEW n \in Nat, NEW next \in [(1 .. n) \X S -> S]
    PROVE  HasSolution(S, base, n, next)
<1> DEFINE Solves(g, k) == g[0] = base /\ \A i \in 1 .. k : g[i] = next[<<i, g[i - 1]>>]
           Good == {k \in 0 .. n : \E g \in [0 .. k -> S] : Solves(g, k)}
<1>1. 0 \in Good
  <2>1. [i \in 0 .. 0 |-> base] \in [0 .. 0 -> S] /\ Solves([i \in 0 .. 0 |-> base], 0)
    OBVIOUS
  <2>2. 0 \in 0 .. n
    OBVIOUS
  <2> QED
    BY <2>1, <2>2
<1>2. ASSUME NEW k \in 1 .. n, k - 1 \in Good
      PROVE  k \in Good
  <2>1. PICK g \in [0 .. k - 1 -> S] : Solves(g, k - 1)
    BY <1>2
  <2>2. PICK h : h = [i \in 0 .. k |-> IF i = k THEN next[<<k, g[k - 1]>>] ELSE g[i]]
    OBVIOUS
  <2>3. k \in Nat /\ k - 1 \in 0 .. k - 1 /\ next[<<k, g[k - 1]>>] \in S
    <3>1. k \in Nat /\ k - 1 \in 0 .. k - 1
      OBVIOUS
    <3>2. g[k - 1] \in S
      BY <2>1, <3>1
    <3>3. <<k, g[k - 1]>> \in (1 .. n) \X S
      BY <3>2
    <3> QED
      BY <3>1, <3>3
  <2>4. h \in [0 .. k -> S]
    BY <2>2, <2>3
  <2>5. \A i \in 0 .. k - 1 : h[i] = g[i]
    BY <2>2, <2>3
  <2>6. h[k] = next[<<k, h[k - 1]>>]
    <3>1. k \in 0 .. k
      BY <2>3
    <3>2. h[k] = next[<<k, g[k - 1]>>]
      BY <2>2, <3>1
    <3>3. h[k - 1] = g[k - 1]
      BY <2>3, <2>5
    <3> QED
      BY <3>2, <3>3
  <2>7. ASSUME NEW i \in 1 .. k
        PROVE  h[i] = next[<<i, h[i - 1]>>]
    <3>1. CASE i = k
      BY <2>6, <3>1
    <3>2. CASE i # k
      <4>1. i \in 1 .. k - 1 /\ i \in 0 .. k - 1 /\ i - 1 \in 0 .. k - 1
        BY <2>3, <3>2
      <4> QED
        BY <2>1, <2>5, <4>1
    <3> QED
      BY <3>1, <3>2
  <2>8. h[0] = base
    BY <2>1, <2>3, <2>5
  <2> QED
    BY <2>4, <2>7, <2>8
<1>3. n \in Good
  <2> HIDE DEF Good
  <2>1. 0 .. n \subseteq Good
    BY <1>1, <1>2, UpTo
  <2> QED
    BY <2>1
<1> QED
  BY <1>3 DEF HasSolution

----------------------------------------------------------------------------
\* The table of the bus master

Entries == [address : Nat, bytes : Nat]

LEMMA AddressesAre ==
    ASSUME NEW a \in Nat, NEW n \in Nat
    PROVE  /\ AddressesFrom(a, n) \in Seq(Nat) /\ Len(AddressesFrom(a, n)) = n
           /\ \A j \in 1 .. n : AddressesFrom(a, n)[j] = a + j - 1
<1>1. AddressesFrom(a, n) \in [1 .. n -> Nat] /\ \A j \in 1 .. n : AddressesFrom(a, n)[j] = a + j - 1
  BY DEF AddressesFrom
<1> QED
  BY <1>1

\* BytesUpTo unfolds as it is written.
LEMMA BytesUnfold ==
    ASSUME NEW e \in Seq(Entries)
    PROVE  /\ BytesUpTo(e) \in [0 .. Len(e) -> Seq(Nat)]
           /\ BytesUpTo(e)[0] = <<>>
           /\ \A i \in 1 .. Len(e) :
                  BytesUpTo(e)[i] = BytesUpTo(e)[i - 1] \o AddressesFrom(e[i].address, e[i].bytes)
<1> DEFINE n == Len(e)
           From(i) == AddressesFrom(e[i].address, e[i].bytes)
           next == [x \in (1 .. n) \X Seq(Nat) |-> x[2] \o From(x[1])]
           Body(f) == [i \in 0 .. n |-> IF i = 0 THEN <<>> ELSE f[i - 1] \o From(i)]
           bytes == CHOOSE f : f = Body(f)
<1>1. n \in Nat /\ <<>> \in Seq(Nat) /\ \A i \in 1 .. n : e[i].address \in Nat /\ e[i].bytes \in Nat
  <2>1. \A i \in 1 .. n : e[i] \in Entries
    OBVIOUS
  <2> QED
    BY <2>1 DEF Entries
<1>2. \A i \in 1 .. n : From(i) \in Seq(Nat)
  BY <1>1, AddressesAre
<1> HIDE DEF From
<1>3. next \in [(1 .. n) \X Seq(Nat) -> Seq(Nat)]
  <2>1. ASSUME NEW x \in (1 .. n) \X Seq(Nat)
        PROVE  x[2] \o From(x[1]) \in Seq(Nat)
    <3>1. x[1] \in 1 .. n /\ x[2] \in Seq(Nat)
      OBVIOUS
    <3>2. PICK a \in Seq(Nat), b \in Seq(Nat) : a = x[2] /\ b = From(x[1])
      BY <1>2, <3>1
    <3> QED
      BY <3>2, ConcatProperties
  <2> QED
    BY <2>1
<1>4. PICK g \in [0 .. n -> Seq(Nat)] : g[0] = <<>> /\ \A i \in 1 .. n : g[i] = next[<<i, g[i - 1]>>]
  <2>1. PICK S, base : S = Seq(Nat) /\ base = <<>>
    OBVIOUS
  <2> HIDE DEF next, n
  <2>3. base \in S /\ n \in Nat /\ next \in [(1 .. n) \X S -> S]
    BY <1>1, <1>3, <2>1
  <2>2. HasSolution(S, base, n, next)
    BY <2>3, Recursion
  <2> QED
    BY <2>1, <2>2 DEF HasSolution
<1>5. ASSUME NEW i \in 1 .. n
      PROVE  g[i] = g[i - 1] \o From(i)
  <2>1. i - 1 \in 0 .. n
    BY <1>1
  <2> QED
    BY <1>4, <2>1
<1>6. g = Body(g)
  <2>1. \A i \in 0 .. n : i # 0 => i \in 1 .. n
    BY <1>1
  <2>2. \A i \in 0 .. n : g[i] = IF i = 0 THEN <<>> ELSE g[i - 1] \o From(i)
    BY <1>4, <1>5, <2>1
  <2> QED
    BY <2>2
<1>7. bytes = Body(bytes)
  <2> HIDE DEF Body
  <2> QED
    BY <1>6
<1>8. BytesUpTo(e) = bytes
  BY DEF BytesUpTo, From
<1> HIDE DEF bytes
<1>9. /\ bytes[0] = <<>>
      /\ \A i \in 1 .. n : bytes[i] = bytes[i - 1] \o From(i)
      /\ DOMAIN bytes = 0 .. n
  <2>1. \A i \in 1 .. n : i \in 0 .. n /\ i # 0
    BY <1>1
  <2>2. 0 \in 0 .. n
    BY <1>1
  <2> QED
    BY <1>7, <2>1, <2>2
<1>10. \A i \in 0 .. n : bytes[i] \in Seq(Nat)
  <2> DEFINE S == {i \in 0 .. n : bytes[i] \in Seq(Nat)}
  <2>1. 0 \in S
    <3>1. 0 \in 0 .. n
      BY <1>1
    <3>2. bytes[0] \in Seq(Nat)
      BY <1>1, <1>9, Zenon
    <3> QED
      BY <3>1, <3>2
  <2>2. ASSUME NEW i \in 1 .. n, i - 1 \in S
        PROVE  i \in S
    <3>1. PICK a \in Seq(Nat), b \in Seq(Nat) : a = bytes[i - 1] /\ b = From(i)
      BY <1>2, <2>2
    <3>2. bytes[i] = a \o b
      BY <1>9, <2>2, <3>1
    <3>3. a \o b \in Seq(Nat)
      BY <3>1, ConcatProperties
    <3>4. i \in 0 .. n
      BY <1>1
    <3>5. bytes[i] \in Seq(Nat)
      BY <3>2, <3>3
    <3> QED
      BY <3>4, <3>5
  <2> HIDE DEF S
  <2>3. 0 .. n \subseteq S
    BY <1>1, <2>1, <2>2, UpTo
  <2> QED
    BY <2>3 DEF S
<1>11. bytes = [i \in 0 .. n |-> bytes[i]]
  BY <1>7
<1>12. bytes \in [0 .. n -> Seq(Nat)]
  BY <1>10, <1>11
<1> QED
  BY <1>8, <1>9, <1>12 DEF From

\* What a round of the loop starts from.
Rounds == [remaining : Nat, table : Seq(Entries)]

\* The bytes from an address to the next boundary.
ToBoundary(a) == ATA_DMA_PHYSICAL_BOUNDARY - (a % ATA_DMA_PHYSICAL_BOUNDARY)

LEMMA PrdEntriesAre ==
    ASSUME NEW a \in Nat, NEW n \in Nat
    PROVE  /\ ToBoundary(a) \in Nat \ {0} /\ (n > ToBoundary(a) => n - ToBoundary(a) \in Nat \ {0})
           /\ n <= ToBoundary(a) => PrdEntries(a, n) = <<[address |-> a, bytes |-> n]>>
           /\ n > ToBoundary(a) =>
                  PrdEntries(a, n) = <<[address |-> a, bytes |-> ToBoundary(a)],
                                       [address |-> a + ToBoundary(a), bytes |-> n - ToBoundary(a)]>>
           /\ PrdEntries(a, n) \in Seq(Entries)
<1>1. ToBoundary(a) \in Nat \ {0} /\ (n > ToBoundary(a) => n - ToBoundary(a) \in Nat \ {0})
  <2>1. PICK B \in Nat \ {0} : B = ATA_DMA_PHYSICAL_BOUNDARY
    BY StorageAssumption
  <2>2. a % B \in 0 .. B - 1
    OBVIOUS
  <2>3. ToBoundary(a) = B - (a % B)
    BY <2>1 DEF ToBoundary
  <2>4. ToBoundary(a) \in Nat \ {0}
    BY <2>2, <2>3
  <2> QED
    BY <2>4
<1>2. n <= ToBoundary(a) => PrdEntries(a, n) = <<[address |-> a, bytes |-> n]>>
  BY DEF PrdEntries, ToBoundary
<1>3. n > ToBoundary(a) =>
          PrdEntries(a, n) = <<[address |-> a, bytes |-> ToBoundary(a)],
                               [address |-> a + ToBoundary(a), bytes |-> n - ToBoundary(a)]>>
  <2>1. n > ToBoundary(a) => ~(n <= ToBoundary(a))
    BY <1>1
  <2> QED
    BY <2>1 DEF PrdEntries, ToBoundary
<1>4. PrdEntries(a, n) \in Seq(Entries)
  <2>1. CASE n <= ToBoundary(a)
    <3>1. PICK x \in Entries : x = [address |-> a, bytes |-> n]
      BY DEF Entries
    <3>2. <<x>> \in Seq(Entries)
      OBVIOUS
    <3> QED
      BY <1>2, <2>1, <3>1, <3>2
  <2>2. CASE n > ToBoundary(a)
    <3>1. ToBoundary(a) \in Nat /\ n - ToBoundary(a) \in Nat /\ a + ToBoundary(a) \in Nat
      BY <1>1, <2>2
    <3>2. PICK x \in Entries, y \in Entries :
              x = [address |-> a, bytes |-> ToBoundary(a)] /\ y = [address |-> a + ToBoundary(a), bytes |-> n - ToBoundary(a)]
      BY <3>1 DEF Entries
    <3>3. <<x, y>> \in Seq(Entries)
      OBVIOUS
    <3> QED
      BY <1>3, <2>2, <3>2, <3>3
  <2> QED
    BY <1>1, <2>1, <2>2
<1> QED
  BY <1>1, <1>2, <1>3, <1>4

LEMMA TakePairType ==
    ASSUME NEW s \in Rounds, NEW p \in Entries
    PROVE  TakePair(s, p) \in Rounds
<1> DEFINE n == IF p.bytes < s.remaining THEN p.bytes ELSE s.remaining
<1>1. n \in Nat /\ s.remaining - n \in Nat /\ p.address \in Nat /\ s.table \in Seq(Entries)
  BY DEF Rounds, Entries
<1>2. PICK a \in Seq(Entries), b \in Seq(Entries) : a = s.table /\ b = PrdEntries(p.address, n)
  <2> HIDE DEF n
  <2> QED
    BY <1>1, PrdEntriesAre
<1>3. s.table \o PrdEntries(p.address, n) \in Seq(Entries)
  BY <1>2, ConcatProperties
<1>4. TakePair(s, p) = [remaining |-> s.remaining - n, table |-> s.table \o PrdEntries(p.address, n)]
  BY DEF TakePair
<1> HIDE DEF n
<1> QED
  BY <1>1, <1>3, <1>4 DEF Rounds

\* TableUpTo unfolds as it is written.
LEMMA TableUnfold ==
    ASSUME NEW e \in Seq(Entries), NEW b \in Nat
    PROVE  /\ TableUpTo(e, b) \in [0 .. Len(e) -> Rounds]
           /\ TableUpTo(e, b)[0] = [remaining |-> b, table |-> <<>>]
           /\ \A i \in 1 .. Len(e) : TableUpTo(e, b)[i] = TakePair(TableUpTo(e, b)[i - 1], e[i])
<1> DEFINE n == Len(e)
           base == [remaining |-> b, table |-> <<>>]
           next == [x \in (1 .. n) \X Rounds |-> TakePair(x[2], e[x[1]])]
           Body(f) == [i \in 0 .. n |-> IF i = 0 THEN base ELSE TakePair(f[i - 1], e[i])]
           table == CHOOSE f : f = Body(f)
<1>1. n \in Nat /\ base \in Rounds /\ \A i \in 1 .. n : e[i] \in Entries
  BY DEF Rounds
<1> HIDE DEF base
<1>3. next \in [(1 .. n) \X Rounds -> Rounds]
  <2>1. ASSUME NEW x \in (1 .. n) \X Rounds
        PROVE  TakePair(x[2], e[x[1]]) \in Rounds
    <3>1. x[1] \in 1 .. n /\ x[2] \in Rounds
      OBVIOUS
    <3> QED
      BY <1>1, <3>1, TakePairType
  <2> QED
    BY <2>1
<1>4. PICK g \in [0 .. n -> Rounds] : g[0] = base /\ \A i \in 1 .. n : g[i] = next[<<i, g[i - 1]>>]
  <2>1. HasSolution(Rounds, base, n, next)
    <3> HIDE DEF next, n
    <3> QED
      BY <1>1, <1>3, Recursion
  <2> QED
    BY <2>1 DEF HasSolution
<1>5. ASSUME NEW i \in 1 .. n
      PROVE  g[i] = TakePair(g[i - 1], e[i])
  <2>1. i - 1 \in 0 .. n
    BY <1>1
  <2>2. <<i, g[i - 1]>> \in (1 .. n) \X Rounds
    BY <2>1
  <2> QED
    BY <1>4, <2>2
<1>6. g = Body(g)
  <2>1. \A i \in 0 .. n : i # 0 => i \in 1 .. n
    BY <1>1
  <2>2. \A i \in 0 .. n : g[i] = IF i = 0 THEN base ELSE TakePair(g[i - 1], e[i])
    BY <1>4, <1>5, <2>1
  <2> QED
    BY <2>2
<1>7. table = Body(table)
  <2> HIDE DEF Body
  <2> QED
    BY <1>6
<1>8. TableUpTo(e, b) = table
  BY DEF TableUpTo, base
<1> HIDE DEF table
<1>9. /\ table[0] = base
      /\ \A i \in 1 .. n : table[i] = TakePair(table[i - 1], e[i])
      /\ DOMAIN table = 0 .. n
  <2>1. \A i \in 1 .. n : i \in 0 .. n /\ i # 0
    BY <1>1
  <2>2. 0 \in 0 .. n
    BY <1>1
  <2> QED
    BY <1>7, <2>1, <2>2
<1>10. \A i \in 0 .. n : table[i] \in Rounds
  <2> DEFINE S == {i \in 0 .. n : table[i] \in Rounds}
  <2>1. 0 \in S
    BY <1>1, <1>9
  <2>2. ASSUME NEW i \in 1 .. n, i - 1 \in S
        PROVE  i \in S
    <3>1. table[i] \in Rounds
      BY <1>1, <1>9, <2>2, TakePairType
    <3>2. i \in 0 .. n
      BY <1>1
    <3> QED
      BY <3>1, <3>2
  <2> HIDE DEF S
  <2>3. 0 .. n \subseteq S
    BY <1>1, <2>1, <2>2, UpTo
  <2> QED
    BY <2>3 DEF S
<1>11. table = [i \in 0 .. n |-> table[i]]
  BY <1>7
<1>12. table \in [0 .. n -> Rounds]
  BY <1>10, <1>11
<1> QED
  BY <1>8, <1>9, <1>12 DEF base

\* One entry more is its bytes more.
LEMMA BytesOfAppend ==
    ASSUME NEW e \in Seq(Entries), NEW x \in Entries
    PROVE  /\ Append(e, x) \in Seq(Entries)
           /\ Bytes(Append(e, x)) = Bytes(e) \o AddressesFrom(x.address, x.bytes)
<1>1. PICK w \in Seq(Entries) : w = Append(e, x)
  BY AppendProperties
<1>2. /\ Len(e) \in Nat /\ Len(w) = Len(e) + 1 /\ w[Len(e) + 1] = x
      /\ \A i \in 1 .. Len(e) : w[i] = e[i]
  BY <1>1, AppendProperties
<1>3. PICK u, v : u = BytesUpTo(e) /\ v = BytesUpTo(w)
  OBVIOUS
<1>4. /\ u[0] = <<>> /\ v[0] = <<>>
      /\ \A i \in 1 .. Len(e) : u[i] = u[i - 1] \o AddressesFrom(e[i].address, e[i].bytes)
      /\ \A i \in 1 .. Len(w) : v[i] = v[i - 1] \o AddressesFrom(w[i].address, w[i].bytes)
  BY <1>3, BytesUnfold
<1>5. v[Len(e)] = u[Len(e)]
  <2> DEFINE S == {i \in 0 .. Len(e) : v[i] = u[i]}
  <2>1. 0 \in S
    BY <1>2, <1>4
  <2>2. ASSUME NEW i \in 1 .. Len(e), i - 1 \in S
        PROVE  i \in S
    <3>1. i \in 1 .. Len(w) /\ i \in 0 .. Len(e)
      BY <1>2
    <3>2. v[i - 1] = u[i - 1] /\ w[i] = e[i]
      BY <1>2, <2>2
    <3>3. v[i] = u[i]
      BY <1>4, <3>1, <3>2
    <3> QED
      BY <3>1, <3>3
  <2> HIDE DEF S
  <2>3. 0 .. Len(e) \subseteq S
    BY <1>2, <2>1, <2>2, UpTo
  <2>4. Len(e) \in 0 .. Len(e)
    BY <1>2
  <2> QED
    BY <2>3, <2>4 DEF S
<1>6. v[Len(w)] = v[Len(e)] \o AddressesFrom(x.address, x.bytes)
  <2>1. Len(w) \in 1 .. Len(w) /\ Len(w) - 1 = Len(e) /\ w[Len(w)] = x
    BY <1>2
  <2> QED
    BY <1>4, <2>1
<1> QED
  BY <1>1, <1>3, <1>5, <1>6 DEF Bytes

LEMMA AddressesJoin ==
    ASSUME NEW a \in Nat, NEW k \in Nat, NEW m \in Nat
    PROVE  AddressesFrom(a, k) \o AddressesFrom(a + k, m) = AddressesFrom(a, k + m)
<1>1. PICK s \in Seq(Nat), t \in Seq(Nat), u \in Seq(Nat) :
          s = AddressesFrom(a, k) /\ t = AddressesFrom(a + k, m) /\ u = AddressesFrom(a, k + m)
  <2>1. k + m \in Nat /\ a + k \in Nat
    OBVIOUS
  <2> QED
    BY <2>1, AddressesAre
<1>2. /\ Len(s) = k /\ Len(t) = m /\ Len(u) = k + m
      /\ \A j \in 1 .. k : s[j] = a + j - 1
      /\ \A j \in 1 .. m : t[j] = a + k + j - 1
      /\ \A j \in 1 .. k + m : u[j] = a + j - 1
  <2>1. k + m \in Nat /\ a + k \in Nat
    OBVIOUS
  <2>2. Len(u) = k + m /\ \A j \in 1 .. k + m : u[j] = a + j - 1
    BY <1>1, <2>1, AddressesAre
  <2>3. Len(t) = m /\ \A j \in 1 .. m : t[j] = a + k + j - 1
    BY <1>1, <2>1, AddressesAre
  <2>4. Len(s) = k /\ \A j \in 1 .. k : s[j] = a + j - 1
    BY <1>1, AddressesAre
  <2> QED
    BY <2>2, <2>3, <2>4
<1>3. PICK w \in Seq(Nat) : w = s \o t
  BY ConcatProperties
<1>4. /\ Len(w) = k + m
      /\ \A j \in 1 .. k + m : w[j] = IF j <= k THEN s[j] ELSE t[j - k]
  BY <1>2, <1>3, ConcatProperties
<1>5. \A j \in 1 .. Len(w) : w[j] = u[j]
  <2> TAKE j \in 1 .. Len(w)
  <2>1. CASE j <= k
    BY <1>2, <1>4, <2>1
  <2>2. CASE j > k
    <3>1. j - k \in 1 .. m /\ ~(j <= k) /\ j \in 1 .. k + m
      BY <1>4, <2>2
    <3>2. w[j] = t[j - k] /\ t[j - k] = a + k + (j - k) - 1
      BY <1>2, <1>4, <3>1
    <3> QED
      BY <1>2, <3>1, <3>2
  <2> QED
    BY <2>1, <2>2
<1>6. w = u
  BY <1>2, <1>4, <1>5, SeqEqual
<1> QED
  BY <1>1, <1>3, <1>6

\* The entries that a round adds name the bytes it takes.
LEMMA BytesOfRound ==
    ASSUME NEW e \in Seq(Entries), NEW a \in Nat, NEW n \in Nat
    PROVE  /\ e \o PrdEntries(a, n) \in Seq(Entries)
           /\ Bytes(e \o PrdEntries(a, n)) = Bytes(e) \o AddressesFrom(a, n)
<1>1. CASE n <= ToBoundary(a)
  <2>1. PICK x \in Entries : x = [address |-> a, bytes |-> n]
    BY DEF Entries
  <2>2. PrdEntries(a, n) = <<x>>
    BY <1>1, <2>1, PrdEntriesAre
  <2>3. e \o PrdEntries(a, n) = Append(e, x)
    BY <2>2, AppendIsConcat
  <2> QED
    BY <2>1, <2>3, BytesOfAppend
<1>2. CASE n > ToBoundary(a)
  <2>1. ToBoundary(a) \in Nat /\ n - ToBoundary(a) \in Nat
    BY <1>2, PrdEntriesAre
  <2>2. PrdEntries(a, n) = <<[address |-> a, bytes |-> ToBoundary(a)],
                             [address |-> a + ToBoundary(a), bytes |-> n - ToBoundary(a)]>>
    BY <1>2, PrdEntriesAre
  <2>3. PICK k \in Nat, m \in Nat : k = ToBoundary(a) /\ m = n - ToBoundary(a)
    BY <2>1
  <2>4. k + m = n
    BY <2>1, <2>3
  <2>5. PICK x \in Entries, y \in Entries :
            x = [address |-> a, bytes |-> k] /\ y = [address |-> a + k, bytes |-> m]
    <3>1. a + k \in Nat
      OBVIOUS
    <3> QED
      BY <3>1 DEF Entries
  <2>6. PrdEntries(a, n) = <<x, y>>
    BY <2>2, <2>3, <2>5
  <2>7. PICK f \in Seq(Entries) : f = Append(e, x) /\ Bytes(f) = Bytes(e) \o AddressesFrom(a, k)
    BY <2>5, BytesOfAppend
  <2>8. /\ Append(f, y) \in Seq(Entries)
        /\ Bytes(Append(f, y)) = Bytes(f) \o AddressesFrom(a + k, m)
    BY <2>5, BytesOfAppend
  <2>9. e \o <<x, y>> = Append(f, y)
    BY <2>7
  <2>10. (Bytes(e) \o AddressesFrom(a, k)) \o AddressesFrom(a + k, m) = Bytes(e) \o AddressesFrom(a, n)
    <3>1. Bytes(e) \in Seq(Nat)
      <4>1. Len(e) \in 0 .. Len(e)
        OBVIOUS
      <4> QED
        BY <4>1, BytesUnfold DEF Bytes
    <3>2. PICK p \in Seq(Nat), q \in Seq(Nat), r \in Seq(Nat) :
              p = Bytes(e) /\ q = AddressesFrom(a, k) /\ r = AddressesFrom(a + k, m)
      <4>1. a + k \in Nat
        OBVIOUS
      <4> QED
        BY <3>1, <4>1, AddressesAre
    <3>3. (p \o q) \o r = p \o (q \o r)
      BY ConcatAssociative
    <3>4. q \o r = AddressesFrom(a, n)
      BY <2>4, <3>2, AddressesJoin
    <3> QED
      BY <3>2, <3>3, <3>4
  <2> QED
    BY <2>6, <2>7, <2>8, <2>9, <2>10
<1> QED
  <2>1. ToBoundary(a) \in Nat
    BY PrdEntriesAre
  <2> QED
    BY <1>1, <1>2, <2>1

\* An entry is neither empty nor crosses the boundary of the bus master.
Sound(x) == /\ x.bytes > 0
            /\ x.address \div ATA_DMA_PHYSICAL_BOUNDARY
                   = (x.address + x.bytes - 1) \div ATA_DMA_PHYSICAL_BOUNDARY

LEMMA Quotient ==
    ASSUME NEW B \in Nat \ {0}, NEW q \in Nat, NEW m \in 0 .. B - 1
    PROVE  (q * B + m) \div B = q
<1>1. PICK x \in Nat : x = q * B
  OBVIOUS
<1>2. PICK c \in Nat, d \in 0 .. B - 1 : c = (x + m) \div B /\ x + m = B * c + d
  <2>1. x + m \in Nat
    OBVIOUS
  <2>2. \A z \in Nat : z \div B \in Nat /\ z % B \in 0 .. B - 1 /\ z = B * (z \div B) + (z % B)
    OBVIOUS
  <2> QED
    BY <2>1, <2>2
<1>3. c = q
  <2>1. B * (c - q) = m - d
    BY <1>1, <1>2
  <2>2. c > q => B * (c - q) >= B
    OBVIOUS
  <2>3. c < q => B * (c - q) <= -B
    OBVIOUS
  <2> QED
    BY <1>2, <2>1, <2>2, <2>3
<1> QED
  BY <1>1, <1>2, <1>3

LEMMA PrdEntriesSound ==
    ASSUME NEW a \in Nat, NEW n \in Nat \ {0}, n <= ATA_DMA_PHYSICAL_BOUNDARY
    PROVE  \A i \in DOMAIN PrdEntries(a, n) : Sound(PrdEntries(a, n)[i])
<1>1. PICK B \in Nat \ {0} : B = ATA_DMA_PHYSICAL_BOUNDARY
  BY StorageAssumption
<1>2. PICK q \in Nat, m \in 0 .. B - 1 : a = q * B + m /\ m = a % B
  <2>1. \A z \in Nat : z \div B \in Nat /\ z % B \in 0 .. B - 1 /\ z = (z \div B) * B + (z % B)
    OBVIOUS
  <2> QED
    BY <2>1
<1>3. PICK z \in Nat : z = q * B
  OBVIOUS
<1>4. a = z + m
  BY <1>2, <1>3
<1>5. n \in Nat /\ n > 0 /\ n <= B
  BY <1>1
<1>6. PICK f \in Nat : f = ToBoundary(a) /\ f = B - m
  BY <1>1, <1>2, PrdEntriesAre DEF ToBoundary
<1>7. a \div B = q
  BY <1>2, Quotient
<1>8. CASE n <= f
  <2>1. m + n - 1 \in 0 .. B - 1 /\ a + n - 1 = z + (m + n - 1)
    BY <1>4, <1>5, <1>6, <1>8
  <2>2. (a + n - 1) \div B = q
    BY <1>3, <2>1, Quotient
  <2>3. PICK x : x = [address |-> a, bytes |-> n]
    OBVIOUS
  <2>4. Sound(x)
    BY <1>1, <1>7, <2>2, <2>3 DEF Sound
  <2>5. PrdEntries(a, n) = <<x>>
    <3>1. n <= ToBoundary(a)
      BY <1>6, <1>8
    <3> QED
      BY <1>5, <2>3, <3>1, PrdEntriesAre
  <2> QED
    BY <2>4, <2>5
<1>9. CASE n > f
  <2>1. PICK x, y : x = [address |-> a, bytes |-> f] /\ y = [address |-> a + f, bytes |-> n - f]
    OBVIOUS
  <2>2. PrdEntries(a, n) = <<x, y>>
    BY <1>5, <1>6, <1>9, <2>1, PrdEntriesAre
  <2>3. Sound(x)
    <3>1. m + f - 1 \in 0 .. B - 1 /\ a + f - 1 = z + (m + f - 1) /\ f > 0
      <4>1. f = B - m
        BY <1>6
      <4>2. m + f - 1 = B - 1 /\ f > 0
        BY <4>1
      <4>3. B - 1 \in 0 .. B - 1 /\ a + f - 1 = z + (m + f - 1)
        BY <1>4
      <4> QED
        BY <4>2, <4>3
    <3>2. (a + f - 1) \div B = q
      BY <1>3, <3>1, Quotient
    <3> QED
      BY <1>1, <1>7, <2>1, <3>1, <3>2 DEF Sound
  <2>4. Sound(y)
    <3>1. PICK r \in Nat : r = q + 1
      OBVIOUS
    <3>2. PICK y1 \in Nat : y1 = r * B /\ y1 = z + B
      BY <1>3, <3>1
    <3>3. /\ n - f - 1 \in 0 .. B - 1 /\ n - f > 0 /\ 0 \in 0 .. B - 1
          /\ a + f = y1 + 0 /\ a + f + (n - f) - 1 = y1 + (n - f - 1)
      <4>1. y1 = z + B
        BY <3>2
      <4> QED
        BY <1>4, <1>5, <1>6, <1>9, <4>1
    <3>4. (a + f) \div B = r /\ (a + f + (n - f) - 1) \div B = r
      BY <3>2, <3>3, Quotient
    <3> QED
      BY <1>1, <2>1, <3>3, <3>4 DEF Sound
  <2> QED
    BY <2>2, <2>3, <2>4
<1> QED
  BY <1>6, <1>8, <1>9

\* The bytes of fewer entries are not more.
LEMMA LengthsGrow ==
    ASSUME NEW e \in Seq(Entries), NEW m \in 0 .. Len(e), NEW i \in 0 .. m
    PROVE  Len(BytesUpTo(e)[i]) \in Nat /\ Len(BytesUpTo(e)[i]) <= Len(BytesUpTo(e)[m])
<1>1. PICK n \in Nat : n = Len(e)
  OBVIOUS
<1>2. PICK L \in [0 .. n -> Nat] : \A k \in 0 .. n : L[k] = Len(BytesUpTo(e)[k])
  <2>1. \A k \in 0 .. n : Len(BytesUpTo(e)[k]) \in Nat
    BY <1>1, BytesUnfold
  <2>2. [k \in 0 .. n |-> Len(BytesUpTo(e)[k])] \in [0 .. n -> Nat]
    BY <2>1
  <2> QED
    BY <2>2
<1>3. ASSUME NEW k \in 1 .. n
      PROVE  L[k] = L[k - 1] + e[k].bytes /\ e[k].bytes \in Nat
  <2>1. e[k] \in Entries
    BY <1>1
  <2>2. e[k].bytes \in Nat /\ e[k].address \in Nat /\ k - 1 \in 0 .. n /\ k \in 0 .. n
    BY <2>1 DEF Entries
  <2>3. PICK p \in Seq(Nat), q \in Seq(Nat) :
            p = BytesUpTo(e)[k - 1] /\ q = AddressesFrom(e[k].address, e[k].bytes)
    BY <1>1, <2>2, BytesUnfold, AddressesAre
  <2>4. Len(q) = e[k].bytes
    BY <2>2, <2>3, AddressesAre
  <2>5. BytesUpTo(e)[k] = p \o q
    BY <1>1, <2>3, BytesUnfold
  <2>6. Len(p \o q) = Len(p) + Len(q)
    BY ConcatProperties
  <2> QED
    BY <1>2, <2>2, <2>3, <2>4, <2>5, <2>6
<1>4. DEFINE S == {k \in 0 .. m : L[m - k] <= L[m]}
<1>5. m \in Nat /\ m <= n
  BY <1>1
<1>6. 0 .. m \subseteq S
  <2>1. 0 \in S
    BY <1>5
  <2>2. ASSUME NEW k \in 1 .. m, k - 1 \in S
        PROVE  k \in S
    <3>1. m - k + 1 \in 1 .. n /\ (m - k + 1) - 1 = m - k /\ m - (k - 1) = m - k + 1
          /\ m - k \in 0 .. n /\ m - k + 1 \in 0 .. n /\ k \in 0 .. m /\ m \in 0 .. n
      BY <1>5
    <3>2. L[m - k + 1] = L[m - k] + e[m - k + 1].bytes /\ e[m - k + 1].bytes \in Nat
      BY <1>3, <3>1
    <3>3. L[m - k + 1] <= L[m]
      BY <2>2, <3>1
    <3>4. L[m - k] \in Nat /\ L[m - k + 1] \in Nat /\ L[m] \in Nat
      BY <3>1
    <3>5. PICK x \in Nat, y \in Nat, z \in Nat, b \in Nat :
              x = L[m - k] /\ y = L[m - k + 1] /\ z = L[m] /\ b = e[m - k + 1].bytes
      BY <3>2, <3>4
    <3>6. y = x + b /\ y <= z
      BY <3>2, <3>3, <3>5, Zenon
    <3>7. x <= z
      BY <3>6
    <3>8. L[m - k] <= L[m]
      BY <3>5, <3>7, Zenon
    <3> QED
      BY <3>1, <3>8
  <2> HIDE DEF S
  <2> QED
    BY <1>5, <2>1, <2>2, UpTo
<1>7. m - i \in 0 .. m /\ m - (m - i) = i
  BY <1>5
<1>8. L[i] <= L[m]
  BY <1>6, <1>7
<1>9. i \in 0 .. n /\ m \in 0 .. n
  BY <1>5
<1> QED
  BY <1>2, <1>8, <1>9

\* _AtaPrepareDmaTransfer takes every pair but the last whole, and of the last the bytes
\* that remain: its table is exact for every buffer that MdlAllocateEx describes.
LEMMA TableIsExact ==
    ASSUME NEW e \in Seq(Entries), NEW b \in Nat, Describes(e, b),
           \A i \in DOMAIN e : e[i].bytes <= ATA_DMA_PHYSICAL_BOUNDARY
    PROVE  TableExact(PrdTable(e, b), e, b)
<1>1. PICK n \in Nat : n = Len(e) /\ n > 0
  BY DEF Describes
<1>2. PICK B \in [0 .. n -> Seq(Nat)] :
          /\ B = BytesUpTo(e) /\ B[0] = <<>>
          /\ \A i \in 1 .. n : B[i] = B[i - 1] \o AddressesFrom(e[i].address, e[i].bytes)
  BY <1>1, BytesUnfold
<1>3. PICK T \in [0 .. n -> Rounds] :
          /\ T = TableUpTo(e, b) /\ T[0] = [remaining |-> b, table |-> <<>>]
          /\ \A i \in 1 .. n : T[i] = TakePair(T[i - 1], e[i])
  BY <1>1, TableUnfold
<1>4. \A i \in 1 .. n : /\ e[i] \in Entries /\ e[i].address \in Nat /\ e[i].bytes \in Nat
                        /\ e[i].bytes > 0 /\ e[i].bytes <= ATA_DMA_PHYSICAL_BOUNDARY
  <2>1. \A i \in 1 .. n : i \in DOMAIN e /\ e[i] \in Entries
    BY <1>1
  <2> QED
    BY <2>1 DEF Describes, Entries
<1>5. PICK L \in [0 .. n -> Nat] :
          /\ \A i \in 0 .. n : L[i] = Len(B[i])
          /\ \A i \in 0 .. n - 1 : L[i] <= L[n - 1]
          /\ L[0] = 0 /\ \A i \in 1 .. n : L[i] = L[i - 1] + e[i].bytes
          /\ L[n - 1] < b /\ b <= L[n]
  <2>1. PICK L : L = [i \in 0 .. n |-> Len(B[i])]
    OBVIOUS
  <2>2. L \in [0 .. n -> Nat] /\ \A i \in 0 .. n : L[i] = Len(B[i])
    <3>1. \A i \in 0 .. n : Len(B[i]) \in Nat
      OBVIOUS
    <3> QED
      BY <2>1, <3>1
  <2>3. n - 1 \in 0 .. n /\ n \in 0 .. n /\ 0 \in 0 .. n
    BY <1>1
  <2>4. ASSUME NEW i \in 0 .. n - 1
        PROVE  L[i] <= L[n - 1]
    <3>1. i \in 0 .. n
      BY <1>1
    <3> QED
      BY <1>1, <1>2, <2>2, <2>3, <3>1, LengthsGrow
  <2>5. L[0] = 0
    BY <1>2, <2>2, <2>3
  <2>6. ASSUME NEW i \in 1 .. n
        PROVE  L[i] = L[i - 1] + e[i].bytes
    <3>1. i - 1 \in 0 .. n /\ i \in 0 .. n
      BY <1>1
    <3>2. PICK p \in Seq(Nat), q \in Seq(Nat) :
              p = B[i - 1] /\ q = AddressesFrom(e[i].address, e[i].bytes)
      BY <1>4, <3>1, AddressesAre
    <3>3. Len(q) = e[i].bytes
      BY <1>4, <3>2, AddressesAre
    <3>4. B[i] = p \o q
      BY <1>2, <3>2
    <3>5. Len(p \o q) = Len(p) + Len(q)
      BY ConcatProperties
    <3> QED
      BY <2>2, <3>1, <3>2, <3>3, <3>4, <3>5
  <2>7. L[n - 1] < b /\ b <= L[n]
    BY <1>1, <1>2, <2>2, <2>3 DEF Describes, Bytes
  <2> QED
    BY <2>2, <2>4, <2>5, <2>6, <2>7
<1> DEFINE Clean(t) == \A i \in DOMAIN t : Sound(t[i])
           Inv(i) == /\ T[i].remaining = b - L[i]
                     /\ Bytes(T[i].table) = B[i]
                     /\ Clean(T[i].table)
<1>6. ASSUME NEW t \in Seq(Entries), NEW a \in Nat, NEW k \in Nat, k > 0,
             k <= ATA_DMA_PHYSICAL_BOUNDARY, Clean(t)
      PROVE  Clean(t \o PrdEntries(a, k))
  <2>1. PICK u \in Seq(Entries) : u = PrdEntries(a, k)
    BY PrdEntriesAre
  <2>2. \A i \in 1 .. Len(u) : Sound(u[i])
    <3>1. k \in Nat \ {0}
      BY <1>6
    <3>2. DOMAIN u = 1 .. Len(u)
      OBVIOUS
    <3>3. \A i \in DOMAIN PrdEntries(a, k) : Sound(PrdEntries(a, k)[i])
      BY <1>6, <3>1, PrdEntriesSound
    <3> QED
      BY <2>1, <3>2, <3>3
  <2>3. PICK w \in Seq(Entries) : w = t \o u
    BY ConcatProperties
  <2>4. /\ Len(w) = Len(t) + Len(u) /\ Len(t) \in Nat /\ Len(u) \in Nat
        /\ \A i \in 1 .. Len(t) + Len(u) : w[i] = IF i <= Len(t) THEN t[i] ELSE u[i - Len(t)]
    BY <2>3, ConcatProperties
  <2>5. ASSUME NEW i \in 1 .. Len(w)
        PROVE  Sound(w[i])
    <3>1. CASE i <= Len(t)
      <4>1. i \in 1 .. Len(t) /\ w[i] = t[i]
        BY <2>4, <3>1
      <4> QED
        BY <1>6, <4>1
    <3>2. CASE ~(i <= Len(t))
      <4>1. i - Len(t) \in 1 .. Len(u) /\ w[i] = u[i - Len(t)]
        BY <2>4, <3>2
      <4> QED
        BY <2>2, <4>1
    <3> QED
      BY <3>1, <3>2
  <2> QED
    BY <2>1, <2>3, <2>5
<1>7. ASSUME NEW i \in 1 .. n, Inv(i - 1), NEW k \in Nat,
             k = IF e[i].bytes < T[i - 1].remaining THEN e[i].bytes ELSE T[i - 1].remaining
      PROVE  /\ T[i].remaining = T[i - 1].remaining - k
             /\ Bytes(T[i].table) = B[i - 1] \o AddressesFrom(e[i].address, k)
             /\ k > 0 => Clean(T[i].table)
  <2>1. i - 1 \in 0 .. n
    BY <1>1
  <2>2. PICK t \in Seq(Entries), rest \in Nat : t = T[i - 1].table /\ rest = T[i - 1].remaining
    <3>1. T[i - 1] \in Rounds
      BY <1>3, <2>1
    <3> QED
      BY <3>1 DEF Rounds
  <2>3. T[i] = [remaining |-> rest - k, table |-> t \o PrdEntries(e[i].address, k)]
    BY <1>3, <1>7, <2>2 DEF TakePair
  <2>4. Bytes(t \o PrdEntries(e[i].address, k)) = Bytes(t) \o AddressesFrom(e[i].address, k)
    BY <1>4, BytesOfRound
  <2>5. k <= e[i].bytes /\ k <= ATA_DMA_PHYSICAL_BOUNDARY
    <3>1. PICK y \in Nat : y = e[i].bytes /\ y <= ATA_DMA_PHYSICAL_BOUNDARY
      BY <1>4
    <3>2. k = IF y < rest THEN y ELSE rest
      BY <1>7, <2>2, <3>1
    <3>3. k <= y
      BY <3>2
    <3>4. PICK z \in Nat : z = ATA_DMA_PHYSICAL_BOUNDARY
      BY StorageAssumption
    <3>5. y <= z
      BY <3>1, <3>4, Zenon
    <3>6. k <= z
      BY <3>3, <3>5
    <3>7. k <= ATA_DMA_PHYSICAL_BOUNDARY
      BY <3>4, <3>6, Zenon
    <3>8. k <= e[i].bytes
      BY <3>1, <3>3, Zenon
    <3> QED
      BY <3>7, <3>8
  <2>6. k > 0 => Clean(t \o PrdEntries(e[i].address, k))
    <3>1. Clean(t)
      BY <1>7, <2>2
    <3> HIDE DEF Clean
    <3> QED
      BY <1>4, <1>6, <2>5, <3>1
  <2>7. T[i].remaining = T[i - 1].remaining - k /\ T[i].table = t \o PrdEntries(e[i].address, k)
    <3>1. PICK x, y : x = rest - k /\ y = t \o PrdEntries(e[i].address, k)
      OBVIOUS
    <3>2. T[i] = [remaining |-> x, table |-> y]
      BY <2>3, <3>1, Zenon
    <3>3. T[i].remaining = x /\ T[i].table = y
      BY <3>2
    <3> QED
      BY <2>2, <3>1, <3>3, Zenon
  <2>8. Bytes(t) = B[i - 1]
    BY <1>7, <2>2
  <2> HIDE DEF Clean
  <2> QED
    BY <2>4, <2>6, <2>7, <2>8
<1>8. 0 .. n - 1 \subseteq {i \in 0 .. n - 1 : Inv(i)}
  <2> DEFINE S == {i \in 0 .. n - 1 : Inv(i)}
  <2>1. n - 1 \in Nat
    BY <1>1
  <2>2. 0 \in S
    <3>1. T[0].table = <<>> /\ T[0].remaining = b - L[0]
      BY <1>3, <1>5
    <3>2. Bytes(T[0].table) = B[0]
      <4>1. PICK z \in Seq(Entries) : z = <<>> /\ Len(z) = 0
        BY EmptySeq
      <4>2. Bytes(z) = <<>>
        BY <4>1, BytesUnfold DEF Bytes
      <4> QED
        BY <1>2, <3>1, <4>1, <4>2
    <3>3. Clean(T[0].table)
      BY <3>1
    <3> HIDE DEF Clean
    <3> QED
      BY <2>1, <3>1, <3>2, <3>3
  <2>3. ASSUME NEW i \in 1 .. n - 1, i - 1 \in S
        PROVE  i \in S
    <3>1. i \in 1 .. n /\ i - 1 \in 0 .. n - 1 /\ i \in 0 .. n - 1 /\ i - 1 \in 0 .. n /\ i \in 0 .. n
      BY <1>1
    <3>2. Inv(i - 1)
      BY <2>3
    <3>3. PICK k \in Nat : k = e[i].bytes /\ k > 0
      BY <1>4, <3>1
    <3>4. PICK l1 \in Nat, l2 \in Nat, l3 \in Nat : l1 = L[i - 1] /\ l2 = L[i] /\ l3 = L[n - 1]
      <4>1. n - 1 \in 0 .. n
        BY <1>1
      <4> QED
        BY <3>1, <4>1
    <3>5. l2 = l1 + k /\ l2 <= l3 /\ l3 < b
      BY <1>5, <3>1, <3>3, <3>4
    <3>6. T[i - 1].remaining = b - l1 /\ k < b - l1 /\ b - l1 - k = b - l2
      <4>1. T[i - 1].remaining = b - l1
        BY <3>2, <3>4
      <4>2. k < b - l1 /\ b - l1 - k = b - l2
        BY <3>5
      <4> QED
        BY <4>1, <4>2
    <3>7. /\ T[i].remaining = T[i - 1].remaining - k
          /\ Bytes(T[i].table) = B[i - 1] \o AddressesFrom(e[i].address, k)
          /\ Clean(T[i].table)
      <4> HIDE DEF Inv, Clean
      <4> QED
        <5>1. k = IF e[i].bytes < T[i - 1].remaining THEN e[i].bytes ELSE T[i - 1].remaining
          BY <3>3, <3>6
        <5> QED
          BY <1>7, <3>1, <3>2, <3>3, <5>1
    <3>8. Bytes(T[i].table) = B[i]
      BY <1>2, <3>1, <3>3, <3>7
    <3>9. T[i].remaining = b - L[i]
      BY <3>4, <3>6, <3>7
    <3> HIDE DEF Clean
    <3> QED
      BY <3>1, <3>7, <3>8, <3>9
  <2> HIDE DEF S
  <2>4. 0 .. n - 1 \subseteq S
    BY <2>1, <2>2, <2>3, UpTo
  <2> QED
    BY <2>4 DEF S
<1>9. Inv(n - 1) /\ n \in 1 .. n /\ n - 1 \in 0 .. n /\ n \in 0 .. n
  <2>1. n - 1 \in 0 .. n - 1 /\ n \in 1 .. n /\ n - 1 \in 0 .. n /\ n \in 0 .. n
    BY <1>1
  <2> HIDE DEF Inv
  <2> QED
    BY <1>8, <2>1
<1>10. PICK k \in Nat : /\ k = b - L[n - 1] /\ k > 0 /\ k <= e[n].bytes
                       /\ k = IF e[n].bytes < T[n - 1].remaining THEN e[n].bytes ELSE T[n - 1].remaining
  <2>1. PICK l \in Nat, y \in Nat : l = L[n - 1] /\ y = e[n].bytes /\ L[n] = l + y
    BY <1>4, <1>5, <1>9
  <2>2. l < b /\ b <= l + y
    BY <1>5, <2>1
  <2>3. T[n - 1].remaining = b - l
    BY <1>9, <2>1
  <2>4. PICK k \in Nat : k = b - l /\ k > 0 /\ k <= y /\ k = IF y < b - l THEN y ELSE b - l
    <3>1. b - l \in Nat /\ b - l > 0 /\ b - l <= y
      BY <2>2
    <3> QED
      BY <3>1
  <2> QED
    BY <2>1, <2>3, <2>4
<1>11. /\ Bytes(T[n].table) = B[n - 1] \o AddressesFrom(e[n].address, k)
       /\ Clean(T[n].table)
  <2> HIDE DEF Inv, Clean
  <2> QED
    BY <1>7, <1>9, <1>10
<1>12. B[n - 1] \o AddressesFrom(e[n].address, k) = SubSeq(B[n], 1, b)
  <2>1. PICK p \in Seq(Nat), q \in Seq(Nat), r \in Seq(Nat) :
            p = B[n - 1] /\ q = AddressesFrom(e[n].address, k) /\ r = AddressesFrom(e[n].address, e[n].bytes)
    BY <1>4, <1>9, AddressesAre
  <2>2. PICK l \in Nat, y \in Nat : l = L[n - 1] /\ y = e[n].bytes
    BY <1>4, <1>9
  <2>3. PICK a \in Nat : a = e[n].address
    BY <1>4, <1>9
  <2>4. /\ Len(q) = k /\ Len(r) = y
        /\ \A j \in 1 .. k : q[j] = a + j - 1
        /\ \A j \in 1 .. y : r[j] = a + j - 1
    <3>1. q = AddressesFrom(a, k) /\ r = AddressesFrom(a, y)
      BY <2>1, <2>2, <2>3
    <3> QED
      BY <3>1, AddressesAre
  <2>5. Len(p) = l /\ Len(q) = k /\ Len(r) = y /\ b = l + k /\ k <= y
    <3>1. Len(p) = l
      BY <1>5, <1>9, <2>1, <2>2
    <3>2. k = b - l /\ k <= y
      BY <1>10, <2>2
    <3>3. b = l + k
      BY <3>2
    <3> QED
      BY <2>4, <3>1, <3>2, <3>3
  <2>6. \A j \in 1 .. k : q[j] = r[j]
    <3>1. \A j \in 1 .. k : j \in 1 .. y
      BY <2>5
    <3> QED
      BY <2>4, <3>1
  <2>7. PICK w \in Seq(Nat), x \in Seq(Nat) : w = p \o q /\ x = p \o r
    BY ConcatProperties
  <2>8. /\ Len(w) = l + k /\ Len(x) = l + y
        /\ \A j \in 1 .. l + k : w[j] = IF j <= l THEN p[j] ELSE q[j - l]
        /\ \A j \in 1 .. l + y : x[j] = IF j <= l THEN p[j] ELSE r[j - l]
    <3>1. /\ Len(w) = Len(p) + Len(q)
          /\ \A j \in 1 .. Len(p) + Len(q) : w[j] = IF j <= Len(p) THEN p[j] ELSE q[j - Len(p)]
      BY <2>7, ConcatProperties
    <3>2. /\ Len(x) = Len(p) + Len(r)
          /\ \A j \in 1 .. Len(p) + Len(r) : x[j] = IF j <= Len(p) THEN p[j] ELSE r[j - Len(p)]
      BY <2>7, ConcatProperties
    <3> QED
      BY <2>5, <3>1, <3>2
  <2>9. ASSUME NEW j \in 1 .. b
        PROVE  j \in 1 .. Len(x) /\ w[j] = x[j] /\ x[j] \in Nat
    <3>1. j \in 1 .. l + k /\ j \in 1 .. l + y
      BY <2>5
    <3>2. ~(j <= l) => j - l \in 1 .. k
      BY <2>5
    <3>3. w[j] = x[j]
      BY <2>6, <2>8, <3>1, <3>2
    <3>4. j \in 1 .. Len(x)
      BY <2>8, <3>1
    <3>5. x[j] \in Nat
      BY <3>4, ElementOfSeq
    <3> QED
      BY <3>3, <3>4, <3>5
  <2>10. PICK z \in Seq(Nat) : /\ z = SubSeq(x, 1, b) /\ Len(z) = b
                             /\ \A j \in 1 .. b : z[j] = x[j]
    <3>1. /\ SubSeq(x, 1, b) \in Seq(Nat)
          /\ Len(SubSeq(x, 1, b)) = IF 1 <= b THEN b - 1 + 1 ELSE 0
          /\ \A j \in 1 .. b - 1 + 1 : SubSeq(x, 1, b)[j] = x[1 + j - 1]
      <4>1. \A j \in 1 .. b : x[j] \in Nat
        BY <2>9
      <4>2. 1 \in Int /\ b \in Int
        OBVIOUS
      <4> QED
        BY <4>1, <4>2, SubSeqProperties
    <3>2. (IF 1 <= b THEN b - 1 + 1 ELSE 0) = b /\ b - 1 + 1 = b /\ \A j \in 1 .. b : 1 + j - 1 = j
      OBVIOUS
    <3>3. \A j \in 1 .. b : SubSeq(x, 1, b)[j] = x[j]
      BY <3>1, <3>2
    <3> QED
      BY <3>1, <3>2, <3>3
  <2>11. w = z
    <3>1. Len(w) = Len(z) /\ \A j \in 1 .. Len(w) : w[j] = z[j]
      BY <2>5, <2>8, <2>9, <2>10
    <3> QED
      BY <3>1, SeqEqual
  <2>12. B[n] = x
    BY <1>2, <1>9, <2>1, <2>7
  <2> QED
    BY <2>1, <2>7, <2>10, <2>11, <2>12
<1>13. PrdTable(e, b) = T[n].table /\ Bytes(e) = B[n]
  BY <1>1, <1>2, <1>3 DEF PrdTable, Bytes
<1> QED
  BY <1>11, <1>12, <1>13 DEF TableExact, Sound

----------------------------------------------------------------------------
\* Storage

LEMMA SectorArithmetic ==
    ASSUME NEW a \in Nat
    PROVE  /\ a * SECTOR_SIZE \in Nat /\ a \div SECTOR_SIZE \in Nat
           /\ (a * SECTOR_SIZE) \div SECTOR_SIZE = a
           /\ (a * SECTOR_SIZE) % SECTOR_SIZE = 0
           /\ a % SECTOR_SIZE = 0 => (a \div SECTOR_SIZE) * SECTOR_SIZE = a
<1> SECTOR_SIZE \in Nat \ {0}
  BY StorageAssumption
<1> QED
  OBVIOUS

----------------------------------------------------------------------------
\* The part of the invariant that holds for any number of drives

DriveSet == ToSet(Drives)
Sectors == DriveSet \X Nat
DriveStages == {"drive", "select", "parameters", "prdt", "command", "buffer", "start", "wait",
                "insert", "blocked", "finished"}
Stages == DriveStages \cup {"idle", "call", "acquire", "volume", "disk", "release", "done"}
Statuses == {"none", "success", "alignment not satisfied", "exceeded", "invalid parameter", "no dma"}

Irps == [request : Requests \cup {Nil}, location : 0 .. 3, offset : Nat, status : Statuses, information : Nat]
Transfers == [State : {"Free", "InProgress", "Finished"}, Signaled : BOOLEAN, Waiting : Seq(Callers)]
Commands == [drive : DriveSet, dma : BOOLEAN, sectors : SUBSET Sectors]
Channels == [selected : DriveSet, lba : Nat, count : Nat, nien : BOOLEAN, command : Commands \cup {Nil},
             start : BOOLEAN, irq : BOOLEAN]
Handlers == [cpu : {"idle", "test", "claim", "failed", "signal", "ack"}, next : 1 .. Len(Drives)]

TypeInv ==
    /\ DeviceLock \in [Devices -> Seq(Callers)]
    /\ at \in [Callers -> Stages]
    /\ irp \in [Callers -> Irps]
    /\ moved \in [Callers -> SUBSET Sectors]
    /\ transfer \in [DriveSet -> Transfers]
    /\ channel \in Channels
    /\ pending \in BOOLEAN /\ halted \in BOOLEAN
    /\ isr \in [IoCpus -> Handlers]

\* The stack location that belongs to where a thread is.
StageOf(t) ==
    /\ at[t] # "idle" => irp[t].request \in Requests
    /\ at[t] = "call" => irp[t].location \in 1 .. 3
    /\ at[t] \in {"acquire", "release"} => irp[t].location \in 0 .. 2
    /\ at[t] = "volume" => irp[t].location = 2
    /\ at[t] = "disk" => irp[t].location = 1
    /\ at[t] \in DriveStages => irp[t].location = 0
    /\ at[t] = "done" => irp[t].location = 3

\* The thread has been given the DeviceLock of its device at level l.
Holds(t, l) == /\ at[t] # "idle"
               /\ l \in 0 .. 2
               /\ l > irp[t].location \/ (l = irp[t].location /\ at[t] # "acquire")

WaitsFor(t, l) == at[t] = "acquire" /\ irp[t].location = l

LocksOf(t) == \A l \in 0 .. 2 :
    /\ Holds(t, l) =>
           DeviceLock[DeviceOf(t, l)] # <<>> /\ Head(DeviceLock[DeviceOf(t, l)]) = t
    /\ WaitsFor(t, l) =>
           \E k \in 1 .. Len(DeviceLock[DeviceOf(t, l)]) : DeviceLock[DeviceOf(t, l)][k] = t

\* At most one thread waits for the transfer of a drive.
WaitersOf(d) ==
    \/ transfer[d].Waiting = <<>>
    \/ \E u \in Callers : /\ transfer[d].Waiting = <<u>>
                          /\ at[u] = "blocked" /\ Drive(u) = d

BaseInv ==
    /\ TypeInv
    /\ \A t \in Callers : StageOf(t) /\ LocksOf(t)
    /\ \A d \in DriveSet : WaitersOf(d)

LEMMA ElementIs ==
    ASSUME NEW S, NEW q \in Seq(S), NEW i \in DOMAIN q
    PROVE  q[i] \in S
OBVIOUS

LEMMA StorageConstants ==
    /\ SECTOR_SIZE \in Nat \ {0} /\ Len(Drives) \in Nat \ {0} /\ Drives[1] \in DriveSet
    /\ \A n \in 1 .. Len(Drives) : Drives[n] \in DriveSet
    /\ \A r \in Requests : /\ r.drive \in DriveSet /\ r.volume \in DOMAIN DiskLayout
                           /\ r.offset \in Nat /\ r.length \in Nat /\ r.async \in BOOLEAN
                           /\ DiskLayout[r.volume].OffsetInDisk \in Nat
                           /\ DiskLayout[r.volume].PartitionSize \in Nat
<1>1. SECTOR_SIZE \in Nat \ {0}
  BY StorageAssumption
<1>2. Drives \in Seq(DriveSet) /\ Drives # <<>>
  BY RequestAssumption DEF DriveSet
<1>3. Len(Drives) \in Nat \ {0} /\ \A n \in 1 .. Len(Drives) : Drives[n] \in DriveSet
  BY <1>2
<1>4. ASSUME NEW r \in Requests
      PROVE  /\ r.drive \in DriveSet /\ r.volume \in DOMAIN DiskLayout
             /\ r.offset \in Nat /\ r.length \in Nat /\ r.async \in BOOLEAN
             /\ DiskLayout[r.volume].OffsetInDisk \in Nat
             /\ DiskLayout[r.volume].PartitionSize \in Nat
  <2>1. r \in [drive : DriveSet, volume : DOMAIN DiskLayout, offset : Nat, length : Nat,
               async : BOOLEAN, pairs : Seq([address : Nat, bytes : Nat])]
    BY RequestAssumption DEF DriveSet
  <2>2. DiskLayout[r.volume] \in [OffsetInDisk : Nat, PartitionSize : Nat]
    <3>1. DiskLayout \in Seq([OffsetInDisk : Nat, PartitionSize : Nat])
      BY RequestAssumption
    <3>2. \A i \in DOMAIN DiskLayout : DiskLayout[i] \in [OffsetInDisk : Nat, PartitionSize : Nat]
      BY <3>1, ElementIs
    <3> QED
      BY <2>1, <3>2
  <2> QED
    BY <2>1, <2>2
<1> QED
  BY <1>1, <1>3, <1>4

\* The devices of a request, one at each level.
LEMMA DeviceFacts ==
    ASSUME NEW t \in Callers, irp[t].request \in Requests
    PROVE  /\ \A l \in 0 .. 2 : DeviceOf(t, l) \in Devices
           /\ \A l, m \in 0 .. 2 : l # m => DeviceOf(t, l) # DeviceOf(t, m)
           /\ DeviceOf(t, 0) = <<0, Drive(t), 0>>
           /\ Drive(t) \in DriveSet
BY StorageConstants DEF DeviceOf, Devices, Drive, DriveSet

LEMMA IrpUpdates ==
    ASSUME NEW x \in Irps
    PROVE  /\ \A n \in 0 .. 3 :
                  [x EXCEPT !.location = n] \in Irps /\ [x EXCEPT !.location = n].location = n
           /\ \A n \in Nat : [x EXCEPT !.offset = n] \in Irps
           /\ \A st \in Statuses : [x EXCEPT !.status = st] \in Irps
           /\ \A st \in Statuses, n \in Nat : [[x EXCEPT !.status = st] EXCEPT !.information = n] \in Irps
BY DEF Irps

LEMMA NewIrp ==
    ASSUME NEW r \in Requests, NEW n \in Nat
    PROVE  [NoIrp EXCEPT !.request = r, !.offset = n] \in Irps /\ NoIrp \in Irps
<1>1. NoIrp \in Irps
  BY DEF NoIrp, StackSize, Statuses, Irps
<1>2. \A x \in Irps : [x EXCEPT !.request = r] \in Irps
  BY DEF Irps
<1> QED
  BY <1>1, <1>2, IrpUpdates

LEMMA BaseInitially == StorageInit => BaseInv
<1> SUFFICES ASSUME StorageInit PROVE BaseInv
  OBVIOUS
<1>1. TypeInv
  <2>1. DeviceLock \in [Devices -> Seq(Callers)] /\ at \in [Callers -> Stages]
    BY DEF StorageInit, Stages
  <2>2. irp \in [Callers -> Irps]
    BY DEF StorageInit, NoIrp, StackSize, Statuses, Irps
  <2>3. moved \in [Callers -> SUBSET Sectors] /\ transfer \in [DriveSet -> Transfers]
    BY DEF StorageInit, DriveSet, Transfers
  <2>4. channel \in Channels
    BY StorageConstants DEF StorageInit, Channels
  <2>5. pending \in BOOLEAN /\ halted \in BOOLEAN
    BY DEF StorageInit
  <2>6. isr \in [IoCpus -> Handlers]
    <3>1. 1 \in 1 .. Len(Drives)
      BY StorageConstants
    <3> QED
      BY <3>1 DEF StorageInit, NoInterrupt, Handlers
  <2> QED
    BY <2>1, <2>2, <2>3, <2>4, <2>5, <2>6 DEF TypeInv
<1>2. \A t \in Callers : StageOf(t) /\ LocksOf(t)
  <2>1. \A t \in Callers : at[t] = "idle"
    BY DEF StorageInit
  <2>2. \A t \in Callers : StageOf(t)
    BY <2>1 DEF StageOf, DriveStages
  <2>3. \A t \in Callers : LocksOf(t)
    BY <2>1 DEF LocksOf, Holds, WaitsFor
  <2> QED
    BY <2>2, <2>3
<1>3. \A d \in DriveSet : WaitersOf(d)
  BY DEF StorageInit, WaitersOf, DriveSet
<1> QED
  BY <1>1, <1>2, <1>3 DEF BaseInv

\* Nothing but thread t's place and IRP changes.
OnlyOf(t) == \A u \in Callers : u # t => at'[u] = at[u] /\ irp'[u] = irp[u]

LEMMA ThreadKept ==
    ASSUME BaseInv, NEW u \in Callers, at'[u] = at[u], irp'[u] = irp[u]
    PROVE  StageOf(u)' /\ (DeviceLock' = DeviceLock => LocksOf(u)')
<1>1. StageOf(u) /\ LocksOf(u)
  BY DEF BaseInv
<1>2. \A l \in 0 .. 2 : (Holds(u, l)' <=> Holds(u, l)) /\ (WaitsFor(u, l)' <=> WaitsFor(u, l))
  BY DEF Holds, WaitsFor
<1>3. \A l \in 0 .. 2 : DeviceOf(u, l)' = DeviceOf(u, l)
  BY DEF DeviceOf
<1>4. DeviceLock' = DeviceLock => LocksOf(u)'
  BY <1>1, <1>2, <1>3 DEF LocksOf
<1>5. StageOf(u)'
  BY <1>1 DEF StageOf
<1> QED
  BY <1>4, <1>5

LEMMA OthersKeepStage ==
    ASSUME BaseInv, NEW t \in Callers, OnlyOf(t), NEW u \in Callers, u # t
    PROVE  StageOf(u)'
BY ThreadKept DEF OnlyOf

LEMMA OthersKeepLocks ==
    ASSUME BaseInv, NEW t \in Callers, OnlyOf(t), NEW u \in Callers, u # t, DeviceLock' = DeviceLock
    PROVE  LocksOf(u)'
BY ThreadKept DEF OnlyOf

LEMMA WaitersKept ==
    ASSUME BaseInv, NEW t \in Callers, OnlyOf(t), at[t] # "blocked", NEW d \in DriveSet,
           transfer'[d].Waiting = transfer[d].Waiting
    PROVE  WaitersOf(d)'
BY DEF BaseInv, OnlyOf, WaitersOf, Drive

\* Thread t stays in its level with the devices it has.
LEMMA MoverKeepsLocks ==
    ASSUME BaseInv, NEW t \in Callers, DeviceLock' = DeviceLock,
           at[t] \notin {"idle", "acquire"}, at'[t] # "acquire",
           irp'[t].request = irp[t].request, irp'[t].location = irp[t].location
    PROVE  LocksOf(t)'
<1>1. \A l \in 0 .. 2 : (Holds(t, l)' => Holds(t, l)) /\ ~WaitsFor(t, l)'
  BY DEF Holds, WaitsFor
<1>2. \A l : DeviceOf(t, l)' = DeviceOf(t, l)
  BY DEF DeviceOf
<1>3. LocksOf(t)
  BY DEF BaseInv
<1> QED
  BY <1>1, <1>2, <1>3 DEF LocksOf

LEMMA KeepsBase ==
    ASSUME BaseInv, TypeInv', NEW t \in Callers, OnlyOf(t), at[t] # "blocked", DeviceLock' = DeviceLock,
           \A d \in DriveSet : transfer'[d].Waiting = transfer[d].Waiting,
           StageOf(t)', LocksOf(t)'
    PROVE  BaseInv'
<1>1. \A u \in Callers : StageOf(u)' /\ LocksOf(u)'
  BY OthersKeepStage, OthersKeepLocks
<1>2. \A d \in DriveSet : WaitersOf(d)'
  BY WaitersKept
<1> QED
  BY <1>1, <1>2 DEF BaseInv

\* The same for a step that only moves thread t within its level.
LEMMA MoverKeepsBase ==
    ASSUME BaseInv, TypeInv', NEW t \in Callers, OnlyOf(t), DeviceLock' = DeviceLock,
           \A d \in DriveSet : transfer'[d].Waiting = transfer[d].Waiting,
           at[t] \notin {"idle", "acquire", "blocked"}, at'[t] # "acquire",
           irp'[t].request = irp[t].request, irp'[t].location = irp[t].location,
           StageOf(t)'
    PROVE  BaseInv'
BY KeepsBase, MoverKeepsLocks

\* The threads at the drive are one for each drive.
LEMMA OneAtDrive ==
    ASSUME BaseInv, NEW t \in Callers, NEW u \in Callers, at[t] \in DriveStages, at[u] \in DriveStages,
           Drive(t) = Drive(u)
    PROVE  t = u
<1>1. ASSUME NEW v \in Callers, at[v] \in DriveStages
      PROVE  Head(DeviceLock[<<0, Drive(v), 0>>]) = v
  <2>1. irp[v].request \in Requests /\ Holds(v, 0) /\ LocksOf(v)
    BY <1>1 DEF BaseInv, StageOf, Holds, DriveStages
  <2>2. DeviceOf(v, 0) = <<0, Drive(v), 0>>
    BY <2>1, DeviceFacts
  <2> QED
    BY <2>1, <2>2 DEF LocksOf
<1> QED
  BY <1>1

LEMMA RequestFacts ==
    ASSUME BaseInv, NEW t \in Callers, at[t] # "idle"
    PROVE  /\ irp[t].request \in Requests /\ irp[t].request.async \in BOOLEAN
           /\ irp[t].offset \in Nat /\ irp[t].location \in 0 .. 3
           /\ Sector(t) \in Nat /\ Count(t) \in Nat /\ Count(t) * SECTOR_SIZE \in Nat
           /\ Drive(t) \in DriveSet
<1>1. irp[t].request \in Requests
  BY DEF BaseInv, StageOf
<1>2. irp[t].offset \in Nat /\ irp[t].location \in 0 .. 3
  BY DEF BaseInv, TypeInv, Irps
<1>3. Sector(t) \in Nat
  BY <1>2, SectorArithmetic DEF Sector
<1>4. Count(t) \in Nat /\ Count(t) * SECTOR_SIZE \in Nat
  BY <1>1, StorageConstants, SectorArithmetic DEF Count
<1> QED
  BY <1>1, <1>2, <1>3, <1>4, StorageConstants DEF Drive

LEMMA BaseIoReadWriteDevice ==
    ASSUME BaseInv, NEW t \in Callers, NEW r \in Requests, IoReadWriteDevice(t, r)
    PROVE  BaseInv'
<1> USE DEF IoReadWriteDevice, At, MoveTo
<1>1. TypeInv'
  <2>1. [NoIrp EXCEPT !.request = r, !.offset = r.offset] \in Irps
    BY NewIrp, StorageConstants
  <2>2. irp' \in [Callers -> Irps]
    BY <2>1 DEF BaseInv, TypeInv
  <2>3. at' \in [Callers -> Stages] /\ moved' \in [Callers -> SUBSET Sectors]
    BY DEF BaseInv, TypeInv, Stages
  <2> QED
    BY <2>2, <2>3 DEF BaseInv, TypeInv
<1>2. at'[t] = "call" /\ irp'[t].location = 3 /\ irp'[t].request = r
  BY DEF BaseInv, TypeInv, NoIrp, StackSize
<1>3. StageOf(t)'
  BY <1>2 DEF StageOf, DriveStages
<1>4. LocksOf(t)'
  BY <1>2 DEF LocksOf, Holds, WaitsFor
<1>5. OnlyOf(t)
  BY DEF OnlyOf, BaseInv, TypeInv
<1> QED
  BY <1>1, <1>3, <1>4, <1>5, KeepsBase

LEMMA BaseIoReturn ==
    ASSUME BaseInv, NEW t \in Callers, IoReturn(t)
    PROVE  BaseInv'
<1> USE DEF IoReturn, At, MoveTo
<1>1. TypeInv'
  <2>1. NoIrp \in Irps
    BY DEF NoIrp, StackSize, Statuses, Irps
  <2>2. irp' \in [Callers -> Irps] /\ moved' \in [Callers -> SUBSET Sectors]
    BY <2>1 DEF BaseInv, TypeInv
  <2>3. at' \in [Callers -> Stages]
    BY DEF BaseInv, TypeInv, Stages
  <2> QED
    BY <2>2, <2>3 DEF BaseInv, TypeInv
<1>2. at'[t] = "idle"
  BY DEF BaseInv, TypeInv
<1>3. StageOf(t)'
  BY <1>2 DEF StageOf, DriveStages
<1>4. LocksOf(t)'
  BY <1>2 DEF LocksOf, Holds, WaitsFor
<1>5. OnlyOf(t)
  BY DEF OnlyOf, BaseInv, TypeInv
<1> QED
  BY <1>1, <1>3, <1>4, <1>5, KeepsBase

LEMMA BaseIoCallDriver ==
    ASSUME BaseInv, NEW t \in Callers, IoCallDriver(t)
    PROVE  BaseInv'
<1> DEFINE l == irp[t].location - 1
<1>a. at[t] = "call" /\ StageOf(t)
  BY DEF IoCallDriver, At, BaseInv
<1>b. irp[t].request \in Requests /\ irp[t].location \in 1 .. 3
  BY <1>a DEF StageOf
<1>0. at[t] = "call" /\ irp[t].request \in Requests /\ irp[t].location \in 1 .. 3 /\ l \in 0 .. 2
  BY <1>a, <1>b
<1>1. CASE irp[t].request.length % SECTOR_SIZE # 0 \/ irp[t].offset % SECTOR_SIZE # 0
  <2>1. /\ irp' = [irp EXCEPT ![t].status = "alignment not satisfied"]
        /\ at' = [at EXCEPT ![t] = IF l = StackSize - 1 THEN "done" ELSE "release"]
        /\ UNCHANGED <<DeviceLock, moved, transfer, channel, pending, isr, halted>>
    BY <1>1 DEF IoCallDriver, MoveTo
  <2>2. TypeInv'
    <3>1. irp' \in [Callers -> Irps]
      BY <2>1 DEF BaseInv, TypeInv, Irps, Statuses
    <3>2. at' \in [Callers -> Stages]
      BY <2>1 DEF BaseInv, TypeInv, Stages
    <3> QED
      BY <2>1, <3>1, <3>2 DEF BaseInv, TypeInv
  <2>a. at'[t] = IF l = 2 THEN "done" ELSE "release"
    <3>1. at'[t] = IF l = StackSize - 1 THEN "done" ELSE "release"
      BY <2>1 DEF BaseInv, TypeInv
    <3> QED
      BY <1>0, <3>1 DEF StackSize
  <2>b. irp'[t].request = irp[t].request /\ irp'[t].location = irp[t].location
    BY <2>1 DEF BaseInv, TypeInv, Irps
  <2>3. /\ OnlyOf(t) /\ at'[t] \in {"done", "release"} /\ (at'[t] = "done" <=> l = 2)
        /\ irp'[t].request = irp[t].request /\ irp'[t].location = irp[t].location
    BY <2>1, <2>a, <2>b DEF BaseInv, TypeInv, OnlyOf
  <2>4. StageOf(t)'
    BY <1>0, <2>3 DEF StageOf, DriveStages
  <2> QED
    BY <1>0, <2>1, <2>2, <2>3, <2>4, MoverKeepsBase
<1>2. CASE ~(irp[t].request.length % SECTOR_SIZE # 0 \/ irp[t].offset % SECTOR_SIZE # 0)
  <2> DEFINE d == DeviceOf(t, l)
  <2>0. d \in Devices
    BY <1>0, DeviceFacts
  <2>1. /\ irp' = [irp EXCEPT ![t].location = l]
        /\ DeviceLock' = [DeviceLock EXCEPT ![d] = Append(@, t)]
        /\ at' = [at EXCEPT ![t] = "acquire"]
        /\ UNCHANGED <<moved, transfer, channel, pending, isr, halted>>
    BY <1>2 DEF IoCallDriver, MoveTo, StackSize
  <2>2. TypeInv'
    <3>1. DeviceLock' \in [Devices -> Seq(Callers)]
      BY <2>0, <2>1 DEF BaseInv, TypeInv
    <3>a. [irp[t] EXCEPT !.location = l] \in Irps
      <4>1. irp[t] \in Irps /\ l \in 0 .. 3
        BY <1>0 DEF BaseInv, TypeInv
      <4> HIDE DEF l
      <4> QED
        BY <4>1, IrpUpdates
    <3>2. irp' \in [Callers -> Irps]
      BY <2>1, <3>a DEF BaseInv, TypeInv
    <3>3. at' \in [Callers -> Stages]
      BY <2>1 DEF BaseInv, TypeInv, Stages
    <3> QED
      BY <2>1, <3>1, <3>2, <3>3 DEF BaseInv, TypeInv
  <2>3. /\ OnlyOf(t) /\ at'[t] = "acquire"
        /\ irp'[t].request = irp[t].request /\ irp'[t].location = l
    BY <2>1 DEF BaseInv, TypeInv, OnlyOf
  <2>4. StageOf(t)'
    BY <1>0, <2>3 DEF StageOf, DriveStages
  <2>5. DeviceLock \in [Devices -> Seq(Callers)]
    BY DEF BaseInv, TypeInv
  <2>6. ASSUME NEW e \in Devices
        PROVE  /\ \A k \in 1 .. Len(DeviceLock[e]) : k \in 1 .. Len(DeviceLock'[e]) /\ DeviceLock'[e][k] = DeviceLock[e][k]
               /\ DeviceLock[e] # <<>> => DeviceLock'[e] # <<>> /\ Head(DeviceLock'[e]) = Head(DeviceLock[e])
    <3>1. DeviceLock[e] \in Seq(Callers) /\ DeviceLock'[e] = IF e = d THEN Append(DeviceLock[e], t) ELSE DeviceLock[e]
      BY <2>0, <2>1, <2>5
    <3> HIDE DEF d
    <3> QED
      BY <3>1
  <2>7. ASSUME NEW u \in Callers, u # t
        PROVE  LocksOf(u)'
    <3>1. at'[u] = at[u] /\ irp'[u] = irp[u] /\ LocksOf(u)
      BY <2>3, <2>7 DEF OnlyOf, BaseInv
    <3>2. ASSUME NEW m \in 0 .. 2
          PROVE  /\ Holds(u, m)' <=> Holds(u, m)
                 /\ WaitsFor(u, m)' <=> WaitsFor(u, m)
                 /\ DeviceOf(u, m)' = DeviceOf(u, m)
                 /\ Holds(u, m) \/ WaitsFor(u, m) => DeviceOf(u, m) \in Devices
      BY <3>1, DeviceFacts DEF Holds, WaitsFor, DeviceOf, BaseInv, StageOf
    <3>3. ASSUME NEW m \in 0 .. 2
          PROVE  /\ Holds(u, m)' =>
                        DeviceLock'[DeviceOf(u, m)] # <<>> /\ Head(DeviceLock'[DeviceOf(u, m)]) = u
                 /\ WaitsFor(u, m)' =>
                        \E k \in 1 .. Len(DeviceLock'[DeviceOf(u, m)]) : DeviceLock'[DeviceOf(u, m)][k] = u
      <4>1. CASE Holds(u, m)
        BY <3>1, <3>2, <2>6, <4>1 DEF LocksOf
      <4>2. CASE WaitsFor(u, m)
        BY <3>1, <3>2, <2>6, <4>2 DEF LocksOf
      <4> QED
        BY <3>2, <4>1, <4>2
    <3> QED
      BY <3>2, <3>3 DEF LocksOf
  <2>8. LocksOf(t)'
    <3>1. \A m \in 0 .. 2 : DeviceOf(t, m)' = DeviceOf(t, m) /\ DeviceOf(t, m) \in Devices
      BY <1>0, <2>3, DeviceFacts DEF DeviceOf
    <3>2. \A m \in 0 .. 2 : Holds(t, m)' => Holds(t, m)
      BY <1>0, <2>3 DEF Holds
    <3>3. \A m \in 0 .. 2 : WaitsFor(t, m)' => m = l
      BY <2>3 DEF WaitsFor
    <3>4. \E k \in 1 .. Len(DeviceLock'[d]) : DeviceLock'[d][k] = t
      <4>1. DeviceLock[d] \in Seq(Callers) /\ DeviceLock'[d] = Append(DeviceLock[d], t)
        BY <2>0, <2>1, <2>5
      <4> HIDE DEF d
      <4>2. Len(DeviceLock'[d]) \in 1 .. Len(DeviceLock'[d]) /\ DeviceLock'[d][Len(DeviceLock'[d])] = t
        BY <4>1
      <4> QED
        BY <4>2
    <3>5. LocksOf(t)
      BY DEF BaseInv
    <3> QED
      BY <1>0, <3>1, <3>2, <3>3, <3>4, <3>5, <2>6 DEF LocksOf
  <2>9. \A e \in DriveSet : WaitersOf(e)'
    BY <1>0, <2>1, <2>3, WaitersKept
  <2> QED
    BY <2>2, <2>3, <2>4, <2>7, <2>8, <2>9, OthersKeepStage DEF BaseInv
<1> QED
  BY <1>1, <1>2

LEMMA BaseAcquired ==
    ASSUME BaseInv, NEW t \in Callers, Acquired(t)
    PROVE  BaseInv'
<1> DEFINE l == irp[t].location
<1>0. /\ at[t] = "acquire" /\ irp[t].request \in Requests /\ l \in 0 .. 2
      /\ Head(DeviceLock[DeviceOf(t, l)]) = t
  BY DEF Acquired, At, BaseInv, StageOf
<1>1. /\ at' = [at EXCEPT ![t] = <<"volume", "disk", "drive">>[StackSize - l]]
      /\ UNCHANGED <<DeviceLock, irp, moved, transfer, channel, pending, isr, halted>>
  BY DEF Acquired, MoveTo
<1>2. /\ <<"volume", "disk", "drive">>[StackSize - l] \in {"volume", "disk", "drive"}
      /\ <<"volume", "disk", "drive">>[StackSize - l] = "volume" => l = 2
      /\ <<"volume", "disk", "drive">>[StackSize - l] = "disk" => l = 1
      /\ <<"volume", "disk", "drive">>[StackSize - l] = "drive" => l = 0
  BY <1>0 DEF StackSize
<1>3. /\ at'[t] \in {"volume", "disk", "drive"}
      /\ at'[t] = "volume" => l = 2
      /\ at'[t] = "disk" => l = 1
      /\ at'[t] = "drive" => l = 0
  BY <1>1, <1>2 DEF BaseInv, TypeInv
<1>4. TypeInv'
  <2>1. at' \in [Callers -> Stages]
    BY <1>1, <1>2 DEF BaseInv, TypeInv, Stages, DriveStages
  <2> QED
    BY <1>1, <2>1 DEF BaseInv, TypeInv
<1>5. OnlyOf(t)
  BY <1>1 DEF OnlyOf, BaseInv, TypeInv
<1>6. StageOf(t)'
  BY <1>0, <1>1, <1>3 DEF StageOf, DriveStages
<1>7. LocksOf(t)'
  <2>1. LocksOf(t) /\ WaitsFor(t, l)
    BY <1>0 DEF BaseInv, WaitsFor
  <2>2. \A m \in 0 .. 2 : DeviceOf(t, m)' = DeviceOf(t, m)
    BY <1>1 DEF DeviceOf
  <2>3. \A m \in 0 .. 2 : (Holds(t, m)' => Holds(t, m) \/ m = l) /\ ~WaitsFor(t, m)'
    BY <1>0, <1>1, <1>3 DEF Holds, WaitsFor
  <2>4. DeviceLock[DeviceOf(t, l)] # <<>>
    <3>1. DeviceOf(t, l) \in Devices
      BY <1>0, DeviceFacts
    <3>2. DeviceLock[DeviceOf(t, l)] \in Seq(Callers)
      BY <3>1 DEF BaseInv, TypeInv
    <3>3. \E k \in 1 .. Len(DeviceLock[DeviceOf(t, l)]) : DeviceLock[DeviceOf(t, l)][k] = t
      BY <1>0, <2>1 DEF LocksOf
    <3> QED
      BY <3>2, <3>3
  <2> QED
    BY <1>0, <1>1, <2>1, <2>2, <2>3, <2>4 DEF LocksOf
<1> QED
  BY <1>0, <1>1, <1>4, <1>5, <1>6, <1>7, KeepsBase

LEMMA BaseRelease ==
    ASSUME BaseInv, NEW t \in Callers, Release(t)
    PROVE  BaseInv'
<1> DEFINE l == irp[t].location
           d == DeviceOf(t, l)
<1>0. /\ at[t] = "release" /\ irp[t].request \in Requests /\ l \in 0 .. 2 /\ d \in Devices
      /\ Holds(t, l) /\ DeviceLock[d] # <<>> /\ Head(DeviceLock[d]) = t
  <2>1. at[t] = "release" /\ irp[t].request \in Requests /\ l \in 0 .. 2
    BY DEF Release, At, BaseInv, StageOf
  <2>2. Holds(t, l) /\ LocksOf(t)
    BY <2>1 DEF Holds, BaseInv
  <2> QED
    BY <2>1, <2>2, DeviceFacts DEF LocksOf
<1>1. /\ DeviceLock' = [DeviceLock EXCEPT ![d] = Tail(@)]
      /\ irp' = [irp EXCEPT ![t].location = @ + 1]
      /\ at' = [at EXCEPT ![t] = IF l + 1 = StackSize THEN "done" ELSE "release"]
      /\ UNCHANGED <<moved, transfer, channel, pending, isr, halted>>
  BY DEF Release, MoveTo
<1>2. DeviceLock \in [Devices -> Seq(Callers)]
  BY DEF BaseInv, TypeInv
<1>3. at'[t] = IF l = 2 THEN "done" ELSE "release"
  <2>1. at'[t] = IF l + 1 = StackSize THEN "done" ELSE "release"
    BY <1>1 DEF BaseInv, TypeInv
  <2> QED
    BY <1>0, <2>1 DEF StackSize
<1>4. irp' \in [Callers -> Irps] /\ irp'[t].location = l + 1 /\ irp'[t].request = irp[t].request
  <2>1. irp[t] \in Irps /\ irp' = [irp EXCEPT ![t] = [irp[t] EXCEPT !.location = l + 1]]
    BY <1>1 DEF BaseInv, TypeInv
  <2>2. l + 1 \in 0 .. 3
    BY <1>0
  <2>3. [irp[t] EXCEPT !.location = l + 1] \in Irps /\ [irp[t] EXCEPT !.location = l + 1].location = l + 1
    BY <2>1, <2>2, IrpUpdates
  <2> QED
    BY <2>1, <2>3 DEF BaseInv, TypeInv, Irps
<1>5. OnlyOf(t)
  BY <1>1 DEF OnlyOf, BaseInv, TypeInv
<1>6. TypeInv'
  <2>1. at' \in [Callers -> Stages]
    BY <1>1 DEF BaseInv, TypeInv, Stages
  <2>2. DeviceLock' \in [Devices -> Seq(Callers)]
    BY <1>0, <1>1, <1>2
  <2> QED
    BY <1>1, <1>4, <2>1, <2>2 DEF BaseInv, TypeInv
<1>7. StageOf(t)'
  BY <1>0, <1>3, <1>4 DEF StageOf, DriveStages
<1>8. ASSUME NEW e \in Devices
      PROVE  DeviceLock'[e] = IF e = d THEN Tail(DeviceLock[e]) ELSE DeviceLock[e]
  BY <1>0, <1>1, <1>2
<1>9. ASSUME NEW u \in Callers, u # t
      PROVE  LocksOf(u)'
  <2>1. at'[u] = at[u] /\ irp'[u] = irp[u] /\ LocksOf(u)
    BY <1>5, <1>9 DEF OnlyOf, BaseInv
  <2>2. ASSUME NEW m \in 0 .. 2
        PROVE  /\ Holds(u, m)' <=> Holds(u, m)
               /\ WaitsFor(u, m)' <=> WaitsFor(u, m)
               /\ DeviceOf(u, m)' = DeviceOf(u, m)
               /\ Holds(u, m) \/ WaitsFor(u, m) => DeviceOf(u, m) \in Devices
    BY <2>1, DeviceFacts DEF Holds, WaitsFor, DeviceOf, BaseInv, StageOf
  <2>3. ASSUME NEW e \in Devices, NEW k \in 1 .. Len(DeviceLock[e]), DeviceLock[e][k] = u
        PROVE  \E j \in 1 .. Len(DeviceLock'[e]) : DeviceLock'[e][j] = u
    <3>1. CASE e # d
      BY <1>8, <2>3, <3>1
    <3>2. CASE e = d
      <4>1. DeviceLock[e] \in Seq(Callers) /\ DeviceLock[e] # <<>> /\ Head(DeviceLock[e]) # u
            /\ DeviceLock'[e] = Tail(DeviceLock[e])
        BY <1>0, <1>2, <1>8, <1>9, <3>2
      <4>2. k # 1
        BY <2>3, <4>1
      <4>3. k - 1 \in 1 .. Len(Tail(DeviceLock[e])) /\ Tail(DeviceLock[e])[k - 1] = DeviceLock[e][k]
        BY <4>1, <4>2
      <4> QED
        BY <2>3, <4>1, <4>3
    <3> QED
      BY <3>1, <3>2
  <2>4. ASSUME NEW e \in Devices, DeviceLock[e] # <<>>, Head(DeviceLock[e]) = u
        PROVE  DeviceLock'[e] = DeviceLock[e]
    BY <1>0, <1>8, <1>9, <2>4
  <2> QED
    BY <2>1, <2>2, <2>3, <2>4 DEF LocksOf
<1>10. LocksOf(t)'
  <2>1. \A m \in 0 .. 2 : DeviceOf(t, m)' = DeviceOf(t, m) /\ DeviceOf(t, m) \in Devices
    BY <1>0, <1>4, DeviceFacts DEF DeviceOf
  <2>2. \A m \in 0 .. 2 : (Holds(t, m)' => Holds(t, m) /\ m # l) /\ ~WaitsFor(t, m)'
    BY <1>0, <1>3, <1>4 DEF Holds, WaitsFor
  <2>3. \A m \in 0 .. 2 : m # l => DeviceOf(t, m) # d
    BY <1>0, DeviceFacts
  <2>4. LocksOf(t)
    BY DEF BaseInv
  <2> QED
    BY <1>8, <2>1, <2>2, <2>3, <2>4 DEF LocksOf
<1>11. \A e \in DriveSet : WaitersOf(e)'
  BY <1>0, <1>1, <1>5, WaitersKept
<1> QED
  BY <1>5, <1>6, <1>7, <1>9, <1>10, <1>11, OthersKeepStage DEF BaseInv

LEMMA MoverFacts ==
    ASSUME BaseInv, NEW t \in Callers, NEW l \in Stages, at' = [at EXCEPT ![t] = l]
    PROVE  /\ at' \in [Callers -> Stages] /\ at'[t] = l
           /\ \A u \in Callers : u # t => at'[u] = at[u]
BY DEF BaseInv, TypeInv

LEMMA FailFacts ==
    ASSUME BaseInv, NEW t \in Callers, NEW st \in Statuses, irp' = [irp EXCEPT ![t].status = st]
    PROVE  /\ irp' \in [Callers -> Irps] /\ irp'[t].status = st
           /\ irp'[t].request = irp[t].request /\ irp'[t].location = irp[t].location
           /\ irp'[t].offset = irp[t].offset
           /\ \A u \in Callers : u # t => irp'[u] = irp[u]
<1>1. irp[t] \in Irps /\ irp' = [irp EXCEPT ![t] = [irp[t] EXCEPT !.status = st]]
  BY DEF BaseInv, TypeInv
<1>2. [irp[t] EXCEPT !.status = st] \in Irps
  BY <1>1, IrpUpdates
<1> QED
  BY <1>1, <1>2 DEF BaseInv, TypeInv, Irps

LEMMA SuccessFacts ==
    ASSUME BaseInv, NEW t \in Callers, NEW n \in Nat,
           irp' = [irp EXCEPT ![t].status = "success", ![t].information = n]
    PROVE  /\ irp' \in [Callers -> Irps] /\ irp'[t].status = "success" /\ irp'[t].information = n
           /\ irp'[t].request = irp[t].request /\ irp'[t].location = irp[t].location
           /\ irp'[t].offset = irp[t].offset
           /\ \A u \in Callers : u # t => irp'[u] = irp[u]
<1>1. irp[t] \in Irps /\ irp' = [irp EXCEPT ![t] = [[irp[t] EXCEPT !.status = "success"] EXCEPT !.information = n]]
  BY DEF BaseInv, TypeInv
<1>2. [[irp[t] EXCEPT !.status = "success"] EXCEPT !.information = n] \in Irps
  BY <1>1, IrpUpdates DEF Statuses
<1> QED
  BY <1>1, <1>2 DEF BaseInv, TypeInv, Irps

LEMMA TransferUpdates ==
    ASSUME NEW x \in Transfers
    PROVE  /\ \A u \in Callers : [x EXCEPT !.Waiting = <<u>>] \in Transfers
           /\ [x EXCEPT !.Signaled = TRUE] \in Transfers
           /\ [x EXCEPT !.Signaled = TRUE].State = x.State /\ [x EXCEPT !.Signaled = TRUE].Signaled = TRUE
           /\ [x EXCEPT !.Waiting = <<>>] \in Transfers
           /\ [x EXCEPT !.Waiting = <<>>].State = x.State /\ [x EXCEPT !.Waiting = <<>>].Waiting = <<>>
           /\ [x EXCEPT !.Waiting = <<>>].Signaled = x.Signaled
<1>1. \A u \in Callers : <<u>> \in Seq(Callers)
  OBVIOUS
<1>2. <<>> \in Seq(Callers)
  OBVIOUS
<1>3. \A q \in Seq(Callers) : [x EXCEPT !.Waiting = q] \in Transfers
  BY DEF Transfers
<1>4. [x EXCEPT !.Signaled = TRUE] \in Transfers
  BY DEF Transfers
<1> QED
  BY <1>1, <1>2, <1>3, <1>4 DEF Transfers

LEMMA TransferFacts ==
    ASSUME BaseInv, NEW d \in DriveSet, NEW x \in {"Free", "InProgress", "Finished"},
           transfer' = [transfer EXCEPT ![d].State = x]
    PROVE  /\ transfer' \in [DriveSet -> Transfers] /\ transfer'[d].State = x
           /\ transfer'[d].Signaled = transfer[d].Signaled
           /\ \A e \in DriveSet : transfer'[e].Waiting = transfer[e].Waiting
BY DEF BaseInv, TypeInv, Transfers

\* A thread at the drive stays there, or leaves it with the device still locked.
LEMMA DriveMover ==
    ASSUME BaseInv, TypeInv', NEW t \in Callers, at[t] \in DriveStages, at[t] # "blocked",
           at'[t] \in DriveStages \cup {"release"},
           \A u \in Callers : u # t => at'[u] = at[u] /\ irp'[u] = irp[u],
           irp'[t].request = irp[t].request, irp'[t].location = irp[t].location,
           DeviceLock' = DeviceLock,
           \A d \in DriveSet : transfer'[d].Waiting = transfer[d].Waiting
    PROVE  BaseInv'
<1>1. OnlyOf(t)
  BY DEF OnlyOf
<1>2. StageOf(t) /\ at[t] \notin {"idle", "acquire"} /\ at'[t] # "acquire"
  BY DEF BaseInv, DriveStages
<1>3. StageOf(t)'
  BY <1>2 DEF StageOf, DriveStages
<1> QED
  BY <1>1, <1>2, <1>3, MoverKeepsBase

LEMMA BaseVolDispatchReadWrite ==
    ASSUME BaseInv, NEW t \in Callers, VolDispatchReadWrite(t)
    PROVE  BaseInv'
<1> DEFINE p == DiskLayout[irp[t].request.volume]
<1>1. at[t] = "volume" /\ StageOf(t) /\ irp[t].request \in Requests /\ Sector(t) \in Nat
      /\ p.OffsetInDisk \in Nat
  <2>1. at[t] = "volume" /\ StageOf(t)
    BY DEF VolDispatchReadWrite, At, BaseInv
  <2> QED
    BY <2>1, RequestFacts, StorageConstants
<1>2. UNCHANGED <<DeviceLock, moved, transfer, channel, pending, isr, halted>>
  BY DEF VolDispatchReadWrite
<1>3. CASE InPartition(p, Sector(t), Count(t))
  <2> DEFINE n == (Sector(t) + p.OffsetInDisk) * SECTOR_SIZE
  <2>1. irp' = [irp EXCEPT ![t].offset = n] /\ at' = [at EXCEPT ![t] = "call"]
    BY <1>3 DEF VolDispatchReadWrite, MoveTo
  <2>2. n \in Nat
    BY <1>1, SectorArithmetic
  <2>3. irp[t] \in Irps
    BY DEF BaseInv, TypeInv
  <2>4. [irp[t] EXCEPT !.offset = n] \in Irps
    <3> HIDE DEF n
    <3> QED
      BY <2>2, <2>3, IrpUpdates
  <2>5. /\ irp' \in [Callers -> Irps] /\ \A u \in Callers : u # t => irp'[u] = irp[u]
        /\ irp'[t].request = irp[t].request /\ irp'[t].location = irp[t].location
    <3> HIDE DEF n
    <3> QED
      BY <2>1, <2>3, <2>4 DEF BaseInv, TypeInv, Irps
  <2>6. at' \in [Callers -> Stages] /\ at'[t] = "call" /\ \A u \in Callers : u # t => at'[u] = at[u]
    BY <2>1, MoverFacts DEF Stages
  <2>7. OnlyOf(t) /\ TypeInv'
    BY <1>2, <2>5, <2>6 DEF OnlyOf, BaseInv, TypeInv
  <2>8. StageOf(t)'
    BY <1>1, <2>5, <2>6 DEF StageOf, DriveStages
  <2> QED
    BY <1>1, <1>2, <2>5, <2>6, <2>7, <2>8, MoverKeepsBase
<1>4. CASE ~InPartition(p, Sector(t), Count(t))
  <2>1. irp' = [irp EXCEPT ![t].status = "exceeded"] /\ at' = [at EXCEPT ![t] = "release"]
    BY <1>4 DEF VolDispatchReadWrite, MoveTo, Fail
  <2>2. /\ irp' \in [Callers -> Irps] /\ \A u \in Callers : u # t => irp'[u] = irp[u]
        /\ irp'[t].request = irp[t].request /\ irp'[t].location = irp[t].location
    BY <2>1, FailFacts DEF Statuses
  <2>3. at' \in [Callers -> Stages] /\ at'[t] = "release" /\ \A u \in Callers : u # t => at'[u] = at[u]
    BY <2>1, MoverFacts DEF Stages
  <2>4. OnlyOf(t) /\ TypeInv'
    BY <1>2, <2>2, <2>3 DEF OnlyOf, BaseInv, TypeInv
  <2>5. StageOf(t)'
    BY <1>1, <2>2, <2>3 DEF StageOf, DriveStages
  <2> QED
    BY <1>1, <1>2, <2>2, <2>3, <2>4, <2>5, MoverKeepsBase
<1> QED
  BY <1>3, <1>4

LEMMA BaseDiskDispatchReadWrite ==
    ASSUME BaseInv, NEW t \in Callers, DiskDispatchReadWrite(t)
    PROVE  BaseInv'
<1>1. at[t] = "disk" /\ StageOf(t)
  BY DEF DiskDispatchReadWrite, At, BaseInv
<1>2. at' = [at EXCEPT ![t] = "call"] /\ UNCHANGED <<DeviceLock, irp, moved, transfer, channel, pending, isr, halted>>
  BY DEF DiskDispatchReadWrite, MoveTo
<1>3. at' \in [Callers -> Stages] /\ at'[t] = "call" /\ \A u \in Callers : u # t => at'[u] = at[u]
  BY <1>2, MoverFacts DEF Stages
<1>4. OnlyOf(t) /\ TypeInv'
  BY <1>2, <1>3 DEF OnlyOf, BaseInv, TypeInv
<1>5. StageOf(t)'
  BY <1>1, <1>2, <1>3 DEF StageOf, DriveStages
<1> QED
  BY <1>1, <1>2, <1>3, <1>4, <1>5, MoverKeepsBase

LEMMA BaseAtaDispatchReadWrite ==
    ASSUME BaseInv, NEW t \in Callers, AtaDispatchReadWrite(t)
    PROVE  BaseInv'
<1>1. at[t] = "drive" /\ Drive(t) \in DriveSet
  BY RequestFacts DEF AtaDispatchReadWrite, At
<1>2. UNCHANGED <<DeviceLock, moved, channel, pending, isr>>
  BY DEF AtaDispatchReadWrite
<1>3. ASSUME NEW st \in Statuses, Fail(t, st, "release"), UNCHANGED <<transfer, halted>>
      PROVE  BaseInv'
  <2>1. irp' = [irp EXCEPT ![t].status = st] /\ at' = [at EXCEPT ![t] = "release"]
    BY <1>3 DEF Fail, MoveTo
  <2>2. /\ irp' \in [Callers -> Irps] /\ \A u \in Callers : u # t => irp'[u] = irp[u]
        /\ irp'[t].request = irp[t].request /\ irp'[t].location = irp[t].location
    BY <2>1, FailFacts
  <2>3. at' \in [Callers -> Stages] /\ at'[t] = "release" /\ \A u \in Callers : u # t => at'[u] = at[u]
    BY <2>1, MoverFacts DEF Stages
  <2>4. TypeInv'
    BY <1>2, <1>3, <2>2, <2>3 DEF BaseInv, TypeInv
  <2>5. at[t] \in DriveStages /\ at[t] # "blocked"
    BY <1>1 DEF DriveStages
  <2> QED
    BY <1>2, <1>3, <2>2, <2>3, <2>4, <2>5, DriveMover
<1>4. CASE halted' = TRUE /\ UNCHANGED <<at, irp, transfer>>
  <2>1. TypeInv' /\ at[t] \in DriveStages
    BY <1>1, <1>2, <1>4 DEF BaseInv, TypeInv, DriveStages
  <2> QED
    BY <1>1, <1>2, <1>4, <2>1, DriveMover
<1>5. CASE /\ transfer' = [transfer EXCEPT ![Drive(t)].State = "InProgress"]
           /\ MoveTo(t, "select")
           /\ UNCHANGED <<irp, halted>>
  <2>1. transfer' \in [DriveSet -> Transfers] /\ \A e \in DriveSet : transfer'[e].Waiting = transfer[e].Waiting
    BY <1>1, <1>5, TransferFacts
  <2>2. at' \in [Callers -> Stages] /\ at'[t] = "select" /\ \A u \in Callers : u # t => at'[u] = at[u]
    BY <1>5, MoverFacts DEF MoveTo, Stages, DriveStages
  <2>3. TypeInv' /\ at[t] \in DriveStages /\ at'[t] \in DriveStages
    BY <1>1, <1>2, <1>5, <2>1, <2>2 DEF BaseInv, TypeInv, DriveStages
  <2> QED
    BY <1>1, <1>2, <1>5, <2>1, <2>2, <2>3, DriveMover
<1>6. \/ Fail(t, "exceeded", "release") /\ UNCHANGED <<transfer, halted>>
      \/ Fail(t, "invalid parameter", "release") /\ UNCHANGED <<transfer, halted>>
      \/ halted' = TRUE /\ UNCHANGED <<at, irp, transfer>>
      \/ /\ transfer' = [transfer EXCEPT ![Drive(t)].State = "InProgress"]
         /\ MoveTo(t, "select")
         /\ UNCHANGED <<irp, halted>>
  BY DEF AtaDispatchReadWrite
<1>7. "exceeded" \in Statuses /\ "invalid parameter" \in Statuses
  BY DEF Statuses
<1> QED
  BY <1>3, <1>4, <1>5, <1>6, <1>7

\* The steps that program the channel change no more than it and the thread's place.
LEMMA ChannelMover ==
    ASSUME BaseInv, NEW t \in Callers, at[t] \in DriveStages, at[t] # "blocked",
           NEW l \in DriveStages, at' = [at EXCEPT ![t] = l], channel' \in Channels,
           UNCHANGED <<DeviceLock, irp, moved, transfer, pending, isr, halted>>
    PROVE  BaseInv'
<1>1. at' \in [Callers -> Stages] /\ at'[t] = l /\ \A u \in Callers : u # t => at'[u] = at[u]
  BY MoverFacts DEF Stages
<1>2. TypeInv'
  BY <1>1 DEF BaseInv, TypeInv
<1> QED
  BY <1>1, <1>2, DriveMover

LEMMA BaseChannelSteps ==
    ASSUME BaseInv, NEW t \in Callers,
           AtaSelectDevice(t) \/ AtaWriteIOParameters(t) \/ AtaWriteCommand(t) \/ AtaStart(t)
    PROVE  BaseInv'
<1>0. at[t] \in {"select", "parameters", "command", "start"}
  BY DEF AtaSelectDevice, AtaWriteIOParameters, AtaWriteCommand, AtaStart, At
<1>1. /\ Drive(t) \in DriveSet /\ Sector(t) \in Nat /\ Count(t) \in Nat /\ irp[t].request.async \in BOOLEAN
      /\ channel \in Channels /\ at[t] \in DriveStages /\ at[t] # "blocked"
  BY <1>0, RequestFacts DEF BaseInv, TypeInv, DriveStages
<1>2. CASE AtaSelectDevice(t)
  <2>1. channel' \in Channels
    BY <1>1, <1>2 DEF AtaSelectDevice, Channels
  <2>2. at' = [at EXCEPT ![t] = "parameters"] /\ UNCHANGED <<DeviceLock, irp, moved, transfer, pending, isr, halted>>
    BY <1>2 DEF AtaSelectDevice, MoveTo
  <2> QED
    BY <1>1, <2>1, <2>2, ChannelMover DEF DriveStages
<1>3. CASE AtaWriteIOParameters(t)
  <2>1. channel' \in Channels
    BY <1>1, <1>3 DEF AtaWriteIOParameters, Channels
  <2>2. /\ at' = [at EXCEPT ![t] = IF irp[t].request.async THEN "prdt" ELSE "command"]
        /\ UNCHANGED <<DeviceLock, irp, moved, transfer, pending, isr, halted>>
    BY <1>3 DEF AtaWriteIOParameters, MoveTo
  <2>3. (IF irp[t].request.async THEN "prdt" ELSE "command") \in DriveStages
    BY DEF DriveStages
  <2> QED
    BY <1>1, <2>1, <2>2, <2>3, ChannelMover
<1>4. CASE AtaWriteCommand(t)
  <2>1. [drive |-> channel.selected, dma |-> irp[t].request.async,
         sectors |-> {<<channel.selected, channel.lba + i>> : i \in 0 .. channel.count - 1}] \in Commands
    BY <1>1 DEF Channels, Commands, Sectors
  <2>2. channel' \in Channels
    BY <1>1, <1>4, <2>1 DEF AtaWriteCommand, Channels
  <2>3. /\ at' = [at EXCEPT ![t] = IF irp[t].request.async THEN "start" ELSE "buffer"]
        /\ UNCHANGED <<DeviceLock, irp, moved, transfer, pending, isr, halted>>
    BY <1>4 DEF AtaWriteCommand, MoveTo
  <2>4. (IF irp[t].request.async THEN "start" ELSE "buffer") \in DriveStages
    BY DEF DriveStages
  <2> QED
    BY <1>1, <2>2, <2>3, <2>4, ChannelMover
<1>5. CASE AtaStart(t)
  <2>1. channel' \in Channels
    BY <1>1, <1>5 DEF AtaStart, Channels
  <2>2. at' = [at EXCEPT ![t] = "wait"] /\ UNCHANGED <<DeviceLock, irp, moved, transfer, pending, isr, halted>>
    BY <1>5 DEF AtaStart, MoveTo
  <2> QED
    BY <1>1, <2>1, <2>2, ChannelMover DEF DriveStages
<1> QED
  BY <1>2, <1>3, <1>4, <1>5

LEMMA BaseAtaPrepareDmaTransfer ==
    ASSUME BaseInv, NEW t \in Callers, AtaPrepareDmaTransfer(t)
    PROVE  BaseInv'
<1>1. at[t] = "prdt" /\ Drive(t) \in DriveSet /\ at[t] \in DriveStages /\ channel \in Channels
  BY RequestFacts DEF AtaPrepareDmaTransfer, At, DriveStages, BaseInv, TypeInv
<1>2. UNCHANGED <<DeviceLock, moved, channel, pending, isr, halted>>
  BY DEF AtaPrepareDmaTransfer
<1>3. CASE Fail(t, "no dma", "release") /\ transfer' = [transfer EXCEPT ![Drive(t)].State = "Free"]
  <2>1. /\ irp' \in [Callers -> Irps] /\ \A u \in Callers : u # t => irp'[u] = irp[u]
        /\ irp'[t].request = irp[t].request /\ irp'[t].location = irp[t].location
    BY <1>3, FailFacts DEF Fail, Statuses
  <2>2. at' \in [Callers -> Stages] /\ at'[t] = "release" /\ \A u \in Callers : u # t => at'[u] = at[u]
    BY <1>3, MoverFacts DEF Fail, MoveTo, Stages
  <2>3. transfer' \in [DriveSet -> Transfers] /\ \A e \in DriveSet : transfer'[e].Waiting = transfer[e].Waiting
    BY <1>1, <1>3, TransferFacts
  <2>4. TypeInv'
    BY <1>2, <2>1, <2>2, <2>3 DEF BaseInv, TypeInv
  <2> QED
    BY <1>1, <1>2, <2>1, <2>2, <2>3, <2>4, DriveMover
<1>4. CASE at' = [at EXCEPT ![t] = "command"] /\ UNCHANGED <<irp, transfer>>
  BY <1>1, <1>2, <1>4, ChannelMover DEF DriveStages
<1> QED
  BY <1>3, <1>4 DEF AtaPrepareDmaTransfer, MoveTo

\* The transfer is over: its State and the IRP are written and the device is left.
LEMMA SuccessMover ==
    ASSUME BaseInv, NEW t \in Callers, at[t] \in DriveStages, at[t] # "blocked",
           irp' = [irp EXCEPT ![t].status = "success", ![t].information = Count(t) * SECTOR_SIZE],
           transfer' = [transfer EXCEPT ![Drive(t)].State = "Free"],
           at' = [at EXCEPT ![t] = "release"],
           moved' \in [Callers -> SUBSET Sectors], channel' \in Channels,
           UNCHANGED <<DeviceLock, pending, isr, halted>>
    PROVE  BaseInv'
<1>0. Drive(t) \in DriveSet /\ Count(t) * SECTOR_SIZE \in Nat
  BY RequestFacts DEF DriveStages
<1>1. /\ irp' \in [Callers -> Irps] /\ \A u \in Callers : u # t => irp'[u] = irp[u]
      /\ irp'[t].request = irp[t].request /\ irp'[t].location = irp[t].location
  BY <1>0, SuccessFacts
<1>2. at' \in [Callers -> Stages] /\ at'[t] = "release" /\ \A u \in Callers : u # t => at'[u] = at[u]
  BY MoverFacts DEF Stages
<1>3. transfer' \in [DriveSet -> Transfers] /\ \A e \in DriveSet : transfer'[e].Waiting = transfer[e].Waiting
  BY <1>0, TransferFacts
<1>4. TypeInv'
  BY <1>1, <1>2, <1>3 DEF BaseInv, TypeInv
<1> QED
  BY <1>1, <1>2, <1>3, <1>4, DriveMover

LEMMA BaseAtaReadWriteBuffer ==
    ASSUME BaseInv, NEW t \in Callers, AtaReadWriteBuffer(t)
    PROVE  BaseInv'
<1>1. at[t] \in DriveStages /\ at[t] # "blocked"
  BY DEF AtaReadWriteBuffer, At, DriveStages
<1>2. channel \in Channels /\ moved \in [Callers -> SUBSET Sectors] /\ channel.command # Nil
  BY DEF BaseInv, TypeInv, AtaReadWriteBuffer
<1>3. channel.command.sectors \subseteq Sectors
  BY <1>2 DEF Channels, Commands
<1>4. moved' \in [Callers -> SUBSET Sectors]
  BY <1>2, <1>3 DEF AtaReadWriteBuffer
<1>5. channel' \in Channels
  BY <1>2 DEF AtaReadWriteBuffer, Channels
<1> QED
  BY <1>1, <1>4, <1>5, SuccessMover DEF AtaReadWriteBuffer, MoveTo

LEMMA BaseAtaFinish ==
    ASSUME BaseInv, NEW t \in Callers, AtaFinish(t)
    PROVE  BaseInv'
<1>1. /\ at[t] \in DriveStages /\ at[t] # "blocked"
      /\ channel \in Channels /\ moved \in [Callers -> SUBSET Sectors]
      /\ UNCHANGED <<DeviceLock, moved, channel, pending, isr>>
  BY DEF AtaFinish, At, DriveStages, BaseInv, TypeInv
<1>2. CASE halted' = TRUE /\ UNCHANGED <<at, irp, transfer>>
  <2>1. TypeInv'
    BY <1>1, <1>2 DEF BaseInv, TypeInv
  <2> QED
    BY <1>1, <1>2, <2>1, DriveMover
<1>3. CASE /\ irp' = [irp EXCEPT ![t].status = "success", ![t].information = Count(t) * SECTOR_SIZE]
           /\ transfer' = [transfer EXCEPT ![Drive(t)].State = "Free"]
           /\ MoveTo(t, "release")
           /\ UNCHANGED halted
  BY <1>1, <1>3, SuccessMover DEF MoveTo
<1> QED
  BY <1>2, <1>3 DEF AtaFinish

LEMMA BaseWaitTest ==
    ASSUME BaseInv, NEW t \in Callers, WaitTest(t)
    PROVE  BaseInv'
<1>1. at[t] = "wait" /\ Drive(t) \in DriveSet /\ at[t] \in DriveStages
  BY RequestFacts DEF WaitTest, At, DriveStages
<1>2. UNCHANGED <<DeviceLock, irp, moved, channel, pending, isr, halted>>
  BY DEF WaitTest
<1>3. transfer' \in [DriveSet -> Transfers] /\ \A e \in DriveSet : transfer'[e].Waiting = transfer[e].Waiting
  BY <1>1 DEF WaitTest, BaseInv, TypeInv, Transfers
<1>4. /\ at' \in [Callers -> Stages] /\ at'[t] \in {"finished", "insert"}
      /\ \A u \in Callers : u # t => at'[u] = at[u]
  BY DEF WaitTest, MoveTo, BaseInv, TypeInv, Stages, DriveStages
<1>5. TypeInv' /\ at'[t] \in DriveStages
  BY <1>2, <1>3, <1>4 DEF BaseInv, TypeInv, DriveStages
<1> QED
  BY <1>1, <1>2, <1>3, <1>4, <1>5, DriveMover

LEMMA BaseWaitInsert ==
    ASSUME BaseInv, NEW t \in Callers, WaitInsert(t)
    PROVE  BaseInv'
<1>1. at[t] = "insert" /\ Drive(t) \in DriveSet /\ at[t] \in DriveStages
  BY RequestFacts DEF WaitInsert, At, DriveStages
<1>2. UNCHANGED <<DeviceLock, irp, moved, channel, pending, isr, halted>>
  BY DEF WaitInsert
<1>3. transfer[Drive(t)].Waiting = <<>>
  <2>1. SUFFICES ASSUME NEW u \in Callers, at[u] = "blocked", Drive(u) = Drive(t) PROVE FALSE
    BY <1>1 DEF BaseInv, WaitersOf
  <2>2. at[u] \in DriveStages
    BY <2>1 DEF DriveStages
  <2> QED
    BY <1>1, <2>1, <2>2, OneAtDrive
<1>4. /\ transfer' \in [DriveSet -> Transfers] /\ transfer'[Drive(t)].Waiting = <<t>>
      /\ \A e \in DriveSet : e # Drive(t) => transfer'[e].Waiting = transfer[e].Waiting
  <2>1. transfer[Drive(t)] \in Transfers /\ Append(transfer[Drive(t)].Waiting, t) = <<t>>
    BY <1>1, <1>3 DEF BaseInv, TypeInv
  <2>2. transfer' = [transfer EXCEPT ![Drive(t)].Waiting = <<t>>]
    BY <2>1 DEF WaitInsert
  <2>3. [transfer[Drive(t)] EXCEPT !.Waiting = <<t>>] \in Transfers
    BY <2>1, TransferUpdates
  <2> QED
    BY <1>1, <2>1, <2>2, <2>3 DEF BaseInv, TypeInv, Transfers
<1>5. at' \in [Callers -> Stages] /\ at'[t] = "blocked" /\ \A u \in Callers : u # t => at'[u] = at[u]
  BY MoverFacts DEF WaitInsert, MoveTo, Stages, DriveStages
<1>6. TypeInv' /\ OnlyOf(t)
  BY <1>2, <1>4, <1>5 DEF BaseInv, TypeInv, OnlyOf
<1>7. StageOf(t)'
  <2>1. StageOf(t)
    BY DEF BaseInv
  <2> QED
    BY <1>1, <1>2, <1>5, <2>1 DEF StageOf, DriveStages
<1>8. LocksOf(t)'
  BY <1>1, <1>2, <1>5, MoverKeepsLocks
<1>9. ASSUME NEW e \in DriveSet
      PROVE  WaitersOf(e)'
  <2>1. CASE e = Drive(t)
    <3>1. Drive(t)' = Drive(t)
      BY <1>2 DEF Drive
    <3> QED
      BY <1>4, <1>5, <2>1, <3>1 DEF WaitersOf
  <2>2. CASE e # Drive(t)
    BY <1>1, <1>4, <1>6, <2>2, WaitersKept
  <2> QED
    BY <2>1, <2>2
<1> QED
  BY <1>2, <1>6, <1>7, <1>8, <1>9, OthersKeepStage, OthersKeepLocks DEF BaseInv

----------------------------------------------------------------------------
\* The steps of the drive and of the interrupt handlers

\* No thread's place or IRP changes.
LEMMA ChannelKeepsBase ==
    ASSUME BaseInv, TypeInv', UNCHANGED <<DeviceLock, at, irp>>,
           \A d \in DriveSet : transfer'[d].Waiting = transfer[d].Waiting
    PROVE  BaseInv'
<1>1. ASSUME NEW t \in Callers
      PROVE  StageOf(t)' /\ LocksOf(t)'
  BY ThreadKept
<1>2. ASSUME NEW d \in DriveSet
      PROVE  WaitersOf(d)'
  BY DEF BaseInv, WaitersOf, Drive
<1> QED
  BY <1>1, <1>2 DEF BaseInv

LEMMA BaseDmaComplete ==
    ASSUME BaseInv, DmaComplete
    PROVE  BaseInv'
<1>1. channel \in Channels /\ moved \in [Callers -> SUBSET Sectors] /\ channel.command # Nil
  BY DEF BaseInv, TypeInv, DmaComplete
<1>2. channel.command.sectors \subseteq Sectors
  BY <1>1 DEF Channels, Commands
<1>3. moved' \in [Callers -> SUBSET Sectors]
  BY <1>1, <1>2 DEF DmaComplete
<1>4. channel' \in Channels /\ pending' \in BOOLEAN
  BY <1>1 DEF DmaComplete, Channels
<1>5. UNCHANGED <<DeviceLock, at, irp, transfer, isr, halted>>
  BY DEF DmaComplete
<1>6. TypeInv'
  BY <1>3, <1>4, <1>5 DEF BaseInv, TypeInv
<1> QED
  BY <1>5, <1>6, ChannelKeepsBase

LEMMA HandlerFacts ==
    ASSUME BaseInv, NEW c \in IoCpus
    PROVE  /\ isr[c] \in Handlers /\ Handling(c) \in DriveSet /\ NoInterrupt \in Handlers
           /\ \A x \in {"idle", "test", "claim", "failed", "signal", "ack"} : [isr[c] EXCEPT !.cpu = x] \in Handlers
<1>1. isr[c] \in Handlers
  BY DEF BaseInv, TypeInv
<1>2. isr[c].next \in 1 .. Len(Drives)
  BY <1>1 DEF Handlers
<1>3. Handling(c) \in DriveSet
  BY <1>2, StorageConstants DEF Handling
<1>4. 1 \in 1 .. Len(Drives)
  BY StorageConstants
<1> QED
  BY <1>1, <1>3, <1>4 DEF Handlers, NoInterrupt

LEMMA BaseDeliver ==
    ASSUME BaseInv, NEW c \in IoCpus, Deliver(c)
    PROVE  BaseInv'
<1>1. [cpu |-> "test", next |-> 1] \in Handlers
  BY StorageConstants DEF Handlers
<1>2. isr' \in [IoCpus -> Handlers] /\ pending' \in BOOLEAN
  BY <1>1 DEF Deliver, BaseInv, TypeInv
<1>3. UNCHANGED <<DeviceLock, at, irp, moved, transfer, channel, halted>>
  BY DEF Deliver
<1>4. TypeInv'
  BY <1>2, <1>3 DEF BaseInv, TypeInv
<1> QED
  BY <1>3, <1>4, ChannelKeepsBase

LEMMA BaseIsrTest ==
    ASSUME BaseInv, NEW c \in IoCpus, IsrTest(c)
    PROVE  BaseInv'
<1>1. UNCHANGED <<DeviceLock, at, irp, moved, transfer, pending, halted>>
  BY DEF IsrTest
<1>2. channel' \in Channels
  BY HandlerFacts DEF IsrTest, BaseInv, TypeInv, Channels
<1>3. isr[c].next # Len(Drives) => [isr[c] EXCEPT !.next = isr[c].next + 1] \in Handlers
  <2>1. isr[c] \in Handlers
    BY HandlerFacts
  <2>2. isr[c].next # Len(Drives) => isr[c].next + 1 \in 1 .. Len(Drives)
    BY <2>1, StorageConstants DEF Handlers
  <2>3. \A n \in 1 .. Len(Drives) : [isr[c] EXCEPT !.next = n] \in Handlers
    BY <2>1 DEF Handlers
  <2> QED
    BY <2>2, <2>3
<1>4. \E h \in {[isr[c] EXCEPT !.cpu = "claim"], [isr[c] EXCEPT !.cpu = "failed"],
              IF isr[c].next = Len(Drives) THEN NoInterrupt ELSE [isr[c] EXCEPT !.next = isr[c].next + 1]} :
          isr' = [isr EXCEPT ![c] = h]
  BY DEF IsrTest
<1>5. isr' \in [IoCpus -> Handlers]
  BY <1>3, <1>4, HandlerFacts DEF BaseInv, TypeInv
<1>6. TypeInv'
  BY <1>1, <1>2, <1>5 DEF BaseInv, TypeInv
<1> QED
  BY <1>1, <1>6, ChannelKeepsBase

LEMMA BaseIsrClaim ==
    ASSUME BaseInv, NEW c \in IoCpus, IsrClaim(c)
    PROVE  BaseInv'
<1>1. UNCHANGED <<DeviceLock, at, irp, moved, pending>>
  BY DEF IsrClaim
<1>2. channel' \in Channels
  BY DEF IsrClaim, BaseInv, TypeInv, Channels
<1>3. CASE halted' = TRUE /\ UNCHANGED <<transfer, isr>>
  <2>1. TypeInv'
    BY <1>1, <1>2, <1>3 DEF BaseInv, TypeInv
  <2> QED
    BY <1>1, <1>3, <2>1, ChannelKeepsBase
<1>4. CASE /\ transfer' = [transfer EXCEPT ![Handling(c)].State = "Finished"]
           /\ isr' = [isr EXCEPT ![c].cpu = "signal"]
           /\ UNCHANGED halted
  <2>1. transfer' \in [DriveSet -> Transfers] /\ \A e \in DriveSet : transfer'[e].Waiting = transfer[e].Waiting
    BY <1>4, HandlerFacts, TransferFacts
  <2>2. isr' \in [IoCpus -> Handlers]
    BY <1>4, HandlerFacts DEF BaseInv, TypeInv
  <2>3. TypeInv'
    BY <1>1, <1>2, <1>4, <2>1, <2>2 DEF BaseInv, TypeInv
  <2> QED
    BY <1>1, <2>1, <2>3, ChannelKeepsBase
<1> QED
  BY <1>3, <1>4 DEF IsrClaim

LEMMA BaseIsrAck ==
    ASSUME BaseInv, NEW c \in IoCpus, IsrAck(c)
    PROVE  BaseInv'
<1>1. UNCHANGED <<DeviceLock, at, irp, moved, transfer, pending, halted>>
  BY DEF IsrAck
<1>2. channel' \in Channels
  BY DEF IsrAck, BaseInv, TypeInv, Channels
<1>3. isr' \in [IoCpus -> Handlers]
  BY HandlerFacts DEF IsrAck, BaseInv, TypeInv
<1>4. TypeInv'
  BY <1>1, <1>2, <1>3 DEF BaseInv, TypeInv
<1> QED
  BY <1>1, <1>4, ChannelKeepsBase

\* What the signal does to the transfer of the handler's drive.
LEMMA SignalFacts ==
    ASSUME BaseInv, NEW c \in IoCpus, IsrSignal(c)
    PROVE  LET d == Handling(c) IN
           /\ d \in DriveSet /\ transfer' \in [DriveSet -> Transfers]
           /\ transfer'[d].Signaled = TRUE /\ transfer'[d].State = transfer[d].State
           /\ transfer'[d].Waiting = <<>>
           /\ \A e \in DriveSet : e # d => transfer'[e] = transfer[e]
           /\ \/ transfer[d].Waiting = <<>> /\ at' = at
              \/ \E u \in Callers :
                     /\ transfer[d].Waiting = <<u>> /\ at[u] = "blocked" /\ Drive(u) = d
                     /\ at' = [at EXCEPT ![u] = "wait"]
<1> DEFINE d == Handling(c)
<1>1. d \in DriveSet /\ WaitersOf(d) /\ transfer[d] \in Transfers
  BY HandlerFacts DEF BaseInv, TypeInv
<1>2. transfer' = [transfer EXCEPT ![d] =
                      [transfer[d] EXCEPT !.Signaled = TRUE,
                                !.Waiting = IF transfer[d].Waiting = <<>> THEN <<>> ELSE Tail(transfer[d].Waiting)]]
  BY DEF IsrSignal
<1>3. (IF transfer[d].Waiting = <<>> THEN <<>> ELSE Tail(transfer[d].Waiting)) = <<>>
  <2>1. \A u : Tail(<<u>>) = <<>>
    OBVIOUS
  <2> QED
    BY <1>1, <2>1 DEF WaitersOf
<1>4. transfer' = [transfer EXCEPT ![d] = [[transfer[d] EXCEPT !.Signaled = TRUE] EXCEPT !.Waiting = <<>>]]
  BY <1>2, <1>3
<1>5. \A x \in Transfers :
          /\ [[x EXCEPT !.Signaled = TRUE] EXCEPT !.Waiting = <<>>] \in Transfers
          /\ [[x EXCEPT !.Signaled = TRUE] EXCEPT !.Waiting = <<>>].Signaled = TRUE
          /\ [[x EXCEPT !.Signaled = TRUE] EXCEPT !.Waiting = <<>>].Waiting = <<>>
          /\ [[x EXCEPT !.Signaled = TRUE] EXCEPT !.Waiting = <<>>].State = x.State
  BY TransferUpdates
<1>6. /\ transfer' \in [DriveSet -> Transfers]
      /\ transfer'[d] = [[transfer[d] EXCEPT !.Signaled = TRUE] EXCEPT !.Waiting = <<>>]
      /\ \A e \in DriveSet : e # d => transfer'[e] = transfer[e]
  <2>1. transfer \in [DriveSet -> Transfers]
    BY DEF BaseInv, TypeInv
  <2>2. [[transfer[d] EXCEPT !.Signaled = TRUE] EXCEPT !.Waiting = <<>>] \in Transfers
    BY <1>1, <1>5
  <2> HIDE DEF d
  <2> QED
    BY <1>1, <1>4, <2>1, <2>2
<1>7. \/ transfer[d].Waiting = <<>> /\ at' = at
      \/ \E u \in Callers :
             /\ transfer[d].Waiting = <<u>> /\ at[u] = "blocked" /\ Drive(u) = d
             /\ at' = [at EXCEPT ![u] = "wait"]
  <2>1. CASE transfer[d].Waiting = <<>>
    BY <2>1 DEF IsrSignal
  <2>2. CASE transfer[d].Waiting # <<>>
    <3>1. PICK u \in Callers : transfer[d].Waiting = <<u>> /\ at[u] = "blocked" /\ Drive(u) = d
      BY <1>1, <2>2 DEF WaitersOf
    <3>2. Head(transfer[d].Waiting) = u
      BY <3>1
    <3>3. at' = [at EXCEPT ![u] = "wait"]
      BY <2>2, <3>2 DEF IsrSignal, MoveTo
    <3> QED
      BY <3>1, <3>3
  <2> QED
    BY <2>1, <2>2
<1>8. /\ transfer'[d].Signaled = TRUE /\ transfer'[d].State = transfer[d].State
      /\ transfer'[d].Waiting = <<>>
  BY <1>1, <1>5, <1>6
<1> QED
  BY <1>1, <1>6, <1>7, <1>8

LEMMA BaseIsrSignal ==
    ASSUME BaseInv, NEW c \in IoCpus, IsrSignal(c)
    PROVE  BaseInv'
<1> DEFINE d == Handling(c)
<1>1. UNCHANGED <<DeviceLock, irp, moved, channel, pending, halted>>
  BY DEF IsrSignal
<1>2. isr' \in [IoCpus -> Handlers]
  BY HandlerFacts DEF IsrSignal, BaseInv, TypeInv
<1>3. /\ d \in DriveSet /\ transfer' \in [DriveSet -> Transfers]
      /\ transfer'[d].Waiting = <<>>
      /\ \A e \in DriveSet : e # d => transfer'[e] = transfer[e]
  BY SignalFacts
<1>4. CASE transfer[d].Waiting = <<>> /\ at' = at
  <2>1. TypeInv'
    BY <1>1, <1>2, <1>3, <1>4 DEF BaseInv, TypeInv
  <2> QED
    BY <1>1, <1>3, <1>4, <2>1, ChannelKeepsBase
<1>5. ASSUME NEW u \in Callers, transfer[d].Waiting = <<u>>, at[u] = "blocked", Drive(u) = d,
             at' = [at EXCEPT ![u] = "wait"]
      PROVE  BaseInv'
  <2>1. at' \in [Callers -> Stages] /\ at'[u] = "wait" /\ \A v \in Callers : v # u => at'[v] = at[v]
    BY <1>5, MoverFacts DEF Stages, DriveStages
  <2>2. TypeInv' /\ OnlyOf(u)
    BY <1>1, <1>2, <1>3, <2>1 DEF BaseInv, TypeInv, OnlyOf
  <2>3. StageOf(u)'
    <3>1. StageOf(u)
      BY DEF BaseInv
    <3> QED
      BY <1>1, <1>5, <2>1, <3>1 DEF StageOf, DriveStages
  <2>4. LocksOf(u)'
    BY <1>1, <1>5, <2>1, MoverKeepsLocks
  <2>5. ASSUME NEW e \in DriveSet
        PROVE  WaitersOf(e)'
    <3>1. CASE e = d
      BY <1>3, <3>1 DEF WaitersOf
    <3>2. CASE e # d
      <4>1. transfer'[e].Waiting = transfer[e].Waiting /\ WaitersOf(e)
        BY <1>3, <3>2 DEF BaseInv
      <4>2. \A v \in Callers : Drive(v) = e => v # u /\ at'[v] = at[v] /\ Drive(v)' = Drive(v)
        BY <1>1, <1>5, <2>1, <3>2 DEF Drive
      <4> QED
        BY <4>1, <4>2 DEF WaitersOf
    <3> QED
      BY <3>1, <3>2
  <2> QED
    BY <1>1, <2>2, <2>3, <2>4, <2>5, OthersKeepStage, OthersKeepLocks DEF BaseInv
<1> QED
  BY <1>4, <1>5, SignalFacts

LEMMA BaseNext ==
    ASSUME BaseInv, [StorageNext]_storageVars
    PROVE  BaseInv'
<1>1. ASSUME NEW t \in Callers, Step(t)
      PROVE  BaseInv'
  BY <1>1, BaseIoCallDriver, BaseAcquired, BaseRelease, BaseIoReturn, BaseVolDispatchReadWrite,
     BaseDiskDispatchReadWrite, BaseAtaDispatchReadWrite, BaseChannelSteps, BaseAtaPrepareDmaTransfer,
     BaseAtaReadWriteBuffer, BaseWaitTest, BaseWaitInsert, BaseAtaFinish DEF Step
<1>2. ASSUME NEW c \in IoCpus, Deliver(c) \/ IsrStep(c)
      PROVE  BaseInv'
  BY <1>2, BaseDeliver, BaseIsrTest, BaseIsrClaim, BaseIsrSignal, BaseIsrAck DEF IsrStep
<1>3. CASE UNCHANGED storageVars
  <2>1. TypeInv' /\ UNCHANGED <<DeviceLock, at, irp, transfer>>
    BY <1>3 DEF storageVars, BaseInv, TypeInv
  <2> QED
    BY <2>1, ChannelKeepsBase
<1> QED
  BY <1>1, <1>2, <1>3, BaseIoReadWriteDevice, BaseDmaComplete DEF StorageNext

----------------------------------------------------------------------------
\* One drive on the channel

SingleDrive == Len(Drives) = 1
D == Drives[1]

\* From AtaReadWriteSectors on, the thread has the channel.
Working == {"select", "parameters", "prdt", "command", "buffer", "start", "wait", "insert", "blocked",
            "finished"}
Waiting == {"wait", "insert", "blocked", "finished"}
Untouched == Stages \ (Waiting \cup {"release", "done"})

Partition(t) == DiskLayout[irp[t].request.volume]
First(t) == irp[t].request.offset \div SECTOR_SIZE

Aligned(t) == irp[t].request.length % SECTOR_SIZE = 0 /\ irp[t].request.offset % SECTOR_SIZE = 0
Inside(t) == Aligned(t) /\ InPartition(Partition(t), First(t), Count(t))
Located(t) == Inside(t) /\ irp[t].offset = (First(t) + Partition(t).OffsetInDisk) * SECTOR_SIZE

Asks(t) == \/ at[t] \in {"call", "acquire"} /\ irp[t].location < (IF at[t] = "call" THEN 3 ELSE 2)
           \/ at[t] \in DriveStages \cup {"disk"}

\* What a request has found out and moved so far.
LifeOf(t) ==
    /\ at[t] \in Untouched => moved[t] = {}
    /\ at[t] \in {"call", "acquire", "volume"} /\ ~Asks(t) => irp[t].offset = irp[t].request.offset
    /\ at[t] \in {"acquire", "volume"} /\ ~Asks(t) => Aligned(t)
    /\ Asks(t) => Located(t)
    /\ at[t] \in {"release", "done"} =>
           IF irp[t].status = "success"
           THEN Inside(t) /\ moved[t] = Named(t) /\ irp[t].information = Count(t) * SECTOR_SIZE
           ELSE moved[t] = {}

Span(t) == {<<D, Sector(t) + i>> : i \in 0 .. Count(t) - 1}
CommandOf(t) == [drive |-> D, dma |-> irp[t].request.async, sectors |-> Span(t)]
TableOf(t) == [owner |-> t, table |-> PrdTable(irp[t].request.pairs, Count(t) * SECTOR_SIZE)]

\* The bus master has the table of the thread's buffer.
HasTable(t) ==
    /\ prdt = TableOf(t)
    /\ \A i \in DOMAIN irp[t].request.pairs : ValidPair(irp[t].request.pairs[i])

Idle(c) == isr[c].cpu \in {"idle", "ack"}
Quiet == ~pending /\ \A c \in IoCpus : Idle(c)
ServedIn(cpus) == ~pending /\ \E c \in IoCpus : isr[c].cpu \in cpus /\ \A o \in IoCpus : o # c => Idle(o)

TransferIs(state, signaled) == transfer[D].State = state /\ transfer[D].Signaled = signaled

FreeChannel ==
    /\ TransferIs("Free", FALSE) /\ transfer[D].Waiting = <<>>
    /\ channel.command = Nil /\ ~channel.start /\ Quiet

\* The command is being written.
Preparing(t) ==
    /\ TransferIs("InProgress", FALSE) /\ transfer[D].Waiting = <<>>
    /\ ~channel.start /\ Quiet
    /\ at[t] \in {"select", "parameters", "prdt", "command"} => channel.command = Nil
    /\ at[t] \in {"prdt", "command"} => channel.lba = Sector(t) /\ channel.count = Count(t)
    /\ at[t] \in {"prdt", "start"} => irp[t].request.async
    /\ at[t] = "buffer" => ~irp[t].request.async
    /\ at[t] \in {"buffer", "start"} => channel.command = CommandOf(t)

\* The drive has the command, its interrupt comes, is handled, and has been.
InFlight(t) ==
    /\ channel.command = CommandOf(t) /\ moved[t] = {}
    /\ Quiet /\ TransferIs("InProgress", FALSE) /\ at[t] # "finished"
Coming(t) ==
    /\ pending /\ \A c \in IoCpus : Idle(c)
    /\ TransferIs("InProgress", FALSE) /\ at[t] # "finished"
Tested(t) == ServedIn({"test", "claim", "failed"}) /\ TransferIs("InProgress", FALSE) /\ at[t] # "finished"
Claimed(t) == ServedIn({"signal"}) /\ TransferIs("Finished", FALSE) /\ ~channel.start /\ at[t] # "finished"
Lost(t) == Quiet /\ TransferIs("InProgress", FALSE) /\ at[t] # "finished"
Over(t) == Quiet /\ TransferIs("Finished", at[t] # "finished") /\ ~channel.start

Completing(t) ==
    /\ irp[t].request.async
    /\ transfer[D].Waiting = IF at[t] = "blocked" THEN <<t>> ELSE <<>>
    /\ \/ InFlight(t)
       \/ /\ channel.command = Nil /\ moved[t] = Named(t)
          /\ Coming(t) \/ Tested(t) \/ Claimed(t) \/ Lost(t) \/ Over(t)

WorkOf(t) ==
    /\ at[t] \in Working \ Waiting => Preparing(t)
    /\ at[t] \in Waiting => Completing(t)
    /\ (at[t] \in {"command", "start"} \cup Waiting /\ irp[t].request.async) => HasTable(t)
    /\ Count(t) # 0

ChannelInv ==
    /\ ~halted
    /\ (\A t \in Callers : at[t] \notin Working) => FreeChannel
    /\ \A t \in Callers : at[t] \in Working => WorkOf(t)

LEMMA SingleDriveFacts ==
    ASSUME SingleDrive
    PROVE  D \in DriveSet /\ \A d \in DriveSet : d = D
<1>1. Drives \in Seq(DriveSet) /\ Drives # <<>>
  BY RequestAssumption DEF DriveSet
<1>2. DOMAIN Drives = 1 .. 1
  BY <1>1 DEF SingleDrive
<1> QED
  BY <1>2 DEF DriveSet, ToSet, D

\* Where the request begins on the disk.
LEMMA LocatedSector ==
    ASSUME BaseInv, NEW t \in Callers, at[t] # "idle"
    PROVE  /\ First(t) \in Nat /\ Partition(t).OffsetInDisk \in Nat /\ Partition(t).PartitionSize \in Nat
           /\ Count(t) \in Nat
           /\ Located(t) => Sector(t) = First(t) + Partition(t).OffsetInDisk
<1>1. First(t) \in Nat
  BY RequestFacts, StorageConstants, SectorArithmetic DEF First
<1>2. Partition(t).OffsetInDisk \in Nat /\ Partition(t).PartitionSize \in Nat
  BY RequestFacts, StorageConstants DEF Partition
<1>3. First(t) + Partition(t).OffsetInDisk \in Nat
  BY <1>1, <1>2
<1> QED
  BY <1>1, <1>2, <1>3, RequestFacts, SectorArithmetic DEF Located, Sector

LEMMA SpanIsNamed ==
    ASSUME BaseInv, SingleDrive, NEW t \in Callers, at[t] # "idle", Located(t)
    PROVE  Span(t) = Named(t)
<1> DEFINE first == First(t)
           off == Partition(t).OffsetInDisk
           size == Partition(t).PartitionSize
           count == Count(t)
<1>1. /\ first \in Nat /\ off \in Nat /\ size \in Nat /\ count \in Nat
      /\ Sector(t) = first + off
  BY LocatedSector
<1>2. first < size /\ size - first >= count
  BY DEF Located, Inside, InPartition
<1>3. irp[t].request.drive = D
  BY RequestFacts, SingleDriveFacts DEF Drive
<1>4. Named(t) = {<<D, off + s>> : s \in {n \in first .. first + count - 1 : n < size}}
  BY <1>3 DEF Named, First, Partition
<1>5. Span(t) = {<<D, first + off + i>> : i \in 0 .. count - 1}
  BY <1>1 DEF Span
<1> HIDE DEF first, off, size, count
<1>6. ASSUME NEW i \in 0 .. count - 1
      PROVE  /\ first + i \in {n \in first .. first + count - 1 : n < size}
             /\ off + (first + i) = first + off + i
  BY <1>1, <1>2
<1>7. ASSUME NEW s \in {n \in first .. first + count - 1 : n < size}
      PROVE  s - first \in 0 .. count - 1 /\ first + off + (s - first) = off + s
  BY <1>1, <1>2
<1>8. Span(t) \subseteq Named(t)
  BY <1>4, <1>5, <1>6
<1>9. Named(t) \subseteq Span(t)
  BY <1>4, <1>5, <1>7
<1> QED
  BY <1>8, <1>9

LEMMA NamedCardinality ==
    ASSUME BaseInv, NEW t \in Callers, at[t] # "idle", Inside(t)
    PROVE  Cardinality(Named(t)) = Count(t) /\ Count(t) * SECTOR_SIZE = irp[t].request.length
<1> DEFINE first == First(t)
           off == Partition(t).OffsetInDisk
           size == Partition(t).PartitionSize
           count == Count(t)
           d == irp[t].request.drive
           f == [i \in 1 .. count |-> <<d, off + (first + i - 1)>>]
<1>1. first \in Nat /\ off \in Nat /\ size \in Nat /\ count \in Nat
  BY LocatedSector
<1>2. first < size /\ size - first >= count
  BY DEF Inside, InPartition
<1>4. Named(t) = {<<d, off + s>> : s \in {n \in first .. first + count - 1 : n < size}}
  BY DEF Named, First, Partition
<1> HIDE DEF first, off, size, count, d
<1>5. ASSUME NEW i \in 1 .. count
      PROVE  f[i] \in Named(t)
  <2>1. first + i - 1 \in {n \in first .. first + count - 1 : n < size}
    BY <1>1, <1>2
  <2> QED
    BY <1>4, <2>1
<1>6. ASSUME NEW x \in Named(t)
      PROVE  \E i \in 1 .. count : f[i] = x
  <2>1. PICK s \in {n \in first .. first + count - 1 : n < size} : x = <<d, off + s>>
    BY <1>4
  <2>2. s - first + 1 \in 1 .. count /\ first + (s - first + 1) - 1 = s
    BY <1>1, <2>1
  <2> QED
    BY <2>1, <2>2
<1>7. ASSUME NEW i \in 1 .. count, NEW j \in 1 .. count, f[i] = f[j]
      PROVE  i = j
  BY <1>1, <1>7
<1>8. f \in Bijection(1 .. count, Named(t))
  <2>1. f \in [1 .. count -> Named(t)]
    BY <1>5
  <2> HIDE DEF f
  <2> QED
    BY <1>6, <1>7, <2>1 DEF Bijection, Injection, Surjection, IsInjective
<1>9. Cardinality(Named(t)) = count
  BY <1>1, <1>8, FS_CountingElements DEF ExistsBijection
<1>10. Count(t) * SECTOR_SIZE = irp[t].request.length
  BY RequestFacts, StorageConstants, SectorArithmetic DEF Inside, Aligned, Count
<1> QED
  BY <1>9, <1>10 DEF count

\* What depends on the request alone.
LEMMA SameRequest ==
    ASSUME NEW t \in Callers, irp'[t].request = irp[t].request
    PROVE  /\ First(t)' = First(t) /\ Partition(t)' = Partition(t) /\ Count(t)' = Count(t)
           /\ Drive(t)' = Drive(t) /\ Named(t)' = Named(t)
           /\ Aligned(t)' <=> Aligned(t)
           /\ Inside(t)' <=> Inside(t)
<1>1. First(t)' = First(t) /\ Partition(t)' = Partition(t) /\ Count(t)' = Count(t) /\ Drive(t)' = Drive(t)
  BY DEF First, Partition, Count, Drive
<1>2. Named(t)' = Named(t)
  BY <1>1 DEF Named
<1>3. Aligned(t)' <=> Aligned(t)
  BY DEF Aligned
<1>4. Inside(t)' <=> Inside(t)
  BY <1>1, <1>3 DEF Inside, InPartition
<1> QED
  BY <1>1, <1>2, <1>3, <1>4

LEMMA SamePlace ==
    ASSUME NEW t \in Callers, irp'[t].request = irp[t].request, irp'[t].offset = irp[t].offset
    PROVE  /\ Sector(t)' = Sector(t) /\ Span(t)' = Span(t)
           /\ CommandOf(t)' = CommandOf(t) /\ TableOf(t)' = TableOf(t)
           /\ Located(t)' <=> Located(t)
           /\ prdt' = prdt => (HasTable(t)' <=> HasTable(t))
<1>1. Sector(t)' = Sector(t) /\ Count(t)' = Count(t)
  BY SameRequest DEF Sector
<1>2. Span(t)' = Span(t)
  BY <1>1 DEF Span
<1>3. CommandOf(t)' = CommandOf(t) /\ TableOf(t)' = TableOf(t)
  BY <1>1, <1>2 DEF CommandOf, TableOf
<1>4. Located(t)' <=> Located(t)
  BY SameRequest DEF Located
<1>5. prdt' = prdt => (HasTable(t)' <=> HasTable(t))
  BY <1>3 DEF HasTable
<1> QED
  BY <1>1, <1>2, <1>3, <1>4, <1>5

LEMMA LifeKept ==
    ASSUME NEW u \in Callers, LifeOf(u), at'[u] = at[u], irp'[u] = irp[u], moved'[u] = moved[u]
    PROVE  LifeOf(u)'
<1>1. Asks(u)' <=> Asks(u)
  BY DEF Asks
<1> QED
  BY <1>1, SameRequest, SamePlace DEF LifeOf

\* A thread that stays at the drive.
LEMMA LifeAtDrive ==
    ASSUME NEW t \in Callers, LifeOf(t), at[t] \in DriveStages, at'[t] \in DriveStages,
           irp'[t] = irp[t], at'[t] \in Untouched => moved'[t] = {}
    PROVE  LifeOf(t)'
<1>1. Located(t)
  BY DEF LifeOf, Asks
<1>2. Located(t)'
  BY <1>1, SamePlace
<1>3. at'[t] \notin {"call", "acquire", "volume", "release", "done"}
  BY DEF DriveStages
<1> QED
  BY <1>2, <1>3 DEF LifeOf

LEMMA WorkKept ==
    ASSUME NEW u \in Callers, WorkOf(u), at'[u] = at[u], irp'[u] = irp[u], moved'[u] = moved[u],
           UNCHANGED <<transfer, channel, prdt, pending, isr>>
    PROVE  WorkOf(u)'
<1>1. CommandOf(u)' = CommandOf(u) /\ TableOf(u)' = TableOf(u) /\ Sector(u)' = Sector(u)
      /\ Count(u)' = Count(u) /\ Named(u)' = Named(u) /\ (HasTable(u)' <=> HasTable(u))
  BY SamePlace, SameRequest
<1>2. (Quiet' <=> Quiet) /\ (\A cpus : ServedIn(cpus)' <=> ServedIn(cpus))
      /\ (\A st, sg : TransferIs(st, sg)' <=> TransferIs(st, sg))
  BY DEF Quiet, ServedIn, TransferIs, Idle
<1>3. Preparing(u)' <=> Preparing(u)
  BY <1>1, <1>2 DEF Preparing, TransferIs
<1>4. /\ InFlight(u)' <=> InFlight(u)
      /\ Coming(u)' <=> Coming(u)
      /\ Tested(u)' <=> Tested(u)
      /\ Claimed(u)' <=> Claimed(u)
      /\ Lost(u)' <=> Lost(u)
      /\ Over(u)' <=> Over(u)
  BY <1>1 DEF InFlight, Coming, Tested, Claimed, Lost, Over, Idle, Quiet, ServedIn, TransferIs
<1>5. Completing(u)' <=> Completing(u)
  BY <1>1, <1>4 DEF Completing
<1> QED
  BY <1>1, <1>3, <1>5 DEF WorkOf

LEMMA FreeKept ==
    ASSUME FreeChannel, UNCHANGED <<transfer, channel, pending, isr>>
    PROVE  FreeChannel'
BY DEF FreeChannel, TransferIs, Quiet, Idle

\* A thread that has not the channel, before and after its step.
LEMMA OutsideKeeps ==
    ASSUME ChannelInv, NEW t \in Callers, OnlyOf(t), at[t] \notin Working, at'[t] \notin Working,
           \A u \in Callers : u # t => moved'[u] = moved[u],
           UNCHANGED <<transfer, channel, prdt, pending, isr, halted>>
    PROVE  ChannelInv'
<1>1. ASSUME \A u \in Callers : at'[u] \notin Working
      PROVE  FreeChannel'
  <2>1. \A u \in Callers : at[u] \notin Working
    BY <1>1 DEF OnlyOf
  <2> QED
    BY <2>1, FreeKept DEF ChannelInv
<1>2. ASSUME NEW u \in Callers, at'[u] \in Working
      PROVE  WorkOf(u)'
  <2>1. u # t /\ at'[u] = at[u] /\ irp'[u] = irp[u] /\ at[u] \in Working
    BY <1>2 DEF OnlyOf
  <2> QED
    BY <2>1, WorkKept DEF ChannelInv
<1> QED
  BY <1>1, <1>2 DEF ChannelInv

\* A thread at the drive: nobody else has the channel.
LEMMA AtDriveAlone ==
    ASSUME BaseInv, SingleDrive, NEW t \in Callers, at[t] \in DriveStages
    PROVE  \A u \in Callers : u # t => at[u] \notin Working
<1>1. SUFFICES ASSUME NEW u \in Callers, at[u] \in Working PROVE u = t
  OBVIOUS
<1>2. at[u] \in DriveStages
  BY <1>1 DEF Working, DriveStages
<1>3. at[t] # "idle" /\ at[u] # "idle"
  BY <1>2 DEF DriveStages
<1>4. Drive(t) = Drive(u)
  BY <1>3, RequestFacts, SingleDriveFacts
<1> QED
  BY <1>2, <1>4, OneAtDrive

LEMMA WorkerKeeps ==
    ASSUME BaseInv, SingleDrive, NEW t \in Callers, at[t] \in DriveStages, OnlyOf(t), ~halted',
           at'[t] \in Working => WorkOf(t)',
           at'[t] \notin Working => FreeChannel'
    PROVE  ChannelInv'
<1>1. \A u \in Callers : u # t => at'[u] \notin Working
  BY AtDriveAlone DEF OnlyOf
<1> QED
  BY <1>1 DEF ChannelInv

Exact == BaseInv /\ SingleDrive /\ ChannelInv /\ \A t \in Callers : LifeOf(t)

LEMMA LivesKept ==
    ASSUME Exact, NEW t \in Callers, OnlyOf(t), \A u \in Callers : u # t => moved'[u] = moved[u], LifeOf(t)'
    PROVE  \A u \in Callers : LifeOf(u)'
BY LifeKept DEF Exact, OnlyOf

LEMMA ExactIoReadWriteDevice ==
    ASSUME Exact, NEW t \in Callers, NEW r \in Requests, IoReadWriteDevice(t, r)
    PROVE  ChannelInv' /\ \A u \in Callers : LifeOf(u)'
<1>1. /\ at[t] = "idle" /\ at' = [at EXCEPT ![t] = "call"] /\ moved' = [moved EXCEPT ![t] = {}]
      /\ irp' = [irp EXCEPT ![t] = [NoIrp EXCEPT !.request = r, !.offset = r.offset]]
      /\ UNCHANGED <<transfer, channel, prdt, pending, isr, halted>>
  BY DEF IoReadWriteDevice, At, MoveTo
<1>2. OnlyOf(t) /\ at'[t] = "call" /\ moved'[t] = {} /\ \A u \in Callers : u # t => moved'[u] = moved[u]
  BY <1>1 DEF OnlyOf, Exact, BaseInv, TypeInv
<1>3. irp'[t] = [NoIrp EXCEPT !.request = r, !.offset = r.offset]
  BY <1>1 DEF Exact, BaseInv, TypeInv
<1>4. irp'[t].request = r /\ irp'[t].offset = r.offset /\ irp'[t].location = 3
  BY <1>3 DEF NoIrp, StackSize
<1>5. ChannelInv'
  BY <1>1, <1>2, OutsideKeeps DEF Exact, Working
<1>6. ~Asks(t)'
  BY <1>2, <1>4 DEF Asks, DriveStages
<1>7. LifeOf(t)'
  BY <1>2, <1>4, <1>6 DEF LifeOf
<1> QED
  BY <1>2, <1>5, <1>7, LivesKept

LEMMA ExactIoReturn ==
    ASSUME Exact, NEW t \in Callers, IoReturn(t)
    PROVE  ChannelInv' /\ \A u \in Callers : LifeOf(u)'
<1>1. /\ at[t] = "done" /\ at' = [at EXCEPT ![t] = "idle"] /\ moved' = [moved EXCEPT ![t] = {}]
      /\ irp' = [irp EXCEPT ![t] = NoIrp]
      /\ UNCHANGED <<transfer, channel, prdt, pending, isr, halted>>
  BY DEF IoReturn, At, MoveTo
<1>2. OnlyOf(t) /\ at'[t] = "idle" /\ moved'[t] = {} /\ \A u \in Callers : u # t => moved'[u] = moved[u]
  BY <1>1 DEF OnlyOf, Exact, BaseInv, TypeInv
<1>3. ChannelInv'
  BY <1>1, <1>2, OutsideKeeps DEF Exact, Working
<1>4. ~Asks(t)'
  BY <1>2 DEF Asks, DriveStages
<1>5. LifeOf(t)'
  BY <1>2, <1>4 DEF LifeOf
<1> QED
  BY <1>2, <1>3, <1>5, LivesKept

LEMMA ExactIoCallDriver ==
    ASSUME Exact, NEW t \in Callers, IoCallDriver(t)
    PROVE  ChannelInv' /\ \A u \in Callers : LifeOf(u)'
<1> DEFINE l == irp[t].location - 1
<1>0. BaseInv /\ LifeOf(t) /\ at[t] = "call" /\ irp[t].location \in 1 .. 3
  BY DEF Exact, BaseInv, StageOf, IoCallDriver, At
<1>1. UNCHANGED <<moved, transfer, channel, prdt, pending, isr, halted>> /\ moved[t] = {}
  BY <1>0 DEF IoCallDriver, LifeOf, Untouched, Stages, Waiting
<1>2. CASE irp[t].request.length % SECTOR_SIZE # 0 \/ irp[t].offset % SECTOR_SIZE # 0
  <2>1. /\ irp' = [irp EXCEPT ![t].status = "alignment not satisfied"]
        /\ at' = [at EXCEPT ![t] = IF l = StackSize - 1 THEN "done" ELSE "release"]
    BY <1>2 DEF IoCallDriver, MoveTo
  <2>2. /\ irp'[t].status = "alignment not satisfied"
        /\ \A u \in Callers : u # t => irp'[u] = irp[u]
    BY <1>0, <2>1, FailFacts DEF Statuses
  <2>3. at'[t] \in {"done", "release"} /\ \A u \in Callers : u # t => at'[u] = at[u]
    BY <1>0, <2>1 DEF BaseInv, TypeInv
  <2>4. OnlyOf(t)
    BY <2>2, <2>3 DEF OnlyOf
  <2>5. ChannelInv'
    BY <1>0, <1>1, <2>3, <2>4, OutsideKeeps DEF Exact, Working
  <2>6. LifeOf(t)'
    BY <1>1, <2>2, <2>3 DEF LifeOf, Asks, Untouched, DriveStages
  <2> QED
    BY <1>1, <2>4, <2>5, <2>6, LivesKept
<1>3. CASE ~(irp[t].request.length % SECTOR_SIZE # 0 \/ irp[t].offset % SECTOR_SIZE # 0)
  <2>1. /\ irp' = [irp EXCEPT ![t].location = l]
        /\ at' = [at EXCEPT ![t] = "acquire"]
    BY <1>3 DEF IoCallDriver, MoveTo, StackSize
  <2>2. OnlyOf(t) /\ at'[t] = "acquire"
    BY <1>0, <2>1 DEF BaseInv, TypeInv, OnlyOf
  <2>3. irp'[t].request = irp[t].request /\ irp'[t].offset = irp[t].offset /\ irp'[t].location = l
    BY <1>0, <2>1 DEF BaseInv, TypeInv, Irps
  <2>4. ChannelInv'
    BY <1>0, <1>1, <2>2, OutsideKeeps DEF Exact, Working
  <2>5. Asks(t)' <=> Asks(t)
    BY <1>0, <2>2, <2>3 DEF Asks, DriveStages
  <2>6. ~Asks(t) => irp[t].offset = irp[t].request.offset /\ Aligned(t)
    BY <1>0, <1>3 DEF LifeOf, Aligned
  <2>7. Asks(t) => Located(t)
    BY <1>0 DEF LifeOf
  <2>8. LifeOf(t)'
    BY <1>1, <2>2, <2>3, <2>5, <2>6, <2>7, SameRequest, SamePlace DEF LifeOf
  <2> QED
    BY <1>1, <2>2, <2>4, <2>8, LivesKept
<1> QED
  BY <1>2, <1>3

LEMMA ExactAcquired ==
    ASSUME Exact, NEW t \in Callers, Acquired(t)
    PROVE  ChannelInv' /\ \A u \in Callers : LifeOf(u)'
<1> DEFINE l == irp[t].location
<1>0. BaseInv /\ LifeOf(t) /\ at[t] = "acquire" /\ l \in 0 .. 2 /\ moved[t] = {}
  <2>1. BaseInv /\ LifeOf(t) /\ at[t] = "acquire"
    BY DEF Exact, Acquired, At
  <2> QED
    BY <2>1 DEF BaseInv, StageOf, LifeOf, Untouched, Stages, Waiting
<1>1. /\ at' = [at EXCEPT ![t] = <<"volume", "disk", "drive">>[StackSize - l]]
      /\ UNCHANGED <<irp, moved, transfer, channel, prdt, pending, isr, halted>>
  BY DEF Acquired, MoveTo
<1>2. at'[t] = <<"volume", "disk", "drive">>[StackSize - l] /\ OnlyOf(t)
  BY <1>0, <1>1 DEF BaseInv, TypeInv, OnlyOf
<1>3. at'[t] = IF l = 2 THEN "volume" ELSE IF l = 1 THEN "disk" ELSE "drive"
  BY <1>0, <1>2 DEF StackSize
<1>4. ChannelInv'
  BY <1>0, <1>1, <1>2, <1>3, OutsideKeeps DEF Exact, Working
<1>5. Asks(t)' <=> Asks(t)
  BY <1>0, <1>1, <1>3 DEF Asks, DriveStages
<1>6. at'[t] \in {"volume", "disk", "drive"}
  BY <1>3
<1>7. LifeOf(t)'
  BY <1>0, <1>1, <1>5, <1>6, SameRequest, SamePlace DEF LifeOf
<1> QED
  BY <1>1, <1>2, <1>4, <1>7, LivesKept

LEMMA ExactRelease ==
    ASSUME Exact, NEW t \in Callers, Release(t)
    PROVE  ChannelInv' /\ \A u \in Callers : LifeOf(u)'
<1>0. BaseInv /\ LifeOf(t) /\ at[t] = "release"
  BY DEF Exact, Release, At
<1>1. /\ irp' = [irp EXCEPT ![t].location = irp[t].location + 1]
      /\ at' = [at EXCEPT ![t] = IF irp[t].location + 1 = StackSize THEN "done" ELSE "release"]
      /\ UNCHANGED <<moved, transfer, channel, prdt, pending, isr, halted>>
  BY DEF Release, MoveTo
<1>2. OnlyOf(t) /\ at'[t] \in {"done", "release"}
  BY <1>0, <1>1 DEF BaseInv, TypeInv, OnlyOf
<1>3. /\ irp'[t].request = irp[t].request /\ irp'[t].status = irp[t].status
      /\ irp'[t].information = irp[t].information
  BY <1>0, <1>1 DEF BaseInv, TypeInv, Irps
<1>4. ChannelInv'
  BY <1>0, <1>1, <1>2, OutsideKeeps DEF Exact, Working
<1>5. ~Asks(t)' /\ at'[t] \notin Untouched /\ at'[t] \notin {"call", "acquire", "volume"}
  BY <1>2 DEF Asks, DriveStages, Untouched
<1>6. LifeOf(t)'
  BY <1>0, <1>1, <1>2, <1>3, <1>5, SameRequest DEF LifeOf
<1> QED
  BY <1>1, <1>2, <1>4, <1>6, LivesKept

\* A thread outside the channel whose request failed, and that has moved nothing.
LEMMA FailedLife ==
    ASSUME NEW t \in Callers, at'[t] = "release", irp'[t].status # "success", moved'[t] = {}
    PROVE  LifeOf(t)'
BY DEF LifeOf, Asks, Untouched, DriveStages

LEMMA ExactVolDispatchReadWrite ==
    ASSUME Exact, NEW t \in Callers, VolDispatchReadWrite(t)
    PROVE  ChannelInv' /\ \A u \in Callers : LifeOf(u)'
<1> DEFINE p == DiskLayout[irp[t].request.volume]
<1>0. BaseInv /\ LifeOf(t) /\ at[t] = "volume" /\ irp[t].location = 2
  <2>1. BaseInv /\ LifeOf(t) /\ at[t] = "volume"
    BY DEF Exact, VolDispatchReadWrite, At
  <2> QED
    BY <2>1 DEF BaseInv, StageOf
<1>1. UNCHANGED <<moved, transfer, channel, prdt, pending, isr, halted>>
  BY DEF VolDispatchReadWrite
<1>2. moved[t] = {} /\ ~Asks(t) /\ irp[t].offset = irp[t].request.offset /\ Aligned(t)
  <2>1. ~Asks(t)
    BY <1>0 DEF Asks, DriveStages
  <2> QED
    BY <1>0, <2>1 DEF LifeOf, Untouched, Stages, Waiting
<1>3. CASE InPartition(p, Sector(t), Count(t))
  <2> DEFINE n == (Sector(t) + p.OffsetInDisk) * SECTOR_SIZE
  <2>1. irp' = [irp EXCEPT ![t].offset = n] /\ at' = [at EXCEPT ![t] = "call"]
    BY <1>3 DEF VolDispatchReadWrite, MoveTo
  <2>2. OnlyOf(t) /\ at'[t] = "call"
    BY <1>0, <2>1 DEF BaseInv, TypeInv, OnlyOf
  <2>3. irp'[t].request = irp[t].request /\ irp'[t].location = irp[t].location /\ irp'[t].offset = n
    <3> HIDE DEF n
    <3> QED
      BY <1>0, <2>1 DEF BaseInv, TypeInv, Irps
  <2>4. ChannelInv'
    BY <1>0, <1>1, <2>2, OutsideKeeps DEF Exact, Working
  <2>5. Inside(t) /\ Sector(t) = First(t)
    BY <1>2, <1>3 DEF Inside, Sector, First, Partition
  <2>6. Located(t)'
    <3>1. Inside(t)' /\ First(t)' = First(t) /\ Partition(t)' = Partition(t)
      BY <2>3, <2>5, SameRequest
    <3>2. irp'[t].offset = (First(t) + Partition(t).OffsetInDisk) * SECTOR_SIZE
      BY <2>3, <2>5 DEF Partition
    <3> QED
      BY <3>1, <3>2 DEF Located
  <2>7. Asks(t)'
    BY <1>0, <2>2, <2>3 DEF Asks
  <2>8. LifeOf(t)'
    BY <1>1, <1>2, <2>2, <2>6, <2>7 DEF LifeOf
  <2> QED
    BY <1>1, <2>2, <2>4, <2>8, LivesKept
<1>4. CASE ~InPartition(p, Sector(t), Count(t))
  <2>1. irp' = [irp EXCEPT ![t].status = "exceeded"] /\ at' = [at EXCEPT ![t] = "release"]
    BY <1>4 DEF VolDispatchReadWrite, MoveTo, Fail
  <2>2. irp'[t].status = "exceeded" /\ \A u \in Callers : u # t => irp'[u] = irp[u]
    BY <1>0, <2>1, FailFacts DEF Statuses
  <2>3. at'[t] = "release" /\ OnlyOf(t)
    BY <1>0, <2>1, <2>2 DEF BaseInv, TypeInv, OnlyOf
  <2>4. ChannelInv'
    BY <1>0, <1>1, <2>3, OutsideKeeps DEF Exact, Working
  <2>5. LifeOf(t)'
    BY <1>1, <1>2, <2>2, <2>3, FailedLife
  <2> QED
    BY <1>1, <2>3, <2>4, <2>5, LivesKept
<1> QED
  BY <1>3, <1>4

LEMMA ExactDiskDispatchReadWrite ==
    ASSUME Exact, NEW t \in Callers, DiskDispatchReadWrite(t)
    PROVE  ChannelInv' /\ \A u \in Callers : LifeOf(u)'
<1>0. BaseInv /\ LifeOf(t) /\ at[t] = "disk" /\ irp[t].location = 1
  <2>1. BaseInv /\ LifeOf(t) /\ at[t] = "disk"
    BY DEF Exact, DiskDispatchReadWrite, At
  <2> QED
    BY <2>1 DEF BaseInv, StageOf
<1>1. at' = [at EXCEPT ![t] = "call"] /\ UNCHANGED <<irp, moved, transfer, channel, prdt, pending, isr, halted>>
  BY DEF DiskDispatchReadWrite, MoveTo
<1>2. OnlyOf(t) /\ at'[t] = "call"
  BY <1>0, <1>1 DEF BaseInv, TypeInv, OnlyOf
<1>3. moved[t] = {} /\ Located(t)
  BY <1>0 DEF LifeOf, Asks, Untouched, Stages, Waiting
<1>4. ChannelInv'
  BY <1>0, <1>1, <1>2, OutsideKeeps DEF Exact, Working
<1>5. Asks(t)' /\ Located(t)'
  BY <1>0, <1>1, <1>2, <1>3, SamePlace DEF Asks
<1>6. LifeOf(t)'
  BY <1>1, <1>2, <1>3, <1>5 DEF LifeOf
<1> QED
  BY <1>1, <1>2, <1>4, <1>6, LivesKept

LEMMA ExactAtaDispatchReadWrite ==
    ASSUME Exact, NEW t \in Callers, AtaDispatchReadWrite(t)
    PROVE  ChannelInv' /\ \A u \in Callers : LifeOf(u)'
<1>0. BaseInv /\ SingleDrive /\ LifeOf(t) /\ ChannelInv /\ at[t] = "drive" /\ at[t] \in DriveStages
  BY DEF Exact, AtaDispatchReadWrite, At, DriveStages
<1>1. UNCHANGED <<moved, channel, prdt, pending, isr>>
  BY DEF AtaDispatchReadWrite
<1>2. moved[t] = {}
  BY <1>0 DEF LifeOf, Untouched, Stages, Waiting
<1>3. FreeChannel
  <2>1. \A u \in Callers : at[u] \notin Working
    BY <1>0, AtDriveAlone DEF Working
  <2> QED
    BY <1>0, <2>1 DEF ChannelInv
<1>4. Drive(t) = D /\ transfer[Drive(t)].State = "Free" /\ D \in DriveSet
  BY <1>0, <1>3, RequestFacts, SingleDriveFacts DEF FreeChannel, TransferIs
<1>5. ASSUME NEW st \in Statuses, st # "success", Fail(t, st, "release"), UNCHANGED <<transfer, halted>>
      PROVE  ChannelInv' /\ \A u \in Callers : LifeOf(u)'
  <2>1. irp' = [irp EXCEPT ![t].status = st] /\ at' = [at EXCEPT ![t] = "release"]
    BY <1>5 DEF Fail, MoveTo
  <2>2. irp'[t].status = st /\ \A u \in Callers : u # t => irp'[u] = irp[u]
    BY <1>0, <2>1, FailFacts
  <2>3. at'[t] = "release" /\ OnlyOf(t)
    BY <1>0, <2>1, <2>2 DEF BaseInv, TypeInv, OnlyOf
  <2>4. ChannelInv'
    BY <1>0, <1>1, <1>5, <2>3, OutsideKeeps DEF Working
  <2>5. LifeOf(t)'
    BY <1>1, <1>2, <1>5, <2>2, <2>3, FailedLife
  <2> QED
    BY <1>1, <2>3, <2>4, <2>5, LivesKept
<1>6. CASE /\ transfer' = [transfer EXCEPT ![Drive(t)].State = "InProgress"]
           /\ MoveTo(t, "select")
           /\ UNCHANGED <<irp, halted>>
           /\ Count(t) # 0
  <2>1. at'[t] = "select" /\ OnlyOf(t)
    BY <1>0, <1>6 DEF MoveTo, BaseInv, TypeInv, OnlyOf
  <2>2. /\ transfer'[D].State = "InProgress" /\ transfer'[D].Signaled = transfer[D].Signaled
        /\ transfer'[D].Waiting = transfer[D].Waiting
    BY <1>0, <1>4, <1>6, TransferFacts
  <2>3. Quiet'
    BY <1>1, <1>3 DEF FreeChannel, Quiet, Idle
  <2>4. Preparing(t)'
    BY <1>1, <1>3, <2>1, <2>2, <2>3 DEF FreeChannel, Preparing, TransferIs
  <2>5. WorkOf(t)'
    BY <1>6, <2>1, <2>4, SameRequest DEF WorkOf, Waiting
  <2>6. ChannelInv'
    BY <1>0, <1>6, <2>1, <2>5, WorkerKeeps DEF Working, ChannelInv
  <2>7. LifeOf(t)'
    BY <1>0, <1>1, <1>2, <1>6, <2>1, LifeAtDrive DEF DriveStages
  <2> QED
    BY <1>1, <2>1, <2>6, <2>7, LivesKept
<1>7. \/ Fail(t, "exceeded", "release") /\ UNCHANGED <<transfer, halted>>
      \/ Fail(t, "invalid parameter", "release") /\ UNCHANGED <<transfer, halted>>
      \/ /\ transfer' = [transfer EXCEPT ![Drive(t)].State = "InProgress"]
         /\ MoveTo(t, "select")
         /\ UNCHANGED <<irp, halted>>
         /\ Count(t) # 0
  BY <1>4 DEF AtaDispatchReadWrite
<1>8. "exceeded" \in Statuses /\ "invalid parameter" \in Statuses
  BY DEF Statuses
<1> QED
  BY <1>5, <1>6, <1>7, <1>8

\* What a thread knows while it writes the command.
LEMMA PreparingFacts ==
    ASSUME Exact, NEW t \in Callers, at[t] \in Working
    PROVE  /\ BaseInv /\ SingleDrive /\ ~halted /\ LifeOf(t) /\ WorkOf(t) /\ Located(t)
           /\ at[t] \in DriveStages /\ at[t] # "idle"
           /\ Drive(t) = D /\ D \in DriveSet /\ channel.selected = D
           /\ at[t] \in Working \ Waiting => Preparing(t) /\ moved[t] = {}
           /\ at[t] \in Waiting => Completing(t)
<1>1. BaseInv /\ SingleDrive /\ ~halted /\ LifeOf(t) /\ WorkOf(t)
  BY DEF Exact, ChannelInv
<1>2. at[t] \in DriveStages /\ at[t] # "idle"
  BY DEF DriveStages, Working
<1>3. Located(t)
  BY <1>1, <1>2 DEF LifeOf, Asks
<1>4. Drive(t) = D /\ D \in DriveSet /\ channel.selected = D
  BY <1>1, <1>2, RequestFacts, SingleDriveFacts DEF BaseInv, TypeInv, Channels
<1>5. at[t] \in Working \ Waiting => Preparing(t) /\ moved[t] = {}
  BY <1>1, <1>2 DEF WorkOf, LifeOf, Untouched, Stages, Working
<1>6. at[t] \in Waiting => Completing(t)
  BY <1>1 DEF WorkOf
<1> QED
  BY <1>1, <1>2, <1>3, <1>4, <1>5, <1>6

\* What the channel and the table have to be when the thread has come to where it is.
Prepared(t) ==
    /\ at[t] \in {"select", "parameters", "prdt", "command"} => channel.command = Nil
    /\ at[t] \in {"prdt", "command"} => channel.lba = Sector(t) /\ channel.count = Count(t)
    /\ at[t] \in {"prdt", "start"} => irp[t].request.async
    /\ at[t] = "buffer" => ~irp[t].request.async
    /\ at[t] \in {"buffer", "start"} => channel.command = CommandOf(t)
    /\ at[t] \in {"command", "start"} /\ irp[t].request.async => HasTable(t)
    /\ Count(t) # 0

LEMMA PreparedFacts ==
    ASSUME Exact, NEW t \in Callers, at[t] \in Working \ Waiting
    PROVE  Prepared(t)
BY PreparingFacts DEF Prepared, Preparing, WorkOf

LEMMA PrepareStep ==
    ASSUME Exact, NEW t \in Callers, at[t] \in Working \ Waiting, at'[t] \in Working \ Waiting, OnlyOf(t),
           UNCHANGED <<irp, moved, transfer, pending, isr, halted>>, channel'.start = channel.start,
           Prepared(t)'
    PROVE  ChannelInv' /\ \A u \in Callers : LifeOf(u)'
<1>1. /\ BaseInv /\ SingleDrive /\ ~halted /\ LifeOf(t) /\ at[t] \in DriveStages /\ Preparing(t)
      /\ moved[t] = {}
  BY PreparingFacts
<1>2. Quiet' /\ \A x, y : TransferIs(x, y)' <=> TransferIs(x, y)
  BY <1>1 DEF Preparing, Quiet, Idle, TransferIs
<1>3. Preparing(t)'
  BY <1>1, <1>2 DEF Preparing, Prepared
<1>4. WorkOf(t)'
  BY <1>3 DEF WorkOf, Prepared, Waiting
<1>5. ChannelInv'
  BY <1>1, <1>4, WorkerKeeps
<1>6. LifeOf(t)'
  BY <1>1, LifeAtDrive DEF Working, DriveStages
<1> QED
  BY <1>5, <1>6, LivesKept

LEMMA ExactAtaSelectDevice ==
    ASSUME Exact, NEW t \in Callers, AtaSelectDevice(t)
    PROVE  ChannelInv' /\ \A u \in Callers : LifeOf(u)'
<1>1. /\ at[t] = "select" /\ at' = [at EXCEPT ![t] = "parameters"]
      /\ channel' = [channel EXCEPT !.selected = Drive(t)]
      /\ UNCHANGED <<irp, moved, transfer, prdt, pending, isr, halted>>
  BY DEF AtaSelectDevice, At, MoveTo
<1>2. at'[t] = "parameters" /\ OnlyOf(t)
  BY <1>1 DEF Exact, BaseInv, TypeInv, OnlyOf
<1>3. channel'.start = channel.start /\ channel'.command = channel.command
  BY <1>1 DEF Exact, BaseInv, TypeInv, Channels
<1>4. channel.command = Nil /\ Count(t) # 0
  BY <1>1, PreparedFacts DEF Prepared, Working, Waiting
<1>5. Prepared(t)'
  BY <1>1, <1>2, <1>3, <1>4, SameRequest DEF Prepared
<1> QED
  BY <1>1, <1>2, <1>3, <1>5, PrepareStep DEF Working, Waiting

LEMMA ExactAtaWriteIOParameters ==
    ASSUME Exact, NEW t \in Callers, AtaWriteIOParameters(t)
    PROVE  ChannelInv' /\ \A u \in Callers : LifeOf(u)'
<1>1. /\ at[t] = "parameters" /\ at' = [at EXCEPT ![t] = IF irp[t].request.async THEN "prdt" ELSE "command"]
      /\ channel' = [channel EXCEPT !.nien = ~irp[t].request.async, !.lba = Sector(t), !.count = Count(t)]
      /\ UNCHANGED <<irp, moved, transfer, prdt, pending, isr, halted>>
  BY DEF AtaWriteIOParameters, At, MoveTo
<1>2. at'[t] = (IF irp[t].request.async THEN "prdt" ELSE "command") /\ OnlyOf(t)
  BY <1>1 DEF Exact, BaseInv, TypeInv, OnlyOf
<1>3. /\ channel'.start = channel.start /\ channel'.command = channel.command
      /\ channel'.lba = Sector(t) /\ channel'.count = Count(t)
  BY <1>1 DEF Exact, BaseInv, TypeInv, Channels
<1>4. channel.command = Nil /\ Count(t) # 0
  BY <1>1, PreparedFacts DEF Prepared, Working, Waiting
<1>5. Sector(t)' = Sector(t) /\ Count(t)' = Count(t)
  BY <1>1, SamePlace, SameRequest
<1>6. Prepared(t)'
  BY <1>1, <1>2, <1>3, <1>4, <1>5 DEF Prepared
<1> QED
  BY <1>1, <1>2, <1>3, <1>6, PrepareStep DEF Working, Waiting

LEMMA ExactAtaWriteCommand ==
    ASSUME Exact, NEW t \in Callers, AtaWriteCommand(t)
    PROVE  ChannelInv' /\ \A u \in Callers : LifeOf(u)'
<1>1. /\ at[t] = "command" /\ at' = [at EXCEPT ![t] = IF irp[t].request.async THEN "start" ELSE "buffer"]
      /\ channel' = [channel EXCEPT !.command =
                     [drive |-> channel.selected, dma |-> irp[t].request.async,
                      sectors |-> {<<channel.selected, channel.lba + i>> : i \in 0 .. channel.count - 1}]]
      /\ UNCHANGED <<irp, moved, transfer, prdt, pending, isr, halted>>
  BY DEF AtaWriteCommand, At, MoveTo
<1>2. at'[t] = (IF irp[t].request.async THEN "start" ELSE "buffer") /\ OnlyOf(t)
  BY <1>1 DEF Exact, BaseInv, TypeInv, OnlyOf
<1>3. /\ channel'.start = channel.start
      /\ channel'.command = [drive |-> channel.selected, dma |-> irp[t].request.async,
                      sectors |-> {<<channel.selected, channel.lba + i>> : i \in 0 .. channel.count - 1}]
  BY <1>1 DEF Exact, BaseInv, TypeInv, Channels
<1>4. Prepared(t) /\ channel.selected = D
  BY <1>1, PreparedFacts, PreparingFacts DEF Working, Waiting
<1>5. channel.lba = Sector(t) /\ channel.count = Count(t) /\ (irp[t].request.async => HasTable(t))
      /\ Count(t) # 0
  BY <1>1, <1>4 DEF Prepared
<1>6. channel'.command = CommandOf(t)
  BY <1>3, <1>4, <1>5 DEF CommandOf, Span
<1>7. CommandOf(t)' = CommandOf(t) /\ (HasTable(t)' <=> HasTable(t)) /\ Count(t)' = Count(t)
  BY <1>1, SamePlace, SameRequest
<1>8. Prepared(t)'
  BY <1>1, <1>2, <1>5, <1>6, <1>7 DEF Prepared
<1> QED
  BY <1>1, <1>2, <1>3, <1>8, PrepareStep DEF Working, Waiting

LEMMA ExactAtaPrepareDmaTransfer ==
    ASSUME Exact, NEW t \in Callers, AtaPrepareDmaTransfer(t)
    PROVE  ChannelInv' /\ \A u \in Callers : LifeOf(u)'
<1>0. at[t] = "prdt" /\ at[t] \in Working \ Waiting /\ UNCHANGED <<moved, channel, pending, isr, halted>>
  BY DEF AtaPrepareDmaTransfer, At, Working, Waiting
<1>1. /\ BaseInv /\ SingleDrive /\ ~halted /\ at[t] \in DriveStages /\ Preparing(t) /\ Prepared(t)
      /\ moved[t] = {} /\ Drive(t) = D /\ D \in DriveSet
  BY <1>0, PreparingFacts, PreparedFacts
<1>2. CASE Fail(t, "no dma", "release") /\ transfer' = [transfer EXCEPT ![Drive(t)].State = "Free"]
  <2>1. irp' = [irp EXCEPT ![t].status = "no dma"] /\ at' = [at EXCEPT ![t] = "release"]
    BY <1>2 DEF Fail, MoveTo
  <2>2. irp'[t].status = "no dma" /\ \A u \in Callers : u # t => irp'[u] = irp[u]
    BY <1>1, <2>1, FailFacts DEF Statuses
  <2>3. at'[t] = "release" /\ OnlyOf(t)
    BY <1>1, <2>1, <2>2 DEF BaseInv, TypeInv, OnlyOf
  <2>4. /\ transfer'[D].State = "Free" /\ transfer'[D].Signaled = transfer[D].Signaled
        /\ transfer'[D].Waiting = transfer[D].Waiting
    BY <1>1, <1>2, TransferFacts
  <2>5. Quiet' /\ channel.command = Nil /\ ~channel.start /\ transfer[D].Signaled = FALSE
        /\ transfer[D].Waiting = <<>>
    BY <1>0, <1>1 DEF Preparing, Quiet, Idle, TransferIs
  <2>6. FreeChannel'
    BY <1>0, <2>4, <2>5 DEF FreeChannel, TransferIs
  <2>7. ChannelInv'
    BY <1>0, <1>1, <2>3, <2>6, WorkerKeeps DEF Working
  <2>8. LifeOf(t)'
    BY <1>0, <1>1, <2>2, <2>3, FailedLife
  <2> QED
    BY <1>0, <2>3, <2>7, <2>8, LivesKept
<1>3. CASE /\ prdt' = TableOf(t)
           /\ \A i \in DOMAIN irp[t].request.pairs : ValidPair(irp[t].request.pairs[i])
           /\ MoveTo(t, "command")
           /\ UNCHANGED <<irp, transfer>>
  <2>1. at'[t] = "command" /\ OnlyOf(t)
    BY <1>1, <1>3 DEF MoveTo, BaseInv, TypeInv, OnlyOf
  <2>2. Sector(t)' = Sector(t) /\ Count(t)' = Count(t) /\ TableOf(t)' = TableOf(t)
    BY <1>3, SamePlace, SameRequest
  <2>3. HasTable(t)'
    BY <1>3, <2>2 DEF HasTable
  <2>4. Prepared(t)'
    BY <1>0, <1>1, <1>3, <2>1, <2>2, <2>3 DEF Prepared
  <2> QED
    BY <1>0, <1>3, <2>1, <2>4, PrepareStep DEF Working, Waiting
<1> QED
  BY <1>2, <1>3 DEF AtaPrepareDmaTransfer, TableOf

LEMMA ExactAtaReadWriteBuffer ==
    ASSUME Exact, NEW t \in Callers, AtaReadWriteBuffer(t)
    PROVE  ChannelInv' /\ \A u \in Callers : LifeOf(u)'
<1>0. /\ at[t] = "buffer" /\ at[t] \in Working \ Waiting /\ at[t] # "idle"
      /\ moved' = [moved EXCEPT ![t] = @ \cup channel.command.sectors]
      /\ channel' = [channel EXCEPT !.command = Nil]
      /\ irp' = [irp EXCEPT ![t].status = "success", ![t].information = Count(t) * SECTOR_SIZE]
      /\ transfer' = [transfer EXCEPT ![Drive(t)].State = "Free"]
      /\ at' = [at EXCEPT ![t] = "release"]
      /\ UNCHANGED <<pending, isr, halted>>
  BY DEF AtaReadWriteBuffer, At, MoveTo, Working, Waiting
<1>1. /\ BaseInv /\ SingleDrive /\ ~halted /\ at[t] \in DriveStages /\ Preparing(t) /\ Prepared(t)
      /\ moved[t] = {} /\ Drive(t) = D /\ D \in DriveSet /\ Located(t)
  BY <1>0, PreparingFacts, PreparedFacts
<1>2. channel.command = CommandOf(t)
  BY <1>0, <1>1 DEF Prepared
<1>3. channel.command.sectors = Named(t)
  BY <1>0, <1>1, <1>2, SpanIsNamed DEF CommandOf
<1>4. moved'[t] = Named(t) /\ \A u \in Callers : u # t => moved'[u] = moved[u]
  BY <1>0, <1>1, <1>3 DEF BaseInv, TypeInv
<1>5. Count(t) * SECTOR_SIZE \in Nat
  BY <1>0, <1>1, RequestFacts
<1>6. /\ irp'[t].status = "success" /\ irp'[t].information = Count(t) * SECTOR_SIZE
      /\ irp'[t].request = irp[t].request
      /\ \A u \in Callers : u # t => irp'[u] = irp[u]
  BY <1>0, <1>1, <1>5, SuccessFacts
<1>7. at'[t] = "release" /\ OnlyOf(t)
  BY <1>0, <1>1, <1>6 DEF BaseInv, TypeInv, OnlyOf
<1>8. /\ transfer'[D].State = "Free" /\ transfer'[D].Signaled = transfer[D].Signaled
      /\ transfer'[D].Waiting = transfer[D].Waiting
  BY <1>0, <1>1, TransferFacts
<1>9. channel'.command = Nil /\ channel'.start = channel.start
  BY <1>0, <1>1 DEF BaseInv, TypeInv, Channels
<1>10. Quiet' /\ ~channel.start /\ transfer[D].Signaled = FALSE /\ transfer[D].Waiting = <<>>
  BY <1>0, <1>1 DEF Preparing, Quiet, Idle, TransferIs
<1>11. FreeChannel'
  BY <1>8, <1>9, <1>10 DEF FreeChannel, TransferIs
<1>12. ChannelInv'
  BY <1>0, <1>1, <1>7, <1>11, WorkerKeeps DEF Working
<1>13. LifeOf(t)'
  BY <1>1, <1>4, <1>6, <1>7, SameRequest DEF LifeOf, Located, Asks, DriveStages, Untouched
<1> QED
  BY <1>4, <1>7, <1>12, <1>13, LivesKept

LEMMA ExactAtaStart ==
    ASSUME Exact, NEW t \in Callers, AtaStart(t)
    PROVE  ChannelInv' /\ \A u \in Callers : LifeOf(u)'
<1>0. /\ at[t] = "start" /\ at[t] \in Working \ Waiting
      /\ channel' = [channel EXCEPT !.start = TRUE] /\ at' = [at EXCEPT ![t] = "wait"]
      /\ UNCHANGED <<irp, moved, transfer, prdt, pending, isr, halted>>
  BY DEF AtaStart, At, MoveTo, Working, Waiting
<1>1. /\ BaseInv /\ SingleDrive /\ ~halted /\ at[t] \in DriveStages /\ Preparing(t) /\ Prepared(t)
      /\ moved[t] = {} /\ LifeOf(t)
  BY <1>0, PreparingFacts, PreparedFacts
<1>2. at'[t] = "wait" /\ OnlyOf(t) /\ channel'.command = channel.command
  BY <1>0, <1>1 DEF BaseInv, TypeInv, OnlyOf, Channels
<1>3. irp[t].request.async /\ channel.command = CommandOf(t) /\ HasTable(t) /\ Count(t) # 0
  BY <1>0, <1>1 DEF Prepared
<1>4. CommandOf(t)' = CommandOf(t) /\ (HasTable(t)' <=> HasTable(t)) /\ Count(t)' = Count(t)
  BY <1>0, SamePlace, SameRequest
<1>5. Quiet' /\ TransferIs("InProgress", FALSE)' /\ transfer[D].Waiting = <<>>
  BY <1>0, <1>1 DEF Preparing, Quiet, Idle, TransferIs
<1>6. InFlight(t)'
  BY <1>0, <1>1, <1>2, <1>3, <1>4, <1>5 DEF InFlight
<1>7. Completing(t)'
  BY <1>0, <1>2, <1>3, <1>5, <1>6 DEF Completing
<1>8. WorkOf(t)'
  BY <1>0, <1>2, <1>3, <1>4, <1>7 DEF WorkOf, Waiting
<1>9. ChannelInv'
  BY <1>0, <1>1, <1>2, <1>8, WorkerKeeps DEF Working
<1>10. LifeOf(t)'
  BY <1>0, <1>1, <1>2, LifeAtDrive DEF DriveStages, Untouched, Waiting
<1> QED
  BY <1>0, <1>2, <1>9, <1>10, LivesKept

\* The thread moves while the drive completes the command; what is said of the
\* transfer stays true of it.
LEMMA WaitingStep ==
    ASSUME Exact, NEW t \in Callers, at[t] \in Waiting, at'[t] \in Waiting, OnlyOf(t),
           UNCHANGED <<irp, moved, channel, prdt, pending, isr, halted>>,
           at[t] # "finished",
           transfer'[D].State = transfer[D].State,
           transfer'[D].Waiting = IF at'[t] = "blocked" THEN <<t>> ELSE <<>>,
           \/ at'[t] # "finished" /\ transfer'[D].Signaled = transfer[D].Signaled
           \/ at'[t] = "finished" /\ transfer[D].Signaled = TRUE /\ transfer'[D].Signaled = FALSE
    PROVE  ChannelInv' /\ \A u \in Callers : LifeOf(u)'
<1>1. /\ BaseInv /\ SingleDrive /\ ~halted /\ at[t] \in DriveStages /\ Completing(t) /\ WorkOf(t) /\ LifeOf(t)
  BY PreparingFacts DEF Working, Waiting
<1>2. CommandOf(t)' = CommandOf(t) /\ (HasTable(t)' <=> HasTable(t)) /\ Named(t)' = Named(t)
      /\ Count(t)' = Count(t)
  BY SamePlace, SameRequest
<1>3. (Quiet' <=> Quiet) /\ (\A cpus : ServedIn(cpus)' <=> ServedIn(cpus)) /\ (\A c \in IoCpus : Idle(c)' <=> Idle(c))
  BY DEF Quiet, ServedIn, Idle
<1>4. CASE at'[t] # "finished" /\ transfer'[D].Signaled = transfer[D].Signaled
  <2>1. \A x, y : TransferIs(x, y)' <=> TransferIs(x, y)
    BY <1>4 DEF TransferIs
  <2>2. /\ InFlight(t) => InFlight(t)'
        /\ Coming(t) => Coming(t)'
        /\ Tested(t) => Tested(t)'
        /\ Claimed(t) => Claimed(t)'
        /\ Lost(t) => Lost(t)'
    BY <1>2, <1>3, <1>4, <2>1 DEF InFlight, Coming, Tested, Claimed, Lost
  <2>3. Over(t) => Over(t)'
    BY <1>3, <1>4 DEF Over, TransferIs
  <2> QED
    <3>1. Completing(t)'
      BY <1>1, <1>2, <2>2, <2>3 DEF Completing
    <3>2. WorkOf(t)'
      BY <1>1, <1>2, <3>1 DEF WorkOf
    <3>3. ChannelInv'
      BY <1>1, <3>2, WorkerKeeps DEF Working, Waiting
    <3>4. LifeOf(t)'
      BY <1>1, LifeAtDrive DEF DriveStages, Untouched, Waiting
    <3> QED
      BY <3>3, <3>4, LivesKept
<1>5. CASE at'[t] = "finished" /\ transfer[D].Signaled = TRUE /\ transfer'[D].Signaled = FALSE
  <2>1. channel.command = Nil /\ moved[t] = Named(t) /\ Over(t)
    BY <1>1, <1>5 DEF Completing, InFlight, Coming, Tested, Claimed, Lost, TransferIs
  <2>2. Over(t)'
    BY <1>3, <1>5, <2>1 DEF Over, TransferIs
  <2>3. Completing(t)'
    BY <1>1, <1>2, <2>1, <2>2 DEF Completing
  <2>4. WorkOf(t)'
    BY <1>1, <1>2, <2>3 DEF WorkOf
  <2>5. ChannelInv'
    BY <1>1, <2>4, WorkerKeeps DEF Working, Waiting
  <2>6. LifeOf(t)'
    BY <1>1, LifeAtDrive DEF DriveStages, Untouched, Waiting
  <2> QED
    BY <2>5, <2>6, LivesKept
<1> QED
  BY <1>4, <1>5

LEMMA ExactWaitTest ==
    ASSUME Exact, NEW t \in Callers, WaitTest(t)
    PROVE  ChannelInv' /\ \A u \in Callers : LifeOf(u)'
<1>0. /\ at[t] = "wait" /\ at[t] \in Waiting
      /\ transfer' = [transfer EXCEPT ![Drive(t)].Signaled = FALSE]
      /\ at' = [at EXCEPT ![t] = IF transfer[Drive(t)].Signaled THEN "finished" ELSE "insert"]
      /\ UNCHANGED <<irp, moved, channel, prdt, pending, isr, halted>>
  BY DEF WaitTest, At, MoveTo, Waiting
<1>1. BaseInv /\ Drive(t) = D /\ D \in DriveSet /\ Completing(t)
  BY <1>0, PreparingFacts DEF Working, Waiting
<1>2. at'[t] = (IF transfer[D].Signaled THEN "finished" ELSE "insert") /\ OnlyOf(t)
  BY <1>0, <1>1 DEF BaseInv, TypeInv, OnlyOf
<1>3. /\ transfer'[D].State = transfer[D].State /\ transfer'[D].Signaled = FALSE
      /\ transfer'[D].Waiting = transfer[D].Waiting /\ transfer[D].Signaled \in BOOLEAN
  BY <1>0, <1>1 DEF BaseInv, TypeInv, Transfers
<1>4. transfer[D].Waiting = <<>>
  BY <1>0, <1>1 DEF Completing
<1>5. at'[t] \in Waiting /\ at'[t] # "blocked" /\ (at'[t] = "finished" <=> transfer[D].Signaled)
  BY <1>2 DEF Waiting
<1> QED
  BY <1>0, <1>2, <1>3, <1>4, <1>5, WaitingStep

LEMMA ExactWaitInsert ==
    ASSUME Exact, NEW t \in Callers, WaitInsert(t)
    PROVE  ChannelInv' /\ \A u \in Callers : LifeOf(u)'
<1>0. /\ at[t] = "insert" /\ at[t] \in Waiting
      /\ transfer' = [transfer EXCEPT ![Drive(t)].Waiting = Append(@, t)]
      /\ at' = [at EXCEPT ![t] = "blocked"]
      /\ UNCHANGED <<irp, moved, channel, prdt, pending, isr, halted>>
  BY DEF WaitInsert, At, MoveTo, Waiting
<1>1. BaseInv /\ Drive(t) = D /\ D \in DriveSet /\ Completing(t)
  BY <1>0, PreparingFacts DEF Working, Waiting
<1>2. at'[t] = "blocked" /\ OnlyOf(t)
  BY <1>0, <1>1 DEF BaseInv, TypeInv, OnlyOf
<1>3. transfer[D].Waiting = <<>>
  BY <1>0, <1>1 DEF Completing
<1>4. transfer' = [transfer EXCEPT ![D] = [transfer[D] EXCEPT !.Waiting = <<t>>]]
  <2>1. Append(transfer[D].Waiting, t) = <<t>>
    BY <1>3
  <2> QED
    BY <1>0, <1>1, <2>1
<1>5. /\ transfer'[D].State = transfer[D].State /\ transfer'[D].Signaled = transfer[D].Signaled
      /\ transfer'[D].Waiting = <<t>>
  BY <1>1, <1>4 DEF BaseInv, TypeInv, Transfers
<1> QED
  BY <1>0, <1>2, <1>5, WaitingStep DEF Waiting

LEMMA ExactAtaFinish ==
    ASSUME Exact, NEW t \in Callers, AtaFinish(t)
    PROVE  ChannelInv' /\ \A u \in Callers : LifeOf(u)'
<1>0. /\ at[t] = "finished" /\ at[t] \in Waiting /\ at[t] # "idle"
      /\ UNCHANGED <<moved, channel, prdt, pending, isr>>
  BY DEF AtaFinish, At, Waiting
<1>1. /\ BaseInv /\ SingleDrive /\ ~halted /\ at[t] \in DriveStages /\ Completing(t)
      /\ Drive(t) = D /\ D \in DriveSet /\ Located(t)
  BY <1>0, PreparingFacts DEF Working, Waiting
<1>2. channel.command = Nil /\ moved[t] = Named(t) /\ Over(t) /\ transfer[D].Waiting = <<>>
  BY <1>0, <1>1 DEF Completing, InFlight, Coming, Tested, Claimed, Lost
<1>3. transfer[D].State = "Finished" /\ transfer[D].Signaled = FALSE /\ ~channel.start /\ Quiet
  BY <1>0, <1>2 DEF Over, TransferIs
<1>4. /\ irp' = [irp EXCEPT ![t].status = "success", ![t].information = Count(t) * SECTOR_SIZE]
      /\ transfer' = [transfer EXCEPT ![Drive(t)].State = "Free"]
      /\ at' = [at EXCEPT ![t] = "release"]
      /\ UNCHANGED halted
  BY <1>1, <1>3 DEF AtaFinish, MoveTo
<1>5. Count(t) * SECTOR_SIZE \in Nat
  BY <1>0, <1>1, RequestFacts
<1>6. /\ irp'[t].status = "success" /\ irp'[t].information = Count(t) * SECTOR_SIZE
      /\ irp'[t].request = irp[t].request
      /\ \A u \in Callers : u # t => irp'[u] = irp[u]
  BY <1>1, <1>4, <1>5, SuccessFacts
<1>7. at'[t] = "release" /\ OnlyOf(t)
  BY <1>1, <1>4, <1>6 DEF BaseInv, TypeInv, OnlyOf
<1>8. /\ transfer'[D].State = "Free" /\ transfer'[D].Signaled = transfer[D].Signaled
      /\ transfer'[D].Waiting = transfer[D].Waiting
  BY <1>1, <1>4, TransferFacts
<1>9. Quiet'
  BY <1>0, <1>3 DEF Quiet, Idle
<1>10. FreeChannel'
  BY <1>0, <1>2, <1>3, <1>8, <1>9 DEF FreeChannel, TransferIs
<1>11. ChannelInv'
  BY <1>1, <1>4, <1>7, <1>10, WorkerKeeps DEF Working
<1>12. LifeOf(t)'
  BY <1>0, <1>1, <1>2, <1>6, <1>7, SameRequest DEF LifeOf, Located, Asks, DriveStages, Untouched
<1> QED
  BY <1>0, <1>7, <1>11, <1>12, LivesKept

\* The drive or a handler moves while the thread waits.
LEMMA DriverStep ==
    ASSUME Exact, NEW t \in Callers, at[t] \in Waiting, at'[t] \in Waiting, OnlyOf(t),
           UNCHANGED <<irp, prdt, halted>>, \A u \in Callers : u # t => moved'[u] = moved[u],
           Completing(t)'
    PROVE  ChannelInv' /\ \A u \in Callers : LifeOf(u)'
<1>1. /\ BaseInv /\ SingleDrive /\ ~halted /\ at[t] \in DriveStages /\ WorkOf(t) /\ LifeOf(t)
  BY PreparingFacts DEF Working, Waiting
<1>2. (HasTable(t)' <=> HasTable(t)) /\ Count(t)' = Count(t)
  BY SamePlace, SameRequest
<1>3. WorkOf(t)'
  BY <1>1, <1>2 DEF WorkOf
<1>4. ChannelInv'
  BY <1>1, <1>3, WorkerKeeps DEF Working, Waiting
<1>5. LifeOf(t)'
  BY <1>1, LifeAtDrive DEF DriveStages, Untouched, Waiting
<1> QED
  BY <1>4, <1>5, LivesKept

\* Whose command the drive completes.
LEMMA CommandOwner ==
    ASSUME Exact, channel.command # Nil, channel.start
    PROVE  \E t \in Callers : at[t] \in Waiting /\ Completing(t) /\ InFlight(t) /\ prdt.owner = t
<1>1. PICK t \in Callers : at[t] \in Working /\ WorkOf(t)
  BY DEF Exact, ChannelInv, FreeChannel
<1>2. at[t] \in Waiting
  BY <1>1 DEF WorkOf, Preparing
<1>3. Completing(t) /\ InFlight(t)
  BY <1>1, <1>2 DEF WorkOf, Completing
<1>4. prdt.owner = t
  BY <1>1, <1>2, <1>3 DEF WorkOf, Completing, HasTable, TableOf
<1> QED
  BY <1>2, <1>3, <1>4

LEMMA ExactDmaComplete ==
    ASSUME Exact, DmaComplete
    PROVE  ChannelInv' /\ \A u \in Callers : LifeOf(u)'
<1>1. /\ channel.command # Nil /\ channel.start
      /\ moved' = [moved EXCEPT ![prdt.owner] = @ \cup channel.command.sectors]
      /\ channel' = [channel EXCEPT !.command = Nil, !.irq = ~channel.nien]
      /\ pending' = ~channel.nien
      /\ UNCHANGED <<at, irp, transfer, prdt, isr, halted>>
  BY DEF DmaComplete
<1>2. PICK t \in Callers : at[t] \in Waiting /\ Completing(t) /\ InFlight(t) /\ prdt.owner = t
  BY <1>1, CommandOwner
<1>3. BaseInv /\ SingleDrive /\ Located(t) /\ at[t] # "idle"
  BY <1>2, PreparingFacts DEF Working, Waiting
<1>4. channel.command.sectors = Named(t) /\ moved[t] = {}
  BY <1>2, <1>3, SpanIsNamed DEF InFlight, CommandOf
<1>5. moved'[t] = Named(t) /\ \A u \in Callers : u # t => moved'[u] = moved[u]
  BY <1>1, <1>2, <1>3, <1>4 DEF BaseInv, TypeInv
<1>6. channel'.command = Nil
  BY <1>1, <1>3 DEF BaseInv, TypeInv, Channels
<1>7. /\ \A c \in IoCpus : Idle(c)'
      /\ TransferIs("InProgress", FALSE)' /\ at'[t] # "finished"
      /\ transfer'[D].Waiting = IF at'[t] = "blocked" THEN <<t>> ELSE <<>>
      /\ irp'[t].request.async
  BY <1>1, <1>2 DEF InFlight, Quiet, Idle, TransferIs, Completing
<1>8. Coming(t)' \/ Lost(t)'
  BY <1>7 DEF Coming, Lost, Quiet
<1>9. Named(t)' = Named(t)
  BY <1>1, SameRequest
<1>10. Completing(t)'
  BY <1>5, <1>6, <1>7, <1>8, <1>9 DEF Completing
<1> QED
  BY <1>1, <1>2, <1>5, <1>10, DriverStep DEF OnlyOf

LEMMA ExactDeliver ==
    ASSUME Exact, NEW c \in IoCpus, Deliver(c)
    PROVE  ChannelInv' /\ \A u \in Callers : LifeOf(u)'
<1>1. /\ pending /\ pending' = FALSE
      /\ isr' = [isr EXCEPT ![c] = [cpu |-> "test", next |-> 1]]
      /\ UNCHANGED <<at, irp, moved, transfer, channel, prdt, halted>>
  BY DEF Deliver
<1>2. PICK t \in Callers : at[t] \in Working /\ WorkOf(t)
  BY <1>1 DEF Exact, ChannelInv, FreeChannel, Quiet
<1>3. at[t] \in Waiting
  BY <1>1, <1>2 DEF WorkOf, Preparing, Quiet
<1>4. Completing(t) /\ Coming(t) /\ channel.command = Nil /\ moved[t] = Named(t)
  BY <1>1, <1>2, <1>3 DEF WorkOf, Completing, InFlight, Tested, Claimed, Lost, Over, Quiet, ServedIn
<1>5. isr'[c].cpu = "test" /\ \A o \in IoCpus : o # c => isr'[o] = isr[o]
  BY <1>1 DEF Exact, BaseInv, TypeInv
<1>6. ServedIn({"test", "claim", "failed"})'
  BY <1>1, <1>4, <1>5 DEF ServedIn, Coming, Idle
<1>7. Tested(t)'
  BY <1>1, <1>4, <1>6 DEF Tested, Coming, TransferIs
<1>8. Named(t)' = Named(t)
  BY <1>1, SameRequest
<1>9. Completing(t)'
  BY <1>1, <1>4, <1>7, <1>8 DEF Completing
<1> QED
  BY <1>1, <1>3, <1>9, DriverStep DEF OnlyOf

\* Whose interrupt a handler serves.
LEMMA HandlerOwner ==
    ASSUME Exact, NEW c \in IoCpus, ~Idle(c)
    PROVE  /\ ~pending /\ \A o \in IoCpus : o # c => Idle(o)
           /\ channel.command = Nil
           /\ \E t \in Callers :
                 /\ at[t] \in Waiting /\ at[t] # "finished" /\ moved[t] = Named(t) /\ irp[t].request.async
                 /\ transfer[D].Waiting = IF at[t] = "blocked" THEN <<t>> ELSE <<>>
           /\ \/ isr[c].cpu \in {"test", "claim", "failed"} /\ TransferIs("InProgress", FALSE)
              \/ isr[c].cpu = "signal" /\ TransferIs("Finished", FALSE) /\ ~channel.start
<1>1. PICK t \in Callers : at[t] \in Working /\ WorkOf(t)
  BY DEF Exact, ChannelInv, FreeChannel, Quiet
<1>2. at[t] \in Waiting
  BY <1>1 DEF WorkOf, Preparing, Quiet
<1>3. Completing(t)
  BY <1>1, <1>2 DEF WorkOf
<1>4. channel.command = Nil /\ moved[t] = Named(t) /\ (Tested(t) \/ Claimed(t))
  BY <1>3 DEF Completing, InFlight, Coming, Lost, Over, Quiet
<1>5. CASE Tested(t)
  <2>1. /\ ~pending /\ (\A o \in IoCpus : o # c => Idle(o)) /\ isr[c].cpu \in {"test", "claim", "failed"}
    BY <1>5 DEF Tested, ServedIn
  <2> QED
    BY <1>2, <1>3, <1>4, <1>5, <2>1 DEF Tested, Completing
<1>6. CASE Claimed(t)
  <2>1. /\ ~pending /\ (\A o \in IoCpus : o # c => Idle(o)) /\ isr[c].cpu = "signal"
    BY <1>6 DEF Claimed, ServedIn
  <2> QED
    BY <1>2, <1>3, <1>4, <1>6, <2>1 DEF Claimed, Completing
<1> QED
  BY <1>4, <1>5, <1>6

LEMMA ExactIsrTest ==
    ASSUME Exact, NEW c \in IoCpus, IsrTest(c)
    PROVE  ChannelInv' /\ \A u \in Callers : LifeOf(u)'
<1>0. BaseInv /\ SingleDrive /\ isr[c] \in Handlers
  BY HandlerFacts DEF Exact
<1>1. /\ isr[c].cpu = "test" /\ channel' = [channel EXCEPT !.selected = Handling(c)]
      /\ UNCHANGED <<at, irp, moved, transfer, prdt, pending, halted>>
  BY DEF IsrTest, InIsr
<1>2. isr[c].next = Len(Drives)
  BY <1>0 DEF Handlers, SingleDrive
<1>3. IF channel.irq THEN \E l \in {"claim", "failed"} : isr' = [isr EXCEPT ![c].cpu = l]
      ELSE isr' = [isr EXCEPT ![c] = NoInterrupt]
  BY <1>2 DEF IsrTest
<1>4. /\ isr'[c].cpu \in IF channel.irq THEN {"claim", "failed"} ELSE {"idle"}
      /\ \A o \in IoCpus : o # c => isr'[o] = isr[o]
  BY <1>0, <1>3 DEF BaseInv, TypeInv, Handlers, NoInterrupt
<1>5. channel'.command = channel.command
  BY <1>0, <1>1 DEF BaseInv, TypeInv, Channels
<1>6. ~Idle(c) /\ isr[c].cpu # "signal"
  BY <1>1 DEF Idle
<1>7. /\ ~pending /\ (\A o \in IoCpus : o # c => Idle(o))
      /\ channel.command = Nil /\ TransferIs("InProgress", FALSE)
  BY <1>6, HandlerOwner
<1>8. PICK t \in Callers :
          /\ at[t] \in Waiting /\ at[t] # "finished" /\ moved[t] = Named(t) /\ irp[t].request.async
          /\ transfer[D].Waiting = IF at[t] = "blocked" THEN <<t>> ELSE <<>>
  BY <1>6, HandlerOwner
<1>9. Tested(t)' \/ Lost(t)'
  <2>1. TransferIs("InProgress", FALSE)' /\ at'[t] # "finished" /\ ~pending'
    BY <1>1, <1>7, <1>8 DEF TransferIs
  <2>2. \A o \in IoCpus : o # c => Idle(o)'
    BY <1>4, <1>7 DEF Idle
  <2>3. CASE channel.irq
    <3>1. ServedIn({"test", "claim", "failed"})'
      BY <1>4, <2>1, <2>2, <2>3 DEF ServedIn
    <3> QED
      BY <2>1, <3>1 DEF Tested
  <2>4. CASE ~channel.irq
    <3>1. Quiet'
      BY <1>4, <2>1, <2>2, <2>4 DEF Quiet, Idle
    <3> QED
      BY <2>1, <3>1 DEF Lost
  <2> QED
    BY <2>3, <2>4
<1>10. Named(t)' = Named(t)
  BY <1>1, SameRequest
<1>11. Completing(t)'
  BY <1>1, <1>5, <1>7, <1>8, <1>9, <1>10 DEF Completing
<1> QED
  BY <1>1, <1>8, <1>11, DriverStep DEF OnlyOf

LEMMA ExactIsrClaim ==
    ASSUME Exact, NEW c \in IoCpus, IsrClaim(c)
    PROVE  ChannelInv' /\ \A u \in Callers : LifeOf(u)'
<1>0. BaseInv /\ SingleDrive /\ isr[c] \in Handlers /\ Handling(c) = D /\ D \in DriveSet
  BY HandlerFacts, SingleDriveFacts DEF Exact
<1>1. /\ isr[c].cpu = "claim" /\ channel' = [channel EXCEPT !.start = FALSE]
      /\ UNCHANGED <<at, irp, moved, prdt, pending>>
  BY DEF IsrClaim, InIsr
<1>2. ~Idle(c) /\ isr[c].cpu # "signal"
  BY <1>1 DEF Idle
<1>3. /\ ~pending /\ (\A o \in IoCpus : o # c => Idle(o))
      /\ channel.command = Nil /\ TransferIs("InProgress", FALSE)
  BY <1>2, HandlerOwner
<1>4. PICK t \in Callers :
          /\ at[t] \in Waiting /\ at[t] # "finished" /\ moved[t] = Named(t) /\ irp[t].request.async
          /\ transfer[D].Waiting = IF at[t] = "blocked" THEN <<t>> ELSE <<>>
  BY <1>2, HandlerOwner
<1>5. /\ transfer' = [transfer EXCEPT ![D].State = "Finished"]
      /\ isr' = [isr EXCEPT ![c].cpu = "signal"]
      /\ UNCHANGED halted
  BY <1>0, <1>3 DEF IsrClaim, TransferIs
<1>6. /\ transfer'[D].State = "Finished" /\ transfer'[D].Signaled = transfer[D].Signaled
      /\ transfer'[D].Waiting = transfer[D].Waiting
  BY <1>0, <1>5, TransferFacts
<1>7. isr'[c].cpu = "signal" /\ \A o \in IoCpus : o # c => isr'[o] = isr[o]
  BY <1>0, <1>5 DEF BaseInv, TypeInv, Handlers
<1>8. channel'.command = Nil /\ ~channel'.start
  BY <1>0, <1>1, <1>3 DEF BaseInv, TypeInv, Channels
<1>9. Claimed(t)'
  <2>1. ServedIn({"signal"})'
    BY <1>1, <1>3, <1>7 DEF ServedIn, Idle
  <2> QED
    BY <1>1, <1>3, <1>4, <1>6, <1>8, <2>1 DEF Claimed, TransferIs
<1>10. Named(t)' = Named(t)
  BY <1>1, SameRequest
<1>11. Completing(t)'
  BY <1>1, <1>4, <1>6, <1>8, <1>9, <1>10 DEF Completing
<1> QED
  BY <1>1, <1>4, <1>5, <1>11, DriverStep DEF OnlyOf

LEMMA ExactIsrSignal ==
    ASSUME Exact, NEW c \in IoCpus, IsrSignal(c)
    PROVE  ChannelInv' /\ \A u \in Callers : LifeOf(u)'
<1>0. BaseInv /\ SingleDrive /\ isr[c] \in Handlers /\ Handling(c) = D /\ D \in DriveSet
  BY HandlerFacts, SingleDriveFacts DEF Exact
<1>1. /\ isr[c].cpu = "signal" /\ isr' = [isr EXCEPT ![c].cpu = "ack"]
      /\ UNCHANGED <<irp, moved, channel, prdt, pending, halted>>
  BY DEF IsrSignal, InIsr
<1>2. ~Idle(c)
  BY <1>1 DEF Idle
<1>3. /\ ~pending /\ (\A o \in IoCpus : o # c => Idle(o))
      /\ channel.command = Nil /\ TransferIs("Finished", FALSE) /\ ~channel.start
  BY <1>1, <1>2, HandlerOwner
<1>4. PICK t \in Callers :
          /\ at[t] \in Waiting /\ at[t] # "finished" /\ moved[t] = Named(t) /\ irp[t].request.async
          /\ transfer[D].Waiting = IF at[t] = "blocked" THEN <<t>> ELSE <<>>
  BY <1>2, HandlerOwner
<1>5. /\ transfer'[D].Signaled = TRUE /\ transfer'[D].State = transfer[D].State
      /\ transfer'[D].Waiting = <<>>
      /\ \/ transfer[D].Waiting = <<>> /\ at' = at
         \/ \E u \in Callers :
                /\ transfer[D].Waiting = <<u>> /\ at[u] = "blocked" /\ Drive(u) = D
                /\ at' = [at EXCEPT ![u] = "wait"]
  BY <1>0, SignalFacts
<1>6. /\ at'[t] \in Waiting /\ at'[t] # "finished" /\ at'[t] # "blocked"
      /\ \A u \in Callers : u # t => at'[u] = at[u]
  <2>1. CASE at[t] = "blocked"
    <3>1. PICK u \in Callers : transfer[D].Waiting = <<u>> /\ at' = [at EXCEPT ![u] = "wait"]
      BY <1>4, <1>5, <2>1
    <3>2. transfer[D].Waiting = <<t>>
      BY <1>4, <2>1
    <3>3. u = t
      BY <3>1, <3>2
    <3>4. at'[t] = "wait" /\ \A v \in Callers : v # t => at'[v] = at[v]
      BY <1>0, <3>1, <3>3 DEF BaseInv, TypeInv
    <3> QED
      BY <3>4 DEF Waiting
  <2>2. CASE at[t] # "blocked"
    <3>1. at' = at
      BY <1>4, <1>5, <2>2
    <3> QED
      BY <1>4, <2>2, <3>1
  <2> QED
    BY <2>1, <2>2
<1>7. isr'[c].cpu = "ack" /\ \A o \in IoCpus : o # c => isr'[o] = isr[o]
  BY <1>0, <1>1 DEF BaseInv, TypeInv, Handlers
<1>8. Over(t)'
  <2>1. Quiet'
    BY <1>1, <1>3, <1>7 DEF Quiet, Idle
  <2> QED
    BY <1>1, <1>3, <1>5, <1>6, <2>1 DEF Over, TransferIs
<1>9. Named(t)' = Named(t)
  BY <1>1, SameRequest
<1>10. Completing(t)'
  BY <1>1, <1>3, <1>4, <1>5, <1>6, <1>8, <1>9 DEF Completing
<1> QED
  BY <1>1, <1>4, <1>6, <1>10, DriverStep DEF OnlyOf

\* The last step of a handler touches nothing a request depends on.
LEMMA ExactIsrAck ==
    ASSUME Exact, NEW c \in IoCpus, IsrAck(c)
    PROVE  ChannelInv' /\ \A u \in Callers : LifeOf(u)'
<1>0. BaseInv /\ SingleDrive /\ ChannelInv
  BY DEF Exact
<1>1. /\ isr[c].cpu = "ack" /\ channel' = [channel EXCEPT !.irq = FALSE]
      /\ isr' = [isr EXCEPT ![c] = NoInterrupt]
      /\ UNCHANGED <<at, irp, moved, transfer, prdt, pending, halted>>
  BY DEF IsrAck, InIsr
<1>2. /\ channel'.command = channel.command /\ channel'.start = channel.start
      /\ channel'.lba = channel.lba /\ channel'.count = channel.count
  BY <1>0, <1>1 DEF BaseInv, TypeInv, Channels
<1>3. isr'[c].cpu = "idle" /\ \A o \in IoCpus : o # c => isr'[o] = isr[o]
  BY <1>0, <1>1 DEF BaseInv, TypeInv, NoInterrupt
<1>4. \A o \in IoCpus : Idle(o)' <=> Idle(o)
  BY <1>1, <1>3 DEF Idle
<1>5. /\ Quiet' <=> Quiet
      /\ ServedIn({"test", "claim", "failed"}) => ServedIn({"test", "claim", "failed"})'
      /\ ServedIn({"signal"}) => ServedIn({"signal"})'
      /\ \A x, y : TransferIs(x, y)' <=> TransferIs(x, y)
  <2>1. Quiet' <=> Quiet
    BY <1>1, <1>4 DEF Quiet
  <2>2. ASSUME ServedIn({"test", "claim", "failed"})
        PROVE  ServedIn({"test", "claim", "failed"})'
    <3>1. PICK k \in IoCpus : isr[k].cpu \in {"test", "claim", "failed"} /\ \A o \in IoCpus : o # k => Idle(o)
      BY <2>2 DEF ServedIn
    <3>2. isr'[k].cpu \in {"test", "claim", "failed"}
      BY <1>1, <1>3, <3>1
    <3> QED
      BY <1>1, <1>4, <2>2, <3>1, <3>2 DEF ServedIn
  <2>3. ASSUME ServedIn({"signal"})
        PROVE  ServedIn({"signal"})'
    <3>1. PICK k \in IoCpus : isr[k].cpu = "signal" /\ \A o \in IoCpus : o # k => Idle(o)
      BY <2>3 DEF ServedIn
    <3>2. isr'[k].cpu = "signal"
      BY <1>1, <1>3, <3>1
    <3> QED
      BY <1>1, <1>4, <2>3, <3>1, <3>2 DEF ServedIn
  <2>4. \A x, y : TransferIs(x, y)' <=> TransferIs(x, y)
    BY <1>1 DEF TransferIs
  <2> QED
    BY <2>1, <2>2, <2>3, <2>4
<1>6. ASSUME NEW u \in Callers, WorkOf(u)
      PROVE  WorkOf(u)'
  <2>1. /\ CommandOf(u)' = CommandOf(u) /\ Sector(u)' = Sector(u)
        /\ Count(u)' = Count(u) /\ Named(u)' = Named(u) /\ (HasTable(u)' <=> HasTable(u))
    BY <1>1, SamePlace, SameRequest
  <2>2. Preparing(u) => Preparing(u)'
    BY <1>1, <1>2, <1>5, <2>1 DEF Preparing
  <2>3. /\ InFlight(u) => InFlight(u)'
        /\ Coming(u) => Coming(u)'
        /\ Tested(u) => Tested(u)'
        /\ Claimed(u) => Claimed(u)'
        /\ Lost(u) => Lost(u)'
        /\ Over(u) => Over(u)'
    <3>1. InFlight(u) => InFlight(u)'
      BY <1>1, <1>2, <1>5, <2>1 DEF InFlight
    <3>2. Coming(u) => Coming(u)'
      BY <1>1, <1>4, <1>5 DEF Coming
    <3>3. Over(u) => Over(u)'
      BY <1>1, <1>2, <1>5 DEF Over
    <3> QED
      BY <1>1, <1>2, <1>5, <3>1, <3>2, <3>3 DEF Tested, Claimed, Lost
  <2>4. Completing(u) => Completing(u)'
    BY <1>1, <1>2, <2>1, <2>3 DEF Completing
  <2> QED
    BY <1>1, <1>6, <2>1, <2>2, <2>4 DEF WorkOf
<1>7. FreeChannel => FreeChannel'
  BY <1>1, <1>2, <1>5 DEF FreeChannel
<1>8. ChannelInv'
  BY <1>0, <1>1, <1>6, <1>7 DEF ChannelInv
<1>9. \A u \in Callers : LifeOf(u)'
  BY <1>1, LifeKept DEF Exact
<1> QED
  BY <1>8, <1>9

LEMMA ExactInitially ==
    ASSUME StorageInit, SingleDrive
    PROVE  Exact
<1>1. BaseInv
  BY BaseInitially
<1>2. \A t \in Callers : at[t] = "idle" /\ moved[t] = {}
  BY DEF StorageInit
<1>3. D \in DriveSet
  BY SingleDriveFacts
<1>4. FreeChannel
  <2>1. transfer[D] = [State |-> "Free", Signaled |-> FALSE, Waiting |-> <<>>]
    BY <1>3 DEF StorageInit, DriveSet
  <2>2. TransferIs("Free", FALSE) /\ transfer[D].Waiting = <<>>
    BY <2>1 DEF TransferIs
  <2>3. Quiet
    BY DEF StorageInit, Quiet, Idle, NoInterrupt
  <2>4. channel.command = Nil /\ ~channel.start
    BY DEF StorageInit
  <2> QED
    BY <2>2, <2>3, <2>4 DEF FreeChannel
<1>5. ChannelInv
  <2>1. ~halted
    BY DEF StorageInit
  <2> QED
    BY <1>2, <1>4, <2>1 DEF ChannelInv, Working
<1>6. \A t \in Callers : LifeOf(t)
  BY <1>2 DEF LifeOf, Asks, DriveStages
<1> QED
  BY <1>1, <1>5, <1>6 DEF Exact

LEMMA ExactNext ==
    ASSUME Exact, [StorageNext]_storageVars
    PROVE  Exact'
<1>1. BaseInv'
  BY BaseNext DEF Exact
<1>2. SingleDrive'
  BY DEF Exact, SingleDrive
<1>3. ASSUME NEW t \in Callers, Step(t)
      PROVE  ChannelInv' /\ \A u \in Callers : LifeOf(u)'
  BY <1>3, ExactIoCallDriver, ExactAcquired, ExactRelease, ExactIoReturn, ExactVolDispatchReadWrite,
     ExactDiskDispatchReadWrite, ExactAtaDispatchReadWrite, ExactAtaSelectDevice,
     ExactAtaWriteIOParameters, ExactAtaPrepareDmaTransfer, ExactAtaWriteCommand,
     ExactAtaReadWriteBuffer, ExactAtaStart, ExactWaitTest, ExactWaitInsert, ExactAtaFinish DEF Step
<1>4. ASSUME NEW c \in IoCpus, Deliver(c) \/ IsrStep(c)
      PROVE  ChannelInv' /\ \A u \in Callers : LifeOf(u)'
  BY <1>4, ExactDeliver, ExactIsrTest, ExactIsrClaim, ExactIsrSignal, ExactIsrAck DEF IsrStep
<1>5. ASSUME UNCHANGED storageVars
      PROVE  ChannelInv' /\ \A u \in Callers : LifeOf(u)'
  <2>1. UNCHANGED <<at, irp, moved, transfer, channel, prdt, pending, isr, halted>>
    BY <1>5 DEF storageVars
  <2>2. ChannelInv'
    BY <2>1, WorkKept, FreeKept DEF Exact, ChannelInv
  <2> QED
    BY <2>1, <2>2, LifeKept DEF Exact
<1>6. ChannelInv' /\ \A u \in Callers : LifeOf(u)'
  BY <1>3, <1>4, <1>5, ExactIoReadWriteDevice, ExactDmaComplete DEF StorageNext
<1> QED
  BY <1>1, <1>2, <1>6 DEF Exact

----------------------------------------------------------------------------
\* What the properties say

LEMMA BaseGives ==
    ASSUME BaseInv
    PROVE  StorageTypeOK /\ LocksNest
<1>1. StorageTypeOK
  <2>1. \A t \in Callers : irp[t].location \in 0 .. 3
    BY DEF BaseInv, TypeInv, Irps
  <2>2. \A d \in DriveSet : transfer[d].State \in {"Free", "InProgress", "Finished"}
    BY DEF BaseInv, TypeInv, Transfers
  <2>3. \A c \in IoCpus : isr[c].cpu \in {"idle", "test", "claim", "failed", "signal", "ack"}
    BY DEF BaseInv, TypeInv, Handlers
  <2>4. channel.selected \in DriveSet /\ \A d \in Devices : DeviceLock[d] \in Seq(Callers)
    BY DEF BaseInv, TypeInv, Channels
  <2> QED
    BY <2>1, <2>2, <2>3, <2>4 DEF StorageTypeOK, StackSize, DriveSet
<1>2. ASSUME NEW t \in Callers, NEW l \in HeldBy(t)
      PROVE  DeviceLock[DeviceOf(t, l)] # <<>> /\ Head(DeviceLock[DeviceOf(t, l)]) = t
  <2>1. Holds(t, l) /\ l \in 0 .. 2
    BY DEF HeldBy, Holds, Levels, StackSize
  <2> QED
    BY <2>1 DEF BaseInv, LocksOf
<1> QED
  BY <1>1, <1>2 DEF LocksNest

LEMMA ExactGives ==
    ASSUME Exact
    PROVE  RequestExact /\ TransferInStep /\ (BuffersAreDescribed => PrdtExact)
<1>0. BaseInv /\ SingleDrive /\ ChannelInv
  BY DEF Exact
<1>1. TransferInStep
  BY <1>0 DEF ChannelInv, TransferInStep
<1>2. ASSUME NEW t \in Callers, at[t] = "done"
      PROVE  IF irp[t].status = "success"
             THEN /\ moved[t] = Named(t)
                  /\ Cardinality(moved[t]) * SECTOR_SIZE = irp[t].request.length
                  /\ irp[t].information = irp[t].request.length
             ELSE moved[t] = {}
  <2>1. LifeOf(t)
    BY DEF Exact
  <2>2. IF irp[t].status = "success"
        THEN Inside(t) /\ moved[t] = Named(t) /\ irp[t].information = Count(t) * SECTOR_SIZE
        ELSE moved[t] = {}
    BY <1>2, <2>1 DEF LifeOf
  <2>3. Inside(t) =>
            Cardinality(Named(t)) = Count(t) /\ Count(t) * SECTOR_SIZE = irp[t].request.length
    BY <1>0, <1>2, NamedCardinality
  <2> QED
    BY <2>2, <2>3
<1>3. ASSUME BuffersAreDescribed, NEW t \in Callers, prdt.owner = t, at[t] \in {"command", "start", "wait"},
             irp[t].request.async
      PROVE  TableExact(prdt.table, irp[t].request.pairs, Count(t) * SECTOR_SIZE)
  <2>1. at[t] \in Working /\ at[t] # "idle" /\ at[t] \in {"command", "start"} \cup Waiting
    BY <1>3 DEF Working, Waiting
  <2>2. HasTable(t) /\ Count(t) # 0
    BY <1>0, <1>3, <2>1 DEF ChannelInv, WorkOf
  <2>3. irp[t].request \in Requests /\ Count(t) \in Nat
    BY <1>0, <2>1, RequestFacts
  <2>4. Count(t) * SECTOR_SIZE > 0
    <3>1. SECTOR_SIZE \in Nat \ {0}
      BY StorageAssumption
    <3>2. \A n \in Nat : n # 0 => n * SECTOR_SIZE > 0
      BY <3>1
    <3> QED
      BY <2>2, <2>3, <3>2
  <2>5. \A i \in DOMAIN irp[t].request.pairs : ValidPair(irp[t].request.pairs[i])
    BY <2>2 DEF HasTable
  <2>6. prdt.table = PrdTable(irp[t].request.pairs, Count(t) * SECTOR_SIZE)
    BY <2>2 DEF HasTable, TableOf
  <2>7. PICK r \in Requests : r = irp[t].request
    BY <2>3
  <2>8. /\ r.async /\ r.length \in Nat /\ r.pairs \in Seq(Entries)
        /\ \A i \in DOMAIN r.pairs : ValidPair(r.pairs[i])
    BY <1>3, <2>5, <2>7, RequestAssumption DEF Entries
  <2>9. Count(t) * SECTOR_SIZE = r.length
    <3>1. Asks(t)
      BY <2>1 DEF Asks, Working, DriveStages
    <3>2. Inside(t)
      BY <3>1 DEF Exact, LifeOf, Located
    <3> QED
      BY <1>0, <2>1, <2>7, <3>2, NamedCardinality
  <2>10. Describes(r.pairs, r.length)
    BY <1>3, <2>4, <2>8, <2>9 DEF BuffersAreDescribed
  <2>11. \A i \in DOMAIN r.pairs : r.pairs[i].bytes <= ATA_DMA_PHYSICAL_BOUNDARY
    <3> TAKE i \in DOMAIN r.pairs
    <3>1. r.pairs[i] \in Entries
      BY <2>8
    <3>2. PICK b \in Nat, z \in Nat : b = r.pairs[i].bytes /\ z = ATA_DMA_PHYSICAL_BOUNDARY
      BY <3>1, StorageAssumption DEF Entries
    <3>3. b <= z - 1
      BY <2>8, <3>2, Zenon DEF ValidPair
    <3>4. b <= z
      BY <3>3
    <3> QED
      BY <3>2, <3>4, Zenon
  <2>12. TableExact(PrdTable(r.pairs, r.length), r.pairs, r.length)
    BY <2>8, <2>10, <2>11, TableIsExact
  <2> QED
    BY <2>6, <2>7, <2>9, <2>12
<1> QED
  BY <1>1, <1>2, <1>3 DEF RequestExact, PrdtExact

----------------------------------------------------------------------------
\* IoCallDriver keeps the DeviceLock of a level while the level below works on the
\* request: with any number of drives on the channel, a thread below a level is the
\* holder of that level's device, until it has returned to it and released it.
THEOREM DeviceLocksNest == StorageSpec => [](StorageTypeOK /\ LocksNest)
<1>1. StorageInit => BaseInv
  BY BaseInitially
<1>2. BaseInv /\ [StorageNext]_storageVars => BaseInv'
  BY BaseNext
<1>3. BaseInv => StorageTypeOK /\ LocksNest
  BY BaseGives
<1> QED
  BY <1>1, <1>2, <1>3, PTL DEF StorageSpec

\* With one drive on the channel, in every interleaving of the requests, the drive and
\* the interrupt handlers of the CPUs: the ASSERTs of ata_dispatch.c and
\* ata_operations.c on the state of the transfer hold, a request that succeeds has moved
\* the sectors it names and no others, one that fails has moved none, and the bus master
\* has an exact table of the buffer of the thread it works for, if MdlAllocateEx has
\* described it: the loop of _AtaPrepareDmaTransfer neither loses nor repeats a byte, and
\* no entry crosses the boundary.
THEOREM StorageIsCorrect == StorageSpec => [](SingleDrive /\ BuffersAreDescribed => StorageInv)
<1>1. StorageInit => (SingleDrive => Exact)
  BY ExactInitially
<1>2. (SingleDrive => Exact) /\ [StorageNext]_storageVars => (SingleDrive => Exact)'
  BY ExactNext DEF SingleDrive
<1>3. StorageInit => BaseInv
  BY BaseInitially
<1>4. BaseInv /\ [StorageNext]_storageVars => BaseInv'
  BY BaseNext
<1>5. BaseInv /\ (SingleDrive => Exact) => (SingleDrive /\ BuffersAreDescribed => StorageInv)
  BY BaseGives, ExactGives DEF StorageInv
<1> QED
  BY <1>1, <1>2, <1>3, <1>4, <1>5, PTL DEF StorageSpec

----------------------------------------------------------------------------
\* Network

\* Indices in a ring

\* How far index d is ahead of index h in a ring of n descriptors.
Dist(n, h, d) == IF d >= h THEN d - h ELSE d + n - h
Succ(n, d) == IF d = n - 1 THEN 0 ELSE d + 1

LEMMA DistFacts ==
    ASSUME NEW n \in Nat, n >= 2, NEW h \in 0 .. n - 1, NEW d \in 0 .. n - 1
    PROVE  /\ Dist(n, h, d) \in Nat /\ Dist(n, h, d) < n
           /\ Dist(n, h, d) = 0 <=> d = h
           /\ Succ(n, d) # h => Dist(n, h, Succ(n, d)) = Dist(n, h, d) + 1
           /\ d # h => Dist(n, Succ(n, h), d) = Dist(n, h, d) - 1
           /\ d = h => Dist(n, Succ(n, h), d) = n - 1
           /\ (d + n - h) % n = Dist(n, h, d)
<1>1. /\ Dist(n, h, d) \in Nat /\ Dist(n, h, d) < n
      /\ Dist(n, h, d) = 0 <=> d = h
  BY DEF Dist
<1>2. Succ(n, d) # h => Dist(n, h, Succ(n, d)) = Dist(n, h, d) + 1
  BY DEF Dist, Succ
<1>3. /\ d # h => Dist(n, Succ(n, h), d) = Dist(n, h, d) - 1
      /\ d = h => Dist(n, Succ(n, h), d) = n - 1
  BY DEF Dist, Succ
<1>4. (d + n - h) % n = Dist(n, h, d)
  BY DEF Dist
<1> QED
  BY <1>1, <1>2, <1>3, <1>4

LEMMA DistDiffers ==
    ASSUME NEW n \in Nat, n >= 2, NEW h \in 0 .. n - 1, NEW d \in 0 .. n - 1, NEW e \in 0 .. n - 1, d # e
    PROVE  Dist(n, h, d) # Dist(n, h, e) /\ Succ(n, d) # Succ(n, e)
BY DEF Dist, Succ

\* The index i places behind h.
LEMMA DistAt ==
    ASSUME NEW n \in Nat, n >= 2, NEW h \in 0 .. n - 1, NEW i \in 0 .. n - 1
    PROVE  (h + i) % n \in 0 .. n - 1 /\ Dist(n, h, (h + i) % n) = i
BY DEF Dist

LEMMA SuccIs ==
    ASSUME NEW n \in Nat, n >= 2, NEW d \in 0 .. n - 1
    PROVE  (d + 1) % n = Succ(n, d) /\ Succ(n, d) \in 0 .. n - 1
BY DEF Succ

\* Lists
LEMMA AppendIs ==
    ASSUME NEW S, NEW q \in Seq(S), NEW e \in S
    PROVE  /\ Append(q, e) \in Seq(S) /\ Len(q) \in Nat
           /\ Len(Append(q, e)) = Len(q) + 1
           /\ \A i \in 1 .. Len(q) + 1 :
                  /\ Append(q, e)[i] = IF i = Len(q) + 1 THEN e ELSE q[i]
                  /\ i # Len(q) + 1 => i \in 1 .. Len(q)
OBVIOUS

LEMMA TailIs ==
    ASSUME NEW S, NEW q \in Seq(S), q # <<>>
    PROVE  /\ Head(q) \in S /\ Head(q) = q[1]
           /\ Tail(q) \in Seq(S) /\ Len(q) \in Nat /\ Len(q) >= 1
           /\ Len(Tail(q)) = Len(q) - 1
           /\ \A i \in 1 .. Len(q) - 1 : Tail(q)[i] = q[i + 1] /\ i + 1 \in 1 .. Len(q)
OBVIOUS

\* Two runs of consecutive numbers make one.
LEMMA RunsJoin ==
    ASSUME NEW p \in Seq(Nat), NEW q \in Seq(Nat),
           \A i \in 1 .. Len(p) : p[i] = i, \A i \in 1 .. Len(q) : q[i] = Len(p) + i
    PROVE  /\ p \o q \in Seq(Nat) /\ Len(p \o q) = Len(p) + Len(q)
           /\ \A i \in 1 .. Len(p \o q) : (p \o q)[i] = i
OBVIOUS

LEMMA RunIs ==
    ASSUME NEW p \in Seq(Nat), \A i \in 1 .. Len(p) : p[i] = i
    PROVE  p = [i \in 1 .. Len(p) |-> i]
OBVIOUS

----------------------------------------------------------------------------
\* Sending

\* How far a descriptor is behind the head, and the number of descriptors in use.
Offset(d) == Dist(NumberOfTxDescriptors, TxHead, d)
Used == Offset(CurrentDescriptor)
Handled == IF descriptorEntry = 0 THEN 0 ELSE 1

TxDataTypeOK ==
    /\ FramesList \in Seq(1 .. MaxSends) /\ wire \in Seq(0 .. MaxSends)
    /\ ring \in [Descriptors -> [frame : 0 .. MaxSends, done : BOOLEAN]]

\* The transmit thread holds a frame between the list and the ring.
HandledInv == descriptorEntry # 0 <=>
    worker \in {"available", "available insert", "available blocked", "post"}

\* The tail follows the current descriptor; the card cannot get ahead of it.
TailInv ==
    /\ worker \notin {"full", "full locked", "tail"} => TxTail = CurrentDescriptor
    /\ worker \in {"full", "full locked", "tail"} =>
           NextIndex(TxTail) = CurrentDescriptor /\ (~overrun => TxHead # CurrentDescriptor)

\* A ring that was not overrun has room for the frame that is about to be posted.
RoomInv == worker = "post" /\ ~overrun => ~RingIsFull

\* Each frame is where its number says.
OrderInv == ~overrun =>
    /\ \A i \in 1 .. Len(wire) : wire[i] = i
    /\ \A d \in Descriptors : Offset(d) < Used => ring[d].frame = Len(wire) + Offset(d) + 1
    /\ descriptorEntry # 0 => descriptorEntry = Len(wire) + Used + 1
    /\ \A i \in 1 .. Len(FramesList) : FramesList[i] = Len(wire) + Used + Handled + i
    /\ accepted = Len(wire) + Used + Handled + Len(FramesList)

TxIInv == TxTypeOK /\ TxDataTypeOK /\ HandledInv /\ TailInv /\ RoomInv /\ OrderInv

\* The successor of a descriptor.
LEMMA NextIndexIs ==
    ASSUME NEW i \in Descriptors
    PROVE  NextIndex(i) = Succ(NumberOfTxDescriptors, i) /\ NextIndex(i) \in Descriptors
BY NetworkTxAssumption, SuccIs DEF NextIndex, Descriptors

LEMMA TxFacts ==
    ASSUME TxIInv
    PROVE  /\ NumberOfTxDescriptors \in Nat /\ NumberOfTxDescriptors >= 2 /\ MaxSends \in Nat
           /\ TxHead \in Descriptors /\ TxTail \in Descriptors /\ CurrentDescriptor \in Descriptors
           /\ FramesList \in Seq(1 .. MaxSends) /\ Len(FramesList) \in Nat
           /\ wire \in Seq(0 .. MaxSends) /\ Len(wire) \in Nat /\ accepted \in Nat
           /\ Handled \in {0, 1} /\ (Handled = 0 <=> descriptorEntry = 0)
           /\ \A d \in Descriptors : d \in Nat /\ Offset(d) \in Nat /\ Offset(d) < NumberOfTxDescriptors
           /\ Used \in Nat /\ Used < NumberOfTxDescriptors
<1>1. /\ NumberOfTxDescriptors \in Nat /\ NumberOfTxDescriptors >= 2 /\ MaxSends \in Nat
      /\ TxHead \in Descriptors /\ TxTail \in Descriptors /\ CurrentDescriptor \in Descriptors
      /\ FramesList \in Seq(1 .. MaxSends) /\ wire \in Seq(0 .. MaxSends)
      /\ accepted \in 0 .. MaxSends
  BY NetworkTxAssumption DEF TxIInv, TxTypeOK, TxDataTypeOK
<1>2. Len(FramesList) \in Nat /\ Len(wire) \in Nat /\ accepted \in Nat
  BY <1>1
<1>3. Handled \in {0, 1} /\ (Handled = 0 <=> descriptorEntry = 0)
  BY DEF Handled
<1>4. \A d \in Descriptors : d \in Nat /\ Offset(d) \in Nat /\ Offset(d) < NumberOfTxDescriptors
  BY <1>1, DistFacts DEF Descriptors, Offset
<1> QED
  BY <1>1, <1>2, <1>3, <1>4 DEF Used

LEMMA InitTxIInv == TxInit => TxIInv
<1> SUFFICES ASSUME TxInit PROVE TxIInv
  OBVIOUS
<1> USE NetworkTxAssumption DEF TxInit
<1>1. TxTypeOK /\ TxDataTypeOK
  <2>1. <<>> \in Seq(1 .. MaxSends) /\ <<>> \in Seq(0 .. MaxSends) /\ 0 \in Descriptors
    BY DEF Descriptors
  <2>2. ring \in [Descriptors -> [frame : 0 .. MaxSends, done : BOOLEAN]]
    OBVIOUS
  <2> QED
    BY <2>1, <2>2 DEF TxTypeOK, TxDataTypeOK
<1>2. HandledInv /\ TailInv /\ RoomInv
  BY DEF HandledInv, TailInv, RoomInv
<1>3. OrderInv
  BY DEF OrderInv, Offset, Used, Handled, Descriptors, Dist
<1> QED
  BY <1>1, <1>2, <1>3 DEF TxIInv

\* Steps that neither move a frame nor touch the card's indices.
LEMMA FramesStay ==
    ASSUME TxIInv, UNCHANGED <<FramesList, accepted, descriptorEntry, CurrentDescriptor, ring, TxHead,
                               TxTail, wire>>,
           FramesListNotEmpty' \in BOOLEAN, DescriptorsAvailable' \in BOOLEAN, txCause' \in BOOLEAN,
           overrun => overrun',
           \/ worker' = worker
           \/ worker \in {"wait", "insert", "blocked", "remove"} /\ worker' \in {"wait", "insert", "blocked", "remove"}
           \/ worker \in {"full", "full locked", "tail"} /\ worker' \in {"full", "full locked", "tail"}
           \/ /\ worker \in {"available", "available insert", "available blocked", "post"} /\ worker' \in {"available", "available insert", "available blocked", "post"}
              /\ worker' = "post" /\ RingIsFull => overrun'
    PROVE  TxIInv'
<1>1. TxTypeOK' /\ TxDataTypeOK'
  BY DEF TxIInv, TxTypeOK, TxDataTypeOK
<1>2. HandledInv'
  BY DEF TxIInv, HandledInv
<1>3. TailInv' /\ RoomInv'
  BY DEF TxIInv, TailInv, RoomInv, RingIsFull
<1>4. OrderInv'
  BY DEF TxIInv, OrderInv, Offset, Used, Handled
<1> QED
  BY <1>1, <1>2, <1>3, <1>4 DEF TxIInv

\* A frame is accepted.
LEMMA SendInsertInv ==
    ASSUME TxIInv, NEW s \in Senders, SendInsert(s)
    PROVE  TxIInv'
<1>1. /\ UNCHANGED <<FramesListNotEmpty, CurrentDescriptor, ring, TxHead, TxTail, txCause, wire, worker,
                     descriptorEntry, DescriptorsAvailable, overrun>>
      /\ accepted < MaxSends /\ accepted' = accepted + 1
      /\ FramesList' = Append(FramesList, accepted + 1)
  BY DEF SendInsert, cardVars
<1>0. accepted + 1 \in 1 .. MaxSends
  <2>1. accepted \in Nat /\ MaxSends \in Nat
    BY TxFacts
  <2> QED
    BY <1>1, <2>1
<1>2. TxTypeOK' /\ TxDataTypeOK'
  <2>1. FramesList' \in Seq(1 .. MaxSends)
    BY <1>0, <1>1, TxFacts, AppendIs
  <2>2. accepted' \in 0 .. MaxSends
    BY <1>0, <1>1
  <2> QED
    BY <1>1, <2>1, <2>2 DEF TxIInv, TxTypeOK, TxDataTypeOK
<1>3. HandledInv' /\ TailInv' /\ RoomInv'
  BY <1>1 DEF TxIInv, HandledInv, TailInv, RoomInv, RingIsFull
<1>4. OrderInv'
  <2>1. /\ Len(FramesList') = Len(FramesList) + 1
        /\ \A i \in 1 .. Len(FramesList') :
               /\ FramesList'[i] = IF i = Len(FramesList) + 1 THEN accepted + 1 ELSE FramesList[i]
               /\ i # Len(FramesList) + 1 => i \in 1 .. Len(FramesList)
    <3>1. FramesList \in Seq(1 .. MaxSends)
      BY TxFacts
    <3> DEFINE q == Append(FramesList, accepted + 1)
    <3>2. /\ Len(q) = Len(FramesList) + 1
          /\ \A i \in 1 .. Len(FramesList) + 1 :
                 /\ q[i] = IF i = Len(FramesList) + 1 THEN accepted + 1 ELSE FramesList[i]
                 /\ i # Len(FramesList) + 1 => i \in 1 .. Len(FramesList)
      BY <1>0, <3>1, AppendIs
    <3>3. FramesList' = q
      BY <1>1
    <3> QED
      BY <3>2, <3>3
  <2>2. Used' = Used /\ Handled' = Handled /\ \A d : Offset(d)' = Offset(d)
    BY <1>1 DEF Used, Handled, Offset
  <2>3. Len(wire) \in Nat /\ Used \in Nat /\ Handled \in Nat /\ Len(FramesList) \in Nat
    BY TxFacts
  <2> QED
    BY <1>1, <2>1, <2>2, <2>3 DEF TxIInv, OrderInv
<1> QED
  BY <1>2, <1>3, <1>4 DEF TxIInv

\* The transmit thread takes the first frame of the list.
LEMMA WorkerRemoveInv ==
    ASSUME TxIInv, WorkerRemove
    PROVE  TxIInv'
<1>1. /\ UNCHANGED <<accepted, CurrentDescriptor, ring, TxHead, TxTail, txCause, wire,
                     DescriptorsAvailable, overrun>>
      /\ worker = "remove"
  BY DEF WorkerRemove, cardVars, WorkerAt
<1>2. CASE FramesList = <<>>
  <2>1. /\ FramesListNotEmpty' \in BOOLEAN /\ DescriptorsAvailable' \in BOOLEAN /\ txCause' \in BOOLEAN
        /\ UNCHANGED <<FramesList, descriptorEntry>> /\ worker' = "wait"
    BY <1>1, <1>2 DEF WorkerRemove, TxIInv, TxTypeOK
  <2> QED
    BY <1>1, <2>1, FramesStay
<1>3. CASE FramesList # <<>>
  <2>1. /\ descriptorEntry' = Head(FramesList) /\ FramesList' = Tail(FramesList)
        /\ worker' = "available" /\ UNCHANGED FramesListNotEmpty
    BY <1>3 DEF WorkerRemove
  <2>2. /\ FramesList' \in Seq(1 .. MaxSends) /\ descriptorEntry' \in 1 .. MaxSends
        /\ descriptorEntry' = FramesList[1]
        /\ Len(FramesList') = Len(FramesList) - 1 /\ Len(FramesList) >= 1 /\ Len(FramesList) \in Nat
        /\ \A i \in 1 .. Len(FramesList') : FramesList'[i] = FramesList[i + 1] /\ i + 1 \in 1 .. Len(FramesList)
    BY <1>3, <2>1, TxFacts, TailIs
  <2>3. TxTypeOK' /\ TxDataTypeOK'
    BY <1>1, <2>1, <2>2 DEF TxIInv, TxTypeOK, TxDataTypeOK
  <2>4. HandledInv' /\ TailInv' /\ RoomInv'
    BY <1>1, <2>1, <2>2 DEF TxIInv, HandledInv, TailInv, RoomInv
  <2>5. OrderInv'
    <3>1. Used' = Used /\ Handled' = 1 /\ Handled = 0 /\ \A d : Offset(d)' = Offset(d)
      BY <1>1, <2>2 DEF Used, Handled, Offset, TxIInv, HandledInv
    <3>2. Len(wire) \in Nat /\ Used \in Nat
      BY TxFacts
    <3> HIDE DEF Used, Handled
    <3>3. ASSUME ~overrun PROVE descriptorEntry' = Len(wire) + Used + 1 
      BY <2>2, <3>1, <3>2, <3>3 DEF TxIInv, OrderInv
    <3>4. ASSUME ~overrun, NEW i \in 1 .. Len(FramesList') PROVE FramesList'[i] = Len(wire) + Used + 1 + i
      BY <2>2, <3>1, <3>2, <3>4 DEF TxIInv, OrderInv
    <3>5. ASSUME ~overrun PROVE accepted = Len(wire) + Used + 1 + Len(FramesList')
      BY <2>2, <3>1, <3>2, <3>5 DEF TxIInv, OrderInv
    <3>6. ASSUME ~overrun PROVE /\ \A i \in 1 .. Len(wire) : wire[i] = i
                                /\ \A d \in Descriptors : Offset(d) < Used => ring[d].frame = Len(wire) + Offset(d) + 1
      BY <3>6 DEF TxIInv, OrderInv
    <3> QED
      BY <1>1, <3>1, <3>3, <3>4, <3>5, <3>6 DEF OrderInv
  <2> QED
    BY <2>3, <2>4, <2>5 DEF TxIInv
<1> QED
  BY <1>2, <1>3

\* EthSendFrame puts the frame in the current descriptor.
LEMMA EthSendFrameInv ==
    ASSUME TxIInv, EthSendFrame
    PROVE  TxIInv'
<1>1. /\ UNCHANGED <<FramesList, FramesListNotEmpty, accepted, TxHead, TxTail, txCause, wire,
                     DescriptorsAvailable, overrun>>
      /\ worker = "post"
  BY DEF EthSendFrame, portVars, WorkerAt
<1>2. CASE ~ring[CurrentDescriptor].done
  BY <1>1, <1>2, FramesStay DEF EthSendFrame, TxIInv, TxTypeOK
<1>3. CASE ring[CurrentDescriptor].done
  <2>1. /\ ring' = [ring EXCEPT ![CurrentDescriptor] = [frame |-> descriptorEntry, done |-> FALSE]]
        /\ CurrentDescriptor' = NextIndex(CurrentDescriptor)
        /\ descriptorEntry' = 0 /\ worker' = "full"
    BY <1>3 DEF EthSendFrame
  <2>2. /\ CurrentDescriptor \in Descriptors /\ TxHead \in Descriptors /\ TxTail = CurrentDescriptor
        /\ CurrentDescriptor' \in Descriptors /\ descriptorEntry \in 1 .. MaxSends
    BY <1>1, <2>1, NextIndexIs, NetworkTxAssumption DEF TxIInv, TxTypeOK, TailInv, HandledInv
  <2>3. TxTypeOK' /\ TxDataTypeOK'
    BY <1>1, <2>1, <2>2, NetworkTxAssumption DEF TxIInv, TxTypeOK, TxDataTypeOK
  <2>4. HandledInv' /\ RoomInv'
    BY <2>1 DEF HandledInv, RoomInv
  <2>5. TailInv'
    BY <1>1, <2>1, <2>2 DEF TxIInv, TailInv, RoomInv, RingIsFull, NextIndex
  <2>6. ASSUME ~overrun PROVE OrderInv'
    <3>1. CurrentDescriptor' # TxHead
      BY <1>1, <2>1, <2>6 DEF TxIInv, RoomInv, RingIsFull
    <3>2. Used' = Used + 1 /\ Used \in Nat /\ Len(wire) \in Nat
      <4>1. CurrentDescriptor' = Succ(NumberOfTxDescriptors, CurrentDescriptor)
        BY <2>1, <2>2, NextIndexIs
      <4>2. Dist(NumberOfTxDescriptors, TxHead, CurrentDescriptor') = Dist(NumberOfTxDescriptors, TxHead, CurrentDescriptor) + 1
        BY <3>1, <4>1, TxFacts, DistFacts DEF Descriptors
      <4>3. Used' = Used + 1
        BY <1>1, <4>2 DEF Used, Offset
      <4> QED
        BY <4>3, TxFacts
    <3>3. \A d \in Descriptors : /\ Offset(d)' = Offset(d) /\ Offset(d) \in Nat
                                 /\ d # CurrentDescriptor => Offset(d) # Used
      <4>1. \A d \in Descriptors : Offset(d)' = Offset(d)
        BY <1>1 DEF Offset
      <4>2. ASSUME NEW d \in Descriptors, d # CurrentDescriptor PROVE Offset(d) # Used
        <5>1. Dist(NumberOfTxDescriptors, TxHead, d) # Dist(NumberOfTxDescriptors, TxHead, CurrentDescriptor)
          BY <4>2, TxFacts, DistDiffers DEF Descriptors
        <5> QED
          BY <5>1 DEF Used, Offset
      <4> QED
        BY <4>1, <4>2, TxFacts
    <3>4. \A d \in Descriptors : ring'[d].frame = IF d = CurrentDescriptor THEN descriptorEntry ELSE ring[d].frame
      BY <2>1 DEF TxIInv, TxDataTypeOK
    <3>5. Handled = 1 /\ Handled' = 0 /\ Offset(CurrentDescriptor) = Used
      BY <2>1, <2>2 DEF Handled, Used
    <3> HIDE DEF Used
    <3> QED
      BY <1>1, <2>1, <2>2, <2>6, <3>2, <3>3, <3>4, <3>5 DEF TxIInv, OrderInv
  <2>7. OrderInv'
    BY <1>1, <2>6 DEF OrderInv
  <2> QED
    BY <2>3, <2>4, <2>5, <2>7 DEF TxIInv
<1> QED
  BY <1>2, <1>3

\* The card sends the frame at the head.
LEMMA CardSendsInv ==
    ASSUME TxIInv, CardSends
    PROVE  TxIInv'
<1>1. /\ UNCHANGED <<FramesList, FramesListNotEmpty, accepted, CurrentDescriptor, TxTail, worker,
                     descriptorEntry, DescriptorsAvailable, overrun>>
      /\ TxHead # TxTail /\ wire' = Append(wire, ring[TxHead].frame)
      /\ ring' = [ring EXCEPT ![TxHead].done = TRUE]
      /\ TxHead' = NextIndex(TxHead) /\ txCause' = TRUE
  BY DEF CardSends, portVars
<1>2. /\ TxHead \in Descriptors /\ TxHead' \in Descriptors /\ CurrentDescriptor \in Descriptors
      /\ TxTail \in Descriptors /\ ring[TxHead].frame \in 0 .. MaxSends
  BY <1>1, NextIndexIs DEF TxIInv, TxTypeOK, TxDataTypeOK
<1>3. TxTypeOK' /\ TxDataTypeOK'
  <2>1. wire' \in Seq(0 .. MaxSends)
    BY <1>1, <1>2, TxFacts, AppendIs
  <2>2. ring' \in [Descriptors -> [frame : 0 .. MaxSends, done : BOOLEAN]]
    BY <1>1, <1>2 DEF TxIInv, TxDataTypeOK
  <2>3. TxDataTypeOK'
    BY <1>1, <2>1, <2>2 DEF TxIInv, TxDataTypeOK
  <2>4. TxTypeOK'
    BY <1>1, <1>2 DEF TxIInv, TxTypeOK
  <2> QED
    BY <2>3, <2>4
<1>4. HandledInv'
  BY <1>1 DEF TxIInv, HandledInv
<1>5. TailInv'
  <2>1. worker \in {"full", "full locked", "tail"} /\ ~overrun => TxHead' # CurrentDescriptor
    <3> SUFFICES ASSUME worker \in {"full", "full locked", "tail"}, ~overrun, TxHead' = CurrentDescriptor
                 PROVE  FALSE
      OBVIOUS
    <3>1. NextIndex(TxTail) = NextIndex(TxHead)
      BY <1>1 DEF TxIInv, TailInv
    <3>2. Succ(NumberOfTxDescriptors, TxTail) = Succ(NumberOfTxDescriptors, TxHead)
      BY <1>2, <3>1, NextIndexIs
    <3> QED
      BY <1>1, <1>2, <3>2, TxFacts, DistDiffers DEF Descriptors
  <2> QED
    BY <1>1, <2>1 DEF TxIInv, TailInv
<1>6. RoomInv'
  <2> SUFFICES ASSUME worker = "post", NextIndex(CurrentDescriptor) = NextIndex(TxHead) PROVE FALSE
    BY <1>1 DEF RoomInv, RingIsFull
  <2>1. TxHead # CurrentDescriptor
    BY <1>1 DEF TxIInv, TailInv
  <2>2. Succ(NumberOfTxDescriptors, CurrentDescriptor) = Succ(NumberOfTxDescriptors, TxHead)
    BY <1>2, NextIndexIs
  <2> QED
    BY <1>2, <2>1, <2>2, TxFacts, DistDiffers DEF Descriptors
<1>7. ASSUME ~overrun PROVE OrderInv'
  <2>0. TxHead' = Succ(NumberOfTxDescriptors, TxHead)
    BY <1>1, <1>2, NextIndexIs
  <2>1. TxHead # CurrentDescriptor
    BY <1>1, <1>7 DEF TxIInv, TailInv
  <2>2. Used' = Used - 1 /\ Used \in Nat /\ Used > 0 /\ Offset(TxHead) = 0
    <3>3. Used' = Used - 1 /\ Used # 0
      <4>1. Used' = Dist(NumberOfTxDescriptors, Succ(NumberOfTxDescriptors, TxHead), CurrentDescriptor)
        BY <1>1, <2>0 DEF Used, Offset
      <4> QED
        BY <1>2, <2>1, <4>1, TxFacts, DistFacts DEF Used, Offset, Descriptors
    <3>4. Offset(TxHead) = 0
      BY <1>2, TxFacts, DistFacts, SMTT(30) DEF Offset, Descriptors
    <3> QED
      BY <3>3, <3>4, TxFacts
  <2>3. \A d \in Descriptors : /\ Offset(d) \in Nat
                               /\ d # TxHead => Offset(d)' = Offset(d) - 1
                               /\ d = TxHead => Offset(d)' = NumberOfTxDescriptors - 1
    <3> SUFFICES ASSUME NEW d \in Descriptors
                 PROVE  /\ Offset(d) \in Nat
                        /\ d # TxHead => Offset(d)' = Offset(d) - 1
                        /\ d = TxHead => Offset(d)' = NumberOfTxDescriptors - 1
      OBVIOUS
    <3>1. Offset(d)' = Dist(NumberOfTxDescriptors, Succ(NumberOfTxDescriptors, TxHead), d)
      BY <2>0 DEF Offset
    <3>2. /\ NumberOfTxDescriptors \in Nat /\ NumberOfTxDescriptors >= 2
          /\ TxHead \in 0 .. NumberOfTxDescriptors - 1 /\ d \in 0 .. NumberOfTxDescriptors - 1
      BY TxFacts DEF Descriptors
    <3>3. Offset(d) = Dist(NumberOfTxDescriptors, TxHead, d)
      BY DEF Offset
    <3> DEFINE n == NumberOfTxDescriptors
               h == TxHead
    <3>4. n \in Nat /\ n >= 2 /\ h \in 0 .. n - 1 /\ d \in 0 .. n - 1
      BY <3>2
    <3> HIDE DEF n, h
    <3>5. /\ Dist(n, h, d) \in Nat
          /\ d # h => Dist(n, Succ(n, h), d) = Dist(n, h, d) - 1
          /\ d = h => Dist(n, Succ(n, h), d) = n - 1
      BY <3>4, DistFacts
    <3> QED
      BY <3>1, <3>3, <3>5 DEF n, h
  <2>4. Used <= NumberOfTxDescriptors - 1 /\ NumberOfTxDescriptors \in Nat
    BY TxFacts
  <2>5. \A d \in Descriptors : ring'[d].frame = ring[d].frame
    BY <1>1, <1>2 DEF TxIInv, TxDataTypeOK
  <2>6. /\ Len(wire') = Len(wire) + 1 /\ Len(wire) \in Nat
        /\ \A i \in 1 .. Len(wire') : wire'[i] = IF i = Len(wire) + 1 THEN ring[TxHead].frame ELSE wire[i]
    <3> DEFINE e == ring[TxHead].frame
    <3>1. wire' = Append(wire, e) /\ e \in 0 .. MaxSends /\ wire \in Seq(0 .. MaxSends)
      BY <1>1, <1>2, TxFacts
    <3> HIDE DEF e
    <3>2. /\ Len(wire') = Len(wire) + 1 /\ Len(wire) \in Nat
          /\ \A i \in 1 .. Len(wire') : wire'[i] = IF i = Len(wire) + 1 THEN e ELSE wire[i]
      BY <3>1, AppendIs
    <3> QED
      BY <3>2 DEF e
  <2>7. Handled' = Handled /\ Handled \in Nat /\ Len(FramesList) \in Nat
    BY <1>1 DEF Handled, TxIInv, TxDataTypeOK
  <2>8. ring[TxHead].frame = Len(wire) + 1
    BY <1>2, <1>7, <2>2, <2>6 DEF TxIInv, OrderInv
  <2> HIDE DEF Used, Handled
  <2>9. \A i \in 1 .. Len(wire') : wire'[i] = i
    BY <1>7, <2>6, <2>8 DEF TxIInv, OrderInv
  <2>10. \A d \in Descriptors : Offset(d)' < Used' => ring'[d].frame = Len(wire') + Offset(d)' + 1
    <3> SUFFICES ASSUME NEW d \in Descriptors, Offset(d)' < Used'
                 PROVE  ring'[d].frame = Len(wire') + Offset(d)' + 1
      OBVIOUS
    <3>1. d # TxHead
      BY <2>2, <2>3, <2>4
    <3>2. Offset(d) < Used /\ Offset(d)' = Offset(d) - 1
      BY <2>2, <2>3, <3>1
    <3>3. ring[d].frame = Len(wire) + Offset(d) + 1
      BY <1>7, <3>2 DEF TxIInv, OrderInv
    <3> QED
      BY <2>3, <2>5, <2>6, <3>2, <3>3
  <2>11. /\ descriptorEntry' # 0 => descriptorEntry' = Len(wire') + Used' + 1
         /\ accepted' = Len(wire') + Used' + Handled' + Len(FramesList')
         /\ \A i \in 1 .. Len(FramesList') : FramesList'[i] = Len(wire') + Used' + Handled' + i
    BY <1>1, <1>7, <2>2, <2>6, <2>7 DEF TxIInv, OrderInv
  <2> QED
    BY <2>9, <2>10, <2>11 DEF OrderInv
<1>8. OrderInv'
  BY <1>1, <1>7 DEF OrderInv
<1> QED
  BY <1>3, <1>4, <1>5, <1>6, <1>8 DEF TxIInv

\* EthSetTxTail gives the descriptor to the card.
LEMMA SetTxTailInv ==
    ASSUME TxIInv, EthSetTxTail
    PROVE  TxIInv'
<1>1. /\ UNCHANGED <<FramesList, FramesListNotEmpty, accepted, CurrentDescriptor, ring, TxHead, txCause,
                     wire, descriptorEntry, DescriptorsAvailable, overrun>>
      /\ worker = "tail" /\ worker' = "wait" /\ TxTail' = CurrentDescriptor
  BY DEF EthSetTxTail, portVars, WorkerAt
<1>2. TxTypeOK' /\ TxDataTypeOK'
  BY <1>1 DEF TxIInv, TxTypeOK, TxDataTypeOK
<1>3. HandledInv' /\ TailInv' /\ RoomInv'
  BY <1>1 DEF TxIInv, HandledInv, TailInv, RoomInv
<1>4. OrderInv'
  BY <1>1 DEF TxIInv, OrderInv, Offset, Used, Handled
<1> QED
  BY <1>2, <1>3, <1>4 DEF TxIInv

LEMMA NextTxIInv ==
    ASSUME TxIInv, [TxNext]_txVars
    PROVE  TxIInv'
<1>0. FramesListNotEmpty \in BOOLEAN /\ DescriptorsAvailable \in BOOLEAN /\ txCause \in BOOLEAN
  BY DEF TxIInv, TxTypeOK
<1>1. CASE UNCHANGED txVars
  <2>1. /\ UNCHANGED <<FramesList, accepted, descriptorEntry, CurrentDescriptor, ring, TxHead, TxTail, wire>>
        /\ FramesListNotEmpty' \in BOOLEAN /\ DescriptorsAvailable' \in BOOLEAN /\ txCause' \in BOOLEAN
        /\ overrun => overrun'
    BY <1>0, <1>1 DEF txVars
  <2>2. worker' = worker
    BY <1>1 DEF txVars
  <2> QED
    BY <2>1, <2>2, FramesStay
<1>2. ASSUME NEW s \in Senders, NetSendFrame(s) \/ SendRefused(s) \/ SendReturn(s) PROVE TxIInv'
  <2>1. /\ UNCHANGED <<FramesList, accepted, descriptorEntry, CurrentDescriptor, ring, TxHead, TxTail, wire>>
        /\ FramesListNotEmpty' \in BOOLEAN /\ DescriptorsAvailable' \in BOOLEAN /\ txCause' \in BOOLEAN
        /\ overrun => overrun'
    BY <1>0, <1>2 DEF NetSendFrame, SendRefused, SendReturn, cardVars
  <2>2. worker' = worker
    BY <1>2 DEF NetSendFrame, SendRefused, SendReturn, cardVars
  <2> QED
    BY <2>1, <2>2, FramesStay
<1>3. ASSUME NEW s \in Senders, SendSignal(s) PROVE TxIInv'
  <2>1. /\ UNCHANGED <<FramesList, accepted, descriptorEntry, CurrentDescriptor, ring, TxHead, TxTail, wire>>
        /\ FramesListNotEmpty' \in BOOLEAN /\ DescriptorsAvailable' \in BOOLEAN /\ txCause' \in BOOLEAN
        /\ overrun => overrun'
    BY <1>0, <1>3 DEF SendSignal, cardVars
  <2>2. worker' = worker \/ (worker = "blocked" /\ worker' = "remove")
    BY <1>3 DEF SendSignal, cardVars
  <2> QED
    BY <2>1, <2>2, FramesStay
<1>4. CASE WorkerWait \/ WorkerInsert
  <2>1. /\ UNCHANGED <<FramesList, accepted, descriptorEntry, CurrentDescriptor, ring, TxHead, TxTail, wire>>
        /\ FramesListNotEmpty' \in BOOLEAN /\ DescriptorsAvailable' \in BOOLEAN /\ txCause' \in BOOLEAN
        /\ overrun => overrun'
    BY <1>0, <1>4 DEF WorkerWait, WorkerInsert, WorkerAt, cardVars, portVars
  <2>2. worker \in {"wait", "insert"} /\ worker' \in {"remove", "insert", "blocked"}
    BY <1>4 DEF WorkerWait, WorkerInsert, WorkerAt, cardVars, portVars
  <2> QED
    BY <2>1, <2>2, FramesStay
<1>5. CASE WorkerAvailable \/ WorkerAvailableInsert
  <2>1. UNCHANGED <<FramesList, accepted, descriptorEntry, CurrentDescriptor, ring, TxHead, TxTail, wire,
                    FramesListNotEmpty, DescriptorsAvailable, txCause>>
    BY <1>5 DEF WorkerAvailable, WorkerAvailableInsert, cardVars, portVars
  <2>2. CASE WorkerAvailable
    <3>1. /\ overrun => overrun'
          /\ DescriptorsAvailable /\ RingIsFull => overrun'
          /\ worker = "available" /\ worker' = IF DescriptorsAvailable THEN "post" ELSE "available insert"
      BY <2>2 DEF WorkerAvailable, WorkerAt
    <3>2. worker' \in {"post", "available insert"} /\ (worker' = "post" => DescriptorsAvailable)
      BY <3>1
    <3> QED
      BY <1>0, <2>1, <3>1, <3>2, FramesStay
  <2>3. CASE WorkerAvailableInsert
    BY <1>0, <2>1, <2>3, FramesStay DEF WorkerAvailableInsert, WorkerAt
  <2> QED
    BY <1>5, <2>2, <2>3
<1>6. CASE SignalTxQueueFullIfNecessary
  <2>1. /\ UNCHANGED <<FramesList, accepted, descriptorEntry, CurrentDescriptor, ring, TxHead, TxTail, wire,
                       FramesListNotEmpty, txCause, overrun>>
        /\ worker \in {"full", "full locked"} /\ worker' \in {"full locked", "tail"}
    BY <1>6 DEF SignalTxQueueFullIfNecessary, WorkerAt, cardVars, portVars
  <2>2. DescriptorsAvailable' \in BOOLEAN
    BY <1>0, <1>6 DEF SignalTxQueueFullIfNecessary
  <2> QED
    BY <1>0, <2>1, <2>2, FramesStay
<1>7. ASSUME NEW c \in TxCpus, TxInterrupt(c) PROVE TxIInv'
  <2>1. /\ UNCHANGED <<FramesList, accepted, descriptorEntry, CurrentDescriptor, ring, TxHead, TxTail, wire>>
        /\ FramesListNotEmpty' \in BOOLEAN /\ DescriptorsAvailable' \in BOOLEAN /\ txCause' \in BOOLEAN
        /\ overrun => overrun'
    BY <1>0, <1>7 DEF TxInterrupt, portVars
  <2>2. worker' = worker
    BY <1>7 DEF TxInterrupt, portVars
  <2> QED
    BY <2>1, <2>2, FramesStay
<1>8. ASSUME NEW c \in TxCpus, NotifyTxDescriptorAvailable(c) PROVE TxIInv'
  <2>1. /\ UNCHANGED <<FramesList, accepted, descriptorEntry, CurrentDescriptor, ring, TxHead, TxTail, wire>>
        /\ FramesListNotEmpty' \in BOOLEAN /\ DescriptorsAvailable' \in BOOLEAN /\ txCause' \in BOOLEAN
        /\ overrun => overrun'
    BY <1>0, <1>8 DEF NotifyTxDescriptorAvailable, portVars, cardVars
  <2>2. \/ worker' = worker
        \/ worker = "available blocked" /\ worker' = "post" /\ (RingIsFull => overrun')
    BY <1>8 DEF NotifyTxDescriptorAvailable, portVars, cardVars
  <2> QED
    BY <2>1, <2>2, FramesStay
<1> QED
  BY <1>1, <1>2, <1>3, <1>4, <1>5, <1>6, <1>7, <1>8, SendInsertInv, WorkerRemoveInv, EthSendFrameInv,
     CardSendsInv, SetTxTailInv DEF TxNext, SenderStep, TransmitStep

\* The inductive invariant of the sending half holds.
THEOREM TxInvariantHolds == TxSpec => []TxIInv
BY InitTxIInv, NextTxIInv, PTL DEF TxSpec

\* As long as the transmit thread never filled a ring that was full, every accepted frame is
\* on the wire, in the ring, in the thread's hands or in the list, once and in order.
THEOREM TxIsCorrect == TxSpec => []TxInv
<1>1. ASSUME TxIInv PROVE TxInv
  <2>1. ASSUME ~overrun PROVE wire \o InRing \o InWorker \o FramesList = [i \in 1 .. accepted |-> i]
    <3>1. (CurrentDescriptor + NumberOfTxDescriptors - TxHead) % NumberOfTxDescriptors = Used /\ Used \in Nat
          /\ Used < NumberOfTxDescriptors
      BY <1>1, TxFacts, DistFacts DEF Used, Offset, Descriptors
    <3>2. /\ \A i \in 1 .. Used : InRing[i] = Len(wire) + i
          /\ InRing \in Seq(Nat) /\ Len(InRing) = Used
      <4>1. ASSUME NEW i \in 1 .. Used
            PROVE  ring[(TxHead + i - 1) % NumberOfTxDescriptors].frame = Len(wire) + i
        <5> DEFINE d == (TxHead + i - 1) % NumberOfTxDescriptors
        <5>1. d \in Descriptors /\ Offset(d) = i - 1
          <6>1. i - 1 \in 0 .. NumberOfTxDescriptors - 1 /\ TxHead + i - 1 = TxHead + (i - 1)
            BY <1>1, <3>1, TxFacts
          <6> QED
            BY <1>1, <6>1, TxFacts, DistAt DEF Offset, Descriptors
        <5> HIDE DEF d
        <5>2. ring[d].frame = Len(wire) + Offset(d) + 1
          BY <1>1, <2>1, <3>1, <5>1 DEF TxIInv, OrderInv
        <5>3. ring[d].frame = Len(wire) + i
          BY <1>1, <5>1, <5>2 DEF TxIInv, TxDataTypeOK
        <5> QED
          BY <5>3 DEF d
      <4>2. InRing = [i \in 1 .. Used |-> Len(wire) + i]
        BY <3>1, <4>1 DEF InRing
      <4>3. Len(wire) \in Nat
        BY <1>1 DEF TxIInv, TxDataTypeOK
      <4> QED
        BY <3>1, <4>2, <4>3
    <3>3. InWorker \in Seq(Nat) /\ Len(InWorker) = Handled
          /\ \A i \in 1 .. Handled : InWorker[i] = Len(wire) + Used + i
      <4>1. CASE descriptorEntry = 0
        BY <4>1 DEF InWorker, Handled
      <4>2. CASE descriptorEntry # 0
        <5>0. descriptorEntry \in Nat
          <6>1. descriptorEntry \in 0 .. MaxSends
            BY <1>1 DEF TxIInv, TxTypeOK
          <6> QED
            BY <6>1, NetworkTxAssumption
        <5>1. descriptorEntry = Len(wire) + Used + 1 /\ descriptorEntry \in Nat
          BY <1>1, <2>1, <4>2, <5>0 DEF TxIInv, OrderInv
        <5>2. InWorker = <<descriptorEntry>> /\ Handled = 1
          BY <4>2 DEF InWorker, Handled
        <5> HIDE DEF InWorker, Handled
        <5> QED
          BY <5>1, <5>2
      <4> QED
        BY <4>1, <4>2
    <3>4. wire \in Seq(Nat) /\ FramesList \in Seq(Nat)
      BY <1>1, NetworkTxAssumption DEF TxIInv, TxDataTypeOK
    <3>5. /\ \A i \in 1 .. Len(wire) : wire[i] = i
          /\ \A i \in 1 .. Len(FramesList) : FramesList[i] = Len(wire) + Used + Handled + i
          /\ accepted = Len(wire) + Used + Handled + Len(FramesList)
      BY <1>1, <2>1 DEF TxIInv, OrderInv
    <3> HIDE DEF InRing, InWorker, Used, Handled
    <3> DEFINE a == wire \o InRing
               b == a \o InWorker
               c == b \o FramesList
    <3>6. /\ a \in Seq(Nat) /\ Len(a) = Len(wire) + Used
          /\ \A i \in 1 .. Len(a) : a[i] = i
      <4>1. \A i \in 1 .. Len(InRing) : InRing[i] = Len(wire) + i
        BY <3>2
      <4>2. InRing \in Seq(Nat) /\ Len(InRing) = Used
        BY <3>2
      <4>3. wire \in Seq(Nat) /\ \A i \in 1 .. Len(wire) : wire[i] = i
        BY <3>4, <3>5
      <4>4. /\ wire \o InRing \in Seq(Nat) /\ Len(wire \o InRing) = Len(wire) + Len(InRing)
            /\ \A i \in 1 .. Len(wire \o InRing) : (wire \o InRing)[i] = i
        BY <4>1, <4>2, <4>3, RunsJoin
      <4> QED
        BY <4>2, <4>4
    <3> HIDE DEF a
    <3>7. /\ b \in Seq(Nat) /\ Len(b) = Len(wire) + Used + Handled
          /\ \A i \in 1 .. Len(b) : b[i] = i
      <4>1. \A i \in 1 .. Len(InWorker) : InWorker[i] = Len(a) + i
        BY <3>3, <3>6
      <4> QED
        BY <3>3, <3>6, <4>1, RunsJoin
    <3> HIDE DEF b
    <3>8. /\ c \in Seq(Nat) /\ Len(c) = accepted
          /\ \A i \in 1 .. Len(c) : c[i] = i
      <4>1. \A i \in 1 .. Len(FramesList) : FramesList[i] = Len(b) + i
        BY <3>5, <3>7
      <4> QED
        BY <3>4, <3>5, <3>7, <4>1, RunsJoin
    <3> HIDE DEF c
    <3>9. c = [i \in 1 .. accepted |-> i]
      BY <3>8, RunIs
    <3> QED
      BY <3>9 DEF a, b, c
  <2> QED
    BY <1>1, <2>1 DEF TxIInv, TxInv, FramesInOrder
<1> QED
  BY TxInvariantHolds, <1>1, PTL

----------------------------------------------------------------------------
\* Receiving

RxHandlers == [at : {"idle", "loop", "failed", "signal", "next", "link"}, cur : RxDescriptors,
               reason : SUBSET {"received", "link"}]

RxDataTypeOK ==
    /\ client \in [Clients -> {"idle", "lock", "look", "empty", "wait", "insert", "blocked", "unlock"}]
    /\ RxDeviceLock \in Seq(Clients)
    /\ rxIsr \in [RxCpus -> RxHandlers]
    /\ RxHead \in RxDescriptors /\ RxTail \in RxDescriptors /\ RxCurrent \in RxDescriptors
    /\ rxRing \in [RxDescriptors -> Nat] /\ stored \in Nat
    /\ RxFramesList \in Seq(Nat) /\ taken \in Seq(Nat)
    /\ cause \subseteq {"received", "link"}

RxFlagsOK == RxNotEmpty \in BOOLEAN /\ linkReg \in BOOLEAN /\ LinkUp \in BOOLEAN

\* Handlers that have not competed: at most one of them is in the loop of EthReceiveFrame.
\* It works at index k, and p is 1 when the frame at k is in the list already.
WorksAt(c, k, p) ==
    /\ InReceive(c) /\ rxIsr[c].cur = k
    /\ p = IF rxIsr[c].at \in {"loop", "failed"} THEN 0 ELSE 1
    /\ \A d \in RxCpus : InReceive(d) => d = c

CurIs(k, p) ==
    \/ \E c \in RxCpus : WorksAt(c, k, p)
    \/ (\A d \in RxCpus : ~InReceive(d)) /\ k = RxCurrent /\ p = 0

\* The frames that were listed, in order.
ListedInv ==
    /\ \A i \in 1 .. Len(taken) : taken[i] = i
    /\ \A i \in 1 .. Len(RxFramesList) : RxFramesList[i] = Len(taken) + i

\* The frames that are not done with are in the descriptors from k up to the head.
RingInv(k, p) ==
    /\ Succ(NumberOfRxDescriptors, RxTail) = k
    /\ stored = Len(taken) + Len(RxFramesList) - p + Dist(NumberOfRxDescriptors, k, RxHead)
    /\ \A d \in RxDescriptors :
           rxRing[d] = IF Dist(NumberOfRxDescriptors, k, d) < Dist(NumberOfRxDescriptors, k, RxHead)
                       THEN Len(taken) + Len(RxFramesList) - p + Dist(NumberOfRxDescriptors, k, d) + 1
                       ELSE 0
    /\ p = 1 => RxHead # k

ReceiveInv == ~competing =>
    ListedInv /\ \E k \in RxDescriptors, p \in {0, 1} : CurIs(k, p) /\ RingInv(k, p)

RxIInv == RxDataTypeOK /\ RxFlagsOK /\ OneCall /\ ReceiveInv

LEMMA RxFacts ==
    ASSUME RxDataTypeOK
    PROVE  /\ NumberOfRxDescriptors \in Nat /\ NumberOfRxDescriptors >= 2
           /\ RxDescriptors = 0 .. NumberOfRxDescriptors - 1
           /\ Len(taken) \in Nat /\ Len(RxFramesList) \in Nat /\ stored \in Nat
           /\ RxHead \in RxDescriptors /\ RxTail \in RxDescriptors /\ RxCurrent \in RxDescriptors
<1>1. taken \in Seq(Nat) /\ RxFramesList \in Seq(Nat)
  BY DEF RxDataTypeOK
<1> QED
  BY <1>1, NetworkRxAssumption DEF RxDataTypeOK, RxDescriptors

LEMMA NextRxIs ==
    ASSUME NEW i \in RxDescriptors
    PROVE  NextRx(i) = Succ(NumberOfRxDescriptors, i) /\ NextRx(i) \in RxDescriptors
BY NetworkRxAssumption, SuccIs DEF NextRx, RxDescriptors

LEMMA InitRxIInv == RxInit => RxIInv
<1> SUFFICES ASSUME RxInit PROVE RxIInv
  OBVIOUS
<1> USE DEF RxInit
<1>1. NumberOfRxDescriptors \in Nat /\ NumberOfRxDescriptors >= 2
  BY NetworkRxAssumption
<1>2. 0 \in RxDescriptors /\ NumberOfRxDescriptors - 1 \in RxDescriptors
  BY <1>1 DEF RxDescriptors
<1>3. RxDataTypeOK
  <2>1. rxIsr \in [RxCpus -> RxHandlers]
    BY <1>2 DEF RxIdle, RxHandlers
  <2>2. rxRing \in [RxDescriptors -> Nat]
    OBVIOUS
  <2> QED
    BY <1>2, <2>1, <2>2 DEF RxDataTypeOK
<1>4. RxFlagsOK /\ OneCall
  BY DEF RxFlagsOK, OneCall
<1>5. \A c \in RxCpus : ~InReceive(c)
  BY DEF InReceive, RxIdle
<1>6. CurIs(0, 0) /\ ListedInv
  BY <1>5 DEF CurIs, ListedInv
<1>7. RingInv(0, 0)
  <2>1. Succ(NumberOfRxDescriptors, RxTail) = 0
    BY DEF Succ
  <2>2. Dist(NumberOfRxDescriptors, 0, RxHead) = 0 /\ Len(taken) = 0 /\ Len(RxFramesList) = 0
    BY DEF Dist
  <2>3. ASSUME NEW d \in RxDescriptors PROVE ~(Dist(NumberOfRxDescriptors, 0, d) < 0) /\ rxRing[d] = 0
    BY <1>1 DEF Dist, RxDescriptors
  <2> QED
    BY <2>1, <2>2, <2>3 DEF RingInv
<1> QED
  BY <1>2, <1>3, <1>4, <1>6, <1>7 DEF RxIInv, ReceiveInv

----------------------------------------------------------------------------
\* Types and the device lock

LEMMA HandlerAt ==
    ASSUME NEW h \in [RxCpus -> RxHandlers], NEW c \in RxCpus,
           NEW l \in {"idle", "loop", "failed", "signal", "next", "link"}
    PROVE  [h EXCEPT ![c].at = l] \in [RxCpus -> RxHandlers]
BY DEF RxHandlers

LEMMA NextRxData ==
    ASSUME RxDataTypeOK, OneCall, [RxNext]_rxVars
    PROVE  RxDataTypeOK'
<1> USE DEF RxDataTypeOK
<1>1. CASE UNCHANGED rxVars
  BY <1>1 DEF rxVars
<1>2. ASSUME NEW t \in Clients, NEW r \in {"receive", "status"}, NetCall(t, r) PROVE RxDataTypeOK'
  BY <1>2 DEF NetCall, ClientGoto, rxCardVars
<1>3. ASSUME NEW t \in Clients, NEW small \in BOOLEAN, ReceiveLook(t, small) PROVE RxDataTypeOK'
  <2>1. /\ client' \in [Clients -> {"idle", "lock", "look", "empty", "wait", "insert", "blocked", "unlock"}]
        /\ UNCHANGED <<RxDeviceLock, rxIsr, RxHead, RxTail, RxCurrent, rxRing, stored, cause>>
    BY <1>3 DEF ReceiveLook, ClientGoto, rxCardVars
  <2>2. RxFramesList' \in Seq(Nat) /\ taken' \in Seq(Nat)
    <3>1. \/ UNCHANGED <<RxFramesList, taken>>
          \/ RxFramesList # <<>> /\ RxFramesList' = Tail(RxFramesList) /\ taken' = Append(taken, Head(RxFramesList))
      BY <1>3 DEF ReceiveLook
    <3>2. CASE RxFramesList # <<>> /\ RxFramesList' = Tail(RxFramesList) /\ taken' = Append(taken, Head(RxFramesList))
      BY <3>2, TailIs, AppendIs
    <3> QED
      BY <3>1, <3>2
  <2> QED
    BY <2>1, <2>2
<1>4. ASSUME NEW t \in Clients, ReceiveEmpty(t) \/ ReceiveWait(t) \/ ReceiveInsert(t) PROVE RxDataTypeOK'
  BY <1>4 DEF ReceiveEmpty, ReceiveWait, ReceiveInsert, ClientGoto, rxCardVars
<1>5. ASSUME NEW t \in Clients, NEW rx \in BOOLEAN, NEW tx \in BOOLEAN, ChangeDeviceStatus(t, rx, tx)
      PROVE  RxDataTypeOK'
  BY <1>5 DEF ChangeDeviceStatus, ClientGoto, rxCardVars
<1>6. ASSUME NEW t \in Clients, CallReturn(t) PROVE RxDataTypeOK'
  <2>1. RxDeviceLock # <<>>
    BY <1>6 DEF OneCall, CallReturn, ClientAt, Owns
  <2> QED
    BY <1>6, <2>1 DEF CallReturn, ClientGoto, rxCardVars
<1>7. CASE CardStores
  <2>1. RxHead' \in RxDescriptors
    BY <1>7, NextRxIs DEF CardStores
  <2> QED
    BY <1>7, <2>1 DEF CardStores
<1>8. CASE LinkChanges
  BY <1>8 DEF LinkChanges
<1>9. ASSUME NEW c \in RxCpus, RxInterrupt(c) PROVE RxDataTypeOK'
  <2>1. rxIsr' \in [RxCpus -> RxHandlers]
    <3> DEFINE e == [at |-> IF "received" \in cause THEN "loop" ELSE "link", cur |-> RxCurrent, reason |-> cause]
    <3>1. e \in RxHandlers
      BY DEF RxHandlers
    <3>2. rxIsr' = [rxIsr EXCEPT ![c] = e]
      BY <1>9 DEF RxInterrupt
    <3> HIDE DEF e
    <3> QED
      BY <3>1, <3>2
  <2>2. /\ UNCHANGED <<client, RxDeviceLock, RxHead, RxTail, RxCurrent, rxRing, stored, RxFramesList, taken>>
        /\ cause' = {}
    BY <1>9 DEF RxInterrupt
  <2> QED
    BY <2>1, <2>2
<1>10. ASSUME NEW c \in RxCpus, ReceiveFrame(c) PROVE RxDataTypeOK'
  <2>1. /\ UNCHANGED <<client, RxDeviceLock, RxHead, RxTail, rxRing, stored, taken, cause>>
        /\ RxFramesList' = RxFramesList \/ RxFramesList' = Append(RxFramesList, rxRing[rxIsr[c].cur])
        /\ RxCurrent' = RxCurrent \/ RxCurrent' = rxIsr[c].cur
        /\ \/ rxIsr' = [rxIsr EXCEPT ![c].at = "link"] \/ rxIsr' = [rxIsr EXCEPT ![c].at = "signal"]
           \/ rxIsr' = [rxIsr EXCEPT ![c].at = "next"]
    BY <1>10 DEF ReceiveFrame
  <2>2. rxIsr[c].cur \in RxDescriptors /\ rxRing[rxIsr[c].cur] \in Nat
    BY DEF RxHandlers
  <2>3. RxFramesList' \in Seq(Nat)
    <3> DEFINE e == rxRing[rxIsr[c].cur]
    <3>1. e \in Nat /\ (RxFramesList' = RxFramesList \/ RxFramesList' = Append(RxFramesList, e))
      BY <2>1, <2>2
    <3> HIDE DEF e
    <3>2. RxFramesList \in Seq(Nat)
      OBVIOUS
    <3>3. Append(RxFramesList, e) \in Seq(Nat)
      BY <3>1, <3>2, AppendIs
    <3> QED
      BY <3>1, <3>2, <3>3
  <2>4. rxIsr' \in [RxCpus -> RxHandlers]
    <3>1. CASE rxIsr' = [rxIsr EXCEPT ![c].at = "link"]
      BY <3>1, HandlerAt
    <3>2. CASE rxIsr' = [rxIsr EXCEPT ![c].at = "signal"]
      BY <3>2, HandlerAt
    <3>3. CASE rxIsr' = [rxIsr EXCEPT ![c].at = "next"]
      BY <3>3, HandlerAt
    <3> QED
      BY <2>1, <3>1, <3>2, <3>3
  <2>5. RxCurrent' \in RxDescriptors
    BY <2>1, <2>2
  <2> QED
    BY <2>1, <2>3, <2>4, <2>5
<1>11. ASSUME NEW c \in RxCpus, NotifySignal(c) PROVE RxDataTypeOK'
  <2>1. rxIsr' \in [RxCpus -> RxHandlers]
    BY <1>11, HandlerAt DEF NotifySignal
  <2> QED
    BY <1>11, <2>1 DEF NotifySignal
<1>12. ASSUME NEW c \in RxCpus, NextDescriptor(c) PROVE RxDataTypeOK'
  <2>1. rxIsr[c].cur \in RxDescriptors /\ NextRx(rxIsr[c].cur) \in RxDescriptors
    BY NextRxIs DEF RxHandlers
  <2>2. rxIsr' \in [RxCpus -> RxHandlers]
    <3> DEFINE e == [at |-> "loop", cur |-> NextRx(rxIsr[c].cur), reason |-> rxIsr[c].reason]
    <3>1. e \in RxHandlers
      BY <2>1 DEF RxHandlers
    <3>2. rxIsr' = [rxIsr EXCEPT ![c] = e]
      BY <1>12 DEF NextDescriptor
    <3> HIDE DEF e
    <3> QED
      BY <3>1, <3>2
  <2> QED
    BY <1>12, <2>1, <2>2 DEF NextDescriptor
<1>13. ASSUME NEW c \in RxCpus, InterruptEnd(c) PROVE RxDataTypeOK'
  <2>1. 0 \in RxDescriptors
    BY NetworkRxAssumption DEF RxDescriptors
  <2> QED
    BY <1>13, <2>1 DEF InterruptEnd, RxIdle, RxHandlers
<1>14. ASSUME NEW c \in RxCpus, AllocationFails(c) PROVE RxDataTypeOK'
  <2>1. rxIsr' \in [RxCpus -> RxHandlers]
    BY <1>14, HandlerAt DEF AllocationFails
  <2> QED
    BY <1>14, <2>1 DEF AllocationFails
<1> QED
  BY <1>1, <1>2, <1>3, <1>4, <1>5, <1>6, <1>7, <1>8, <1>9, <1>10, <1>11, <1>12, <1>13, <1>14
     DEF RxNext, ClientStep, RxIsrStep

LEMMA NextRxFlags ==
    ASSUME RxFlagsOK, [RxNext]_rxVars
    PROVE  RxFlagsOK'
<1> USE DEF RxFlagsOK
<1>1. CASE UNCHANGED rxVars
  BY <1>1 DEF rxVars
<1>2. ASSUME NEW t \in Clients, NEW r \in {"receive", "status"}, NetCall(t, r) PROVE RxFlagsOK'
  BY <1>2 DEF NetCall, rxCardVars
<1>3. ASSUME NEW t \in Clients, NEW small \in BOOLEAN, ReceiveLook(t, small) PROVE RxFlagsOK'
  BY <1>3 DEF ReceiveLook, rxCardVars
<1>4. ASSUME NEW t \in Clients, ReceiveEmpty(t) \/ ReceiveWait(t) \/ ReceiveInsert(t) \/ CallReturn(t)
      PROVE  RxFlagsOK'
  BY <1>4 DEF ReceiveEmpty, ReceiveWait, ReceiveInsert, CallReturn, rxCardVars
<1>5. ASSUME NEW t \in Clients, NEW rx \in BOOLEAN, NEW tx \in BOOLEAN, ChangeDeviceStatus(t, rx, tx)
      PROVE  RxFlagsOK'
  BY <1>5 DEF ChangeDeviceStatus, rxCardVars
<1>6. CASE CardStores \/ LinkChanges
  BY <1>6 DEF CardStores, LinkChanges
<1>7. ASSUME NEW c \in RxCpus, RxInterrupt(c) PROVE RxFlagsOK'
  BY <1>7 DEF RxInterrupt
<1>8. ASSUME NEW c \in RxCpus, ReceiveFrame(c) PROVE RxFlagsOK'
  BY <1>8 DEF ReceiveFrame
<1>9. ASSUME NEW c \in RxCpus, AllocationFails(c) \/ NotifySignal(c) \/ NextDescriptor(c) \/ InterruptEnd(c)
      PROVE  RxFlagsOK'
  BY <1>9 DEF AllocationFails, NotifySignal, NextDescriptor, InterruptEnd
<1> QED
  BY <1>1, <1>2, <1>3, <1>4, <1>5, <1>6, <1>7, <1>8, <1>9 DEF RxNext, ClientStep, RxIsrStep

\* The caller at the head of the queue may be in the driver, the others are idle or wait.
LEMMA NextOneCall ==
    ASSUME RxDataTypeOK, OneCall, [RxNext]_rxVars
    PROVE  OneCall'
<1>0. RxDeviceLock \in Seq(Clients) /\ DOMAIN client = Clients
  BY DEF RxDataTypeOK
<1>1. ASSUME UNCHANGED <<client, RxDeviceLock>> PROVE OneCall'
  BY <1>1 DEF OneCall, Owns
<1>2. ASSUME NEW t \in Clients, NEW r \in {"receive", "status"}, NetCall(t, r) PROVE OneCall'
  <2>1. client[t] = "idle" /\ RxDeviceLock' = Append(RxDeviceLock, t) /\ client' = [client EXCEPT ![t] = "lock"]
    BY <1>2 DEF NetCall, ClientAt, ClientGoto
  <2>2. RxDeviceLock # <<>> => RxDeviceLock' # <<>> /\ Head(RxDeviceLock') = Head(RxDeviceLock)
    BY <1>0, <2>1
  <2> QED
    BY <1>0, <2>1, <2>2 DEF OneCall, Owns
<1>3. ASSUME NEW t \in Clients, UNCHANGED RxDeviceLock, Owns(t), NEW l, client' = [client EXCEPT ![t] = l]
      PROVE  OneCall'
  BY <1>0, <1>3 DEF OneCall, Owns
<1>4. ASSUME NEW t \in Clients, NEW small \in BOOLEAN, ReceiveLook(t, small) PROVE OneCall'
  <2>1. Owns(t)
    BY <1>4 DEF ReceiveLook, ClientAt, OneCall
  <2>2. UNCHANGED RxDeviceLock /\ \E l : client' = [client EXCEPT ![t] = l]
    BY <1>4 DEF ReceiveLook, ClientGoto
  <2> QED
    BY <1>3, <2>1, <2>2
<1>5. ASSUME NEW t \in Clients, ReceiveEmpty(t) \/ ReceiveWait(t) \/ ReceiveInsert(t) PROVE OneCall'
  <2>1. Owns(t)
    BY <1>5 DEF ReceiveEmpty, ReceiveWait, ReceiveInsert, ClientAt, OneCall
  <2>2. UNCHANGED RxDeviceLock /\ \E l : client' = [client EXCEPT ![t] = l]
    BY <1>5 DEF ReceiveEmpty, ReceiveWait, ReceiveInsert, ClientGoto
  <2> QED
    BY <1>3, <2>1, <2>2
<1>6. ASSUME NEW t \in Clients, NEW rx \in BOOLEAN, NEW tx \in BOOLEAN, ChangeDeviceStatus(t, rx, tx)
      PROVE  OneCall'
  BY <1>3, <1>6 DEF ChangeDeviceStatus, ClientGoto
<1>7. ASSUME NEW t \in Clients, CallReturn(t) PROVE OneCall'
  <2>1. client[t] = "unlock" /\ client' = [client EXCEPT ![t] = "idle"]
    BY <1>7 DEF CallReturn, ClientAt, ClientGoto
  <2>2. \A u \in Clients : u # t => client[u] \in {"idle", "lock"}
    BY <2>1 DEF OneCall, Owns
  <2> QED
    BY <1>0, <2>1, <2>2 DEF OneCall
<1>8. ASSUME NEW c \in RxCpus, NotifySignal(c) PROVE OneCall'
  <2>1. UNCHANGED RxDeviceLock /\ client' = [t \in Clients |-> IF client[t] = "blocked" THEN "look" ELSE client[t]]
    BY <1>8 DEF NotifySignal
  <2> QED
    BY <2>1 DEF OneCall, Owns
<1>9. CASE CardStores \/ LinkChanges
  BY <1>1, <1>9 DEF CardStores, LinkChanges
<1>10. ASSUME NEW c \in RxCpus,
              RxInterrupt(c) \/ AllocationFails(c) \/ NextDescriptor(c) \/ InterruptEnd(c)
       PROVE  OneCall'
  BY <1>1, <1>10 DEF RxInterrupt, AllocationFails, NextDescriptor, InterruptEnd
<1>11. ASSUME NEW c \in RxCpus, ReceiveFrame(c) PROVE OneCall'
  BY <1>1, <1>11 DEF ReceiveFrame
<1>12. CASE UNCHANGED rxVars
  BY <1>1, <1>12 DEF rxVars
<1> QED
  BY <1>2, <1>4, <1>5, <1>6, <1>7, <1>8, <1>9, <1>10, <1>11, <1>12 DEF RxNext, ClientStep, RxIsrStep

----------------------------------------------------------------------------
\* The order of the frames

\* Steps that move no frame and leave the handlers in the loop where they are.
LEMMA ReceiveStays ==
    ASSUME ReceiveInv,
           UNCHANGED <<taken, RxFramesList, rxRing, RxHead, RxTail, RxCurrent, stored, competing>>,
           \A c \in RxCpus : /\ InReceive(c)' <=> InReceive(c)
                             /\ InReceive(c) => /\ rxIsr'[c].cur = rxIsr[c].cur
                                                /\ rxIsr'[c].at \in {"loop", "failed"} <=> rxIsr[c].at \in {"loop", "failed"}
    PROVE  ReceiveInv'
<1>1. ASSUME NEW k, NEW p, CurIs(k, p) PROVE CurIs(k, p)'
  BY <1>1 DEF CurIs, WorksAt
<1>2. ASSUME NEW k, NEW p, RingInv(k, p) PROVE RingInv(k, p)'
  BY <1>2 DEF RingInv
<1>3. ListedInv => ListedInv'
  BY DEF ListedInv
<1> QED
  BY <1>1, <1>2, <1>3 DEF ReceiveInv

\* A caller takes the first frame of the list.
LEMMA TakeInv ==
    ASSUME RxDataTypeOK, ReceiveInv, RxFramesList # <<>>, RxFramesList' = Tail(RxFramesList),
           taken' = Append(taken, Head(RxFramesList)), UNCHANGED rxCardVars
    PROVE  ReceiveInv'
<1>0. UNCHANGED <<rxRing, RxHead, RxTail, RxCurrent, stored, competing, rxIsr>>
  BY DEF rxCardVars
<1> SUFFICES ASSUME ~competing PROVE ReceiveInv'
  BY <1>0 DEF ReceiveInv
<1>1. PICK k \in RxDescriptors, p \in {0, 1} : CurIs(k, p) /\ RingInv(k, p)
  BY DEF ReceiveInv
<1>2. /\ Head(RxFramesList) = RxFramesList[1] /\ Len(RxFramesList') = Len(RxFramesList) - 1
      /\ Len(RxFramesList) \in Nat /\ Len(RxFramesList) >= 1 /\ Head(RxFramesList) \in Nat
      /\ \A i \in 1 .. Len(RxFramesList') : RxFramesList'[i] = RxFramesList[i + 1] /\ i + 1 \in 1 .. Len(RxFramesList)
  BY TailIs DEF RxDataTypeOK
<1>3. /\ Len(taken') = Len(taken) + 1 /\ Len(taken) \in Nat
      /\ \A i \in 1 .. Len(taken') : /\ taken'[i] = IF i = Len(taken) + 1 THEN Head(RxFramesList) ELSE taken[i]
                                     /\ i # Len(taken) + 1 => i \in 1 .. Len(taken)
  BY <1>2, AppendIs DEF RxDataTypeOK
<1>4. ListedInv'
  BY <1>2, <1>3 DEF ReceiveInv, ListedInv
<1>5. Len(taken') + Len(RxFramesList') = Len(taken) + Len(RxFramesList)
  BY <1>2, <1>3
<1>6. RingInv(k, p)'
  BY <1>0, <1>1, <1>5 DEF RingInv
<1>7. CurIs(k, p)'
  BY <1>0, <1>1 DEF CurIs, WorksAt, InReceive
<1> QED
  BY <1>4, <1>6, <1>7 DEF ReceiveInv

\* The card stores a frame in the descriptor at the head.
LEMMA CardStoresInv ==
    ASSUME RxDataTypeOK, ReceiveInv, CardStores
    PROVE  ReceiveInv'
<1>0. /\ UNCHANGED <<RxTail, RxCurrent, competing, rxIsr, taken, RxFramesList>>
      /\ RxHead # RxTail /\ stored' = stored + 1
      /\ rxRing' = [rxRing EXCEPT ![RxHead] = stored + 1]
      /\ RxHead' = NextRx(RxHead)
  BY DEF CardStores
<1> DEFINE n == NumberOfRxDescriptors
           all == Len(taken) + Len(RxFramesList)
<1> SUFFICES ASSUME ~competing PROVE ReceiveInv'
  BY <1>0 DEF ReceiveInv
<1>1. PICK k \in RxDescriptors, p \in {0, 1} : CurIs(k, p) /\ RingInv(k, p)
  BY DEF ReceiveInv
<1>2. CurIs(k, p)' /\ ListedInv'
  BY <1>0, <1>1 DEF ReceiveInv, ListedInv, CurIs, WorksAt, InReceive
<1>3. /\ n \in Nat /\ n >= 2 /\ RxDescriptors = 0 .. n - 1 /\ all \in Nat /\ stored \in Nat
      /\ RxHead \in RxDescriptors /\ RxTail \in RxDescriptors
  BY RxFacts
<1> HIDE DEF n, all
<1>4. RxHead' = Succ(n, RxHead) /\ k = Succ(n, RxTail)
  BY <1>0, <1>1, <1>3, NextRxIs DEF RingInv, n
<1>5. RxHead' # k
  BY <1>0, <1>3, <1>4, DistDiffers
<1>6. Dist(n, k, RxHead') = Dist(n, k, RxHead) + 1 /\ Dist(n, k, RxHead) \in Nat
  BY <1>3, <1>4, <1>5, DistFacts
<1>7. /\ stored = all - p + Dist(n, k, RxHead)
      /\ \A d \in RxDescriptors :
             rxRing[d] = IF Dist(n, k, d) < Dist(n, k, RxHead) THEN all - p + Dist(n, k, d) + 1 ELSE 0
  BY <1>1 DEF RingInv, n, all
<1>8. stored' = all - p + Dist(n, k, RxHead')
  BY <1>0, <1>3, <1>6, <1>7
<1>9. ASSUME NEW d \in RxDescriptors
      PROVE  rxRing'[d] = IF Dist(n, k, d) < Dist(n, k, RxHead') THEN all - p + Dist(n, k, d) + 1 ELSE 0
  <2>1. Dist(n, k, d) \in Nat
    BY <1>3, DistFacts
  <2>2. CASE d = RxHead
    <3>1. rxRing'[d] = stored + 1
      BY <1>0, <2>2 DEF RxDataTypeOK
    <3> QED
      BY <1>3, <1>6, <1>7, <2>2, <3>1
  <2>3. CASE d # RxHead
    <3>1. rxRing'[d] = rxRing[d]
      BY <1>0, <2>3 DEF RxDataTypeOK
    <3>2. Dist(n, k, d) # Dist(n, k, RxHead)
      BY <1>3, <2>3, DistDiffers
    <3>3. Dist(n, k, d) < Dist(n, k, RxHead) <=> Dist(n, k, d) < Dist(n, k, RxHead')
      BY <1>6, <2>1, <3>2
    <3> QED
      BY <1>7, <3>1, <3>3
  <2> QED
    BY <2>2, <2>3
<1>10. RingInv(k, p)'
  BY <1>0, <1>4, <1>5, <1>8, <1>9 DEF RingInv, n, all
<1> QED
  BY <1>2, <1>10 DEF ReceiveInv

\* A handler starts; when it finds another one in the loop they compete.
LEMMA RxInterruptInv ==
    ASSUME RxDataTypeOK, ReceiveInv, NEW c \in RxCpus, RxInterrupt(c)
    PROVE  ReceiveInv'
<1>0. /\ UNCHANGED <<taken, RxFramesList, rxRing, RxHead, RxTail, RxCurrent, stored>>
      /\ rxIsr[c] = RxIdle
      /\ rxIsr' = [rxIsr EXCEPT ![c] = [at |-> IF "received" \in cause THEN "loop" ELSE "link",
                                        cur |-> RxCurrent, reason |-> cause]]
      /\ competing \/ ("received" \in cause /\ \E o \in RxCpus : InReceive(o)) => competing'
  BY DEF RxInterrupt
<1>a. competing' => competing \/ ("received" \in cause /\ \E o \in RxCpus : InReceive(o))
  BY DEF RxInterrupt
<1>1. /\ rxIsr'[c].at = (IF "received" \in cause THEN "loop" ELSE "link") /\ rxIsr'[c].cur = RxCurrent
      /\ \A o \in RxCpus : o # c => rxIsr'[o] = rxIsr[o]
  BY <1>0 DEF RxDataTypeOK
<1>2. ~InReceive(c) /\ \A o \in RxCpus : o # c => (InReceive(o)' <=> InReceive(o))
  BY <1>0, <1>1 DEF InReceive, RxIdle
<1>3. CASE "received" \notin cause
  <2>1. ~InReceive(c)'
    BY <1>1, <1>3 DEF InReceive
  <2>2. competing' => competing
    BY <1>3, <1>a
  <2>3. \A o \in RxCpus : /\ InReceive(o)' <=> InReceive(o)
                          /\ InReceive(o) => rxIsr'[o] = rxIsr[o]
    BY <1>1, <1>2, <2>1
  <2>4. ASSUME NEW k, NEW p, CurIs(k, p) PROVE CurIs(k, p)'
    BY <1>0, <2>3, <2>4 DEF CurIs, WorksAt
  <2>5. ASSUME NEW k, NEW p, RingInv(k, p) PROVE RingInv(k, p)'
    BY <1>0, <2>5 DEF RingInv
  <2>6. ListedInv => ListedInv'
    BY <1>0 DEF ListedInv
  <2> QED
    BY <1>0, <2>4, <2>5, <2>6 DEF ReceiveInv
<1>4. CASE "received" \in cause
  <2> SUFFICES ASSUME ~competing' PROVE ReceiveInv'
    BY DEF ReceiveInv
  <2>1. ~competing /\ \A o \in RxCpus : ~InReceive(o)
    BY <1>0, <1>4
  <2>2. PICK k \in RxDescriptors, p \in {0, 1} : CurIs(k, p) /\ RingInv(k, p)
    BY <2>1 DEF ReceiveInv
  <2>3. k = RxCurrent /\ p = 0
    BY <2>1, <2>2 DEF CurIs, WorksAt
  <2>4. InReceive(c)' /\ rxIsr'[c].at = "loop" /\ rxIsr'[c].cur = k
    BY <1>1, <1>4, <2>3 DEF InReceive
  <2>5. WorksAt(c, k, p)'
    BY <1>2, <2>1, <2>3, <2>4 DEF WorksAt
  <2>6. CurIs(k, p)'
    BY <2>5 DEF CurIs
  <2>7. RingInv(k, p)' /\ ListedInv'
    BY <1>0, <2>1, <2>2 DEF RingInv, ListedInv, ReceiveInv
  <2> QED
    BY <2>6, <2>7 DEF ReceiveInv
<1> QED
  BY <1>3, <1>4

\* The only handler in the loop is the one that works at the current index.
LEMMA TheHandler ==
    ASSUME NEW c \in RxCpus, InReceive(c), NEW k, NEW p, CurIs(k, p)
    PROVE  WorksAt(c, k, p)
BY DEF CurIs, WorksAt

\* The handler lists the frame of the current descriptor, or leaves the loop.
LEMMA ReceiveFrameInv ==
    ASSUME RxDataTypeOK, ReceiveInv, NEW c \in RxCpus, ReceiveFrame(c)
    PROVE  ReceiveInv'
<1> DEFINE frame == rxRing[rxIsr[c].cur]
<1>0. /\ UNCHANGED <<taken, rxRing, RxHead, RxTail, stored, competing>>
      /\ rxIsr[c].at = "loop"
      /\ frame = 0 => /\ RxCurrent' = rxIsr[c].cur /\ rxIsr' = [rxIsr EXCEPT ![c].at = "link"]
                      /\ UNCHANGED RxFramesList
      /\ frame # 0 => /\ RxFramesList' = Append(RxFramesList, frame) /\ UNCHANGED RxCurrent
                      /\ \E l \in {"signal", "next"} : rxIsr' = [rxIsr EXCEPT ![c].at = l]
  BY DEF ReceiveFrame
<1> SUFFICES ASSUME ~competing PROVE ReceiveInv'
  BY <1>0 DEF ReceiveInv
<1>1. PICK k \in RxDescriptors, p \in {0, 1} : CurIs(k, p) /\ RingInv(k, p)
  BY DEF ReceiveInv
<1>2. InReceive(c)
  BY <1>0 DEF InReceive
<1>3. WorksAt(c, k, p)
  BY <1>1, <1>2, TheHandler
<1>4. rxIsr[c].cur = k /\ p = 0 /\ \A d \in RxCpus : InReceive(d) => d = c
  BY <1>0, <1>3 DEF WorksAt
<1>5. frame = rxRing[k] /\ frame \in Nat
  BY <1>4 DEF RxDataTypeOK
<1> HIDE DEF frame
<1>6. CASE frame = 0
  <2>1. rxIsr' = [rxIsr EXCEPT ![c].at = "link"] /\ RxCurrent' = k /\ UNCHANGED RxFramesList
    BY <1>0, <1>4, <1>6
  <2>2. rxIsr'[c].at = "link" /\ \A d \in RxCpus : d # c => rxIsr'[d] = rxIsr[d]
    BY <2>1 DEF RxDataTypeOK, RxHandlers
  <2>3. \A d \in RxCpus : ~InReceive(d)'
    BY <1>4, <2>2 DEF InReceive
  <2>4. CurIs(k, p)'
    BY <1>4, <2>1, <2>3 DEF CurIs
  <2>5. RingInv(k, p)' /\ ListedInv'
    BY <1>0, <1>1, <2>1 DEF RingInv, ListedInv, ReceiveInv
  <2> QED
    BY <2>4, <2>5 DEF ReceiveInv
<1>7. CASE frame # 0
  <2>1. PICK l \in {"signal", "next"} : rxIsr' = [rxIsr EXCEPT ![c].at = l]
    BY <1>0, <1>7
  <2>2. /\ rxIsr'[c].at = l /\ rxIsr'[c].cur = k
        /\ \A d \in RxCpus : d # c => rxIsr'[d] = rxIsr[d]
    BY <1>4, <2>1 DEF RxDataTypeOK, RxHandlers
  <2>3. WorksAt(c, k, 1)'
    BY <1>4, <2>2 DEF WorksAt, InReceive
  <2>4. CurIs(k, 1)'
    BY <2>3 DEF CurIs
  <2>5. /\ Len(RxFramesList') = Len(RxFramesList) + 1 /\ Len(RxFramesList) \in Nat
        /\ \A i \in 1 .. Len(RxFramesList') :
               /\ RxFramesList'[i] = IF i = Len(RxFramesList) + 1 THEN frame ELSE RxFramesList[i]
               /\ i # Len(RxFramesList) + 1 => i \in 1 .. Len(RxFramesList)
    BY <1>0, <1>5, <1>7, AppendIs DEF RxDataTypeOK
  <2>6. Dist(NumberOfRxDescriptors, k, k) = 0 /\ Len(taken) \in Nat
    BY RxFacts, DistFacts
  <2>7. 0 < Dist(NumberOfRxDescriptors, k, RxHead) /\ frame = Len(taken) + Len(RxFramesList) + 1
    BY <1>1, <1>4, <1>5, <1>7, <2>5, <2>6 DEF RingInv
  <2>8. RxHead # k
    BY <2>6, <2>7
  <2>9. Len(taken') + Len(RxFramesList') - 1 = Len(taken) + Len(RxFramesList) - 0
    BY <1>0, <2>5, <2>6
  <2>10. RingInv(k, 1)'
    BY <1>0, <1>1, <1>4, <2>8, <2>9 DEF RingInv
  <2>11. ListedInv'
    <3>1. /\ \A i \in 1 .. Len(taken) : taken[i] = i
          /\ \A i \in 1 .. Len(RxFramesList) : RxFramesList[i] = Len(taken) + i
      BY DEF ReceiveInv, ListedInv
    <3>2. ASSUME NEW i \in 1 .. Len(RxFramesList') PROVE RxFramesList'[i] = Len(taken) + i
      <4>1. CASE i = Len(RxFramesList) + 1
        BY <2>5, <2>6, <2>7, <4>1
      <4>2. CASE i # Len(RxFramesList) + 1
        BY <2>5, <3>1, <4>2
      <4> QED
        BY <4>1, <4>2
    <3> QED
      BY <1>0, <3>1, <3>2 DEF ListedInv
  <2> QED
    BY <2>4, <2>10, <2>11 DEF ReceiveInv
<1> QED
  BY <1>6, <1>7

\* The handler gives the descriptor back and goes to the next one.
LEMMA NextDescriptorInv ==
    ASSUME RxDataTypeOK, ReceiveInv, NEW c \in RxCpus, NextDescriptor(c)
    PROVE  ReceiveInv'
<1>0. /\ UNCHANGED <<taken, RxFramesList, RxHead, RxCurrent, stored, competing>>
      /\ rxIsr[c].at = "next"
      /\ rxRing' = [rxRing EXCEPT ![rxIsr[c].cur] = 0] /\ RxTail' = rxIsr[c].cur
      /\ rxIsr' = [rxIsr EXCEPT ![c] = [at |-> "loop", cur |-> NextRx(@.cur), reason |-> @.reason]]
  BY DEF NextDescriptor
<1> SUFFICES ASSUME ~competing PROVE ReceiveInv'
  BY <1>0 DEF ReceiveInv
<1>1. PICK k \in RxDescriptors, p \in {0, 1} : CurIs(k, p) /\ RingInv(k, p)
  BY DEF ReceiveInv
<1>2. InReceive(c)
  BY <1>0 DEF InReceive
<1>3. WorksAt(c, k, p)
  BY <1>1, <1>2, TheHandler
<1>4. rxIsr[c].cur = k /\ p = 1 /\ \A d \in RxCpus : InReceive(d) => d = c
  BY <1>0, <1>3 DEF WorksAt
<1> DEFINE n == NumberOfRxDescriptors
           all == Len(taken) + Len(RxFramesList)
           m == NextRx(k)
<1>5. m = Succ(n, k) /\ m \in RxDescriptors
  BY NextRxIs
<1>6. /\ n \in Nat /\ n >= 2 /\ RxDescriptors = 0 .. n - 1 /\ all \in Nat
      /\ RxHead \in RxDescriptors
  BY RxFacts
<1>7. /\ rxIsr'[c].at = "loop" /\ rxIsr'[c].cur = m
      /\ \A d \in RxCpus : d # c => rxIsr'[d] = rxIsr[d]
  BY <1>0, <1>4 DEF RxDataTypeOK
<1> HIDE DEF n, all, m
<1>8. WorksAt(c, m, 0)'
  BY <1>4, <1>7 DEF WorksAt, InReceive
<1>9. CurIs(m, 0)' /\ ListedInv'
  BY <1>0, <1>8 DEF CurIs, ReceiveInv, ListedInv
<1>10. /\ RxHead # k /\ stored = all - 1 + Dist(n, k, RxHead)
       /\ \A d \in RxDescriptors :
             rxRing[d] = IF Dist(n, k, d) < Dist(n, k, RxHead) THEN all - 1 + Dist(n, k, d) + 1 ELSE 0
  BY <1>1, <1>4 DEF RingInv, n, all
<1>11. ASSUME NEW d \in RxDescriptors
       PROVE  /\ Dist(n, k, d) \in Nat /\ Dist(n, k, d) < n
              /\ d # k => Dist(n, m, d) = Dist(n, k, d) - 1
              /\ d = k => Dist(n, m, d) = n - 1
  BY <1>5, <1>6, DistFacts
<1>12. stored' = all - 0 + Dist(n, m, RxHead)
  BY <1>0, <1>6, <1>10, <1>11
<1>13. ASSUME NEW d \in RxDescriptors
       PROVE  rxRing'[d] = IF Dist(n, m, d) < Dist(n, m, RxHead) THEN all - 0 + Dist(n, m, d) + 1 ELSE 0
  <2>1. CASE d = k
    <3>1. rxRing'[d] = 0
      BY <1>0, <1>4, <2>1 DEF RxDataTypeOK
    <3>2. Dist(n, m, d) = n - 1 /\ Dist(n, m, RxHead) < n - 1
      BY <1>6, <1>10, <1>11, <2>1
    <3>3. ~(Dist(n, m, d) < Dist(n, m, RxHead))
      BY <1>6, <1>10, <1>11, <2>1
    <3> QED
      BY <3>1, <3>3
  <2>2. CASE d # k
    <3>1. rxRing'[d] = rxRing[d]
      BY <1>0, <1>4, <2>2 DEF RxDataTypeOK
    <3>2. Dist(n, m, d) = Dist(n, k, d) - 1 /\ Dist(n, m, RxHead) = Dist(n, k, RxHead) - 1
      BY <1>6, <1>10, <1>11, <2>2
    <3>3. Dist(n, k, d) \in Nat /\ Dist(n, k, RxHead) \in Nat
      BY <1>6, <1>11
    <3>4. rxRing[d] = IF Dist(n, k, d) < Dist(n, k, RxHead) THEN all - 1 + Dist(n, k, d) + 1 ELSE 0
      BY <1>10
    <3> DEFINE x == Dist(n, k, d)
               y == Dist(n, k, RxHead)
    <3>5. /\ x \in Nat /\ y \in Nat /\ all \in Nat /\ rxRing'[d] = IF x < y THEN all - 1 + x + 1 ELSE 0
          /\ Dist(n, m, d) = x - 1 /\ Dist(n, m, RxHead) = y - 1
      BY <1>6, <3>1, <3>2, <3>3, <3>4
    <3> HIDE DEF x, y
    <3>6. /\ x - 1 < y - 1 <=> x < y
          /\ all - 0 + (x - 1) + 1 = all - 1 + x + 1
      BY <3>5
    <3> QED
      BY <3>5, <3>6
  <2> QED
    BY <2>1, <2>2
<1>14. Succ(n, RxTail') = m
  BY <1>0, <1>4, <1>5
<1>15. RingInv(m, 0)'
  BY <1>0, <1>12, <1>13, <1>14 DEF RingInv, n, all
<1> QED
  BY <1>5, <1>9, <1>15 DEF ReceiveInv

LEMMA NextRxIInv ==
    ASSUME RxIInv, [RxNext]_rxVars
    PROVE  RxIInv'
<1>0. RxDataTypeOK /\ RxFlagsOK /\ OneCall /\ ReceiveInv
  BY DEF RxIInv
<1> DEFINE still == <<taken, RxFramesList, rxRing, RxHead, RxTail, RxCurrent, stored, competing>>
<1>1. CASE UNCHANGED rxVars
  <2>1. UNCHANGED still /\ UNCHANGED rxIsr
    BY <1>1 DEF rxVars
  <2> QED
    BY <1>0, <2>1, NextRxData, NextRxFlags, NextOneCall, ReceiveStays DEF RxIInv, InReceive
<1>2. ASSUME NEW t \in Clients,
             \/ \E r \in {"receive", "status"} : NetCall(t, r)
             \/ ReceiveEmpty(t) \/ ReceiveWait(t) \/ ReceiveInsert(t) \/ CallReturn(t)
             \/ \E rx, tx \in BOOLEAN : ChangeDeviceStatus(t, rx, tx)
      PROVE  ReceiveInv'
  <2>1. UNCHANGED still /\ UNCHANGED rxIsr
    BY <1>2 DEF NetCall, ReceiveEmpty, ReceiveWait, ReceiveInsert, CallReturn, ChangeDeviceStatus, rxCardVars
  <2> QED
    BY <1>0, <2>1, ReceiveStays DEF InReceive
<1>3. ASSUME NEW t \in Clients, NEW small \in BOOLEAN, ReceiveLook(t, small) PROVE ReceiveInv'
  <2>1. /\ UNCHANGED rxCardVars
        /\ \/ UNCHANGED <<RxFramesList, taken>>
           \/ RxFramesList # <<>> /\ RxFramesList' = Tail(RxFramesList) /\ taken' = Append(taken, Head(RxFramesList))
    BY <1>3 DEF ReceiveLook
  <2>2. CASE UNCHANGED <<RxFramesList, taken>>
    <3>1. UNCHANGED still /\ UNCHANGED rxIsr
      BY <2>1, <2>2 DEF rxCardVars
    <3> QED
      BY <1>0, <3>1, ReceiveStays DEF InReceive
  <2> QED
    BY <1>0, <2>1, <2>2, TakeInv
<1>4. CASE LinkChanges
  <2>1. UNCHANGED still /\ UNCHANGED rxIsr
    BY <1>4 DEF LinkChanges
  <2> QED
    BY <1>0, <2>1, NextRxData, NextRxFlags, NextOneCall, ReceiveStays DEF RxIInv, InReceive
<1>5. ASSUME NEW c \in RxCpus, NotifySignal(c) PROVE ReceiveInv'
  <2>1. UNCHANGED still /\ rxIsr[c].at = "signal" /\ rxIsr' = [rxIsr EXCEPT ![c].at = "next"]
    BY <1>5 DEF NotifySignal
  <2>2. /\ rxIsr'[c].at = "next" /\ rxIsr'[c].cur = rxIsr[c].cur
        /\ \A d \in RxCpus : d # c => rxIsr'[d] = rxIsr[d]
    BY <1>0, <2>1 DEF RxDataTypeOK, RxHandlers
  <2> QED
    BY <1>0, <2>1, <2>2, ReceiveStays DEF InReceive
<1>6. ASSUME NEW c \in RxCpus, InterruptEnd(c) PROVE ReceiveInv'
  <2>1. UNCHANGED still /\ rxIsr[c].at = "link" /\ rxIsr' = [rxIsr EXCEPT ![c] = RxIdle]
    BY <1>6 DEF InterruptEnd
  <2>2. rxIsr'[c].at = "idle" /\ \A d \in RxCpus : d # c => rxIsr'[d] = rxIsr[d]
    BY <1>0, <2>1 DEF RxDataTypeOK, RxIdle
  <2> QED
    BY <1>0, <2>1, <2>2, ReceiveStays DEF InReceive
<1>7. ASSUME NEW c \in RxCpus, AllocationFails(c) PROVE ReceiveInv'
  <2>1. UNCHANGED still /\ rxIsr[c].at = "loop" /\ rxIsr' = [rxIsr EXCEPT ![c].at = "failed"]
    BY <1>7 DEF AllocationFails
  <2>2. /\ rxIsr'[c].at = "failed" /\ rxIsr'[c].cur = rxIsr[c].cur
        /\ \A d \in RxCpus : d # c => rxIsr'[d] = rxIsr[d]
    BY <1>0, <2>1 DEF RxDataTypeOK, RxHandlers
  <2> QED
    BY <1>0, <2>1, <2>2, ReceiveStays DEF InReceive
<1>8. ASSUME RxNext PROVE ReceiveInv'
  <2>1. ASSUME LinkChanges PROVE ReceiveInv'
    BY <1>4, <2>1 DEF RxIInv
  <2> QED
    BY <1>0, <1>2, <1>3, <1>5, <1>6, <1>7, <1>8, <2>1, CardStoresInv, RxInterruptInv, ReceiveFrameInv,
       NextDescriptorInv DEF RxNext, ClientStep, RxIsrStep
<1> QED
  BY <1>0, <1>1, <1>8, NextRxData, NextRxFlags, NextOneCall DEF RxIInv

\* The inductive invariant of the receiving half holds.
THEOREM RxInvariantHolds == RxSpec => []RxIInv
BY InitRxIInv, NextRxIInv, PTL DEF RxSpec

\* One call is in the port driver at a time; and callers receive the frames the card stored,
\* each once and in order, a frame that is not listed being still in the ring, as long as no
\* two handlers were in EthReceiveFrame at once.
THEOREM RxIsCorrect == RxSpec => []RxInv
<1>1. ASSUME RxIInv PROVE RxInv
  <2>0. RxDataTypeOK /\ RxFlagsOK /\ OneCall /\ ReceiveInv
    BY <1>1 DEF RxIInv
  <2>1. RxTypeOK
    BY <2>0 DEF RxTypeOK, RxDataTypeOK, RxFlagsOK, RxHandlers
  <2>2. ASSUME ~competing
        PROVE  LET listed == taken \o RxFramesList IN
               /\ \A i \in DOMAIN listed : listed[i] = i
               /\ \A f \in Len(listed) + 1 .. stored : \E i \in RxDescriptors : rxRing[i] = f
    <3> DEFINE listed == taken \o RxFramesList
               n == NumberOfRxDescriptors
    <3>1. taken \in Seq(Nat) /\ RxFramesList \in Seq(Nat) /\ ListedInv
      BY <2>0, <2>2 DEF RxDataTypeOK, ReceiveInv
    <3>2. /\ listed \in Seq(Nat) /\ Len(listed) = Len(taken) + Len(RxFramesList)
          /\ \A i \in 1 .. Len(listed) : listed[i] = i
      BY <3>1, RunsJoin DEF ListedInv
    <3>3. PICK k \in RxDescriptors, p \in {0, 1} : CurIs(k, p) /\ RingInv(k, p)
      BY <2>0, <2>2 DEF ReceiveInv
    <3>4. /\ n \in Nat /\ n >= 2 /\ RxDescriptors = 0 .. n - 1 /\ stored \in Nat
          /\ RxHead \in RxDescriptors
      BY <2>0, RxFacts
    <3>5. Dist(n, k, RxHead) \in Nat /\ Dist(n, k, RxHead) < n
      BY <3>4, DistFacts
    <3>6. /\ stored = Len(listed) - p + Dist(n, k, RxHead)
          /\ \A d \in RxDescriptors : Dist(n, k, d) < Dist(n, k, RxHead) =>
                 rxRing[d] = Len(listed) - p + Dist(n, k, d) + 1
      BY <3>2, <3>3 DEF RingInv
    <3> HIDE DEF listed, n
    <3>7. ASSUME NEW f \in Len(listed) + 1 .. stored PROVE \E i \in RxDescriptors : rxRing[i] = f
      <4> DEFINE o == f - Len(listed) + p - 1
                 d == (k + o) % n
      <4>1. o \in 0 .. n - 1 /\ o < Dist(n, k, RxHead) /\ f = Len(listed) - p + o + 1
        BY <3>2, <3>4, <3>5, <3>6
      <4> HIDE DEF o
      <4>2. d \in RxDescriptors /\ Dist(n, k, d) = o
        BY <3>4, <4>1, DistAt
      <4> HIDE DEF d
      <4> QED
        BY <3>6, <4>1, <4>2
    <3>8. DOMAIN listed = 1 .. Len(listed)
      BY <3>2
    <3> QED
      BY <3>2, <3>7, <3>8 DEF listed
  <2> QED
    BY <2>0, <2>1, <2>2 DEF RxInv, ReceivedInOrder
<1> QED
  BY RxInvariantHolds, <1>1, PTL

----------------------------------------------------------------------------
\* The keyboard

Keys == Range(ScancodeStd) \cup Range(ScancodeExt) \cup {KEY_UNKNOWN}
MaySend == Sent \cup {Nothing}
Presses == [key : Keys, press : MaySend]
KbdHandlers == {h \in [at : {"idle", "decode", "store", "signal"}, sent : MaySend, key : Keys] :
                 h.at = "idle" => h = NoHandler}

KbdTypes ==
    /\ outputBuffer \in MaySend /\ lastCode \in MaySend
    /\ kbdIsr \in [KbdCpus -> KbdHandlers]
    /\ Keycode \in Presses /\ result \in Presses
    /\ extendedCode \in BOOLEAN /\ Signaled \in BOOLEAN /\ overlapped \in BOOLEAN
    /\ Modifiers \subseteq {"Shift", "Alt", "Ctrl"} /\ Locks \subseteq {"NumLock", "ScrollLock", "CapsLock"}
    /\ reader \in {"idle", "test", "insert", "blocked", "read", "clear", "forget"}
    /\ returned \subseteq Nat

\* The handler holds a code that is not in Keycode yet.
HoldsCode(h) == h.at \in {"decode", "store"}

Fresh(n) == n # 0 /\ n # Keycode.press.id /\ n # result.press.id /\ n \notin returned

\* A code is in one place until it is stored, and getch has not returned it before that.
CodesAreOnce ==
    /\ outputBuffer # Nothing => lastCode = outputBuffer /\ Fresh(outputBuffer.id)
    /\ \A c \in KbdCpus : HoldsCode(kbdIsr[c]) =>
           /\ Fresh(kbdIsr[c].sent.id)
           /\ outputBuffer # Nothing => kbdIsr[c].sent.id # outputBuffer.id
           /\ \A d \in KbdCpus : d # c /\ HoldsCode(kbdIsr[d]) => kbdIsr[d].sent.id # kbdIsr[c].sent.id
    /\ Keycode.key # KEY_UNKNOWN => Keycode.press.id \notin returned
    /\ OncePerPress

\* Numbers grow.
NoneIsLater ==
    /\ Keycode.press.id <= lastCode.id /\ result.press.id <= lastCode.id
    /\ \A c \in KbdCpus : kbdIsr[c].sent.id <= lastCode.id
    /\ \A p \in returned : p <= lastCode.id

Prefixed(s) == s.code = PREFIX /\ s.id > 0
Meant(s, extended) == s.code # PREFIX => s.means = (IF extended THEN ScancodeExt ELSE ScancodeStd)[s.code]

Later(n) == n > Keycode.press.id /\ n > result.press.id /\ \A p \in returned : p < n

AloneIn(c) == \A d \in KbdCpus : d # c => kbdIsr[d] = NoHandler

\* One handler at a time.
OneHandler ==
    /\ \A c \in KbdCpus : kbdIsr[c] # NoHandler => AloneIn(c)
    /\ \A c \in KbdCpus : HoldsCode(kbdIsr[c]) =>
           /\ Later(kbdIsr[c].sent.id)
           /\ IF outputBuffer = Nothing THEN kbdIsr[c].sent = lastCode
              ELSE kbdIsr[c].sent.id < outputBuffer.id /\ Meant(outputBuffer, Prefixed(kbdIsr[c].sent))
    /\ \A c \in KbdCpus : kbdIsr[c].at = "decode" => Meant(kbdIsr[c].sent, extendedCode)
    /\ \A c \in KbdCpus : kbdIsr[c].at = "store" =>
           kbdIsr[c].sent.code # PREFIX /\ kbdIsr[c].key = kbdIsr[c].sent.means
    /\ outputBuffer # Nothing => Later(outputBuffer.id)
    /\ (\A c \in KbdCpus : ~HoldsCode(kbdIsr[c])) =>
           IF outputBuffer = Nothing THEN extendedCode = Prefixed(lastCode)
           ELSE Meant(outputBuffer, extendedCode)
    /\ Keycode.key = Keycode.press.means /\ result.key = result.press.means
    /\ Keycode.key # KEY_UNKNOWN => \A p \in returned : p < Keycode.press.id
    /\ Holding => \A p \in returned : p < result.press.id

KbdIInv == KbdTypes /\ CodesAreOnce /\ NoneIsLater /\ (overlapped = FALSE => OneHandler)

\* Codes are numbered, Nothing with 0.
LEMMA CodesAreTyped ==
    ASSUME NEW s \in MaySend
    PROVE  /\ s.id \in Nat /\ s.means \in Keys /\ s.break \in BOOLEAN
           /\ s # Nothing => s.id # 0
           /\ s.code \in Codes \cup {PREFIX}
<1>1. KeyboardAssumption
  BY KeyboardAssumption
<1>2. CASE s = Nothing
  BY <1>2 DEF Nothing, Keys, Nothing
<1>3. CASE s \in Sent
  <2>1. s.id \in 1 .. MaxCodes /\ s.means \in Keys /\ s.break \in BOOLEAN /\ s.code \in Codes \cup {PREFIX}
    BY <1>3 DEF Sent, Keys
  <2> QED
    BY <1>1, <2>1 DEF KeyboardAssumption
<1> QED
  BY <1>2, <1>3 DEF MaySend

LEMMA NothingIsTyped ==
    /\ Nothing \in MaySend /\ NoKey \in Presses /\ NoHandler \in KbdHandlers
    /\ Nothing.id = 0 /\ Nothing.means = KEY_UNKNOWN /\ Nothing.code = PREFIX
    /\ NoKey.key = KEY_UNKNOWN /\ NoKey.press = Nothing
    /\ NoHandler.at = "idle" /\ NoHandler.sent = Nothing
  BY DEF Nothing, MaySend, NoKey, Presses, NoHandler, KbdHandlers, Keys

LEMMA KeysOfTables ==
    ASSUME NEW code \in Codes, NEW extended
    PROVE  (IF extended THEN ScancodeExt ELSE ScancodeStd)[code] \in Keys
  BY KeyboardAssumption DEF KeyboardAssumption, Keys, Range

LEMMA KbdInitial == KeyboardInitialize => KbdIInv
<1> SUFFICES ASSUME KeyboardInitialize
             PROVE  KbdIInv
  OBVIOUS
<1>1. KbdTypes
  <2>1. kbdIsr \in [KbdCpus -> KbdHandlers]
    BY NothingIsTyped DEF KeyboardInitialize
  <2> QED
    BY <2>1, NothingIsTyped DEF KeyboardInitialize, KbdTypes
<1>2. \A c \in KbdCpus : kbdIsr[c] = NoHandler /\ kbdIsr[c].sent.id = 0 /\ ~HoldsCode(kbdIsr[c])
  BY NothingIsTyped DEF KeyboardInitialize, HoldsCode
<1>3. CodesAreOnce
  BY <1>2, NothingIsTyped DEF KeyboardInitialize, CodesAreOnce, OncePerPress, Holding
<1>5. NoneIsLater
  BY <1>2, NothingIsTyped DEF KeyboardInitialize, NoneIsLater
<1>4. OneHandler
  <2>1. \A c \in KbdCpus : kbdIsr[c].at = "idle"
    BY <1>2, NothingIsTyped
  <2>2. \A c \in KbdCpus : AloneIn(c)
    BY <1>2 DEF AloneIn
  <2>3. Prefixed(Nothing) = FALSE
    BY NothingIsTyped DEF Prefixed
  <2> QED
    BY <1>2, <2>1, <2>2, <2>3, NothingIsTyped DEF KeyboardInitialize, OneHandler, Holding
<1> QED
  BY <1>1, <1>3, <1>4, <1>5 DEF KbdIInv

\* A new code has a new number.
LEMMA NewCode ==
    ASSUME KbdIInv, NEW code \in Codes \cup {PREFIX}, NEW break \in BOOLEAN, SendCode(code, break)
    PROVE  KbdIInv'
<1> DEFINE id == lastCode.id + 1
           means == IF code = PREFIX THEN KEY_UNKNOWN
                    ELSE (IF Prefixed(lastCode) THEN ScancodeExt ELSE ScancodeStd)[code]
           new == [code |-> code, break |-> break, id |-> id, means |-> means]
<1>1. /\ outputBuffer = Nothing /\ outputBuffer' = new /\ lastCode' = new /\ id <= MaxCodes
      /\ UNCHANGED <<kbdIsr, extendedCode, Keycode, Modifiers, Locks, Signaled, reader, result,
                     overlapped, returned>>
  BY DEF SendCode, Prefixed
<1>2. KbdTypes /\ CodesAreOnce /\ NoneIsLater /\ (overlapped = FALSE => OneHandler)
  BY DEF KbdIInv
<1>3. /\ lastCode.id \in Nat /\ Keycode.press.id \in Nat /\ result.press.id \in Nat
      /\ \A c \in KbdCpus : kbdIsr[c].sent \in MaySend /\ kbdIsr[c].sent.id \in Nat
  BY <1>2, CodesAreTyped DEF KbdTypes, Presses, KbdHandlers
<1>4. means \in Range(ScancodeStd) \cup Range(ScancodeExt) \cup {KEY_UNKNOWN}
  BY KeysOfTables DEF Keys
<1>5. new \in MaySend /\ new # Nothing /\ new.id = id /\ Meant(new, Prefixed(lastCode))
  <2>1. id \in 1 .. MaxCodes
    BY <1>1, <1>3, KeyboardAssumption DEF KeyboardAssumption
  <2>2. new \in Sent /\ new.id = id /\ new.code = code /\ new.means = means
    BY <1>4, <2>1 DEF Sent
  <2>3. new # Nothing
    BY <2>1, <2>2, KeyboardAssumption DEF Nothing, KeyboardAssumption
  <2> QED
    BY <2>2, <2>3 DEF MaySend, Meant
<1>6. PICK n : n = new
  OBVIOUS
<1>7. /\ n \in MaySend /\ n # Nothing /\ n.id = lastCode.id + 1 /\ Meant(n, Prefixed(lastCode))
      /\ outputBuffer' = n /\ lastCode' = n
  BY <1>1, <1>5, <1>6
<1> HIDE DEF new, means, id
<1>8. KbdTypes'
  BY <1>1, <1>2, <1>7 DEF KbdTypes
<1>9. NoneIsLater'
  BY <1>1, <1>2, <1>3, <1>7 DEF NoneIsLater, KbdTypes
<1>10. CodesAreOnce'
  <2>1. Fresh(n.id)'
    BY <1>1, <1>2, <1>3, <1>7 DEF Fresh, NoneIsLater, KbdTypes
  <2>2. \A c \in KbdCpus : kbdIsr[c].sent.id # n.id
    BY <1>2, <1>3, <1>7 DEF NoneIsLater
  <2>3. \A c \in KbdCpus : HoldsCode(kbdIsr[c]) => Fresh(kbdIsr[c].sent.id)'
    BY <1>1, <1>2 DEF CodesAreOnce, Fresh
  <2>4. Fresh(outputBuffer.id)'
    BY <1>7, <2>1 DEF Fresh
  <2> QED
    BY <1>1, <1>2, <1>7, <2>4, <2>2, <2>3 DEF CodesAreOnce, OncePerPress, Holding
<1>11. ASSUME overlapped' = FALSE
       PROVE  OneHandler'
  <2>1. OneHandler
    BY <1>1, <1>2, <1>11
  <2>2. Later(outputBuffer.id)'
    <3>1. n.id > Keycode.press.id /\ n.id > result.press.id /\ \A p \in returned : p < n.id
      BY <1>2, <1>3, <1>7 DEF NoneIsLater, KbdTypes
    <3> QED
      BY <1>1, <1>7, <3>1 DEF Later
  <2>3. ASSUME NEW c \in KbdCpus, HoldsCode(kbdIsr[c])
        PROVE  /\ Later(kbdIsr[c].sent.id)'
               /\ kbdIsr[c].sent.id < n.id /\ Meant(n, Prefixed(kbdIsr[c].sent))
    <3>1. Later(kbdIsr[c].sent.id) /\ kbdIsr[c].sent = lastCode
      BY <1>1, <2>1, <2>3 DEF OneHandler
    <3> QED
      BY <1>1, <1>3, <1>7, <3>1 DEF Later
  <2>4. (\A c \in KbdCpus : ~HoldsCode(kbdIsr[c])) => Meant(n, extendedCode)
    <3>1. (\A c \in KbdCpus : ~HoldsCode(kbdIsr[c])) => extendedCode = Prefixed(lastCode)
      BY <1>1, <2>1 DEF OneHandler
    <3> QED
      BY <1>7, <3>1
  <2>5. \A c \in KbdCpus : kbdIsr[c] # NoHandler => AloneIn(c)'
    BY <1>1, <2>1 DEF OneHandler, AloneIn
  <2> QED
    BY <1>1, <1>7, <2>1, <2>2, <2>3, <2>4, <2>5 DEF OneHandler, Holding
<1> QED
  BY <1>8, <1>9, <1>10, <1>11 DEF KbdIInv

\* The handler of one CPU changes.
LEMMA HandlerSet ==
    ASSUME KbdTypes, NEW c \in KbdCpus, NEW h \in KbdHandlers, kbdIsr' = [kbdIsr EXCEPT ![c] = h]
    PROVE  \E hs \in [KbdCpus -> KbdHandlers] : /\ kbdIsr' = hs /\ hs[c] = h
                                              /\ \A d \in KbdCpus : d # c => hs[d] = kbdIsr[d]
  BY DEF KbdTypes

LEMMA CodeIsRead ==
    ASSUME KbdIInv, NEW c \in KbdCpus, IsrReadBuffer(c)
    PROVE  KbdIInv'
<1>1. KbdTypes /\ CodesAreOnce /\ NoneIsLater /\ (overlapped = FALSE => OneHandler)
  BY DEF KbdIInv
<1>2. PICK h : h = [NoHandler EXCEPT !.at = "decode", !.sent = outputBuffer]
  OBVIOUS
<1>3. h \in KbdHandlers /\ h.at = "decode" /\ h.sent = outputBuffer
  BY <1>1, <1>2 DEF KbdTypes, KbdHandlers, NoHandler, Keys
<1>4. /\ kbdIsr[c] = NoHandler /\ outputBuffer # Nothing /\ outputBuffer' = Nothing
      /\ kbdIsr' = [kbdIsr EXCEPT ![c] = h]
      /\ overlapped' = (overlapped \/ \E d \in KbdCpus : kbdIsr[d] # NoHandler)
      /\ UNCHANGED <<extendedCode, Keycode, Modifiers, Locks, Signaled, reader, result, lastCode, returned>>
  BY <1>2 DEF IsrReadBuffer
<1>5. PICK hs \in [KbdCpus -> KbdHandlers] : /\ kbdIsr' = hs /\ hs[c] = h
                                          /\ \A d \in KbdCpus : d # c => hs[d] = kbdIsr[d]
  BY <1>1, <1>3, <1>4, HandlerSet
<1>6. KbdTypes'
  <2>1. overlapped' \in BOOLEAN
    BY <1>4
  <2> QED
    BY <1>1, <1>4, <1>5, <2>1, NothingIsTyped DEF KbdTypes
<1>7. NoneIsLater'
  <2>1. outputBuffer.id = lastCode.id /\ lastCode.id \in Nat
    BY <1>1, <1>4, CodesAreTyped DEF CodesAreOnce, KbdTypes
  <2>2. h.sent.id <= lastCode.id
    BY <1>3, <2>1
  <2>3. \A d \in KbdCpus : hs[d].sent.id <= lastCode'.id
    BY <1>1, <1>4, <1>5, <2>2 DEF NoneIsLater
  <2> QED
    BY <1>1, <1>4, <1>5, <2>3 DEF NoneIsLater
<1>8. CodesAreOnce'
  <2>1. Fresh(h.sent.id)' /\ HoldsCode(h)
    BY <1>1, <1>3, <1>4 DEF CodesAreOnce, Fresh, HoldsCode
  <2>2. \A d \in KbdCpus : d # c /\ HoldsCode(kbdIsr[d]) =>
            Fresh(kbdIsr[d].sent.id)' /\ kbdIsr[d].sent.id # h.sent.id
    BY <1>1, <1>3, <1>4 DEF CodesAreOnce, Fresh
  <2>3. \A d \in KbdCpus : HoldsCode(hs[d]) =>
            /\ Fresh(hs[d].sent.id)'
            /\ \A e \in KbdCpus : e # d /\ HoldsCode(hs[e]) => hs[e].sent.id # hs[d].sent.id
    <3> SUFFICES ASSUME NEW d \in KbdCpus, HoldsCode(hs[d])
                 PROVE  /\ Fresh(hs[d].sent.id)'
                        /\ \A e \in KbdCpus : e # d /\ HoldsCode(hs[e]) => hs[e].sent.id # hs[d].sent.id
      OBVIOUS
    <3>1. CASE d = c
      BY <1>5, <2>1, <2>2, <3>1
    <3>2. CASE d # c
      <4>1. hs[d] = kbdIsr[d] /\ HoldsCode(kbdIsr[d])
        BY <1>5, <3>2
      <4>2. \A e \in KbdCpus : e # d /\ HoldsCode(kbdIsr[e]) => kbdIsr[e].sent.id # kbdIsr[d].sent.id
        BY <1>1, <4>1 DEF CodesAreOnce
      <4> QED
        BY <1>5, <2>2, <3>2, <4>1, <4>2 DEF Fresh
    <3> QED
      BY <3>1, <3>2
  <2> QED
    BY <1>1, <1>4, <1>5, <2>3 DEF CodesAreOnce, OncePerPress, Holding
<1>9. ASSUME overlapped' = FALSE
      PROVE  OneHandler'
  <2> DEFINE active == \E d \in KbdCpus : kbdIsr[d] # NoHandler
  <2>10. overlapped \in BOOLEAN /\ overlapped' = (overlapped \/ active)
    BY <1>1, <1>4 DEF KbdTypes
  <2> HIDE DEF active
  <2>11. overlapped = FALSE /\ ~active
    BY <1>9, <2>10
  <2>1. OneHandler /\ \A d \in KbdCpus : kbdIsr[d] = NoHandler
    BY <1>1, <2>11 DEF active
  <2>2. \A d \in KbdCpus : ~HoldsCode(kbdIsr[d])
    BY <2>1, NothingIsTyped DEF HoldsCode
  <2>3. Later(outputBuffer.id) /\ Meant(outputBuffer, extendedCode) /\ outputBuffer = lastCode
    BY <1>1, <1>4, <2>1, <2>2 DEF OneHandler, CodesAreOnce
  <2>4. /\ Later(h.sent.id)' /\ h.sent = lastCode' /\ Meant(h.sent, extendedCode')
        /\ HoldsCode(h) /\ h.at = "decode"
    BY <1>3, <1>4, <2>3 DEF Later, HoldsCode
  <2>5. \A d \in KbdCpus : d # c => hs[d] = NoHandler /\ ~HoldsCode(hs[d]) /\ hs[d].at = "idle"
    BY <1>5, <2>1, <2>2, NothingIsTyped
  <2>6. \A d \in KbdCpus : hs[d] # NoHandler => AloneIn(d)'
    BY <1>5, <2>5 DEF AloneIn
  <2>7. \A d \in KbdCpus : HoldsCode(hs[d]) => Later(hs[d].sent.id)' /\ hs[d].sent = lastCode'
    BY <1>5, <2>4, <2>5
  <2>8. \A d \in KbdCpus : /\ hs[d].at = "decode" => Meant(hs[d].sent, extendedCode')
                           /\ hs[d].at # "store"
    BY <1>5, <2>4, <2>5
  <2>9. HoldsCode(hs[c])
    BY <1>5, <2>4
  <2> QED
    BY <1>4, <2>1, <2>6, <2>7, <1>5, <2>8, <2>9 DEF OneHandler, Holding, Later
<1> QED
  BY <1>6, <1>7, <1>8, <1>9 DEF KbdIInv

\* The code is a prefix.
LEMMA PrefixIsDecoded ==
    ASSUME KbdIInv, NEW c \in KbdCpus, IsrDecode(c), kbdIsr[c].sent.code = PREFIX
    PROVE  KbdIInv'
<1>1. KbdTypes /\ CodesAreOnce /\ NoneIsLater /\ (overlapped = FALSE => OneHandler)
  BY DEF KbdIInv
<1>2. /\ kbdIsr[c].at = "decode" /\ extendedCode' = TRUE
      /\ kbdIsr' = [kbdIsr EXCEPT ![c] = NoHandler]
      /\ UNCHANGED <<outputBuffer, Keycode, Modifiers, Locks, Signaled, reader, result, lastCode,
                     overlapped, returned>>
  BY DEF IsrDecode
<1>3. PICK hs \in [KbdCpus -> KbdHandlers] : /\ kbdIsr' = hs /\ hs[c] = NoHandler
                                          /\ \A d \in KbdCpus : d # c => hs[d] = kbdIsr[d]
  BY <1>1, <1>2, HandlerSet, NothingIsTyped
<1>4. ~HoldsCode(hs[c]) /\ hs[c].sent.id = 0
  BY <1>3, NothingIsTyped DEF HoldsCode
<1>5. KbdTypes'
  BY <1>1, <1>2, <1>3 DEF KbdTypes
<1>6. NoneIsLater'
  <2>1. lastCode.id \in Nat
    BY <1>1, CodesAreTyped DEF KbdTypes
  <2>2. \A d \in KbdCpus : hs[d].sent.id <= lastCode.id
    BY <1>1, <1>3, <1>4, <2>1 DEF NoneIsLater
  <2> QED
    BY <1>1, <1>2, <1>3, <2>2 DEF NoneIsLater
<1>7. CodesAreOnce'
  <2>1. \A d \in KbdCpus : HoldsCode(hs[d]) => hs[d] = kbdIsr[d]
    BY <1>3, <1>4
  <2> QED
    BY <1>1, <1>2, <1>3, <2>1 DEF CodesAreOnce, OncePerPress, Holding, Fresh
<1>8. ASSUME overlapped' = FALSE
      PROVE  OneHandler'
  <2>1. OneHandler
    BY <1>1, <1>2, <1>8
  <2>2. HoldsCode(kbdIsr[c]) /\ kbdIsr[c] # NoHandler
    BY <1>2, NothingIsTyped DEF HoldsCode
  <2>3. \A d \in KbdCpus : hs[d] = NoHandler
    BY <1>3, <2>1, <2>2 DEF OneHandler, AloneIn
  <2>4. \A d \in KbdCpus : ~HoldsCode(hs[d]) /\ hs[d].at = "idle"
    BY <2>3, NothingIsTyped DEF HoldsCode
  <2>5. Prefixed(kbdIsr[c].sent) = TRUE
    <3>1. kbdIsr[c].sent.id # 0 /\ kbdIsr[c].sent.id \in Nat
      BY <1>1, <2>2, CodesAreTyped DEF CodesAreOnce, Fresh, KbdTypes, KbdHandlers
    <3> QED
      BY <3>1 DEF Prefixed
  <2>6. IF outputBuffer = Nothing THEN TRUE = Prefixed(lastCode) ELSE Meant(outputBuffer, TRUE)
    BY <2>1, <2>2, <2>5 DEF OneHandler
  <2>7. \A d \in KbdCpus : AloneIn(d)'
    BY <1>3, <2>3 DEF AloneIn
  <2> QED
    BY <1>2, <1>3, <2>1, <2>3, <2>4, <2>6, <2>7 DEF OneHandler, Holding, Later
<1> QED
  BY <1>5, <1>6, <1>7, <1>8 DEF KbdIInv

\* The code is looked up.
LEMMA CodeIsDecoded ==
    ASSUME KbdIInv, NEW c \in KbdCpus, IsrDecode(c), kbdIsr[c].sent.code # PREFIX
    PROVE  KbdIInv'
<1>1. KbdTypes /\ CodesAreOnce /\ NoneIsLater /\ (overlapped = FALSE => OneHandler)
  BY DEF KbdIInv
<1> DEFINE key == (IF extendedCode THEN ScancodeExt ELSE ScancodeStd)[kbdIsr[c].sent.code]
<1>2. PICK h : h = [kbdIsr[c] EXCEPT !.at = "store", !.key = key]
  OBVIOUS
<1>3. /\ kbdIsr[c].at = "decode" /\ kbdIsr' = [kbdIsr EXCEPT ![c] = h]
      /\ UNCHANGED <<outputBuffer, extendedCode, Keycode, Modifiers, Locks, Signaled, reader, result,
                     lastCode, overlapped, returned>>
  BY <1>1, <1>2 DEF IsrDecode, KbdTypes
<1>4. kbdIsr[c] \in KbdHandlers /\ kbdIsr[c].sent \in MaySend
  BY <1>1 DEF KbdTypes, KbdHandlers
<1>5. key \in Keys
  <2>1. kbdIsr[c].sent.code \in Codes
    BY <1>4, CodesAreTyped
  <2> QED
    BY <2>1, KeysOfTables
<1> HIDE DEF key
<1>6. h \in KbdHandlers /\ h.at = "store" /\ h.key = key /\ h.sent = kbdIsr[c].sent
  BY <1>2, <1>4, <1>5 DEF KbdHandlers, NoHandler
<1>7. HoldsCode(h) /\ HoldsCode(kbdIsr[c]) /\ kbdIsr[c] # NoHandler
  BY <1>3, <1>6, NothingIsTyped DEF HoldsCode
<1>8. PICK hs \in [KbdCpus -> KbdHandlers] : /\ kbdIsr' = hs /\ hs[c] = h
                                          /\ \A d \in KbdCpus : d # c => hs[d] = kbdIsr[d]
  BY <1>1, <1>3, <1>6, HandlerSet
<1>9. \A d \in KbdCpus : hs[d].sent = kbdIsr[d].sent /\ (HoldsCode(hs[d]) <=> HoldsCode(kbdIsr[d]))
  BY <1>6, <1>7, <1>8
<1>10. KbdTypes'
  BY <1>1, <1>3, <1>8 DEF KbdTypes
<1>11. NoneIsLater'
  BY <1>1, <1>3, <1>8, <1>9 DEF NoneIsLater
<1>12. CodesAreOnce'
  BY <1>1, <1>3, <1>8, <1>9 DEF CodesAreOnce, OncePerPress, Holding, Fresh
<1>13. ASSUME overlapped' = FALSE
       PROVE  OneHandler'
  <2>1. OneHandler
    BY <1>1, <1>3, <1>13
  <2>2. \A d \in KbdCpus : d # c => hs[d] = NoHandler /\ hs[d].at = "idle"
    BY <1>7, <1>8, <2>1, NothingIsTyped DEF OneHandler, AloneIn
  <2>3. h.key = h.sent.means
    BY <1>3, <1>6, <2>1 DEF OneHandler, Meant, key
  <2>4. \A d \in KbdCpus : hs[d] # NoHandler => AloneIn(d)'
    BY <1>8, <2>2 DEF AloneIn
  <2>5. \A d \in KbdCpus : /\ hs[d].at # "decode"
                           /\ hs[d].at = "store" => hs[d].sent.code # PREFIX /\ hs[d].key = hs[d].sent.means
    BY <1>6, <1>8, <2>2, <2>3
  <2> QED
    BY <1>3, <1>8, <1>9, <2>1, <2>4, <2>5 DEF OneHandler, Holding, Later
<1> QED
  BY <1>10, <1>11, <1>12, <1>13 DEF KbdIInv

\* The key of a handler becomes the Keycode.
LEMMA KeyIsStored ==
    ASSUME KbdIInv, NEW c \in KbdCpus, IsrStore(c)
    PROVE  KbdIInv'
<1>1. KbdTypes /\ CodesAreOnce /\ NoneIsLater /\ (overlapped = FALSE => OneHandler)
  BY DEF KbdIInv
<1> DEFINE s == kbdIsr[c].sent
           key == kbdIsr[c].key
<1>2. PICK h : h = [kbdIsr[c] EXCEPT !.at = "signal"]
  OBVIOUS
<1>3. PICK k : k = IF s.break THEN Keycode ELSE [key |-> key, press |-> s]
  OBVIOUS
<1>4. /\ kbdIsr[c].at = "store" /\ kbdIsr' = [kbdIsr EXCEPT ![c] = h] /\ Keycode' = k
      /\ extendedCode' = FALSE
      /\ UNCHANGED <<outputBuffer, Signaled, reader, result, lastCode, overlapped, returned>>
  BY <1>1, <1>2, <1>3 DEF IsrStore, KbdTypes
<1>5. kbdIsr[c] \in KbdHandlers /\ s \in MaySend /\ key \in Keys
  BY <1>1 DEF KbdTypes, KbdHandlers
<1>6. h \in KbdHandlers /\ h.at = "signal" /\ h.sent = s
  BY <1>2, <1>5 DEF KbdHandlers, NoHandler
<1>7. ~HoldsCode(h) /\ HoldsCode(kbdIsr[c]) /\ kbdIsr[c] # NoHandler
  BY <1>4, <1>6, NothingIsTyped DEF HoldsCode
<1>8. PICK hs \in [KbdCpus -> KbdHandlers] : /\ kbdIsr' = hs /\ hs[c] = h
                                          /\ \A d \in KbdCpus : d # c => hs[d] = kbdIsr[d]
  BY <1>1, <1>4, <1>6, HandlerSet
<1>9. \A d \in KbdCpus : hs[d].sent = kbdIsr[d].sent /\ (HoldsCode(hs[d]) => HoldsCode(kbdIsr[d]) /\ d # c)
  BY <1>6, <1>7, <1>8
<1>10. /\ k = Keycode \/ (k.press = s /\ k.key = key)
       /\ k \in Presses
  BY <1>1, <1>3, <1>5 DEF Presses, KbdTypes
<1>11. Modifiers' \subseteq {"Shift", "Alt", "Ctrl"} /\ Locks' \subseteq {"NumLock", "ScrollLock", "CapsLock"}
  <2>1. Affected(ModifierOf, key) \subseteq {"Shift", "Alt", "Ctrl"}
    BY DEF Affected, ModifierOf
  <2>2. Affected(LockOf, key) \subseteq {"NumLock", "ScrollLock", "CapsLock"}
    BY DEF Affected, LockOf
  <2>3. \/ Modifiers' = Modifiers \ Affected(ModifierOf, key)
        \/ Modifiers' = Modifiers \cup Affected(ModifierOf, key)
    BY DEF IsrStore
  <2>4. \/ Locks' = Locks
        \/ Locks' = (Locks \ Affected(LockOf, key)) \cup (Affected(LockOf, key) \ Locks)
    BY DEF IsrStore
  <2>5. Modifiers \subseteq {"Shift", "Alt", "Ctrl"} /\ Locks \subseteq {"NumLock", "ScrollLock", "CapsLock"}
    BY <1>1 DEF KbdTypes
  <2>6. Modifiers' \subseteq {"Shift", "Alt", "Ctrl"}
    BY <2>1, <2>3, <2>5
  <2>7. Locks' \subseteq {"NumLock", "ScrollLock", "CapsLock"}
    BY <2>2, <2>4, <2>5
  <2> QED
    BY <2>6, <2>7
<1>12. KbdTypes'
  BY <1>1, <1>4, <1>8, <1>10, <1>11 DEF KbdTypes
<1>13. NoneIsLater'
  <2>1. k.press.id <= lastCode.id
    BY <1>1, <1>5, <1>10 DEF NoneIsLater
  <2> QED
    BY <1>1, <1>4, <1>8, <1>9, <2>1 DEF NoneIsLater
<1>14. Fresh(s.id)
  BY <1>1, <1>7 DEF CodesAreOnce
<1>15. CodesAreOnce'
  <2>1. \A n : Fresh(n) /\ n # s.id => Fresh(n)'
    BY <1>4, <1>10 DEF Fresh
  <2>2. outputBuffer # Nothing => Fresh(outputBuffer.id) /\ outputBuffer.id # s.id
    BY <1>1, <1>7 DEF CodesAreOnce
  <2>3. \A d \in KbdCpus : HoldsCode(hs[d]) =>
            Fresh(hs[d].sent.id) /\ hs[d].sent.id # s.id
    BY <1>1, <1>7, <1>9 DEF CodesAreOnce
  <2>4. k.key # KEY_UNKNOWN => k.press.id \notin returned
    BY <1>1, <1>10, <1>14 DEF CodesAreOnce, Fresh
  <2>5. \A d \in KbdCpus : HoldsCode(hs[d]) =>
            /\ outputBuffer # Nothing => hs[d].sent.id # outputBuffer.id
            /\ \A e \in KbdCpus : e # d /\ HoldsCode(hs[e]) => hs[e].sent.id # hs[d].sent.id
    BY <1>1, <1>9 DEF CodesAreOnce
  <2>6. \A d \in KbdCpus : HoldsCode(hs[d]) => Fresh(hs[d].sent.id)'
    BY <2>1, <2>3
  <2>7. outputBuffer # Nothing => lastCode = outputBuffer /\ Fresh(outputBuffer.id)'
    <3>1. PICK o : o = outputBuffer
      OBVIOUS
    <3>2. outputBuffer # Nothing => Fresh(o.id)'
      BY <2>1, <2>2, <3>1
    <3> QED
      BY <1>1, <1>4, <3>1, <3>2 DEF CodesAreOnce, Fresh
  <2> QED
    BY <1>1, <1>4, <1>8, <2>4, <2>5, <2>6, <2>7 DEF CodesAreOnce, OncePerPress, Holding
<1>16. ASSUME overlapped' = FALSE
       PROVE  OneHandler'
  <2>1. OneHandler
    BY <1>1, <1>4, <1>16
  <2>2. \A d \in KbdCpus : d # c => hs[d] = NoHandler
    BY <1>7, <1>8, <2>1 DEF OneHandler, AloneIn
  <2>3. \A d \in KbdCpus : hs[d].at # "decode" /\ hs[d].at # "store" /\ ~HoldsCode(hs[d])
    BY <1>6, <1>8, <2>2, NothingIsTyped DEF HoldsCode
  <2>4. \A d \in KbdCpus : hs[d] # NoHandler => AloneIn(d)'
    BY <1>8, <2>2 DEF AloneIn
  <2>5. s.code # PREFIX /\ key = s.means /\ Later(s.id)
    BY <1>4, <1>7, <2>1 DEF OneHandler
  <2>6. Prefixed(s) = FALSE
    BY <2>5 DEF Prefixed
  <2>7. IF outputBuffer = Nothing THEN FALSE = Prefixed(lastCode) ELSE Meant(outputBuffer, FALSE)
    BY <1>7, <2>1, <2>6 DEF OneHandler
  <2>8. k.key = k.press.means /\ (k.key # KEY_UNKNOWN => \A p \in returned : p < k.press.id)
    BY <1>10, <2>1, <2>5 DEF OneHandler, Later
  <2>9. outputBuffer # Nothing => Later(outputBuffer.id)'
    BY <1>4, <1>7, <1>10, <2>1 DEF OneHandler, Later
  <2> QED
    BY <1>4, <1>8, <2>1, <2>3, <2>4, <2>7, <2>8, <2>9 DEF OneHandler, Holding
<1> QED
  BY <1>12, <1>13, <1>15, <1>16 DEF KbdIInv

LEMMA KeyIsSignalled ==
    ASSUME KbdIInv, NEW c \in KbdCpus, IsrSignalKey(c)
    PROVE  KbdIInv'
<1>1. KbdTypes /\ CodesAreOnce /\ NoneIsLater /\ (overlapped = FALSE => OneHandler)
  BY DEF KbdIInv
<1>2. /\ kbdIsr[c].at = "signal" /\ kbdIsr' = [kbdIsr EXCEPT ![c] = NoHandler]
      /\ Signaled' = TRUE /\ reader' = IF reader = "blocked" THEN "read" ELSE reader
      /\ UNCHANGED <<outputBuffer, extendedCode, Keycode, Modifiers, Locks, result, lastCode,
                     overlapped, returned>>
  BY DEF IsrSignalKey
<1>3. PICK hs \in [KbdCpus -> KbdHandlers] : /\ kbdIsr' = hs /\ hs[c] = NoHandler
                                          /\ \A d \in KbdCpus : d # c => hs[d] = kbdIsr[d]
  BY <1>1, <1>2, HandlerSet, NothingIsTyped
<1>4. ~HoldsCode(hs[c]) /\ hs[c].sent.id = 0 /\ ~HoldsCode(kbdIsr[c]) /\ hs[c].at = "idle"
  BY <1>2, <1>3, NothingIsTyped DEF HoldsCode
<1>5. KbdTypes'
  BY <1>1, <1>2, <1>3 DEF KbdTypes
<1>6. NoneIsLater'
  <2>1. lastCode.id \in Nat
    BY <1>1, CodesAreTyped DEF KbdTypes
  <2>2. \A d \in KbdCpus : hs[d].sent.id <= lastCode.id
    BY <1>1, <1>3, <1>4, <2>1 DEF NoneIsLater
  <2> QED
    BY <1>1, <1>2, <1>3, <2>2 DEF NoneIsLater
<1>9. \A d \in KbdCpus : /\ HoldsCode(hs[d]) <=> HoldsCode(kbdIsr[d])
                         /\ hs[d].at = "idle" \/ hs[d] = kbdIsr[d]
                         /\ HoldsCode(hs[d]) => hs[d] = kbdIsr[d]
  BY <1>3, <1>4
<1>10. Holding' <=> Holding
  BY <1>2 DEF Holding
<1>7. CodesAreOnce'
  BY <1>1, <1>2, <1>3, <1>9, <1>10 DEF CodesAreOnce, OncePerPress, Fresh
<1>8. ASSUME overlapped' = FALSE
      PROVE  OneHandler'
  <2>1. OneHandler
    BY <1>1, <1>2, <1>8
  <2>2. \A d \in KbdCpus : hs[d] # NoHandler => AloneIn(d)'
    BY <1>3, <2>1 DEF OneHandler, AloneIn
  <2> QED
    BY <1>2, <1>3, <1>9, <1>10, <2>1, <2>2 DEF OneHandler, Later
<1> QED
  BY <1>5, <1>6, <1>7, <1>8 DEF KbdIInv

\* The reader moves on without a key of its own.
LEMMA ReaderWaits ==
    ASSUME KbdIInv, Getch \/ WaitKeyTest \/ WaitKeyInsert
    PROVE  KbdIInv'
<1>1. KbdTypes /\ CodesAreOnce /\ NoneIsLater /\ (overlapped = FALSE => OneHandler)
  BY DEF KbdIInv
<1>2. /\ UNCHANGED <<handlerVars, Keycode, Signaled, result, returned>>
      /\ reader' \in {"test", "read", "insert", "blocked"}
  BY DEF Getch, WaitKeyTest, WaitKeyInsert
<1>3. UNCHANGED <<outputBuffer, kbdIsr, extendedCode, Keycode, Modifiers, Locks, Signaled, result, lastCode,
                  overlapped, returned>>
  BY <1>2 DEF handlerVars
<1>4. ~Holding'
  BY <1>2 DEF Holding
<1>5. KbdTypes'
  BY <1>1, <1>2, <1>3 DEF KbdTypes
<1>6. CodesAreOnce' /\ NoneIsLater'
  BY <1>1, <1>3, <1>4 DEF CodesAreOnce, NoneIsLater, OncePerPress, Fresh
<1>7. overlapped' = FALSE => OneHandler'
  BY <1>1, <1>3, <1>4 DEF OneHandler, AloneIn, Later
<1> QED
  BY <1>5, <1>6, <1>7 DEF KbdIInv

LEMMA KeyIsRead ==
    ASSUME KbdIInv, ReadKeycode
    PROVE  KbdIInv'
<1>1. KbdTypes /\ CodesAreOnce /\ NoneIsLater /\ (overlapped = FALSE => OneHandler)
  BY DEF KbdIInv
<1>2. /\ reader' = "clear" /\ result' = Keycode
      /\ UNCHANGED <<outputBuffer, kbdIsr, extendedCode, Keycode, Modifiers, Locks, Signaled, lastCode,
                     overlapped, returned>>
  BY DEF ReadKeycode, handlerVars
<1>3. Holding' <=> Keycode.key # KEY_UNKNOWN
  BY <1>2 DEF Holding
<1>4. KbdTypes'
  BY <1>1, <1>2 DEF KbdTypes
<1>5. NoneIsLater'
  BY <1>1, <1>2 DEF NoneIsLater
<1>6. \A n : (Fresh(n) => Fresh(n)') /\ (Later(n) => Later(n)')
  BY <1>2 DEF Fresh, Later
<1>7. CodesAreOnce'
  BY <1>1, <1>2, <1>3 DEF CodesAreOnce, OncePerPress, Fresh
<1>8. ASSUME overlapped' = FALSE
      PROVE  OneHandler'
  <2>1. OneHandler
    BY <1>1, <1>2, <1>8
  <2> QED
    BY <1>2, <1>3, <2>1 DEF OneHandler, AloneIn, Later
<1> QED
  BY <1>4, <1>5, <1>7, <1>8 DEF KbdIInv

\* ... clears the signal, and then forgets the Keycode and returns.
LEMMA KeyIsDiscarded ==
    ASSUME KbdIInv, KeyboardDiscardLastKey
    PROVE  KbdIInv'
<1>1. KbdTypes /\ CodesAreOnce /\ NoneIsLater /\ (overlapped = FALSE => OneHandler)
  BY DEF KbdIInv
<1>2. CASE reader = "clear" /\ reader' = "forget" /\ Signaled' = FALSE
           /\ UNCHANGED <<handlerVars, Keycode, result, returned>>
  <2>1. UNCHANGED <<outputBuffer, kbdIsr, extendedCode, Keycode, Modifiers, Locks, result, lastCode,
                    overlapped, returned>>
    BY <1>2 DEF handlerVars
  <2>2. Holding' <=> Holding
    BY <1>2 DEF Holding
  <2>3. KbdTypes'
    BY <1>1, <1>2, <2>1 DEF KbdTypes
  <2>4. CodesAreOnce' /\ NoneIsLater'
    BY <1>1, <2>1, <2>2 DEF CodesAreOnce, NoneIsLater, OncePerPress, Fresh
  <2>5. overlapped' = FALSE => OneHandler'
    BY <1>1, <2>1, <2>2 DEF OneHandler, AloneIn, Later
  <2> QED
    BY <2>3, <2>4, <2>5 DEF KbdIInv
<1>3. CASE reader = "forget" /\ Keycode' = NoKey /\ LoopEnd /\ UNCHANGED <<handlerVars, Signaled, result>>
  <2> DEFINE holding == result.key # KEY_UNKNOWN
             m == result.press.id
  <2>1. /\ reader' \in {"test", "idle"}
        /\ returned' = IF holding THEN returned \cup {m} ELSE returned
        /\ UNCHANGED <<outputBuffer, kbdIsr, extendedCode, Modifiers, Locks, Signaled, result, lastCode,
                       overlapped>>
    BY <1>3 DEF LoopEnd, handlerVars
  <2>2. ~Holding' /\ (holding => Holding)
    BY <1>3, <2>1 DEF Holding
  <2>3. m \in Nat /\ lastCode.id \in Nat
    BY <1>1, CodesAreTyped DEF KbdTypes, Presses
  <2>4. KbdTypes'
    BY <1>1, <1>3, <2>1, <2>3, NothingIsTyped DEF KbdTypes
  <2>5. NoneIsLater'
    BY <1>1, <1>3, <2>1, <2>3, NothingIsTyped DEF NoneIsLater
  <2>6. \A n \in Nat : (Fresh(n) => Fresh(n)') /\ (Later(n) => Later(n)')
    BY <1>3, <2>1, <2>3, NothingIsTyped DEF Fresh, Later
  <2>7. /\ outputBuffer.id \in Nat
        /\ \A d \in KbdCpus : kbdIsr[d].sent.id \in Nat
    BY <1>1, CodesAreTyped DEF KbdTypes, KbdHandlers
  <2>8. /\ Fresh(outputBuffer.id) => Fresh(outputBuffer.id)'
        /\ \A d \in KbdCpus : Fresh(kbdIsr[d].sent.id) => Fresh(kbdIsr[d].sent.id)'
    BY <2>1, <2>6, <2>7 DEF Fresh
  <2>9. /\ Later(outputBuffer.id) => Later(outputBuffer.id)'
        /\ \A d \in KbdCpus : Later(kbdIsr[d].sent.id) => Later(kbdIsr[d].sent.id)'
    BY <2>1, <2>6, <2>7 DEF Later
  <2>10. CodesAreOnce'
    BY <1>1, <1>3, <2>1, <2>2, <2>8, NothingIsTyped DEF CodesAreOnce, OncePerPress
  <2>11. ASSUME overlapped' = FALSE
         PROVE  OneHandler'
    <3>1. OneHandler
      BY <1>1, <2>1, <2>11
    <3> QED
      BY <1>3, <2>1, <2>2, <2>9, <3>1, NothingIsTyped DEF OneHandler, AloneIn
  <2> QED
    BY <2>4, <2>5, <2>10, <2>11 DEF KbdIInv
<1> QED
  BY <1>2, <1>3 DEF KeyboardDiscardLastKey

LEMMA KbdStep == KbdIInv /\ [KbdNext]_kbdVars => KbdIInv'
<1> SUFFICES ASSUME KbdIInv, [KbdNext]_kbdVars
             PROVE  KbdIInv'
  OBVIOUS
<1>1. ASSUME NEW code \in Codes \cup {PREFIX}, NEW break \in BOOLEAN, SendCode(code, break)
      PROVE  KbdIInv'
  BY <1>1, NewCode
<1>2. ASSUME NEW c \in KbdCpus, KbdIsrStep(c)
      PROVE  KbdIInv'
  BY <1>2, CodeIsRead, PrefixIsDecoded, CodeIsDecoded, KeyIsStored, KeyIsSignalled DEF KbdIsrStep
<1>3. CASE ReaderStep
  BY <1>3, ReaderWaits, KeyIsRead, KeyIsDiscarded DEF ReaderStep
<1>4. CASE UNCHANGED kbdVars
  BY <1>4 DEF KbdIInv, KbdTypes, CodesAreOnce, NoneIsLater, OneHandler, kbdVars, Fresh, Later, AloneIn,
              OncePerPress, Holding
<1> QED
  BY <1>1, <1>2, <1>3, <1>4 DEF KbdNext

LEMMA KbdIInvGives == KbdIInv => KeyboardInv
<1> SUFFICES ASSUME KbdIInv
             PROVE  KeyboardInv
  OBVIOUS
<1>1. KbdTypes /\ CodesAreOnce /\ (overlapped = FALSE => OneHandler)
  BY DEF KbdIInv
<1>2. KeyboardTypeOK
  BY <1>1 DEF KeyboardTypeOK, KbdTypes, MaySend, KbdHandlers
<1>3. OncePerPress
  BY <1>1 DEF CodesAreOnce
<1>4. KeysInOrder
  <2>1. overlapped \in BOOLEAN
    BY <1>1 DEF KbdTypes
  <2>2. ~overlapped => OneHandler
    BY <1>1, <2>1
  <2> QED
    BY <2>2 DEF KeysInOrder, OneHandler
<1> QED
  BY <1>2, <1>3, <1>4 DEF KeyboardInv

\* The inductive invariant of the keyboard.
THEOREM KeyboardInvariantHolds == KbdSpec => []KbdIInv
  BY KbdInitial, KbdStep, PTL DEF KbdSpec

----------------------------------------------------------------------------
\* The line editor: insertion, deletion and greatest elements

LEMMA InsertAtFacts ==
    ASSUME NEW S, NEW s \in Seq(S), NEW e \in S, NEW i \in 1 .. Len(s) + 1
    PROVE  /\ InsertAt(s, i, e) \in Seq(S)
           /\ Len(InsertAt(s, i, e)) = Len(s) + 1
           /\ \A j \in 1 .. Len(s) + 1 :
                 InsertAt(s, i, e)[j] = IF j < i THEN s[j] ELSE IF j = i THEN e ELSE s[j - 1]
<1> DEFINE before == SubSeq(s, 1, i - 1)
           after == SubSeq(s, i, Len(s))
<1>1. before \in Seq(S) /\ Len(before) = i - 1 /\ \A j \in 1 .. i - 1 : before[j] = s[j]
  OBVIOUS
<1>2. after \in Seq(S) /\ Len(after) = Len(s) - i + 1
      /\ \A j \in 1 .. Len(s) - i + 1 : after[j] = s[i + j - 1]
  OBVIOUS
<1> HIDE DEF before, after
<1>3. before \o <<e>> \in Seq(S) /\ Len(before \o <<e>>) = i
      /\ \A j \in 1 .. i : (before \o <<e>>)[j] = IF j < i THEN s[j] ELSE e
  <2>1. <<e>> \in Seq(S) /\ Len(<<e>>) = 1 /\ <<e>>[1] = e
    OBVIOUS
  <2>2. before \o <<e>> \in Seq(S) /\ Len(before \o <<e>>) = i
    BY <1>1, <2>1
  <2>3. ASSUME NEW j \in 1 .. i
        PROVE  (before \o <<e>>)[j] = IF j < i THEN s[j] ELSE e
    <3>1. (before \o <<e>>)[j] = IF j <= Len(before) THEN before[j] ELSE <<e>>[j - Len(before)]
      BY <1>1, <2>1
    <3>2. j \in Int /\ i \in Int /\ (j = i \/ j \in 1 .. i - 1)
      OBVIOUS
    <3> QED
      BY <1>1, <2>1, <3>1, <3>2
  <2> QED
    BY <2>2, <2>3
<1>4. InsertAt(s, i, e) = (before \o <<e>>) \o after
  BY DEF InsertAt, before, after
<1> DEFINE front == before \o <<e>>
<1> HIDE DEF front
<1>5. front \in Seq(S) /\ Len(front) = i /\ \A j \in 1 .. i : front[j] = IF j < i THEN s[j] ELSE e
  BY <1>3 DEF front
<1>6. front \o after \in Seq(S) /\ Len(front \o after) = Len(s) + 1
  BY <1>2, <1>5
<1>7. ASSUME NEW j \in 1 .. Len(s) + 1
      PROVE  (front \o after)[j] = IF j < i THEN s[j] ELSE IF j = i THEN e ELSE s[j - 1]
  <2>0. j <= i \/ j > i
    OBVIOUS
  <2>1. CASE j <= i
    BY <1>2, <1>5, <2>1
  <2>2. CASE j > i
    <3>1. (front \o after)[j] = after[j - i]
      BY <1>2, <1>5, <2>2
    <3>2. j - i \in 1 .. Len(s) - i + 1 /\ i + (j - i) - 1 = j - 1
      BY <2>2
    <3>3. after[j - i] = s[i + (j - i) - 1]
      BY <1>2, <3>2
    <3> QED
      BY <2>2, <3>1, <3>2, <3>3
  <2> QED
    BY <2>0, <2>1, <2>2
<1> QED
  BY <1>4, <1>6, <1>7 DEF front

Inserted(s, i, e, t) ==
    /\ Len(t) = Len(s) + 1
    /\ \A j \in 1 .. Len(s) + 1 : t[j] = IF j < i THEN s[j] ELSE IF j = i THEN e ELSE s[j - 1]

LEMMA InsertAtIs ==
    ASSUME NEW S, NEW s \in Seq(S), NEW e \in S, NEW i \in 1 .. Len(s) + 1
    PROVE  InsertAt(s, i, e) \in Seq(S) /\ Inserted(s, i, e, InsertAt(s, i, e))
BY InsertAtFacts DEF Inserted

LEMMA RemoveAtFacts ==
    ASSUME NEW S, NEW s \in Seq(S), NEW i \in 1 .. Len(s)
    PROVE  /\ RemoveAt(s, i) \in Seq(S)
           /\ Len(RemoveAt(s, i)) = Len(s) - 1
           /\ \A j \in 1 .. Len(s) - 1 : RemoveAt(s, i)[j] = IF j < i THEN s[j] ELSE s[j + 1]
<1> DEFINE before == SubSeq(s, 1, i - 1)
           after == SubSeq(s, i + 1, Len(s))
<1>1. before \in Seq(S) /\ Len(before) = i - 1 /\ \A j \in 1 .. i - 1 : before[j] = s[j]
  OBVIOUS
<1>2. after \in Seq(S) /\ Len(after) = Len(s) - i
      /\ \A j \in 1 .. Len(s) - i : after[j] = s[i + j]
  OBVIOUS
<1> HIDE DEF before, after
<1>3. RemoveAt(s, i) = before \o after
  BY DEF RemoveAt, before, after
<1>4. before \o after \in Seq(S) /\ Len(before \o after) = Len(s) - 1
  BY <1>1, <1>2
<1>5. ASSUME NEW j \in 1 .. Len(s) - 1
      PROVE  (before \o after)[j] = IF j < i THEN s[j] ELSE s[j + 1]
  <2>0. j < i \/ j >= i
    OBVIOUS
  <2>1. CASE j < i
    BY <1>1, <1>2, <2>1
  <2>2. CASE j >= i
    <3>1. (before \o after)[j] = after[j - (i - 1)]
      BY <1>1, <1>2, <2>2
    <3>2. j - (i - 1) \in 1 .. Len(s) - i /\ i + (j - (i - 1)) = j + 1
      BY <2>2
    <3>3. after[j - (i - 1)] = s[i + (j - (i - 1))]
      BY <1>2, <3>2
    <3> QED
      BY <2>2, <3>1, <3>2, <3>3
  <2> QED
    BY <2>0, <2>1, <2>2
<1> QED
  BY <1>3, <1>4, <1>5

LEMMA GreatestOf ==
    ASSUME NEW n \in Nat, NEW T, T \subseteq 1 .. n, T # {}
    PROVE  \E x \in T : \A y \in T : y <= x
<1> DEFINE Below == {n - x : x \in T}
<1>1. Below \subseteq Nat /\ Below # {}
  <2>1. \A x \in T : n - x \in Nat
    OBVIOUS
  <2> QED
    BY <2>1
<1>2. PICK d \in Below : \A y \in Below : d <= y
  <2> HIDE DEF Below
  <2> QED
    BY <1>1, LeastOf
<1>3. PICK x \in T : d = n - x
  BY <1>2
<1>4. \A y \in T : y <= x
  <2> TAKE y \in T
  <2>1. n - y \in Below
    OBVIOUS
  <2>2. n - x <= n - y
    BY <1>2, <1>3, <2>1
  <2> QED
    BY <2>2
<1> QED
  BY <1>4

----------------------------------------------------------------------------
\* Strings

Buffers == [0 .. CHARS_PER_LINE - 1 -> Chars \cup {NUL}]
HistoryEntries == {s \in Seq(Chars) : Len(s) <= maxBufferSize - 1}

LEMMA LineConstants ==
    /\ CHARS_PER_LINE \in Nat /\ maxBufferSize \in Nat /\ CMD_SHELL_SIZE \in Nat
    /\ maxBufferSize > 2 /\ maxBufferSize + 2 <= CHARS_PER_LINE
    /\ CMD_HISTORY_MAX_SIZE \in Nat \ {0} /\ NUL \notin Chars
  BY LineAssumption DEF LineAssumption, maxBufferSize

LEMMA StrlenIs ==
    ASSUME NEW buffer, NEW max \in Nat
    PROVE  /\ EndsAt(buffer, max, strlen_s(buffer, max))
           /\ \A n : EndsAt(buffer, max, n) => strlen_s(buffer, max) = n
<1> DEFINE T == {k \in 0 .. max : k = max \/ buffer[k] = NUL}
<1>1. T \subseteq Nat /\ max \in T
  OBVIOUS
<1>2. PICK m \in T : \A y \in T : m <= y
  <2> HIDE DEF T
  <2> QED
    BY <1>1, LeastOf
<1>3. m \in 0 .. max /\ (m = max \/ buffer[m] = NUL)
  BY <1>2
<1>4. ASSUME NEW k \in 0 .. m - 1
      PROVE  buffer[k] # NUL
  <2>1. k \in 0 .. max /\ ~(m <= k)
    BY <1>3
  <2>2. k \notin T
    BY <1>2, <2>1
  <2> QED
    BY <2>1, <2>2
<1>5. EndsAt(buffer, max, m)
  BY <1>3, <1>4 DEF EndsAt
<1>6. \E n \in 0 .. max : EndsAt(buffer, max, n)
  BY <1>3, <1>5
<1>7. EndsAt(buffer, max, strlen_s(buffer, max))
  BY <1>6 DEF strlen_s
<1>8. ASSUME NEW n, NEW p, EndsAt(buffer, max, n), EndsAt(buffer, max, p)
      PROVE  n = p
  <2>1. n \in 0 .. max /\ p \in 0 .. max
    BY <1>8 DEF EndsAt
  <2>2. ~(n < p)
    <3>1. SUFFICES ASSUME n < p PROVE FALSE
      OBVIOUS
    <3>2. n \in 0 .. p - 1 /\ n # max
      BY <2>1, <3>1
    <3> QED
      BY <1>8, <3>2 DEF EndsAt
  <2>3. ~(p < n)
    <3>1. SUFFICES ASSUME p < n PROVE FALSE
      OBVIOUS
    <3>2. p \in 0 .. n - 1 /\ p # max
      BY <2>1, <3>1
    <3> QED
      BY <1>8, <3>2 DEF EndsAt
  <2> QED
    BY <2>1, <2>2, <2>3
<1> QED
  BY <1>7, <1>8

\* A string is in a buffer.
Denotes(buffer, s) ==
    /\ \A k \in 1 .. Len(s) : buffer[k - 1] = s[k]
    /\ buffer[Len(s)] = NUL

LEMMA StrlenOf ==
    ASSUME NEW buffer, NEW s \in Seq(Chars), Denotes(buffer, s), NEW max \in Nat, Len(s) <= max
    PROVE  strlen_s(buffer, max) = Len(s)
<1>1. PICK n \in Nat : n = Len(s)
  OBVIOUS
<1>2. ASSUME NEW k \in 0 .. n - 1
      PROVE  buffer[k] # NUL
  <2>1. k + 1 \in 1 .. n /\ (k + 1) - 1 = k
    BY <1>1
  <2>2. buffer[(k + 1) - 1] = s[k + 1]
    BY <1>1, <2>1 DEF Denotes
  <2>3. s[k + 1] \in Chars
    BY <1>1, <2>1
  <2> QED
    BY <2>1, <2>2, <2>3, LineConstants
<1>3. EndsAt(buffer, max, n)
  BY <1>1, <1>2 DEF EndsAt, Denotes
<1> QED
  BY <1>1, <1>3, StrlenIs

LEMMA StringIs ==
    ASSUME NEW buffer \in Buffers
    PROVE  /\ StringIn(buffer) \in Seq(Chars)
           /\ Len(StringIn(buffer)) = strlen_s(buffer, CHARS_PER_LINE)
           /\ \A k \in 1 .. strlen_s(buffer, CHARS_PER_LINE) : StringIn(buffer)[k] = buffer[k - 1]
<1>1. PICK n : n = strlen_s(buffer, CHARS_PER_LINE)
  OBVIOUS
<1>2. n \in 0 .. CHARS_PER_LINE /\ n \in Nat /\ \A k \in 0 .. n - 1 : buffer[k] # NUL
  BY <1>1, LineConstants, StrlenIs DEF EndsAt
<1>3. \A k \in 1 .. n : buffer[k - 1] \in Chars
  <2> TAKE k \in 1 .. n
  <2>1. k - 1 \in 0 .. n - 1 /\ k - 1 \in 0 .. CHARS_PER_LINE - 1
    BY <1>2, LineConstants
  <2> QED
    BY <1>2, <2>1 DEF Buffers
<1>4. StringIn(buffer) = [k \in 1 .. n |-> buffer[k - 1]]
  BY <1>1 DEF StringIn
<1> QED
  BY <1>1, <1>2, <1>3, <1>4

LEMMA StringOf ==
    ASSUME NEW buffer \in Buffers, NEW s \in Seq(Chars), Denotes(buffer, s), Len(s) <= CHARS_PER_LINE
    PROVE  StringIn(buffer) = s
<1>1. strlen_s(buffer, CHARS_PER_LINE) = Len(s)
  BY LineConstants, StrlenOf
<1>2. PICK t \in Seq(Chars) : t = StringIn(buffer)
  BY StringIs
<1>3. Len(t) = Len(s) /\ \A k \in 1 .. Len(s) : t[k] = buffer[k - 1]
  BY <1>1, <1>2, StringIs
<1>4. \A k \in 1 .. Len(t) : t[k] = s[k]
  BY <1>3 DEF Denotes
<1>5. t = s
  BY <1>3, <1>4, SeqEqual
<1> QED
  BY <1>2, <1>5

LEMMA PrefixIs ==
    ASSUME NEW s \in Seq(Chars), NEW n \in Nat
    PROVE  /\ Prefix(s, n) \in Seq(Chars) /\ Len(Prefix(s, n)) <= n /\ Len(Prefix(s, n)) <= Len(s)
           /\ Len(s) <= n => Prefix(s, n) = s
<1>1. CASE Len(s) < n
  BY <1>1 DEF Prefix
<1>2. CASE ~(Len(s) < n)
  <2>1. n <= Len(s)
    BY <1>2
  <2>2. SubSeq(s, 1, n) \in Seq(Chars) /\ Len(SubSeq(s, 1, n)) = n /\ \A k \in 1 .. n : SubSeq(s, 1, n)[k] = s[k]
    BY <2>1
  <2>3. Len(s) <= n => SubSeq(s, 1, n) = s
    BY <2>1, <2>2, SeqEqual
  <2> QED
    BY <1>2, <2>1, <2>2, <2>3 DEF Prefix
<1> QED
  BY <1>1, <1>2

LEMMA StrncpyIs ==
    ASSUME NEW buffer \in Buffers, NEW s \in Seq(Chars), NEW n \in Nat, Len(s) <= n
    PROVE  /\ strncpy(buffer, s, n) \in Buffers
           /\ \A k \in 0 .. CHARS_PER_LINE - 1 : k > Len(s) => strncpy(buffer, s, n)[k] = buffer[k]
           /\ Len(s) < CHARS_PER_LINE => Denotes(strncpy(buffer, s, n), s)
<1>1. Prefix(s, n) = s
  BY PrefixIs
<1>2. PICK m \in Nat : m = Len(s)
  OBVIOUS
<1>3. DOMAIN buffer = 0 .. CHARS_PER_LINE - 1
  BY DEF Buffers
<1>4. strncpy(buffer, s, n) = [k \in 0 .. CHARS_PER_LINE - 1 |-> IF k < m THEN s[k + 1]
                                                              ELSE IF k = m THEN NUL ELSE buffer[k]]
  BY <1>1, <1>2, <1>3 DEF strncpy
<1>5. PICK b : b = strncpy(buffer, s, n)
  OBVIOUS
<1>6. \A k \in 0 .. CHARS_PER_LINE - 1 : b[k] = IF k < m THEN s[k + 1] ELSE IF k = m THEN NUL ELSE buffer[k]
  BY <1>4, <1>5
<1>7. b \in Buffers
  <2>1. \A k \in 0 .. CHARS_PER_LINE - 1 : k < m => s[k + 1] \in Chars
    BY <1>2
  <2> QED
    BY <1>4, <1>5, <2>1 DEF Buffers
<1>8. \A k \in 0 .. CHARS_PER_LINE - 1 : k > m => b[k] = buffer[k]
  BY <1>2, <1>6
<1>9. ASSUME m < CHARS_PER_LINE
      PROVE  Denotes(b, s)
  <2>1. ASSUME NEW k \in 1 .. m
        PROVE  b[k - 1] = s[k]
    <3>1. k - 1 \in 0 .. CHARS_PER_LINE - 1 /\ k - 1 < m /\ (k - 1) + 1 = k
      BY <1>2, <1>9, LineConstants
    <3>2. b[k - 1] = s[(k - 1) + 1]
      BY <1>6, <3>1
    <3> QED
      BY <3>1, <3>2
  <2>2. b[m] = NUL
    BY <1>2, <1>6, <1>9, LineConstants
  <2> QED
    BY <1>2, <2>1, <2>2 DEF Denotes
<1> QED
  BY <1>2, <1>5, <1>7, <1>8, <1>9

LEMMA TrimmedIs ==
    ASSUME NEW s \in Seq(Chars)
    PROVE  strtrim(s) \in Seq(Chars) /\ Len(strtrim(s)) <= Len(s)
<1> DEFINE solid == {k \in DOMAIN s : s[k] # Space}
<1>1. CASE solid = {}
  <2>1. strtrim(s) = <<>>
    BY <1>1 DEF strtrim
  <2> QED
    BY <2>1
<1>2. CASE solid # {}
  <2> DEFINE a == CHOOSE k \in solid : \A j \in solid : k <= j
             b == CHOOSE k \in solid : \A j \in solid : j <= k
  <2>1. strtrim(s) = SubSeq(s, a, b)
    BY <1>2 DEF strtrim
  <2>2. solid \subseteq 1 .. Len(s) /\ solid \subseteq Nat /\ Len(s) \in Nat
    OBVIOUS
  <2> HIDE DEF solid
  <2>3. \E k \in solid : \A j \in solid : k <= j
    BY <1>2, <2>2, LeastOf
  <2>4. \E k \in solid : \A j \in solid : j <= k
    BY <1>2, <2>2, GreatestOf
  <2>5. a \in 1 .. Len(s) /\ b \in 1 .. Len(s)
    BY <2>2, <2>3, <2>4
  <2> HIDE DEF a, b
  <2>6. SubSeq(s, a, b) \in Seq(Chars) /\ Len(SubSeq(s, a, b)) <= Len(s)
    BY <2>5
  <2> QED
    BY <2>1, <2>6
<1> QED
  BY <1>1, <1>2

----------------------------------------------------------------------------
\* The ring of the history

Slot(first, k) == (first + k - 1) % CMD_HISTORY_MAX_SIZE

LEMMA SlotFacts ==
    ASSUME NEW first \in Slots, NEW k \in 1 .. CMD_HISTORY_MAX_SIZE
    PROVE  /\ Slot(first, k) \in Slots
           /\ \A j \in 1 .. CMD_HISTORY_MAX_SIZE : Slot(first, j) = Slot(first, k) => j = k
           /\ Slot(first, 1) = first
           /\ k > 1 => (Slot(first, k) + CMD_HISTORY_MAX_SIZE - 1) % CMD_HISTORY_MAX_SIZE = Slot(first, k - 1)
           /\ k < CMD_HISTORY_MAX_SIZE => /\ (Slot(first, k) + 1) % CMD_HISTORY_MAX_SIZE = Slot(first, k + 1)
                                          /\ Slot((first + 1) % CMD_HISTORY_MAX_SIZE, k) = Slot(first, k + 1)
           /\ (first + 1) % CMD_HISTORY_MAX_SIZE \in Slots
<1> DEFINE h == CMD_HISTORY_MAX_SIZE
<1>1. h \in Nat \ {0}
  BY LineConstants
<1> USE <1>1
<1>2. first \in Nat /\ first < h /\ k \in Nat /\ k >= 1 /\ k <= h
  BY <1>1 DEF Slots
<1>4. \A j \in 1 .. h : Slot(first, j) = IF first + j - 1 < h THEN first + j - 1 ELSE first + j - 1 - h
  <2> TAKE j \in 1 .. h
  <2>1. first + j - 1 \in Nat /\ first + j - 1 < 2 * h
    BY <1>2
  <2>2. (first + j - 1) % h = IF first + j - 1 < h THEN first + j - 1 ELSE first + j - 1 - h
    BY <1>1, <1>2, <2>1
  <2> QED
    BY <2>2 DEF Slot
<1>5. PICK r : r = (first + 1) % h
  OBVIOUS
<1>6. r = IF first + 1 < h THEN first + 1 ELSE 0
  <2>1. (first + 1 \in Nat /\ first + 1 < 2 * h) \/ h = 1
    BY <1>2
  <2>2. h = 1 => first = 0 /\ first + 1 = 1 /\ 1 < 2 * h
    BY <1>2
  <2>3. first + 1 \in Nat /\ first + 1 < 2 * h /\ first + 1 <= h
    BY <1>2, <2>1, <2>2
  <2>4. (first + 1) % h = IF first + 1 < h THEN first + 1 ELSE first + 1 - h
    BY <1>1, <1>2, <2>3
  <2> QED
    BY <1>2, <1>5, <2>3, <2>4
<1>7. r \in 0 .. h - 1
  BY <1>2, <1>6
<1>8. PICK s : s = Slot(first, k)
  OBVIOUS
<1>9. s = IF first + k - 1 < h THEN first + k - 1 ELSE first + k - 1 - h
  BY <1>1, <1>2, <1>4, <1>8
<1>10. s \in 0 .. h - 1
  BY <1>2, <1>9
<1>11. Slot(first, k) \in Slots
  BY <1>1, <1>8, <1>10 DEF Slots
<1>12. ASSUME NEW j \in 1 .. h, Slot(first, j) = Slot(first, k)
       PROVE  j = k
  <2>1. s = IF first + j - 1 < h THEN first + j - 1 ELSE first + j - 1 - h
    BY <1>4, <1>8, <1>12
  <2> QED
    BY <1>2, <1>9, <2>1
<1>13. Slot(first, 1) = first
  <2>1. Slot(first, 1) = IF first + 1 - 1 < h THEN first + 1 - 1 ELSE first + 1 - 1 - h
    BY <1>2, <1>4
  <2> QED
    BY <1>2, <2>1
<1>14. ASSUME k > 1
       PROVE  (s + h - 1) % h = Slot(first, k - 1)
  <2>1. Slot(first, k - 1) = IF first + (k - 1) - 1 < h THEN first + (k - 1) - 1 ELSE first + (k - 1) - 1 - h
    <3>1. k - 1 \in 1 .. h
      BY <1>2, <1>14
    <3> QED
      BY <1>4, <3>1
  <2>2. s + h - 1 \in Nat /\ s + h - 1 < 2 * h
    BY <1>10
  <2>3. (s + h - 1) % h = IF s + h - 1 < h THEN s + h - 1 ELSE s + h - 1 - h
    BY <1>1, <1>2, <1>10, <2>2
  <2> QED
    BY <1>2, <1>9, <1>10, <1>14, <2>1, <2>3
<1>15. ASSUME k < h
       PROVE  (s + 1) % h = Slot(first, k + 1) /\ Slot(r, k) = Slot(first, k + 1)
  <2>1. Slot(first, k + 1) = IF first + (k + 1) - 1 < h THEN first + (k + 1) - 1 ELSE first + (k + 1) - 1 - h
    <3>1. k + 1 \in 1 .. h
      BY <1>2, <1>15
    <3> QED
      BY <1>4, <3>1
  <2>2. s + 1 \in Nat /\ s + 1 < 2 * h
    BY <1>2, <1>10, <1>15
  <2>3. (s + 1) % h = IF s + 1 < h THEN s + 1 ELSE s + 1 - h
    BY <1>1, <1>10, <2>2
  <2>4. r + k - 1 \in Nat /\ r + k - 1 < 2 * h
    BY <1>2, <1>7
  <2>10. (r + k - 1) % h = IF r + k - 1 < h THEN r + k - 1 ELSE r + k - 1 - h
    BY <1>1, <1>2, <1>7, <2>4
  <2>5. Slot(r, k) = IF r + k - 1 < h THEN r + k - 1 ELSE r + k - 1 - h
    BY <2>10 DEF Slot
  <2>6. (s + 1) % h = Slot(first, k + 1)
    BY <1>2, <1>9, <1>10, <1>15, <2>1, <2>3
  <2>7. Slot(r, k) = Slot(first, k + 1)
    BY <1>2, <1>6, <1>7, <1>15, <2>1, <2>5
  <2> QED
    BY <2>6, <2>7
<1>16. r \in Slots
  BY <1>1, <1>7 DEF Slots
<1> QED
  BY <1>1, <1>5, <1>8, <1>11, <1>12, <1>13, <1>14, <1>15, <1>16

----------------------------------------------------------------------------
\* The inductive invariant

LineTypes ==
    /\ Buffer \in Buffers
    /\ m_CmdHistory \in [Slots -> HistoryEntries] /\ commands \in Seq(HistoryEntries)
    /\ m_CmdHistorySize \in 0 .. CMD_HISTORY_MAX_SIZE /\ m_CmdHistoryFirstIndex \in Slots
    /\ cmdHistoryIndex \in Slots \cup {NoIndex}
    /\ editing \in BOOLEAN /\ fits \in BOOLEAN

\* A character that goes over the end of a full line pushes one byte behind it, and no more.
BufferEnds == \A k \in maxBufferSize + 1 .. CHARS_PER_LINE - 1 : Buffer[k] = NUL

CursorIsInside ==
    /\ cursor \in 0 .. maxBufferSize /\ \A k \in 0 .. cursor - 1 : Buffer[k] # NUL
    /\ Column = CMD_SHELL_SIZE + cursor

TextIsShown == text \in HistoryEntries /\ Denotes(Buffer, text)

LineIInv == /\ LineTypes /\ BufferEnds /\ HistoryIsExact
            /\ editing => CursorIsInside
            /\ editing /\ fits => TextIsShown

LEMMA LineInitial == LineInit => LineIInv
<1> SUFFICES ASSUME LineInit
             PROVE  LineIInv
  OBVIOUS
<1>1. <<>> \in HistoryEntries /\ <<>> \in Seq(HistoryEntries)
  BY LineConstants DEF HistoryEntries
<1>2. LineTypes
  <2>1. Buffer \in Buffers
    BY DEF LineInit, Buffers
  <2>2. 0 \in Slots /\ 0 \in 0 .. CMD_HISTORY_MAX_SIZE
    BY LineConstants DEF Slots
  <2> QED
    BY <1>1, <2>1, <2>2 DEF LineInit, LineTypes
<1>3. BufferEnds
  <2>1. \A k \in maxBufferSize + 1 .. CHARS_PER_LINE - 1 : k \in 0 .. CHARS_PER_LINE - 1
    BY LineConstants
  <2> QED
    BY <2>1 DEF LineInit, BufferEnds
<1>4. HistoryIsExact
  BY DEF LineInit, HistoryIsExact
<1> QED
  BY <1>2, <1>3, <1>4 DEF LineInit, LineIInv

\* The history stays as it is.
LEMMA HistoryKept ==
    ASSUME HistoryIsExact, UNCHANGED cmdVars,
           editing' = TRUE /\ cmdHistoryIndex' # NoIndex =>
               \E k \in 1 .. m_CmdHistorySize : cmdHistoryIndex' = Slot(m_CmdHistoryFirstIndex, k)
    PROVE  HistoryIsExact'
BY DEF HistoryIsExact, cmdVars, Slot

LEMMA LineBegins ==
    ASSUME LineIInv, gets_s
    PROVE  LineIInv'
<1>1. LineTypes /\ HistoryIsExact
  BY DEF LineIInv
<1>2. Buffer' = [k \in 0 .. CHARS_PER_LINE - 1 |-> NUL]
  BY <1>1 DEF gets_s, LineTypes, Buffers
<1>3. <<>> \in HistoryEntries /\ Len(<<>>) = 0
  BY LineConstants DEF HistoryEntries
<1>4. LineTypes'
  <2>1. Buffer' \in Buffers
    BY <1>2 DEF Buffers
  <2> QED
    BY <1>1, <2>1 DEF gets_s, LineTypes, cmdVars, SetText
<1>5. BufferEnds'
  <2>1. \A k \in maxBufferSize + 1 .. CHARS_PER_LINE - 1 : k \in 0 .. CHARS_PER_LINE - 1
    BY LineConstants
  <2> QED
    BY <1>2, <2>1 DEF BufferEnds
<1>6. HistoryIsExact'
  BY <1>1, HistoryKept DEF gets_s
<1>7. CursorIsInside'
  BY LineConstants DEF gets_s, CursorIsInside
<1>8. TextIsShown'
  <2>1. text' = <<>>
    BY DEF gets_s, SetText
  <2>2. Buffer'[0] = NUL
    BY <1>2, LineConstants
  <2>3. Denotes(Buffer, text)'
    BY <1>3, <2>1, <2>2 DEF Denotes
  <2> QED
    BY <1>3, <2>1, <2>3 DEF TextIsShown
<1> QED
  BY <1>4, <1>5, <1>6, <1>7, <1>8 DEF LineIInv

\* The cursor moves, or a key without a character takes the line.
LEMMA LineMoves ==
    ASSUME LineIInv, NEW n, MoveCursor(n), n \in 0 .. maxBufferSize, \A k \in 0 .. n - 1 : Buffer[k] # NUL
    PROVE  LineIInv'
<1>1. LineTypes /\ BufferEnds /\ HistoryIsExact /\ (editing = TRUE /\ fits = TRUE => TextIsShown)
  BY DEF LineIInv
<1>2. editing = TRUE /\ cursor' = n /\ Column' = CMD_SHELL_SIZE + n
      /\ UNCHANGED <<Buffer, cmdHistoryIndex, editing, text, fits, cmdVars>>
  BY <1>1 DEF MoveCursor, LineTypes
<1>3. LineTypes' /\ BufferEnds'
  BY <1>1, <1>2 DEF LineTypes, BufferEnds, cmdVars
<1>4. HistoryIsExact'
  BY <1>1, <1>2 DEF HistoryIsExact, cmdVars
<1>5. CursorIsInside'
  BY <1>2 DEF CursorIsInside
<1>6. fits' = TRUE => TextIsShown'
  BY <1>1, <1>2 DEF TextIsShown, Denotes
<1> QED
  BY <1>3, <1>4, <1>5, <1>6 DEF LineIInv, LineTypes

LEMMA LineTaken ==
    ASSUME LineIInv, KeyOther
    PROVE  LineIInv'
<1>1. LineTypes /\ BufferEnds /\ HistoryIsExact /\ (editing => CursorIsInside) /\ (editing /\ fits => TextIsShown)
  BY DEF LineIInv
<1>2. /\ editing /\ editing' \in BOOLEAN
      /\ UNCHANGED <<Buffer, cursor, Column, cmdHistoryIndex, text, fits, cmdVars>>
  BY DEF KeyOther
<1>3. LineTypes' /\ BufferEnds'
  BY <1>1, <1>2 DEF LineTypes, BufferEnds, cmdVars
<1>4. HistoryIsExact'
  BY <1>1, <1>2 DEF HistoryIsExact, cmdVars
<1>5. CursorIsInside'
  BY <1>1, <1>2 DEF CursorIsInside
<1>6. fits' => TextIsShown'
  BY <1>1, <1>2 DEF TextIsShown, Denotes
<1> QED
  BY <1>3, <1>4, <1>5, <1>6 DEF LineIInv

\* An entry of the history is shown.
LEMMA EntryShown ==
    ASSUME LineIInv, NEW k \in 1 .. m_CmdHistorySize, editing,
           ShowEntry(Slot(m_CmdHistoryFirstIndex, k))
    PROVE  LineIInv'
<1>1. LineTypes /\ BufferEnds /\ HistoryIsExact
  BY DEF LineIInv
<1>2. PICK index : index = Slot(m_CmdHistoryFirstIndex, k)
  OBVIOUS
<1>3. index \in Slots
  <2>1. k \in 1 .. CMD_HISTORY_MAX_SIZE
    BY <1>1, LineConstants DEF LineTypes
  <2> QED
    BY <1>1, <1>2, <2>1, SlotFacts DEF LineTypes
<1>4. PICK e \in HistoryEntries : e = m_CmdHistory[index]
  BY <1>1, <1>3 DEF LineTypes
<1>5. e \in Seq(Chars) /\ Len(e) <= maxBufferSize - 1 /\ Len(e) \in Nat
  BY DEF HistoryEntries
<1>6. PICK b : b = strncpy(Buffer, e, maxBufferSize - 1)
  OBVIOUS
<1>7. /\ b \in Buffers /\ Denotes(b, e)
      /\ \A j \in 0 .. CHARS_PER_LINE - 1 : j > Len(e) => b[j] = Buffer[j]
  <2>1. maxBufferSize - 1 \in Nat /\ Len(e) < CHARS_PER_LINE
    BY <1>5, LineConstants
  <2> QED
    BY <1>1, <1>5, <1>6, <2>1, StrncpyIs DEF LineTypes
<1>8. /\ cmdHistoryIndex' = index /\ Buffer' = b /\ cursor' = strlen_s(b, maxBufferSize)
      /\ Column' = CMD_SHELL_SIZE + cursor' /\ text' = e /\ fits' = TRUE
      /\ UNCHANGED <<editing, cmdVars>>
  BY <1>2, <1>4, <1>6 DEF ShowEntry, SetText
<1>9. strlen_s(b, maxBufferSize) = Len(e) /\ Len(e) \in 0 .. maxBufferSize
  <2>1. Len(e) <= maxBufferSize
    BY <1>5, LineConstants
  <2> QED
    BY <1>5, <1>7, <2>1, LineConstants, StrlenOf
<1>10. LineTypes'
  BY <1>1, <1>3, <1>7, <1>8 DEF LineTypes, cmdVars
<1>11. BufferEnds'
  <2>1. \A j \in maxBufferSize + 1 .. CHARS_PER_LINE - 1 : j \in 0 .. CHARS_PER_LINE - 1 /\ j > Len(e)
    BY <1>5, LineConstants
  <2> QED
    BY <1>1, <1>7, <1>8, <2>1 DEF BufferEnds
<1>12. HistoryIsExact'
  BY <1>1, <1>2, <1>8, HistoryKept
<1>13. CursorIsInside'
  <2>1. EndsAt(b, maxBufferSize, Len(e))
    BY <1>9, LineConstants, StrlenIs
  <2> QED
    BY <1>8, <1>9, <2>1 DEF CursorIsInside, EndsAt
<1>14. TextIsShown'
  BY <1>7, <1>8 DEF TextIsShown
<1> QED
  BY <1>10, <1>11, <1>12, <1>13, <1>14 DEF LineIInv

LEMMA LineBrowsed ==
    ASSUME LineIInv, KeyUp \/ KeyDown
    PROVE  LineIInv'
<1> DEFINE first == m_CmdHistoryFirstIndex
           size == m_CmdHistorySize
<1>1. /\ editing /\ size # 0
      /\ first \in Slots /\ size \in 0 .. CMD_HISTORY_MAX_SIZE
      /\ cmdHistoryIndex # NoIndex => \E k \in 1 .. size : cmdHistoryIndex = Slot(first, k)
  BY DEF LineIInv, LineTypes, HistoryIsExact, KeyUp, KeyDown, Slot
<1>2. size \in 1 .. CMD_HISTORY_MAX_SIZE /\ size \in 1 .. size /\ 1 \in 1 .. size
  BY <1>1, LineConstants
<1>3. LastIndex = Slot(first, size)
  BY DEF LastIndex, Slot
<1>4. CASE KeyUp
  <2>1. CASE cmdHistoryIndex = NoIndex
    BY <1>1, <1>2, <1>3, <1>4, <2>1, EntryShown DEF KeyUp
  <2>2. CASE cmdHistoryIndex # NoIndex
    <3>1. PICK k \in 1 .. size : cmdHistoryIndex = Slot(first, k)
      BY <1>1, <2>2
    <3>2. k \in 1 .. CMD_HISTORY_MAX_SIZE /\ Slot(first, 1) = first
      <4>1. k \in 1 .. CMD_HISTORY_MAX_SIZE
        BY <1>1, <3>1, LineConstants
      <4> QED
        BY <1>1, <4>1, SlotFacts
    <3>3. CASE cmdHistoryIndex = first
      <4>1. ShowEntry(Slot(first, 1))
        BY <1>4, <2>2, <3>2, <3>3 DEF KeyUp
      <4> QED
        BY <1>1, <1>2, <4>1, EntryShown
    <3>4. CASE cmdHistoryIndex # first
      <4>1. k # 1
        BY <3>1, <3>2, <3>4
      <4>2. k > 1 /\ k - 1 \in 1 .. size
        BY <1>1, <4>1
      <4>3. (Slot(first, k) + CMD_HISTORY_MAX_SIZE - 1) % CMD_HISTORY_MAX_SIZE = Slot(first, k - 1)
        BY <1>1, <3>2, <4>2, SlotFacts
      <4>4. ShowEntry((cmdHistoryIndex + CMD_HISTORY_MAX_SIZE - 1) % CMD_HISTORY_MAX_SIZE)
        BY <1>4, <2>2, <3>4 DEF KeyUp
      <4>5. ShowEntry(Slot(first, k - 1))
        BY <3>1, <4>3, <4>4
      <4> QED
        BY <1>1, <4>2, <4>5, EntryShown
    <3> QED
      BY <3>3, <3>4
  <2> QED
    BY <2>1, <2>2
<1>5. CASE KeyDown
  <2>1. PICK k \in 1 .. size : cmdHistoryIndex = Slot(first, k)
    BY <1>1, <1>5 DEF KeyDown
  <2>2. CASE cmdHistoryIndex = LastIndex
    <3>1. ShowEntry(Slot(first, size))
      BY <1>3, <1>5, <2>2 DEF KeyDown
    <3> QED
      BY <1>1, <1>2, <3>1, EntryShown
  <2>3. CASE cmdHistoryIndex # LastIndex
    <3>1. k \in 1 .. CMD_HISTORY_MAX_SIZE /\ k # size
      <4>1. k \in 1 .. CMD_HISTORY_MAX_SIZE
        BY <1>1, <2>1, LineConstants
      <4> QED
        BY <1>3, <2>1, <2>3, <4>1
    <3>2. k < CMD_HISTORY_MAX_SIZE /\ k + 1 \in 1 .. size
      BY <1>1, <3>1, LineConstants
    <3>3. (Slot(first, k) + 1) % CMD_HISTORY_MAX_SIZE = Slot(first, k + 1)
      BY <1>1, <3>1, <3>2, SlotFacts
    <3>4. ShowEntry((cmdHistoryIndex + 1) % CMD_HISTORY_MAX_SIZE)
      BY <1>5, <2>3 DEF KeyDown
    <3>5. ShowEntry(Slot(first, k + 1))
      BY <2>1, <3>3, <3>4
    <3> QED
      BY <1>1, <3>2, <3>5, EntryShown
  <2> QED
    BY <2>2, <2>3
<1> QED
  BY <1>4, <1>5

\* The cursor is not behind the end of the text.
LEMMA CursorInText ==
    ASSUME CursorIsInside, TextIsShown
    PROVE  cursor <= Len(text) /\ text \in Seq(Chars) /\ Len(text) \in 0 .. maxBufferSize - 1
<1>1. text \in Seq(Chars) /\ Len(text) \in Nat /\ Len(text) <= maxBufferSize - 1 /\ Buffer[Len(text)] = NUL
  BY DEF TextIsShown, HistoryEntries, Denotes
<1>2. cursor \in Nat /\ \A k \in 0 .. cursor - 1 : Buffer[k] # NUL
  BY LineConstants DEF CursorIsInside
<1>3. Len(text) \notin 0 .. cursor - 1
  BY <1>1, <1>2
<1> QED
  BY <1>1, <1>2, <1>3, LineConstants

LEMMA CharIsDeleted ==
    ASSUME LineIInv, KeyBackspace, cursor # 0
    PROVE  LineIInv'
<1>1. LineTypes /\ BufferEnds /\ HistoryIsExact /\ CursorIsInside /\ (fits => TextIsShown)
  BY DEF LineIInv, KeyBackspace
<1>2. PICK len : len = strlen_s(Buffer, maxBufferSize - 1)
  OBVIOUS
<1>3. len \in Nat /\ len <= maxBufferSize - 1
  <2>1. maxBufferSize - 1 \in Nat
    BY LineConstants
  <2> QED
    BY <1>2, <2>1, StrlenIs DEF EndsAt
<1>4. cursor \in Nat /\ cursor >= 1 /\ cursor <= maxBufferSize
  BY <1>1, LineConstants DEF CursorIsInside
<1>5. PICK b : b = [k \in 0 .. CHARS_PER_LINE - 1 |-> IF k \in cursor - 1 .. len - 1 THEN Buffer[k + 1] ELSE Buffer[k]]
  OBVIOUS
<1>6. /\ Buffer' = b /\ cursor' = cursor - 1 /\ Column' = Column - 1
      /\ text' = IF fits THEN RemoveAt(text, cursor) ELSE text
      /\ UNCHANGED <<fits, cmdHistoryIndex, editing, cmdVars>>
  <2>1. DOMAIN Buffer = 0 .. CHARS_PER_LINE - 1
    BY <1>1 DEF LineTypes, Buffers
  <2> QED
    BY <1>2, <1>5, <2>1 DEF KeyBackspace, SetText
<1>7. \A k \in 0 .. CHARS_PER_LINE - 1 : b[k] = IF k >= cursor - 1 /\ k <= len - 1 THEN Buffer[k + 1] ELSE Buffer[k]
  BY <1>3, <1>4, <1>5
<1>8. b \in Buffers
  <2>1. \A k \in 0 .. CHARS_PER_LINE - 1 : k <= len - 1 => k + 1 \in 0 .. CHARS_PER_LINE - 1
    BY <1>3, LineConstants
  <2>2. \A k \in 0 .. CHARS_PER_LINE - 1 : Buffer[k] \in Chars \cup {NUL}
    BY <1>1 DEF LineTypes, Buffers
  <2>3. \A k \in 0 .. CHARS_PER_LINE - 1 :
            (IF k \in cursor - 1 .. len - 1 THEN Buffer[k + 1] ELSE Buffer[k]) \in Chars \cup {NUL}
    BY <1>3, <1>4, <2>1, <2>2
  <2> QED
    BY <1>5, <2>3 DEF Buffers
<1>9. LineTypes'
  BY <1>1, <1>6, <1>8 DEF LineTypes, cmdVars
<1>10. BufferEnds'
  <2>1. \A k \in maxBufferSize + 1 .. CHARS_PER_LINE - 1 : k \in 0 .. CHARS_PER_LINE - 1 /\ ~(k <= len - 1)
    BY <1>3, LineConstants
  <2> QED
    BY <1>1, <1>6, <1>7, <2>1 DEF BufferEnds
<1>11. HistoryIsExact'
  BY <1>1, <1>6 DEF HistoryIsExact, cmdVars
<1>12. CursorIsInside'
  <2>1. \A k \in 0 .. cursor - 2 : b[k] # NUL
    <3> TAKE k \in 0 .. cursor - 2
    <3>1. k \in 0 .. CHARS_PER_LINE - 1 /\ ~(k >= cursor - 1) /\ k \in 0 .. cursor - 1
      BY <1>4, LineConstants
    <3> QED
      BY <1>1, <1>7, <3>1 DEF CursorIsInside
  <2>2. (cursor - 1) - 1 = cursor - 2 /\ cursor - 1 \in 0 .. maxBufferSize
    BY <1>4, LineConstants
  <2>3. Column - 1 = CMD_SHELL_SIZE + (cursor - 1)
    BY <1>1, <1>4, LineConstants DEF CursorIsInside
  <2> QED
    BY <1>6, <2>1, <2>2, <2>3 DEF CursorIsInside
<1>13. ASSUME fits
       PROVE  TextIsShown'
  <2>1. PICK t \in Seq(Chars) : t = text /\ cursor <= Len(t) /\ Len(t) \in 0 .. maxBufferSize - 1 /\ Denotes(Buffer, t)
    BY <1>1, <1>13, CursorInText DEF TextIsShown
  <2>2. PICK n \in Nat : n = Len(t)
    OBVIOUS
  <2>3. cursor \in 1 .. n /\ n <= maxBufferSize - 1
    BY <1>4, <2>1, <2>2, LineConstants
  <2>4. len = n
    BY <1>2, <2>1, <2>2, <2>3, LineConstants, StrlenOf
  <2>5. PICK r \in Seq(Chars) : /\ r = RemoveAt(t, cursor) /\ Len(r) = n - 1
                                /\ \A j \in 1 .. n - 1 : r[j] = IF j < cursor THEN t[j] ELSE t[j + 1]
    BY <2>2, <2>3, RemoveAtFacts
  <2>6. \A j \in 1 .. n : Buffer[j - 1] = t[j]
    BY <2>1, <2>2 DEF Denotes
  <2>7. ASSUME NEW j \in 1 .. n - 1
        PROVE  b[j - 1] = r[j]
    <3>1. j - 1 \in 0 .. CHARS_PER_LINE - 1 /\ j - 1 <= len - 1 /\ j \in 1 .. n /\ j + 1 \in 1 .. n
      BY <2>3, <2>4, LineConstants
    <3>2. CASE j < cursor
      <4>1. ~(j - 1 >= cursor - 1)
        BY <1>4, <3>2
      <4>2. b[j - 1] = Buffer[j - 1]
        BY <1>7, <3>1, <4>1
      <4> QED
        BY <2>5, <2>6, <3>1, <3>2, <4>2
    <3>3. CASE ~(j < cursor)
      <4>1. j - 1 >= cursor - 1 /\ (j - 1) + 1 = (j + 1) - 1
        BY <1>4, <3>3
      <4>2. b[j - 1] = Buffer[(j - 1) + 1]
        BY <1>7, <3>1, <4>1
      <4>3. Buffer[(j + 1) - 1] = t[j + 1]
        BY <2>6, <3>1
      <4> QED
        BY <2>5, <3>3, <4>1, <4>2, <4>3
    <3> QED
      BY <3>2, <3>3
  <2>8. b[n - 1] = NUL
    <3>1. n - 1 \in 0 .. CHARS_PER_LINE - 1 /\ n - 1 >= cursor - 1 /\ n - 1 <= len - 1 /\ (n - 1) + 1 = n
      BY <1>4, <2>3, <2>4, LineConstants
    <3>2. b[n - 1] = Buffer[n]
      BY <1>7, <3>1
    <3> QED
      BY <2>1, <2>2, <3>2 DEF Denotes
  <2>9. Denotes(b, r)
    BY <2>5, <2>7, <2>8 DEF Denotes
  <2>10. r \in HistoryEntries
    BY <2>3, <2>5, LineConstants DEF HistoryEntries
  <2>11. text' = r
    BY <1>6, <1>13, <2>1, <2>5
  <2> QED
    BY <1>6, <2>9, <2>10, <2>11 DEF TextIsShown
<1> QED
  BY <1>1, <1>6, <1>9, <1>10, <1>11, <1>12, <1>13 DEF LineIInv

LEMMA LineDeletes ==
    ASSUME LineIInv, KeyBackspace
    PROVE  LineIInv'
<1>1. CASE cursor = 0
  <2>1. UNCHANGED <<Buffer, cursor, Column, text, fits, cmdHistoryIndex, editing, cmdVars>>
    BY <1>1 DEF KeyBackspace
  <2> QED
    BY <2>1 DEF LineIInv, LineTypes, BufferEnds, HistoryIsExact, CursorIsInside, TextIsShown, Denotes, cmdVars
<1> QED
  BY <1>1, CharIsDeleted

LEMMA CharIsInserted ==
    ASSUME LineIInv, NEW c \in Chars, KeyAscii(c)
    PROVE  LineIInv'
<1>1. LineTypes /\ BufferEnds /\ HistoryIsExact /\ CursorIsInside /\ (fits => TextIsShown)
  BY DEF LineIInv, KeyAscii
<1>2. PICK len : len = strlen_s(Buffer, maxBufferSize - 1)
  OBVIOUS
<1>3. len \in Nat /\ len <= maxBufferSize - 1
  <2>1. maxBufferSize - 1 \in Nat
    BY LineConstants
  <2> QED
    BY <1>2, <2>1, StrlenIs DEF EndsAt
<1>4. cursor \in Nat /\ cursor <= maxBufferSize /\ cursor \in 0 .. CHARS_PER_LINE - 1
  BY <1>1, LineConstants DEF CursorIsInside
<1> DEFINE ok == fits /\ Len(text) < maxBufferSize - 1
<1>5. PICK shifted : shifted = [k \in 0 .. CHARS_PER_LINE - 1 |->
                                   IF k \in cursor + 1 .. len + 1 THEN Buffer[k - 1] ELSE Buffer[k]]
  OBVIOUS
<1>6. PICK b : b = [shifted EXCEPT ![cursor] = c]
  OBVIOUS
<1>7. /\ Buffer' = b /\ cursor' = cursor + 1 /\ Column' = Column + 1
      /\ text' = IF ok THEN InsertAt(text, cursor + 1, c) ELSE text
      /\ fits' = ok /\ editing' = (cursor + 1 < maxBufferSize - 1)
      /\ UNCHANGED <<cmdHistoryIndex, cmdVars>>
  <2>1. DOMAIN Buffer = 0 .. CHARS_PER_LINE - 1
    BY <1>1 DEF LineTypes, Buffers
  <2> QED
    BY <1>2, <1>5, <1>6, <2>1 DEF KeyAscii, SetText
<1>8. \A k \in 0 .. CHARS_PER_LINE - 1 :
          b[k] = IF k = cursor THEN c ELSE IF k >= cursor + 1 /\ k <= len + 1 THEN Buffer[k - 1] ELSE Buffer[k]
  BY <1>3, <1>4, <1>5, <1>6
<1>9. b \in Buffers
  <2>1. \A k \in 0 .. CHARS_PER_LINE - 1 : k >= cursor + 1 => k - 1 \in 0 .. CHARS_PER_LINE - 1
    BY <1>4, LineConstants
  <2>2. \A k \in 0 .. CHARS_PER_LINE - 1 : Buffer[k] \in Chars \cup {NUL}
    BY <1>1 DEF LineTypes, Buffers
  <2>3. \A k \in 0 .. CHARS_PER_LINE - 1 :
            (IF k \in cursor + 1 .. len + 1 THEN Buffer[k - 1] ELSE Buffer[k]) \in Chars \cup {NUL}
    BY <1>3, <1>4, <2>1, <2>2
  <2>4. shifted \in Buffers
    BY <1>5, <2>3 DEF Buffers
  <2> QED
    BY <1>6, <2>4 DEF Buffers
<1>10. LineTypes'
  <2>1. fits \in BOOLEAN
    BY <1>1 DEF LineTypes
  <2>2. ok \in BOOLEAN /\ (cursor + 1 < maxBufferSize - 1) \in BOOLEAN
    BY <2>1
  <2> QED
    BY <1>1, <1>7, <1>9, <2>2 DEF LineTypes, cmdVars
<1>11. BufferEnds'
  <2>1. \A k \in maxBufferSize + 1 .. CHARS_PER_LINE - 1 : /\ k \in 0 .. CHARS_PER_LINE - 1
                                                           /\ k # cursor /\ ~(k <= len + 1)
    BY <1>3, <1>4, LineConstants
  <2> QED
    BY <1>1, <1>7, <1>8, <2>1 DEF BufferEnds
<1>12. HistoryIsExact'
  BY <1>1, <1>7 DEF HistoryIsExact, cmdVars, KeyAscii
<1>13. ASSUME editing'
       PROVE  CursorIsInside'
  <2>1. \A k \in 0 .. cursor : b[k] # NUL
    <3> TAKE k \in 0 .. cursor
    <3>1. k \in 0 .. CHARS_PER_LINE - 1 /\ ~(k >= cursor + 1) /\ (k = cursor \/ k \in 0 .. cursor - 1)
      BY <1>4, LineConstants
    <3>2. CASE k = cursor
      BY <1>8, <3>1, <3>2, LineConstants
    <3>3. CASE k # cursor
      <4>1. b[k] = Buffer[k] /\ k \in 0 .. cursor - 1
        BY <1>8, <3>1, <3>3
      <4> QED
        BY <1>1, <4>1 DEF CursorIsInside
    <3> QED
      BY <3>2, <3>3
  <2>2. (cursor + 1) - 1 = cursor /\ cursor + 1 \in 0 .. maxBufferSize
    <3>1. cursor + 1 < maxBufferSize - 1
      BY <1>7, <1>13
    <3> QED
      BY <1>4, <3>1, LineConstants
  <2>3. Column + 1 = CMD_SHELL_SIZE + (cursor + 1)
    BY <1>1, <1>4, LineConstants DEF CursorIsInside
  <2> QED
    BY <1>7, <2>1, <2>2, <2>3 DEF CursorIsInside
<1>14. ASSUME ok
       PROVE  TextIsShown'
  <2>1. PICK t \in Seq(Chars) : t = text /\ cursor <= Len(t) /\ Len(t) \in 0 .. maxBufferSize - 1 /\ Denotes(Buffer, t)
    BY <1>1, <1>14, CursorInText DEF TextIsShown
  <2>2. PICK n \in Nat : n = Len(t)
    OBVIOUS
  <2>3. cursor <= n /\ n + 1 <= maxBufferSize - 1 /\ cursor + 1 \in 1 .. n + 1
    BY <1>4, <1>14, <2>1, <2>2, LineConstants
  <2>4. len = n
    BY <1>2, <2>1, <2>2, <2>3, LineConstants, StrlenOf
  <2>5. PICK p \in 1 .. n + 1 : p = cursor + 1
    BY <2>3
  <2>6. PICK r \in Seq(Chars) : /\ r = InsertAt(t, p, c) /\ Len(r) = n + 1
                                /\ \A j \in 1 .. n + 1 : r[j] = IF j < p THEN t[j] ELSE IF j = p THEN c ELSE t[j - 1]
    <3>1. PICK r \in Seq(Chars) : r = InsertAt(t, p, c) /\ Inserted(t, p, c, r)
      BY <2>2, InsertAtIs
    <3> QED
      BY <2>2, <3>1 DEF Inserted
  <2>7. \A j \in 1 .. n : Buffer[j - 1] = t[j]
    BY <2>1, <2>2 DEF Denotes
  <2>8. ASSUME NEW j \in 1 .. n + 1
        PROVE  b[j - 1] = r[j]
    <3>1. j - 1 \in 0 .. CHARS_PER_LINE - 1 /\ j - 1 <= len + 1
      BY <2>3, <2>4, LineConstants
    <3>2. CASE j < p
      <4>1. j - 1 # cursor /\ ~(j - 1 >= cursor + 1) /\ j \in 1 .. n
        BY <1>4, <2>3, <2>5, <3>2
      <4>2. b[j - 1] = Buffer[j - 1]
        BY <1>8, <3>1, <4>1
      <4> QED
        BY <2>6, <2>7, <3>2, <4>1, <4>2
    <3>3. CASE j = p
      <4>1. j - 1 = cursor
        BY <1>4, <2>5, <3>3
      <4> QED
        BY <1>8, <2>6, <3>1, <3>3, <4>1
    <3>4. CASE j > p
      <4>1. j - 1 # cursor /\ j - 1 >= cursor + 1 /\ j - 1 \in 1 .. n /\ ~(j < p) /\ j # p
        BY <1>4, <2>3, <2>5, <3>4
      <4>2. b[j - 1] = Buffer[(j - 1) - 1]
        BY <1>8, <3>1, <4>1
      <4> QED
        BY <2>6, <2>7, <4>1, <4>2
    <3>5. j < p \/ j = p \/ j > p
      OBVIOUS
    <3> QED
      BY <3>2, <3>3, <3>4, <3>5
  <2>9. b[n + 1] = NUL
    <3>1. /\ n + 1 \in 0 .. CHARS_PER_LINE - 1 /\ n + 1 # cursor /\ n + 1 >= cursor + 1 /\ n + 1 <= len + 1
          /\ (n + 1) - 1 = n
      BY <1>4, <2>3, <2>4, LineConstants
    <3>2. b[n + 1] = Buffer[n]
      BY <1>8, <3>1
    <3> QED
      BY <2>1, <2>2, <3>2 DEF Denotes
  <2>10. Denotes(b, r)
    BY <2>6, <2>8, <2>9 DEF Denotes
  <2>11. r \in HistoryEntries
    BY <2>3, <2>6, LineConstants DEF HistoryEntries
  <2>12. text' = r
    BY <1>7, <1>14, <2>1, <2>5, <2>6
  <2> QED
    BY <1>7, <2>10, <2>11, <2>12 DEF TextIsShown
<1> QED
  BY <1>7, <1>10, <1>11, <1>12, <1>13, <1>14 DEF LineIInv

Newest(all, n) == SubSeq(all, Len(all) - n + 1, Len(all))
EndsWith(all, q) == Len(q) <= Len(all) /\ \A j \in 1 .. Len(q) : q[j] = all[Len(all) - Len(q) + j]

LEMMA LastOf ==
    ASSUME NEW S, NEW all \in Seq(S), NEW n \in Nat, n <= Len(all)
    PROVE  Newest(all, n) \in Seq(S) /\ Len(Newest(all, n)) = n /\ EndsWith(all, Newest(all, n))
<1>1. PICK m \in Nat : m = Len(all) /\ n <= m
  OBVIOUS
<1>2. PICK a \in Int : a = m - n + 1 /\ a >= 1 /\ a <= m + 1
  BY <1>1
<1>3. PICK q : q = Newest(all, n)
  OBVIOUS
<1>4. q = SubSeq(all, a, m)
  BY <1>1, <1>2, <1>3 DEF Newest
<1>5. m - a + 1 = n /\ \A i \in a .. m : all[i] \in S
  BY <1>1, <1>2
<1>6. /\ SubSeq(all, a, m) \in Seq(S)
      /\ Len(SubSeq(all, a, m)) = IF a <= m THEN m - a + 1 ELSE 0
      /\ \A j \in 1 .. m - a + 1 : SubSeq(all, a, m)[j] = all[a + j - 1]
  BY <1>5, SubSeqProperties
<1>7. Len(q) = n
  BY <1>1, <1>2, <1>4, <1>5, <1>6
<1>8. \A j \in 1 .. n : q[j] = all[m - n + j]
  <2>1. \A j \in 1 .. n : a + j - 1 = m - n + j
    BY <1>2
  <2> QED
    BY <1>4, <1>5, <1>6, <2>1
<1>9. EndsWith(all, q)
  BY <1>1, <1>7, <1>8 DEF EndsWith
<1> QED
  BY <1>3, <1>4, <1>6, <1>7, <1>9

\* The command that is entered takes the slot behind the last one, or the first one's when all are taken.
LEMMA SlotsDiffer ==
    ASSUME NEW first \in Slots, NEW k \in 1 .. CMD_HISTORY_MAX_SIZE, NEW j \in 1 .. CMD_HISTORY_MAX_SIZE, j # k
    PROVE  Slot(first, j) # Slot(first, k)
BY SlotFacts

Enters(entry, grown, next) ==
    LET all == Append(commands, entry)
    IN  /\ grown = IF m_CmdHistorySize = CMD_HISTORY_MAX_SIZE THEN m_CmdHistorySize ELSE m_CmdHistorySize + 1
        /\ next = IF m_CmdHistorySize = CMD_HISTORY_MAX_SIZE
                  THEN (m_CmdHistoryFirstIndex + 1) % CMD_HISTORY_MAX_SIZE ELSE m_CmdHistoryFirstIndex
        /\ m_CmdHistory' = [m_CmdHistory EXCEPT ![Slot(next, grown)] = entry]
        /\ commands' = Newest(all, grown)

LEMMA HistoryGrows ==
    ASSUME LineTypes, HistoryIsExact, NEW entry \in HistoryEntries, NEW grown, NEW next, Enters(entry, grown, next)
    PROVE  /\ m_CmdHistory' \in [Slots -> HistoryEntries] /\ commands' \in Seq(HistoryEntries)
           /\ grown \in 1 .. CMD_HISTORY_MAX_SIZE /\ next \in Slots
           /\ Len(commands') = grown /\ \A k \in 1 .. grown : m_CmdHistory'[Slot(next, k)] = commands'[k]
<1>H. PICK H : H = CMD_HISTORY_MAX_SIZE
  OBVIOUS
<1>all. PICK all : all = Append(commands, entry)
  OBVIOUS
<1>a. PICK old \in [Slots -> HistoryEntries] : old = m_CmdHistory
  BY DEF LineTypes
<1>b. PICK s \in Seq(HistoryEntries) : s = commands
  BY DEF LineTypes
<1>c. PICK first \in Slots : first = m_CmdHistoryFirstIndex
  BY DEF LineTypes
<1>d. PICK size \in 0 .. H : size = m_CmdHistorySize
  BY <1>H DEF LineTypes
<1>e. /\ grown = IF size = H THEN size ELSE size + 1
      /\ next = IF size = H THEN (first + 1) % H ELSE first
  BY <1>H, <1>c, <1>d DEF Enters
<1>f. Len(s) = size /\ \A k \in 1 .. size : old[Slot(first, k)] = s[k]
  BY <1>a, <1>b, <1>c, <1>d DEF HistoryIsExact, Slot
<1>g. PICK new : new = [old EXCEPT ![Slot(next, grown)] = entry]
  OBVIOUS
<1>h. all \in Seq(HistoryEntries) /\ Len(all) = size + 1 /\ all[size + 1] = entry /\ \A j \in 1 .. size : all[j] = s[j]
  BY <1>all, <1>b, <1>f
<1>i. PICK q : q = Newest(all, grown)
  OBVIOUS
<1>1. H \in Nat \ {0} /\ grown \in 1 .. H /\ grown \in Nat /\ grown <= size + 1 /\ size \in Nat
  BY <1>H, <1>d, <1>e, LineConstants
<1>2. next \in Slots
  <2>1. 1 \in 1 .. H
    BY <1>1
  <2> QED
    BY <1>H, <1>e, <2>1, SlotFacts
<1>3. Slot(next, grown) \in Slots
  BY <1>H, <1>1, <1>2, SlotFacts
<1>4. new \in [Slots -> HistoryEntries]
  BY <1>3, <1>g
<1>5. /\ q \in Seq(HistoryEntries) /\ Len(q) = grown
      /\ \A j \in 1 .. grown : q[j] = all[size + 1 - grown + j]
  <2>1. grown <= Len(all)
    BY <1>1, <1>h
  <2>2. q \in Seq(HistoryEntries) /\ Len(q) = grown /\ EndsWith(all, q)
    BY <1>1, <1>h, <1>i, <2>1, LastOf
  <2> QED
    BY <1>h, <2>2 DEF EndsWith
<1>6. all[size + 1] = entry /\ \A j \in 1 .. size : all[j] = s[j]
  BY <1>h
<1>7. ASSUME NEW k \in 1 .. grown
      PROVE  new[Slot(next, k)] = q[k]
  <2>1. k \in 1 .. H /\ Slot(next, k) \in Slots
    <3>1. k \in 1 .. H
      BY <1>1
    <3> QED
      BY <1>H, <1>2, <3>1, SlotFacts
  <2>2. CASE k = grown
    <3>1. q[k] = all[size + 1]
      <4>1. size + 1 - grown + k = size + 1
        BY <1>1, <2>2
      <4> QED
        BY <1>5, <4>1
    <3> QED
      BY <1>3, <1>6, <1>g, <2>2, <3>1
  <2>3. CASE k # grown
    <3>1. Slot(next, k) # Slot(next, grown)
      BY <1>H, <1>1, <1>2, <2>1, <2>3, SlotsDiffer
    <3>2. new[Slot(next, k)] = old[Slot(next, k)]
      BY <1>g, <2>1, <3>1
    <3>3. CASE size = H
      <4>1. k < H /\ k + 1 \in 1 .. size /\ size + 1 - grown + k = k + 1
        BY <1>1, <1>e, <2>1, <2>3, <3>3
      <4>2. Slot(next, k) = Slot(first, k + 1)
        BY <1>H, <1>e, <2>1, <3>3, <4>1, SlotFacts
      <4>3. q[k] = all[k + 1]
        BY <1>5, <4>1
      <4> QED
        BY <1>6, <1>f, <3>2, <4>1, <4>2, <4>3
    <3>4. CASE size # H
      <4>1. k \in 1 .. size /\ size + 1 - grown + k = k /\ next = first
        BY <1>1, <1>e, <2>1, <2>3, <3>4
      <4>2. q[k] = all[k]
        BY <1>5, <4>1
      <4> QED
        BY <1>6, <1>f, <3>2, <4>1, <4>2
    <3> QED
      BY <3>3, <3>4
  <2> QED
    BY <2>2, <2>3
<1>8. m_CmdHistory' = new /\ commands' = q
  BY <1>a, <1>g, <1>i, <1>all DEF Enters
<1> QED
  BY <1>1, <1>2, <1>4, <1>5, <1>7, <1>8, <1>H

LEMMA LineEntered ==
    ASSUME LineIInv, KeyReturn
    PROVE  LineIInv'
<1>1. LineTypes /\ BufferEnds /\ HistoryIsExact
  BY DEF LineIInv
<1>2. editing' = FALSE /\ UNCHANGED <<cursor, Column, cmdHistoryIndex, text, fits>>
  BY DEF KeyReturn
<1>3. CASE strlen_s(Buffer, maxBufferSize) = 0
  <2>1. UNCHANGED <<Buffer, cmdVars>>
    BY <1>3 DEF KeyReturn
  <2>2. LineTypes' /\ BufferEnds'
    BY <1>1, <1>2, <2>1 DEF LineTypes, BufferEnds, cmdVars
  <2>3. HistoryIsExact'
    BY <1>1, <1>2, <2>1, HistoryKept
  <2> QED
    BY <1>2, <2>2, <2>3 DEF LineIInv
<1>4. CASE strlen_s(Buffer, maxBufferSize) # 0
  <2>1. PICK line : line = strtrim(StringIn(Buffer))
    OBVIOUS
  <2>2. PICK entry : entry = Prefix(line, maxBufferSize - 1)
    OBVIOUS
  <2>3. PICK H : H = CMD_HISTORY_MAX_SIZE
    OBVIOUS
  <2>4. PICK grown : grown = IF m_CmdHistorySize = H THEN m_CmdHistorySize ELSE m_CmdHistorySize + 1
    OBVIOUS
  <2>5. PICK next : next = IF m_CmdHistorySize = H THEN (m_CmdHistoryFirstIndex + 1) % H ELSE m_CmdHistoryFirstIndex
    OBVIOUS
  <2>6. PICK all : all = Append(commands, entry)
    OBVIOUS
  <2>7. /\ Buffer' = strncpy(Buffer, line, CHARS_PER_LINE)
        /\ m_CmdHistorySize' = grown /\ m_CmdHistoryFirstIndex' = next
        /\ m_CmdHistory' = [m_CmdHistory EXCEPT ![Slot(next, grown)] = entry]
        /\ commands' = SubSeq(all, Len(all) - grown + 1, Len(all))
    BY <1>4, <2>1, <2>2, <2>3, <2>4, <2>5, <2>6 DEF KeyReturn, Slot
  <2>8. StringIn(Buffer) \in Seq(Chars) /\ Len(StringIn(Buffer)) \in 0 .. maxBufferSize + 1
    <3>1. PICK n : n = strlen_s(Buffer, CHARS_PER_LINE)
      OBVIOUS
    <3>2. n \in 0 .. CHARS_PER_LINE /\ \A k \in 0 .. n - 1 : Buffer[k] # NUL
      BY <3>1, LineConstants, StrlenIs DEF EndsAt
    <3>3. Buffer[maxBufferSize + 1] = NUL
      <4>1. maxBufferSize + 1 \in maxBufferSize + 1 .. CHARS_PER_LINE - 1
        BY LineConstants
      <4> QED
        BY <1>1, <4>1 DEF BufferEnds
    <3>4. ~(maxBufferSize + 1 \in 0 .. n - 1)
      BY <3>2, <3>3
    <3>5. n \in 0 .. maxBufferSize + 1
      BY <3>2, <3>4, LineConstants
    <3> QED
      BY <1>1, <3>1, <3>5, StringIs DEF LineTypes
  <2>9. line \in Seq(Chars) /\ Len(line) \in Nat /\ Len(line) <= maxBufferSize + 1
    <3>1. line \in Seq(Chars) /\ Len(line) <= Len(StringIn(Buffer))
      BY <2>1, <2>8, TrimmedIs
    <3>2. Len(line) \in Nat
      BY <3>1
    <3> QED
      BY <2>8, <3>1, <3>2, LineConstants
  <2>10. entry \in HistoryEntries
    <3>1. maxBufferSize - 1 \in Nat
      BY LineConstants
    <3> QED
      BY <2>2, <2>9, <3>1, PrefixIs DEF HistoryEntries
  <2>11. /\ Buffer' \in Buffers /\ Denotes(Buffer', line)
         /\ \A k \in 0 .. CHARS_PER_LINE - 1 : k > Len(line) => Buffer'[k] = Buffer[k]
    <3>1. Len(line) <= CHARS_PER_LINE /\ Len(line) < CHARS_PER_LINE
      BY <2>9, LineConstants
    <3> QED
      BY <1>1, <2>7, <2>9, <3>1, LineConstants, StrncpyIs DEF LineTypes
  <2>12. BufferEnds'
    <3>1. ASSUME NEW k \in maxBufferSize + 1 .. CHARS_PER_LINE - 1
          PROVE  Buffer'[k] = NUL
      <4>1. k \in 0 .. CHARS_PER_LINE - 1 /\ (k > Len(line) \/ k = Len(line))
        BY <2>9, LineConstants
      <4>2. Buffer[k] = NUL
        BY <1>1 DEF BufferEnds
      <4> QED
        BY <2>11, <4>1, <4>2 DEF Denotes
    <3> QED
      BY <3>1 DEF BufferEnds
  <2>13. /\ m_CmdHistory' \in [Slots -> HistoryEntries] /\ commands' \in Seq(HistoryEntries)
         /\ grown \in 1 .. H /\ next \in Slots
         /\ Len(commands') = grown /\ \A k \in 1 .. grown : m_CmdHistory'[Slot(next, k)] = commands'[k]
    <3>1. Enters(entry, grown, next)
      BY <2>3, <2>4, <2>5, <2>6, <2>7 DEF Enters, Newest
    <3> QED
      BY <1>1, <2>3, <2>10, <3>1, HistoryGrows
  <2>14. LineTypes'
    <3>1. grown \in 0 .. H
      BY <2>3, <2>13, LineConstants
    <3> QED
      BY <1>1, <1>2, <2>3, <2>7, <2>11, <2>13, <3>1 DEF LineTypes
  <2>15. HistoryIsExact'
    BY <1>2, <2>7, <2>13 DEF HistoryIsExact, Slot
  <2> QED
    BY <1>2, <2>12, <2>14, <2>15 DEF LineIInv
<1> QED
  BY <1>3, <1>4

LEMMA CursorMoves ==
    ASSUME LineIInv, KeyLeft \/ KeyRight \/ KeyHome \/ KeyEnd
    PROVE  LineIInv'
<1>1. editing /\ CursorIsInside /\ cursor \in Nat /\ cursor <= maxBufferSize
      /\ \A k \in 0 .. cursor - 1 : Buffer[k] # NUL
  BY LineConstants DEF LineIInv, CursorIsInside, KeyLeft, KeyRight, KeyHome, KeyEnd, MoveCursor
<1>2. CASE KeyLeft
  <2>1. PICK n : n = cursor - 1
    OBVIOUS
  <2>2. n \in 0 .. maxBufferSize /\ \A k \in 0 .. n - 1 : k \in 0 .. cursor - 1
    BY <1>1, <1>2, <2>1, LineConstants DEF KeyLeft
  <2>3. MoveCursor(n)
    BY <1>2, <2>1 DEF KeyLeft
  <2> QED
    BY <1>1, <2>2, <2>3, LineMoves
<1>3. CASE KeyRight
  <2>1. PICK n : n = cursor + 1
    OBVIOUS
  <2>2. n \in 0 .. maxBufferSize /\ \A k \in 0 .. n - 1 : k \in 0 .. cursor - 1 \/ k = cursor
    <3>1. cursor < maxBufferSize - 2
      BY <1>3 DEF KeyRight
    <3> QED
      BY <1>1, <2>1, <3>1, LineConstants
  <2>3. MoveCursor(n) /\ Buffer[cursor] # NUL
    BY <1>3, <2>1 DEF KeyRight
  <2> QED
    BY <1>1, <2>2, <2>3, LineMoves
<1>4. CASE KeyHome
  <2>1. 0 \in 0 .. maxBufferSize /\ \A k \in 0 .. 0 - 1 : Buffer[k] # NUL
    BY LineConstants
  <2> QED
    BY <1>4, <2>1, LineMoves DEF KeyHome
<1>5. CASE KeyEnd
  <2>1. PICK n : n = strlen_s(Buffer, maxBufferSize)
    OBVIOUS
  <2>2. n \in 0 .. maxBufferSize /\ \A k \in 0 .. n - 1 : Buffer[k] # NUL
    BY <2>1, LineConstants, StrlenIs DEF EndsAt
  <2>3. MoveCursor(n)
    BY <1>5, <2>1 DEF KeyEnd
  <2> QED
    BY <2>2, <2>3, LineMoves
<1> QED
  BY <1>2, <1>3, <1>4, <1>5

LEMMA LineStep == LineIInv /\ [LineNext]_lineVars => LineIInv'
<1> SUFFICES ASSUME LineIInv, [LineNext]_lineVars
             PROVE  LineIInv'
  OBVIOUS
<1>1. CASE UNCHANGED lineVars
  <2>1. UNCHANGED <<Buffer, cursor, Column, cmdHistoryIndex, m_CmdHistory, m_CmdHistoryFirstIndex,
                    m_CmdHistorySize, editing, text, fits, commands>>
    BY <1>1 DEF lineVars
  <2>2. (LineTypes /\ BufferEnds /\ HistoryIsExact)'
    BY <2>1 DEF LineIInv, LineTypes, BufferEnds, HistoryIsExact
  <2>3. editing' => CursorIsInside'
    BY <2>1 DEF LineIInv, CursorIsInside
  <2>4. editing' /\ fits' => TextIsShown'
    BY <2>1 DEF LineIInv, TextIsShown, Denotes
  <2> QED
    BY <2>2, <2>3, <2>4 DEF LineIInv
<1>2. CASE gets_s
  BY <1>2, LineBegins
<1>3. CASE KeyReturn
  BY <1>3, LineEntered
<1>4. CASE KeyBackspace
  BY <1>4, LineDeletes
<1>5. CASE KeyUp \/ KeyDown
  BY <1>5, LineBrowsed
<1>6. CASE KeyLeft \/ KeyRight \/ KeyHome \/ KeyEnd
  BY <1>6, CursorMoves
<1>7. CASE KeyOther
  BY <1>7, LineTaken
<1>8. ASSUME NEW c \in Chars, KeyAscii(c)
      PROVE  LineIInv'
  BY <1>8, CharIsInserted
<1> QED
  BY <1>1, <1>2, <1>3, <1>4, <1>5, <1>6, <1>7, <1>8 DEF LineNext

\* What the invariant says of the buffer that CmdRun sees.
LEMMA LineIInvGives == LineIInv => LineTypeOK /\ StringIsTerminated /\ LineIsText /\ HistoryIsExact
<1> SUFFICES ASSUME LineIInv
             PROVE  LineTypeOK /\ StringIsTerminated /\ LineIsText /\ HistoryIsExact
  OBVIOUS
<1>1. LineTypes /\ BufferEnds /\ HistoryIsExact
  BY DEF LineIInv
<1>2. LineTypeOK
  BY <1>1 DEF LineTypes, LineTypeOK, Buffers
<1>3. Buffer[CHARS_PER_LINE - 1] = NUL
  <2>1. CHARS_PER_LINE - 1 \in maxBufferSize + 1 .. CHARS_PER_LINE - 1
    BY LineConstants
  <2> QED
    BY <1>1, <2>1 DEF BufferEnds
<1>4. ASSUME editing
      PROVE  cursor <= Len(StringIn(Buffer)) /\ Column = CMD_SHELL_SIZE + cursor
  <2>1. /\ cursor \in Nat /\ cursor <= maxBufferSize /\ \A k \in 0 .. cursor - 1 : Buffer[k] # NUL
        /\ Column = CMD_SHELL_SIZE + cursor
    BY <1>4, LineConstants DEF LineIInv, CursorIsInside
  <2>2. PICK n : n = strlen_s(Buffer, CHARS_PER_LINE)
    OBVIOUS
  <2>3. n \in 0 .. CHARS_PER_LINE /\ (n = CHARS_PER_LINE \/ Buffer[n] = NUL)
    BY <2>2, LineConstants, StrlenIs DEF EndsAt
  <2>4. ~(n \in 0 .. cursor - 1)
    <3>1. SUFFICES ASSUME n \in 0 .. cursor - 1 PROVE FALSE
      OBVIOUS
    <3>2. n # CHARS_PER_LINE
      BY <2>1, <3>1, LineConstants
    <3> QED
      BY <2>1, <2>3, <3>1, <3>2
  <2>5. cursor <= n
    BY <2>1, <2>3, <2>4, LineConstants
  <2>6. Len(StringIn(Buffer)) = n
    BY <1>1, <2>2, StringIs DEF LineTypes
  <2> QED
    BY <2>1, <2>5, <2>6
<1>5. ASSUME editing, fits
      PROVE  StringIn(Buffer) = text
  <2>1. text \in Seq(Chars) /\ Len(text) <= maxBufferSize - 1 /\ Len(text) \in Nat /\ Denotes(Buffer, text)
    BY <1>5 DEF LineIInv, TextIsShown, HistoryEntries
  <2>2. Len(text) <= CHARS_PER_LINE
    BY <2>1, LineConstants
  <2> QED
    BY <1>1, <2>1, <2>2, StringOf DEF LineTypes
<1> QED
  BY <1>1, <1>2, <1>3, <1>4, <1>5 DEF StringIsTerminated, LineIsText

THEOREM LineInvariantHolds == LineSpec => []LineIInv
<1> QED
  BY LineInitial, LineStep, PTL DEF LineSpec

\* However keys are pressed and typed, a press is read at most once, what is read is what was meant unless
\* handlers overlapped, the line that gets_s leaves is a string with its terminator and is the text a user
\* expects, and the history holds the last commands in their order: keyboard.c, keyboard_utils.c, for any
\* layout, number of CPUs, length of a line and of the history.
THEOREM ConsoleIsCorrect == KbdSpec /\ LineSpec => []ConsoleInv
<1>1. KbdSpec => []KeyboardInv
  <2>1. KbdIInv => KeyboardInv
    BY KbdIInvGives
  <2> QED
    BY <2>1, KeyboardInvariantHolds, PTL
<1>2. LineSpec => [](LineTypeOK /\ StringIsTerminated /\ LineIsText /\ HistoryIsExact)
  BY LineIInvGives, LineInvariantHolds, PTL
<1>3. KeyboardInv /\ LineTypeOK /\ StringIsTerminated /\ LineIsText /\ HistoryIsExact => ConsoleInv
  BY DEF ConsoleInv
<1> QED
  BY <1>1, <1>2, <1>3, PTL

=============================================================================
