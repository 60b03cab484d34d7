----------------------------- MODULE Vmm_proofs -----------------------------
(***************************************************************************)
(* Proofs about Vmm, for any number of threads, CPUs, pages and frames:    *)
(* reservations, page table and frames agree at every moment of every      *)
(* call, no frame is lost, and callers find what they wrote.               *)
(***************************************************************************)
EXTENDS Vmm, WellFoundedInduction, TLAPS

----------------------------------------------------------------------------
\* What lists of reservations say about pages.

Allocs == {"alloc", "stack", "mdl"}
Labels == {"idle", "enter", "inside", "frames", "map", "read", "uninit", "unmap"} \cup FaultLabels
Rights == {{}, {"W"}} \cup {a.rights : a \in Calls}
Entries == [start : Nat, pages : Nat, rights : Rights, file : BOOLEAN, commit : SUBSET Pages]
PageTableEntries == [frame : Frames, rights : Rights]
CallRecords == [op : Allocs \cup {"none", "release", "decommit", "fault"}, base : Nat, pages : Nat,
                reserve : BOOLEAN, commit : BOOLEAN, eager : BOOLEAN, rights : Rights, file : BOOLEAN,
                mdl : Seq(Frames), pa : Nat, pcpu : Cpus \cup {None}]

SameRegionIn(list, p, q) == \E i \in DOMAIN list : p \in Extent(list[i]) /\ q \in Extent(list[i])
CommittedIn(list, p, rights) == \E i \in DOMAIN list : p \in list[i].commit /\ list[i].rights = rights
RegionIn(list, base, n) == \E i \in DOMAIN list : IsUsed(list[i]) /\ list[i].start = base /\ list[i].pages = n

\* The entries lie below top and do not overlap.
WellFormed(list, top) ==
    /\ \A i \in DOMAIN list : IsUsed(list[i]) =>
          /\ StartPage <= list[i].start /\ 1 <= list[i].pages /\ list[i].start + list[i].pages <= top
          /\ list[i].commit \subseteq Extent(list[i])
    /\ \A i, j \in DOMAIN list : i # j => Extent(list[i]) \cap Extent(list[j]) = {}

SameRegion(p, q) == SameRegionIn(ReservationList, p, q)
Reserved(p) == SameRegion(p, p)
Committed(p, rights) == CommittedIn(ReservationList, p, rights)
IsRegion(base, n) == RegionIn(ReservationList, base, n)
Mapped(p) == pte[p] # None

VmmTyped ==
    /\ ReservationList \in Seq(Entries)
    /\ FreeVirtualAddressPointer \in StartPage .. EndPage + 1
    /\ ReservationLock \in Threads \cup {None}
    /\ VmmMemoryAccess \in [Cpus -> BOOLEAN]
    /\ pte \in [Pages -> PageTableEntries \cup {None}]
    /\ frame \in [Frames -> {"free", "used", "queued"}]
    /\ dirty \subseteq Frames
    /\ written \subseteq Pages
    /\ at \in [Threads -> Labels]
    /\ call \in [Threads -> CallRecords]
    /\ alias \subseteq [base : Nat, of : Nat, pages : Nat]

Regions == WellFormed(ReservationList, FreeVirtualAddressPointer)

----------------------------------------------------------------------------
\* Where a thread is and what it works on.

AllocStage(c) ==
    /\ 1 <= c.pages /\ (c.eager => c.commit) /\ (c.file => c.reserve)
    /\ c.op = "mdl" => c.reserve /\ c.eager /\ ~c.file /\ c.pages <= 2 /\ Len(c.mdl) = c.pages
    /\ c.op # "mdl" => c.mdl = <<>>
    /\ c.op = "stack" => ~c.file /\ IF c.reserve THEN c.pages = 1 + STACK_GUARD_PAGES /\ ~c.eager ELSE c.eager

Stage(t) ==
    /\ at[t] = "idle" => call[t] = NoCall
    /\ at[t] \in {"enter", "inside"} => call[t].op \in Allocs \cup {"release", "decommit"}
    /\ at[t] \in {"frames", "map", "read"} => call[t].op \in Allocs /\ call[t].eager
    /\ at[t] \in {"frames", "read"} => call[t].op # "mdl"
    /\ at[t] = "read" => call[t].file
    /\ at[t] = "uninit" => call[t].op = "release"
    /\ at[t] = "unmap" => call[t].op \in {"release", "decommit"}
    /\ at[t] \in FaultLabels <=> call[t].op = "fault"
    /\ call[t].op \in {"fault", "decommit"} => call[t].pages = 1
    /\ at[t] \in {"uninit", "unmap"} => 1 <= call[t].pages
    /\ ReservationLock = t <=> at[t] = "inside"
    /\ at[t] \in {"inside", "uninit"} => call[t].pcpu \in Cpus
    /\ call[t].op \in Allocs => AllocStage(call[t])

Entering(t) == at[t] \in {"enter", "inside"}
Reserving(t) == Entering(t) /\ call[t].op \in Allocs /\ call[t].reserve
Span(t) == Run(call[t].base, call[t].pages)

\* The pages a thread works on.
Owns(t) ==
    CASE Entering(t) /\ call[t].op = "release" -> {p \in Pages : SameRegion(call[t].base, p)}
      [] Entering(t) /\ call[t].op \in {"alloc", "stack"} /\ ~call[t].reserve ->
             {p \in Span(t) : SameRegion(call[t].base, p)}
      [] OTHER -> Span(t)

Placed(t) ==
    /\ \A p \in Owns(t) : StartPage <= p /\ p < FreeVirtualAddressPointer
    /\ Reserving(t) => \A p \in Span(t) : ~Reserved(p)
    /\ Entering(t) /\ ~Reserving(t) => Reserved(call[t].base)
    /\ at[t] \in {"frames", "map", "read"} \cup FaultLabels => \A p \in Span(t) : Committed(p, call[t].rights)
    /\ at[t] \in {"frames", "map", "read"} /\ call[t].reserve => IsRegion(call[t].base, call[t].pages)

Apart == \A t, u \in Threads : t # u =>
    Owns(t) \cap Owns(u) = {} \/ (call[t].op = "fault" /\ call[u].op = "fault")

----------------------------------------------------------------------------
\* What is mapped.

\* Frames that a thread has taken and will map.
HasFrames(t) == (at[t] = "map" /\ call[t].op # "mdl") \/ at[t] = "pf_map"
Hand(t) == Run(call[t].pa, call[t].pages)
HandIsReady(t) == HasFrames(t) =>
    /\ \A f \in Hand(t) : f \in Frames /\ frame[f] = "used" /\ f \notin dirty
    /\ \A p \in Pages : Mapped(p) => pte[p].frame \notin Hand(t)

\* What a thread has mapped is there.
IsFilled(t) ==
    /\ at[t] = "read" => \A p \in Span(t) : Mapped(p) /\ pte[p].frame = call[t].pa + (p - call[t].base)
    /\ at[t] = "pf_fill" => Mapped(call[t].base)

\* A thread that creates a region, or will map it at once, finds nothing mapped.
Building(t) == call[t].op \in Allocs /\ (call[t].reserve \/ call[t].eager)
IsEmpty(t) ==
    /\ Building(t) /\ at[t] # "read" => \A p \in Owns(t) : ~Mapped(p)
    /\ ~contended /\ at[t] \in {"pf_frame", "pf_map"} => ~Mapped(call[t].base)

\* The pages of an MDL, and those mapped over it.
Of(r) == Run(r.of, r.pages)
Copy(r) == Run(r.base, r.pages)
Twin(r, p) == r.base + (p - r.of)
IsShared(p) == \E r \in alias : p \in Of(r)
IsCopy(p) == \E r \in alias : p \in Copy(r)
Private(p) == ~IsShared(p) /\ ~IsCopy(p)

\* Who works on pages does not share them, or is the one that gives a copy back.
IsPrivate(t) ==
    /\ call[t].op \in {"fault", "decommit"} \/ (Building(t) /\ call[t].op # "mdl") =>
          \A p \in Owns(t) : Private(p)
    /\ call[t].op \in {"mdl", "release"} => \A p \in Owns(t) : ~IsShared(p)
    /\ call[t].op = "release" => \A r \in alias : Copy(r) = Owns(t) \/ Copy(r) \cap Owns(t) = {}

\* What nobody has written yet.
IsClean(t) ==
    /\ at[t] = "read" => \A p \in Owns(t) : p \notin written
    /\ ~contended /\ call[t].op = "fault" => call[t].base \notin written

Works(t) == HandIsReady(t) /\ IsFilled(t) /\ IsEmpty(t) /\ IsPrivate(t) /\ IsClean(t)
Workers == \A t \in Threads : Works(t)

HandsApart == \A t, u \in Threads : HasFrames(t) /\ HasFrames(u) /\ t # u => Hand(t) \cap Hand(u) = {}
FaultsApart == ~contended => \A t, u \in Threads :
    t # u /\ call[t].op = "fault" /\ call[u].op = "fault" => call[t].base # call[u].base

\* A copy is being made, there, or being given back.
Shows(t, r) == call[t].op = "mdl" /\ call[t].base = r.base /\ call[t].pages = r.pages
Describes(t, r) == Shows(t, r) /\ \A p \in Of(r) : call[t].mdl[p - r.of + 1] = pte[p].frame
Releases(t, r) == call[t].op = "release" /\ at[t] \in {"uninit", "unmap"} /\ call[t].base = r.base /\ call[t].pages = r.pages
AliasStands(r) ==
    /\ StartPage <= r.of /\ 1 <= r.pages /\ r.of + r.pages <= r.base /\ r.base + r.pages <= FreeVirtualAddressPointer
    /\ \A p \in Of(r) : Mapped(p) /\ (Mapped(Twin(r, p)) => pte[Twin(r, p)].frame = pte[p].frame)
    /\ \/ \E t \in Threads : Describes(t, r)
       \/ /\ \A p \in Copy(r) : Mapped(p)
          /\ IsRegion(r.base, r.pages) \/ \E t \in Threads : Releases(t, r)
Aliases ==
    /\ \A r \in alias : AliasStands(r)
    /\ \A r, s \in alias : r # s => Copy(r) \cap Copy(s) = {} /\ Of(r) \cap Of(s) = {}
    /\ \A t \in Threads : call[t].op = "mdl" => \E r \in alias : Shows(t, r)

\* Of two pages with one frame the lower one has a copy, not behind the other, which is one.
HasCopyBelow(p, q) == \E r \in alias : p \in Of(r) /\ Mapped(Twin(r, p)) /\ Twin(r, p) <= q
FrameUse ==
    /\ \A p \in Pages : Mapped(p) => frame[pte[p].frame] = "used"
    /\ \A p, q \in Pages : p < q /\ Mapped(p) /\ Mapped(q) /\ pte[p].frame = pte[q].frame =>
          HasCopyBelow(p, q) /\ IsCopy(q)
    /\ \A f \in Frames : frame[f] = "free" => f \notin dirty

InUse(f) == \/ \E p \in Pages : Mapped(p) /\ pte[p].frame = f
            \/ \E t \in Threads : HasFrames(t) /\ f \in Hand(t)
FramesInUse == ~contended => \A f \in Frames : frame[f] = "used" => InUse(f)

Leaves(t, p) == at[t] \in {"uninit", "unmap"} /\ p \in Owns(t)
MappedAreCommitted == \A p \in Pages :
    Mapped(p) => Committed(p, pte[p].rights) \/ \E t \in Threads : Leaves(t, p)

Given(p) == \E t \in Threads : call[t].op \in {"release", "decommit"} /\ p \in Owns(t)
Contents ==
    /\ \A p \in written : Mapped(p) /\ ~Given(p)
    /\ ~contended => \A p \in Pages : Mapped(p) /\ ~Given(p) => (pte[p].frame \in dirty <=> p \in written)

Marks == \A t \in Threads : at[t] = "inside" /\ ~preempted =>
    /\ VmmMemoryAccess[call[t].pcpu]
    /\ \A u \in Threads : at[u] = "uninit" => call[u].pcpu # call[t].pcpu

Places == \A t \in Threads : Placed(t)
Stages == \A t \in Threads : Stage(t)

ControlIInv == VmmTyped /\ Regions /\ Stages /\ Places /\ Apart /\ Marks
MemoryIInv == Workers /\ HandsApart /\ FaultsApart /\ Aliases /\ FrameUse /\ FramesInUse /\ MappedAreCommitted /\ Contents
VmmIInv == ControlIInv /\ MemoryIInv

----------------------------------------------------------------------------
\* Numbers

\* Every set of numbers has a least element; induction over numbers in the form the
\* provers can use.
LEMMA Least ==
    ASSUME NEW T, T \subseteq Nat, T # {}
    PROVE  \E x \in T : \A y \in T : x <= y
<1> DEFINE R == {ss \in Nat \X Nat : ss[1] < ss[2]}
<1>1. IsWellFoundedOn(R, Nat)
  BY NatLessThanWellFounded DEF OpToRel
<1> HIDE DEF R
<1>2. PICK x \in T : \A y \in T : ~ (<<y, x>> \in R)
  BY <1>1, WFMin
<1>3. ASSUME NEW y \in T
      PROVE  x <= y
  <2>1. x \in Nat /\ y \in Nat /\ <<y, x>> \notin R
    BY <1>2
  <2>2. ~(y < x)
    BY <2>1 DEF R
  <2> QED
    BY <2>1, <2>2
<1> QED
  BY <1>3


LEMMA MinIsLeast ==
    ASSUME NEW S, S \subseteq Nat, S # {}
    PROVE  Min(S) \in S /\ \A x \in S : Min(S) <= x
BY Least DEF Min

\* What DIV gives.
LEMMA Division ==
    ASSUME NEW a \in Nat, NEW p \in Nat \ {0}
    PROVE  a \div p \in Nat /\ a % p \in 0 .. p - 1 /\ a = p * (a \div p) + (a % p)
  OBVIOUS

LEMMA Quotient ==
    ASSUME NEW a \in Nat, NEW p \in Nat \ {0}, NEW f \in Nat, NEW s \in 0 .. p - 1, a = p * f + s
    PROVE  a \div p = f /\ a % p = s
<1>1. PICK q \in Nat, r \in 0 .. p - 1 : q = a \div p /\ r = a % p /\ a = p * q + r
  BY Division
<1>2. p * f + s = p * q + r /\ p * f \in Int /\ p * q \in Int
  BY <1>1
<1>3. q = f
  <2>1. CASE q < f
    <3>1. p * (f - q - 1) >= 0 /\ p * (f - q - 1) = p * f - p * q - p
      BY <2>1
    <3> QED
      BY <1>2, <3>1
  <2>2. CASE f < q
    <3>1. p * (q - f - 1) >= 0 /\ p * (q - f - 1) = p * q - p * f - p
      BY <2>2
    <3> QED
      BY <1>2, <3>1
  <2> QED
    BY <2>1, <2>2
<1> QED
  BY <1>1, <1>2, <1>3

\* Some pages hold a byte, n pages hold n * PAGE_SIZE bytes.
LEMMA PageCounts ==
    /\ \A address \in Nat, size \in Nat \ {0} :
          FirstPage(address) \in Nat /\ PageCount(address, size) \in Nat /\ 1 <= PageCount(address, size)
    /\ \A n \in Nat : PageCount(0, n * PAGE_SIZE) = n
    /\ FirstPage(0) = 0
<1> DEFINE P == PAGE_SIZE
<1>0. P \in Nat \ {0}
  BY VmmAssumption
<1> HIDE DEF P
<1>1. ASSUME NEW address \in Nat, NEW size \in Nat \ {0}
      PROVE  FirstPage(address) \in Nat /\ PageCount(address, size) \in Nat /\ 1 <= PageCount(address, size)
  <2> DEFINE x == (address % P) + size + P - 1
  <2>1. address \div P \in Nat /\ address % P \in 0 .. P - 1
    BY <1>0, Division
  <2>2. x \in Nat /\ x >= P
    BY <1>0, <2>1
  <2> HIDE DEF x
  <2>3. PICK q \in Nat, r \in 0 .. P - 1 : q = x \div P /\ x = P * q + r
    BY <1>0, <2>2, Division
  <2>4. q # 0
    <3>1. P * 0 = 0
      BY <1>0
    <3> QED
      BY <1>0, <2>2, <2>3, <3>1
  <2>5. FirstPage(address) \in Nat /\ PageCount(address, size) = q
    BY <2>1, <2>3 DEF FirstPage, PageCount, P, x
  <2> QED
    BY <2>4, <2>5
<1>2. ASSUME NEW n \in Nat PROVE PageCount(0, n * P) = n
  <2>1. 0 = P * 0 + 0 /\ 0 \in 0 .. P - 1 /\ P - 1 \in 0 .. P - 1 /\ n * P = P * n /\ P * n \in Nat
    BY <1>0
  <2>2. 0 % P = 0
    BY <1>0, <2>1, Quotient
  <2> DEFINE x == (0 % P) + n * P + P - 1
  <2>3. x \in Nat /\ x = P * n + (P - 1)
    BY <1>0, <2>1, <2>2
  <2> HIDE DEF x
  <2>4. x \div P = n
    BY <1>0, <2>1, <2>3, Quotient
  <2> QED
    BY <2>4 DEF PageCount, P, x
<1>3. FirstPage(0) = 0
  <2>1. 0 = P * 0 + 0 /\ 0 \in 0 .. P - 1
    BY <1>0
  <2> QED
    BY <1>0, <2>1, Quotient DEF FirstPage, P
<1> QED
  BY <1>1, <1>2, <1>3 DEF P

----------------------------------------------------------------------------
\* What the functions on the list of reservations find and change.

LEMMA FreeEntryIsEntry == FreeEntry \in Entries /\ Extent(FreeEntry) = {} /\ FreeEntry.commit = {}
<1>1. Extent(FreeEntry) = {}
  BY DEF Extent, FreeEntry, Run
<1> QED
  BY <1>1 DEF FreeEntry, Entries, Rights

LEMMA ExtentOf ==
    ASSUME NEW r \in Entries, NEW p
    PROVE  p \in Extent(r) <=> p \in Int /\ r.start <= p /\ p < r.start + r.pages
BY DEF Extent, Run, Entries

\* _VmFindReservation finds an entry the range lies in, if there is one.
LEMMA FindFacts ==
    ASSUME NEW list \in Seq(Entries), NEW base, NEW n
    PROVE  LET i == FindReservation(list, base, n)
           IN  \/ /\ i \in DOMAIN list /\ i # 0
                  /\ IsUsed(list[i]) /\ Run(base, n) \subseteq Extent(list[i])
               \/ /\ i = 0
                  /\ \A j \in DOMAIN list : ~(IsUsed(list[j]) /\ Run(base, n) \subseteq Extent(list[j]))
<1> DEFINE found == {i \in DOMAIN list : IsUsed(list[i]) /\ Run(base, n) \subseteq Extent(list[i])}
<1>1. found \subseteq Nat /\ 0 \notin DOMAIN list
  OBVIOUS
<1>2. CASE found = {}
  BY <1>2 DEF FindReservation
<1>3. CASE found # {}
  <2>1. Min(found) \in found
    BY <1>1, <1>3, MinIsLeast
  <2>2. FindReservation(list, base, n) = Min(found)
    BY <1>3 DEF FindReservation
  <2> QED
    BY <1>1, <2>1, <2>2
<1> QED
  BY <1>2, <1>3

\* The entry of one page: its pages are the page's region.
LEMMA FindOne ==
    ASSUME NEW list \in Seq(Entries), NEW top, WellFormed(list, top), NEW p \in Nat
    PROVE  LET i == FindReservation(list, p, 1)
           IN  /\ SameRegionIn(list, p, p) <=> i # 0
               /\ i # 0 => /\ i \in DOMAIN list /\ IsUsed(list[i]) /\ p \in Extent(list[i])
                           /\ \A q : SameRegionIn(list, p, q) <=> q \in Extent(list[i])
                           /\ \A rights : CommittedIn(list, p, rights) <=>
                                 p \in list[i].commit /\ list[i].rights = rights
<1> DEFINE i == FindReservation(list, p, 1)
<1>1. Run(p, 1) = {p}
  BY DEF Run
<1>2. \A j \in DOMAIN list : p \in Extent(list[j]) => IsUsed(list[j])
  BY FreeEntryIsEntry DEF IsUsed
<1>3. CASE i = 0
  <2>1. \A j \in DOMAIN list : ~(IsUsed(list[j]) /\ Run(p, 1) \subseteq Extent(list[j]))
    BY <1>3, FindFacts
  <2> QED
    BY <1>1, <1>2, <1>3, <2>1 DEF SameRegionIn
<1>4. CASE i # 0
  <2>1. i \in DOMAIN list /\ IsUsed(list[i]) /\ p \in Extent(list[i])
    BY <1>1, <1>4, FindFacts
  <2>2. \A j \in DOMAIN list : p \in Extent(list[j]) => j = i
    BY <2>1 DEF WellFormed
  <2>3. \A j \in DOMAIN list : p \in list[j].commit => j = i
    BY <2>2, FreeEntryIsEntry DEF WellFormed, IsUsed
  <2> QED
    BY <1>4, <2>1, <2>2, <2>3 DEF SameRegionIn, CommittedIn
<1> QED
  BY <1>3, <1>4

LEMMA FirstFree ==
    ASSUME NEW list \in Seq(Entries)
    PROVE  LET i == FirstFreeReservation(list)
           IN  /\ i \in 1 .. Len(list) + 1
               /\ i \in DOMAIN list => list[i] = FreeEntry
<1> DEFINE free == {i \in DOMAIN list : ~IsUsed(list[i])} \cup {Len(list) + 1}
<1>1. free \subseteq Nat /\ free # {}
  OBVIOUS
<1>2. FirstFreeReservation(list) \in free
  BY <1>1, MinIsLeast DEF FirstFreeReservation
<1> QED
  BY <1>2 DEF IsUsed

\* _VmInitializeReservation adds one region where there was none.
Adds(list, new, top, a) ==
    /\ new \in Seq(Entries) /\ WellFormed(new, top)
    /\ \A p, q : SameRegionIn(new, p, q) <=> SameRegionIn(list, p, q) \/ {p, q} \subseteq Run(a.base, a.pages)
    /\ \A p, rights : CommittedIn(new, p, rights) <=> CommittedIn(list, p, rights)
    /\ \A b, n : RegionIn(new, b, n) <=> RegionIn(list, b, n) \/ (b = a.base /\ n = a.pages)
    /\ CanCommit(new, a)

LEMMA InitializeAdds ==
    ASSUME NEW list \in Seq(Entries), NEW top \in Nat, WellFormed(list, top),
           NEW a \in CallRecords, 1 <= a.pages, StartPage <= a.base, a.base + a.pages <= top,
           \A p \in Run(a.base, a.pages) : ~SameRegionIn(list, p, p),
           NEW new, new = InitializeReservation(list, a)
    PROVE  Adds(list, new, top, a)
<1> DEFINE r == [start |-> a.base, pages |-> a.pages, rights |-> a.rights, file |-> a.file, commit |-> {}]
           i == FirstFreeReservation(list)
           m == Max({Len(list), i})
<1>1. i \in 1 .. Len(list) + 1 /\ (i \in DOMAIN list => list[i] = FreeEntry)
  BY FirstFree
<1>2. m = IF i <= Len(list) THEN Len(list) ELSE i
  BY <1>1 DEF Max
<1>3. r \in Entries
  BY DEF Entries, CallRecords
<1>4. new = [j \in 1 .. m |-> IF j = i THEN r ELSE list[j]]
  BY DEF InitializeReservation
<1> HIDE DEF i, m, r
<1>5. m \in Nat /\ \A j \in 1 .. m : j = i \/ j \in DOMAIN list
  <2>1. Len(list) \in Nat /\ DOMAIN list = 1 .. Len(list)
    OBVIOUS
  <2> QED
    BY <1>1, <1>2, <2>1
<1>6. new \in Seq(Entries) /\ DOMAIN new = 1 .. m /\ i \in 1 .. m /\ DOMAIN list \subseteq 1 .. m
  <2>1. \A j \in 1 .. m : new[j] \in Entries
    BY <1>3, <1>4, <1>5
  <2>2. Len(list) \in Nat /\ DOMAIN list = 1 .. Len(list)
    OBVIOUS
  <2>3. DOMAIN new = 1 .. m /\ i \in 1 .. m /\ DOMAIN list \subseteq 1 .. m
    BY <1>1, <1>2, <1>4, <2>2
  <2> QED
    BY <1>4, <1>5, <2>1, <2>3
<1>7. new[i] = r /\ \A j \in DOMAIN new : j # i => j \in DOMAIN list /\ new[j] = list[j]
  BY <1>4, <1>5, <1>6
<1>8. r.start = a.base /\ r.pages = a.pages /\ r.rights = a.rights /\ r.commit = {} /\ Extent(r) = Run(a.base, a.pages)
  BY DEF Extent, r
<1>9. \A j \in DOMAIN list : list[j] = new[j] \/ (j = i /\ list[j] = FreeEntry)
  BY <1>1, <1>4, <1>6
<1>10. IsUsed(r)
  BY <1>8 DEF IsUsed, FreeEntry, CallRecords
<1>11. \A p, q : SameRegionIn(new, p, q) <=> SameRegionIn(list, p, q) \/ {p, q} \subseteq Run(a.base, a.pages)
  BY <1>6, <1>7, <1>8, <1>9, FreeEntryIsEntry DEF SameRegionIn
<1>12. \A p, rights : CommittedIn(new, p, rights) <=> CommittedIn(list, p, rights)
  BY <1>6, <1>7, <1>8, <1>9, FreeEntryIsEntry DEF CommittedIn
<1>13. \A b, n : RegionIn(new, b, n) <=> RegionIn(list, b, n) \/ (b = a.base /\ n = a.pages)
  BY <1>6, <1>7, <1>8, <1>9, <1>10 DEF RegionIn, IsUsed
<1>14. WellFormed(new, top)
  <2>1. \A j \in DOMAIN new : j # i => Extent(new[j]) \cap Extent(new[i]) = {}
    BY <1>7, <1>8 DEF SameRegionIn
  <2>2. \A j, k \in DOMAIN new : j # k => Extent(new[j]) \cap Extent(new[k]) = {}
    BY <1>7, <2>1 DEF WellFormed
  <2>3. \A j \in DOMAIN new : IsUsed(new[j]) =>
          /\ StartPage <= new[j].start /\ 1 <= new[j].pages /\ new[j].start + new[j].pages <= top
          /\ new[j].commit \subseteq Extent(new[j])
    BY <1>7, <1>8 DEF WellFormed
  <2> QED
    BY <2>2, <2>3 DEF WellFormed
<1>15. CanCommit(new, a)
  <2>1. Run(a.base, a.pages) # {} /\ a.base \in Run(a.base, a.pages)
    BY DEF Run, CallRecords
  <2>2. \A j \in DOMAIN new : Run(a.base, a.pages) \subseteq Extent(new[j]) => j = i
    BY <1>6, <1>7, <1>8, <1>14, <2>1 DEF WellFormed
  <2> DEFINE k == FindReservation(new, a.base, a.pages)
  <2>3. k = i
    <3>1. i \in DOMAIN new /\ IsUsed(new[i]) /\ Run(a.base, a.pages) \subseteq Extent(new[i])
      BY <1>6, <1>7, <1>8, <1>10
    <3>2. k \in DOMAIN new /\ Run(a.base, a.pages) \subseteq Extent(new[k])
      BY <1>6, <3>1, FindFacts
    <3> QED
      BY <2>2, <3>2
  <2>4. i # 0
    BY <1>1
  <2> QED
    BY <1>7, <1>8, <2>3, <2>4 DEF CanCommit
<1> QED
  BY <1>6, <1>11, <1>12, <1>13, <1>14, <1>15 DEF Adds

\* _VmCommitReservation commits the range in its region.
Commits(list, new, top, a) ==
    /\ new \in Seq(Entries) /\ WellFormed(new, top)
    /\ \A p, q : SameRegionIn(new, p, q) <=> SameRegionIn(list, p, q)
    /\ \A p, rights : CommittedIn(new, p, rights) <=>
          CommittedIn(list, p, rights) \/ (p \in Run(a.base, a.pages) /\ rights = a.rights)
    /\ \A b, n : RegionIn(new, b, n) <=> RegionIn(list, b, n)
    /\ \A p, q \in Run(a.base, a.pages) : SameRegionIn(new, p, q)

LEMMA CommitAdds ==
    ASSUME NEW list \in Seq(Entries), NEW top \in Nat, WellFormed(list, top), top <= EndPage + 1,
           NEW a \in CallRecords, 1 <= a.pages, CanCommit(list, a),
           NEW new, new = CommitReservation(list, a)
    PROVE  Commits(list, new, top, a)
<1> DEFINE i == FindReservation(list, a.base, a.pages)
           R == Run(a.base, a.pages)
<1>1. i # 0 /\ list[i].rights = a.rights
  BY DEF CanCommit
<1>2. i \in DOMAIN list /\ IsUsed(list[i]) /\ R \subseteq Extent(list[i])
  BY <1>1, FindFacts
<1>3. Extent(list[i]) \subseteq Pages
  <2>1. StartPage <= list[i].start /\ list[i].start + list[i].pages <= top /\ list[i] \in Entries
    BY <1>2 DEF WellFormed
  <2> QED
    BY <2>1, VmmAssumption DEF Extent, Run, Pages, Entries
<1>4. new = [list EXCEPT ![i] = [list[i] EXCEPT !.commit = list[i].commit \cup R]]
  BY <1>2 DEF CommitReservation
<1> HIDE DEF i
<1> DEFINE r == [list[i] EXCEPT !.commit = list[i].commit \cup R]
<1>5. /\ r \in Entries /\ r.start = list[i].start /\ r.pages = list[i].pages /\ r.rights = list[i].rights
      /\ r.commit = list[i].commit \cup R /\ Extent(r) = Extent(list[i])
  <2>1. list[i] \in Entries /\ R \subseteq Pages
    BY <1>2, <1>3
  <2> QED
    BY <2>1 DEF Entries, Extent
<1>6. IsUsed(r)
  <2>1. 1 <= r.pages
    BY <1>2, <1>5 DEF WellFormed
  <2> QED
    BY <2>1 DEF IsUsed, FreeEntry
<1> HIDE DEF r, R
<1>7. new \in Seq(Entries) /\ DOMAIN new = DOMAIN list /\ new[i] = r /\ \A j \in DOMAIN list : j # i => new[j] = list[j]
  BY <1>2, <1>4, <1>5 DEF r
<1>8. \A p, q : SameRegionIn(new, p, q) <=> SameRegionIn(list, p, q)
  BY <1>2, <1>5, <1>7 DEF SameRegionIn
<1>9. \A p, rights : CommittedIn(new, p, rights) <=>
        CommittedIn(list, p, rights) \/ (p \in R /\ rights = a.rights)
  BY <1>1, <1>2, <1>5, <1>7 DEF CommittedIn
<1>10. \A b, n : RegionIn(new, b, n) <=> RegionIn(list, b, n)
  BY <1>2, <1>5, <1>6, <1>7 DEF RegionIn
<1>11. WellFormed(new, top)
  <2>1. \A j, k \in DOMAIN new : j # k => Extent(new[j]) \cap Extent(new[k]) = {}
    BY <1>2, <1>5, <1>7 DEF WellFormed
  <2>2. list[i].commit \subseteq Extent(list[i])
    BY <1>2 DEF WellFormed
  <2>3. \A j \in DOMAIN new : IsUsed(new[j]) =>
          /\ StartPage <= new[j].start /\ 1 <= new[j].pages /\ new[j].start + new[j].pages <= top
          /\ new[j].commit \subseteq Extent(new[j])
    BY <1>2, <1>5, <1>7, <2>2 DEF WellFormed, R
  <2> QED
    BY <2>1, <2>3 DEF WellFormed
<1>12. \A p, q \in R : SameRegionIn(new, p, q)
  BY <1>2, <1>5, <1>7 DEF SameRegionIn, R
<1> QED
  BY <1>7, <1>8, <1>9, <1>10, <1>11, <1>12 DEF R, Commits

\* _VmDecommitReservation takes one page back.
Decommits(list, new, top, p) ==
    /\ new \in Seq(Entries) /\ WellFormed(new, top)
    /\ \A q, r : SameRegionIn(new, q, r) <=> SameRegionIn(list, q, r)
    /\ \A q, rights : CommittedIn(new, q, rights) <=> CommittedIn(list, q, rights) /\ q # p
    /\ \A b, n : RegionIn(new, b, n) <=> RegionIn(list, b, n)

LEMMA DecommitTakes ==
    ASSUME NEW list \in Seq(Entries), NEW top \in Nat, WellFormed(list, top),
           NEW a \in CallRecords, a.pages = 1, SameRegionIn(list, a.base, a.base),
           NEW new, new = DecommitReservation(list, a)
    PROVE  Decommits(list, new, top, a.base)
<1> DEFINE i == FindReservation(list, a.base, 1)
<1>1. a.base \in Nat
  BY DEF CallRecords
<1>2. i # 0 /\ i \in DOMAIN list /\ IsUsed(list[i]) /\ a.base \in Extent(list[i])
  BY <1>1, FindOne
<1>3. Run(a.base, a.pages) = {a.base}
  BY <1>1 DEF Run
<1>4. new = [list EXCEPT ![i] = [list[i] EXCEPT !.commit = list[i].commit \ {a.base}]]
  BY <1>2, <1>3 DEF DecommitReservation
<1>5. \A j \in DOMAIN list : j # i => a.base \notin list[j].commit
  BY <1>2, FreeEntryIsEntry DEF WellFormed, IsUsed
<1> HIDE DEF i
<1> DEFINE r == [list[i] EXCEPT !.commit = list[i].commit \ {a.base}]
<1>6. /\ r \in Entries /\ r.start = list[i].start /\ r.pages = list[i].pages /\ r.rights = list[i].rights
      /\ r.commit = list[i].commit \ {a.base} /\ Extent(r) = Extent(list[i])
  <2>1. list[i] \in Entries
    BY <1>2
  <2> QED
    BY <2>1 DEF Entries, Extent
<1>7. IsUsed(r)
  <2>1. 1 <= r.pages
    BY <1>2, <1>6 DEF WellFormed
  <2> QED
    BY <2>1 DEF IsUsed, FreeEntry
<1> HIDE DEF r
<1>8. new \in Seq(Entries) /\ DOMAIN new = DOMAIN list /\ new[i] = r /\ \A j \in DOMAIN list : j # i => new[j] = list[j]
  BY <1>2, <1>4, <1>6 DEF r
<1>9. \A p, q : SameRegionIn(new, p, q) <=> SameRegionIn(list, p, q)
  BY <1>2, <1>6, <1>8 DEF SameRegionIn
<1>10. \A p, rights : CommittedIn(new, p, rights) <=> CommittedIn(list, p, rights) /\ p # a.base
  BY <1>2, <1>5, <1>6, <1>8 DEF CommittedIn
<1>11. \A b, n : RegionIn(new, b, n) <=> RegionIn(list, b, n)
  BY <1>2, <1>6, <1>7, <1>8 DEF RegionIn
<1>12. WellFormed(new, top)
  <2>1. \A j, k \in DOMAIN new : j # k => Extent(new[j]) \cap Extent(new[k]) = {}
    BY <1>2, <1>6, <1>8 DEF WellFormed
  <2>2. \A j \in DOMAIN new : IsUsed(new[j]) =>
          /\ StartPage <= new[j].start /\ 1 <= new[j].pages /\ new[j].start + new[j].pages <= top
          /\ new[j].commit \subseteq Extent(new[j])
    BY <1>2, <1>6, <1>8 DEF WellFormed
  <2> QED
    BY <2>1, <2>2 DEF WellFormed
<1> QED
  BY <1>8, <1>9, <1>10, <1>11, <1>12 DEF Decommits

\* A freed entry takes its region away.
Takes(list, new, top, base, i) ==
    /\ new \in Seq(Entries) /\ WellFormed(new, top)
    /\ \A p, q : SameRegionIn(new, p, q) <=> SameRegionIn(list, p, q) /\ ~SameRegionIn(list, base, p)
    /\ \A p, rights : CommittedIn(new, p, rights) <=> CommittedIn(list, p, rights) /\ ~SameRegionIn(list, base, p)
    /\ \A b, n : RegionIn(new, b, n) <=> RegionIn(list, b, n) /\ b # list[i].start
    /\ 1 <= list[i].pages /\ RegionIn(list, list[i].start, list[i].pages)
    /\ \A n : RegionIn(list, list[i].start, n) => n = list[i].pages
    /\ \A p : SameRegionIn(list, base, p) <=> p \in Run(list[i].start, list[i].pages)

LEMMA RemoveTakes ==
    ASSUME NEW list \in Seq(Entries), NEW top \in Nat, WellFormed(list, top),
           NEW base \in Nat, SameRegionIn(list, base, base),
           NEW i, i = FindReservation(list, base, 1),
           NEW new, new = [list EXCEPT ![i] = FreeEntry]
    PROVE  Takes(list, new, top, base, i)
<1>1. /\ i # 0 /\ i \in DOMAIN list /\ IsUsed(list[i]) /\ base \in Extent(list[i])
      /\ \A q : SameRegionIn(list, base, q) <=> q \in Extent(list[i])
  BY FindOne
<1>2. new \in Seq(Entries) /\ DOMAIN new = DOMAIN list /\ new[i] = FreeEntry /\ \A j \in DOMAIN list : j # i => new[j] = list[j]
  BY <1>1, FreeEntryIsEntry
<1>3. 1 <= list[i].pages /\ list[i] \in Entries
  BY <1>1 DEF WellFormed
<1>4. \A j \in DOMAIN list : j # i => Extent(list[j]) \cap Extent(list[i]) = {}
  BY <1>1 DEF WellFormed
<1>5. \A p, q : SameRegionIn(new, p, q) <=> SameRegionIn(list, p, q) /\ ~SameRegionIn(list, base, p)
  BY <1>1, <1>2, <1>4, FreeEntryIsEntry DEF SameRegionIn
<1>6. \A p, rights : CommittedIn(new, p, rights) <=> CommittedIn(list, p, rights) /\ ~SameRegionIn(list, base, p)
  <2>1. \A j \in DOMAIN list : list[j].commit \subseteq Extent(list[j])
    BY FreeEntryIsEntry DEF WellFormed, IsUsed
  <2> QED
    BY <1>1, <1>2, <1>4, <2>1, FreeEntryIsEntry DEF CommittedIn
<1>7. /\ \A b, n : RegionIn(new, b, n) <=> RegionIn(list, b, n) /\ b # list[i].start
      /\ \A n : RegionIn(list, list[i].start, n) => n = list[i].pages
  <2>1. \A j \in DOMAIN list : IsUsed(list[j]) /\ list[j].start = list[i].start => j = i
    <3> SUFFICES ASSUME NEW j \in DOMAIN list, IsUsed(list[j]), list[j].start = list[i].start PROVE j = i
      OBVIOUS
    <3>1. 1 <= list[j].pages /\ list[j] \in Entries
      BY DEF WellFormed
    <3>2. list[i].start \in Extent(list[j]) /\ list[i].start \in Extent(list[i])
      BY <1>3, <3>1 DEF Extent, Run, Entries
    <3> QED
      BY <1>4, <3>2
  <2> QED
    BY <1>1, <1>2, <2>1 DEF RegionIn, IsUsed
<1>8. WellFormed(new, top)
  BY <1>2, FreeEntryIsEntry DEF WellFormed, IsUsed
<1> QED
  BY <1>1, <1>2, <1>3, <1>5, <1>6, <1>7, <1>8 DEF RegionIn, Extent, Takes

----------------------------------------------------------------------------
\* Steps of one thread.

OthersSame(t) == \A u \in Threads : u # t =>
    at'[u] = at[u] /\ call'[u] = call[u] /\ Owns(u)' = Owns(u)

\* What a thread works on changes with its region only.
LEMMA OwnsSame ==
    ASSUME NEW u \in Threads, at'[u] = at[u], call'[u] = call[u],
           Entering(u) /\ ~Reserving(u) => \A p : SameRegion(call[u].base, p)' <=> SameRegion(call[u].base, p)
    PROVE  Owns(u)' = Owns(u)
<1>1. (Entering(u)' <=> Entering(u)) /\ Span(u)' = Span(u)
  BY DEF Entering, Span
<1>2. CASE Entering(u) /\ call[u].op = "release"
  BY <1>1, <1>2 DEF Owns, Reserving, Allocs
<1>3. CASE Entering(u) /\ call[u].op \in {"alloc", "stack"} /\ ~call[u].reserve
  BY <1>1, <1>3 DEF Owns, Reserving
<1>4. CASE ~(Entering(u) /\ call[u].op = "release") /\ ~(Entering(u) /\ call[u].op \in {"alloc", "stack"} /\ ~call[u].reserve)
  BY <1>1, <1>4 DEF Owns
<1> QED
  BY <1>2, <1>3, <1>4

LEMMA ListSame ==
    ASSUME NEW t \in Threads, UNCHANGED ReservationList,
           \A u \in Threads : u # t => at'[u] = at[u] /\ call'[u] = call[u]
    PROVE  OthersSame(t)
BY OwnsSame DEF OthersSame, SameRegion, SameRegionIn

LEMMA SpanOwned ==
    ASSUME NEW t \in Threads, ~(Entering(t) /\ call[t].op = "release"),
           ~(Entering(t) /\ call[t].op \in {"alloc", "stack"} /\ ~call[t].reserve)
    PROVE  Owns(t) = Span(t)
BY DEF Owns

LEMMA SpanOwnedNext ==
    ASSUME NEW t \in Threads, ~(Entering(t)' /\ call'[t].op = "release"),
           ~(Entering(t)' /\ call'[t].op \in {"alloc", "stack"} /\ ~call'[t].reserve)
    PROVE  Owns(t)' = Span(t)'
BY DEF Owns

\* An idle thread works on nothing.
LEMMA IdleOwnsNothing ==
    ASSUME NEW t \in Threads, call'[t] = NoCall, at'[t] = "idle"
    PROVE  Owns(t)' = {} /\ (Stage(t)' <=> ReservationLock' # t)
<1>1. Owns(t)' = Span(t)'
  BY SpanOwnedNext DEF Entering
<1>2. Span(t)' = {}
  BY DEF Span, Run, NoCall
<1> QED
  BY <1>1, <1>2 DEF Stage, NoCall, FaultLabels, Allocs

LEMMA RegionsAreBelow ==
    ASSUME VmmTyped, Regions, NEW p, NEW q, SameRegion(p, q)
    PROVE  p \in Pages /\ q \in Pages /\ p < FreeVirtualAddressPointer /\ q < FreeVirtualAddressPointer
<1>1. PICK i \in DOMAIN ReservationList : p \in Extent(ReservationList[i]) /\ q \in Extent(ReservationList[i])
  BY DEF SameRegion, SameRegionIn
<1>2. IsUsed(ReservationList[i]) /\ ReservationList[i] \in Entries
  BY <1>1, FreeEntryIsEntry DEF VmmTyped, IsUsed
<1>3. StartPage <= ReservationList[i].start
      /\ ReservationList[i].start + ReservationList[i].pages <= FreeVirtualAddressPointer
  BY <1>1, <1>2 DEF Regions, WellFormed
<1> DEFINE r == ReservationList[i]
<1>4. r.start \in Nat /\ r.pages \in Nat
  BY <1>2 DEF Entries
<1>5. p \in Int /\ r.start <= p /\ p < r.start + r.pages /\ q \in Int /\ r.start <= q /\ q < r.start + r.pages
  BY <1>1, <1>2, ExtentOf
<1>6. FreeVirtualAddressPointer \in Int /\ FreeVirtualAddressPointer <= EndPage + 1 /\ StartPage \in Int /\ EndPage \in Int
  BY VmmAssumption DEF VmmTyped
<1> QED
  BY <1>3, <1>4, <1>5, <1>6 DEF Pages

\* The guards of the calls speak of at least what a thread works on.
LEMMA OwnsAreUsed ==
    ASSUME ControlIInv, NEW t \in Threads
    PROVE  Owns(t) \subseteq Uses(t) /\ (call[t].op \in {"release", "decommit"} => Owns(t) = Uses(t))
<1> USE DEF ControlIInv
<1>1. call[t] \in CallRecords /\ Stage(t) /\ Placed(t)
  BY DEF VmmTyped, Stages, Places
<1>2. CASE at[t] \in {"enter", "inside"} /\ call[t].op = "release"
  <2>1. Reserved(call[t].base) /\ call[t].base \in Nat
    BY <1>1, <1>2 DEF Placed, Entering, Reserving, Allocs, CallRecords
  <2>2. Uses(t) = Extent(ReservationList[FindReservation(ReservationList, call[t].base, 1)])
    BY <1>2 DEF Uses
  <2>3. \A q : q \in Uses(t) <=> SameRegion(call[t].base, q)
    BY <2>1, <2>2, FindOne DEF Reserved, SameRegion, Regions, VmmTyped
  <2>4. Owns(t) = {p \in Pages : SameRegion(call[t].base, p)}
    BY <1>2 DEF Owns, Entering
  <2> QED
    BY <2>3, <2>4, RegionsAreBelow
<1>3. CASE ~(at[t] \in {"enter", "inside"} /\ call[t].op = "release")
  <2>1. Uses(t) = Span(t)
    BY <1>3 DEF Uses, Span
  <2>2. Owns(t) \subseteq Span(t) /\ (call[t].op = "decommit" => Owns(t) = Span(t))
    BY <1>3 DEF Owns, Entering
  <2>3. call[t].op = "release" => Owns(t) = Span(t)
    BY <1>3 DEF Owns, Entering
  <2> QED
    BY <2>1, <2>2, <2>3
<1> QED
  BY <1>2, <1>3

LEMMA OwnedPages ==
    ASSUME ControlIInv, NEW t \in Threads
    PROVE  Owns(t) \subseteq Pages
<1>1. Placed(t) /\ call[t] \in CallRecords
  BY DEF ControlIInv, Places, VmmTyped
<1>2. Owns(t) \subseteq Int
  BY <1>1, VmmAssumption DEF Owns, Span, Run, Pages, CallRecords
<1> QED
  BY <1>1, <1>2, VmmAssumption DEF Placed, ControlIInv, VmmTyped, Pages

LEMMA ApartStep ==
    ASSUME Apart, NEW t \in Threads, OthersSame(t),
           \A u \in Threads : u # t =>
               Owns(t)' \cap Owns(u) = {} \/ (call'[t].op = "fault" /\ call[u].op = "fault")
    PROVE  Apart'
BY DEF Apart, OthersSame

\* ... who goes on with what it had stays apart from the others.
LEMMA ApartShrinks ==
    ASSUME Apart, NEW t \in Threads, OthersSame(t), Owns(t)' \subseteq Owns(t),
           call[t].op = "fault" => call'[t].op = "fault" \/ Owns(t)' = {}
    PROVE  Apart'
BY ApartStep DEF Apart

LEMMA StagesStep ==
    ASSUME Stages, NEW t \in Threads, OthersSame(t), Stage(t)',
           \A u \in Threads : u # t => (ReservationLock' = u <=> ReservationLock = u)
    PROVE  Stages'
<1> SUFFICES ASSUME NEW u \in Threads, u # t PROVE Stage(u)'
  BY DEF Stages
<1>1. Stage(u) /\ at'[u] = at[u] /\ call'[u] = call[u]
  BY DEF Stages, OthersSame
<1> QED
  BY <1>1 DEF Stage

LEMMA PlacedSame ==
    ASSUME NEW u \in Threads, Placed(u), at'[u] = at[u], call'[u] = call[u], Owns(u)' = Owns(u),
           VmmTyped, FreeVirtualAddressPointer' \in Int,
           FreeVirtualAddressPointer <= FreeVirtualAddressPointer', Owns(u) \subseteq Pages,
           Reserving(u) => \A p \in Span(u) : ~Reserved(p)',
           Entering(u) /\ ~Reserving(u) => Reserved(call[u].base)',
           \A p \in Span(u) : Committed(p, call[u].rights) /\ ~Entering(u) /\ at[u] \notin {"idle", "uninit", "unmap"}
               => Committed(p, call[u].rights)',
           at[u] \in {"frames", "map", "read"} /\ call[u].reserve => IsRegion(call[u].base, call[u].pages)'
    PROVE  Placed(u)'
<1>1. (Entering(u)' <=> Entering(u)) /\ Span(u)' = Span(u) /\ (Reserving(u)' <=> Reserving(u))
  BY DEF Entering, Span, Reserving
<1>2. \A p \in Owns(u)' : StartPage <= p /\ p < FreeVirtualAddressPointer'
  BY VmmAssumption DEF Placed, VmmTyped, Pages
<1>3. at'[u] \in {"frames", "map", "read"} \cup FaultLabels =>
         ~Entering(u) /\ at[u] \notin {"idle", "uninit", "unmap"}
  BY DEF FaultLabels, Entering
<1> QED
  BY <1>1, <1>2, <1>3 DEF Placed

\* What another thread relies on in memory stays when memory does.
LEMMA WorksButAliases ==
    ASSUME NEW u \in Threads, Works(u), at'[u] = at[u], call'[u] = call[u], Owns(u)' = Owns(u),
           UNCHANGED <<pte, frame, dirty>>, written' \subseteq written,
           contended => contended', IsPrivate(u)'
    PROVE  Works(u)'
<1>1. (HasFrames(u)' <=> HasFrames(u)) /\ Hand(u)' = Hand(u) /\ Span(u)' = Span(u) /\ (Building(u)' <=> Building(u))
  BY DEF HasFrames, Hand, Span, Building
<1>2. \A p : Mapped(p)' <=> Mapped(p)
  BY DEF Mapped
<1>3. HandIsReady(u)'
  BY <1>1, <1>2 DEF Works, HandIsReady
<1>4. IsFilled(u)'
  BY <1>1, <1>2 DEF Works, IsFilled
<1>5. IsEmpty(u)'
  BY <1>1, <1>2 DEF Works, IsEmpty
<1>6. IsClean(u)'
  BY DEF Works, IsClean
<1> QED
  BY <1>3, <1>4, <1>5, <1>6 DEF Works

LEMMA WorksSame ==
    ASSUME NEW u \in Threads, Works(u), at'[u] = at[u], call'[u] = call[u], Owns(u)' = Owns(u),
           UNCHANGED <<pte, frame, dirty, alias>>, written' \subseteq written,
           contended => contended'
    PROVE  Works(u)'
<1>1. \A p : (Private(p)' <=> Private(p)) /\ (IsShared(p)' <=> IsShared(p))
  BY DEF Private, IsShared, IsCopy
<1>2. IsPrivate(u)'
  BY <1>1 DEF Works, IsPrivate, Building
<1> QED
  BY <1>2, WorksButAliases

\* A copy stands when memory stays and whoever made or gives back goes on with it.
LEMMA AliasesSame ==
    ASSUME VmmTyped, Aliases, NEW t \in Threads, OthersSame(t), UNCHANGED <<pte, alias>>,
           FreeVirtualAddressPointer' \in Int, FreeVirtualAddressPointer <= FreeVirtualAddressPointer',
           \A r \in alias :
               /\ Shows(t, r) => Shows(t, r)' /\ call'[t].mdl = call[t].mdl
               /\ Releases(t, r) => Releases(t, r)'
               /\ IsRegion(r.base, r.pages) => IsRegion(r.base, r.pages)' \/ Releases(t, r)',
           call'[t].op = "mdl" => \E r \in alias : Shows(t, r)'
    PROVE  Aliases'
<1>1. \A p : Mapped(p)' <=> Mapped(p)
  BY DEF Mapped
<1>2. \A u \in Threads : \A r \in alias : (Shows(u, r) => Shows(u, r)') /\ (Releases(u, r) => Releases(u, r)')
                                          /\ (Describes(u, r) => Describes(u, r)')
  BY DEF OthersSame, Shows, Releases, Describes
<1>3. ASSUME NEW r \in alias'
      PROVE  AliasStands(r)'
  <2>1. AliasStands(r) /\ r \in alias /\ r \in [base : Nat, of : Nat, pages : Nat]
    BY DEF Aliases, VmmTyped
  <2>2. r.base + r.pages <= FreeVirtualAddressPointer'
    <3>1. r.base + r.pages <= FreeVirtualAddressPointer /\ r.base + r.pages \in Int
      BY <2>1 DEF AliasStands
    <3> QED
      BY <3>1 DEF VmmTyped
  <2>3. \/ \E u \in Threads : Describes(u, r)'
        \/ /\ \A p \in Copy(r) : Mapped(p)'
           /\ IsRegion(r.base, r.pages)' \/ \E u \in Threads : Releases(u, r)'
    BY <1>1, <1>2, <2>1 DEF AliasStands
  <2> QED
    BY <1>1, <2>1, <2>2, <2>3 DEF AliasStands
<1>4. \A u \in Threads : call'[u].op = "mdl" => \E r \in alias : Shows(u, r)'
  BY DEF Aliases, OthersSame, Shows
<1> QED
  BY <1>3, <1>4 DEF Aliases

\* A step that leaves memory alone.
Quiet(t) ==
    /\ OthersSame(t) /\ UNCHANGED <<pte, frame, dirty, alias>>
    /\ contended => contended'
    /\ FreeVirtualAddressPointer' \in Int /\ FreeVirtualAddressPointer <= FreeVirtualAddressPointer'
    /\ written' \subseteq written
    /\ HasFrames(t)' <=> HasFrames(t)
    /\ HasFrames(t) => Hand(t)' = Hand(t)

GivesBack(t) == call[t].op \in {"release", "decommit"}

LEMMA QuietStep ==
    ASSUME VmmIInv, NEW t \in Threads, Quiet(t), Works(t)', FaultsApart',
           \A r \in alias :
               /\ Shows(t, r) => Shows(t, r)' /\ call'[t].mdl = call[t].mdl
               /\ Releases(t, r) => Releases(t, r)'
               /\ IsRegion(r.base, r.pages) => IsRegion(r.base, r.pages)' \/ Releases(t, r)',
           call'[t].op = "mdl" => \E r \in alias : Shows(t, r)',
           \A p \in Pages : \A rights : Mapped(p) /\ Committed(p, rights) => CommittedIn(ReservationList', p, rights) \/ Leaves(t, p)',
           \A p \in Pages : Leaves(t, p) => Leaves(t, p)',
           GivesBack(t) => GivesBack(t)' /\ Owns(t)' = Owns(t),
           GivesBack(t)' => \A p \in Owns(t)' : p \notin written',
           \A p \in written : p \notin written' => GivesBack(t)' /\ p \in Owns(t)'
    PROVE  MemoryIInv'
<1> USE DEF VmmIInv, MemoryIInv, ControlIInv, Quiet
<1>1. \A p : Mapped(p)' <=> Mapped(p)
  BY DEF Mapped
<1>2. Workers'
  BY WorksSame DEF Workers, OthersSame
<1>3. \A u \in Threads : (HasFrames(u)' <=> HasFrames(u)) /\ (HasFrames(u) => Hand(u)' = Hand(u))
  BY DEF OthersSame, HasFrames, Hand
<1>4. HandsApart'
  BY <1>3 DEF HandsApart
<1>5. Aliases'
  BY AliasesSame
<1>6. FrameUse'
  BY <1>1 DEF FrameUse, HasCopyBelow, IsCopy
<1>7. FramesInUse'
  BY <1>1, <1>3 DEF FramesInUse, InUse
<1>8. MappedAreCommitted'
  <2> SUFFICES ASSUME NEW p \in Pages, Mapped(p)'
               PROVE  Committed(p, pte[p].rights)' \/ \E u \in Threads : Leaves(u, p)'
    BY DEF MappedAreCommitted
  <2>1. Mapped(p)
    BY <1>1
  <2>2. CASE Committed(p, pte[p].rights)
    <3>1. CommittedIn(ReservationList', p, pte[p].rights) \/ Leaves(t, p)'
      BY <2>1, <2>2
    <3>2. CommittedIn(ReservationList', p, pte[p].rights) => Committed(p, pte[p].rights)'
      BY DEF Committed
    <3> QED
      BY <3>1, <3>2
  <2>3. CASE \E u \in Threads : Leaves(u, p)
    BY <2>3 DEF OthersSame, Leaves
  <2> QED
    BY <2>1, <2>2, <2>3 DEF MappedAreCommitted
<1>9. \A p : Given(p) => Given(p)'
  BY DEF Given, GivesBack, OthersSame
<1>10. \A p : Given(p)' => Given(p) \/ (GivesBack(t)' /\ p \in Owns(t)')
  BY DEF Given, GivesBack, OthersSame
<1>11. \A p \in written' : Mapped(p)' /\ ~Given(p)'
  BY <1>1, <1>10 DEF Contents
<1>12. \A p \in written : p \notin written' => Given(p)'
  BY DEF Given, GivesBack
<1>13. Contents'
  BY <1>1, <1>9, <1>11, <1>12 DEF Contents
<1> QED
  BY <1>2, <1>4, <1>5, <1>6, <1>7, <1>8, <1>13

LEMMA PlainWorks ==
    ASSUME NEW t \in Threads, ~HasFrames(t)', at'[t] \notin FaultLabels \cup {"read"}, call'[t].op # "fault",
           Building(t)' => \A p \in Owns(t)' : ~Mapped(p)', IsPrivate(t)'
    PROVE  Works(t)'
<1>1. HandIsReady(t)' /\ IsFilled(t)' /\ IsClean(t)'
  BY DEF HandIsReady, IsFilled, IsClean, FaultLabels
<1>2. IsEmpty(t)'
  BY DEF IsEmpty, FaultLabels
<1> QED
  BY <1>1, <1>2 DEF Works

LEMMA PrivacySame ==
    ASSUME NEW t \in Threads, IsPrivate(t), UNCHANGED alias, Owns(t)' = Owns(t), call'[t].op = call[t].op,
           Building(t)' => Building(t)
    PROVE  IsPrivate(t)'
BY DEF IsPrivate, Private, IsShared, IsCopy

\* Who does not start a fault leaves the faults apart.
LEMMA FaultsSame ==
    ASSUME FaultsApart, contended => contended', NEW t \in Threads,
           \A u \in Threads : u # t => call'[u] = call[u],
           call'[t].op = "fault" => call[t].op = "fault" /\ call'[t].base = call[t].base
    PROVE  FaultsApart'
BY DEF FaultsApart

LEMMA IdleWorks ==
    ASSUME NEW t \in Threads, call'[t] = NoCall, at'[t] = "idle"
    PROVE  Works(t)' /\ ~HasFrames(t)' /\ ~GivesBack(t)' /\ Placed(t)' /\ Owns(t)' = {}
<1>1. call'[t].op = "none" /\ Owns(t)' = {}
  <2>1. Owns(t)' = {}
    BY IdleOwnsNothing
  <2> QED
    BY <2>1 DEF NoCall
<1>2. ~HasFrames(t)' /\ ~Building(t)' /\ ~GivesBack(t)'
  BY <1>1 DEF HasFrames, Building, GivesBack, Allocs
<1>3. IsPrivate(t)'
  BY <1>1, <1>2 DEF IsPrivate
<1>4. Placed(t)'
  BY <1>1 DEF Placed, Entering, Reserving, FaultLabels
<1> QED
  BY <1>1, <1>2, <1>3, <1>4, PlainWorks DEF FaultLabels

LEMMA PlacesListSame ==
    ASSUME ControlIInv, NEW t \in Threads, OthersSame(t), UNCHANGED ReservationList, Placed(t)',
           FreeVirtualAddressPointer' \in Int, FreeVirtualAddressPointer <= FreeVirtualAddressPointer'
    PROVE  Places'
<1> SUFFICES ASSUME NEW u \in Threads, u # t PROVE Placed(u)'
  BY DEF Places
<1>1. Placed(u) /\ at'[u] = at[u] /\ call'[u] = call[u] /\ Owns(u)' = Owns(u)
  BY DEF ControlIInv, Places, OthersSame
<1>2. \A p, rights : Reserved(p)' <=> Reserved(p)
  BY DEF Reserved, SameRegion
<1>3. \A p : Committed(p, call[u].rights)' <=> Committed(p, call[u].rights)
  BY <1>1 DEF Committed
<1>4. IsRegion(call[u].base, call[u].pages)' <=> IsRegion(call[u].base, call[u].pages)
  BY <1>1 DEF IsRegion
<1>5. Reserved(call[u].base)' <=> Reserved(call[u].base)
  BY <1>1 DEF Reserved, SameRegion
<1>6. Owns(u) \subseteq Pages
  BY OwnedPages
<1> QED
  BY <1>1, <1>2, <1>3, <1>4, <1>5, <1>6, PlacedSame DEF Placed, ControlIInv

----------------------------------------------------------------------------
\* The steps.

LEMMA EnterKeeps ==
    ASSUME VmmIInv, NEW t \in Threads, NEW c \in Cpus, Enter(t, c)
    PROVE  VmmIInv'
<1> USE DEF VmmIInv, ControlIInv
<1>1. /\ at[t] = "enter" /\ ReservationLock = None /\ ReservationLock' = t
      /\ VmmMemoryAccess' = [VmmMemoryAccess EXCEPT ![c] = TRUE]
      /\ call' = [call EXCEPT ![t].pcpu = c] /\ at' = [at EXCEPT ![t] = "inside"]
      /\ preempted' = (preempted \/ \E u \in Threads : at[u] = "uninit" /\ call[u].pcpu = c)
      /\ UNCHANGED <<ReservationList, FreeVirtualAddressPointer, pte, frame, dirty, alias, written, contended>>
  BY DEF Enter, At, Goto
<1>2. call[t] \in CallRecords /\ Stage(t) /\ Placed(t) /\ Works(t) /\ call \in [Threads -> CallRecords] /\ at \in [Threads -> Labels]
  BY DEF VmmTyped, Stages, Places, MemoryIInv, Workers
<1>3. /\ at'[t] = "inside" /\ call'[t] = [call[t] EXCEPT !.pcpu = c]
      /\ \A u \in Threads : u # t => at'[u] = at[u] /\ call'[u] = call[u]
  BY <1>1, <1>2
<1>4. /\ call'[t].op = call[t].op /\ call'[t].base = call[t].base /\ call'[t].pages = call[t].pages
      /\ call'[t].reserve = call[t].reserve /\ call'[t].eager = call[t].eager /\ call'[t].commit = call[t].commit
      /\ call'[t].file = call[t].file /\ call'[t].mdl = call[t].mdl /\ call'[t].rights = call[t].rights
      /\ call'[t].pcpu = c /\ call'[t] \in CallRecords
  BY <1>2, <1>3 DEF CallRecords
<1>5. VmmTyped'
  <2>1. call' \in [Threads -> CallRecords] /\ at' \in [Threads -> Labels]
    BY <1>1, <1>2, <1>3, <1>4 DEF Labels
  <2> QED
    BY <1>1, <2>1 DEF VmmTyped
<1>6. Regions'
  BY <1>1 DEF Regions
<1>7. OthersSame(t)
  BY <1>1, <1>3, ListSame
<1>8. (Entering(t) /\ Entering(t)') /\ (Reserving(t)' <=> Reserving(t)) /\ Span(t)' = Span(t) /\ (Building(t)' <=> Building(t))
  BY <1>1, <1>3, <1>4 DEF Entering, Reserving, Span, Building
<1>9. Owns(t)' = Owns(t)
  BY <1>1, <1>4, <1>8 DEF Owns, SameRegion
<1>10. Stage(t)'
  BY <1>1, <1>2, <1>3, <1>4 DEF Stage, FaultLabels, AllocStage
<1>11. Stages'
  <2>1. t # None /\ \A u \in Threads : u # None
    BY VmmAssumption
  <2> QED
    BY <1>1, <1>7, <1>10, <2>1, StagesStep
<1>12. Placed(t)'
  BY <1>1, <1>2, <1>3, <1>4, <1>8, <1>9 DEF Placed, Reserved, SameRegion, FaultLabels
<1>13. FreeVirtualAddressPointer' \in Int /\ FreeVirtualAddressPointer <= FreeVirtualAddressPointer'
  BY <1>1, VmmAssumption DEF VmmTyped
<1>14. Places'
  BY <1>1, <1>7, <1>12, <1>13, PlacesListSame
<1>15. Apart'
  BY <1>4, <1>7, <1>9, ApartShrinks
<1>16. Marks'
  <2> SUFFICES ASSUME NEW x \in Threads, at'[x] = "inside", ~preempted'
               PROVE  VmmMemoryAccess'[call'[x].pcpu] /\ \A u \in Threads : at'[u] = "uninit" => call'[u].pcpu # call'[x].pcpu
    BY DEF Marks
  <2>1. x = t
    BY <1>1, <1>3, VmmAssumption DEF Stages, Stage
  <2>2. VmmMemoryAccess'[c]
    BY <1>1 DEF VmmTyped
  <2>3. \A u \in Threads : at[u] = "uninit" => call[u].pcpu # c
    BY <1>1
  <2>4. \A u \in Threads : at'[u] = "uninit" => u # t
    BY <1>3
  <2> QED
    BY <1>3, <1>4, <2>1, <2>2, <2>3, <2>4
<1>17. Works(t)'
  <2>1. IsPrivate(t)'
    BY <1>1, <1>2, <1>4, <1>8, <1>9, PrivacySame DEF Works
  <2>2. Building(t)' => \A p \in Owns(t)' : ~Mapped(p)'
    BY <1>1, <1>2, <1>8, <1>9 DEF Works, IsEmpty, Mapped
  <2>3. call[t].op # "fault"
    BY <1>1, <1>2 DEF Stage, FaultLabels
  <2> QED
    BY <1>3, <1>4, <2>1, <2>2, <2>3, PlainWorks DEF HasFrames, FaultLabels
<1>18. FaultsApart'
  BY <1>1, <1>3, <1>4 DEF FaultsApart, MemoryIInv
<1>19. MemoryIInv'
  <2>1. ~HasFrames(t) /\ ~HasFrames(t)'
    BY <1>1, <1>3 DEF HasFrames
  <2>2. Quiet(t)
    BY <1>1, <1>7, <1>13, <2>1 DEF Quiet
  <2>3. \A r \in alias : /\ Shows(t, r) => Shows(t, r)' /\ call'[t].mdl = call[t].mdl
                         /\ ~Releases(t, r)
                         /\ IsRegion(r.base, r.pages) => IsRegion(r.base, r.pages)'
    BY <1>1, <1>4 DEF Shows, Releases, IsRegion
  <2>4. call'[t].op = "mdl" => \E r \in alias : Shows(t, r)'
    BY <1>4 DEF MemoryIInv, Aliases, Shows
  <2>5. \A p : ~Leaves(t, p)
    BY <1>1 DEF Leaves
  <2>6. GivesBack(t)' <=> GivesBack(t)
    BY <1>4 DEF GivesBack
  <2>7. GivesBack(t) => \A p \in Owns(t) : p \notin written
    BY DEF GivesBack, MemoryIInv, Contents, Given
  <2> QED
    BY <1>1, <1>9, <1>17, <1>18, <2>2, <2>3, <2>4, <2>5, <2>6, <2>7, QuietStep DEF Committed
<1> QED
  BY <1>5, <1>6, <1>11, <1>14, <1>15, <1>16, <1>19

\* The variables that the invariant is about.
invVars == <<listVars, pte, frame, dirty, at, call, alias, written, contended, preempted>>

LEMMA NothingChanges ==
    ASSUME VmmIInv, UNCHANGED invVars
    PROVE  VmmIInv'
<1> USE DEF VmmIInv, ControlIInv, MemoryIInv, invVars, listVars
<1>1. VmmTyped' /\ Regions' /\ Marks'
  BY DEF VmmTyped, Regions, Marks
<1>2. \A t : Owns(t)' = Owns(t) /\ Span(t)' = Span(t) /\ (Entering(t)' <=> Entering(t)) /\ (Reserving(t)' <=> Reserving(t))
             /\ (Building(t)' <=> Building(t)) /\ (HasFrames(t)' <=> HasFrames(t)) /\ Hand(t)' = Hand(t)
  BY DEF Owns, Span, Entering, Reserving, Building, HasFrames, Hand, SameRegion
<1>3. Stages'
  BY DEF Stages, Stage
<1>4. Places'
  BY <1>2 DEF Places, Placed, Reserved, SameRegion, Committed, IsRegion
<1>5. Apart'
  BY <1>2 DEF Apart
<1>6. \A p : (Mapped(p)' <=> Mapped(p)) /\ (IsShared(p)' <=> IsShared(p)) /\ (IsCopy(p)' <=> IsCopy(p)) /\ (Given(p)' <=> Given(p))
  BY <1>2 DEF Mapped, IsShared, IsCopy, Given
<1>7. Workers'
  <2>1. \A t \in Threads : HandIsReady(t)' /\ IsFilled(t)'
    BY <1>2, <1>6 DEF Workers, Works, HandIsReady, IsFilled
  <2>2. \A t \in Threads : IsEmpty(t)' /\ IsPrivate(t)' /\ IsClean(t)'
    BY <1>2, <1>6 DEF Workers, Works, IsEmpty, IsPrivate, IsClean, Private
  <2> QED
    BY <2>1, <2>2 DEF Workers, Works
<1>8. HandsApart' /\ FaultsApart'
  BY <1>2 DEF HandsApart, FaultsApart
<1>9. \A r : \A t \in Threads : (Shows(t, r)' <=> Shows(t, r)) /\ (Describes(t, r)' <=> Describes(t, r))
         /\ (Releases(t, r)' <=> Releases(t, r))
  BY DEF Shows, Describes, Releases
<1>10. \A r : AliasStands(r)' <=> AliasStands(r)
  BY <1>6, <1>9 DEF AliasStands, IsRegion
<1>11. Aliases'
  BY <1>9, <1>10 DEF Aliases
<1>12. FrameUse' /\ FramesInUse'
  BY <1>2, <1>6 DEF FrameUse, HasCopyBelow, FramesInUse, InUse
<1>13. MappedAreCommitted' /\ Contents'
  BY <1>2, <1>6 DEF MappedAreCommitted, Leaves, Committed, Contents
<1> QED
  BY <1>1, <1>3, <1>4, <1>5, <1>7, <1>8, <1>11, <1>12, <1>13

LEMMA HaltKeeps ==
    ASSUME VmmIInv, NEW t \in Threads, MetadataFault(t) \/ FaultReadFails(t)
    PROVE  VmmIInv'
BY NothingChanges DEF MetadataFault, FaultReadFails, invVars

\* UninitializeReservation
LEMMA UninitializeKeeps ==
    ASSUME VmmIInv, NEW t \in Threads, UninitializeReservation(t)
    PROVE  VmmIInv'
<1> USE DEF VmmIInv, ControlIInv
<1>1. /\ at[t] = "uninit"
      /\ VmmMemoryAccess' = [VmmMemoryAccess EXCEPT ![call[t].pcpu] = FALSE]
      /\ call' = [call EXCEPT ![t].pcpu = None] /\ at' = [at EXCEPT ![t] = "unmap"]
      /\ UNCHANGED <<ReservationList, FreeVirtualAddressPointer, ReservationLock, pte, frame, dirty, alias, written, contended, preempted>>
  BY DEF UninitializeReservation, At, Goto, historyVars
<1>2. call[t] \in CallRecords /\ Stage(t) /\ Placed(t) /\ Works(t) /\ call \in [Threads -> CallRecords] /\ at \in [Threads -> Labels]
  BY DEF VmmTyped, Stages, Places, MemoryIInv, Workers
<1>3. /\ at'[t] = "unmap" /\ call'[t] = [call[t] EXCEPT !.pcpu = None]
      /\ \A u \in Threads : u # t => at'[u] = at[u] /\ call'[u] = call[u]
  BY <1>1, <1>2
<1>4. /\ call'[t].op = call[t].op /\ call'[t].base = call[t].base /\ call'[t].pages = call[t].pages
      /\ call'[t] \in CallRecords /\ call[t].op = "release" /\ 1 <= call[t].pages /\ call[t].pcpu \in Cpus
  BY <1>1, <1>2, <1>3 DEF CallRecords, Stage
<1>5. VmmTyped'
  <2>1. call' \in [Threads -> CallRecords] /\ at' \in [Threads -> Labels]
    BY <1>1, <1>2, <1>3, <1>4 DEF Labels
  <2> QED
    BY <1>1, <1>4, <2>1 DEF VmmTyped
<1>6. Regions'
  BY <1>1 DEF Regions
<1>7. OthersSame(t)
  BY <1>1, <1>3, ListSame
<1>8. ~Entering(t) /\ ~Entering(t)' /\ ~Reserving(t)' /\ Span(t)' = Span(t) /\ ~Building(t)'
  BY <1>1, <1>3, <1>4 DEF Entering, Reserving, Span, Building, Allocs
<1>9. Owns(t)' = Owns(t)
  BY <1>8, SpanOwned, SpanOwnedNext
<1>10. Stage(t)'
  BY <1>1, <1>2, <1>3, <1>4 DEF Stage, FaultLabels, Allocs
<1>11. Stages'
  BY <1>1, <1>7, <1>10, StagesStep
<1>12. Placed(t)'
  BY <1>1, <1>2, <1>3, <1>8, <1>9 DEF Placed, FaultLabels
<1>13. FreeVirtualAddressPointer' \in Int /\ FreeVirtualAddressPointer <= FreeVirtualAddressPointer'
  BY <1>1, VmmAssumption DEF VmmTyped
<1>14. Places'
  BY <1>1, <1>7, <1>12, <1>13, PlacesListSame
<1>15. Apart'
  BY <1>4, <1>7, <1>9, ApartShrinks
<1>16. Marks'
  <2> SUFFICES ASSUME NEW x \in Threads, at'[x] = "inside", ~preempted'
               PROVE  VmmMemoryAccess'[call'[x].pcpu] /\ \A u \in Threads : at'[u] = "uninit" => call'[u].pcpu # call'[x].pcpu
    BY DEF Marks
  <2>1. x # t /\ at[x] = "inside" /\ call'[x] = call[x] /\ call[x].pcpu \in Cpus
    BY <1>3 DEF Stages, Stage
  <2>2. VmmMemoryAccess[call[x].pcpu] /\ \A u \in Threads : at[u] = "uninit" => call[u].pcpu # call[x].pcpu
    BY <1>1, <2>1 DEF Marks
  <2>3. VmmMemoryAccess'[call[x].pcpu]
    BY <1>1, <1>4, <2>1, <2>2 DEF VmmTyped
  <2>4. \A u \in Threads : at'[u] = "uninit" => u # t /\ at[u] = "uninit" /\ call'[u] = call[u]
    BY <1>3
  <2> QED
    BY <2>1, <2>2, <2>3, <2>4
<1>17. Works(t)'
  <2>1. IsPrivate(t)'
    BY <1>1, <1>2, <1>4, <1>8, <1>9, PrivacySame DEF Works
  <2> QED
    BY <1>3, <1>4, <1>8, <2>1, PlainWorks DEF HasFrames, FaultLabels
<1>18. FaultsApart'
  BY <1>1, <1>3, <1>4 DEF FaultsApart, MemoryIInv
<1>19. MemoryIInv'
  <2>1. ~HasFrames(t) /\ ~HasFrames(t)'
    BY <1>1, <1>3 DEF HasFrames
  <2>2. Quiet(t)
    BY <1>1, <1>7, <1>13, <2>1 DEF Quiet
  <2>3. \A r \in alias : /\ ~Shows(t, r)
                         /\ Releases(t, r) => Releases(t, r)'
                         /\ IsRegion(r.base, r.pages) => IsRegion(r.base, r.pages)'
    BY <1>1, <1>3, <1>4 DEF Shows, Releases, IsRegion
  <2>4. \A p : Leaves(t, p) => Leaves(t, p)'
    BY <1>3, <1>9 DEF Leaves
  <2>5. GivesBack(t)' <=> GivesBack(t)
    BY <1>4 DEF GivesBack
  <2>6. \A p \in Owns(t) : p \notin written
    BY <1>4 DEF MemoryIInv, Contents, Given
  <2> QED
    BY <1>1, <1>4, <1>9, <1>17, <1>18, <2>2, <2>3, <2>4, <2>5, <2>6, QuietStep DEF Committed
<1> QED
  BY <1>5, <1>6, <1>11, <1>14, <1>15, <1>16, <1>19

\* A call that enters names a page it works on.
LEMMA BaseOwned ==
    ASSUME ControlIInv, NEW u \in Threads, Entering(u), ~Reserving(u)
    PROVE  call[u].base \in Owns(u) /\ Reserved(call[u].base) /\ call[u].base \in Nat
<1> USE DEF ControlIInv
<1>1. call[u] \in CallRecords /\ Stage(u) /\ Placed(u)
  BY DEF VmmTyped, Stages, Places
<1>2. Reserved(call[u].base)
  BY <1>1 DEF Placed
<1>3. call[u].base \in Pages /\ call[u].base \in Nat
  BY <1>1, <1>2, RegionsAreBelow DEF Reserved, CallRecords
<1>4. CASE call[u].op = "release"
  BY <1>2, <1>3, <1>4 DEF Owns, Reserved
<1>5. CASE call[u].op # "release"
  <2>1. call[u].op \in Allocs \cup {"decommit"}
    BY <1>1, <1>5 DEF Stage, Entering
  <2>2. 1 <= call[u].pages /\ call[u].pages \in Nat
    BY <1>1, <2>1 DEF Stage, AllocStage, CallRecords
  <2>3. call[u].base \in Span(u)
    BY <1>3, <2>2 DEF Span, Run
  <2>4. CASE call[u].op \in {"alloc", "stack"} /\ ~call[u].reserve
    <3>1. Owns(u) = {p \in Span(u) : SameRegion(call[u].base, p)}
      BY <2>4 DEF Owns
    <3> QED
      BY <1>2, <1>3, <2>3, <3>1 DEF Reserved
  <2>5. CASE ~(call[u].op \in {"alloc", "stack"} /\ ~call[u].reserve)
    BY <1>2, <1>3, <1>5, <2>3, <2>5, SpanOwned
  <2> QED
    BY <2>4, <2>5
<1> QED
  BY <1>2, <1>3, <1>4, <1>5

LEMMA RegionIs ==
    ASSUME VmmTyped, Regions, NEW base, NEW n, IsRegion(base, n)
    PROVE  /\ 1 <= n /\ n \in Nat /\ base \in Nat /\ base \in Run(base, n)
           /\ \A p \in Run(base, n) : \A q : SameRegion(p, q) <=> q \in Run(base, n)
<1>1. PICK i \in DOMAIN ReservationList :
          IsUsed(ReservationList[i]) /\ ReservationList[i].start = base /\ ReservationList[i].pages = n
  BY DEF IsRegion, RegionIn
<1>2. ReservationList[i] \in Entries /\ 1 <= n
  BY <1>1 DEF VmmTyped, Regions, WellFormed
<1>3. Extent(ReservationList[i]) = Run(base, n)
  BY <1>1 DEF Extent
<1>4. \A j \in DOMAIN ReservationList : j # i => Extent(ReservationList[j]) \cap Run(base, n) = {}
  BY <1>3 DEF Regions, WellFormed
<1>5. base \in Nat /\ n \in Nat
  BY <1>1, <1>2 DEF Entries
<1> QED
  BY <1>2, <1>3, <1>4, <1>5 DEF SameRegion, SameRegionIn, Run

\* Nobody is left inside.
LEMMA NobodyMarked ==
    ASSUME ControlIInv, NEW t \in Threads, OthersSame(t), at[t] = "inside", at'[t] # "inside"
    PROVE  Marks' /\ \A u \in Threads : ReservationLock # u \/ u = t
<1>1. ReservationLock = t /\ \A u \in Threads : at[u] = "inside" => u = t
  BY DEF ControlIInv, Stages, Stage
<1>2. \A u \in Threads : at'[u] # "inside"
  BY <1>1 DEF OthersSame
<1> QED
  BY <1>1, <1>2 DEF Marks

\* RemoveReservation
LEMMA RemoveKeeps ==
    ASSUME VmmIInv, NEW t \in Threads, RemoveReservation(t)
    PROVE  VmmIInv'
<1> USE DEF VmmIInv, ControlIInv
<1> DEFINE i == FindReservation(ReservationList, call[t].base, 1)
           r == ReservationList[i]
<1>1. /\ at[t] = "inside" /\ call[t].op = "release"
      /\ ReservationList' = [ReservationList EXCEPT ![i] = FreeEntry] /\ ReservationLock' = None
      /\ call' = [call EXCEPT ![t].base = r.start, ![t].pages = r.pages] /\ at' = [at EXCEPT ![t] = "uninit"]
      /\ UNCHANGED <<FreeVirtualAddressPointer, VmmMemoryAccess, pte, frame, dirty, alias, written, contended, preempted>>
  BY DEF RemoveReservation, At, Goto, historyVars
<1>2. call[t] \in CallRecords /\ Stage(t) /\ Placed(t) /\ Works(t) /\ call \in [Threads -> CallRecords] /\ at \in [Threads -> Labels]
  BY DEF VmmTyped, Stages, Places, MemoryIInv, Workers
<1>3. Entering(t) /\ ~Reserving(t)
  BY <1>1 DEF Entering, Reserving, Allocs
<1>4. call[t].base \in Owns(t) /\ Reserved(call[t].base) /\ call[t].base \in Nat
  BY <1>3, BaseOwned
<1>5. /\ ReservationList' \in Seq(Entries) /\ WellFormed(ReservationList', FreeVirtualAddressPointer)
      /\ \A p, q : SameRegionIn(ReservationList', p, q) <=> SameRegion(p, q) /\ ~SameRegion(call[t].base, p)
      /\ \A p, rights : CommittedIn(ReservationList', p, rights) <=> Committed(p, rights) /\ ~SameRegion(call[t].base, p)
      /\ \A b, n : RegionIn(ReservationList', b, n) <=> IsRegion(b, n) /\ b # r.start
      /\ 1 <= r.pages /\ IsRegion(r.start, r.pages)
      /\ \A n : IsRegion(r.start, n) => n = r.pages
      /\ \A p : SameRegion(call[t].base, p) <=> p \in Run(r.start, r.pages)
  <2>1. FreeVirtualAddressPointer \in Nat
    BY VmmAssumption DEF VmmTyped
  <2> HIDE DEF i
  <2>2. i = FindReservation(ReservationList, call[t].base, 1)
    BY DEF i
  <2>3. /\ ReservationList \in Seq(Entries) /\ WellFormed(ReservationList, FreeVirtualAddressPointer)
        /\ SameRegionIn(ReservationList, call[t].base, call[t].base)
    BY <1>4 DEF VmmTyped, Regions, Reserved, SameRegion
  <2> HIDE DEF VmmIInv, ControlIInv
  <2>4. ReservationList' = [ReservationList EXCEPT ![i] = FreeEntry]
    BY <1>1
  <2>5. Takes(ReservationList, ReservationList', FreeVirtualAddressPointer, call[t].base, i)
    BY <1>4, <2>1, <2>2, <2>3, <2>4, RemoveTakes
  <2> QED
    BY <2>5 DEF Takes, SameRegion, Committed, IsRegion
<1>6. r.start \in Nat /\ r.pages \in Nat /\ r.start \in Run(r.start, r.pages)
  BY <1>5, RegionIs
<1> HIDE DEF i, r
<1>7. /\ at'[t] = "uninit" /\ call'[t] = [call[t] EXCEPT !.base = r.start, !.pages = r.pages]
      /\ \A u \in Threads : u # t => at'[u] = at[u] /\ call'[u] = call[u]
  BY <1>1, <1>2
<1>8. /\ call'[t].op = "release" /\ call'[t].base = r.start /\ call'[t].pages = r.pages
      /\ call'[t].pcpu = call[t].pcpu /\ call'[t] \in CallRecords
  BY <1>1, <1>2, <1>6, <1>7 DEF CallRecords
<1>9. \A p : p \in Owns(t) <=> SameRegion(call[t].base, p)
  <2>1. Owns(t) = {p \in Pages : SameRegion(call[t].base, p)}
    BY <1>1, <1>3 DEF Owns
  <2> QED
    BY <2>1, RegionsAreBelow
<1>10. ~Entering(t)' /\ ~Reserving(t)' /\ ~Building(t)' /\ Span(t)' = Run(r.start, r.pages)
  BY <1>7, <1>8 DEF Entering, Reserving, Span, Building, Allocs
<1>11. Owns(t)' = Owns(t)
  BY <1>5, <1>9, <1>10, SpanOwnedNext
<1>12. ASSUME NEW u \in Threads, u # t
       PROVE  Owns(u) \cap Owns(t) = {}
  BY <1>1, <1>12 DEF Apart
<1>13. OthersSame(t)
  <2> SUFFICES ASSUME NEW u \in Threads, u # t
               PROVE  at'[u] = at[u] /\ call'[u] = call[u] /\ Owns(u)' = Owns(u)
    BY DEF OthersSame
  <2>1. at'[u] = at[u] /\ call'[u] = call[u]
    BY <1>7
  <2>2. ASSUME Entering(u) /\ ~Reserving(u)
        PROVE  \A p : SameRegion(call[u].base, p)' <=> SameRegion(call[u].base, p)
    <3>1. ~SameRegion(call[t].base, call[u].base)
      BY <1>9, <1>12, <2>2, BaseOwned
    <3> QED
      BY <1>5, <2>1, <3>1 DEF SameRegion
  <2> QED
    BY <2>1, <2>2, OwnsSame
<1>14. VmmTyped'
  <2>1. call' \in [Threads -> CallRecords] /\ at' \in [Threads -> Labels]
    BY <1>1, <1>2, <1>7, <1>8 DEF Labels
  <2> QED
    BY <1>1, <1>5, <2>1 DEF VmmTyped
<1>15. Regions'
  BY <1>1, <1>5 DEF Regions
<1>16. Stage(t)'
  <2>1. t # None
    BY VmmAssumption
  <2> QED
    BY <1>1, <1>2, <1>5, <1>7, <1>8, <2>1 DEF Stage, FaultLabels, Allocs
<1>17. Stages'
  <2>1. \A u \in Threads : u # None
    BY VmmAssumption
  <2> QED
    BY <1>1, <1>7, <1>13, <1>16, <2>1, NobodyMarked, StagesStep
<1>18. Marks'
  BY <1>1, <1>7, <1>13, NobodyMarked
<1>19. Apart'
  BY <1>1, <1>11, <1>13, ApartShrinks
<1>20. FreeVirtualAddressPointer' \in Int /\ FreeVirtualAddressPointer <= FreeVirtualAddressPointer'
  BY <1>1, VmmAssumption DEF VmmTyped
<1>21. Places'
  <2>1. Placed(t)'
    BY <1>1, <1>2, <1>7, <1>8, <1>10, <1>11 DEF Placed, FaultLabels
  <2>2. ASSUME NEW u \in Threads, u # t
        PROVE  Placed(u)'
    <3>1. Placed(u) /\ Stage(u) /\ at'[u] = at[u] /\ call'[u] = call[u] /\ Owns(u)' = Owns(u) /\ Owns(u) \subseteq Pages
      BY <1>13, <2>2, OwnedPages DEF Places, Stages, OthersSame
    <3>2. Reserving(u) => \A p \in Span(u) : ~Reserved(p)'
      BY <1>5, <3>1 DEF Placed, Reserved, SameRegion
    <3>3. Entering(u) /\ ~Reserving(u) => Reserved(call[u].base)'
      <4>1. Entering(u) /\ ~Reserving(u) => ~SameRegion(call[t].base, call[u].base) /\ Reserved(call[u].base)
        BY <1>9, <1>12, <2>2, BaseOwned
      <4> QED
        BY <1>5, <3>1, <4>1 DEF Reserved, SameRegion
    <3>4. ~Entering(u) => \A p \in Span(u) : ~SameRegion(call[t].base, p)
      <4>1. ~Entering(u) => Owns(u) = Span(u)
        BY SpanOwned
      <4> QED
        BY <1>9, <1>12, <2>2, <4>1
    <3>5. \A p \in Span(u) : Committed(p, call[u].rights) /\ ~Entering(u) => Committed(p, call[u].rights)'
      BY <1>5, <3>1, <3>4 DEF Committed
    <3>6. at[u] \in {"frames", "map", "read"} /\ call[u].reserve => IsRegion(call[u].base, call[u].pages)'
      <4> SUFFICES ASSUME at[u] \in {"frames", "map", "read"}, call[u].reserve
                   PROVE  IsRegion(call[u].base, call[u].pages)'
        OBVIOUS
      <4>1. IsRegion(call[u].base, call[u].pages)
        BY <3>1 DEF Placed
      <4>2. call[u].base \in Span(u)
        BY <4>1, RegionIs DEF Span
      <4>3. call[u].base # r.start
        BY <1>5, <1>6, <3>4, <4>2 DEF Entering
      <4> QED
        BY <1>5, <3>1, <4>1, <4>3 DEF IsRegion
    <3> QED
      BY <1>20, <3>1, <3>2, <3>3, <3>5, <3>6, PlacedSame
  <2> QED
    BY <2>1, <2>2 DEF Places
<1>22. Works(t)'
  <2>1. IsPrivate(t)'
    BY <1>1, <1>2, <1>8, <1>10, <1>11, PrivacySame DEF Works
  <2> QED
    BY <1>7, <1>8, <1>10, <2>1, PlainWorks DEF HasFrames, FaultLabels
<1>23. FaultsApart'
  BY <1>1, <1>7, <1>8, FaultsSame DEF MemoryIInv
<1>24. MemoryIInv'
  <2>1. ~HasFrames(t) /\ ~HasFrames(t)'
    BY <1>1, <1>7 DEF HasFrames
  <2>2. Quiet(t)
    BY <1>1, <1>13, <1>20, <2>1 DEF Quiet
  <2>3. \A x \in alias : /\ ~Shows(t, x)
                         /\ ~Releases(t, x)
                         /\ IsRegion(x.base, x.pages) => IsRegion(x.base, x.pages)' \/ Releases(t, x)'
    BY <1>1, <1>5, <1>7, <1>8 DEF Shows, Releases, IsRegion
  <2>4. \A p : ~Leaves(t, p)
    BY <1>1 DEF Leaves
  <2>5. GivesBack(t)' /\ GivesBack(t)
    BY <1>1, <1>8 DEF GivesBack
  <2>6. \A p \in Owns(t) : p \notin written
    BY <1>1 DEF MemoryIInv, Contents, Given
  <2>7. \A p, rights : Committed(p, rights) => CommittedIn(ReservationList', p, rights) \/ Leaves(t, p)'
    BY <1>5, <1>7, <1>9, <1>11 DEF Leaves
  <2> QED
    BY <1>1, <1>8, <1>11, <1>22, <1>23, <2>2, <2>3, <2>4, <2>5, <2>6, <2>7, QuietStep
<1> QED
  BY <1>14, <1>15, <1>17, <1>18, <1>19, <1>21, <1>24

\* Decommit
LEMMA DecommitKeeps ==
    ASSUME VmmIInv, NEW t \in Threads, Decommit(t)
    PROVE  VmmIInv'
<1> USE DEF VmmIInv, ControlIInv
<1> DEFINE b == call[t].base
<1>1. /\ at[t] = "inside" /\ call[t].op = "decommit"
      /\ ReservationList' = DecommitReservation(ReservationList, call[t]) /\ ReservationLock' = None
      /\ VmmMemoryAccess' = [VmmMemoryAccess EXCEPT ![call[t].pcpu] = FALSE]
      /\ call' = [call EXCEPT ![t].pcpu = None] /\ at' = [at EXCEPT ![t] = "unmap"]
      /\ UNCHANGED <<FreeVirtualAddressPointer, pte, frame, dirty, alias, written, contended, preempted>>
  BY DEF Decommit, At, Goto, historyVars
<1>2. call[t] \in CallRecords /\ Stage(t) /\ Placed(t) /\ Works(t) /\ call \in [Threads -> CallRecords] /\ at \in [Threads -> Labels]
  BY DEF VmmTyped, Stages, Places, MemoryIInv, Workers
<1>3. Entering(t) /\ ~Reserving(t)
  BY <1>1 DEF Entering, Reserving, Allocs
<1>4. b \in Owns(t) /\ Reserved(b) /\ b \in Nat
  BY <1>3, BaseOwned
<1>5. /\ ReservationList' \in Seq(Entries) /\ WellFormed(ReservationList', FreeVirtualAddressPointer)
      /\ \A p, q : SameRegionIn(ReservationList', p, q) <=> SameRegion(p, q)
      /\ \A p, rights : CommittedIn(ReservationList', p, rights) <=> Committed(p, rights) /\ p # b
      /\ \A base, n : RegionIn(ReservationList', base, n) <=> IsRegion(base, n)
  <2>1. FreeVirtualAddressPointer \in Nat
    BY VmmAssumption DEF VmmTyped
  <2>2. /\ ReservationList \in Seq(Entries) /\ WellFormed(ReservationList, FreeVirtualAddressPointer)
        /\ SameRegionIn(ReservationList, call[t].base, call[t].base) /\ call[t].pages = 1
    BY <1>1, <1>2, <1>4 DEF VmmTyped, Regions, Reserved, SameRegion, Stage
  <2>3. Decommits(ReservationList, ReservationList', FreeVirtualAddressPointer, call[t].base)
    BY <1>1, <1>2, <2>1, <2>2, DecommitTakes
  <2> QED
    BY <2>3 DEF Decommits, SameRegion, Committed, IsRegion
<1>6. /\ at'[t] = "unmap" /\ call'[t] = [call[t] EXCEPT !.pcpu = None]
      /\ \A u \in Threads : u # t => at'[u] = at[u] /\ call'[u] = call[u]
  BY <1>1, <1>2
<1>7. /\ call'[t].op = "decommit" /\ call'[t].base = call[t].base /\ call'[t].pages = call[t].pages
      /\ call[t].pages = 1 /\ call'[t] \in CallRecords
  BY <1>1, <1>2, <1>6 DEF CallRecords, Stage
<1>8. ~Entering(t)' /\ ~Reserving(t)' /\ ~Building(t)' /\ Span(t)' = Span(t)
  BY <1>6, <1>7 DEF Entering, Reserving, Span, Building, Allocs
<1>9. Owns(t)' = Owns(t) /\ Owns(t) = {b}
  <2>1. Owns(t)' = Span(t)' /\ Owns(t) = Span(t)
    BY <1>1, <1>8, SpanOwned, SpanOwnedNext
  <2>2. Span(t) = {b}
    BY <1>4, <1>7 DEF Span, Run
  <2> QED
    BY <1>8, <2>1, <2>2
<1>10. ASSUME NEW u \in Threads, u # t
       PROVE  b \notin Owns(u)
  BY <1>1, <1>4, <1>10 DEF Apart
<1>11. OthersSame(t)
  <2> SUFFICES ASSUME NEW u \in Threads, u # t
               PROVE  at'[u] = at[u] /\ call'[u] = call[u] /\ Owns(u)' = Owns(u)
    BY DEF OthersSame
  <2>1. at'[u] = at[u] /\ call'[u] = call[u]
    BY <1>6
  <2>2. \A p : SameRegion(call[u].base, p)' <=> SameRegion(call[u].base, p)
    BY <1>5, <2>1 DEF SameRegion
  <2> QED
    BY <2>1, <2>2, OwnsSame
<1>12. VmmTyped'
  <2>1. call' \in [Threads -> CallRecords] /\ at' \in [Threads -> Labels]
    BY <1>1, <1>2, <1>6, <1>7 DEF Labels
  <2>2. VmmMemoryAccess' \in [Cpus -> BOOLEAN]
    BY <1>1 DEF VmmTyped
  <2> QED
    BY <1>1, <1>5, <2>1, <2>2 DEF VmmTyped
<1>13. Regions'
  BY <1>1, <1>5 DEF Regions
<1>14. Stage(t)'
  <2>1. t # None
    BY VmmAssumption
  <2> QED
    BY <1>1, <1>2, <1>6, <1>7, <2>1 DEF Stage, FaultLabels, Allocs
<1>15. Stages'
  <2>1. \A u \in Threads : u # None
    BY VmmAssumption
  <2> QED
    BY <1>1, <1>6, <1>11, <1>14, <2>1, NobodyMarked, StagesStep
<1>16. Marks'
  BY <1>1, <1>6, <1>11, NobodyMarked
<1>17. Apart'
  BY <1>1, <1>9, <1>11, ApartShrinks
<1>18. FreeVirtualAddressPointer' \in Int /\ FreeVirtualAddressPointer <= FreeVirtualAddressPointer'
  BY <1>1, VmmAssumption DEF VmmTyped
<1>19. Places'
  <2>1. Placed(t)'
    BY <1>1, <1>2, <1>6, <1>7, <1>8, <1>9 DEF Placed, FaultLabels
  <2>2. ASSUME NEW u \in Threads, u # t
        PROVE  Placed(u)'
    <3>1. Placed(u) /\ at'[u] = at[u] /\ call'[u] = call[u] /\ Owns(u)' = Owns(u) /\ Owns(u) \subseteq Pages
      BY <1>11, <2>2, OwnedPages DEF Places, OthersSame
    <3>2. \A p : Reserved(p)' <=> Reserved(p)
      BY <1>5 DEF Reserved, SameRegion
    <3>3. Reserved(call[u].base)' <=> Reserved(call[u].base)
      BY <1>5, <3>1 DEF Reserved, SameRegion
    <3>4. ~Entering(u) => b \notin Span(u)
      BY <1>10, <2>2, SpanOwned
    <3>5. \A p \in Span(u) : Committed(p, call[u].rights) /\ ~Entering(u) => Committed(p, call[u].rights)'
      BY <1>5, <3>1, <3>4 DEF Committed
    <3>6. IsRegion(call[u].base, call[u].pages)' <=> IsRegion(call[u].base, call[u].pages)
      BY <1>5, <3>1 DEF IsRegion
    <3> QED
      BY <1>18, <3>1, <3>2, <3>3, <3>5, <3>6, PlacedSame DEF Placed
  <2> QED
    BY <2>1, <2>2 DEF Places
<1>20. Works(t)'
  <2>1. IsPrivate(t)'
    BY <1>1, <1>2, <1>7, <1>8, <1>9, PrivacySame DEF Works
  <2> QED
    BY <1>6, <1>7, <1>8, <2>1, PlainWorks DEF HasFrames, FaultLabels
<1>21. FaultsApart'
  BY <1>1, <1>6, <1>7, FaultsSame DEF MemoryIInv
<1>22. MemoryIInv'
  <2>1. ~HasFrames(t) /\ ~HasFrames(t)'
    BY <1>1, <1>6 DEF HasFrames
  <2>2. Quiet(t)
    BY <1>1, <1>11, <1>18, <2>1 DEF Quiet
  <2>3. \A x \in alias : /\ ~Shows(t, x)
                         /\ ~Releases(t, x)
                         /\ IsRegion(x.base, x.pages) => IsRegion(x.base, x.pages)'
    BY <1>1, <1>5, <1>6, <1>7 DEF Shows, Releases, IsRegion
  <2>4. \A p : ~Leaves(t, p)
    BY <1>1 DEF Leaves
  <2>5. GivesBack(t)' /\ GivesBack(t)
    BY <1>1, <1>7 DEF GivesBack
  <2>6. \A p \in Owns(t) : p \notin written
    BY <1>1 DEF MemoryIInv, Contents, Given
  <2>7. \A p, rights : Committed(p, rights) => CommittedIn(ReservationList', p, rights) \/ Leaves(t, p)'
    BY <1>5, <1>6, <1>9 DEF Leaves
  <2> QED
    BY <1>1, <1>7, <1>9, <1>20, <1>21, <2>2, <2>3, <2>4, <2>5, <2>6, <2>7, QuietStep
<1> QED
  BY <1>12, <1>13, <1>15, <1>16, <1>17, <1>19, <1>22

\* A thread goes on outside the lock; the reservations stay.
LEMMA ControlKeeps ==
    ASSUME VmmIInv, NEW t \in Threads, UNCHANGED <<ReservationList, ReservationLock, VmmMemoryAccess, preempted>>,
           at[t] \notin {"inside", "uninit"}, NEW l \in Labels \ {"inside", "uninit"}, at' = [at EXCEPT ![t] = l],
           NEW c \in CallRecords, call' = [call EXCEPT ![t] = c],
           FreeVirtualAddressPointer' \in FreeVirtualAddressPointer .. EndPage + 1,
           pte' \in [Pages -> PageTableEntries \cup {None}], frame' \in [Frames -> {"free", "used", "queued"}],
           dirty' \subseteq Frames, written' \subseteq Pages, alias' \subseteq [base : Nat, of : Nat, pages : Nat],
           Stage(t)', Placed(t)',
           \A u \in Threads : u # t => Owns(t)' \cap Owns(u) = {} \/ (call'[t].op = "fault" /\ call[u].op = "fault")
    PROVE  ControlIInv' /\ OthersSame(t)
<1> USE DEF VmmIInv, ControlIInv
<1>1. call \in [Threads -> CallRecords] /\ at \in [Threads -> Labels]
  BY DEF VmmTyped
<1>2. at'[t] = l /\ call'[t] = c /\ \A u \in Threads : u # t => at'[u] = at[u] /\ call'[u] = call[u]
  BY <1>1
<1>3. OthersSame(t)
  BY <1>2, ListSame
<1>4. FreeVirtualAddressPointer' \in StartPage .. EndPage + 1 /\ FreeVirtualAddressPointer' \in Int
      /\ FreeVirtualAddressPointer <= FreeVirtualAddressPointer'
  BY VmmAssumption DEF VmmTyped
<1>5. VmmTyped'
  <2>1. call' \in [Threads -> CallRecords] /\ at' \in [Threads -> Labels]
    BY <1>1
  <2> QED
    BY <1>4, <2>1 DEF VmmTyped
<1>6. Regions'
  <2> SUFFICES ASSUME NEW i \in DOMAIN ReservationList, IsUsed(ReservationList[i])
               PROVE  ReservationList[i].start + ReservationList[i].pages <= FreeVirtualAddressPointer'
    BY DEF Regions, WellFormed
  <2>1. ReservationList[i].start + ReservationList[i].pages <= FreeVirtualAddressPointer /\ ReservationList[i] \in Entries
    BY DEF Regions, WellFormed, VmmTyped
  <2> QED
    BY <1>4, <2>1, VmmAssumption DEF Entries, VmmTyped
<1>7. Stages'
  BY <1>3, StagesStep
<1>8. Places'
  BY <1>3, <1>4, PlacesListSame
<1>9. Apart'
  BY <1>3, ApartStep
<1>10. Marks'
  BY <1>2 DEF Marks
<1> QED
  BY <1>3, <1>5, <1>6, <1>7, <1>8, <1>9, <1>10

\* ReadRegionFails
LEMMA ReadRegionFailsKeeps ==
    ASSUME VmmIInv, NEW t \in Threads, ReadRegionFails(t)
    PROVE  VmmIInv'
<1> USE DEF VmmIInv, ControlIInv
<1> DEFINE b == call[t].base
           n == call[t].pages
           c == [call[t] EXCEPT !.op = "release"]
<1>1. /\ at[t] = "read" /\ call' = [call EXCEPT ![t] = c] /\ at' = [at EXCEPT ![t] = "enter"]
      /\ UNCHANGED <<ReservationList, FreeVirtualAddressPointer, ReservationLock, VmmMemoryAccess, pte, frame, dirty, alias, written, contended, preempted>>
  BY DEF ReadRegionFails, At, Goto, historyVars, listVars, VmmTyped
<1>2. call[t] \in CallRecords /\ Stage(t) /\ Placed(t) /\ Works(t) /\ call \in [Threads -> CallRecords] /\ at \in [Threads -> Labels]
  BY DEF VmmTyped, Stages, Places, MemoryIInv, Workers
<1>3. call[t].op \in {"alloc", "stack"} /\ call[t].eager /\ call[t].file /\ call[t].reserve
  BY <1>1, <1>2 DEF Stage, AllocStage, Allocs
<1>4. c \in CallRecords /\ c.op = "release" /\ c.base = b /\ c.pages = n
  BY <1>2 DEF CallRecords
<1> HIDE DEF c
<1>5. at'[t] = "enter" /\ call'[t] = c /\ \A u \in Threads : u # t => at'[u] = at[u] /\ call'[u] = call[u]
  BY <1>1, <1>2
<1>6. IsRegion(b, n)
  BY <1>1, <1>2, <1>3 DEF Placed
<1>7. Owns(t) = Run(b, n)
  BY <1>1, SpanOwned DEF Entering, Span
<1>8. b \in Nat /\ b \in Run(b, n) /\ \A p : SameRegion(b, p) <=> p \in Run(b, n)
  BY <1>6, RegionIs
<1>9. Owns(t)' = Owns(t)
  <2>1. Entering(t)' /\ call'[t].op = "release"
    BY <1>4, <1>5 DEF Entering
  <2>2. Owns(t)' = {p \in Pages : SameRegion(call[t].base, p)'}
    BY <2>1 DEF Owns
  <2>3. \A p : SameRegion(call[t].base, p)' <=> SameRegion(b, p)
    BY <1>1, <1>4, <1>5 DEF SameRegion
  <2>4. Run(b, n) \subseteq Pages
    BY <1>7, OwnedPages
  <2> QED
    BY <1>7, <1>8, <2>2, <2>3, <2>4
<1>10. ~Reserving(t)' /\ ~Building(t)' /\ Entering(t)'
  BY <1>4, <1>5 DEF Entering, Reserving, Building, Allocs
<1>11. Stage(t)'
  <2>1. "enter" \notin FaultLabels
    BY DEF FaultLabels
  <2> QED
    BY <1>1, <1>2, <1>4, <1>5, <2>1 DEF Stage, Allocs
<1>12. Placed(t)'
  <2>1. Reserved(call[t].base)'
    BY <1>1, <1>4, <1>5, <1>8 DEF Reserved, SameRegion
  <2> QED
    BY <1>1, <1>2, <1>5, <1>9, <1>10, <2>1 DEF Placed, FaultLabels
<1>13. ControlIInv' /\ OthersSame(t)
  <2>1. FreeVirtualAddressPointer' \in FreeVirtualAddressPointer .. EndPage + 1
    BY <1>1, VmmAssumption DEF VmmTyped
  <2>2. "enter" \in Labels \ {"inside", "uninit"} /\ call[t].op # "fault"
    BY <1>3 DEF Labels
  <2> QED
    BY <1>1, <1>4, <1>9, <1>11, <1>12, <2>1, <2>2, ControlKeeps DEF VmmTyped, Apart
<1>14. Works(t)'
  <2>1. \A p \in Owns(t) : Private(p)
    BY <1>2, <1>3 DEF Works, IsPrivate, Building, Allocs
  <2>2. IsPrivate(t)'
    BY <1>1, <1>4, <1>5, <1>9, <1>10, <2>1 DEF IsPrivate, Private, IsShared, IsCopy
  <2> QED
    BY <1>4, <1>5, <1>10, <2>2, PlainWorks DEF HasFrames, FaultLabels
<1>15. FaultsApart'
  BY <1>1, <1>4, <1>5, FaultsSame DEF MemoryIInv
<1>16. MemoryIInv'
  <2>1. ~HasFrames(t) /\ ~HasFrames(t)'
    BY <1>1, <1>5 DEF HasFrames
  <2>2. Quiet(t)
    BY <1>1, <1>13, <2>1 DEF Quiet, VmmTyped
  <2>3. \A r \in alias : /\ ~Shows(t, r) /\ ~Releases(t, r)
                         /\ IsRegion(r.base, r.pages) => IsRegion(r.base, r.pages)'
    BY <1>1, <1>3 DEF Shows, Releases, IsRegion
  <2>4. \A p : ~Leaves(t, p)
    BY <1>1 DEF Leaves
  <2>5. ~GivesBack(t) /\ GivesBack(t)'
    BY <1>3, <1>4, <1>5 DEF GivesBack
  <2>6. \A p \in Owns(t) : p \notin written
    BY <1>1, <1>2 DEF Works, IsClean
  <2> QED
    BY <1>1, <1>4, <1>5, <1>9, <1>14, <1>15, <2>2, <2>3, <2>4, <2>5, <2>6, QuietStep DEF Committed
<1> QED
  BY <1>13, <1>16

\* FreeRegion and DecommitRegion: a thread gives a region or a page of it back.
LEMMA GiveUpKeeps ==
    ASSUME VmmIInv, NEW t \in Threads, NEW op \in {"release", "decommit"},
           NEW i \in DOMAIN ReservationList, NEW p \in Extent(ReservationList[i]),
           Idle(t), CanGiveUp(ReservationList[i]), StartFree(t, op, p, 1),
           op = "decommit" => \A r \in alias : r.base \notin Extent(ReservationList[i]),
           written' = written \ (IF op = "release" THEN Extent(ReservationList[i]) ELSE {p})
    PROVE  VmmIInv'
<1> USE DEF VmmIInv, ControlIInv
<1> DEFINE c == [NoCall EXCEPT !.op = op, !.base = p, !.pages = 1]
           X == Extent(ReservationList[i])
<1>1. /\ at[t] = "idle" /\ call' = [call EXCEPT ![t] = c] /\ at' = [at EXCEPT ![t] = "enter"]
      /\ UNCHANGED <<ReservationList, FreeVirtualAddressPointer, ReservationLock, VmmMemoryAccess, pte, frame, dirty, alias, contended, preempted>>
      /\ written' \subseteq written
  BY DEF StartFree, Idle, Goto, historyVars, listVars
<1>2. call[t] = NoCall /\ Stage(t) /\ Works(t) /\ call \in [Threads -> CallRecords] /\ at \in [Threads -> Labels]
  BY <1>1 DEF VmmTyped, Stages, Stage, MemoryIInv, Workers
<1>3. \A q : SameRegion(p, q) <=> q \in X
  BY DEF SameRegion, SameRegionIn, Regions, WellFormed
<1>4. p \in Pages /\ p < FreeVirtualAddressPointer /\ X \subseteq Pages /\ p \in Nat /\ \A q \in X : q < FreeVirtualAddressPointer
  <2>1. \A q \in X : q \in Pages /\ q < FreeVirtualAddressPointer
    BY <1>3, RegionsAreBelow
  <2> QED
    BY <2>1, VmmAssumption DEF Pages
<1>5. c \in CallRecords /\ c.op = op /\ c.base = p /\ c.pages = 1 /\ ~c.reserve /\ ~c.eager
  <2>1. {} \in Rights /\ 0 \in Nat /\ 1 \in Nat /\ <<>> \in Seq(Frames)
    BY DEF Rights
  <2> QED
    BY <1>4, <2>1 DEF CallRecords, NoCall
<1> HIDE DEF c
<1>6. at'[t] = "enter" /\ call'[t] = c /\ \A u \in Threads : u # t => at'[u] = at[u] /\ call'[u] = call[u]
  BY <1>1, <1>2
<1>7. Owns(t)' = (IF op = "release" THEN X ELSE {p})
  <2>1. CASE op = "release"
    <3>1. Owns(t)' = {q \in Pages : SameRegion(p, q)'}
      BY <1>5, <1>6, <2>1 DEF Owns, Entering
    <3>2. \A q : SameRegion(p, q)' <=> q \in X
      BY <1>1, <1>3 DEF SameRegion
    <3> QED
      BY <1>4, <2>1, <3>1, <3>2
  <2>2. CASE op = "decommit"
    <3>1. Owns(t)' = Span(t)'
      BY <1>5, <1>6, <2>2, SpanOwnedNext
    <3>2. Span(t)' = Run(p, 1)
      BY <1>5, <1>6 DEF Span
    <3> QED
      BY <1>4, <2>2, <3>1, <3>2 DEF Run
  <2> QED
    BY <2>1, <2>2
<1>8. p \in Owns(t)' /\ Owns(t)' \subseteq X
  BY <1>7
<1>9. ~Reserving(t)' /\ ~Building(t)' /\ Entering(t)'
  BY <1>5, <1>6 DEF Entering, Reserving, Building, Allocs
<1>10. Stage(t)'
  <2>1. "enter" \notin FaultLabels
    BY DEF FaultLabels
  <2> QED
    BY <1>1, <1>2, <1>5, <1>6, <2>1 DEF Stage, Allocs
<1>11. Placed(t)'
  <2>1. Reserved(call[t].base)'
    BY <1>1, <1>3, <1>5, <1>6 DEF Reserved, SameRegion
  <2>2. \A q \in Owns(t)' : StartPage <= q /\ q < FreeVirtualAddressPointer'
    BY <1>1, <1>4, <1>8, VmmAssumption DEF Pages
  <2> QED
    BY <1>6, <1>9, <2>1, <2>2 DEF Placed, FaultLabels
<1>12. ControlIInv' /\ OthersSame(t)
  <2>1. FreeVirtualAddressPointer' \in FreeVirtualAddressPointer .. EndPage + 1
    BY <1>1, VmmAssumption DEF VmmTyped
  <2>2. "enter" \in Labels \ {"inside", "uninit"}
    BY DEF Labels
  <2>3. \A u \in Threads : u # t => Owns(t)' \cap Owns(u) = {}
    BY <1>8, OwnsAreUsed DEF CanGiveUp
  <2> QED
    BY <1>1, <1>5, <1>10, <1>11, <2>1, <2>2, <2>3, ControlKeeps DEF VmmTyped
<1>13. Works(t)'
  <2>1. \A q \in X : ~IsShared(q)
    BY DEF CanGiveUp, NotShared, Shared, IsShared, Of
  <2>2. \A r \in alias : Copy(r) = X \/ Copy(r) \cap X = {}
    <3> SUFFICES ASSUME NEW r \in alias, Copy(r) \cap X # {} PROVE Copy(r) = X
      OBVIOUS
    <3>1. PICK q \in X : q \in Copy(r)
      OBVIOUS
    <3>2. CASE IsRegion(r.base, r.pages)
      <4>1. \A x \in Copy(r) : \A y : SameRegion(x, y) <=> y \in Copy(r)
        BY <3>2, RegionIs DEF Copy
      <4>2. \A y : SameRegion(q, y) <=> y \in X
        BY DEF SameRegion, SameRegionIn, Regions, WellFormed
      <4> QED
        BY <3>1, <4>1, <4>2 DEF Copy, Run
    <3>3. CASE \E u \in Threads : Releases(u, r)
      <4>1. PICK u \in Threads : Releases(u, r)
        BY <3>3
      <4>2. Owns(u) = Copy(r)
        BY <4>1, SpanOwned DEF Releases, Entering, Copy, Span
      <4> QED
        BY <3>1, <4>2, OwnsAreUsed DEF CanGiveUp
    <3>4. CASE \E u \in Threads : Describes(u, r)
      <4>1. PICK u \in Threads : Describes(u, r)
        BY <3>4
      <4>2. Owns(u) = Copy(r)
        BY <4>1, SpanOwned DEF Describes, Shows, Copy, Span
      <4> QED
        BY <3>1, <4>2, OwnsAreUsed DEF CanGiveUp
    <3> QED
      BY <3>2, <3>3, <3>4 DEF MemoryIInv, Aliases, AliasStands
  <2>3. op = "decommit" => \A q \in X : ~IsCopy(q)
    <3> SUFFICES ASSUME op = "decommit", NEW r \in alias PROVE Copy(r) \cap X = {}
      BY DEF IsCopy
    <3>1. r.base \in Copy(r)
      <4>1. 1 <= r.pages /\ r.base \in Nat /\ r.pages \in Nat
        BY DEF MemoryIInv, Aliases, AliasStands, VmmTyped
      <4> QED
        BY <4>1 DEF Copy, Run
    <3> QED
      BY <2>2, <3>1
  <2>4. IsPrivate(t)'
    <3>1. \A q \in Owns(t)' : ~IsShared(q)'
      BY <1>1, <1>8, <2>1 DEF IsShared
    <3>2. call'[t].op = "decommit" => \A q \in Owns(t)' : ~IsCopy(q)'
      BY <1>1, <1>5, <1>6, <1>8, <2>3 DEF IsCopy
    <3>3. call'[t].op = "release" => \A r \in alias' : Copy(r) = Owns(t)' \/ Copy(r) \cap Owns(t)' = {}
      BY <1>1, <1>5, <1>6, <1>7, <2>2
    <3> QED
      BY <1>5, <1>6, <1>9, <3>1, <3>2, <3>3 DEF IsPrivate, Private
  <2> QED
    BY <1>5, <1>6, <1>9, <2>4, PlainWorks DEF HasFrames, FaultLabels
<1>14. FaultsApart'
  BY <1>1, <1>5, <1>6, FaultsSame DEF MemoryIInv
<1>15. MemoryIInv'
  <2>1. ~HasFrames(t) /\ ~HasFrames(t)'
    BY <1>1, <1>6 DEF HasFrames
  <2>2. Quiet(t)
    BY <1>1, <1>12, <2>1 DEF Quiet, VmmTyped
  <2>3. \A r \in alias : /\ ~Shows(t, r) /\ ~Releases(t, r)
                         /\ IsRegion(r.base, r.pages) => IsRegion(r.base, r.pages)'
    BY <1>1, <1>2 DEF Shows, Releases, IsRegion, NoCall
  <2>4. \A q : ~Leaves(t, q)
    BY <1>1 DEF Leaves
  <2>5. ~GivesBack(t) /\ GivesBack(t)'
    BY <1>2, <1>5, <1>6 DEF GivesBack, NoCall
  <2>6. \A q \in Owns(t)' : q \notin written'
    BY <1>7
  <2>7. \A q \in written : q \notin written' => q \in Owns(t)'
    BY <1>7
  <2> QED
    BY <1>1, <1>5, <1>6, <1>13, <1>14, <2>2, <2>3, <2>4, <2>5, <2>6, <2>7, QuietStep DEF Committed
<1> QED
  BY <1>12, <1>15

\* A page that is not mapped is not shared, and shows another page only once that is made.
LEMMA UnmappedIsPrivate ==
    ASSUME VmmIInv, NEW p, ~Mapped(p), \A u \in Threads : call[u].op = "mdl" => p \notin Owns(u)
    PROVE  Private(p)
<1> USE DEF VmmIInv, ControlIInv, MemoryIInv
<1>1. ~IsShared(p)
  BY DEF IsShared, Aliases, AliasStands
<1>2. ~IsCopy(p)
  <2> SUFFICES ASSUME NEW r \in alias, p \in Copy(r) PROVE FALSE
    BY DEF IsCopy
  <2>1. PICK u \in Threads : Describes(u, r)
    BY DEF Aliases, AliasStands
  <2>2. call[u].op = "mdl" /\ Owns(u) = Copy(r)
    BY <2>1, SpanOwned DEF Describes, Shows, Copy, Span
  <2> QED
    BY <2>2
<1> QED
  BY <1>1, <1>2 DEF Private

\* PageFault
LEMMA PageFaultKeeps ==
    ASSUME VmmIInv, NEW t \in Threads, NEW p \in Pages, PageFault(t, p)
    PROVE  VmmIInv'
<1> USE DEF VmmIInv, ControlIInv
<1> DEFINE i == FindReservation(ReservationList, p, 1)
           c == [NoCall EXCEPT !.op = "fault", !.base = p, !.pages = 1,
                        !.rights = ReservationList[i].rights, !.file = ReservationList[i].file]
<1>1. /\ at[t] = "idle" /\ call' = [call EXCEPT ![t] = c] /\ at' = [at EXCEPT ![t] = "pf_frame"]
      /\ Usable(p) /\ ~Mapped(p) /\ CanAddressBeAccessed(p, {}) /\ Contend(p)
      /\ UNCHANGED <<ReservationList, FreeVirtualAddressPointer, ReservationLock, VmmMemoryAccess, pte, frame, dirty, alias, written, preempted>>
  BY DEF PageFault, Idle, Goto, listVars, Mapped
<1>2. call[t] = NoCall /\ Stage(t) /\ Works(t) /\ call \in [Threads -> CallRecords] /\ at \in [Threads -> Labels]
  BY <1>1 DEF VmmTyped, Stages, Stage, MemoryIInv, Workers
<1>3. p \in Nat
  BY VmmAssumption DEF Pages
<1>4. /\ i \in DOMAIN ReservationList /\ p \in ReservationList[i].commit
      /\ SameRegion(p, p) /\ Committed(p, ReservationList[i].rights)
  <2>1. i # 0 /\ p \in ReservationList[i].commit
    BY <1>1 DEF CanAddressBeAccessed
  <2> QED
    BY <1>3, <2>1, FindOne DEF SameRegion, Committed, VmmTyped, Regions
<1>5. /\ c \in CallRecords /\ c.op = "fault" /\ c.base = p /\ c.pages = 1 /\ ~c.reserve /\ ~c.eager
      /\ c.rights = ReservationList[i].rights
  <2>1. 0 \in Nat /\ 1 \in Nat /\ <<>> \in Seq(Frames)
    OBVIOUS
  <2>2. ReservationList[i] \in Entries
    BY <1>4 DEF VmmTyped
  <2>3. ReservationList[i].rights \in Rights /\ ReservationList[i].file \in BOOLEAN
    BY <2>2 DEF Entries
  <2> QED
    BY <1>3, <2>1, <2>3 DEF CallRecords, NoCall
<1> HIDE DEF c, i
<1>6. at'[t] = "pf_frame" /\ call'[t] = c /\ \A u \in Threads : u # t => at'[u] = at[u] /\ call'[u] = call[u]
  BY <1>1, <1>2
<1>7. ~Reserving(t)' /\ ~Building(t)' /\ ~Entering(t)' /\ ~HasFrames(t)'
  BY <1>5, <1>6 DEF Entering, Reserving, Building, Allocs, HasFrames
<1>8. Owns(t)' = {p} /\ Span(t)' = {p}
  <2>1. Span(t)' = {p}
    BY <1>3, <1>5, <1>6 DEF Span, Run
  <2> QED
    BY <1>5, <1>6, <1>7, <2>1, SpanOwnedNext
<1>9. Stage(t)'
  <2>1. "pf_frame" \in FaultLabels
    BY DEF FaultLabels
  <2> QED
    BY <1>1, <1>2, <1>5, <1>6, <2>1 DEF Stage, Allocs
<1>10. Placed(t)'
  <2>1. \A q \in Span(t)' : Committed(q, call[t].rights)'
    BY <1>1, <1>4, <1>5, <1>6, <1>8 DEF Committed
  <2>2. StartPage <= p /\ p < FreeVirtualAddressPointer'
    BY <1>1, <1>4, RegionsAreBelow, VmmAssumption DEF Pages
  <2> QED
    BY <1>6, <1>7, <1>8, <2>1, <2>2 DEF Placed
<1>11. ASSUME NEW u \in Threads, call[u].op # "fault"
       PROVE  p \notin Owns(u)
  <2>1. u \notin Faulting(p)
    BY <1>11 DEF Faulting, Stages, Stage
  <2> QED
    BY <1>1, <2>1, OwnsAreUsed DEF Usable
<1>12. ControlIInv' /\ OthersSame(t)
  <2>1. FreeVirtualAddressPointer' \in FreeVirtualAddressPointer .. EndPage + 1
    BY <1>1, VmmAssumption DEF VmmTyped
  <2>2. "pf_frame" \in Labels \ {"inside", "uninit"}
    BY DEF Labels, FaultLabels
  <2>3. \A u \in Threads : Owns(t)' \cap Owns(u) = {} \/ (call'[t].op = "fault" /\ call[u].op = "fault")
    BY <1>5, <1>6, <1>8, <1>11
  <2> QED
    BY <1>1, <1>5, <1>9, <1>10, <2>1, <2>2, <2>3, ControlKeeps DEF VmmTyped
<1>13. Works(t)'
  <2>1. Private(p)
    BY <1>1, <1>11, UnmappedIsPrivate
  <2>2. IsPrivate(t)'
    BY <1>1, <1>5, <1>6, <1>7, <1>8, <2>1 DEF IsPrivate, Private, IsShared, IsCopy
  <2>3. IsEmpty(t)'
    BY <1>1, <1>5, <1>6, <1>7 DEF IsEmpty, Mapped
  <2>4. p \notin written
    BY <1>1 DEF MemoryIInv, Contents
  <2>5. IsClean(t)' /\ IsFilled(t)' /\ HandIsReady(t)'
    BY <1>1, <1>5, <1>6, <1>7, <1>8, <2>4 DEF IsClean, IsFilled, HandIsReady
  <2> QED
    BY <2>2, <2>3, <2>5 DEF Works
<1>14. contended => contended'
  BY <1>1 DEF Contend
<1>15. FaultsApart'
  <2> SUFFICES ASSUME ~contended' PROVE \A u \in Threads : u # t /\ call'[u].op = "fault" => call'[u].base # p
    BY <1>5, <1>6, <1>14 DEF FaultsApart, MemoryIInv
  <2>1. Faulting(p) = {}
    BY <1>1 DEF Contend
  <2> QED
    BY <1>6, <2>1 DEF Faulting, Stages, Stage
<1>16. MemoryIInv'
  <2>1. ~HasFrames(t)
    BY <1>1 DEF HasFrames
  <2>2. Quiet(t)
    BY <1>1, <1>7, <1>12, <1>14, <2>1 DEF Quiet, VmmTyped
  <2>3. \A r \in alias : /\ ~Shows(t, r) /\ ~Releases(t, r)
                         /\ IsRegion(r.base, r.pages) => IsRegion(r.base, r.pages)'
    BY <1>1, <1>2 DEF Shows, Releases, IsRegion, NoCall
  <2>4. \A q : ~Leaves(t, q)
    BY <1>1 DEF Leaves
  <2>5. ~GivesBack(t) /\ ~GivesBack(t)'
    BY <1>2, <1>5, <1>6 DEF GivesBack, NoCall
  <2> QED
    BY <1>1, <1>5, <1>6, <1>13, <1>15, <2>2, <2>3, <2>4, <2>5, QuietStep DEF Committed
<1> QED
  BY <1>12, <1>16

\* A call that ends without a change of memory.
LEMMA ReturnKeeps ==
    ASSUME VmmIInv, NEW t \in Threads, at[t] \notin {"idle", "inside", "uninit", "unmap"}, Return(t), ~HasFrames(t),
           call[t].op \notin {"mdl", "release", "decommit"},
           UNCHANGED <<listVars, pte, frame, dirty, alias, written, contended, preempted>>
    PROVE  VmmIInv'
<1> USE DEF VmmIInv, ControlIInv
<1>1. /\ at' = [at EXCEPT ![t] = "idle"] /\ call' = [call EXCEPT ![t] = NoCall]
      /\ UNCHANGED <<ReservationList, FreeVirtualAddressPointer, ReservationLock, VmmMemoryAccess, pte, frame, dirty, alias, written, contended, preempted>>
  BY DEF Return, Goto, listVars
<1>2. at'[t] = "idle" /\ call'[t] = NoCall /\ call \in [Threads -> CallRecords] /\ Stage(t)
  BY <1>1 DEF VmmTyped, Stages
<1>3. Works(t)' /\ ~HasFrames(t)' /\ ~GivesBack(t)' /\ Placed(t)' /\ Owns(t)' = {}
  BY <1>2, IdleWorks
<1>4. Stage(t)'
  BY <1>1, <1>2, IdleOwnsNothing DEF Stage
<1>5. NoCall \in CallRecords /\ NoCall.op = "none"
  <2>1. 0 \in Nat /\ <<>> \in Seq(Frames) /\ {} \in Rights
    BY DEF Rights
  <2> QED
    BY <2>1 DEF NoCall, CallRecords
<1>6. ControlIInv' /\ OthersSame(t)
  <2>1. FreeVirtualAddressPointer' \in FreeVirtualAddressPointer .. EndPage + 1
    BY <1>1, VmmAssumption DEF VmmTyped
  <2>2. "idle" \in Labels \ {"inside", "uninit"}
    BY DEF Labels
  <2> QED
    BY <1>1, <1>3, <1>4, <1>5, <2>1, <2>2, ControlKeeps DEF VmmTyped
<1>7. FaultsApart'
  BY <1>1, <1>2, <1>5, <1>6, FaultsSame DEF MemoryIInv, OthersSame
<1>8. MemoryIInv'
  <2>1. Quiet(t)
    BY <1>1, <1>3, <1>6 DEF Quiet, VmmTyped
  <2>2. \A r \in alias : /\ ~Shows(t, r) /\ ~Releases(t, r)
                         /\ IsRegion(r.base, r.pages) => IsRegion(r.base, r.pages)'
    BY <1>1 DEF Shows, Releases, IsRegion
  <2>3. \A q : ~Leaves(t, q)
    BY DEF Leaves
  <2>4. ~GivesBack(t)
    BY DEF GivesBack
  <2> QED
    BY <1>1, <1>2, <1>3, <1>5, <1>7, <2>1, <2>2, <2>3, <2>4, QuietStep DEF Committed
<1> QED
  BY <1>6, <1>8

\* Pages that were not given out yet are not reserved, not mapped and not worked on.
LEMMA BeyondIsNew ==
    ASSUME VmmIInv, NEW p \in Int, FreeVirtualAddressPointer <= p
    PROVE  (~Reserved(p) /\ ~Mapped(p)) \/ p \notin Pages
<1> USE DEF VmmIInv, ControlIInv
<1> SUFFICES ASSUME p \in Pages PROVE ~Reserved(p) /\ ~Mapped(p)
  OBVIOUS
<1>1. FreeVirtualAddressPointer \in Int
  BY VmmAssumption DEF VmmTyped
<1>2. \A q : ~SameRegion(p, q)
  BY <1>1, RegionsAreBelow
<1>3. ~Mapped(p)
  <2> SUFFICES ASSUME Mapped(p) PROVE FALSE
    OBVIOUS
  <2>1. CASE Committed(p, pte[p].rights)
    <3>1. PICK i \in DOMAIN ReservationList : p \in ReservationList[i].commit
      BY <2>1 DEF Committed, CommittedIn
    <3>2. p \in Extent(ReservationList[i])
      BY <3>1, FreeEntryIsEntry DEF Regions, WellFormed, IsUsed
    <3> QED
      BY <1>2, <3>2 DEF SameRegion, SameRegionIn
  <2>2. CASE \E u \in Threads : Leaves(u, p)
    BY <1>1, <2>2 DEF Leaves, Places, Placed
  <2> QED
    BY <2>1, <2>2 DEF MemoryIInv, MappedAreCommitted
<1> QED
  BY <1>2, <1>3 DEF Reserved

LEMMA OwnsAreOld ==
    ASSUME ControlIInv, NEW u \in Threads, NEW p \in Owns(u)
    PROVE  p \in Pages /\ p < FreeVirtualAddressPointer
BY OwnedPages DEF ControlIInv, Places, Placed

\* A call of VmmAllocRegionEx takes new pages, or pages of a region that nobody works on.
Begins(t, c) ==
    /\ at[t] = "idle" /\ at' = [at EXCEPT ![t] = "enter"] /\ call' = [call EXCEPT ![t] = c]
    /\ c \in CallRecords /\ c.op \in Allocs /\ AllocStage(c)
    /\ Run(c.base, c.pages) \subseteq Pages
    /\ UNCHANGED <<ReservationList, ReservationLock, VmmMemoryAccess, pte, frame, dirty, written, contended, preempted>>
    /\ \/ /\ c.reserve /\ c.base = FreeVirtualAddressPointer
          /\ FreeVirtualAddressPointer' = FreeVirtualAddressPointer + c.pages
       \/ /\ ~c.reserve /\ c.op = "alloc" /\ UNCHANGED FreeVirtualAddressPointer
          /\ Reserved(c.base) /\ \A u \in Threads : Run(c.base, c.pages) \cap Owns(u) = {}
          /\ c.eager => \A p \in Run(c.base, c.pages) : ~Mapped(p)

LEMMA BeginsFacts ==
    ASSUME VmmIInv, NEW t \in Threads, NEW c, Begins(t, c), alias' \subseteq [base : Nat, of : Nat, pages : Nat]
    PROVE  /\ ControlIInv' /\ OthersSame(t)
           /\ at'[t] = "enter" /\ call'[t] = c /\ Owns(t)' \subseteq Run(c.base, c.pages)
           /\ c.reserve => Owns(t)' = Run(c.base, c.pages)
           /\ Building(t)' => \A p \in Owns(t)' : ~Mapped(p)
           /\ \A u \in Threads : Owns(t)' \cap Owns(u) = {}
           /\ FreeVirtualAddressPointer' \in Int /\ FreeVirtualAddressPointer <= FreeVirtualAddressPointer'
<1> USE DEF VmmIInv, ControlIInv, Begins
<1> DEFINE R == Run(c.base, c.pages)
<1>1. call \in [Threads -> CallRecords] /\ at \in [Threads -> Labels] /\ Stage(t)
  BY DEF VmmTyped, Stages
<1>2. at'[t] = "enter" /\ call'[t] = c /\ \A u \in Threads : u # t => at'[u] = at[u] /\ call'[u] = call[u]
  BY <1>1
<1>3. c.base \in Nat /\ c.pages \in Nat /\ 1 <= c.pages /\ c.base \in R /\ R \subseteq Int
  BY DEF CallRecords, AllocStage, Run
<1>4. Entering(t)' /\ (Reserving(t)' <=> c.reserve) /\ Span(t)' = R
  BY <1>2 DEF Entering, Reserving, Span
<1>5. Owns(t)' \subseteq R /\ (c.reserve => Owns(t)' = R)
  <2>1. CASE c.op \in {"alloc", "stack"} /\ ~c.reserve
    <3>1. Owns(t)' = {p \in Span(t)' : SameRegion(call[t].base, p)'}
      BY <1>2, <1>4, <2>1 DEF Owns
    <3> QED
      BY <1>4, <2>1, <3>1
  <2>2. CASE ~(c.op \in {"alloc", "stack"} /\ ~c.reserve)
    BY <1>2, <1>4, <2>2, SpanOwnedNext DEF Allocs
  <2> QED
    BY <2>1, <2>2
<1>6. FreeVirtualAddressPointer \in Int /\ StartPage <= FreeVirtualAddressPointer /\ StartPage \in Int /\ EndPage \in Int
  BY VmmAssumption DEF VmmTyped
<1>7. c.reserve => \A p \in R : FreeVirtualAddressPointer <= p /\ p < FreeVirtualAddressPointer' /\ ~Reserved(p) /\ ~Mapped(p)
  BY <1>3, <1>6, BeyondIsNew DEF Run
<1>8. \A p \in R : p < FreeVirtualAddressPointer' \/ ~SameRegion(c.base, p)
  BY <1>7, RegionsAreBelow
<1>9. \A u \in Threads : Owns(t)' \cap Owns(u) = {}
  <2>1. CASE c.reserve
    <3>1. \A u \in Threads : \A p \in Owns(u) : p < FreeVirtualAddressPointer /\ p \in Int
      BY OwnsAreOld DEF Pages
    <3> QED
      BY <1>5, <1>6, <1>7, <2>1, <3>1
  <2>2. CASE ~c.reserve
    BY <1>5, <2>2
  <2> QED
    BY <2>1, <2>2
<1>10. Building(t)' => \A p \in Owns(t)' : ~Mapped(p)
  BY <1>2, <1>5, <1>7 DEF Building
<1>11. Stage(t)'
  <2>1. "enter" \notin FaultLabels
    BY DEF FaultLabels
  <2> QED
    BY <1>1, <1>2, <2>1 DEF Stage, Allocs
<1>12. Placed(t)'
  <2>1. \A p \in Owns(t)' : StartPage <= p /\ p < FreeVirtualAddressPointer'
    <3>1. \A p \in Owns(t)' : p < FreeVirtualAddressPointer'
      <4>1. CASE c.reserve
        BY <1>5, <1>7, <4>1
      <4>2. CASE ~c.reserve
        <5>1. Owns(t)' = {p \in Span(t)' : SameRegion(call[t].base, p)'}
          BY <1>2, <1>4, <4>2 DEF Owns
        <5>2. \A p : SameRegion(call[t].base, p)' <=> SameRegion(c.base, p)
          BY <1>2 DEF SameRegion
        <5> QED
          BY <1>4, <1>8, <5>1, <5>2
      <4> QED
        BY <4>1, <4>2
    <3> QED
      BY <1>5, <1>6, <3>1 DEF Pages
  <2>2. c.reserve => \A p \in R : ~Reserved(p)'
    BY <1>7 DEF Reserved, SameRegion
  <2>3. ~c.reserve => Reserved(call[t].base)'
    BY <1>2 DEF Reserved, SameRegion
  <2> QED
    BY <1>2, <1>4, <2>1, <2>2, <2>3 DEF Placed, FaultLabels
<1>13. FreeVirtualAddressPointer' \in FreeVirtualAddressPointer .. EndPage + 1
  <2>1. CASE c.reserve
    <3>1. FreeVirtualAddressPointer + c.pages - 1 \in R
      BY <1>3, <1>6, <2>1 DEF Run
    <3> QED
      BY <1>3, <1>6, <2>1, <3>1 DEF Pages
  <2>2. CASE ~c.reserve
    BY <1>6, <2>2 DEF VmmTyped
  <2> QED
    BY <2>1, <2>2
<1>14. ControlIInv' /\ OthersSame(t)
  <2>1. "enter" \in Labels \ {"inside", "uninit"}
    BY DEF Labels
  <2>2. \A u \in Threads : u # t => Owns(t)' \cap Owns(u) = {} \/ (call'[t].op = "fault" /\ call[u].op = "fault")
    BY <1>9
  <2>3. /\ pte' \in [Pages -> PageTableEntries \cup {None}] /\ frame' \in [Frames -> {"free", "used", "queued"}]
        /\ dirty' \subseteq Frames /\ written' \subseteq Pages
    BY DEF VmmTyped
  <2>4. UNCHANGED <<ReservationList, ReservationLock, VmmMemoryAccess, preempted>> /\ at[t] \notin {"inside", "uninit"}
    OBVIOUS
  <2> HIDE DEF VmmIInv, ControlIInv
  <2>5. at' = [at EXCEPT ![t] = "enter"] /\ call' = [call EXCEPT ![t] = c] /\ c \in CallRecords
    OBVIOUS
  <2> HIDE DEF Begins
  <2> QED
    BY <1>11, <1>12, <1>13, <2>1, <2>2, <2>3, <2>4, <2>5, ControlKeeps
<1>15. FreeVirtualAddressPointer' \in Int /\ FreeVirtualAddressPointer <= FreeVirtualAddressPointer'
  BY <1>6, <1>13
<1> QED
  BY <1>2, <1>5, <1>9, <1>10, <1>14, <1>15

\* The calls of AllocRegion and AllocStack.
LEMMA BeginsKeeps ==
    ASSUME VmmIInv, NEW t \in Threads, NEW c, Begins(t, c), c.op # "mdl", UNCHANGED alias
    PROVE  VmmIInv'
<1> USE DEF VmmIInv, ControlIInv
<1>1. /\ ControlIInv' /\ OthersSame(t)
      /\ at'[t] = "enter" /\ call'[t] = c
      /\ Building(t)' => \A p \in Owns(t)' : ~Mapped(p)
      /\ \A u \in Threads : Owns(t)' \cap Owns(u) = {}
      /\ FreeVirtualAddressPointer' \in Int /\ FreeVirtualAddressPointer <= FreeVirtualAddressPointer'
  BY BeginsFacts DEF VmmTyped
<1>2. /\ at[t] = "idle" /\ call[t] = NoCall /\ c.op \in {"alloc", "stack"}
      /\ UNCHANGED <<ReservationList, pte, frame, dirty, alias, written, contended>>
  BY DEF Begins, Allocs, Stages, Stage
<1> HIDE DEF VmmIInv, ControlIInv
<1>3. Works(t)'
  <2>1. Building(t)' => \A p \in Owns(t)' : Private(p)
    BY <1>1, UnmappedIsPrivate
  <2>2. IsPrivate(t)'
    BY <1>1, <1>2, <2>1 DEF IsPrivate, Private, IsShared, IsCopy
  <2>3. Building(t)' => \A p \in Owns(t)' : ~Mapped(p)'
    BY <1>1, <1>2 DEF Mapped
  <2> QED
    BY <1>1, <1>2, <2>2, <2>3, PlainWorks DEF HasFrames, FaultLabels
<1>4. FaultsApart'
  BY <1>1, <1>2, FaultsSame DEF VmmIInv, MemoryIInv, OthersSame
<1>5. MemoryIInv'
  <2>1. ~HasFrames(t) /\ ~HasFrames(t)'
    BY <1>1, <1>2 DEF HasFrames
  <2>2. Quiet(t)
    BY <1>1, <1>2, <2>1 DEF Quiet
  <2>3. \A r \in alias : /\ ~Shows(t, r) /\ ~Releases(t, r)
                         /\ IsRegion(r.base, r.pages) => IsRegion(r.base, r.pages)'
    BY <1>2 DEF Shows, Releases, IsRegion, NoCall
  <2>4. \A q : ~Leaves(t, q)
    BY <1>2 DEF Leaves
  <2>5. ~GivesBack(t) /\ ~GivesBack(t)'
    BY <1>1, <1>2 DEF GivesBack, NoCall
  <2> QED
    BY <1>1, <1>2, <1>3, <1>4, <2>2, <2>3, <2>4, <2>5, QuietStep DEF Committed
<1> QED
  BY <1>1, <1>5 DEF VmmIInv

\* AllocRegion
LEMMA AllocRegionKeeps ==
    ASSUME VmmIInv, CallsAreOrdinary, NEW t \in Threads, AllocRegion(t)
    PROVE  VmmIInv'
<1> USE DEF VmmIInv, ControlIInv
<1>1. PICK a \in Calls :
        /\ Idle(t) /\ StartAlloc(t, "alloc", a, <<>>) /\ UNCHANGED alias
        /\ a.reserve \/ /\ FindReservation(ReservationList, FirstPage(a.address), 1) # 0
                        /\ \A u \in Threads : Run(FirstPage(a.address), PageCount(a.address, a.size)) \cap Uses(u) = {}
                        /\ a.eager => \A p \in Run(FirstPage(a.address), PageCount(a.address, a.size)) \cap Pages : pte[p] = None
  BY DEF AllocRegion
<1>2. /\ a.address \in Nat /\ a.size \in Nat \ {0} /\ {a.reserve, a.commit, a.eager, a.file} \subseteq BOOLEAN
      /\ a.reserve => a.address = 0
      /\ a.eager => a.commit
      /\ a.file => a.reserve
  BY DEF CallsAreOrdinary
<1> DEFINE n == PageCount(a.address, a.size)
           f == FirstPage(a.address)
<1>3. n \in Nat /\ 1 <= n /\ f \in Nat
  BY <1>2, PageCounts
<1>4. ~a.reserve => Reserved(f) /\ a.address # 0
  <2> SUFFICES ASSUME ~a.reserve PROVE Reserved(f) /\ a.address # 0
    OBVIOUS
  <2>1. Reserved(f)
    BY <1>1, <1>3, FindOne DEF Reserved, SameRegion, VmmTyped, Regions
  <2>2. f \in Pages
    BY <2>1, RegionsAreBelow DEF Reserved
  <2>3. 0 \notin Pages /\ FirstPage(0) = 0
    BY PageCounts, VmmAssumption DEF Pages
  <2> QED
    BY <2>1, <2>2, <2>3
<1> DEFINE base == IF a.address # 0 THEN f ELSE FreeVirtualAddressPointer
           c == [NoCall EXCEPT !.op = "alloc", !.base = base, !.pages = n,
                    !.reserve = a.reserve, !.commit = a.commit, !.eager = a.eager,
                    !.rights = a.rights, !.file = a.file, !.mdl = <<>>]
<1>5. /\ at[t] = "idle" /\ at' = [at EXCEPT ![t] = "enter"] /\ call' = [call EXCEPT ![t] = c]
      /\ Run(base, n) \subseteq Pages
      /\ FreeVirtualAddressPointer' = IF a.address # 0 THEN FreeVirtualAddressPointer ELSE FreeVirtualAddressPointer + n
      /\ UNCHANGED <<ReservationList, ReservationLock, VmmMemoryAccess, pte, frame, dirty, written, contended, preempted>>
  BY <1>1 DEF StartAlloc, Idle, Goto
<1>6. base \in Nat
  BY <1>3, VmmAssumption DEF VmmTyped
<1>7. /\ c \in CallRecords /\ c.op = "alloc" /\ c.base = base /\ c.pages = n /\ c.reserve = a.reserve
      /\ c.commit = a.commit /\ c.eager = a.eager /\ c.file = a.file /\ c.mdl = <<>>
  <2>1. 0 \in Nat /\ <<>> \in Seq(Frames) /\ a.rights \in Rights
    BY DEF Rights
  <2> HIDE DEF base, n
  <2> QED
    BY <1>2, <1>3, <1>6, <2>1 DEF CallRecords, NoCall, Allocs, n
<1>8. AllocStage(c) /\ c.op \in Allocs
  BY <1>2, <1>3, <1>7 DEF AllocStage, Allocs
<1>9. ~c.reserve => /\ \A u \in Threads : Run(c.base, c.pages) \cap Owns(u) = {}
                    /\ c.eager => \A p \in Run(c.base, c.pages) : ~Mapped(p)
  <2> SUFFICES ASSUME ~a.reserve PROVE /\ \A u \in Threads : Run(base, n) \cap Owns(u) = {}
                                       /\ a.eager => \A p \in Run(base, n) : ~Mapped(p)
    BY <1>7
  <2>1. base = f
    BY <1>4
  <2> HIDE DEF f, n, base
  <2>2. \A u \in Threads : Run(f, n) \cap Uses(u) = {}
    BY <1>1 DEF f, n
  <2>3. a.eager => \A p \in Run(f, n) \cap Pages : pte[p] = None
    BY <1>1 DEF f, n
  <2> QED
    BY <1>5, <2>1, <2>2, <2>3, OwnsAreUsed DEF Mapped
<1>10. Begins(t, c)
  <2>1. CASE a.reserve
    <3>1. base = FreeVirtualAddressPointer /\ FreeVirtualAddressPointer' = FreeVirtualAddressPointer + n
      BY <1>2, <1>5, <2>1
    <3> HIDE DEF base, n, c
    <3> QED
      BY <1>5, <1>7, <1>8, <2>1, <3>1 DEF Begins
  <2>2. CASE ~a.reserve
    <3>1. base = f /\ FreeVirtualAddressPointer' = FreeVirtualAddressPointer /\ Reserved(f)
      BY <1>4, <1>5, <2>2
    <3> HIDE DEF base, n, c, f
    <3> QED
      BY <1>5, <1>7, <1>8, <1>9, <2>2, <3>1 DEF Begins
  <2> QED
    BY <2>1, <2>2
<1> HIDE DEF c
<1> QED
  BY <1>1, <1>7, <1>10, BeginsKeeps

\* AllocStack
LEMMA AllocStackKeeps ==
    ASSUME VmmIInv, NEW t \in Threads, AllocStack(t)
    PROVE  VmmIInv'
<1> USE DEF VmmIInv, ControlIInv
<1> DEFINE n == 1 + STACK_GUARD_PAGES
           a == StackCall(n)
           c == [NoCall EXCEPT !.op = "stack", !.base = FreeVirtualAddressPointer, !.pages = n,
                    !.reserve = TRUE, !.commit = FALSE, !.eager = FALSE,
                    !.rights = {"W"}, !.file = FALSE, !.mdl = <<>>]
<1>1. n \in Nat /\ 1 <= n /\ PageCount(a.address, a.size) = n
  <2>1. n \in Nat /\ 1 <= n
    BY VmmAssumption
  <2> HIDE DEF n
  <2> QED
    BY <2>1, PageCounts DEF StackCall
<1> HIDE DEF n
<1>2. /\ a.address = 0 /\ a.reserve = TRUE /\ a.commit = FALSE /\ a.eager = FALSE /\ a.rights = {"W"} /\ a.file = FALSE
  BY DEF StackCall
<1>3. Idle(t) /\ StartAlloc(t, "stack", a, <<>>) /\ UNCHANGED alias
  BY DEF AllocStack, n
<1> HIDE DEF a
<1>4. /\ at[t] = "idle" /\ at' = [at EXCEPT ![t] = "enter"] /\ call' = [call EXCEPT ![t] = c]
      /\ Run(FreeVirtualAddressPointer, n) \subseteq Pages
      /\ FreeVirtualAddressPointer' = FreeVirtualAddressPointer + n
      /\ UNCHANGED <<ReservationList, ReservationLock, VmmMemoryAccess, pte, frame, dirty, written, contended, preempted>>
  BY <1>1, <1>2, <1>3 DEF StartAlloc, Idle, Goto
<1>5. /\ c \in CallRecords /\ c.op = "stack" /\ c.base = FreeVirtualAddressPointer /\ c.pages = n /\ c.reserve
      /\ ~c.eager /\ ~c.file /\ c.mdl = <<>>
  <2>1. 0 \in Nat /\ <<>> \in Seq(Frames) /\ {"W"} \in Rights /\ FreeVirtualAddressPointer \in Nat
    BY VmmAssumption DEF Rights, VmmTyped
  <2> QED
    BY <1>1, <2>1 DEF CallRecords, NoCall, Allocs
<1> HIDE DEF c
<1>6. AllocStage(c) /\ c.op \in Allocs
  BY <1>1, <1>5 DEF AllocStage, Allocs, n
<1>7. Begins(t, c)
  BY <1>4, <1>5, <1>6 DEF Begins
<1> QED
  BY <1>3, <1>5, <1>7, BeginsKeeps

\* GetSystemVirtualAddress
LEMMA GetSystemVirtualAddressKeeps ==
    ASSUME VmmIInv, NEW t \in Threads, GetSystemVirtualAddress(t)
    PROVE  VmmIInv'
<1> USE DEF VmmIInv, ControlIInv
<1>1. PICK of \in Pages, n \in 1 .. 2 :
        /\ Idle(t)
        /\ Run(of, n) \subseteq Pages \ (Shared \cup UNION {Uses(u) : u \in Threads})
        /\ \A p \in Run(of, n) : pte[p] # None
        /\ StartAlloc(t, "mdl", MdlCall(n, {"W"}), [i \in 1 .. n |-> pte[of + i - 1].frame])
        /\ alias' = alias \cup {[base |-> FreeVirtualAddressPointer, of |-> of, pages |-> n]}
  BY DEF GetSystemVirtualAddress
<1> DEFINE a == MdlCall(n, {"W"})
           mdl == [i \in 1 .. n |-> pte[of + i - 1].frame]
           base == FreeVirtualAddressPointer
           c == [NoCall EXCEPT !.op = "mdl", !.base = base, !.pages = n,
                    !.reserve = TRUE, !.commit = TRUE, !.eager = TRUE,
                    !.rights = {"W"}, !.file = FALSE, !.mdl = mdl]
<1>2. n \in Nat /\ 1 <= n /\ n <= 2 /\ PageCount(a.address, a.size) = n
  BY PageCounts DEF MdlCall
<1>3. a.address = 0 /\ a.reserve = TRUE /\ a.commit = TRUE /\ a.eager = TRUE /\ a.rights = {"W"} /\ a.file = FALSE
  BY DEF MdlCall
<1>4. StartAlloc(t, "mdl", a, mdl)
  BY <1>1
<1> HIDE DEF a, mdl
<1>5. /\ at[t] = "idle" /\ at' = [at EXCEPT ![t] = "enter"] /\ call' = [call EXCEPT ![t] = c]
      /\ Run(base, n) \subseteq Pages
      /\ FreeVirtualAddressPointer' = FreeVirtualAddressPointer + n
      /\ UNCHANGED <<ReservationList, ReservationLock, VmmMemoryAccess, pte, frame, dirty, written, contended, preempted>>
  BY <1>1, <1>2, <1>3, <1>4 DEF StartAlloc, Idle, Goto
<1>6. base \in Nat /\ of \in Nat /\ \A i \in 1 .. n : of + i - 1 \in Run(of, n)
  BY <1>2, VmmAssumption DEF VmmTyped, Pages, Run
<1>7. mdl \in Seq(Frames) /\ Len(mdl) = n /\ \A i \in 1 .. n : mdl[i] = pte[of + i - 1].frame
  <2>1. \A i \in 1 .. n : pte[of + i - 1].frame \in Frames
    BY <1>1, <1>6 DEF VmmTyped, PageTableEntries
  <2> QED
    BY <1>2, <2>1 DEF mdl
<1>8. /\ c \in CallRecords /\ c.op = "mdl" /\ c.base = base /\ c.pages = n /\ c.reserve
      /\ c.commit /\ c.eager /\ ~c.file /\ c.mdl = mdl
  <2>1. 0 \in Nat /\ {"W"} \in Rights
    BY DEF Rights
  <2> QED
    BY <1>2, <1>6, <1>7, <2>1 DEF CallRecords, NoCall, Allocs
<1> HIDE DEF c
<1>9. AllocStage(c) /\ c.op \in Allocs
  BY <1>2, <1>7, <1>8 DEF AllocStage, Allocs
<1>10. Begins(t, c)
  BY <1>5, <1>8, <1>9 DEF Begins
<1>11. PICK new \in [base : Nat, of : Nat, pages : Nat] :
         new = [base |-> base, of |-> of, pages |-> n] /\ alias' = alias \cup {new}
  BY <1>1, <1>2, <1>6
<1>12. /\ ControlIInv' /\ OthersSame(t)
       /\ at'[t] = "enter" /\ call'[t] = c /\ Owns(t)' = Run(base, n)
       /\ Building(t)' => \A p \in Owns(t)' : ~Mapped(p)
       /\ \A u \in Threads : Owns(t)' \cap Owns(u) = {}
       /\ FreeVirtualAddressPointer' \in Int /\ FreeVirtualAddressPointer <= FreeVirtualAddressPointer'
  <2>1. alias' \subseteq [base : Nat, of : Nat, pages : Nat]
    BY <1>11 DEF VmmTyped
  <2> QED
    BY <1>8, <1>10, <2>1, BeginsFacts
<1>13. call[t] = NoCall /\ UNCHANGED <<ReservationList, pte, frame, dirty, written, contended>>
  BY <1>5 DEF Stages, Stage
<1>14. new.base = base /\ new.of = of /\ new.pages = n /\ Of(new) = Run(of, n) /\ Copy(new) = Run(base, n)
  BY <1>11 DEF Of, Copy
<1> HIDE DEF VmmIInv, ControlIInv
<1>15. \A p \in Run(of, n) : p \in Pages /\ Mapped(p) /\ ~IsShared(p) /\ \A u \in Threads : p \notin Owns(u)
  BY <1>1, OwnsAreUsed DEF VmmIInv, Mapped, Shared, IsShared, Of
<1>16. \A p \in Run(of, n) : p < base
  BY <1>6, <1>15, BeyondIsNew, VmmAssumption DEF Pages
<1>17. \A p \in Run(base, n) : p \in Pages /\ ~Mapped(p) /\ base <= p
  BY <1>5, <1>6, BeyondIsNew, VmmAssumption DEF Run, Pages
<1>18. \A p : /\ IsShared(p)' <=> IsShared(p) \/ p \in Run(of, n)
              /\ IsCopy(p)' <=> IsCopy(p) \/ p \in Run(base, n)
              /\ Mapped(p)' <=> Mapped(p)
  BY <1>11, <1>13, <1>14 DEF IsShared, IsCopy, Mapped
<1>19. ASSUME NEW u \in Threads PROVE Works(u)'
  <2>1. CASE u = t
    <3>1. \A p \in Run(base, n) : ~IsShared(p)
      BY <1>17 DEF IsShared, VmmIInv, MemoryIInv, Aliases, AliasStands
    <3>2. \A p \in Run(base, n) : p \notin Run(of, n)
      BY <1>6, <1>16, <1>17 DEF Pages
    <3>3. IsPrivate(t)'
      BY <1>8, <1>12, <1>18, <3>1, <3>2 DEF IsPrivate
    <3> QED
      BY <1>8, <1>12, <1>18, <2>1, <3>3, PlainWorks DEF HasFrames, FaultLabels
  <2>2. CASE u # t
    <3>1. Works(u) /\ at'[u] = at[u] /\ call'[u] = call[u] /\ Owns(u)' = Owns(u)
      BY <1>12, <2>2 DEF OthersSame, VmmIInv, MemoryIInv, Workers
    <3>2. \A p \in Owns(u) : p \notin Run(of, n) /\ p \notin Run(base, n)
      BY <1>12, <1>15
    <3>3. \A p \in Owns(u) : (IsShared(p)' <=> IsShared(p)) /\ (IsCopy(p)' <=> IsCopy(p))
      BY <1>18, <3>2
    <3>4. \A r \in alias' : r \in alias \/ Copy(r) \cap Owns(u) = {}
      BY <1>11, <1>14, <3>2
    <3>5. IsPrivate(u)'
      BY <3>1, <3>3, <3>4 DEF IsPrivate, Works, Building, Private
    <3> QED
      BY <1>13, <3>1, <3>5, WorksButAliases
  <2> QED
    BY <2>1, <2>2
<1>20. \A u \in Threads : (HasFrames(u)' <=> HasFrames(u)) /\ (HasFrames(u) => Hand(u)' = Hand(u))
  BY <1>5, <1>12 DEF OthersSame, HasFrames, Hand
<1>21. HandsApart'
  BY <1>20 DEF HandsApart, VmmIInv, MemoryIInv
<1>22. FaultsApart'
  BY <1>8, <1>12, <1>13, FaultsSame DEF VmmIInv, MemoryIInv, OthersSame
<1>23. Aliases'
  <2>1. ASSUME NEW r \in alias PROVE AliasStands(r)' /\ AliasStands(r)
    <3>1. AliasStands(r) /\ r \in [base : Nat, of : Nat, pages : Nat]
      BY DEF Aliases, VmmTyped, VmmIInv, MemoryIInv, ControlIInv
    <3>2. r.base + r.pages <= FreeVirtualAddressPointer'
      <4>1. r.base + r.pages <= FreeVirtualAddressPointer /\ r.base + r.pages \in Int
        BY <3>1 DEF AliasStands
      <4> QED
        BY <1>6, <1>12, <4>1
    <3>3. \A u \in Threads : (Describes(u, r) => Describes(u, r)') /\ (Releases(u, r) => Releases(u, r)')
      BY <1>12, <1>13 DEF OthersSame, Describes, Shows, Releases, NoCall
    <3> QED
      BY <1>13, <1>18, <3>1, <3>2, <3>3 DEF AliasStands, IsRegion
  <2>2. Describes(t, new)'
    <3>1. Shows(t, new)'
      BY <1>8, <1>12, <1>14 DEF Shows
    <3>2. \A p \in Run(of, n) : p - of + 1 \in 1 .. n /\ of + (p - of + 1) - 1 = p
      BY <1>2, <1>6 DEF Run
    <3>3. \A p \in Run(of, n) : mdl[p - of + 1] = pte[p].frame
      BY <1>7, <3>2
    <3>4. \A p \in Of(new) : call'[t].mdl[p - new.of + 1] = pte'[p].frame
      BY <1>8, <1>12, <1>13, <1>14, <3>3
    <3> QED
      BY <3>1, <3>4 DEF Describes
  <2>3. AliasStands(new)'
    <3>1. \A p \in Run(of, n) : Twin(new, p) \in Run(base, n)
      BY <1>2, <1>6, <1>14 DEF Twin, Run
    <3>2. \A p \in Of(new) : Mapped(p)' /\ ~Mapped(Twin(new, p))'
      BY <1>14, <1>15, <1>17, <1>18, <3>1
    <3>3. StartPage <= of /\ of + n <= base
      <4>1. of + n - 1 \in Run(of, n)
        BY <1>2, <1>6 DEF Run
      <4> QED
        BY <1>2, <1>6, <1>16, <4>1, VmmAssumption DEF Pages
    <3>4. base + n <= FreeVirtualAddressPointer'
      BY <1>2, <1>5, <1>6
    <3> QED
      BY <1>2, <1>14, <2>2, <3>2, <3>3, <3>4 DEF AliasStands
  <2>4. \A r \in alias : Copy(r) \cap Copy(new) = {} /\ Of(r) \cap Of(new) = {}
    <3> SUFFICES ASSUME NEW r \in alias PROVE Copy(r) \cap Copy(new) = {} /\ Of(r) \cap Of(new) = {}
      OBVIOUS
    <3>1. r.base + r.pages <= base /\ r \in [base : Nat, of : Nat, pages : Nat]
      BY <2>1 DEF AliasStands, VmmTyped, VmmIInv, ControlIInv
    <3>2. Copy(r) \cap Copy(new) = {}
      BY <1>2, <1>6, <1>14, <3>1 DEF Copy, Run
    <3>3. Of(r) \cap Of(new) = {}
      BY <1>14, <1>15 DEF IsShared
    <3> QED
      BY <3>2, <3>3
  <2>5. \A r, s \in alias' : r # s => Copy(r) \cap Copy(s) = {} /\ Of(r) \cap Of(s) = {}
    BY <1>11, <2>4 DEF Aliases, VmmIInv, MemoryIInv
  <2>6. ASSUME NEW u \in Threads, call'[u].op = "mdl" PROVE \E r \in alias' : Shows(u, r)'
    <3>1. CASE u = t
      BY <1>11, <2>2, <3>1 DEF Describes
    <3>2. CASE u # t
      BY <1>11, <1>12, <2>6, <3>2 DEF OthersSame, Aliases, Shows, VmmIInv, MemoryIInv
    <3> QED
      BY <3>1, <3>2
  <2> QED
    BY <1>11, <2>1, <2>3, <2>5, <2>6 DEF Aliases
<1>24. FrameUse'
  <2>1. \A p, q : HasCopyBelow(p, q) => HasCopyBelow(p, q)'
    BY <1>11, <1>18 DEF HasCopyBelow
  <2> QED
    BY <1>13, <1>18, <2>1 DEF FrameUse, VmmIInv, MemoryIInv
<1>25. FramesInUse'
  BY <1>13, <1>18, <1>20 DEF FramesInUse, InUse, VmmIInv, MemoryIInv
<1>26. MappedAreCommitted'
  BY <1>5, <1>12, <1>13, <1>18 DEF MappedAreCommitted, Committed, Leaves, OthersSame, VmmIInv, MemoryIInv
<1>27. Contents'
  <2>1. \A p : Given(p)' <=> Given(p)
    BY <1>8, <1>12, <1>13 DEF Given, OthersSame, NoCall
  <2> QED
    BY <1>13, <1>18, <2>1 DEF Contents, VmmIInv, MemoryIInv
<1> QED
  BY <1>12, <1>19, <1>21, <1>22, <1>23, <1>24, <1>25, <1>26, <1>27 DEF VmmIInv, MemoryIInv, Workers

\* What VmReservationSpaceAllocRegion does to the list with the lock held: a call that
\* reserves finds room, and a region that was just made takes a commit.
ChangesTo(list, new, top, a, committing) ==
    /\ new \in Seq(Entries) /\ WellFormed(new, top)
    /\ \A p, q : SameRegionIn(new, p, q) <=> SameRegionIn(list, p, q) \/ (a.reserve /\ {p, q} \subseteq Run(a.base, a.pages))
    /\ \A p, rights : CommittedIn(new, p, rights) <=>
          CommittedIn(list, p, rights) \/ (committing /\ p \in Run(a.base, a.pages) /\ rights = a.rights)
    /\ \A b, n : RegionIn(new, b, n) <=> RegionIn(list, b, n) \/ (a.reserve /\ b = a.base /\ n = a.pages)
    /\ committing => \A p, q \in Run(a.base, a.pages) : SameRegionIn(new, p, q)

LEMMA ChangeFacts ==
    ASSUME VmmIInv, NEW t \in Threads, ChangeReservations(t), NEW a \in CallRecords, a = call[t]
    PROVE  /\ at[t] = "inside" /\ a.op \in Allocs /\ AllocStage(a)
           /\ UNCHANGED <<FreeVirtualAddressPointer, pte, frame, dirty, alias, written, contended, preempted>>
           /\ ReservationLock' = None /\ VmmMemoryAccess' = [VmmMemoryAccess EXCEPT ![a.pcpu] = FALSE]
           /\ \/ /\ ~a.reserve /\ Return(t)
                 /\ ChangesTo(ReservationList, ReservationList', FreeVirtualAddressPointer, a, FALSE)
              \/ /\ AfterAlloc(t)
                 /\ ChangesTo(ReservationList, ReservationList', FreeVirtualAddressPointer, a, a.commit)
<1> USE DEF VmmIInv, ControlIInv
<1> DEFINE list == ReservationList
           top == FreeVirtualAddressPointer
           reserved == IF a.reserve THEN InitializeReservation(list, a) ELSE list
           fails == (a.reserve /\ ~CanReserve(list, a)) \/ (a.commit /\ ~CanCommit(reserved, a))
           R == Run(a.base, a.pages)
<1>1. /\ at[t] = "inside" /\ a.op \in Allocs
      /\ ReservationList' = IF a.reserve /\ ~CanReserve(list, a) THEN list
                            ELSE IF fails \/ ~a.commit THEN reserved
                            ELSE CommitReservation(reserved, a)
      /\ VmmMemoryAccess' = [VmmMemoryAccess EXCEPT ![a.pcpu] = FALSE]
      /\ ReservationLock' = None
      /\ IF fails THEN Return(t) ELSE AfterAlloc(t)
      /\ alias' = IF fails /\ a.op = "mdl" THEN {r \in alias : r.base # a.base} ELSE alias
      /\ UNCHANGED <<FreeVirtualAddressPointer, pte, frame, dirty, written, contended, preempted>>
  BY DEF ChangeReservations, At, historyVars, Allocs
<1>2. Stage(t) /\ Placed(t) /\ AllocStage(a) /\ 1 <= a.pages /\ (a.op = "mdl" => a.reserve)
  BY <1>1 DEF Stages, Places, Stage, AllocStage
<1>3. list \in Seq(Entries) /\ top \in Nat /\ WellFormed(list, top) /\ top <= EndPage + 1
  BY VmmAssumption DEF VmmTyped, Regions
<1>4. a.base \in R
  BY <1>2 DEF Run, CallRecords
<1> HIDE DEF VmmIInv, ControlIInv
<1>5. CASE a.reserve
  <2>1. Entering(t) /\ Reserving(t) /\ Span(t) = R
    BY <1>1, <1>5 DEF Entering, Reserving, Span
  <2>2. \A p \in R : ~SameRegionIn(list, p, p)
    BY <1>2, <2>1 DEF Placed, Reserved, SameRegion
  <2>3. CanReserve(list, a)
    <3>1. \A j \in DOMAIN list : ~(R \subseteq Extent(list[j]))
      BY <1>4, <2>2 DEF SameRegionIn
    <3> QED
      BY <1>3, <3>1, FindFacts DEF CanReserve
  <2>4. StartPage <= a.base /\ a.base + a.pages <= top
    <3>1. Owns(t) = R
      BY <1>5, <2>1, SpanOwned, <1>1 DEF Allocs
    <3>2. a.base \in R /\ a.base + a.pages - 1 \in R
      BY <1>2 DEF Run, CallRecords
    <3>3. a.base + a.pages - 1 < top /\ StartPage <= a.base
      BY <1>2, <3>1, <3>2 DEF Placed
    <3> QED
      BY <1>3, <3>3 DEF CallRecords
  <2>5. reserved = InitializeReservation(list, a)
    BY <1>5
  <2> HIDE DEF reserved, list, top, R
  <2>6. Adds(list, reserved, top, a)
    BY <1>2, <1>3, <2>2, <2>4, <2>5, InitializeAdds DEF R
  <2>7. ~fails
    BY <2>3, <2>6 DEF Adds
  <2>8. CASE a.commit
    <3>1. ReservationList' = CommitReservation(reserved, a) /\ AfterAlloc(t) /\ UNCHANGED alias
      BY <1>1, <2>3, <2>7, <2>8
    <3>2. Commits(reserved, ReservationList', top, a)
      BY <1>2, <1>3, <2>6, <3>1, CommitAdds DEF Adds
    <3>3. ChangesTo(list, ReservationList', top, a, TRUE)
      BY <1>5, <2>6, <3>2 DEF Adds, Commits, ChangesTo
    <3> QED
      BY <1>1, <1>2, <2>8, <3>1, <3>3 DEF list, top, ChangesTo
  <2>9. CASE ~a.commit
    <3>1. ReservationList' = reserved /\ AfterAlloc(t) /\ UNCHANGED alias
      BY <1>1, <2>3, <2>7, <2>9
    <3>2. ChangesTo(list, ReservationList', top, a, FALSE)
      BY <1>5, <2>6, <3>1 DEF Adds, ChangesTo
    <3> QED
      BY <1>1, <1>2, <2>9, <3>1, <3>2 DEF list, top, ChangesTo
  <2> QED
    BY <2>8, <2>9
<1>6. CASE ~a.reserve
  <2>1. reserved = list /\ UNCHANGED alias
    BY <1>1, <1>2, <1>6
  <2> HIDE DEF reserved, list, top, R
  <2>2. CASE a.commit /\ CanCommit(list, a)
    <3>1. ReservationList' = CommitReservation(list, a) /\ AfterAlloc(t)
      BY <1>1, <1>6, <2>1, <2>2
    <3>2. Commits(list, ReservationList', top, a)
      BY <1>2, <1>3, <2>2, <3>1, CommitAdds
    <3>3. ChangesTo(list, ReservationList', top, a, TRUE)
      BY <1>6, <3>2 DEF Commits, ChangesTo
    <3> QED
      BY <1>1, <1>2, <2>1, <2>2, <3>1, <3>3 DEF list, top, ChangesTo
  <2>3. CASE ~(a.commit /\ CanCommit(list, a))
    <3>1. ReservationList' = list /\ (IF a.commit THEN Return(t) ELSE AfterAlloc(t))
      BY <1>1, <1>6, <2>1, <2>3
    <3>2. ChangesTo(list, ReservationList', top, a, FALSE)
      BY <1>3, <1>6, <3>1 DEF ChangesTo
    <3> QED
      BY <1>1, <1>2, <1>6, <2>1, <3>1, <3>2 DEF list, top, ChangesTo
  <2> QED
    BY <2>2, <2>3
<1> QED
  BY <1>5, <1>6

\* Where a call of VmmAllocRegionEx goes from there, with pages it worked on before.
GoesOn(t, a, l, c) ==
    /\ l \in {"idle", "enter", "frames", "map"} /\ c \in CallRecords
    /\ at' = [at EXCEPT ![t] = l] /\ call' = [call EXCEPT ![t] = c] /\ at'[t] = l /\ call'[t] = c
    /\ Stage(t)' /\ Placed(t)' /\ Owns(t)' \subseteq Owns(t) /\ ~HasFrames(t)'
    /\ c.op \in Allocs \cup {"none"}
    /\ c.op # "none" => c.op = a.op
    /\ Building(t)' => Building(t)
    /\ a.op = "mdl" => c.op = "mdl" /\ c.base = a.base /\ c.pages = a.pages /\ c.mdl = a.mdl

LEMMA NoCallFacts == NoCall \in CallRecords /\ NoCall.op = "none" /\ NoCall.pages = 0 /\ NoCall.pcpu = None
<1>1. 0 \in Nat /\ <<>> \in Seq(Frames) /\ {} \in Rights
  BY DEF Rights
<1> QED
  BY <1>1 DEF NoCall, CallRecords

LEMMA ChangeReturns ==
    ASSUME VmmIInv, NEW t \in Threads, NEW a \in CallRecords, a = call[t], at[t] = "inside", a.op \in Allocs,
           a.op # "mdl", ReservationLock' = None, Return(t)
    PROVE  GoesOn(t, a, "idle", NoCall)
<1> USE DEF VmmIInv, ControlIInv
<1>1. at' = [at EXCEPT ![t] = "idle"] /\ call' = [call EXCEPT ![t] = NoCall] /\ at'[t] = "idle" /\ call'[t] = NoCall
  BY DEF Return, Goto, VmmTyped
<1>2. Works(t)' /\ ~HasFrames(t)' /\ Placed(t)' /\ Owns(t)' = {} /\ Stage(t)'
  BY <1>1, IdleWorks, IdleOwnsNothing, VmmAssumption
<1>3. ~Building(t)'
  BY <1>1, NoCallFacts DEF Building, Allocs
<1> QED
  BY <1>1, <1>2, <1>3, NoCallFacts DEF GoesOn

\* ... the second call of MmuAllocStack.
LEMMA ChangeStack ==
    ASSUME VmmIInv, NEW t \in Threads, NEW a \in CallRecords, a = call[t], at[t] = "inside", a.op = "stack", a.reserve,
           AllocStage(a), ReservationLock' = None, UNCHANGED FreeVirtualAddressPointer, AfterAlloc(t),
           ChangesTo(ReservationList, ReservationList', FreeVirtualAddressPointer, a, a.commit)
    PROVE  \E c : GoesOn(t, a, "enter", c)
<1> USE DEF VmmIInv, ControlIInv
<1> DEFINE b == [a EXCEPT !.base = a.base + STACK_GUARD_PAGES]
           d == [b EXCEPT !.pages = a.pages - STACK_GUARD_PAGES]
           e == [d EXCEPT !.reserve = FALSE, !.commit = TRUE]
<1>1. PICK c : c = [a EXCEPT !.base = @ + STACK_GUARD_PAGES, !.pages = @ - STACK_GUARD_PAGES,
                             !.reserve = FALSE, !.commit = TRUE, !.eager = TRUE, !.pcpu = None]
  OBVIOUS
<1>2. a.pages = 1 + STACK_GUARD_PAGES /\ STACK_GUARD_PAGES \in Nat /\ a.base \in Nat /\ ~a.file
  BY VmmAssumption DEF AllocStage, CallRecords
<1>3. /\ c \in CallRecords /\ c.op = "stack" /\ c.base = a.base + STACK_GUARD_PAGES /\ c.pages = 1
      /\ ~c.reserve /\ c.eager /\ c.commit /\ ~c.file /\ c.mdl = a.mdl
  <2> HIDE DEF VmmIInv, ControlIInv
  <2>1. /\ b \in CallRecords /\ b.op = "stack" /\ b.base = a.base + STACK_GUARD_PAGES /\ b.pages = a.pages
        /\ ~b.file /\ b.mdl = a.mdl
    BY <1>2 DEF CallRecords
  <2>2. c = [e EXCEPT !.eager = TRUE, !.pcpu = None]
    BY <1>1
  <2>3. a.pages - STACK_GUARD_PAGES = 1
    BY <1>2
  <2> HIDE DEF b
  <2>4. d = [b EXCEPT !.pages = 1]
    BY <2>3
  <2> HIDE DEF d
  <2>5. /\ d \in CallRecords /\ d.op = "stack" /\ d.base = a.base + STACK_GUARD_PAGES /\ d.pages = 1
        /\ ~d.file /\ d.mdl = a.mdl
    BY <2>1, <2>4 DEF CallRecords
  <2>6. /\ e \in CallRecords /\ e.op = "stack" /\ e.base = a.base + STACK_GUARD_PAGES /\ e.pages = 1
        /\ ~e.reserve /\ e.commit /\ ~e.file /\ e.mdl = a.mdl
    BY <2>5 DEF CallRecords
  <2> HIDE DEF e
  <2> QED
    BY <2>2, <2>6 DEF CallRecords
<1>4. at' = [at EXCEPT ![t] = "enter"] /\ call' = [call EXCEPT ![t] = c]
  <2>1. call[t].op = "stack" /\ call[t].reserve /\ ~call[t].eager
    BY DEF AllocStage
  <2>2. /\ at' = [at EXCEPT ![t] = "enter"]
        /\ call' = [call EXCEPT ![t] = [call[t] EXCEPT
              !.base = @ + STACK_GUARD_PAGES, !.pages = @ - STACK_GUARD_PAGES,
              !.reserve = FALSE, !.commit = TRUE, !.eager = TRUE, !.pcpu = None]]
    <3> HIDE DEF VmmIInv, ControlIInv
    <3> QED
      BY ONLY <2>1, AfterAlloc(t) DEF AfterAlloc, Goto
  <2> QED
    BY <1>1, <2>2
<1> HIDE DEF b, d, e
<1>5. at'[t] = "enter" /\ call'[t] = c /\ Stage(t) /\ Placed(t)
  BY <1>4 DEF VmmTyped, Stages, Places
<1> HIDE DEF VmmIInv, ControlIInv
<1>6. Run(c.base, 1) = {c.base} /\ c.base \in Run(a.base, a.pages) /\ c.base \in Nat
  BY <1>2, <1>3 DEF Run
<1>7. Owns(t) = Run(a.base, a.pages) /\ Building(t)
  BY SpanOwned DEF Span, Building, Allocs
<1>8. Owns(t)' \subseteq {c.base} /\ Entering(t)' /\ ~Reserving(t)' /\ Span(t)' = {c.base}
  <2>1. Entering(t)' /\ Span(t)' = {c.base} /\ ~Reserving(t)'
    BY <1>3, <1>5, <1>6 DEF Entering, Span, Reserving
  <2>2. Owns(t)' = {p \in Span(t)' : SameRegion(call[t].base, p)'}
    BY <1>3, <1>5, <2>1 DEF Owns
  <2> QED
    BY <2>1, <2>2
<1>9. Stage(t)'
  <2>1. AllocStage(c)
    BY <1>2, <1>3 DEF AllocStage
  <2>2. "enter" \notin FaultLabels /\ t # None
    BY VmmAssumption DEF FaultLabels
  <2> QED
    BY <1>3, <1>5, <2>1, <2>2 DEF Stage, Allocs
<1>10. Placed(t)'
  <2>1. Reserved(call[t].base)'
    BY <1>3, <1>5, <1>6 DEF ChangesTo, Reserved, SameRegion
  <2>2. \A p \in Owns(t)' : StartPage <= p /\ p < FreeVirtualAddressPointer'
    BY <1>5, <1>6, <1>7, <1>8 DEF Placed
  <2> QED
    BY <1>5, <1>8, <2>1, <2>2 DEF Placed, FaultLabels
<1>11. ~HasFrames(t)'
  BY <1>5 DEF HasFrames
<1> QED
  BY <1>3, <1>4, <1>5, <1>6, <1>7, <1>8, <1>9, <1>10, <1>11 DEF GoesOn, Allocs

\* ... or the call maps what it committed.
LEMMA ChangeMaps ==
    ASSUME VmmIInv, NEW t \in Threads, NEW a \in CallRecords, a = call[t], at[t] = "inside", a.op \in Allocs,
           ~(a.op = "stack" /\ a.reserve), a.eager,
           AllocStage(a), ReservationLock' = None, UNCHANGED FreeVirtualAddressPointer, AfterAlloc(t),
           ChangesTo(ReservationList, ReservationList', FreeVirtualAddressPointer, a, a.commit)
    PROVE  \E l, c : GoesOn(t, a, l, c)
<1> USE DEF VmmIInv, ControlIInv
<1>1. PICK c, l : c = [a EXCEPT !.pcpu = None] /\ l = IF a.mdl = <<>> THEN "frames" ELSE "map"
  OBVIOUS
<1>2. a.base \in Nat /\ a.pages \in Nat /\ 1 <= a.pages /\ a.commit /\ (a.mdl = <<>> <=> a.op # "mdl")
  BY DEF AllocStage, CallRecords
<1>3. /\ c \in CallRecords /\ c.op = a.op /\ c.base = a.base /\ c.pages = a.pages /\ c.reserve = a.reserve
      /\ c.eager /\ c.commit /\ c.file = a.file /\ c.mdl = a.mdl /\ c.rights = a.rights
  BY <1>1, <1>2 DEF CallRecords
<1>4. at' = [at EXCEPT ![t] = l] /\ call' = [call EXCEPT ![t] = c] /\ l \in {"frames", "map"}
  BY <1>1 DEF AfterAlloc, Goto, VmmTyped
<1>5. at'[t] = l /\ call'[t] = c /\ Stage(t) /\ Placed(t)
  BY <1>4 DEF VmmTyped, Stages, Places
<1>6. (l = "frames" <=> a.op # "mdl") /\ (l = "map" <=> a.op = "mdl")
  BY <1>1, <1>2
<1> HIDE DEF VmmIInv, ControlIInv
<1>7. Span(t)' = Run(a.base, a.pages) /\ Owns(t)' = Span(t)' /\ ~Entering(t)' /\ ~Reserving(t)' /\ Building(t)
  BY <1>3, <1>4, <1>5, SpanOwnedNext DEF Span, Entering, Reserving, Building
<1>8. Owns(t) = Run(a.base, a.pages)
  <2>1. CASE a.op \in {"alloc", "stack"} /\ ~a.reserve
    <3>1. Owns(t) = {p \in Run(a.base, a.pages) : SameRegion(a.base, p)}
      BY <2>1 DEF Owns, Entering, Span
    <3>2. \A p \in Run(a.base, a.pages) : SameRegion(a.base, p)
      <4>1. a.base \in Run(a.base, a.pages)
        BY <1>2 DEF Run
      <4> QED
        BY <1>2, <2>1, <4>1 DEF ChangesTo, SameRegion
    <3> QED
      BY <3>1, <3>2
  <2>2. CASE ~(a.op \in {"alloc", "stack"} /\ ~a.reserve)
    BY <2>2, SpanOwned DEF Span, Allocs
  <2> QED
    BY <2>1, <2>2
<1>9. Stage(t)'
  <2>1. AllocStage(c)
    BY <1>3 DEF AllocStage
  <2>2. l \notin FaultLabels /\ t # None
    BY <1>4, VmmAssumption DEF FaultLabels
  <2> QED
    BY <1>3, <1>4, <1>5, <1>6, <2>1, <2>2 DEF Stage, Allocs
<1>10. Placed(t)'
  <2>1. \A p \in Span(t)' : Committed(p, call[t].rights)'
    BY <1>2, <1>3, <1>5, <1>7 DEF ChangesTo, Committed
  <2>2. \A p \in Owns(t)' : StartPage <= p /\ p < FreeVirtualAddressPointer'
    BY <1>5, <1>7, <1>8 DEF Placed
  <2>3. call'[t].reserve => IsRegion(call[t].base, call[t].pages)'
    BY <1>3, <1>5 DEF ChangesTo, IsRegion
  <2> QED
    BY <1>5, <1>7, <2>1, <2>2, <2>3 DEF Placed
<1>11. ~HasFrames(t)'
  BY <1>3, <1>4, <1>5, <1>6 DEF HasFrames
<1> QED
  BY <1>3, <1>4, <1>5, <1>7, <1>8, <1>9, <1>10, <1>11 DEF GoesOn

LEMMA ChangeGoesOn ==
    ASSUME VmmIInv, NEW t \in Threads, ChangeReservations(t), NEW a \in CallRecords, a = call[t]
    PROVE  /\ at[t] = "inside" /\ a.op \in Allocs /\ (a.op = "mdl" => a.mdl # <<>>)
           /\ UNCHANGED <<FreeVirtualAddressPointer, pte, frame, dirty, alias, written, contended, preempted>>
           /\ ReservationLock' = None /\ VmmMemoryAccess' = [VmmMemoryAccess EXCEPT ![a.pcpu] = FALSE]
           /\ \E committing \in BOOLEAN : ChangesTo(ReservationList, ReservationList', FreeVirtualAddressPointer, a, committing)
           /\ \E l, c : GoesOn(t, a, l, c)
<1>1. /\ at[t] = "inside" /\ a.op \in Allocs /\ AllocStage(a)
      /\ UNCHANGED <<FreeVirtualAddressPointer, pte, frame, dirty, alias, written, contended, preempted>>
      /\ ReservationLock' = None /\ VmmMemoryAccess' = [VmmMemoryAccess EXCEPT ![a.pcpu] = FALSE]
      /\ \/ /\ ~a.reserve /\ Return(t)
            /\ ChangesTo(ReservationList, ReservationList', FreeVirtualAddressPointer, a, FALSE)
         \/ /\ AfterAlloc(t)
            /\ ChangesTo(ReservationList, ReservationList', FreeVirtualAddressPointer, a, a.commit)
  BY ChangeFacts
<1>2. a.op = "mdl" => a.mdl # <<>> /\ a.reserve /\ a.eager
  BY <1>1 DEF AllocStage
<1>3. a.commit \in BOOLEAN
  BY DEF CallRecords
<1>4. \E l, c : GoesOn(t, a, l, c)
  <2>1. CASE ~a.reserve /\ Return(t)
    BY <1>1, <1>2, <2>1, ChangeReturns
  <2>2. CASE AfterAlloc(t) /\ ChangesTo(ReservationList, ReservationList', FreeVirtualAddressPointer, a, a.commit)
    <3>1. CASE a.op = "stack" /\ a.reserve
      BY <1>1, <2>2, <3>1, ChangeStack
    <3>2. CASE ~(a.op = "stack" /\ a.reserve) /\ a.eager
      BY <1>1, <2>2, <3>2, ChangeMaps
    <3>3. CASE ~(a.op = "stack" /\ a.reserve) /\ ~a.eager
      <4>1. Return(t)
        BY <2>2, <3>3 DEF AfterAlloc
      <4> QED
        BY <1>1, <1>2, <3>3, <4>1, ChangeReturns
    <3> QED
      BY <3>1, <3>2, <3>3
  <2> QED
    BY <1>1, <2>1, <2>2
<1> QED
  BY <1>1, <1>2, <1>3, <1>4

\* ChangeReservations
LEMMA ChangeReservationsKeeps ==
    ASSUME VmmIInv, NEW t \in Threads, ChangeReservations(t)
    PROVE  VmmIInv'
<1> USE DEF VmmIInv, ControlIInv
<1>1. PICK a \in CallRecords : a = call[t]
  BY DEF VmmTyped
<1>2. /\ at[t] = "inside" /\ a.op \in Allocs
      /\ UNCHANGED <<FreeVirtualAddressPointer, pte, frame, dirty, alias, written, contended, preempted>>
      /\ ReservationLock' = None /\ VmmMemoryAccess' = [VmmMemoryAccess EXCEPT ![a.pcpu] = FALSE]
  BY <1>1, ChangeGoesOn
<1> DEFINE R == Run(a.base, a.pages)
<1>3. PICK committing \in BOOLEAN : ChangesTo(ReservationList, ReservationList', FreeVirtualAddressPointer, a, committing)
  BY <1>1, ChangeGoesOn
<1>4. PICK l, c : GoesOn(t, a, l, c)
  BY <1>1, ChangeGoesOn
<1>5. /\ at' = [at EXCEPT ![t] = l] /\ call' = [call EXCEPT ![t] = c] /\ at'[t] = l /\ call'[t] = c
      /\ l \in {"idle", "enter", "frames", "map"} /\ c \in CallRecords
  BY <1>4 DEF GoesOn
<1>6. \A u \in Threads : u # t => at'[u] = at[u] /\ call'[u] = call[u]
  BY <1>5 DEF VmmTyped
<1>7. Works(t) /\ Entering(t) /\ (a.reserve => Owns(t) = R)
  <2>1. a.reserve => Owns(t) = R
    BY <1>1, <1>2, SpanOwned DEF Span, Allocs
  <2> QED
    BY <1>2, <2>1 DEF MemoryIInv, Workers, Entering
<1>8. ASSUME NEW u \in Threads, u # t
      PROVE  Owns(t) \cap Owns(u) = {}
  BY <1>1, <1>2, <1>8 DEF Apart, Allocs
<1>9. /\ \A p, q : SameRegionIn(ReservationList', p, q) <=> SameRegion(p, q) \/ (a.reserve /\ {p, q} \subseteq R)
      /\ \A p, rights : Committed(p, rights) => CommittedIn(ReservationList', p, rights)
      /\ \A b, n : IsRegion(b, n) => RegionIn(ReservationList', b, n)
  BY <1>3 DEF ChangesTo, SameRegion, Committed, IsRegion
<1>10. OthersSame(t)
  <2> SUFFICES ASSUME NEW u \in Threads, u # t
               PROVE  at'[u] = at[u] /\ call'[u] = call[u] /\ Owns(u)' = Owns(u)
    BY DEF OthersSame
  <2>1. at'[u] = at[u] /\ call'[u] = call[u]
    BY <1>6
  <2>2. ASSUME Entering(u) /\ ~Reserving(u)
        PROVE  \A p : SameRegion(call[u].base, p)' <=> SameRegion(call[u].base, p)
    <3>1. ~(a.reserve /\ call[u].base \in R)
      BY <1>7, <1>8, <2>2, BaseOwned
    <3> QED
      BY <1>9, <2>1, <3>1 DEF SameRegion
  <2> QED
    BY <2>1, <2>2, OwnsSame
<1>11. VmmTyped'
  <2>1. call' \in [Threads -> CallRecords] /\ at' \in [Threads -> Labels]
    BY <1>5 DEF VmmTyped, Labels
  <2>2. VmmMemoryAccess' \in [Cpus -> BOOLEAN]
    BY <1>2 DEF VmmTyped
  <2>3. ReservationList' \in Seq(Entries)
    BY <1>3 DEF ChangesTo
  <2> QED
    BY <1>2, <2>1, <2>2, <2>3 DEF VmmTyped
<1>12. Regions'
  BY <1>2, <1>3 DEF Regions, ChangesTo
<1>13. Stages'
  <2>1. Stage(t)' /\ at'[t] # "inside"
    BY <1>4, <1>5 DEF GoesOn
  <2>2. \A u \in Threads : u # None
    BY VmmAssumption
  <2> QED
    BY <1>2, <1>10, <2>1, <2>2, NobodyMarked, StagesStep
<1>14. Marks'
  BY <1>2, <1>5, <1>10, NobodyMarked
<1>15. Owns(t)' \subseteq Owns(t) /\ ~HasFrames(t)' /\ c.op \in Allocs \cup {"none"}
  BY <1>4 DEF GoesOn
<1>16. Apart'
  BY <1>1, <1>2, <1>10, <1>15, ApartShrinks DEF Allocs
<1>17. FreeVirtualAddressPointer' \in Int /\ FreeVirtualAddressPointer <= FreeVirtualAddressPointer'
  BY <1>2, VmmAssumption DEF VmmTyped
<1>18. Places'
  <2>1. Placed(t)'
    BY <1>4 DEF GoesOn
  <2>2. ASSUME NEW u \in Threads, u # t
        PROVE  Placed(u)'
    <3>1. Placed(u) /\ at'[u] = at[u] /\ call'[u] = call[u] /\ Owns(u)' = Owns(u) /\ Owns(u) \subseteq Pages
      BY <1>10, <2>2, OwnedPages DEF Places, OthersSame
    <3>2. Reserving(u) => \A p \in Span(u) : ~Reserved(p)'
      <4> SUFFICES ASSUME Reserving(u), NEW p \in Span(u) PROVE ~Reserved(p)'
        OBVIOUS
      <4>1. ~Reserved(p)
        BY <3>1 DEF Placed
      <4>2. Owns(u) = Span(u)
        BY SpanOwned DEF Reserving, Allocs
      <4>3. ~(a.reserve /\ p \in R)
        BY <1>7, <1>8, <2>2, <4>2
      <4> QED
        BY <1>9, <4>1, <4>3 DEF Reserved, SameRegion
    <3>3. Reserved(call[u].base) => Reserved(call[u].base)'
      BY <1>9, <3>1 DEF Reserved, SameRegion
    <3>4. \A p \in Span(u) : Committed(p, call[u].rights) => Committed(p, call[u].rights)'
      BY <1>9, <3>1 DEF Committed
    <3>5. IsRegion(call[u].base, call[u].pages) => IsRegion(call[u].base, call[u].pages)'
      BY <1>9, <3>1 DEF IsRegion
    <3> QED
      BY <1>17, <3>1, <3>2, <3>3, <3>4, <3>5, PlacedSame DEF Placed
  <2> QED
    BY <2>1, <2>2 DEF Places
<1> HIDE DEF VmmIInv, ControlIInv
<1>19. (Building(t)' => Building(t)) /\ (c.op # "none" => c.op = a.op)
       /\ (a.op = "mdl" => c.op = "mdl" /\ c.base = a.base /\ c.pages = a.pages /\ c.mdl = a.mdl)
  BY <1>4 DEF GoesOn
<1>20. Works(t)'
  <2>1. IsPrivate(t)'
    <3>1. \A p : (IsShared(p)' <=> IsShared(p)) /\ (Private(p)' <=> Private(p))
      BY <1>2 DEF IsShared, Private, IsCopy
    <3>2. IsPrivate(t)
      BY <1>7 DEF Works
    <3> QED
      BY <1>1, <1>5, <1>15, <1>19, <3>1, <3>2 DEF IsPrivate, Allocs
  <2>2. Building(t)' => \A p \in Owns(t)' : ~Mapped(p)'
    BY <1>2, <1>7, <1>15, <1>19 DEF Works, IsEmpty, Mapped
  <2> QED
    BY <1>5, <1>15, <2>1, <2>2, PlainWorks DEF FaultLabels, Allocs
<1>21. FaultsApart'
  BY <1>2, <1>5, <1>6, <1>15, FaultsSame DEF VmmIInv, MemoryIInv, Allocs
<1>22. MemoryIInv'
  <2>1. ~HasFrames(t)
    BY <1>2 DEF HasFrames
  <2>2. Quiet(t)
    BY <1>2, <1>10, <1>15, <1>17, <2>1 DEF Quiet
  <2>3. ASSUME NEW r \in alias PROVE /\ Shows(t, r) => Shows(t, r)' /\ call'[t].mdl = call[t].mdl
                                     /\ ~Releases(t, r)
                                     /\ IsRegion(r.base, r.pages) => IsRegion(r.base, r.pages)'
    BY <1>1, <1>2, <1>5, <1>9, <1>19 DEF Shows, Releases, IsRegion
  <2>4. c.op = "mdl" => \E r \in alias : Shows(t, r)'
    <3>1. c.op = "mdl" => a.op = "mdl"
      BY <1>19
    <3> QED
      BY <1>1, <1>5, <1>19, <3>1 DEF Shows, VmmIInv, MemoryIInv, Aliases
  <2>5. \A p : ~Leaves(t, p)
    BY <1>2 DEF Leaves
  <2>6. ~GivesBack(t) /\ ~GivesBack(t)'
    BY <1>1, <1>2, <1>5, <1>15 DEF GivesBack, Allocs
  <2> QED
    BY <1>2, <1>5, <1>9, <1>20, <1>21, <2>2, <2>3, <2>4, <2>5, <2>6, QuietStep
<1> QED
  BY <1>11, <1>12, <1>13, <1>14, <1>16, <1>18, <1>22 DEF VmmIInv, ControlIInv

----------------------------------------------------------------------------
\* Steps that change frames.

\* PmmReserveMemory returns frames that are free.
LEMMA ReserveMemoryFacts ==
    ASSUME VmmTyped, NEW n \in Nat, ReserveMemory(n) # 0
    PROVE  ReserveMemory(n) \in Frames /\ \A f \in Run(ReserveMemory(n), n) : f \in Frames /\ frame[f] = "free"
<1> DEFINE runs == {f \in Frames : \A g \in Run(f, n) : g \in Frames /\ frame[g] = "free"}
<1>1. runs # {} /\ ReserveMemory(n) = Min(runs)
  BY DEF ReserveMemory
<1>2. runs \subseteq Nat
  BY DEF Frames
<1>3. Min(runs) \in runs
  BY <1>1, <1>2, MinIsLeast
<1> QED
  BY <1>1, <1>3

\* What a thread relies on stays when the step spares it.
LEMMA WorksStep ==
    ASSUME NEW u \in Threads, Works(u), at'[u] = at[u], call'[u] = call[u], Owns(u)' = Owns(u),
           contended => contended', alias' \subseteq alias,
           HasFrames(u) => /\ \A f \in Hand(u) : frame'[f] = "used" /\ f \notin dirty'
                           /\ \A p \in Pages : Mapped(p)' => pte'[p].frame \notin Hand(u),
           at[u] = "read" => \A p \in Span(u) : pte'[p] = pte[p],
           at[u] = "pf_fill" => pte'[call[u].base] # None,
           Building(u) /\ at[u] # "read" => \A p \in Owns(u) : ~Mapped(p)',
           ~contended' /\ at[u] \in {"pf_frame", "pf_map"} => pte'[call[u].base] = None,
           at[u] = "read" => \A p \in Owns(u) : p \notin written',
           ~contended' /\ call[u].op = "fault" => call[u].base \notin written'
    PROVE  Works(u)'
<1>1. (HasFrames(u)' <=> HasFrames(u)) /\ Hand(u)' = Hand(u) /\ Span(u)' = Span(u) /\ (Building(u)' <=> Building(u))
  BY DEF HasFrames, Hand, Span, Building
<1>2. HandIsReady(u)'
  BY <1>1 DEF Works, HandIsReady
<1>3. IsFilled(u)'
  BY <1>1 DEF Works, IsFilled, Mapped
<1>4. IsEmpty(u)'
  BY <1>1 DEF Works, IsEmpty, Mapped
<1>5. IsPrivate(u)'
  BY <1>1 DEF Works, IsPrivate, Private, IsShared, IsCopy
<1>6. IsClean(u)'
  BY DEF Works, IsClean
<1> QED
  BY <1>2, <1>3, <1>4, <1>5, <1>6 DEF Works

\* ... in particular when mappings stay.
LEMMA WorksMappingSame ==
    ASSUME NEW u \in Threads, Works(u), at'[u] = at[u], call'[u] = call[u], Owns(u)' = Owns(u),
           UNCHANGED <<pte, alias, written, contended>>,
           HasFrames(u) => \A f \in Hand(u) : frame'[f] = "used" /\ f \notin dirty'
    PROVE  Works(u)'
<1>1. \A p : Mapped(p)' <=> Mapped(p)
  BY DEF Mapped
<1>2. HasFrames(u) => \A p \in Pages : Mapped(p) => pte[p].frame \notin Hand(u)
  BY DEF Works, HandIsReady
<1>3. /\ at[u] = "pf_fill" => pte[call[u].base] # None
      /\ Building(u) /\ at[u] # "read" => \A p \in Owns(u) : ~Mapped(p)
      /\ ~contended /\ at[u] \in {"pf_frame", "pf_map"} => pte[call[u].base] = None
      /\ at[u] = "read" => \A p \in Owns(u) : p \notin written
      /\ ~contended /\ call[u].op = "fault" => call[u].base \notin written
  BY DEF Works, IsFilled, IsEmpty, IsClean, Mapped
<1> QED
  BY <1>1, <1>2, <1>3, WorksStep

\* A step of no thread.
LEMMA ControlStays ==
    ASSUME ControlIInv, UNCHANGED <<listVars, at, call, alias, preempted>>,
           pte' \in [Pages -> PageTableEntries \cup {None}], frame' \in [Frames -> {"free", "used", "queued"}],
           dirty' \subseteq Frames, written' \subseteq Pages
    PROVE  /\ ControlIInv'
           /\ \A t : /\ Owns(t)' = Owns(t) /\ Span(t)' = Span(t) /\ (Building(t)' <=> Building(t))
                     /\ (HasFrames(t)' <=> HasFrames(t)) /\ Hand(t)' = Hand(t)
           /\ \A p : Given(p)' <=> Given(p)
<1> USE DEF ControlIInv, listVars
<1>1. VmmTyped' /\ Regions' /\ Marks'
  BY DEF VmmTyped, Regions, Marks
<1>2. \A t : Owns(t)' = Owns(t) /\ Span(t)' = Span(t) /\ (Entering(t)' <=> Entering(t)) /\ (Reserving(t)' <=> Reserving(t))
             /\ (Building(t)' <=> Building(t)) /\ (HasFrames(t)' <=> HasFrames(t)) /\ Hand(t)' = Hand(t)
  BY DEF Owns, Span, Entering, Reserving, Building, HasFrames, Hand, SameRegion
<1>3. Stages'
  BY DEF Stages, Stage
<1>4. Places'
  BY <1>2 DEF Places, Placed, Reserved, SameRegion, Committed, IsRegion
<1>5. Apart'
  BY <1>2 DEF Apart
<1>6. \A p : Given(p)' <=> Given(p)
  BY <1>2 DEF Given
<1> QED
  BY <1>1, <1>2, <1>3, <1>4, <1>5, <1>6

\* The zero worker.
LEMMA ZeroFrameKeeps ==
    ASSUME VmmIInv, NEW f \in Frames, ZeroFrame(f)
    PROVE  VmmIInv'
<1> USE DEF VmmIInv, MemoryIInv
<1>1. /\ frame[f] = "queued" /\ frame' = [frame EXCEPT ![f] = "free"] /\ dirty' = dirty \ {f}
      /\ UNCHANGED <<ReservationList, listVars, pte, at, call, alias, written, contended, preempted>>
  BY DEF ZeroFrame, historyVars, listVars
<1>2. frame \in [Frames -> {"free", "used", "queued"}] /\ VmmTyped
  BY DEF ControlIInv, VmmTyped
<1>3. \A g \in Frames : (frame'[g] = "used" <=> frame[g] = "used") /\ (frame[g] = "used" => g # f)
  BY <1>1, <1>2
<1>4. /\ ControlIInv'
      /\ \A t : Owns(t)' = Owns(t) /\ (HasFrames(t)' <=> HasFrames(t)) /\ Hand(t)' = Hand(t)
      /\ \A p : Given(p)' <=> Given(p)
  BY <1>1, <1>2, ControlStays DEF VmmTyped
<1> HIDE DEF VmmIInv
<1>5. \A p : Mapped(p)' <=> Mapped(p)
  BY <1>1 DEF Mapped
<1>6. Workers'
  <2> SUFFICES ASSUME NEW u \in Threads PROVE Works(u)'
    BY DEF Workers
  <2>1. Works(u)
    BY DEF VmmIInv, Workers
  <2>2. HasFrames(u) => \A g \in Hand(u) : frame'[g] = "used" /\ g \notin dirty'
    BY <1>1, <1>3, <2>1 DEF Works, HandIsReady
  <2> QED
    BY <1>1, <1>4, <2>1, <2>2, WorksMappingSame
<1>7. HandsApart' /\ FaultsApart'
  BY <1>1, <1>4 DEF VmmIInv, HandsApart, FaultsApart
<1>8. Aliases'
  <2>1. \A r : \A t \in Threads : (Shows(t, r)' <=> Shows(t, r)) /\ (Describes(t, r)' <=> Describes(t, r))
           /\ (Releases(t, r)' <=> Releases(t, r))
    BY <1>1 DEF Shows, Describes, Releases
  <2>2. \A r : AliasStands(r)' <=> AliasStands(r)
    BY <1>1, <1>5, <2>1 DEF AliasStands, IsRegion, listVars
  <2> QED
    BY <1>1, <2>1, <2>2 DEF Aliases, VmmIInv
<1>9. \A p \in Pages : Mapped(p) => pte[p].frame \in Frames /\ frame[pte[p].frame] = "used"
  BY <1>2 DEF VmmIInv, FrameUse, VmmTyped, PageTableEntries, Mapped
<1>10. FrameUse'
  <2>1. \A p, q : HasCopyBelow(p, q)' <=> HasCopyBelow(p, q)
    BY <1>1, <1>5 DEF HasCopyBelow
  <2>2. \A q : IsCopy(q)' <=> IsCopy(q)
    BY <1>1 DEF IsCopy
  <2>3. \A p \in Pages : Mapped(p)' => frame'[pte'[p].frame] = "used"
    BY <1>1, <1>3, <1>5, <1>9
  <2>4. \A g \in Frames : frame'[g] = "free" => g \notin dirty'
    BY <1>1, <1>2 DEF VmmIInv, FrameUse
  <2> QED
    BY <1>1, <1>5, <2>1, <2>2, <2>3, <2>4 DEF VmmIInv, FrameUse
<1>11. FramesInUse'
  BY <1>1, <1>3, <1>4, <1>5 DEF VmmIInv, FramesInUse, InUse
<1>12. MappedAreCommitted'
  BY <1>1, <1>4, <1>5 DEF VmmIInv, MappedAreCommitted, Committed, Leaves
<1>13. Contents'
  BY <1>1, <1>3, <1>4, <1>5, <1>9 DEF VmmIInv, Contents
<1> QED
  BY <1>4, <1>6, <1>7, <1>8, <1>10, <1>11, <1>12, <1>13 DEF VmmIInv

\* Copies stand when mappings stay and a thread that makes none goes on.
LEMMA AliasesStay ==
    ASSUME VmmIInv, NEW t \in Threads, OthersSame(t), UNCHANGED <<ReservationList, FreeVirtualAddressPointer, pte, alias>>,
           call[t].op \notin {"mdl", "release"}, call'[t].op # "mdl"
    PROVE  Aliases'
<1>1. FreeVirtualAddressPointer' \in Int /\ FreeVirtualAddressPointer <= FreeVirtualAddressPointer'
  BY VmmAssumption DEF VmmIInv, ControlIInv, VmmTyped
<1>2. \A r \in alias : /\ ~Shows(t, r) /\ ~Releases(t, r)
                       /\ IsRegion(r.base, r.pages) => IsRegion(r.base, r.pages)'
  BY DEF Shows, Releases, IsRegion
<1> QED
  BY <1>1, <1>2, AliasesSame DEF VmmIInv, ControlIInv, MemoryIInv

\* A thread takes free frames for the pages it works on.
LEMMA TakeKeeps ==
    ASSUME VmmIInv, NEW t \in Threads, NEW l, (at[t] = "frames" /\ l = "map") \/ (at[t] = "pf_frame" /\ l = "pf_map"),
           NEW pa \in Nat, \A f \in Run(pa, call[t].pages) : f \in Frames /\ frame[f] = "free",
           frame' = [f \in Frames |-> IF f \in Run(pa, call[t].pages) THEN "used" ELSE frame[f]],
           at' = [at EXCEPT ![t] = l], call' = [call EXCEPT ![t].pa = pa],
           UNCHANGED <<listVars, pte, dirty, alias, written, contended, preempted>>
    PROVE  VmmIInv'
<1> USE DEF VmmIInv, ControlIInv
<1> DEFINE H == Run(pa, call[t].pages)
           c == [call[t] EXCEPT !.pa = pa]
<1>1. UNCHANGED <<ReservationList, FreeVirtualAddressPointer, ReservationLock, VmmMemoryAccess, pte, dirty, alias, written, contended, preempted>>
  BY DEF listVars
<1>2. call[t] \in CallRecords /\ Stage(t) /\ Placed(t) /\ Works(t) /\ call \in [Threads -> CallRecords] /\ at \in [Threads -> Labels]
      /\ frame \in [Frames -> {"free", "used", "queued"}]
  BY DEF VmmTyped, Stages, Places, MemoryIInv, Workers
<1>3. /\ c \in CallRecords /\ c.op = call[t].op /\ c.base = call[t].base /\ c.pages = call[t].pages
      /\ c.reserve = call[t].reserve /\ c.eager = call[t].eager /\ c.commit = call[t].commit
      /\ c.file = call[t].file /\ c.mdl = call[t].mdl /\ c.rights = call[t].rights /\ c.pa = pa
  BY <1>2 DEF CallRecords
<1>4. call' = [call EXCEPT ![t] = c]
  BY <1>2
<1> HIDE DEF c
<1>5. at'[t] = l /\ call'[t] = c /\ \A u \in Threads : u # t => at'[u] = at[u] /\ call'[u] = call[u]
  BY <1>2, <1>4
<1>6. Span(t)' = Span(t) /\ ~Entering(t) /\ ~Entering(t)' /\ (Building(t)' <=> Building(t)) /\ Hand(t)' = H
  BY <1>3, <1>5 DEF Span, Entering, Building, Hand
<1>7. Owns(t)' = Span(t) /\ Owns(t) = Span(t)
  BY <1>6, SpanOwned, SpanOwnedNext
<1>8. call[t].op \in {"alloc", "stack", "fault"} /\ ~HasFrames(t) /\ HasFrames(t)'
  BY <1>2, <1>3, <1>5 DEF Stage, HasFrames, FaultLabels, Allocs
<1>9. Stage(t)'
  <2>1. AllocStage(call[t]) => AllocStage(c)
    BY <1>3 DEF AllocStage
  <2>2. l \in FaultLabels <=> at[t] \in FaultLabels
    BY DEF FaultLabels
  <2> QED
    BY <1>1, <1>2, <1>3, <1>5, <2>1, <2>2 DEF Stage, Allocs
<1>10. Placed(t)'
  <2>1. \A p : Committed(p, call[t].rights)' <=> Committed(p, call[t].rights)
    BY <1>1, <1>3, <1>5 DEF Committed
  <2>2. IsRegion(call[t].base, call[t].pages)' <=> IsRegion(call[t].base, call[t].pages)
    BY <1>1, <1>3, <1>5 DEF IsRegion
  <2> QED
    BY <1>1, <1>2, <1>3, <1>5, <1>6, <1>7, <2>1, <2>2 DEF Placed, Reserving, FaultLabels
<1>11. ControlIInv' /\ OthersSame(t)
  <2>1. FreeVirtualAddressPointer' \in FreeVirtualAddressPointer .. EndPage + 1
    BY <1>1, VmmAssumption DEF VmmTyped
  <2>2. l \in Labels \ {"inside", "uninit"}
    BY DEF Labels, FaultLabels
  <2>3. \A u \in Threads : u # t => Owns(t)' \cap Owns(u) = {} \/ (call'[t].op = "fault" /\ call[u].op = "fault")
    BY <1>3, <1>5, <1>7 DEF Apart
  <2>4. frame' \in [Frames -> {"free", "used", "queued"}]
    BY <1>1, <1>2
  <2>5. /\ pte' \in [Pages -> PageTableEntries \cup {None}] /\ dirty' \subseteq Frames /\ written' \subseteq Pages
        /\ alias' \subseteq [base : Nat, of : Nat, pages : Nat]
    BY <1>1 DEF VmmTyped
  <2>6. at[t] \notin {"inside", "uninit"} /\ at' = [at EXCEPT ![t] = l]
    OBVIOUS
  <2>7. UNCHANGED <<ReservationList, ReservationLock, VmmMemoryAccess, preempted>> /\ c \in CallRecords
    BY <1>1, <1>3
  <2> HIDE DEF VmmIInv, ControlIInv
  <2> QED
    BY <1>4, <1>9, <1>10, <2>1, <2>2, <2>3, <2>4, <2>5, <2>6, <2>7, ControlKeeps DEF VmmIInv
<1> HIDE DEF VmmIInv, ControlIInv
<1> USE DEF VmmIInv, MemoryIInv
<1>12. \A f \in H : f \in Frames /\ frame[f] = "free" /\ frame'[f] = "used" /\ f \notin dirty
  BY DEF FrameUse
<1>13. \A f \in Frames : frame[f] = "used" => f \notin H /\ frame'[f] = "used"
  BY <1>12
<1>14. \A p \in Pages : Mapped(p) => pte[p].frame \in Frames /\ frame[pte[p].frame] = "used"
  BY DEF ControlIInv, FrameUse, VmmTyped, PageTableEntries, Mapped
<1>15. \A p : Mapped(p)' <=> Mapped(p)
  BY <1>1 DEF Mapped
<1> HIDE DEF VmmIInv, MemoryIInv, H
<1>16. Works(t)'
  <2>1. HandIsReady(t)'
    BY <1>1, <1>6, <1>12, <1>13, <1>14, <1>15 DEF HandIsReady
  <2>2. IsFilled(t)'
    BY <1>5 DEF IsFilled
  <2>3. IsEmpty(t)'
    <3>1. Building(t) => \A p \in Owns(t) : ~Mapped(p)
      BY <1>2 DEF Works, IsEmpty
    <3>2. ~contended /\ at[t] = "pf_frame" => ~Mapped(call[t].base)
      BY <1>2 DEF Works, IsEmpty
    <3> QED
      BY <1>1, <1>3, <1>5, <1>6, <1>7, <1>15, <3>1, <3>2 DEF IsEmpty, Mapped
  <2>4. IsPrivate(t)'
    BY <1>1, <1>2, <1>3, <1>5, <1>6, <1>7, PrivacySame DEF Works
  <2>5. IsClean(t)'
    BY <1>1, <1>2, <1>3, <1>5 DEF Works, IsClean
  <2> QED
    BY <2>1, <2>2, <2>3, <2>4, <2>5 DEF Works
<1>17. ASSUME NEW u \in Threads, u # t
       PROVE  /\ Works(u) /\ at'[u] = at[u] /\ call'[u] = call[u] /\ Owns(u)' = Owns(u)
              /\ HasFrames(u) => \A f \in Hand(u) : frame[f] = "used" /\ f \in Frames /\ f \notin dirty
              /\ (HasFrames(u)' <=> HasFrames(u)) /\ Hand(u)' = Hand(u)
  <2>1. Works(u) /\ at'[u] = at[u] /\ call'[u] = call[u] /\ Owns(u)' = Owns(u)
    BY <1>11, <1>17 DEF OthersSame, VmmIInv, MemoryIInv, Workers
  <2> QED
    BY <2>1 DEF Works, HandIsReady, HasFrames, Hand
<1>18. Workers'
  <2>1. ASSUME NEW u \in Threads, u # t PROVE Works(u)'
    BY <1>1, <1>13, <1>17, <2>1, WorksMappingSame
  <2> QED
    BY <1>16, <2>1 DEF Workers
<1>19. HandsApart'
  <2>1. \A u \in Threads : u # t /\ HasFrames(u)' => Hand(u)' \cap H = {}
    BY <1>13, <1>17
  <2>2. \A u, v \in Threads : u # t /\ v # t /\ u # v /\ HasFrames(u)' /\ HasFrames(v)' => Hand(u)' \cap Hand(v)' = {}
    BY <1>17 DEF VmmIInv, MemoryIInv, HandsApart
  <2> QED
    BY <1>6, <2>1, <2>2 DEF HandsApart
<1>20. FaultsApart'
  BY <1>1, <1>3, <1>5, FaultsSame DEF VmmIInv, MemoryIInv
<1>21. Aliases'
  BY <1>1, <1>3, <1>5, <1>8, <1>11, AliasesStay
<1>22. FrameUse'
  <2>1. \A p, q : (HasCopyBelow(p, q)' <=> HasCopyBelow(p, q)) /\ (IsCopy(q)' <=> IsCopy(q))
    BY <1>1, <1>15 DEF HasCopyBelow, IsCopy
  <2>2. \A p \in Pages : Mapped(p)' => frame'[pte'[p].frame] = "used"
    BY <1>1, <1>13, <1>14, <1>15
  <2>3. \A f \in Frames : frame'[f] = "free" => f \notin dirty'
    BY <1>1, <1>12 DEF VmmIInv, MemoryIInv, FrameUse, H
  <2> QED
    BY <1>1, <1>15, <2>1, <2>2, <2>3 DEF VmmIInv, MemoryIInv, FrameUse
<1>23. FramesInUse'
  <2> SUFFICES ASSUME ~contended, NEW f \in Frames, frame'[f] = "used" PROVE InUse(f)'
    BY <1>1 DEF FramesInUse
  <2>1. CASE f \in H
    BY <1>6, <1>8, <2>1 DEF InUse
  <2>2. CASE f \notin H
    <3>1. InUse(f)
      BY <2>2 DEF VmmIInv, MemoryIInv, FramesInUse, H
    <3>2. CASE \E p \in Pages : Mapped(p) /\ pte[p].frame = f
      BY <1>1, <1>15, <3>2 DEF InUse
    <3>3. CASE \E u \in Threads : HasFrames(u) /\ f \in Hand(u)
      BY <1>8, <1>17, <3>3 DEF InUse
    <3> QED
      BY <3>1, <3>2, <3>3 DEF InUse
  <2> QED
    BY <2>1, <2>2
<1>24. \A p : (Given(p)' <=> Given(p)) /\ (\A u \in Threads : Leaves(u, p)' <=> Leaves(u, p))
  <2>1. \A u \in Threads : Owns(u)' = Owns(u) /\ call'[u].op = call[u].op
    BY <1>3, <1>5, <1>7, <1>17
  <2>2. \A u \in Threads : at'[u] \in {"uninit", "unmap"} <=> at[u] \in {"uninit", "unmap"}
    BY <1>5
  <2> QED
    BY <2>1, <2>2 DEF Given, Leaves
<1>25. MappedAreCommitted'
  BY <1>1, <1>15, <1>24 DEF MappedAreCommitted, Committed, VmmIInv, MemoryIInv
<1>26. Contents'
  BY <1>1, <1>15, <1>24 DEF Contents, VmmIInv, MemoryIInv
<1> QED
  BY <1>11, <1>18, <1>19, <1>20, <1>21, <1>22, <1>23, <1>25, <1>26 DEF VmmIInv, MemoryIInv

\* ReserveFrames
LEMMA ReserveFramesKeeps ==
    ASSUME VmmIInv, NEW t \in Threads, ReserveFrames(t)
    PROVE  VmmIInv'
<1> DEFINE pa == ReserveMemory(call[t].pages)
<1>1. /\ at[t] = "frames" /\ UNCHANGED <<listVars, pte, dirty, alias, written, contended, preempted>>
      /\ IF pa = 0 THEN Return(t) /\ UNCHANGED frame
         ELSE /\ frame' = [f \in Frames |-> IF f \in Run(pa, call[t].pages) THEN "used" ELSE frame[f]]
              /\ call' = [call EXCEPT ![t].pa = pa] /\ at' = [at EXCEPT ![t] = "map"]
  BY DEF ReserveFrames, At, Goto, historyVars
<1>2. call[t] \in CallRecords /\ Stage(t) /\ VmmTyped
  BY DEF VmmIInv, ControlIInv, VmmTyped, Stages
<1>3. CASE pa = 0
  <2>1. ~HasFrames(t) /\ call[t].op \notin {"mdl", "release", "decommit"}
    BY <1>1, <1>2 DEF HasFrames, Stage, Allocs
  <2> QED
    BY <1>1, <1>3, <2>1, ReturnKeeps
<1>4. CASE pa # 0
  <2>1. pa \in Nat /\ \A f \in Run(pa, call[t].pages) : f \in Frames /\ frame[f] = "free"
    <3>1. call[t].pages \in Nat
      BY <1>2 DEF CallRecords
    <3> QED
      BY <1>2, <1>4, <3>1, ReserveMemoryFacts DEF Frames
  <2> HIDE DEF pa
  <2> QED
    BY <1>1, <1>4, <2>1, TakeKeeps
<1> QED
  BY <1>3, <1>4

\* FaultFrame
LEMMA FaultFrameKeeps ==
    ASSUME VmmIInv, NEW t \in Threads, FaultFrame(t)
    PROVE  VmmIInv'
<1> DEFINE f == ReserveMemory(1)
<1>1. /\ at[t] = "pf_frame" /\ UNCHANGED <<listVars, pte, dirty, alias, written, contended, preempted>>
      /\ IF f = 0 THEN UNCHANGED <<frame, call, at>>
         ELSE frame' = [frame EXCEPT ![f] = "used"] /\ call' = [call EXCEPT ![t].pa = f] /\ at' = [at EXCEPT ![t] = "pf_map"]
  BY DEF FaultFrame, At, Goto
<1>2. Stage(t) /\ VmmTyped /\ frame \in [Frames -> {"free", "used", "queued"}]
  BY DEF VmmIInv, ControlIInv, VmmTyped, Stages
<1>3. CASE f = 0
  BY <1>1, <1>3, NothingChanges DEF invVars
<1>4. CASE f # 0
  <2>1. f \in Frames /\ f \in Nat /\ \A g \in Run(f, 1) : g \in Frames /\ frame[g] = "free"
    BY <1>2, <1>4, ReserveMemoryFacts DEF Frames
  <2> HIDE DEF f
  <2>2. call[t].pages = 1 /\ Run(f, 1) = {f}
    BY <1>1, <1>2, <2>1 DEF Stage, FaultLabels, Run
  <2>3. frame' = [g \in Frames |-> IF g \in Run(f, 1) THEN "used" ELSE frame[g]]
    BY <1>1, <1>2, <1>4, <2>1, <2>2
  <2> QED
    BY <1>1, <1>4, <2>1, <2>2, <2>3, TakeKeeps
<1> QED
  BY <1>3, <1>4

\* A thread returns, whatever it did to memory.
LEMMA ReturnControl ==
    ASSUME VmmIInv, NEW t \in Threads, at[t] \notin {"inside", "uninit"}, Return(t),
           UNCHANGED <<listVars, preempted>>,
           pte' \in [Pages -> PageTableEntries \cup {None}], frame' \in [Frames -> {"free", "used", "queued"}],
           dirty' \subseteq Frames, written' \subseteq Pages, alias' \subseteq [base : Nat, of : Nat, pages : Nat]
    PROVE  /\ ControlIInv' /\ OthersSame(t)
           /\ Works(t)' /\ ~HasFrames(t)' /\ ~GivesBack(t)' /\ Owns(t)' = {}
           /\ at'[t] = "idle" /\ call'[t] = NoCall
<1>1. /\ at' = [at EXCEPT ![t] = "idle"] /\ call' = [call EXCEPT ![t] = NoCall]
      /\ UNCHANGED <<ReservationList, FreeVirtualAddressPointer, ReservationLock, VmmMemoryAccess, preempted>>
  BY DEF Return, Goto, listVars
<1>2. at'[t] = "idle" /\ call'[t] = NoCall /\ Stage(t)
  BY <1>1 DEF VmmIInv, ControlIInv, VmmTyped, Stages
<1>3. Works(t)' /\ ~HasFrames(t)' /\ ~GivesBack(t)' /\ Placed(t)' /\ Owns(t)' = {}
  BY <1>2, IdleWorks
<1>4. Stage(t)'
  BY <1>1, <1>2, IdleOwnsNothing DEF Stage
<1>5. FreeVirtualAddressPointer' \in FreeVirtualAddressPointer .. EndPage + 1
  BY <1>1, VmmAssumption DEF VmmIInv, ControlIInv, VmmTyped
<1>6. "idle" \in Labels \ {"inside", "uninit"}
  BY DEF Labels
<1>7. ControlIInv' /\ OthersSame(t)
  BY <1>1, <1>3, <1>4, <1>5, <1>6, NoCallFacts, ControlKeeps
<1> QED
  BY <1>2, <1>3, <1>7

\* A page that is not shared has its frame for itself.
LEMMA PrivateFrame ==
    ASSUME FrameUse, NEW p \in Pages, NEW q \in Pages, Private(p), Mapped(p), Mapped(q), pte[p].frame = pte[q].frame
    PROVE  p = q
<1>1. ~(p < q)
  BY DEF FrameUse, HasCopyBelow, Private, IsShared
<1>2. ~(q < p)
  BY DEF FrameUse, Private
<1> QED
  BY <1>1, <1>2, VmmAssumption DEF Pages

\* Frames behind pages that nobody has written are filled from a file or with zeros.
LEMMA CleanKeeps ==
    ASSUME VmmIInv, NEW t \in Threads, at[t] \in {"read", "pf_fill"}, Return(t), NEW F, dirty' = dirty \ F,
           UNCHANGED <<listVars, pte, frame, alias, written, contended, preempted>>,
           ~contended => \A q \in Pages : Mapped(q) /\ pte[q].frame \in F => q \notin written
    PROVE  VmmIInv'
<1>1. VmmTyped /\ Stage(t) /\ UNCHANGED <<ReservationList, FreeVirtualAddressPointer, pte, frame, alias, written, contended>>
  BY DEF VmmIInv, ControlIInv, Stages, listVars
<1>2. ~HasFrames(t) /\ call[t].op \in {"alloc", "stack", "fault"}
  BY <1>1 DEF HasFrames, Stage, FaultLabels, Allocs
<1>3. /\ ControlIInv' /\ OthersSame(t)
      /\ Works(t)' /\ ~HasFrames(t)' /\ ~GivesBack(t)' /\ Owns(t)' = {}
      /\ at'[t] = "idle" /\ call'[t] = NoCall /\ NoCall.op = "none"
  BY <1>1, ReturnControl, NoCallFacts DEF VmmTyped
<1>4. \A u \in Threads : u # t => /\ at'[u] = at[u] /\ call'[u] = call[u] /\ Owns(u)' = Owns(u)
                                   /\ (HasFrames(u)' <=> HasFrames(u)) /\ Hand(u)' = Hand(u)
  BY <1>3 DEF OthersSame, HasFrames, Hand
<1>5. \A p : Mapped(p)' <=> Mapped(p)
  BY <1>1 DEF Mapped
<1>6. \A p : (Given(p)' <=> Given(p)) /\ (\A u \in Threads : Leaves(u, p)' <=> Leaves(u, p))
  BY <1>2, <1>3, <1>4 DEF Given, Leaves, GivesBack
<1> USE DEF VmmIInv, MemoryIInv
<1>7. Workers'
  <2>1. ASSUME NEW u \in Threads, u # t PROVE Works(u)'
    <3>1. Works(u) /\ (HasFrames(u) => \A f \in Hand(u) : frame'[f] = "used" /\ f \notin dirty')
      BY <1>1 DEF Workers, Works, HandIsReady
    <3> QED
      BY <1>1, <1>4, <2>1, <3>1, WorksMappingSame
  <2> QED
    BY <1>3, <2>1 DEF Workers
<1>8. HandsApart'
  BY <1>3, <1>4 DEF HandsApart
<1>9. FaultsApart'
  BY <1>1, <1>3, <1>4, FaultsSame
<1>10. Aliases'
  BY <1>1, <1>2, <1>3, AliasesStay
<1>11. FrameUse'
  <2>1. \A p, q : (HasCopyBelow(p, q)' <=> HasCopyBelow(p, q)) /\ (IsCopy(q)' <=> IsCopy(q))
    BY <1>1, <1>5 DEF HasCopyBelow, IsCopy
  <2> QED
    BY <1>1, <1>5, <2>1 DEF FrameUse
<1>12. FramesInUse'
  BY <1>1, <1>2, <1>3, <1>4, <1>5 DEF FramesInUse, InUse
<1>13. MappedAreCommitted'
  BY <1>1, <1>5, <1>6 DEF MappedAreCommitted, Committed
<1>14. Contents'
  BY <1>1, <1>5, <1>6 DEF Contents
<1> QED
  BY <1>3, <1>7, <1>8, <1>9, <1>10, <1>11, <1>12, <1>13, <1>14

\* ReadRegion
LEMMA ReadRegionKeeps ==
    ASSUME VmmIInv, NEW t \in Threads, ReadRegion(t)
    PROVE  VmmIInv'
<1>1. /\ at[t] = "read" /\ Return(t) /\ dirty' = dirty \ Hand(t)
      /\ UNCHANGED <<listVars, pte, frame, alias, written, contended, preempted>>
  BY DEF ReadRegion, At, Hand, historyVars
<1>2. call[t] \in CallRecords /\ Stage(t) /\ Works(t) /\ FrameUse
  BY DEF VmmIInv, ControlIInv, MemoryIInv, VmmTyped, Stages, Workers
<1>3. Building(t) /\ call[t].op # "mdl" /\ Owns(t) = Span(t)
  BY <1>1, <1>2, SpanOwned DEF Building, Stage, Entering
<1>4. \A p \in Span(t) : p \in Pages /\ Private(p) /\ Mapped(p) /\ pte[p].frame = call[t].pa + (p - call[t].base) /\ p \notin written
  BY <1>1, <1>2, <1>3, OwnedPages DEF Works, IsPrivate, IsFilled, IsClean, VmmIInv
<1>5. ASSUME NEW q \in Pages, Mapped(q), pte[q].frame \in Hand(t) PROVE q \notin written
  <2> DEFINE p == call[t].base + (pte[q].frame - call[t].pa)
  <2>1. p \in Span(t) /\ pte[q].frame = call[t].pa + (p - call[t].base)
    BY <1>2, <1>5 DEF Span, Hand, Run, CallRecords
  <2> HIDE DEF p
  <2>2. p = q
    BY <1>2, <1>4, <1>5, <2>1, PrivateFrame
  <2> QED
    BY <1>4, <2>1, <2>2
<1> QED
  BY <1>1, <1>5, CleanKeeps

\* FaultFill
LEMMA FaultFillKeeps ==
    ASSUME VmmIInv, NEW t \in Threads, FaultFill(t)
    PROVE  VmmIInv'
<1> DEFINE p == call[t].base
<1>1. /\ at[t] = "pf_fill" /\ Return(t) /\ dirty' = dirty \ {pte[p].frame}
      /\ UNCHANGED <<listVars, pte, frame, alias, written, contended, preempted>>
  BY DEF FaultFill, At, historyVars
<1>2. call[t] \in CallRecords /\ Stage(t) /\ Works(t) /\ FrameUse
  BY DEF VmmIInv, ControlIInv, MemoryIInv, VmmTyped, Stages, Workers
<1>3. call[t].op = "fault" /\ call[t].pages = 1
  BY <1>1, <1>2 DEF Stage, FaultLabels
<1>4. Owns(t) = Span(t) /\ p \in Span(t)
  BY <1>2, <1>3, SpanOwned DEF Span, Run, CallRecords
<1>5. p \in Pages /\ Private(p) /\ Mapped(p) /\ (~contended => p \notin written)
  BY <1>1, <1>2, <1>3, <1>4, OwnedPages DEF Works, IsPrivate, IsFilled, IsClean, VmmIInv
<1> HIDE DEF p
<1>6. ASSUME NEW q \in Pages, Mapped(q), pte[q].frame \in {pte[p].frame}, ~contended PROVE q \notin written
  BY <1>2, <1>5, <1>6, PrivateFrame
<1> QED
  BY <1>1, <1>6, CleanKeeps

\* What is given back is what the threads that give back work on.
LEMMA GivenIsGivenBack ==
    ASSUME ControlIInv, NEW q
    PROVE  Given(q) <=> q \in GivenBack
<1>1. \A u \in Threads : call[u].op \in {"release", "decommit"} => Owns(u) = Uses(u)
  BY OwnsAreUsed
<1> QED
  BY <1>1 DEF Given, GivenBack

\* WritePage
LEMMA WritePageKeeps ==
    ASSUME VmmIInv, NEW t \in Threads, NEW p \in Pages, WritePage(t, p)
    PROVE  VmmIInv'
<1> DEFINE new == {q \in Pages \ GivenBack : pte[q] # None /\ pte[q].frame = pte[p].frame}
<1>1. /\ Usable(p) /\ Mapped(p) /\ dirty' = dirty \cup {pte[p].frame} /\ written' = written \cup new
      /\ (contended => contended') /\ (Faulting(p) # {} => contended')
      /\ UNCHANGED <<ReservationList, FreeVirtualAddressPointer, listVars, pte, frame, at, call, alias, preempted>>
  BY DEF WritePage, Mapped, Contend, listVars
<1>2. VmmTyped /\ FrameUse /\ ControlIInv
  BY DEF VmmIInv, ControlIInv, MemoryIInv
<1>3. pte[p].frame \in Frames /\ frame[pte[p].frame] = "used"
  BY <1>1, <1>2 DEF VmmTyped, PageTableEntries, Mapped, FrameUse
<1>4. new \subseteq Pages /\ \A q : q \in new <=> q \in Pages /\ ~Given(q) /\ Mapped(q) /\ pte[q].frame = pte[p].frame
  BY <1>2, GivenIsGivenBack DEF Mapped
<1> HIDE DEF new
<1>5. /\ ControlIInv'
      /\ \A u : Owns(u)' = Owns(u) /\ (HasFrames(u)' <=> HasFrames(u)) /\ Hand(u)' = Hand(u)
      /\ \A q : Given(q)' <=> Given(q)
  BY <1>1, <1>2, <1>3, <1>4, ControlStays DEF VmmTyped
<1>6. \A q : Mapped(q)' <=> Mapped(q)
  BY <1>1 DEF Mapped
<1> USE DEF VmmIInv, MemoryIInv
<1>7. Workers'
  <2> SUFFICES ASSUME NEW u \in Threads PROVE Works(u)'
    BY DEF Workers
  <2>1. Works(u) /\ Stage(u) /\ call[u] \in CallRecords /\ Owns(u) \subseteq Uses(u) /\ Owns(u) \subseteq Pages
    BY <1>2, OwnsAreUsed, OwnedPages DEF Workers, ControlIInv, VmmTyped, Stages
  <2>2. HasFrames(u) => /\ \A f \in Hand(u) : frame'[f] = "used" /\ f \notin dirty'
                        /\ \A q \in Pages : Mapped(q)' => pte'[q].frame \notin Hand(u)
    BY <1>1, <1>6, <2>1 DEF Works, HandIsReady
  <2>3. \A q \in new : Private(q) => q = p
    BY <1>1, <1>2, <1>4, PrivateFrame
  <2>4. ASSUME at[u] = "read", NEW q \in Owns(u) PROVE q \notin written'
    <3>1. Building(u) /\ call[u].op # "mdl" /\ u \notin Faulting(p)
      BY <2>1, <2>4 DEF Building, Stage, Faulting, FaultLabels
    <3>2. Private(q) /\ q \notin written /\ q # p
      BY <1>1, <2>1, <2>4, <3>1 DEF Works, IsPrivate, IsClean, Usable
    <3> QED
      BY <1>1, <2>3, <3>2
  <2>5. ASSUME ~contended', call[u].op = "fault" PROVE call[u].base \notin written'
    <3>1. at[u] \in FaultLabels /\ Owns(u) = Span(u) /\ call[u].base \in Span(u)
      BY <2>1, <2>5, SpanOwned DEF Stage, Span, Run, CallRecords
    <3>2. Private(call[u].base) /\ call[u].base \notin written
      BY <1>1, <2>1, <2>5, <3>1 DEF Works, IsPrivate, IsClean
    <3>3. call[u].base # p
      BY <1>1, <2>5, <3>1 DEF Faulting
    <3> QED
      BY <1>1, <2>3, <3>2, <3>3
  <2>6. /\ at[u] = "pf_fill" => pte[call[u].base] # None
        /\ Building(u) /\ at[u] # "read" => \A q \in Owns(u) : ~Mapped(q)
        /\ ~contended /\ at[u] \in {"pf_frame", "pf_map"} => pte[call[u].base] = None
    BY <2>1 DEF Works, IsFilled, IsEmpty, Mapped
  <2> QED
    BY <1>1, <1>5, <1>6, <2>1, <2>2, <2>4, <2>5, <2>6, WorksStep
<1>8. HandsApart' /\ FaultsApart'
  BY <1>1, <1>5 DEF HandsApart, FaultsApart
<1>9. Aliases'
  <2>1. OthersSame(t) /\ FreeVirtualAddressPointer' \in Int /\ FreeVirtualAddressPointer <= FreeVirtualAddressPointer'
    BY <1>1, <1>2, <1>5, VmmAssumption DEF OthersSame, VmmTyped
  <2>2. \A r : /\ Shows(t, r) => Shows(t, r)' /\ call'[t].mdl = call[t].mdl
               /\ Releases(t, r) => Releases(t, r)'
               /\ IsRegion(r.base, r.pages) => IsRegion(r.base, r.pages)'
    BY <1>1 DEF Shows, Releases, IsRegion
  <2>3. call'[t].op = "mdl" => \E r \in alias : Shows(t, r)'
    BY <1>1 DEF Aliases, Shows
  <2> QED
    BY <1>1, <1>2, <2>1, <2>2, <2>3, AliasesSame
<1>10. FrameUse'
  <2>1. \A q, r : (HasCopyBelow(q, r)' <=> HasCopyBelow(q, r)) /\ (IsCopy(r)' <=> IsCopy(r))
    BY <1>1, <1>6 DEF HasCopyBelow, IsCopy
  <2>2. \A f \in Frames : frame'[f] = "free" => f \notin dirty'
    BY <1>1, <1>3 DEF FrameUse
  <2> QED
    BY <1>1, <1>6, <2>1, <2>2 DEF FrameUse
<1>11. FramesInUse'
  BY <1>1, <1>5, <1>6 DEF FramesInUse, InUse
<1>12. MappedAreCommitted'
  BY <1>1, <1>5, <1>6 DEF MappedAreCommitted, Committed, Leaves
<1>13. Contents'
  <2>1. \A q \in written' : Mapped(q)' /\ ~Given(q)'
    BY <1>1, <1>4, <1>5, <1>6 DEF Contents
  <2>2. ASSUME ~contended', NEW q \in Pages, Mapped(q)', ~Given(q)'
        PROVE  pte'[q].frame \in dirty' <=> q \in written'
    <3>1. Mapped(q) /\ ~Given(q) /\ (pte[q].frame \in dirty <=> q \in written)
      BY <1>1, <1>5, <1>6, <2>2 DEF Contents
    <3> QED
      BY <1>1, <1>4, <3>1
  <2> QED
    BY <2>1, <2>2 DEF Contents
<1> QED
  BY <1>5, <1>7, <1>8, <1>9, <1>10, <1>11, <1>12, <1>13

\* A page table entry is not None.
LEMMA EntryIsPresent ==
    ASSUME NEW e \in PageTableEntries
    PROVE  e # None
<1>1. PageTableEntries = [frame : 1 .. NumberOfFrames, rights : {{}, {"W"}} \cup {a.rights : a \in Calls}]
  BY DEF PageTableEntries, Frames, Rights
<1> QED
  BY <1>1, VmmAssumption

\* The pages of an MDL lie in front of their copies.
LEMMA TwinPages ==
    ASSUME VmmTyped, NEW r \in alias, AliasStands(r)
    PROVE  /\ r.base \in Nat /\ r.of \in Nat /\ r.pages \in Nat
           /\ \A p \in Of(r) : p \in Pages /\ Twin(r, p) \in Pages /\ Twin(r, p) \in Copy(r) /\ p < Twin(r, p)
           /\ \A x \in Copy(r) : x \in Pages /\ r.of + (x - r.base) \in Of(r) /\ Twin(r, r.of + (x - r.base)) = x
<1>1. r.base \in Nat /\ r.of \in Nat /\ r.pages \in Nat
  BY DEF VmmTyped
<1>2. FreeVirtualAddressPointer \in Int /\ FreeVirtualAddressPointer <= EndPage + 1 /\ StartPage \in Nat /\ EndPage \in Nat
  BY VmmAssumption DEF VmmTyped
<1>3. StartPage <= r.of /\ 1 <= r.pages /\ r.of + r.pages <= r.base /\ r.base + r.pages <= FreeVirtualAddressPointer
  BY DEF AliasStands
<1> QED
  BY <1>1, <1>2, <1>3 DEF Of, Copy, Twin, Run, Pages

\* Pages that belong to no MDL are mapped: copies stand.
LEMMA AliasesMapped ==
    ASSUME VmmIInv, NEW t \in Threads, OthersSame(t), UNCHANGED <<ReservationList, FreeVirtualAddressPointer, alias>>,
           call[t].op \notin {"mdl", "release"}, call'[t].op # "mdl",
           \A p \in Pages : ~Private(p) => pte'[p] = pte[p]
    PROVE  Aliases'
<1> USE DEF VmmIInv, ControlIInv, MemoryIInv
<1>1. \A u \in Threads : \A r \in alias : /\ Shows(u, r) => u # t /\ Shows(u, r)'
                                          /\ Releases(u, r) => u # t /\ Releases(u, r)'
  BY DEF OthersSame, Shows, Releases
<1>2. \A r : IsRegion(r.base, r.pages)' <=> IsRegion(r.base, r.pages)
  BY DEF IsRegion
<1>3. FreeVirtualAddressPointer \in Int /\ FreeVirtualAddressPointer <= EndPage + 1 /\ StartPage \in Nat /\ EndPage \in Nat
  BY VmmAssumption DEF VmmTyped
<1>4. ASSUME NEW r \in alias
      PROVE  AliasStands(r)'
  <2>1. AliasStands(r) /\ r.base \in Nat /\ r.of \in Nat /\ r.pages \in Nat
    BY DEF Aliases, VmmTyped
  <2>2. \A p \in Of(r) : p \in Pages /\ Twin(r, p) \in Pages /\ Twin(r, p) \in Copy(r)
    BY <1>3, <2>1 DEF AliasStands, Of, Twin, Copy, Run, Pages
  <2>3. \A p \in Copy(r) : p \in Pages
    BY <1>3, <2>1 DEF AliasStands, Of, Copy, Run, Pages
  <2>4. \A p \in Of(r) \cup Copy(r) : p \in Pages /\ pte'[p] = pte[p]
    BY <2>2, <2>3 DEF Private, IsShared, IsCopy
  <2>5. \A p \in Of(r) : Mapped(p)' /\ (Mapped(Twin(r, p))' => pte'[Twin(r, p)].frame = pte'[p].frame)
    BY <2>1, <2>2, <2>4 DEF AliasStands, Mapped
  <2>6. \A u \in Threads : Describes(u, r) => Describes(u, r)'
    BY <1>1, <2>4 DEF Describes, OthersSame
  <2>7. (\A p \in Copy(r) : Mapped(p)) => \A p \in Copy(r) : Mapped(p)'
    BY <2>4 DEF Mapped
  <2> QED
    BY <1>1, <1>2, <2>1, <2>5, <2>6, <2>7 DEF AliasStands
<1>5. \A u \in Threads : call'[u].op = "mdl" => \E r \in alias : Shows(u, r)'
  BY DEF Aliases, OthersSame, Shows
<1> QED
  BY <1>4, <1>5 DEF Aliases

\* A thread maps the frames it took.
LEMMA MapKeeps ==
    ASSUME VmmIInv, NEW t \in Threads, HasFrames(t), NEW l \in {"read", "idle", "pf_fill"},
           at' = [at EXCEPT ![t] = l], call' = IF l = "idle" THEN [call EXCEPT ![t] = NoCall] ELSE call,
           l = "pf_fill" <=> at[t] = "pf_map", l = "read" => call[t].file,
           pte' = [p \in Pages |-> IF p \in Span(t) THEN [frame |-> call[t].pa + (p - call[t].base), rights |-> call[t].rights]
                                                    ELSE pte[p]],
           UNCHANGED <<listVars, frame, dirty, alias, written, contended, preempted>>
    PROVE  VmmIInv'
<1> USE DEF VmmIInv, ControlIInv
<1> DEFINE c == IF l = "idle" THEN NoCall ELSE call[t]
<1>1. UNCHANGED <<ReservationList, FreeVirtualAddressPointer, ReservationLock, VmmMemoryAccess, frame, dirty, alias, written, contended, preempted>>
  BY DEF listVars
<1>2. call[t] \in CallRecords /\ Stage(t) /\ Placed(t) /\ Works(t) /\ call \in [Threads -> CallRecords] /\ at \in [Threads -> Labels]
      /\ at[t] \in {"map", "pf_map"} /\ FrameUse /\ pte \in [Pages -> PageTableEntries \cup {None}]
  BY DEF VmmTyped, Stages, Places, MemoryIInv, Workers, HasFrames
<1>3. call' = [call EXCEPT ![t] = c] /\ c \in CallRecords
  BY <1>2, NoCallFacts
<1> HIDE DEF c
<1>4. at'[t] = l /\ call'[t] = c /\ \A u \in Threads : u # t => at'[u] = at[u] /\ call'[u] = call[u]
  BY <1>2, <1>3
<1>5. l # "idle" => c = call[t]
  BY DEF c
<1>6. l = "idle" => c = NoCall
  BY DEF c
<1>7. Owns(t) = Span(t) /\ Span(t) \subseteq Pages /\ call[t].op \notin {"mdl", "release", "decommit"}
  BY <1>2, SpanOwned, OwnedPages DEF Entering, HasFrames, Stage, FaultLabels, Allocs
<1>8. l # "idle" => Span(t)' = Span(t) /\ Owns(t)' = Span(t)
  BY <1>4, <1>5, <1>7, SpanOwnedNext DEF Span, Entering
<1>9. l = "idle" => Works(t)' /\ Placed(t)' /\ Owns(t)' = {} /\ Stage(t)'
  BY <1>1, <1>2, <1>4, <1>6, IdleWorks, IdleOwnsNothing DEF Stage
<1>10. ~HasFrames(t)' /\ ~GivesBack(t)' /\ ~GivesBack(t) /\ (call'[t].op = "fault" => call'[t] = call[t]) /\ call'[t].op # "mdl"
  BY <1>4, <1>5, <1>6, <1>7, NoCallFacts DEF HasFrames, GivesBack
<1>11. \A p \in Span(t) : Private(p) /\ Committed(p, call[t].rights)
  BY <1>2, <1>7 DEF Works, IsPrivate, Placed, Building, Stage, FaultLabels, HasFrames
<1>12. \A p \in Span(t) : (at[t] = "map" \/ ~contended) => ~Mapped(p)
  <2>1. CASE at[t] = "map"
    BY <1>2, <1>7, <2>1 DEF Works, IsEmpty, Building, Stage
  <2>2. CASE at[t] = "pf_map"
    <3>1. call[t].pages = 1 /\ call[t].base \in Nat
      BY <1>2, <2>2 DEF Stage, FaultLabels, CallRecords
    <3> QED
      BY <1>2, <2>2, <3>1 DEF Works, IsEmpty, Span, Run
  <2> QED
    BY <1>2, <2>1, <2>2
<1>13. \A p \in Span(t) : /\ call[t].pa + (p - call[t].base) \in Hand(t)
                          /\ call[t].pa + (p - call[t].base) \in Frames
                          /\ call[t].pa + (p - call[t].base) \notin dirty
                          /\ frame[call[t].pa + (p - call[t].base)] = "used"
  <2>1. \A p \in Span(t) : call[t].pa + (p - call[t].base) \in Hand(t)
    BY <1>2 DEF Span, Hand, Run, CallRecords
  <2> QED
    BY <1>2, <2>1 DEF Works, HandIsReady
<1>14. \A p \in Span(t) : [frame |-> call[t].pa + (p - call[t].base), rights |-> call[t].rights] \in PageTableEntries
  BY <1>2, <1>13 DEF PageTableEntries, CallRecords
<1>15. \A p \in Span(t) : /\ pte'[p].frame = call[t].pa + (p - call[t].base) /\ pte'[p].rights = call[t].rights
                          /\ pte'[p] \in PageTableEntries /\ Mapped(p)'
  <2>1. \A p \in Span(t) : pte'[p] = [frame |-> call[t].pa + (p - call[t].base), rights |-> call[t].rights]
    BY <1>7
  <2> QED
    BY <1>14, <2>1, EntryIsPresent DEF Mapped
<1>16. \A p \in Pages \ Span(t) : pte'[p] = pte[p] /\ (Mapped(p)' <=> Mapped(p))
  BY DEF Mapped
<1>17. pte' \in [Pages -> PageTableEntries \cup {None}]
  <2>1. \A p \in Pages : pte'[p] \in PageTableEntries \cup {None}
    BY <1>2, <1>15, <1>16
  <2> QED
    BY <2>1
<1>18. Stage(t)'
  <2>1. ASSUME l # "idle" PROVE Stage(t)'
    <3>1. AllocStage(call[t]) => AllocStage(c)
      BY <1>5, <2>1
    <3>2. l \in FaultLabels <=> at[t] \in FaultLabels
      BY <1>2, <2>1 DEF FaultLabels
    <3>3. l = "read" => call[t].op \in Allocs /\ call[t].eager
      BY <1>2 DEF Stage
    <3>4. c = call[t] /\ l \in {"read", "pf_fill"}
      BY <1>5, <2>1
    <3> QED
      BY <1>1, <1>2, <1>4, <1>7, <3>1, <3>2, <3>3, <3>4 DEF Stage
  <2> QED
    BY <1>9, <2>1
<1>19. Placed(t)'
  <2>1. ASSUME l # "idle" PROVE Placed(t)'
    <3>1. \A p : Committed(p, call[t].rights)' <=> Committed(p, call[t].rights)
      BY <1>1, <1>4, <1>5, <2>1 DEF Committed
    <3>2. IsRegion(call[t].base, call[t].pages)' <=> IsRegion(call[t].base, call[t].pages)
      BY <1>1, <1>4, <1>5, <2>1 DEF IsRegion
    <3>3. call'[t] = call[t] /\ ~Entering(t)' /\ ~Reserving(t)'
      BY <1>4, <1>5, <2>1 DEF Entering, Reserving
    <3>4. l = "read" => at[t] = "map"
      BY <1>2
    <3> QED
      BY <1>1, <1>2, <1>4, <1>7, <1>8, <1>11, <2>1, <3>1, <3>2, <3>3, <3>4 DEF Placed
  <2> QED
    BY <1>9, <2>1
<1>20. ControlIInv' /\ OthersSame(t)
  <2>1. FreeVirtualAddressPointer' \in FreeVirtualAddressPointer .. EndPage + 1
    BY <1>1, VmmAssumption DEF VmmTyped
  <2>2. l \in Labels \ {"inside", "uninit"}
    BY DEF Labels, FaultLabels
  <2>3. \A u \in Threads : u # t => Owns(t)' \cap Owns(u) = {} \/ (call'[t].op = "fault" /\ call[u].op = "fault")
    BY <1>4, <1>5, <1>7, <1>8, <1>9 DEF Apart
  <2>4. /\ frame' \in [Frames -> {"free", "used", "queued"}] /\ dirty' \subseteq Frames /\ written' \subseteq Pages
        /\ alias' \subseteq [base : Nat, of : Nat, pages : Nat]
    BY <1>1 DEF VmmTyped
  <2>5. UNCHANGED <<ReservationList, ReservationLock, VmmMemoryAccess, preempted>> /\ at[t] \notin {"inside", "uninit"}
    BY <1>1, <1>2
  <2> HIDE DEF VmmIInv, ControlIInv
  <2> QED
    BY <1>3, <1>17, <1>18, <1>19, <2>1, <2>2, <2>3, <2>4, <2>5, ControlKeeps DEF VmmIInv
<1> HIDE DEF VmmIInv, ControlIInv
<1>21. ASSUME NEW u \in Threads, u # t
       PROVE  /\ Works(u) /\ at'[u] = at[u] /\ call'[u] = call[u] /\ Owns(u)' = Owns(u) /\ Owns(u) \subseteq Pages /\ Stage(u)
              /\ (HasFrames(u)' <=> HasFrames(u)) /\ Hand(u)' = Hand(u)
              /\ (HasFrames(u) => Hand(u) \cap Hand(t) = {})
              /\ call[u].op # "fault" => Owns(u) \cap Span(t) = {}
  <2>1. Works(u) /\ at'[u] = at[u] /\ call'[u] = call[u] /\ Owns(u)' = Owns(u) /\ Stage(u)
    BY <1>20, <1>21 DEF OthersSame, VmmIInv, MemoryIInv, Workers, ControlIInv, Stages
  <2>2. HasFrames(u) => Hand(u) \cap Hand(t) = {}
    BY <1>21 DEF VmmIInv, MemoryIInv, HandsApart
  <2>3. call[u].op # "fault" => Owns(u) \cap Span(t) = {}
    BY <1>7, <1>21 DEF VmmIInv, ControlIInv, Apart
  <2> QED
    BY <2>1, <2>2, <2>3, OwnedPages DEF VmmIInv, HasFrames, Hand
<1>22. Works(t)'
  <2>1. ASSUME l # "idle" PROVE Works(t)'
    <3>1. HandIsReady(t)'
      BY <1>10 DEF HandIsReady
    <3>2. c = call[t] /\ l \in {"read", "pf_fill"}
      BY <1>5, <2>1
    <3>3. IsFilled(t)'
      <4>1. l = "read" => at[t] = "map"
        BY <1>2
      <4>2. l = "pf_fill" => call[t].base \in Span(t)
        BY <1>2 DEF Span, Run, CallRecords, Stage, FaultLabels
      <4> QED
        BY <1>4, <1>8, <1>15, <2>1, <3>2, <4>2 DEF IsFilled
    <3>4. IsEmpty(t)'
      BY <1>2, <1>4, <3>2 DEF IsEmpty, Building, Stage, FaultLabels, Allocs
    <3>5. IsPrivate(t)'
      <4>1. IsPrivate(t) /\ (Building(t)' <=> Building(t)) /\ Owns(t)' = Owns(t)
        BY <1>2, <1>4, <1>7, <1>8, <2>1, <3>2 DEF Building, Works
      <4> QED
        BY <1>1, <1>4, <3>2, <4>1, PrivacySame
    <3>6. IsClean(t)'
      <4>1. l = "read" => \A p \in Owns(t)' : p \notin written
        BY <1>2, <1>8, <1>12 DEF VmmIInv, MemoryIInv, Contents
      <4> QED
        BY <1>1, <1>2, <1>4, <3>2, <4>1 DEF IsClean, Works
    <3> QED
      BY <3>1, <3>3, <3>4, <3>5, <3>6 DEF Works
  <2> QED
    BY <1>9, <2>1
<1>23. Workers'
  <2>1. ASSUME NEW u \in Threads, u # t PROVE Works(u)'
    <3>1. Works(u) /\ Stage(u) /\ Owns(u) \subseteq Pages
      BY <1>21, <2>1
    <3>2. HasFrames(u) => /\ \A f \in Hand(u) : frame'[f] = "used" /\ f \notin dirty'
                          /\ \A q \in Pages : Mapped(q)' => pte'[q].frame \notin Hand(u)
      <4>1. HasFrames(u) => /\ \A f \in Hand(u) : frame[f] = "used" /\ f \notin dirty
                            /\ \A q \in Pages : Mapped(q) => pte[q].frame \notin Hand(u)
        BY <3>1 DEF Works, HandIsReady
      <4>2. \A q \in Span(t) : HasFrames(u) => pte'[q].frame \notin Hand(u)
        BY <1>13, <1>15, <1>21, <2>1
      <4> QED
        BY <1>1, <1>16, <4>1, <4>2
    <3>3. at[u] = "read" => \A q \in Span(u) : pte'[q] = pte[q]
      <4>1. at[u] = "read" => Owns(u) = Span(u) /\ call[u].op # "fault"
        BY <3>1, SpanOwned DEF Entering, Stage, Allocs
      <4> QED
        BY <1>16, <1>21, <2>1, <3>1, <4>1
    <3>4. at[u] \in FaultLabels => call[u].op = "fault" /\ call[u].base \in Owns(u) /\ call[u].base \in Pages
      <4>1. call[u] \in CallRecords
        BY DEF VmmIInv, ControlIInv, VmmTyped
      <4>2. at[u] \in FaultLabels => call[u].op = "fault" /\ call[u].pages = 1 /\ Owns(u) = Span(u)
        BY <3>1, SpanOwned DEF Stage, Entering, FaultLabels
      <4> QED
        BY <3>1, <4>1, <4>2 DEF Span, Run, CallRecords
    <3>5. at[u] = "pf_fill" => pte'[call[u].base] # None
      BY <1>15, <1>16, <3>1, <3>4 DEF Works, IsFilled, Mapped, FaultLabels
    <3>6. Building(u) /\ at[u] # "read" => \A q \in Owns(u) : ~Mapped(q)'
      <4>1. Building(u) => call[u].op # "fault"
        BY DEF Building, Allocs
      <4> QED
        BY <1>16, <1>21, <2>1, <3>1, <4>1 DEF Works, IsEmpty
    <3>7. ~contended' /\ at[u] \in {"pf_frame", "pf_map"} => pte'[call[u].base] = None
      <4> SUFFICES ASSUME ~contended, at[u] \in {"pf_frame", "pf_map"} PROVE pte'[call[u].base] = None
        BY <1>1
      <4>1. ~Mapped(call[u].base)
        BY <3>1 DEF Works, IsEmpty
      <4>2. call[u].base \notin Span(t)
        <5>1. CASE call[t].op = "fault"
          <6>1. call[t].base # call[u].base /\ call[t].pages = 1 /\ call[t].base \in Nat
            BY <1>2, <2>1, <3>4, <5>1 DEF VmmIInv, MemoryIInv, FaultsApart, FaultLabels, Stage, CallRecords
          <6> QED
            BY <6>1 DEF Span, Run
        <5>2. CASE call[t].op # "fault"
          BY <1>7, <2>1, <3>4, <5>2 DEF VmmIInv, ControlIInv, Apart, FaultLabels
        <5> QED
          BY <5>1, <5>2
      <4> QED
        BY <1>16, <3>4, <4>1, <4>2 DEF Mapped, FaultLabels
    <3>8. /\ at[u] = "read" => \A q \in Owns(u) : q \notin written
          /\ ~contended /\ call[u].op = "fault" => call[u].base \notin written
      BY <3>1 DEF Works, IsClean
    <3> QED
      BY <1>1, <1>21, <2>1, <3>2, <3>3, <3>5, <3>6, <3>7, <3>8, WorksStep
  <2> QED
    BY <1>22, <2>1 DEF Workers
<1>24. HandsApart'
  BY <1>10, <1>21 DEF VmmIInv, MemoryIInv, HandsApart
<1>25. FaultsApart'
  BY <1>1, <1>4, <1>10, FaultsSame DEF VmmIInv, MemoryIInv
<1>26. Aliases'
  BY <1>1, <1>7, <1>10, <1>11, <1>16, <1>20, AliasesMapped
<1>27. FrameUse'
  <2>1. \A p \in Pages : Mapped(p)' => frame'[pte'[p].frame] = "used"
    BY <1>1, <1>2, <1>13, <1>15, <1>16 DEF FrameUse
  <2>2. \A f \in Frames : frame'[f] = "free" => f \notin dirty'
    BY <1>1, <1>2 DEF FrameUse
  <2>3. ASSUME NEW p \in Pages, NEW q \in Pages, p < q, Mapped(p)', Mapped(q)', pte'[p].frame = pte'[q].frame
        PROVE  HasCopyBelow(p, q)' /\ IsCopy(q)'
    <3>1. p \notin Span(t) /\ q \notin Span(t)
      <4>1. \A x \in Pages \ Span(t) : Mapped(x) => pte[x].frame \notin Hand(t)
        BY <1>2 DEF Works, HandIsReady
      <4>2. ~(p \in Span(t) /\ q \in Span(t))
        BY <1>2, <1>15, <2>3 DEF Span, Run, CallRecords
      <4>3. ~(p \in Span(t) /\ q \notin Span(t)) /\ ~(p \notin Span(t) /\ q \in Span(t))
        BY <1>13, <1>15, <1>16, <2>3, <4>1
      <4> QED
        BY <4>2, <4>3
    <3>2. HasCopyBelow(p, q) /\ IsCopy(q)
      BY <1>2, <1>16, <2>3, <3>1 DEF FrameUse
    <3>3. PICK r \in alias : p \in Of(r) /\ Mapped(Twin(r, p)) /\ Twin(r, p) <= q
      BY <3>2 DEF HasCopyBelow
    <3>4. Twin(r, p) \in Pages /\ IsCopy(Twin(r, p))
      <4>2. Twin(r, p) \in Pages /\ Twin(r, p) \in Copy(r)
        BY <3>3, TwinPages DEF VmmIInv, ControlIInv, MemoryIInv, Aliases
      <4> QED
        BY <4>2 DEF IsCopy
    <3>5. Mapped(Twin(r, p))'
      BY <1>11, <1>16, <3>3, <3>4 DEF Private
    <3> QED
      BY <1>1, <3>2, <3>3, <3>5 DEF HasCopyBelow, IsCopy
  <2> QED
    BY <2>1, <2>2, <2>3 DEF FrameUse
<1>28. FramesInUse'
  <2> SUFFICES ASSUME ~contended, NEW f \in Frames, frame[f] = "used" PROVE InUse(f)'
    BY <1>1 DEF FramesInUse
  <2>1. InUse(f)
    BY DEF VmmIInv, MemoryIInv, FramesInUse
  <2>2. CASE \E p \in Pages : Mapped(p) /\ pte[p].frame = f
    BY <1>12, <1>16, <2>2 DEF InUse
  <2>3. CASE f \in Hand(t)
    <3> DEFINE p == call[t].base + (f - call[t].pa)
    <3>1. p \in Span(t) /\ call[t].pa + (p - call[t].base) = f
      BY <1>2, <2>3 DEF Span, Hand, Run, CallRecords
    <3> HIDE DEF p
    <3> QED
      BY <1>7, <1>15, <3>1 DEF InUse
  <2>4. CASE \E u \in Threads : u # t /\ HasFrames(u) /\ f \in Hand(u)
    BY <1>21, <2>4 DEF InUse
  <2> QED
    BY <2>1, <2>2, <2>3, <2>4 DEF InUse
<1>29. \A p : (Given(p)' <=> Given(p)) /\ (\A u \in Threads : Leaves(u, p)' <=> Leaves(u, p))
  BY <1>2, <1>4, <1>10, <1>21 DEF Given, GivesBack, Leaves
<1>30. MappedAreCommitted'
  <2> SUFFICES ASSUME NEW p \in Pages, Mapped(p)' PROVE Committed(p, pte[p].rights)' \/ \E u \in Threads : Leaves(u, p)'
    BY DEF MappedAreCommitted
  <2>1. \A rights : CommittedIn(ReservationList', p, rights) <=> Committed(p, rights)
    BY <1>1 DEF Committed
  <2>2. CASE p \in Span(t)
    <3>1. CommittedIn(ReservationList', p, pte'[p].rights)
      BY <1>11, <1>15, <2>1, <2>2
    <3> QED
      BY <3>1 DEF Committed
  <2>3. CASE p \notin Span(t)
    <3>1. CommittedIn(ReservationList', p, pte'[p].rights) \/ \E u \in Threads : Leaves(u, p)
      BY <1>16, <2>1, <2>3 DEF VmmIInv, MemoryIInv, MappedAreCommitted
    <3> QED
      BY <1>29, <3>1 DEF Committed
  <2> QED
    BY <2>2, <2>3
<1>31. Contents'
  <2>1. \A p \in written : Mapped(p) /\ ~Given(p) /\ p \in Pages
    BY DEF VmmIInv, ControlIInv, MemoryIInv, VmmTyped, Contents
  <2>2. \A p \in written' : Mapped(p)' /\ ~Given(p)'
    BY <1>1, <1>15, <1>16, <1>29, <2>1
  <2>3. ASSUME ~contended, NEW p \in Pages, Mapped(p)', ~Given(p) PROVE pte'[p].frame \in dirty <=> p \in written
    <3>1. CASE p \in Span(t)
      BY <1>12, <1>13, <1>15, <2>1, <2>3, <3>1
    <3>2. CASE p \notin Span(t)
      BY <1>16, <2>3, <3>2 DEF VmmIInv, MemoryIInv, Contents
    <3> QED
      BY <3>1, <3>2
  <2> QED
    BY <1>1, <1>29, <2>2, <2>3 DEF Contents
<1> QED
  BY <1>20, <1>23, <1>24, <1>25, <1>26, <1>27, <1>28, <1>30, <1>31 DEF VmmIInv, MemoryIInv

----------------------------------------------------------------------------
\* MDLs of one or two pages.

\* What MdlAllocateEx adds for one frame, and what it has after the first i.
AddTo(pairs, f) ==
    LET k == Len(pairs)
    IN  IF k > 0 /\ pairs[k].address + pairs[k].count = f
        THEN [pairs EXCEPT ![k].count = @ + 1]
        ELSE Append(pairs, [address |-> f, count |-> 1])
MdlSteps(frames, g) == [i \in 0 .. Len(frames) |-> IF i = 0 THEN <<>> ELSE AddTo(g[i - 1], frames[i])]
Line(pair) == [k \in 1 .. pair.count |-> pair.address + k - 1]
MapSteps(pairs, g) == [i \in 0 .. Len(pairs) |-> IF i = 0 THEN <<>> ELSE g[i - 1] \o Line(pairs[i])]

\* A recursive function is what its equation says, if the equation has a solution.
LEMMA MdlUnfolds ==
    ASSUME NEW f, NEW h, h = MdlSteps(f, h)
    PROVE  \E g : MdlPairs(f) = g[Len(f)] /\ g = MdlSteps(f, g)
<1>1. h = [i \in 0 .. Len(f) |-> IF i = 0 THEN <<>> ELSE AddTo(h[i - 1], f[i])]
  BY DEF MdlSteps
<1>2. \E g : g = [i \in 0 .. Len(f) |-> IF i = 0 THEN <<>> ELSE AddTo(g[i - 1], f[i])]
  BY <1>1
<1> QED
  BY <1>2 DEF MdlPairs, MdlSteps, AddTo

LEMMA MapUnfolds ==
    ASSUME NEW s, NEW h, h = MapSteps(s, h)
    PROVE  \E g : DescribedFrames(s) = g[Len(s)] /\ g = MapSteps(s, g)
<1>1. \E g : g = [i \in 0 .. Len(s) |-> IF i = 0 THEN <<>>
                               ELSE g[i - 1] \o [k \in 1 .. s[i].count |-> s[i].address + k - 1]]
  BY DEF MapSteps, Line
<1> QED
  BY <1>1 DEF DescribedFrames, MapSteps, Line

Pair(a, n) == [address |-> a, count |-> n]
LEMMA FramesOf ==
    ASSUME NEW f \in Seq(Frames), Len(f) \in 1 .. 2
    PROVE  f[1] \in Nat /\ (Len(f) = 2 => f[2] \in Nat)
<1>1. f[1] \in Frames /\ (Len(f) = 2 => f[2] \in Frames)
  OBVIOUS
<1> QED
  BY <1>1 DEF Frames

LEMMA PairsOf ==
    ASSUME NEW f \in Seq(Frames), Len(f) \in 1 .. 2
    PROVE  MdlPairs(f) = IF Len(f) = 1 THEN <<Pair(f[1], 1)>>
                         ELSE IF f[1] + 1 = f[2] THEN <<Pair(f[1], 2)>> ELSE <<Pair(f[1], 1), Pair(f[2], 1)>>
<1> DEFINE a == AddTo(<<>>, f[1])
           b == AddTo(a, f[2])
           h == [i \in 0 .. Len(f) |-> IF i = 0 THEN <<>> ELSE IF i = 1 THEN a ELSE b]
<1>1. f[1] \in Nat /\ (Len(f) = 2 => f[2] \in Nat)
  BY FramesOf
<1>2. a = <<Pair(f[1], 1)>>
  <2>1. Len(<<>>) = 0 /\ \A x : Append(<<>>, x) = <<x>>
    OBVIOUS
  <2> QED
    BY <2>1 DEF AddTo, Pair
<1>3. Len(f) = 2 => b = IF f[1] + 1 = f[2] THEN <<Pair(f[1], 2)>> ELSE <<Pair(f[1], 1), Pair(f[2], 1)>>
  <2> SUFFICES ASSUME Len(f) = 2 PROVE b = IF f[1] + 1 = f[2] THEN <<Pair(f[1], 2)>> ELSE <<Pair(f[1], 1), Pair(f[2], 1)>>
    OBVIOUS
  <2> HIDE DEF a
  <2>1. Len(a) = 1 /\ a[1].address = f[1] /\ a[1].count = 1
    BY <1>2 DEF Pair
  <2>2. CASE f[1] + 1 = f[2]
    <3>1. b = [a EXCEPT ![1].count = @ + 1]
      BY <1>1, <2>1, <2>2 DEF AddTo
    <3>2. [a EXCEPT ![1].count = @ + 1] = [a EXCEPT ![1] = Pair(f[1], 2)]
      <4>1. [a[1] EXCEPT !.count = @ + 1] = Pair(f[1], 2)
        BY <1>2 DEF Pair
      <4> QED
        BY <4>1
    <3>3. [a EXCEPT ![1] = Pair(f[1], 2)] = <<Pair(f[1], 2)>>
      BY <1>2
    <3> QED
      BY <2>2, <3>1, <3>2, <3>3
  <2>3. CASE f[1] + 1 # f[2]
    <3>1. b = Append(a, Pair(f[2], 1))
      BY <1>1, <2>1, <2>3 DEF AddTo, Pair
    <3> QED
      BY <1>2, <2>3, <3>1
  <2> QED
    BY <2>2, <2>3
<1> HIDE DEF a, b
<1>4. h = MdlSteps(f, h)
  <2> SUFFICES ASSUME NEW i \in 0 .. Len(f)
               PROVE  h[i] = IF i = 0 THEN <<>> ELSE AddTo(h[i - 1], f[i])
    BY DEF MdlSteps
  <2>1. h[0] = <<>> /\ h[1] = a /\ (Len(f) = 2 => h[2] = b)
    OBVIOUS
  <2> HIDE DEF h
  <2>2. CASE i = 0
    BY <2>1, <2>2
  <2>3. CASE i = 1
    BY <2>1, <2>3 DEF a
  <2>4. CASE i = 2
    BY <2>1, <2>4 DEF b
  <2> QED
    BY <2>2, <2>3, <2>4
<1> HIDE DEF h
<1>5. PICK g : MdlPairs(f) = g[Len(f)] /\ g = MdlSteps(f, g)
  BY <1>4, MdlUnfolds
<1>6. \A i \in 0 .. Len(f) : g[i] = IF i = 0 THEN <<>> ELSE AddTo(g[i - 1], f[i])
  BY <1>5 DEF MdlSteps
<1>7. g[0] = <<>> /\ g[1] = a
  BY <1>6 DEF a
<1>8. Len(f) = 2 => g[2] = b
  BY <1>6, <1>7 DEF b
<1>9. CASE Len(f) = 1
  BY <1>2, <1>5, <1>7, <1>9
<1>10. CASE Len(f) = 2
  BY <1>3, <1>5, <1>8, <1>10
<1> QED
  BY <1>9, <1>10

\* The frames mapped over an MDL of one or two pages are those it was made of.
LEMMA DescribedFacts ==
    ASSUME NEW f \in Seq(Frames), Len(f) \in 1 .. 2
    PROVE  DescribedFrames(MdlPairs(f)) = f
<1>1. f[1] \in Nat /\ (Len(f) = 2 => f[2] \in Nat)
  BY FramesOf
<1>2. PICK s : s = MdlPairs(f)
  OBVIOUS
<1>3. s = IF Len(f) = 1 THEN <<Pair(f[1], 1)>>
          ELSE IF f[1] + 1 = f[2] THEN <<Pair(f[1], 2)>> ELSE <<Pair(f[1], 1), Pair(f[2], 1)>>
  BY <1>2, PairsOf
<1>4. PICK n \in 1 .. 2 : n = Len(s)
  BY <1>3
<1>5. PICK x, y : x = Line(s[1]) /\ y = Line(s[2])
  OBVIOUS
<1>6. PICK h : h = [i \in 0 .. Len(s) |-> IF i = 0 THEN <<>> ELSE IF i = 1 THEN <<>> \o x ELSE (<<>> \o x) \o y]
  OBVIOUS
<1>7. h = MapSteps(s, h)
  <2> SUFFICES ASSUME NEW i \in 0 .. Len(s)
               PROVE  h[i] = IF i = 0 THEN <<>> ELSE h[i - 1] \o Line(s[i])
    BY <1>6 DEF MapSteps
  <2>1. h[0] = <<>> /\ h[1] = <<>> \o x
    <3>1. 0 \in 0 .. n /\ 1 \in 0 .. n
      OBVIOUS
    <3> QED
      BY <1>4, <1>6, <3>1
  <2>2. CASE i = 0
    BY <2>1, <2>2
  <2>3. CASE i = 1
    <3>1. i - 1 = 0 /\ i # 0 /\ Line(s[i]) = x
      BY <1>5, <2>3
    <3> QED
      BY <2>1, <2>3, <3>1, Zenon
  <2>4. CASE i = 2
    <3>1. h[2] = (<<>> \o x) \o y
      BY <1>6, <2>4
    <3>2. h[2] = h[1] \o y /\ 2 - 1 = 1
      BY <2>1, <3>1
    <3> QED
      BY <1>5, <2>4, <3>2
  <2> QED
    BY <1>4, <2>2, <2>3, <2>4
<1>8. PICK g : DescribedFrames(s) = g[Len(s)] /\ g = MapSteps(s, g)
  BY <1>7, MapUnfolds
<1>9. \A i \in 0 .. Len(s) : g[i] = IF i = 0 THEN <<>> ELSE g[i - 1] \o Line(s[i])
  BY <1>8 DEF MapSteps
<1>10. g[0] = <<>>
  BY <1>4, <1>9
<1>11. g[1] = <<>> \o x
  <2>1. 1 \in 0 .. n /\ 1 - 1 = 0 /\ 1 # 0
    OBVIOUS
  <2>2. g[1] = g[1 - 1] \o Line(s[1])
    BY <1>4, <1>9, <2>1, Zenon
  <2> QED
    BY <1>5, <1>10, <2>1, <2>2, Zenon
<1>12. Len(s) = 2 => g[2] = (<<>> \o x) \o y
  <2> SUFFICES ASSUME Len(s) = 2 PROVE g[2] = (<<>> \o x) \o y
    OBVIOUS
  <2>1. 2 \in 0 .. n /\ 2 - 1 = 1 /\ 2 # 0
    BY <1>4
  <2>2. g[2] = g[2 - 1] \o Line(s[2])
    BY <1>4, <1>9, <2>1, Zenon
  <2> QED
    BY <1>5, <1>11, <2>1, <2>2, Zenon
<1>13. CASE Len(f) = 1
  <2>1. s[1] = Pair(f[1], 1) /\ Len(s) = 1
    BY <1>3, <1>13
  <2>2. x = <<f[1]>> /\ f = <<f[1]>>
    BY <1>1, <1>5, <1>13, <2>1 DEF Pair, Line
  <2>3. <<>> \o x = x
    BY <1>1, <2>2
  <2> QED
    BY <1>2, <1>8, <1>11, <2>1, <2>2, <2>3
<1>14. CASE Len(f) = 2 /\ f[1] + 1 = f[2]
  <2>1. s[1] = Pair(f[1], 2) /\ Len(s) = 1
    BY <1>3, <1>14
  <2>2. x = [k \in 1 .. 2 |-> f[1] + k - 1]
    BY <1>5, <2>1 DEF Pair, Line
  <2>3. x = <<f[1], f[2]>> /\ f = <<f[1], f[2]>>
    BY <1>1, <1>14, <2>2
  <2>4. <<>> \o x = x
    BY <1>1, <1>14, <2>3
  <2> QED
    BY <1>2, <1>8, <1>11, <2>1, <2>3, <2>4
<1>15. CASE Len(f) = 2 /\ f[1] + 1 # f[2]
  <2>1. s[1] = Pair(f[1], 1) /\ s[2] = Pair(f[2], 1) /\ Len(s) = 2
    BY <1>3, <1>15
  <2>2. x = <<f[1]>> /\ y = <<f[2]>> /\ f = <<f[1], f[2]>>
    BY <1>1, <1>5, <1>15, <2>1 DEF Pair, Line
  <2>3. <<>> \o x = x /\ x \o y = f
    <3>1. f[1] \in Nat /\ f[2] \in Nat
      BY <1>1, <1>15
    <3>2. ASSUME NEW a \in Nat, NEW b \in Nat PROVE <<>> \o <<a>> = <<a>> /\ <<a>> \o <<b>> = <<a, b>>
      <4>1. <<a>> \in Seq(Nat) /\ <<b>> \in Seq(Nat)
        OBVIOUS
      <4>2. PICK z : z = <<a>> \o <<b>>
        OBVIOUS
      <4>3. z \in Seq(Nat) /\ Len(z) = 2 /\ z[1] = a /\ z[2] = b
        BY <4>1, <4>2
      <4>4. z = <<a, b>>
        BY <4>3
      <4>5. <<>> \o <<a>> = <<a>>
        BY <4>1
      <4> QED
        BY <4>2, <4>4, <4>5, Zenon
    <3> QED
      BY <2>2, <3>1, <3>2
  <2> QED
    BY <1>2, <1>8, <1>12, <2>1, <2>3
<1> QED
  BY <1>13, <1>14, <1>15

----------------------------------------------------------------------------
\* Copies are mapped and given back.

\* MapRegion over an MDL.
LEMMA CopyKeeps ==
    ASSUME VmmIInv, NEW t \in Threads, at[t] = "map", call[t].op = "mdl", Return(t),
           pte' = [p \in Pages |-> IF p \in Span(t) THEN [frame |-> call[t].mdl[p - call[t].base + 1], rights |-> call[t].rights]
                                                    ELSE pte[p]],
           written' = written \cup {p \in Span(t) : call[t].mdl[p - call[t].base + 1] \in dirty},
           UNCHANGED <<listVars, frame, dirty, alias, contended, preempted>>
    PROVE  VmmIInv'
<1> USE DEF VmmIInv, ControlIInv
<1>1. UNCHANGED <<ReservationList, FreeVirtualAddressPointer, ReservationLock, VmmMemoryAccess, frame, dirty, alias, contended, preempted>>
  BY DEF listVars
<1>2. /\ call[t] \in CallRecords /\ Stage(t) /\ Placed(t) /\ Works(t) /\ FrameUse /\ VmmTyped /\ Aliases /\ Apart
      /\ pte \in [Pages -> PageTableEntries \cup {None}]
  BY DEF VmmTyped, Stages, Places, MemoryIInv, Workers
<1>3. /\ Owns(t) = Span(t) /\ Span(t) \subseteq Pages /\ Span(t) # {} /\ call[t].reserve /\ Building(t)
      /\ call[t].base \in Nat /\ call[t].pages \in Nat /\ call[t].mdl \in Seq(Frames) /\ Len(call[t].mdl) = call[t].pages
  <2>1. AllocStage(call[t])
    BY <1>2 DEF Stage, Allocs
  <2>2. Owns(t) = Span(t) /\ Span(t) \subseteq Pages
    BY <1>2, SpanOwned, OwnedPages DEF Entering
  <2> QED
    BY <1>2, <2>1, <2>2 DEF AllocStage, Building, Allocs, CallRecords, Span, Run
<1>4. \A p \in Span(t) : ~Mapped(p) /\ ~IsShared(p) /\ Committed(p, call[t].rights)
  BY <1>2, <1>3 DEF Works, IsEmpty, IsPrivate, Placed
<1>5. PICK r \in alias : Shows(t, r)
  BY <1>2 DEF Aliases
<1>6. AliasStands(r) /\ Copy(r) = Span(t) /\ r.base = call[t].base /\ r.pages = call[t].pages
  BY <1>2, <1>5 DEF Aliases, Shows, Copy, Span
<1>7. /\ r.base \in Nat /\ r.of \in Nat /\ r.pages \in Nat
      /\ \A p \in Of(r) : p \in Pages /\ Twin(r, p) \in Pages /\ Twin(r, p) \in Copy(r) /\ p < Twin(r, p)
      /\ \A x \in Copy(r) : x \in Pages /\ r.of + (x - r.base) \in Of(r) /\ Twin(r, r.of + (x - r.base)) = x
  BY <1>2, <1>6, TwinPages
<1>8. Describes(t, r)
  <2>1. PICK u \in Threads : Describes(u, r)
    BY <1>3, <1>4, <1>6 DEF AliasStands
  <2>2. call[u].op = "mdl" /\ Owns(u) = Copy(r)
    BY <2>1, SpanOwned DEF Describes, Shows, Copy, Span
  <2>3. u = t
    BY <1>2, <1>3, <1>6, <2>2 DEF Apart
  <2> QED
    BY <2>1, <2>3
<1> DEFINE Original(x) == r.of + (x - r.base)
           M(x) == call[t].mdl[x - call[t].base + 1]
<1>9. \A x \in Span(t) : /\ Original(x) \in Of(r) /\ Original(x) \in Pages /\ Mapped(Original(x)) /\ Original(x) \notin Span(t)
                         /\ Original(x) < x /\ M(x) = pte[Original(x)].frame /\ M(x) \in Frames /\ Twin(r, Original(x)) = x
  <2> SUFFICES ASSUME NEW x \in Span(t)
               PROVE  /\ Original(x) \in Of(r) /\ Original(x) \in Pages /\ Mapped(Original(x)) /\ Original(x) \notin Span(t)
                      /\ Original(x) < x /\ M(x) = pte[Original(x)].frame /\ M(x) \in Frames /\ Twin(r, Original(x)) = x
    OBVIOUS
  <2>1. x \in Pages /\ Original(x) \in Of(r) /\ Twin(r, Original(x)) = x /\ Original(x) \in Pages /\ Original(x) < x
    BY <1>6, <1>7
  <2>2. Mapped(Original(x)) /\ Original(x) \notin Span(t)
    BY <1>4, <1>6, <2>1 DEF AliasStands
  <2>3. call[t].mdl[Original(x) - r.of + 1] = pte[Original(x)].frame
    BY <1>8, <2>1 DEF Describes
  <2>4. x \in Int /\ Original(x) - r.of + 1 = x - call[t].base + 1
    BY <1>6, <1>7, <2>1, VmmAssumption DEF Pages
  <2>5. M(x) \in Frames
    <3>1. PICK b \in Nat, n \in Nat : b = call[t].base /\ n = call[t].pages
      BY <1>3
    <3>2. x - b + 1 \in 1 .. n
      <4>1. x \in b .. b + n - 1
        BY <3>1 DEF Span, Run
      <4> QED
        BY <4>1
    <3>3. x - call[t].base + 1 \in 1 .. Len(call[t].mdl)
      BY <1>3, <3>1, <3>2
    <3> QED
      BY <1>3, <3>3
  <2> QED
    BY <2>1, <2>2, <2>3, <2>4, <2>5
<1> HIDE DEF Original, M
<1>10. \A x \in Span(t) : /\ pte'[x].frame = M(x) /\ pte'[x].rights = call[t].rights
                          /\ pte'[x] \in PageTableEntries /\ Mapped(x)'
  <2> SUFFICES ASSUME NEW x \in Span(t)
               PROVE  /\ pte'[x].frame = M(x) /\ pte'[x].rights = call[t].rights
                      /\ pte'[x] \in PageTableEntries /\ Mapped(x)'
    OBVIOUS
  <2>1. pte'[x] = [frame |-> M(x), rights |-> call[t].rights]
    BY <1>3 DEF M
  <2>2. pte'[x] \in PageTableEntries
    <3>1. M(x) \in Frames /\ call[t].rights \in Rights
      BY <1>2, <1>9 DEF CallRecords
    <3> QED
      BY <2>1, <3>1 DEF PageTableEntries
  <2>3. pte'[x] # None
    BY <2>2, EntryIsPresent
  <2> QED
    BY <2>1, <2>2, <2>3 DEF Mapped
<1>11. \A p \in Pages \ Span(t) : pte'[p] = pte[p] /\ (Mapped(p)' <=> Mapped(p))
  BY DEF Mapped
<1>12. written' = written \cup {x \in Span(t) : M(x) \in dirty}
  BY DEF M
<1>13. \A p \in Pages : Mapped(p) => Mapped(p)' /\ p \notin Span(t) /\ pte'[p] = pte[p]
  BY <1>4, <1>11
<1>14. /\ ControlIInv' /\ OthersSame(t)
       /\ Works(t)' /\ ~HasFrames(t)' /\ ~GivesBack(t)' /\ Owns(t)' = {}
       /\ at'[t] = "idle" /\ call'[t] = NoCall /\ NoCall.op = "none"
  <2>1. pte' \in [Pages -> PageTableEntries \cup {None}]
    <3>1. \A p \in Pages : pte'[p] \in PageTableEntries \cup {None}
      BY <1>2, <1>10, <1>11
    <3> QED
      BY <3>1
  <2>2. written' \subseteq Pages /\ frame' \in [Frames -> {"free", "used", "queued"}] /\ dirty' \subseteq Frames
        /\ alias' \subseteq [base : Nat, of : Nat, pages : Nat]
    BY <1>1, <1>2, <1>3, <1>12 DEF VmmTyped
  <2>3. at[t] \notin {"inside", "uninit"} /\ UNCHANGED <<listVars, preempted>> /\ Return(t)
    BY <1>1
  <2> HIDE DEF VmmIInv
  <2> QED
    BY <2>1, <2>2, <2>3, ReturnControl, NoCallFacts DEF VmmIInv
<1> HIDE DEF VmmIInv, ControlIInv
<1>15. ASSUME NEW u \in Threads, u # t
       PROVE  /\ Works(u) /\ at'[u] = at[u] /\ call'[u] = call[u] /\ Owns(u)' = Owns(u) /\ Owns(u) \subseteq Pages /\ Stage(u)
              /\ call[u] \in CallRecords
              /\ (HasFrames(u)' <=> HasFrames(u)) /\ Hand(u)' = Hand(u)
              /\ Owns(u) \cap Span(t) = {}
  <2>1. Works(u) /\ at'[u] = at[u] /\ call'[u] = call[u] /\ Owns(u)' = Owns(u) /\ Stage(u) /\ call[u] \in CallRecords
    BY <1>2, <1>14, <1>15 DEF OthersSame, VmmIInv, MemoryIInv, Workers, ControlIInv, Stages, VmmTyped
  <2>2. Owns(u) \cap Span(t) = {}
    BY <1>2, <1>3, <1>15 DEF Apart
  <2> QED
    BY <2>1, <2>2, OwnedPages DEF VmmIInv, HasFrames, Hand
<1>16. Workers'
  <2>1. ASSUME NEW u \in Threads, u # t PROVE Works(u)'
    <3>1. Works(u) /\ Stage(u) /\ Owns(u) \subseteq Pages /\ call[u] \in CallRecords
      BY <1>15, <2>1
    <3>2. HasFrames(u) => /\ \A f \in Hand(u) : frame'[f] = "used" /\ f \notin dirty'
                          /\ \A q \in Pages : Mapped(q)' => pte'[q].frame \notin Hand(u)
      <4>1. HasFrames(u) => /\ \A f \in Hand(u) : frame[f] = "used" /\ f \notin dirty
                            /\ \A q \in Pages : Mapped(q) => pte[q].frame \notin Hand(u)
        BY <3>1 DEF Works, HandIsReady
      <4>2. \A q \in Span(t) : HasFrames(u) => pte'[q].frame \notin Hand(u)
        BY <1>9, <1>10, <4>1
      <4> QED
        BY <1>1, <1>11, <4>1, <4>2
    <3>3. \A q \in Owns(u) : pte'[q] = pte[q] /\ q \notin Span(t)
      BY <1>11, <1>15, <2>1, <3>1
    <3>4. at[u] = "read" => Owns(u) = Span(u)
      BY <3>1, SpanOwned DEF Entering
    <3>5. at[u] \in FaultLabels => call[u].base \in Owns(u)
      <4>1. at[u] \in FaultLabels => call[u].op = "fault" /\ call[u].pages = 1 /\ Owns(u) = Span(u)
        BY <3>1, SpanOwned DEF Stage, Entering, FaultLabels
      <4> QED
        BY <3>1, <4>1 DEF Span, Run, CallRecords
    <3>6. call[u].op = "fault" => at[u] \in FaultLabels
      BY <3>1 DEF Stage
    <3>7. /\ at[u] = "pf_fill" => pte'[call[u].base] # None
          /\ Building(u) /\ at[u] # "read" => \A q \in Owns(u) : ~Mapped(q)'
          /\ ~contended' /\ at[u] \in {"pf_frame", "pf_map"} => pte'[call[u].base] = None
      BY <1>1, <3>1, <3>3, <3>5 DEF Works, IsFilled, IsEmpty, Mapped, FaultLabels
    <3>8. /\ at[u] = "read" => \A q \in Owns(u) : q \notin written'
          /\ ~contended' /\ call[u].op = "fault" => call[u].base \notin written'
      BY <1>1, <1>12, <3>1, <3>3, <3>5, <3>6 DEF Works, IsClean
    <3> QED
      BY <1>1, <1>15, <2>1, <3>2, <3>3, <3>4, <3>7, <3>8, WorksStep
  <2> QED
    BY <1>14, <2>1 DEF Workers
<1>17. HandsApart'
  BY <1>14, <1>15 DEF VmmIInv, MemoryIInv, HandsApart
<1>18. FaultsApart'
  BY <1>1, <1>14, <1>15, FaultsSame DEF VmmIInv, MemoryIInv
<1>19. Aliases'
  <2>1. \A y \in alias : y # r => Copy(y) \cap Copy(r) = {} /\ Of(y) \cap Of(r) = {}
    BY <1>2 DEF Aliases
  <2>2. ASSUME NEW y \in alias PROVE AliasStands(y)'
    <3>1. /\ AliasStands(y) /\ y.base \in Nat /\ y.of \in Nat /\ y.pages \in Nat
          /\ \A p \in Of(y) : p \in Pages /\ Twin(y, p) \in Pages /\ Twin(y, p) \in Copy(y)
          /\ \A x \in Copy(y) : x \in Pages
      BY <1>2, TwinPages DEF Aliases
    <3>2. \A p \in Of(y) : p \notin Span(t)
      BY <1>4 DEF IsShared
    <3>3. \A p \in Of(y) : Mapped(p)' /\ pte'[p] = pte[p]
      BY <1>11, <3>1, <3>2 DEF AliasStands
    <3>4. IsRegion(y.base, y.pages)' <=> IsRegion(y.base, y.pages)
      BY <1>1 DEF IsRegion
    <3>5. CASE y = r
      <4>1. IsRegion(r.base, r.pages)
        BY <1>2, <1>3, <1>6 DEF Placed
      <4>2. \A x \in Copy(r) : Mapped(x)'
        BY <1>6, <1>10
      <4>3. \A p \in Of(r) : pte'[Twin(r, p)].frame = pte'[p].frame
        <5> SUFFICES ASSUME NEW p \in Of(r) PROVE pte'[Twin(r, p)].frame = pte'[p].frame
          OBVIOUS
        <5>1. Twin(r, p) \in Span(t) /\ p \in Int /\ p \in Pages
          BY <1>6, <1>7, VmmAssumption DEF Pages
        <5>2. Original(Twin(r, p)) = p
          BY <1>7, <5>1 DEF Original, Twin
        <5> QED
          BY <1>9, <1>10, <3>3, <3>5, <5>1, <5>2
      <4> QED
        BY <1>1, <3>1, <3>3, <3>4, <3>5, <4>1, <4>2, <4>3 DEF AliasStands
    <3>6. CASE y # r
      <4>1. \A x \in Copy(y) : x \notin Span(t) /\ pte'[x] = pte[x] /\ (Mapped(x)' <=> Mapped(x))
        BY <1>6, <1>11, <2>1, <3>1, <3>6
      <4>2. \A p \in Of(y) : Mapped(Twin(y, p))' => pte'[Twin(y, p)].frame = pte'[p].frame
        BY <3>1, <3>3, <4>1 DEF AliasStands
      <4>3. Copy(y) # {}
        BY <3>1 DEF AliasStands, Copy, Run
      <4>4. \A u \in Threads : /\ Describes(u, y) => Describes(u, y)'
                               /\ Releases(u, y) => Releases(u, y)'
        <5> SUFFICES ASSUME NEW u \in Threads PROVE (Describes(u, y) => Describes(u, y)') /\ (Releases(u, y) => Releases(u, y)')
          OBVIOUS
        <5>1. CASE u = t
          <6>1. ~Shows(t, y)
            BY <1>6, <4>1, <4>3 DEF Shows, Copy, Span
          <6> QED
            BY <5>1, <6>1 DEF Describes, Releases
        <5>2. CASE u # t
          BY <1>15, <3>3, <5>2 DEF Describes, Shows, Releases
        <5> QED
          BY <5>1, <5>2
      <4> QED
        BY <1>1, <3>1, <3>3, <3>4, <4>1, <4>2, <4>4 DEF AliasStands
    <3> QED
      BY <3>5, <3>6
  <2>3. \A u \in Threads : call'[u].op = "mdl" => \E y \in alias : Shows(u, y)'
    BY <1>2, <1>14, <1>15 DEF Aliases, Shows
  <2> QED
    BY <1>1, <1>2, <2>2, <2>3 DEF Aliases, Copy, Of
<1>20. FrameUse'
  <2>1. ASSUME NEW p \in Pages, Mapped(p)' PROVE frame'[pte'[p].frame] = "used"
    <3>1. CASE p \in Span(t)
      <4>1. PICK o : o = Original(p)
        OBVIOUS
      <4>2. o \in Pages /\ Mapped(o) /\ pte'[p].frame = pte[o].frame
        BY <1>9, <1>10, <3>1, <4>1
      <4> QED
        BY <1>1, <1>2, <4>2 DEF FrameUse
    <3>2. CASE p \notin Span(t)
      BY <1>1, <1>2, <1>11, <2>1, <3>2 DEF FrameUse
    <3> QED
      BY <3>1, <3>2
  <2>2. \A f \in Frames : frame'[f] = "free" => f \notin dirty'
    BY <1>1, <1>2 DEF FrameUse
  <2>3. \A o \in Of(r) : \A y : ~HasCopyBelow(o, y)
    <3> SUFFICES ASSUME NEW o \in Of(r), NEW s \in alias, o \in Of(s), Mapped(Twin(s, o)) PROVE FALSE
      BY Zenon DEF HasCopyBelow
    <3>1. s = r
      BY <1>2 DEF Aliases
    <3> QED
      BY <1>4, <1>6, <1>7, <3>1
  <2>4. \A p, q : HasCopyBelow(p, q) => HasCopyBelow(p, q)'
    <3> SUFFICES ASSUME NEW p, NEW q, NEW s \in alias, p \in Of(s), Mapped(Twin(s, p)), Twin(s, p) <= q PROVE HasCopyBelow(p, q)'
      BY DEF HasCopyBelow
    <3>1. Twin(s, p) \in Pages
      BY <1>2, TwinPages DEF Aliases
    <3> QED
      BY <1>1, <1>13, <3>1 DEF HasCopyBelow, Of, Twin
  <2>5. \A q : IsCopy(q)' <=> IsCopy(q)
    BY <1>1 DEF IsCopy
  <2>6. ASSUME NEW p \in Pages, NEW q \in Pages, p < q, Mapped(p)', Mapped(q)', pte'[p].frame = pte'[q].frame
        PROVE  HasCopyBelow(p, q)' /\ IsCopy(q)'
    <3>1. CASE p \notin Span(t) /\ q \notin Span(t)
      BY <1>2, <1>11, <2>4, <2>5, <2>6, <3>1 DEF FrameUse
    <3>2. CASE p \notin Span(t) /\ q \in Span(t)
      <4>1. PICK o : o = Original(q)
        OBVIOUS
      <4>2. o \in Of(r) /\ o \in Pages /\ Mapped(o) /\ o < q /\ pte[p].frame = pte[o].frame /\ Twin(r, o) = q /\ Mapped(p)
        BY <1>9, <1>10, <1>11, <2>6, <3>2, <4>1
      <4>3. IsCopy(q)
        BY <1>6, <3>2 DEF IsCopy
      <4>4. CASE p = o
        <5>1. HasCopyBelow(p, q)'
          BY <1>1, <2>6, <4>2, <4>4, VmmAssumption DEF HasCopyBelow, Pages, Of, Twin
        <5> QED
          BY <2>5, <4>3, <5>1
      <4>5. CASE p < o
        <5>1. HasCopyBelow(p, o)
          BY <1>2, <4>2, <4>5 DEF FrameUse
        <5>2. HasCopyBelow(p, q)
          <6>1. PICK s \in alias : p \in Of(s) /\ Mapped(Twin(s, p)) /\ Twin(s, p) <= o
            BY <5>1 DEF HasCopyBelow
          <6>2. Twin(s, p) \in Pages
            BY <1>2, <6>1, TwinPages DEF Aliases
          <6>3. Twin(s, p) <= q
            BY <4>2, <6>1, <6>2, VmmAssumption DEF Pages
          <6> QED
            BY <6>1, <6>3 DEF HasCopyBelow
        <5> QED
          BY <2>4, <2>5, <4>3, <5>2
      <4>6. CASE o < p
        BY <1>2, <2>3, <4>2, <4>6 DEF FrameUse
      <4> QED
        BY <4>2, <4>4, <4>5, <4>6, VmmAssumption DEF Pages
    <3>3. CASE p \in Span(t)
      <4>1. PICK o : o = Original(p)
        OBVIOUS
      <4>2. o \in Of(r) /\ o \in Pages /\ Mapped(o) /\ o < p /\ pte'[p].frame = pte[o].frame /\ o \in Int
        BY <1>9, <1>10, <3>3, <4>1, VmmAssumption DEF Pages
      <4>3. CASE q \notin Span(t)
        <5>1. Mapped(q) /\ pte[q].frame = pte[o].frame /\ o < q
          BY <1>11, <2>6, <4>2, <4>3, VmmAssumption DEF Pages
        <5> QED
          BY <1>2, <2>3, <4>2, <5>1 DEF FrameUse
      <4>4. CASE q \in Span(t)
        <5>1. PICK w : w = Original(q)
          OBVIOUS
        <5>2. w \in Pages /\ Mapped(w) /\ pte[w].frame = pte[o].frame
          BY <1>9, <1>10, <2>6, <4>2, <4>4, <5>1
        <5>3. o < w
          <6>1. p \in Int /\ q \in Int
            BY VmmAssumption DEF Pages
          <6> QED
            BY <1>7, <2>6, <4>1, <5>1, <6>1 DEF Original
        <5> QED
          BY <1>2, <2>3, <4>2, <5>2, <5>3 DEF FrameUse
      <4> QED
        BY <4>3, <4>4
    <3> QED
      BY <3>1, <3>2, <3>3
  <2> QED
    BY <2>1, <2>2, <2>6 DEF FrameUse
<1>21. FramesInUse'
  <2> SUFFICES ASSUME ~contended, NEW f \in Frames, frame[f] = "used" PROVE InUse(f)'
    BY <1>1 DEF FramesInUse
  <2>1. InUse(f) /\ ~HasFrames(t)
    BY DEF VmmIInv, MemoryIInv, FramesInUse, HasFrames
  <2>2. CASE \E p \in Pages : Mapped(p) /\ pte[p].frame = f
    BY <1>13, <2>2 DEF InUse
  <2>3. CASE \E u \in Threads : u # t /\ HasFrames(u) /\ f \in Hand(u)
    BY <1>15, <2>3 DEF InUse
  <2> QED
    BY <2>1, <2>2, <2>3 DEF InUse
<1>22. \A p : (Given(p)' <=> Given(p)) /\ (\A u \in Threads : Leaves(u, p)' <=> Leaves(u, p))
  BY <1>14, <1>15 DEF Given, GivesBack, Leaves
<1>23. MappedAreCommitted'
  <2> SUFFICES ASSUME NEW p \in Pages, Mapped(p)' PROVE Committed(p, pte[p].rights)' \/ \E u \in Threads : Leaves(u, p)'
    BY DEF MappedAreCommitted
  <2>1. \A rights : CommittedIn(ReservationList', p, rights) <=> Committed(p, rights)
    BY <1>1 DEF Committed
  <2>2. CASE p \in Span(t)
    <3>1. CommittedIn(ReservationList', p, pte'[p].rights)
      BY <1>4, <1>10, <2>1, <2>2
    <3> QED
      BY <3>1 DEF Committed
  <2>3. CASE p \notin Span(t)
    <3>1. CommittedIn(ReservationList', p, pte'[p].rights) \/ \E u \in Threads : Leaves(u, p)
      BY <1>11, <2>1, <2>3 DEF VmmIInv, MemoryIInv, MappedAreCommitted
    <3> QED
      BY <1>22, <3>1 DEF Committed
  <2> QED
    BY <2>2, <2>3
<1>24. Contents'
  <2>1. \A p \in written : Mapped(p) /\ ~Given(p) /\ p \in Pages
    BY <1>2 DEF VmmIInv, MemoryIInv, VmmTyped, Contents
  <2>2. \A p \in Span(t) : ~Given(p)
    BY <1>15 DEF Given
  <2>3. \A p \in written' : Mapped(p)' /\ ~Given(p)'
    BY <1>10, <1>12, <1>13, <1>22, <2>1, <2>2
  <2>4. ASSUME ~contended, NEW p \in Pages, Mapped(p)', ~Given(p) PROVE pte'[p].frame \in dirty <=> p \in written'
    <3>1. CASE p \in Span(t)
      BY <1>4, <1>10, <1>12, <2>1, <3>1
    <3>2. CASE p \notin Span(t)
      BY <1>11, <1>12, <2>4, <3>2 DEF VmmIInv, MemoryIInv, Contents
    <3> QED
      BY <3>1, <3>2
  <2> QED
    BY <1>1, <1>22, <2>3, <2>4 DEF Contents
<1> QED
  BY <1>14, <1>16, <1>17, <1>18, <1>19, <1>20, <1>21, <1>23, <1>24 DEF VmmIInv, MemoryIInv

\* MapRegion
LEMMA MapRegionKeeps ==
    ASSUME VmmIInv, NEW t \in Threads, MapRegion(t)
    PROVE  VmmIInv'
<1> DEFINE a == call[t]
           frames == IF a.mdl = <<>> THEN [i \in 1 .. a.pages |-> a.pa + i - 1] ELSE DescribedFrames(MdlPairs(a.mdl))
<1>1. /\ at[t] = "map" /\ MapMemory(a.base, frames, a.rights, a.mdl = <<>>)
      /\ written' = IF a.mdl = <<>> THEN written
                    ELSE written \cup {p \in Run(a.base, Len(frames)) : frames[p - a.base + 1] \in dirty}
      /\ IF a.file THEN Goto(t, "read") /\ UNCHANGED call ELSE Return(t)
      /\ UNCHANGED <<listVars, frame, dirty, alias, contended, preempted>>
  BY DEF MapRegion, At, historyVars
<1>2. a \in CallRecords /\ Stage(t) /\ Works(t) /\ Placed(t) /\ AllocStage(a)
  BY <1>1 DEF VmmIInv, ControlIInv, MemoryIInv, VmmTyped, Stages, Places, Workers, Stage, Allocs
<1>3. a.mdl \in Seq(Frames) /\ a.pages \in Nat /\ a.base \in Nat /\ a.pa \in Nat
  BY <1>2 DEF CallRecords
<1>4. CASE a.op # "mdl"
  <2>1. a.mdl = <<>>
    BY <1>2, <1>4 DEF AllocStage
  <2>2. HasFrames(t)
    BY <1>1, <1>4 DEF HasFrames
  <2>3. PICK s : s = [i \in 1 .. a.pages |-> a.pa + i - 1]
    OBVIOUS
  <2>4. Len(s) = a.pages /\ \A p \in Span(t) : p - a.base + 1 \in 1 .. a.pages /\ s[p - a.base + 1] = a.pa + (p - a.base)
    <3>1. PICK b \in Nat, n \in Nat, f \in Nat : b = a.base /\ n = a.pages /\ f = a.pa
      BY <1>3
    <3>2. s = [i \in 1 .. n |-> f + i - 1]
      BY <2>3, <3>1
    <3>3. Len(s) = n
      BY <3>2
    <3>4. \A p \in b .. b + n - 1 : p - b + 1 \in 1 .. n /\ s[p - b + 1] = f + (p - b)
      BY <3>2
    <3> QED
      BY <3>1, <3>3, <3>4 DEF Span, Run
  <2>5. pte' = [p \in Pages |-> IF p \in Run(a.base, Len(s)) THEN [frame |-> s[p - a.base + 1], rights |-> a.rights] ELSE pte[p]]
    BY <1>1, <2>1, <2>3 DEF MapMemory
  <2>6. pte' = [p \in Pages |-> IF p \in Span(t) THEN [frame |-> a.pa + (p - a.base), rights |-> a.rights] ELSE pte[p]]
    BY <2>4, <2>5 DEF Span
  <2>7. written' = written
    BY <1>1, <2>1
  <2>8. CASE a.file
    <3>1. at' = [at EXCEPT ![t] = "read"] /\ call' = IF "read" = "idle" THEN [call EXCEPT ![t] = NoCall] ELSE call
      BY <1>1, <2>8 DEF Goto
    <3> HIDE DEF frames
    <3> QED
      BY <1>1, <2>2, <2>6, <2>7, <2>8, <3>1, MapKeeps
  <2>9. CASE ~a.file
    <3>1. at' = [at EXCEPT ![t] = "idle"] /\ call' = IF "idle" = "idle" THEN [call EXCEPT ![t] = NoCall] ELSE call
      BY <1>1, <2>9 DEF Goto, Return
    <3> HIDE DEF frames
    <3> QED
      BY <1>1, <2>2, <2>6, <2>7, <2>9, <3>1, MapKeeps
  <2> QED
    BY <2>8, <2>9
<1>5. CASE a.op = "mdl"
  <2>1. Len(a.mdl) = a.pages /\ Len(a.mdl) \in 1 .. 2 /\ ~a.file /\ a.mdl # <<>> /\ a.reserve
    <3>1. Len(a.mdl) = a.pages /\ 1 <= a.pages /\ a.pages <= 2 /\ ~a.file /\ a.reserve
      BY <1>2, <1>5 DEF AllocStage
    <3>2. a.mdl # <<>>
      BY <3>1
    <3> QED
      BY <1>3, <3>1, <3>2
  <2>2. frames = a.mdl
    BY <1>3, <2>1, DescribedFacts
  <2> HIDE DEF frames
  <2>3. Run(a.base, Len(frames)) = Span(t)
    BY <2>1, <2>2 DEF Span
  <2>4. \A p \in Span(t) : pte[p] = None
    <3>1. Owns(t) = Span(t) /\ Building(t)
      BY <1>1, <1>5, <2>1, SpanOwned DEF Entering, Building, Allocs
    <3> QED
      BY <1>1, <1>2, <3>1 DEF Works, IsEmpty, Mapped
  <2>5. pte' = [p \in Pages |-> IF p \in Span(t) /\ (pte[p] = None \/ a.mdl = <<>>)
                                THEN [frame |-> a.mdl[p - a.base + 1], rights |-> a.rights] ELSE pte[p]]
    BY <1>1, <2>2, <2>3 DEF MapMemory
  <2>6. pte' = [p \in Pages |-> IF p \in Span(t) THEN [frame |-> a.mdl[p - a.base + 1], rights |-> a.rights] ELSE pte[p]]
    BY <2>4, <2>5
  <2>7. written' = written \cup {p \in Span(t) : a.mdl[p - a.base + 1] \in dirty}
    BY <1>1, <2>1, <2>2, <2>3
  <2>8. Return(t)
    BY <1>1, <2>1
  <2> QED
    BY <1>1, <1>5, <2>6, <2>7, <2>8, CopyKeeps
<1> QED
  BY <1>4, <1>5

\* FaultMap
LEMMA FaultMapKeeps ==
    ASSUME VmmIInv, NEW t \in Threads, FaultMap(t)
    PROVE  VmmIInv'
<1> DEFINE a == call[t]
<1>1. /\ at[t] = "pf_map" /\ MapMemory(a.base, <<a.pa>>, a.rights, TRUE) /\ at' = [at EXCEPT ![t] = "pf_fill"]
      /\ UNCHANGED <<listVars, frame, dirty, call, alias, written, contended, preempted>>
  BY DEF FaultMap, At, Goto, historyVars
<1>2. a \in CallRecords /\ Stage(t)
  BY DEF VmmIInv, ControlIInv, VmmTyped, Stages
<1>3. a.pages = 1 /\ a.base \in Nat /\ a.pa \in Nat
  BY <1>1, <1>2 DEF Stage, FaultLabels, CallRecords
<1>4. pte' = [p \in Pages |-> IF p \in Run(a.base, 1) THEN [frame |-> <<a.pa>>[p - a.base + 1], rights |-> a.rights] ELSE pte[p]]
  BY <1>1 DEF MapMemory
<1>5. \A p \in Run(a.base, 1) : <<a.pa>>[p - a.base + 1] = a.pa + (p - a.base)
  <2>1. \A p \in Run(a.base, 1) : p = a.base
    BY <1>3 DEF Run
  <2>2. a.base - a.base + 1 = 1 /\ a.pa + (a.base - a.base) = a.pa /\ <<a.pa>>[1] = a.pa
    BY <1>3
  <2> QED
    BY <2>1, <2>2
<1>6. pte' = [p \in Pages |-> IF p \in Span(t) THEN [frame |-> a.pa + (p - a.base), rights |-> a.rights] ELSE pte[p]]
  BY <1>3, <1>4, <1>5 DEF Span
<1>7. HasFrames(t) /\ call' = IF "pf_fill" = "idle" THEN [call EXCEPT ![t] = NoCall] ELSE call
  BY <1>1 DEF HasFrames
<1> QED
  BY <1>1, <1>6, <1>7, MapKeeps

\* UnmapRegion
LEMMA UnmapRegionKeeps ==
    ASSUME VmmIInv, NEW t \in Threads, UnmapRegion(t)
    PROVE  VmmIInv'
<1> USE DEF VmmIInv, ControlIInv
<1> DEFINE base == call[t].base
           S == Span(t)
           release == \A r \in alias : r.base # base
<1>1. /\ at[t] = "unmap" /\ Return(t) /\ alias' = {r \in alias : r.base # base}
      /\ pte' = [p \in Pages |-> IF p \in {q \in S : pte[q] # None} THEN None ELSE pte[p]]
      /\ frame' = [f \in Frames |-> IF release /\ \E p \in {q \in S : pte[q] # None} : pte[p].frame = f
                                    THEN "queued" ELSE frame[f]]
      /\ UNCHANGED <<ReservationList, FreeVirtualAddressPointer, listVars, dirty, written, contended, preempted>>
  BY DEF UnmapRegion, UnmapMemory, At, Span, historyVars, listVars
<1>2. /\ call[t] \in CallRecords /\ Stage(t) /\ Works(t) /\ FrameUse /\ VmmTyped /\ Aliases /\ Apart
      /\ pte \in [Pages -> PageTableEntries \cup {None}] /\ frame \in [Frames -> {"free", "used", "queued"}]
  BY DEF VmmTyped, Stages, MemoryIInv, Workers
<1>3. call[t].op \in {"release", "decommit"} /\ Owns(t) = S /\ S \subseteq Pages /\ base \in S /\ base \in Nat /\ ~HasFrames(t)
  <2>1. call[t].op \in {"release", "decommit"} /\ 1 <= call[t].pages
    BY <1>1, <1>2 DEF Stage
  <2>2. Owns(t) = S /\ S \subseteq Pages
    BY <1>1, SpanOwned, OwnedPages DEF Entering
  <2> QED
    BY <1>1, <1>2, <2>1, <2>2 DEF CallRecords, Span, Run, HasFrames
<1>4. \A r \in alias : r.base \in Copy(r) /\ AliasStands(r)
  BY <1>2, TwinPages DEF Aliases, AliasStands, Copy, Run
<1>5. \A p \in S : ~IsShared(p)
  BY <1>2, <1>3 DEF Works, IsPrivate, Private
<1>6. \A r \in alias : r.base = base => Copy(r) = S
  <2> SUFFICES ASSUME NEW r \in alias, r.base = base PROVE Copy(r) = S
    OBVIOUS
  <2>1. base \in Copy(r) /\ ~Private(base)
    BY <1>4 DEF Private, IsCopy
  <2> QED
    BY <1>2, <1>3, <2>1 DEF Works, IsPrivate
<1>7. \A r \in alias : r.base # base => Copy(r) \cap S = {}
  <2> SUFFICES ASSUME NEW r \in alias, r.base # base PROVE Copy(r) \cap S = {}
    OBVIOUS
  <2>1. Copy(r) # S
    <3>1. PICK n : n = call[t].pages
      OBVIOUS
    <3>2. n \in Nat /\ r.base \in Nat /\ r.pages \in Nat /\ S = base .. base + n - 1 /\ Copy(r) = r.base .. r.base + r.pages - 1
      BY <1>2, <3>1 DEF CallRecords, VmmTyped, Span, Copy, Run
    <3>3. r.base \in Copy(r)
      BY <1>4
    <3> QED
      BY <1>3, <3>2, <3>3
  <2> QED
    BY <1>2, <1>3, <2>1 DEF Works, IsPrivate, Private, IsCopy
<1> HIDE DEF base, S
<1>8. alias' \subseteq alias /\ \A r \in alias : r \in alias' <=> Copy(r) \cap S = {}
  BY <1>1, <1>3, <1>6, <1>7
<1>9. \A r \in alias : Of(r) \cap S = {}
  BY <1>5 DEF IsShared
<1>10. \A p \in Pages \ S : pte'[p] = pte[p] /\ (Mapped(p)' <=> Mapped(p))
  BY <1>1 DEF Mapped
<1>11. \A p \in S : ~Mapped(p)'
  BY <1>1, <1>3 DEF Mapped
<1>12. release => \A p \in S : Private(p)
  BY <1>5, <1>7 DEF Private, IsCopy
<1>13. \A f \in Frames : /\ frame'[f] = "used" => frame[f] = "used" /\ (release => \A p \in S : Mapped(p) => pte[p].frame # f)
                         /\ frame'[f] = "free" => frame[f] = "free"
                         /\ (\A p \in S : Mapped(p) => pte[p].frame # f) => frame'[f] = frame[f]
                         /\ ~release => frame'[f] = frame[f]
  BY <1>1 DEF Mapped
<1>14. \A r \in alias : r \notin alias' => Copy(r) = S /\ ~release
  BY <1>1, <1>6
<1> HIDE DEF release
<1>15. /\ ControlIInv' /\ OthersSame(t)
       /\ Works(t)' /\ ~HasFrames(t)' /\ ~GivesBack(t)' /\ Owns(t)' = {}
       /\ at'[t] = "idle" /\ call'[t] = NoCall /\ NoCall.op = "none"
  <2>1. pte' \in [Pages -> PageTableEntries \cup {None}]
    BY <1>1, <1>2
  <2>2. frame' \in [Frames -> {"free", "used", "queued"}]
    BY <1>1, <1>2
  <2>3. dirty' \subseteq Frames /\ written' \subseteq Pages /\ alias' \subseteq [base : Nat, of : Nat, pages : Nat]
    BY <1>1, <1>2, <1>8 DEF VmmTyped
  <2>4. at[t] \notin {"inside", "uninit"} /\ UNCHANGED <<listVars, preempted>> /\ Return(t)
    BY <1>1
  <2> HIDE DEF VmmIInv, ControlIInv
  <2> QED
    BY <2>1, <2>2, <2>3, <2>4, ReturnControl, NoCallFacts DEF VmmIInv, ControlIInv
<1> HIDE DEF VmmIInv, ControlIInv
<1>16. ASSUME NEW u \in Threads, u # t
       PROVE  /\ Works(u) /\ at'[u] = at[u] /\ call'[u] = call[u] /\ Owns(u)' = Owns(u) /\ Owns(u) \subseteq Pages /\ Stage(u)
              /\ call[u] \in CallRecords
              /\ (HasFrames(u)' <=> HasFrames(u)) /\ Hand(u)' = Hand(u)
              /\ Owns(u) \cap S = {}
  <2>1. Works(u) /\ at'[u] = at[u] /\ call'[u] = call[u] /\ Owns(u)' = Owns(u) /\ Stage(u) /\ call[u] \in CallRecords
    BY <1>2, <1>15, <1>16 DEF OthersSame, VmmIInv, MemoryIInv, Workers, ControlIInv, Stages, VmmTyped
  <2>2. Owns(u) \cap S = {}
    BY <1>2, <1>3, <1>16 DEF Apart
  <2> QED
    BY <2>1, <2>2, OwnedPages DEF VmmIInv, HasFrames, Hand
<1>17. Workers'
  <2>1. ASSUME NEW u \in Threads, u # t PROVE Works(u)'
    <3>1. Works(u) /\ Stage(u) /\ Owns(u) \subseteq Pages /\ call[u] \in CallRecords
      BY <1>16, <2>1
    <3>2. HasFrames(u) => /\ \A f \in Hand(u) : frame'[f] = "used" /\ f \notin dirty'
                          /\ \A q \in Pages : Mapped(q)' => pte'[q].frame \notin Hand(u)
      <4>1. HasFrames(u) => /\ \A f \in Hand(u) : f \in Frames /\ frame[f] = "used" /\ f \notin dirty
                            /\ \A q \in Pages : Mapped(q) => pte[q].frame \notin Hand(u)
        BY <3>1 DEF Works, HandIsReady
      <4>2. HasFrames(u) => \A f \in Hand(u) : frame'[f] = frame[f]
        BY <1>3, <1>13, <4>1
      <4> QED
        BY <1>1, <1>10, <1>11, <4>1, <4>2
    <3>3. \A q \in Owns(u) : pte'[q] = pte[q] /\ q \notin S
      BY <1>10, <1>16, <2>1, <3>1
    <3>4. at[u] = "read" => Owns(u) = Span(u)
      BY <3>1, SpanOwned DEF Entering
    <3>5. at[u] \in FaultLabels => call[u].base \in Owns(u)
      <4>1. at[u] \in FaultLabels => call[u].op = "fault" /\ call[u].pages = 1 /\ Owns(u) = Span(u)
        BY <3>1, SpanOwned DEF Stage, Entering, FaultLabels
      <4> QED
        BY <3>1, <4>1 DEF Span, Run, CallRecords
    <3>6. /\ at[u] = "pf_fill" => pte'[call[u].base] # None
          /\ Building(u) /\ at[u] # "read" => \A q \in Owns(u) : ~Mapped(q)'
          /\ ~contended' /\ at[u] \in {"pf_frame", "pf_map"} => pte'[call[u].base] = None
      BY <1>1, <3>1, <3>3, <3>5 DEF Works, IsFilled, IsEmpty, Mapped, FaultLabels
    <3>7. /\ at[u] = "read" => \A q \in Owns(u) : q \notin written'
          /\ ~contended' /\ call[u].op = "fault" => call[u].base \notin written'
      BY <1>1, <3>1 DEF Works, IsClean
    <3> QED
      BY <1>1, <1>8, <1>16, <2>1, <3>2, <3>3, <3>4, <3>6, <3>7, WorksStep
  <2> QED
    BY <1>15, <2>1 DEF Workers
<1>18. HandsApart'
  BY <1>15, <1>16 DEF VmmIInv, MemoryIInv, HandsApart
<1>19. FaultsApart'
  BY <1>1, <1>15, <1>16, FaultsSame DEF VmmIInv, MemoryIInv
<1>20. Aliases'
  <2>1. ASSUME NEW r \in alias' PROVE AliasStands(r)'
    <3>1. /\ r \in alias /\ AliasStands(r) /\ r.base # base /\ Copy(r) \cap S = {}
          /\ \A p \in Of(r) : p \in Pages /\ Twin(r, p) \in Pages /\ Twin(r, p) \in Copy(r)
          /\ \A x \in Copy(r) : x \in Pages
      BY <1>1, <1>2, <1>4, <1>8, TwinPages
    <3>2. \A p \in Of(r) \cup Copy(r) : pte'[p] = pte[p] /\ (Mapped(p)' <=> Mapped(p))
      BY <1>9, <1>10, <3>1
    <3>3. \A p \in Of(r) : Mapped(p)' /\ (Mapped(Twin(r, p))' => pte'[Twin(r, p)].frame = pte'[p].frame)
      BY <3>1, <3>2 DEF AliasStands
    <3>4. IsRegion(r.base, r.pages)' <=> IsRegion(r.base, r.pages)
      BY <1>1 DEF IsRegion
    <3>5. \A u \in Threads : (Describes(u, r) => u # t /\ Describes(u, r)') /\ (Releases(u, r) => u # t /\ Releases(u, r)')
      <4> SUFFICES ASSUME NEW u \in Threads
                   PROVE  (Describes(u, r) => u # t /\ Describes(u, r)') /\ (Releases(u, r) => u # t /\ Releases(u, r)')
        OBVIOUS
      <4>1. CASE u = t
        BY <1>3, <3>1, <4>1 DEF Describes, Shows, Releases, base
      <4>2. CASE u # t
        BY <1>16, <3>2, <4>2 DEF Describes, Shows, Releases
      <4> QED
        BY <4>1, <4>2
    <3>6. (\A p \in Copy(r) : Mapped(p)) => \A p \in Copy(r) : Mapped(p)'
      BY <3>2
    <3> QED
      BY <1>1, <3>1, <3>3, <3>4, <3>5, <3>6 DEF AliasStands
  <2>2. ASSUME NEW u \in Threads, call'[u].op = "mdl" PROVE \E r \in alias' : Shows(u, r)'
    <3>1. u # t
      BY <1>15, <2>2
    <3>2. call[u].op = "mdl" /\ call'[u] = call[u] /\ Owns(u) \cap S = {}
      BY <1>16, <2>2, <3>1
    <3>3. PICK r \in alias : Shows(u, r)
      BY <1>2, <3>2 DEF Aliases
    <3>4. Owns(u) = Copy(r)
      BY <3>2, <3>3, SpanOwned DEF Shows, Copy, Span
    <3>5. r \in alias'
      BY <1>8, <3>2, <3>4
    <3> QED
      BY <3>2, <3>3, <3>5 DEF Shows
  <2> QED
    BY <1>2, <1>8, <2>1, <2>2 DEF Aliases, Copy, Of
<1>21. \A p \in Pages : Mapped(p) => pte[p].frame \in Frames /\ frame[pte[p].frame] = "used"
  BY <1>2 DEF FrameUse, VmmTyped, PageTableEntries, Mapped
<1>22. FrameUse'
  <2>1. ASSUME NEW p \in Pages, Mapped(p)' PROVE frame'[pte'[p].frame] = "used"
    <3>1. p \notin S /\ Mapped(p) /\ pte'[p] = pte[p]
      BY <1>10, <1>11, <2>1
    <3>2. release => \A q \in S : Mapped(q) => pte[q].frame # pte[p].frame
      BY <1>2, <1>3, <1>12, <3>1, PrivateFrame
    <3> QED
      BY <1>13, <1>21, <3>1, <3>2
  <2>2. \A f \in Frames : frame'[f] = "free" => f \notin dirty'
    BY <1>1, <1>2, <1>13 DEF FrameUse
  <2>3. ASSUME NEW p \in Pages, NEW q \in Pages, p < q, Mapped(p)', Mapped(q)', pte'[p].frame = pte'[q].frame
        PROVE  HasCopyBelow(p, q)' /\ IsCopy(q)'
    <3>1. p \notin S /\ q \notin S /\ Mapped(p) /\ Mapped(q) /\ pte[p].frame = pte[q].frame
      BY <1>10, <1>11, <2>3
    <3>2. HasCopyBelow(p, q) /\ IsCopy(q)
      BY <1>2, <2>3, <3>1 DEF FrameUse
    <3>3. IsCopy(q)'
      BY <1>14, <3>1, <3>2 DEF IsCopy, Copy
    <3>4. PICK r \in alias : p \in Of(r) /\ Mapped(Twin(r, p)) /\ Twin(r, p) <= q
      BY <3>2 DEF HasCopyBelow
    <3>5. Twin(r, p) \in Pages /\ Twin(r, p) \in Copy(r) /\ pte[Twin(r, p)].frame = pte[p].frame
      BY <1>2, <1>4, <3>4, TwinPages DEF AliasStands
    <3>6. r \in alias'
      <4> SUFFICES ASSUME r \notin alias' PROVE FALSE
        OBVIOUS
      <4>1. Twin(r, p) \in S
        BY <1>14, <3>5
      <4>2. Twin(r, p) < q
        BY <3>1, <3>4, <3>5, <4>1, VmmAssumption DEF Pages
      <4>3. HasCopyBelow(Twin(r, p), q)
        BY <1>2, <3>1, <3>4, <3>5, <4>2 DEF FrameUse
      <4> QED
        BY <1>5, <4>1, <4>3 DEF HasCopyBelow, IsShared
    <3>7. Mapped(Twin(r, p))'
      BY <1>8, <1>10, <3>4, <3>5, <3>6
    <3> QED
      BY <3>3, <3>4, <3>6, <3>7 DEF HasCopyBelow, Of, Twin
  <2> QED
    BY <2>1, <2>2, <2>3 DEF FrameUse
<1>23. FramesInUse'
  <2> SUFFICES ASSUME ~contended, NEW f \in Frames, frame'[f] = "used" PROVE InUse(f)'
    BY <1>1 DEF FramesInUse
  <2>1. InUse(f)
    BY <1>13 DEF VmmIInv, MemoryIInv, FramesInUse
  <2>2. CASE \E p \in Pages : Mapped(p) /\ pte[p].frame = f
    <3>1. PICK p \in Pages : Mapped(p) /\ pte[p].frame = f
      BY <2>2
    <3>2. CASE p \notin S
      BY <1>10, <3>1, <3>2 DEF InUse
    <3>3. CASE p \in S
      <4>1. ~release
        BY <1>13, <3>1, <3>3
      <4>2. PICK r \in alias : Copy(r) = S
        BY <1>6, <4>1 DEF release
      <4>3. PICK o \in Of(r) : o \in Pages /\ Twin(r, o) = p /\ Mapped(o)
        BY <1>2, <1>4, <3>3, <4>2, TwinPages DEF AliasStands
      <4>4. pte[o].frame = f
        BY <1>4, <3>1, <4>3 DEF AliasStands
      <4> QED
        BY <1>9, <1>10, <4>3, <4>4 DEF InUse
    <3> QED
      BY <3>2, <3>3
  <2>3. CASE \E u \in Threads : u # t /\ HasFrames(u) /\ f \in Hand(u)
    BY <1>16, <2>3 DEF InUse
  <2> QED
    BY <1>3, <2>1, <2>2, <2>3 DEF InUse
<1>24. \A p \in Pages \ S : (Given(p)' <=> Given(p)) /\ (\A u \in Threads : Leaves(u, p)' <=> Leaves(u, p))
  BY <1>3, <1>15, <1>16 DEF Given, GivesBack, Leaves
<1>25. MappedAreCommitted'
  <2> SUFFICES ASSUME NEW p \in Pages, Mapped(p)' PROVE Committed(p, pte[p].rights)' \/ \E u \in Threads : Leaves(u, p)'
    BY DEF MappedAreCommitted
  <2>1. \A rights : CommittedIn(ReservationList', p, rights) <=> Committed(p, rights)
    BY <1>1 DEF Committed
  <2>2. p \notin S
    BY <1>11
  <2>3. CommittedIn(ReservationList', p, pte'[p].rights) \/ \E u \in Threads : Leaves(u, p)
    BY <1>10, <2>1, <2>2 DEF VmmIInv, MemoryIInv, MappedAreCommitted
  <2> QED
    BY <1>24, <2>2, <2>3 DEF Committed
<1>26. Contents'
  <2>1. \A p \in written : Mapped(p) /\ ~Given(p) /\ p \in Pages
    BY <1>2 DEF VmmIInv, MemoryIInv, VmmTyped, Contents
  <2>2. \A p \in S : Given(p)
    BY <1>3 DEF Given
  <2>3. \A p \in written' : Mapped(p)' /\ ~Given(p)'
    BY <1>1, <1>10, <1>24, <2>1, <2>2
  <2>4. ASSUME ~contended, NEW p \in Pages, Mapped(p)', ~Given(p)' PROVE pte'[p].frame \in dirty <=> p \in written
    BY <1>10, <1>11, <1>24, <2>4 DEF VmmIInv, MemoryIInv, Contents
  <2> QED
    BY <1>1, <2>3, <2>4 DEF Contents
<1> QED
  BY <1>15, <1>17, <1>18, <1>19, <1>20, <1>22, <1>23, <1>25, <1>26 DEF VmmIInv, MemoryIInv

----------------------------------------------------------------------------
\* All steps.

LEMMA VmmStarts == VmmInit => VmmIInv
<1> SUFFICES ASSUME VmmInit PROVE VmmIInv
  OBVIOUS
<1> USE DEF VmmInit
<1>1. \A t \in Threads : /\ at[t] = "idle" /\ call[t] = NoCall /\ call[t].op = "none" /\ Owns(t) = {}
                         /\ ~Entering(t) /\ ~Reserving(t) /\ ~HasFrames(t) /\ ~Building(t)
  <2> SUFFICES ASSUME NEW t \in Threads
               PROVE  /\ at[t] = "idle" /\ call[t] = NoCall /\ call[t].op = "none" /\ Owns(t) = {}
                      /\ ~Entering(t) /\ ~Reserving(t) /\ ~HasFrames(t) /\ ~Building(t)
    OBVIOUS
  <2>1. at[t] = "idle" /\ call[t] = NoCall /\ call[t].op = "none"
    BY NoCallFacts
  <2>2. ~Entering(t) /\ ~Reserving(t) /\ ~HasFrames(t) /\ ~Building(t)
    BY <2>1 DEF Entering, Reserving, HasFrames, Building, Allocs
  <2>3. Owns(t) = Span(t)
    BY <2>2, SpanOwned
  <2>4. Span(t) = {}
    BY <2>1 DEF Span, Run, NoCall
  <2> QED
    BY <2>1, <2>2, <2>3, <2>4
<1>2. \A p \in Pages : ~Mapped(p)
  BY DEF Mapped
<1>3. VmmTyped
  <2>1. \A t \in Threads : call[t] \in CallRecords /\ at[t] \in Labels
    BY <1>1, NoCallFacts DEF Labels
  <2>2. ReservationList \in Seq(Entries) /\ FreeVirtualAddressPointer \in StartPage .. EndPage + 1
    BY VmmAssumption
  <2> QED
    BY <2>1, <2>2 DEF VmmTyped
<1>4. Regions
  BY DEF Regions, WellFormed
<1>5. Stages
  <2> SUFFICES ASSUME NEW t \in Threads PROVE Stage(t)
    BY DEF Stages
  <2>1. ReservationLock # t
    BY VmmAssumption
  <2> QED
    BY <1>1, <2>1 DEF Stage, FaultLabels, Allocs
<1>6. Places /\ Apart /\ Marks
  BY <1>1 DEF Places, Placed, Apart, Marks, FaultLabels
<1>7. Workers
  <2> SUFFICES ASSUME NEW t \in Threads PROVE Works(t)
    BY DEF Workers
  <2> QED
    BY <1>1 DEF Works, HandIsReady, IsFilled, IsEmpty, IsPrivate, IsClean
<1>8. HandsApart /\ FaultsApart /\ Aliases
  BY <1>1 DEF HandsApart, FaultsApart, Aliases
<1>9. FrameUse /\ FramesInUse /\ MappedAreCommitted /\ Contents
  BY <1>2 DEF FrameUse, FramesInUse, MappedAreCommitted, Contents
<1> QED
  BY <1>3, <1>4, <1>5, <1>6, <1>7, <1>8, <1>9 DEF VmmIInv, ControlIInv, MemoryIInv

LEMMA VmmSteps ==
    ASSUME CallsAreOrdinary, VmmIInv, [VmmNext]_vmmVars
    PROVE  VmmIInv'
<1>1. CASE UNCHANGED vmmVars
  BY <1>1, NothingChanges DEF vmmVars, invVars, listVars
<1>2. ASSUME NEW f \in Frames, ZeroFrame(f) PROVE VmmIInv'
  BY <1>2, ZeroFrameKeeps
<1>3. ASSUME NEW t \in Threads, AllocRegion(t) \/ AllocStack(t) \/ GetSystemVirtualAddress(t) PROVE VmmIInv'
  BY <1>3, AllocRegionKeeps, AllocStackKeeps, GetSystemVirtualAddressKeeps
<1>4. ASSUME NEW t \in Threads, NEW c \in Cpus, Enter(t, c) PROVE VmmIInv'
  BY <1>4, EnterKeeps
<1>5. ASSUME NEW t \in Threads, MetadataFault(t) \/ FaultReadFails(t) PROVE VmmIInv'
  BY <1>5, HaltKeeps
<1>6. ASSUME NEW t \in Threads, ChangeReservations(t) PROVE VmmIInv'
  BY <1>6, ChangeReservationsKeeps
<1>7. ASSUME NEW t \in Threads, ReserveFrames(t) \/ MapRegion(t) \/ ReadRegion(t) \/ ReadRegionFails(t) PROVE VmmIInv'
  BY <1>7, ReserveFramesKeeps, MapRegionKeeps, ReadRegionKeeps, ReadRegionFailsKeeps
<1>8. ASSUME NEW t \in Threads, FreeRegion(t) PROVE VmmIInv'
  <2>1. PICK i \in DOMAIN ReservationList : \E p \in Extent(ReservationList[i]) :
           /\ Idle(t) /\ CanGiveUp(ReservationList[i]) /\ StartFree(t, "release", p, 1)
           /\ written' = written \ Extent(ReservationList[i])
    BY <1>8 DEF FreeRegion
  <2>2. PICK p \in Extent(ReservationList[i]) :
           /\ Idle(t) /\ CanGiveUp(ReservationList[i]) /\ StartFree(t, "release", p, 1)
           /\ written' = written \ Extent(ReservationList[i])
    BY <2>1
  <2>3. written' = written \ (IF "release" = "release" THEN Extent(ReservationList[i]) ELSE {p})
    BY <2>2
  <2>4. "release" \in {"release", "decommit"} /\ "release" # "decommit"
    OBVIOUS
  <2> QED
    BY <2>2, <2>3, <2>4, GiveUpKeeps
<1>9. ASSUME NEW t \in Threads, DecommitRegion(t) PROVE VmmIInv'
  <2>1. PICK i \in DOMAIN ReservationList : \E p \in Extent(ReservationList[i]) :
           /\ Idle(t) /\ CanGiveUp(ReservationList[i]) /\ \A r \in alias : r.base \notin Extent(ReservationList[i])
           /\ StartFree(t, "decommit", p, 1) /\ written' = written \ {p}
    BY <1>9 DEF DecommitRegion
  <2>2. PICK p \in Extent(ReservationList[i]) :
           /\ Idle(t) /\ CanGiveUp(ReservationList[i]) /\ \A r \in alias : r.base \notin Extent(ReservationList[i])
           /\ StartFree(t, "decommit", p, 1) /\ written' = written \ {p}
    BY <2>1
  <2>3. written' = written \ (IF "decommit" = "release" THEN Extent(ReservationList[i]) ELSE {p})
    BY <2>2
  <2> QED
    BY <2>2, <2>3, GiveUpKeeps
<1>10. ASSUME NEW t \in Threads, RemoveReservation(t) \/ UninitializeReservation(t) \/ Decommit(t) \/ UnmapRegion(t) PROVE VmmIInv'
  BY <1>10, RemoveKeeps, UninitializeKeeps, DecommitKeeps, UnmapRegionKeeps
<1>11. ASSUME NEW t \in Threads, NEW p \in Pages, WritePage(t, p) \/ PageFault(t, p) PROVE VmmIInv'
  BY <1>11, WritePageKeeps, PageFaultKeeps
<1>12. ASSUME NEW t \in Threads, FaultFrame(t) \/ FaultMap(t) \/ FaultFill(t) PROVE VmmIInv'
  BY <1>12, FaultFrameKeeps, FaultMapKeeps, FaultFillKeeps
<1> QED
  BY <1>1, <1>2, <1>3, <1>4, <1>5, <1>6, <1>7, <1>8, <1>9, <1>10, <1>11, <1>12 DEF VmmNext

----------------------------------------------------------------------------
\* What the invariant says of the system.

\* Pages in bytes keep their order.
LEMMA BytesOfPages ==
    ASSUME NEW P \in Nat \ {0}, NEW a \in Nat, NEW b \in Nat
    PROVE  /\ a * P \in Nat /\ b * P \in Nat
           /\ a * P <= b * P <=> a <= b
           /\ a * P < b * P <=> a < b
<1>1. a * P \in Nat /\ b * P \in Nat
  OBVIOUS
<1>2. ASSUME a < b PROVE a * P < b * P
  <2>1. P * (b - a - 1) >= 0 /\ P * (b - a - 1) = b * P - a * P - P
    BY <1>2
  <2> QED
    BY <1>1, <2>1
<1>3. ASSUME b < a PROVE b * P < a * P
  <2>1. P * (a - b - 1) >= 0 /\ P * (a - b - 1) = a * P - b * P - P
    BY <1>3
  <2> QED
    BY <1>1, <2>1
<1> QED
  BY <1>1, <1>2, <1>3

\* A buffer of one page, or of a page and a byte, that starts at a page.
LEMMA BufferPages ==
    ASSUME NEW p \in Nat, NEW size \in {PAGE_SIZE, PAGE_SIZE + 1}
    PROVE  LET n == PageCount(p * PAGE_SIZE, size) IN
           /\ n = IF size = PAGE_SIZE THEN 1 ELSE 2
           /\ {FirstPage(p * PAGE_SIZE + k * PAGE_SIZE) : k \in 0 .. (size - 1) \div PAGE_SIZE} = Run(p, n)
           /\ \A first, top \in Nat : first * PAGE_SIZE <= p * PAGE_SIZE /\ p * PAGE_SIZE + size <= top * PAGE_SIZE
                                     <=> first <= p /\ p + n <= top
<1>1. PICK P \in Nat \ {0} : P = PAGE_SIZE
  BY VmmAssumption
<1>2. PICK n \in {1, 2} : n = IF size = P THEN 1 ELSE 2
  OBVIOUS
<1>3. p * P \in Nat /\ p * P = P * p + 0 /\ 0 \in 0 .. P - 1 /\ P - 1 \in 0 .. P - 1 /\ P # P + 1
  OBVIOUS
<1>4. (p * P) % P = 0
  BY <1>3, Quotient
<1>5. PageCount(p * P, size) = n
  <2>1. CASE size = P
    <3>1. 0 + P + P - 1 \in Nat /\ 0 + P + P - 1 = P * 1 + (P - 1)
      OBVIOUS
    <3>2. (0 + P + P - 1) \div P = 1
      BY <1>3, <3>1, Quotient
    <3> QED
      BY <1>1, <1>2, <1>4, <2>1, <3>2 DEF PageCount
  <2>2. CASE size = P + 1
    <3>1. 0 + (P + 1) + P - 1 \in Nat /\ 0 + (P + 1) + P - 1 = P * 2 + 0
      OBVIOUS
    <3>2. (0 + (P + 1) + P - 1) \div P = 2
      BY <1>3, <3>1, Quotient
    <3> QED
      BY <1>1, <1>2, <1>3, <1>4, <2>2, <3>2 DEF PageCount
  <2> QED
    BY <1>1, <2>1, <2>2
<1>6. (size - 1) \div P = n - 1
  <2>1. CASE size = P
    <3>1. P - 1 \in Nat /\ P - 1 = P * 0 + (P - 1)
      OBVIOUS
    <3>2. (P - 1) \div P = 0
      BY <1>3, <3>1, Quotient
    <3> QED
      BY <1>2, <2>1, <3>2
  <2>2. CASE size = P + 1
    <3>1. P + 1 - 1 \in Nat /\ P + 1 - 1 = P * 1 + 0
      OBVIOUS
    <3>2. (P + 1 - 1) \div P = 1
      BY <1>3, <3>1, Quotient
    <3> QED
      BY <1>2, <1>3, <2>2, <3>2
  <2> QED
    BY <1>1, <2>1, <2>2
<1>7. ASSUME NEW k \in Nat PROVE FirstPage(p * P + k * P) = p + k
  <2>1. k * P \in Nat /\ p * P + k * P \in Nat /\ p * P + k * P = P * (p + k) + 0 /\ p + k \in Nat
    BY <1>3
  <2>2. (p * P + k * P) \div P = p + k
    BY <1>3, <2>1, Quotient
  <2> QED
    BY <1>1, <2>2 DEF FirstPage
<1>8. {FirstPage(p * P + k * P) : k \in 0 .. (size - 1) \div P} = Run(p, n)
  <2>1. {FirstPage(p * P + k * P) : k \in 0 .. n - 1} = {p + k : k \in 0 .. n - 1}
    <3>1. \A k \in 0 .. n - 1 : FirstPage(p * P + k * P) = p + k
      <4>1. \A k \in 0 .. n - 1 : k \in Nat
        BY <1>2
      <4> QED
        BY <1>7, <4>1
    <3> QED
      BY <3>1, Zenon
  <2>2. {p + k : k \in 0 .. n - 1} = Run(p, n)
    <3>1. \A q \in Run(p, n) : q - p \in 0 .. n - 1 /\ q = p + (q - p)
      BY <1>2 DEF Run
    <3>2. \A k \in 0 .. n - 1 : p + k \in Run(p, n)
      BY <1>2 DEF Run
    <3> QED
      BY <3>1, <3>2
  <2> QED
    BY <1>6, <2>1, <2>2
<1>9. ASSUME NEW first \in Nat, NEW top \in Nat
      PROVE  first * P <= p * P /\ p * P + size <= top * P <=> first <= p /\ p + n <= top
  <2>1. first * P <= p * P <=> first <= p
    BY BytesOfPages
  <2>2. p * P + size <= top * P <=> p + n <= top
    <3>1. (p + 1) * P = p * P + P /\ (p + 1) * P \in Nat /\ top * P \in Nat
      BY <1>3
    <3>2. /\ (p + 1) * P <= top * P <=> p + 1 <= top
          /\ (p + 1) * P < top * P <=> p + 1 < top
      BY BytesOfPages
    <3>3. CASE size = P
      BY <1>2, <1>3, <3>1, <3>2, <3>3
    <3>4. CASE size = P + 1
      BY <1>2, <1>3, <3>1, <3>2, <3>4
    <3> QED
      BY <1>1, <3>3, <3>4
  <2> QED
    BY <2>1, <2>2
<1> QED
  BY <1>1, <1>2, <1>5, <1>8, <1>9

LEMMA BufferCheckHolds ==
    ASSUME VmmTyped, Regions
    PROVE  BufferCheckExact
<1> SUFFICES ASSUME NEW p \in Pages, NEW size \in {PAGE_SIZE, PAGE_SIZE + 1}
             PROVE  LET n == PageCount(p * PAGE_SIZE, size) IN
                    IsBufferValid(p * PAGE_SIZE, size, {"W"})
                       <=> /\ FindReservation(ReservationList, p, n) # 0
                           /\ \A q \in Run(p, n) : CanAddressBeAccessed(q, {"W"})
  BY DEF BufferCheckExact
<1>1. p \in Nat
  BY VmmAssumption DEF Pages
<1>2. PICK n : n = PageCount(p * PAGE_SIZE, size)
  OBVIOUS
<1>3. /\ n \in {1, 2}
      /\ {FirstPage(p * PAGE_SIZE + k * PAGE_SIZE) : k \in 0 .. (size - 1) \div PAGE_SIZE} = Run(p, n)
      /\ \A first, top \in Nat : first * PAGE_SIZE <= p * PAGE_SIZE /\ p * PAGE_SIZE + size <= top * PAGE_SIZE
                                     <=> first <= p /\ p + n <= top
  BY <1>1, <1>2, BufferPages
<1>4. p \in Run(p, n) /\ Run(p, n) \subseteq Nat
  BY <1>1, <1>3 DEF Run
<1> DEFINE list == ReservationList
           found == {i \in DOMAIN list : IsUsed(list[i]) /\ Run(p, n) \subseteq Extent(list[i])}
           inBytes == {i \in DOMAIN list : /\ IsUsed(list[i])
                                           /\ list[i].start * PAGE_SIZE <= p * PAGE_SIZE
                                           /\ p * PAGE_SIZE + size <= (list[i].start + list[i].pages) * PAGE_SIZE}
<1>5. inBytes = found
  <2> SUFFICES ASSUME NEW i \in DOMAIN list
               PROVE  (/\ list[i].start * PAGE_SIZE <= p * PAGE_SIZE
                       /\ p * PAGE_SIZE + size <= (list[i].start + list[i].pages) * PAGE_SIZE)
                      <=> Run(p, n) \subseteq Extent(list[i])
    BY Zenon
  <2>1. list[i] \in Entries
    BY DEF VmmTyped
  <2>2. PICK first \in Nat, m \in Nat : first = list[i].start /\ m = list[i].pages
    BY <2>1 DEF Entries
  <2>3. first + m \in Nat
    OBVIOUS
  <2>4. Run(p, n) \subseteq Extent(list[i]) <=> first <= p /\ p + n <= first + m
    <3>1. Extent(list[i]) = first .. first + m - 1
      BY <2>2 DEF Extent, Run
    <3>2. CASE n = 1
      BY <1>1, <3>1, <3>2 DEF Run
    <3>3. CASE n = 2
      <4>1. Run(p, n) = {p, p + 1}
        BY <1>1, <3>3 DEF Run
      <4>2. Run(p, n) \subseteq Extent(list[i]) <=> p \in first .. first + m - 1 /\ p + 1 \in first .. first + m - 1
        BY <3>1, <4>1
      <4> QED
        BY <1>1, <3>3, <4>2
    <3> QED
      BY <1>3, <3>2, <3>3
  <2> QED
    BY <1>3, <2>2, <2>3, <2>4
<1>6. IsBufferValid(p * PAGE_SIZE, size, {"W"}) <=>
         /\ found # {} /\ Run(p, n) \subseteq list[Min(found)].commit /\ {"W"} \subseteq list[Min(found)].rights
  BY <1>3, <1>5 DEF IsBufferValid
<1>7. FindReservation(list, p, n) = IF found = {} THEN 0 ELSE Min(found)
  BY DEF FindReservation
<1>8. CASE found = {}
  BY <1>2, <1>6, <1>7, <1>8
<1>9. CASE found # {}
  <2>1. PICK i : i = Min(found)
    OBVIOUS
  <2>2. i \in found /\ i # 0
    <3>1. found \subseteq Nat /\ 0 \notin found
      BY DEF VmmTyped
    <3> HIDE DEF found
    <3> QED
      BY <1>9, <2>1, <3>1, MinIsLeast
  <2>3. i \in DOMAIN list /\ Run(p, n) \subseteq Extent(list[i])
    BY <2>2
  <2>4. ASSUME NEW q \in Run(p, n)
        PROVE  CanAddressBeAccessed(q, {"W"}) <=> q \in list[i].commit /\ {"W"} \subseteq list[i].rights
    <3>1. q \in Nat /\ q \in Extent(list[i])
      BY <1>4, <2>3, <2>4
    <3>2. PICK j : j = FindReservation(list, q, 1)
      OBVIOUS
    <3>3. SameRegionIn(list, q, q)
      BY <2>3, <3>1 DEF SameRegionIn
    <3>4. j # 0 /\ j \in DOMAIN list /\ q \in Extent(list[j])
      BY <3>1, <3>2, <3>3, FindOne DEF VmmTyped, Regions
    <3>5. j = i
      BY <2>3, <3>1, <3>4 DEF Regions, WellFormed
    <3> QED
      BY <3>2, <3>4, <3>5 DEF CanAddressBeAccessed
  <2> HIDE DEF found
  <2> QED
    BY <1>2, <1>4, <1>6, <1>7, <1>9, <2>1, <2>2, <2>4
<1> QED
  BY <1>8, <1>9

LEMMA VmmIInvSuffices == VmmIInv => VmmInv
<1> SUFFICES ASSUME VmmIInv PROVE VmmInv
  OBVIOUS
<1>0. ControlIInv /\ VmmTyped /\ Regions /\ Marks /\ FrameUse /\ FramesInUse /\ MappedAreCommitted /\ Contents
  BY DEF VmmIInv, ControlIInv, MemoryIInv
<1>1. VmmTypeOK
  <2>1. ASSUME NEW i \in DOMAIN ReservationList, ReservationList[i] # FreeEntry
        PROVE  Extent(ReservationList[i]) \subseteq Pages /\ ReservationList[i].commit \subseteq Extent(ReservationList[i])
    <3>1. ReservationList[i].commit \subseteq Extent(ReservationList[i])
      BY <1>0, <2>1 DEF Regions, WellFormed, IsUsed
    <3>2. \A p \in Extent(ReservationList[i]) : SameRegion(p, p)
      BY DEF SameRegion, SameRegionIn
    <3> QED
      BY <1>0, <3>1, <3>2, RegionsAreBelow
  <2>2. \A p \in Pages : pte[p] = None \/ pte[p].frame \in Frames
    BY <1>0 DEF VmmTyped, PageTableEntries
  <2> QED
    BY <1>0, <2>1, <2>2 DEF VmmTypeOK, VmmTyped
<1>2. Disjoint
  BY <1>0 DEF Disjoint, Regions, WellFormed
<1>3. MappedIsCommitted
  <2> SUFFICES ASSUME NEW p \in Pages, Mapped(p)
               PROVE  \/ \E i \in DOMAIN ReservationList : p \in ReservationList[i].commit /\ pte[p].rights = ReservationList[i].rights
                      \/ \E t \in Threads : at[t] \in {"uninit", "unmap"} /\ p \in Uses(t)
    BY DEF MappedIsCommitted, Mapped
  <2>1. CASE Committed(p, pte[p].rights)
    BY <2>1 DEF Committed, CommittedIn
  <2>2. CASE \E t \in Threads : Leaves(t, p)
    BY <1>0, <2>2, OwnsAreUsed DEF Leaves
  <2> QED
    BY <1>0, <2>1, <2>2 DEF MappedAreCommitted
<1>4. FramesAreOwned
  <2>1. \A p \in Pages : Mapped(p) => frame[pte[p].frame] = "used"
    BY <1>0 DEF FrameUse
  <2>2. ASSUME NEW p \in Pages, NEW q \in Pages, p # q, Mapped(p), Mapped(q), pte[p].frame = pte[q].frame
        PROVE  {p, q} \cap Shared # {}
    <3>1. p < q \/ q < p
      BY <2>2, VmmAssumption DEF Pages
    <3>2. HasCopyBelow(p, q) \/ HasCopyBelow(q, p)
      BY <1>0, <2>2, <3>1 DEF FrameUse
    <3>3. p \in Shared \/ q \in Shared
      BY <3>2 DEF HasCopyBelow, Shared, Of
    <3> QED
      BY <3>3
  <2> QED
    BY <2>1, <2>2 DEF FramesAreOwned, Mapped
<1>5. BufferCheckExact
  BY <1>0, BufferCheckHolds
<1>6. SectionIsMarked
  BY <1>0 DEF SectionIsMarked, Marks
<1>7. NoFrameLost
  <2> SUFFICES ASSUME ~contended, NEW f \in Frames, frame[f] = "used"
               PROVE  \/ \E p \in Pages : pte[p] # None /\ pte[p].frame = f
                      \/ \E t \in Threads : at[t] \in {"map", "pf_map"} /\ f \in Run(call[t].pa, call[t].pages)
    BY DEF NoFrameLost
  <2>1. InUse(f)
    BY <1>0 DEF FramesInUse
  <2> QED
    BY <2>1 DEF InUse, Mapped, HasFrames, Hand
<1>8. ContentsKept
  <2> SUFFICES ASSUME ~contended, NEW p \in Pages, \A t \in Threads : p \notin Uses(t)
               PROVE  /\ p \in written => Mapped(p)
                      /\ Mapped(p) => (pte[p].frame \in dirty <=> p \in written)
    BY DEF ContentsKept, Mapped
  <2>1. ~Given(p)
    BY <1>0, OwnsAreUsed DEF Given
  <2> QED
    BY <1>0, <2>1 DEF Contents
<1> QED
  BY <1>1, <1>2, <1>3, <1>4, <1>5, <1>6, <1>7, <1>8 DEF VmmInv

\* Under any interleaving of the callers of VmmAllocRegionEx, VmmFreeRegionEx and
\* MmuGetSystemVirtualAddressForUserBuffer, of page faults and of the zero worker, reservations are
\* disjoint, what is mapped is committed in one of them or about to be unmapped, a frame is behind
\* two pages only over an MDL, VmmIsBufferValid is exact, and, unless a page was used while another
\* CPU solved a fault on it, no frame is lost and callers find what they wrote.
THEOREM VirtualMemoryIsCorrect ==
    ASSUME CallsAreOrdinary
    PROVE  VmmSpec => []VmmInv
<1>1. VmmInit => VmmIInv
  BY VmmStarts
<1>2. VmmIInv /\ [VmmNext]_vmmVars => VmmIInv'
  BY VmmSteps
<1>3. VmmIInv => VmmInv
  BY VmmIInvSuffices
<1> QED
  BY <1>1, <1>2, <1>3, PTL DEF VmmSpec
=============================================================================
