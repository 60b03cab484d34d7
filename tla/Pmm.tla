-------------------------------- MODULE Pmm ---------------------------------
(***************************************************************************)
(* The physical memory manager (pmm.c): one bit per frame of physical      *)
(* memory, set while the frame is reserved.  Every operation holds         *)
(* AllocationLock for its whole effect and is one action; PmmInitSystem    *)
(* runs before there is a second thread.  Addresses are integers, a frame  *)
(* is PAGE_SIZE of them.                                                   *)
(***************************************************************************)
EXTENDS Bitmap, Sequences, FiniteSets

CONSTANTS
    PAGE_SIZE, MB_SIZE,
    MemoryMaps,         \* the INT15 memory maps the loader may pass
    MinAddresses,       \* the MinPhysAddr arguments
    MaxFrames           \* bound on NoOfFrames

ASSUME PmmAssumption ==
    /\ PAGE_SIZE \in Nat \ {0}
    /\ MB_SIZE \in Nat \ {0}
    /\ MemoryMaps \subseteq Seq([BaseAddress : Nat, Length : Nat, Type : STRING, Valid : BOOLEAN])
    /\ MinAddresses \subseteq Nat
    /\ MaxFrames \in Nat

VARIABLES
    MemoryEntries,      \* the memory map of this boot
    AllocationBitmap,   \* PMM_DATA.AllocationBitmap; <<>> before PmmInitSystem
    Highest,            \* PMM_DATA: HighestPhysicalAddressPresent and -Available, PhysicalMemorySize
    held,               \* the frames callers have reserved and not released
    asserted,           \* an ASSERT of the bitmap has failed: the system is halted
    result              \* what the last PmmReserveMemoryEx returned, with its arguments

pmmVars == <<MemoryEntries, AllocationBitmap, Highest, held, asserted, result>>

NoCall == [frames |-> 0, min |-> 0, address |-> 0]

Booted == AllocationBitmap # <<>>

AlignAddressUpper(a) == ((a + PAGE_SIZE - 1) \div PAGE_SIZE) * PAGE_SIZE

\* The entries the manager gives out: valid, usable RAM and not under 1MB.
IsGivenOut(e) == e.Valid /\ e.Type = "UsableRAM" /\ e.BaseAddress >= MB_SIZE

\* _PmmDetermineMemoryLimits: an invalid entry counts for the highest address only.
MaxOf(S) == CHOOSE m \in S : \A n \in S : n <= m

Limits(map) ==
    LET end(i) == map[i].BaseAddress + map[i].Length
        usable == {i \in DOMAIN map : map[i].Valid /\ map[i].Type = "UsableRAM"}
        size[i \in 0 .. Len(map)] ==
            IF i = 0 THEN 0 ELSE size[i - 1] + (IF i \in usable THEN map[i].Length ELSE 0)
    IN [present |-> MaxOf({0} \cup {end(i) : i \in DOMAIN map}),
        available |-> MaxOf({0} \cup {end(i) : i \in usable}),
        size |-> size[Len(map)]]

\* The frames PmmReleaseMemory is called for when entry e is processed.
ReleasedRun(e) ==
    [index |-> AlignAddressUpper(e.BaseAddress) \div PAGE_SIZE, count |-> e.Length \div PAGE_SIZE]

\* _PmmInitializeAllocationBitmap: reserve everything, then release the usable RAM.
InitialBitmap(map) ==
    LET frames == Limits(map).present \div PAGE_SIZE
        empty == BitmapInit(frames, FALSE)
        b[i \in 0 .. Len(map)] ==
            IF i = 0 THEN Flip(empty, ScanFromTo(empty, 0, frames, frames, FALSE), frames, FALSE)
            ELSE IF IsGivenOut(map[i])
            THEN ChangeBits(b[i - 1], ReleasedRun(map[i]).index, FALSE, ReleasedRun(map[i]).count)
            ELSE b[i - 1]
    IN b[Len(map)]

\* A memory map whose usable entries are aligned and not smaller than a frame, with
\* fewer frames than a DWORD has values.
IsAlignedMap(map) ==
    /\ Limits(map).present \div PAGE_SIZE \in 1 .. MAX_DWORD - 1
    /\ \A i \in DOMAIN map : IsGivenOut(map[i]) =>
          map[i].BaseAddress % PAGE_SIZE = 0 /\ map[i].Length >= PAGE_SIZE

MapsAreAligned == \A map \in MemoryMaps : Len(map) # 0 => IsAlignedMap(map)

\* PmmPreinitSystem
PmmPreinitSystem ==
    /\ MemoryEntries \in MemoryMaps
    /\ AllocationBitmap = <<>>
    /\ Highest = [present |-> 0, available |-> 0, size |-> 0]
    /\ held = {}
    /\ asserted = FALSE
    /\ result = NoCall

PmmInitSystem ==
    /\ ~Booted /\ Len(MemoryEntries) # 0
    /\ Highest' = Limits(MemoryEntries)
    /\ AllocationBitmap' = InitialBitmap(MemoryEntries)
    /\ asserted' = (\E i \in DOMAIN MemoryEntries :
           /\ IsGivenOut(MemoryEntries[i])
           /\ ~CanSetBits(AllocationBitmap', ReleasedRun(MemoryEntries[i]).index,
                          ReleasedRun(MemoryEntries[i]).count))
    /\ UNCHANGED <<MemoryEntries, held, result>>

\* The return value of PmmReserveMemoryEx as a frame index, MAX_DWORD for NULL.
ReserveIndex(NoOfFrames, MinPhysAddr) ==
    IF \/ NoOfFrames = 0
       \/ MinPhysAddr % PAGE_SIZE # 0
       \/ MinPhysAddr \div PAGE_SIZE > MAX_DWORD
    THEN MAX_DWORD
    ELSE ScanFromTo(AllocationBitmap, MinPhysAddr \div PAGE_SIZE, BitCount(AllocationBitmap), NoOfFrames, FALSE)

PmmReserveMemoryEx(NoOfFrames, MinPhysAddr) ==
    /\ Booted /\ ~asserted
    /\ LET idx == ReserveIndex(NoOfFrames, MinPhysAddr)
       IN /\ AllocationBitmap' = Flip(AllocationBitmap, idx, NoOfFrames, FALSE)
          /\ held' = held \cup (IF idx = MAX_DWORD THEN {} ELSE idx .. idx + NoOfFrames - 1)
          /\ result' = [frames |-> NoOfFrames, min |-> MinPhysAddr,
                        address |-> IF idx = MAX_DWORD THEN 0 ELSE idx * PAGE_SIZE]
    /\ UNCHANGED <<MemoryEntries, Highest, asserted>>

\* A caller releases a run of frames it holds, not always as it was reserved.
PmmReleaseMemory(index, NoOfFrames) ==
    /\ Booted /\ ~asserted
    /\ NoOfFrames > 0 /\ index .. index + NoOfFrames - 1 \subseteq held
    /\ AllocationBitmap' = ChangeBits(AllocationBitmap, index, FALSE, NoOfFrames)
    /\ asserted' = ~CanSetBits(AllocationBitmap, index, NoOfFrames)
    /\ held' = held \ (index .. index + NoOfFrames - 1)
    /\ result' = NoCall
    /\ UNCHANGED <<MemoryEntries, Highest>>

PmmNext ==
    \/ PmmInitSystem
    \/ \E n \in 0 .. MaxFrames, a \in MinAddresses : PmmReserveMemoryEx(n, a)
    \/ \E i \in held, n \in 1 .. MaxFrames : PmmReleaseMemory(i, n)

PmmSpec == PmmPreinitSystem /\ [][PmmNext]_pmmVars

----------------------------------------------------------------------------
\* Properties

PmmTypeOK ==
    /\ MemoryEntries \in MemoryMaps
    /\ Booted => IsBitmap(AllocationBitmap)
    /\ held \subseteq DOMAIN AllocationBitmap
    /\ asserted \in BOOLEAN
    /\ result.frames \in 0 .. MaxFrames /\ result.min \in MinAddresses \cup {0} /\ result.address \in Nat

\* The frames that lie in usable RAM from their first byte to their last.
UsableFrames ==
    {f \in DOMAIN AllocationBitmap : \E i \in DOMAIN MemoryEntries :
        LET e == MemoryEntries[i]
        IN /\ e.Valid /\ e.Type = "UsableRAM" /\ MB_SIZE <= e.BaseAddress
           /\ e.BaseAddress <= f * PAGE_SIZE
           /\ (f + 1) * PAGE_SIZE <= e.BaseAddress + e.Length}

\* The bitmap tells the truth after any sequence of reservations and releases: a
\* frame is free exactly when it is usable RAM that nobody holds.
BitmapExact == Booted =>
    \A f \in DOMAIN AllocationBitmap : AllocationBitmap[f] <=> (f \notin UsableFrames \/ f \in held)

\* "in-existent and reserved system memory will never be used"
UnusableStaysReserved == held \subseteq UsableFrames

\* PmmReserveMemoryEx "Reserves the first free frames available after MinPhysAddr":
\* the lowest aligned run, nothing another caller holds, never frame 0 (whose
\* address would read as NULL), and NULL only if there is no such run.
FirstFit == [][
    result' # NoCall /\ Booted =>
        LET r == result'
            idx == IF r.address = 0 THEN MAX_DWORD ELSE r.address \div PAGE_SIZE
        IN /\ r.min % PAGE_SIZE = 0 =>
                 IsFirstRun(idx, AllocationBitmap, r.min \div PAGE_SIZE, BitCount(AllocationBitmap), r.frames, FALSE)
           /\ r.min % PAGE_SIZE # 0 => r.address = 0
           /\ r.address # 0 => (idx .. idx + r.frames - 1) \cap held = {}
    ]_pmmVars

\* No ASSERT of BitmapSetBitsValue fails, at boot or later.
BitmapAssertsHold == ~asserted

\* The physical memory manager as a whole: after PmmInitSystem and any sequence of
\* PmmReserveMemoryEx and PmmReleaseMemory the bitmap describes the frames.
PmmInv == PmmTypeOK /\ BitmapExact /\ UnusableStaysReserved /\ BitmapAssertsHold

=============================================================================
