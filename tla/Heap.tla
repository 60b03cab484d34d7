-------------------------------- MODULE Heap --------------------------------
(***************************************************************************)
(* The kernel heap (CommonLib/src/cl_heap.c): a list of allocations in the *)
(* order of their addresses, each between a HEAP_ENTRY and a HEAP_TAIL.    *)
(* HeapLock of mmu.c makes every call one step.                            *)
(*                                                                         *)
(* Addresses count from BaseAddress.  An assertion that fails stops the    *)
(* kernel.  ClHeapFreePoolWithTag leaves EntryToRestartSearch alone; a     *)
(* search that starts at an entry that was freed follows a pointer into    *)
(* the free pattern or into other data, and the model ends there.          *)
(***************************************************************************)
EXTENDS Integers, SequencesExt

CONSTANTS
    HeapSizeMaximum,
    HeaderSize,     \* sizeof(HEAP_HEADER)
    EntrySize,      \* sizeof(HEAP_ENTRY)
    TailSize,       \* sizeof(HEAP_TAIL)
    DefaultAlignment,
    PoolCalls       \* arguments of an allocation: [size, alignment, panic]

ASSUME HeapAssumption ==
    /\ {HeapSizeMaximum, HeaderSize, EntrySize, TailSize, DefaultAlignment} \subseteq Nat \ {0}
    /\ HeaderSize < HeapSizeMaximum
    /\ \A a \in PoolCalls : a.size \in Nat /\ a.alignment \in Nat /\ a.panic \in BOOLEAN

VARIABLES
    HeapAllocations,        \* the list: [data, size, alignment], alignment as the caller asked for
    FreeAddress,
    HeapSizeRemaining,
    HeapNumberOfAllocations,
    EntryToRestartSearch,   \* data address of the entry, 0 for the head of the list
    heapStatus              \* "running", "panic" or "undefined"

heapVars == <<HeapAllocations, FreeAddress, HeapSizeRemaining, HeapNumberOfAllocations,
              EntryToRestartSearch, heapStatus>>

\* Where the HEAP_ENTRY begins, and the address behind the HEAP_TAIL.
StartOf(e) == e.data - EntrySize
EndOf(e) == e.data + e.size + TailSize

BlockSize(size) == size + EntrySize + TailSize

\* AlignAddressUpper
AlignUpper(a, n) == ((a + n - 1) \div n) * n

ClHeapInit ==
    /\ HeapAllocations = <<>>
    /\ FreeAddress = HeaderSize
    /\ HeapSizeRemaining = HeapSizeMaximum - HeaderSize
    /\ HeapNumberOfAllocations = 0
    /\ EntryToRestartSearch = 0
    /\ heapStatus = "running"

----------------------------------------------------------------------------
\* _InitHeapEntry at address a: the aligned entry, and whether it fits.
NewEntry(a, call) ==
    LET alignment == IF call.alignment = 0 THEN DefaultAlignment ELSE call.alignment
    IN  [data |-> AlignUpper(a + EntrySize, alignment), size |-> call.size, alignment |-> alignment]

\* Mutant: the padding of the alignment is not counted.
FitsUnaligned(a, available, call) == BlockSize(call.size) <= available

InitHeapEntryFits(a, available, call) ==
    NewEntry(a, call).data - (a + EntrySize) + BlockSize(call.size) <= available

\* The search of ClHeapAllocatePoolWithTag goes around the circular list of the head
\* (position 0) and the n entries, from the entry behind EntryToRestartSearch.
Position(k, n) ==
    LET start == IF EntryToRestartSearch = 0 THEN 0
                 ELSE CHOOSE i \in 1 .. n : HeapAllocations[i].data = EntryToRestartSearch
    IN  (start + 1 + k) % (n + 1)

Skipped(k, n) == Position(k, n) = 0 \/ Position(k + 1, n) = 0

\* pPreviousHeapEntry in iteration k: pCurHeapEntry of the last iteration that was not
\* skipped, and NULL (0) if there is none.
PreviousHeapEntry(k, n) ==
    IF k = 0 THEN Position(0, n)
    ELSE LET done == {j \in 0 .. k - 1 : ~Skipped(j, n)}
         IN  IF done = {} THEN 0 ELSE Position(Max(done) + 1, n)

Gap(k, n) == StartOf(HeapAllocations[Position(k + 1, n)]) - EndOf(HeapAllocations[PreviousHeapEntry(k, n)])

FitsBetween(k, n, call) ==
    /\ Gap(k, n) >= BlockSize(call.size)
    /\ InitHeapEntryFits(EndOf(HeapAllocations[PreviousHeapEntry(k, n)]), Gap(k, n), call)

\* The iterations that end the search: the assertion on pPreviousHeapEntry, or a gap.
Decisive(n, call) ==
    {k \in 0 .. n - 2 : ~Skipped(k, n) /\ (PreviousHeapEntry(k, n) = 0 \/ FitsBetween(k, n, call))}

----------------------------------------------------------------------------
RemainingUntilEnd == HeapSizeMaximum - FreeAddress - EntrySize

Account(call) ==
    /\ HeapSizeRemaining' = HeapSizeRemaining - BlockSize(call.size)
    /\ HeapNumberOfAllocations' = HeapNumberOfAllocations + 1

FitsAtEnd(call) ==
    /\ BlockSize(call.size) <= RemainingUntilEnd
    /\ InitHeapEntryFits(FreeAddress, RemainingUntilEnd, call)

Possible(call) == call.size # 0 /\ BlockSize(call.size) <= HeapSizeRemaining

AllocateAtEnd(call) ==
    /\ Possible(call) /\ FitsAtEnd(call)
    /\ LET e == NewEntry(FreeAddress, call)
       IN  /\ HeapAllocations' = Append(HeapAllocations, e)
           /\ FreeAddress' = EndOf(e)
    /\ Account(call)
    /\ UNCHANGED <<EntryToRestartSearch, heapStatus>>

\* There may be room between two entries.
Searches(call) ==
    /\ Possible(call) /\ ~FitsAtEnd(call)
    /\ BlockSize(call.size) <= HeapSizeRemaining - RemainingUntilEnd - EntrySize

RestartIsListed ==
    EntryToRestartSearch = 0 \/ \E i \in DOMAIN HeapAllocations : HeapAllocations[i].data = EntryToRestartSearch

AllocateBetween(call) ==
    /\ Searches(call) /\ RestartIsListed
    /\ LET n == Len(HeapAllocations)
           k == Min(Decisive(n, call))
           p == PreviousHeapEntry(k, n)
           e == NewEntry(EndOf(HeapAllocations[p]), call)
       IN  /\ Decisive(n, call) # {} /\ p # 0
           /\ HeapAllocations' = InsertAt(HeapAllocations, Position(k, n) + 1, e)
           /\ EntryToRestartSearch' = e.data
    /\ Account(call)
    /\ UNCHANGED <<FreeAddress, heapStatus>>

\* NULL is returned, or the kernel stops (PoolAllocatePanicIfFail).
AllocationFails(call) ==
    /\ ~(Possible(call) /\ FitsAtEnd(call))
    /\ Searches(call) => RestartIsListed /\ Decisive(Len(HeapAllocations), call) = {}
    /\ heapStatus' = IF call.panic THEN "panic" ELSE heapStatus
    /\ UNCHANGED <<HeapAllocations, FreeAddress, HeapSizeRemaining, HeapNumberOfAllocations,
                   EntryToRestartSearch>>

\* ASSERT(NULL != pPreviousHeapEntry) fails, or the search starts at a freed entry.
SearchBreaks(call) ==
    /\ Searches(call)
    /\ heapStatus' = IF RestartIsListed THEN "panic" ELSE "undefined"
    /\ RestartIsListed =>
           LET n == Len(HeapAllocations)
           IN  Decisive(n, call) # {} /\ PreviousHeapEntry(Min(Decisive(n, call)), n) = 0
    /\ UNCHANGED <<HeapAllocations, FreeAddress, HeapSizeRemaining, HeapNumberOfAllocations,
                   EntryToRestartSearch>>

ClHeapAllocatePoolWithTag(call) ==
    /\ heapStatus = "running"
    /\ \/ AllocateAtEnd(call)
       \/ AllocateBetween(call)
       \/ AllocationFails(call)
       \/ SearchBreaks(call)

\* The end of the entry before i, or of the header.
PreviousAddress(i) == IF i = 1 THEN HeaderSize ELSE EndOf(HeapAllocations[i - 1])

ClHeapFreePoolWithTag(i) ==
    /\ heapStatus = "running"
    /\ HeapAllocations' = RemoveAt(HeapAllocations, i)
    /\ HeapSizeRemaining' = HeapSizeRemaining + BlockSize(HeapAllocations[i].size)
    /\ HeapNumberOfAllocations' = HeapNumberOfAllocations - 1
    /\ FreeAddress' = IF EndOf(HeapAllocations[i]) = FreeAddress THEN PreviousAddress(i) ELSE FreeAddress
    /\ UNCHANGED <<EntryToRestartSearch, heapStatus>>

HeapNext ==
    \/ \E call \in PoolCalls : ClHeapAllocatePoolWithTag(call)
    \/ \E i \in DOMAIN HeapAllocations : ClHeapFreePoolWithTag(i)

HeapSpec == ClHeapInit /\ [][HeapNext]_heapVars

----------------------------------------------------------------------------
\* Properties

HeapTypeOK ==
    /\ HeapAllocations \in Seq([data : Nat, size : Nat \ {0}, alignment : Nat \ {0}])
    /\ FreeAddress \in HeaderSize .. HeapSizeMaximum
    /\ HeapSizeRemaining \in Nat
    /\ HeapNumberOfAllocations \in Nat
    /\ EntryToRestartSearch \in Nat
    /\ heapStatus \in {"running", "panic", "undefined"}

\* The bytes of the allocations, with their entries and tails.
AllocatedBytes ==
    LET total[n \in 0 .. Len(HeapAllocations)] ==
            IF n = 0 THEN 0 ELSE total[n - 1] + BlockSize(HeapAllocations[n].size)
    IN  total[Len(HeapAllocations)]

\* "this list is always ordered by address" (cl_heap.h): whatever was freed and squeezed
\* in between, no two allocations overlap, with their entries and tails they lie between
\* the header and FreeAddress, FreeAddress is the end of the last one, the data are aligned
\* as asked, and the two counters are exact.
HeapInv ==
    /\ HeapTypeOK
    /\ LET n == Len(HeapAllocations)
       IN  /\ \A i \in 1 .. n : /\ PreviousAddress(i) <= StartOf(HeapAllocations[i])
                                /\ HeapAllocations[i].data % HeapAllocations[i].alignment = 0
           /\ FreeAddress = PreviousAddress(n + 1)
           /\ HeapNumberOfAllocations = n
           /\ HeapSizeRemaining = HeapSizeMaximum - HeaderSize - AllocatedBytes
=============================================================================
