-------------------------------- MODULE Vmm ---------------------------------
(***************************************************************************)
(* Virtual memory (vm_reservation_space.c, vmm.c, mdl.c and the mapping    *)
(* and stack functions of mmu.c): reservations with their commit bitmaps,  *)
(* the page table of the address space they describe, the frames behind    *)
(* it, and the page fault that brings the two together.                    *)
(*                                                                         *)
(* ReservationLock guards the list of reservations and is state, because   *)
(* the metadata it guards is itself paged: while a writer holds it the CPU *)
(* is marked with VmmMemoryAccess, or a page fault on the metadata is not  *)
(* solved.  The paging lock and the frame allocator's lock are each held   *)
(* for one step.  Addresses are bytes, pages are numbers; page 0 is NULL.  *)
(***************************************************************************)
EXTENDS Integers, Sequences, FiniteSets, FiniteSetsExt

CONSTANTS
    Threads, Cpus, None,
    PAGE_SIZE,
    StartPage,          \* StartOfVirtualAddressSpace
    EndPage,            \* the last page of the modelled window (a bound for TLC)
    NumberOfFrames,
    Calls,              \* the arguments of VmmAllocRegionEx (a bound for TLC)
    STACK_GUARD_PAGES,  \* STACK_GUARD_SIZE in pages
    MaxCalls            \* calls that allocate or free (a bound for TLC)

ASSUME VmmAssumption ==
    /\ PAGE_SIZE \in Nat \ {0}
    /\ StartPage \in Nat \ {0} /\ EndPage \in Nat /\ StartPage <= EndPage
    /\ NumberOfFrames \in Nat /\ STACK_GUARD_PAGES \in Nat /\ MaxCalls \in Nat
    /\ None \notin Threads \cup Cpus
    /\ None \notin [frame : 1 .. NumberOfFrames, rights : {{}, {"W"}} \cup {a.rights : a \in Calls}]

Pages == StartPage .. EndPage
Frames == 1 .. NumberOfFrames

VARIABLES
    ReservationList,            \* the entries in front of the one marked VmmReservationStateLast
    FreeVirtualAddressPointer,  \* as a page number
    ReservationLock,            \* its exclusive owner, or None
    VmmMemoryAccess,            \* PCPU.VmmMemoryAccess
    pte,                        \* pte[p]: the frame and the rights page p is mapped with, or None
    frame,                      \* "free", "used", or "queued" for the zero worker
    dirty,                      \* the frames that hold what a caller wrote
    at, call,                   \* where a thread is, with the arguments and locals of its call
    calls,                      \* the calls begun so far
    alias,                      \* the regions mapped over an MDL: their base, the pages they show
    written,                    \* the pages that show what a caller wrote and has not given back
    contended,                  \* a page was used while another CPU solved a fault on it
    preempted,                  \* a CPU was given a writer while a release was unfinished on it
    halted                      \* an unsolved page fault or a failed ASSERT has stopped the system

vmmVars == <<ReservationList, FreeVirtualAddressPointer, ReservationLock, VmmMemoryAccess, pte,
             frame, dirty, at, call, calls, alias, written, contended, preempted, halted>>
listVars == <<ReservationList, FreeVirtualAddressPointer, ReservationLock, VmmMemoryAccess>>
historyVars == <<calls, contended, preempted, halted>>

Run(first, n) == first .. first + n - 1

\* AlignAddressLower and AlignAddressUpper, as pages.
FirstPage(address) == address \div PAGE_SIZE
PageCount(address, size) == ((address % PAGE_SIZE) + size + PAGE_SIZE - 1) \div PAGE_SIZE

FreeEntry == [start |-> 0, pages |-> 0, rights |-> {}, file |-> FALSE, commit |-> {}]
NoCall == [op |-> "none", base |-> 0, pages |-> 0, reserve |-> FALSE, commit |-> FALSE,
           eager |-> FALSE, rights |-> {}, file |-> FALSE, mdl |-> <<>>, pa |-> 0, pcpu |-> None]

VmmInit ==
    /\ ReservationList = <<>>
    /\ FreeVirtualAddressPointer = StartPage
    /\ ReservationLock = None
    /\ VmmMemoryAccess = [c \in Cpus |-> FALSE]
    /\ pte = [p \in Pages |-> None]
    /\ frame = [f \in Frames |-> "free"]
    /\ dirty = {}
    /\ at = [t \in Threads |-> "idle"]
    /\ call = [t \in Threads |-> NoCall]
    /\ calls = 0
    /\ alias = {}
    /\ written = {}
    /\ contended = FALSE
    /\ preempted = FALSE
    /\ halted = FALSE

Goto(t, l) == at' = [at EXCEPT ![t] = l]
Return(t) == Goto(t, "idle") /\ call' = [call EXCEPT ![t] = NoCall]
Idle(t) == at[t] = "idle" /\ ~halted
At(t, l) == at[t] = l /\ ~halted

----------------------------------------------------------------------------
\* The list of reservations.

IsUsed(r) == r # FreeEntry
Extent(r) == Run(r.start, r.pages)

\* _VmFindReservation: the first used entry the range lies in (CHECK_BOUNDS), or 0.
FindReservation(list, base, n) ==
    LET found == {i \in DOMAIN list : IsUsed(list[i]) /\ Run(base, n) \subseteq Extent(list[i])}
    IN  IF found = {} THEN 0 ELSE Min(found)

\* _VmFindFirstFreeReservation: a freed entry, or the one marked as the last.
FirstFreeReservation(list) == Min({i \in DOMAIN list : ~IsUsed(list[i])} \cup {Len(list) + 1})

\* _VmInitializeReservation
InitializeReservation(list, a) ==
    LET r == [start |-> a.base, pages |-> a.pages, rights |-> a.rights, file |-> a.file, commit |-> {}]
        i == FirstFreeReservation(list)
    IN  [j \in 1 .. Max({Len(list), i}) |-> IF j = i THEN r ELSE list[j]]

\* _VmChangeVaReservationState: may the range be reserved, or committed?
CanReserve(list, a) == FindReservation(list, a.base, a.pages) = 0
CanCommit(list, a) ==
    LET i == FindReservation(list, a.base, a.pages)
    IN  i # 0 /\ list[i].rights = a.rights

\* _VmCommitReservation and _VmDecommitReservation
CommitReservation(list, a) ==
    [list EXCEPT ![FindReservation(list, a.base, a.pages)].commit = @ \cup Run(a.base, a.pages)]
DecommitReservation(list, a) ==
    [list EXCEPT ![FindReservation(list, a.base, 1)].commit = @ \ Run(a.base, a.pages)]

\* VmReservationCanAddressBeAccessed outside the metadata.
CanAddressBeAccessed(p, requested) ==
    LET i == FindReservation(ReservationList, p, 1)
    IN  i # 0 /\ p \in ReservationList[i].commit /\ requested \subseteq ReservationList[i].rights

\* VmmIsBufferValid over VmReservationReturnRightsForAddress, which looks at one
\* address for every PAGE_SIZE bytes of the size.
IsBufferValid(address, size, requested) ==
    LET probes == {FirstPage(address + k * PAGE_SIZE) : k \in 0 .. (size - 1) \div PAGE_SIZE}
        found == {i \in DOMAIN ReservationList :
                     /\ IsUsed(ReservationList[i])
                     /\ ReservationList[i].start * PAGE_SIZE <= address
                     /\ address + size <= (ReservationList[i].start + ReservationList[i].pages) * PAGE_SIZE}
    IN  /\ found # {}
        /\ probes \subseteq ReservationList[Min(found)].commit
        /\ requested \subseteq ReservationList[Min(found)].rights

----------------------------------------------------------------------------
\* Frames and page table.

\* PmmReserveMemory: the first run of n free frames, 0 if there is none.
ReserveMemory(n) ==
    LET runs == {f \in Frames : \A g \in Run(f, n) : g \in Frames /\ frame[g] = "free"}
    IN  IF runs = {} THEN 0 ELSE Min(runs)

\* MmuMapMemoryInternal with _VmMapPage, frames[i] at the i-th page from base on:
\* a present entry stays unless Invalidate.
MapMemory(base, frames, rights, Invalidate) ==
    pte' = [p \in Pages |->
              IF p \in Run(base, Len(frames)) /\ (pte[p] = None \/ Invalidate)
              THEN [frame |-> frames[p - base + 1], rights |-> rights]
              ELSE pte[p]]

\* MmuUnmapMemoryEx with _VmUnmapPage; MmuReleaseMemory queues the frame.
UnmapMemory(base, n, ReleaseMemory) ==
    LET mapped == {p \in Run(base, n) : pte[p] # None}
    IN  /\ pte' = [p \in Pages |-> IF p \in mapped THEN None ELSE pte[p]]
        /\ frame' = [f \in Frames |-> IF ReleaseMemory /\ \E p \in mapped : pte[p].frame = f
                                      THEN "queued" ELSE frame[f]]

\* MdlAllocateEx: the frames behind a buffer, neighbours merged in one pair.
MdlPairs(frames) ==
    LET Add(pairs, f) ==
            LET k == Len(pairs)
            IN  IF k > 0 /\ pairs[k].address + pairs[k].count = f
                THEN [pairs EXCEPT ![k].count = @ + 1]
                ELSE Append(pairs, [address |-> f, count |-> 1])
        upTo[i \in 0 .. Len(frames)] == IF i = 0 THEN <<>> ELSE Add(upTo[i - 1], frames[i])
    IN  upTo[Len(frames)]

\* _VmmMapDescribedRegion: the frames the pairs describe, in the order they are mapped.
DescribedFrames(pairs) ==
    LET upTo[i \in 0 .. Len(pairs)] ==
            IF i = 0 THEN <<>>
            ELSE upTo[i - 1] \o [k \in 1 .. pairs[i].count |-> pairs[i].address + k - 1]
    IN  upTo[Len(pairs)]

\* The zero worker.
ZeroFrame(f) ==
    /\ ~halted
    /\ frame[f] = "queued"
    /\ frame' = [frame EXCEPT ![f] = "free"]
    /\ dirty' = dirty \ {f}
    /\ UNCHANGED <<listVars, pte, at, call, alias, written, historyVars>>

----------------------------------------------------------------------------
\* VmmAllocRegionEx.  Callers use a region only after the call that made it has
\* returned, and give it back when nobody else uses it.

Uses(t) ==
    IF at[t] \in {"enter", "inside"} /\ call[t].op = "release"
    THEN Extent(ReservationList[FindReservation(ReservationList, call[t].base, 1)])
    ELSE Run(call[t].base, call[t].pages)
GivenBack == UNION {Uses(t) : t \in {u \in Threads : call[u].op \in {"release", "decommit"}}}
Shared == UNION {Run(r.of, r.pages) : r \in alias}

\* VmReservationSpaceAllocRegion up to the lock: a caller's address is aligned,
\* or VmReservationSpaceDetermineNextFreeVirtualAddress takes the next one.
StartAlloc(t, op, a, mdl) ==
    LET own == a.address # 0
        n == PageCount(a.address, a.size)
        base == IF own THEN FirstPage(a.address) ELSE FreeVirtualAddressPointer
    IN  /\ Run(base, n) \subseteq Pages
        /\ FreeVirtualAddressPointer' = IF own THEN FreeVirtualAddressPointer
                                        ELSE FreeVirtualAddressPointer + n
        /\ call' = [call EXCEPT ![t] = [NoCall EXCEPT !.op = op, !.base = base, !.pages = n,
               !.reserve = a.reserve, !.commit = a.commit, !.eager = a.eager,
               !.rights = a.rights, !.file = a.file, !.mdl = mdl]]
        /\ Goto(t, "enter")
        /\ calls < MaxCalls /\ calls' = calls + 1
        /\ UNCHANGED <<ReservationList, ReservationLock, VmmMemoryAccess, pte, frame, dirty,
                       written, contended, preempted, halted>>

\* A caller that only commits names pages of a region nobody else is working on, and
\* asks for frames at once only where none are mapped.
AllocRegion(t) == \E a \in Calls :
    LET range == Run(FirstPage(a.address), PageCount(a.address, a.size)) IN
    /\ Idle(t)
    /\ a.reserve \/ /\ FindReservation(ReservationList, FirstPage(a.address), 1) # 0
                    /\ \A u \in Threads : range \cap Uses(u) = {}
                    /\ a.eager => \A p \in range \cap Pages : pte[p] = None
    /\ StartAlloc(t, "alloc", a, <<>>)
    /\ UNCHANGED alias

\* MmuAllocStack reserves the stack with its guard first.
StackCall(pages) == [address |-> 0, size |-> pages * PAGE_SIZE, reserve |-> TRUE, commit |-> FALSE,
                     eager |-> FALSE, rights |-> {"W"}, file |-> FALSE]
AllocStack(t) ==
    /\ Idle(t)
    /\ StartAlloc(t, "stack", StackCall(1 + STACK_GUARD_PAGES), <<>>)
    /\ UNCHANGED alias

\* MmuGetSystemVirtualAddressForUserBuffer for whole pages: a second mapping of the
\* frames behind pages base .. base + n - 1, which MdlAllocateEx finds mapped.
MdlCall(n, rights) == [address |-> 0, size |-> n * PAGE_SIZE, reserve |-> TRUE, commit |-> TRUE,
                       eager |-> TRUE, rights |-> rights, file |-> FALSE]
GetSystemVirtualAddress(t) == \E base \in Pages, n \in 1 .. 2 :
    /\ Idle(t)
    /\ Run(base, n) \subseteq Pages \ (Shared \cup UNION {Uses(u) : u \in Threads})
    /\ FindReservation(ReservationList, base, n) # 0
    /\ \A p \in Run(base, n) : pte[p] # None
    /\ StartAlloc(t, "mdl", MdlCall(n, {"W"}), [i \in 1 .. n |-> pte[base + i - 1].frame])
    /\ alias' = alias \cup {[base |-> FreeVirtualAddressPointer, of |-> base, pages |-> n]}

\* RwSpinlockAcquireExclusive, and VmmMemoryAccess of the CPU the thread runs on.
Enter(t, c) ==
    /\ At(t, "enter")
    /\ ReservationLock = None
    /\ ReservationLock' = t
    /\ VmmMemoryAccess' = [VmmMemoryAccess EXCEPT ![c] = TRUE]
    /\ call' = [call EXCEPT ![t].pcpu = c]
    /\ preempted' = (preempted \/ \E u \in Threads : at[u] = "uninit" /\ call[u].pcpu = c)
    /\ Goto(t, "inside")
    /\ UNCHANGED <<ReservationList, FreeVirtualAddressPointer, pte, frame, dirty, alias, written,
                   calls, contended, halted>>

\* A page fault on the metadata while the CPU is not marked is not solved.
MetadataFault(t) ==
    /\ At(t, "inside")
    /\ ~VmmMemoryAccess[call[t].pcpu]
    /\ halted' = TRUE
    /\ UNCHANGED <<listVars, pte, frame, dirty, at, call, alias, written, calls, contended, preempted>>

\* What follows a successful VmReservationSpaceAllocRegion.
AfterAlloc(t) ==
    LET a == call[t] IN
    CASE a.op = "stack" /\ a.reserve ->     \* the second call of MmuAllocStack
           /\ Goto(t, "enter")
           /\ call' = [call EXCEPT ![t] = [a EXCEPT
                 !.base = @ + STACK_GUARD_PAGES, !.pages = @ - STACK_GUARD_PAGES,
                 !.reserve = FALSE, !.commit = TRUE, !.eager = TRUE, !.pcpu = None]]
      [] a.eager -> /\ Goto(t, IF a.mdl = <<>> THEN "frames" ELSE "map")
                    /\ call' = [call EXCEPT ![t].pcpu = None]
      [] OTHER -> Return(t)

\* VmReservationSpaceAllocRegion with the lock held.
ChangeReservations(t) ==
    LET a == call[t]
        reserved == IF a.reserve THEN InitializeReservation(ReservationList, a) ELSE ReservationList
        fails == (a.reserve /\ ~CanReserve(ReservationList, a)) \/ (a.commit /\ ~CanCommit(reserved, a))
    IN  /\ At(t, "inside") /\ a.op \in {"alloc", "stack", "mdl"}
        /\ ReservationList' = IF a.reserve /\ ~CanReserve(ReservationList, a) THEN ReservationList
                               ELSE IF fails \/ ~a.commit THEN reserved
                               ELSE CommitReservation(reserved, a)
        /\ VmmMemoryAccess' = [VmmMemoryAccess EXCEPT ![a.pcpu] = FALSE]
        /\ ReservationLock' = None
        /\ IF fails THEN Return(t) ELSE AfterAlloc(t)
        /\ alias' = IF fails /\ a.op = "mdl" THEN {r \in alias : r.base # a.base} ELSE alias
        /\ UNCHANGED <<FreeVirtualAddressPointer, pte, frame, dirty, written, historyVars>>

\* VMM_ALLOC_TYPE_NOT_LAZY; without frames the region is returned unmapped.
ReserveFrames(t) ==
    LET pa == ReserveMemory(call[t].pages)
    IN  /\ At(t, "frames")
        /\ IF pa = 0 THEN Return(t) /\ UNCHANGED frame
           ELSE /\ frame' = [f \in Frames |-> IF f \in Run(pa, call[t].pages) THEN "used" ELSE frame[f]]
                /\ call' = [call EXCEPT ![t].pa = pa]
                /\ Goto(t, "map")
        /\ UNCHANGED <<listVars, pte, dirty, alias, written, historyVars>>

MapRegion(t) ==
    LET a == call[t]
        frames == IF a.mdl = <<>> THEN [i \in 1 .. a.pages |-> a.pa + i - 1]
                  ELSE DescribedFrames(MdlPairs(a.mdl))
    IN  /\ At(t, "map")
        /\ MapMemory(a.base, frames, a.rights, a.mdl = <<>>)
        /\ written' = IF a.mdl = <<>> THEN written
                      ELSE written \cup {p \in Run(a.base, Len(frames)) : frames[p - a.base + 1] \in dirty}
        /\ IF a.file THEN Goto(t, "read") /\ UNCHANGED call ELSE Return(t)
        /\ UNCHANGED <<listVars, frame, dirty, alias, historyVars>>

\* IoReadFile into the region; a failure releases the whole reservation.
ReadRegion(t) ==
    /\ At(t, "read")
    /\ dirty' = dirty \ Run(call[t].pa, call[t].pages)
    /\ Return(t)
    /\ UNCHANGED <<listVars, pte, frame, alias, written, historyVars>>
ReadRegionFails(t) ==
    /\ At(t, "read")
    /\ call' = [call EXCEPT ![t].op = "release"]
    /\ Goto(t, "enter")
    /\ UNCHANGED <<listVars, pte, frame, dirty, alias, written, historyVars>>

----------------------------------------------------------------------------
\* VmmFreeRegionEx

NotShared(r) == Extent(r) \cap Shared = {}
CanGiveUp(r) == IsUsed(r) /\ NotShared(r) /\ \A u \in Threads : Uses(u) \cap Extent(r) = {}

StartFree(t, op, base, n) ==
    /\ call' = [call EXCEPT ![t] = [NoCall EXCEPT !.op = op, !.base = base, !.pages = n]]
    /\ Goto(t, "enter")
    /\ calls < MaxCalls /\ calls' = calls + 1
    /\ UNCHANGED <<listVars, pte, frame, dirty, alias, contended, preempted, halted>>

\* Any address inside the region names it.
FreeRegion(t) == \E i \in DOMAIN ReservationList : \E p \in Extent(ReservationList[i]) :
    /\ Idle(t)
    /\ CanGiveUp(ReservationList[i])
    /\ StartFree(t, "release", p, 1)
    /\ written' = written \ Extent(ReservationList[i])

DecommitRegion(t) == \E i \in DOMAIN ReservationList : \E p \in Extent(ReservationList[i]) :
    /\ Idle(t)
    /\ CanGiveUp(ReservationList[i])
    /\ \A r \in alias : r.base \notin Extent(ReservationList[i])
    /\ StartFree(t, "decommit", p, 1)
    /\ written' = written \ {p}

\* VmReservationSpaceFreeRegion, VMM_FREE_TYPE_RELEASE: the entry is freed under the lock.
RemoveReservation(t) ==
    LET i == FindReservation(ReservationList, call[t].base, 1)
    IN  /\ At(t, "inside") /\ call[t].op = "release"
        /\ ReservationList' = [ReservationList EXCEPT ![i] = FreeEntry]
        /\ ReservationLock' = None
        /\ call' = [call EXCEPT ![t].base = ReservationList[i].start, ![t].pages = ReservationList[i].pages]
        /\ Goto(t, "uninit")
        /\ UNCHANGED <<FreeVirtualAddressPointer, VmmMemoryAccess, pte, frame, dirty, alias, written,
                       historyVars>>

\* _VmUninitializeReservation on the copy, then VmmMemoryAccess of the CPU that was
\* current when the lock was taken.
UninitializeReservation(t) ==
    /\ At(t, "uninit")
    /\ VmmMemoryAccess' = [VmmMemoryAccess EXCEPT ![call[t].pcpu] = FALSE]
    /\ call' = [call EXCEPT ![t].pcpu = None]
    /\ Goto(t, "unmap")
    /\ UNCHANGED <<ReservationList, FreeVirtualAddressPointer, ReservationLock, pte, frame, dirty, alias, written, historyVars>>

Decommit(t) ==
    /\ At(t, "inside") /\ call[t].op = "decommit"
    /\ ReservationList' = DecommitReservation(ReservationList, call[t])
    /\ VmmMemoryAccess' = [VmmMemoryAccess EXCEPT ![call[t].pcpu] = FALSE]
    /\ ReservationLock' = None
    /\ call' = [call EXCEPT ![t].pcpu = None]
    /\ Goto(t, "unmap")
    /\ UNCHANGED <<FreeVirtualAddressPointer, pte, frame, dirty, alias, written, historyVars>>

\* MmuUnmapMemoryEx; MmuFreeSystemVirtualAddressForUserBuffer keeps the frames.
UnmapReleasesAlways(t) ==
    /\ At(t, "unmap")
    /\ UnmapMemory(call[t].base, call[t].pages, TRUE)
    /\ alias' = {r \in alias : r.base # call[t].base}
    /\ Return(t)
    /\ UNCHANGED <<listVars, dirty, written, historyVars>>
UnmapRegion(t) ==
    /\ At(t, "unmap")
    /\ UnmapMemory(call[t].base, call[t].pages, \A r \in alias : r.base # call[t].base)
    /\ alias' = {r \in alias : r.base # call[t].base}
    /\ Return(t)
    /\ UNCHANGED <<listVars, dirty, written, historyVars>>

----------------------------------------------------------------------------
\* The memory accesses of callers and VmmSolvePageFault.

FaultLabels == {"pf_frame", "pf_map", "pf_fill"}
Faulting(p) == {t \in Threads : at[t] \in FaultLabels /\ call[t].base = p}

\* A page of a region that nobody is creating or giving back.
Usable(p) ==
    /\ FindReservation(ReservationList, p, 1) # 0
    /\ \A u \in Threads \ Faulting(p) : p \notin Uses(u)

Contend(p) == contended' = (contended \/ Faulting(p) # {})

WritePage(t, p) ==
    /\ Idle(t) /\ Usable(p)
    /\ pte[p] # None /\ "W" \in pte[p].rights
    /\ dirty' = dirty \cup {pte[p].frame}
    /\ written' = written \cup {q \in Pages \ GivenBack : pte[q] # None /\ pte[q].frame = pte[p].frame}
    /\ Contend(p)
    /\ UNCHANGED <<listVars, pte, frame, at, call, alias, calls, preempted, halted>>

\* The fault is looked up under the shared lock.
PageFault(t, p) ==
    LET i == FindReservation(ReservationList, p, 1)
    IN  /\ Idle(t) /\ Usable(p)
        /\ pte[p] = None
        /\ ReservationLock = None
        /\ CanAddressBeAccessed(p, {})
        /\ call' = [call EXCEPT ![t] = [NoCall EXCEPT !.op = "fault", !.base = p, !.pages = 1,
                        !.rights = ReservationList[i].rights, !.file = ReservationList[i].file]]
        /\ Goto(t, "pf_frame")
        /\ Contend(p)
        /\ UNCHANGED <<listVars, pte, frame, dirty, alias, written, calls, preempted, halted>>

\* PmmReserveMemory(1), ASSERTed to succeed.
FaultFrame(t) ==
    LET f == ReserveMemory(1)
    IN  /\ At(t, "pf_frame")
        /\ IF f = 0 THEN halted' = TRUE /\ UNCHANGED <<frame, call, at>>
           ELSE /\ frame' = [frame EXCEPT ![f] = "used"]
                /\ call' = [call EXCEPT ![t].pa = f]
                /\ Goto(t, "pf_map")
                /\ UNCHANGED halted
        /\ UNCHANGED <<listVars, pte, dirty, alias, written, calls, contended, preempted>>

FaultMap(t) ==
    /\ At(t, "pf_map")
    /\ MapMemory(call[t].base, <<call[t].pa>>, call[t].rights, TRUE)
    /\ Goto(t, "pf_fill")
    /\ UNCHANGED <<listVars, frame, dirty, call, alias, written, historyVars>>

\* The page is read from its file and the rest zeroed, through the address.
FaultFill(t) ==
    LET p == call[t].base
    IN  /\ At(t, "pf_fill")
        /\ dirty' = dirty \ {pte[p].frame}
        /\ Return(t)
        /\ UNCHANGED <<listVars, pte, frame, alias, written, historyVars>>

\* A failed read leaves the page mapped and the fault unsolved.
FaultReadFails(t) ==
    /\ At(t, "pf_fill") /\ call[t].file
    /\ halted' = TRUE
    /\ UNCHANGED <<listVars, pte, frame, dirty, at, call, alias, written, calls, contended, preempted>>

VmmNext ==
    \/ \E f \in Frames : ZeroFrame(f)
    \/ \E t \in Threads :
          \/ AllocRegion(t) \/ AllocStack(t) \/ GetSystemVirtualAddress(t)
          \/ \E c \in Cpus : Enter(t, c)
          \/ MetadataFault(t) \/ ChangeReservations(t)
          \/ ReserveFrames(t) \/ MapRegion(t) \/ ReadRegion(t) \/ ReadRegionFails(t)
          \/ FreeRegion(t) \/ DecommitRegion(t)
          \/ RemoveReservation(t) \/ UninitializeReservation(t) \/ Decommit(t) \/ UnmapRegion(t)
          \/ \E p \in Pages : WritePage(t, p) \/ PageFault(t, p)
          \/ FaultFrame(t) \/ FaultMap(t) \/ FaultFill(t) \/ FaultReadFails(t)

\* What every caller in the kernel keeps: it reserves where VmmAllocRegionEx finds room, asks for
\* frames at once only of what it commits (an ASSERT), and maps a file in a region of its own.
CallsAreOrdinary == \A a \in Calls :
    /\ a.address \in Nat /\ a.size \in Nat \ {0}
    /\ {a.reserve, a.commit, a.eager, a.file} \subseteq BOOLEAN
    /\ a.reserve => a.address = 0
    /\ a.eager => a.commit
    /\ a.file => a.reserve

VmmSpec == VmmInit /\ [][VmmNext]_vmmVars

----------------------------------------------------------------------------
VmmTypeOK ==
    /\ \A i \in DOMAIN ReservationList : LET r == ReservationList[i] IN
         r = FreeEntry \/ (Extent(r) \subseteq Pages /\ r.commit \subseteq Extent(r))
    /\ FreeVirtualAddressPointer \in StartPage .. EndPage + 1
    /\ ReservationLock \in Threads \cup {None}
    /\ \A p \in Pages : pte[p] = None \/ pte[p].frame \in Frames
    /\ frame \in [Frames -> {"free", "used", "queued"}]
    /\ dirty \subseteq Frames
    /\ written \subseteq Pages

\* No two reservations share a page.
Disjoint == \A i, j \in DOMAIN ReservationList :
    i # j => Extent(ReservationList[i]) \cap Extent(ReservationList[j]) = {}

\* What is mapped is committed, with the rights of its reservation, or about to be
\* unmapped by the thread that gave it back.
MappedIsCommitted == \A p \in Pages : pte[p] # None =>
    \/ \E i \in DOMAIN ReservationList : LET r == ReservationList[i] IN
          p \in r.commit /\ pte[p].rights = r.rights
    \/ \E t \in Threads : at[t] \in {"uninit", "unmap"} /\ p \in Uses(t)

\* A mapped frame is taken from the allocator, and mapped twice only over an MDL.
FramesAreOwned == \A p, q \in Pages : pte[p] # None =>
    /\ frame[pte[p].frame] = "used"
    /\ (p # q /\ pte[q] # None /\ pte[p].frame = pte[q].frame) => {p, q} \cap Shared # {}

\* For a buffer that starts at a page VmmIsBufferValid answers what an access would find.
BufferCheckExact == \A p \in Pages, size \in {PAGE_SIZE, PAGE_SIZE + 1} :
    LET n == PageCount(p * PAGE_SIZE, size) IN
    IsBufferValid(p * PAGE_SIZE, size, {"W"})
      <=> /\ FindReservation(ReservationList, p, n) # 0
          /\ \A q \in Run(p, n) : CanAddressBeAccessed(q, {"W"})

\* "Check that the CPU is knowing what it's doing when accessing the reservation
\* metadata": whoever holds ReservationLock has its CPU marked, so that a fault on the
\* metadata is solved, unless another thread was switched out on that CPU between
\* its release of the lock and the reset of the mark.
SectionIsMarked == \A t \in Threads :
    at[t] = "inside" => VmmMemoryAccess[call[t].pcpu] \/ preempted

\* No frame is lost: one that is taken is mapped or in the hands of a thread, unless a
\* page was touched while another CPU was solving a fault on it.
NoFrameLost == ~contended =>
    \A f \in Frames : frame[f] = "used" =>
        \/ \E p \in Pages : pte[p] # None /\ pte[p].frame = f
        \/ \E t \in Threads : at[t] \in {"map", "pf_map"} /\ f \in Run(call[t].pa, call[t].pages)

\* A caller finds what it wrote and nothing that others wrote: no fault, commit, decommit
\* or release of another region changes a written page, and a page that was not
\* written does not show the data of its frame's last owner, unless two CPUs
\* worked on a page at once.
ContentsKept == ~contended =>
    \A p \in Pages : (\A t \in Threads : p \notin Uses(t)) =>
        /\ p \in written => pte[p] # None
        /\ pte[p] # None => (pte[p].frame \in dirty <=> p \in written)

\* The reservations, the page table and the frames agree, at every moment of every call
\* of VmmAllocRegionEx, VmmFreeRegionEx and VmmSolvePageFault; no frame is lost, and
\* callers find what they wrote.
VmmInv == VmmTypeOK /\ Disjoint /\ MappedIsCommitted /\ FramesAreOwned /\ BufferCheckExact
          /\ SectionIsMarked /\ NoFrameLost /\ ContentsKept

=============================================================================
