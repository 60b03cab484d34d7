----------------------------- MODULE ZeroWorker -----------------------------
(***************************************************************************)
(* MmuReleaseMemory and the page zeroer thread (mmu.c) on top of the       *)
(* physical memory manager: a released run of frames is queued, the thread *)
(* zeroes it and only then gives it back with PmmReleaseMemory.            *)
(*                                                                         *)
(* NewPagesEvent is a notification event: its waiter is woken by a signal  *)
(* or finds Signaled set.  How the event blocks the thread is the subject  *)
(* of ExEvent; here a wait is over once the event was signaled.            *)
(***************************************************************************)
EXTENDS Pmm

CONSTANTS Releasers     \* the threads that call MmuReleaseMemory

ASSUME ReleasersAssumption == IsFiniteSet(Releasers)

VARIABLES
    PagesToZeroList,    \* MMU_ZERO_THREAD_DATA.PagesToZeroList
    NewPagesSignaled,   \* NewPagesEvent.Signaled
    signaling,          \* the releasers between InsertTailList and ExEventSignal
    zeroer,             \* where _MmuZeroWorkerThreadFunction is
    item,               \* the item it works on
    dirty,              \* the frames with the data of an earlier owner in them
    signalLost          \* the last signal came between RemoveHeadList and ExEventClearSignal

zeroVars == <<pmmVars, PagesToZeroList, NewPagesSignaled, signaling, zeroer, item, dirty, signalLost>>

NoItem == [index |-> 0, count |-> 0]

Frames(it) == it.index .. it.index + it.count - 1

\* The assertion of MmuMapMemoryEx has stopped the system.
Halted == zeroer = "halted"

\* Frames that were released by their owner and are not free yet.
Queued == Frames(item) \cup UNION {Frames(PagesToZeroList[i]) : i \in DOMAIN PagesToZeroList}

ZeroWorkerInit ==
    /\ PmmPreinitSystem
    /\ PagesToZeroList = <<>>
    /\ NewPagesSignaled = FALSE
    /\ signaling = {}
    /\ zeroer = "wait"
    /\ item = NoItem
    /\ dirty = {}
    /\ signalLost = FALSE

----------------------------------------------------------------------------
PmmInit ==
    /\ PmmInitSystem
    /\ UNCHANGED <<PagesToZeroList, NewPagesSignaled, signaling, zeroer, item, dirty, signalLost>>

\* The owner of a reserved run writes to it.
Reserve(n, a) ==
    /\ ~Halted
    /\ PmmReserveMemoryEx(n, a)
    /\ dirty' = dirty \cup (held' \ held)
    /\ UNCHANGED <<PagesToZeroList, NewPagesSignaled, signaling, zeroer, item, signalLost>>

\* MmuReleaseMemory, up to the release of PagesLock.
MmuReleaseMemory(r, index, n) ==
    /\ ~Halted
    /\ Booted /\ r \notin signaling
    /\ n > 0 /\ index .. index + n - 1 \subseteq held \ Queued
    /\ PagesToZeroList' = Append(PagesToZeroList, [index |-> index, count |-> n])
    /\ signaling' = signaling \cup {r}
    /\ UNCHANGED <<pmmVars, NewPagesSignaled, zeroer, item, dirty, signalLost>>

\* ExEventSignal: Signaled is set, a listed waiter is removed and made ready.
SignalNewPages(r) ==
    /\ ~Halted
    /\ r \in signaling
    /\ NewPagesSignaled' = TRUE
    /\ zeroer' = IF zeroer = "blocked" THEN "remove" ELSE zeroer
    /\ signaling' = signaling \ {r}
    /\ signalLost' = (zeroer = "clear")
    /\ UNCHANGED <<pmmVars, PagesToZeroList, item, dirty>>

----------------------------------------------------------------------------
\* Mutant: NewPagesEvent is a synchronization event.
WaitTakesSignal ==
    /\ zeroer = "wait"
    /\ zeroer' = IF NewPagesSignaled THEN "remove" ELSE "blocked"
    /\ NewPagesSignaled' = FALSE
    /\ UNCHANGED <<pmmVars, PagesToZeroList, signaling, item, dirty, signalLost>>

\* ExEventWaitForSignal
ZeroerWait ==
    /\ zeroer = "wait"
    /\ zeroer' = IF NewPagesSignaled THEN "remove" ELSE "blocked"
    /\ UNCHANGED <<pmmVars, PagesToZeroList, NewPagesSignaled, signaling, item, dirty, signalLost>>

\* RemoveHeadList under PagesLock
ZeroerRemove ==
    /\ zeroer = "remove"
    /\ IF PagesToZeroList = <<>>
       THEN zeroer' = "clear" /\ UNCHANGED <<PagesToZeroList, item>>
       ELSE /\ item' = Head(PagesToZeroList)
            /\ PagesToZeroList' = Tail(PagesToZeroList)
            /\ zeroer' = "zero"
    /\ UNCHANGED <<pmmVars, NewPagesSignaled, signaling, dirty, signalLost>>

\* ExEventClearSignal
ZeroerClear ==
    /\ zeroer = "clear"
    /\ NewPagesSignaled' = FALSE
    /\ zeroer' = "wait"
    /\ UNCHANGED <<pmmVars, PagesToZeroList, signaling, item, dirty, signalLost>>

\* Mutant: zeroes one frame too few (noOfBytes).
ZeroOneLess ==
    /\ zeroer = "zero"
    /\ dirty' = dirty \ (item.index .. item.index + item.count - 2)
    /\ zeroer' = "release"
    /\ UNCHANGED <<pmmVars, PagesToZeroList, NewPagesSignaled, signaling, item, signalLost>>

\* MmuMapMemoryEx, which asserts that the run ends below the highest address present;
\* memzero
ZeroerZero ==
    /\ zeroer = "zero"
    /\ IF (item.index + item.count) * PAGE_SIZE < Highest.present
       THEN dirty' = dirty \ Frames(item) /\ zeroer' = "release"
       ELSE zeroer' = "halted" /\ UNCHANGED dirty
    /\ UNCHANGED <<pmmVars, PagesToZeroList, NewPagesSignaled, signaling, item, signalLost>>

\* PmmReleaseMemory; the item is freed and the loop starts over.
ZeroerRelease ==
    /\ zeroer = "release"
    /\ PmmReleaseMemory(item.index, item.count)
    /\ item' = NoItem
    /\ zeroer' = "wait"
    /\ UNCHANGED <<PagesToZeroList, NewPagesSignaled, signaling, dirty, signalLost>>

ZeroerStep == ZeroerWait \/ ZeroerRemove \/ ZeroerClear \/ ZeroerZero \/ ZeroerRelease

----------------------------------------------------------------------------
ZeroNext ==
    \/ PmmInit
    \/ \E n \in 0 .. MaxFrames, a \in MinAddresses : Reserve(n, a)
    \/ \E r \in Releasers, i \in held, n \in 1 .. MaxFrames : MmuReleaseMemory(r, i, n)
    \/ \E r \in Releasers : SignalNewPages(r)
    \/ ZeroerStep

ZeroSpec == ZeroWorkerInit /\ [][ZeroNext]_zeroVars

----------------------------------------------------------------------------
\* Properties

ZeroTypeOK ==
    /\ PmmTypeOK
    /\ NewPagesSignaled \in BOOLEAN
    /\ signaling \subseteq Releasers
    /\ zeroer \in {"wait", "blocked", "remove", "clear", "zero", "release", "halted"}
    /\ Queued \subseteq held
    /\ dirty \subseteq DOMAIN AllocationBitmap

\* Released frames reach their next owner zeroed: nothing free is dirty, however
\* releases, the worker and reservations interleave.
FreeIsZeroed == Booted =>
    \A f \in DOMAIN AllocationBitmap : ~AllocationBitmap[f] => f \notin dirty

\* A run waits in the queue once: no two queued runs overlap.
QueuedOnce == \A i, j \in DOMAIN PagesToZeroList :
    /\ i # j => Frames(PagesToZeroList[i]) \cap Frames(PagesToZeroList[j]) = {}
    /\ Frames(PagesToZeroList[i]) \cap Frames(item) = {}

\* The way of a frame through MmuReleaseMemory and the zero worker: queued once, then
\* zeroed, then free in a bitmap that is exact.
ZeroInv == ZeroTypeOK /\ PmmInv /\ QueuedOnce /\ FreeIsZeroed

\* "Schedules NoOfFrames frames of physical memory to be released by the zero worker
\* thread": a queued run is not forgotten.  While the worker sleeps, or is about to, a run
\* is queued only if its signal is still to come, or came while the worker had found the
\* list empty and not yet cleared the event.
QueuedIsSignaled ==
    zeroer \in {"wait", "blocked"} /\ ~NewPagesSignaled /\ PagesToZeroList # <<>> =>
        signaling # {} \/ signalLost

\* mmu.h says of MmuReleaseMemory that the frames are scheduled to be released "by the
\* zero worker thread after being zeroed": the worker does not sleep over a queued run
\* when every releaser has signaled.
QueueIsServed == zeroer = "blocked" /\ PagesToZeroList # <<>> => signaling # {}

=============================================================================
