# A TLA+ verification of the HAL9000 kernel

HAL9000 is a small x86-64 multiprocessor kernel written in C, with its own
runtime library (`CommonLib`), hardware layer (`HAL`), drivers and user mode
support. This directory holds TLA+ modules that model its concurrent core, its
memory management and its drivers, the TLC configurations that check them on small
instances, and TLAPS proofs of the properties that do not depend on the size of
the instance.

Paths below are relative to `src/src/` unless they start with `src/`.
`PROJECT.json` maps every definition to the lines it models.

## 1. Inventory

| Part | State | Operations | Hard parts | What makes it correct |
|---|---|---|---|---|
| Primitive lock: `CommonLib/src/spinlock.c`, `monlock.c`, `lock_common.c` | `State`, `Holder`, the saved interrupt state | acquire, try-acquire, release, in a spinning and a MONITOR/MWAIT form | interrupt handlers of the same CPU; a release between MONITOR and MWAIT | one owner; never held with interrupts on; interrupts restored; no missed wake-up |
| Reader-writer spinlock: `rw_spinlock.c` | three WORD counters | acquire and release, shared or exclusive | compare-exchanges of two overlapping DWORDs | writers alone; counters exact; writers not starved |
| Recursive reader-writer spinlock: `rec_rw_spinlock.c` | `Holder`, depth | as above, re-entrant for the writer | unlocked test of `Holder` | the test is never wrong; the inner lock is balanced |
| Scheduler: `HAL9000/src/thread.c`, `_thread.yasm`, `isr.c` | ready list, thread states, block locks, references, current and previous thread per CPU | yield, block, unblock, create, exit, terminate, close handle | a lock that is released by another thread than took it; wake-ups of threads that still run; references dropped after a switch | no stack runs twice; no thread lost; FIFO; no thread starved |
| Mutex: `mutex.c` | `Holder`, depth, waiting list | acquire, release | hand-over to a thread that does not run yet | ownership; order; no starvation |
| Events: `ex_event.c` | `Signaled`, waiting list | wait, signal, clear | the test is outside the lock | one wait per signal; everyone listed is woken |
| Timers: `ex_timer.c` | trigger time, flags | init, start, stop, uninit, wait | reads and writes without a lock, two reads per round | every wait ends |
| Processes: `process.c`, `um_application.c` | references, thread lists and counts, PIDs | create, terminate, close handle, thread insertion and removal, destroy | creation that fails at any step; threads exiting while others are spawned | nothing used after it is freed; PIDs unique; termination final and complete |
| Inter-processor calls: `smp.c`, `ipc.c`, `CommonLib/src/event.c`, `ref_cnt.c`, `HAL/src/lapic.c` | per-CPU event lists, reference counts, pending interrupts | send to a CPU, a group, all; interrupt handler | preemptible senders, merged interrupts | no use after free; return after everyone ran the function |
| Bitmap: `CommonLib/src/bitmap.c` | bits | init, scan, set, flip | boundaries, DWORD wrap-around | first fit |
| Physical memory: `pmm.c` | allocation bitmap, limits | boot from the memory map, reserve, release | alignment of regions | bitmap exact; unusable memory never given out |
| Zero worker: `mmu.c` | queue of released runs, an event | `MmuReleaseMemory`, the worker loop | event cleared outside the lock | a free frame is zeroed; a queued run is released |
| Virtual memory: `vmm.c`, `vm_reservation_space.c`, `mdl.c`, rest of `mmu.c` | reservations with commit bitmaps, page table, frames | reserve, commit, decommit, release, page fault, stacks, MDL mappings | lazy mapping by several CPUs; metadata that is itself paged; failures half-way | reservations, page table and frames agree; no frame lost; contents kept |
| Heap: `cl_heap.c` | allocations ordered by address, restart pointer, remaining size | allocate, free | alignment padding, search that wraps | no overlap; alignment; exact accounting |
| Lists and hash table: `list.c`, `hash_table.c` | links, chains, iterator | insert, remove, lookup, iterate, clear | removal while iterating; replacement | rings whole; chains ordered; every element found and visited once |
| Storage: `io_devices.c`, `Volume`, `Disk`, `Ata` | device locks, IRPs, channel registers, descriptor table | read, write, interrupt, partition table | the interrupt against the waiting thread; two drives on a channel | the named sectors move, no others; every request returns |
| FAT32: `FAT32` | allocation table, FSInfo, directories | open, create, read, write, list | accesses fail and power is lost between writes | chains disjoint; sizes covered; contents found |
| Network: `NetworkPort`, `Eth_82574L` | descriptor rings, frame lists, events, registers | send, receive, change status, interrupt | full and empty rings; handlers on several CPUs | frames in order, each once; nothing left behind |
| Device interrupts: `iomu.c`, `isr.c`, `ioapic_system.c` | vectors, handler lists, redirection entries | register, route, mask, dispatch | registration against delivery; shared lines; vectors that run out | a registered interrupt reaches its handler; vectors owned by their lists |
| Keyboard and line editor: `keyboard.c`, `keyboard_utils.c` | one key code, an event, a line, a history ring | interrupt, `getch`, `gets_s` | handler against reader, without a lock; edits at both ends of a line | no press twice; no key left; line is what was typed |
| SwapFS, `NetworkStack` | – | pass requests and frames through | – | not modelled |
| Check-in queue: `checkin_queue.c` | slots | mark, wait | – | used by the kernel's tests only; left out |
| System calls | – | a stub in this repository | – | nothing to model |
| Boot, ACPI, PCI, serial output, logging, commands, PE parser | – | sequential start-up, formatting, parsing | – | not modelled |

**How the parts interact.** Every kernel structure is guarded by a primitive or
reader-writer lock. A mutex or an event keeps a waiting list of threads; the
thread links itself in under the object's lock, takes its own `BlockLock`, and
calls `ThreadBlock`. The waker unlinks it and calls `ThreadUnblock`, which needs
that `BlockLock`. `BlockLock` is released by the thread that runs next on the
CPU, after the switch. Ending threads signal an event, leave their process and
drop references; the last reference destroys thread and process. Frames pass
from the frame allocator to owners and back through a kernel thread that waits
for an event. Inter-processor calls interrupt all of this. A driver is called with
the mutex of its device held; it starts the device and waits for an event that the
interrupt handler signals on whatever CPU takes the interrupt. Page faults take
frames from the allocator and give them to the page table; released regions go
to the zero worker.

## 2. Modules

A name in a module is the name in the code where there is one.

| Module | Built on | What it models |
|---|---|---|
| `Spinlock` | – | CPUs with a thread and an interrupt context; each instruction that touches the lock is a step |
| `RwSpinlock` | – | each interlocked operation is a step |
| `RecRwSpinlock` | `RwSpinlock` | the recursive lock composed with the lock below it |
| `Thread` | – | the scheduler |
| `Mutex`, `ExEvent` | `Thread` | what is woken and when, on the real scheduler steps |
| `ExTimer` | – | timer and clock |
| `Process` | – | processes and the references of their threads |
| `Ipc` | – | senders, local APIC, interrupt handler |
| `Bitmap`, `Pmm` | – | operators over bit functions; the frame allocator |
| `ZeroWorker` | `Pmm` | `MmuReleaseMemory`, the worker and the allocator together |
| `Vmm` | – | reservations, page table, frames, page fault; frames come and go as `Pmm` and `ZeroWorker` show |
| `Heap` | – | `cl_heap.c`; the heap lock makes a call one step |
| `HashTable` | – | `list.c` on links, `hash_table.c` on top, beside a set and a sequence as reference |
| `Storage` | – | volume, disk, drive; programmed I/O, DMA, its interrupt |
| `Fat` | – | the file system, every access to the volume a step that may fail |
| `NetworkTx`, `NetworkRx` | – | the two halves of the card and of the port driver |
| `Interrupts` | `Bitmap` | registration, routing, delivery and dispatch |
| `Keyboard` | – | the interrupt handler and `getch` |
| `CommandLine` | `Keyboard` | the line editor and its history |
| `MCSystem`, `MCMutex`, `MCThread`, `MCExEvent`, `MCKernel`, `MCIpc`, `MCVmmConsole`, `MCIo` | see section 3 | instances for TLC |
| `Thread_proofs`, `Mutex_proofs`, `ExEvent_proofs`, `Ipc_proofs` | the module of that name | theorems |
| `System_proofs` | `Spinlock`, `RecRwSpinlock`, `Process`, `Interrupts` | theorems about the locks a CPU spins on, processes and the registration and delivery of interrupts |
| `Io_proofs` | `Storage`, `NetworkTx`, `NetworkRx`, `Keyboard`, `CommandLine` | theorems about storage requests, both halves of the network card, the keyboard and the line editor |
| `Memory_proofs` | `Bitmap`, `Heap`, `Pmm`, `ZeroWorker`, `HashTable` | theorems about the allocators of heap memory and page frames, the lists and the hash table; its lemmas about numbers and bitmaps serve `System_proofs`, too |
| `Vmm_proofs` | `Vmm` | the theorem about virtual memory |

Components that share no state are checked side by side in one run: a variable
`unit`, chosen in the initial state, names the component that moves, and the
variables of the others stay as they are. Each still is the module of its own
that the table lists, with its own specification.

`Thread` is also used as an *abstract specification*: `Mutex` states
`UsesScheduler`, that every behaviour of the mutex, with a thread inside
`MutexAcquire` read as a thread that executes its own code, is a behaviour of
`Thread!Spec`; `ExEvent_proofs` does the same for the events. Both refinements are
proved, so what is proved about `Thread` holds for the two.
Definitions marked "Mutant" are deliberately broken forms of the definition that
follows them. They show that the properties notice.

### What one step is

*Interlocked operations and plain accesses* are a step each where no lock guards
them (`Spinlock`, `RwSpinlock`, `RecRwSpinlock`, `Ipc`, the tests of `Signaled`,
every access to a timer).

*A section under a spinlock* is one step where all accesses to the data it
touches are under that lock (`ReadyThreadsLock`, `MutexLock`, `ThreadListLock`,
`ProcessListLock`, `PidBitmapLock`, `EventListLock`, `AllocationLock`,
`PagesLock`, the heap lock, the lists of frames). The section disables interrupts, so its CPU does nothing else in
between; other CPUs cannot see its intermediate states; hence it commutes with
their steps. `OwnerExact` and `NoSelfDeadlock` of `Spinlock` (`SpinlockInv`), which are proved,
are what the argument rests on. Where a section contains a wait for another lock
(`MutexRelease` and `ExEventSignal` call `ThreadUnblock`, which spins on
`BlockLock`), the whole section waits: the step is disabled until the lock is
free, or (`ExEvent`) the outer lock's owner is state and every wake-up is a step.

*Data that is read after the lock was given up* is read in a step of its own.
This is where many deviations of section 6 come from.

*An access to a device or to a volume* is a step; interrupt handlers are steps of
the CPU that runs them, from the read of the interrupt cause to the signal.

### State and code

- `Thread`. `CurrentThread`, `PreviousThread`, `ReadyThreadsList`, `State`,
  `RefCnt`, `BlockLock` are the fields of that name; `pc[t]` is the point in
  `thread.c` where `t` is or will resume, `ret[t]` where it goes when the
  scheduler returns. `WaitingList[o]` is the list of object `o`; a thread stands
  for its own termination event. The timer interrupt is `ThreadYield` at any
  point where interrupts are on. User stacks, names, the list of all threads and
  statistics are left out; priorities are stored by the code and never used by
  the scheduler.
- `ExEvent`. `signals` and `returns` count and are read by properties only.
- `ExTimer`. `waiter[t]` is where a thread is in a function of the timer: after the
  test of `TimerUninited`, between the two tests of a round of `ExTimerWait`, or
  between the writes of `ExTimerUninit`. `TriggerTimeUs` is `% QwordSize`.
- `Process`. Every allocation that `ProcessCreate` and `ThreadCreateEx` test is
  an alternative that fails; "threadInit" and "threadParts" are the first and the
  later allocations of `_ThreadInit`. A failure of the later ones ends the model in
  `panicked` (deviation 28). Thread states are points in `ThreadCreateEx`,
  `ThreadExit`, `_ThreadDestroy`. Scheduling is left out: a live thread may move
  at any time. Destruction is decided by `_ProcessDereference`, when it takes the last
  reference (`"unreferenced"`), and carried out later.
- `Ipc`. `Irr[c]` is one bit, as in the hardware. `disturbed` records senders
  that were preempted by another sender or moved between choosing their targets
  and writing the command register; two properties read it.
- `Pmm`. A bitmap is a function from bit numbers to BOOLEAN; the byte layout is
  not modelled. `held` is the set of frames callers own, `asserted` says that an
  assertion of the bitmap failed.
- `ZeroWorker`. `NewPagesEvent` is `NewPagesSignaled` and the worker's `"blocked"`; how
  the event blocks a thread is `ExEvent`'s subject. `dirty` are the frames with
  data in them. `signalLost`, which only `QueuedIsSignaled` reads, says that the last
  signal came between the worker's look at the empty list and `ExEventClearSignal`.
  `"halted"` is the failed assertion of `MmuMapMemoryEx` (`mmu.c:601`).
- `Vmm`. `call[t]` has the arguments and locals of the call a thread is in,
  `at[t]` the point. `ReservationLock` is state, because its holder may be
  preempted and `VmmMemoryAccess` belongs to the CPU. Callers use a region after
  the call that made it returned and release it when nobody else uses it.
  `contended`, `preempted`, `written` and `dirty` are read by properties only.
- `Storage`. A request goes down three devices and up again, with the `DeviceLock`
  of each as a queue with hand-over, which `Mutex` shows it to be. `channel` are the
  registers both drives share. A drive that reports an error stops the kernel in the
  handler (`DriveFailed`, `ata_operations.c:885`).
- `NetworkTx`, `NetworkRx`. A frame is its number in the order of acceptance or
  arrival; the card and the link are external. An allocation that fails in
  `NetworkPortNotifyReceiveBuffer` (`network_miniport.c:47`) ends in the assertion of its
  caller (`RxFailed`, `eth_82574L_operations.c:234`).
- `Heap`. Addresses count from the start of the region. Where the code follows a
  dangling pointer the model ends (`heapStatus`).
- `Fat`. The content of a sector is the path it was written for. Where the code
  hands out a cluster twice the model ends and `volumeStatus` says by which way.
- `Interrupts`. `redirection`, `MaskInterrupts` and `msi` are the hardware state the
  code writes; `requests` is what the local APICs hold.
- `Keyboard`. A code carries a number and the key it means, which the code does not
  see; `overlapped` says that two CPUs were in the handler at once.
- `CommandLine`. `Buffer` is an array with what is left behind the terminator, `cursor`
  the position `i` of `gets_s`;
  `text` is what the user typed, kept without moving characters; `fits` becomes
  FALSE when the line outgrows the limit.
- `HashTable`. `links` are `Flink` and `Blink` of every node; `inTable`, `inList` and
  `toVisit` are the reference.

## 3. Runs

Twelve runs. "Pass" means that TLC explored the whole state space.

| Run | Checks | Instance |
|---|---|---|
| `system` | spinlock: `SpinlockInv` (`OwnerExact`, `NoSelfDeadlock`), `LockIsTaken`; reader-writer locks: `RwSpinlockInv` (types, `CountersExact`, `Exclusion`), `RecRwSpinlockInv` (types, `HolderExact`, `AcquiredIsFresh`, `HeldUntilBalanced`), `WriterProgress`; timers: `EveryWaitEnds`; processes: `ProcessInv` (types, `ThreadsKeepProcess`, `PidsExact`, `TerminationIsFinal`), `TerminatedIsReclaimed`; keyboard: `KeyIsTaken` | 2 CPUs with thread and handler, both forms of the lock; 3 CPUs, depth 2; 2 threads that wait, start, stop and uninitialise, a clock of 0..3, times 0, 2 and 6, a QWORD of 8 values; 2 processes, 2 threads, 2 PIDs, every failure; one scan code, 3 codes sent, 2 CPUs |
| `mutex` | `MutexInv` (types, `OwnerIsHolder`), `HandoverInOrder`, `UsesScheduler`, `WaiterAcquires` | 2 CPUs with their idle threads, 3 threads that compete, the third created by the others; depth 2 as long as there are two |
| `kernel` | scheduler: `OneStackPerCpu` (`OneCpuPerThread`, `ReadyIsOffCpu`), `ListsExact` (`NoThreadLost`, `WakesBlockedOnly`), `BlockLockHandover`, `ReadyIsFifo`; events: `EventInv` (types, `OneWaitPerSignal`, `WaitEndsAfterExit`), `AllListedAreWoken`; frames: `ZeroInv` (types, `PmmInv`, `QueuedOnce`, `FreeIsZeroed`), `QueuedIsSignaled`, `FirstFit`; `HeapInv` | 2 CPUs, 2 idle, 2 main threads and one that is created; any object, or one synchronization event signalled once and termination events; 4 memory maps, up to 3 frames a call, 2 releasers; a heap of 30 units, 5 kinds of requests |
| `thread_live` | `ReadyThreadRuns`, `TerminateTakesEffect` | the same threads, no object, one thread may be terminated |
| `ipc` | `IpcInv` (types, `NoUseAfterFree`, `HandledBeforeReturn`, `IsrFindsEvent`), `CallsReturn`; `HashInv` (types, `RingsAreWhole`, `TableIsExact`, `IterationIsComplete`) | 2 CPUs, 2 calls, three send modes, waiting or not; 4 elements with 3 keys in 2 chains, both hash functions |
| `vmm_console` | `VmmInv` (types, `Disjoint`, `MappedIsCommitted`, `FramesAreOwned`, `BufferCheckExact`, `SectionIsMarked`, `NoFrameLost`, `ContentsKept`); `ConsoleInv` (`OncePerPress`, `KeysInOrder`, `StringIsTerminated`, `LineIsText`, `HistoryIsExact`); `InterruptInv` (types, `RegisteredIsDelivered`, `VectorsAreOwned`, `ExclusiveIsFirst`), `ClaimedByOne` | 2 threads, 2 CPUs, 3 pages, 2 frames, 4 calls; 2 scan codes, 3 codes sent; lines of 5 with a prompt of 3, a history of 2; 6 devices, 4 pins, 2 vectors per IRQL |
| `io` | `StorageInv` (types, `LocksNest`, `PrdtExact`, `RequestExact`, `TransferInStep`), `RequestReturns`; `TxInv` (types, `FramesInOrder`), `AcceptedIsSent`; `RxInv` (types, `OneCall`, `ReceivedInOrder`), `CallsAreServed`; `FatInv` (types, `ChainsDisjoint`, `SizesCovered`, `ContentsFound`) | one drive with a primary and two logical partitions, 7 kinds of requests, 2 threads, 2 CPUs; rings of 3 and 2 descriptors, 4 frames sent, 2 received, one change of status; 2 volumes of 6 clusters, 3 paths, one failed access or loss of power |
| `thread_handle` (violation) | `HandleKeepsThread` | see 6.1 |
| `ex_event_lost` (violation) | `NobodyWaitsForTheDead` | see 6.2 |
| `storage_slave` (violation) | `TransferInStep`, with two drives on the channel | see 6.3 |
| `tx_overrun` (violation) | `DescriptorIsDone` | see 6.4 |
| `zero_lost` (violation) | `QueueIsServed` | see 6.13 |

**Why the bounds are enough.** The races in this code are between a thread that
leaves its CPU, one that wakes it and one that is scheduled meanwhile: two CPUs
and three threads contain them. Of three threads that compete for a mutex two wait
while the third holds it, or while one of them was handed it and has not run, so that
the order of the waiting list matters. The reader-writer locks get three CPUs, so that a
writer, a reader and a latecomer meet. The timer's QWORD is small so that a
relative time can wrap. The maps of `MCKernel` contain a region with a partial
last frame, a hole, an invalid entry, reserved memory at the top, usable memory up to
the highest address (where the worker may stop the kernel) and no usable memory at all; the minimum addresses one inside a frame and one past the end. Two
interrupts are what it takes to merge; three CPUs in `Ipc` only add targets. `Vmm`
has fewer frames than pages, so that every allocation of a frame fails in some
behaviour. The rings are small enough to become full and wrap. The buffers of
`MCIo` cross the boundary of the bus master and are misaligned. The volumes of
`MCIo` fill up, one of them has a bad cluster, a directory of two clusters
and an unknown free count; two failures instead of one were explored for FAT alone
with the same result. A prefix, its code and one more code are three, which shows
whether the prefix is forgotten.

Counters are bounded by
constants: `MaxSignals`, `MaxTime`, `MaxFrames`, `MaxRecursivityDepth`,
`MaxRecRwDepth`, `MaxCalls`, `MaxRequests`, `MaxSends`, `MaxStored`, `MaxChanges`,
`MaxRaises`, `MaxFaults` and `MaxCodes`.

**Deadlock** is checked in the runs of the scheduler (`kernel`, `mutex`,
`thread_live`), where an idle thread can always run; the frames and the heap that
`kernel` checks beside it may come to an end. In the others a finite number of processes,
calls, requests, frames or codes is used up, or an assertion stops the system, and
the behaviour may end; what must not stop there is a liveness property.

## 4. Fairness

- `Spinlock`, `RecRwSpinlock`: weak fairness of a CPU inside the lock's code,
  which runs with interrupts off; holders release (spinlocks guard code that
  cannot block). A holder of the recursive lock may nest, so its release is
  strongly fair at each depth.
- `Thread`: a CPU inside the scheduler goes on, and the timer keeps interrupting
  (`ThreadTick` sets the yield flag, the interrupt returns through `ThreadYield`).
- `Mutex`: in addition a thread that holds a mutex releases it if it gets CPU
  time again and again (strong fairness per thread and depth). Without it a holder
  could loop, which is the caller's business.
- `ExTimer`: time passes; a thread that yields runs again (`ReadyThreadRuns`). Nobody has
  to start, stop or uninitialise a timer.
- `Process`: code that was entered is left, marked threads reach a yield,
  holders of handles close them.
- `Ipc`: a sender gets CPU time; a pending interrupt is accepted at one of the
  moments interrupts are on; a handler runs to its end.
- `Storage`, `NetworkTx`, `NetworkRx`: threads inside a driver call are scheduled, the
  drive and the card finish what they were told to do, a pending interrupt is
  taken. Nobody has to call, and a caller that has no frame to receive waits.
- `Keyboard`: the thread of the command line is scheduled and a handler runs to its
  end; keys need not be pressed.
- `ZeroWorker`, `Vmm`, `Heap`, `Fat`, `Interrupts`, `HashTable`, `CommandLine` have safety
  properties only.

`OneWaitPerSignal` and the other safety properties assume none of this.

## 5. What is proved

TLAPS checks the theorems for every value of the constants that satisfies the
named assumptions.

**`System_proofs`**, the primitive lock: `OwnerInv` relates `State` and `Holder` to the
one context that owns the lock, between the compare-exchange and the final store.
`IntrInv` says that a context inside the lock's code has interrupts off.
`LockIsExclusive` is `OwnerExact`; `HandlerIsSafe` is `NoSelfDeadlock`, for both forms of
the lock; `SpinlockIsCorrect` is both.

The reader-writer spinlock (assumes fewer than 2^16 CPUs, which a WORD counter
needs): `CountersExact` says what each counter counts, as a cardinality. It is
almost inductive: with `RwTypeOK` and who excludes whom it is `IInv`. `MoveCount` says
how a cardinality changes when one CPU moves, `ZeroMeansNobody` that a zero counter
excludes everybody; `CountersAreExact` follows by cases over the steps and
`WriterExcludes` from the counters; `RwSpinlockIsCorrect` is the invariant the run
checks.
The recursive lock adds `RecIInv`: the holder field, the depth and the counters of the
lock below agree with the one CPU that is inside. `RecRwSpinlockIsCorrect` follows,
and `RecImplementsRw`: a CPU of the recursive lock, whatever its depth, is a CPU of
`RwSpinlock`, step by step.

**`Thread_proofs`** (assumes `Terminable = {}`: nobody calls `ThreadTerminate`;
6.5 says why). The checked invariants are not inductive alone: that a ready thread
is off its CPU (`ReadyIsOffCpu`) depends on who holds its `BlockLock`, which
depends on what the next thread on that CPU is about to do. The strengthening has
nine parts (`TypeOK`, `FlagsInv`, `CpuInv`, `IdleInv`, `ReadyInv`, `BlockInv`,
`WaitInv`, `StateInv`, `LostInv`), one lemma per action shows that it is kept, and
the theorems `TypeCorrect`, `NoSharedStack`, `ReadyThreadsAreOff`,
`ThreadsAreNotLost`, `WokenThreadIsBlocked` and `HandoverIsExact` follow, with
`StacksAreSafe` and `ListsAreExact` as the conjunctions the run checks.
`ReadyListIsFifo` is an action property; its lemmas say what `Append` and `Tail`
do to the order of a list without repetition. `DyingIsFinal` needs `DyingInv` in
addition (a dying thread is in the code of its exit and in no list): a thread that
began to exit stays so and is never scheduled again once it left its CPU.

**`Mutex_proofs`**, **`ExEvent_proofs`**. Both take `S == INSTANCE Thread_proofs WITH`
a mapping of the labels: a thread inside `MutexAcquire`, in the test of
`ExEventWaitForSignal` or in `ExEventSignal` executes code of its own, except that a
thread that signals its own termination is in `ThreadExit`. A lemma per action shows
that its image is a step of `Thread` or none (`MutexUsesScheduler`,
`EventsUseScheduler`), so that the invariant `S!IInv` comes for free and only what the
component adds has to be kept:
`MutexIInv` adds `WantedInv`, `QueueInv` and `OwnInv` (the holder, the waiting list and
what each thread wants agree; a handed over mutex belongs to a thread that is on its
way out of the wait) and gives `MutexIsCorrect` and the action property
`HandoverIsInOrder`;
`EventIInv` adds `ClientInv`, `CallInv`, `CountInv` (a synchronization event returns no
more waits than it got signals, counting the one still pending) and `TerminationInv`
(a termination event is signalled by a dying thread only) and gives `EventsAreCorrect`,
the action property `ListedAreWoken` and, for the scheduler under the events,
`EventsKeepScheduler`.

**`System_proofs`**, processes. `ProcessIInv` counts references exactly: `CountInv` says that the lists and counters of
a process are those of its threads and that its references are the first one, one per
linked thread and the handle; `ThreadRefInv` is the same for threads; `CreationInv`,
`CreatorInv` and `LastInv` say which threads a process has at each stage and that who
removed the last thread is alone. From it follows `ProcessIsCorrect`, for any number of
processes, threads and PIDs and whatever steps fail, until a `_ThreadInit` that failed with
a THREAD allocated has stopped the kernel (deviation 28).

**`System_proofs`**, interrupts. A registration chooses a vector in one step, inserts the
handler in a second and routes the interrupt in a third, while other CPUs take
interrupts; each step may fail and leaves behind what was done. `ChosenIsUsable` is
what the call that holds `GlobalInterruptLock` may rely on in between: its vector is
marked and has the priority asked for, an exclusive device has an empty list, and a
vector that is shared is the one the device's pin is routed to, or the first of a
priority whose vectors have run out. `PinsAreServed` (the vector of a pin has a handler)
makes an empty list a vector no pin has. Tables only grow (`TablesGrow`), so that who is
served stays served (`DeliveryStays`). `RegistrationsAreServed` is the `InterruptInv` of
the run, for any devices, wirings, overrides and numbers of vectors. 
That a handler claims each interrupt (`ClaimedByOne`) depends on which devices share a
vector. `UnhandledHasReason` says for every wiring what must be the case where all
handlers stay silent (`Excused`): a handler of the local APIC's own interrupts is listed,
the list mixes level triggered devices with others, or the vector's pin is the wire of a
device that is registered at another vector. The argument counts: `SomeoneClaims` gives
each interrupt on its way, a request or a walk along a list, a waiting device of its own
that the walk has yet to come to. A device that raises an edge joins the matching with
its request. Where a walk's handler serves the partner of another interrupt, that one takes
over the partner of the walk, which stands behind it in the list. Registrations append
to the lists, so a walk loses nothing by them (`ListedOnce`, `MessagesListed`). `InterruptsAreClaimed`
then proves `ClaimedByOne` under a hypothesis on the wiring alone: the devices of one
priority are all level triggered or none is, and devices on one wire have one priority
(`PrioritiesAreApart`). Vectors are shared only within a priority (`ListedAtPriority`),
and whoever is registered on a routed wire is in its list (`LinesAreListed`), so the
last two reasons do not occur. The devices of the run are mixed at one of its
priorities on purpose; there `ClaimedByOne` is what TLC finds, and the inductive invariant
was checked on wirings of either kind before it was proved.

**`Io_proofs`**, network. Rings of descriptors are compared by `Dist`, the way from one index
to another, whose lemmas (`DistFacts`, `SuccIs` and their like) replace the arithmetic
modulo the size. `TxIInv` says which descriptors the card still has to send (`TailInv`,
`RoomInv`) and that wire, ring, handled frame and list together are the accepted frames
in order, unless the ring was overrun (`OrderInv`); `TxIsCorrect` follows for any size of
the ring. `RxIInv` does the same for what was stored by the card, taken by the handler
and received, as long as no two handlers compete; `RxIsCorrect` follows.

**`Ipc_proofs`**. The life of one event is `LifeOf`: `RefOf` says that `RefCnt` is the
number of targets that are not through with it (`Pend`) and one for a waiter that has not
returned, `SenderOf` and `ListOf` where it is queued, `RanOf` who has called the
function, `SignalOf` that only the last target signals and that the sender takes that
signal once. A step concerns one event and leaves the others (`OthersKept`). For the
assertion of `_SmpIpcIpiIsr`, `InterruptInv` counts per CPU: the list is at least as long
as the interrupts that are pending, accepted or still to be sent for queued events,
which needs that undisturbed senders own their CPU and its command register.
`IpcIsCorrect` is the invariant the run checks, for any CPUs and any number of calls.

**`Io_proofs`**, storage. `BaseInv` holds for any number of drives: where a thread is in its
request fixes its stack location (`StageOf`), a thread below a level is at the head of
that level's `DeviceLock`, one that waits is in it (`LocksOf`), and at most one thread
waits for a transfer (`WaitersOf`); `DeviceLocksNest` follows. `StorageIsCorrect` is
about a channel with one drive (`SingleDrive`; with two the property is false, see 6.3).
There the thread at the drive has the channel (`AtDriveAlone`), and `ChannelInv` says
what channel, table, transfer and handlers hold at each point: `FreeChannel`,
`Preparing` while the command is written, and then `Completing`, through `InFlight`,
`Coming`, `Tested`, `Claimed` to `Over`, or `Lost` when an older handler's
acknowledgement removed the interrupt. `LifeOf` follows the request from the caller's
offset to the sectors on the disk, and `NamedCardinality` counts them. The assumption
`RequestAssumption` types the requests and the layout of the disk. That the table is
exact is `TableIsExact`, an induction over the rounds of the loop in
`_AtaPrepareDmaTransfer`: after every round but the last the table names the bytes of
the pairs taken so far, none of which runs out of bytes to describe, and the last pair
is cut at the end of the buffer. Its hypothesis `BuffersAreDescribed` is what
`MdlAllocateEx` (`mdl.c:60-151`) leaves: pairs that are not empty and cover the buffer,
of which the last is needed, because the last page begins inside the buffer. Without it
the loop would write empty entries; the module of the run `io` checks it for its
requests as an assumption.

**`Memory_proofs`**, heap. `HeapInv` compares neighbours in the list; `HeapIInv` says of
every two allocations that the earlier one ends before the later one begins
(`Ordered`), that the entry from which the search restarts is listed, and that the
bytes of the list have a total that the counters describe. `SearchFindsNeighbours`
shows that the circular search of `ClHeapAllocatePoolWithTag`, wherever it starts,
stops between neighbours or at the end: where it wraps around, no gap can be found. `HeapIsCorrect`
follows from what inserting and removing an element does to order and total.

**`Memory_proofs`**, page frames. `ScanFindsFirstRun` shows that the loop of
`_BitmapScanInternal` finds the first run of free bits, and `InitialBits` what the loop
of `_PmmInitializeAllocationBitmap` builds: a frame is free if the run of an entry that
is given out covers it. If every such entry is aligned and not smaller than a frame
(`MapsAreAligned`, see 6.12; the maps of `MCKernel` are, as an assumption of that
module says), that is the usable RAM (`RunOfRegion`), and no assertion fails.
`ZeroIInv` adds to the checked invariant what every queued run is (`QueuedIsHeld`) and
that the worker releases a zeroed run (`ReleasedIsZeroed`). `FramesAreZeroed` is the
invariant the run checks, `ReservationsAreFirstFit` its action property.
`QueuedIsNotForgotten` is `QueuedIsSignaled`: the event is set while the worker is awake,
and a run that is queued after the worker found the list empty has its signal before it
or has lost it (`AwakeIsSignaled`).

**`Memory_proofs`**, lists and hash table. The links are followed by a recursive function, so
the proof does not follow them: `HashIInv` says that there are sequences `R`, one per list
head, whose elements lie on no other list, such that the links of every head and its
elements are those of a ring in the order of its sequence (`Chained`, `Apart`, `Rings`). What
`_ValidateListEntry`, the walks along the links and the search in a chain then see is
read off `R` (`RingIsValid`, `RingIsVisited`, `SearchFinds`). The chains hold the table in
key order (`Holds`), the last ring is the list, and the cursor of an iteration stands
before what is still to be visited (`Cursor`). Every insertion and removal is
one `InsertAt` or `RemoveAt` on one sequence of `R`. `HashTableIsCorrect` is the invariant
the run checks, for any finite set of elements, any keys and either hash function; the
assumptions say that nodes, heads and NULL differ.

**`Vmm_proofs`**. `VmmInv` speaks of reservations, page table and frames, which a call
changes one after the other, under different locks; so it is not inductive, and
`VmmIInv` says of every thread what it is about to do. `ControlIInv` is about pages:
used entries of the list do not overlap (`Regions`), where a thread is fixes what its
call says (`Stages`), a thread that is past the reservation works on pages that are
reserved and, where it will map, committed (`Placed`), no two threads work on the
same page unless both solve faults (`Apart`), and who is inside `ReservationLock` and was not
preempted finds its own mark in `VmmMemoryAccess` (`Marks`). `MemoryIInv` is about frames: a
frame is behind a page, in the hand of one thread that took it, or not in use
(`FrameUse`, `FramesInUse`, `HandsApart`); a second page has the same frame only as the
copy an MDL describes, which is being made, stands, or is being given back
(`Aliases`); a page without a reservation is still mapped only while the thread that
took the reservation away has yet to unmap it (`MappedAreCommitted`); and a frame
that was not zeroed is behind a page somebody wrote (`Contents`). A step of one
thread leaves all this alone for the others as long as its pages are its own
(`WorksSame`, `AliasesSame`). `VirtualMemoryIsCorrect` is the invariant the run checks, for any
threads, CPUs, pages and frames. Its hypothesis `CallsAreOrdinary` is what callers in the
kernel do and the run assumes of its calls: a new region is put where there is room, frames at once
are asked for what is committed only (an `ASSERT` of `VmmAllocRegionEx`), a file is mapped in a
region of its own. Fault accounting, `NoFrameLost` and `ContentsKept`, is claimed until
a page is touched while another CPU solves a fault on it (`contended`, see 6.14).
An MDL of the model describes one or two pages; `PairsOf` says for both what the
loop of `MdlAllocateEx` makes of their frames, through the equations of the recursive
functions (`MdlUnfolds`, `MapUnfolds`).

**`Io_proofs`**, keyboard. `KbdIInv` numbers the codes: a code is in one place at a time
(controller, a handler, `Keycode`, the reader or what was returned: `CodesAreOnce`) and
numbers only grow (`NoneIsLater`), from which no press is read twice, whatever handlers
do. Order and meaning need one handler at a time (`OneHandler`), because the prefix
`extendedCode` is shared: as long as handlers did not overlap, what the controller or a
handler holds is decoded as the key it was.

**`Io_proofs`**, line editor. `LineIInv` says where the terminator can be: everything behind
`maxBufferSize` is NUL (`BufferEnds`), because an insertion into a full line pushes one
character one place behind it and the next insertion drops it; no character left of the
cursor is NUL (`CursorIsInside`). That the line is then a string in the buffer of
`CmdRun` needs a `CMD_SHELL_SIZE` of more than two (`LineAssumption`; it is three): this
is deviation 27. `TextIsShown` says that the buffer denotes the text while the line fits,
and `SlotFacts` replaces the arithmetic of the ring of the history. `ConsoleIsCorrect` is
the invariant the run checks, for any layout of keys, CPUs, length of a line and size of the
history.

The heap, the lists, the page frames, the interrupts, the line editor and the DMA table need induction over numbers. The library's induction theorems take an operator as
a parameter, but that a set of numbers has a least element (`Least`, `LeastOf`, from the theorems on
well-founded relations) does not: a recursive function agrees with a closed form
because there is no least number at which they differ. That a recursive function has a value at
all, which its definition by `CHOOSE` leaves open, is the same argument (`Recursion`).

**Only model-checked:** every liveness property (out of the prover's reach), and so far
the safety of `Fat`. `ClaimedByOne` is proved for wirings that keep triggers
apart; the run checks it for one that does not.

## 6. Known deviations

Places where the code does not do what a comment, a header or an assertion says, or
what its callers would expect. Items 1 to 4 and 13 are runs that end in a violation. The
models contain them unless the text says otherwise, so where a passing property is
conditional the condition names the deviation.

### Runs that end in a violation

1. *A thread freed under its handle.* `ThreadCleanupPostSchedule`
   (`thread.c:1062`) tests the previous thread's state after `ReadyThreadsLock`
   was released. A preempted thread that exits on another CPU first is
   dereferenced twice.
2. *A lost termination signal.* `ExEventWaitForSignal` (`ex_event.c:97`) does not
   test `Signaled` again under `EventLock`. `Storage`, `NetworkTx`, `NetworkRx` and
   `Keyboard` contain the same window (`missed`, `txMissed`, `rxMissed`, `Overslept`).
3. *The interrupt of the other drive.* The drives of a channel share the bus status
   register by which `_AtaDmaInterrupt` recognises its interrupt
   (`ata_operations.c:877`), and their `DeviceLock`s do not exclude each other.
4. *A full ring reported as free.* A delayed `EthHandleInterrupt`
   (`eth_82574L_operations.c:338`) sets `DescriptorsAvailable` after the ring became
   full again.

### Scheduler, processes, calls between processors

5. *Forced termination.* `ThreadBlock` (`thread.c:508`) exits a thread that is
   already linked in a waiting list; the next wake-up meets
   `ASSERT(ThreadStateBlocked == Thread->State)`. The run `kernel` and the
   proofs therefore leave `ThreadTerminate` out; `thread_live` has it, for a
   thread that does not block.
6. *`ThreadStateRunning`* is given to the first thread of a CPU only; a scheduled
   thread keeps `ThreadStateReady`.
7. *A process freed before it is returned.* `ProcessCreate` (`process.c:300`)
   references the process for its caller after the main thread was started.
8. *A thread that is never removed.* When the user stack cannot be allocated,
   `ThreadCreateEx` leaves the thread counted in its process (`"leaked"` in
   `Process`), which then never terminates.
9. *Merged interrupts.* `_SmpIpcIpiIsr` removes one event per interrupt, but two
   interrupts with one vector can be delivered as one: `CallsReturn` holds unless
   an event is `Stranded`.
10. *Preempted senders.* `SmpSendGenericIpiEx` may be moved to another CPU between
    choosing targets and sending, and interrupt a CPU it queued nothing for:
    `IsrFindsEvent` holds unless a sender was `disturbed`.
11. *Timers.* Periodic timers are never reloaded: nothing reads `ReloadTimeUs`. The
    trigger time is a QWORD sum that is not tested (`ex_timer.c:36`): a relative wait
    that should last longest wraps and returns at once. A start that races
    `ExTimerUninit` may leave the timer started and uninitialised, with waiters that
    wait for the trigger time (`StoppedForGood` excludes it).

### Memory

12. *Unaligned regions.* `_PmmInitializeAllocationBitmap` rounds a base up and
    keeps the length (`pmm.c:359`), so the last released frame can lie beyond the
    region. The maps of `MCKernel` have aligned bases.
13. *A lost signal of the zero worker*, a run that ends in a violation. The worker finds
    the list empty, releases the lock and then clears the event (`mmu.c:2046`); a run
    that is queued and signalled between the two stays queued, and its frames
    allocated, until somebody releases another one. `QueuedIsSignaled` says that there is
    no other way to forget a run.
14. *Two faults on one page.* Two CPUs that fault on a page each map a frame
    (`vmm.c:802`), the first frame is lost and the page can be seen before it is
    zeroed: `NoFrameLost` and `ContentsKept` hold unless `contended`.
15. *The mark of another CPU.* `vm_reservation_space.c:949` clears `VmmMemoryAccess`
    through a CPU pointer that may be stale: `SectionIsMarked` holds unless
    `preempted`.
16. *Failures of allocation.* A region that is not lazy and finds no frame is
    returned unmapped (`vmm.c:597`; `vmm.h:173` says otherwise); committing a mapped
    page at once loses its frame; a failed read of a file releases the whole
    reservation; `MmuAllocStack` keeps the reservation when the commit fails; a
    failed read in a fault leaves the page mapped.
17. *Reservations* that overlap others partly are accepted
    (`vm_reservation_space.c:280`); the rights of the last page of an unaligned buffer
    are not tested (`:1003`, `vmm.h:292`), so `BufferCheckExact` is stated for
    buffers that start at a page; `MmuGetSystemVirtualAddressForUserBuffer` reserves
    the size without the offset in the page.
18. *Not modelled:* other CPUs' TLBs are not invalidated (`vmm.c:1207`, `1258`);
    destroying an address space leaks its user frames (`vmm.c:971`).
19. *Heap.* `EntryToRestartSearch` dangles after a release (`cl_heap.c:371`, read at
    `235`), which ends the model; `pPreviousHeapEntry` is stale when the search
    passes the head (`ASSERT` at `247`); the gaps before the first entry and after
    the wrap are never used; the size of an entry is subtracted twice (`200`).
20. *Hash table.* At the end of an iteration `HashTableIteratorNext`
    (`hash_table.c:290`) initialises a list iterator one entry past the table. It
    reads nothing from it afterwards.

### Devices

21. *Late acknowledgement.* The handler signals before it acknowledges
    (`ata_operations.c:898`, `902`) and can clear the interrupt of the next transfer:
    `RequestReturns` holds unless `lateAck` or `missed`. An error of the drive stops the
    kernel (`NOT_REACHED`, `ata_operations.c:885`, `DriveFailed`).
22. *Disk.* Entries behind an extended partition entry are ignored (`disk.c:445`),
    empty primary entries become volumes without sectors, contiguous buffers of 64K
    and more are refused. *Not modelled:* two threads with one `FILE_OBJECT`
    advance `CurrentByteOffset` without a lock (`io_files.c:484`, `533`), also for
    explicit offsets; `IoCloseFile` does not free the object.
23. *Network.* Two handlers can deliver a frame twice (`eth_82574L_operations.c:221`,
    `competing`); the status of RX is written to the TX register (`396`); a receive
    blocks with `DeviceLock` held (`network_dispatch.c:297`), so `CallsAreServed` holds
    unless a caller waits for a frame; a frame for which no memory can be had stops the
    kernel (`eth_82574L_operations.c:234`, `RxFailed`); a comment and the test disagree at
    `network_port.c:244`. *Not modelled:* `NetGetNetworkDevices` takes a mutex while it
    holds a reader-writer spinlock (`network_interface.c:195`).
24. *FAT32.* A new file takes `FSI_Nxt_Free` without a test
    (`fat_operations.c:1053`); an unknown free count is decremented (`1082`); the
    test for an unknown hint comes behind the range test (`fat_utils.c:243`); the
    bound of the scan ignores the reserved sectors (`257`); the search does not wrap
    (`ASSERT` at `392`); errors of linking and a full disk are overwritten (`489`); a
    failed read of FSInfo leads to a zeroed one; a file whose end mark was not written
    owns a cluster that is free; a read at the end of a chain fails an assertion
    (`fat_operations.c:342`); a listing reads one entry past its buffer (`751`);
    directories are not extended (`998`). `FatInv` says what holds in spite of them,
    and the model ends where a cluster is given to two chains.
25. *Interrupts.* When the vectors of an IRQL run out an I/O APIC interrupt is given
    the first of them and never routed (`iomu.c:908`, `Stranded`);
    `_IoApicSystemRetrievePrtEntries` writes its count over the number of overrides
    (`ioapic_system.c:650`, `OverridesLost`); failed registrations leave handlers,
    routines and vectors behind (`iomu.c:901`, `911`, `938`); shared handlers may be
    listed behind an exclusive one that claims everything; a level triggered device
    that was stranded, or registered at another priority, keeps its wire raised and
    no handler of the wire's vector claims it (`ForeignLine`); the handlers of the local
    APIC's own interrupts return FALSE, against the assertion in
    `_IsrInterruptHandler`; an edge on a shared line can be lost.
26. *Keyboard.* One `Keycode` is overwritten by the next key; the comment at
    `keyboard.c:249` does not hold for released keys; handlers on two CPUs can mix
    prefix and order (`overlapped`); releasing one of two shift keys clears `Shift`.
    *Not modelled:* codes from 0x59 on index past the tables; `3` with shift yields
    the exclamation mark (`keyboard.c:437`).
27. *Line editor.* By insertion in the middle a line grows past the limit of
    `keyboard_utils.c:62` and loses its last characters (`fits`); it stays terminated
    only because the buffer of `CmdRun` is larger by the prompt. `UsedSize` is the
    position of the cursor (`274`), so that HOME and ENTER hand over a line of length
    0. A key without a character ends the line when the cursor stands at its limit.

### Assertions that stop the kernel

28. *A failed `_ThreadInit`.* When the THREAD could be allocated but its kernel stack or
    name cannot, `_ThreadInit` drops the only reference (`thread.c:805`) and
    `_ThreadDestroy` (`thread.c:1190`) removes a zeroed entry from the list of all
    threads and calls `ProcessRemoveThreadFromList` without a process: the list
    operation or `ASSERT(pProcess != NULL)` (`process.c:685`) stops the kernel. It
    happens in `ProcessCreate` and in any thread that creates another
    (`ThreadInitPanics`); `TerminatedIsReclaimed` holds unless `panicked`. When the THREAD
    itself cannot be allocated nothing is left behind (`ThreadInitFails`).
29. *The highest run.* `MmuMapMemoryEx` asserts that what it maps ends below the highest
    address present (`mmu.c:601`), with `<`: a released run that ends exactly there stops
    the kernel in the zero worker (`Halted`).

## 7. Not modelled, and what is left

The lines the map does not cover are mostly of these kinds:

- `src/acpi` is vendored: headers, and a library this repository does not build
  from source;
- register layouts, descriptors and tables of the hardware (`HAL`, the headers of
  the drivers, scan codes, the PCI and ACPI interfaces) have no behaviour of their
  own;
- boot, the set-up of CPUs, drives and the card are sequential register programming
  with nothing to interleave;
- logging, dumps, the commands of the interpreter, the PE parser, string and time
  functions are formatting and parsing;
- the kernel's tests, unit tests, user mode programs and their runtime;
- the assembly of context switch and interrupt entry is read as one step of the
  functions that use it.

System calls are a stub. SwapFS and the network stack pass calls through. The
check-in queue serves the kernel's tests only; a wait for more check-ins than it has
slots reads beyond them. In `Interrupts`, delivery to all CPUs, trigger mode
overrides in detail and the task priority are left out.

Left for proofs: the chains of `Fat` (`FatInv`).
