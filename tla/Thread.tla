------------------------------- MODULE Thread -------------------------------
(***************************************************************************)
(* The thread scheduler of the kernel (thread.c, _thread.yasm and the tail *)
(* of _IsrInterruptHandler): CPUs that share one FIFO ready list, threads  *)
(* that yield, block, are unblocked, exit and are destroyed.               *)
(*                                                                         *)
(* A step of a CPU is a maximal piece of code under one spinlock.          *)
(* ReadyThreadsLock is taken last and guards the ready list only, so the   *)
(* section between LockAcquire and LockRelease is one step and the lock    *)
(* needs no variable.  BlockLock is different: a thread takes its own, is  *)
(* switched out holding it, and the thread that runs next on the same CPU  *)
(* releases it, so its owner is state.                                     *)
(*                                                                         *)
(* Waiting objects (a mutex, an event, the termination event of a thread)  *)
(* appear here through their waiting list only; Mutex and ExEvent add the  *)
(* rest of their state.                                                    *)
(***************************************************************************)
EXTENDS Integers, Sequences, FiniteSets

CONSTANTS
    Cpus,           \* the processors
    Threads,        \* all threads, the idle threads included
    Idle,           \* Idle[c]: pCpu->ThreadData.IdleThread of CPU c
    Main,           \* Main[c]: the thread CPU c executes after start-up
    Objects,        \* the objects threads wait for, besides threads
    Terminable,     \* the threads ThreadTerminate is ever called for
    None

IdleThreads == {Idle[c] : c \in Cpus}
MainThreads == {Main[c] : c \in Cpus}

ASSUME ThreadAssumption ==
    /\ Idle \in [Cpus -> Threads]
    /\ Main \in [Cpus -> Threads]
    /\ \A c, d \in Cpus : c # d => Idle[c] # Idle[d] /\ Main[c] # Main[d]
    /\ \A c, d \in Cpus : Idle[c] # Main[d]
    /\ None \notin Threads /\ None \notin Cpus
    /\ Terminable \subseteq Threads \ IdleThreads
    /\ Threads \cap Objects = {}

\* A thread stands for its own TerminationEvt as an object to wait for.
Waitables == Objects \cup Threads

VARIABLES
    State,              \* THREAD.State
    Flags,              \* THREAD_FLAG_FORCE_TERMINATE_PENDING is set
    BlockLock,          \* BlockLock[t]: the CPU that owns t's BlockLock, or None
    RefCnt,             \* THREAD.RefCnt; 0 once _ThreadDestroy has freed the thread
    Handle,             \* the handle ThreadCreate returned is still open
    ReadyThreadsList,   \* m_threadSystemData.ReadyThreadsList
    WaitingList,        \* WaitingList[o]: THREAD.ReadyList links into object o
    CurrentThread,      \* pCpu->ThreadData.CurrentThread
    PreviousThread,     \* pCpu->ThreadData.PreviousThread
    pc,                 \* pc[t]: where t executes or will resume
    ret                 \* ret[t]: where t continues after the scheduler call

schedVars == <<State, Flags, BlockLock, RefCnt, Handle, ReadyThreadsList,
               WaitingList, CurrentThread, PreviousThread, pc, ret>>

(***************************************************************************)
(* Control points.  Interrupts are enabled at "run" and "idle" only.       *)
(*   "new"      not created                                                *)
(*   "run"      executes code of its own (an idle thread: sti; hlt)        *)
(*   "idle"     top of the loop of _IdleThread                             *)
(*   "yield"    in ThreadYield, about to take ReadyThreadsLock             *)
(*   "block"    owns its BlockLock, about to call ThreadBlock              *)
(*   "blocked"  in ThreadBlock, about to take ReadyThreadsLock             *)
(*   "exit"     at the start of ThreadExit                                 *)
(*   "signal"   in ThreadExit, in ExEventSignal(TerminationEvt)            *)
(*   "dead"     in ThreadExit, about to take ReadyThreadsLock              *)
(*   "off"      switched out in ThreadSwitch, or not yet at ThreadStart    *)
(*   "cleanup"  in ThreadCleanupPostSchedule, about to test BlockLock      *)
(*   "cleanup2" there, about to test for ThreadStateDying                  *)
(***************************************************************************)
Interruptible == {"run", "idle"}
SchedLabels == {"new", "yield", "block", "blocked", "exit", "signal", "dead",
                "off", "cleanup", "cleanup2"}
States == {"Running", "Ready", "Blocked", "Dying"}

Running(t) == \E c \in Cpus : CurrentThread[c] = t
InReadyList(t) == \E i \in DOMAIN ReadyThreadsList : ReadyThreadsList[i] = t
InWaitingList(o, t) == \E i \in DOMAIN WaitingList[o] : WaitingList[o][i] = t

Ahead(list, a, b) == \E i, j \in DOMAIN list : i < j /\ list[i] = a /\ list[j] = b

Goto(t, l) == pc' = [pc EXCEPT ![t] = l]

\* After ThreadSystemInitIdleForCurrentCPU on every CPU: the main threads run,
\* the idle threads exist, the rest has not been created.
ThreadSystemInit ==
    /\ State = [t \in Threads |-> IF t \in MainThreads THEN "Running"
                                  ELSE IF t \in IdleThreads THEN "Ready" ELSE "Blocked"]
    /\ Flags = [t \in Threads |-> FALSE]
    /\ BlockLock = [t \in Threads |-> None]
    /\ RefCnt = [t \in Threads |-> IF t \in MainThreads \cup IdleThreads THEN 1 ELSE 0]
    /\ Handle = [t \in Threads |-> FALSE]
    /\ ReadyThreadsList = <<>>
    /\ WaitingList = [o \in Waitables |-> <<>>]
    /\ CurrentThread = Main
    /\ PreviousThread = [c \in Cpus |-> None]
    /\ pc = [t \in Threads |-> IF t \in MainThreads THEN "run"
                               ELSE IF t \in IdleThreads THEN "off" ELSE "new"]
    /\ ret = [t \in Threads |-> IF t \in IdleThreads THEN "idle" ELSE "run"]

----------------------------------------------------------------------------
\* _ThreadSchedule with _ThreadGetReadyThread, called by thread t on CPU c with
\* the ready list `list`; ends when ThreadCleanupPostSchedule, on the thread
\* that runs next, has released ReadyThreadsLock.

\* _ThreadGetReadyThread: the head of the ready list or the idle thread.
GetReadyThread(c, list) == IF list = <<>> THEN Idle[c] ELSE Head(list)

Schedule(c, t, list) ==
    LET next == GetReadyThread(c, list)
    IN  /\ ReadyThreadsList' = IF list = <<>> THEN <<>> ELSE Tail(list)
        /\ PreviousThread' = [PreviousThread EXCEPT ![c] = t]
        /\ CurrentThread' = [CurrentThread EXCEPT ![c] = next]
        /\ pc' = [pc EXCEPT ![t] = "off", ![next] = "cleanup"]

----------------------------------------------------------------------------
\* ThreadYield: called by the thread or, through ThreadTick and the interrupt
\* return, by the timer.  A pending termination turns it into ThreadExit.

\* Mutant: a pending termination is not looked at.
YieldIgnoresTerminate(c, labels) ==
    LET t == CurrentThread[c]
    IN  /\ pc[t] \in labels
        /\ Goto(t, "yield")
        /\ ret' = [ret EXCEPT ![t] = IF t = Idle[c] THEN "idle" ELSE pc[t]]
        /\ UNCHANGED <<State, Flags, BlockLock, RefCnt, Handle, ReadyThreadsList,
                       WaitingList, CurrentThread, PreviousThread>>

YieldAt(c, labels) ==
    LET t == CurrentThread[c]
    IN  /\ pc[t] \in labels
        /\ Goto(t, IF Flags[t] THEN "exit" ELSE "yield")
        /\ ret' = [ret EXCEPT ![t] = IF t = Idle[c] THEN "idle" ELSE pc[t]]
        /\ UNCHANGED <<State, Flags, BlockLock, RefCnt, Handle, ReadyThreadsList,
                       WaitingList, CurrentThread, PreviousThread>>

ThreadYield(c) == YieldAt(c, Interruptible)

\* Mutant: the thread that yields is inserted at the head of the ready list.
YieldAtHead(c) ==
    LET t == CurrentThread[c]
    IN  /\ pc[t] = "yield"
        /\ State' = [State EXCEPT ![t] = "Ready"]
        /\ Schedule(c, t, IF t = Idle[c] THEN ReadyThreadsList
                          ELSE <<t>> \o ReadyThreadsList)
        /\ UNCHANGED <<Flags, BlockLock, RefCnt, Handle, WaitingList, ret>>

\* The part of ThreadYield under ReadyThreadsLock.
YieldSchedule(c) ==
    LET t == CurrentThread[c]
    IN  /\ pc[t] = "yield"
        /\ State' = [State EXCEPT ![t] = "Ready"]
        /\ Schedule(c, t, IF t = Idle[c] THEN ReadyThreadsList
                          ELSE Append(ReadyThreadsList, t))
        /\ UNCHANGED <<Flags, BlockLock, RefCnt, Handle, WaitingList, ret>>

----------------------------------------------------------------------------
\* How every waiting thread blocks: under the lock of object o it links itself
\* into o's waiting list and takes its own BlockLock (MutexAcquire,
\* ExEventWaitForSignal); ThreadBlock follows.

WaitAt(c, o, after) ==
    LET t == CurrentThread[c]
    IN  /\ t # Idle[c]
        /\ BlockLock[t] = None
        /\ WaitingList' = [WaitingList EXCEPT ![o] = Append(@, t)]
        /\ BlockLock' = [BlockLock EXCEPT ![t] = c]
        /\ Goto(t, "block")
        /\ ret' = [ret EXCEPT ![t] = after]
        /\ UNCHANGED <<State, Flags, RefCnt, Handle, ReadyThreadsList,
                       CurrentThread, PreviousThread>>

\* A thread waits for another one through the handle it holds.
WaitOn(c, o) ==
    /\ pc[CurrentThread[c]] = "run"
    /\ o \in Threads => Handle[o] /\ o # CurrentThread[c]
    /\ WaitAt(c, o, "run")

\* _IdleThread: CpuIntrDisable, ThreadTakeBlockLock; it waits for no object.
IdleTakeBlockLock(c) ==
    LET t == CurrentThread[c]
    IN  /\ t = Idle[c] /\ pc[t] = "idle"
        /\ BlockLock[t] = None
        /\ BlockLock' = [BlockLock EXCEPT ![t] = c]
        /\ Goto(t, "block")
        /\ ret' = [ret EXCEPT ![t] = "run"]
        /\ UNCHANGED <<State, Flags, RefCnt, Handle, ReadyThreadsList, WaitingList,
                       CurrentThread, PreviousThread>>

\* ThreadBlock before it takes ReadyThreadsLock.
ThreadBlock(c) ==
    LET t == CurrentThread[c]
    IN  /\ pc[t] = "block"
        /\ State' = IF Flags[t] THEN State ELSE [State EXCEPT ![t] = "Blocked"]
        /\ Goto(t, IF Flags[t] THEN "exit" ELSE "blocked")
        /\ UNCHANGED <<Flags, BlockLock, RefCnt, Handle, ReadyThreadsList,
                       WaitingList, CurrentThread, PreviousThread, ret>>

\* The part of ThreadBlock under ReadyThreadsLock.
BlockSchedule(c) ==
    LET t == CurrentThread[c]
    IN  /\ pc[t] = "blocked"
        /\ Schedule(c, t, ReadyThreadsList)
        /\ UNCHANGED <<State, Flags, BlockLock, RefCnt, Handle, WaitingList, ret>>

----------------------------------------------------------------------------
\* Mutant: ThreadUnblock does not take the BlockLock of the thread it wakes.
UnblockWithoutLock(u) ==
    /\ ReadyThreadsList' = Append(ReadyThreadsList, u)
    /\ State' = [State EXCEPT ![u] = "Ready"]

\* Mutant: ThreadUnblock inserts at the head of the ready list.
UnblockAtHead(u) ==
    /\ BlockLock[u] = None
    /\ ReadyThreadsList' = <<u>> \o ReadyThreadsList
    /\ State' = [State EXCEPT ![u] = "Ready"]

\* Mutant: ThreadUnblock forgets to insert the thread in the ready list.
UnblockLosesThread(u) ==
    /\ BlockLock[u] = None
    /\ State' = [State EXCEPT ![u] = "Ready"]
    /\ UNCHANGED ReadyThreadsList

\* ThreadUnblock(u): spins until u's BlockLock is free, then makes u ready.
ThreadUnblock(u) ==
    /\ BlockLock[u] = None
    /\ ReadyThreadsList' = Append(ReadyThreadsList, u)
    /\ State' = [State EXCEPT ![u] = "Ready"]

\* A running thread wakes the first waiter of o (MutexRelease, ExEventSignal).
WakeAt(c, o, after) ==
    /\ WaitingList[o] # <<>>
    /\ ThreadUnblock(Head(WaitingList[o]))
    /\ WaitingList' = [WaitingList EXCEPT ![o] = Tail(@)]
    /\ Goto(CurrentThread[c], after)
    /\ UNCHANGED <<Flags, BlockLock, RefCnt, Handle, CurrentThread, PreviousThread, ret>>

WakeFirst(c, o) ==
    /\ pc[CurrentThread[c]] = "run"
    /\ o \in Objects
    /\ WakeAt(c, o, "run")

----------------------------------------------------------------------------
\* ThreadExit: CpuIntrDisable, drop an owned BlockLock, become dying, signal the
\* termination event (which wakes every waiter), then schedule for the last time.
\* ProcessNotifyThreadTermination changes nothing a thread of the system process
\* can see; Process models it.

CallThreadExit(c) ==
    LET t == CurrentThread[c]
    IN  /\ pc[t] = "run" /\ t # Idle[c]
        /\ Goto(t, "exit")
        /\ UNCHANGED <<State, Flags, BlockLock, RefCnt, Handle, ReadyThreadsList,
                       WaitingList, CurrentThread, PreviousThread, ret>>

ThreadExit(c) ==
    LET t == CurrentThread[c]
    IN  /\ pc[t] = "exit"
        /\ BlockLock' = [BlockLock EXCEPT ![t] = IF @ = c THEN None ELSE @]
        /\ State' = [State EXCEPT ![t] = "Dying"]
        /\ Goto(t, "signal")
        /\ UNCHANGED <<Flags, RefCnt, Handle, ReadyThreadsList, WaitingList,
                       CurrentThread, PreviousThread, ret>>

ExitSignal(c) ==
    LET t == CurrentThread[c]
    IN  /\ pc[t] = "signal"
        /\ \/ WakeAt(c, t, "signal")
           \/ /\ WaitingList[t] = <<>>
              /\ Goto(t, "dead")
              /\ UNCHANGED <<State, Flags, BlockLock, RefCnt, Handle, ReadyThreadsList,
                             WaitingList, CurrentThread, PreviousThread, ret>>

ExitSchedule(c) ==
    LET t == CurrentThread[c]
    IN  /\ pc[t] = "dead"
        /\ Schedule(c, t, ReadyThreadsList)
        /\ UNCHANGED <<State, Flags, BlockLock, RefCnt, Handle, WaitingList, ret>>

----------------------------------------------------------------------------
\* ThreadCleanupPostSchedule after LockRelease(ReadyThreadsLock).  The previous
\* thread is read again here without any lock.

\* Mutant: the BlockLock of the previous thread is never released.
CleanupKeepsBlockLock(c) ==
    LET t == CurrentThread[c]
    IN  /\ pc[t] = "cleanup"
        /\ Goto(t, IF BlockLock[PreviousThread[c]] = c THEN ret[t] ELSE "cleanup2")
        /\ UNCHANGED <<State, Flags, BlockLock, RefCnt, Handle, ReadyThreadsList,
                       WaitingList, CurrentThread, PreviousThread, ret>>

CleanupBlockLock(c) ==
    LET t == CurrentThread[c]
        prev == PreviousThread[c]
    IN  /\ pc[t] = "cleanup"
        /\ BlockLock' = [BlockLock EXCEPT ![prev] = IF @ = c THEN None ELSE @]
        /\ Goto(t, IF BlockLock[prev] = c THEN ret[t] ELSE "cleanup2")
        /\ UNCHANGED <<State, Flags, RefCnt, Handle, ReadyThreadsList, WaitingList,
                       CurrentThread, PreviousThread, ret>>

\* The State of a freed thread reads as anything.
CleanupDying(c) ==
    LET t == CurrentThread[c]
        prev == PreviousThread[c]
        freed == RefCnt[prev] <= 0
    IN  /\ pc[t] = "cleanup2"
        /\ Goto(t, ret[t])
        /\ \/ /\ State[prev] = "Dying" \/ freed
              /\ RefCnt' = [RefCnt EXCEPT ![prev] = @ - 1]
              /\ PreviousThread' = [PreviousThread EXCEPT ![c] = None]
           \/ /\ State[prev] # "Dying" \/ freed
              /\ UNCHANGED <<RefCnt, PreviousThread>>
        /\ UNCHANGED <<State, Flags, BlockLock, Handle, ReadyThreadsList, WaitingList,
                       CurrentThread, ret>>

----------------------------------------------------------------------------
\* ThreadCreate by a running thread: two references (the handle and the thread
\* itself), then ThreadUnblock.
ThreadCreate(c, u) ==
    /\ pc[CurrentThread[c]] = "run" /\ CurrentThread[c] # Idle[c]
    /\ pc[u] = "new"
    /\ RefCnt' = [RefCnt EXCEPT ![u] = 2]
    /\ Handle' = [Handle EXCEPT ![u] = TRUE]
    /\ Goto(u, "off")
    /\ ThreadUnblock(u)
    /\ UNCHANGED <<Flags, BlockLock, WaitingList, CurrentThread, PreviousThread, ret>>

\* The holder of the handle closes it when it has no wait under way on it.
ThreadCloseHandle(c, u) ==
    /\ pc[CurrentThread[c]] = "run" /\ CurrentThread[c] # Idle[c]
    /\ Handle[u] /\ WaitingList[u] = <<>>
    /\ Handle' = [Handle EXCEPT ![u] = FALSE]
    /\ RefCnt' = [RefCnt EXCEPT ![u] = @ - 1]
    /\ UNCHANGED <<State, Flags, BlockLock, ReadyThreadsList, WaitingList,
                   CurrentThread, PreviousThread, pc, ret>>

\* ThreadTerminate needs the thread structure: the caller holds the handle.
ThreadTerminate(c, u) ==
    /\ pc[CurrentThread[c]] = "run" /\ CurrentThread[c] # Idle[c]
    /\ u \in Terminable /\ Handle[u] /\ ~Flags[u]
    /\ Flags' = [Flags EXCEPT ![u] = TRUE]
    /\ UNCHANGED <<State, BlockLock, RefCnt, Handle, ReadyThreadsList, WaitingList,
                   CurrentThread, PreviousThread, pc, ret>>

----------------------------------------------------------------------------
\* What a CPU does by itself once it is inside the scheduler.
SchedStep(c) ==
    \/ YieldSchedule(c)
    \/ IdleTakeBlockLock(c)
    \/ ThreadBlock(c)
    \/ BlockSchedule(c)
    \/ ThreadExit(c)
    \/ ExitSignal(c)
    \/ ExitSchedule(c)
    \/ CleanupBlockLock(c)
    \/ CleanupDying(c)

\* What the code of the running thread may call.
ThreadCall(c) ==
    \/ CallThreadExit(c)
    \/ \E o \in Waitables : WaitOn(c, o)
    \/ \E o \in Objects : WakeFirst(c, o)
    \/ \E u \in Threads : ThreadCreate(c, u) \/ ThreadCloseHandle(c, u) \/ ThreadTerminate(c, u)

Next == \E c \in Cpus : SchedStep(c) \/ ThreadYield(c) \/ ThreadCall(c)

Spec == ThreadSystemInit /\ [][Next]_schedVars

\* A CPU never stops inside the scheduler, and the timer keeps interrupting
\* whatever runs with interrupts enabled.
Fairness == \A c \in Cpus : WF_schedVars(SchedStep(c)) /\ WF_schedVars(ThreadYield(c))

FairSpec == Spec /\ Fairness

----------------------------------------------------------------------------
\* Properties

TypeOK ==
    /\ State \in [Threads -> States]
    /\ Flags \in [Threads -> BOOLEAN]
    /\ BlockLock \in [Threads -> Cpus \cup {None}]
    /\ RefCnt \in [Threads -> Int]
    /\ Handle \in [Threads -> BOOLEAN]
    /\ ReadyThreadsList \in Seq(Threads)
    /\ WaitingList \in [Waitables -> Seq(Threads)]
    /\ CurrentThread \in [Cpus -> Threads]
    /\ PreviousThread \in [Cpus -> Threads \cup {None}]
    /\ pc \in [Threads -> SchedLabels \cup Interruptible]
    /\ ret \in [Threads -> Interruptible]

\* No thread ever executes on two CPUs: its kernel stack would be shared.
OneCpuPerThread == \A c, d \in Cpus :
    c # d => CurrentThread[c] # CurrentThread[d]

\* A thread that a CPU may pick next is not still executing on the CPU that is
\* about to switch away from it ("a thread is unblocked while in the process
\* of being blocked (thus still running on the CPU)").
ReadyIsOffCpu == \A t \in Threads :
    InReadyList(t) => ~Running(t) /\ pc[t] = "off"

\* No stack is used by two CPUs, now or after the next switch.
OneStackPerCpu == OneCpuPerThread /\ ReadyIsOffCpu

\* No thread is lost or linked twice: THREAD.ReadyList is one link, so a thread
\* is in at most one list and once; a created, living thread that is neither
\* running nor idle is in the ready list or in a waiting list.
NoThreadLost == \A t \in Threads :
    /\ \A i, j \in DOMAIN ReadyThreadsList :
           ReadyThreadsList[i] = t /\ ReadyThreadsList[j] = t => i = j
    /\ InReadyList(t) => \A o \in Waitables : ~InWaitingList(o, t)
    /\ pc[t] = "off" /\ t \notin IdleThreads /\ State[t] # "Dying" =>
           InReadyList(t) \/ \E o \in Waitables : InWaitingList(o, t)

\* ThreadUnblock's ASSERT(ThreadStateBlocked == Thread->State) for whoever is
\* woken next.
WakesBlockedOnly == \A o \in Waitables :
    WaitingList[o] # <<>> =>
        LET u == Head(WaitingList[o]) IN BlockLock[u] = None => State[u] = "Blocked"

\* The one link of a thread is in the list that its state says.
ListsExact == NoThreadLost /\ WakesBlockedOnly

\* A BlockLock is owned only from ThreadTakeBlockLock until the next thread on
\* the same CPU has released it, and then its owner has blocked: the assertion
\* of ThreadCleanupPostSchedule.
BlockLockHandover == \A t \in Threads, c \in Cpus :
    BlockLock[t] = c =>
        \/ CurrentThread[c] = t /\ pc[t] \in {"block", "blocked", "exit", "cleanup"}
        \/ /\ PreviousThread[c] = t /\ pc[CurrentThread[c]] = "cleanup"
           /\ State[t] = "Blocked"

\* The ready list is served first come, first served: no step puts a thread
\* ahead of one that was in the list before it.
ReadyIsFifo == [][
    \A a, b \in Threads :
        Ahead(ReadyThreadsList', b, a) /\ InReadyList(a) => Ahead(ReadyThreadsList, b, a)
    ]_schedVars

\* Every ready thread runs again, whatever the other threads do.
ReadyThreadRuns == \A t \in Threads \ IdleThreads : InReadyList(t) ~> Running(t)

\* ThreadTerminate only sets a flag; the thread notices it at its next ThreadYield
\* or ThreadBlock and exits, be it by the timer.
TerminateTakesEffect == \A t \in Terminable : Flags[t] ~> State[t] = "Dying"

\* thread.h: "its data structure will not be un-allocated until the handle
\* receive in Thread is closed with ThreadCloseHandle".
HandleKeepsThread == \A t \in Threads : Handle[t] => RefCnt[t] > 0

=============================================================================
