------------------------------ MODULE Process -------------------------------
(***************************************************************************)
(* The life of processes and their threads (process.c, um_application.c,   *)
(* ThreadCreateEx and _ThreadDestroy of thread.c, ref_cnt.c): who holds    *)
(* which reference, when a process terminates, when it is destroyed, which *)
(* PID it has.  Scheduling is left to Thread: here every living thread may *)
(* take its next step at any time.                                         *)
(*                                                                         *)
(* A section under ThreadListLock, ProcessListLock or PidBitmapLock is one *)
(* step; an interlocked operation is one step.                             *)
(***************************************************************************)
EXTENDS Integers, FiniteSets

CONSTANTS
    Processes,      \* the user processes that are ever created
    Threads,        \* their threads
    Pids,           \* the PIDs PidBitmap can give out; 0 is reserved
    Failures,       \* the steps of a creation that may fail, a subset of FailSteps
    None

\* Where ProcessCreate or ThreadCreateEx can fail: the allocations of _ProcessInit,
\* UmApplicationRetrieveHeader, MmuCreateAddressSpaceForProcess, MmuLoadPe; in _ThreadInit
\* the allocation of the THREAD and those of its kernel stack and name ("threadParts");
\* MmuAllocStack for the user stack.
FailSteps == {"init", "header", "space", "load", "threadInit", "threadParts", "userStack"}

ASSUME ProcessAssumption ==
    /\ Pids \subseteq Nat \ {0}
    /\ None \notin Processes \cup Threads
    /\ Failures \subseteq FailSteps
    /\ IsFiniteSet(Threads)

VARIABLES
    procState,          \* "none", "alive", "unreferenced" (the last reference was dropped),
                        \* "unlisted" (in _ProcessDestroy), "freed"
    RefCnt,             \* PROCESS.RefCnt
    NumberOfThreads,    \* PROCESS.NumberOfThreads
    ActiveThreads,      \* PROCESS.ActiveThreads
    ThreadList,         \* PROCESS.ThreadList
    Id,                 \* PROCESS.Id
    Terminated,         \* PROCESS.TerminationEvt is signalled
    Handle,             \* the caller of ProcessCreate has the handle
    creation,           \* creation[p]: how far ProcessCreate is
    mainThread,         \* mainThread[p]: the thread UmApplicationRun created
    ProcessList,        \* m_processData.ProcessList
    PidBitmap,          \* the bits set in m_processData.PidBitmap
    threadState,        \* "none", "init", "listed", "leaked", "alive", "exiting",
                        \* "dead", "destroying", "lastUnlinked", "freed"
    Owner,              \* THREAD.Process
    creator,            \* the thread that executes ThreadCreateEx, or None for
                        \* the caller of ProcessCreate
    threadRef,          \* THREAD.RefCnt
    threadHandle,       \* the handle of the thread is open
    terminatePending,   \* THREAD_FLAG_FORCE_TERMINATE_PENDING
    panicked            \* an assertion failed: the kernel stopped

procVars == <<procState, RefCnt, NumberOfThreads, ActiveThreads, ThreadList, Id,
              Terminated, Handle, creation, mainThread, ProcessList, PidBitmap>>
threadVars == <<threadState, Owner, creator, threadRef, threadHandle, terminatePending>>
processVars == <<procVars, threadVars, panicked>>

Set(f, x, v) == [f EXCEPT ![x] = v]
ThreadGoto(t, s) == threadState' = Set(threadState, t, s)
CreationGoto(p, s) == creation' = Set(creation, p, s)

ProcessSystemInit ==
    /\ procState = [p \in Processes |-> "none"]
    /\ RefCnt = [p \in Processes |-> 0]
    /\ NumberOfThreads = [p \in Processes |-> 0]
    /\ ActiveThreads = [p \in Processes |-> 0]
    /\ ThreadList = [p \in Processes |-> {}]
    /\ Id = [p \in Processes |-> 0]
    /\ Terminated = [p \in Processes |-> FALSE]
    /\ Handle = [p \in Processes |-> FALSE]
    /\ creation = [p \in Processes |-> "none"]
    /\ mainThread = [p \in Processes |-> None]
    /\ ProcessList = {}
    /\ PidBitmap = {}
    /\ threadState = [t \in Threads |-> "none"]
    /\ Owner = [t \in Threads |-> None]
    /\ creator = [t \in Threads |-> None]
    /\ threadRef = [t \in Threads |-> 0]
    /\ threadHandle = [t \in Threads |-> FALSE]
    /\ terminatePending = [t \in Threads |-> FALSE]
    /\ panicked = FALSE

\* _ProcessDereference: whoever drops the last reference calls _ProcessDestroy, whatever
\* becomes of the counter meanwhile.
ProcessDereference(p) ==
    /\ RefCnt' = Set(RefCnt, p, RefCnt[p] - 1)
    /\ procState' = IF RefCnt[p] = 1 THEN Set(procState, p, "unreferenced") ELSE procState

----------------------------------------------------------------------------
\* ProcessCreate

\* _ProcessInit up to the PID: on failure the structure is freed again and the
\* process was never visible.
ProcessInit(p) ==
    /\ creation[p] = "none"
    /\ \/ /\ "init" \in Failures
          /\ CreationGoto(p, "failed")
          /\ procState' = Set(procState, p, "freed")
          /\ UNCHANGED <<RefCnt, Id, PidBitmap>>
       \/ \E pid \in Pids \ PidBitmap :
             /\ \A free \in Pids \ PidBitmap : pid <= free
             /\ Id' = Set(Id, p, pid)
             /\ PidBitmap' = PidBitmap \cup {pid}
             /\ RefCnt' = Set(RefCnt, p, 1)
             /\ procState' = Set(procState, p, "alive")
             /\ CreationGoto(p, "list")
    /\ UNCHANGED <<NumberOfThreads, ActiveThreads, ThreadList, Terminated, Handle, mainThread,
                   ProcessList, threadVars>>

ProcessInsertInList(p) ==
    /\ creation[p] = "list"
    /\ ProcessList' = ProcessList \cup {p}
    /\ CreationGoto(p, "header")
    /\ UNCHANGED <<procState, RefCnt, NumberOfThreads, ActiveThreads, ThreadList, Id,
                   Terminated, Handle, mainThread, PidBitmap, threadVars>>

\* UmApplicationRetrieveHeader, MmuCreateAddressSpaceForProcess, MmuLoadPe.
NextCreation(s) == CASE s = "header" -> "space" [] s = "space" -> "load" [] s = "load" -> "threadInit"

ProcessPrepare(p) ==
    /\ creation[p] \in {"header", "space", "load"}
    /\ \/ CreationGoto(p, NextCreation(creation[p]))
       \/ creation[p] \in Failures /\ CreationGoto(p, "fail")
    /\ UNCHANGED <<procState, RefCnt, NumberOfThreads, ActiveThreads, ThreadList, Id,
                   Terminated, Handle, mainThread, ProcessList, PidBitmap, threadVars>>

\* __finally of ProcessCreate after a failure.
ProcessCreateFails(p) ==
    /\ creation[p] = "fail"
    /\ CreationGoto(p, "failed")
    /\ ProcessDereference(p)
    /\ UNCHANGED <<NumberOfThreads, ActiveThreads, ThreadList, Id,
                   Terminated, Handle, mainThread, ProcessList, PidBitmap, threadVars>>

\* __finally of UmApplicationRun: ThreadCloseHandle of the main thread.
CloseMainThread(p) ==
    LET t == mainThread[p]
    IN  /\ creation[p] = "close"
        /\ threadHandle' = Set(threadHandle, t, FALSE)
        /\ threadRef' = Set(threadRef, t, threadRef[t] - 1)
        /\ CreationGoto(p, "reference")
        /\ UNCHANGED <<procState, RefCnt, NumberOfThreads, ActiveThreads, ThreadList, Id,
                       Terminated, Handle, mainThread, ProcessList, PidBitmap,
                       threadState, Owner, creator, terminatePending>>

\* __finally of ProcessCreate after success: the reference of the handle.  If the
\* process is being destroyed already this increments a counter in freed memory.
ProcessCreateReturns(p) ==
    /\ creation[p] = "reference"
    /\ CreationGoto(p, "done")
    /\ RefCnt' = Set(RefCnt, p, RefCnt[p] + 1)
    /\ Handle' = Set(Handle, p, TRUE)
    /\ UNCHANGED <<procState, NumberOfThreads, ActiveThreads, ThreadList, Id, Terminated, mainThread,
                   ProcessList, PidBitmap, threadVars>>

\* Calls through the handle of a process that is being destroyed are not followed.
ProcessCloseHandle(p) ==
    /\ Handle[p] /\ procState[p] = "alive"
    /\ Handle' = Set(Handle, p, FALSE)
    /\ ProcessDereference(p)
    /\ UNCHANGED <<NumberOfThreads, ActiveThreads, ThreadList, Id, Terminated, mainThread,
                   creation, ProcessList, PidBitmap, threadVars>>

----------------------------------------------------------------------------
\* ThreadCreateEx, by UmApplicationRun or by a living thread of the process.

\* _ThreadInit
ThreadInit(p, t, u) ==
    /\ threadState[t] = "none"
    /\ ThreadGoto(t, "init")
    /\ Owner' = Set(Owner, t, p)
    /\ creator' = Set(creator, t, u)
    /\ threadRef' = Set(threadRef, t, 1)
    /\ UNCHANGED <<procState, RefCnt, NumberOfThreads, ActiveThreads, ThreadList, Id,
                   Terminated, Handle, ProcessList, PidBitmap, threadHandle, terminatePending>>

MainThreadInit(p, t) ==
    /\ creation[p] = "threadInit"
    /\ ThreadInit(p, t, None)
    /\ CreationGoto(p, "thread")
    /\ mainThread' = Set(mainThread, p, t)

\* A thread executes one ThreadCreateEx at a time.
Creating(u) == \E t \in Threads : creator[t] = u /\ threadState[t] \in {"init", "listed"}
CreatorRuns(t) == creator[t] # None => threadState[creator[t]] = "alive"

SpawnThread(u, t) ==
    /\ threadState[u] = "alive" /\ ~Creating(u)
    /\ ThreadInit(Owner[u], t, u)
    /\ UNCHANGED <<creation, mainThread>>

\* The allocation of the THREAD fails: _ThreadInit leaves nothing behind.  ProcessCreate
\* goes on with its own failure; a thread that wanted to spawn one goes on as before, so
\* that this is no step of it.
ThreadInitFails(p) ==
    /\ "threadInit" \in Failures
    /\ creation[p] = "threadInit"
    /\ CreationGoto(p, "fail")
    /\ UNCHANGED <<procState, RefCnt, NumberOfThreads, ActiveThreads, ThreadList, Id,
                   Terminated, Handle, mainThread, ProcessList, PidBitmap, threadVars>>

\* The allocation of its kernel stack or of its name fails: _ThreadInit drops the only
\* reference of the THREAD, and _ThreadDestroy takes it from lists it was never put in
\* and from a process it does not have yet.  The assertions there stop the kernel.
ThreadInitPanics ==
    /\ "threadParts" \in Failures
    /\ \/ \E p \in Processes : creation[p] = "threadInit"
       \/ \E u \in Threads : threadState[u] = "alive" /\ ~Creating(u)
    /\ panicked' = TRUE
    /\ UNCHANGED <<procVars, threadVars>>

\* Mutant: the process is not referenced for the thread.
InsertWithoutReference(t) ==
    LET p == Owner[t]
    IN  /\ threadState[t] = "init" /\ CreatorRuns(t)
        /\ NumberOfThreads' = Set(NumberOfThreads, p, NumberOfThreads[p] + 1)
        /\ ActiveThreads' = Set(ActiveThreads, p, ActiveThreads[p] + 1)
        /\ ThreadList' = Set(ThreadList, p, ThreadList[p] \cup {t})
        /\ threadRef' = Set(threadRef, t, threadRef[t] + 1)
        /\ ThreadGoto(t, "listed")
        /\ UNCHANGED <<procState, RefCnt, Id, Terminated, Handle, mainThread, creation, ProcessList,
                       PidBitmap, Owner, creator, threadHandle, terminatePending>>

\* ProcessInsertThreadInList, _ThreadReference.
ProcessInsertThreadInList(t) ==
    LET p == Owner[t]
    IN  /\ threadState[t] = "init" /\ CreatorRuns(t)
        /\ NumberOfThreads' = Set(NumberOfThreads, p, NumberOfThreads[p] + 1)
        /\ ActiveThreads' = Set(ActiveThreads, p, ActiveThreads[p] + 1)
        /\ ThreadList' = Set(ThreadList, p, ThreadList[p] \cup {t})
        /\ RefCnt' = Set(RefCnt, p, RefCnt[p] + 1)
        /\ threadRef' = Set(threadRef, t, threadRef[t] + 1)
        /\ ThreadGoto(t, "listed")
        /\ UNCHANGED <<procState, Id, Terminated, Handle, mainThread, creation, ProcessList,
                       PidBitmap, Owner, creator, threadHandle, terminatePending>>

\* The user stack, then ThreadUnblock.  When MmuAllocStack fails ThreadCreateEx
\* returns an error and leaves the thread where it is.
ThreadCreateExEnds(t) ==
    LET p == Owner[t]
        isMain == creator[t] = None
    IN  /\ threadState[t] = "listed" /\ CreatorRuns(t)
        /\ \/ /\ ThreadGoto(t, "alive")
              /\ threadHandle' = Set(threadHandle, t, TRUE)
              /\ creation' = IF isMain THEN Set(creation, p, "close") ELSE creation
           \/ /\ "userStack" \in Failures
              /\ ThreadGoto(t, "leaked")
              /\ creation' = IF isMain THEN Set(creation, p, "fail") ELSE creation
              /\ UNCHANGED threadHandle
        /\ UNCHANGED <<procState, RefCnt, NumberOfThreads, ActiveThreads, ThreadList, Id,
                       Terminated, Handle, mainThread, ProcessList, PidBitmap, Owner, creator,
                       threadRef, terminatePending>>

ThreadCloseHandle(t) ==
    /\ threadHandle[t] /\ creator[t] # None
    /\ threadHandle' = Set(threadHandle, t, FALSE)
    /\ threadRef' = Set(threadRef, t, threadRef[t] - 1)
    /\ UNCHANGED <<procVars, threadState, Owner, creator, terminatePending>>

----------------------------------------------------------------------------
\* ThreadExit: ProcessNotifyThreadTermination, then the reference of the running
\* thread is dropped by the CPU that ran it.

\* A marked thread exits wherever the timer finds it, in ThreadCreateEx as well.
ThreadExit(t) ==
    /\ threadState[t] = "alive"
    /\ Creating(t) => terminatePending[t]
    /\ ThreadGoto(t, "exiting")
    /\ UNCHANGED <<procVars, Owner, creator, threadRef, threadHandle, terminatePending>>

ProcessNotifyThreadTermination(t) ==
    LET p == Owner[t]
    IN  /\ threadState[t] = "exiting"
        /\ ActiveThreads' = Set(ActiveThreads, p, ActiveThreads[p] - 1)
        /\ Terminated' = Set(Terminated, p, Terminated[p] \/ ActiveThreads[p] = 1)
        /\ ThreadGoto(t, "dead")
        /\ threadRef' = Set(threadRef, t, threadRef[t] - 1)
        /\ UNCHANGED <<procState, RefCnt, NumberOfThreads, ThreadList, Id, Handle, mainThread, creation,
                       ProcessList, PidBitmap, Owner, creator, threadHandle, terminatePending>>

----------------------------------------------------------------------------
\* _ThreadDestroy, by whoever dropped the last reference: MmuFreeStack uses the
\* address space of the process, then ProcessRemoveThreadFromList.

ThreadDestroy(t) ==
    /\ threadState[t] = "dead" /\ threadRef[t] = 0
    /\ ThreadGoto(t, "destroying")
    /\ UNCHANGED <<procVars, Owner, creator, threadRef, threadHandle, terminatePending>>

ProcessRemoveThreadFromList(t) ==
    LET p == Owner[t]
    IN  /\ threadState[t] = "destroying"
        /\ NumberOfThreads' = Set(NumberOfThreads, p, NumberOfThreads[p] - 1)
        /\ ThreadList' = Set(ThreadList, p, ThreadList[p] \ {t})
        /\ ProcessDereference(p)
        /\ ThreadGoto(t, IF NumberOfThreads[p] = 1 THEN "lastUnlinked" ELSE "freed")
        /\ UNCHANGED <<ActiveThreads, Id, Terminated, Handle, mainThread, creation,
                       ProcessList, PidBitmap, Owner, creator, threadRef, threadHandle, terminatePending>>

\* Mutant: the reference of _ProcessInit is never given back.
LastThreadKeepsReference(t) ==
    /\ threadState[t] = "lastUnlinked"
    /\ ThreadGoto(t, "freed")
    /\ UNCHANGED <<procVars, Owner, creator, threadRef, threadHandle, terminatePending>>

\* The second _ProcessDereference when the last thread was removed.
RemoveLastReference(t) ==
    /\ threadState[t] = "lastUnlinked"
    /\ ProcessDereference(Owner[t])
    /\ ThreadGoto(t, "freed")
    /\ UNCHANGED <<NumberOfThreads, ActiveThreads, ThreadList, Id, Terminated,
                   Handle, mainThread, creation, ProcessList, PidBitmap,
                   Owner, creator, threadRef, threadHandle, terminatePending>>

\* ProcessTerminate of a process by its handle: every thread in the list is
\* marked, under ThreadListLock.  A marked thread exits at its next yield.
ProcessTerminate(p) ==
    /\ Handle[p] /\ procState[p] = "alive"
    /\ \E t \in ThreadList[p] : ~terminatePending[t]
    /\ terminatePending' = [t \in Threads |-> terminatePending[t] \/ t \in ThreadList[p]]
    /\ UNCHANGED <<procVars, threadState, Owner, creator, threadRef, threadHandle>>

\* ProcessTerminate(NULL) by thread t itself (SyscallProcessExit): the others are
\* marked, then t calls ThreadExit.
ProcessTerminateCurrent(t) ==
    LET others == ThreadList[Owner[t]] \ {t}
    IN  /\ threadState[t] = "alive" /\ ~Creating(t)
        /\ terminatePending' = [u \in Threads |-> terminatePending[u] \/ u \in others]
        /\ ThreadGoto(t, "exiting")
        /\ UNCHANGED <<procVars, Owner, creator, threadRef, threadHandle>>

----------------------------------------------------------------------------
\* _ProcessDestroy, by whoever dropped the last reference.

ProcessDestroy(p) ==
    /\ procState[p] = "unreferenced"
    /\ procState' = Set(procState, p, "unlisted")
    /\ ProcessList' = ProcessList \ {p}
    /\ UNCHANGED <<RefCnt, NumberOfThreads, ActiveThreads, ThreadList, Id, Terminated,
                   Handle, mainThread, creation, PidBitmap, threadVars>>

\* MmuDestroyAddressSpaceForProcess, _ProcessSystemFreePid, ExFreePoolWithTag.
ProcessFree(p) ==
    /\ procState[p] = "unlisted"
    /\ procState' = Set(procState, p, "freed")
    /\ PidBitmap' = PidBitmap \ {Id[p]}
    /\ UNCHANGED <<RefCnt, NumberOfThreads, ActiveThreads, ThreadList, Id, Terminated,
                   Handle, mainThread, creation, ProcessList, threadVars>>

----------------------------------------------------------------------------
CreateStep(p) ==
    \/ ProcessInsertInList(p) \/ ProcessPrepare(p) \/ ProcessCreateFails(p)
    \/ (\E t \in Threads : MainThreadInit(p, t))
    \/ ThreadInitFails(p) \/ CloseMainThread(p) \/ ProcessCreateReturns(p)

DestroyStep(p) == ProcessDestroy(p) \/ ProcessFree(p)

ThreadStep(t) ==
    \/ ProcessInsertThreadInList(t) \/ ThreadCreateExEnds(t)
    \/ ProcessNotifyThreadTermination(t)
    \/ ThreadDestroy(t) \/ ProcessRemoveThreadFromList(t) \/ RemoveLastReference(t)

\* What a kernel that runs may do.
ProcessRuns ==
    \/ \E p \in Processes :
          \/ ProcessInit(p) \/ CreateStep(p) \/ DestroyStep(p)
          \/ ProcessTerminate(p) \/ ProcessCloseHandle(p)
    \/ \E t \in Threads :
          \/ ThreadStep(t) \/ ThreadExit(t) \/ ProcessTerminateCurrent(t) \/ ThreadCloseHandle(t)
          \/ \E u \in Threads : SpawnThread(u, t)

ProcessNext ==
    /\ ~panicked
    /\ \/ ProcessRuns /\ UNCHANGED panicked
       \/ ThreadInitPanics

ProcessSpec == ProcessSystemInit /\ [][ProcessNext]_processVars

\* Code that was entered is left, a marked thread exits and handles are closed, as long
\* as one of these can happen: each happens once, so that nothing more is needed.
ProcessStep ==
    /\ ~panicked /\ UNCHANGED panicked
    /\ \/ \E p \in Processes : CreateStep(p) \/ DestroyStep(p) \/ ProcessCloseHandle(p)
       \/ \E t \in Threads : \/ ThreadStep(t) \/ ThreadCloseHandle(t)
                             \/ terminatePending[t] /\ ThreadExit(t)

ProcessFairness == WF_processVars(ProcessStep)

ProcessFairSpec == ProcessSpec /\ ProcessFairness

----------------------------------------------------------------------------
\* Properties

ObjectsTypeOK ==
    /\ procState \in [Processes -> {"none", "alive", "unreferenced", "unlisted", "freed"}]
    /\ RefCnt \in [Processes -> Nat]
    /\ NumberOfThreads \in [Processes -> Nat]
    /\ ActiveThreads \in [Processes -> Nat]
    /\ ThreadList \in [Processes -> SUBSET Threads]
    /\ Id \in [Processes -> Pids \cup {0}]
    /\ Terminated \in [Processes -> BOOLEAN]
    /\ Handle \in [Processes -> BOOLEAN]
    /\ creation \in [Processes -> {"none", "list", "header", "space", "load", "threadInit",
                       "thread", "close", "reference", "done", "fail", "failed"}]
    /\ mainThread \in [Processes -> Threads \cup {None}]
    /\ ProcessList \subseteq Processes
    /\ PidBitmap \subseteq Pids
    /\ threadState \in [Threads -> {"none", "init", "listed", "leaked", "alive", "exiting",
                         "dead", "destroying", "lastUnlinked", "freed"}]
    /\ Owner \in [Threads -> Processes \cup {None}]
    /\ creator \in [Threads -> Threads \cup {None}]
    /\ threadRef \in [Threads -> Nat]
    /\ threadHandle \in [Threads -> BOOLEAN]
    /\ terminatePending \in [Threads -> BOOLEAN]

ProcessTypeOK == ObjectsTypeOK /\ panicked \in BOOLEAN

\* "While there are still threads running the process MUST not be destroyed": also
\* not while a dead thread still has to free its user stack in the address space
\* of the process.  It implies the assertion on NumberOfThreads in _ProcessDestroy.
ThreadsKeepProcess == \A p \in Processes :
    ThreadList[p] # {} \/ NumberOfThreads[p] # 0 => procState[p] = "alive"

\* A process that is not yet taken apart has a PID of its own (cached address
\* translations are tagged with it), and no PID is lost.
HasPid(p) == procState[p] \in {"alive", "unreferenced", "unlisted"}
PidsExact ==
    /\ \A p, q \in Processes : p # q /\ HasPid(p) /\ HasPid(q) => Id[p] # Id[q]
    /\ PidBitmap = {Id[p] : p \in {q \in Processes : HasPid(q)}}

\* When the termination event of a process is signalled none of its threads runs
\* or can be created any more.
TerminationIsFinal == \A p \in Processes, t \in Threads :
    Terminated[p] /\ Owner[t] = p => threadState[t] \notin {"listed", "alive", "exiting"}

\* What the references on a process and on its threads keep alive, and what the end of
\* the last thread means.
ProcessInv == ProcessTypeOK /\ ThreadsKeepProcess /\ PidsExact /\ TerminationIsFinal

\* A terminated process whose handle is closed gives everything back, unless the kernel
\* stops first.
TerminatedIsReclaimed == \A p \in Processes :
    Terminated[p] ~> procState[p] = "freed" \/ panicked

=============================================================================
