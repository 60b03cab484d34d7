------------------------------- MODULE Mutex --------------------------------
(***************************************************************************)
(* The executive mutex (mutex.c) on top of the scheduler: MutexAcquire     *)
(* blocks the thread, MutexRelease hands the mutex over to the first       *)
(* waiter.  The section under MutexLock is one step; MutexRelease calls    *)
(* ThreadUnblock inside it, which waits for the BlockLock of the thread it *)
(* wakes.                                                                  *)
(***************************************************************************)
EXTENDS Thread

CONSTANT MaxRecursivityDepth    \* MUTEX.MaxRecursivityDepth of every mutex

ASSUME MutexAssumption == MaxRecursivityDepth \in 1..255 /\ None \notin Objects

VARIABLES
    Holder,                     \* MUTEX.Holder
    CurrentRecursivityDepth,    \* MUTEX.CurrentRecursivityDepth, a BYTE
    wanted,                     \* wanted[t]: the mutex t is acquiring
    owned                       \* owned[t][m]: acquisitions of m that returned to
                                \* t and were not released (what t believes)

mutexVars == <<Holder, CurrentRecursivityDepth, wanted, owned>>
vars == <<schedVars, mutexVars>>

Mutexes == Objects

Increment8(b) == (b + 1) % 256

MutexInit ==
    /\ ThreadSystemInit
    /\ Holder = [m \in Mutexes |-> None]
    /\ CurrentRecursivityDepth = [m \in Mutexes |-> 0]
    /\ wanted = [t \in Threads |-> None]
    /\ owned = [t \in Threads |-> [m \in Mutexes |-> 0]]

\* The running thread, when it may call a mutex function.
Caller(c) == CurrentThread[c]
MayCall(c) == pc[Caller(c)] = "run" /\ Caller(c) # Idle[c]

Return(t, m, n) == owned' = [owned EXCEPT ![t][m] = @ + n]

----------------------------------------------------------------------------
\* MutexAcquire by the holder: no lock is taken.
MutexAcquireAgain(c, m) ==
    /\ MayCall(c)
    /\ Holder[m] = Caller(c)
    /\ CurrentRecursivityDepth[m] < MaxRecursivityDepth
    /\ CurrentRecursivityDepth' = [CurrentRecursivityDepth EXCEPT ![m] = Increment8(@)]
    /\ Return(Caller(c), m, 1)
    /\ UNCHANGED <<schedVars, Holder, wanted>>

MutexAcquireFree(c, m) ==
    /\ MayCall(c)
    /\ Holder[m] = None
    /\ Holder' = [Holder EXCEPT ![m] = Caller(c)]
    /\ CurrentRecursivityDepth' = [CurrentRecursivityDepth EXCEPT ![m] = 1]
    /\ Return(Caller(c), m, 1)
    /\ UNCHANGED <<schedVars, wanted>>

\* Mutant: the waiter does not take its BlockLock.
MutexAcquireNoBlockLock(c, m) ==
    LET t == Caller(c)
    IN  /\ MayCall(c)
        /\ Holder[m] \notin {None, t}
        /\ wanted' = [wanted EXCEPT ![t] = m]
        /\ WaitingList' = [WaitingList EXCEPT ![m] = Append(@, t)]
        /\ Goto(t, "block")
        /\ ret' = [ret EXCEPT ![t] = "mutex"]
        /\ UNCHANGED <<State, Flags, BlockLock, RefCnt, Handle, ReadyThreadsList, CurrentThread,
                       PreviousThread, Holder, CurrentRecursivityDepth, owned>>

\* The mutex is taken: the thread blocks; once woken it continues at "mutex".
MutexAcquireWait(c, m) ==
    /\ MayCall(c)
    /\ Holder[m] \notin {None, Caller(c)}
    /\ wanted' = [wanted EXCEPT ![Caller(c)] = m]
    /\ WaitAt(c, m, "mutex")
    /\ UNCHANGED <<Holder, CurrentRecursivityDepth, owned>>

\* The loop test after ThreadBlock returned.
MutexAcquireWoken(c) ==
    LET t == Caller(c)
        m == wanted[t]
    IN  /\ pc[t] = "mutex"
        /\ \/ /\ Holder[m] = t
              /\ Goto(t, "run")
              /\ wanted' = [wanted EXCEPT ![t] = None]
              /\ Return(t, m, 1)
              /\ UNCHANGED <<State, Flags, BlockLock, RefCnt, Handle, ReadyThreadsList,
                             WaitingList, CurrentThread, PreviousThread, ret>>
           \/ /\ Holder[m] # t
              /\ WaitAt(c, m, "mutex")
              /\ UNCHANGED <<wanted, owned>>
        /\ UNCHANGED <<Holder, CurrentRecursivityDepth>>

----------------------------------------------------------------------------
\* Mutant: MutexRelease frees the mutex and lets the woken thread compete.
MutexReleaseNoHandover(c, m) ==
    /\ MayCall(c)
    /\ Holder[m] = Caller(c)
    /\ CurrentRecursivityDepth[m] = 1
    /\ Return(Caller(c), m, -1)
    /\ Holder' = [Holder EXCEPT ![m] = None]
    /\ UNCHANGED <<CurrentRecursivityDepth, wanted>>
    /\ \/ WakeAt(c, m, "run")
       \/ WaitingList[m] = <<>> /\ UNCHANGED schedVars

\* Mutant: the recursion test is off by one.
MutexReleaseTooEarly(c, m) ==
    /\ MayCall(c)
    /\ Holder[m] = Caller(c)
    /\ Return(Caller(c), m, -1)
    /\ IF WaitingList[m] # <<>>
       THEN /\ Holder' = [Holder EXCEPT ![m] = Head(WaitingList[m])]
            /\ CurrentRecursivityDepth' = [CurrentRecursivityDepth EXCEPT ![m] = 1]
            /\ WakeAt(c, m, "run")
       ELSE /\ Holder' = [Holder EXCEPT ![m] = None]
            /\ UNCHANGED <<CurrentRecursivityDepth, schedVars>>
    /\ UNCHANGED wanted

\* Mutant: the list is read from its tail.
MutexReleaseToLast(c, m) ==
    LET n == Len(WaitingList[m])
        u == WaitingList[m][n]
    IN  /\ MayCall(c)
        /\ Holder[m] = Caller(c)
        /\ Return(Caller(c), m, -1)
        /\ \/ /\ CurrentRecursivityDepth[m] > 1
              /\ CurrentRecursivityDepth' = [CurrentRecursivityDepth EXCEPT ![m] = @ - 1]
              /\ UNCHANGED <<Holder, schedVars>>
           \/ /\ CurrentRecursivityDepth[m] = 1
              /\ n > 0
              /\ Holder' = [Holder EXCEPT ![m] = u]
              /\ ThreadUnblock(u)
              /\ WaitingList' = [WaitingList EXCEPT ![m] = SubSeq(@, 1, n - 1)]
              /\ UNCHANGED <<CurrentRecursivityDepth, Flags, pc, ret, BlockLock, RefCnt, Handle,
                             CurrentThread, PreviousThread>>
           \/ /\ CurrentRecursivityDepth[m] = 1
              /\ n = 0
              /\ Holder' = [Holder EXCEPT ![m] = None]
              /\ UNCHANGED <<CurrentRecursivityDepth, schedVars>>
        /\ UNCHANGED wanted

\* MutexRelease; the thread asserts that it is the holder.
MutexRelease(c, m) ==
    /\ MayCall(c)
    /\ Holder[m] = Caller(c)
    /\ Return(Caller(c), m, -1)
    /\ \/ /\ CurrentRecursivityDepth[m] > 1
          /\ CurrentRecursivityDepth' = [CurrentRecursivityDepth EXCEPT ![m] = @ - 1]
          /\ UNCHANGED <<Holder, schedVars>>
       \/ /\ CurrentRecursivityDepth[m] <= 1
          /\ WaitingList[m] # <<>>
          /\ Holder' = [Holder EXCEPT ![m] = Head(WaitingList[m])]
          /\ CurrentRecursivityDepth' = [CurrentRecursivityDepth EXCEPT ![m] = 1]
          /\ WakeAt(c, m, "run")
       \/ /\ CurrentRecursivityDepth[m] <= 1
          /\ WaitingList[m] = <<>>
          /\ Holder' = [Holder EXCEPT ![m] = None]
          /\ UNCHANGED <<CurrentRecursivityDepth, schedVars>>
    /\ UNCHANGED wanted

----------------------------------------------------------------------------
\* Whatever else a thread calls leaves the mutexes alone; exit, handles and
\* termination (Thread) play no part here.
OtherStep(c) ==
    /\ \/ SchedStep(c)
       \/ ThreadYield(c)
       \/ \E u \in Threads : ThreadCreate(c, u)
    /\ UNCHANGED mutexVars

MutexNext == \E c \in Cpus :
    \/ OtherStep(c)
    \/ MutexAcquireWoken(c)
    \/ \E m \in Mutexes : \/ MutexAcquireAgain(c, m)
                          \/ MutexAcquireFree(c, m)
                          \/ MutexAcquireWait(c, m)
                          \/ MutexRelease(c, m)

MutexSpec == MutexInit /\ [][MutexNext]_vars

\* The scheduler's fairness; and code that holds a mutex gets through its critical
\* section, however often it is preempted there: it releases at every depth it is
\* running at again and again.
MutexFairness ==
    /\ \A c \in Cpus : /\ WF_vars(SchedStep(c) /\ UNCHANGED mutexVars)
                       /\ WF_vars(ThreadYield(c) /\ UNCHANGED mutexVars)
                       /\ WF_vars(MutexAcquireWoken(c))
    /\ \A m \in Mutexes, d \in 1 .. MaxRecursivityDepth :
           SF_vars(\E c \in Cpus : CurrentRecursivityDepth[m] = d /\ MutexRelease(c, m))

MutexFairSpec == MutexSpec /\ MutexFairness

----------------------------------------------------------------------------
\* Properties

MutexTypeOK ==
    /\ Holder \in [Mutexes -> Threads \cup {None}]
    /\ CurrentRecursivityDepth \in [Mutexes -> 0..MaxRecursivityDepth]
    /\ wanted \in [Threads -> Mutexes \cup {None}]
    /\ owned \in [Threads -> [Mutexes -> 0..MaxRecursivityDepth]]
    /\ pc \in [Threads -> SchedLabels \cup Interruptible \cup {"mutex"}]

\* Mutual exclusion with recursion: a thread that believes to own the mutex is
\* its Holder and has acquired it exactly CurrentRecursivityDepth times.  The
\* unlocked test and increment at the start of MutexAcquire rests on it, and so
\* does MutexRelease's ASSERT on the holder.
OwnerIsHolder == \A t \in Threads, m \in Mutexes :
    owned[t][m] > 0 => Holder[m] = t /\ CurrentRecursivityDepth[m] = owned[t][m]

\* What MutexAcquire and MutexRelease keep: the types and the ownership.
MutexInv == MutexTypeOK /\ OwnerIsHolder

\* The mutex goes to the waiters in the order in which they came; no thread
\* that arrives later takes it from under a thread that was woken for it.
HandoverInOrder == [][\A m \in Mutexes :
    WaitingList[m] # <<>> /\ Holder'[m] # Holder[m] =>
        /\ Holder'[m] = Head(WaitingList[m])
        /\ WaitingList'[m] = Tail(WaitingList[m])
    ]_vars

\* A thread that waits gets the mutex.
WaiterAcquires == \A t \in Threads \ IdleThreads, m \in Mutexes :
    InWaitingList(m, t) ~> owned[t][m] > 0

\* The mutex uses the scheduler as Thread says objects do: a thread inside
\* MutexAcquire counts as one that executes its own code.
AsRun(l) == IF l = "mutex" THEN "run" ELSE l
Scheduler == INSTANCE Thread WITH
    pc <- [t \in Threads |-> AsRun(pc[t])],
    ret <- [t \in Threads |-> AsRun(ret[t])]
UsesScheduler == Scheduler!Spec

=============================================================================
