---------------------------- MODULE Mutex_proofs ----------------------------
(***************************************************************************)
(* Proofs about Mutex, for any number of CPUs, threads and mutexes and any *)
(* recursion depth: the mutex uses the scheduler as Thread specifies it,   *)
(* so the scheduler's invariant holds under the refinement mapping; with   *)
(* it, a thread that believes to own a mutex is its holder, and a mutex    *)
(* goes to its waiters in order.                                           *)
(***************************************************************************)
EXTENDS Mutex, TLAPS

\* The scheduler that the threads of Mutex use, with what is proved about it.
S == INSTANCE Thread_proofs WITH
    pc <- [t \in Threads |-> AsRun(pc[t])],
    ret <- [t \in Threads |-> AsRun(ret[t])]

\* The inductive invariant
Labels == SchedLabels \cup Interruptible \cup {"mutex"}

PcTypeOK ==
    /\ pc \in [Threads -> Labels]
    /\ ret \in [Threads -> Interruptible \cup {"mutex"}]

\* A thread wants a mutex exactly while it is inside MutexAcquire's loop.
WantedInv == \A t \in Threads :
    wanted[t] # None <=> pc[t] = "mutex" \/ (pc[t] \in SchedLabels /\ ret[t] = "mutex")

\* Whoever is linked in the waiting list of a mutex wants it and does not have it;
\* whoever wants it and is not linked was given it; a free mutex has no waiters.
QueueInv ==
    /\ \A m \in Mutexes, t \in Threads :
           S!In(WaitingList[m], t) => wanted[t] = m /\ Holder[m] # t
    /\ \A m \in Mutexes, t \in Threads :
           wanted[t] = m => S!In(WaitingList[m], t) \/ Holder[m] = t
    /\ \A m \in Mutexes : Holder[m] = None => WaitingList[m] = <<>>

\* What a thread believes to own it holds as deeply; what it holds and does not know of
\* was handed over to it by MutexRelease while it waits.
OwnInv == \A t \in Threads, m \in Mutexes :
    /\ owned[t][m] > 0 => Holder[m] = t /\ CurrentRecursivityDepth[m] = owned[t][m]
    /\ Holder[m] = t /\ owned[t][m] = 0 => wanted[t] = m /\ CurrentRecursivityDepth[m] = 1
    /\ wanted[t] = m => owned[t][m] = 0

MutexIInv == S!IInv /\ MutexTypeOK /\ PcTypeOK /\ WantedInv /\ QueueInv /\ OwnInv

----------------------------------------------------------------------------
\* A step of the scheduler on the threads of Mutex is that step of Thread.

USE DEF Labels

LEMMA InstanceAssumption == S!ThreadAssumption
BY ThreadAssumption DEF S!ThreadAssumption, ThreadAssumption, S!IdleThreads, IdleThreads

\* Where a thread that is given label l counts as being.
LEMMA MapGoto ==
    ASSUME PcTypeOK, NEW t \in Threads, NEW l \in Labels, Goto(t, l)
    PROVE  S!Goto(t, AsRun(l))
BY DEF PcTypeOK, Goto, S!Goto, AsRun

\* Where it counts as continuing.
LEMMA MapRet ==
    ASSUME PcTypeOK, NEW t \in Threads, NEW l \in Labels, ret' = [ret EXCEPT ![t] = l]
    PROVE  [x \in Threads |-> AsRun(ret[x])]'
           = [[x \in Threads |-> AsRun(ret[x])] EXCEPT ![t] = AsRun(l)]
BY DEF PcTypeOK, AsRun

\* A wake-up of the first waiter, by a thread that goes on at l.
LEMMA MapWakeAt ==
    ASSUME PcTypeOK, NEW c \in Cpus, CurrentThread[c] \in Threads, NEW o \in Waitables,
           NEW l \in Labels, WakeAt(c, o, l)
    PROVE  S!WakeAt(c, o, AsRun(l))
BY MapGoto DEF WakeAt, S!WakeAt, ThreadUnblock, S!ThreadUnblock

\* A wait, after which the thread goes on at l.
LEMMA MapWaitAt ==
    ASSUME PcTypeOK, NEW c \in Cpus, CurrentThread[c] \in Threads, NEW o \in Waitables,
           NEW l \in Labels, WaitAt(c, o, l)
    PROVE  S!WaitAt(c, o, AsRun(l))
<1>1. S!Goto(CurrentThread[c], "block")
  BY MapGoto DEF WaitAt, AsRun, SchedLabels
<1> QED
  BY <1>1, MapRet DEF WaitAt, S!WaitAt

LEMMA MapSchedule ==
    ASSUME PcTypeOK, NEW c \in Cpus, NEW t \in Threads, NEW list, Schedule(c, t, list)
    PROVE  S!Schedule(c, t, list)
BY DEF PcTypeOK, Schedule, S!Schedule, GetReadyThread, S!GetReadyThread, AsRun

LEMMA MapSchedStep ==
    ASSUME MutexIInv, NEW c \in Cpus
    PROVE  /\ YieldSchedule(c) => S!YieldSchedule(c)
           /\ BlockSchedule(c) => S!BlockSchedule(c)
           /\ ExitSchedule(c) => S!ExitSchedule(c)
           /\ IdleTakeBlockLock(c) => S!IdleTakeBlockLock(c)
           /\ ThreadBlock(c) => S!ThreadBlock(c)
           /\ ThreadExit(c) => S!ThreadExit(c)
           /\ ExitSignal(c) => S!ExitSignal(c)
           /\ CleanupBlockLock(c) => S!CleanupBlockLock(c)
           /\ CleanupDying(c) => S!CleanupDying(c)
           /\ ThreadYield(c) => S!ThreadYield(c)
           /\ \A u \in Threads : ThreadCreate(c, u) => S!ThreadCreate(c, u)
<1>0. PcTypeOK /\ CurrentThread[c] \in Threads
  BY DEF MutexIInv, S!IInv, S!TypeOK
<1>1. \A t \in Threads : /\ pc[t] \in Labels /\ ret[t] \in Labels
                         /\ \A l \in SchedLabels \cup {"idle"} :
                                [x \in Threads |-> AsRun(pc[x])][t] = l <=> pc[t] = l
                         /\ [x \in Threads |-> AsRun(pc[x])][t] = AsRun(pc[t])
                         /\ [x \in Threads |-> AsRun(ret[x])][t] = AsRun(ret[t])
  BY <1>0 DEF PcTypeOK, AsRun, SchedLabels
<1>r. ASSUME UNCHANGED ret
      PROVE  UNCHANGED [x \in Threads |-> AsRun(ret[x])]
  BY <1>r
<1>2. YieldSchedule(c) => S!YieldSchedule(c)
  BY <1>0, <1>1, MapSchedule DEF YieldSchedule, S!YieldSchedule, SchedLabels
<1>3. BlockSchedule(c) => S!BlockSchedule(c)
  BY <1>0, <1>1, MapSchedule DEF BlockSchedule, S!BlockSchedule, SchedLabels
<1>4. ExitSchedule(c) => S!ExitSchedule(c)
  BY <1>0, <1>1, MapSchedule DEF ExitSchedule, S!ExitSchedule, SchedLabels
<1>5. ASSUME IdleTakeBlockLock(c) PROVE S!IdleTakeBlockLock(c)
  <2>1. S!Goto(CurrentThread[c], "block")
    BY <1>0, <1>5, MapGoto DEF IdleTakeBlockLock, AsRun, SchedLabels
  <2>2. [x \in Threads |-> AsRun(ret[x])]'
        = [[x \in Threads |-> AsRun(ret[x])] EXCEPT ![CurrentThread[c]] = "run"]
    BY <1>0, <1>5, MapRet DEF IdleTakeBlockLock, AsRun, Interruptible
  <2> QED
    BY <1>0, <1>1, <1>5, <2>1, <2>2 DEF IdleTakeBlockLock, S!IdleTakeBlockLock
<1>6. ThreadBlock(c) => S!ThreadBlock(c)
  BY <1>0, <1>1 DEF ThreadBlock, S!ThreadBlock, Goto, S!Goto, AsRun, PcTypeOK, SchedLabels
<1>7. ThreadExit(c) => S!ThreadExit(c)
  BY <1>0, <1>1 DEF ThreadExit, S!ThreadExit, Goto, S!Goto, AsRun, PcTypeOK, SchedLabels
<1>8. ASSUME ExitSignal(c) PROVE S!ExitSignal(c)
  <2>1. pc[CurrentThread[c]] = "signal" /\ CurrentThread[c] \in Waitables
    BY <1>0, <1>8 DEF ExitSignal, Waitables
  <2>2. CASE WakeAt(c, CurrentThread[c], "signal")
    BY <1>0, <1>1, <2>1, <2>2, MapWakeAt DEF S!ExitSignal, AsRun, SchedLabels
  <2>3. CASE /\ WaitingList[CurrentThread[c]] = <<>>
             /\ Goto(CurrentThread[c], "dead")
             /\ UNCHANGED <<State, Flags, BlockLock, RefCnt, Handle, ReadyThreadsList,
                            WaitingList, CurrentThread, PreviousThread, ret>>
    <3>1. S!Goto(CurrentThread[c], "dead")
      BY <1>0, <2>3, MapGoto DEF AsRun, SchedLabels
    <3> QED
      BY <1>0, <1>1, <2>1, <2>3, <3>1 DEF S!ExitSignal, SchedLabels
  <2> QED
    BY <1>8, <2>2, <2>3 DEF ExitSignal
<1>9. CleanupBlockLock(c) => S!CleanupBlockLock(c)
  BY <1>0, <1>1 DEF CleanupBlockLock, S!CleanupBlockLock, Goto, S!Goto, AsRun, PcTypeOK, SchedLabels
<1>10. CleanupDying(c) => S!CleanupDying(c)
  BY <1>0, <1>1 DEF CleanupDying, S!CleanupDying, Goto, S!Goto, AsRun, PcTypeOK, SchedLabels
<1>11. ASSUME ThreadYield(c) PROVE S!ThreadYield(c)
  <2> DEFINE t == CurrentThread[c]
             l == IF Flags[t] THEN "exit" ELSE "yield"
             r == IF t = Idle[c] THEN "idle" ELSE pc[t]
  <2>1. pc[t] \in Interruptible /\ pc[t] # "mutex"
    BY <1>11 DEF ThreadYield, YieldAt, Interruptible
  <2>2. S!Goto(t, l)
    <3>1. Goto(t, l) /\ l \in Labels /\ AsRun(l) = l
      BY <1>11 DEF ThreadYield, YieldAt, SchedLabels, AsRun
    <3> HIDE DEF l
    <3> QED
      BY <1>0, <3>1, MapGoto
  <2>3. [x \in Threads |-> AsRun(ret[x])]' = [[x \in Threads |-> AsRun(ret[x])] EXCEPT ![t] = r]
    <3>1. ret' = [ret EXCEPT ![t] = r] /\ r \in Labels /\ AsRun(r) = r
      BY <1>11, <2>1 DEF ThreadYield, YieldAt, Interruptible, AsRun
    <3> QED
      BY <1>0, <3>1, MapRet
  <2>4. [x \in Threads |-> AsRun(pc[x])][t] = pc[t] /\ pc[t] \in S!Interruptible
    BY <1>0, <2>1 DEF AsRun, Interruptible, S!Interruptible
  <2> QED
    BY <1>11, <2>1, <2>2, <2>3, <2>4 DEF ThreadYield, YieldAt, S!ThreadYield, S!YieldAt
<1>12. \A u \in Threads : ThreadCreate(c, u) => S!ThreadCreate(c, u)
  BY <1>0, <1>1 DEF ThreadCreate, S!ThreadCreate, ThreadUnblock, S!ThreadUnblock, Goto, S!Goto, AsRun,
                    PcTypeOK, SchedLabels
<1> QED
  BY <1>2, <1>3, <1>4, <1>5, <1>6, <1>7, <1>8, <1>9, <1>10, <1>11, <1>12

----------------------------------------------------------------------------
\* The scheduler's own steps

\* _ThreadSchedule leaves the waits for mutexes as they are.
LEMMA ScheduleWanted ==
    ASSUME MutexIInv, NEW c \in Cpus, NEW list,
           list = ReadyThreadsList \/ list = Append(ReadyThreadsList, CurrentThread[c]),
           pc[CurrentThread[c]] \in {"yield", "blocked", "dead"},
           Schedule(c, CurrentThread[c], list), UNCHANGED <<ret, wanted>>
    PROVE  PcTypeOK' /\ WantedInv'
<1> DEFINE t == CurrentThread[c]
           next == GetReadyThread(c, list)
<1>1. t \in Threads
  BY DEF MutexIInv, S!IInv, S!TypeOK
<1>2. next \in Threads /\ (next = t \/ pc[next] = "off")
  <2>1. /\ S!GetReadyThread(c, list) = next
    BY DEF S!GetReadyThread, GetReadyThread
  <2>2. /\ next \in Threads
        /\ next = t \/ [x \in Threads |-> AsRun(pc[x])][next] = "off"
    BY <2>1, S!NextIsOff, InstanceAssumption DEF MutexIInv
  <2> QED
    BY <2>2 DEF AsRun
<1>3. pc' = [pc EXCEPT ![t] = "off", ![next] = "cleanup"]
  BY DEF Schedule
<1>4. pc[t] \in SchedLabels /\ pc[next] \in SchedLabels
  BY <1>2 DEF SchedLabels
<1> HIDE DEF next
<1>5. PcTypeOK'
  BY <1>1, <1>2, <1>3 DEF MutexIInv, PcTypeOK, SchedLabels
<1>6. WantedInv'
  BY <1>1, <1>2, <1>3, <1>4 DEF MutexIInv, PcTypeOK, WantedInv, SchedLabels
<1> QED
  BY <1>5, <1>6

\* A step of the scheduler keeps what Thread_proofs proves of it.
LEMMA OtherStepScheduler ==
    ASSUME MutexIInv, NEW c \in Cpus, OtherStep(c)
    PROVE  S!IInv'
<1>1. S!IInv /\ S!ThreadAssumption
  BY InstanceAssumption DEF MutexIInv
<1>2. CASE SchedStep(c)
  <2>1. \/ S!YieldSchedule(c) \/ S!BlockSchedule(c) \/ S!ExitSchedule(c)
        \/ S!IdleTakeBlockLock(c) \/ S!ThreadBlock(c) \/ S!ThreadExit(c) \/ S!ExitSignal(c)
        \/ S!CleanupBlockLock(c) \/ S!CleanupDying(c)
    BY <1>2, MapSchedStep DEF SchedStep
  <2> QED
    BY <1>1, <2>1, S!YieldScheduleInv, S!OffScheduleInv, S!IdleTakeInv, S!BlockStepInv, S!ExitInv,
       S!ExitSignalInv, S!CleanupBlockInv, S!CleanupDyingInv
<1>3. CASE ThreadYield(c)
  BY <1>1, <1>3, MapSchedStep, S!YieldInv
<1>4. ASSUME NEW u \in Threads, ThreadCreate(c, u) PROVE S!IInv'
  BY <1>1, <1>4, MapSchedStep, S!CreateInv
<1> QED
  BY <1>2, <1>3, <1>4 DEF OtherStep

\* It leaves the waiting lists of the mutexes alone.
LEMMA OtherStepLists ==
    ASSUME MutexIInv, NEW c \in Cpus, OtherStep(c)
    PROVE  \A m \in Mutexes : WaitingList'[m] = WaitingList[m]
<1>1. CurrentThread[c] \in Threads /\ \A m \in Mutexes : m \notin Threads
  BY ThreadAssumption DEF MutexIInv, S!IInv, S!TypeOK, Mutexes
<1>2. WaitingList \in [Waitables -> Seq(Threads)]
  BY DEF MutexIInv, S!IInv, S!TypeOK, S!Waitables, Waitables
<1>3. CASE ExitSignal(c)
  BY <1>1, <1>2, <1>3 DEF ExitSignal, WakeAt, Waitables, Mutexes
<1>4. CASE ~ExitSignal(c)
  <2>1. UNCHANGED WaitingList
    BY <1>4 DEF OtherStep, SchedStep, YieldSchedule, IdleTakeBlockLock, ThreadBlock, BlockSchedule,
                ThreadExit, ExitSchedule, CleanupBlockLock, CleanupDying, ThreadYield, YieldAt,
                ThreadCreate
  <2> QED
    BY <2>1
<1> QED
  BY <1>3, <1>4

\* It keeps the labels and the waits.
LEMMA OtherStepWanted ==
    ASSUME MutexIInv, NEW c \in Cpus, OtherStep(c)
    PROVE  PcTypeOK' /\ WantedInv'
<1> DEFINE t == CurrentThread[c]
<1>0. /\ t \in Threads /\ PcTypeOK /\ WantedInv /\ UNCHANGED wanted
      /\ pc[t] \in Labels /\ ret[t] \in Interruptible \cup {"mutex"}
  BY DEF MutexIInv, S!IInv, S!TypeOK, OtherStep, mutexVars, PcTypeOK
<1>s. Interruptible \cap SchedLabels = {} /\ "mutex" \notin Interruptible /\ "mutex" \notin SchedLabels
  BY DEF Interruptible, SchedLabels
\* A move between two labels of the scheduler
<1>m. ASSUME NEW u \in Threads, NEW l \in SchedLabels, Goto(u, l), pc[u] \in SchedLabels, UNCHANGED ret
      PROVE  PcTypeOK' /\ WantedInv'
  BY <1>0, <1>s, <1>m DEF PcTypeOK, WantedInv, Goto
\* The way out of the scheduler
<1>o. ASSUME Goto(t, ret[t]), pc[t] \in SchedLabels, UNCHANGED ret
      PROVE  PcTypeOK' /\ WantedInv'
  BY <1>0, <1>s, <1>o DEF PcTypeOK, WantedInv, Goto
\* The way in
<1>i. ASSUME NEW l \in SchedLabels, NEW r \in Interruptible, Goto(t, l), pc[t] \in Interruptible,
             ret' = [ret EXCEPT ![t] = r]
      PROVE  PcTypeOK' /\ WantedInv'
  BY <1>0, <1>s, <1>i DEF PcTypeOK, WantedInv, Goto
<1>1. CASE YieldSchedule(c)
  BY <1>0, <1>1, ScheduleWanted DEF YieldSchedule
<1>2. CASE BlockSchedule(c)
  BY <1>0, <1>2, ScheduleWanted DEF BlockSchedule
<1>3. CASE ExitSchedule(c)
  BY <1>0, <1>3, ScheduleWanted DEF ExitSchedule
<1>4. CASE IdleTakeBlockLock(c)
  BY <1>4, <1>i DEF IdleTakeBlockLock, Interruptible, SchedLabels
<1>5. CASE ThreadBlock(c)
  <2>1. UNCHANGED ret /\ pc[t] \in SchedLabels /\ (Goto(t, "exit") \/ Goto(t, "blocked"))
    BY <1>5 DEF ThreadBlock, SchedLabels
  <2> QED
    BY <1>0, <2>1, <1>m DEF SchedLabels
<1>6. CASE ThreadExit(c)
  BY <1>0, <1>6, <1>m DEF ThreadExit, SchedLabels
<1>7. CASE ExitSignal(c)
  <2>1. UNCHANGED ret /\ pc[t] \in SchedLabels /\ (Goto(t, "signal") \/ Goto(t, "dead"))
    BY <1>7 DEF ExitSignal, WakeAt, SchedLabels
  <2> QED
    BY <1>0, <2>1, <1>m DEF SchedLabels
<1>8. CASE CleanupBlockLock(c)
  <2>1. UNCHANGED ret /\ pc[t] \in SchedLabels /\ (Goto(t, ret[t]) \/ Goto(t, "cleanup2"))
    BY <1>8 DEF CleanupBlockLock, SchedLabels
  <2> QED
    BY <1>0, <2>1, <1>m, <1>o DEF SchedLabels
<1>9. CASE CleanupDying(c)
  BY <1>9, <1>o DEF CleanupDying, SchedLabels
<1>10. CASE ThreadYield(c)
  <2>1. /\ pc[t] \in Interruptible /\ (Goto(t, "exit") \/ Goto(t, "yield"))
        /\ ret' = [ret EXCEPT ![t] = "idle"] \/ ret' = [ret EXCEPT ![t] = pc[t]]
    BY <1>10 DEF ThreadYield, YieldAt
  <2>2. "idle" \in Interruptible /\ "exit" \in SchedLabels /\ "yield" \in SchedLabels
    BY DEF Interruptible, SchedLabels
  <2> QED
    BY <2>1, <2>2, <1>i
<1>11. ASSUME NEW u \in Threads, ThreadCreate(c, u) PROVE PcTypeOK' /\ WantedInv'
  BY <1>11, <1>m DEF ThreadCreate, SchedLabels
<1> QED
  BY <1>1, <1>2, <1>3, <1>4, <1>5, <1>6, <1>7, <1>8, <1>9, <1>10, <1>11 DEF OtherStep, SchedStep

LEMMA OtherStepInv ==
    ASSUME MutexIInv, NEW c \in Cpus, OtherStep(c)
    PROVE  MutexIInv'
<1>1. S!IInv' /\ PcTypeOK' /\ WantedInv'
  BY OtherStepScheduler, OtherStepWanted
<1>2. UNCHANGED mutexVars /\ \A m \in Mutexes : WaitingList'[m] = WaitingList[m]
  BY OtherStepLists DEF OtherStep
<1>3. MutexTypeOK'
  BY <1>1, <1>2 DEF MutexIInv, MutexTypeOK, PcTypeOK, mutexVars
<1>4. QueueInv'
  BY <1>2 DEF MutexIInv, QueueInv, mutexVars
<1>5. OwnInv'
  BY <1>2 DEF MutexIInv, OwnInv, mutexVars
<1> QED
  BY <1>1, <1>3, <1>4, <1>5 DEF MutexIInv

----------------------------------------------------------------------------
\* MutexAcquire and MutexRelease

\* A step that the scheduler does not notice keeps its invariant.
LEMMA SchedulerStutters ==
    ASSUME S!IInv, UNCHANGED S!schedVars
    PROVE  S!IInv'
<1> USE DEF S!schedVars
<1>1. S!TypeOK' /\ S!FlagsInv' /\ S!CpuInv' /\ S!IdleInv'
  BY DEF S!IInv, S!TypeOK, S!FlagsInv, S!CpuInv, S!OneCpuPerThread, S!IdleInv
<1>2. S!ReadyInv' /\ S!BlockInv' /\ S!WaitInv' /\ S!StateInv' /\ S!LostInv'
  BY DEF S!IInv, S!ReadyInv, S!BlockInv, S!WaitInv, S!StateInv, S!LostInv
<1> QED
  BY <1>1, <1>2 DEF S!IInv

\* What Return does to the acquisitions.
LEMMA ReturnFacts ==
    ASSUME MutexTypeOK, NEW t \in Threads, NEW m \in Mutexes, NEW n \in {-1, 1}, Return(t, m, n),
           owned[t][m] + n \in 0..MaxRecursivityDepth
    PROVE  /\ owned' \in [Threads -> [Mutexes -> 0..MaxRecursivityDepth]]
           /\ \A u \in Threads, k \in Mutexes :
                  owned'[u][k] = IF u = t /\ k = m THEN owned[t][m] + n ELSE owned[u][k]
BY DEF MutexTypeOK, Return

\* A thread that executes its own code waits for no mutex, and whatever it holds it
\* knows of.
LEMMA CallerFacts ==
    ASSUME MutexIInv, NEW c \in Cpus, MayCall(c)
    PROVE  /\ Caller(c) \in Threads /\ Caller(c) = CurrentThread[c] /\ pc[Caller(c)] = "run"
           /\ Caller(c) # None /\ wanted[Caller(c)] = None
           /\ \A m \in Mutexes : m # None
           /\ \A m \in Mutexes : ~S!In(WaitingList[m], Caller(c))
           /\ \A m \in Mutexes : Holder[m] = Caller(c) =>
                  /\ owned[Caller(c)][m] \in 1..MaxRecursivityDepth
                  /\ CurrentRecursivityDepth[m] = owned[Caller(c)][m]
           /\ \A m \in Mutexes : Holder[m] # Caller(c) => owned[Caller(c)][m] = 0
<1>1. Caller(c) \in Threads /\ Caller(c) = CurrentThread[c] /\ pc[Caller(c)] = "run"
  BY DEF MutexIInv, S!IInv, S!TypeOK, MayCall, Caller
<1>2. Caller(c) # None /\ \A m \in Mutexes : m # None
  BY <1>1, ThreadAssumption, MutexAssumption DEF Mutexes
<1>3. wanted[Caller(c)] = None
  BY <1>1 DEF MutexIInv, WantedInv, SchedLabels
<1>4. \A m \in Mutexes : owned[Caller(c)][m] \in 0..MaxRecursivityDepth
  BY <1>1 DEF MutexIInv, MutexTypeOK
<1>5. \A m \in Mutexes : owned[Caller(c)][m] > 0 \/ owned[Caller(c)][m] = 0
  BY <1>4, MutexAssumption
<1> QED
  BY <1>1, <1>2, <1>3, <1>4, <1>5, MutexAssumption DEF MutexIInv, QueueInv, OwnInv

LEMMA AcquireAgainInv ==
    ASSUME MutexIInv, NEW c \in Cpus, NEW m \in Mutexes, MutexAcquireAgain(c, m)
    PROVE  MutexIInv'
<1> DEFINE t == Caller(c)
<1>1. /\ t \in Threads /\ t # None /\ wanted[t] = None
      /\ owned[t][m] \in 1..MaxRecursivityDepth /\ CurrentRecursivityDepth[m] = owned[t][m]
      /\ owned[t][m] < MaxRecursivityDepth
      /\ \A k \in Mutexes : k # None
  BY CallerFacts DEF MutexAcquireAgain
<1>2. Increment8(CurrentRecursivityDepth[m]) = owned[t][m] + 1
  BY <1>1, MutexAssumption DEF Increment8
<1>3. /\ owned' \in [Threads -> [Mutexes -> 0..MaxRecursivityDepth]]
      /\ \A u \in Threads, k \in Mutexes :
             owned'[u][k] = IF u = t /\ k = m THEN owned[t][m] + 1 ELSE owned[u][k]
  BY <1>1, MutexAssumption, ReturnFacts DEF MutexAcquireAgain, MutexIInv
<1>4. /\ CurrentRecursivityDepth' = [CurrentRecursivityDepth EXCEPT ![m] = owned[t][m] + 1]
      /\ UNCHANGED <<schedVars, Holder, wanted>> /\ Holder[m] = t
  BY <1>2 DEF MutexAcquireAgain
<1>5. S!IInv'
  BY <1>4, SchedulerStutters DEF MutexIInv, schedVars, S!schedVars
<1>6. MutexTypeOK' /\ PcTypeOK' /\ WantedInv' /\ QueueInv'
  BY <1>1, <1>3, <1>4, MutexAssumption
  DEF MutexIInv, MutexTypeOK, PcTypeOK, WantedInv, QueueInv, schedVars
<1>7. OwnInv'
  BY <1>1, <1>3, <1>4 DEF MutexIInv, MutexTypeOK, OwnInv
<1> QED
  BY <1>5, <1>6, <1>7 DEF MutexIInv

LEMMA AcquireFreeInv ==
    ASSUME MutexIInv, NEW c \in Cpus, NEW m \in Mutexes, MutexAcquireFree(c, m)
    PROVE  MutexIInv'
<1> DEFINE t == Caller(c)
<1>0. \A u \in Threads : u # None
  BY ThreadAssumption
<1>1. /\ t \in Threads /\ t # None /\ wanted[t] = None /\ owned[t][m] = 0
      /\ \A k \in Mutexes : k # None /\ ~S!In(WaitingList[k], t)
      /\ WaitingList[m] = <<>> /\ Holder[m] = None
  BY CallerFacts DEF MutexAcquireFree, MutexIInv, QueueInv
<1>2. /\ owned' \in [Threads -> [Mutexes -> 0..MaxRecursivityDepth]]
      /\ \A u \in Threads, k \in Mutexes :
             owned'[u][k] = IF u = t /\ k = m THEN 1 ELSE owned[u][k]
  <2>1. MutexTypeOK /\ Return(t, m, 1)
    BY DEF MutexAcquireFree, MutexIInv
  <2> HIDE DEF t
  <2>2. owned[t][m] + 1 = 1 /\ 1 \in 0..MaxRecursivityDepth
    BY <1>1, MutexAssumption
  <2> QED
    BY <1>1, <2>1, <2>2, ReturnFacts
<1>3. /\ CurrentRecursivityDepth' = [CurrentRecursivityDepth EXCEPT ![m] = 1]
      /\ Holder' = [Holder EXCEPT ![m] = t]
      /\ UNCHANGED <<schedVars, wanted>>
  BY DEF MutexAcquireFree
<1>4. S!IInv'
  BY <1>3, SchedulerStutters DEF MutexIInv, schedVars, S!schedVars
<1>5. MutexTypeOK' /\ PcTypeOK' /\ WantedInv'
  BY <1>1, <1>2, <1>3, MutexAssumption
  DEF MutexIInv, MutexTypeOK, PcTypeOK, WantedInv, schedVars
<1>6. QueueInv'
  <2>1. \A u \in Threads : ~S!In(WaitingList[m], u)
    BY <1>1 DEF S!In
  <2>2. \A k \in Mutexes : Holder'[k] = IF k = m THEN t ELSE Holder[k]
    BY <1>3 DEF MutexIInv, MutexTypeOK
  <2> QED
    BY <1>0, <1>1, <1>3, <2>1, <2>2 DEF MutexIInv, QueueInv, schedVars
<1>7. OwnInv'
  BY <1>0, <1>1, <1>2, <1>3 DEF MutexIInv, MutexTypeOK, OwnInv
<1> QED
  BY <1>4, <1>5, <1>6, <1>7 DEF MutexIInv

\* The waiter links itself into the waiting list of the mutex it wants.
LEMMA AcquireWaitInv ==
    ASSUME MutexIInv, NEW c \in Cpus, NEW m \in Mutexes, MutexAcquireWait(c, m)
    PROVE  MutexIInv'
<1> DEFINE t == Caller(c)
           w == Append(WaitingList[m], t)
<1>1. /\ t \in Threads /\ t # None /\ wanted[t] = None /\ pc[t] = "run" /\ t = CurrentThread[c]
      /\ \A k \in Mutexes : k # None /\ ~S!In(WaitingList[k], t)
      /\ \A k \in Mutexes : Holder[k] # t => owned[t][k] = 0
      /\ \A k \in Mutexes : Holder[k] = t => owned[t][k] # 0
      /\ Holder[m] # None /\ Holder[m] # t
  <2>1. MayCall(c) /\ Holder[m] # None /\ Holder[m] # t
    BY DEF MutexAcquireWait
  <2>2. \A x \in 1..MaxRecursivityDepth : x # 0
    BY MutexAssumption
  <2> QED
    BY <2>1, <2>2, CallerFacts
<1>2. /\ WaitAt(c, m, "mutex") /\ wanted' = [wanted EXCEPT ![t] = m]
      /\ UNCHANGED <<Holder, CurrentRecursivityDepth, owned>>
  BY DEF MutexAcquireWait
<1>3. m \in Waitables /\ m \in S!Waitables /\ WaitingList \in [Waitables -> Seq(Threads)]
  BY DEF MutexIInv, S!IInv, S!TypeOK, S!Waitables, Waitables, Mutexes
<1>4. S!IInv'
  <2>1. S!WaitAt(c, m, "run")
    BY <1>1, <1>2, <1>3, MapWaitAt DEF MutexIInv, AsRun
  <2>2. [x \in Threads |-> AsRun(pc[x])][CurrentThread[c]] = "run" /\ "run" \in S!Interruptible
    BY <1>1 DEF AsRun, S!Interruptible
  <2> QED
    BY <1>3, <2>1, <2>2, S!WaitAtInv, InstanceAssumption DEF MutexIInv
<1>5. /\ w \in Seq(Threads)
      /\ \A x : S!In(w, x) <=> S!In(WaitingList[m], x) \/ x = t
  <2>1. WaitingList[m] \in Seq(Threads)
    BY <1>3
  <2> QED
    BY <1>1, <2>1, S!AppendIn, InstanceAssumption DEF S!ThreadAssumption
<1>6. \A k \in Mutexes : WaitingList'[k] = IF k = m THEN w ELSE WaitingList[k]
  BY <1>1, <1>2, <1>3 DEF WaitAt, Waitables, Mutexes
<1>7. /\ pc' = [pc EXCEPT ![t] = "block"] /\ ret' = [ret EXCEPT ![t] = "mutex"]
      /\ "block" \in SchedLabels
  BY <1>1, <1>2 DEF WaitAt, Goto, SchedLabels
<1> HIDE DEF w
<1>8. MutexTypeOK' /\ PcTypeOK'
  BY <1>1, <1>2, <1>7 DEF MutexIInv, MutexTypeOK, PcTypeOK
<1>9. WantedInv'
  BY <1>1, <1>2, <1>7 DEF MutexIInv, MutexTypeOK, PcTypeOK, WantedInv
<1>10. \A u \in Threads : wanted'[u] = IF u = t THEN m ELSE wanted[u]
  BY <1>1, <1>2 DEF MutexIInv, MutexTypeOK
<1>11. QueueInv'
  <2>1. \A k \in Mutexes, u \in Threads : S!In(WaitingList'[k], u) <=>
            S!In(WaitingList[k], u) \/ (k = m /\ u = t)
    BY <1>5, <1>6
  <2> QED
    BY <1>1, <1>2, <1>6, <1>10, <2>1 DEF MutexIInv, QueueInv
<1>12. OwnInv'
  BY <1>1, <1>2, <1>10 DEF MutexIInv, OwnInv
<1> QED
  BY <1>4, <1>8, <1>9, <1>11, <1>12 DEF MutexIInv

\* A thread that was woken for a mutex has it: it never waits a second time.
LEMMA AcquireWokenInv ==
    ASSUME MutexIInv, NEW c \in Cpus, MutexAcquireWoken(c)
    PROVE  MutexIInv'
<1> DEFINE t == Caller(c)
           m == wanted[t]
<1>1. t \in Threads /\ pc[t] = "mutex" /\ t = CurrentThread[c]
  BY DEF MutexIInv, S!IInv, S!TypeOK, MutexAcquireWoken, Caller
<1>2. m \in Mutexes /\ m # None
  BY <1>1 DEF MutexIInv, MutexTypeOK, WantedInv
<1>3. ~S!In(WaitingList[m], t)
  <2>1. [x \in Threads |-> AsRun(pc[x])][t] = "run"
    BY <1>1 DEF AsRun
  <2>2. m \in S!Waitables
    BY <1>2 DEF Mutexes, S!Waitables
  <2> QED
    BY <1>1, <2>1, <2>2 DEF MutexIInv, S!IInv, S!WaitInv
<1>4. Holder[m] = t /\ owned[t][m] = 0 /\ CurrentRecursivityDepth[m] = 1
  <2>1. Holder[m] = t
    BY <1>1, <1>2, <1>3 DEF MutexIInv, QueueInv
  <2> QED
    BY <1>1, <1>2, <2>1 DEF MutexIInv, OwnInv
<1> HIDE DEF m
<1>5. /\ pc' = [pc EXCEPT ![t] = "run"] /\ wanted' = [wanted EXCEPT ![t] = None] /\ Return(t, m, 1)
      /\ UNCHANGED <<State, Flags, BlockLock, RefCnt, Handle, ReadyThreadsList,
                     WaitingList, CurrentThread, PreviousThread, ret, Holder, CurrentRecursivityDepth>>
  BY <1>4 DEF MutexAcquireWoken, Goto, m
<1>6. /\ owned' \in [Threads -> [Mutexes -> 0..MaxRecursivityDepth]]
      /\ \A u \in Threads, k \in Mutexes :
             owned'[u][k] = IF u = t /\ k = m THEN 1 ELSE owned[u][k]
  BY <1>1, <1>2, <1>4, <1>5, MutexAssumption, ReturnFacts DEF MutexIInv
<1>7. S!IInv'
  <2>1. [x \in Threads |-> AsRun(pc[x])]' = [x \in Threads |-> AsRun(pc[x])]
    BY <1>1, <1>5 DEF MutexIInv, PcTypeOK, AsRun
  <2> QED
    BY <1>5, <2>1, SchedulerStutters DEF MutexIInv, S!schedVars
<1>8. MutexTypeOK' /\ PcTypeOK'
  BY <1>1, <1>5, <1>6 DEF MutexIInv, MutexTypeOK, PcTypeOK, Interruptible
<1>9. WantedInv'
  BY <1>1, <1>5 DEF MutexIInv, MutexTypeOK, PcTypeOK, WantedInv, SchedLabels
<1>10. /\ \A u \in Threads : wanted'[u] = IF u = t THEN None ELSE wanted[u]
       /\ \A k \in Mutexes : k # None
  BY <1>1, <1>5, MutexAssumption DEF MutexIInv, MutexTypeOK, Mutexes
<1>11. QueueInv'
  <2>1. \A k \in Mutexes : ~S!In(WaitingList[k], t)
    BY <1>1, <1>2, <1>3 DEF MutexIInv, QueueInv, m
  <2> QED
    BY <1>1, <1>4, <1>5, <1>10, <2>1 DEF MutexIInv, QueueInv, m
<1>12. OwnInv'
  BY <1>1, <1>2, <1>4, <1>5, <1>6, <1>10 DEF MutexIInv, OwnInv, m
<1> QED
  BY <1>7, <1>8, <1>9, <1>11, <1>12 DEF MutexIInv

\* MutexRelease: a nested release, the handover to the first waiter, the free mutex.
LEMMA ReleaseInv ==
    ASSUME MutexIInv, NEW c \in Cpus, NEW m \in Mutexes, MutexRelease(c, m)
    PROVE  MutexIInv'
<1> DEFINE t == Caller(c)
<1>0. \A u \in Threads : u # None
  BY ThreadAssumption
<1>1. /\ t \in Threads /\ wanted[t] = None /\ pc[t] = "run" /\ t = CurrentThread[c]
      /\ \A k \in Mutexes : k # None /\ ~S!In(WaitingList[k], t)
      /\ owned[t][m] \in 1..MaxRecursivityDepth /\ CurrentRecursivityDepth[m] = owned[t][m]
      /\ Holder[m] = t
  BY CallerFacts DEF MutexRelease
<1>2. /\ owned' \in [Threads -> [Mutexes -> 0..MaxRecursivityDepth]]
      /\ \A u \in Threads, k \in Mutexes :
             owned'[u][k] = IF u = t /\ k = m THEN owned[t][m] - 1 ELSE owned[u][k]
      /\ UNCHANGED wanted
  <2>1. Return(t, m, -1) /\ owned[t][m] + (-1) \in 0..MaxRecursivityDepth /\ UNCHANGED wanted
    BY <1>1, MutexAssumption DEF MutexRelease
  <2>2. owned[t][m] + (-1) = owned[t][m] - 1
    BY <1>1, MutexAssumption
  <2> QED
    BY <1>1, <2>1, <2>2, ReturnFacts DEF MutexIInv
<1>3. \A u \in Threads : u # t => owned[u][m] = 0
  BY <1>1 DEF MutexIInv, MutexTypeOK, OwnInv
<1>4. CASE CurrentRecursivityDepth[m] > 1
  <2>1. /\ CurrentRecursivityDepth' = [CurrentRecursivityDepth EXCEPT ![m] = owned[t][m] - 1]
        /\ UNCHANGED <<Holder, schedVars>>
    BY <1>1, <1>4, MutexAssumption DEF MutexRelease
  <2>2. S!IInv'
    BY <2>1, SchedulerStutters DEF MutexIInv, schedVars, S!schedVars
  <2>3. MutexTypeOK' /\ PcTypeOK' /\ WantedInv' /\ QueueInv'
    BY <1>1, <1>2, <2>1, MutexAssumption
    DEF MutexIInv, MutexTypeOK, PcTypeOK, WantedInv, QueueInv, schedVars
  <2>4. OwnInv'
    BY <1>1, <1>2, <1>3, <1>4, <2>1, MutexAssumption DEF MutexIInv, MutexTypeOK, OwnInv
  <2> QED
    BY <2>2, <2>3, <2>4 DEF MutexIInv
<1>5. CASE CurrentRecursivityDepth[m] <= 1 /\ WaitingList[m] = <<>>
  <2>1. /\ owned[t][m] = 1
        /\ Holder' = [Holder EXCEPT ![m] = None]
        /\ UNCHANGED <<CurrentRecursivityDepth, schedVars>>
    BY <1>1, <1>5, MutexAssumption DEF MutexRelease
  <2>2. S!IInv'
    BY <2>1, SchedulerStutters DEF MutexIInv, schedVars, S!schedVars
  <2>3. MutexTypeOK' /\ PcTypeOK' /\ WantedInv'
    BY <1>1, <1>2, <2>1, MutexAssumption
    DEF MutexIInv, MutexTypeOK, PcTypeOK, WantedInv, schedVars
  <2>4. \A k \in Mutexes : Holder'[k] = IF k = m THEN None ELSE Holder[k]
    BY <2>1 DEF MutexIInv, MutexTypeOK
  <2>5. \A u \in Threads : ~S!In(WaitingList[m], u)
    BY <1>5 DEF S!In
  <2>6. QueueInv'
    <3>1. \A u \in Threads : wanted[u] # m
      BY <1>1, <2>5 DEF MutexIInv, QueueInv
    <3> QED
      BY <1>0, <1>1, <1>2, <1>5, <2>1, <2>4, <3>1 DEF MutexIInv, QueueInv, schedVars
  <2>7. OwnInv'
    BY <1>0, <1>1, <1>2, <1>3, <2>1, <2>4 DEF MutexIInv, MutexTypeOK, OwnInv
  <2> QED
    BY <2>2, <2>3, <2>6, <2>7 DEF MutexIInv
<1>6. CASE CurrentRecursivityDepth[m] <= 1 /\ WaitingList[m] # <<>>
  <2> DEFINE u == Head(WaitingList[m])
             w == Tail(WaitingList[m])
  <2>1. /\ owned[t][m] = 1
        /\ Holder' = [Holder EXCEPT ![m] = u]
        /\ CurrentRecursivityDepth' = [CurrentRecursivityDepth EXCEPT ![m] = 1]
        /\ WakeAt(c, m, "run")
    BY <1>1, <1>6, MutexAssumption DEF MutexRelease
  <2>2. m \in Waitables /\ m \in S!Waitables /\ WaitingList \in [Waitables -> Seq(Threads)]
    BY DEF MutexIInv, S!IInv, S!TypeOK, S!Waitables, Waitables, Mutexes
  <2>3. /\ w \in Seq(Threads) /\ u \in Threads /\ S!In(WaitingList[m], u)
        /\ \A x : S!In(w, x) <=> S!In(WaitingList[m], x) /\ x # u
    <3>1. WaitingList[m] \in Seq(Threads) /\ S!Inj(WaitingList[m])
      BY <2>2 DEF MutexIInv, S!IInv, S!WaitInv
    <3> QED
      BY <1>6, <3>1, S!TailIn, InstanceAssumption DEF S!ThreadAssumption
  <2>4. /\ \A k \in Mutexes : WaitingList'[k] = IF k = m THEN w ELSE WaitingList[k]
        /\ UNCHANGED ret /\ pc' = pc
    BY <1>1, <2>1, <2>2 DEF WakeAt, Waitables, Mutexes, Goto, MutexIInv, PcTypeOK
  <2>5. S!IInv'
    <3>1. S!WakeAt(c, m, "run")
      BY <1>1, <2>1, <2>2, MapWakeAt DEF MutexIInv, AsRun, Interruptible
    <3>2. [x \in Threads |-> AsRun(pc[x])][CurrentThread[c]] = "run"
      BY <1>1 DEF AsRun
    <3>3. S!WakeAt(c, m, [x \in Threads |-> AsRun(pc[x])][CurrentThread[c]])
      BY <3>1, <3>2
    <3> QED
      BY <2>2, <3>3, S!WakeAtInv, InstanceAssumption DEF MutexIInv
  <2> HIDE DEF u, w
  <2>6. MutexTypeOK' /\ PcTypeOK' /\ WantedInv'
    BY <1>1, <1>2, <2>1, <2>3, <2>4, MutexAssumption
    DEF MutexIInv, MutexTypeOK, PcTypeOK, WantedInv
  <2>7. \A k \in Mutexes : Holder'[k] = IF k = m THEN u ELSE Holder[k]
    BY <2>1 DEF MutexIInv, MutexTypeOK
  <2>8. wanted[u] = m /\ u # t /\ u # None
    BY <1>0, <1>1, <2>3 DEF MutexIInv, QueueInv
  <2>9. QueueInv'
    <3>1. \A k \in Mutexes, x \in Threads : S!In(WaitingList'[k], x) <=>
              S!In(WaitingList[k], x) /\ ~(k = m /\ x = u)
      BY <2>3, <2>4
    <3>2. ASSUME NEW k \in Mutexes, NEW x \in Threads, S!In(WaitingList'[k], x)
          PROVE  wanted'[x] = k /\ Holder'[k] # x
      BY <1>2, <2>7, <3>1, <3>2 DEF MutexIInv, QueueInv
    <3>3. ASSUME NEW k \in Mutexes, NEW x \in Threads, wanted'[x] = k
          PROVE  S!In(WaitingList'[k], x) \/ Holder'[k] = x
      BY <1>1, <1>2, <2>7, <3>1, <3>3 DEF MutexIInv, QueueInv
    <3>4. \A k \in Mutexes : Holder'[k] = None => WaitingList'[k] = <<>>
      BY <2>4, <2>7, <2>8 DEF MutexIInv, QueueInv
    <3> QED
      BY <3>2, <3>3, <3>4 DEF QueueInv
  <2>10. OwnInv'
    BY <1>0, <1>1, <1>2, <1>3, <2>1, <2>3, <2>7, <2>8 DEF MutexIInv, MutexTypeOK, OwnInv
  <2> QED
    BY <2>5, <2>6, <2>9, <2>10 DEF MutexIInv
<1>7. CurrentRecursivityDepth[m] > 1 \/ CurrentRecursivityDepth[m] <= 1
  BY <1>1, MutexAssumption
<1> QED
  BY <1>4, <1>5, <1>6, <1>7

----------------------------------------------------------------------------
\* The theorems

\* The scheduler starts as Thread says.
LEMMA MapInit == MutexInit => S!ThreadSystemInit
<1> SUFFICES ASSUME ThreadSystemInit PROVE S!ThreadSystemInit
  BY DEF MutexInit
<1>1. /\ [t \in Threads |-> AsRun(pc[t])] = pc
      /\ [t \in Threads |-> AsRun(ret[t])] = ret
  BY DEF ThreadSystemInit, AsRun
<1> QED
  BY <1>1 DEF ThreadSystemInit, S!ThreadSystemInit, MainThreads, S!MainThreads,
              IdleThreads, S!IdleThreads, Waitables, S!Waitables

\* The invariant holds at the start.
LEMMA InitMutexIInv == MutexInit => MutexIInv
<1> SUFFICES ASSUME MutexInit PROVE MutexIInv
  OBVIOUS
<1>1. ThreadSystemInit
  BY DEF MutexInit
<1>2. S!ThreadSystemInit
  BY MapInit
<1>3. S!IInv
  BY <1>2, S!InitInv, InstanceAssumption DEF S!ThreadAssumption
<1>4. PcTypeOK
  BY <1>1 DEF ThreadSystemInit, PcTypeOK, SchedLabels, Interruptible
<1>5. MutexTypeOK
  BY <1>4, MutexAssumption DEF MutexInit, MutexTypeOK, PcTypeOK
<1>6. WantedInv
  BY <1>1 DEF MutexInit, ThreadSystemInit, WantedInv
<1>7. \A m \in Mutexes : WaitingList[m] = <<>> /\ \A t : ~S!In(WaitingList[m], t)
  BY <1>1 DEF ThreadSystemInit, Waitables, Mutexes, S!In
<1>8. QueueInv /\ OwnInv
  <2>1. \A m \in Mutexes : m # None
    BY MutexAssumption DEF Mutexes
  <2>2. \A t \in Threads : t # None
    BY ThreadAssumption
  <2> QED
    BY <1>7, <2>1, <2>2 DEF MutexInit, QueueInv, OwnInv
<1> QED
  BY <1>3, <1>4, <1>5, <1>6, <1>8 DEF MutexIInv

LEMMA NextMutexIInv ==
    ASSUME MutexIInv, [MutexNext]_vars
    PROVE  MutexIInv'
<1>1. CASE UNCHANGED vars
  <2> USE <1>1 DEF vars, mutexVars, schedVars
  <2>1. S!IInv'
    BY SchedulerStutters DEF MutexIInv, S!schedVars
  <2>2. MutexTypeOK' /\ PcTypeOK' /\ WantedInv' /\ QueueInv' /\ OwnInv'
    BY DEF MutexIInv, MutexTypeOK, PcTypeOK, WantedInv, QueueInv, OwnInv
  <2> QED
    BY <2>1, <2>2 DEF MutexIInv
<1>2. CASE MutexNext
  BY <1>2, OtherStepInv, AcquireWokenInv, AcquireAgainInv, AcquireFreeInv, AcquireWaitInv, ReleaseInv
  DEF MutexNext
<1> QED
  BY <1>1, <1>2

\* The inductive invariant of the mutex holds, for every set of CPUs, threads and mutexes
\* and every recursion depth.
THEOREM MutexInvariantHolds == MutexSpec => []MutexIInv
BY InitMutexIInv, NextMutexIInv, PTL DEF MutexSpec

\* Mutual exclusion with recursion: a thread to which MutexAcquire returned is the holder,
\* as deep as it acquired, and so the unlocked test in MutexAcquire and the assertion of
\* MutexRelease are right.
THEOREM MutexIsCorrect == MutexSpec => []MutexInv
<1>1. MutexIInv => MutexInv
  BY DEF MutexIInv, OwnInv, MutexInv, OwnerIsHolder
<1> QED
  BY MutexInvariantHolds, <1>1, PTL

\* MutexRelease hands the mutex to the first waiter, and nobody else takes it from the
\* waiters: a mutex with waiters is never free.
THEOREM HandoverIsInOrder == MutexSpec => HandoverInOrder
<1> DEFINE Handover == \A m \in Mutexes :
               WaitingList[m] # <<>> /\ Holder'[m] # Holder[m] =>
                   /\ Holder'[m] = Head(WaitingList[m])
                   /\ WaitingList'[m] = Tail(WaitingList[m])
<1>1. ASSUME MutexIInv, [MutexNext]_vars PROVE [Handover]_vars
  <2> SUFFICES ASSUME MutexNext, NEW m \in Mutexes, WaitingList[m] # <<>>, Holder'[m] # Holder[m]
               PROVE  /\ Holder'[m] = Head(WaitingList[m])
                      /\ WaitingList'[m] = Tail(WaitingList[m])
    BY <1>1
  <2>1. /\ Holder \in [Mutexes -> Threads \cup {None}] /\ Holder[m] # None
        /\ m \in Waitables /\ WaitingList \in [Waitables -> Seq(Threads)]
    BY <1>1 DEF MutexIInv, MutexTypeOK, QueueInv, S!IInv, S!TypeOK, S!Waitables, Waitables, Mutexes
  <2>2. PICK c \in Cpus, k \in Mutexes : MutexAcquireFree(c, k) \/ MutexRelease(c, k)
    BY DEF MutexNext, OtherStep, mutexVars, MutexAcquireWoken, MutexAcquireAgain, MutexAcquireWait
  <2>3. k = m /\ ~MutexAcquireFree(c, k)
    BY <2>1, <2>2 DEF MutexAcquireFree, MutexRelease
  <2> QED
    BY <2>1, <2>2, <2>3 DEF MutexRelease, WakeAt
<1> QED
  BY MutexInvariantHolds, <1>1, PTL DEF MutexSpec, HandoverInOrder

\* Every step of the mutex is a step of the scheduler, or none.
LEMMA MapNext ==
    ASSUME MutexIInv, [MutexNext]_vars
    PROVE  [S!Next]_(S!schedVars)
<1>1. ASSUME UNCHANGED schedVars PROVE UNCHANGED S!schedVars
  BY <1>1 DEF schedVars, S!schedVars
<1> SUFFICES ASSUME MutexNext PROVE [S!Next]_(S!schedVars)
  BY <1>1 DEF vars
<1>2. PICK c \in Cpus : \/ OtherStep(c)
                        \/ MutexAcquireWoken(c)
                        \/ \E m \in Mutexes : \/ MutexAcquireAgain(c, m)
                                              \/ MutexAcquireFree(c, m)
                                              \/ MutexAcquireWait(c, m)
                                              \/ MutexRelease(c, m)
  BY DEF MutexNext
<1> DEFINE t == CurrentThread[c]
<1>3. t \in Threads /\ PcTypeOK /\ MutexTypeOK /\ WantedInv
  BY DEF MutexIInv, S!IInv, S!TypeOK
<1>4. \A m \in Mutexes : m \in Waitables /\ m \in S!Waitables /\ m \in Objects /\ m \notin Threads
  BY ThreadAssumption DEF Waitables, S!Waitables, Mutexes
<1>5. ASSUME pc[t] \in {"run", "mutex"}
      PROVE  [x \in Threads |-> AsRun(pc[x])][t] = "run"
  BY <1>3, <1>5 DEF AsRun
<1>6. ASSUME NEW m \in Mutexes, pc[t] \in {"run", "mutex"}, WaitAt(c, m, "mutex")
      PROVE  S!Next
  <2>1. S!WaitAt(c, m, AsRun("mutex"))
    BY <1>3, <1>4, <1>6, MapWaitAt
  <2>2. S!WaitAt(c, m, "run")
    BY <2>1 DEF AsRun
  <2> QED
    BY <1>4, <1>5, <1>6, <2>2 DEF S!Next, S!ThreadCall, S!WaitOn
<1>7. CASE OtherStep(c)
  <2>1. CASE SchedStep(c)
    BY <2>1, MapSchedStep DEF SchedStep, S!SchedStep, S!Next
  <2>2. CASE ThreadYield(c)
    BY <2>2, MapSchedStep DEF S!Next
  <2>3. ASSUME NEW u \in Threads, ThreadCreate(c, u) PROVE S!Next
    BY <2>3, MapSchedStep DEF S!Next, S!ThreadCall
  <2> QED
    BY <1>7, <2>1, <2>2, <2>3 DEF OtherStep
<1>8. CASE MutexAcquireWoken(c)
  <2>1. pc[t] = "mutex" /\ wanted[t] \in Mutexes
    BY <1>3, <1>8 DEF MutexAcquireWoken, Caller, WantedInv, MutexTypeOK
  <2>2. CASE WaitAt(c, wanted[t], "mutex")
    BY <1>6, <2>1, <2>2
  <2>3. CASE Goto(t, "run") /\ UNCHANGED <<State, Flags, BlockLock, RefCnt, Handle, ReadyThreadsList,
                                           WaitingList, CurrentThread, PreviousThread, ret>>
    <3>1. UNCHANGED [x \in Threads |-> AsRun(pc[x])]
      BY <1>3, <2>1, <2>3 DEF Goto, AsRun, PcTypeOK
    <3> QED
      BY <2>3, <3>1 DEF S!schedVars
  <2> QED
    BY <1>8, <2>2, <2>3 DEF MutexAcquireWoken, Caller
<1>9. ASSUME NEW m \in Mutexes, MutexAcquireWait(c, m) PROVE S!Next
  BY <1>6, <1>9 DEF MutexAcquireWait, MayCall, Caller
<1>10. ASSUME NEW m \in Mutexes, MutexRelease(c, m) PROVE [S!Next]_(S!schedVars)
  <2>1. CASE WakeAt(c, m, "run")
    <3>1. S!WakeAt(c, m, AsRun("run"))
      BY <1>3, <1>4, <2>1, MapWakeAt DEF Interruptible
    <3>2. S!WakeAt(c, m, "run")
      BY <3>1 DEF AsRun
    <3>3. pc[t] = "run"
      BY <1>10 DEF MutexRelease, MayCall, Caller
    <3> QED
      BY <1>4, <1>5, <3>2, <3>3 DEF S!Next, S!ThreadCall, S!WakeFirst
  <2> QED
    BY <1>1, <1>10, <2>1 DEF MutexRelease
<1>11. ASSUME NEW m \in Mutexes, MutexAcquireAgain(c, m) \/ MutexAcquireFree(c, m)
       PROVE  UNCHANGED S!schedVars
  BY <1>1, <1>11 DEF MutexAcquireAgain, MutexAcquireFree
<1> QED
  BY <1>2, <1>7, <1>8, <1>9, <1>10, <1>11

\* MutexAcquire and MutexRelease block and wake threads as Thread says objects do: with
\* MutexAcquire counted as the thread's own code, every step is a step of the scheduler
\* or none.
THEOREM MutexUsesScheduler == MutexSpec => UsesScheduler
<1>1. S!ThreadSystemInit <=> Scheduler!ThreadSystemInit
  BY DEF S!ThreadSystemInit, Scheduler!ThreadSystemInit, S!MainThreads, Scheduler!MainThreads,
         S!IdleThreads, Scheduler!IdleThreads, S!Waitables, Scheduler!Waitables
<1>2. S!Next <=> Scheduler!Next
  BY DEF S!Next, Scheduler!Next, S!SchedStep,
         Scheduler!SchedStep, S!YieldSchedule, Scheduler!YieldSchedule, S!IdleTakeBlockLock,
         Scheduler!IdleTakeBlockLock, S!ThreadBlock, Scheduler!ThreadBlock, S!BlockSchedule,
         Scheduler!BlockSchedule, S!ThreadExit, Scheduler!ThreadExit, S!ExitSignal,
         Scheduler!ExitSignal, S!ExitSchedule, Scheduler!ExitSchedule, S!CleanupBlockLock,
         Scheduler!CleanupBlockLock, S!CleanupDying, Scheduler!CleanupDying, S!ThreadYield,
         Scheduler!ThreadYield, S!YieldAt, Scheduler!YieldAt, S!ThreadCall, Scheduler!ThreadCall,
         S!CallThreadExit, Scheduler!CallThreadExit, S!WaitOn, Scheduler!WaitOn, S!WakeFirst,
         Scheduler!WakeFirst, S!ThreadCreate, Scheduler!ThreadCreate, S!ThreadCloseHandle,
         Scheduler!ThreadCloseHandle, S!ThreadTerminate, Scheduler!ThreadTerminate, S!WaitAt,
         Scheduler!WaitAt, S!WakeAt, Scheduler!WakeAt, S!ThreadUnblock, Scheduler!ThreadUnblock,
         S!Schedule, Scheduler!Schedule, S!GetReadyThread, Scheduler!GetReadyThread, S!Goto,
         Scheduler!Goto, S!Waitables, Scheduler!Waitables, S!Interruptible, Scheduler!Interruptible
<1>3. (UNCHANGED S!schedVars) <=> UNCHANGED Scheduler!schedVars
  BY DEF S!schedVars, Scheduler!schedVars
<1>4. MutexInit => Scheduler!ThreadSystemInit
  BY <1>1, MapInit
<1>5. ASSUME MutexIInv, [MutexNext]_vars PROVE [Scheduler!Next]_(Scheduler!schedVars)
  BY <1>2, <1>3, <1>5, MapNext
<1> QED
  BY <1>4, <1>5, MutexInvariantHolds, PTL DEF MutexSpec, UsesScheduler, Scheduler!Spec

=============================================================================
