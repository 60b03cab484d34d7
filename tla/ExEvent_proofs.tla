--------------------------- MODULE ExEvent_proofs ---------------------------
(***************************************************************************)
(* Proofs about ExEvent, for any number of CPUs, threads and events: the   *)
(* events use the scheduler as Thread specifies it, so what is proved of   *)
(* the scheduler holds under the refinement mapping; with it, at most one  *)
(* wait for a synchronization event returns for each signal, and a wait    *)
(* for the termination of a thread returns after it exited.                *)
(***************************************************************************)
EXTENDS ExEvent, TLAPS

\* Where a thread at label l is for the scheduler: in code of its own, or, when it
\* signals its own termination, still in ThreadExit.
At(t, l) ==
    IF l \in {"test", "insert"} THEN "run"
    ELSE IF l = "signalling" THEN IF event[t] = t THEN "signal" ELSE "run"
    ELSE l

\* The scheduler that the threads of ExEvent use, with what is proved about it.
\* Nothing here calls ThreadTerminate.
S == INSTANCE Thread_proofs WITH
    pc <- [t \in Threads |-> At(t, pc[t])],
    ret <- [t \in Threads |-> At(t, ret[t])],
    Terminable <- {}

Labels == SchedLabels \cup Interruptible \cup EventLabels

RetTypeOK == ret \in [Threads -> Interruptible \cup {"test"}]

\* Only clients are in ExEventWaitForSignal, and they do not exit; who returns to the
\* test was woken by a synchronization event.
ClientInv == \A t \in Threads :
    /\ t \notin Clients => pc[t] \notin {"test", "insert"} /\ ret[t] # "test"
    /\ t \in Clients => pc[t] \notin {"exit", "signal", "dead"}
    /\ pc[t] \in SchedLabels /\ ret[t] = "test" => event[t] \in Objects

\* What a thread waits for it may wait for; what it signals is an object, or its own
\* termination event.
CallInv == \A t \in Threads :
    /\ pc[t] \in {"test", "insert"} =>
           /\ event[t] \in Events
           /\ event[t] \in Threads => Handle[event[t]] /\ event[t] # t
    /\ pc[t] = "signalling" => event[t] \in Objects \cup ({t} \ Clients)

\* A signal of a synchronization event that is still there has been taken by no wait.
Pending(o) == IF Signaled[o] THEN 1 ELSE 0
CountInv == \A o \in Objects :
    ~IsNotification(o) => returns[o] + Pending(o) <= signals[o]

\* A termination event is signalled by the dying thread alone, and a thread that waited
\* for it and is no longer in its waiting list was woken by that.
TerminationInv ==
    /\ \A u \in Threads : Signaled[u] => State[u] = "Dying"
    /\ \A t, u \in Threads :
           event[t] = u /\ pc[t] \in SchedLabels \cup Interruptible =>
               State[u] = "Dying" \/ S!In(WaitingList[u], t)

EventIInv ==
    /\ S!IInv /\ S!DyingInv
    /\ EventTypeOK /\ RetTypeOK /\ ClientInv /\ CallInv /\ CountInv /\ TerminationInv

----------------------------------------------------------------------------
\* A step of the scheduler on the threads of ExEvent is that step of Thread.

USE DEF Labels

LEMMA InstanceAssumption == S!ThreadAssumption
BY ThreadAssumption DEF S!ThreadAssumption, ThreadAssumption, S!IdleThreads, IdleThreads

LEMMA Types ==
    ASSUME EventTypeOK, RetTypeOK
    PROVE  /\ pc \in [Threads -> Labels] /\ ret \in [Threads -> Interruptible \cup {"test"}]
           /\ Interruptible \cap SchedLabels = {} /\ EventLabels \cap SchedLabels = {}
           /\ EventLabels \cap Interruptible = {}
BY DEF EventTypeOK, RetTypeOK, Interruptible, SchedLabels, EventLabels

\* The scheduler's own labels and interruptible code are what they are.
LEMMA AtSched ==
    ASSUME NEW t, NEW l \in SchedLabels \cup Interruptible
    PROVE  At(t, l) = l
BY DEF At, SchedLabels, Interruptible

\* Where a thread that is given label l counts as being.
LEMMA MapGoto ==
    ASSUME EventTypeOK, NEW t \in Threads, NEW l \in Labels, Goto(t, l), UNCHANGED event,
           NEW m, At(t, l) = m
    PROVE  S!Goto(t, m)
BY DEF EventTypeOK, Goto, S!Goto, At

\* Where it counts as continuing.
LEMMA MapRet ==
    ASSUME RetTypeOK, NEW t \in Threads, NEW l \in Labels, ret' = [ret EXCEPT ![t] = l],
           UNCHANGED event
    PROVE  [x \in Threads |-> At(x, ret[x])]'
           = [[x \in Threads |-> At(x, ret[x])] EXCEPT ![t] = At(t, l)]
BY DEF RetTypeOK, At

\* A wake-up of the first waiter, by a thread that goes on at l.
LEMMA MapWakeAt ==
    ASSUME EventTypeOK, NEW c \in Cpus, CurrentThread[c] \in Threads, NEW o,
           NEW l \in Labels, WakeAt(c, o, l), UNCHANGED event
    PROVE  S!WakeAt(c, o, At(CurrentThread[c], l))
<1>1. S!Goto(CurrentThread[c], At(CurrentThread[c], l))
  BY MapGoto DEF WakeAt
<1>2. UNCHANGED [x \in Threads |-> At(x, ret[x])]
  BY DEF WakeAt, At
<1> QED
  BY <1>1, <1>2 DEF WakeAt, S!WakeAt, ThreadUnblock, S!ThreadUnblock

\* A wait, after which the thread goes on at l.
LEMMA MapWaitAt ==
    ASSUME EventTypeOK, RetTypeOK, NEW c \in Cpus, CurrentThread[c] \in Threads, NEW o,
           NEW l \in Labels, WaitAt(c, o, l), UNCHANGED event
    PROVE  S!WaitAt(c, o, At(CurrentThread[c], l))
<1>1. S!Goto(CurrentThread[c], "block")
  BY MapGoto, AtSched DEF WaitAt, SchedLabels
<1> QED
  BY <1>1, MapRet DEF WaitAt, S!WaitAt

LEMMA MapSchedule ==
    ASSUME EventTypeOK, NEW c \in Cpus, NEW t \in Threads, NEW list, Schedule(c, t, list),
           UNCHANGED event
    PROVE  S!Schedule(c, t, list)
BY DEF EventTypeOK, Schedule, S!Schedule, GetReadyThread, S!GetReadyThread, At

\* OtherStep is a step of Thread.
LEMMA MapOtherStep ==
    ASSUME EventIInv, NEW c \in Cpus, OtherStep(c)
    PROVE  S!Next
<1>0. EventTypeOK /\ RetTypeOK /\ CurrentThread[c] \in Threads /\ UNCHANGED event
  BY DEF EventIInv, S!IInv, S!TypeOK, OtherStep, eventVars
<1>1. \A t \in Threads : /\ pc[t] \in Labels /\ ret[t] \in Labels
                         /\ \A l \in SchedLabels \cup Interruptible :
                                pc[t] = l => [x \in Threads |-> At(x, pc[x])][t] = l
                         /\ [x \in Threads |-> At(x, pc[x])][t] = At(t, pc[t])
                         /\ [x \in Threads |-> At(x, ret[x])][t] = At(t, ret[t])
  <2> SUFFICES ASSUME NEW t \in Threads
               PROVE  /\ pc[t] \in Labels /\ ret[t] \in Labels
                      /\ \A l \in SchedLabels \cup Interruptible : pc[t] = l => At(t, pc[t]) = l
    OBVIOUS
  <2>1. pc[t] \in Labels /\ ret[t] \in Labels
    BY <1>0, Types DEF EventLabels
  <2> QED
    BY <2>1, AtSched
<1>r. ASSUME UNCHANGED ret
      PROVE  UNCHANGED [x \in Threads |-> At(x, ret[x])]
  BY <1>0, <1>r DEF At
<1>2. YieldSchedule(c) => S!YieldSchedule(c)
  BY <1>0, <1>1, <1>r, MapSchedule DEF YieldSchedule, S!YieldSchedule, SchedLabels
<1>3. BlockSchedule(c) => S!BlockSchedule(c)
  BY <1>0, <1>1, <1>r, MapSchedule DEF BlockSchedule, S!BlockSchedule, SchedLabels
<1>4. ExitSchedule(c) => S!ExitSchedule(c)
  BY <1>0, <1>1, <1>r, MapSchedule DEF ExitSchedule, S!ExitSchedule, SchedLabels
<1>5. ASSUME IdleTakeBlockLock(c) PROVE S!IdleTakeBlockLock(c)
  <2>1. S!Goto(CurrentThread[c], "block")
    BY <1>0, <1>5, MapGoto, AtSched DEF IdleTakeBlockLock, SchedLabels
  <2>2. [x \in Threads |-> At(x, ret[x])]'
        = [[x \in Threads |-> At(x, ret[x])] EXCEPT ![CurrentThread[c]] = "run"]
    BY <1>0, <1>5, MapRet DEF IdleTakeBlockLock, At, Interruptible
  <2> QED
    BY <1>0, <1>1, <1>5, <2>1, <2>2 DEF IdleTakeBlockLock, S!IdleTakeBlockLock, Interruptible
<1>6. ASSUME ThreadBlock(c) PROVE S!ThreadBlock(c)
  <2>1. S!Goto(CurrentThread[c], IF Flags[CurrentThread[c]] THEN "exit" ELSE "blocked")
    BY <1>0, <1>6, MapGoto, AtSched DEF ThreadBlock, SchedLabels
  <2> QED
    BY <1>0, <1>1, <1>6, <1>r, <2>1 DEF ThreadBlock, S!ThreadBlock, SchedLabels
<1>7. ASSUME ThreadExit(c) PROVE S!ThreadExit(c)
  <2>1. S!Goto(CurrentThread[c], "signal")
    BY <1>0, <1>7, MapGoto, AtSched DEF ThreadExit, SchedLabels
  <2> QED
    BY <1>0, <1>1, <1>7, <1>r, <2>1 DEF ThreadExit, S!ThreadExit, SchedLabels
<1>8. ASSUME CleanupBlockLock(c) PROVE S!CleanupBlockLock(c)
  <2> DEFINE t == CurrentThread[c]
             l == IF BlockLock[PreviousThread[c]] = c THEN ret[t] ELSE "cleanup2"
             m == IF BlockLock[PreviousThread[c]] = c THEN At(t, ret[t]) ELSE "cleanup2"
  <2>1. l \in Labels /\ Goto(t, l) /\ At(t, l) = m
    BY <1>0, <1>1, <1>8 DEF CleanupBlockLock, At, SchedLabels
  <2> HIDE DEF l
  <2>2. S!Goto(t, m)
    BY <1>0, <2>1, MapGoto
  <2> QED
    BY <1>0, <1>1, <1>8, <1>r, <2>2 DEF CleanupBlockLock, S!CleanupBlockLock, SchedLabels
<1>9. ASSUME CleanupDying(c) PROVE S!CleanupDying(c)
  <2>1. S!Goto(CurrentThread[c], At(CurrentThread[c], ret[CurrentThread[c]]))
    BY <1>0, <1>1, <1>9, MapGoto DEF CleanupDying
  <2> QED
    BY <1>0, <1>1, <1>9, <1>r, <2>1 DEF CleanupDying, S!CleanupDying, SchedLabels
<1>10. ASSUME ThreadYield(c) PROVE S!ThreadYield(c)
  <2> DEFINE t == CurrentThread[c]
             l == IF Flags[t] THEN "exit" ELSE "yield"
             r == IF t = Idle[c] THEN "idle" ELSE pc[t]
  <2>1. pc[t] \in Interruptible
    BY <1>10 DEF ThreadYield, YieldAt
  <2>2. S!Goto(t, l)
    <3>1. Goto(t, l) /\ l \in Labels /\ At(t, l) = l
      BY <1>10 DEF ThreadYield, YieldAt, SchedLabels, At
    <3> HIDE DEF l
    <3> QED
      BY <1>0, <3>1, MapGoto
  <2>3. [x \in Threads |-> At(x, ret[x])]' = [[x \in Threads |-> At(x, ret[x])] EXCEPT ![t] = r]
    <3>1. ret' = [ret EXCEPT ![t] = r] /\ r \in Labels /\ At(t, r) = r
      BY <1>10, <2>1 DEF ThreadYield, YieldAt, Interruptible, At
    <3> QED
      BY <1>0, <3>1, MapRet
  <2>4. [x \in Threads |-> At(x, pc[x])][t] = pc[t] /\ pc[t] \in S!Interruptible
    BY <1>0, <2>1 DEF At, Interruptible, S!Interruptible
  <2> QED
    BY <1>10, <2>1, <2>2, <2>3, <2>4 DEF ThreadYield, YieldAt, S!ThreadYield, S!YieldAt
<1>11. ASSUME NEW u \in Threads, ThreadCreate(c, u) PROVE S!ThreadCreate(c, u)
  <2>1. S!Goto(u, "off")
    BY <1>0, <1>11, MapGoto, AtSched DEF ThreadCreate, SchedLabels
  <2> QED
    BY <1>0, <1>1, <1>11, <1>r, <2>1
    DEF ThreadCreate, S!ThreadCreate, ThreadUnblock, S!ThreadUnblock, SchedLabels, Interruptible
<1>12. ASSUME CallThreadExit(c) PROVE S!CallThreadExit(c)
  <2>1. S!Goto(CurrentThread[c], "exit")
    BY <1>0, <1>12, MapGoto, AtSched DEF CallThreadExit, SchedLabels
  <2> QED
    BY <1>0, <1>1, <1>12, <1>r, <2>1 DEF CallThreadExit, S!CallThreadExit, Interruptible
<1>13. ASSUME SchedStep(c), pc[Caller(c)] # "signal" PROVE S!SchedStep(c)
  BY <1>2, <1>3, <1>4, <1>5, <1>6, <1>7, <1>8, <1>9, <1>13
  DEF SchedStep, S!SchedStep, ExitSignal, Caller
<1> QED
  BY <1>10, <1>11, <1>12, <1>13 DEF OtherStep, S!Next, S!ThreadCall

----------------------------------------------------------------------------
\* The steps of ExEvent are steps of Thread or leave the scheduler alone.

\* A move between labels that the scheduler does not tell apart
LEMMA MapStutter ==
    ASSUME EventTypeOK, NEW t \in Threads, NEW l \in Labels, Goto(t, l), SchedUnchangedButPc,
           RetTypeOK, \A x \in Threads : x # t => event'[x] = event[x], At(t, pc[t]) = At(t, l)'
    PROVE  UNCHANGED S!schedVars
<1>1. \A x \in Threads : At(x, pc[x])' = At(x, pc[x])
  BY DEF EventTypeOK, Goto, At
<1>2. \A x \in Threads : At(x, ret[x])' = At(x, ret[x])
  BY Types DEF SchedUnchangedButPc, At, Interruptible
<1> QED
  BY <1>1, <1>2 DEF S!schedVars, SchedUnchangedButPc

\* What the running thread may be doing in ExEventWaitForSignal or ExEventSignal.
LEMMA CallerFacts ==
    ASSUME EventIInv, NEW c \in Cpus
    PROVE  /\ Caller(c) \in Threads /\ Caller(c) = CurrentThread[c]
           /\ pc[Caller(c)] \in Labels /\ EventTypeOK /\ RetTypeOK
           /\ pc[Caller(c)] = "signalling" =>
                  /\ event[Caller(c)] \in Objects \cup {Caller(c)}
                  /\ event[Caller(c)] \in Events
                  /\ event[Caller(c)] = Caller(c) <=> State[Caller(c)] = "Dying"
<1>1. /\ Caller(c) \in Threads /\ Caller(c) = CurrentThread[c]
      /\ pc[Caller(c)] \in Labels /\ EventTypeOK /\ RetTypeOK
  BY Types DEF EventIInv, S!IInv, S!TypeOK, Caller
<1>2. ASSUME pc[Caller(c)] = "signalling"
      PROVE  /\ event[Caller(c)] \in Objects \cup {Caller(c)}
             /\ event[Caller(c)] = Caller(c) <=> State[Caller(c)] = "Dying"
  <2>1. event[Caller(c)] \in Objects \cup {Caller(c)}
    BY <1>1, <1>2 DEF EventIInv, CallInv
  <2>2. CASE event[Caller(c)] = Caller(c)
    <3>1. [x \in Threads |-> At(x, pc[x])][Caller(c)] = "signal"
      BY <1>1, <1>2, <2>2 DEF At
    <3> QED
      BY <1>1, <2>1, <2>2, <3>1 DEF EventIInv, S!IInv, S!StateInv
  <2>3. CASE event[Caller(c)] # Caller(c)
    <3>1. [x \in Threads |-> At(x, pc[x])][Caller(c)] = "run"
      BY <1>1, <1>2, <2>3 DEF At
    <3> QED
      BY <1>1, <2>1, <2>3, <3>1 DEF EventIInv, S!DyingInv
  <2> QED
    BY <2>1, <2>2, <2>3
<1> QED
  BY <1>1, <1>2 DEF Events, Waitables

\* The calls and the tests of ExEvent are code of the thread's own.
LEMMA MapCalls ==
    ASSUME EventIInv, NEW c \in Cpus,
           \/ \E o \in Events : \/ ExEventWaitForSignal(c, o)
                                \/ ExEventSignal(c, o)
                                \/ ExEventClearSignal(c, o)
           \/ TestSignaled(c)
           \/ SignalTermination(c)
    PROVE  UNCHANGED S!schedVars
<1>t. PICK t \in Threads : t = Caller(c)
  BY CallerFacts
<1>0. t = Caller(c) /\ t \in Threads /\ EventTypeOK /\ RetTypeOK /\ \A o \in Objects : o # t
  BY <1>t, CallerFacts, ThreadAssumption DEF ThreadAssumption
<1>1. ASSUME NEW o \in Events, ExEventWaitForSignal(c, o) PROVE UNCHANGED S!schedVars
  <2>1. /\ Goto(t, "test") /\ pc[t] = "run" /\ SchedUnchangedButPc
        /\ \A x \in Threads : x # t => event'[x] = event[x]
    BY <1>0, <1>1 DEF ExEventWaitForSignal, MayCall, EventTypeOK
  <2>2. At(t, pc[t]) = At(t, "test")'
    BY <2>1 DEF At
  <2> QED
    BY <1>0, <2>1, <2>2, MapStutter DEF EventLabels
<1>2. ASSUME NEW o \in Events, ExEventSignal(c, o) PROVE UNCHANGED S!schedVars
  <2>1. /\ Goto(t, "signalling") /\ pc[t] = "run" /\ SchedUnchangedButPc
        /\ event' = [event EXCEPT ![t] = o] /\ o # t
    BY <1>0, <1>2 DEF ExEventSignal, StartSignal, MayCall
  <2>2. \A x \in Threads : event'[x] = IF x = t THEN o ELSE event[x]
    BY <1>0, <2>1 DEF EventTypeOK
  <2>3. At(t, pc[t]) = At(t, "signalling")'
    BY <1>0, <2>1, <2>2 DEF At
  <2> QED
    BY <1>0, <2>1, <2>2, <2>3, MapStutter DEF EventLabels
<1>3. ASSUME SignalTermination(c) PROVE UNCHANGED S!schedVars
  <2>1. /\ Goto(t, "signalling") /\ pc[t] = "signal" /\ SchedUnchangedButPc
        /\ event' = [event EXCEPT ![t] = t]
    BY <1>0, <1>3 DEF SignalTermination, StartSignal
  <2>2. \A x \in Threads : event'[x] = IF x = t THEN t ELSE event[x]
    BY <1>0, <2>1 DEF EventTypeOK
  <2>3. At(t, pc[t]) = At(t, "signalling")'
    BY <1>0, <2>1, <2>2 DEF At
  <2> QED
    BY <1>0, <2>1, <2>2, <2>3, MapStutter DEF EventLabels
<1>4. ASSUME TestSignaled(c) PROVE UNCHANGED S!schedVars
  <2>0. PICK l \in {"run", "insert"} : Goto(t, l)
    BY <1>0, <1>4 DEF TestSignaled
  <2>1. Goto(t, l) /\ pc[t] = "test" /\ SchedUnchangedButPc /\ event' = event
    BY <1>0, <1>4, <2>0 DEF TestSignaled
  <2>2. l \in Labels /\ At(t, pc[t]) = At(t, l)'
    BY <2>1 DEF At, EventLabels, Interruptible
  <2> QED
    BY <1>0, <2>1, <2>2, MapStutter
<1>5. ASSUME NEW o \in Events, ExEventClearSignal(c, o) PROVE UNCHANGED S!schedVars
  <2>1. UNCHANGED <<schedVars, event>>
    BY <1>5 DEF ExEventClearSignal
  <2> QED
    BY <2>1 DEF S!schedVars, schedVars, At
<1> QED
  BY <1>1, <1>2, <1>3, <1>4, <1>5

\* The insertion in the waiting list is WaitOn, or what a mutex does.
LEMMA MapInsert ==
    ASSUME EventIInv, NEW c \in Cpus, InsertInWaitingList(c)
    PROVE  S!Next
<1> DEFINE t == Caller(c)
           o == event[t]
           l == IF IsNotification(o) THEN "run" ELSE "test"
<1>0. t \in Threads /\ EventTypeOK /\ RetTypeOK /\ t = CurrentThread[c]
  BY CallerFacts
<1>1. pc[t] = "insert" /\ WaitAt(c, o, l) /\ UNCHANGED event
  BY DEF InsertInWaitingList, eventVars
<1>2. o \in Events /\ (o \in Threads => Handle[o] /\ o # t)
  BY <1>0, <1>1 DEF EventIInv, CallInv
<1>3. l \in Labels /\ At(t, l) = "run"
  BY DEF Interruptible, EventLabels, At
<1> HIDE DEF l, o
<1>4. S!WaitAt(c, o, "run")
  BY <1>0, <1>1, <1>3, MapWaitAt
<1>5. [x \in Threads |-> At(x, pc[x])][t] = "run"
  BY <1>0, <1>1 DEF At
<1>6. S!WaitOn(c, o) /\ o \in S!Waitables
  BY <1>0, <1>2, <1>4, <1>5 DEF S!WaitOn, S!Waitables, Events, Waitables
<1> QED
  BY <1>6 DEF S!Next, S!ThreadCall

\* A wake-up is WakeFirst, or the signal of ThreadExit.
LEMMA MapSignalWaiters ==
    ASSUME EventIInv, NEW c \in Cpus, SignalWaiters(c)
    PROVE  [S!Next]_S!schedVars
<1> DEFINE t == Caller(c)
           o == event[t]
           after == IF State[t] = "Dying" THEN "dead" ELSE "run"
<1>0. t \in Threads /\ EventTypeOK /\ RetTypeOK /\ t = CurrentThread[c] /\ pc[t] = "signalling"
  BY CallerFacts DEF SignalWaiters
<1>1. o \in Objects \cup {t} /\ o \in Events /\ (o = t <=> State[t] = "Dying") /\ UNCHANGED event
  BY <1>0, CallerFacts DEF SignalWaiters
<1>a. after \in Labels
  BY DEF SchedLabels, Interruptible
<1>2. CASE o = t
  <2>0. IsNotification(o) /\ after = "dead"
    BY <1>0, <1>1, <1>2, ThreadAssumption DEF IsNotification, ThreadAssumption
  <2>1. [x \in Threads |-> At(x, pc[x])][t] = "signal"
    BY <1>0, <1>2 DEF At
  <2>2. CASE WakeAt(c, o, "signalling")
    <3>1. At(t, "signalling") = "signal" /\ "signalling" \in Labels
      BY <1>2 DEF At, EventLabels
    <3>2. S!WakeAt(c, t, "signal")
      BY <1>0, <1>1, <1>2, <2>2, <3>1, MapWakeAt
    <3>3. S!ExitSignal(c)
      BY <1>0, <2>1, <3>2 DEF S!ExitSignal
    <3> QED
      BY <3>3 DEF S!Next, S!SchedStep
  <2>3. CASE WaitingList[o] = <<>> /\ Goto(t, after) /\ SchedUnchangedButPc
    <3>1. S!Goto(t, "dead")
      BY <1>0, <1>1, <1>a, <2>0, <2>3, MapGoto, AtSched DEF SchedLabels
    <3>2. UNCHANGED [x \in Threads |-> At(x, ret[x])]
      BY <1>1, <2>3 DEF SchedUnchangedButPc, At
    <3>3. S!ExitSignal(c)
      BY <1>0, <1>2, <2>1, <2>3, <3>1, <3>2 DEF S!ExitSignal, SchedUnchangedButPc
    <3> QED
      BY <3>3 DEF S!Next, S!SchedStep
  <2> QED
    BY <2>0, <2>2, <2>3 DEF SignalWaiters
<1>3. CASE o # t
  <2>0. o \in Objects /\ after = "run"
    BY <1>1, <1>3
  <2>1. [x \in Threads |-> At(x, pc[x])][t] = "run"
    BY <1>0, <1>3 DEF At
  <2>2. ASSUME NEW l \in {"signalling", "run"}, WakeAt(c, o, l) PROVE S!Next
    <3>1. At(t, l) = "run" /\ l \in Labels
      BY <1>3, <2>2 DEF At, EventLabels, Interruptible
    <3>2. S!WakeAt(c, o, "run")
      BY <1>0, <1>1, <2>2, <3>1, MapWakeAt
    <3>3. S!WakeFirst(c, o)
      BY <1>0, <2>0, <2>1, <3>2 DEF S!WakeFirst
    <3> QED
      BY <2>0, <3>3 DEF S!Next, S!ThreadCall
  <2>3. CASE Goto(t, after) /\ SchedUnchangedButPc
    <3>1. PICK x \in Threads : x = t
      BY <1>0
    <3>2. At(x, pc[x]) = At(x, "run")' /\ Goto(x, "run")
      BY <1>0, <1>3, <2>0, <2>3, <3>1 DEF At
    <3> QED
      BY <1>0, <1>1, <2>3, <3>2, MapStutter DEF Interruptible
  <2> QED
    BY <2>0, <2>2, <2>3 DEF SignalWaiters
<1> QED
  BY <1>2, <1>3

LEMMA MapNext ==
    ASSUME EventIInv, [EventNext]_vars
    PROVE  [S!Next]_S!schedVars
<1>1. CASE UNCHANGED vars
  BY <1>1 DEF vars, schedVars, eventVars, S!schedVars, At
<1>2. ASSUME NEW c \in Cpus, OtherStep(c) PROVE S!Next
  BY <1>2, MapOtherStep
<1>3. ASSUME NEW c \in Cpus, EventStep(c) PROVE [S!Next]_S!schedVars
  BY <1>3, MapCalls, MapInsert, MapSignalWaiters DEF EventStep
<1> QED
  BY <1>1, <1>2, <1>3, MapCalls DEF EventNext

----------------------------------------------------------------------------
\* Every step keeps the invariant.

\* What is proved of the scheduler holds for the threads of ExEvent.
LEMMA SchedulerKept ==
    ASSUME EventIInv, [EventNext]_vars
    PROVE  /\ S!IInv' /\ S!DyingInv'
           /\ \A u \in Threads : State[u] = "Dying" => State'[u] = "Dying"
<1>1. [S!Next]_S!schedVars /\ S!IInv /\ S!DyingInv /\ S!ThreadAssumption
  BY MapNext, InstanceAssumption DEF EventIInv
<1>2. S!IInv'
  BY <1>1, S!NextInv
<1>3. S!DyingInv' /\ \A u \in Threads : State[u] = "Dying" => State'[u] = "Dying"
  BY <1>1, S!NextDying
<1> QED
  BY <1>2, <1>3

\* How the scheduler moves a thread: inside, out, in, or into ThreadExit.
StaysAlive(t) == t \in Clients => pc'[t] \notin {"exit", "signal", "dead"}
Move(t) ==
    \/ pc'[t] = pc[t] /\ ret'[t] = ret[t]
    \/ pc[t] \in SchedLabels /\ pc'[t] \in SchedLabels /\ ret'[t] = ret[t] /\ StaysAlive(t)
    \/ pc[t] \in SchedLabels /\ pc'[t] = ret[t] /\ ret'[t] = ret[t]
    \/ pc[t] \in Interruptible /\ pc'[t] \in SchedLabels /\ ret'[t] \in Interruptible /\ StaysAlive(t)
    \/ t \notin Clients /\ pc[t] = "run" /\ pc'[t] = "exit" /\ ret'[t] = ret[t]

LEMMA ScheduleMoves ==
    ASSUME EventIInv, NEW c \in Cpus, NEW list,
           list = ReadyThreadsList \/ list = Append(ReadyThreadsList, CurrentThread[c]),
           pc[CurrentThread[c]] \in {"yield", "blocked", "dead"},
           Schedule(c, CurrentThread[c], list), UNCHANGED ret
    PROVE  pc' \in [Threads -> Labels] /\ \A x \in Threads : Move(x)
<1> DEFINE t == CurrentThread[c]
           next == GetReadyThread(c, list)
<1>1. t \in Threads /\ pc \in [Threads -> Labels]
  BY DEF EventIInv, S!IInv, S!TypeOK, EventTypeOK
<1>2. next \in Threads /\ (next = t \/ pc[next] = "off")
  <2>0. S!GetReadyThread(c, list) = next
    BY DEF S!GetReadyThread, GetReadyThread
  <2>1. [x \in Threads |-> At(x, pc[x])][t] \in {"yield", "blocked", "dead"}
    BY <1>1, AtSched DEF SchedLabels
  <2>2. /\ next \in Threads
        /\ next = t \/ [x \in Threads |-> At(x, pc[x])][next] = "off"
    BY <2>0, <2>1, S!NextIsOff, InstanceAssumption DEF EventIInv
  <2> QED
    BY <2>2 DEF At
<1>3. pc' = [pc EXCEPT ![t] = "off", ![next] = "cleanup"]
  BY DEF Schedule
<1>4. pc[t] \in SchedLabels /\ pc[next] \in SchedLabels
  BY <1>2 DEF SchedLabels
<1> HIDE DEF next
<1> QED
  BY <1>1, <1>2, <1>3, <1>4 DEF Move, StaysAlive, SchedLabels

LEMMA OtherStepMoves ==
    ASSUME EventIInv, NEW c \in Cpus, OtherStep(c)
    PROVE  /\ pc' \in [Threads -> Labels] /\ RetTypeOK'
           /\ \A x \in Threads : Move(x)
           /\ UNCHANGED <<eventVars, WaitingList>>
           /\ \A u \in Threads : Handle[u] => Handle'[u]
<1> DEFINE t == CurrentThread[c]
           Moves == pc' \in [Threads -> Labels] /\ RetTypeOK' /\ \A x \in Threads : Move(x)
<1>0. /\ t \in Threads /\ t = Caller(c) /\ ~Flags[t] /\ Handle \in [Threads -> BOOLEAN]
      /\ pc \in [Threads -> Labels] /\ RetTypeOK /\ ret[t] \in Interruptible \cup {"test"}
      /\ \A x \in Clients : pc[x] \notin {"exit", "signal", "dead"} /\ x \in Threads
  BY EventTypeAssumption DEF EventIInv, S!IInv, S!TypeOK, S!FlagsInv, Caller, EventTypeOK, RetTypeOK, ClientInv,
     EventTypeAssumption
<1>m. ASSUME NEW u \in Threads, NEW l \in SchedLabels, Goto(u, l), pc[u] \in SchedLabels, UNCHANGED ret,
             u \in Clients => l \notin {"exit", "signal", "dead"}
      PROVE  Moves
  BY <1>0, <1>m DEF RetTypeOK, Move, StaysAlive, Goto
<1>o. ASSUME Goto(t, ret[t]), pc[t] \in SchedLabels, UNCHANGED ret
      PROVE  Moves
  BY <1>0, <1>o DEF RetTypeOK, Move, Goto, EventLabels
<1>i. ASSUME NEW l \in SchedLabels, NEW r \in Interruptible, Goto(t, l), pc[t] \in Interruptible,
             ret' = [ret EXCEPT ![t] = r], l \notin {"exit", "signal", "dead"}
      PROVE  Moves
  BY <1>0, <1>i DEF RetTypeOK, Move, StaysAlive, Goto
<1>s. ASSUME Schedule(c, t, ReadyThreadsList) \/ Schedule(c, t, Append(ReadyThreadsList, t)),
             pc[t] \in {"yield", "blocked", "dead"}, UNCHANGED ret
      PROVE  Moves
  BY <1>0, <1>s, ScheduleMoves DEF RetTypeOK
<1>1. ASSUME YieldSchedule(c) PROVE Moves
  BY <1>1, <1>s DEF YieldSchedule
<1>2. ASSUME BlockSchedule(c) \/ ExitSchedule(c) PROVE Moves
  BY <1>2, <1>s DEF BlockSchedule, ExitSchedule
<1>4. ASSUME IdleTakeBlockLock(c) PROVE Moves
  BY <1>4, <1>i DEF IdleTakeBlockLock, Interruptible, SchedLabels
<1>5. ASSUME ThreadBlock(c) PROVE Moves
  BY <1>0, <1>5, <1>m DEF ThreadBlock, SchedLabels
<1>6. ASSUME ThreadExit(c) PROVE Moves
  BY <1>0, <1>6, <1>m DEF ThreadExit, SchedLabels
<1>8. ASSUME CleanupBlockLock(c) PROVE Moves
  <2>1. UNCHANGED ret /\ pc[t] \in SchedLabels /\ (Goto(t, ret[t]) \/ Goto(t, "cleanup2"))
    BY <1>8 DEF CleanupBlockLock, SchedLabels
  <2> QED
    BY <1>0, <2>1, <1>m, <1>o DEF SchedLabels
<1>9. ASSUME CleanupDying(c) PROVE Moves
  BY <1>9, <1>o DEF CleanupDying, SchedLabels
<1>10. ASSUME ThreadYield(c) PROVE Moves
  <2>1. /\ pc[t] \in Interruptible /\ Goto(t, "yield")
        /\ ret' = [ret EXCEPT ![t] = "idle"] \/ ret' = [ret EXCEPT ![t] = pc[t]]
    BY <1>0, <1>10 DEF ThreadYield, YieldAt
  <2>2. "idle" \in Interruptible /\ "yield" \in SchedLabels
    BY DEF Interruptible, SchedLabels
  <2> QED
    BY <2>1, <2>2, <1>i
<1>11. ASSUME NEW u \in Threads, ThreadCreate(c, u) PROVE Moves
  BY <1>11, <1>m DEF ThreadCreate, SchedLabels
<1>12. ASSUME CallThreadExit(c) /\ t \notin Clients PROVE Moves
  BY <1>0, <1>12 DEF CallThreadExit, Goto, Move, RetTypeOK, SchedLabels
<1>13. Moves
  BY <1>0, <1>1, <1>2, <1>4, <1>5, <1>6, <1>8, <1>9, <1>10, <1>11, <1>12
  DEF OtherStep, SchedStep, ExitSignal
<1>14. UNCHANGED eventVars
  BY DEF OtherStep
<1>15. UNCHANGED WaitingList
  BY <1>0 DEF OtherStep, SchedStep, YieldSchedule, IdleTakeBlockLock, ThreadBlock, BlockSchedule,
         ThreadExit, ExitSchedule, CleanupBlockLock, CleanupDying, ThreadYield, YieldAt,
         ThreadCreate, CallThreadExit, ExitSignal
<1>16. \A u \in Threads : Handle[u] => Handle'[u]
  <2>1. Handle' = Handle \/ \E u \in Threads : Handle' = [Handle EXCEPT ![u] = TRUE]
    BY <1>0 DEF OtherStep, SchedStep, YieldSchedule, IdleTakeBlockLock, ThreadBlock, BlockSchedule,
         ThreadExit, ExitSchedule, CleanupBlockLock, CleanupDying, ThreadYield, YieldAt,
         ThreadCreate, CallThreadExit, ExitSignal
  <2> QED
    BY <1>0, <2>1
<1> QED
  BY <1>13, <1>14, <1>15, <1>16

LEMMA OtherStepInv ==
    ASSUME EventIInv, NEW c \in Cpus, OtherStep(c)
    PROVE  EventIInv'
<1>0. /\ EventTypeOK /\ RetTypeOK /\ ClientInv /\ CallInv /\ CountInv /\ TerminationInv
      /\ S!IInv' /\ S!DyingInv'
      /\ \A u \in Threads : State[u] = "Dying" => State'[u] = "Dying"
  <2>1. [EventNext]_vars
    BY DEF EventNext
  <2> QED
    BY <2>1, SchedulerKept DEF EventIInv
<1>1. /\ pc' \in [Threads -> Labels] /\ RetTypeOK'
      /\ \A x \in Threads : Move(x)
      /\ UNCHANGED <<eventVars, WaitingList>>
      /\ \A u \in Threads : Handle[u] => Handle'[u]
  BY OtherStepMoves
<1>2. /\ Interruptible \cap SchedLabels = {} /\ EventLabels \cap SchedLabels = {}
      /\ EventLabels \cap Interruptible = {} /\ EventLabels = {"test", "insert", "signalling"}
      /\ ret \in [Threads -> Interruptible \cup {"test"}] /\ pc \in [Threads -> Labels]
  BY <1>0, Types DEF EventLabels
<1>e. /\ \A o \in Events : Signaled'[o] = Signaled[o]
      /\ \A t \in Threads : event'[t] = event[t] /\ Move(t)
      /\ UNCHANGED <<signals, returns, Signaled, EventLock, event>>
  BY <1>1 DEF eventVars
<1>3. EventTypeOK'
  BY <1>0, <1>1, <1>e DEF EventTypeOK
<1>4. ClientInv'
  <2> SUFFICES ASSUME NEW t \in Threads
               PROVE  /\ t \notin Clients => pc'[t] \notin {"test", "insert"} /\ ret'[t] # "test"
                      /\ t \in Clients => pc'[t] \notin {"exit", "signal", "dead"}
                      /\ pc'[t] \in SchedLabels /\ ret'[t] = "test" => event'[t] \in Objects
    BY DEF ClientInv
  <2>1. /\ t \notin Clients => pc[t] \notin {"test", "insert"} /\ ret[t] # "test"
        /\ t \in Clients => pc[t] \notin {"exit", "signal", "dead"}
        /\ pc[t] \in SchedLabels /\ ret[t] = "test" => event[t] \in Objects
        /\ ret[t] \in Interruptible \cup {"test"}
    BY <1>0, <1>2 DEF ClientInv
  <2>2. Move(t) /\ event'[t] = event[t]
    BY <1>e
  <2> QED
    BY <1>2, <2>1, <2>2 DEF Move, StaysAlive, Interruptible, SchedLabels
<1>5. CallInv'
  <2> SUFFICES ASSUME NEW t \in Threads
               PROVE  /\ pc'[t] \in {"test", "insert"} =>
                          /\ event'[t] \in Events
                          /\ event'[t] \in Threads => Handle'[event'[t]] /\ event'[t] # t
                      /\ pc'[t] = "signalling" => event'[t] \in Objects \cup ({t} \ Clients)
    BY DEF CallInv
  <2>1. /\ pc[t] \in {"test", "insert"} =>
             /\ event[t] \in Events
             /\ event[t] \in Threads => Handle[event[t]] /\ event[t] # t
        /\ pc[t] = "signalling" => event[t] \in Objects \cup ({t} \ Clients)
        /\ pc[t] \in SchedLabels /\ ret[t] = "test" => event[t] \in Objects
        /\ ret[t] \in Interruptible \cup {"test"}
    BY <1>0, <1>2 DEF ClientInv, CallInv
  <2>2. Move(t) /\ event'[t] = event[t]
    BY <1>e
  <2>3. \A o \in Objects : o \in Events /\ o \notin Threads
    BY ThreadAssumption DEF ThreadAssumption, Events, Waitables
  <2>4. pc'[t] \in EventLabels => pc'[t] = pc[t] \/ (pc[t] \in SchedLabels /\ pc'[t] = "test" /\ ret[t] = "test")
    BY <1>2, <2>1, <2>2 DEF Move
  <2> QED
    BY <1>1, <1>2, <2>1, <2>2, <2>3, <2>4
<1>6. CountInv'
  BY <1>0, <1>e DEF CountInv, Pending
<1>7. TerminationInv'
  <2>1. \A u \in Threads : Signaled'[u] => State'[u] = "Dying"
    BY <1>0, <1>e DEF TerminationInv
  <2>2. ASSUME NEW t \in Threads, NEW u \in Threads, event'[t] = u,
               pc'[t] \in SchedLabels \cup Interruptible
        PROVE  State'[u] = "Dying" \/ S!In(WaitingList[u], t)
    <3>1. pc[t] \in SchedLabels \cup Interruptible /\ event[t] = u
      <4>1. Move(t)
        BY <1>e
      <4> QED
        BY <1>2, <1>e, <2>2, <4>1 DEF Move, Interruptible, EventLabels
    <3> QED
      BY <1>0, <3>1 DEF TerminationInv
  <2> QED
    BY <1>1, <2>1, <2>2 DEF TerminationInv
<1> QED
  BY <1>0, <1>1, <1>3, <1>4, <1>5, <1>6, <1>7 DEF EventIInv

\* What a step of ExEvent may rely on.
LEMMA StepFacts ==
    ASSUME EventIInv, EventNext
    PROVE  /\ EventTypeOK /\ RetTypeOK /\ ClientInv /\ CallInv /\ CountInv /\ TerminationInv
           /\ S!IInv' /\ S!DyingInv'
           /\ \A u \in Threads : State[u] = "Dying" => State'[u] = "Dying"
           /\ Interruptible = {"run", "idle"} /\ EventLabels = {"test", "insert", "signalling"}
           /\ Interruptible \cap SchedLabels = {} /\ EventLabels \cap SchedLabels = {}
           /\ pc \in [Threads -> Labels] /\ ret \in [Threads -> Interruptible \cup {"test"}]
           /\ \A o \in Objects : o \in Events /\ o \notin Threads
           /\ \A t \in Threads : t \in Events /\ IsNotification(t)
<1>1. /\ S!IInv' /\ S!DyingInv'
      /\ \A u \in Threads : State[u] = "Dying" => State'[u] = "Dying"
  BY SchedulerKept
<1>2. /\ EventTypeOK /\ RetTypeOK /\ ClientInv /\ CallInv /\ CountInv /\ TerminationInv
  BY DEF EventIInv
<1>3. /\ \A o \in Objects : o \in Events /\ o \notin Threads
      /\ \A t \in Threads : t \in Events /\ IsNotification(t)
  BY ThreadAssumption DEF ThreadAssumption, Events, Waitables, IsNotification
<1> QED
  BY <1>1, <1>2, <1>3, Types DEF Interruptible, EventLabels

LEMMA WaitForSignalInv ==
    ASSUME EventIInv, NEW c \in Cpus, NEW o \in Events, ExEventWaitForSignal(c, o)
    PROVE  EventIInv'
<1> DEFINE t == Caller(c)
<1>0. EventNext /\ t \in Threads
  BY CallerFacts DEF EventNext
<1>1. /\ pc' = [pc EXCEPT ![t] = "test"] /\ event' = [event EXCEPT ![t] = o]
      /\ pc[t] = "run" /\ t \in Clients
      /\ o \in Threads => Handle[o] /\ o # t
      /\ UNCHANGED <<State, Handle, WaitingList, ret, Signaled, EventLock, signals, returns>>
  BY DEF ExEventWaitForSignal, MayCall, Goto, SchedUnchangedButPc
<1> HIDE DEF t
<1>2. EventTypeOK' /\ RetTypeOK'
  BY <1>0, <1>1, StepFacts DEF EventTypeOK, RetTypeOK
<1>3. ClientInv'
  BY <1>0, <1>1, <1>2, StepFacts DEF ClientInv, EventTypeOK
<1>4. CallInv'
  BY <1>0, <1>1, <1>2, StepFacts DEF CallInv, EventTypeOK
<1>5. CountInv'
  BY <1>0, <1>1, StepFacts DEF CountInv, Pending
<1>6. TerminationInv'
  BY <1>0, <1>1, <1>2, StepFacts DEF TerminationInv, EventTypeOK
<1> QED
  BY <1>0, <1>2, <1>3, <1>4, <1>5, <1>6, StepFacts DEF EventIInv

LEMMA TestInv ==
    ASSUME EventIInv, NEW c \in Cpus, TestSignaled(c)
    PROVE  EventIInv'
<1> DEFINE t == Caller(c)
           o == event[t]
<1>0. EventNext /\ t \in Threads
  BY CallerFacts DEF EventNext, EventStep
<1>1. /\ pc' = [pc EXCEPT ![t] = IF Signaled[o] THEN "run" ELSE "insert"] /\ pc[t] = "test"
      /\ Signaled' = [Signaled EXCEPT ![o] = Signaled[o] /\ IsNotification(o)]
      /\ returns' = [returns EXCEPT ![o] = IF Signaled[o] /\ ~IsNotification(o)
                                           THEN returns[o] + 1 ELSE returns[o]]
      /\ UNCHANGED <<State, Handle, WaitingList, ret, EventLock, event, signals>>
  BY DEF TestSignaled, Goto, SchedUnchangedButPc
<1>2. o \in Events /\ Signaled[o] \in BOOLEAN /\ returns[o] \in Nat
  BY <1>0, <1>1, StepFacts DEF CallInv, EventTypeOK
<1> HIDE DEF t, o
<1>3. EventTypeOK' /\ RetTypeOK'
  <2>1. Signaled' \in [Events -> BOOLEAN]
    <3>1. (Signaled[o] /\ IsNotification(o)) \in BOOLEAN
      OBVIOUS
    <3> QED
      BY <1>0, <1>1, <1>2, <3>1, StepFacts DEF EventTypeOK
  <2> QED
    BY <1>0, <1>1, <1>2, <2>1, StepFacts DEF EventTypeOK, RetTypeOK
<1>4. ClientInv'
  BY <1>0, <1>1, <1>3, StepFacts DEF ClientInv, EventTypeOK
<1>5. CallInv'
  BY <1>0, <1>1, <1>3, StepFacts DEF CallInv, EventTypeOK
<1>6. CountInv'
  <2> SUFFICES ASSUME NEW p \in Objects, ~IsNotification(p)
               PROVE  returns'[p] + Pending(p)' <= signals[p]
    BY <1>1 DEF CountInv, IsNotification
  <2>1. /\ returns[p] + Pending(p) <= signals[p] /\ p \in Events
        /\ returns[p] \in Nat /\ signals[p] \in Nat /\ Signaled[p] \in BOOLEAN
    BY <1>0, StepFacts DEF CountInv, EventTypeOK
  <2>2. CASE p = o
    <3>1. Signaled'[p] = FALSE
      BY <1>0, <1>1, <1>2, <2>2, StepFacts DEF EventTypeOK
    <3>2. returns'[p] = IF Signaled[p] THEN returns[p] + 1 ELSE returns[p]
      BY <1>0, <1>1, <1>2, <2>2, StepFacts DEF EventTypeOK
    <3> QED
      BY <2>1, <3>1, <3>2 DEF Pending
  <2>3. CASE p # o
    <3>1. Signaled'[p] = Signaled[p] /\ returns'[p] = returns[p]
      BY <1>0, <1>1, <1>2, <2>1, <2>3, StepFacts DEF EventTypeOK
    <3> QED
      BY <2>1, <3>1 DEF Pending
  <2> QED
    BY <2>2, <2>3
<1>7. TerminationInv'
  <2>1. \A u \in Threads : Signaled'[u] => Signaled[u]
    BY <1>0, <1>1, <1>2, StepFacts DEF EventTypeOK
  <2>2. ASSUME NEW x \in Threads, NEW u \in Threads, event[x] = u,
               pc'[x] \in SchedLabels \cup Interruptible
        PROVE  State[u] = "Dying" \/ S!In(WaitingList[u], x)
    <3>1. CASE x = t
      <4>1. Signaled[u]
        BY <1>0, <1>1, <2>2, <3>1, StepFacts DEF o, EventTypeOK
      <4> QED
        BY <1>0, <4>1, StepFacts DEF TerminationInv
    <3>2. CASE x # t
      <4>1. pc[x] \in SchedLabels \cup Interruptible
        BY <1>0, <1>1, <2>2, <3>2, StepFacts
      <4> QED
        BY <1>0, <2>2, <4>1, StepFacts DEF TerminationInv
    <3> QED
      BY <3>1, <3>2
  <2> QED
    BY <1>0, <1>1, <2>1, <2>2, StepFacts DEF TerminationInv
<1> QED
  BY <1>0, <1>3, <1>4, <1>5, <1>6, <1>7, StepFacts DEF EventIInv

LEMMA StartSignalInv ==
    ASSUME EventIInv, EventNext, NEW c \in Cpus, NEW o \in Events, StartSignal(c, o),
           \/ pc[Caller(c)] = "run" /\ o \in Objects
           \/ pc[Caller(c)] = "signal" /\ o = Caller(c)
    PROVE  EventIInv'
<1> DEFINE t == Caller(c)
<1>0. EventNext /\ t \in Threads
  BY CallerFacts
<1>1. /\ pc' = [pc EXCEPT ![t] = "signalling"] /\ event' = [event EXCEPT ![t] = o]
      /\ Signaled' = [Signaled EXCEPT ![o] = TRUE]
      /\ signals' = [signals EXCEPT ![o] = signals[o] + 1]
      /\ EventLock' = [EventLock EXCEPT ![o] = c]
      /\ UNCHANGED <<State, Handle, WaitingList, ret, returns>>
  BY DEF StartSignal, Goto, SchedUnchangedButPc
<1>2. signals[o] \in Nat /\ o \in Objects \cup ({t} \ Clients)
  BY <1>0, StepFacts DEF EventTypeOK, ClientInv
<1>3. o = t => State[t] = "Dying"
  <2> SUFFICES ASSUME o = t PROVE State[t] = "Dying"
    OBVIOUS
  <2>1. pc[t] = "signal"
    BY <1>0, StepFacts
  <2>2. [x \in Threads |-> At(x, pc[x])][t] = "signal"
    BY <1>0, <2>1 DEF At
  <2> QED
    BY <1>0, <2>2 DEF EventIInv, S!IInv, S!StateInv
<1>t. pc[t] \in {"run", "signal"}
  OBVIOUS
<1> HIDE DEF t
<1>4. EventTypeOK' /\ RetTypeOK'
  BY <1>0, <1>1, <1>2, StepFacts DEF EventTypeOK, RetTypeOK
<1>5. ClientInv'
  BY <1>0, <1>1, <1>4, StepFacts DEF ClientInv, EventTypeOK
<1>6. CallInv'
  BY <1>0, <1>1, <1>2, <1>4, StepFacts DEF CallInv, EventTypeOK
<1>7. CountInv'
  <2> SUFFICES ASSUME NEW p \in Objects, ~IsNotification(p)
               PROVE  returns[p] + Pending(p)' <= signals'[p]
    BY <1>1 DEF CountInv, IsNotification
  <2>1. /\ returns[p] + Pending(p) <= signals[p] /\ p \in Events
        /\ returns[p] \in Nat /\ signals[p] \in Nat /\ Signaled[p] \in BOOLEAN
    BY <1>0, StepFacts DEF CountInv, EventTypeOK
  <2>2. CASE p = o
    <3>1. Signaled'[p] = TRUE /\ signals'[p] = signals[p] + 1
      BY <1>0, <1>1, <2>1, <2>2, StepFacts DEF EventTypeOK
    <3> QED
      BY <2>1, <3>1 DEF Pending
  <2>3. CASE p # o
    <3>1. Signaled'[p] = Signaled[p] /\ signals'[p] = signals[p]
      BY <1>0, <1>1, <2>1, <2>3, StepFacts DEF EventTypeOK
    <3> QED
      BY <2>1, <3>1 DEF Pending
  <2> QED
    BY <2>2, <2>3
<1>8. TerminationInv'
  <2>1. ASSUME NEW u \in Threads, Signaled'[u] PROVE State[u] = "Dying"
    BY <1>0, <1>1, <1>2, <1>3, <2>1, StepFacts DEF TerminationInv, EventTypeOK
  <2>2. ASSUME NEW x \in Threads, pc'[x] \in SchedLabels \cup Interruptible
        PROVE  event'[x] = event[x] /\ pc[x] = pc'[x]
    BY <1>0, <1>1, <2>2, StepFacts DEF EventTypeOK
  <2> QED
    BY <1>0, <1>1, <2>1, <2>2, StepFacts DEF TerminationInv
<1> QED
  BY <1>0, <1>4, <1>5, <1>6, <1>7, <1>8, StepFacts DEF EventIInv

LEMMA ClearInv ==
    ASSUME EventIInv, NEW c \in Cpus, NEW o \in Events, ExEventClearSignal(c, o)
    PROVE  EventIInv'
<1>0. EventNext
  BY DEF EventNext
<1>1. /\ Signaled' = [Signaled EXCEPT ![o] = FALSE]
      /\ UNCHANGED <<State, Handle, WaitingList, pc, ret, EventLock, event, signals, returns>>
  BY DEF ExEventClearSignal, schedVars
<1>2. EventTypeOK' /\ RetTypeOK' /\ ClientInv' /\ CallInv'
  BY <1>0, <1>1, StepFacts DEF EventTypeOK, RetTypeOK, ClientInv, CallInv
<1>3. \A p \in Events : Signaled'[p] = TRUE => Signaled[p]
  BY <1>0, <1>1, StepFacts DEF EventTypeOK
<1>4. CountInv'
  <2> SUFFICES ASSUME NEW p \in Objects, ~IsNotification(p)
               PROVE  returns[p] + Pending(p)' <= signals[p]
    BY <1>1 DEF CountInv, IsNotification
  <2>1. /\ returns[p] + Pending(p) <= signals[p] /\ p \in Events
        /\ returns[p] \in Nat /\ signals[p] \in Nat /\ Signaled[p] \in BOOLEAN /\ Signaled'[p] \in BOOLEAN
    BY <1>0, <1>2, StepFacts DEF CountInv, EventTypeOK
  <2> QED
    BY <1>3, <2>1 DEF Pending
<1>5. TerminationInv'
  BY <1>0, <1>1, <1>2, <1>3, StepFacts DEF TerminationInv, EventTypeOK
<1> QED
  BY <1>0, <1>2, <1>4, <1>5, StepFacts DEF EventIInv

LEMMA InsertInv ==
    ASSUME EventIInv, NEW c \in Cpus, InsertInWaitingList(c)
    PROVE  EventIInv'
<1> DEFINE t == Caller(c)
           o == event[t]
           l == IF IsNotification(o) THEN "run" ELSE "test"
<1>0. EventNext /\ t \in Threads /\ t = CurrentThread[c]
  BY CallerFacts DEF EventNext, EventStep
<1>1. /\ pc' = [pc EXCEPT ![t] = "block"] /\ ret' = [ret EXCEPT ![t] = l] /\ pc[t] = "insert"
      /\ WaitingList' = [WaitingList EXCEPT ![o] = Append(WaitingList[o], t)]
      /\ UNCHANGED <<State, Handle, Signaled, EventLock, event, signals, returns>>
  BY <1>0 DEF InsertInWaitingList, WaitAt, Goto, eventVars
<1>2. /\ o \in Events /\ WaitingList \in [Events -> Seq(Threads)]
      /\ ~IsNotification(o) => o \in Objects
  BY <1>0, <1>1, StepFacts DEF CallInv, EventIInv, S!IInv, S!TypeOK, S!Waitables, Events, Waitables, IsNotification
<1>3. \A p \in Events, x \in Threads :
          S!In(WaitingList'[p], x) <=> S!In(WaitingList[p], x) \/ (p = o /\ x = t)
  <2>1. \A x : S!In(Append(WaitingList[o], t), x) <=> S!In(WaitingList[o], x) \/ x = t
    <3>1. WaitingList[o] \in Seq(Threads)
      BY <1>2
    <3> QED
      BY <1>0, <3>1, S!AppendIn, InstanceAssumption DEF S!ThreadAssumption
  <2> HIDE DEF t, o
  <2> QED
    BY <1>0, <1>1, <1>2, <2>1
<1>l. l \in {"run", "test"} /\ (l = "test" => o \in Objects)
  BY <1>2
<1> HIDE DEF t, o, l
<1>4. EventTypeOK' /\ RetTypeOK'
  BY <1>0, <1>1, <1>l, StepFacts DEF EventTypeOK, RetTypeOK, SchedLabels
<1>5. ClientInv'
  <2>1. t \in Clients
    BY <1>0, <1>1, StepFacts DEF ClientInv
  <2> QED
    BY <1>0, <1>1, <1>l, <1>4, <2>1, StepFacts DEF ClientInv, EventTypeOK, o
<1>6. CallInv'
  BY <1>0, <1>1, <1>4, StepFacts DEF CallInv, EventTypeOK
<1>7. CountInv'
  BY <1>0, <1>1, StepFacts DEF CountInv, Pending
<1>8. TerminationInv'
  <2>1. ASSUME NEW x \in Threads, NEW u \in Threads, event[x] = u,
               pc'[x] \in SchedLabels \cup Interruptible
        PROVE  State[u] = "Dying" \/ S!In(WaitingList'[u], x)
    <3>0. u \in Events
      BY <1>0, StepFacts
    <3>1. CASE x = t
      BY <1>0, <1>3, <2>1, <3>0, <3>1 DEF o
    <3>2. CASE x # t
      <4>1. pc[x] \in SchedLabels \cup Interruptible
        BY <1>0, <1>1, <2>1, <3>2, StepFacts
      <4> QED
        BY <1>0, <1>3, <2>1, <3>0, <4>1, StepFacts DEF TerminationInv
    <3> QED
      BY <3>1, <3>2
  <2> QED
    BY <1>0, <1>1, <2>1, StepFacts DEF TerminationInv
<1> QED
  BY <1>0, <1>4, <1>5, <1>6, <1>7, <1>8, StepFacts DEF EventIInv

LEMMA SignalWaitersInv ==
    ASSUME EventIInv, NEW c \in Cpus, SignalWaiters(c)
    PROVE  EventIInv'
<1> DEFINE t == Caller(c)
           o == event[t]
<1>0. EventNext /\ t \in Threads /\ t = CurrentThread[c]
  BY CallerFacts DEF EventNext, EventStep
<1>1. /\ o \in Objects \cup {t} /\ o \in Events /\ pc[t] = "signalling"
      /\ o = t <=> State[t] = "Dying"
      /\ WaitingList \in [Events -> Seq(Threads)] /\ S!Inj(WaitingList[o])
  BY CallerFacts DEF SignalWaiters, EventIInv, S!IInv, S!TypeOK, S!WaitInv, S!Waitables, Events, Waitables
<1>2. PICK l \in {"signalling", "dead", "run"} :
          /\ l = "dead" <=> (l # "signalling" /\ o = t)
          /\ pc' = [pc EXCEPT ![t] = l]
  BY <1>0, <1>1 DEF SignalWaiters, WakeAt, Goto
<1>3. /\ EventLock' = EventLock \/ EventLock' = [EventLock EXCEPT ![o] = None]
      /\ UNCHANGED <<Handle, ret, Signaled, event, signals, returns>>
  BY <1>0 DEF SignalWaiters, WakeAt, SchedUnchangedButPc
<1>4. \/ WaitingList' = WaitingList
      \/ WaitingList' = [WaitingList EXCEPT ![o] = Tail(WaitingList[o])]
  <2>1. SchedUnchangedButPc \/ \E m : WakeAt(c, o, m)
    BY DEF SignalWaiters
  <2> QED
    BY <2>1 DEF WakeAt, SchedUnchangedButPc
\* Only the list of o changes
<1>5. \A p \in Events : p # o => WaitingList'[p] = WaitingList[p]
  <2> HIDE DEF t, o
  <2> QED
    BY <1>1, <1>4
<1>6. o \in Threads => o = t
  BY <1>0, <1>1, StepFacts
<1> HIDE DEF t, o
<1>7. EventTypeOK' /\ RetTypeOK'
  BY <1>0, <1>1, <1>2, <1>3, StepFacts DEF EventTypeOK, RetTypeOK, SchedLabels
<1>8. ClientInv'
  <2>1. l = "dead" => t \notin Clients
    <3> SUFFICES ASSUME o = t, t \in Clients PROVE FALSE
      BY <1>2
    <3> QED
      BY <1>0, <1>1, StepFacts DEF CallInv, o
  <2>2. ClientInv /\ pc \in [Threads -> Labels]
    BY <1>0, StepFacts
  <2>3. \A x \in Threads : pc'[x] = IF x = t THEN l ELSE pc[x]
    BY <1>0, <1>2, <2>2
  <2>4. /\ l \notin {"test", "insert", "exit", "signal"}
        /\ UNCHANGED <<ret, event>> /\ pc[t] = "signalling"
    BY <1>1, <1>2, <1>3
  <2> QED
    BY <1>0, <2>1, <2>2, <2>3, <2>4 DEF ClientInv, SchedLabels
<1>9. CallInv'
  BY <1>0, <1>1, <1>2, <1>3, <1>7, StepFacts DEF CallInv, EventTypeOK
<1>10. CountInv'
  BY <1>0, <1>3, StepFacts DEF CountInv, Pending
<1>11. TerminationInv'
  <2>1. ASSUME NEW x \in Threads, NEW u \in Threads, event[x] = u,
               pc'[x] \in SchedLabels \cup Interruptible
        PROVE  State'[u] = "Dying" \/ S!In(WaitingList'[u], x)
    <3>0. u \in Events
      BY <1>0, StepFacts
    <3>1. CASE u = o
      <4>1. State[u] = "Dying"
        BY <1>1, <1>6, <3>1
      <4> QED
        BY <1>0, <4>1, StepFacts
    <3>2. CASE u # o
      <4>1. pc[x] \in SchedLabels \cup Interruptible
        <5>1. x # t
          BY <2>1, <3>2 DEF o
        <5> QED
          BY <1>0, <1>2, <2>1, <5>1, StepFacts
      <4>2. State[u] = "Dying" \/ S!In(WaitingList[u], x)
        BY <1>0, <2>1, <4>1, StepFacts DEF TerminationInv
      <4> QED
        BY <1>0, <1>5, <3>0, <3>2, <4>2, StepFacts
    <3> QED
      BY <3>1, <3>2
  <2> QED
    BY <1>0, <1>3, <2>1, StepFacts DEF TerminationInv
<1> QED
  BY <1>0, <1>7, <1>8, <1>9, <1>10, <1>11, StepFacts DEF EventIInv

LEMMA InitEventIInv == ExEventInit => EventIInv
<1> SUFFICES ASSUME ExEventInit PROVE EventIInv
  OBVIOUS
<1>1. /\ ThreadSystemInit /\ event = [t \in Threads |-> None] /\ Signaled = [o \in Events |-> FALSE]
      /\ EventLock = [o \in Events |-> None] /\ signals = [o \in Events |-> 0] /\ returns = [o \in Events |-> 0]
  BY DEF ExEventInit
<1>2. pc \in [Threads -> {"run", "off", "new"}] /\ ret \in [Threads -> {"idle", "run"}]
  BY <1>1 DEF ThreadSystemInit
<1>3. S!ThreadSystemInit
  <2>1. [t \in Threads |-> At(t, pc[t])] = pc /\ [t \in Threads |-> At(t, ret[t])] = ret
    BY <1>2 DEF At
  <2> QED
    BY <1>1, <2>1 DEF ThreadSystemInit, S!ThreadSystemInit, MainThreads, S!MainThreads, IdleThreads,
                 S!IdleThreads, Waitables, S!Waitables
<1>4. S!IInv /\ S!DyingInv
  BY <1>3, S!InitInv, S!InitDying, InstanceAssumption
<1>5. EventTypeOK /\ RetTypeOK
  BY <1>1, <1>2 DEF EventTypeOK, RetTypeOK, SchedLabels, Interruptible
<1>6. ClientInv /\ CallInv
  BY <1>2 DEF ClientInv, CallInv
<1>7. CountInv
  BY <1>1 DEF CountInv, Pending, Events, Waitables
<1>8. TerminationInv
  BY <1>1, ThreadAssumption DEF TerminationInv, ThreadAssumption, Events, Waitables
<1> QED
  BY <1>4, <1>5, <1>6, <1>7, <1>8 DEF EventIInv

LEMMA NextEventIInv ==
    ASSUME EventIInv, [EventNext]_vars
    PROVE  EventIInv'
<1>1. CASE UNCHANGED vars
  <2>1. S!IInv' /\ S!DyingInv'
    BY SchedulerKept
  <2> QED
    BY <1>1, <2>1 DEF EventIInv, vars, schedVars, eventVars, EventTypeOK, RetTypeOK, ClientInv, CallInv,
                      CountInv, Pending, TerminationInv
<1>2. ASSUME NEW c \in Cpus, EventStep(c) PROVE EventIInv'
  <2>1. EventNext
    BY <1>2 DEF EventNext
  <2>2. ASSUME SignalTermination(c) PROVE EventIInv'
    BY <2>1, <2>2, StartSignalInv, CallerFacts DEF SignalTermination, Events, Waitables
  <2> QED
    BY <1>2, <2>2, TestInv, InsertInv, SignalWaitersInv DEF EventStep
<1>3. ASSUME NEW c \in Cpus, NEW o \in Events,
             ExEventWaitForSignal(c, o) \/ ExEventSignal(c, o) \/ ExEventClearSignal(c, o)
      PROVE  EventIInv'
  <2>1. EventNext
    BY <1>3 DEF EventNext
  <2>2. ASSUME ExEventSignal(c, o) PROVE EventIInv'
    BY <2>1, <2>2, StartSignalInv DEF ExEventSignal, MayCall
  <2> QED
    BY <1>3, <2>2, WaitForSignalInv, ClearInv
<1> QED
  BY <1>1, <1>2, <1>3, OtherStepInv DEF EventNext

----------------------------------------------------------------------------
\* The theorems

\* The inductive invariant of the events and of the scheduler under them.
THEOREM EventInvariantHolds == EventSpec => []EventIInv
<1>1. EventIInv /\ [EventNext]_vars => EventIInv'
  BY NextEventIInv
<1> QED
  BY <1>1, InitEventIInv, PTL DEF EventSpec

\* ExEventWaitForSignal keeps its promises: at most one wait for a synchronization event
\* returns for each ExEventSignal, and ThreadWaitForTermination returns when the thread
\* is dying.
THEOREM EventsAreCorrect == EventSpec => []EventInv
<1>1. ASSUME EventIInv PROVE EventInv
  <2>1. EventTypeOK
    BY <1>1 DEF EventIInv
  <2>2. OneWaitPerSignal
    <3> SUFFICES ASSUME NEW o \in Objects, ~IsNotification(o) PROVE returns[o] <= signals[o]
      BY DEF OneWaitPerSignal
    <3>1. returns[o] + Pending(o) <= signals[o] /\ returns[o] \in Nat /\ signals[o] \in Nat
      BY <1>1 DEF EventIInv, CountInv, EventTypeOK, Events, Waitables
    <3> QED
      BY <3>1 DEF Pending
  <2>3. WaitEndsAfterExit
    <3> SUFFICES ASSUME NEW t \in Threads, NEW u \in Threads, event[t] = u, pc[t] = "run"
                 PROVE  State[u] = "Dying"
      BY DEF WaitEndsAfterExit
    <3>1. [x \in Threads |-> At(x, pc[x])][t] = "run"
      BY DEF At
    <3>2. ~S!In(WaitingList[u], t)
      BY <1>1, <3>1 DEF EventIInv, S!IInv, S!WaitInv, S!Waitables
    <3> QED
      BY <1>1, <3>2 DEF EventIInv, TerminationInv, Interruptible
  <2> QED
    BY <2>1, <2>2, <2>3 DEF EventInv
<1> QED
  BY <1>1, EventInvariantHolds, PTL

\* ExEventSignal of a notification event releases EventLock only when nobody is left in
\* the waiting list.
THEOREM ListedAreWoken == EventSpec => AllListedAreWoken
<1> DEFINE Woken == \A o \in Events, c \in Cpus :
               IsNotification(o) /\ EventLock[o] = c /\ EventLock'[o] # c => WaitingList'[o] = <<>>
<1>1. EventIInv /\ [EventNext]_vars => [Woken]_vars
  <2> SUFFICES ASSUME EventIInv, EventNext, NEW o \in Events, NEW c \in Cpus,
                      IsNotification(o), EventLock[o] = c, EventLock'[o] # c
               PROVE  WaitingList'[o] = <<>>
    BY DEF vars, eventVars
  <2>1. EventLock \in [Events -> Cpus \cup {None}] /\ c # None
    BY ThreadAssumption DEF EventIInv, EventTypeOK, ThreadAssumption
  <2>2. ASSUME NEW d \in Cpus, NEW p, StartSignal(d, p) PROVE FALSE
    BY <2>1, <2>2 DEF StartSignal
  <2>3. PICK d \in Cpus : SignalWaiters(d)
    BY <2>2 DEF EventNext, OtherStep, eventVars, EventStep, TestSignaled, InsertInWaitingList,
                SignalTermination, ExEventWaitForSignal, ExEventSignal, ExEventClearSignal
  <2>4. event[Caller(d)] = o
    BY <2>1, <2>3 DEF SignalWaiters
  <2> QED
    BY <2>3, <2>4 DEF SignalWaiters, SchedUnchangedButPc
<1> HIDE DEF Woken
<1>2. EventSpec => [][Woken]_vars
  BY <1>1, EventInvariantHolds, PTL DEF EventSpec
<1> QED
  BY <1>2 DEF AllListedAreWoken, Woken

\* The events use the scheduler as it is specified: with a thread in
\* ExEventWaitForSignal or ExEventSignal read as one that executes its own code, and
\* one that signals its own termination as one in ThreadExit, every behaviour is one of
\* Thread in which nobody is terminated.
THEOREM EventsUseScheduler == EventSpec => S!Spec
<1>1. ExEventInit => S!ThreadSystemInit
  <2> SUFFICES ASSUME ExEventInit PROVE S!ThreadSystemInit
    OBVIOUS
  <2>1. pc \in [Threads -> {"run", "off", "new"}] /\ ret \in [Threads -> {"idle", "run"}] /\ ThreadSystemInit
    BY DEF ExEventInit, ThreadSystemInit
  <2>2. [t \in Threads |-> At(t, pc[t])] = pc /\ [t \in Threads |-> At(t, ret[t])] = ret
    BY <2>1 DEF At
  <2> QED
    BY <2>1, <2>2 DEF ThreadSystemInit, S!ThreadSystemInit, MainThreads, S!MainThreads, IdleThreads,
                 S!IdleThreads, Waitables, S!Waitables
<1>2. EventIInv /\ [EventNext]_vars => [S!Next]_S!schedVars
  BY MapNext
<1> QED
  BY <1>1, <1>2, EventInvariantHolds, PTL DEF EventSpec, S!Spec

\* So what _ThreadSchedule, ThreadBlock and ThreadUnblock promise holds for threads that
\* wait for and signal events: no stack is used twice, no thread is lost or linked
\* twice, and BlockLock is handed over.
THEOREM EventsKeepScheduler == EventSpec => [](OneStackPerCpu /\ ListsExact /\ BlockLockHandover)
<1>1. ASSUME EventIInv PROVE OneStackPerCpu /\ ListsExact /\ BlockLockHandover
  <2>0. /\ S!IInv
        /\ \A t \in Threads : /\ [x \in Threads |-> At(x, pc[x])][t] = At(t, pc[t])
                              /\ At(t, pc[t]) \in {"off", "block", "blocked", "exit", "cleanup"} => At(t, pc[t]) = pc[t]
                              /\ pc[t] = "off" => At(t, pc[t]) = "off"
    BY <1>1 DEF EventIInv, At
  <2>1. OneStackPerCpu
    <3>1. OneCpuPerThread
      BY <2>0 DEF S!IInv, S!CpuInv, S!OneCpuPerThread, OneCpuPerThread
    <3>2. ASSUME NEW t \in Threads, InReadyList(t) PROVE pc[t] = "off" /\ ~Running(t)
      <4>1. [x \in Threads |-> At(x, pc[x])][t] = "off"
        BY <2>0, <3>2 DEF S!IInv, S!ReadyInv, InReadyList, S!In
      <4> QED
        BY <2>0, <4>1 DEF S!IInv, S!CpuInv, Running
    <3> QED
      BY <3>1, <3>2 DEF OneStackPerCpu, ReadyIsOffCpu
  <2>2. NoThreadLost
    BY <2>0 DEF S!IInv, S!ReadyInv, S!WaitInv, S!LostInv, NoThreadLost, InReadyList, InWaitingList,
                S!In, S!Inj, S!Waitables, Waitables, S!IdleThreads, IdleThreads
  <2>3. WakesBlockedOnly
    <3> SUFFICES ASSUME NEW o \in Waitables, WaitingList[o] # <<>>,
                        BlockLock[Head(WaitingList[o])] = None
                 PROVE  State[Head(WaitingList[o])] = "Blocked"
      BY DEF WakesBlockedOnly
    <3>1. WaitingList[o] \in Seq(Threads) /\ S!Inj(WaitingList[o]) /\ o \in S!Waitables
      BY <2>0 DEF S!IInv, S!TypeOK, S!WaitInv, S!Waitables, Waitables
    <3>2. Head(WaitingList[o]) \in Threads /\ S!In(WaitingList[o], Head(WaitingList[o]))
      BY <3>1, S!TailIn, InstanceAssumption DEF S!ThreadAssumption
    <3> QED
      BY <2>0, <3>1, <3>2 DEF S!IInv, S!WaitInv
  <2>4. BlockLockHandover
    <3> SUFFICES ASSUME NEW t \in Threads, NEW c \in Cpus, BlockLock[t] = c
                 PROVE  \/ CurrentThread[c] = t /\ pc[t] \in {"block", "blocked", "exit", "cleanup"}
                        \/ /\ PreviousThread[c] = t /\ pc[CurrentThread[c]] = "cleanup"
                           /\ State[t] = "Blocked"
      BY DEF BlockLockHandover
    <3>1. CurrentThread[c] \in Threads
      BY <2>0 DEF S!IInv, S!TypeOK
    <3> DEFINE P == [x \in Threads |-> At(x, pc[x])]
    <3>2. \A x \in Threads : P[x] = At(x, pc[x])
      OBVIOUS
    <3>3. \A x \in Threads, d \in Cpus : BlockLock[x] = d =>
              \/ CurrentThread[d] = x /\ P[x] \in {"block", "blocked"}
              \/ /\ PreviousThread[d] = x /\ P[CurrentThread[d]] = "cleanup"
                 /\ State[x] = "Blocked"
      BY <2>0 DEF S!IInv, S!BlockInv
    <3> HIDE DEF P
    <3>4. \/ CurrentThread[c] = t /\ At(t, pc[t]) \in {"block", "blocked"}
          \/ /\ PreviousThread[c] = t /\ At(CurrentThread[c], pc[CurrentThread[c]]) = "cleanup"
             /\ State[t] = "Blocked"
      BY <3>1, <3>2, <3>3
    <3> QED
      BY <2>0, <3>1, <3>4
  <2> QED
    BY <2>1, <2>2, <2>3, <2>4 DEF ListsExact
<1> QED
  BY <1>1, EventInvariantHolds, PTL

=============================================================================
