------------------------------ MODULE ExEvent -------------------------------
(***************************************************************************)
(* Executive events (ex_event.c) on top of the scheduler, and the wait for *)
(* the termination of a thread, which is a wait for its notification event *)
(* TerminationEvt.                                                         *)
(*                                                                         *)
(* ExEventWaitForSignal tests Signaled with a compare-and-swap before it   *)
(* takes EventLock, so the test and the insertion in the waiting list are  *)
(* two steps.  ExEventSignal holds EventLock while it wakes thread after   *)
(* thread, so the owner of EventLock is state.                             *)
(***************************************************************************)
EXTENDS Thread

CONSTANTS
    EventType,      \* EventType[o]: "Notification" or "Synchronization", for o \in Objects
    MaxSignals,     \* how often each event is signalled (a bound for TLC)
    Clients         \* the threads that wait for and signal events; they do not exit
                    \* (a bound for TLC)

ASSUME EventTypeAssumption ==
    /\ EventType \in [Objects -> {"Notification", "Synchronization"}]
    /\ MaxSignals \in Nat
    /\ Clients \subseteq Threads \ IdleThreads

VARIABLES
    Signaled,       \* EX_EVENT.Signaled
    EventLock,      \* EventLock[o]: the CPU that owns it, or None
    event,          \* event[t]: the event t waits for or signals
    signals,        \* how often o was signalled
    returns         \* how many waits for synchronization event o have returned

eventVars == <<Signaled, EventLock, event, signals, returns>>
vars == <<schedVars, eventVars>>

Events == Waitables
IsNotification(o) == o \notin {e \in Objects : EventType[e] = "Synchronization"}

\* Control points of ExEventWaitForSignal and ExEventSignal, interrupts disabled.
EventLabels == {"test", "insert", "signalling"}

ExEventInit ==
    /\ ThreadSystemInit
    /\ Signaled = [o \in Events |-> FALSE]
    /\ EventLock = [o \in Events |-> None]
    /\ event = [t \in Threads |-> None]
    /\ signals = [o \in Events |-> 0]
    /\ returns = [o \in Events |-> 0]

Caller(c) == CurrentThread[c]
MayCall(c) == pc[Caller(c)] = "run" /\ Caller(c) \in Clients
SchedUnchangedButPc ==
    UNCHANGED <<State, Flags, BlockLock, RefCnt, Handle, ReadyThreadsList,
                WaitingList, CurrentThread, PreviousThread, ret>>

----------------------------------------------------------------------------
\* ExEventWaitForSignal; ThreadWaitForTermination(o) when o is a thread.
ExEventWaitForSignal(c, o) ==
    /\ MayCall(c)
    /\ o \in Threads => Handle[o] /\ o # Caller(c)
    /\ event' = [event EXCEPT ![Caller(c)] = o]
    /\ Goto(Caller(c), "test")
    /\ SchedUnchangedButPc
    /\ UNCHANGED <<Signaled, EventLock, signals, returns>>

\* Mutant: the wait for a synchronization event leaves it signalled.
TestKeepsSignal(c) ==
    LET t == Caller(c)
        o == event[t]
    IN  /\ pc[t] = "test"
        /\ Goto(t, IF Signaled[o] THEN "run" ELSE "insert")
        /\ returns' = [returns EXCEPT ![o] = IF Signaled[o] /\ ~IsNotification(o)
                                           THEN @ + 1 ELSE @]
        /\ SchedUnchangedButPc
        /\ UNCHANGED <<Signaled, EventLock, event, signals>>

\* The compare-and-swap: it returns the old value and replaces TRUE by
\* newState, which is TRUE for a notification event only.
TestSignaled(c) ==
    LET t == Caller(c)
        o == event[t]
    IN  /\ pc[t] = "test"
        /\ Goto(t, IF Signaled[o] THEN "run" ELSE "insert")
        /\ Signaled' = [Signaled EXCEPT ![o] = @ /\ IsNotification(o)]
        /\ returns' = [returns EXCEPT ![o] = IF Signaled[o] /\ ~IsNotification(o)
                                           THEN @ + 1 ELSE @]
        /\ SchedUnchangedButPc
        /\ UNCHANGED <<EventLock, event, signals>>

\* Under EventLock the thread links itself into the waiting list and takes its
\* BlockLock.  A waiter of a notification event returns when it is woken, one of
\* a synchronization event tests again.
InsertInWaitingList(c) ==
    LET t == Caller(c)
        o == event[t]
    IN  /\ pc[t] = "insert"
        /\ EventLock[o] = None
        /\ WaitAt(c, o, IF IsNotification(o) THEN "run" ELSE "test")
        /\ UNCHANGED eventVars

----------------------------------------------------------------------------
\* The start of ExEventSignal: EventLock and Signaled.
StartSignal(c, o) ==
    /\ EventLock[o] = None
    /\ EventLock' = [EventLock EXCEPT ![o] = c]
    /\ Signaled' = [Signaled EXCEPT ![o] = TRUE]
    /\ event' = [event EXCEPT ![Caller(c)] = o]
    /\ signals' = [signals EXCEPT ![o] = @ + 1]
    /\ Goto(Caller(c), "signalling")
    /\ SchedUnchangedButPc
    /\ UNCHANGED returns

ExEventSignal(c, o) ==
    /\ MayCall(c) /\ o \in Objects
    /\ signals[o] < MaxSignals
    /\ StartSignal(c, o)

\* ExEventSignal(&pThread->TerminationEvt) in ThreadExit.
SignalTermination(c) ==
    /\ pc[Caller(c)] = "signal"
    /\ StartSignal(c, Caller(c))

\* Mutant: a signal wakes one thread of a notification event only.
SignalWakesOne(c) ==
    LET t == Caller(c)
        o == event[t]
        after == IF State[t] = "Dying" THEN "dead" ELSE "run"
    IN  /\ pc[t] = "signalling"
        /\ EventLock' = [EventLock EXCEPT ![o] = None]
        /\ \/ WakeAt(c, o, after)
           \/ WaitingList[o] = <<>> /\ Goto(t, after) /\ SchedUnchangedButPc
        /\ UNCHANGED <<Signaled, event, signals, returns>>

\* The loop of ExEventSignal, and LockRelease(EventLock).
SignalWaiters(c) ==
    LET t == Caller(c)
        o == event[t]
        after == IF State[t] = "Dying" THEN "dead" ELSE "run"
    IN  /\ pc[t] = "signalling"
        /\ \/ IsNotification(o) /\ WakeAt(c, o, "signalling") /\ UNCHANGED EventLock
           \/ /\ ~IsNotification(o) /\ WakeAt(c, o, after)
              /\ EventLock' = [EventLock EXCEPT ![o] = None]
           \/ /\ WaitingList[o] = <<>>
              /\ EventLock' = [EventLock EXCEPT ![o] = None]
              /\ Goto(t, after)
              /\ SchedUnchangedButPc
        /\ UNCHANGED <<Signaled, event, signals, returns>>

ExEventClearSignal(c, o) ==
    /\ MayCall(c) /\ o \in Objects
    /\ Signaled' = [Signaled EXCEPT ![o] = FALSE]
    /\ UNCHANGED <<schedVars, EventLock, event, signals, returns>>

----------------------------------------------------------------------------
\* The scheduler's own steps; the signalling of the termination event is above.
OtherStep(c) ==
    /\ \/ SchedStep(c) /\ pc[Caller(c)] # "signal"
       \/ ThreadYield(c)
       \/ CallThreadExit(c) /\ Caller(c) \notin Clients
       \/ \E u \in Threads : ThreadCreate(c, u)
    /\ UNCHANGED eventVars

EventStep(c) ==
    TestSignaled(c) \/ InsertInWaitingList(c) \/ SignalTermination(c) \/ SignalWaiters(c)

EventNext == \E c \in Cpus :
    \/ OtherStep(c)
    \/ EventStep(c)
    \/ \E o \in Events : \/ ExEventWaitForSignal(c, o)
                         \/ ExEventSignal(c, o)
                         \/ ExEventClearSignal(c, o)

EventSpec == ExEventInit /\ [][EventNext]_vars

----------------------------------------------------------------------------
\* Properties

EventTypeOK ==
    /\ Signaled \in [Events -> BOOLEAN]
    /\ EventLock \in [Events -> Cpus \cup {None}]
    /\ event \in [Threads -> Events \cup {None}]
    /\ signals \in [Events -> Nat]
    /\ returns \in [Events -> Nat]
    /\ pc \in [Threads -> SchedLabels \cup Interruptible \cup EventLabels]

\* A synchronization event "notifies only one thread": however the woken waiter,
\* late waiters and further signals interleave, at most one wait returns for
\* each signal.
OneWaitPerSignal == \A o \in Objects :
    ~IsNotification(o) => returns[o] <= signals[o]

\* ExEventSignal of a notification event leaves no thread behind that was in the
\* waiting list when it took EventLock: it wakes all of them before it releases
\* the lock.
AllListedAreWoken == [][\A o \in Events, c \in Cpus :
    IsNotification(o) /\ EventLock[o] = c /\ EventLock'[o] # c => WaitingList'[o] = <<>>
    ]_vars

\* ThreadWaitForTermination(u) returns only when u is dying, whether it found the
\* event signalled or was woken: ExitStatus is valid then.
WaitEndsAfterExit == \A t, u \in Threads :
    event[t] = u /\ pc[t] = "run" => State[u] = "Dying"

\* What ExEventWaitForSignal promises its caller: a synchronization event was
\* signalled for this wait alone, a thread that was waited for has exited.
EventInv == EventTypeOK /\ OneWaitPerSignal /\ WaitEndsAfterExit

\* ex_event.h: a notification event "notifies all threads"; thread.h:
\* ThreadWaitForTermination "Waits for a thread to terminate".  Once an exiting
\* thread has signalled its TerminationEvt, which happens once, nobody is left
\* waiting for it.
NobodyWaitsForTheDead == \A u \in Threads :
    Signaled[u] /\ EventLock[u] = None => WaitingList[u] = <<>>

=============================================================================
