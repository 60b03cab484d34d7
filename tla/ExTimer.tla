------------------------------ MODULE ExTimer -------------------------------
(***************************************************************************)
(* Executive timers (ex_timer.c).  A timer is a time and a flag; a thread  *)
(* waits for it by yielding until the system time (external: the real time *)
(* clock behind IomuGetSystemTimeUs) has reached the trigger time or the   *)
(* timer is stopped.  No lock is taken: every read and every write of a    *)
(* field of the timer is a step of its own.                                *)
(***************************************************************************)
EXTENDS Integers

CONSTANTS
    Waiters,    \* the threads that use the timer
    Times,      \* the values of the parameter Time of ExTimerInit
    MaxTime,    \* the clock stops here (a bound for TLC)
    QwordSize   \* 2^64: TriggerTimeUs is a QWORD

ASSUME TimerAssumption ==
    /\ Times \subseteq Nat
    /\ MaxTime \in Nat /\ QwordSize \in Nat /\ MaxTime < QwordSize

Types == {"Absolute", "RelativeOnce", "RelativePeriodic"}

VARIABLES
    systemTime,     \* IomuGetSystemTimeUs()
    timer,          \* the EX_TIMER
    waiter          \* waiter[t]: "out", or where t is in a function of the timer

timerVars == <<systemTime, timer, waiter>>

\* ExTimerInit for every type and time, at any system time.
InitTimer(type, time, now) ==
    [Type |-> type,
     TriggerTimeUs |-> IF type = "Absolute" THEN time ELSE (now + time) % QwordSize,
     ReloadTimeUs |-> IF type = "Absolute" THEN 0 ELSE time,
     TimerStarted |-> FALSE,
     TimerUninited |-> FALSE]

TimerInit ==
    /\ systemTime \in 0..MaxTime
    /\ \E type \in Types, time \in Times : timer = InitTimer(type, time, systemTime)
    /\ waiter = [t \in Waiters |-> "out"]

Moves(t, from, to) == waiter[t] = from /\ waiter' = [waiter EXCEPT ![t] = to]

Tick ==
    /\ systemTime < MaxTime
    /\ systemTime' = systemTime + 1
    /\ UNCHANGED <<timer, waiter>>

\* ExTimerStart, ExTimerStop and ExTimerWait return at once if they find the timer
\* uninitialised; "start", "stop" and "time" come after that test.
CallTimer(t) ==
    /\ ~timer.TimerUninited
    /\ \E f \in {"start", "stop", "time"} : Moves(t, "out", f)
    /\ UNCHANGED <<systemTime, timer>>

\* ExTimerUninit calls ExTimerStop first.
CallUninit(t) ==
    /\ Moves(t, "out", IF timer.TimerUninited THEN "uninit" ELSE "uninitStop")
    /\ UNCHANGED <<systemTime, timer>>

WriteStarted(t) ==
    /\ Moves(t, "start", "out")
    /\ timer' = [timer EXCEPT !.TimerStarted = TRUE]
    /\ UNCHANGED systemTime

WriteStopped(t) ==
    /\ Moves(t, "stop", "out") \/ Moves(t, "uninitStop", "uninit")
    /\ timer' = [timer EXCEPT !.TimerStarted = FALSE]
    /\ UNCHANGED systemTime

WriteUninited(t) ==
    /\ Moves(t, "uninit", "out")
    /\ timer' = [timer EXCEPT !.TimerUninited = TRUE]
    /\ UNCHANGED systemTime

----------------------------------------------------------------------------
\* The loop of ExTimerWait

\* Mutant: the trigger time must be met exactly.
TestTimeEqual(t) ==
    /\ \/ systemTime = timer.TriggerTimeUs /\ Moves(t, "time", "out")
       \/ systemTime # timer.TriggerTimeUs /\ Moves(t, "time", "started")
    /\ UNCHANGED <<systemTime, timer>>

TestTime(t) ==
    /\ \/ systemTime >= timer.TriggerTimeUs /\ Moves(t, "time", "out")
       \/ systemTime < timer.TriggerTimeUs /\ Moves(t, "time", "started")
    /\ UNCHANGED <<systemTime, timer>>

\* TimerStarted is read; if it is set the thread yields and tests again.
TestStarted(t) ==
    /\ Moves(t, "started", IF timer.TimerStarted THEN "time" ELSE "out")
    /\ UNCHANGED <<systemTime, timer>>

WaitStep(t) == TestTime(t) \/ TestStarted(t)

TimerNext ==
    \/ Tick
    \/ \E t \in Waiters : \/ CallTimer(t) \/ CallUninit(t) \/ WaitStep(t)
                          \/ WriteStarted(t) \/ WriteStopped(t) \/ WriteUninited(t)

TimerSpec == TimerInit /\ [][TimerNext]_timerVars

\* Time passes, and a thread that yields runs again (ReadyThreadRuns of Thread).
TimerFairSpec == TimerSpec /\ WF_timerVars(Tick) /\ \A t \in Waiters : WF_timerVars(WaitStep(t))

----------------------------------------------------------------------------
\* Properties

\* The timer was uninitialised, and no ExTimerStart that began before is left to write.
StoppedForGood ==
    /\ timer.TimerUninited /\ ~timer.TimerStarted
    /\ \A t \in Waiters : waiter[t] # "start"

\* "When the timer triggers - no matter its type - all the threads waiting on it
\* must be woken up", whoever stops, restarts or uninitialises it meanwhile; and a
\* timer that is uninitialised lets its waiters go however far its trigger time is.
EveryWaitEnds == \A t \in Waiters :
    waiter[t] \in {"time", "started"} /\ (timer.TriggerTimeUs <= MaxTime \/ StoppedForGood)
        ~> waiter[t] \notin {"time", "started"}

=============================================================================
