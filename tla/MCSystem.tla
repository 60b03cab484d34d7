------------------------------ MODULE MCSystem ------------------------------
(***************************************************************************)
(* Parts that share no state: the spinlock and the recursive reader/writer *)
(* spinlock, the timers, the processes and the keyboard.  A behaviour is   *)
(* one of one of them, chosen in the initial state, and leaves the         *)
(* variables of the others alone.                                          *)
(***************************************************************************)
EXTENDS Spinlock, RecRwSpinlock, ExTimer, Process, Keyboard

\* One scan code is a control key with and without the prefix.
MCScancodeStd == [code1D |-> "lctrl"]
MCScancodeExt == [code1D |-> "rctrl"]

VARIABLE unit       \* the component that runs

mcVars == <<vars, recVars, timerVars, processVars, kbdVars, unit>>

MCInit == /\ LockSystemInit /\ RecRwSpinlockInit /\ TimerInit /\ ProcessSystemInit
          /\ KeyboardInitialize
          /\ unit \in {"lock", "rwlock", "timer", "process", "keyboard"}
          /\ unit # "lock" => MonitorSupport
          /\ unit # "timer" => systemTime = 0 /\ timer = InitTimer("Absolute", 0, 0)

Others(u) ==
    /\ u # "lock" => UNCHANGED vars
    /\ u # "rwlock" => UNCHANGED recVars
    /\ u # "timer" => UNCHANGED timerVars
    /\ u # "process" => UNCHANGED processVars
    /\ u # "keyboard" => UNCHANGED kbdVars

MCNext ==
    /\ UNCHANGED unit
    /\ \/ unit = "lock" /\ Next
       \/ unit = "rwlock" /\ RecNext
       \/ unit = "timer" /\ TimerNext
       \/ unit = "process" /\ ProcessNext
       \/ unit = "keyboard" /\ KbdNext
    /\ Others(unit)

\* The fairness of each component, for the one that runs.
MCFairness ==
    /\ \A x \in Contexts : WF_vars(unit = "lock" /\ LockStep(x))
    /\ \A c \in Cpus : WF_vars(unit = "lock" /\ InterruptReturn(c))
    /\ \A c \in RwCpus :
        /\ WF_recVars(unit = "rwlock" /\ RecStep(c))
        /\ \A d \in 1 .. MaxRecRwDepth - 1 :
               SF_recVars(unit = "rwlock" /\ RecReleaseExclusive(c) /\ RecRwDepth = d)
    /\ WF_timerVars(unit = "timer" /\ Tick)
    /\ \A t \in Waiters : WF_timerVars(unit = "timer" /\ WaitStep(t))
    /\ WF_processVars(unit = "process" /\ ProcessStep)
    /\ WF_kbdVars(unit = "keyboard" /\ ReaderStep)
    /\ \A c \in KbdCpus : WF_kbdVars(unit = "keyboard" /\ KbdIsrStep(c))

MCFairSpec == MCInit /\ [][MCNext]_mcVars /\ MCFairness
=============================================================================
