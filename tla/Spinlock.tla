------------------------------ MODULE Spinlock ------------------------------
(***************************************************************************)
(* The primitive lock behind LockAcquire: SPINLOCK (spinlock.c) and        *)
(* MONITOR_LOCK (monlock.c), one of which LockSystemInit selects at boot.  *)
(*                                                                         *)
(* A CPU runs its thread context or, on top of it, one interrupt handler.  *)
(* Both use the lock: the handler is delivered only while IF is set, which *)
(* is what the lock relies on.  MONITOR and MWAIT are hardware: an armed   *)
(* CPU is woken by the next store to the lock, and MWAIT without an armed  *)
(* monitor falls through.                                                  *)
(***************************************************************************)
EXTENDS Naturals, FiniteSets

CONSTANTS Cpus, NoCpu

ASSUME CpusAssumption == IsFiniteSet(Cpus) /\ NoCpu \notin Cpus

VARIABLES
    MonitorSupport,     \* the argument of LockSystemInit
    State,              \* SPINLOCK.State = LOCK_TAKEN
    Holder,             \* SPINLOCK.Holder (FunctionWhichTookLock is written with it)
    Intr,               \* Intr[c]: RFLAGS.IF of CPU c
    IntrState,          \* IntrState[x]: the interrupt state x saved when it called
    InIsr,              \* InIsr[c]: CPU c executes an interrupt handler
    monitor,            \* monitor[c]: "armed", "asleep" or "off"
    pc                  \* pc[x]: how far context x is in the lock's functions

vars == <<MonitorSupport, State, Holder, Intr, IntrState, InIsr, monitor, pc>>

Contexts == Cpus \X {"thread", "isr"}
Cpu(x) == x[1]

(***************************************************************************)
(* pc[x]: "out"     does not use the lock                                  *)
(*        "spin"    interrupts off, about to compare and exchange          *)
(*        "arm"     interrupts off, about to execute MONITOR               *)
(*        "try"     SpinlockTryAcquire, about to compare and exchange      *)
(*        "failed"  SpinlockTryAcquire lost, about to restore interrupts   *)
(*        "mwait"   the compare and exchange failed, about to MWAIT        *)
(*        "won"     State taken, Holder not yet written                    *)
(*        "held"    the acquire returned                                   *)
(*        "cleared" Holder cleared, State still taken                      *)
(*        "freed"   State free, interrupts not yet restored                *)
(***************************************************************************)
Labels == {"out", "spin", "arm", "try", "failed", "mwait", "won", "held", "cleared", "freed"}

Goto(x, l) == pc' = [pc EXCEPT ![x] = l]

\* The context that executes on its CPU.
Executes(x) == InIsr[Cpu(x)] = (x[2] = "isr")

\* A store to the lock triggers every armed monitor and wakes every sleeper.
WakeMonitors == monitor' = [c \in Cpus |-> "off"]

\* LockSystemInit and LockInit
LockSystemInit ==
    /\ MonitorSupport \in BOOLEAN
    /\ State = FALSE
    /\ Holder = NoCpu
    /\ Intr = [c \in Cpus |-> TRUE]
    /\ IntrState = [x \in Contexts |-> FALSE]
    /\ InIsr = [c \in Cpus |-> FALSE]
    /\ monitor = [c \in Cpus |-> "off"]
    /\ pc = [x \in Contexts |-> "out"]

----------------------------------------------------------------------------
\* The environment of the lock: the CPU's interrupts.

\* An interrupt gate enters the handler with IF clear.
Interrupt(c) ==
    /\ Intr[c] /\ ~InIsr[c]
    /\ InIsr' = [InIsr EXCEPT ![c] = TRUE]
    /\ Intr' = [Intr EXCEPT ![c] = FALSE]
    /\ UNCHANGED <<MonitorSupport, State, Holder, IntrState, monitor, pc>>

\* IRETQ restores RFLAGS: IF was set when the interrupt was delivered.
InterruptReturn(c) ==
    /\ InIsr[c] /\ pc[<<c, "isr">>] = "out"
    /\ InIsr' = [InIsr EXCEPT ![c] = FALSE]
    /\ Intr' = [Intr EXCEPT ![c] = TRUE]
    /\ UNCHANGED <<MonitorSupport, State, Holder, IntrState, monitor, pc>>

\* A caller may run with interrupts off already, as it does under another lock.
CallerTogglesInterrupts(c) ==
    /\ ~InIsr[c] /\ pc[<<c, "thread">>] = "out"
    /\ Intr' = [Intr EXCEPT ![c] = ~@]
    /\ UNCHANGED <<MonitorSupport, State, Holder, IntrState, InIsr, monitor, pc>>

----------------------------------------------------------------------------
\* SpinlockAcquire, MonitorLockAcquire

\* Mutant: interrupts stay on until the lock is held.
AcquireKeepsInterrupts(x) ==
    /\ Executes(x) /\ pc[x] = "out"
    /\ IntrState' = [IntrState EXCEPT ![x] = Intr[Cpu(x)]]
    /\ Goto(x, IF MonitorSupport THEN "arm" ELSE "spin")
    /\ UNCHANGED <<MonitorSupport, State, Holder, Intr, InIsr, monitor>>

\* *IntrState = CpuIntrDisable()
LockAcquire(x) ==
    /\ Executes(x) /\ pc[x] = "out"
    /\ IntrState' = [IntrState EXCEPT ![x] = Intr[Cpu(x)]]
    /\ Intr' = [Intr EXCEPT ![Cpu(x)] = FALSE]
    /\ Goto(x, IF MonitorSupport THEN "arm" ELSE "spin")
    /\ UNCHANGED <<MonitorSupport, State, Holder, InIsr, monitor>>

MonitorArm(x) ==
    /\ Executes(x) /\ pc[x] = "arm"
    /\ monitor' = [monitor EXCEPT ![Cpu(x)] = "armed"]
    /\ Goto(x, "spin")
    /\ UNCHANGED <<MonitorSupport, State, Holder, Intr, IntrState, InIsr>>

\* The compare and exchange succeeds; it is a store to the lock.
CompareExchange(x) ==
    /\ Executes(x) /\ pc[x] \in {"spin", "try"} /\ ~State
    /\ State' = TRUE
    /\ WakeMonitors
    /\ Goto(x, "won")
    /\ UNCHANGED <<MonitorSupport, Holder, Intr, IntrState, InIsr>>

\* It fails in MonitorLockAcquire (in SpinlockAcquire the loop changes nothing).
\* The processor may treat it as a store, which would only wake more CPUs.
CompareExchangeFails(x) ==
    /\ Executes(x) /\ pc[x] = "spin" /\ State /\ MonitorSupport
    /\ Goto(x, "mwait")
    /\ UNCHANGED <<MonitorSupport, State, Holder, Intr, IntrState, InIsr, monitor>>

\* Mutant: arms the monitor and sleeps without testing State again.
MwaitRearms(x) ==
    /\ Executes(x) /\ pc[x] = "mwait" /\ monitor[Cpu(x)] # "asleep"
    /\ monitor' = [monitor EXCEPT ![Cpu(x)] = "asleep"]
    /\ UNCHANGED <<MonitorSupport, State, Holder, Intr, IntrState, InIsr, pc>>

\* MWAIT sleeps while the monitor is armed; when it was triggered the loop continues.
Mwait(x) ==
    /\ Executes(x) /\ pc[x] = "mwait"
    /\ \/ /\ monitor[Cpu(x)] = "armed"
          /\ monitor' = [monitor EXCEPT ![Cpu(x)] = "asleep"]
          /\ UNCHANGED pc
       \/ /\ monitor[Cpu(x)] = "off"
          /\ Goto(x, "arm")
          /\ UNCHANGED monitor
    /\ UNCHANGED <<MonitorSupport, State, Holder, Intr, IntrState, InIsr>>

\* Lock->Holder = pCurrentCpu; a store to the lock.
SetHolder(x) ==
    /\ Executes(x) /\ pc[x] = "won"
    /\ Holder' = Cpu(x)
    /\ WakeMonitors
    /\ Goto(x, "held")
    /\ UNCHANGED <<MonitorSupport, State, Intr, IntrState, InIsr>>

----------------------------------------------------------------------------
\* SpinlockTryAcquire, MonitorLockTryAcquire (the rest is CompareExchange and SetHolder)

LockTryAcquire(x) ==
    /\ Executes(x) /\ pc[x] = "out"
    /\ IntrState' = [IntrState EXCEPT ![x] = Intr[Cpu(x)]]
    /\ Intr' = [Intr EXCEPT ![Cpu(x)] = FALSE]
    /\ Goto(x, "try")
    /\ UNCHANGED <<MonitorSupport, State, Holder, InIsr, monitor>>

TryAcquireFails(x) ==
    /\ Executes(x) /\ pc[x] = "try" /\ State
    /\ Goto(x, "failed")
    /\ UNCHANGED <<MonitorSupport, State, Holder, Intr, IntrState, InIsr, monitor>>

----------------------------------------------------------------------------
\* SpinlockRelease, MonitorLockRelease

ClearHolder(x) ==
    /\ Executes(x) /\ pc[x] = "held"
    /\ Holder' = NoCpu
    /\ WakeMonitors
    /\ Goto(x, "cleared")
    /\ UNCHANGED <<MonitorSupport, State, Intr, IntrState, InIsr>>

FreeLock(x) ==
    /\ Executes(x) /\ pc[x] = "cleared"
    /\ State' = FALSE
    /\ WakeMonitors
    /\ Goto(x, "freed")
    /\ UNCHANGED <<MonitorSupport, Holder, Intr, IntrState, InIsr>>

\* CpuIntrSetState
RestoreInterrupts(x) ==
    /\ Executes(x) /\ pc[x] \in {"freed", "failed"}
    /\ Intr' = [Intr EXCEPT ![Cpu(x)] = IntrState[x]]
    /\ Goto(x, "out")
    /\ UNCHANGED <<MonitorSupport, State, Holder, IntrState, InIsr, monitor>>

----------------------------------------------------------------------------
\* The steps that finish an acquire or a release once it was begun.
LockStep(x) ==
    \/ MonitorArm(x) \/ CompareExchange(x) \/ CompareExchangeFails(x) \/ Mwait(x)
    \/ SetHolder(x) \/ TryAcquireFails(x)
    \/ ClearHolder(x) \/ FreeLock(x) \/ RestoreInterrupts(x)

Next ==
    \/ \E c \in Cpus : Interrupt(c) \/ InterruptReturn(c) \/ CallerTogglesInterrupts(c)
    \/ \E x \in Contexts : LockAcquire(x) \/ LockTryAcquire(x) \/ LockStep(x)

Spec == LockSystemInit /\ [][Next]_vars

\* A CPU inside the lock's functions runs with interrupts off, so nothing but
\* the lock itself delays it; a holder releases after a bounded section, and a
\* handler returns.
Fairness ==
    /\ \A x \in Contexts : WF_vars(LockStep(x))
    /\ \A c \in Cpus : WF_vars(InterruptReturn(c))

FairSpec == Spec /\ Fairness

----------------------------------------------------------------------------
\* Properties

TypeOK ==
    /\ MonitorSupport \in BOOLEAN
    /\ State \in BOOLEAN
    /\ Holder \in Cpus \cup {NoCpu}
    /\ Intr \in [Cpus -> BOOLEAN]
    /\ IntrState \in [Contexts -> BOOLEAN]
    /\ InIsr \in [Cpus -> BOOLEAN]
    /\ monitor \in [Cpus -> {"armed", "asleep", "off"}]
    /\ pc \in [Contexts -> Labels]

Owners == {x \in Contexts : pc[x] \in {"won", "held", "cleared"}}

\* At most one context owns the lock, State tells whether one does, and
\* SpinlockIsOwner, which reads Holder without the lock, is right: Holder is the
\* CPU of the context whose acquire returned.  The assertions that Holder is NULL
\* after the compare and exchange follow.
OwnerExact ==
    /\ Cardinality(Owners) = (IF State THEN 1 ELSE 0)
    /\ \A c \in Cpus : Holder = c <=> \E x \in Contexts : Cpu(x) = c /\ pc[x] = "held"

\* An interrupt handler never waits for the lock of the code it interrupted, which
\* could never release it: "ASSERT_INFO(pCurrentCpu != Lock->Holder".  It needs
\* interrupts to be off from before the compare and exchange until after the
\* lock is free.
NoSelfDeadlock == \A c \in Cpus :
    InIsr[c] => pc[<<c, "thread">>] = "out"

\* The lock is exclusive and no CPU waits for itself.
SpinlockInv == OwnerExact /\ NoSelfDeadlock

\* A waiter sleeping in MWAIT is not forgotten: while CPUs wait for the lock, it is
\* taken over and over.
LockIsTaken == (\E x \in Contexts : pc[x] \in {"spin", "arm", "mwait"}) ~> (\E x \in Contexts : pc[x] = "held")

=============================================================================
