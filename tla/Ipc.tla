-------------------------------- MODULE Ipc ---------------------------------
(***************************************************************************)
(* Inter-processor calls (SmpSendGenericIpiEx and _SmpIpcIpiIsr of smp.c,  *)
(* ipc.c, event.c, ref_cnt.c, LapicSendIpi of lapic.c): a thread queues an *)
(* event at every target CPU, sends one IPI and may wait until the last    *)
(* target has executed the function.                                       *)
(*                                                                         *)
(* The local APIC is hardware: a vector that is already pending at a CPU   *)
(* is not remembered twice, and the two halves of its command register are *)
(* written one after the other.                                            *)
(***************************************************************************)
EXTENDS Naturals, Sequences, FiniteSets

CONSTANTS
    Cpus,
    Events,         \* the calls of SmpSendGenericIpiEx
    Modes,          \* the values of SMP_IPI_SEND_MODE in use
    Destinations,   \* the sets of CPUs that are addressed by ApicId or by Affinity
    Waits,          \* the values of WaitForHandling in use
    None

\* "Destination" stands for SmpIpiSendToCpu and SmpIpiSendToGroup.
AllModes == {"Destination", "Self", "All", "AllButSelf"}

ASSUME IpcAssumption ==
    /\ IsFiniteSet(Cpus) /\ None \notin Cpus \cup Events
    /\ Modes \subseteq AllModes /\ Destinations \subseteq SUBSET Cpus /\ Waits \subseteq BOOLEAN

VARIABLES
    pc,             \* pc[e]: where the sender of e is in SmpSendGenericIpiEx
    cpu,            \* cpu[e]: the CPU the sender executes on until its IPI is sent
    call,           \* call[e]: SendMode, Destination and WaitForHandling
    Targets,        \* Targets[e]: pMatchingCpus
    queued,         \* queued[e]: the targets e was inserted at
    RefCnt,         \* IPC_EVENT.RefCnt
    Signaled,       \* IPC_EVENT.TerminationEvent
    ran,            \* ran[e]: the CPUs that have executed Function
    EventList,      \* PCPU.EventList, of length NoOfEventsInList
    IcrHigh,        \* IcrHigh[c]: the destination in the command register of c
    Irr,            \* Irr[c]: the IPC vector is pending at CPU c
    isr,            \* isr[c]: where _SmpIpcIpiIsr is on CPU c
    disturbed       \* the senders that did not have their CPU for themselves from the
                    \* choice of the targets to the end of LapicSendIpi

senderVars == <<pc, cpu, call, Targets, queued>>
vars == <<senderVars, RefCnt, Signaled, ran, EventList, IcrHigh, Irr, isr, disturbed>>

NoIsr == [at |-> "none", event |-> None]
NoCall == [mode |-> "Self", dest |-> {}, wait |-> FALSE]

Init ==
    /\ pc = [e \in Events |-> "new"]
    /\ cpu = [e \in Events |-> None]
    /\ call = [e \in Events |-> NoCall]
    /\ Targets = [e \in Events |-> {}]
    /\ queued = [e \in Events |-> {}]
    /\ RefCnt = [e \in Events |-> 0]
    /\ Signaled = [e \in Events |-> FALSE]
    /\ ran = [e \in Events |-> {}]
    /\ EventList = [c \in Cpus |-> <<>>]
    /\ IcrHigh = [c \in Cpus |-> {}]
    /\ Irr = [c \in Cpus |-> FALSE]
    /\ isr = [c \in Cpus |-> NoIsr]
    /\ disturbed = {}

Goto(e, l) == pc' = [pc EXCEPT ![e] = l]

\* Code of a thread on CPU c may execute.  That other code on c runs with interrupts
\* disabled is a delay like any other.
ThreadCode(c) == isr[c] = NoIsr

\* From the choice of the targets to the end of LapicSendIpi nothing keeps the
\* scheduler from preempting the sender.
Sending(e) == pc[e] \in {"generate", "insert", "icrHigh", "icrLow"}
SendingOn(c) == {e \in Events : Sending(e) /\ cpu[e] = c}

SenderAt(e, l) == pc[e] = l /\ ThreadCode(cpu[e])

----------------------------------------------------------------------------
\* SmpSendGenericIpiEx

\* _SmpDoesCpuMatchDestination for the CPUs of m_smpData.CpuList.
MatchingCpus(mode, dest, self) ==
    CASE mode = "Destination" -> dest
      [] mode = "Self"        -> {self}
      [] mode = "All"         -> Cpus
      [] mode = "AllButSelf"  -> Cpus \ {self}

\* _SmpRetrieveMatchingCpus; without a match the call fails at once.  Destination is
\* not used with a shorthand.
RetrieveMatchingCpus(e, c, mode, dest, wait) ==
    LET matching == MatchingCpus(mode, dest, c)
    IN  /\ pc[e] = "new" /\ ThreadCode(c)
        /\ mode # "Destination" => dest = {}
        /\ cpu' = [cpu EXCEPT ![e] = c]
        /\ call' = [call EXCEPT ![e] = [mode |-> mode, dest |-> dest, wait |-> wait]]
        /\ Targets' = [Targets EXCEPT ![e] = matching]
        /\ Goto(e, IF matching = {} THEN "done" ELSE "generate")
        /\ disturbed' = disturbed \cup (IF SendingOn(c) = {} THEN {} ELSE SendingOn(c) \cup {e})
        /\ UNCHANGED <<queued, RefCnt, Signaled, ran, EventList, IcrHigh, Irr, isr>>

\* Mutant: the waiter has no reference of its own.
GenerateForCpusOnly(e) ==
    /\ SenderAt(e, "generate")
    /\ RefCnt' = [RefCnt EXCEPT ![e] = Cardinality(Targets[e])]
    /\ Goto(e, "insert")
    /\ UNCHANGED <<cpu, call, Targets, queued, Signaled, ran, EventList, IcrHigh, Irr, isr, disturbed>>

\* IpcGenerateEvent: one reference per target and one for the waiter.
IpcGenerateEvent(e) ==
    /\ SenderAt(e, "generate")
    /\ RefCnt' = [RefCnt EXCEPT ![e] = Cardinality(Targets[e]) + (IF call[e].wait THEN 1 ELSE 0)]
    /\ Goto(e, "insert")
    /\ UNCHANGED <<cpu, call, Targets, queued, Signaled, ran, EventList, IcrHigh, Irr, isr, disturbed>>

\* The loop over pMatchingCpus; each insertion is under EventListLock.
InsertEvent(e) ==
    /\ SenderAt(e, "insert")
    /\ \/ \E c \in Targets[e] \ queued[e] :
             /\ EventList' = [EventList EXCEPT ![c] = Append(@, e)]
             /\ queued' = [queued EXCEPT ![e] = @ \cup {c}]
             /\ UNCHANGED pc
       \/ /\ queued[e] = Targets[e]
          /\ Goto(e, "icrHigh")
          /\ UNCHANGED <<EventList, queued>>
    /\ UNCHANGED <<cpu, call, Targets, RefCnt, Signaled, ran, IcrHigh, Irr, isr, disturbed>>

\* LapicSendIpi writes IcrHigh, then IcrLow, of the CPU it executes on; the write
\* of IcrLow sends.  With a shorthand the destination in IcrHigh is ignored.
WriteIcrHigh(e) ==
    /\ SenderAt(e, "icrHigh")
    /\ IcrHigh' = [IcrHigh EXCEPT ![cpu[e]] = call[e].dest]
    /\ Goto(e, "icrLow")
    /\ UNCHANGED <<cpu, call, Targets, queued, RefCnt, Signaled, ran, EventList, Irr, isr, disturbed>>

WriteIcrLow(e) ==
    LET c == cpu[e]
        reached == MatchingCpus(call[e].mode, IcrHigh[c], c)
    IN  /\ SenderAt(e, "icrLow")
        /\ Irr' = [d \in Cpus |-> Irr[d] \/ d \in reached]
        /\ Goto(e, IF call[e].wait THEN "wait" ELSE "done")
        /\ cpu' = [cpu EXCEPT ![e] = None]
        /\ UNCHANGED <<call, Targets, queued, RefCnt, Signaled, ran, EventList, IcrHigh, isr, disturbed>>

\* IpcWaitForEventHandling: EvtWaitForSignal spins with interrupts enabled, on any
\* CPU, then the reference of the waiter is dropped.
EvtWaitForSignal(e) ==
    /\ pc[e] = "wait" /\ Signaled[e]
    /\ \E c \in Cpus : ThreadCode(c)
    /\ Signaled' = [Signaled EXCEPT ![e] = FALSE]
    /\ Goto(e, "handled")
    /\ UNCHANGED <<cpu, call, Targets, queued, RefCnt, ran, EventList, IcrHigh, Irr, isr, disturbed>>

DereferenceByWaiter(e) ==
    /\ pc[e] = "handled"
    /\ \E c \in Cpus : ThreadCode(c)
    /\ RefCnt' = [RefCnt EXCEPT ![e] = @ - 1]
    /\ Goto(e, "done")
    /\ UNCHANGED <<cpu, call, Targets, queued, Signaled, ran, EventList, IcrHigh, Irr, isr, disturbed>>

\* The scheduler resumes a preempted sender on another CPU.
Migrate(e, c) ==
    /\ Sending(e) /\ ThreadCode(cpu[e]) /\ ThreadCode(c) /\ c # cpu[e]
    /\ cpu' = [cpu EXCEPT ![e] = c]
    /\ disturbed' = disturbed \cup SendingOn(c) \cup {e}
    /\ UNCHANGED <<pc, call, Targets, queued, RefCnt, Signaled, ran, EventList, IcrHigh, Irr, isr>>

----------------------------------------------------------------------------
\* _SmpIpcIpiIsr

IsrGoto(c, l, e) == isr' = [isr EXCEPT ![c] = [at |-> l, event |-> e]]

AcceptInterrupt(c) ==
    /\ Irr[c] /\ ThreadCode(c)
    /\ Irr' = [Irr EXCEPT ![c] = FALSE]
    /\ IsrGoto(c, "enter", None)
    /\ UNCHANGED <<senderVars, RefCnt, Signaled, ran, EventList, IcrHigh, disturbed>>

\* One event per interrupt.  With an empty list ASSERT(NULL != pListEntry) stops
\* the system.
RemoveEvent(c) ==
    /\ isr[c].at = "enter"
    /\ EventList[c] # <<>>
    /\ EventList' = [EventList EXCEPT ![c] = Tail(@)]
    /\ IsrGoto(c, "function", Head(EventList[c]))
    /\ UNCHANGED <<senderVars, RefCnt, Signaled, ran, IcrHigh, Irr, disturbed>>

CallFunction(c) ==
    LET e == isr[c].event
    IN  /\ isr[c].at = "function"
        /\ ran' = [ran EXCEPT ![e] = @ \cup {c}]
        /\ IsrGoto(c, "dereference", e)
        /\ UNCHANGED <<senderVars, RefCnt, Signaled, EventList, IcrHigh, Irr, disturbed>>

\* Mutant: nobody signals because the waiter's reference is not counted.
SignalAtZero(c) ==
    LET e == isr[c].event
    IN  /\ isr[c].at = "dereference"
        /\ RefCnt' = [RefCnt EXCEPT ![e] = @ - 1]
        /\ IF call[e].wait /\ RefCnt[e] = 1
           THEN IsrGoto(c, "signal", e)
           ELSE isr' = [isr EXCEPT ![c] = NoIsr]
        /\ UNCHANGED <<senderVars, Signaled, ran, EventList, IcrHigh, Irr, disturbed>>

\* IpcProcessEvent after Function returned: SignalTermination is read before the
\* reference is dropped.
IpcDereference(c) ==
    LET e == isr[c].event
    IN  /\ isr[c].at = "dereference"
        /\ RefCnt' = [RefCnt EXCEPT ![e] = @ - 1]
        /\ IF call[e].wait /\ RefCnt[e] = 2
           THEN IsrGoto(c, "signal", e)
           ELSE isr' = [isr EXCEPT ![c] = NoIsr]
        /\ UNCHANGED <<senderVars, Signaled, ran, EventList, IcrHigh, Irr, disturbed>>

EvtSignal(c) ==
    /\ isr[c].at = "signal"
    /\ Signaled' = [Signaled EXCEPT ![isr[c].event] = TRUE]
    /\ isr' = [isr EXCEPT ![c] = NoIsr]
    /\ UNCHANGED <<senderVars, RefCnt, ran, EventList, IcrHigh, Irr, disturbed>>

----------------------------------------------------------------------------
SenderStep(e) ==
    \/ IpcGenerateEvent(e) \/ InsertEvent(e) \/ WriteIcrHigh(e) \/ WriteIcrLow(e)
    \/ EvtWaitForSignal(e) \/ DereferenceByWaiter(e)

IsrStep(c) ==
    AcceptInterrupt(c) \/ RemoveEvent(c) \/ CallFunction(c) \/ IpcDereference(c) \/ EvtSignal(c)

Next ==
    \/ \E e \in Events, c \in Cpus, dest \in Destinations, mode \in Modes, wait \in Waits :
           RetrieveMatchingCpus(e, c, mode, dest, wait)
    \/ \E e \in Events : SenderStep(e) \/ \E c \in Cpus : Migrate(e, c)
    \/ \E c \in Cpus : IsrStep(c)

Spec == Init /\ [][Next]_vars

\* A sender gets CPU time again and again, although interrupt handlers use its CPU
\* in between; a handler runs to its end; a pending interrupt is accepted in one of
\* the moments interrupts are enabled.
Fairness ==
    /\ \A e \in Events : SF_vars(SenderStep(e))
    /\ \A c \in Cpus : SF_vars(AcceptInterrupt(c)) /\ WF_vars(IsrStep(c))

FairSpec == Spec /\ Fairness

----------------------------------------------------------------------------
\* Properties

IsrPoints == {"none", "enter", "function", "dereference", "signal"}

TypeOK ==
    /\ pc \in [Events -> {"new", "generate", "insert", "icrHigh", "icrLow", "wait", "handled", "done"}]
    /\ cpu \in [Events -> Cpus \cup {None}]
    /\ call \in [Events -> [mode : AllModes, dest : SUBSET Cpus, wait : BOOLEAN]]
    /\ Targets \in [Events -> SUBSET Cpus]
    /\ queued \in [Events -> SUBSET Cpus]
    /\ RefCnt \in [Events -> Nat]
    /\ Signaled \in [Events -> BOOLEAN]
    /\ ran \in [Events -> SUBSET Cpus]
    /\ EventList \in [Cpus -> Seq(Events)]
    /\ IcrHigh \in [Cpus -> SUBSET Cpus]
    /\ Irr \in [Cpus -> BOOLEAN]
    /\ isr \in [Cpus -> [at : IsrPoints, event : Events \cup {None}]]
    /\ disturbed \subseteq Events

\* Whoever still uses an IPC_EVENT finds it allocated: a CPU that has it queued or
\* processes it, EvtSignal after the last reference of a CPU, the waiter.
InList(c, e) == \E i \in DOMAIN EventList[c] : EventList[c][i] = e
Uses(c, e) == InList(c, e) \/ isr[c].event = e

NoUseAfterFree == \A e \in Events :
    (\E c \in Cpus : Uses(c, e)) \/ pc[e] \in {"wait", "handled"} => RefCnt[e] > 0

\* smp.h, WaitForHandling: "if TRUE waits until each CPU executes the
\* BroadcastFunction".
HandledBeforeReturn == \A e \in Events :
    pc[e] \in {"handled", "done"} /\ call[e].wait => ran[e] = Targets[e]

\* ASSERT(NULL != pListEntry) in _SmpIpcIpiIsr: an interrupt that is pending or
\* has just been accepted finds an event, also when interrupts of several senders
\* are taken for each other.  A sender that is preempted by another one, or moved,
\* may interrupt CPUs it queued nothing for.
IsrFindsEvent == disturbed = {} => \A c \in Cpus :
    isr[c].at = "enter" \/ (Irr[c] /\ isr[c] = NoIsr) => EventList[c] # <<>>

\* The life of an IPC_EVENT: it is freed by its last user, the sender goes on when all
\* targets have run, and the handlers find what the interrupts stand for.
IpcInv == TypeOK /\ NoUseAfterFree /\ HandledBeforeReturn /\ IsrFindsEvent

\* An event is queued at CPU c and no interrupt is left to fetch it: one that was
\* sent while another was pending is lost.
Stranded(c) ==
    /\ EventList[c] # <<>> /\ ~Irr[c] /\ isr[c].at # "enter"
    /\ \A e \in Events : Sending(e) => c \notin Targets[e]

\* A call returns and its event is freed, unless the interrupts of two calls were
\* merged or a sender was disturbed.
CallsReturn == \A e \in Events :
    pc[e] = "insert" ~> \/ pc[e] = "done" /\ RefCnt[e] = 0
                       \/ disturbed # {}
                       \/ \E c \in Cpus : Stranded(c)

=============================================================================
