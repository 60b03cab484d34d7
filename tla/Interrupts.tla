----------------------------- MODULE Interrupts -----------------------------
(***************************************************************************)
(* The interrupts of devices: iomu.c registers the handlers and walks      *)
(* their lists, isr.c enters and leaves them, ioapic_system.c keeps the    *)
(* redirection entries.                                                    *)
(*                                                                         *)
(* A driver registers its device once, under GlobalInterruptLock: it       *)
(* chooses a vector, inserts the handler in the vector's list under the    *)
(* lock of the list, and routes the interrupt.  Other CPUs take interrupts *)
(* in between.  A device raises interrupts when its driver was told that   *)
(* the registration succeeded.                                             *)
(*                                                                         *)
(* The pins of all I/O APICs are numbered through.  A legacy interrupt is  *)
(* edge triggered: an edge that finds its entry masked, or its line high   *)
(* because another device holds it, is lost.  A PCI interrupt is level     *)
(* triggered: it is delivered again until the device is served.            *)
(***************************************************************************)
EXTENDS Bitmap, Sequences

CONSTANTS
    Devices,
    BootOrder,          \* the devices of the system itself, as SystemInit registers them
    IoInterrupt,        \* the IO_INTERRUPT of a device
    ApicCpus,
    Pins,               \* MaximumRedirectionEntry + 1 of them
    Overrides,          \* InterruptOverrides, from the MADT
    PrtCounts,          \* numbers of entries a PRT may have
    NO_OF_RESERVED_EXCEPTIONS,
    VECTORS_PER_IRQL,
    NO_OF_TOTAL_INTERRUPTS,
    MaxRaises           \* bound on the interrupts of a behaviour

\* A handler claims every interrupt ("always": keyboard, clock), those of its
\* device ("own"), or none ("never": the spurious and error interrupts of a LAPIC).
ASSUME InterruptAssumption ==
    /\ \A d \in Devices :
           /\ IoInterrupt[d].type \in {"legacy", "pci", "msi", "lapic"}
           /\ IoInterrupt[d].irq \in Nat /\ IoInterrupt[d].irql \in Nat
           /\ IoInterrupt[d].exclusive \in BOOLEAN
           /\ IoInterrupt[d].claims \in {"always", "own", "never"}
           /\ IoInterrupt[d].irql * VECTORS_PER_IRQL > NO_OF_RESERVED_EXCEPTIONS
           /\ (IoInterrupt[d].irql + 1) * VECTORS_PER_IRQL <= NO_OF_TOTAL_INTERRUPTS
    /\ NO_OF_RESERVED_EXCEPTIONS \in Nat /\ VECTORS_PER_IRQL \in Nat
    /\ NO_OF_TOTAL_INTERRUPTS \in Nat /\ NO_OF_RESERVED_EXCEPTIONS < NO_OF_TOTAL_INTERRUPTS
    /\ NO_OF_TOTAL_INTERRUPTS < MAX_DWORD
    /\ Pins \subseteq Nat /\ PrtCounts \subseteq Nat
    /\ Overrides \in Seq([source : Nat, destination : Nat]) /\ Overrides # <<>>
    /\ BootOrder \in Seq(Devices)

Vectors == 0 .. NO_OF_TOTAL_INTERRUPTS - 1

VARIABLES
    InterruptBitmap,        \* vectors in use
    RegisteredInterrupts,   \* the devices listed for each vector
    m_isrRoutines,          \* vectors with _IomuGenericInterrupt installed
    redirection,            \* pin -> vector, for InterruptsWritten
    MaskInterrupts,
    NoOfInterruptOverrides,
    NoOfPrtEntries,
    msi,                    \* device -> vector programmed in it, or written in the LAPIC
    registration,           \* where each device's registration is
    registering,            \* the call that holds GlobalInterruptLock
    pending,                \* devices that wait to be served
    raises,                 \* how many there were
    requests,               \* edges and messages a LAPIC has not delivered
    serving,                \* what each CPU serves; index 0 if nothing
    unhandled               \* vectors of interrupts nobody claimed: the system halts

tableVars == <<InterruptBitmap, RegisteredInterrupts, m_isrRoutines, redirection, msi,
               registration, registering>>
apicVars == <<MaskInterrupts, NoOfInterruptOverrides, NoOfPrtEntries>>
deliveryVars == <<pending, raises, requests, serving, unhandled>>
interruptVars == <<tableVars, apicVars, deliveryVars>>

IRQL_TO_VECTOR(irql) == irql * VECTORS_PER_IRQL
VECTOR_TO_IRQL(vector) == vector \div VECTORS_PER_IRQL

\* The I/O APIC is used.
IsIoApicInterrupt(d) == IoInterrupt[d].type \in {"legacy", "pci"}

\* The pin a device is wired to, as the overrides say.
OverrideOf(irq, count) ==
    LET found == {i \in 1 .. count : Overrides[i].source = irq}
    IN IF found = {} THEN irq ELSE Overrides[CHOOSE i \in found : \A j \in found : j <= i].destination
Wire(d) == OverrideOf(IoInterrupt[d].irq, Len(Overrides))

\* _IoApicSystemGetIoApicForIrq and _IoApicReturnInterruptOverrideForIrq: the pins they
\* may find.  Behind the end of InterruptOverrides there is anything.
PinsForIrq(irq) ==
    IF NoOfInterruptOverrides <= Len(Overrides)
    THEN {OverrideOf(irq, NoOfInterruptOverrides)}
    ELSE {OverrideOf(irq, Len(Overrides))} \cup Pins

ServesNothing == [vector |-> 0, index |-> 0, pin |-> -1]

\* IomuPreinitSystem and IoApicSystemInit
InterruptsInit ==
    /\ InterruptBitmap = ChangeBits(BitmapInit(NO_OF_TOTAL_INTERRUPTS, FALSE), 0, TRUE, NO_OF_RESERVED_EXCEPTIONS)
    /\ RegisteredInterrupts = [v \in Vectors |-> <<>>]
    /\ m_isrRoutines = {}
    /\ redirection = <<>>
    /\ MaskInterrupts = TRUE
    /\ NoOfInterruptOverrides = Len(Overrides)
    /\ NoOfPrtEntries \in PrtCounts
    /\ msi = <<>>
    /\ registration = [d \in Devices |-> "none"]
    /\ registering = {}
    /\ pending = {} /\ raises = 0 /\ requests = {}
    /\ serving = [c \in ApicCpus |-> ServesNothing]
    /\ unhandled = {}

----------------------------------------------------------------------------
(* Registration: IomuRegisterInterrupt                                     *)

Fails(d) == /\ registration' = [registration EXCEPT ![d] = "failed"]
            /\ registering' = {}

Goes(d, vector, routed) ==
    /\ registration' = [registration EXCEPT ![d] = "insert"]
    /\ registering' = {[device |-> d, vector |-> vector, routed |-> routed]}

\* IoApicSystemGetVectorForIrq finds an entry that was written.
HasVector(pin) == pin \in DOMAIN redirection

\* The vector of the pin is shared.
ShareVector(d, vector) ==
    /\ IF VECTOR_TO_IRQL(vector) # IoInterrupt[d].irql \/ IoInterrupt[d].exclusive
       THEN Fails(d) ELSE Goes(d, vector, TRUE)
    /\ UNCHANGED InterruptBitmap

\* A vector of the IRQL that is free, or the first of them.
NewVector(d) ==
    LET first == IRQL_TO_VECTOR(IoInterrupt[d].irql)
        found == ScanFromTo(InterruptBitmap, first, first + VECTORS_PER_IRQL, 1, FALSE)
    IN /\ InterruptBitmap' = Flip(InterruptBitmap, found, 1, FALSE)
       /\ CASE found # MAX_DWORD -> Goes(d, found, FALSE)
            [] found = MAX_DWORD /\ IoInterrupt[d].exclusive -> Fails(d)
            [] OTHER -> Goes(d, first, FALSE)

\* LapicSystemInit, SmpInit and IomuInitSystem register one after the other and stop
\* the system when one fails; IomuLateInit starts the drivers when all is unmasked.
BootIndices == 1 .. Len(BootOrder)
MayRegister(d) ==
    /\ registration[d] = "none" /\ registering = {}
    /\ IF \E i \in BootIndices : BootOrder[i] = d
       THEN \A i, j \in BootIndices : BootOrder[i] = d /\ j < i => registration[BootOrder[j]] = "done"
       ELSE ~MaskInterrupts

ChooseVector(d) ==
    /\ MayRegister(d)
    /\ IF ~IsIoApicInterrupt(d)
       THEN NewVector(d)
       ELSE \E pin \in PinsForIrq(IoInterrupt[d].irq) :
                CASE pin \notin Pins -> Fails(d) /\ UNCHANGED InterruptBitmap
                  [] HasVector(pin) -> ShareVector(d, redirection[pin])
                  [] OTHER -> NewVector(d)
    /\ UNCHANGED <<RegisteredInterrupts, m_isrRoutines, redirection, msi, apicVars, deliveryVars>>

\* IsrInstallEx refuses a vector that has a routine.
IsrInstallEx(vector) == vector \notin m_isrRoutines

\* Mutant: an entry is routed although the list had a handler.
InsertRoutesTwice(d) ==
    \E r \in registering :
        LET empty == RegisteredInterrupts[r.vector] = <<>>
            installs == empty /\ IsrInstallEx(r.vector)
        IN /\ r.device = d /\ registration[d] = "insert"
           /\ \A c \in ApicCpus : serving[c].index = 0 \/ serving[c].vector # r.vector
           /\ m_isrRoutines' = IF installs THEN m_isrRoutines \cup {r.vector} ELSE m_isrRoutines
           /\ \/ Fails(d) /\ UNCHANGED RegisteredInterrupts
              \/ /\ ~empty \/ installs
                 /\ RegisteredInterrupts' = [RegisteredInterrupts EXCEPT ![r.vector] = Append(@, d)]
                 /\ registration' = [registration EXCEPT ![d] = "route"]
                 /\ registering' = {r}
           /\ UNCHANGED <<InterruptBitmap, redirection, msi, apicVars, deliveryVars>>

\* The section under the lock of the vector's list, which is free of readers; the entry
\* may not be allocated.
InsertEntry(d) ==
    \E r \in registering :
        LET empty == RegisteredInterrupts[r.vector] = <<>>
            installs == empty /\ IsrInstallEx(r.vector)
        IN /\ r.device = d /\ registration[d] = "insert"
           /\ \A c \in ApicCpus : serving[c].index = 0 \/ serving[c].vector # r.vector
           /\ m_isrRoutines' = IF installs THEN m_isrRoutines \cup {r.vector} ELSE m_isrRoutines
           /\ \/ Fails(d) /\ UNCHANGED RegisteredInterrupts
              \/ /\ ~empty \/ installs
                 /\ RegisteredInterrupts' = [RegisteredInterrupts EXCEPT ![r.vector] = Append(@, d)]
                 /\ registration' = [registration EXCEPT ![d] = "route"]
                 /\ registering' = {[r EXCEPT !.routed = @ \/ ~empty]}
           /\ UNCHANGED <<InterruptBitmap, redirection, msi, apicVars, deliveryVars>>

Succeeds(d) == /\ registration' = [registration EXCEPT ![d] = "done"]
               /\ registering' = {}

\* _IomuProgramPciInterrupt for a message; for a LAPIC the caller gets the vector.
RouteMessage(d, vector) ==
    \/ /\ Succeeds(d)
       /\ msi' = [x \in DOMAIN msi \cup {d} |-> IF x = d THEN vector ELSE msi[x]]
    \/ /\ IoInterrupt[d].type = "msi" /\ Fails(d)
       /\ UNCHANGED msi

\* IoApicSystemSetInterrupt, without Overwrite
IoApicSystemSetInterrupt(d, vector) ==
    \E pin \in PinsForIrq(IoInterrupt[d].irq) :
        IF pin \notin Pins \/ pin \in DOMAIN redirection
        THEN Fails(d) /\ UNCHANGED redirection
        ELSE /\ redirection' = [p \in DOMAIN redirection \cup {pin} |->
                                    IF p = pin THEN vector ELSE redirection[p]]
             /\ Succeeds(d)

Route(d) ==
    \E r \in registering :
        /\ r.device = d /\ registration[d] = "route"
        /\ CASE ~IsIoApicInterrupt(d) -> RouteMessage(d, r.vector) /\ UNCHANGED redirection
             [] IsIoApicInterrupt(d) /\ ~r.routed -> IoApicSystemSetInterrupt(d, r.vector) /\ UNCHANGED msi
             [] OTHER -> Succeeds(d) /\ UNCHANGED <<redirection, msi>>
        /\ UNCHANGED <<InterruptBitmap, RegisteredInterrupts, m_isrRoutines, apicVars, deliveryVars>>

\* _IoApicSystemRetrievePrtEntries counts in the field of another table.
RetrievePrtEntries == NoOfInterruptOverrides' = NoOfPrtEntries

\* IoApicSystemEnableRegisteredInterrupts: what was written and will be is unmasked.
EnableRegisteredInterrupts == MaskInterrupts' = FALSE

\* IomuInitSystemAfterApWakeup, once and with nobody else running
LateInit ==
    /\ MaskInterrupts
    /\ \A i \in BootIndices : registration[BootOrder[i]] = "done"
    /\ RetrievePrtEntries
    /\ EnableRegisteredInterrupts
    /\ UNCHANGED <<NoOfPrtEntries, tableVars, deliveryVars>>

----------------------------------------------------------------------------
(* Delivery                                                                *)

\* The entry is written and not masked.
Routed(pin) == pin \in DOMAIN redirection /\ ~MaskInterrupts

\* Devices that hold the line of a pin.
Asserting(pin) == {d \in pending : IsIoApicInterrupt(d) /\ Wire(d) = pin}

\* A device raises its interrupt.
Raise(d) ==
    /\ registration[d] = "done" /\ d \notin pending
    /\ raises < MaxRaises /\ raises' = raises + 1
    /\ pending' = pending \cup {d}
    /\ requests' = CASE IoInterrupt[d].type = "legacy" /\ Routed(Wire(d)) /\ Asserting(Wire(d)) = {} ->
                            requests \cup {[pin |-> Wire(d), vector |-> redirection[Wire(d)]]}
                     [] d \in DOMAIN msi -> requests \cup {[pin |-> -1, vector |-> msi[d]]}
                     [] OTHER -> requests
    /\ UNCHANGED <<tableVars, apicVars, serving, unhandled>>

\* A level that is high is requested again when its last request was acknowledged.
Levels == {[pin |-> p, vector |-> redirection[p]] :
               p \in {q \in Pins : /\ Routed(q)
                                   /\ \E d \in Asserting(q) : IoInterrupt[d].type = "pci"
                                   /\ \A c \in ApicCpus : serving[c].index = 0 \/ serving[c].pin # q}}

\* IsrCommonHandler is entered on a CPU that takes interrupts.
TakeInterrupt(c) ==
    /\ serving[c].index = 0
    /\ \E r \in requests \cup Levels :
           /\ serving' = [serving EXCEPT ![c] = [vector |-> r.vector, index |-> 1, pin |-> r.pin]]
           /\ requests' = requests \ {r}
    /\ UNCHANGED <<tableVars, apicVars, pending, raises, unhandled>>

Claims(d) == \/ IoInterrupt[d].claims = "always"
             \/ IoInterrupt[d].claims = "own" /\ d \in pending

\* The entry behind the one that is called.
Advanced(s) == [s EXCEPT !.index = @ + 1]

\* Mutant: the walk goes on behind the handler that claimed the interrupt.
CallAll(c) ==
    LET list == RegisteredInterrupts[serving[c].vector]
        d == list[serving[c].index]
        last == serving[c].index = Len(list)
    IN /\ serving[c].index \in 1 .. Len(list)
       /\ pending' = IF Claims(d) THEN pending \ {d} ELSE pending
       /\ serving' = [serving EXCEPT ![c] = IF last /\ Claims(d) THEN ServesNothing ELSE Advanced(serving[c])]
       /\ UNCHANGED <<tableVars, apicVars, raises, requests, unhandled>>

\* _IomuGenericInterrupt calls one handler of the list; the interrupt is over, and
\* _IsrInterruptHandler acknowledges it, when one claims it.
CallHandler(c) ==
    LET list == RegisteredInterrupts[serving[c].vector]
        d == list[serving[c].index]
    IN /\ serving[c].index \in 1 .. Len(list)
       /\ pending' = IF Claims(d) THEN pending \ {d} ELSE pending
       /\ serving' = [serving EXCEPT ![c] = IF Claims(d) THEN ServesNothing ELSE Advanced(serving[c])]
       /\ UNCHANGED <<tableVars, apicVars, raises, requests, unhandled>>

\* The assertion of _IsrInterruptHandler fails.
Unhandled(c) ==
    /\ serving[c].index > Len(RegisteredInterrupts[serving[c].vector])
    /\ unhandled' = unhandled \cup {serving[c].vector}
    /\ UNCHANGED <<tableVars, apicVars, pending, raises, requests, serving>>

InterruptsNext ==
    /\ unhandled = {}
    /\ \/ LateInit
       \/ \E d \in Devices : ChooseVector(d) \/ InsertEntry(d) \/ Route(d) \/ Raise(d)
       \/ \E c \in ApicCpus : TakeInterrupt(c) \/ CallHandler(c) \/ Unhandled(c)

InterruptsSpec == InterruptsInit /\ [][InterruptsNext]_interruptVars

----------------------------------------------------------------------------
(* Properties                                                              *)

InterruptsTypeOK ==
    /\ InterruptBitmap \in [Vectors -> BOOLEAN]
    /\ \A v \in Vectors : \A i \in 1 .. Len(RegisteredInterrupts[v]) : RegisteredInterrupts[v][i] \in Devices
    /\ m_isrRoutines \subseteq Vectors
    /\ DOMAIN redirection \subseteq Pins /\ DOMAIN msi \subseteq Devices
    /\ registration \in [Devices -> {"none", "insert", "route", "done", "failed"}]
    /\ pending \subseteq Devices

Listed(d, vector) == \E i \in 1 .. Len(RegisteredInterrupts[vector]) : RegisteredInterrupts[vector][i] = d

\* The vectors of an IRQL have run out and a further I/O APIC interrupt was given the
\* first of them: no pin is routed to it for this
\* device, because bSetupIoApicRedirEntry needs an empty list.
Stranded(d) == /\ IsIoApicInterrupt(d)
               /\ Listed(d, IRQL_TO_VECTOR(IoInterrupt[d].irql))
               /\ \A v \in IRQL_TO_VECTOR(IoInterrupt[d].irql) .. IRQL_TO_VECTOR(IoInterrupt[d].irql) + VECTORS_PER_IRQL - 1 :
                      InterruptBitmap[v]

\* The number of overrides was overwritten by that of another table (_IoApicSystemRetrievePrtEntries).
OverridesLost == NoOfInterruptOverrides # Len(Overrides)

\* A driver that was told that its interrupt is registered finds it delivered to its
\* handler, at the priority it asked for.
RegisteredIsDelivered ==
    \A d \in Devices :
        registration[d] = "done" =>
            \/ d \in DOMAIN msi /\ Listed(d, msi[d]) /\ VECTOR_TO_IRQL(msi[d]) = IoInterrupt[d].irql
            \/ /\ Wire(d) \in DOMAIN redirection
               /\ Listed(d, redirection[Wire(d)])
               /\ VECTOR_TO_IRQL(redirection[Wire(d)]) = IoInterrupt[d].irql
            \/ IsIoApicInterrupt(d) /\ (Stranded(d) \/ OverridesLost)

\* Two pins have different vectors, what is listed is installed, and what is installed is
\* marked: a vector is never given out again while a handler or a pin uses it.
VectorsAreOwned ==
    /\ \A p, q \in DOMAIN redirection : redirection[p] = redirection[q] => p = q
    /\ \A v \in Vectors : RegisteredInterrupts[v] # <<>> => v \in m_isrRoutines
    /\ \A v \in m_isrRoutines : InterruptBitmap[v]

\* A handler that asked for a vector of its own is the first of its list, as the
\* comment in IomuRegisterInterrupt says.
ExclusiveIsFirst ==
    \A v \in Vectors : \A i \in 2 .. Len(RegisteredInterrupts[v]) :
        ~IoInterrupt[RegisteredInterrupts[v][i]].exclusive

\* The assertion of _IsrInterruptHandler fails for no device: a handler claims each
\* interrupt, except those of a LAPIC.
ClaimedByOne ==
    \A v \in unhandled : \/ \E d \in Devices : Listed(d, v) /\ IoInterrupt[d].claims = "never"
                         \/ OverridesLost

\* Interrupts are registered and shared consistently.
InterruptInv ==
    InterruptsTypeOK /\ RegisteredIsDelivered /\ VectorsAreOwned /\ ExclusiveIsFirst
=============================================================================
