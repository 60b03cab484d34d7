----------------------------- MODULE NetworkRx ------------------------------
(***************************************************************************)
(* The receiving half of a network card (network_dispatch.c,               *)
(* network_miniport.c, eth_82574L_operations.c): the card stores frames in *)
(* the ring of descriptors, the interrupt handler copies them to a list,   *)
(* and IOCTL_NET_RECEIVE_FRAME takes them from there or waits, with the    *)
(* DeviceLock of the card held.  The call behind which it may wait is the  *)
(* change of the card's status; NetworkTx models the send.                 *)
(*                                                                         *)
(* A frame is the number of its place in the order the card stored the     *)
(* frames in; a frame that finds no free descriptor is dropped.            *)
(***************************************************************************)
EXTENDS Integers, Sequences, FiniteSets

CONSTANTS
    Clients, RxCpus,
    NumberOfRxDescriptors,
    MaxStored,          \* frames the card stores (a bound for TLC)
    MaxChanges          \* changes of the link and of the device status (a bound for TLC)

ASSUME NetworkRxAssumption ==
    /\ NumberOfRxDescriptors \in Nat /\ NumberOfRxDescriptors >= 2
    /\ MaxStored \in Nat /\ MaxChanges \in Nat

RxDescriptors == 0 .. NumberOfRxDescriptors - 1
NextRx(i) == (i + 1) % NumberOfRxDescriptors

VARIABLES
    RxDeviceLock,       \* the thread in NetPortDeviceControl and those that wait for DeviceLock
    client,             \* client[t]: where a caller is
    request,            \* request[t]: what it asks for
    RxFramesList,
    RxNotEmpty,         \* Signaled of FramesListNotEmptyEvent
    rxRing,             \* rxRing[i]: the frame of a done descriptor, or 0
    RxHead, RxTail,     \* the card's registers
    RxCurrent,          \* CurrentDescriptor
    cause,              \* the interrupt cause register
    rxIsr,              \* rxIsr[c]: where the interrupt handler is, its curRxIndex and its intReason
    linkReg, LinkUp,    \* the link in the device status register, and in MINIPORT_DEVICE
    enableReg,          \* the enable bits of the RX and TX control registers
    DeviceStatus,       \* RxEnabled and TxEnabled
    stored, changes,
    taken,              \* the frames that callers received
    competing,          \* two handlers were in EthReceiveFrame at once
    rxMissed            \* a caller was listed after the signal it waits for

rxVars == <<RxDeviceLock, client, request, RxFramesList, RxNotEmpty, rxRing, RxHead, RxTail, RxCurrent,
            cause, rxIsr, linkReg, LinkUp, enableReg, DeviceStatus, stored, changes, taken, competing,
            rxMissed>>
rxCardVars == <<rxRing, RxHead, RxTail, RxCurrent, cause, rxIsr, linkReg, LinkUp, stored, competing>>
rxStatusVars == <<enableReg, DeviceStatus, changes>>

RxIdle == [at |-> "idle", cur |-> 0, reason |-> {}]

RxInit ==
    /\ RxDeviceLock = <<>>
    /\ client = [t \in Clients |-> "idle"] /\ request = [t \in Clients |-> "none"]
    /\ RxFramesList = <<>> /\ RxNotEmpty = FALSE
    /\ rxRing = [i \in RxDescriptors |-> 0]
    /\ RxHead = 0 /\ RxTail = NumberOfRxDescriptors - 1 /\ RxCurrent = 0
    /\ cause = {}
    /\ rxIsr = [c \in RxCpus |-> RxIdle]
    /\ linkReg = TRUE /\ LinkUp = TRUE
    /\ enableReg = [rx |-> TRUE, tx |-> TRUE]
    /\ DeviceStatus = [RxEnabled |-> TRUE, TxEnabled |-> TRUE]
    /\ stored = 0 /\ changes = 0
    /\ taken = <<>>
    /\ competing = FALSE /\ rxMissed = FALSE

----------------------------------------------------------------------------
\* The calls, inside IoCallDriver's DeviceLock

ClientAt(t, l) == client[t] = l
ClientGoto(t, l) == client' = [client EXCEPT ![t] = l]
Owns(t) == RxDeviceLock # <<>> /\ Head(RxDeviceLock) = t

NetCall(t, r) ==
    /\ ClientAt(t, "idle")
    /\ r = "status" => changes < MaxChanges
    /\ changes' = IF r = "status" THEN changes + 1 ELSE changes
    /\ RxDeviceLock' = Append(RxDeviceLock, t)
    /\ request' = [request EXCEPT ![t] = r]
    /\ ClientGoto(t, "lock")
    /\ UNCHANGED <<RxFramesList, RxNotEmpty, taken, rxMissed, rxCardVars, enableReg, DeviceStatus>>

\* _NetDispatchReceiveFrame under FramesLock: a frame is removed, unless the buffer is
\* too small for it; on an empty list the event is cleared.
ReceiveLook(t, small) ==
    /\ \/ ClientAt(t, "lock") /\ Owns(t) /\ request[t] = "receive"
       \/ ClientAt(t, "look")
    /\ small => RxFramesList # <<>>
    /\ IF RxFramesList = <<>>
       THEN /\ RxNotEmpty' = FALSE
            /\ ClientGoto(t, "empty")
            /\ UNCHANGED <<RxFramesList, taken>>
       ELSE /\ IF small THEN UNCHANGED <<RxFramesList, taken>>
               ELSE /\ taken' = Append(taken, Head(RxFramesList))
                    /\ RxFramesList' = Tail(RxFramesList)
            /\ ClientGoto(t, "unlock")
            /\ UNCHANGED RxNotEmpty
    /\ UNCHANGED <<RxDeviceLock, request, rxMissed, rxCardVars, rxStatusVars>>

\* With no link, or with RX disabled, the call fails.
ReceiveEmpty(t) ==
    /\ ClientAt(t, "empty")
    /\ ClientGoto(t, IF LinkUp /\ DeviceStatus.RxEnabled THEN "wait" ELSE "unlock")
    /\ UNCHANGED <<RxDeviceLock, request, RxFramesList, RxNotEmpty, taken, rxMissed, rxCardVars,
                   rxStatusVars>>

\* ExEventWaitForSignal: test, then insertion without a second test.
ReceiveWait(t) ==
    /\ ClientAt(t, "wait")
    /\ ClientGoto(t, IF RxNotEmpty THEN "look" ELSE "insert")
    /\ UNCHANGED <<RxDeviceLock, request, RxFramesList, RxNotEmpty, taken, rxMissed, rxCardVars,
                   rxStatusVars>>

ReceiveInsert(t) ==
    /\ ClientAt(t, "insert")
    /\ ClientGoto(t, "blocked")
    /\ rxMissed' = (rxMissed \/ RxNotEmpty)
    /\ UNCHANGED <<RxDeviceLock, request, RxFramesList, RxNotEmpty, taken, rxCardVars, rxStatusVars>>

\* _NetDispatchChangeDeviceStatus and EthChangeDeviceStatus, which writes the new RX
\* status to the TX register too.
ChangeDeviceStatus(t, rx, tx) ==
    /\ ClientAt(t, "lock") /\ Owns(t) /\ request[t] = "status"
    /\ enableReg' = [rx |-> rx, tx |-> IF tx # DeviceStatus.TxEnabled THEN rx ELSE enableReg.tx]
    /\ DeviceStatus' = [RxEnabled |-> rx, TxEnabled |-> tx]
    /\ ClientGoto(t, "unlock")
    /\ UNCHANGED <<RxDeviceLock, request, RxFramesList, RxNotEmpty, taken, rxMissed, rxCardVars, changes>>

CallReturn(t) ==
    /\ ClientAt(t, "unlock")
    /\ RxDeviceLock' = Tail(RxDeviceLock)
    /\ request' = [request EXCEPT ![t] = "none"]
    /\ ClientGoto(t, "idle")
    /\ UNCHANGED <<RxFramesList, RxNotEmpty, taken, rxMissed, rxCardVars, rxStatusVars>>

ClientStep(t) ==
    \/ (\E small \in BOOLEAN : ReceiveLook(t, small)) \/ ReceiveEmpty(t) \/ ReceiveWait(t) \/ ReceiveInsert(t)
    \/ CallReturn(t)
    \/ \E rx, tx \in BOOLEAN : ChangeDeviceStatus(t, rx, tx)

----------------------------------------------------------------------------
\* The card

\* A frame is stored in the descriptor at the head; the last one is not used.
CardStores ==
    /\ stored < MaxStored
    /\ linkReg /\ enableReg.rx
    /\ RxHead # RxTail
    /\ stored' = stored + 1
    /\ rxRing' = [rxRing EXCEPT ![RxHead] = stored + 1]
    /\ RxHead' = NextRx(RxHead)
    /\ cause' = cause \cup {"received"}
    /\ UNCHANGED <<RxDeviceLock, client, request, RxFramesList, RxNotEmpty, RxTail, RxCurrent, rxIsr,
                   linkReg, LinkUp, rxStatusVars, taken, competing, rxMissed>>

LinkChanges ==
    /\ changes < MaxChanges
    /\ changes' = changes + 1
    /\ linkReg' = ~linkReg
    /\ cause' = cause \cup {"link"}
    /\ UNCHANGED <<RxDeviceLock, client, request, RxFramesList, RxNotEmpty, rxRing, RxHead, RxTail,
                   RxCurrent, rxIsr, LinkUp, enableReg, DeviceStatus, stored, taken, competing, rxMissed>>

----------------------------------------------------------------------------
\* EthHandleInterrupt, on any CPU that does not handle one

InReceive(c) == rxIsr[c].at \in {"loop", "failed", "signal", "next"}

\* The cause is read, and so cleared; EthReceiveFrame reads CurrentDescriptor.
RxInterrupt(c) ==
    /\ cause # {} /\ rxIsr[c] = RxIdle
    /\ cause' = {}
    /\ rxIsr' = [rxIsr EXCEPT ![c] = [at |-> IF "received" \in cause THEN "loop" ELSE "link",
                                      cur |-> RxCurrent, reason |-> cause]]
    /\ competing' = (competing \/ ("received" \in cause /\ \E o \in RxCpus : InReceive(o)))
    /\ UNCHANGED <<RxDeviceLock, client, request, RxFramesList, RxNotEmpty, rxRing, RxHead, RxTail,
                   RxCurrent, linkReg, LinkUp, rxStatusVars, stored, taken, rxMissed>>

\* NetworkPortNotifyReceiveBuffer copies the frame and lists it; the loop ends at the
\* first descriptor that is not done.
ReceiveFrame(c) ==
    LET frame == rxRing[rxIsr[c].cur] IN
    /\ rxIsr[c].at = "loop"
    /\ IF frame = 0
       THEN /\ RxCurrent' = rxIsr[c].cur
            /\ rxIsr' = [rxIsr EXCEPT ![c].at = "link"]
            /\ UNCHANGED RxFramesList
       ELSE /\ RxFramesList' = Append(RxFramesList, frame)
            /\ rxIsr' = [rxIsr EXCEPT ![c].at = IF RxFramesList = <<>> THEN "signal" ELSE "next"]
            /\ UNCHANGED RxCurrent
    /\ UNCHANGED <<RxDeviceLock, client, request, RxNotEmpty, rxRing, RxHead, RxTail, cause, linkReg,
                   LinkUp, rxStatusVars, stored, taken, competing, rxMissed>>

\* There is no memory for the copy: NetworkPortNotifyReceiveBuffer fails, and with it the
\* assertion of EthReceiveFrame.
AllocationFails(c) ==
    /\ rxIsr[c].at = "loop" /\ rxRing[rxIsr[c].cur] # 0
    /\ rxIsr' = [rxIsr EXCEPT ![c].at = "failed"]
    /\ UNCHANGED <<RxDeviceLock, client, request, RxFramesList, RxNotEmpty, rxRing, RxHead, RxTail, RxCurrent,
                   cause, linkReg, LinkUp, rxStatusVars, stored, taken, competing, rxMissed>>

\* Mutant: the event is not signalled for the callers that are listed.
NotifySignalsNobody(c) ==
    /\ rxIsr[c].at = "signal"
    /\ RxNotEmpty' = TRUE
    /\ rxIsr' = [rxIsr EXCEPT ![c].at = "next"]
    /\ UNCHANGED <<RxDeviceLock, client, request, RxFramesList, rxRing, RxHead, RxTail, RxCurrent, cause,
                   linkReg, LinkUp, rxStatusVars, stored, taken, competing, rxMissed>>

\* ExEventSignal wakes every listed caller.
NotifySignal(c) ==
    /\ rxIsr[c].at = "signal"
    /\ RxNotEmpty' = TRUE
    /\ client' = [t \in Clients |-> IF client[t] = "blocked" THEN "look" ELSE client[t]]
    /\ rxIsr' = [rxIsr EXCEPT ![c].at = "next"]
    /\ UNCHANGED <<RxDeviceLock, request, RxFramesList, rxRing, RxHead, RxTail, RxCurrent, cause, linkReg,
                   LinkUp, rxStatusVars, stored, taken, competing, rxMissed>>

\* Mutant: the descriptor is given back before it is marked as not done.
NextKeepsDone(c) ==
    /\ rxIsr[c].at = "next"
    /\ RxTail' = rxIsr[c].cur
    /\ rxIsr' = [rxIsr EXCEPT ![c] = [at |-> "loop", cur |-> NextRx(@.cur), reason |-> @.reason]]
    /\ UNCHANGED <<RxDeviceLock, client, request, RxFramesList, RxNotEmpty, rxRing, RxHead, RxCurrent,
                   cause, linkReg, LinkUp, rxStatusVars, stored, taken, competing, rxMissed>>

\* DescriptorDone is reset, the descriptor is given back to the card, and the index
\* advances.
NextDescriptor(c) ==
    /\ rxIsr[c].at = "next"
    /\ rxRing' = [rxRing EXCEPT ![rxIsr[c].cur] = 0]
    /\ RxTail' = rxIsr[c].cur
    /\ rxIsr' = [rxIsr EXCEPT ![c] = [at |-> "loop", cur |-> NextRx(@.cur), reason |-> @.reason]]
    /\ UNCHANGED <<RxDeviceLock, client, request, RxFramesList, RxNotEmpty, RxHead, RxCurrent, cause,
                   linkReg, LinkUp, rxStatusVars, stored, taken, competing, rxMissed>>

\* NetworkPortNotifyLinkStatusChange; the handler returns.
InterruptEnd(c) ==
    /\ rxIsr[c].at = "link"
    /\ LinkUp' = IF "link" \in rxIsr[c].reason THEN linkReg ELSE LinkUp
    /\ rxIsr' = [rxIsr EXCEPT ![c] = RxIdle]
    /\ UNCHANGED <<RxDeviceLock, client, request, RxFramesList, RxNotEmpty, rxRing, RxHead, RxTail,
                   RxCurrent, cause, linkReg, rxStatusVars, stored, taken, competing, rxMissed>>

RxIsrStep(c) ==
    \/ ReceiveFrame(c) \/ AllocationFails(c) \/ NotifySignal(c) \/ NextDescriptor(c) \/ InterruptEnd(c)

\* The assertion has stopped the system.
RxFailed == \E c \in RxCpus : rxIsr[c].at = "failed"

RxNext ==
    /\ ~RxFailed
    /\ \/ \E t \in Clients, r \in {"receive", "status"} : NetCall(t, r)
       \/ \E t \in Clients : ClientStep(t)
       \/ CardStores \/ LinkChanges
       \/ \E c \in RxCpus : RxInterrupt(c) \/ RxIsrStep(c)

RxSpec == RxInit /\ [][RxNext]_rxVars

\* A caller is scheduled or an interrupt is handled, as long as one of them can; nothing
\* is assumed of the network.
RxStep ==
    /\ ~RxFailed
    /\ \/ \E t \in Clients : ClientStep(t)
       \/ \E c \in RxCpus : RxInterrupt(c) \/ RxIsrStep(c)

RxFairness == WF_rxVars(RxStep)

RxFairSpec == RxSpec /\ RxFairness

----------------------------------------------------------------------------
\* Properties

RxTypeOK ==
    /\ {RxHead, RxTail, RxCurrent} \subseteq RxDescriptors
    /\ RxNotEmpty \in BOOLEAN /\ linkReg \in BOOLEAN /\ LinkUp \in BOOLEAN
    /\ cause \subseteq {"received", "link"}
    /\ \A c \in RxCpus : rxIsr[c].at \in {"idle", "loop", "failed", "signal", "next", "link"}
    /\ \A t \in Clients : client[t] \in {"idle", "lock", "look", "empty", "wait", "insert", "blocked", "unlock"}

\* Callers receive the frames the card stored, each once and in order, and a frame
\* that is not yet listed is still in the ring, unless two handlers competed.
ReceivedInOrder == ~competing =>
    LET listed == taken \o RxFramesList IN
    /\ \A i \in DOMAIN listed : listed[i] = i
    /\ \A f \in Len(listed) + 1 .. stored : \E i \in RxDescriptors : rxRing[i] = f

\* One call is in the port driver at a time.
OneCall == \A t \in Clients : client[t] \notin {"idle", "lock"} => Owns(t)

RxInv == RxTypeOK /\ OneCall /\ ReceivedInOrder

\* The caller that has the device waits for a frame, and there is none.
WaitsForFrame == \E t \in Clients :
    Owns(t) /\ client[t] \in {"lock", "look", "empty", "wait", "insert", "blocked"} /\ RxFramesList = <<>>

\* Every call returns, also the ones behind a receive, unless from some time on the
\* receive waits for a frame that does not come, its signal was missed, or a failed
\* allocation has stopped the system.
CallsAreServed == \A t \in Clients :
    \/ <>[]WaitsForFrame
    \/ client[t] # "idle" ~> (client[t] = "idle" \/ rxMissed \/ RxFailed)

=============================================================================
