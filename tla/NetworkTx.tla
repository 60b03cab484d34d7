----------------------------- MODULE NetworkTx ------------------------------
(***************************************************************************)
(* The sending half of a network card (network_dispatch.c,                 *)
(* network_miniport.c, eth_82574L_operations.c): IOCTL_NET_SEND_FRAME puts *)
(* frames in a list, the port's transmit thread copies them one by one     *)
(* into the ring of descriptors, the card sends them and reports it with   *)
(* an interrupt.                                                           *)
(*                                                                         *)
(* Two notification events connect the parts.  FramesListNotEmptyEvent is  *)
(* cleared by the transmit thread when it finds the list empty.            *)
(* DescriptorsAvailable is cleared when the ring becomes full and set by   *)
(* the interrupt.  A frame is the number of its place in the order the     *)
(* frames were accepted in.  A send is refused when the link is down, TX   *)
(* is disabled, the frame is too large or memory is short.                 *)
(***************************************************************************)
EXTENDS Integers, Sequences

CONSTANTS
    Senders, TxCpus,
    NumberOfTxDescriptors,
    MaxSends            \* frames that are accepted (a bound for TLC)

ASSUME NetworkTxAssumption ==
    /\ NumberOfTxDescriptors \in Nat /\ NumberOfTxDescriptors >= 2
    /\ MaxSends \in Nat

Descriptors == 0 .. NumberOfTxDescriptors - 1
NextIndex(i) == (i + 1) % NumberOfTxDescriptors

VARIABLES
    TxDeviceLock,       \* the thread in NetPortDeviceControl and those that wait for DeviceLock
    sender,             \* sender[s]: where a sender is
    FramesList,
    FramesListNotEmpty, \* Signaled of FramesListNotEmptyEvent
    worker,             \* where the transmit thread is
    descriptorEntry,    \* the frame it has taken from the list, or 0
    CurrentDescriptor,  \* CurrentTxIndex of the port and CurrentDescriptor of the card
    ring,               \* ring[i]: the frame in buffer i and DescriptorDone
    TxHead, TxTail,     \* the card's registers
    DescriptorsAvailable,
    txCause,            \* TdWrittenBack in the interrupt cause register
    txIsr,              \* txIsr[c]: the CPU is about to report free descriptors
    wire,               \* the frames that were sent
    accepted,           \* the number of frames that were accepted
    overrun,            \* a descriptor was filled although the ring was full
    txMissed,           \* the transmit thread was listed after the signal it waits for
    txHalted            \* an ASSERT has stopped the system

txVars == <<TxDeviceLock, sender, FramesList, FramesListNotEmpty, worker, descriptorEntry,
            CurrentDescriptor, ring, TxHead, TxTail, DescriptorsAvailable, txCause, txIsr, wire,
            accepted, overrun, txMissed, txHalted>>

portVars == <<TxDeviceLock, sender, FramesList, FramesListNotEmpty, accepted>>
cardVars == <<CurrentDescriptor, ring, TxHead, TxTail, txCause, wire>>

TxInit ==
    /\ TxDeviceLock = <<>>
    /\ sender = [s \in Senders |-> "idle"]
    /\ FramesList = <<>> /\ FramesListNotEmpty = FALSE
    /\ worker = "wait" /\ descriptorEntry = 0
    /\ CurrentDescriptor = 0
    /\ ring = [i \in Descriptors |-> [frame |-> 0, done |-> TRUE]]
    /\ TxHead = 0 /\ TxTail = 0
    /\ DescriptorsAvailable = TRUE
    /\ txCause = FALSE
    /\ txIsr = [c \in TxCpus |-> FALSE]
    /\ wire = <<>> /\ accepted = 0
    /\ overrun = FALSE /\ txMissed = FALSE /\ txHalted = FALSE

----------------------------------------------------------------------------
\* _NetDispatchSendFrame, inside IoCallDriver's DeviceLock

SenderAt(s, l) == sender[s] = l /\ ~txHalted
SenderGoto(s, l) == sender' = [sender EXCEPT ![s] = l]

NetSendFrame(s) ==
    /\ SenderAt(s, "idle")
    /\ accepted < MaxSends
    /\ TxDeviceLock' = Append(TxDeviceLock, s)
    /\ SenderGoto(s, "lock")
    /\ UNCHANGED <<FramesList, FramesListNotEmpty, accepted, cardVars, worker, descriptorEntry,
                   DescriptorsAvailable, txIsr, overrun, txMissed, txHalted>>

SendRefused(s) ==
    /\ SenderAt(s, "lock") /\ Head(TxDeviceLock) = s
    /\ SenderGoto(s, "unlock")
    /\ UNCHANGED <<TxDeviceLock, FramesList, FramesListNotEmpty, accepted, cardVars, worker,
                   descriptorEntry, DescriptorsAvailable, txIsr, overrun, txMissed, txHalted>>

\* Mutant: InsertHeadList.
SendInsertAtHead(s) ==
    /\ SenderAt(s, "lock") /\ Head(TxDeviceLock) = s
    /\ accepted < MaxSends
    /\ accepted' = accepted + 1
    /\ FramesList' = <<accepted + 1>> \o FramesList
    /\ SenderGoto(s, IF FramesList = <<>> THEN "signal" ELSE "unlock")
    /\ UNCHANGED <<TxDeviceLock, FramesListNotEmpty, cardVars, worker, descriptorEntry,
                   DescriptorsAvailable, txIsr, overrun, txMissed, txHalted>>

\* InsertTailList under FramesLock; the event is signalled if the list was empty.
SendInsert(s) ==
    /\ SenderAt(s, "lock") /\ Head(TxDeviceLock) = s
    /\ accepted < MaxSends
    /\ accepted' = accepted + 1
    /\ FramesList' = Append(FramesList, accepted + 1)
    /\ SenderGoto(s, IF FramesList = <<>> THEN "signal" ELSE "unlock")
    /\ UNCHANGED <<TxDeviceLock, FramesListNotEmpty, cardVars, worker, descriptorEntry,
                   DescriptorsAvailable, txIsr, overrun, txMissed, txHalted>>

\* ExEventSignal(FramesListNotEmptyEvent): a listed worker goes on.
SendSignal(s) ==
    /\ SenderAt(s, "signal")
    /\ FramesListNotEmpty' = TRUE
    /\ worker' = IF worker = "blocked" THEN "remove" ELSE worker
    /\ SenderGoto(s, "unlock")
    /\ UNCHANGED <<TxDeviceLock, FramesList, accepted, cardVars, descriptorEntry,
                   DescriptorsAvailable, txIsr, overrun, txMissed, txHalted>>

SendReturn(s) ==
    /\ SenderAt(s, "unlock")
    /\ TxDeviceLock' = Tail(TxDeviceLock)
    /\ SenderGoto(s, "idle")
    /\ UNCHANGED <<FramesList, FramesListNotEmpty, accepted, cardVars, worker, descriptorEntry,
                   DescriptorsAvailable, txIsr, overrun, txMissed, txHalted>>

SenderStep(s) == SendRefused(s) \/ SendInsert(s) \/ SendSignal(s) \/ SendReturn(s)

----------------------------------------------------------------------------
\* NetPortTransmitFunction, the transmit thread

WorkerAt(l) == worker = l /\ ~txHalted

\* ExEventWaitForSignal: test, then insertion without a second test.
WorkerWait ==
    /\ WorkerAt("wait")
    /\ worker' = IF FramesListNotEmpty THEN "remove" ELSE "insert"
    /\ UNCHANGED <<portVars, cardVars, descriptorEntry, DescriptorsAvailable, txIsr, overrun,
                   txMissed, txHalted>>

WorkerInsert ==
    /\ WorkerAt("insert")
    /\ worker' = "blocked"
    /\ txMissed' = (txMissed \/ FramesListNotEmpty)
    /\ UNCHANGED <<portVars, cardVars, descriptorEntry, DescriptorsAvailable, txIsr, overrun, txHalted>>

\* RemoveHeadList under FramesLock; the event is cleared when the list is empty.
WorkerRemove ==
    /\ WorkerAt("remove")
    /\ IF FramesList = <<>>
       THEN /\ FramesListNotEmpty' = FALSE
            /\ worker' = "wait"
            /\ UNCHANGED <<FramesList, descriptorEntry>>
       ELSE /\ descriptorEntry' = Head(FramesList)
            /\ FramesList' = Tail(FramesList)
            /\ worker' = "available"
            /\ UNCHANGED FramesListNotEmpty
    /\ UNCHANGED <<TxDeviceLock, sender, accepted, cardVars, DescriptorsAvailable, txIsr, overrun,
                   txMissed, txHalted>>

RingIsFull == NextIndex(CurrentDescriptor) = TxHead

\* The wait for DescriptorsAvailable
WorkerAvailable ==
    /\ WorkerAt("available")
    /\ worker' = IF DescriptorsAvailable THEN "post" ELSE "available insert"
    /\ overrun' = (overrun \/ (DescriptorsAvailable /\ RingIsFull))
    /\ UNCHANGED <<portVars, cardVars, descriptorEntry, DescriptorsAvailable, txIsr, txMissed, txHalted>>

WorkerAvailableInsert ==
    /\ WorkerAt("available insert")
    /\ worker' = "available blocked"
    /\ txMissed' = (txMissed \/ DescriptorsAvailable)
    /\ UNCHANGED <<portVars, cardVars, descriptorEntry, DescriptorsAvailable, txIsr, overrun, txHalted>>

\* The copy into the buffer and EthSendFrame up to _EthSignalTxQueueFullIfNecessary: the
\* descriptor has to be done.
EthSendFrame ==
    /\ WorkerAt("post")
    /\ IF ~ring[CurrentDescriptor].done
       THEN txHalted' = TRUE /\ UNCHANGED <<ring, CurrentDescriptor, descriptorEntry, worker>>
       ELSE /\ ring' = [ring EXCEPT ![CurrentDescriptor] = [frame |-> descriptorEntry, done |-> FALSE]]
            /\ CurrentDescriptor' = NextIndex(CurrentDescriptor)
            /\ descriptorEntry' = 0
            /\ worker' = "full"
            /\ UNCHANGED txHalted
    /\ UNCHANGED <<portVars, TxHead, TxTail, txCause, wire, DescriptorsAvailable, txIsr, overrun, txMissed>>

\* Mutant: the descriptor is given to the card first, and TxHead is read once.
QueueFullAfterTail ==
    \/ /\ WorkerAt("full")
       /\ TxTail' = CurrentDescriptor
       /\ worker' = IF RingIsFull THEN "full locked" ELSE "wait"
       /\ UNCHANGED <<portVars, CurrentDescriptor, ring, TxHead, txCause, wire, descriptorEntry,
                      DescriptorsAvailable, txIsr, overrun, txMissed, txHalted>>
    \/ /\ WorkerAt("full locked")
       /\ DescriptorsAvailable' = FALSE
       /\ worker' = "wait"
       /\ UNCHANGED <<portVars, cardVars, descriptorEntry, txIsr, overrun, txMissed, txHalted>>

\* _EthSignalTxQueueFullIfNecessary: TxHead is read without TxInterruptLock, and again
\* with it.
SignalTxQueueFullIfNecessary ==
    \/ /\ WorkerAt("full")
       /\ worker' = IF RingIsFull THEN "full locked" ELSE "tail"
       /\ UNCHANGED <<portVars, cardVars, descriptorEntry, DescriptorsAvailable, txIsr, overrun,
                      txMissed, txHalted>>
    \/ /\ WorkerAt("full locked")
       /\ DescriptorsAvailable' = (DescriptorsAvailable /\ ~RingIsFull)
       /\ worker' = "tail"
       /\ UNCHANGED <<portVars, cardVars, descriptorEntry, txIsr, overrun, txMissed, txHalted>>

\* EthSetTxTail gives the descriptor to the card; NetworkPortFreeFrameDescriptor.
EthSetTxTail ==
    /\ WorkerAt("tail")
    /\ TxTail' = CurrentDescriptor
    /\ worker' = "wait"
    /\ UNCHANGED <<portVars, CurrentDescriptor, ring, TxHead, txCause, wire, descriptorEntry,
                   DescriptorsAvailable, txIsr, overrun, txMissed, txHalted>>

TransmitStep ==
    \/ WorkerWait \/ WorkerInsert \/ WorkerRemove \/ WorkerAvailable \/ WorkerAvailableInsert
    \/ EthSendFrame \/ SignalTxQueueFullIfNecessary \/ EthSetTxTail

----------------------------------------------------------------------------
\* The card sends what is between head and tail and writes the descriptor back; the
\* interrupt for it is delayed by the interrupt delay registers.
CardSends ==
    /\ ~txHalted
    /\ TxHead # TxTail
    /\ wire' = Append(wire, ring[TxHead].frame)
    /\ ring' = [ring EXCEPT ![TxHead].done = TRUE]
    /\ TxHead' = NextIndex(TxHead)
    /\ txCause' = TRUE
    /\ UNCHANGED <<portVars, CurrentDescriptor, TxTail, worker, descriptorEntry, DescriptorsAvailable,
                   txIsr, overrun, txMissed, txHalted>>

\* EthHandleInterrupt reads, and so clears, the interrupt cause.
TxInterrupt(c) ==
    /\ ~txHalted
    /\ txCause /\ ~txIsr[c]
    /\ txCause' = FALSE
    /\ txIsr' = [txIsr EXCEPT ![c] = TRUE]
    /\ UNCHANGED <<portVars, CurrentDescriptor, ring, TxHead, TxTail, wire, worker, descriptorEntry,
                   DescriptorsAvailable, overrun, txMissed, txHalted>>

\* NetworkPortNotifyTxDescriptorAvailable under TxInterruptLock: whatever the ring
\* looks like now, descriptors are said to be available.
NotifyTxDescriptorAvailable(c) ==
    /\ ~txHalted
    /\ txIsr[c]
    /\ txIsr' = [txIsr EXCEPT ![c] = FALSE]
    /\ DescriptorsAvailable' = TRUE
    /\ worker' = IF worker = "available blocked" THEN "post" ELSE worker
    /\ overrun' = (overrun \/ (worker = "available blocked" /\ RingIsFull))
    /\ UNCHANGED <<portVars, cardVars, descriptorEntry, txMissed, txHalted>>

TxNext ==
    \/ \E s \in Senders : NetSendFrame(s) \/ SenderStep(s)
    \/ TransmitStep
    \/ CardSends
    \/ \E c \in TxCpus : TxInterrupt(c) \/ NotifyTxDescriptorAvailable(c)

TxSpec == TxInit /\ [][TxNext]_txVars

\* The transmit thread is scheduled, the card sends and interrupts are handled, whatever
\* the senders do.
TxCardStep == CardSends \/ \E c \in TxCpus : TxInterrupt(c) \/ NotifyTxDescriptorAvailable(c)

TxFairness ==
    /\ WF_txVars(\E s \in Senders : SenderStep(s))
    /\ WF_txVars(TransmitStep)
    /\ WF_txVars(TxCardStep)

TxFairSpec == TxSpec /\ TxFairness

----------------------------------------------------------------------------
\* Properties

TxTypeOK ==
    /\ FramesListNotEmpty \in BOOLEAN /\ DescriptorsAvailable \in BOOLEAN /\ txCause \in BOOLEAN
    /\ {TxHead, TxTail, CurrentDescriptor} \subseteq Descriptors
    /\ worker \in {"wait", "insert", "blocked", "remove", "available", "available insert",
                   "available blocked", "post", "full", "full locked", "tail"}
    /\ accepted \in 0 .. MaxSends /\ descriptorEntry \in 0 .. MaxSends

\* The frames in the descriptors from the head up to the current one, in ring order.
InRing == LET n == (CurrentDescriptor + NumberOfTxDescriptors - TxHead) % NumberOfTxDescriptors
          IN  [i \in 1 .. n |-> ring[(TxHead + i - 1) % NumberOfTxDescriptors].frame]
InWorker == IF descriptorEntry = 0 THEN <<>> ELSE <<descriptorEntry>>

\* On the wire, in the ring, in the transmit thread's hands and in the list are the
\* accepted frames, each once and in order, until a ring that was full is filled.
FramesInOrder == ~overrun =>
    wire \o InRing \o InWorker \o FramesList = [i \in 1 .. accepted |-> i]

TxInv == TxTypeOK /\ FramesInOrder

\* The descriptor the transmit thread is about to fill is done (ASSERT in EthSendFrame).
DescriptorIsDone == ~txHalted

\* Every accepted frame is sent, unless a signal came between test and insertion or the
\* ring was overrun.
AcceptedIsSent == []<>(Len(wire) = accepted \/ txMissed \/ overrun)

=============================================================================
