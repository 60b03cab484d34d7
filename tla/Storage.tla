------------------------------ MODULE Storage -------------------------------
(***************************************************************************)
(* The storage stack: a read or write request goes from the volume through *)
(* the disk to the ATA drive (io_devices.c, Volume, Disk, Ata), is moved   *)
(* by programmed I/O or by bus master DMA, and comes back when the drive's *)
(* interrupt has signalled the end of the transfer.                        *)
(*                                                                         *)
(* One IDE channel is modelled with the drives attached to it: they share  *)
(* the channel's registers, its bus master and its interrupt vector, each  *)
(* has a device object and so a DeviceLock of its own.  A device's level   *)
(* is the index of its I/O stack location: volume 2, disk 1, drive 0.      *)
(***************************************************************************)
EXTENDS Integers, Sequences, SequencesExt, FiniteSets

CONSTANTS
    Callers, IoCpus, Nil,
    Drives,                     \* in the order AtaDriverEntry registers their interrupts
    SECTOR_SIZE, TotalSectors,
    MAX_WORD,
    ATA_DMA_ALIGNMENT, ATA_DMA_PHYSICAL_BOUNDARY,
    Mbr,                        \* Mbr[s]: the partition entries in sector s
    Requests,                   \* the arguments of IoReadDeviceEx/IoWriteDeviceEx (a bound for TLC)
    MaxRequests                 \* requests that are issued (a bound for TLC)

ASSUME StorageAssumption ==
    /\ {SECTOR_SIZE, ATA_DMA_ALIGNMENT, ATA_DMA_PHYSICAL_BOUNDARY} \subseteq Nat \ {0}
    /\ TotalSectors \in Nat /\ MAX_WORD \in Nat /\ MaxRequests \in Nat

StackSize == 3      \* of a volume, by two IoAttachDevice calls
Levels == 0 .. StackSize - 1

----------------------------------------------------------------------------
\* The partitions (disk.c)

\* Where _DiskRetrievePartitionsFromDiskStartingAtOffset leaves its loop: at the
\* extended entry it follows, in an extended partition also at an empty entry.
LeavesAt(entries, extended) ==
    {i \in DOMAIN entries :
        \/ extended /\ entries[i].type = "empty"
        \/ entries[i].type = "extended" /\ entries[i].status # "bad"}

\* One sector of the chain.  An entry's LBA is relative to the sector it is in, that
\* of an extended entry to the first extended partition.  Entries behind an extended
\* one are not looked at.
DiskLayout ==
    LET entriesOf(sector, extended) ==
            SubSeq(Mbr[sector], 1, IF extended THEN 2 ELSE 4)
        chain[s \in (DOMAIN Mbr) \X ((DOMAIN Mbr) \cup {Nil})] ==
            LET extended == s[2] # Nil
                base == IF extended THEN s[2] ELSE 0
                entries == entriesOf(s[1], extended)
                leave == LeavesAt(entries, extended)
                last == IF leave = {} THEN Len(entries) + 1
                        ELSE CHOOSE i \in leave : \A j \in leave : i <= j
                found == SelectSeq(SubSeq(entries, 1, last - 1), LAMBDA e : e.status # "bad")
                here == [i \in DOMAIN found |->
                            [OffsetInDisk |-> found[i].first + s[1],
                             PartitionSize |-> found[i].size]]
            IN  IF leave = {} \/ entries[last].type = "empty" THEN here
                ELSE here \o chain[<<entries[last].first + base,
                                     IF extended THEN base ELSE entries[last].first>>]
    IN  chain[<<0, Nil>>]

\* The disks are laid out alike, the chain of extended partitions ends, and a request
\* names a volume that exists.
ASSUME RequestAssumption ==
    /\ Drives # <<>> /\ Drives \in Seq(ToSet(Drives))
    /\ DiskLayout \in Seq([OffsetInDisk : Nat, PartitionSize : Nat])
    /\ Requests \subseteq [drive : ToSet(Drives), volume : DOMAIN DiskLayout, offset : Nat, length : Nat,
                           async : BOOLEAN, pairs : Seq([address : Nat, bytes : Nat])]

----------------------------------------------------------------------------
VARIABLES
    DeviceLock,     \* DeviceLock[d]: the holder and the threads that wait, in order
    at,             \* at[t]: where thread t is in its request
    irp,            \* irp[t]: CurrentStackLocation, the offset in that location, the IoStatus
    moved,          \* moved[t]: the sectors transferred to or from the request's buffer
    transfer,       \* transfer[d]: State and TransferReady of CurrentTransfer
    channel,        \* the channel's registers and the command in flight
    prdt,           \* the table the bus master points to, and whose buffer it describes
    pending,        \* the channel's interrupt has been raised and not been delivered
    isr,            \* isr[c]: the handler CPU c is in
    issued,         \* requests so far
    missed,         \* a waiter was listed after the signal it waits for
    lateAck,        \* the interrupt bit of a later transfer was cleared by an earlier handler
    halted          \* an ASSERT has stopped the system

storageVars == <<DeviceLock, at, irp, moved, transfer, channel, prdt, pending, isr, issued,
                 missed, lateAck, halted>>

Devices == {<<2, d, v>> : d \in ToSet(Drives), v \in DOMAIN DiskLayout}
               \cup {<<l, d, 0>> : l \in {0, 1}, d \in ToSet(Drives)}
NoIrp == [request |-> Nil, location |-> StackSize, offset |-> 0, status |-> "none", information |-> 0]
NoInterrupt == [cpu |-> "idle", next |-> 1]

StorageInit ==
    /\ DeviceLock = [d \in Devices |-> <<>>]
    /\ at = [t \in Callers |-> "idle"]
    /\ irp = [t \in Callers |-> NoIrp]
    /\ moved = [t \in Callers |-> {}]
    /\ transfer = [d \in ToSet(Drives) |-> [State |-> "Free", Signaled |-> FALSE, Waiting |-> <<>>]]
    /\ channel = [selected |-> Drives[1], lba |-> 0, count |-> 0, nien |-> TRUE,
                  command |-> Nil, start |-> FALSE, irq |-> FALSE]
    /\ prdt = [owner |-> Nil, table |-> <<>>]
    /\ pending = FALSE
    /\ isr = [c \in IoCpus |-> NoInterrupt]
    /\ issued = 0
    /\ missed = FALSE /\ lateAck = FALSE /\ halted = FALSE

DeviceOf(t, level) ==
    <<level, irp[t].request.drive, IF level = 2 THEN irp[t].request.volume ELSE 0>>
Drive(t) == irp[t].request.drive
Sector(t) == irp[t].offset \div SECTOR_SIZE
Count(t) == irp[t].request.length \div SECTOR_SIZE

At(t, l) == at[t] = l /\ ~halted
MoveTo(t, l) == at' = [at EXCEPT ![t] = l]

\* The request ends with an error: nothing below this level is called.
Fail(t, status, l) ==
    /\ irp' = [irp EXCEPT ![t].status = status]
    /\ MoveTo(t, l)

----------------------------------------------------------------------------
\* The I/O manager (io_devices.c)

\* _IoReadWriteDevice: a new IRP with one stack location per level.
IoReadWriteDevice(t, r) ==
    /\ At(t, "idle")
    /\ issued < MaxRequests
    /\ issued' = issued + 1
    /\ irp' = [irp EXCEPT ![t] = [NoIrp EXCEPT !.request = r, !.offset = r.offset]]
    /\ moved' = [moved EXCEPT ![t] = {}]
    /\ MoveTo(t, "call")
    /\ UNCHANGED <<DeviceLock, transfer, channel, prdt, pending, isr, missed, lateAck, halted>>

\* IoCallDriver up to MutexAcquire, which lists the thread behind the holder.
IoCallDriver(t) ==
    /\ At(t, "call")
    /\ LET level == irp[t].location - 1 IN
       IF irp[t].request.length % SECTOR_SIZE # 0 \/ irp[t].offset % SECTOR_SIZE # 0
       THEN /\ irp' = [irp EXCEPT ![t].status = "alignment not satisfied"]
            /\ MoveTo(t, IF level = StackSize - 1 THEN "done" ELSE "release")
            /\ UNCHANGED DeviceLock
       ELSE /\ irp' = [irp EXCEPT ![t].location = level]
            /\ DeviceLock' = [DeviceLock EXCEPT ![DeviceOf(t, level)] = Append(@, t)]
            /\ MoveTo(t, "acquire")
    /\ UNCHANGED <<moved, transfer, channel, prdt, pending, isr, issued, missed, lateAck, halted>>

\* MutexAcquire returns.
Acquired(t) ==
    /\ At(t, "acquire")
    /\ Head(DeviceLock[DeviceOf(t, irp[t].location)]) = t
    /\ MoveTo(t, <<"volume", "disk", "drive">>[StackSize - irp[t].location])
    /\ UNCHANGED <<DeviceLock, irp, moved, transfer, channel, prdt, pending, isr, issued, missed,
                   lateAck, halted>>

\* The dispatch function of the current level returned: MutexRelease hands the device
\* to the next thread, and IoCallDriver returns to the level above.
Release(t) ==
    /\ At(t, "release")
    /\ DeviceLock' = [DeviceLock EXCEPT ![DeviceOf(t, irp[t].location)] = Tail(@)]
    /\ irp' = [irp EXCEPT ![t].location = @ + 1]
    /\ MoveTo(t, IF irp[t].location + 1 = StackSize THEN "done" ELSE "release")
    /\ UNCHANGED <<moved, transfer, channel, prdt, pending, isr, issued, missed, lateAck, halted>>

\* _IoReadWriteDevice has read the IoStatus; IoFreeIrp.
IoReturn(t) ==
    /\ At(t, "done")
    /\ irp' = [irp EXCEPT ![t] = NoIrp]
    /\ moved' = [moved EXCEPT ![t] = {}]
    /\ MoveTo(t, "idle")
    /\ UNCHANGED <<DeviceLock, transfer, channel, prdt, pending, isr, issued, missed, lateAck, halted>>

----------------------------------------------------------------------------
\* Volume and disk

\* _VolCheckIOParameters
InPartition(p, sector, count) == sector < p.PartitionSize /\ p.PartitionSize - sector >= count

VolDispatchReadWrite(t) ==
    LET p == DiskLayout[irp[t].request.volume] IN
    /\ At(t, "volume")
    /\ IF InPartition(p, Sector(t), Count(t))
       THEN /\ irp' = [irp EXCEPT ![t].offset = (Sector(t) + p.OffsetInDisk) * SECTOR_SIZE]
            /\ MoveTo(t, "call")
       ELSE Fail(t, "exceeded", "release")
    /\ UNCHANGED <<DeviceLock, moved, transfer, channel, prdt, pending, isr, issued, missed,
                   lateAck, halted>>

\* DiskDispatchReadWrite copies the stack location and calls the drive.
DiskDispatchReadWrite(t) ==
    /\ At(t, "disk")
    /\ MoveTo(t, "call")
    /\ UNCHANGED <<DeviceLock, irp, moved, transfer, channel, prdt, pending, isr, issued, missed,
                   lateAck, halted>>

----------------------------------------------------------------------------
\* The drive (ata_dispatch.c, ata_operations.c)

\* AtaDispatchReadWrite up to AtaReadWriteSectors, which refuses an empty request;
\* the transfer has to be free.
AtaDispatchReadWrite(t) ==
    /\ At(t, "drive")
    /\ IF \/ Count(t) > MAX_WORD
          \/ Sector(t) >= TotalSectors \/ TotalSectors - Sector(t) < Count(t)
       THEN Fail(t, "exceeded", "release") /\ UNCHANGED <<transfer, halted>>
       ELSE IF transfer[Drive(t)].State # "Free"
       THEN halted' = TRUE /\ UNCHANGED <<at, irp, transfer>>
       ELSE IF Count(t) = 0
       THEN Fail(t, "invalid parameter", "release") /\ UNCHANGED <<transfer, halted>>
       ELSE /\ transfer' = [transfer EXCEPT ![Drive(t)].State = "InProgress"]
            /\ MoveTo(t, "select")
            /\ UNCHANGED <<irp, halted>>
    /\ UNCHANGED <<DeviceLock, moved, channel, prdt, pending, isr, issued, missed, lateAck>>

Busy == channel.command # Nil /\ channel.command.drive = channel.selected

\* _AtaWaitIdle, _AtaSelectDevice
AtaSelectDevice(t) ==
    /\ At(t, "select")
    /\ ~Busy
    /\ channel' = [channel EXCEPT !.selected = Drive(t)]
    /\ MoveTo(t, "parameters")
    /\ UNCHANGED <<DeviceLock, irp, moved, transfer, prdt, pending, isr, issued, missed, lateAck, halted>>

\* _AtaWaitIdle, _AtaWaitDeviceReady, the device control register, _AtaWriteIOParameters
AtaWriteIOParameters(t) ==
    /\ At(t, "parameters")
    /\ ~Busy
    /\ channel' = [channel EXCEPT !.nien = ~irp[t].request.async, !.lba = Sector(t), !.count = Count(t)]
    /\ MoveTo(t, IF irp[t].request.async THEN "prdt" ELSE "command")
    /\ UNCHANGED <<DeviceLock, irp, moved, transfer, prdt, pending, isr, issued, missed, lateAck, halted>>

\* _AtaValidateTranslationPair
ValidPair(p) ==
    /\ p.address % ATA_DMA_ALIGNMENT = 0 /\ p.bytes % ATA_DMA_ALIGNMENT = 0
    /\ p.bytes <= ATA_DMA_PHYSICAL_BOUNDARY - 1

\* The entries of one translation pair: it is cut where it crosses the boundary.
PrdEntries(address, bytes) ==
    LET first == ATA_DMA_PHYSICAL_BOUNDARY - (address % ATA_DMA_PHYSICAL_BOUNDARY)
    IN  IF bytes <= first THEN <<[address |-> address, bytes |-> bytes]>>
        ELSE <<[address |-> address, bytes |-> first],
               [address |-> address + first, bytes |-> bytes - first]>>

\* Mutant: every pair is taken whole, the last one too.
PrdTableOfPages(pairs, bytes) ==
    FlattenSeq([i \in DOMAIN pairs |-> PrdEntries(pairs[i].address, pairs[i].bytes)])

\* One round of the loop of _AtaPrepareDmaTransfer: a pair is taken up to the bytes
\* remaining.
TakePair(before, p) ==
    LET n == IF p.bytes < before.remaining THEN p.bytes ELSE before.remaining
    IN  [remaining |-> before.remaining - n, table |-> before.table \o PrdEntries(p.address, n)]

\* The loop, after every number of rounds.
TableUpTo(pairs, bytes) ==
    LET table[i \in 0 .. Len(pairs)] ==
            IF i = 0 THEN [remaining |-> bytes, table |-> <<>>] ELSE TakePair(table[i - 1], pairs[i])
    IN  table
PrdTable(pairs, bytes) == TableUpTo(pairs, bytes)[Len(pairs)].table

\* _AtaPrepareDmaTransfer and _AtaWriteDmaRegisters; on an error, which may also be a
\* failed allocation, the transfer is free again.
AtaPrepareDmaTransfer(t) ==
    /\ At(t, "prdt")
    /\ \/ /\ Fail(t, "no dma", "release")
          /\ transfer' = [transfer EXCEPT ![Drive(t)].State = "Free"]
          /\ UNCHANGED prdt
       \/ /\ \A i \in DOMAIN irp[t].request.pairs : ValidPair(irp[t].request.pairs[i])
          /\ prdt' = [owner |-> t,
                      table |-> PrdTable(irp[t].request.pairs, Count(t) * SECTOR_SIZE)]
          /\ MoveTo(t, "command")
          /\ UNCHANGED <<irp, transfer>>
    /\ UNCHANGED <<DeviceLock, moved, channel, pending, isr, issued, missed, lateAck, halted>>

\* The command goes to whatever drive is selected, with what is in the registers.
AtaWriteCommand(t) ==
    /\ At(t, "command")
    /\ channel' = [channel EXCEPT !.command =
                     [drive |-> channel.selected, dma |-> irp[t].request.async,
                      sectors |-> {<<channel.selected, channel.lba + i>> : i \in 0 .. channel.count - 1}]]
    /\ MoveTo(t, IF irp[t].request.async THEN "start" ELSE "buffer")
    /\ UNCHANGED <<DeviceLock, irp, moved, transfer, prdt, pending, isr, issued, missed, lateAck, halted>>

\* _AtaReadBuffer, _AtaWriteBuffer: the words go through the data register.  Then
\* AtaReadWriteSectors returns and the transfer is free again.
AtaReadWriteBuffer(t) ==
    /\ At(t, "buffer")
    /\ channel.command # Nil /\ channel.command.drive = channel.selected
    /\ moved' = [moved EXCEPT ![t] = @ \cup channel.command.sectors]
    /\ channel' = [channel EXCEPT !.command = Nil]
    /\ irp' = [irp EXCEPT ![t].status = "success", ![t].information = Count(t) * SECTOR_SIZE]
    /\ transfer' = [transfer EXCEPT ![Drive(t)].State = "Free"]
    /\ MoveTo(t, "release")
    /\ UNCHANGED <<DeviceLock, prdt, pending, isr, issued, missed, lateAck, halted>>

\* The start bit of the bus master
AtaStart(t) ==
    /\ At(t, "start")
    /\ channel' = [channel EXCEPT !.start = TRUE]
    /\ MoveTo(t, "wait")
    /\ UNCHANGED <<DeviceLock, irp, moved, transfer, prdt, pending, isr, issued, missed, lateAck, halted>>

\* ExEventWaitForSignal: the test of Signaled ...
WaitTest(t) ==
    /\ At(t, "wait")
    /\ transfer' = [transfer EXCEPT ![Drive(t)].Signaled = FALSE]
    /\ MoveTo(t, IF transfer[Drive(t)].Signaled THEN "finished" ELSE "insert")
    /\ UNCHANGED <<DeviceLock, irp, moved, channel, prdt, pending, isr, issued, missed, lateAck, halted>>

\* ... and the insertion, which does not test it again.
WaitInsert(t) ==
    /\ At(t, "insert")
    /\ transfer' = [transfer EXCEPT ![Drive(t)].Waiting = Append(@, t)]
    /\ missed' = (missed \/ transfer[Drive(t)].Signaled)
    /\ MoveTo(t, "blocked")
    /\ UNCHANGED <<DeviceLock, irp, moved, channel, prdt, pending, isr, issued, lateAck, halted>>

\* The wait is over: the transfer has to be finished, the table is freed, and back in
\* AtaDispatchReadWrite the transfer is free again.
AtaFinish(t) ==
    /\ At(t, "finished")
    /\ IF transfer[Drive(t)].State # "Finished"
       THEN halted' = TRUE /\ UNCHANGED <<at, irp, transfer>>
       ELSE /\ irp' = [irp EXCEPT ![t].status = "success", ![t].information = Count(t) * SECTOR_SIZE]
            /\ transfer' = [transfer EXCEPT ![Drive(t)].State = "Free"]
            /\ MoveTo(t, "release")
            /\ UNCHANGED halted
    /\ UNCHANGED <<DeviceLock, moved, channel, prdt, pending, isr, issued, missed, lateAck>>

Step(t) ==
    \/ IoCallDriver(t) \/ Acquired(t) \/ Release(t) \/ IoReturn(t)
    \/ VolDispatchReadWrite(t) \/ DiskDispatchReadWrite(t) \/ AtaDispatchReadWrite(t)
    \/ AtaSelectDevice(t) \/ AtaWriteIOParameters(t) \/ AtaPrepareDmaTransfer(t) \/ AtaWriteCommand(t)
    \/ AtaReadWriteBuffer(t) \/ AtaStart(t) \/ WaitTest(t) \/ WaitInsert(t) \/ AtaFinish(t)

----------------------------------------------------------------------------
\* The drive moves the sectors to or from the buffer of the table; the channel's
\* interrupt bit is set, and the interrupt is raised unless nIEN masks it.
DmaComplete ==
    /\ ~halted
    /\ channel.command # Nil /\ channel.command.dma /\ channel.start
    /\ moved' = [moved EXCEPT ![prdt.owner] = @ \cup channel.command.sectors]
    /\ channel' = [channel EXCEPT !.command = Nil, !.irq = ~channel.nien]
    /\ pending' = ~channel.nien
    /\ UNCHANGED <<DeviceLock, at, irp, transfer, prdt, isr, issued, missed, lateAck, halted>>

\* The interrupt is delivered to one of the CPUs (lowest priority delivery).
Deliver(c) ==
    /\ ~halted
    /\ pending /\ isr[c] = NoInterrupt
    /\ pending' = FALSE
    /\ isr' = [isr EXCEPT ![c] = [cpu |-> "test", next |-> 1]]
    /\ UNCHANGED <<DeviceLock, at, irp, moved, transfer, channel, prdt, issued, missed, lateAck, halted>>

InIsr(c, l) == isr[c].cpu = l /\ ~halted
Handling(c) == Drives[isr[c].next]

\* _AtaDmaInterrupt selects its drive and tests the channel's interrupt bit; if it
\* returns FALSE, _IomuGenericInterrupt goes on to the next registered handler.  If the
\* drive reports an error the kernel stops there (ATA_SREG_DF, NOT_REACHED).
IsrTest(c) ==
    /\ InIsr(c, "test")
    /\ channel' = [channel EXCEPT !.selected = Handling(c)]
    /\ \/ channel.irq /\ \E l \in {"claim", "failed"} : isr' = [isr EXCEPT ![c].cpu = l]
       \/ /\ ~channel.irq
          /\ isr' = [isr EXCEPT ![c] = IF isr[c].next = Len(Drives) THEN NoInterrupt
                                       ELSE [@ EXCEPT !.next = isr[c].next + 1]]
    /\ UNCHANGED <<DeviceLock, at, irp, moved, transfer, prdt, pending, issued, missed, lateAck, halted>>

\* The bus master is stopped; the drive has to have a transfer in progress.
IsrClaim(c) ==
    /\ InIsr(c, "claim")
    /\ channel' = [channel EXCEPT !.start = FALSE]
    /\ IF transfer[Handling(c)].State # "InProgress"
       THEN halted' = TRUE /\ UNCHANGED <<transfer, isr>>
       ELSE /\ transfer' = [transfer EXCEPT ![Handling(c)].State = "Finished"]
            /\ isr' = [isr EXCEPT ![c].cpu = "signal"]
            /\ UNCHANGED halted
    /\ UNCHANGED <<DeviceLock, at, irp, moved, prdt, pending, issued, missed, lateAck>>

\* Mutant: the signal does not look at the waiting list.
SignalWakesNobody(c) ==
    /\ InIsr(c, "signal")
    /\ transfer' = [transfer EXCEPT ![Handling(c)].Signaled = TRUE]
    /\ isr' = [isr EXCEPT ![c].cpu = "ack"]
    /\ UNCHANGED <<DeviceLock, at, irp, moved, channel, prdt, pending, issued, missed, lateAck, halted>>

\* ExEventSignal: the first waiter is woken and tests Signaled again.
IsrSignal(c) ==
    LET e == transfer[Handling(c)] IN
    /\ InIsr(c, "signal")
    /\ transfer' = [transfer EXCEPT ![Handling(c)] =
                      [@ EXCEPT !.Signaled = TRUE,
                                !.Waiting = IF e.Waiting = <<>> THEN <<>> ELSE Tail(e.Waiting)]]
    /\ IF e.Waiting = <<>> THEN UNCHANGED at ELSE MoveTo(Head(e.Waiting), "wait")
    /\ isr' = [isr EXCEPT ![c].cpu = "ack"]
    /\ UNCHANGED <<DeviceLock, irp, moved, channel, prdt, pending, issued, missed, lateAck, halted>>

\* The interrupt bit is cleared last: the woken thread may have finished another
\* transfer, whose interrupt then finds no bit.
IsrAck(c) ==
    /\ InIsr(c, "ack")
    /\ channel' = [channel EXCEPT !.irq = FALSE]
    /\ lateAck' = (lateAck \/ pending \/ \E o \in IoCpus : isr[o].cpu = "test")
    /\ isr' = [isr EXCEPT ![c] = NoInterrupt]
    /\ UNCHANGED <<DeviceLock, at, irp, moved, transfer, prdt, pending, issued, missed, halted>>

IsrStep(c) == IsrTest(c) \/ IsrClaim(c) \/ IsrSignal(c) \/ IsrAck(c)

----------------------------------------------------------------------------
\* An error of the drive has stopped the system.
DriveFailed == \E c \in IoCpus : isr[c].cpu = "failed"

StorageNext ==
    /\ ~DriveFailed
    /\ \/ \E t \in Callers, r \in Requests : IoReadWriteDevice(t, r)
       \/ \E t \in Callers : Step(t)
       \/ DmaComplete
       \/ \E c \in IoCpus : Deliver(c) \/ IsrStep(c)

StorageSpec == StorageInit /\ [][StorageNext]_storageVars

\* A caller is scheduled, the drive completes a command, an interrupt is delivered or
\* a handler runs, as long as one of them can: the requests are bounded, so that
\* nothing more is needed.
StorageStep ==
    /\ ~DriveFailed
    /\ \/ \E t \in Callers : Step(t)
       \/ DmaComplete
       \/ \E c \in IoCpus : Deliver(c) \/ IsrStep(c)

StorageFairness == WF_storageVars(StorageStep)

StorageFairSpec == StorageSpec /\ StorageFairness

----------------------------------------------------------------------------
\* Properties

\* The levels whose DeviceLock the thread has been given.
HeldBy(t) == IF at[t] = "idle" \/ irp[t].request = Nil THEN {}
             ELSE {l \in Levels : l > irp[t].location \/ (l = irp[t].location /\ at[t] # "acquire")}

\* A thread below a level has that level's device, so that requests pass a device one
\* at a time although each level blocks with the upper ones locked.
LocksNest == \A t \in Callers : \A l \in HeldBy(t) :
    /\ DeviceLock[DeviceOf(t, l)] # <<>>
    /\ Head(DeviceLock[DeviceOf(t, l)]) = t

\* The addresses of bytes that follow each other.
AddressesFrom(address, bytes) == [j \in 1 .. bytes |-> address + j - 1]

\* The addresses of the bytes of the first entries, for every number of them.
BytesUpTo(entries) ==
    LET bytes[i \in 0 .. Len(entries)] ==
            IF i = 0 THEN <<>> ELSE bytes[i - 1] \o AddressesFrom(entries[i].address, entries[i].bytes)
    IN  bytes
Bytes(entries) == BytesUpTo(entries)[Len(entries)]

\* The pairs of a buffer as MdlAllocateEx leaves them: they cover it, and the last one is
\* needed for it.
Describes(pairs, length) ==
    /\ pairs # <<>>
    /\ \A i \in DOMAIN pairs : pairs[i].bytes > 0
    /\ Len(BytesUpTo(pairs)[Len(pairs) - 1]) < length
    /\ length <= Len(Bytes(pairs))

BuffersAreDescribed == \A r \in Requests : r.async /\ r.length > 0 => Describes(r.pairs, r.length)

\* A table names the first bytes of a buffer, in order and no others, in entries that
\* neither are empty nor cross the boundary of the bus master.
TableExact(table, pairs, bytes) ==
    /\ Bytes(table) = SubSeq(Bytes(pairs), 1, bytes)
    /\ \A i \in DOMAIN table :
          LET e == table[i] IN
          /\ e.bytes > 0
          /\ e.address \div ATA_DMA_PHYSICAL_BOUNDARY
                 = (e.address + e.bytes - 1) \div ATA_DMA_PHYSICAL_BOUNDARY

\* The table the drive walks is that of the request it works for.
PrdtExact == \A t \in Callers :
    (prdt.owner = t /\ at[t] \in {"command", "start", "wait"} /\ irp[t].request.async) =>
    TableExact(prdt.table, irp[t].request.pairs, Count(t) * SECTOR_SIZE)

StorageTypeOK ==
    /\ \A d \in Devices : DeviceLock[d] \in Seq(Callers)
    /\ \A t \in Callers : irp[t].location \in 0 .. StackSize
    /\ \A d \in ToSet(Drives) : transfer[d].State \in {"Free", "InProgress", "Finished"}
    /\ channel.selected \in ToSet(Drives)
    /\ \A c \in IoCpus : isr[c].cpu \in {"idle", "test", "claim", "failed", "signal", "ack"}

\* The sectors of the disk a request names.
Named(t) == LET r == irp[t].request
                p == DiskLayout[r.volume]
                first == r.offset \div SECTOR_SIZE IN
    {<<r.drive, p.OffsetInDisk + s>> :
        s \in {n \in first .. first + Count(t) - 1 : n < p.PartitionSize}}

\* A request that succeeds has moved the sectors it names and no others, all of them
\* inside its partition; one that fails has moved nothing.
RequestExact == \A t \in Callers : at[t] = "done" =>
    IF irp[t].status = "success"
    THEN /\ moved[t] = Named(t)
         /\ Cardinality(moved[t]) * SECTOR_SIZE = irp[t].request.length
         /\ irp[t].information = irp[t].request.length
    ELSE moved[t] = {}

\* The ASSERTs on the state of the transfer hold: a request finds it free, an
\* interrupt in progress, and the end of the wait finished.
TransferInStep == ~halted

\* A request has its devices to itself, the drive gets the right table, the right
\* sectors move, and no ASSERT fails.
StorageInv == StorageTypeOK /\ LocksNest /\ PrdtExact /\ RequestExact /\ TransferInStep

\* Every request comes back, unless the signal of its interrupt came between the test
\* and the insertion, its interrupt bit was cleared by the handler before, or the system
\* was stopped by an error of the drive.
RequestReturns == \A t \in Callers :
    at[t] # "idle" ~> (at[t] = "idle" \/ missed \/ lateAck \/ halted \/ DriveFailed)

=============================================================================
