-------------------------------- MODULE MCIo --------------------------------
(***************************************************************************)
(* The drivers of the disk and of the network card, sending and receiving, *)
(* and the file system.  The DeviceLock that IoCallDriver takes is a       *)
(* mutex; Storage, NetworkTx and NetworkRx use it as the queue with        *)
(* hand-over that Mutex shows it to be.  They share no state; a behaviour  *)
(* is one of one of them, chosen in the initial state, and leaves the      *)
(* variables of the others alone.                                          *)
(*                                                                         *)
(* The disk has a primary and two logical partitions.  The requests read   *)
(* one or two sectors with and without DMA, run over the partition, are    *)
(* empty or not aligned; the buffers cross the boundary of the bus master  *)
(* or cannot be described to it.                                           *)
(***************************************************************************)
EXTENDS Storage, NetworkTx, NetworkRx, Fat, TLC

Entry(status, type, first, size) ==
    [status |-> status, type |-> type, first |-> first, size |-> size]
Empty == Entry("inactive", "empty", 0, 0)
MCMbr == 0 :> <<Entry("active", "data", 1, 2), Entry("bad", "data", 0, 9),
                Entry("inactive", "extended", 3, 4), Empty>>
         @@ 3 :> <<Entry("inactive", "data", 1, 1), Entry("inactive", "extended", 2, 2), Empty, Empty>>
         @@ 5 :> <<Entry("inactive", "data", 1, 1), Empty, Empty, Empty>>

PageBuffer == <<[address |-> 6, bytes |-> 6], [address |-> 16, bytes |-> 4]>>
Small == <<[address |-> 6, bytes |-> 6]>>
Odd == <<[address |-> 3, bytes |-> 4]>>
R(drive, volume, offset, length, async, pairs) ==
    [drive |-> drive, volume |-> volume, offset |-> offset, length |-> length, async |-> async, pairs |-> pairs]
MCRequests == {R("d1", 1, 0, 8, TRUE, PageBuffer), R("d1", 1, 4, 4, FALSE, PageBuffer), R("d1", 1, 4, 8, TRUE, PageBuffer),
               R("d1", 2, 0, 4, TRUE, Odd), R("d1", 3, 0, 4, TRUE, Small), R("d1", 2, 0, 0, FALSE, PageBuffer),
               R("d1", 1, 2, 4, FALSE, PageBuffer)}
OneDrive == <<"d1">>
TwoDrives == <<"d1", "d2">>
SlaveRequests == {R("d2", 1, 0, 8, TRUE, PageBuffer)}

ASSUME MCBuffersAreDescribed == BuffersAreDescribed

\* Volumes of six clusters: one freshly formatted, and one with a file, a root directory
\* of two clusters, a bad cluster and an unknown count of free clusters.
Fresh == [fat |-> [c \in 0 .. CountOfClusters + 1 |-> IF c <= Root THEN FAT32_EOC_MARK ELSE 0],
          info |-> [free |-> CountOfClusters - 1, next |-> Root + 1],
          dirs |-> Root :> <<FREE_ENTRY, FREE_ENTRY, FREE_ALL, FREE_ALL>>]

Used == [fat |-> (2 :> 4) @@ (5 :> 0) @@ (6 :> FAT32_BAD_CLUSTER) @@ (7 :> 0)
                 @@ [c \in 0 .. CountOfClusters + 1 |-> FAT32_EOC_MARK],
         info |-> [free |-> FAT32_UNKNOWN, next |-> 4],
         dirs |-> (2 :> <<FREE_ENTRY, FREE_ENTRY, [DirEntry("a", "file", 3) EXCEPT !.size = 1], FREE_ENTRY>>)
                  @@ (4 :> <<FREE_ALL, FREE_ALL, FREE_ALL, FREE_ALL>>)]

MCVolumes == {Fresh, Used}
MCPaths == {<<"a">>, <<"d">>, <<"d", "b">>}

\* Over a cluster boundary, and behind a cluster that is not there yet.
MCTransfers == {<<1, 2>>, <<4, 1>>}

VARIABLE unit       \* the component that runs

mcVars == <<storageVars, txVars, rxVars, fatVars, unit>>

MCInit == /\ StorageInit /\ TxInit /\ RxInit /\ FatInitVolume
          /\ unit \in {"storage", "tx", "rx", "volume"}
          /\ unit # "volume" => fat = Fresh.fat

MCNext ==
    /\ UNCHANGED unit
    /\ \/ unit = "storage" /\ StorageNext /\ UNCHANGED <<txVars, rxVars, fatVars>>
       \/ unit = "tx" /\ TxNext /\ UNCHANGED <<storageVars, rxVars, fatVars>>
       \/ unit = "rx" /\ RxNext /\ UNCHANGED <<storageVars, txVars, fatVars>>
       \/ unit = "volume" /\ FatNext /\ UNCHANGED <<storageVars, txVars, rxVars>>

MCSpec == MCInit /\ [][MCNext]_mcVars

\* StorageFairness, TxFairness and RxFairness, each for the component that runs; nothing
\* is asked of the file system, whose calls may end at any time.
MCFairness ==
    /\ WF_mcVars(/\ UNCHANGED unit
                 /\ \/ unit = "storage" /\ StorageStep /\ UNCHANGED <<txVars, rxVars, fatVars>>
                    \/ unit = "tx" /\ TxCardStep /\ UNCHANGED <<storageVars, rxVars, fatVars>>
                    \/ unit = "rx" /\ RxStep /\ UNCHANGED <<storageVars, txVars, fatVars>>)
    /\ WF_txVars(unit = "tx" /\ TransmitStep)
    /\ WF_txVars(unit = "tx" /\ \E s \in Senders : SenderStep(s))

MCFairSpec == MCSpec /\ MCFairness
=============================================================================
