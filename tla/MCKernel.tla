------------------------------ MODULE MCKernel ------------------------------
(***************************************************************************)
(* Parts that share no state: the scheduler with and without events, as in *)
(* MCExEvent, and the allocators of page frames (with the zero worker) and *)
(* of heap memory.  A behaviour is one of one of them, chosen in the       *)
(* initial state, and leaves the variables of the others alone.  Frames    *)
(* and heap may come to an end; the scheduler may not.                     *)
(***************************************************************************)
EXTENDS MCExEvent, ZeroWorker, Heap

\* Two addresses to a frame, a megabyte of one frame.
Region(base, length, type, valid) ==
    [BaseAddress |-> base, Length |-> length, Type |-> type, Valid |-> valid]

\* Aligned regions: one that is not a whole number of frames; a hole, an invalid
\* entry, reserved memory in the middle and at the top; usable RAM up to the highest
\* address; no usable RAM.
NoRam == <<Region(0, 6, "Reserved", TRUE)>>
MCMaps ==
    {<<Region(0, 2, "Reserved", TRUE), Region(2, 7, "UsableRAM", TRUE)>>,
     <<Region(0, 2, "UsableRAM", TRUE), Region(4, 4, "UsableRAM", TRUE), Region(8, 2, "UsableRAM", FALSE),
       Region(10, 3, "UsableRAM", TRUE), Region(13, 1, "ACPINVSMemory", TRUE)>>,
     <<Region(0, 4, "Reserved", TRUE), Region(4, 4, "UsableRAM", TRUE)>>,
     NoRam}

\* What the theorems about the frames ask of a map.
ASSUME MCMapsAreAligned == MapsAreAligned

\* The lowest address, one inside a frame, one inside the usable regions and one
\* beyond the bitmap.
MCMinAddresses == {0, 3, 6, 40}

\* Small, larger, aligned, too large for the heap and empty requests.
Pool(size, alignment, panic) == [size |-> size, alignment |-> alignment, panic |-> panic]
MCPoolCalls == {Pool(1, 0, FALSE), Pool(3, 0, FALSE), Pool(2, 4, FALSE), Pool(9, 0, TRUE), Pool(0, 0, FALSE)}

kernelVars == <<vars, zeroVars, heapVars, unit>>

MCKernelInit == /\ ExEventInit /\ ZeroWorkerInit /\ ClHeapInit
                /\ unit \in {"thread", "event", "frames", "heap"}
                /\ unit # "frames" => MemoryEntries = NoRam

Others(u) ==
    /\ u \notin {"thread", "event"} => UNCHANGED vars
    /\ u # "frames" => UNCHANGED zeroVars
    /\ u # "heap" => UNCHANGED heapVars

MCKernelNext ==
    /\ UNCHANGED unit
    /\ \/ unit = "thread" /\ Next /\ UNCHANGED eventVars
       \/ unit = "event" /\ EventNext
       \/ unit = "frames" /\ ZeroNext
       \/ unit = "heap" /\ HeapNext
       \/ unit \in {"frames", "heap"} /\ UNCHANGED <<zeroVars, heapVars>>
    /\ Others(unit)

MCKernelSpec == MCKernelInit /\ [][MCKernelNext]_kernelVars
=============================================================================
