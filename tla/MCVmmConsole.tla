---------------------------- MODULE MCVmmConsole ----------------------------
(***************************************************************************)
(* Virtual memory on two CPUs with fewer frames than pages, so that what   *)
(* is committed cannot always be mapped; and, sharing no state with it,    *)
(* the keyboard, the line editor and the interrupts of devices.  A         *)
(* behaviour is one of one of them and leaves the variables of the others  *)
(* alone.                                                                  *)
(***************************************************************************)
EXTENDS Vmm, CommandLine, Interrupts

\* A call of VmmAllocRegionEx: what it asks for, in bytes and VMM_ALLOC_TYPE flags.
C(address, size, reserve, commit, eager, rights, file) ==
    [address |-> address, size |-> size, reserve |-> reserve, commit |-> commit, eager |-> eager,
     rights |-> rights, file |-> file]

\* Lazily over a page boundary, a page of a file, and more of what is reserved: one
\* page that begins inside a page, and a whole one at once.
MCCalls == {C(0, 3, TRUE, TRUE, FALSE, {"W"}, FALSE), C(0, 1, TRUE, TRUE, TRUE, {"W"}, TRUE),
            C(3, 1, FALSE, TRUE, FALSE, {"W"}, FALSE), C(4, 2, FALSE, TRUE, TRUE, {"W"}, FALSE)}

\* The theorem about VmmInv takes this of every set of calls.
ASSUME MCCallsAreOrdinary == CallsAreOrdinary

\* Threads and CPUs are interchangeable.
Symm == Permutations(Threads) \cup Permutations(Cpus)

\* One code is a key of the numeric pad or an arrow, the other a shift or no key.
MCScancodeStd == [up |-> "kp8", sh |-> "lshift"]
MCScancodeExt == [up |-> "up", sh |-> KEY_UNKNOWN]

\* A LAPIC and the clock; two drives on one edge triggered pin, a PCI device on another
\* and one that sends messages, with two vectors for the three of them.  The clock and
\* the drives have an override.
Source(type, irq, irql, exclusive, claims) ==
    [type |-> type, irq |-> irq, irql |-> irql, exclusive |-> exclusive, claims |-> claims]
MCInterrupt == [lapic |-> Source("lapic", 0, 1, TRUE, "never"), clock |-> Source("legacy", 0, 1, TRUE, "always"),
                ata |-> Source("legacy", 4, 2, FALSE, "own"), slave |-> Source("legacy", 4, 2, FALSE, "own"),
                eth |-> Source("pci", 3, 2, FALSE, "own"), msi |-> Source("msi", 0, 2, FALSE, "own")]
MCBootOrder == <<"lapic", "clock">>
MCOverrides == <<[source |-> 0, destination |-> 2], [source |-> 4, destination |-> 1]>>

VARIABLE unit       \* the component that runs

mcVars == <<vmmVars, kbdVars, lineVars, interruptVars, unit>>

MCInit == /\ VmmInit /\ KeyboardInitialize /\ LineInit /\ InterruptsInit
          /\ unit \in {"vmm", "keyboard", "line", "interrupt"}
          /\ unit # "interrupt" => NoOfPrtEntries = Len(Overrides)

Others(u) ==
    /\ u # "vmm" => UNCHANGED vmmVars
    /\ u # "keyboard" => UNCHANGED kbdVars
    /\ u # "line" => UNCHANGED lineVars
    /\ u # "interrupt" => UNCHANGED interruptVars

MCNext ==
    /\ UNCHANGED unit
    /\ \/ unit = "vmm" /\ VmmNext
       \/ unit = "keyboard" /\ KbdNext
       \/ unit = "line" /\ LineNext
       \/ unit = "interrupt" /\ InterruptsNext
    /\ Others(unit)

MCSpec == MCInit /\ [][MCNext]_mcVars
=============================================================================
