----------------------------- MODULE RwSpinlock -----------------------------
(***************************************************************************)
(* The reader/writer spinlock of CommonLib (rw_spinlock.c, rw_spinlock.h). *)
(*                                                                         *)
(* The lock is three adjacent 16-bit counters.  A writer compares and      *)
(* swaps the DWORD <<ActiveWriter, ActiveReaders>>, a reader the           *)
(* overlapping DWORD <<WaitingWriters, ActiveWriter>>: the two words of a  *)
(* compare-and-swap change in one step, everything else is one             *)
(* interlocked operation on one word.  A CPU takes part with interrupts    *)
(* disabled, so a CPU is a process of this specification.                  *)
(***************************************************************************)
EXTENDS Integers, FiniteSets

CONSTANT RwCpus       \* the CPUs that contend for the lock

\* A WORD counter cannot be driven past 2^16 - 1 by CPUs that hold one
\* acquisition each.
ASSUME RwAssumption ==
    /\ IsFiniteSet(RwCpus)
    /\ Cardinality(RwCpus) < 65536

VARIABLES
    WaitingWriters,     \* RW_SPINLOCK.WaitingWriters
    ActiveWriter,       \* RW_SPINLOCK.ActiveWriter
    ActiveReaders,      \* RW_SPINLOCK.ActiveReaders
    rwPc                  \* rwPc[c]: how far CPU c is in RwSpinlockAcquire/Release

rwVars == <<WaitingWriters, ActiveWriter, ActiveReaders, rwPc>>

IsWord(w) == w \in Nat /\ w < 65536

\* _InterlockedIncrement16 and _InterlockedDecrement16 wrap at the width of a WORD.
Increment16(w) == (w + 1) % 65536
Decrement16(w) == (w - 1) % 65536

(***************************************************************************)
(* Control points of a CPU:                                                *)
(*   "out"     does not use the lock                                       *)
(*   "wspin"   counted in WaitingWriters, spinning on the writer CAS       *)
(*   "wdequeue" won the CAS, still counted in WaitingWriters               *)
(*   "wheld"   RwSpinlockAcquire(Exclusive = TRUE) returned                *)
(*   "rspin"   spinning on the reader CAS                                  *)
(*   "rcount"  won the CAS as pseudo-writer, not yet in ActiveReaders      *)
(*   "rconfess" counted in ActiveReaders, still the pseudo-writer          *)
(*   "rheld"   RwSpinlockAcquire(Exclusive = FALSE) returned               *)
(***************************************************************************)
PcValues == {"out", "wspin", "wdequeue", "wheld",
             "rspin", "rcount", "rconfess", "rheld"}

RwGoto(c, l) == rwPc' = [rwPc EXCEPT ![c] = l]

RwSpinlockInit ==
    /\ WaitingWriters = 0
    /\ ActiveWriter = 0
    /\ ActiveReaders = 0
    /\ rwPc = [c \in RwCpus |-> "out"]

----------------------------------------------------------------------------
\* RwSpinlockAcquire, Exclusive = TRUE

WriterEnqueue(c) ==
    /\ rwPc[c] = "out"
    /\ WaitingWriters' = Increment16(WaitingWriters)
    /\ RwGoto(c, "wspin")
    /\ UNCHANGED <<ActiveWriter, ActiveReaders>>

\* Mutant: the writer compares the word ActiveWriter instead of the DWORD.
WriterComparesOneWord(c) ==
    /\ rwPc[c] = "wspin"
    /\ ActiveWriter = 0
    /\ ActiveWriter' = 1
    /\ RwGoto(c, "wdequeue")
    /\ UNCHANGED <<WaitingWriters, ActiveReaders>>

\* The DWORD at ActiveWriter goes from 0 to 1.
WriterCompareExchange(c) ==
    /\ rwPc[c] = "wspin"
    /\ ActiveWriter = 0 /\ ActiveReaders = 0
    /\ ActiveWriter' = 1
    /\ RwGoto(c, "wdequeue")
    /\ UNCHANGED <<WaitingWriters, ActiveReaders>>

WriterDequeue(c) ==
    /\ rwPc[c] = "wdequeue"
    /\ WaitingWriters' = Decrement16(WaitingWriters)
    /\ RwGoto(c, "wheld")
    /\ UNCHANGED <<ActiveWriter, ActiveReaders>>

----------------------------------------------------------------------------
\* RwSpinlockAcquire, Exclusive = FALSE

ReaderArrive(c) ==
    /\ rwPc[c] = "out"
    /\ RwGoto(c, "rspin")
    /\ UNCHANGED <<WaitingWriters, ActiveWriter, ActiveReaders>>

\* Mutant: the reader compares the word ActiveWriter only.
ReaderIgnoresQueue(c) ==
    /\ rwPc[c] = "rspin"
    /\ ActiveWriter = 0
    /\ ActiveWriter' = 1
    /\ RwGoto(c, "rcount")
    /\ UNCHANGED <<WaitingWriters, ActiveReaders>>

\* The DWORD at WaitingWriters goes from 0 to MAX_WORD + 1, which is
\* WaitingWriters = 0 and ActiveWriter = 1.
ReaderCompareExchange(c) ==
    /\ rwPc[c] = "rspin"
    /\ WaitingWriters = 0 /\ ActiveWriter = 0
    /\ ActiveWriter' = 1
    /\ RwGoto(c, "rcount")
    /\ UNCHANGED <<WaitingWriters, ActiveReaders>>

ReaderCount(c) ==
    /\ rwPc[c] = "rcount"
    /\ ActiveReaders' = Increment16(ActiveReaders)
    /\ RwGoto(c, "rconfess")
    /\ UNCHANGED <<WaitingWriters, ActiveWriter>>

ReaderConfess(c) ==
    /\ rwPc[c] = "rconfess"
    /\ ActiveWriter' = Decrement16(ActiveWriter)
    /\ RwGoto(c, "rheld")
    /\ UNCHANGED <<WaitingWriters, ActiveReaders>>

----------------------------------------------------------------------------
\* RwSpinlockRelease

ReleaseExclusive(c) ==
    /\ rwPc[c] = "wheld"
    /\ ActiveWriter' = Decrement16(ActiveWriter)
    /\ RwGoto(c, "out")
    /\ UNCHANGED <<WaitingWriters, ActiveReaders>>

ReleaseShared(c) ==
    /\ rwPc[c] = "rheld"
    /\ ActiveReaders' = Decrement16(ActiveReaders)
    /\ RwGoto(c, "out")
    /\ UNCHANGED <<WaitingWriters, ActiveWriter>>

----------------------------------------------------------------------------
AcquireStep(c) ==
    \/ WriterCompareExchange(c)
    \/ WriterDequeue(c)
    \/ ReaderCompareExchange(c)
    \/ ReaderCount(c)
    \/ ReaderConfess(c)

ReleaseStep(c) == ReleaseExclusive(c) \/ ReleaseShared(c)

RwNext == \E c \in RwCpus :
    WriterEnqueue(c) \/ ReaderArrive(c) \/ AcquireStep(c) \/ ReleaseStep(c)

RwSpec == RwSpinlockInit /\ [][RwNext]_rwVars

----------------------------------------------------------------------------
\* Properties

RwTypeOK ==
    /\ IsWord(WaitingWriters)
    /\ IsWord(ActiveWriter)
    /\ IsWord(ActiveReaders)
    /\ rwPc \in [RwCpus -> PcValues]

At(S) == {c \in RwCpus : rwPc[c] \in S}

\* The counters count: WaitingWriters the queued writers, ActiveReaders the
\* readers that entered, ActiveWriter the CPUs that own the lock as writer or
\* as pseudo-writer, of which there is at most one.  It makes the reader's
\* "ASSERT( 1 == Spinlock->ActiveWriter )" and the writer's hold.
CountersExact ==
    /\ WaitingWriters = Cardinality(At({"wspin", "wdequeue"}))
    /\ ActiveReaders = Cardinality(At({"rconfess", "rheld"}))
    /\ ActiveWriter = Cardinality(At({"wdequeue", "wheld", "rcount", "rconfess"}))
    /\ ActiveWriter \in {0, 1}

\* A CPU for which RwSpinlockAcquire(Exclusive) returned excludes every other
\* reader and writer, although the two compare-and-swaps look at different
\* words and a reader is counted only after it has won its own.
Exclusion == \A c, d \in RwCpus :
    c # d /\ rwPc[c] = "wheld" => rwPc[d] \notin {"wheld", "wdequeue", "rcount", "rconfess", "rheld"}

\* The words of RW_SPINLOCK count the CPUs in the lock, and so keep writers alone.
RwSpinlockInv == RwTypeOK /\ CountersExact /\ Exclusion

\* "so writers will have priority": a queued writer cannot be held off by readers that keep
\* coming: some writer gets the lock.
WriterProgress == (At({"wspin"}) # {}) ~> (At({"wheld"}) # {})

=============================================================================
