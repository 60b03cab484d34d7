---------------------------- MODULE RecRwSpinlock ---------------------------
(***************************************************************************)
(* The recursive reader/writer spinlock (rec_rw_spinlock.c) on top of the  *)
(* reader/writer spinlock: the CPU that holds it exclusively may acquire   *)
(* it again, up to MaxRecursivityDepth.  Holder is read without any lock.  *)
(***************************************************************************)
EXTENDS RwSpinlock

CONSTANTS
    MaxRecRwDepth,      \* REC_RW_SPINLOCK.MaxRecursivityDepth
    NoHolder

ASSUME RecAssumption == MaxRecRwDepth \in Nat \ {0} /\ NoHolder \notin RwCpus

VARIABLES
    RecHolder,          \* REC_RW_SPINLOCK.Holder
    RecRwDepth,         \* REC_RW_SPINLOCK.CurrentRecursivityDepth
    rec,                \* rec[c]: how far c is in the calls of this module
    calls               \* calls[c]: the acquisitions of c not yet released

(***************************************************************************)
(* rec[c]: "idle"   outside                                                *)
(*         "acquire" in RwSpinlockAcquire                                  *)
(*         "user"   between RecRwSpinlockAcquire and RecRwSpinlockRelease  *)
(*         "clear"  the last release, about to clear Holder                *)
(*         "release" about to call RwSpinlockRelease                       *)
(***************************************************************************)
recVars == <<rwVars, RecHolder, RecRwDepth, rec, calls>>

RecGoto(c, l) == rec' = [rec EXCEPT ![c] = l]

RecRwSpinlockInit ==
    /\ RwSpinlockInit
    /\ RecHolder = NoHolder
    /\ RecRwDepth = 0
    /\ rec = [c \in RwCpus |-> "idle"]
    /\ calls = [c \in RwCpus |-> 0]

\* The first part of RecRwSpinlockAcquire, up to RwSpinlockAcquire.
AcquireFirst(c) ==
    /\ rec[c] = "idle" /\ RecHolder # c
    /\ WriterEnqueue(c) \/ ReaderArrive(c)
    /\ RecGoto(c, "acquire")
    /\ UNCHANGED <<RecHolder, RecRwDepth, calls>>

\* A step of RwSpinlockAcquire.
RecAcquireStep(c) ==
    /\ rec[c] = "acquire"
    /\ AcquireStep(c)
    /\ UNCHANGED <<RecHolder, RecRwDepth, rec, calls>>

\* The rest of RecRwSpinlockAcquire.
Acquired(c) ==
    /\ rec[c] = "acquire" /\ rwPc[c] \in {"wheld", "rheld"}
    /\ IF rwPc[c] = "wheld"
       THEN RecRwDepth' = 1 /\ RecHolder' = c
       ELSE UNCHANGED <<RecRwDepth, RecHolder>>
    /\ RecGoto(c, "user")
    /\ calls' = [calls EXCEPT ![c] = 1]
    /\ UNCHANGED rwVars

\* The early return of RecRwSpinlockAcquire; its assertion is the guard.
AcquireAgain(c) ==
    /\ rec[c] = "user" /\ RecHolder = c
    /\ RecRwDepth < MaxRecRwDepth
    /\ RecRwDepth' = RecRwDepth + 1
    /\ calls' = [calls EXCEPT ![c] = @ + 1]
    /\ UNCHANGED <<rwVars, RecHolder, rec>>

\* RecRwSpinlockRelease(Exclusive = TRUE)
RecReleaseExclusive(c) ==
    /\ rec[c] = "user" /\ rwPc[c] = "wheld"
    /\ RecRwDepth' = RecRwDepth - 1
    /\ calls' = [calls EXCEPT ![c] = @ - 1]
    /\ RecGoto(c, IF RecRwDepth = 1 THEN "clear" ELSE "user")
    /\ UNCHANGED <<rwVars, RecHolder>>

RecReleaseShared(c) ==
    /\ rec[c] = "user" /\ rwPc[c] = "rheld"
    /\ calls' = [calls EXCEPT ![c] = @ - 1]
    /\ RecGoto(c, "clear")
    /\ UNCHANGED <<rwVars, RecHolder, RecRwDepth>>

\* Mutant: Holder is cleared after the lock was given back.
ReleaseThenClear(c) ==
    /\ rec[c] = "clear"
    /\ ReleaseExclusive(c) \/ ReleaseShared(c)
    /\ RecGoto(c, "idle")
    /\ UNCHANGED <<RecHolder, RecRwDepth, calls>>

\* A reader clears Holder as well.
ClearRecHolder(c) ==
    /\ rec[c] = "clear"
    /\ RecHolder' = NoHolder
    /\ RecGoto(c, "release")
    /\ UNCHANGED <<rwVars, RecRwDepth, calls>>

ReleaseRw(c) ==
    /\ rec[c] = "release"
    /\ ReleaseExclusive(c) \/ ReleaseShared(c)
    /\ RecGoto(c, "idle")
    /\ UNCHANGED <<RecHolder, RecRwDepth, calls>>

RecStep(c) ==
    \/ RecAcquireStep(c) \/ Acquired(c) \/ RecReleaseExclusive(c) \/ RecReleaseShared(c)
    \/ ClearRecHolder(c) \/ ReleaseRw(c)

RecNext == \E c \in RwCpus :
    AcquireFirst(c) \/ AcquireAgain(c) \/ RecStep(c)

RecSpec == RecRwSpinlockInit /\ [][RecNext]_recVars

\* A CPU inside an acquire or a release keeps executing, holders release, and a holder
\* does not nest acquisitions forever: it releases at every depth it is at again and
\* again (at the largest one it can do nothing else).
RecFairness == \A c \in RwCpus :
    /\ WF_recVars(RecStep(c))
    /\ \A d \in 1 .. MaxRecRwDepth - 1 :
           SF_recVars(RecReleaseExclusive(c) /\ RecRwDepth = d)

RecFairSpec == RecSpec /\ RecFairness

----------------------------------------------------------------------------
\* Properties

RecTypeOK ==
    /\ RwTypeOK
    /\ RecHolder \in RwCpus \cup {NoHolder}
    /\ RecRwDepth \in 0..MaxRecRwDepth
    /\ rec \in [RwCpus -> {"idle", "acquire", "user", "clear", "release"}]
    /\ calls \in [RwCpus -> 0..MaxRecRwDepth]

\* The unlocked test Holder == pCurrentCpu is never wrong: it holds exactly for the
\* CPU that is between its first exclusive acquisition and its last release, and
\* the depth is the number of its acquisitions.
HolderExact == \A c \in RwCpus :
    /\ (RecHolder = c) <=> (rwPc[c] = "wheld" /\ rec[c] \in {"user", "clear"})
    /\ RecHolder = c => RecRwDepth = calls[c]

\* The assertions after RwSpinlockAcquire: no holder, depth 0, for readers too.
AcquiredIsFresh == \A c \in RwCpus :
    rec[c] = "acquire" /\ rwPc[c] \in {"wheld", "rheld"} => RecHolder = NoHolder /\ RecRwDepth = 0

\* While acquisitions of a CPU are not all released, the lock below is held, and
\* exclusively if they are nested.
HeldUntilBalanced == \A c \in RwCpus :
    /\ calls[c] > 0 => rwPc[c] \in {"wheld", "rheld"}
    /\ calls[c] > 1 => rwPc[c] = "wheld"

\* The recursive lock as a whole: RecRwSpinlockAcquire and RecRwSpinlockRelease keep
\* Holder, the depth and the lock below in step.
RecRwSpinlockInv == RecTypeOK /\ HolderExact /\ AcquiredIsFresh /\ HeldUntilBalanced

=============================================================================
