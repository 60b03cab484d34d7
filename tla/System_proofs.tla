---------------------------- MODULE System_proofs ---------------------------
(***************************************************************************)
(* Proofs about the parts that the kernel is built on.                     *)
(*                                                                         *)
(* The primitive lock, for every set of CPUs and for both implementations  *)
(* LockSystemInit may select: it is exclusive, and the interrupt handler   *)
(* that uses it never waits for the thread it has interrupted.             *)
(*                                                                         *)
(* For every finite set of CPUs that a WORD can count, the counters of the *)
(* reader/writer spinlock stay exact and a writer excludes everybody else; *)
(* and the recursive reader/writer spinlock on top of it is a use of it    *)
(* whose Holder and depth, read without a lock, are never wrong.           *)
(*                                                                         *)
(* The references on a process are exactly those its creation, its threads *)
(* and its handle account for, so that it is destroyed when nobody needs   *)
(* it any more and not before.                                             *)
(*                                                                         *)
(* For every set of devices, wirings and overrides, a device whose         *)
(* interrupt was registered finds it delivered to its handler, and an      *)
(* interrupt that no handler claims has one of three reasons; where the    *)
(* wiring keeps level triggered devices apart, a handler claims them all.  *)
(*                                                                         *)
(* Memory_proofs has the lemmas about numbers and bitmaps used here.       *)
(***************************************************************************)
EXTENDS Spinlock, RecRwSpinlock, Process, Interrupts, Memory_proofs

----------------------------------------------------------------------------
\* The primitive lock

Owns(x) == pc[x] \in {"won", "held", "cleared"}

\* State and Holder say who owns the lock.
OwnerInv ==
    /\ State <=> \E x \in Contexts : Owns(x)
    /\ \A x, y \in Contexts : Owns(x) /\ Owns(y) => x = y
    /\ Holder # NoCpu => \E x \in Contexts : Cpu(x) = Holder /\ pc[x] = "held"
    /\ \A x \in Contexts : pc[x] = "held" => Holder = Cpu(x)

\* A context inside the lock's functions runs with interrupts off, and only a
\* context that executes, or was interrupted outside of them, is anywhere.
IntrInv == \A c \in Cpus :
    /\ pc[<<c, "thread">>] # "out" => ~Intr[c] /\ ~InIsr[c]
    /\ pc[<<c, "isr">>] # "out" => InIsr[c] /\ ~IntrState[<<c, "isr">>]
    /\ InIsr[c] => ~Intr[c]

LockInv == TypeOK /\ OwnerInv /\ IntrInv

----------------------------------------------------------------------------
\* A context is a CPU and a kind.
LEMMA ContextFacts ==
    /\ \A x \in Contexts : Cpu(x) \in Cpus /\ (x = <<Cpu(x), "thread">> \/ x = <<Cpu(x), "isr">>)
    /\ \A c \in Cpus : <<c, "thread">> \in Contexts /\ <<c, "isr">> \in Contexts
    /\ \A c \in Cpus : <<c, "thread">> # <<c, "isr">>
    /\ \A c, d \in Cpus : c # d => <<c, "thread">> # <<d, "thread">> /\ <<c, "isr">> # <<d, "isr">>
    /\ \A c, d \in Cpus : <<c, "thread">> # <<d, "isr">>
    /\ \A c \in Cpus : Cpu(<<c, "thread">>) = c /\ Cpu(<<c, "isr">>) = c
BY DEF Contexts, Cpu

\* Which context executes.
LEMMA ExecutesFacts ==
    ASSUME NEW c \in Cpus, InIsr \in [Cpus -> BOOLEAN]
    PROVE  /\ Executes(<<c, "thread">>) <=> ~InIsr[c]
           /\ Executes(<<c, "isr">>) <=> InIsr[c]
BY DEF Executes, Cpu

LEMMA LockInitially == LockSystemInit => LockInv
<1> SUFFICES ASSUME LockSystemInit PROVE LockInv
    OBVIOUS
<1> USE DEF LockSystemInit
<1>1. TypeOK
    BY DEF TypeOK, Labels
<1>2. OwnerInv
    BY DEF OwnerInv, Owns
<1>3. IntrInv
    BY ContextFacts DEF IntrInv
<1> QED BY <1>1, <1>2, <1>3 DEF LockInv

----------------------------------------------------------------------------
\* Every step keeps the types.
LEMMA TypeStep == TypeOK /\ [Next]_vars => TypeOK'
<1> SUFFICES ASSUME TypeOK, [Next]_vars PROVE TypeOK'
    OBVIOUS
<1> USE ContextFacts DEF TypeOK, Labels
<1>1. CASE UNCHANGED vars
    BY <1>1 DEF vars
<1>2. ASSUME NEW c \in Cpus, Interrupt(c) \/ InterruptReturn(c) \/ CallerTogglesInterrupts(c)
      PROVE  TypeOK'
    BY <1>2 DEF Interrupt, InterruptReturn, CallerTogglesInterrupts
<1>3. ASSUME NEW x \in Contexts, LockAcquire(x) \/ LockTryAcquire(x) PROVE TypeOK'
    <2>1. Cpu(x) \in Cpus
        OBVIOUS
    <2>2. Intr[Cpu(x)] \in BOOLEAN
        BY <2>1
    <2>3. IntrState' \in [Contexts -> BOOLEAN] /\ Intr' \in [Cpus -> BOOLEAN]
        BY <1>3, <2>1, <2>2 DEF LockAcquire, LockTryAcquire
    <2>4. pc' \in [Contexts -> Labels]
        BY <1>3 DEF LockAcquire, LockTryAcquire, Goto
    <2> QED BY <1>3, <2>3, <2>4 DEF LockAcquire, LockTryAcquire
<1>4. ASSUME NEW x \in Contexts, LockStep(x) PROVE TypeOK'
    <2>1. CASE MonitorArm(x)
        BY <2>1 DEF MonitorArm, Goto
    <2>2. CASE CompareExchange(x)
        BY <2>2 DEF CompareExchange, Goto, WakeMonitors
    <2>3. CASE CompareExchangeFails(x)
        BY <2>3 DEF CompareExchangeFails, Goto
    <2>4. CASE Mwait(x)
        BY <2>4 DEF Mwait, Goto
    <2>5. CASE SetHolder(x)
        BY <2>5 DEF SetHolder, Goto, WakeMonitors
    <2>6. CASE TryAcquireFails(x)
        BY <2>6 DEF TryAcquireFails, Goto
    <2>7. CASE ClearHolder(x)
        BY <2>7 DEF ClearHolder, Goto, WakeMonitors
    <2>8. CASE FreeLock(x)
        BY <2>8 DEF FreeLock, Goto, WakeMonitors
    <2>9. CASE RestoreInterrupts(x)
        BY <2>9 DEF RestoreInterrupts, Goto
    <2> QED BY <1>4, <2>1, <2>2, <2>3, <2>4, <2>5, <2>6, <2>7, <2>8, <2>9 DEF LockStep
<1> QED BY <1>1, <1>2, <1>3, <1>4 DEF Next

\* Every step keeps State and Holder exact.
LEMMA OwnerStep == TypeOK /\ OwnerInv /\ [Next]_vars => OwnerInv'
<1> SUFFICES ASSUME TypeOK, OwnerInv, [Next]_vars PROVE OwnerInv'
    OBVIOUS
<1> USE CpusAssumption DEF TypeOK
<1>1. CASE UNCHANGED <<State, Holder, pc>>
    BY <1>1 DEF OwnerInv, Owns
<1>2. ASSUME NEW c \in Cpus, Interrupt(c) \/ InterruptReturn(c) \/ CallerTogglesInterrupts(c)
      PROVE  OwnerInv'
    BY <1>1, <1>2 DEF Interrupt, InterruptReturn, CallerTogglesInterrupts
<1>3. ASSUME NEW x \in Contexts, NEW l,
             ~Owns(x), l \notin {"won", "held", "cleared"},
             Goto(x, l), UNCHANGED <<State, Holder>>
      PROVE  OwnerInv'
    <2>1. \A y \in Contexts : Owns(y)' <=> Owns(y)
        BY <1>3 DEF Owns, Goto
    <2>2. \A y \in Contexts : (pc[y] = "held")' <=> pc[y] = "held"
        BY <1>3 DEF Owns, Goto
    <2> QED BY <1>3, <2>1, <2>2 DEF OwnerInv
<1>4. ASSUME NEW x \in Contexts, LockAcquire(x) \/ LockTryAcquire(x) PROVE OwnerInv'
    BY <1>3, <1>4 DEF LockAcquire, LockTryAcquire, Owns
<1>5. ASSUME NEW x \in Contexts, LockStep(x) PROVE OwnerInv'
    <2>1. CASE MonitorArm(x)
        BY <1>3, <2>1 DEF MonitorArm, Owns
    <2>2. CASE CompareExchange(x)
        <3>1. \A y \in Contexts : Owns(y)' <=> y = x
            BY <2>2 DEF CompareExchange, Goto, Owns, OwnerInv
        <3>2. \A y \in Contexts : pc'[y] # "held" /\ pc[y] # "held"
            BY <2>2 DEF CompareExchange, Goto, Owns, OwnerInv
        <3> QED BY <2>2, <3>1, <3>2 DEF CompareExchange, OwnerInv
    <2>3. CASE CompareExchangeFails(x)
        BY <1>3, <2>3 DEF CompareExchangeFails, Owns
    <2>4. CASE Mwait(x)
        BY <1>1, <1>3, <2>4 DEF Mwait, Owns
    <2>5. CASE SetHolder(x)
        <3>1. Owns(x) /\ \A y \in Contexts : Owns(y)' <=> y = x
            BY <2>5 DEF SetHolder, Goto, Owns, OwnerInv
        <3>2. pc'[x] = "held" /\ \A y \in Contexts : y # x => pc'[y] # "held"
            BY <2>5, <3>1 DEF SetHolder, Goto, Owns
        <3> QED BY <2>5, <3>1, <3>2 DEF SetHolder, OwnerInv
    <2>6. CASE TryAcquireFails(x)
        BY <1>3, <2>6 DEF TryAcquireFails, Owns
    <2>7. CASE ClearHolder(x)
        <3>1. Owns(x) /\ \A y \in Contexts : Owns(y)' <=> y = x
            BY <2>7 DEF ClearHolder, Goto, Owns, OwnerInv
        <3>2. \A y \in Contexts : pc'[y] # "held"
            BY <2>7, <3>1 DEF ClearHolder, Goto, Owns, OwnerInv
        <3> QED BY <2>7, <3>1, <3>2 DEF ClearHolder, OwnerInv
    <2>8. CASE FreeLock(x)
        <3>1. Owns(x) /\ \A y \in Contexts : ~Owns(y)'
            BY <2>8 DEF FreeLock, Goto, Owns, OwnerInv
        <3>2. \A y \in Contexts : pc'[y] # "held" /\ pc[y] # "held"
            BY <2>8, <3>1 DEF FreeLock, Goto, Owns, OwnerInv
        <3> QED BY <2>8, <3>1, <3>2 DEF FreeLock, OwnerInv
    <2>9. CASE RestoreInterrupts(x)
        BY <1>3, <2>9 DEF RestoreInterrupts, Owns
    <2> QED BY <1>5, <2>1, <2>2, <2>3, <2>4, <2>5, <2>6, <2>7, <2>8, <2>9 DEF LockStep
<1> QED BY <1>1, <1>2, <1>4, <1>5 DEF Next, vars

\* Every step keeps interrupts off where the lock needs them off.
LEMMA IntrStep == TypeOK /\ IntrInv /\ [Next]_vars => IntrInv'
<1> SUFFICES ASSUME TypeOK, IntrInv, [Next]_vars PROVE IntrInv'
    OBVIOUS
<1> USE ContextFacts DEF TypeOK
<1>1. CASE UNCHANGED <<Intr, IntrState, InIsr, pc>>
    BY <1>1 DEF IntrInv
<1>2. ASSUME NEW c \in Cpus, Interrupt(c) \/ InterruptReturn(c) \/ CallerTogglesInterrupts(c)
      PROVE  IntrInv'
    <2>0. pc' = pc /\ IntrState' = IntrState
        BY <1>2 DEF Interrupt, InterruptReturn, CallerTogglesInterrupts
    <2> SUFFICES ASSUME NEW d \in Cpus
                 PROVE  /\ pc[<<d, "thread">>] # "out" => ~Intr'[d] /\ ~InIsr'[d]
                        /\ pc[<<d, "isr">>] # "out" => InIsr'[d] /\ ~IntrState[<<d, "isr">>]
                        /\ InIsr'[d] => ~Intr'[d]
        BY <2>0 DEF IntrInv
    <2>1. CASE Interrupt(c)
        <3>1. CASE d = c
            BY <2>1, <3>1 DEF Interrupt, IntrInv
        <3>2. CASE d # c
            BY <2>1, <3>2 DEF Interrupt, IntrInv
        <3> QED BY <3>1, <3>2
    <2>2. CASE InterruptReturn(c)
        <3>1. CASE d = c
            BY <2>2, <3>1 DEF InterruptReturn, IntrInv
        <3>2. CASE d # c
            BY <2>2, <3>2 DEF InterruptReturn, IntrInv
        <3> QED BY <3>1, <3>2
    <2>3. CASE CallerTogglesInterrupts(c)
        <3>1. CASE d = c
            BY <2>3, <3>1 DEF CallerTogglesInterrupts, IntrInv
        <3>2. CASE d # c
            BY <2>3, <3>2 DEF CallerTogglesInterrupts, IntrInv
        <3> QED BY <3>1, <3>2
    <2> QED BY <1>2, <2>1, <2>2, <2>3
\* A step of a context that was and stays inside.
<1>3. ASSUME NEW x \in Contexts, NEW l, pc[x] # "out",
             Goto(x, l), UNCHANGED <<Intr, IntrState, InIsr>>
      PROVE  IntrInv'
    <2>1. \A y \in Contexts : pc'[y] # "out" => pc[y] # "out"
        BY <1>3 DEF Goto
    <2> QED BY <1>3, <2>1 DEF IntrInv
<1>4. ASSUME NEW x \in Contexts, LockAcquire(x) \/ LockTryAcquire(x) PROVE IntrInv'
    <2>1. PICK l : /\ Executes(x)
                   /\ IntrState' = [IntrState EXCEPT ![x] = Intr[Cpu(x)]]
                   /\ Intr' = [Intr EXCEPT ![Cpu(x)] = FALSE]
                   /\ pc' = [pc EXCEPT ![x] = l]
                   /\ InIsr' = InIsr
        BY <1>4 DEF LockAcquire, LockTryAcquire, Goto
    <2>2. CASE x = <<Cpu(x), "thread">>
        <3>1. ~InIsr[Cpu(x)]
            BY <2>1, <2>2, ExecutesFacts
        <3> QED BY <2>1, <2>2, <3>1 DEF IntrInv
    <2>3. CASE x = <<Cpu(x), "isr">>
        <3>1. InIsr[Cpu(x)]
            BY <2>1, <2>3, ExecutesFacts
        <3> QED BY <2>1, <2>3, <3>1 DEF IntrInv
    <2> QED BY <2>2, <2>3
<1>5. ASSUME NEW x \in Contexts, RestoreInterrupts(x) PROVE IntrInv'
    <2>1. /\ Executes(x) /\ pc[x] # "out"
          /\ Intr' = [Intr EXCEPT ![Cpu(x)] = IntrState[x]]
          /\ pc' = [pc EXCEPT ![x] = "out"]
          /\ InIsr' = InIsr /\ IntrState' = IntrState
        BY <1>5 DEF RestoreInterrupts, Goto
    <2>2. CASE x = <<Cpu(x), "thread">>
        <3>1. ~InIsr[Cpu(x)]
            BY <2>1, <2>2, ExecutesFacts
        <3> QED BY <2>1, <2>2, <3>1 DEF IntrInv
    <2>3. CASE x = <<Cpu(x), "isr">>
        <3>1. InIsr[Cpu(x)] /\ ~IntrState[x]
            BY <2>1, <2>3, ExecutesFacts DEF IntrInv
        <3> QED BY <2>1, <2>3, <3>1 DEF IntrInv
    <2> QED BY <2>2, <2>3
<1>6. ASSUME NEW x \in Contexts, LockStep(x) PROVE IntrInv'
    <2>1. CASE RestoreInterrupts(x)
        BY <1>5, <2>1
    <2>2. CASE MonitorArm(x) \/ CompareExchangeFails(x) \/ TryAcquireFails(x)
        BY <1>3, <2>2 DEF MonitorArm, CompareExchangeFails, TryAcquireFails
    <2>3. CASE CompareExchange(x) \/ SetHolder(x) \/ ClearHolder(x) \/ FreeLock(x)
        BY <1>3, <2>3 DEF CompareExchange, SetHolder, ClearHolder, FreeLock
    <2>4. CASE Mwait(x)
        BY <1>1, <1>3, <2>4 DEF Mwait
    <2> QED BY <1>6, <2>1, <2>2, <2>3, <2>4 DEF LockStep
<1> QED BY <1>1, <1>2, <1>4, <1>6 DEF Next, vars

----------------------------------------------------------------------------
\* The inductive invariant holds in every reachable state of the lock.
THEOREM LockInvariantHolds == Spec => []LockInv
<1>1. LockSystemInit => LockInv
    BY LockInitially
<1>2. LockInv /\ [Next]_vars => LockInv'
    BY TypeStep, OwnerStep, IntrStep DEF LockInv
<1> QED BY <1>1, <1>2, PTL DEF Spec

\* SpinlockAcquire and MonitorLockAcquire exclude each other's callers, and
\* SpinlockIsOwner is right, on any number of CPUs.
THEOREM LockIsExclusive == Spec => []OwnerExact
<1>1. LockInv => OwnerExact
    <2> SUFFICES ASSUME LockInv PROVE OwnerExact
        OBVIOUS
    <2>1. Owners = {x \in Contexts : Owns(x)}
        BY DEF Owners, Owns
    <2>2. State => Cardinality(Owners) = 1
        <3> SUFFICES ASSUME State PROVE Cardinality(Owners) = 1
            OBVIOUS
        <3>1. PICK x \in Contexts : Owns(x)
            BY DEF LockInv, OwnerInv
        <3>2. Owners = {x}
            BY <2>1, <3>1 DEF LockInv, OwnerInv
        <3> QED BY <3>2, FS_Singleton
    <2>3. ~State => Cardinality(Owners) = 0
        <3> SUFFICES ASSUME ~State PROVE Cardinality(Owners) = 0
            OBVIOUS
        <3>1. Owners = {}
            BY <2>1 DEF LockInv, OwnerInv
        <3> QED BY <3>1, FS_EmptySet
    <2>4. \A c \in Cpus : Holder = c <=> \E x \in Contexts : Cpu(x) = c /\ pc[x] = "held"
        BY CpusAssumption DEF LockInv, OwnerInv
    <2> QED BY <2>2, <2>3, <2>4 DEF OwnerExact
<1> QED BY <1>1, LockInvariantHolds, PTL

\* An interrupt handler never spins on a lock held by the code it interrupted.
THEOREM HandlerIsSafe == Spec => []NoSelfDeadlock
<1>1. LockInv => NoSelfDeadlock
    BY DEF LockInv, IntrInv, NoSelfDeadlock
<1> QED BY <1>1, LockInvariantHolds, PTL

\* SpinlockInv: SpinlockIsOwner is right about who owns the lock, and a handler does not
\* wait for its own CPU.
THEOREM SpinlockIsCorrect == Spec => []SpinlockInv
BY LockIsExclusive, HandlerIsSafe, PTL DEF SpinlockInv

----------------------------------------------------------------------------
\* The reader/writer spinlocks

QueuedWriter == {"wspin", "wdequeue"}
Counted == {"rconfess", "rheld"}
Owning == {"wdequeue", "wheld", "rcount", "rconfess"}

\* Moving one CPU into or out of a set of control points changes the number
\* of CPUs there by one, and by nothing when it stays inside or outside.
LEMMA MoveCount ==
    ASSUME rwPc \in [RwCpus -> PcValues], NEW c \in RwCpus, NEW l \in PcValues,
           RwGoto(c, l), NEW S
    PROVE  /\ Cardinality(At(S)) \in Nat
           /\ Cardinality(At(S)) < 65536
           /\ Cardinality(At(S))' \in Nat
           /\ Cardinality(At(S))' < 65536
           /\ (rwPc[c] \in S <=> l \in S) => Cardinality(At(S))' = Cardinality(At(S))
           /\ rwPc[c] \notin S /\ l \in S => Cardinality(At(S))' = Cardinality(At(S)) + 1
           /\ rwPc[c] \in S /\ l \notin S => Cardinality(At(S))' = Cardinality(At(S)) - 1
<1> DEFINE A == At(S)
           B == {d \in RwCpus : [rwPc EXCEPT ![c] = l][d] \in S}
<1>1. At(S)' = B
  BY DEF At, RwGoto
<1>2. IsFiniteSet(A) /\ IsFiniteSet(B)
  BY RwAssumption, FS_Subset DEF At
<1>3. /\ Cardinality(A) \in Nat /\ Cardinality(A) < 65536
      /\ Cardinality(B) \in Nat /\ Cardinality(B) < 65536
  <2>1. Cardinality(A) \in Nat /\ Cardinality(B) \in Nat /\ Cardinality(RwCpus) \in Nat
    BY <1>2, RwAssumption, FS_CardinalityType
  <2>2. Cardinality(A) <= Cardinality(RwCpus) /\ Cardinality(B) <= Cardinality(RwCpus)
    BY RwAssumption, FS_Subset DEF At
  <2> QED
    BY <2>1, <2>2, RwAssumption
<1>4. (rwPc[c] \in S <=> l \in S) => B = A
  BY DEF At
<1>5. ASSUME rwPc[c] \notin S, l \in S
      PROVE  Cardinality(B) = Cardinality(A) + 1
  <2>1. B = A \cup {c} /\ c \notin A
    BY <1>5 DEF At
  <2> QED
    BY <2>1, <1>2, FS_AddElement
<1>6. ASSUME rwPc[c] \in S, l \notin S
      PROVE  Cardinality(B) = Cardinality(A) - 1
  <2>1. B = A \ {c} /\ c \in A
    BY <1>6 DEF At
  <2> QED
    BY <2>1, <1>2, FS_RemoveElement
<1> HIDE DEF A, B
<1>7. Cardinality(At(S)) = Cardinality(A) /\ Cardinality(At(S))' = Cardinality(B)
  BY <1>1 DEF A
<1> QED
  BY <1>3, <1>4, <1>5, <1>6, <1>7

\* No CPU is among the owners while ActiveWriter is 0, and no CPU is counted
\* as a reader while ActiveReaders is 0.
LEMMA ZeroMeansNobody ==
    ASSUME CountersExact
    PROVE  /\ ActiveWriter = 0 => \A d \in RwCpus : rwPc[d] \notin Owning
           /\ ActiveReaders = 0 => \A d \in RwCpus : rwPc[d] \notin Counted
           /\ WaitingWriters = 0 => \A d \in RwCpus : rwPc[d] \notin QueuedWriter
<1>1. IsFiniteSet(At(Owning)) /\ IsFiniteSet(At(Counted)) /\ IsFiniteSet(At(QueuedWriter))
  BY RwAssumption, FS_Subset DEF At
<1>2. /\ ActiveWriter = 0 => At(Owning) = {}
      /\ ActiveReaders = 0 => At(Counted) = {}
      /\ WaitingWriters = 0 => At(QueuedWriter) = {}
  BY <1>1, FS_EmptySet DEF CountersExact, Owning, Counted, QueuedWriter
<1> QED
  BY <1>2 DEF At

(***************************************************************************)
(* The inductive invariant.  Exclusion alone is not inductive: it needs    *)
(* that two CPUs are never owners (writer or pseudo-writer) together, that *)
(* a writer never shares the lock with a counted reader, and that the      *)
(* counters the compare-and-swaps test mean what they say.                 *)
(***************************************************************************)
OneOwner == \A c, d \in RwCpus : c # d => ~(rwPc[c] \in Owning /\ rwPc[d] \in Owning)

WriterAlone == \A c, d \in RwCpus :
    rwPc[c] \in {"wdequeue", "wheld"} => rwPc[d] \notin Counted

IInv == RwTypeOK /\ CountersExact /\ OneOwner /\ WriterAlone

LEMMA InitIInv == RwSpinlockInit => IInv
<1> SUFFICES ASSUME RwSpinlockInit PROVE IInv
  OBVIOUS
<1>1. RwTypeOK
  BY DEF RwSpinlockInit, RwTypeOK, IsWord, PcValues
<1>2. At(QueuedWriter) = {} /\ At(Counted) = {} /\ At(Owning) = {}
  BY DEF RwSpinlockInit, At, QueuedWriter, Counted, Owning
<1>3. CountersExact
  BY <1>2, FS_EmptySet DEF RwSpinlockInit, CountersExact, QueuedWriter, Counted, Owning
<1>4. OneOwner /\ WriterAlone
  BY DEF RwSpinlockInit, OneOwner, WriterAlone, Owning, Counted
<1> QED
  BY <1>1, <1>3, <1>4 DEF IInv

\* What a step of CPU c does to the counters and to the other CPUs.
LEMMA StepIInv ==
    ASSUME IInv, NEW c \in RwCpus,
           WriterEnqueue(c) \/ ReaderArrive(c) \/ AcquireStep(c) \/ ReleaseStep(c)
    PROVE  IInv'
<1> DEFINE Q == Cardinality(At(QueuedWriter))
           R == Cardinality(At(Counted))
           O == Cardinality(At(Owning))
<1> USE DEF Increment16, Decrement16
<1>0. /\ rwPc \in [RwCpus -> PcValues] /\ RwTypeOK /\ OneOwner /\ WriterAlone
      /\ WaitingWriters = Q /\ ActiveReaders = R /\ ActiveWriter = O
      /\ ActiveWriter \in {0, 1}
  BY DEF IInv, RwTypeOK, CountersExact, QueuedWriter, Counted, Owning
<1>z. /\ ActiveWriter = 0 => \A d \in RwCpus : rwPc[d] \notin Owning
      /\ ActiveReaders = 0 => \A d \in RwCpus : rwPc[d] \notin Counted
  BY ZeroMeansNobody DEF IInv
<1>c. ASSUME /\ WaitingWriters' = Q' /\ ActiveReaders' = R' /\ ActiveWriter' = O'
             /\ ActiveWriter' \in {0, 1}
      PROVE  CountersExact'
  BY <1>c DEF CountersExact, QueuedWriter, Counted, Owning
<1>m. ASSUME NEW l \in PcValues, RwGoto(c, l), NEW S
      PROVE  /\ Cardinality(At(S)) \in Nat
             /\ Cardinality(At(S)) < 65536
             /\ Cardinality(At(S))' \in Nat
             /\ Cardinality(At(S))' < 65536
             /\ (rwPc[c] \in S <=> l \in S) => Cardinality(At(S))' = Cardinality(At(S))
             /\ rwPc[c] \notin S /\ l \in S => Cardinality(At(S))' = Cardinality(At(S)) + 1
             /\ rwPc[c] \in S /\ l \notin S => Cardinality(At(S))' = Cardinality(At(S)) - 1
  BY <1>0, <1>m, MoveCount
<1>t. ASSUME NEW l \in PcValues, RwGoto(c, l),
             WaitingWriters' \in Nat, WaitingWriters' < 65536,
             ActiveReaders' \in Nat, ActiveReaders' < 65536,
             ActiveWriter' \in {0, 1}
      PROVE  RwTypeOK'
  <2>1. rwPc' \in [RwCpus -> PcValues]
    BY <1>0, <1>t DEF RwGoto
  <2>2. IsWord(WaitingWriters)' /\ IsWord(ActiveReaders)' /\ IsWord(ActiveWriter)'
    BY <1>t DEF IsWord
  <2> QED
    BY <2>1, <2>2 DEF RwTypeOK
<1>1. CASE WriterEnqueue(c)
  <2>1. "wspin" \in PcValues /\ RwGoto(c, "wspin") /\ rwPc[c] = "out"
    BY <1>1 DEF WriterEnqueue, PcValues
  <2>2. /\ Q' = Q + 1 /\ R' = R /\ O' = O
        /\ Q \in Nat /\ R \in Nat /\ O \in Nat /\ Q' \in Nat /\ R' \in Nat /\ O' \in Nat
        /\ Q' < 65536 /\ R' < 65536 /\ O' < 65536 /\ Q < 65536 /\ R < 65536
    BY <2>1, <1>m DEF QueuedWriter, Counted, Owning
  <2> HIDE DEF Q, R, O
  <2>3. /\ WaitingWriters' = Q' /\ ActiveReaders' = R' /\ ActiveWriter' = O'
        /\ ActiveWriter' \in {0, 1}
    BY <1>1, <1>0, <2>2 DEF WriterEnqueue
  <2>4. RwTypeOK'
    BY <2>1, <2>2, <2>3, <1>t
  <2>5. OneOwner' /\ WriterAlone'
    BY <1>1, <1>0, <1>z, <2>1 DEF WriterEnqueue, RwGoto, OneOwner, WriterAlone, Owning, Counted
  <2> QED
    BY <2>3, <2>4, <2>5, <1>c DEF IInv, Q, R, O
<1>2. CASE WriterCompareExchange(c)
  <2>1. "wdequeue" \in PcValues /\ RwGoto(c, "wdequeue") /\ rwPc[c] = "wspin"
    BY <1>2 DEF WriterCompareExchange, PcValues
  <2>2. /\ Q' = Q /\ R' = R /\ O' = O + 1
        /\ Q \in Nat /\ R \in Nat /\ O \in Nat /\ Q' \in Nat /\ R' \in Nat /\ O' \in Nat
        /\ Q' < 65536 /\ R' < 65536 /\ O' < 65536 /\ Q < 65536 /\ R < 65536
    BY <2>1, <1>m DEF QueuedWriter, Counted, Owning
  <2> HIDE DEF Q, R, O
  <2>3. /\ WaitingWriters' = Q' /\ ActiveReaders' = R' /\ ActiveWriter' = O'
        /\ ActiveWriter' \in {0, 1}
    BY <1>2, <1>0, <2>2 DEF WriterCompareExchange
  <2>4. RwTypeOK'
    BY <2>1, <2>2, <2>3, <1>t
  <2>5. OneOwner' /\ WriterAlone'
    BY <1>2, <1>0, <1>z, <2>1 DEF WriterCompareExchange, RwGoto, OneOwner, WriterAlone, Owning, Counted
  <2> QED
    BY <2>3, <2>4, <2>5, <1>c DEF IInv, Q, R, O
<1>3. CASE WriterDequeue(c)
  <2>1. "wheld" \in PcValues /\ RwGoto(c, "wheld") /\ rwPc[c] = "wdequeue"
    BY <1>3 DEF WriterDequeue, PcValues
  <2>2. /\ Q' = Q - 1 /\ R' = R /\ O' = O
        /\ Q \in Nat /\ R \in Nat /\ O \in Nat /\ Q' \in Nat /\ R' \in Nat /\ O' \in Nat
        /\ Q' < 65536 /\ R' < 65536 /\ O' < 65536 /\ Q < 65536 /\ R < 65536
    BY <2>1, <1>m DEF QueuedWriter, Counted, Owning
  <2> HIDE DEF Q, R, O
  <2>3. /\ WaitingWriters' = Q' /\ ActiveReaders' = R' /\ ActiveWriter' = O'
        /\ ActiveWriter' \in {0, 1}
    BY <1>3, <1>0, <2>2 DEF WriterDequeue
  <2>4. RwTypeOK'
    BY <2>1, <2>2, <2>3, <1>t
  <2>5. OneOwner' /\ WriterAlone'
    BY <1>3, <1>0, <1>z, <2>1 DEF WriterDequeue, RwGoto, OneOwner, WriterAlone, Owning, Counted
  <2> QED
    BY <2>3, <2>4, <2>5, <1>c DEF IInv, Q, R, O
<1>4. CASE ReaderArrive(c)
  <2>1. "rspin" \in PcValues /\ RwGoto(c, "rspin") /\ rwPc[c] = "out"
    BY <1>4 DEF ReaderArrive, PcValues
  <2>2. /\ Q' = Q /\ R' = R /\ O' = O
        /\ Q \in Nat /\ R \in Nat /\ O \in Nat /\ Q' \in Nat /\ R' \in Nat /\ O' \in Nat
        /\ Q' < 65536 /\ R' < 65536 /\ O' < 65536 /\ Q < 65536 /\ R < 65536
    BY <2>1, <1>m DEF QueuedWriter, Counted, Owning
  <2> HIDE DEF Q, R, O
  <2>3. /\ WaitingWriters' = Q' /\ ActiveReaders' = R' /\ ActiveWriter' = O'
        /\ ActiveWriter' \in {0, 1}
    BY <1>4, <1>0, <2>2 DEF ReaderArrive
  <2>4. RwTypeOK'
    BY <2>1, <2>2, <2>3, <1>t
  <2>5. OneOwner' /\ WriterAlone'
    BY <1>4, <1>0, <1>z, <2>1 DEF ReaderArrive, RwGoto, OneOwner, WriterAlone, Owning, Counted
  <2> QED
    BY <2>3, <2>4, <2>5, <1>c DEF IInv, Q, R, O
<1>5. CASE ReaderCompareExchange(c)
  <2>1. "rcount" \in PcValues /\ RwGoto(c, "rcount") /\ rwPc[c] = "rspin"
    BY <1>5 DEF ReaderCompareExchange, PcValues
  <2>2. /\ Q' = Q /\ R' = R /\ O' = O + 1
        /\ Q \in Nat /\ R \in Nat /\ O \in Nat /\ Q' \in Nat /\ R' \in Nat /\ O' \in Nat
        /\ Q' < 65536 /\ R' < 65536 /\ O' < 65536 /\ Q < 65536 /\ R < 65536
    BY <2>1, <1>m DEF QueuedWriter, Counted, Owning
  <2> HIDE DEF Q, R, O
  <2>3. /\ WaitingWriters' = Q' /\ ActiveReaders' = R' /\ ActiveWriter' = O'
        /\ ActiveWriter' \in {0, 1}
    BY <1>5, <1>0, <2>2 DEF ReaderCompareExchange
  <2>4. RwTypeOK'
    BY <2>1, <2>2, <2>3, <1>t
  <2>5. OneOwner' /\ WriterAlone'
    BY <1>5, <1>0, <1>z, <2>1 DEF ReaderCompareExchange, RwGoto, OneOwner, WriterAlone, Owning, Counted
  <2> QED
    BY <2>3, <2>4, <2>5, <1>c DEF IInv, Q, R, O
<1>6. CASE ReaderCount(c)
  <2>1. "rconfess" \in PcValues /\ RwGoto(c, "rconfess") /\ rwPc[c] = "rcount"
    BY <1>6 DEF ReaderCount, PcValues
  <2>2. /\ Q' = Q /\ R' = R + 1 /\ O' = O
        /\ Q \in Nat /\ R \in Nat /\ O \in Nat /\ Q' \in Nat /\ R' \in Nat /\ O' \in Nat
        /\ Q' < 65536 /\ R' < 65536 /\ O' < 65536 /\ Q < 65536 /\ R < 65536
    BY <2>1, <1>m DEF QueuedWriter, Counted, Owning
  <2> HIDE DEF Q, R, O
  <2>3. /\ WaitingWriters' = Q' /\ ActiveReaders' = R' /\ ActiveWriter' = O'
        /\ ActiveWriter' \in {0, 1}
    BY <1>6, <1>0, <2>2 DEF ReaderCount
  <2>4. RwTypeOK'
    BY <2>1, <2>2, <2>3, <1>t
  <2>5. OneOwner' /\ WriterAlone'
    BY <1>6, <1>0, <1>z, <2>1 DEF ReaderCount, RwGoto, OneOwner, WriterAlone, Owning, Counted
  <2> QED
    BY <2>3, <2>4, <2>5, <1>c DEF IInv, Q, R, O
<1>7. CASE ReaderConfess(c)
  <2>1. "rheld" \in PcValues /\ RwGoto(c, "rheld") /\ rwPc[c] = "rconfess"
    BY <1>7 DEF ReaderConfess, PcValues
  <2>2. /\ Q' = Q /\ R' = R /\ O' = O - 1
        /\ Q \in Nat /\ R \in Nat /\ O \in Nat /\ Q' \in Nat /\ R' \in Nat /\ O' \in Nat
        /\ Q' < 65536 /\ R' < 65536 /\ O' < 65536 /\ Q < 65536 /\ R < 65536
    BY <2>1, <1>m DEF QueuedWriter, Counted, Owning
  <2> HIDE DEF Q, R, O
  <2>3. /\ WaitingWriters' = Q' /\ ActiveReaders' = R' /\ ActiveWriter' = O'
        /\ ActiveWriter' \in {0, 1}
    BY <1>7, <1>0, <2>2 DEF ReaderConfess
  <2>4. RwTypeOK'
    BY <2>1, <2>2, <2>3, <1>t
  <2>5. OneOwner' /\ WriterAlone'
    BY <1>7, <1>0, <1>z, <2>1 DEF ReaderConfess, RwGoto, OneOwner, WriterAlone, Owning, Counted
  <2> QED
    BY <2>3, <2>4, <2>5, <1>c DEF IInv, Q, R, O
<1>8. CASE ReleaseExclusive(c)
  <2>1. "out" \in PcValues /\ RwGoto(c, "out") /\ rwPc[c] = "wheld"
    BY <1>8 DEF ReleaseExclusive, PcValues
  <2>2. /\ Q' = Q /\ R' = R /\ O' = O - 1
        /\ Q \in Nat /\ R \in Nat /\ O \in Nat /\ Q' \in Nat /\ R' \in Nat /\ O' \in Nat
        /\ Q' < 65536 /\ R' < 65536 /\ O' < 65536 /\ Q < 65536 /\ R < 65536
    BY <2>1, <1>m DEF QueuedWriter, Counted, Owning
  <2> HIDE DEF Q, R, O
  <2>3. /\ WaitingWriters' = Q' /\ ActiveReaders' = R' /\ ActiveWriter' = O'
        /\ ActiveWriter' \in {0, 1}
    BY <1>8, <1>0, <2>2 DEF ReleaseExclusive
  <2>4. RwTypeOK'
    BY <2>1, <2>2, <2>3, <1>t
  <2>5. OneOwner' /\ WriterAlone'
    BY <1>8, <1>0, <1>z, <2>1 DEF ReleaseExclusive, RwGoto, OneOwner, WriterAlone, Owning, Counted
  <2> QED
    BY <2>3, <2>4, <2>5, <1>c DEF IInv, Q, R, O
<1>9. CASE ReleaseShared(c)
  <2>1. "out" \in PcValues /\ RwGoto(c, "out") /\ rwPc[c] = "rheld"
    BY <1>9 DEF ReleaseShared, PcValues
  <2>2. /\ Q' = Q /\ R' = R - 1 /\ O' = O
        /\ Q \in Nat /\ R \in Nat /\ O \in Nat /\ Q' \in Nat /\ R' \in Nat /\ O' \in Nat
        /\ Q' < 65536 /\ R' < 65536 /\ O' < 65536 /\ Q < 65536 /\ R < 65536
    BY <2>1, <1>m DEF QueuedWriter, Counted, Owning
  <2> HIDE DEF Q, R, O
  <2>3. /\ WaitingWriters' = Q' /\ ActiveReaders' = R' /\ ActiveWriter' = O'
        /\ ActiveWriter' \in {0, 1}
    BY <1>9, <1>0, <2>2 DEF ReleaseShared
  <2>4. RwTypeOK'
    BY <2>1, <2>2, <2>3, <1>t
  <2>5. OneOwner' /\ WriterAlone'
    BY <1>9, <1>0, <1>z, <2>1 DEF ReleaseShared, RwGoto, OneOwner, WriterAlone, Owning, Counted
  <2> QED
    BY <2>3, <2>4, <2>5, <1>c DEF IInv, Q, R, O
<1> QED
  BY <1>1, <1>2, <1>3, <1>4, <1>5, <1>6, <1>7, <1>8, <1>9 DEF AcquireStep, ReleaseStep

THEOREM InvariantHolds == RwSpec => []IInv
<1>1. IInv /\ UNCHANGED rwVars => IInv'
  BY DEF IInv, RwTypeOK, CountersExact, At, OneOwner, WriterAlone, rwVars
<1>2. IInv /\ [RwNext]_rwVars => IInv'
  BY <1>1, StepIInv DEF RwNext
<1> QED
  BY InitIInv, <1>2, PTL DEF RwSpec

\* The counters of the lock stay exact, and within a WORD, for every number
\* of CPUs below 2^16.
THEOREM CountersAreExact == RwSpec => [](RwTypeOK /\ CountersExact)
BY InvariantHolds, PTL DEF IInv

\* RwSpinlockAcquire(Exclusive) never returns to a CPU while another CPU holds
\* the lock in either mode, for every number of CPUs.
THEOREM WriterExcludes == RwSpec => []Exclusion
<1>1. IInv => Exclusion
  BY DEF IInv, OneOwner, WriterAlone, Exclusion, Owning, Counted
<1> QED
  BY InvariantHolds, <1>1, PTL

\* The lock as the run checks it: RwSpinlockAcquire and RwSpinlockRelease keep the
\* counters exact and writers alone, for every number of CPUs.
THEOREM RwSpinlockIsCorrect == RwSpec => []RwSpinlockInv
BY CountersAreExact, WriterExcludes, PTL DEF RwSpinlockInv

----------------------------------------------------------------------------
\* The recursive lock

\* How far a CPU is in RecRwSpinlockAcquire and RecRwSpinlockRelease tells how far it
\* is in the lock below, and how many acquisitions it has.
RecStages == \A c \in RwCpus :
    /\ rec[c] = "idle" <=> rwPc[c] = "out"
    /\ rec[c] \in {"user", "clear", "release"} => rwPc[c] \in {"wheld", "rheld"}
    /\ rec[c] # "user" => calls[c] = 0
    /\ rec[c] = "user" => calls[c] >= 1
    /\ rec[c] = "user" /\ rwPc[c] = "rheld" => calls[c] = 1

\* Without a holder the depth is back at 0.
NoHolderNoDepth == RecHolder = NoHolder => RecRwDepth = 0

RecIInv == IInv /\ RecTypeOK /\ HolderExact /\ RecStages /\ NoHolderNoDepth

\* While a CPU has the lock below in either mode and is not the recursive holder's
\* CPU, there is no recursive holder: a holder excludes it.
LEMMA HeldExcludesHolder ==
    ASSUME RecIInv, NEW c \in RwCpus, rwPc[c] \in {"wheld", "rheld"}, RecHolder # c
    PROVE  RecHolder = NoHolder /\ RecRwDepth = 0
<1>1. Exclusion /\ WriterAlone /\ OneOwner
  BY DEF RecIInv, IInv, OneOwner, WriterAlone, Exclusion, Owning, Counted
<1>2. ASSUME NEW d \in RwCpus, RecHolder = d PROVE FALSE
  <2>1. rwPc[d] = "wheld" /\ d # c
    BY <1>2 DEF RecIInv, HolderExact
  <2> QED
    BY <2>1, <1>1 DEF Exclusion
<1> QED
  BY <1>2 DEF RecIInv, RecTypeOK, NoHolderNoDepth

\* A step of the recursive lock is a step of the lock below, or leaves it alone.
LEMMA RecStepIsRwStep ==
    ASSUME NEW c \in RwCpus, AcquireFirst(c) \/ AcquireAgain(c) \/ RecStep(c)
    PROVE  \/ WriterEnqueue(c) \/ ReaderArrive(c) \/ AcquireStep(c) \/ ReleaseStep(c)
           \/ UNCHANGED rwVars
BY DEF AcquireFirst, AcquireAgain, RecStep, RecAcquireStep, Acquired, RecReleaseExclusive,
       RecReleaseShared, ClearRecHolder, ReleaseRw, ReleaseStep

LEMMA RecInitIInv == RecRwSpinlockInit => RecIInv
<1> SUFFICES ASSUME RecRwSpinlockInit PROVE RecIInv
  OBVIOUS
<1>1. IInv
  BY InitIInv DEF RecRwSpinlockInit
<1>2. RecTypeOK
  BY <1>1, RecAssumption DEF RecRwSpinlockInit, RecTypeOK, IInv
<1>3. HolderExact /\ RecStages /\ NoHolderNoDepth
  BY RecAssumption DEF RecRwSpinlockInit, RwSpinlockInit, HolderExact, RecStages, NoHolderNoDepth
<1> QED
  BY <1>1, <1>2, <1>3 DEF RecIInv

\* What a step of CPU c does to Holder, the depth and the stages of all CPUs.
LEMMA RecStepIInv ==
    ASSUME RecIInv, NEW c \in RwCpus, AcquireFirst(c) \/ AcquireAgain(c) \/ RecStep(c)
    PROVE  RecIInv'
<1>1. IInv'
  <2>1. IInv /\ UNCHANGED rwVars => IInv'
    BY DEF IInv, RwTypeOK, CountersExact, At, OneOwner, WriterAlone, rwVars
  <2> QED
    BY <2>1, RecStepIsRwStep, StepIInv DEF RecIInv
<1>2. RwTypeOK' /\ rwPc \in [RwCpus -> PcValues]
  BY <1>1 DEF IInv, RecIInv, RwTypeOK
<1>3. /\ RecHolder \in RwCpus \cup {NoHolder}
      /\ RecRwDepth \in 0..MaxRecRwDepth
      /\ rec \in [RwCpus -> {"idle", "acquire", "user", "clear", "release"}]
      /\ calls \in [RwCpus -> 0..MaxRecRwDepth]
      /\ HolderExact /\ RecStages /\ NoHolderNoDepth
      /\ MaxRecRwDepth \in Nat /\ MaxRecRwDepth >= 1 /\ NoHolder \notin RwCpus
  BY RecAssumption DEF RecIInv, RecTypeOK
<1> DEFINE Remaining == RecTypeOK' /\ HolderExact' /\ RecStages' /\ NoHolderNoDepth'
<1> SUFFICES Remaining
  BY <1>1 DEF RecIInv
<1>4. CASE AcquireFirst(c)
  <2>1. PICK l \in {"wspin", "rspin"} : rwPc' = [rwPc EXCEPT ![c] = l]
    BY <1>4 DEF AcquireFirst, WriterEnqueue, ReaderArrive, RwGoto
  <2> QED
    BY <1>4, <1>2, <1>3, <2>1
    DEF AcquireFirst, RecGoto, RecTypeOK, HolderExact, RecStages, NoHolderNoDepth
<1>5. CASE RecAcquireStep(c)
  <2>1. PICK l \in {"wdequeue", "wheld", "rcount", "rconfess", "rheld"} :
            rwPc' = [rwPc EXCEPT ![c] = l]
    BY <1>5 DEF RecAcquireStep, AcquireStep, WriterCompareExchange, WriterDequeue,
                ReaderCompareExchange, ReaderCount, ReaderConfess, RwGoto
  <2> QED
    BY <1>5, <1>2, <1>3, <2>1
    DEF RecAcquireStep, RecTypeOK, HolderExact, RecStages, NoHolderNoDepth
<1>6. CASE Acquired(c)
  <2>1. RecHolder # c
    BY <1>6, <1>3 DEF Acquired, HolderExact
  <2>2. RecHolder = NoHolder /\ RecRwDepth = 0
    BY <1>6, <2>1, HeldExcludesHolder DEF Acquired
  <2>3. rwPc' = rwPc
    BY <1>6 DEF Acquired, rwVars
  <2>4. RecTypeOK'
    BY <1>6, <1>2, <1>3, <2>2 DEF Acquired, RecGoto, RecTypeOK
  <2>5. CASE rwPc[c] = "wheld"
    <3>1. RecHolder' = c /\ RecRwDepth' = 1 /\ rec' = [rec EXCEPT ![c] = "user"]
          /\ calls' = [calls EXCEPT ![c] = 1]
      BY <1>6, <2>5 DEF Acquired, RecGoto
    <3> QED
      BY <1>3, <2>2, <2>3, <2>4, <2>5, <3>1 DEF HolderExact, RecStages, NoHolderNoDepth
  <2>6. CASE rwPc[c] = "rheld"
    <3>1. RecHolder' = NoHolder /\ RecRwDepth' = 0 /\ rec' = [rec EXCEPT ![c] = "user"]
          /\ calls' = [calls EXCEPT ![c] = 1]
      BY <1>6, <2>2, <2>6 DEF Acquired, RecGoto
    <3> QED
      BY <1>3, <2>2, <2>3, <2>4, <2>6, <3>1 DEF HolderExact, RecStages, NoHolderNoDepth
  <2> QED
    BY <1>6, <2>5, <2>6 DEF Acquired
<1>7. CASE AcquireAgain(c)
  BY <1>7, <1>2, <1>3
  DEF AcquireAgain, rwVars, RecTypeOK, HolderExact, RecStages, NoHolderNoDepth
<1>8. CASE RecReleaseExclusive(c)
  <2>1. RecHolder = c /\ RecRwDepth = calls[c] /\ calls[c] \in 1..MaxRecRwDepth
    BY <1>8, <1>3 DEF RecReleaseExclusive, HolderExact, RecStages
  <2> QED
    BY <1>8, <1>2, <1>3, <2>1
    DEF RecReleaseExclusive, RecGoto, rwVars, RecTypeOK, HolderExact, RecStages, NoHolderNoDepth
<1>9. CASE RecReleaseShared(c)
  BY <1>9, <1>2, <1>3
  DEF RecReleaseShared, RecGoto, rwVars, RecTypeOK, HolderExact, RecStages, NoHolderNoDepth
<1>10. CASE ClearRecHolder(c)
  <2>1. RecRwDepth = 0 /\ (RecHolder = c \/ RecHolder = NoHolder)
    BY <1>10, <1>3, HeldExcludesHolder DEF ClearRecHolder, HolderExact, RecStages
  <2> QED
    BY <1>10, <1>2, <1>3, <2>1
    DEF ClearRecHolder, RecGoto, rwVars, RecTypeOK, HolderExact, RecStages, NoHolderNoDepth
<1>11. CASE ReleaseRw(c)
  <2>1. rwPc' = [rwPc EXCEPT ![c] = "out"]
    BY <1>11 DEF ReleaseRw, ReleaseExclusive, ReleaseShared, RwGoto
  <2> QED
    BY <1>11, <1>2, <1>3, <2>1
    DEF ReleaseRw, RecGoto, RecTypeOK, HolderExact, RecStages, NoHolderNoDepth
<1> QED
  BY <1>4, <1>5, <1>6, <1>7, <1>8, <1>9, <1>10, <1>11 DEF RecStep

\* The inductive invariant of the recursive lock, for every number of CPUs and every
\* MaxRecursivityDepth.
THEOREM RecInvariantHolds == RecSpec => []RecIInv
<1>1. RecIInv /\ UNCHANGED recVars => RecIInv'
  BY DEF RecIInv, IInv, RwTypeOK, CountersExact, At, OneOwner, WriterAlone, rwVars, recVars,
         RecTypeOK, HolderExact, RecStages, NoHolderNoDepth
<1>2. RecIInv /\ [RecNext]_recVars => RecIInv'
  BY <1>1, RecStepIInv DEF RecNext
<1> QED
  BY RecInitIInv, <1>2, PTL DEF RecSpec

\* The unlocked test of Holder in RecRwSpinlockAcquire is right, its assertions hold and
\* nested acquisitions keep the lock below, for every number of CPUs and every depth.
THEOREM RecRwSpinlockIsCorrect == RecSpec => []RecRwSpinlockInv
<1>1. ASSUME RecIInv PROVE RecRwSpinlockInv
  <2>1. RecTypeOK /\ HolderExact /\ RecStages
    BY <1>1 DEF RecIInv
  <2>2. AcquiredIsFresh
    BY <1>1, <2>1, HeldExcludesHolder DEF AcquiredIsFresh, HolderExact
  <2>3. HeldUntilBalanced
    BY <2>1 DEF RecTypeOK, RecStages, HeldUntilBalanced
  <2> QED
    BY <2>1, <2>2, <2>3 DEF RecRwSpinlockInv
<1> QED
  BY RecInvariantHolds, <1>1, PTL

\* RecRwSpinlockAcquire and RecRwSpinlockRelease use the lock below as its specification
\* says: the recursive lock implements the reader/writer spinlock.
THEOREM RecImplementsRw == RecSpec => RwSpec
<1>1. RecRwSpinlockInit => RwSpinlockInit
  BY DEF RecRwSpinlockInit
<1>2. [RecNext]_recVars => [RwNext]_rwVars
  BY RecStepIsRwStep DEF RecNext, RwNext, recVars
<1> QED
  BY <1>1, <1>2, PTL DEF RecSpec, RwSpec

----------------------------------------------------------------------------
\* Processes

Enlisted == {"listed", "leaked", "alive", "exiting", "dead", "destroying"}
Active == {"listed", "leaked", "alive", "exiting"}
ThreadsIn(p, states) == {t \in Threads : Owner[t] = p /\ threadState[t] \in states}

Early == {"none", "list", "header", "space", "load", "threadInit"}
Started == {"close", "reference", "done"}

\* The reference of _ProcessInit has not been given back yet.
HasFirst(p) ==
    \/ creation[p] \in (Early \ {"none"}) \cup {"thread", "fail"}
    \/ creation[p] \in Started /\ \/ ThreadList[p] # {}
                                  \/ ThreadsIn(p, {"lastUnlinked"}) # {}

FirstRef(p) == IF HasFirst(p) THEN 1 ELSE 0
HandleRef(p) == IF Handle[p] THEN 1 ELSE 0
ThreadHandleRef(t) == IF threadHandle[t] THEN 1 ELSE 0

\* The lists and counters of a process are those of its threads, and its references are
\* the first one, one per linked thread and the handle.
CountInv == \A p \in Processes :
    /\ ThreadList[p] = ThreadsIn(p, Enlisted)
    /\ NumberOfThreads[p] = Cardinality(ThreadList[p])
    /\ ActiveThreads[p] = Cardinality(ThreadsIn(p, Active))
    /\ RefCnt[p] = FirstRef(p) + NumberOfThreads[p] + HandleRef(p)

\* The references of a thread are the one it has on itself and its handle.
ThreadRefInv == \A t \in Threads :
    /\ threadHandle[t] => threadState[t] \in {"alive", "exiting", "dead"}
    /\ threadRef[t] = CASE threadState[t] \in {"listed", "leaked"} -> 2
                        [] threadState[t] \in {"init"} -> 1
                        [] threadState[t] \in {"alive", "exiting"} -> 1 + ThreadHandleRef(t)
                        [] OTHER -> ThreadHandleRef(t)

\* A thread belongs to the process of its creator; a thread without one is the main thread.
CreatorInv == \A t \in Threads :
    /\ threadState[t] = "none" <=> Owner[t] = None
    /\ creator[t] # None => threadState[t] # "none" /\ Owner[creator[t]] = Owner[t]
    /\ threadState[t] # "none" /\ creator[t] = None => mainThread[Owner[t]] = t

\* Which threads a process has at each stage of its creation.
CreationInv == \A p \in Processes :
    /\ \A t \in Threads : Owner[t] = p =>
           /\ creation[p] \notin Early
           /\ creation[p] = "thread" => t = mainThread[p] /\ threadState[t] \in {"init", "listed"}
           /\ creation[p] \in {"fail", "failed"} => threadState[t] = "leaked"
           /\ creation[p] \in Started /\ creator[t] = None => threadState[t] \notin {"init", "listed", "leaked"}
    /\ creation[p] \in Started \cup {"thread"} =>
           mainThread[p] \in Threads /\ Owner[mainThread[p]] = p /\ creator[mainThread[p]] = None
    /\ creation[p] = "close" => threadHandle[mainThread[p]]
    /\ Handle[p] => creation[p] = "done"
    /\ Terminated[p] => creation[p] \in Started

\* Who removed the last thread of a process is alone in it.
LastInv == \A t, u \in Threads :
    /\ threadState[t] = "lastUnlinked" => ThreadList[Owner[t]] = {}
    /\ threadState[t] = "lastUnlinked" /\ threadState[u] = "lastUnlinked" /\ Owner[t] = Owner[u] => t = u

\* A process that something besides the handle refers to is not being destroyed.
AliveInv == \A p \in Processes :
    /\ HasFirst(p) \/ ThreadList[p] # {} => procState[p] = "alive"
    /\ procState[p] = "none" <=> creation[p] = "none"

TermInv == \A p \in Processes : Terminated[p] => ThreadsIn(p, Active) = {}

PidInv == PidsExact /\ \A p \in Processes : HasPid(p) => Id[p] \in Pids

ProcessIInv ==
    /\ ObjectsTypeOK /\ CountInv /\ ThreadRefInv /\ CreatorInv /\ CreationInv
    /\ LastInv /\ AliveInv /\ TermInv /\ PidInv

\* The sets of threads that are counted are finite.
LEMMA CountedAreFinite ==
    ASSUME NEW p, NEW states
    PROVE  IsFiniteSet(ThreadsIn(p, states)) /\ Cardinality(ThreadsIn(p, states)) \in Nat
BY ProcessAssumption, FS_Subset, FS_CardinalityType DEF ThreadsIn

\* What is read of the invariant when nothing changes for the threads.
LEMMA ThreadsStay ==
    ASSUME UNCHANGED <<threadState, Owner>>
    PROVE  \A p, states : ThreadsIn(p, states)' = ThreadsIn(p, states)
BY DEF ThreadsIn

\* Everything is zero at the start.
LEMMA InitProcessIInv == ProcessSystemInit => ProcessIInv
<1> SUFFICES ASSUME ProcessSystemInit PROVE ProcessIInv
  OBVIOUS
<1> USE DEF ProcessSystemInit
<1>1. \A p \in Processes : \A states : ThreadsIn(p, states) = {}
  BY ProcessAssumption DEF ThreadsIn
<1>2. ObjectsTypeOK
  BY DEF ObjectsTypeOK
<1>3. CountInv
  BY <1>1, FS_EmptySet DEF CountInv, HasFirst, FirstRef, HandleRef, Early, Started
<1>4. ThreadRefInv /\ CreatorInv /\ LastInv
  BY DEF ThreadRefInv, CreatorInv, LastInv, ThreadHandleRef
<1>5. CreationInv
  BY ProcessAssumption DEF CreationInv, Started
<1>6. AliveInv /\ TermInv
  BY DEF AliveInv, TermInv, HasFirst, Early, Started
<1>7. PidInv
  BY DEF PidInv, PidsExact, HasPid
<1> QED
  BY <1>2, <1>3, <1>4, <1>5, <1>6, <1>7 DEF ProcessIInv

\* _ProcessInit
LEMMA ProcessInitInv ==
    ASSUME ProcessIInv, NEW p \in Processes, ProcessInit(p)
    PROVE  ProcessIInv'
<1>1. /\ UNCHANGED <<NumberOfThreads, ActiveThreads, ThreadList, Terminated, Handle, mainThread,
                     ProcessList, threadVars, threadState, Owner, creator, threadRef, threadHandle,
                     terminatePending>>
      /\ creation[p] = "none" /\ procState[p] = "none"
  BY DEF ProcessInit, threadVars, ProcessIInv, AliveInv
<1>2. \A q, states : ThreadsIn(q, states)' = ThreadsIn(q, states)
  BY <1>1, ThreadsStay
<1>3. ThreadsIn(p, Enlisted) = {} /\ ~Handle[p] /\ ~Terminated[p] /\ RefCnt[p] = 0 /\ NumberOfThreads[p] = 0
  <2>1. \A t \in Threads : Owner[t] # p
    BY <1>1 DEF ProcessIInv, CreationInv, Early
  <2> QED
    BY <1>1, <2>1, FS_EmptySet
    DEF ProcessIInv, CreationInv, CountInv, ThreadsIn, HasFirst, FirstRef, HandleRef, Early, Started
<1>4. ThreadRefInv' /\ CreatorInv' /\ LastInv' /\ TermInv'
  BY <1>1, <1>2 DEF ProcessIInv, ThreadRefInv, ThreadHandleRef, CreatorInv, LastInv, TermInv
<1>5. CASE /\ creation' = Set(creation, p, "failed")
           /\ procState' = Set(procState, p, "freed")
           /\ UNCHANGED <<RefCnt, Id, PidBitmap>>
  <2>1. ObjectsTypeOK'
    BY <1>1, <1>5 DEF ProcessIInv, ObjectsTypeOK, Set
  <2>2. \A q \in Processes : HasFirst(q)' <=> HasFirst(q)
    BY <1>1, <1>2, <1>5 DEF HasFirst, Set, ProcessIInv, ObjectsTypeOK, Early, Started
  <2>3. CountInv' /\ AliveInv'
    BY <1>1, <1>2, <1>3, <1>5, <2>2 DEF ProcessIInv, CountInv, FirstRef, HandleRef, AliveInv, Set, ObjectsTypeOK
  <2>4. CreationInv'
    BY <1>1, <1>3, <1>5 DEF ProcessIInv, CreationInv, Set, ObjectsTypeOK, Early, Started
  <2>5. PidInv'
    BY <1>1, <1>5 DEF ProcessIInv, PidInv, PidsExact, HasPid, Set, ObjectsTypeOK
  <2> QED
    BY <1>4, <2>1, <2>3, <2>4, <2>5 DEF ProcessIInv
<1>6. ASSUME NEW pid \in Pids \ PidBitmap,
             Id' = Set(Id, p, pid), PidBitmap' = PidBitmap \cup {pid},
             RefCnt' = Set(RefCnt, p, 1), procState' = Set(procState, p, "alive"),
             creation' = Set(creation, p, "list")
      PROVE  ProcessIInv'
  <2>1. ObjectsTypeOK'
    BY <1>1, <1>6 DEF ProcessIInv, ObjectsTypeOK, Set
  <2>2. HasFirst(p)' /\ \A q \in Processes \ {p} : HasFirst(q)' <=> HasFirst(q)
    BY <1>1, <1>2, <1>6 DEF HasFirst, Set, ProcessIInv, ObjectsTypeOK, Early, Started
  <2>3. CountInv' /\ AliveInv'
    BY <1>1, <1>2, <1>3, <1>6, <2>2 DEF ProcessIInv, CountInv, AliveInv, Set, ObjectsTypeOK, FirstRef, HandleRef
  <2>4. CreationInv'
    BY <1>1, <1>3, <1>6 DEF ProcessIInv, CreationInv, Set, ObjectsTypeOK, Early, Started
  <2>5. PidInv'
    <3>1. /\ \A q \in Processes \ {p} : (HasPid(q)' <=> HasPid(q)) /\ Id'[q] = Id[q]
          /\ HasPid(p)' /\ Id'[p] = pid /\ ~HasPid(p)
      BY <1>1, <1>6 DEF HasPid, Set, ProcessIInv, ObjectsTypeOK
    <3>2. \A q \in Processes : HasPid(q) => Id[q] \in PidBitmap /\ Id[q] \in Pids
      BY DEF ProcessIInv, PidInv, PidsExact
    <3>3. PidBitmap' = {Id'[q] : q \in {r \in Processes : HasPid(r)'}}
      BY <1>6, <3>1 DEF ProcessIInv, PidInv, PidsExact
    <3>4. \A q, r \in Processes : q # r /\ HasPid(q)' /\ HasPid(r)' => Id'[q] # Id'[r]
      BY <1>6, <3>1, <3>2 DEF ProcessIInv, PidInv, PidsExact
    <3>5. \A q \in Processes : HasPid(q)' => Id'[q] \in Pids
      BY <1>6, <3>1, <3>2
    <3> QED
      BY <3>3, <3>4, <3>5 DEF PidInv, PidsExact
  <2> QED
    BY <1>4, <2>1, <2>3, <2>4, <2>5 DEF ProcessIInv
<1> QED
  BY <1>5, <1>6 DEF ProcessInit, CreationGoto

\* The steps of ProcessCreate before there is a thread
LEMMA PrepareInv ==
    ASSUME ProcessIInv, NEW p \in Processes, NEW s \in (Early \ {"none"}) \cup {"fail"},
           creation[p] \in Early \ {"none"}, creation' = Set(creation, p, s), ProcessList' \subseteq Processes,
           UNCHANGED <<procState, RefCnt, NumberOfThreads, ActiveThreads, ThreadList, Id, Terminated,
                       Handle, mainThread, PidBitmap, threadVars>>
    PROVE  ProcessIInv'
<1>1. UNCHANGED <<threadState, Owner, creator, threadRef, threadHandle, terminatePending>>
  BY DEF threadVars
<1>2. \A q, states : ThreadsIn(q, states)' = ThreadsIn(q, states)
  BY <1>1, ThreadsStay
<1>3. creation \in [Processes -> Early \cup Started \cup {"thread", "fail", "failed"}]
  BY DEF ProcessIInv, ObjectsTypeOK, Early, Started
<1>4. ObjectsTypeOK'
  BY <1>1 DEF ProcessIInv, ObjectsTypeOK, Set, Early
<1>5. \A q \in Processes : HasFirst(q)' <=> HasFirst(q)
  BY <1>2, <1>3 DEF HasFirst, Set, Early
<1>6. CountInv' /\ AliveInv'
  BY <1>2, <1>3, <1>5 DEF ProcessIInv, CountInv, FirstRef, HandleRef, AliveInv, Set, Early
<1>7. CreationInv'
  BY <1>1, <1>3 DEF ProcessIInv, CreationInv, Set, Early, Started
<1>8. ThreadRefInv' /\ CreatorInv' /\ LastInv' /\ TermInv'
  BY <1>1, <1>2 DEF ProcessIInv, ThreadRefInv, ThreadHandleRef, CreatorInv, LastInv, TermInv
<1>9. PidInv'
  BY DEF ProcessIInv, PidInv, PidsExact, HasPid
<1> QED
  BY <1>4, <1>6, <1>7, <1>8, <1>9 DEF ProcessIInv

\* _ProcessDereference where a reference is given back: the process is destroyed when it
\* was the only one.
LEMMA DereferenceFacts ==
    ASSUME ProcessIInv, NEW p \in Processes, RefCnt[p] > 0, procState[p] = "alive", ProcessDereference(p)
    PROVE  /\ RefCnt' \in [Processes -> Nat] /\ RefCnt'[p] = RefCnt[p] - 1
           /\ procState' \in [Processes -> {"none", "alive", "unreferenced", "unlisted", "freed"}]
           /\ procState'[p] = IF RefCnt[p] = 1 THEN "unreferenced" ELSE "alive"
           /\ \A q \in Processes \ {p} : RefCnt'[q] = RefCnt[q] /\ procState'[q] = procState[q]
           /\ \A q \in Processes : HasPid(q)' <=> HasPid(q)
BY DEF ProcessDereference, ProcessIInv, ObjectsTypeOK, Set, HasPid

\* A failed ProcessCreate gives back the first reference.
LEMMA CreateFailsInv ==
    ASSUME ProcessIInv, NEW p \in Processes, ProcessCreateFails(p)
    PROVE  ProcessIInv'
<1>1. /\ UNCHANGED <<NumberOfThreads, ActiveThreads, ThreadList, Id, Terminated, Handle, mainThread,
                     ProcessList, PidBitmap, threadState, Owner, creator, threadRef, threadHandle,
                     terminatePending>>
      /\ creation[p] = "fail" /\ creation' = Set(creation, p, "failed") /\ ProcessDereference(p)
  BY DEF ProcessCreateFails, CreationGoto, threadVars
<1>2. \A q, states : ThreadsIn(q, states)' = ThreadsIn(q, states)
  BY <1>1, ThreadsStay
<1>3. creation \in [Processes -> Early \cup Started \cup {"thread", "fail", "failed"}]
  BY DEF ProcessIInv, ObjectsTypeOK, Early, Started
<1>4. /\ HasFirst(p) /\ ~HasFirst(p)' /\ \A q \in Processes \ {p} : HasFirst(q)' <=> HasFirst(q)
      /\ procState[p] = "alive"
  BY <1>1, <1>2, <1>3 DEF HasFirst, Set, Early, Started, ProcessIInv, AliveInv
<1>5. /\ RefCnt[p] = 1 + NumberOfThreads[p] /\ NumberOfThreads[p] \in Nat /\ ~Handle[p]
      /\ NumberOfThreads[p] = 0 => ThreadList[p] = {}
  <2>1. ~Handle[p]
    BY <1>1 DEF ProcessIInv, CreationInv
  <2>2. NumberOfThreads[p] = Cardinality(ThreadsIn(p, Enlisted)) /\ ThreadList[p] = ThreadsIn(p, Enlisted)
        /\ RefCnt[p] = 1 + NumberOfThreads[p] + 0
    BY <1>4, <2>1 DEF ProcessIInv, CountInv, FirstRef, HandleRef
  <2> QED
    BY <2>1, <2>2, CountedAreFinite, FS_EmptySet
<1>6. /\ RefCnt' \in [Processes -> Nat] /\ RefCnt'[p] = RefCnt[p] - 1
      /\ procState' \in [Processes -> {"none", "alive", "unreferenced", "unlisted", "freed"}]
      /\ procState'[p] = IF RefCnt[p] = 1 THEN "unreferenced" ELSE "alive"
      /\ \A q \in Processes \ {p} : RefCnt'[q] = RefCnt[q] /\ procState'[q] = procState[q]
      /\ \A q \in Processes : HasPid(q)' <=> HasPid(q)
  BY <1>1, <1>4, <1>5, DereferenceFacts
<1>7. ObjectsTypeOK'
  BY <1>1, <1>6 DEF ProcessIInv, ObjectsTypeOK, Set
<1>8. CountInv'
  BY <1>1, <1>2, <1>4, <1>5, <1>6 DEF ProcessIInv, CountInv, FirstRef, HandleRef
<1>9. AliveInv'
  BY <1>1, <1>3, <1>4, <1>5, <1>6 DEF ProcessIInv, AliveInv, Set
<1>10. CreationInv'
  BY <1>1, <1>3 DEF ProcessIInv, CreationInv, Set, Early, Started
<1>11. ThreadRefInv' /\ CreatorInv' /\ LastInv' /\ TermInv'
  BY <1>1, <1>2 DEF ProcessIInv, ThreadRefInv, ThreadHandleRef, CreatorInv, LastInv, TermInv
<1>12. PidInv'
  BY <1>1, <1>6 DEF ProcessIInv, PidInv, PidsExact
<1> QED
  BY <1>7, <1>8, <1>9, <1>10, <1>11, <1>12 DEF ProcessIInv

\* ProcessCreate takes the reference of the handle.
LEMMA CreateReturnsInv ==
    ASSUME ProcessIInv, NEW p \in Processes, ProcessCreateReturns(p)
    PROVE  ProcessIInv'
<1>1. /\ UNCHANGED <<procState, NumberOfThreads, ActiveThreads, ThreadList, Id, Terminated, mainThread,
                     ProcessList, PidBitmap, threadState, Owner, creator, threadRef, threadHandle,
                     terminatePending>>
      /\ creation[p] = "reference" /\ creation' = Set(creation, p, "done")
      /\ RefCnt' = Set(RefCnt, p, RefCnt[p] + 1) /\ Handle' = Set(Handle, p, TRUE)
  BY DEF ProcessCreateReturns, CreationGoto, threadVars
<1>2. \A q, states : ThreadsIn(q, states)' = ThreadsIn(q, states)
  BY <1>1, ThreadsStay
<1>3. creation \in [Processes -> Early \cup Started \cup {"thread", "fail", "failed"}]
  BY DEF ProcessIInv, ObjectsTypeOK, Early, Started
<1>4. \A q \in Processes : HasFirst(q)' <=> HasFirst(q)
  BY <1>1, <1>2, <1>3 DEF HasFirst, Set, Early, Started
<1>5. ~Handle[p]
  BY <1>1 DEF ProcessIInv, CreationInv
<1>6. ObjectsTypeOK'
  BY <1>1 DEF ProcessIInv, ObjectsTypeOK, Set
<1>7. CountInv'
  <2>1. \A q \in Processes : RefCnt[q] \in Nat /\ NumberOfThreads[q] \in Nat
    BY DEF ProcessIInv, ObjectsTypeOK
  <2>2. \A q \in Processes : RefCnt'[q] = IF q = p THEN RefCnt[q] + 1 ELSE RefCnt[q]
    BY <1>1 DEF ProcessIInv, ObjectsTypeOK, Set
  <2>3. Handle'[p] /\ \A q \in Processes \ {p} : Handle'[q] = Handle[q]
    BY <1>1 DEF ProcessIInv, ObjectsTypeOK, Set
  <2>4. /\ HandleRef(p) = 0 /\ HandleRef(p)' = 1
        /\ \A q \in Processes \ {p} : HandleRef(q)' = HandleRef(q)
        /\ \A q \in Processes : FirstRef(q)' = FirstRef(q) /\ FirstRef(q) \in {0, 1}
    BY <1>4, <1>5, <2>3 DEF FirstRef, HandleRef
  <2>5. \A q \in Processes : RefCnt[q] = FirstRef(q) + NumberOfThreads[q] + HandleRef(q)
    BY DEF ProcessIInv, CountInv
  <2>6. \A q \in Processes : RefCnt'[q] = FirstRef(q)' + NumberOfThreads'[q] + HandleRef(q)'
    BY <1>1, <2>1, <2>2, <2>4, <2>5
  <2>7. \A q \in Processes : /\ ThreadList'[q] = ThreadsIn(q, Enlisted)'
                             /\ NumberOfThreads'[q] = Cardinality(ThreadList'[q])
                             /\ ActiveThreads'[q] = Cardinality(ThreadsIn(q, Active)')
    BY <1>1, <1>2 DEF ProcessIInv, CountInv
  <2> QED
    BY <2>6, <2>7 DEF CountInv
<1>8. AliveInv'
  BY <1>1, <1>3, <1>4 DEF ProcessIInv, AliveInv, Set
<1>9. CreationInv'
  BY <1>1, <1>3 DEF ProcessIInv, ObjectsTypeOK, CreationInv, Set, Early, Started
<1>10. ThreadRefInv' /\ CreatorInv' /\ LastInv' /\ TermInv'
  BY <1>1, <1>2 DEF ProcessIInv, ThreadRefInv, ThreadHandleRef, CreatorInv, LastInv, TermInv
<1>11. PidInv'
  BY <1>1 DEF ProcessIInv, PidInv, PidsExact, HasPid
<1> QED
  BY <1>6, <1>7, <1>8, <1>9, <1>10, <1>11 DEF ProcessIInv

\* ProcessCloseHandle gives it back.
LEMMA CloseHandleInv ==
    ASSUME ProcessIInv, NEW p \in Processes, ProcessCloseHandle(p)
    PROVE  ProcessIInv'
<1>1. /\ UNCHANGED <<NumberOfThreads, ActiveThreads, ThreadList, Id, Terminated, mainThread, creation,
                     ProcessList, PidBitmap, threadState, Owner, creator, threadRef, threadHandle,
                     terminatePending>>
      /\ Handle[p] /\ procState[p] = "alive" /\ Handle' = Set(Handle, p, FALSE) /\ ProcessDereference(p)
  BY DEF ProcessCloseHandle, threadVars
<1>2. \A q, states : ThreadsIn(q, states)' = ThreadsIn(q, states)
  BY <1>1, ThreadsStay
<1>4. \A q \in Processes : HasFirst(q)' <=> HasFirst(q)
  BY <1>1, <1>2 DEF HasFirst
<1>5. /\ RefCnt[p] = FirstRef(p) + NumberOfThreads[p] + 1 /\ NumberOfThreads[p] \in Nat
      /\ NumberOfThreads[p] = 0 => ThreadList[p] = {}
  <2>1. NumberOfThreads[p] = Cardinality(ThreadsIn(p, Enlisted)) /\ ThreadList[p] = ThreadsIn(p, Enlisted)
        /\ RefCnt[p] = FirstRef(p) + NumberOfThreads[p] + 1
    BY <1>1 DEF ProcessIInv, CountInv, FirstRef, HandleRef
  <2> QED
    BY <2>1, CountedAreFinite, FS_EmptySet
<1>6. /\ RefCnt' \in [Processes -> Nat] /\ RefCnt'[p] = RefCnt[p] - 1
      /\ procState' \in [Processes -> {"none", "alive", "unreferenced", "unlisted", "freed"}]
      /\ procState'[p] = IF RefCnt[p] = 1 THEN "unreferenced" ELSE "alive"
      /\ \A q \in Processes \ {p} : RefCnt'[q] = RefCnt[q] /\ procState'[q] = procState[q]
      /\ \A q \in Processes : HasPid(q)' <=> HasPid(q)
  <2>1. RefCnt[p] > 0
    BY <1>5 DEF FirstRef, HandleRef
  <2> QED
    BY <1>1, <2>1, DereferenceFacts
<1>7. ObjectsTypeOK'
  BY <1>1, <1>6 DEF ProcessIInv, ObjectsTypeOK, Set
<1>8. CountInv'
  <2>1. ~Handle'[p] /\ \A q \in Processes \ {p} : Handle'[q] = Handle[q]
    BY <1>1 DEF ProcessIInv, ObjectsTypeOK, Set
  <2>2. /\ HandleRef(p)' = 0
        /\ \A q \in Processes \ {p} : HandleRef(q)' = HandleRef(q)
        /\ \A q \in Processes : FirstRef(q)' = FirstRef(q) /\ FirstRef(q) \in {0, 1}
    BY <1>4, <2>1 DEF FirstRef, HandleRef
  <2>3. \A q \in Processes : RefCnt[q] = FirstRef(q) + NumberOfThreads[q] + HandleRef(q)
    BY DEF ProcessIInv, CountInv
  <2>4. \A q \in Processes : RefCnt'[q] = FirstRef(q)' + NumberOfThreads'[q] + HandleRef(q)'
    BY <1>1, <1>5, <1>6, <2>2, <2>3
  <2>5. \A q \in Processes : /\ ThreadList'[q] = ThreadsIn(q, Enlisted)'
                             /\ NumberOfThreads'[q] = Cardinality(ThreadList'[q])
                             /\ ActiveThreads'[q] = Cardinality(ThreadsIn(q, Active)')
    BY <1>1, <1>2 DEF ProcessIInv, CountInv
  <2> QED
    BY <2>4, <2>5 DEF CountInv
<1>9. AliveInv'
  <2>1. RefCnt[p] = 1 => ~HasFirst(p) /\ ThreadList[p] = {}
    BY <1>5 DEF FirstRef, HandleRef
  <2>2. creation[p] # "none"
    BY <1>1 DEF ProcessIInv, CreationInv
  <2> QED
    BY <1>1, <1>4, <1>6, <2>1, <2>2 DEF ProcessIInv, AliveInv
<1>10. CreationInv'
  BY <1>1 DEF ProcessIInv, ObjectsTypeOK, CreationInv, Set
<1>11. ThreadRefInv' /\ CreatorInv' /\ LastInv' /\ TermInv'
  BY <1>1, <1>2 DEF ProcessIInv, ThreadRefInv, ThreadHandleRef, CreatorInv, LastInv, TermInv
<1>12. PidInv'
  BY <1>1, <1>6 DEF ProcessIInv, PidInv, PidsExact
<1> QED
  BY <1>7, <1>8, <1>9, <1>10, <1>11, <1>12 DEF ProcessIInv

\* _ProcessDestroy
LEMMA DestroyInv ==
    ASSUME ProcessIInv, NEW p \in Processes, DestroyStep(p)
    PROVE  ProcessIInv'
<1>1. UNCHANGED <<RefCnt, NumberOfThreads, ActiveThreads, ThreadList, Id, Terminated, Handle, mainThread,
                  creation, threadState, Owner, creator, threadRef, threadHandle, terminatePending>>
  BY DEF DestroyStep, ProcessDestroy, ProcessFree, threadVars
<1>2. \A q, states : ThreadsIn(q, states)' = ThreadsIn(q, states)
  BY <1>1, ThreadsStay
<1>3. \A q \in Processes : HasFirst(q)' <=> HasFirst(q)
  BY <1>1, <1>2 DEF HasFirst
<1>4. PICK s \in {"unlisted", "freed"} :
          /\ procState[p] \in {"unreferenced", "unlisted"} /\ procState' = Set(procState, p, s)
          /\ s = "unlisted" => PidBitmap' = PidBitmap
          /\ s = "freed" => PidBitmap' = PidBitmap \ {Id[p]}
  BY DEF DestroyStep, ProcessDestroy, ProcessFree
<1>5. ObjectsTypeOK'
  <2>1. ProcessList' \subseteq Processes
    BY DEF DestroyStep, ProcessDestroy, ProcessFree, ProcessIInv, ObjectsTypeOK
  <2> QED
    BY <1>1, <1>4, <2>1 DEF ProcessIInv, ObjectsTypeOK, Set
<1>6. \A q \in Processes : procState'[q] = IF q = p THEN s ELSE procState[q]
  BY <1>4 DEF ProcessIInv, ObjectsTypeOK, Set
<1>7. CountInv' /\ ThreadRefInv' /\ CreatorInv' /\ CreationInv' /\ LastInv' /\ TermInv'
  <2>1. CountInv'
    BY <1>1, <1>2, <1>3 DEF ProcessIInv, CountInv, FirstRef, HandleRef
  <2>2. ThreadRefInv' /\ CreatorInv'
    BY <1>1 DEF ProcessIInv, ThreadHandleRef, ThreadRefInv, CreatorInv
  <2>3. CreationInv'
    BY <1>1 DEF ProcessIInv, CreationInv
  <2>4. LastInv' /\ TermInv'
    BY <1>1, <1>2, <1>3 DEF ProcessIInv, LastInv, TermInv
  <2> QED
    BY <2>1, <2>2, <2>3, <2>4
<1>8. AliveInv'
  BY <1>1, <1>3, <1>4, <1>6 DEF ProcessIInv, AliveInv
<1>9. PidInv'
  <2>1. /\ \A q \in Processes \ {p} : HasPid(q)' <=> HasPid(q)
        /\ HasPid(p) /\ (HasPid(p)' <=> s = "unlisted")
    BY <1>4, <1>6 DEF HasPid
  <2>2. CASE s = "unlisted"
    BY <1>1, <1>4, <2>1, <2>2 DEF ProcessIInv, PidInv, PidsExact
  <2>3. CASE s = "freed"
    <3>1. PidBitmap' = {Id[q] : q \in {r \in Processes : HasPid(r)'}}
      BY <1>4, <2>1, <2>3 DEF ProcessIInv, PidInv, PidsExact
    <3> QED
      BY <1>1, <2>1, <2>3, <3>1 DEF ProcessIInv, PidInv, PidsExact
  <2> QED
    BY <2>2, <2>3
<1> QED
  BY <1>5, <1>7, <1>8, <1>9 DEF ProcessIInv

----------------------------------------------------------------------------
\* Steps of threads

\* A thread that changes its state changes the sets of threads by itself only.
LEMMA ThreadMoves ==
    ASSUME ProcessIInv, NEW t \in Threads, NEW s, UNCHANGED Owner, ThreadGoto(t, s), NEW states
    PROVE  /\ \A p \in Processes \ {Owner[t]} : ThreadsIn(p, states)' = ThreadsIn(p, states)
           /\ ThreadsIn(Owner[t], states)' = IF s \in states THEN ThreadsIn(Owner[t], states) \cup {t}
                                             ELSE ThreadsIn(Owner[t], states) \ {t}
           /\ \A u \in Threads : threadState'[u] = IF u = t THEN s ELSE threadState[u]
BY DEF ThreadsIn, ThreadGoto, Set, ProcessIInv, ObjectsTypeOK

\* _ThreadInit gives a thread to a process without linking it.
LEMMA ThreadStarts ==
    ASSUME ProcessIInv, NEW p \in Processes, NEW t \in Threads, NEW u \in Threads \cup {None},
           ThreadInit(p, t, u), NEW states, "init" \notin states, "none" \notin states
    PROVE  /\ \A q \in Processes : ThreadsIn(q, states)' = ThreadsIn(q, states)
           /\ \A v \in Threads : /\ threadState'[v] = IF v = t THEN "init" ELSE threadState[v]
                                 /\ Owner'[v] = IF v = t THEN p ELSE Owner[v]
                                 /\ creator'[v] = IF v = t THEN u ELSE creator[v]
                                 /\ threadRef'[v] = IF v = t THEN 1 ELSE threadRef[v]
           /\ threadState[t] = "none" /\ Owner[t] = None /\ creator[t] = None /\ ~threadHandle[t]
<1>1. threadState[t] = "none" /\ Owner[t] = None /\ creator[t] = None /\ ~threadHandle[t]
  BY DEF ThreadInit, ProcessIInv, CreatorInv, ThreadRefInv, ThreadHandleRef
<1>2. \A v \in Threads : /\ threadState'[v] = IF v = t THEN "init" ELSE threadState[v]
                         /\ Owner'[v] = IF v = t THEN p ELSE Owner[v]
                         /\ creator'[v] = IF v = t THEN u ELSE creator[v]
                         /\ threadRef'[v] = IF v = t THEN 1 ELSE threadRef[v]
  BY DEF ThreadInit, ThreadGoto, Set, ProcessIInv, ObjectsTypeOK
<1> QED
  BY <1>1, <1>2 DEF ThreadsIn

\* _ThreadInit, for the main thread and for the others
LEMMA ThreadInitInv ==
    ASSUME ProcessIInv, NEW p \in Processes, NEW t \in Threads, NEW u \in Threads \cup {None},
           ThreadInit(p, t, u),
           \/ /\ creation[p] = "threadInit" /\ u = None
              /\ creation' = Set(creation, p, "thread") /\ mainThread' = Set(mainThread, p, t)
           \/ /\ u \in Threads /\ threadState[u] = "alive" /\ Owner[u] = p
              /\ UNCHANGED <<creation, mainThread>>
    PROVE  ProcessIInv'
<1>1. UNCHANGED <<procState, RefCnt, NumberOfThreads, ActiveThreads, ThreadList, Id, Terminated, Handle,
                  ProcessList, PidBitmap, threadHandle, terminatePending>>
  BY DEF ThreadInit
<1>2. \A states : "init" \notin states /\ "none" \notin states =>
          \A q \in Processes : ThreadsIn(q, states)' = ThreadsIn(q, states)
  BY ThreadStarts
<1>3. /\ \A v \in Threads : /\ threadState'[v] = IF v = t THEN "init" ELSE threadState[v]
                            /\ Owner'[v] = IF v = t THEN p ELSE Owner[v]
                            /\ creator'[v] = IF v = t THEN u ELSE creator[v]
                            /\ threadRef'[v] = IF v = t THEN 1 ELSE threadRef[v]
      /\ threadState[t] = "none" /\ Owner[t] = None /\ creator[t] = None /\ ~threadHandle[t]
  <2> DEFINE states == {"freed"}
  <2>1. "init" \notin states /\ "none" \notin states
    OBVIOUS
  <2> HIDE DEF states
  <2> QED
    BY <2>1, ThreadStarts
<1>4. creation \in [Processes -> Early \cup Started \cup {"thread", "fail", "failed"}]
  BY DEF ProcessIInv, ObjectsTypeOK, Early, Started
<1>5. /\ p # None /\ None \notin Threads
      /\ u # None => u # t /\ creation[p] \in Started
  <2>1. u # None => u # t /\ creation[p] \notin Early \cup {"thread", "fail", "failed"}
    BY <1>3, ProcessAssumption DEF ProcessIInv, CreationInv
  <2> QED
    BY <1>4, <2>1, ProcessAssumption
<1>6. ObjectsTypeOK'
  <2>1. /\ creation' = creation \/ creation' = [creation EXCEPT ![p] = "thread"]
        /\ mainThread' = mainThread \/ mainThread' = [mainThread EXCEPT ![p] = t]
    BY DEF Set
  <2>2. /\ threadState' = [threadState EXCEPT ![t] = "init"] /\ Owner' = [Owner EXCEPT ![t] = p]
        /\ creator' = [creator EXCEPT ![t] = u] /\ threadRef' = [threadRef EXCEPT ![t] = 1]
    BY DEF ThreadInit, ThreadGoto, Set
  <2>3. ObjectsTypeOK
    BY DEF ProcessIInv
  <2>4. /\ creation' \in [Processes -> {"none", "list", "header", "space", "load", "threadInit",
                            "thread", "close", "reference", "done", "fail", "failed"}]
        /\ mainThread' \in [Processes -> Threads \cup {None}]
    BY <2>1, <2>3, SMTT(30) DEF ObjectsTypeOK
  <2>5. /\ threadState' \in [Threads -> {"none", "init", "listed", "leaked", "alive", "exiting",
                               "dead", "destroying", "lastUnlinked", "freed"}]
        /\ Owner' \in [Threads -> Processes \cup {None}]
        /\ creator' \in [Threads -> Threads \cup {None}]
        /\ threadRef' \in [Threads -> Nat]
    BY <2>2, <2>3 DEF ObjectsTypeOK
  <2> QED
    BY <1>1, <2>3, <2>4, <2>5 DEF ObjectsTypeOK
<1>7. ThreadsIn(p, {"lastUnlinked"})' = ThreadsIn(p, {"lastUnlinked"})
      /\ \A q \in Processes : /\ ThreadsIn(q, {"lastUnlinked"})' = ThreadsIn(q, {"lastUnlinked"})
                              /\ ThreadsIn(q, Enlisted)' = ThreadsIn(q, Enlisted)
                              /\ ThreadsIn(q, Active)' = ThreadsIn(q, Active)
  <2>1. "init" \notin Enlisted /\ "none" \notin Enlisted /\ "init" \notin Active /\ "none" \notin Active
        /\ "init" \notin {"lastUnlinked"} /\ "none" \notin {"lastUnlinked"}
    BY DEF Enlisted, Active
  <2> QED
    BY <1>2, <2>1
<1>8. \A q \in Processes : HasFirst(q)' <=> HasFirst(q)
  BY <1>1, <1>4, <1>5, <1>7 DEF HasFirst, Set, Early, Started
<1>9. CountInv' /\ TermInv'
  BY <1>1, <1>7, <1>8 DEF ProcessIInv, CountInv, FirstRef, HandleRef, TermInv
<1>10. AliveInv'
  BY <1>1, <1>4, <1>8 DEF ProcessIInv, AliveInv, Set
<1>11. ThreadRefInv'
  BY <1>1, <1>3 DEF ProcessIInv, ThreadRefInv, ThreadHandleRef
<1>12. CreatorInv'
  <2>1. \A q \in Processes : mainThread'[q] = IF q = p /\ u = None THEN t ELSE mainThread[q]
    BY <1>5 DEF ProcessIInv, ObjectsTypeOK, Set
  <2>2. u = None => \A v \in Threads : Owner[v] # p
    BY <1>5 DEF ProcessIInv, CreationInv, Early
  <2>3. \A v \in Threads : Owner[v] \in Processes \cup {None} /\ creator[v] \in Threads \cup {None}
                           /\ creator[v] # t
    BY <1>3, <1>5, ProcessAssumption DEF ProcessIInv, ObjectsTypeOK, CreatorInv
  <2> QED
    BY <1>3, <1>5, <2>1, <2>2, <2>3 DEF ProcessIInv, CreatorInv
<1>13. CreationInv'
  <2>1. CASE u = None
    <3>1. \A v \in Threads : Owner[v] # p
      BY <1>5, <2>1 DEF ProcessIInv, CreationInv, Early
    <3>2. \A q \in Processes : /\ mainThread'[q] = IF q = p THEN t ELSE mainThread[q]
                               /\ creation'[q] = IF q = p THEN "thread" ELSE creation[q]
      BY <1>5, <2>1 DEF ProcessIInv, ObjectsTypeOK, Set
    <3>3. \A q \in Processes \ {p} : creation[q] \in Started \cup {"thread"} => mainThread[q] # t
      BY <1>3, ProcessAssumption DEF ProcessIInv, CreationInv
    <3>4. ~Terminated[p] /\ ~Handle[p]
      BY <1>5, <2>1 DEF ProcessIInv, CreationInv, Started
    <3> QED
      BY <1>1, <1>3, <2>1, <3>1, <3>2, <3>3, <3>4 DEF ProcessIInv, CreationInv, Early, Started
  <2>2. CASE u # None
    <3>1. UNCHANGED <<creation, mainThread>> /\ creation[p] \in Started
      BY <1>5, <2>2
    <3>2. \A q \in Processes : creation[q] \in Started \cup {"thread"} => mainThread[q] # t
      BY <1>3, ProcessAssumption DEF ProcessIInv, CreationInv
    <3> QED
      BY <1>1, <1>3, <2>2, <3>1, <3>2 DEF ProcessIInv, CreationInv, Early, Started
  <2> QED
    BY <2>1, <2>2
<1>14. LastInv'
  <2>1. \A v \in Threads : threadState'[v] = "lastUnlinked" =>
            threadState[v] = "lastUnlinked" /\ Owner'[v] = Owner[v]
    BY <1>3
  <2> QED
    BY <1>1, <2>1 DEF ProcessIInv, LastInv
<1>15. PidInv'
  BY <1>1 DEF ProcessIInv, PidInv, PidsExact, HasPid
<1> QED
  BY <1>6, <1>9, <1>10, <1>11, <1>12, <1>13, <1>14, <1>15 DEF ProcessIInv

\* A thread that is linked or on its way out belongs to a process whose creation got that far.
LEMMA OwnerFacts ==
    ASSUME ProcessIInv, NEW t \in Threads, threadState[t] # "none"
    PROVE  /\ Owner[t] \in Processes
           /\ creation[Owner[t]] \in Started \cup {"thread", "fail", "failed"}
           /\ threadState[t] \notin {"init", "listed", "leaked"} => creation[Owner[t]] \in Started
           /\ threadState[t] \in {"init", "listed"} /\ creator[t] = None => creation[Owner[t]] = "thread"
           /\ threadState[t] \in {"init", "listed"} /\ creator[t] # None => creation[Owner[t]] \in Started \cup {"thread"}
           /\ creation[Owner[t]] = "thread" => creator[t] = None
<1>1. Owner[t] \in Processes
  BY ProcessAssumption DEF ProcessIInv, CreatorInv, ObjectsTypeOK
<1>2. creation[Owner[t]] \in Early \cup Started \cup {"thread", "fail", "failed"}
  BY <1>1 DEF ProcessIInv, ObjectsTypeOK, Early, Started
<1> QED
  BY <1>1, <1>2 DEF ProcessIInv, CreationInv

\* ProcessInsertThreadInList: whoever creates the thread is linked itself, or it is
\* the main thread, so the process is alive and not terminated.
LEMMA InsertThreadInv ==
    ASSUME ProcessIInv, NEW t \in Threads, ProcessInsertThreadInList(t)
    PROVE  ProcessIInv'
<1>0. PICK p \in Processes : p = Owner[t]
  BY OwnerFacts DEF ProcessInsertThreadInList
<1>1. /\ UNCHANGED <<procState, Id, Terminated, Handle, mainThread, creation, ProcessList, PidBitmap,
                     Owner, creator, threadHandle, terminatePending>>
      /\ threadState[t] = "init" /\ CreatorRuns(t) /\ ThreadGoto(t, "listed")
      /\ NumberOfThreads' = Set(NumberOfThreads, p, NumberOfThreads[p] + 1)
      /\ ActiveThreads' = Set(ActiveThreads, p, ActiveThreads[p] + 1)
      /\ ThreadList' = Set(ThreadList, p, ThreadList[p] \cup {t})
      /\ RefCnt' = Set(RefCnt, p, RefCnt[p] + 1)
      /\ threadRef' = Set(threadRef, t, threadRef[t] + 1)
  BY <1>0 DEF ProcessInsertThreadInList
<1>2. p \in Processes
  OBVIOUS
<1>3. \A states : /\ \A q \in Processes \ {p} : ThreadsIn(q, states)' = ThreadsIn(q, states)
                  /\ ThreadsIn(p, states)' = IF "listed" \in states THEN ThreadsIn(p, states) \cup {t}
                                             ELSE ThreadsIn(p, states) \ {t}
  BY <1>0, <1>1, ThreadMoves
<1>4. \A u \in Threads : /\ threadState'[u] = IF u = t THEN "listed" ELSE threadState[u]
                         /\ threadRef'[u] = IF u = t THEN threadRef[u] + 1 ELSE threadRef[u]
  BY <1>1 DEF ThreadGoto, Set, ProcessIInv, ObjectsTypeOK
<1>5. \A q \in Processes :
          /\ NumberOfThreads'[q] = IF q = p THEN NumberOfThreads[q] + 1 ELSE NumberOfThreads[q]
          /\ ActiveThreads'[q] = IF q = p THEN ActiveThreads[q] + 1 ELSE ActiveThreads[q]
          /\ ThreadList'[q] = IF q = p THEN ThreadList[q] \cup {t} ELSE ThreadList[q]
          /\ RefCnt'[q] = IF q = p THEN RefCnt[q] + 1 ELSE RefCnt[q]
  BY <1>1 DEF Set, ProcessIInv, ObjectsTypeOK
<1>6. \/ creation[p] = "thread"
      \/ creation[p] \in Started /\ ThreadsIn(p, Active) # {} /\ ThreadList[p] # {}
  <2>1. CASE creator[t] = None
    BY <1>0, <1>1, <2>1, OwnerFacts
  <2>2. CASE creator[t] # None
    <3>1. creator[t] \in Threads /\ threadState[creator[t]] = "alive" /\ Owner[creator[t]] = p
      BY <1>0, <1>1, <2>2 DEF CreatorRuns, ProcessIInv, CreatorInv, ObjectsTypeOK
    <3>2. creation[p] \in Started
      BY <3>1, OwnerFacts
    <3>3. creator[t] \in ThreadsIn(p, Active) /\ creator[t] \in ThreadsIn(p, Enlisted)
      BY <3>1 DEF ThreadsIn, Active, Enlisted
    <3> QED
      BY <1>2, <3>2, <3>3 DEF ProcessIInv, CountInv
  <2> QED
    BY <2>1, <2>2
<1>7. HasFirst(p) /\ HasFirst(p)' /\ (\A q \in Processes \ {p} : HasFirst(q)' <=> HasFirst(q))
      /\ procState[p] = "alive" /\ ~Terminated[p]
  <2>1. HasFirst(p) /\ HasFirst(p)'
    BY <1>1, <1>2, <1>5, <1>6 DEF HasFirst
  <2>2. \A q \in Processes \ {p} : HasFirst(q)' <=> HasFirst(q)
    BY <1>1, <1>3, <1>5 DEF HasFirst
  <2> QED
    BY <1>2, <1>6, <2>1, <2>2 DEF ProcessIInv, AliveInv, TermInv, CreationInv, Started
<1>8. ObjectsTypeOK'
  BY <1>1, <1>2 DEF ProcessIInv, ObjectsTypeOK, ThreadGoto, Set
<1>9. CountInv'
  <2>1. t \notin ThreadsIn(p, Enlisted) /\ t \notin ThreadsIn(p, Active)
        /\ ThreadsIn(p, Enlisted)' = ThreadsIn(p, Enlisted) \cup {t}
        /\ ThreadsIn(p, Active)' = ThreadsIn(p, Active) \cup {t}
    BY <1>0, <1>1, <1>3 DEF ThreadsIn, Enlisted, Active
  <2>2. /\ Cardinality(ThreadsIn(p, Enlisted) \cup {t}) = Cardinality(ThreadsIn(p, Enlisted)) + 1
        /\ Cardinality(ThreadsIn(p, Active) \cup {t}) = Cardinality(ThreadsIn(p, Active)) + 1
    BY <2>1, CountedAreFinite, FS_AddElement
  <2>3. NumberOfThreads[p] \in Nat /\ RefCnt[p] \in Nat /\ HandleRef(p) \in Nat
    BY <1>2 DEF ProcessIInv, ObjectsTypeOK, FirstRef, HandleRef
  <2>4. \A q \in Processes \ {p} : ThreadsIn(q, Enlisted)' = ThreadsIn(q, Enlisted)
                                   /\ ThreadsIn(q, Active)' = ThreadsIn(q, Active)
    BY <1>3
  <2>5. /\ FirstRef(p) = 1 /\ FirstRef(p)' = 1 /\ \A q \in Processes \ {p} : FirstRef(q)' = FirstRef(q)
        /\ \A q \in Processes : HandleRef(q)' = HandleRef(q) /\ HandleRef(q) \in {0, 1}
    BY <1>1, <1>7 DEF FirstRef, HandleRef
  <2>6. \A q \in Processes : RefCnt'[q] = FirstRef(q)' + NumberOfThreads'[q] + HandleRef(q)'
    <3>1. \A q \in Processes : /\ RefCnt[q] = FirstRef(q) + NumberOfThreads[q] + HandleRef(q)
                               /\ NumberOfThreads[q] \in Nat
      BY DEF ProcessIInv, CountInv, ObjectsTypeOK
    <3> SUFFICES ASSUME NEW q \in Processes
                 PROVE  RefCnt'[q] = FirstRef(q)' + NumberOfThreads'[q] + HandleRef(q)'
      OBVIOUS
    <3>2. CASE q = p
      <4>1. /\ RefCnt[p] = 1 + NumberOfThreads[p] + HandleRef(p) /\ NumberOfThreads[p] \in Nat
            /\ HandleRef(p)' = HandleRef(p) /\ HandleRef(p) \in Nat /\ FirstRef(p)' = 1
        BY <2>5, <3>1
      <4>a. RefCnt'[p] = RefCnt[p] + 1 /\ NumberOfThreads'[p] = NumberOfThreads[p] + 1
        BY <1>5
      <4>2. RefCnt'[p] = 1 + NumberOfThreads'[p] + HandleRef(p)
        BY <4>1, <4>a
      <4>3. RefCnt'[p] = FirstRef(p)' + NumberOfThreads'[p] + HandleRef(p)'
        BY <4>1, <4>2
      <4> QED
        BY <3>2, <4>3
    <3>3. CASE q # p
      <4>1. RefCnt'[q] = RefCnt[q] /\ NumberOfThreads'[q] = NumberOfThreads[q]
        BY <1>5, <3>3
      <4> QED
        BY <2>5, <3>1, <3>3, <4>1
    <3> QED
      BY <3>2, <3>3
  <2>7. \A q \in Processes : /\ ThreadList'[q] = ThreadsIn(q, Enlisted)'
                             /\ NumberOfThreads'[q] = Cardinality(ThreadList'[q])
    <3> SUFFICES ASSUME NEW q \in Processes
                 PROVE  /\ ThreadList'[q] = ThreadsIn(q, Enlisted)'
                        /\ NumberOfThreads'[q] = Cardinality(ThreadList'[q])
      OBVIOUS
    <3>1. ThreadList[q] = ThreadsIn(q, Enlisted) /\ NumberOfThreads[q] = Cardinality(ThreadList[q])
      BY DEF ProcessIInv, CountInv
    <3>2. CASE q = p
      BY <1>5, <2>1, <2>2, <2>4, <3>1, <3>2
    <3>3. CASE q # p
      BY <1>5, <2>1, <2>2, <2>4, <3>1, <3>3
    <3> QED
      BY <3>2, <3>3
  <2>8. \A q \in Processes : ActiveThreads'[q] = Cardinality(ThreadsIn(q, Active)')
    <3> SUFFICES ASSUME NEW q \in Processes
                 PROVE  ActiveThreads'[q] = Cardinality(ThreadsIn(q, Active)')
      OBVIOUS
    <3>1. ActiveThreads[q] = Cardinality(ThreadsIn(q, Active))
      BY DEF ProcessIInv, CountInv
    <3>2. CASE q = p
      BY <1>5, <2>1, <2>2, <3>1, <3>2
    <3>3. CASE q # p
      BY <1>5, <2>4, <3>1, <3>3
    <3> QED
      BY <3>2, <3>3
  <2> QED
    BY <2>6, <2>7, <2>8 DEF CountInv
<1>10. AliveInv'
  BY <1>1, <1>5, <1>7 DEF ProcessIInv, AliveInv
<1>11. ThreadRefInv'
  BY <1>1, <1>4 DEF ProcessIInv, ThreadRefInv, ThreadHandleRef
<1>12. CreatorInv'
  BY <1>1, <1>4 DEF ProcessIInv, CreatorInv
<1>13. CreationInv'
  BY <1>1, <1>4 DEF ProcessIInv, CreationInv
<1>14. LastInv'
  <2>1. \A u \in Threads : threadState[u] = "lastUnlinked" => Owner[u] # p
    <3>1. SUFFICES ASSUME NEW u \in Threads, threadState[u] = "lastUnlinked", Owner[u] = p
                   PROVE  FALSE
      OBVIOUS
    <3>2. ThreadList[p] = {} /\ creation[p] \in Started
      BY <3>1, OwnerFacts DEF ProcessIInv, LastInv
    <3> QED
      BY <1>6, <3>2 DEF Started
  <2>2. \A u \in Threads : threadState[u] = "lastUnlinked" => Owner[u] \in Processes
    BY OwnerFacts
  <2>3. \A u \in Threads : threadState'[u] = "lastUnlinked" =>
            threadState[u] = "lastUnlinked" /\ Owner'[u] = Owner[u] /\ ThreadList'[Owner[u]] = ThreadList[Owner[u]]
    <3> SUFFICES ASSUME NEW u \in Threads, threadState'[u] = "lastUnlinked"
                 PROVE  threadState[u] = "lastUnlinked" /\ Owner'[u] = Owner[u] /\ ThreadList'[Owner[u]] = ThreadList[Owner[u]]
      OBVIOUS
    <3>1. threadState[u] = "lastUnlinked"
      BY <1>4
    <3>2. Owner[u] \in Processes /\ Owner[u] # p
      BY <2>1, <2>2, <3>1
    <3>3. ThreadList'[Owner[u]] = ThreadList[Owner[u]]
      BY <1>5, <3>2
    <3> QED
      BY <1>1, <3>1, <3>3
  <2> QED
    BY <2>3 DEF ProcessIInv, LastInv
<1>15. TermInv'
  BY <1>1, <1>3, <1>7 DEF ProcessIInv, TermInv
<1>16. PidInv'
  BY <1>1 DEF ProcessIInv, PidInv, PidsExact, HasPid
<1> QED
  BY <1>8, <1>9, <1>10, <1>11, <1>12, <1>13, <1>14, <1>15, <1>16 DEF ProcessIInv

\* A thread that moves between states that count alike leaves its process as it is.
LEMMA SilentMove ==
    ASSUME ProcessIInv, NEW t \in Threads, NEW s \in {"leaked", "alive", "exiting", "destroying"},
           threadState[t] # "none", threadState[t] \in Enlisted, s \in Enlisted,
           threadState[t] \in Active <=> s \in Active,
           ThreadGoto(t, s),
           UNCHANGED <<procState, RefCnt, NumberOfThreads, ActiveThreads, ThreadList, Id, Terminated,
                       Handle, mainThread, ProcessList, PidBitmap, Owner, creator>>,
           creation' = creation \/ /\ creation[Owner[t]] = "thread"
                                   /\ \/ creation' = Set(creation, Owner[t], "close") /\ s = "alive"
                                      \/ creation' = Set(creation, Owner[t], "fail")
    PROVE  CountInv' /\ AliveInv' /\ LastInv' /\ TermInv' /\ PidInv' /\ CreatorInv'
<1> DEFINE p == Owner[t]
<1>1. p \in Processes
  BY OwnerFacts
<1>2. \A q \in Processes : /\ ThreadsIn(q, Enlisted)' = ThreadsIn(q, Enlisted)
                           /\ ThreadsIn(q, Active)' = ThreadsIn(q, Active)
                           /\ ThreadsIn(q, {"lastUnlinked"})' = ThreadsIn(q, {"lastUnlinked"})
  <2>1. \A u \in Threads : threadState'[u] = IF u = t THEN s ELSE threadState[u]
    BY ThreadMoves
  <2> QED
    BY <2>1 DEF ThreadsIn, Enlisted
<1>3. creation \in [Processes -> Early \cup Started \cup {"thread", "fail", "failed"}]
  BY DEF ProcessIInv, ObjectsTypeOK, Early, Started
<1>4. t \in ThreadList[p] /\ t \in ThreadsIn(p, Enlisted)
  BY <1>1 DEF ProcessIInv, CountInv, ThreadsIn
<1>5. \A q \in Processes : HasFirst(q)' <=> HasFirst(q)
  BY <1>1, <1>2, <1>3, <1>4 DEF HasFirst, Set, Early, Started
<1>6. CountInv' /\ TermInv'
  BY <1>2, <1>5 DEF ProcessIInv, CountInv, FirstRef, HandleRef, TermInv
<1>7. AliveInv'
  BY <1>1, <1>3, <1>5 DEF ProcessIInv, AliveInv, Set
<1>8. \A u \in Threads : threadState'[u] = IF u = t THEN s ELSE threadState[u]
  BY ThreadMoves
<1>9. LastInv' /\ CreatorInv'
  BY <1>8 DEF ProcessIInv, LastInv, CreatorInv
<1>10. PidInv'
  BY DEF ProcessIInv, PidInv, PidsExact, HasPid
<1> QED
  BY <1>6, <1>7, <1>9, <1>10

\* The end of ThreadCreateEx, with the thread running or left behind
LEMMA CreateExEndsInv ==
    ASSUME ProcessIInv, NEW t \in Threads, ThreadCreateExEnds(t)
    PROVE  ProcessIInv'
<1> DEFINE p == Owner[t]
<1>1. /\ UNCHANGED <<procState, RefCnt, NumberOfThreads, ActiveThreads, ThreadList, Id, Terminated,
                     Handle, mainThread, ProcessList, PidBitmap, Owner, creator, threadRef, terminatePending>>
      /\ threadState[t] = "listed" /\ CreatorRuns(t)
  BY DEF ThreadCreateExEnds
<1>2. p \in Processes
  BY <1>1, OwnerFacts
<1>3. creator[t] = None <=> creation[p] = "thread"
  BY <1>1, OwnerFacts
<1>4. \A q \in Processes : creation[q] = "thread" =>
          \A u \in Threads : Owner[u] = q => u = mainThread[q]
  BY DEF ProcessIInv, CreationInv
<1>5. creation \in [Processes -> Early \cup Started \cup {"thread", "fail", "failed"}]
  BY DEF ProcessIInv, ObjectsTypeOK, Early, Started
<1>a. threadState[t] \in Enlisted /\ threadState[t] \in Active /\ {"alive", "leaked"} \subseteq Enlisted \cap Active
  BY <1>1 DEF Enlisted, Active
<1>6. CASE /\ ThreadGoto(t, "alive")
           /\ threadHandle' = Set(threadHandle, t, TRUE)
           /\ creation' = IF creator[t] = None THEN Set(creation, p, "close") ELSE creation
  <2>1. CountInv' /\ AliveInv' /\ LastInv' /\ TermInv' /\ PidInv' /\ CreatorInv'
    BY <1>1, <1>3, <1>6, <1>a, SilentMove
  <2>2. ObjectsTypeOK'
    BY <1>1, <1>2, <1>6 DEF ProcessIInv, ObjectsTypeOK, ThreadGoto, Set
  <2>3. /\ \A u \in Threads : threadState'[u] = IF u = t THEN "alive" ELSE threadState[u]
        /\ threadHandle'[t] /\ \A u \in Threads \ {t} : threadHandle'[u] = threadHandle[u]
    BY <1>6 DEF ThreadGoto, Set, ProcessIInv, ObjectsTypeOK
  <2>4. ThreadRefInv'
    BY <1>1, <2>3 DEF ProcessIInv, ThreadRefInv, ThreadHandleRef
  <2>5. CreationInv'
    <3>1. \A q \in Processes : creation'[q] = IF q = p /\ creator[t] = None THEN "close" ELSE creation[q]
      BY <1>2, <1>5, <1>6 DEF Set
    <3> QED
      BY <1>1, <1>2, <1>3, <1>4, <2>3, <3>1 DEF ProcessIInv, CreationInv, Early, Started
  <2> QED
    BY <2>1, <2>2, <2>4, <2>5 DEF ProcessIInv
<1>7. CASE /\ ThreadGoto(t, "leaked")
           /\ creation' = IF creator[t] = None THEN Set(creation, p, "fail") ELSE creation
           /\ UNCHANGED threadHandle
  <2>1. CountInv' /\ AliveInv' /\ LastInv' /\ TermInv' /\ PidInv' /\ CreatorInv'
    BY <1>1, <1>3, <1>7, <1>a, SilentMove
  <2>2. ObjectsTypeOK'
    BY <1>1, <1>2, <1>7 DEF ProcessIInv, ObjectsTypeOK, ThreadGoto, Set
  <2>3. \A u \in Threads : threadState'[u] = IF u = t THEN "leaked" ELSE threadState[u]
    BY <1>7 DEF ThreadGoto, Set, ProcessIInv, ObjectsTypeOK
  <2>4. ThreadRefInv'
    BY <1>1, <1>7, <2>3 DEF ProcessIInv, ThreadRefInv, ThreadHandleRef
  <2>5. CreationInv'
    <3>1. \A q \in Processes : creation'[q] = IF q = p /\ creator[t] = None THEN "fail" ELSE creation[q]
      BY <1>2, <1>5, <1>7 DEF Set
    <3>2. creation[p] = "thread" => ~Handle[p] /\ ~Terminated[p]
      BY <1>2 DEF ProcessIInv, CreationInv, Started
    <3> QED
      BY <1>1, <1>2, <1>3, <1>4, <1>7, <2>3, <3>1, <3>2 DEF ProcessIInv, CreationInv, Early, Started
  <2> QED
    BY <2>1, <2>2, <2>4, <2>5 DEF ProcessIInv
<1> QED
  BY <1>6, <1>7 DEF ThreadCreateExEnds

\* A handle of a thread is closed, by UmApplicationRun or by the thread that created it.
ClosesHandle(t) ==
    /\ threadHandle[t]
    /\ threadHandle' = Set(threadHandle, t, FALSE) /\ threadRef' = Set(threadRef, t, threadRef[t] - 1)
    /\ UNCHANGED <<procState, RefCnt, NumberOfThreads, ActiveThreads, ThreadList, Id, Terminated, Handle,
                   mainThread, ProcessList, PidBitmap, threadState, Owner, creator, terminatePending>>
    /\ \/ UNCHANGED creation /\ creator[t] # None
       \/ \E p \in Processes : creation[p] = "close" /\ creation' = Set(creation, p, "reference")
                               /\ t = mainThread[p]

LEMMA HandleClosed ==
    ASSUME ProcessIInv, NEW t \in Threads, ClosesHandle(t)
    PROVE  ProcessIInv'
<1>0. /\ UNCHANGED <<procState, RefCnt, NumberOfThreads, ActiveThreads, ThreadList, Id, Terminated, Handle,
                     mainThread, ProcessList, PidBitmap, threadState, Owner, creator, terminatePending>>
      /\ threadHandle[t]
  BY DEF ClosesHandle
<1>1. \A q, states : ThreadsIn(q, states)' = ThreadsIn(q, states)
  BY <1>0, ThreadsStay
<1>2. creation \in [Processes -> Early \cup Started \cup {"thread", "fail", "failed"}]
  BY DEF ProcessIInv, ObjectsTypeOK, Early, Started
<1>3. /\ ~threadHandle'[t] /\ \A u \in Threads \ {t} : threadHandle'[u] = threadHandle[u]
      /\ \A u \in Threads : threadRef'[u] = IF u = t THEN threadRef[u] - 1 ELSE threadRef[u]
  BY DEF ClosesHandle, Set, ProcessIInv, ObjectsTypeOK
<1>4. threadRef[t] > 0
  BY <1>0 DEF ProcessIInv, ThreadRefInv, ThreadHandleRef
<1>5. ObjectsTypeOK'
  BY <1>0, <1>4 DEF ClosesHandle, ProcessIInv, ObjectsTypeOK, Set
<1>6. \A q \in Processes : HasFirst(q)' <=> HasFirst(q)
  BY <1>0, <1>1, <1>2 DEF ClosesHandle, HasFirst, Set, Early, Started
<1>7. CountInv' /\ TermInv'
  BY <1>0, <1>1, <1>6 DEF ProcessIInv, CountInv, FirstRef, HandleRef, TermInv
<1>8. AliveInv'
  BY <1>0, <1>2, <1>6 DEF ClosesHandle, ProcessIInv, AliveInv, Set
<1>9. ThreadRefInv'
  <2>1. /\ threadState[t] \in {"alive", "exiting", "dead"}
        /\ threadRef[t] = IF threadState[t] = "dead" THEN 1 ELSE 2
    BY <1>0 DEF ProcessIInv, ThreadRefInv, ThreadHandleRef
  <2>2. ThreadHandleRef(t)' = 0 /\ \A u \in Threads \ {t} : ThreadHandleRef(u)' = ThreadHandleRef(u)
    BY <1>3 DEF ThreadHandleRef
  <2> QED
    <3> SUFFICES ASSUME NEW u \in Threads
                 PROVE  (/\ threadHandle[u] => threadState[u] \in {"alive", "exiting", "dead"}
                         /\ threadRef[u] = CASE threadState[u] \in {"listed", "leaked"} -> 2
                                             [] threadState[u] \in {"init"} -> 1
                                             [] threadState[u] \in {"alive", "exiting"} -> 1 + ThreadHandleRef(u)
                                             [] OTHER -> ThreadHandleRef(u))'
      BY DEF ThreadRefInv
    <3>1. CASE u = t
      BY <1>0, <1>3, <2>1, <2>2, <3>1
    <3>2. CASE u # t
      BY <1>0, <1>3, <2>2, <3>2 DEF ProcessIInv, ThreadRefInv
    <3> QED
      BY <3>1, <3>2
<1>10. CreatorInv' /\ LastInv'
  BY <1>0 DEF ProcessIInv, CreatorInv, LastInv
<1>11. CreationInv'
  <2>1. CASE UNCHANGED creation /\ creator[t] # None
    <3>1. \A q \in Processes : creation[q] = "close" => mainThread[q] \in Threads /\ mainThread[q] # t
      BY <2>1 DEF ProcessIInv, CreationInv, Started
    <3>2. \A q \in Processes : creation[q] = "close" => threadHandle'[mainThread[q]]
      <4> SUFFICES ASSUME NEW q \in Processes, creation[q] = "close"
                   PROVE  threadHandle'[mainThread[q]]
        OBVIOUS
      <4>1. threadHandle[mainThread[q]]
        BY DEF ProcessIInv, CreationInv
      <4> QED
        BY <1>3, <3>1, <4>1
    <3> QED
      BY <1>0, <2>1, <3>2 DEF ProcessIInv, CreationInv
  <2>2. ASSUME NEW p \in Processes, creation[p] = "close", creation' = Set(creation, p, "reference"),
               t = mainThread[p]
        PROVE  CreationInv'
    <3>1. \A q \in Processes : creation'[q] = IF q = p THEN "reference" ELSE creation[q]
      BY <1>2, <2>2 DEF Set
    <3>2. \A q \in Processes \ {p} : creation[q] = "close" => mainThread[q] \in Threads /\ mainThread[q] # t
      BY <2>2 DEF ProcessIInv, CreationInv, Started
    <3>3. \A q \in Processes : creation'[q] = "close" => creation[q] = "close" /\ threadHandle'[mainThread[q]]
      <4> SUFFICES ASSUME NEW q \in Processes, creation'[q] = "close"
                   PROVE  creation[q] = "close" /\ threadHandle'[mainThread[q]]
        OBVIOUS
      <4>1. creation[q] = "close" /\ q # p
        BY <3>1
      <4>2. threadHandle[mainThread[q]]
        BY <4>1 DEF ProcessIInv, CreationInv
      <4> QED
        BY <1>3, <3>2, <4>1, <4>2
    <3>4. \A q \in Processes : /\ creation'[q] \in Started <=> creation[q] \in Started
                               /\ \A c \in Early \cup {"thread", "fail", "failed", "done"} :
                                      creation'[q] = c <=> creation[q] = c
      BY <2>2, <3>1 DEF Early, Started
    <3> QED
      BY <1>0, <3>3, <3>4 DEF ProcessIInv, CreationInv
  <2> QED
    BY <2>1, <2>2 DEF ClosesHandle
<1>12. PidInv'
  BY <1>0 DEF ProcessIInv, PidInv, PidsExact, HasPid
<1> QED
  BY <1>5, <1>7, <1>8, <1>9, <1>10, <1>11, <1>12 DEF ProcessIInv

\* A thread enters ThreadExit, or is about to free its stack.
LEMMA ThreadStops ==
    ASSUME ProcessIInv, NEW t \in Threads, terminatePending' \in [Threads -> BOOLEAN],
           \/ threadState[t] = "alive" /\ ThreadGoto(t, "exiting")
           \/ threadState[t] = "dead" /\ threadRef[t] = 0 /\ ThreadGoto(t, "destroying"),
           UNCHANGED <<procVars, Owner, creator, threadRef, threadHandle>>
    PROVE  ProcessIInv'
<1>1. UNCHANGED <<procState, RefCnt, NumberOfThreads, ActiveThreads, ThreadList, Id, Terminated, Handle,
                  creation, mainThread, ProcessList, PidBitmap>>
  BY DEF procVars
<1>2. PICK s \in {"exiting", "destroying"} :
          /\ ThreadGoto(t, s)
          /\ s = "exiting" => threadState[t] = "alive"
          /\ s = "destroying" => threadState[t] = "dead" /\ threadRef[t] = 0
  OBVIOUS
<1>3. CountInv' /\ AliveInv' /\ LastInv' /\ TermInv' /\ PidInv' /\ CreatorInv'
  <2>1. /\ threadState[t] # "none" /\ threadState[t] \in Enlisted /\ s \in Enlisted
        /\ threadState[t] \in Active <=> s \in Active
    BY <1>2 DEF Enlisted, Active
  <2> QED
    BY <1>1, <1>2, <2>1, SilentMove
<1>4. ObjectsTypeOK'
  BY <1>1, <1>2 DEF ProcessIInv, ObjectsTypeOK, ThreadGoto, Set
<1>5. \A u \in Threads : threadState'[u] = IF u = t THEN s ELSE threadState[u]
  BY <1>2 DEF ThreadGoto, Set, ProcessIInv, ObjectsTypeOK
<1>6. ThreadRefInv'
  BY <1>2, <1>5 DEF ProcessIInv, ThreadRefInv, ThreadHandleRef
<1>7. CreationInv'
  BY <1>1, <1>2, <1>5 DEF ProcessIInv, CreationInv
<1> QED
  BY <1>3, <1>4, <1>6, <1>7 DEF ProcessIInv

\* ProcessNotifyThreadTermination: the last active thread signals the termination event.
LEMMA NotifyInv ==
    ASSUME ProcessIInv, NEW t \in Threads, ProcessNotifyThreadTermination(t)
    PROVE  ProcessIInv'
<1>0. PICK p \in Processes : p = Owner[t]
  BY OwnerFacts DEF ProcessNotifyThreadTermination
<1>1. /\ UNCHANGED <<procState, RefCnt, NumberOfThreads, ThreadList, Id, Handle, mainThread, creation,
                     ProcessList, PidBitmap, Owner, creator, threadHandle, terminatePending>>
      /\ threadState[t] = "exiting" /\ ThreadGoto(t, "dead")
      /\ ActiveThreads' = Set(ActiveThreads, p, ActiveThreads[p] - 1)
      /\ Terminated' = Set(Terminated, p, Terminated[p] \/ ActiveThreads[p] = 1)
      /\ threadRef' = Set(threadRef, t, threadRef[t] - 1)
  BY <1>0 DEF ProcessNotifyThreadTermination
<1>2. p \in Processes /\ creation[p] \in Started
  BY <1>0, <1>1, OwnerFacts
<1>3. \A q \in Processes : /\ ThreadsIn(q, Enlisted)' = ThreadsIn(q, Enlisted)
                           /\ ThreadsIn(q, {"lastUnlinked"})' = ThreadsIn(q, {"lastUnlinked"})
                           /\ q # p => ThreadsIn(q, Active)' = ThreadsIn(q, Active)
  <2>1. \A u \in Threads : threadState'[u] = IF u = t THEN "dead" ELSE threadState[u]
    BY <1>1, ThreadMoves
  <2> QED
    BY <1>0, <1>1, <2>1 DEF ThreadsIn, Enlisted
<1>4. /\ ThreadsIn(p, Active)' = ThreadsIn(p, Active) \ {t}
      /\ t \in ThreadsIn(p, Active)
  <2>1. "dead" \notin Active
    BY DEF Active
  <2>2. ThreadsIn(p, Active)' = ThreadsIn(p, Active) \ {t}
    BY <1>0, <1>1, <2>1, ThreadMoves
  <2> QED
    BY <1>0, <1>1, <2>2 DEF ThreadsIn, Active
<1>5. /\ ActiveThreads[p] = Cardinality(ThreadsIn(p, Active)) /\ ActiveThreads[p] \in Nat
      /\ Cardinality(ThreadsIn(p, Active) \ {t}) = ActiveThreads[p] - 1
      /\ ActiveThreads[p] - 1 \in Nat
      /\ ActiveThreads[p] = 1 => ThreadsIn(p, Active) \ {t} = {}
  <2>1. ActiveThreads[p] = Cardinality(ThreadsIn(p, Active)) /\ IsFiniteSet(ThreadsIn(p, Active))
        /\ ActiveThreads[p] \in Nat
    BY <1>2, CountedAreFinite DEF ProcessIInv, CountInv
  <2>2. IsFiniteSet(ThreadsIn(p, Active) \ {t})
        /\ Cardinality(ThreadsIn(p, Active) \ {t}) = ActiveThreads[p] - 1
    BY <1>4, <2>1, FS_RemoveElement
  <2>3. Cardinality(ThreadsIn(p, Active) \ {t}) \in Nat
    BY <2>2, FS_CardinalityType
  <2> QED
    BY <2>1, <2>2, <2>3, FS_EmptySet
<1>6. \A q \in Processes : /\ ActiveThreads'[q] = IF q = p THEN ActiveThreads[q] - 1 ELSE ActiveThreads[q]
                           /\ Terminated'[q] = IF q = p THEN Terminated[q] \/ ActiveThreads[q] = 1 ELSE Terminated[q]
  BY <1>1 DEF Set, ProcessIInv, ObjectsTypeOK
<1>7. \A u \in Threads : /\ threadState'[u] = IF u = t THEN "dead" ELSE threadState[u]
                         /\ threadRef'[u] = IF u = t THEN threadRef[u] - 1 ELSE threadRef[u]
  BY <1>1 DEF ThreadGoto, Set, ProcessIInv, ObjectsTypeOK
<1>8. threadRef[t] = 1 + ThreadHandleRef(t)
  BY <1>1 DEF ProcessIInv, ThreadRefInv, ThreadHandleRef
<1>9. ObjectsTypeOK'
  <2>1. threadRef[t] - 1 \in Nat
    BY <1>8 DEF ThreadHandleRef
  <2>2. (Terminated[p] \/ ActiveThreads[p] = 1) \in BOOLEAN
    OBVIOUS
  <2> QED
    BY <1>1, <1>5, <2>1, <2>2 DEF ProcessIInv, ObjectsTypeOK, ThreadGoto, Set
<1>10. \A q \in Processes : HasFirst(q)' <=> HasFirst(q)
  BY <1>1, <1>3 DEF HasFirst
<1>11. CountInv'
  BY <1>1, <1>3, <1>4, <1>5, <1>6, <1>10 DEF ProcessIInv, CountInv, FirstRef, HandleRef
<1>12. AliveInv' /\ PidInv'
  BY <1>1, <1>10 DEF ProcessIInv, AliveInv, PidInv, PidsExact, HasPid
<1>13. TermInv'
  BY <1>3, <1>4, <1>5, <1>6 DEF ProcessIInv, TermInv
<1>14. ThreadRefInv'
  BY <1>1, <1>7, <1>8 DEF ProcessIInv, ThreadRefInv, ThreadHandleRef
<1>15. CreatorInv' /\ LastInv'
  BY <1>1, <1>7 DEF ProcessIInv, CreatorInv, LastInv
<1>16. CreationInv'
  BY <1>0, <1>1, <1>2, <1>6, <1>7 DEF ProcessIInv, CreationInv
<1> QED
  BY <1>9, <1>11, <1>12, <1>13, <1>14, <1>15, <1>16 DEF ProcessIInv

\* ProcessRemoveThreadFromList: the thread gives back its reference; the first one is kept
\* for whoever finds that it removed the last thread.
LEMMA RemoveThreadInv ==
    ASSUME ProcessIInv, NEW t \in Threads, ProcessRemoveThreadFromList(t)
    PROVE  ProcessIInv'
<1>0. PICK p \in Processes : p = Owner[t]
  BY OwnerFacts DEF ProcessRemoveThreadFromList
<1>s. PICK s \in {"lastUnlinked", "freed"} : /\ s = "lastUnlinked" <=> NumberOfThreads[p] = 1
                                            /\ ThreadGoto(t, s)
  BY <1>0 DEF ProcessRemoveThreadFromList
<1>1. /\ UNCHANGED <<ActiveThreads, Id, Terminated, Handle, mainThread, creation, ProcessList, PidBitmap,
                     Owner, creator, threadRef, threadHandle, terminatePending>>
      /\ threadState[t] = "destroying" /\ ThreadGoto(t, s) /\ ProcessDereference(p)
      /\ NumberOfThreads' = Set(NumberOfThreads, p, NumberOfThreads[p] - 1)
      /\ ThreadList' = Set(ThreadList, p, ThreadList[p] \ {t})
  BY <1>0, <1>s DEF ProcessRemoveThreadFromList
<1>2. p \in Processes /\ creation[p] \in Started
  BY <1>0, <1>1, OwnerFacts
<1>3. s \in {"lastUnlinked", "freed"}
  OBVIOUS
<1>4. \A u \in Threads : threadState'[u] = IF u = t THEN s ELSE threadState[u]
  BY <1>1 DEF ThreadGoto, Set, ProcessIInv, ObjectsTypeOK
<1>5. \A q \in Processes :
          /\ NumberOfThreads'[q] = IF q = p THEN NumberOfThreads[q] - 1 ELSE NumberOfThreads[q]
          /\ ThreadList'[q] = IF q = p THEN ThreadList[q] \ {t} ELSE ThreadList[q]
  BY <1>1 DEF Set, ProcessIInv, ObjectsTypeOK
<1>6. /\ \A q \in Processes : ThreadsIn(q, Active)' = ThreadsIn(q, Active)
      /\ \A q \in Processes \ {p} : /\ ThreadsIn(q, Enlisted)' = ThreadsIn(q, Enlisted)
                                    /\ ThreadsIn(q, {"lastUnlinked"})' = ThreadsIn(q, {"lastUnlinked"})
      /\ ThreadsIn(p, Enlisted)' = ThreadsIn(p, Enlisted) \ {t} /\ t \in ThreadsIn(p, Enlisted)
  BY <1>0, <1>1, <1>3, <1>4 DEF ThreadsIn, Active, Enlisted
<1>7. /\ ThreadList[p] = ThreadsIn(p, Enlisted) /\ NumberOfThreads[p] \in Nat /\ NumberOfThreads[p] - 1 \in Nat
      /\ Cardinality(ThreadList[p] \ {t}) = NumberOfThreads[p] - 1
      /\ NumberOfThreads[p] = 1 <=> ThreadList[p] \ {t} = {}
  <2>1. /\ ThreadList[p] = ThreadsIn(p, Enlisted) /\ NumberOfThreads[p] = Cardinality(ThreadList[p])
        /\ IsFiniteSet(ThreadList[p]) /\ NumberOfThreads[p] \in Nat
    BY <1>2, CountedAreFinite DEF ProcessIInv, CountInv
  <2>2. IsFiniteSet(ThreadList[p] \ {t}) /\ Cardinality(ThreadList[p] \ {t}) = NumberOfThreads[p] - 1
    BY <1>6, <2>1, FS_RemoveElement
  <2>3. Cardinality(ThreadList[p] \ {t}) \in Nat
    BY <2>2, FS_CardinalityType
  <2> QED
    BY <2>1, <2>2, <2>3, FS_EmptySet
<1>t. ASSUME RefCnt' \in [Processes -> Nat],
             procState' \in [Processes -> {"none", "alive", "unreferenced", "unlisted", "freed"}]
      PROVE  ObjectsTypeOK'
  BY <1>t, <1>1, <1>2, <1>3, <1>7 DEF ProcessIInv, ObjectsTypeOK, ThreadGoto, Set
<1>8. HasFirst(p) /\ procState[p] = "alive" /\ ThreadList[p] # {}
  BY <1>2, <1>6, <1>7 DEF HasFirst, ProcessIInv, AliveInv
<1>9. HasFirst(p)' /\ \A q \in Processes \ {p} : HasFirst(q)' <=> HasFirst(q)
  <2>1. s = "lastUnlinked" => t \in ThreadsIn(p, {"lastUnlinked"})'
    BY <1>0, <1>1, <1>4 DEF ThreadsIn
  <2> QED
    BY <1>1, <1>2, <1>5, <1>6, <1>7, <1>s, <2>1 DEF HasFirst
<1>10. RefCnt[p] > 1
  BY <1>2, <1>7, <1>8 DEF ProcessIInv, CountInv, FirstRef, HandleRef
<1>11. /\ RefCnt' \in [Processes -> Nat] /\ RefCnt'[p] = RefCnt[p] - 1
       /\ procState' \in [Processes -> {"none", "alive", "unreferenced", "unlisted", "freed"}]
       /\ procState'[p] = "alive"
       /\ \A q \in Processes \ {p} : RefCnt'[q] = RefCnt[q] /\ procState'[q] = procState[q]
       /\ \A q \in Processes : HasPid(q)' <=> HasPid(q)
  <2>1. RefCnt[p] > 0 /\ RefCnt[p] # 1
    BY <1>2, <1>10 DEF ProcessIInv, ObjectsTypeOK
  <2> QED
    BY <1>1, <1>2, <1>8, <2>1, DereferenceFacts
<1>12. ObjectsTypeOK'
  BY <1>t, <1>11
<1>13. CountInv'
  <2>1. /\ FirstRef(p) = 1 /\ FirstRef(p)' = 1 /\ \A q \in Processes \ {p} : FirstRef(q)' = FirstRef(q)
        /\ \A q \in Processes : HandleRef(q)' = HandleRef(q) /\ HandleRef(q) \in {0, 1}
    BY <1>1, <1>8, <1>9 DEF FirstRef, HandleRef
  <2>2. \A q \in Processes : RefCnt'[q] = FirstRef(q)' + NumberOfThreads'[q] + HandleRef(q)'
    <3>1. \A q \in Processes : /\ RefCnt[q] = FirstRef(q) + NumberOfThreads[q] + HandleRef(q)
                               /\ NumberOfThreads[q] \in Nat
      BY DEF ProcessIInv, CountInv, ObjectsTypeOK
    <3> SUFFICES ASSUME NEW q \in Processes
                 PROVE  RefCnt'[q] = FirstRef(q)' + NumberOfThreads'[q] + HandleRef(q)'
      OBVIOUS
    <3>2. CASE q = p
      <4>1. /\ RefCnt[p] = 1 + NumberOfThreads[p] + HandleRef(p) /\ NumberOfThreads[p] \in Nat
            /\ HandleRef(p)' = HandleRef(p) /\ HandleRef(p) \in Nat /\ FirstRef(p)' = 1
        BY <2>1, <3>1
      <4>a. RefCnt'[p] = RefCnt[p] - 1 /\ NumberOfThreads'[p] = NumberOfThreads[p] - 1
        BY <1>5, <1>11
      <4>2. RefCnt'[p] = 1 + NumberOfThreads'[p] + HandleRef(p)
        BY <4>1, <4>a
      <4>3. RefCnt'[p] = FirstRef(p)' + NumberOfThreads'[p] + HandleRef(p)'
        BY <4>1, <4>2
      <4> QED
        BY <3>2, <4>3
    <3>3. CASE q # p
      <4>1. RefCnt'[q] = RefCnt[q] /\ NumberOfThreads'[q] = NumberOfThreads[q]
        BY <1>5, <1>11, <3>3
      <4> QED
        BY <2>1, <3>1, <3>3, <4>1
    <3> QED
      BY <3>2, <3>3
  <2>3. \A q \in Processes : /\ ThreadList'[q] = ThreadsIn(q, Enlisted)'
                             /\ NumberOfThreads'[q] = Cardinality(ThreadList'[q])
    <3> SUFFICES ASSUME NEW q \in Processes
                 PROVE  /\ ThreadList'[q] = ThreadsIn(q, Enlisted)'
                        /\ NumberOfThreads'[q] = Cardinality(ThreadList'[q])
      OBVIOUS
    <3>1. ThreadList[q] = ThreadsIn(q, Enlisted) /\ NumberOfThreads[q] = Cardinality(ThreadList[q])
      BY DEF ProcessIInv, CountInv
    <3>2. CASE q = p
      BY <1>5, <1>6, <1>7, <3>1, <3>2
    <3>3. CASE q # p
      BY <1>5, <1>6, <1>7, <3>1, <3>3
    <3> QED
      BY <3>2, <3>3
  <2>4. \A q \in Processes : ActiveThreads'[q] = Cardinality(ThreadsIn(q, Active)')
    BY <1>1, <1>6 DEF ProcessIInv, CountInv
  <2> QED
    BY <2>2, <2>3, <2>4 DEF CountInv
<1>14. AliveInv'
  BY <1>1, <1>2, <1>5, <1>8, <1>9, <1>11 DEF ProcessIInv, AliveInv, Started
<1>15. LastInv'
  <2>1. \A u \in Threads : threadState[u] = "lastUnlinked" => Owner[u] # p /\ Owner[u] \in Processes
    BY <1>8, OwnerFacts DEF ProcessIInv, LastInv
  <2>2. \A u \in Threads : threadState'[u] = "lastUnlinked" =>
            (u = t /\ s = "lastUnlinked") \/ (u # t /\ threadState[u] = "lastUnlinked")
    BY <1>4
  <2>3. \A u \in Threads \ {t} : threadState'[u] = "lastUnlinked" =>
            threadState[u] = "lastUnlinked" /\ Owner[u] # p /\ ThreadList'[Owner[u]] = ThreadList[Owner[u]]
    BY <1>5, <2>1, <2>2
  <2>4. threadState'[t] = "lastUnlinked" => ThreadList'[p] = {}
    BY <1>5, <1>7, <1>s, <2>2
  <2>5. \A u \in Threads : threadState'[u] = "lastUnlinked" => ThreadList'[Owner[u]] = {}
    <3> SUFFICES ASSUME NEW u \in Threads, threadState'[u] = "lastUnlinked" PROVE ThreadList'[Owner[u]] = {}
      OBVIOUS
    <3>1. CASE u = t
      BY <1>0, <2>4, <3>1
    <3>2. CASE u # t
      BY <2>3, <3>2 DEF ProcessIInv, LastInv
    <3> QED
      BY <3>1, <3>2
  <2>6. \A u, v \in Threads : threadState'[u] = "lastUnlinked" /\ threadState'[v] = "lastUnlinked"
                             /\ Owner[u] = Owner[v] => u = v
    BY <1>0, <2>3 DEF ProcessIInv, LastInv
  <2> QED
    BY <1>1, <2>5, <2>6 DEF LastInv
<1>16. TermInv'
  BY <1>1, <1>6 DEF ProcessIInv, TermInv
<1>17. ThreadRefInv'
  BY <1>1, <1>3, <1>4 DEF ProcessIInv, ThreadRefInv, ThreadHandleRef
<1>18. CreatorInv'
  BY <1>1, <1>3, <1>4 DEF ProcessIInv, CreatorInv
<1>19. CreationInv'
  BY <1>0, <1>1, <1>2, <1>3, <1>4 DEF ProcessIInv, CreationInv, Started
<1>20. PidInv'
  BY <1>1, <1>11 DEF ProcessIInv, PidInv, PidsExact
<1> QED
  BY <1>12, <1>13, <1>14, <1>15, <1>16, <1>17, <1>18, <1>19, <1>20 DEF ProcessIInv

\* The first reference is given back after the last thread.
LEMMA RemoveLastInv ==
    ASSUME ProcessIInv, NEW t \in Threads, RemoveLastReference(t)
    PROVE  ProcessIInv'
<1>0. PICK p \in Processes : p = Owner[t]
  BY OwnerFacts DEF RemoveLastReference
<1>1. /\ UNCHANGED <<NumberOfThreads, ActiveThreads, ThreadList, Id, Terminated, Handle, mainThread,
                     creation, ProcessList, PidBitmap, Owner, creator, threadRef, threadHandle, terminatePending>>
      /\ threadState[t] = "lastUnlinked" /\ ThreadGoto(t, "freed") /\ ProcessDereference(p)
  BY <1>0 DEF RemoveLastReference
<1>2. p \in Processes /\ creation[p] \in Started /\ ThreadList[p] = {}
  BY <1>0, <1>1, OwnerFacts DEF ProcessIInv, LastInv
<1>4. \A u \in Threads : threadState'[u] = IF u = t THEN "freed" ELSE threadState[u]
  BY <1>1 DEF ThreadGoto, Set, ProcessIInv, ObjectsTypeOK
<1>5. \A q \in Processes : /\ ThreadsIn(q, Active)' = ThreadsIn(q, Active)
                           /\ ThreadsIn(q, Enlisted)' = ThreadsIn(q, Enlisted)
                           /\ q # p => ThreadsIn(q, {"lastUnlinked"})' = ThreadsIn(q, {"lastUnlinked"})
  BY <1>0, <1>1, <1>4 DEF ThreadsIn, Active, Enlisted
<1>6. ThreadsIn(p, {"lastUnlinked"})' = {} /\ t \in ThreadsIn(p, {"lastUnlinked"})
  BY <1>0, <1>1, <1>4 DEF ThreadsIn, ProcessIInv, LastInv
<1>t. ASSUME RefCnt' \in [Processes -> Nat],
             procState' \in [Processes -> {"none", "alive", "unreferenced", "unlisted", "freed"}]
      PROVE  ObjectsTypeOK'
  BY <1>t, <1>1 DEF ProcessIInv, ObjectsTypeOK, ThreadGoto, Set
<1>7. /\ HasFirst(p) /\ procState[p] = "alive" /\ ~HasFirst(p)'
      /\ \A q \in Processes \ {p} : HasFirst(q)' <=> HasFirst(q)
  BY <1>1, <1>2, <1>5, <1>6 DEF HasFirst, ProcessIInv, AliveInv, Early, Started
<1>8. NumberOfThreads[p] = 0 /\ RefCnt[p] = 1 + HandleRef(p)
  <2>1. NumberOfThreads[p] = 0
    BY <1>2, FS_EmptySet DEF ProcessIInv, CountInv
  <2> QED
    BY <1>2, <1>7, <2>1 DEF ProcessIInv, CountInv, FirstRef, HandleRef
<1>9. /\ RefCnt' \in [Processes -> Nat] /\ RefCnt'[p] = RefCnt[p] - 1
      /\ procState' \in [Processes -> {"none", "alive", "unreferenced", "unlisted", "freed"}]
      /\ procState'[p] \in {"alive", "unreferenced"}
      /\ \A q \in Processes \ {p} : RefCnt'[q] = RefCnt[q] /\ procState'[q] = procState[q]
      /\ \A q \in Processes : HasPid(q)' <=> HasPid(q)
  <2>1. RefCnt[p] > 0
    BY <1>8 DEF FirstRef, HandleRef
  <2> QED
    BY <1>1, <1>2, <1>7, <2>1, DereferenceFacts
<1>10. ObjectsTypeOK'
  BY <1>t, <1>9
<1>11. CountInv'
  BY <1>1, <1>2, <1>5, <1>7, <1>8, <1>9 DEF ProcessIInv, CountInv, FirstRef, HandleRef
<1>12. AliveInv'
  BY <1>1, <1>2, <1>7, <1>9 DEF ProcessIInv, AliveInv, Started
<1>13. LastInv'
  BY <1>1, <1>4 DEF ProcessIInv, LastInv
<1>14. TermInv'
  BY <1>1, <1>5 DEF ProcessIInv, TermInv
<1>15. ThreadRefInv'
  BY <1>1, <1>4 DEF ProcessIInv, ThreadRefInv, ThreadHandleRef
<1>16. CreatorInv'
  BY <1>1, <1>4 DEF ProcessIInv, CreatorInv
<1>17. CreationInv'
  BY <1>0, <1>1, <1>2, <1>4 DEF ProcessIInv, CreationInv, Started
<1>18. PidInv'
  BY <1>1, <1>9 DEF ProcessIInv, PidInv, PidsExact
<1> QED
  BY <1>10, <1>11, <1>12, <1>13, <1>14, <1>15, <1>16, <1>17, <1>18 DEF ProcessIInv

\* Marking threads, and doing nothing, changes nothing the invariant speaks of.
LEMMA MarkInv ==
    ASSUME ProcessIInv, terminatePending' \in [Threads -> BOOLEAN],
           UNCHANGED <<procVars, threadState, Owner, creator, threadRef, threadHandle>>
    PROVE  ProcessIInv'
<1>1. UNCHANGED <<procState, RefCnt, NumberOfThreads, ActiveThreads, ThreadList, Id, Terminated, Handle,
                  creation, mainThread, ProcessList, PidBitmap>>
  BY DEF procVars
<1>2. \A q, states : ThreadsIn(q, states)' = ThreadsIn(q, states)
  BY ThreadsStay
<1>3. \A q : HasFirst(q)' <=> HasFirst(q)
  BY <1>1, <1>2 DEF HasFirst
<1>4. ObjectsTypeOK' /\ PidInv'
  BY <1>1 DEF ProcessIInv, ObjectsTypeOK, PidInv, PidsExact, HasPid
<1>5. CountInv' /\ AliveInv' /\ TermInv'
  BY <1>1, <1>2, <1>3 DEF ProcessIInv, CountInv, FirstRef, HandleRef, AliveInv, TermInv
<1>6. ThreadRefInv' /\ CreatorInv' /\ LastInv' /\ CreationInv'
  BY <1>1 DEF ProcessIInv, ThreadRefInv, ThreadHandleRef, CreatorInv, LastInv, CreationInv
<1> QED
  BY <1>4, <1>5, <1>6 DEF ProcessIInv

\* Every step keeps the invariant.
LEMMA NextProcessIInv ==
    ASSUME ProcessIInv, ProcessRuns \/ UNCHANGED <<procVars, threadVars>>
    PROVE  ProcessIInv'
<1>0. /\ terminatePending \in [Threads -> BOOLEAN] /\ Owner \in [Threads -> Processes \cup {None}]
      /\ creation \in [Processes -> Early \cup Started \cup {"thread", "fail", "failed"}]
  BY DEF ProcessIInv, ObjectsTypeOK, Early, Started
<1>1. CASE UNCHANGED <<procVars, threadVars>>
  BY <1>0, <1>1, MarkInv DEF threadVars
<1>2. ASSUME NEW p \in Processes, CreateStep(p) PROVE ProcessIInv'
  <2>1. CASE ProcessInsertInList(p)
    <3>1. ProcessList' \subseteq Processes
      BY <2>1 DEF ProcessInsertInList, ProcessIInv, ObjectsTypeOK
    <3> QED
      BY <2>1, <3>1, PrepareInv DEF ProcessInsertInList, CreationGoto, Early
  <2>2. CASE ProcessPrepare(p) \/ ThreadInitFails(p)
    <3>1. PICK s \in (Early \ {"none"}) \cup {"fail"} : creation' = Set(creation, p, s)
      BY <2>2 DEF ProcessPrepare, ThreadInitFails, CreationGoto, NextCreation, Early
    <3>2. creation[p] \in Early \ {"none"}
      BY <2>2 DEF ProcessPrepare, ThreadInitFails, Early
    <3>3. UNCHANGED <<procState, RefCnt, NumberOfThreads, ActiveThreads, ThreadList, Id, Terminated,
                      Handle, mainThread, PidBitmap, threadVars>> /\ ProcessList' \subseteq Processes
      BY <2>2 DEF ProcessPrepare, ThreadInitFails, ProcessIInv, ObjectsTypeOK
    <3> QED
      BY <3>1, <3>2, <3>3, PrepareInv
  <2>3. ASSUME NEW t \in Threads, MainThreadInit(p, t) PROVE ProcessIInv'
    BY <2>3, ThreadInitInv DEF MainThreadInit, CreationGoto
  <2>4. CASE CloseMainThread(p)
    <3>1. mainThread[p] \in Threads /\ threadHandle[mainThread[p]]
      BY <2>4 DEF CloseMainThread, ProcessIInv, CreationInv, Started
    <3> QED
      BY <2>4, <3>1, HandleClosed DEF ClosesHandle, CloseMainThread, CreationGoto
  <2> QED
    BY <1>2, <2>1, <2>2, <2>3, <2>4, CreateFailsInv, CreateReturnsInv DEF CreateStep
<1>3. ASSUME NEW p \in Processes, ProcessTerminate(p) PROVE ProcessIInv'
  BY <1>0, <1>3, MarkInv DEF ProcessTerminate
<1>4. ASSUME NEW t \in Threads, ThreadExit(t) \/ ThreadDestroy(t) PROVE ProcessIInv'
  BY <1>0, <1>4, ThreadStops DEF ThreadExit, ThreadDestroy
<1>5. ASSUME NEW t \in Threads, ProcessTerminateCurrent(t) PROVE ProcessIInv'
  BY <1>0, <1>5, ThreadStops DEF ProcessTerminateCurrent
<1>6. ASSUME NEW t \in Threads, ThreadCloseHandle(t) PROVE ProcessIInv'
  BY <1>6, HandleClosed DEF ClosesHandle, ThreadCloseHandle, procVars
<1>7. ASSUME NEW t \in Threads, NEW u \in Threads, SpawnThread(u, t) PROVE ProcessIInv'
  <2>1. Owner[u] \in Processes
    BY <1>7, OwnerFacts DEF SpawnThread
  <2> QED
    BY <1>7, <2>1, ThreadInitInv DEF SpawnThread
<1>8. ASSUME NEW t \in Threads, ThreadStep(t) PROVE ProcessIInv'
  BY <1>4, <1>8, InsertThreadInv, CreateExEndsInv, NotifyInv, RemoveThreadInv, RemoveLastInv DEF ThreadStep
<1> QED
  BY <1>1, <1>2, <1>3, <1>4, <1>5, <1>6, <1>7, <1>8, ProcessInitInv, DestroyInv, CloseHandleInv DEF ProcessRuns

PanickedTyped == panicked \in BOOLEAN

\* A step of the process or of the kernel that stops is one of these.
LEMMA ProcessSteps ==
    ASSUME [ProcessNext]_processVars
    PROVE  ProcessRuns \/ UNCHANGED <<procVars, threadVars>>
BY DEF ProcessNext, ThreadInitPanics, processVars

\* The inductive invariant of processes holds for any processes, threads and PIDs and
\* whatever step of a creation fails.
THEOREM ProcessInvariantHolds == ProcessSpec => []ProcessIInv
BY InitProcessIInv, NextProcessIInv, ProcessSteps, PTL DEF ProcessSpec

\* A process is not taken apart while one of its threads is linked to it, every PID in use
\* belongs to one process, and no thread runs in a process that signalled its termination.
THEOREM ProcessIsCorrect == ProcessSpec => []ProcessInv
<1>0. ProcessSpec => []PanickedTyped
  <2>1. ProcessSystemInit => PanickedTyped
    BY DEF ProcessSystemInit, PanickedTyped
  <2>2. PanickedTyped /\ [ProcessNext]_processVars => PanickedTyped'
    BY DEF ProcessNext, ThreadInitPanics, processVars, PanickedTyped
  <2> QED
    BY <2>1, <2>2, PTL DEF ProcessSpec
<1>1. ASSUME ProcessIInv, PanickedTyped PROVE ProcessInv
  <2>1. ThreadsKeepProcess
    <3>1. \A p \in Processes : NumberOfThreads[p] # 0 => ThreadList[p] # {}
      BY <1>1, FS_EmptySet DEF ProcessIInv, CountInv
    <3> QED
      BY <1>1, <3>1 DEF ProcessIInv, AliveInv, ThreadsKeepProcess
  <2>2. TerminationIsFinal
    BY <1>1 DEF ProcessIInv, TermInv, TerminationIsFinal, ThreadsIn, Active
  <2> QED
    BY <1>1, <2>1, <2>2 DEF ProcessIInv, PidInv, ProcessInv, ProcessTypeOK, PanickedTyped
<1> QED
  BY ProcessInvariantHolds, <1>0, <1>1, PTL

----------------------------------------------------------------------------
\* The registration of interrupts

\* The parts of the invariant that a registration relies on.
TablesTyped ==
    /\ InterruptBitmap \in [Vectors -> BOOLEAN]
    /\ RegisteredInterrupts \in [Vectors -> Seq(Devices)]
    /\ m_isrRoutines \subseteq Vectors
    /\ DOMAIN redirection \subseteq Pins /\ DOMAIN msi \subseteq Devices
    /\ \A p \in DOMAIN redirection : redirection[p] \in Vectors
    /\ \A d \in DOMAIN msi : msi[d] \in Vectors
    /\ registration \in [Devices -> {"none", "insert", "route", "done", "failed"}]
    /\ registering \subseteq [device : Devices, vector : Vectors, routed : BOOLEAN]
    /\ pending \subseteq Devices

\* The overrides are intact until the last step of the system's initialisation.
OverridesIntact == MaskInterrupts => ~OverridesLost

\* A pin is routed to the vector of a handler, and what is listed is owned.
PinsAreServed == \A p \in DOMAIN redirection : RegisteredInterrupts[redirection[p]] # <<>>

\* All vectors of the priority of a device are in use.
FullIrql(d) ==
    \A v \in IRQL_TO_VECTOR(IoInterrupt[d].irql) .. IRQL_TO_VECTOR(IoInterrupt[d].irql) + VECTORS_PER_IRQL - 1 :
        InterruptBitmap[v]

WireHas(d, vector) == Wire(d) \in DOMAIN redirection /\ redirection[Wire(d)] = vector

\* What the call that holds GlobalInterruptLock knows of its vector before the handler is
\* inserted, and after.
ChosenIsUsable(r) ==
    /\ InterruptBitmap[r.vector]
    /\ VECTOR_TO_IRQL(r.vector) = IoInterrupt[r.device].irql
    /\ registration[r.device] = "insert" =>
           /\ IoInterrupt[r.device].exclusive => RegisteredInterrupts[r.vector] = <<>>
           /\ r.routed => IsIoApicInterrupt(r.device) /\ (WireHas(r.device, r.vector) \/ OverridesLost)
           /\ RegisteredInterrupts[r.vector] # <<>> /\ ~r.routed =>
                  r.vector = IRQL_TO_VECTOR(IoInterrupt[r.device].irql) /\ FullIrql(r.device)
    /\ registration[r.device] = "route" =>
           /\ Listed(r.device, r.vector)
           /\ ~r.routed => \A p \in DOMAIN redirection : redirection[p] # r.vector
           /\ r.routed /\ IsIoApicInterrupt(r.device) =>
                  WireHas(r.device, r.vector) \/ OverridesLost \/ Stranded(r.device)

ChoiceIsUsable == \A r \in registering : ChosenIsUsable(r)

RegistrationIInv ==
    /\ TablesTyped /\ OverridesIntact /\ PinsAreServed /\ ChoiceIsUsable
    /\ RegisteredIsDelivered /\ VectorsAreOwned /\ ExclusiveIsFirst

\* The priority of a vector is the one whose vectors it lies among.
LEMMA QuotientOfVector ==
    ASSUME NEW f \in Nat, NEW p \in Nat \ {0}, NEW v \in f * p .. f * p + p - 1
    PROVE  v \div p = f
<1>0. f * p \in Nat /\ v \in Nat
  OBVIOUS
<1>1. v \div p \in Nat /\ v % p \in 0 .. p - 1 /\ v = p * (v \div p) + (v % p)
  BY <1>0, Division
<1>2. PICK q \in Nat, r \in 0 .. p - 1 : q = v \div p /\ v = p * q + r
  BY <1>1
<1>3. PICK k \in 0 .. p - 1 : v = p * f + k
  <2>1. v - f * p \in 0 .. p - 1 /\ v = p * f + (v - f * p)
    BY <1>0
  <2> QED
    BY <2>1
<1>4. p * f + k = p * q + r
  BY <1>2, <1>3
<1>5. CASE q > f
  <2>1. PICK n \in Nat : q = f + 1 + n
    <3>1. q - f - 1 \in Nat /\ q = f + 1 + (q - f - 1)
      BY <1>5
    <3> QED
      BY <3>1
  <2>2. p * q = p * f + p + p * n /\ p * n \in Nat
    BY <2>1
  <2> QED
    BY <1>4, <2>2
<1>6. CASE q < f
  <2>1. PICK n \in Nat : f = q + 1 + n
    <3>1. f - q - 1 \in Nat /\ f = q + 1 + (f - q - 1)
      BY <1>6
    <3> QED
      BY <3>1
  <2>2. p * f = p * q + p + p * n /\ p * n \in Nat
    BY <2>1
  <2> QED
    BY <1>4, <2>2
<1> QED
  BY <1>2, <1>5, <1>6

\* The vectors of a device's priority.
VectorsOf(d) == IRQL_TO_VECTOR(IoInterrupt[d].irql) .. IRQL_TO_VECTOR(IoInterrupt[d].irql) + VECTORS_PER_IRQL - 1

LEMMA VectorsOfIrql ==
    ASSUME NEW d \in Devices
    PROVE  /\ IRQL_TO_VECTOR(IoInterrupt[d].irql) \in Nat
           /\ VECTORS_PER_IRQL \in Nat \ {0}
           /\ IRQL_TO_VECTOR(IoInterrupt[d].irql) + VECTORS_PER_IRQL <= NO_OF_TOTAL_INTERRUPTS
           /\ NO_OF_TOTAL_INTERRUPTS \in 1 .. MAX_DWORD - 1
           /\ IRQL_TO_VECTOR(IoInterrupt[d].irql) \in VectorsOf(d)
           /\ VectorsOf(d) \subseteq Vectors
           /\ \A v \in VectorsOf(d) : VECTOR_TO_IRQL(v) = IoInterrupt[d].irql
<1>1. /\ IoInterrupt[d].irql \in Nat
      /\ IoInterrupt[d].irql * VECTORS_PER_IRQL > NO_OF_RESERVED_EXCEPTIONS
      /\ (IoInterrupt[d].irql + 1) * VECTORS_PER_IRQL <= NO_OF_TOTAL_INTERRUPTS
      /\ NO_OF_RESERVED_EXCEPTIONS \in Nat /\ VECTORS_PER_IRQL \in Nat
      /\ NO_OF_TOTAL_INTERRUPTS \in Nat /\ NO_OF_TOTAL_INTERRUPTS < MAX_DWORD
      /\ MAX_DWORD \in Nat
  BY InterruptAssumption, DwordAssumption
<1>2. PICK q \in Nat, p \in Nat, n \in Nat, m \in Nat :
          q = IoInterrupt[d].irql /\ p = VECTORS_PER_IRQL /\ n = NO_OF_TOTAL_INTERRUPTS /\ m = MAX_DWORD
  BY <1>1
<1>3. q * p > 0 /\ (q + 1) * p <= n /\ n < m
  BY <1>1, <1>2
<1>4. p # 0 /\ q * p \in Nat /\ (q + 1) * p = q * p + p
  BY <1>3
<1>5. /\ q * p + p <= n /\ n \in 1 .. m - 1
      /\ q * p \in q * p .. q * p + p - 1
      /\ q * p .. q * p + p - 1 \subseteq 0 .. n - 1
  BY <1>3, <1>4
<1>6. \A v \in q * p .. q * p + p - 1 : v \div p = q
  BY <1>4, QuotientOfVector
<1>7. IRQL_TO_VECTOR(IoInterrupt[d].irql) = q * p /\ VectorsOf(d) = q * p .. q * p + p - 1
  BY <1>2 DEF IRQL_TO_VECTOR, VectorsOf
<1>8. \A v \in VectorsOf(d) : VECTOR_TO_IRQL(v) = IoInterrupt[d].irql
  BY <1>2, <1>6, <1>7 DEF VECTOR_TO_IRQL
<1> QED
  BY <1>2, <1>4, <1>5, <1>7, <1>8 DEF Vectors

\* BitmapScanFromTo returns a free vector of the priority, MAX_DWORD if all are in use.
LEMMA ScanFindsVector ==
    ASSUME NEW b \in [Vectors -> BOOLEAN], NEW d \in Devices, NEW first, NEW found,
           first = IRQL_TO_VECTOR(IoInterrupt[d].irql),
           found = ScanFromTo(b, first, first + VECTORS_PER_IRQL, 1, FALSE)
    PROVE  \/ found = MAX_DWORD /\ \A v \in VectorsOf(d) : b[v]
           \/ found # MAX_DWORD /\ found \in VectorsOf(d) /\ ~b[found]
<1> DEFINE end == first + VECTORS_PER_IRQL
           n == NO_OF_TOTAL_INTERRUPTS
<1>1. /\ first \in Nat /\ VECTORS_PER_IRQL \in Nat \ {0} /\ end <= n /\ n \in 1 .. MAX_DWORD - 1
      /\ VectorsOf(d) = first .. first + VECTORS_PER_IRQL - 1 /\ VectorsOf(d) \subseteq Vectors
  BY VectorsOfIrql DEF VectorsOf
<1>2. b \in [0 .. n - 1 -> BOOLEAN] /\ end \in 0 .. n /\ MAX_DWORD \in Nat
  BY <1>1, DwordAssumption DEF Vectors
<1>3. IsFirstRun(found, b, first, end, 1, FALSE)
  BY <1>1, <1>2, ScanFindsFirstRun
<1>4. ASSUME NEW v \in VectorsOf(d), b[v] = FALSE
      PROVE  v \in Runs(b, first, end, 1, FALSE)
  <2>1. v \in DOMAIN b /\ v \in Int /\ first <= v /\ v + 1 <= end
    BY <1>1, <1>2 DEF Vectors
  <2>2. \A k \in v .. v + 1 - 1 : k = v
    BY <2>1
  <2> QED
    BY <1>4, <2>1, <2>2 DEF Runs
<1>5. ASSUME NEW v \in Runs(b, first, end, 1, FALSE)
      PROVE  v \in VectorsOf(d) /\ b[v] = FALSE /\ v # MAX_DWORD
  <2>1. v \in DOMAIN b /\ first <= v /\ v + 1 <= end /\ \A k \in v .. v + 1 - 1 : b[k] = FALSE
    BY DEF Runs
  <2>2. v \in 0 .. n - 1
    BY <1>2, <2>1
  <2>3. v \in v .. v + 1 - 1 /\ v \in first .. first + VECTORS_PER_IRQL - 1 /\ v # MAX_DWORD
    BY <1>1, <1>2, <2>1, <2>2
  <2> QED
    BY <1>1, <2>1, <2>3
<1>6. CASE Runs(b, first, end, 1, FALSE) = {}
  <2>1. found = MAX_DWORD
    BY <1>3, <1>6 DEF IsFirstRun
  <2>2. \A v \in VectorsOf(d) : b[v]
    BY <1>1, <1>4, <1>6
  <2> QED
    BY <2>1, <2>2
<1>7. CASE Runs(b, first, end, 1, FALSE) # {}
  <2>1. found \in Runs(b, first, end, 1, FALSE)
    BY <1>3, <1>7 DEF IsFirstRun
  <2> QED
    BY <1>5, <2>1
<1> QED
  BY <1>6, <1>7

\* A vector that was chosen is marked, and none is released.
Marked(b, found) == Flip(b, found, 1, FALSE)

LEMMA FlipMarks ==
    ASSUME NEW b \in [Vectors -> BOOLEAN], NEW found
    PROVE  /\ Marked(b, found) \in [Vectors -> BOOLEAN]
           /\ \A v \in Vectors : b[v] => Marked(b, found)[v]
           /\ found \in Vectors /\ found # MAX_DWORD => Marked(b, found)[found]
<1>1. CASE found = MAX_DWORD
  BY <1>1 DEF Marked, Flip
<1>2. CASE found # MAX_DWORD
  <2>1. Marked(b, found) = [i \in Vectors |-> IF found <= i /\ i < found + 1 THEN TRUE ELSE b[i]]
    BY <1>2 DEF Marked, Flip, ChangeBits
  <2>2. ASSUME found \in Vectors
        PROVE  found <= found /\ found < found + 1
    BY <2>2, InterruptAssumption DEF Vectors
  <2> QED
    BY <2>1, <2>2
<1> QED
  BY <1>1, <1>2

\* A device whose registration succeeded is served.
Delivered(d) ==
    \/ d \in DOMAIN msi /\ Listed(d, msi[d]) /\ VECTOR_TO_IRQL(msi[d]) = IoInterrupt[d].irql
    \/ /\ Wire(d) \in DOMAIN redirection
       /\ Listed(d, redirection[Wire(d)])
       /\ VECTOR_TO_IRQL(redirection[Wire(d)]) = IoInterrupt[d].irql
    \/ IsIoApicInterrupt(d) /\ (Stranded(d) \/ OverridesLost)

\* No vector is released, no handler removed, no routing changed.
TablesGrow ==
    /\ \A v \in Vectors : InterruptBitmap[v] => InterruptBitmap'[v]
    /\ \A v \in Vectors : \A d \in Devices : Listed(d, v) => Listed(d, v)'
    /\ \A p \in DOMAIN redirection : p \in DOMAIN redirection' /\ redirection'[p] = redirection[p]
    /\ \A d \in DOMAIN msi : registration[d] = "done" => d \in DOMAIN msi' /\ msi'[d] = msi[d]
    /\ OverridesLost => OverridesLost'

LEMMA StrandedStays ==
    ASSUME TablesGrow, NEW d \in Devices, Stranded(d)
    PROVE  Stranded(d)'
<1> DEFINE first == IRQL_TO_VECTOR(IoInterrupt[d].irql)
<1>1. first \in Vectors /\ VectorsOf(d) \subseteq Vectors
  BY VectorsOfIrql
<1>2. Listed(d, first)'
  BY <1>1 DEF TablesGrow, Stranded
<1>3. \A v \in VectorsOf(d) : InterruptBitmap'[v]
  BY <1>1 DEF TablesGrow, Stranded, VectorsOf
<1> QED
  BY <1>2, <1>3 DEF Stranded, VectorsOf

LEMMA DeliveryStays ==
    ASSUME TablesTyped, TablesGrow, NEW d \in Devices, registration[d] = "done", Delivered(d)
    PROVE  Delivered(d)'
<1>1. CASE d \in DOMAIN msi /\ Listed(d, msi[d]) /\ VECTOR_TO_IRQL(msi[d]) = IoInterrupt[d].irql
  <2>1. PICK v \in Vectors : v = msi[d]
    BY <1>1 DEF TablesTyped
  <2>2. Listed(d, v)'
    BY <1>1, <2>1 DEF TablesGrow
  <2>3. d \in DOMAIN msi' /\ msi'[d] = v
    BY <1>1, <2>1 DEF TablesGrow
  <2> QED
    BY <1>1, <2>1, <2>2, <2>3 DEF Delivered, Listed
<1>2. CASE /\ Wire(d) \in DOMAIN redirection
           /\ Listed(d, redirection[Wire(d)])
           /\ VECTOR_TO_IRQL(redirection[Wire(d)]) = IoInterrupt[d].irql
  <2>1. PICK v \in Vectors : v = redirection[Wire(d)]
    BY <1>2 DEF TablesTyped
  <2>2. Listed(d, v)'
    BY <1>2, <2>1 DEF TablesGrow
  <2>3. Wire(d) \in DOMAIN redirection' /\ redirection'[Wire(d)] = v
    BY <1>2, <2>1 DEF TablesGrow
  <2> QED
    BY <1>2, <2>1, <2>2, <2>3 DEF Delivered, Listed
<1>3. CASE IsIoApicInterrupt(d) /\ (Stranded(d) \/ OverridesLost)
  <2>1. Stranded(d) => Stranded(d)'
    BY StrandedStays
  <2>2. OverridesLost => OverridesLost'
    BY DEF TablesGrow
  <2> QED
    BY <1>3, <2>1, <2>2 DEF Delivered
<1> QED
  BY <1>1, <1>2, <1>3 DEF Delivered

\* Who was served is served, and a registration that ends well serves its device.
LEMMA DeliveryStep ==
    ASSUME TablesTyped, TablesGrow, RegisteredIsDelivered,
           \A d \in Devices : registration'[d] = "done" => registration[d] = "done" \/ Delivered(d)'
    PROVE  RegisteredIsDelivered'
<1>1. ASSUME NEW d \in Devices, registration'[d] = "done"
      PROVE  Delivered(d)'
  <2>1. CASE registration[d] = "done"
    BY <2>1, DeliveryStays DEF RegisteredIsDelivered, Delivered
  <2> QED
    BY <1>1, <2>1
<1> QED
  BY <1>1 DEF RegisteredIsDelivered, Delivered

LEMMA RegistrationStarts == ASSUME InterruptsInit PROVE RegistrationIInv
<1> DEFINE all == BitmapInit(NO_OF_TOTAL_INTERRUPTS, FALSE)
<1>1. all \in [Vectors -> BOOLEAN]
  BY DEF BitmapInit, Vectors
<1>2. ChangeBits(all, 0, TRUE, NO_OF_RESERVED_EXCEPTIONS) \in [Vectors -> BOOLEAN]
  BY <1>1 DEF ChangeBits
<1>3. DOMAIN redirection = {} /\ DOMAIN msi = {}
  BY DEF InterruptsInit
<1>4. RegisteredInterrupts \in [Vectors -> Seq(Devices)] /\ \A v \in Vectors : RegisteredInterrupts[v] = <<>>
  <2>1. <<>> \in Seq(Devices)
    OBVIOUS
  <2> QED
    BY <2>1 DEF InterruptsInit
<1>5. registering = {} /\ \A d \in Devices : registration[d] # "done"
  BY DEF InterruptsInit
<1>6. TablesTyped
  BY <1>2, <1>3, <1>4, <1>5 DEF TablesTyped, InterruptsInit
<1>7. OverridesIntact
  BY DEF InterruptsInit, OverridesIntact, OverridesLost
<1>8. PinsAreServed /\ ChoiceIsUsable /\ RegisteredIsDelivered
  BY <1>3, <1>5 DEF PinsAreServed, ChoiceIsUsable, RegisteredIsDelivered
<1>9. VectorsAreOwned
  BY <1>3, <1>4 DEF VectorsAreOwned, InterruptsInit
<1>10. ExclusiveIsFirst
  BY <1>4 DEF ExclusiveIsFirst
<1> QED
  BY <1>6, <1>7, <1>8, <1>9, <1>10 DEF RegistrationIInv

\* Interrupts are raised and served without the tables of the registrations.
LEMMA DeliveryKeepsTables ==
    ASSUME RegistrationIInv, UNCHANGED <<tableVars, apicVars>>, pending' \subseteq Devices
    PROVE  RegistrationIInv'
<1> USE DEF tableVars, apicVars
<1>1. TablesTyped'
  BY DEF RegistrationIInv, TablesTyped
<1>2. OverridesIntact' /\ PinsAreServed'
  BY DEF RegistrationIInv, OverridesIntact, OverridesLost, PinsAreServed
<1>3. RegisteredIsDelivered'
  BY DEF RegistrationIInv, RegisteredIsDelivered, Stranded, Listed, OverridesLost
<1>4. VectorsAreOwned' /\ ExclusiveIsFirst'
  BY DEF RegistrationIInv, VectorsAreOwned, ExclusiveIsFirst
<1>5. ASSUME NEW r \in registering, ChosenIsUsable(r)
      PROVE  ChosenIsUsable(r)'
  BY <1>5 DEF ChosenIsUsable, Stranded, Listed, OverridesLost, WireHas, FullIrql
<1>6. ChoiceIsUsable'
  BY <1>5 DEF RegistrationIInv, ChoiceIsUsable
<1> QED
  BY <1>1, <1>2, <1>3, <1>4, <1>6 DEF RegistrationIInv

\* The overrides may be lost in the last step of the initialisation.
LEMMA LateInitKeeps == ASSUME RegistrationIInv, LateInit PROVE RegistrationIInv'
<1>0. ~OverridesLost /\ MaskInterrupts' = FALSE /\ UNCHANGED <<tableVars, deliveryVars>>
  BY DEF RegistrationIInv, OverridesIntact, LateInit, EnableRegisteredInterrupts
<1>1. TablesTyped'
  BY <1>0 DEF RegistrationIInv, TablesTyped, tableVars, deliveryVars
<1>2. TablesGrow
  BY <1>0 DEF TablesGrow, tableVars, Listed
<1>3. OverridesIntact' /\ PinsAreServed'
  BY <1>0 DEF RegistrationIInv, OverridesIntact, PinsAreServed, tableVars
<1>4. RegisteredIsDelivered'
  BY <1>0, <1>2, DeliveryStep DEF RegistrationIInv, tableVars
<1>5. VectorsAreOwned' /\ ExclusiveIsFirst'
  BY <1>0 DEF RegistrationIInv, VectorsAreOwned, ExclusiveIsFirst, tableVars
<1>6. ASSUME NEW r \in registering, ChosenIsUsable(r)
      PROVE  ChosenIsUsable(r)'
  BY <1>0, <1>6 DEF ChosenIsUsable, Stranded, Listed, WireHas, FullIrql, tableVars
<1>7. ChoiceIsUsable'
  BY <1>0, <1>6 DEF RegistrationIInv, ChoiceIsUsable, tableVars
<1> QED
  BY <1>1, <1>3, <1>4, <1>5, <1>7 DEF RegistrationIInv

\* The driver's pin is the one the overrides name, unless they are lost.
LEMMA PinIsWire ==
    ASSUME NEW d \in Devices, NEW pin \in PinsForIrq(IoInterrupt[d].irq), ~OverridesLost
    PROVE  pin = Wire(d)
<1>1. Len(Overrides) \in Nat
  BY InterruptAssumption
<1> QED
  BY <1>1 DEF PinsForIrq, OverridesLost, Wire

\* How a vector is chosen.
ChoiceMade(d) ==
    /\ InterruptBitmap' \in [Vectors -> BOOLEAN]
    /\ \A v \in Vectors : InterruptBitmap[v] => InterruptBitmap'[v]
    /\ \/ Fails(d)
       \/ \E v \in Vectors : \E routed \in BOOLEAN :
              /\ Goes(d, v, routed)
              /\ InterruptBitmap'[v]
              /\ VECTOR_TO_IRQL(v) = IoInterrupt[d].irql
              /\ IoInterrupt[d].exclusive => RegisteredInterrupts[v] = <<>>
              /\ routed => IsIoApicInterrupt(d) /\ (WireHas(d, v) \/ OverridesLost)
              /\ RegisteredInterrupts[v] # <<>> /\ ~routed =>
                     v = IRQL_TO_VECTOR(IoInterrupt[d].irql) /\ \A u \in VectorsOf(d) : InterruptBitmap'[u]

\* A vector that is free has no handlers.
LEMMA FreeIsEmpty ==
    ASSUME RegistrationIInv, NEW v \in Vectors, ~InterruptBitmap[v]
    PROVE  RegisteredInterrupts[v] = <<>>
BY DEF RegistrationIInv, VectorsAreOwned

LEMMA ShareVectorChooses ==
    ASSUME RegistrationIInv, NEW d \in Devices, NEW pin \in DOMAIN redirection, IsIoApicInterrupt(d),
           pin = Wire(d) \/ OverridesLost, ShareVector(d, redirection[pin])
    PROVE  ChoiceMade(d)
<1>1. PICK v \in Vectors : v = redirection[pin]
  BY DEF RegistrationIInv, TablesTyped
<1>2. /\ InterruptBitmap' = InterruptBitmap
      /\ \/ Fails(d)
         \/ Goes(d, v, TRUE) /\ VECTOR_TO_IRQL(v) = IoInterrupt[d].irql /\ ~IoInterrupt[d].exclusive
  BY <1>1 DEF ShareVector
<1>3. InterruptBitmap[v]
  BY <1>1 DEF RegistrationIInv, PinsAreServed, VectorsAreOwned
<1>4. WireHas(d, v) \/ OverridesLost
  BY <1>1 DEF WireHas
<1>5. InterruptBitmap \in [Vectors -> BOOLEAN]
  BY DEF RegistrationIInv, TablesTyped
<1>6. TRUE \in BOOLEAN
  OBVIOUS
<1>7. CASE Fails(d)
  BY <1>2, <1>5, <1>7 DEF ChoiceMade
<1>8. CASE Goes(d, v, TRUE) /\ VECTOR_TO_IRQL(v) = IoInterrupt[d].irql /\ ~IoInterrupt[d].exclusive
  BY <1>2, <1>3, <1>4, <1>5, <1>6, <1>8 DEF ChoiceMade
<1> QED
  BY <1>2, <1>7, <1>8

LEMMA NewVectorChooses ==
    ASSUME RegistrationIInv, NEW d \in Devices, NewVector(d)
    PROVE  ChoiceMade(d)
<1>1. PICK first, found :
          /\ first = IRQL_TO_VECTOR(IoInterrupt[d].irql)
          /\ found = ScanFromTo(InterruptBitmap, first, first + VECTORS_PER_IRQL, 1, FALSE)
  OBVIOUS
<1>2. /\ InterruptBitmap' = Flip(InterruptBitmap, found, 1, FALSE)
      /\ \/ found # MAX_DWORD /\ Goes(d, found, FALSE)
         \/ found = MAX_DWORD /\ Fails(d)
         \/ found = MAX_DWORD /\ ~IoInterrupt[d].exclusive /\ Goes(d, first, FALSE)
  BY <1>1 DEF NewVector
<1>3. InterruptBitmap \in [Vectors -> BOOLEAN]
  BY DEF RegistrationIInv, TablesTyped
<1>4. /\ InterruptBitmap' \in [Vectors -> BOOLEAN]
      /\ \A v \in Vectors : InterruptBitmap[v] => InterruptBitmap'[v]
      /\ found \in Vectors /\ found # MAX_DWORD => InterruptBitmap'[found]
  <2>1. InterruptBitmap' = Marked(InterruptBitmap, found)
    BY <1>2 DEF Marked
  <2> QED
    BY <1>3, <2>1, FlipMarks
<1>5. \/ found = MAX_DWORD /\ \A v \in VectorsOf(d) : InterruptBitmap[v]
      \/ found # MAX_DWORD /\ found \in VectorsOf(d) /\ ~InterruptBitmap[found]
  BY <1>1, <1>3, ScanFindsVector
<1>6. /\ first \in VectorsOf(d) /\ VectorsOf(d) \subseteq Vectors
      /\ \A v \in VectorsOf(d) : VECTOR_TO_IRQL(v) = IoInterrupt[d].irql
  BY <1>1, VectorsOfIrql
<1>7. CASE Fails(d)
  BY <1>4, <1>7 DEF ChoiceMade
<1>8. CASE found # MAX_DWORD /\ Goes(d, found, FALSE)
  <2>1. found \in Vectors /\ RegisteredInterrupts[found] = <<>> /\ FALSE \in BOOLEAN
    BY <1>5, <1>6, <1>8, FreeIsEmpty
  <2>2. VECTOR_TO_IRQL(found) = IoInterrupt[d].irql
    BY <1>5, <1>6, <1>8
  <2> QED
    BY <1>4, <1>8, <2>1, <2>2 DEF ChoiceMade
<1>9. CASE found = MAX_DWORD /\ ~IoInterrupt[d].exclusive /\ Goes(d, first, FALSE)
  <2>1. first \in Vectors /\ FALSE \in BOOLEAN
    BY <1>6
  <2>2. \A u \in VectorsOf(d) : InterruptBitmap'[u]
    BY <1>4, <1>5, <1>6, <1>9
  <2> QED
    BY <1>1, <1>4, <1>6, <1>9, <2>1, <2>2 DEF ChoiceMade
<1> QED
  BY <1>2, <1>7, <1>8, <1>9

\* What a choice of a vector changes.
LEMMA ChoosingChanges ==
    ASSUME RegistrationIInv, NEW d \in Devices, ChooseVector(d)
    PROVE  /\ registration[d] = "none" /\ registering = {} /\ ChoiceMade(d)
           /\ UNCHANGED <<RegisteredInterrupts, m_isrRoutines, redirection, msi, apicVars, deliveryVars>>
           /\ registration' \in {[registration EXCEPT ![d] = "failed"], [registration EXCEPT ![d] = "insert"]}
<1>1. /\ registration[d] = "none" /\ registering = {}
      /\ UNCHANGED <<RegisteredInterrupts, m_isrRoutines, redirection, msi, apicVars, deliveryVars>>
  BY DEF ChooseVector, MayRegister
<1>2. ChoiceMade(d)
  <2>1. CASE ~IsIoApicInterrupt(d)
    BY <2>1, NewVectorChooses DEF ChooseVector
  <2>2. CASE IsIoApicInterrupt(d)
    <3>1. PICK pin \in PinsForIrq(IoInterrupt[d].irq) :
              CASE pin \notin Pins -> Fails(d) /\ UNCHANGED InterruptBitmap
                [] HasVector(pin) -> ShareVector(d, redirection[pin])
                [] OTHER -> NewVector(d)
      BY <2>2 DEF ChooseVector
    <3>2. \/ Fails(d) /\ UNCHANGED InterruptBitmap
          \/ pin \in DOMAIN redirection /\ ShareVector(d, redirection[pin])
          \/ NewVector(d)
      BY <3>1 DEF HasVector, RegistrationIInv, TablesTyped
    <3>3. CASE Fails(d) /\ UNCHANGED InterruptBitmap
      BY <3>3 DEF ChoiceMade, RegistrationIInv, TablesTyped
    <3>4. CASE pin \in DOMAIN redirection /\ ShareVector(d, redirection[pin])
      BY <2>2, <3>4, PinIsWire, ShareVectorChooses
    <3> QED
      BY <3>2, <3>3, <3>4, NewVectorChooses
  <2> QED
    BY <2>1, <2>2
<1>3. registration' \in {[registration EXCEPT ![d] = "failed"], [registration EXCEPT ![d] = "insert"]}
  BY <1>2 DEF ChoiceMade, Fails, Goes
<1> QED
  BY <1>1, <1>2, <1>3

LEMMA ChooseVectorKeeps ==
    ASSUME RegistrationIInv, NEW d \in Devices, ChooseVector(d)
    PROVE  RegistrationIInv'
<1>1. registering = {} /\ UNCHANGED <<RegisteredInterrupts, m_isrRoutines, redirection, msi, apicVars, deliveryVars>>
  BY ChoosingChanges
<1>2. ChoiceMade(d)
  BY ChoosingChanges
<1>3. registration \in [Devices -> {"none", "insert", "route", "done", "failed"}]
  BY DEF RegistrationIInv, TablesTyped
<1>4. /\ registering' \subseteq [device : Devices, vector : Vectors, routed : BOOLEAN]
      /\ registration' \in [Devices -> {"none", "insert", "route", "done", "failed"}]
      /\ \A x \in Devices : registration'[x] = "done" => registration[x] = "done"
  <2>1. CASE Fails(d)
    BY <1>3, <2>1 DEF Fails
  <2>2. ASSUME NEW v \in Vectors, NEW routed \in BOOLEAN, Goes(d, v, routed)
        PROVE  /\ registering' \subseteq [device : Devices, vector : Vectors, routed : BOOLEAN]
               /\ registration' \in [Devices -> {"none", "insert", "route", "done", "failed"}]
               /\ \A x \in Devices : registration'[x] = "done" => registration[x] = "done"
    BY <1>3, <2>2 DEF Goes
  <2> QED
    BY <1>2, <2>1, <2>2 DEF ChoiceMade
<1>5. TablesTyped'
  BY <1>1, <1>2, <1>4 DEF RegistrationIInv, TablesTyped, ChoiceMade, deliveryVars
<1>6. TablesGrow
  BY <1>1, <1>2 DEF TablesGrow, ChoiceMade, Listed, apicVars, OverridesLost
<1>7. OverridesIntact' /\ PinsAreServed' /\ ExclusiveIsFirst'
  BY <1>1 DEF RegistrationIInv, OverridesIntact, OverridesLost, PinsAreServed, ExclusiveIsFirst, apicVars
<1>8. RegisteredIsDelivered'
  BY <1>4, <1>6, DeliveryStep DEF RegistrationIInv
<1>9. VectorsAreOwned'
  BY <1>1, <1>2 DEF RegistrationIInv, VectorsAreOwned, TablesTyped, ChoiceMade
<1>10. ChoiceIsUsable'
  <2>1. CASE Fails(d)
    BY <2>1 DEF Fails, ChoiceIsUsable
  <2>2. CASE ~Fails(d)
    <3>1. PICK v \in Vectors, routed \in BOOLEAN :
              /\ Goes(d, v, routed)
              /\ InterruptBitmap'[v]
              /\ VECTOR_TO_IRQL(v) = IoInterrupt[d].irql
              /\ IoInterrupt[d].exclusive => RegisteredInterrupts[v] = <<>>
              /\ routed => IsIoApicInterrupt(d) /\ (WireHas(d, v) \/ OverridesLost)
              /\ RegisteredInterrupts[v] # <<>> /\ ~routed =>
                     v = IRQL_TO_VECTOR(IoInterrupt[d].irql) /\ \A u \in VectorsOf(d) : InterruptBitmap'[u]
      BY <1>2, <2>2 DEF ChoiceMade
    <3>2. PICK r : r = [device |-> d, vector |-> v, routed |-> routed]
      OBVIOUS
    <3>3. registering' = {r} /\ registration'[d] = "insert" /\ r.device = d /\ r.vector = v /\ r.routed = routed
      BY <1>3, <3>1, <3>2 DEF Goes
    <3>4. ChosenIsUsable(r)'
      BY <1>1, <3>1, <3>3 DEF ChosenIsUsable, WireHas, FullIrql, VectorsOf, OverridesLost, apicVars
    <3> QED
      BY <3>3, <3>4 DEF ChoiceIsUsable
  <2> QED
    BY <2>1, <2>2
<1> QED
  BY <1>5, <1>7, <1>8, <1>9, <1>10 DEF RegistrationIInv

LEMMA AppendedDevice ==
    ASSUME NEW s \in Seq(Devices), NEW d \in Devices
    PROVE  /\ Append(s, d) \in Seq(Devices) /\ Append(s, d) # <<>>
           /\ Len(Append(s, d)) = Len(s) + 1 /\ Len(s) \in Nat
           /\ \A i \in 1 .. Len(s) : Append(s, d)[i] = s[i]
           /\ Append(s, d)[Len(s) + 1] = d
           /\ s # <<>> => Len(s) > 0
<1>1. Len(s) \in Nat /\ (s # <<>> => Len(s) > 0)
  OBVIOUS
<1>2. /\ Append(s, d) \in Seq(Devices)
      /\ Len(Append(s, d)) = Len(s) + 1
      /\ \A i \in 1 .. Len(s) : Append(s, d)[i] = s[i]
      /\ Append(s, d)[Len(s) + 1] = d
  OBVIOUS
<1>3. Append(s, d) # <<>>
  <2>1. Len(<<>>) = 0
    OBVIOUS
  <2> QED
    BY <1>1, <1>2, <2>1
<1> QED
  BY <1>1, <1>2, <1>3

LEMMA InsertEntryKeeps ==
    ASSUME RegistrationIInv, NEW d \in Devices, InsertEntry(d)
    PROVE  RegistrationIInv'
<1>1. PICK r \in registering :
          /\ r.device = d /\ registration[d] = "insert"
          /\ m_isrRoutines' = IF RegisteredInterrupts[r.vector] = <<>> /\ IsrInstallEx(r.vector)
                              THEN m_isrRoutines \cup {r.vector} ELSE m_isrRoutines
          /\ \/ Fails(d) /\ UNCHANGED RegisteredInterrupts
             \/ /\ \/ RegisteredInterrupts[r.vector] # <<>>
                   \/ RegisteredInterrupts[r.vector] = <<>> /\ IsrInstallEx(r.vector)
                /\ RegisteredInterrupts' = [RegisteredInterrupts EXCEPT ![r.vector] = Append(@, d)]
                /\ registration' = [registration EXCEPT ![d] = "route"]
                /\ registering' = {[r EXCEPT !.routed = @ \/ RegisteredInterrupts[r.vector] # <<>>]}
          /\ UNCHANGED <<InterruptBitmap, redirection, msi, apicVars, deliveryVars>>
  BY DEF InsertEntry
<1>2. PICK v \in Vectors, routed \in BOOLEAN, list \in Seq(Devices) :
          v = r.vector /\ routed = r.routed /\ list = RegisteredInterrupts[v]
          /\ r = [device |-> d, vector |-> v, routed |-> routed]
  BY <1>1 DEF RegistrationIInv, TablesTyped
<1>3. /\ RegisteredInterrupts \in [Vectors -> Seq(Devices)] /\ m_isrRoutines \subseteq Vectors
      /\ registration \in [Devices -> {"none", "insert", "route", "done", "failed"}]
  BY DEF RegistrationIInv, TablesTyped
<1>4. /\ InterruptBitmap[v] /\ VECTOR_TO_IRQL(v) = IoInterrupt[d].irql
      /\ IoInterrupt[d].exclusive => list = <<>>
      /\ routed => IsIoApicInterrupt(d) /\ (WireHas(d, v) \/ OverridesLost)
      /\ list # <<>> /\ ~routed => v = IRQL_TO_VECTOR(IoInterrupt[d].irql) /\ FullIrql(d)
  BY <1>1, <1>2 DEF RegistrationIInv, ChoiceIsUsable, ChosenIsUsable
<1>5. /\ m_isrRoutines' \in {m_isrRoutines, m_isrRoutines \cup {v}}
      /\ UNCHANGED <<InterruptBitmap, redirection, msi, apicVars, deliveryVars>>
  BY <1>1, <1>2
<1>6. OverridesIntact'
  BY <1>5 DEF RegistrationIInv, OverridesIntact, OverridesLost, apicVars
<1>7. CASE Fails(d) /\ UNCHANGED RegisteredInterrupts
  <2>1. /\ registering' = {} /\ registration' \in [Devices -> {"none", "insert", "route", "done", "failed"}]
        /\ \A x \in Devices : registration'[x] = "done" => registration[x] = "done"
    BY <1>3, <1>7 DEF Fails
  <2>2. TablesTyped'
    BY <1>3, <1>5, <1>7, <2>1 DEF RegistrationIInv, TablesTyped, deliveryVars
  <2>3. TablesGrow
    BY <1>5, <1>7 DEF TablesGrow, Listed, apicVars, OverridesLost
  <2>4. RegisteredIsDelivered'
    BY <2>1, <2>3, DeliveryStep DEF RegistrationIInv
  <2>5. PinsAreServed' /\ ExclusiveIsFirst'
    BY <1>5, <1>7 DEF RegistrationIInv, PinsAreServed, ExclusiveIsFirst
  <2>6. VectorsAreOwned'
    BY <1>4, <1>5, <1>7 DEF RegistrationIInv, VectorsAreOwned
  <2>7. ChoiceIsUsable'
    BY <2>1 DEF ChoiceIsUsable
  <2> QED
    BY <1>6, <2>2, <2>4, <2>5, <2>6, <2>7 DEF RegistrationIInv
<1>8. CASE /\ list # <<>> \/ v \in m_isrRoutines'
           /\ RegisteredInterrupts' = [RegisteredInterrupts EXCEPT ![v] = Append(list, d)]
           /\ registration' = [registration EXCEPT ![d] = "route"]
           /\ registering' = {[r EXCEPT !.routed = @ \/ list # <<>>]}
  <2>1. PICK long \in Seq(Devices) :
            /\ long = Append(list, d) /\ long # <<>>
            /\ Len(long) = Len(list) + 1 /\ Len(list) \in Nat
            /\ \A i \in 1 .. Len(list) : long[i] = list[i]
            /\ long[Len(list) + 1] = d
            /\ list # <<>> => Len(list) > 0
    BY AppendedDevice
  <2>2. /\ RegisteredInterrupts' \in [Vectors -> Seq(Devices)]
        /\ RegisteredInterrupts'[v] = long
        /\ \A u \in Vectors : u # v => RegisteredInterrupts'[u] = RegisteredInterrupts[u]
    BY <1>3, <1>8, <2>1
  <2>3. /\ registration' \in [Devices -> {"none", "insert", "route", "done", "failed"}]
        /\ registration'[d] = "route"
        /\ \A x \in Devices : registration'[x] = "done" => registration[x] = "done"
    BY <1>3, <1>8
  <2>4. PICK s \in [device : Devices, vector : Vectors, routed : BOOLEAN] :
            /\ registering' = {s} /\ s.device = d /\ s.vector = v
            /\ s.routed <=> (routed \/ list # <<>>)
    <3>1. [r EXCEPT !.routed = @ \/ list # <<>>] = [device |-> d, vector |-> v, routed |-> routed \/ list # <<>>]
      BY <1>2
    <3> QED
      BY <1>8, <3>1
  <2>5. TablesTyped'
    BY <1>3, <1>5, <2>2, <2>3, <2>4 DEF RegistrationIInv, TablesTyped, deliveryVars
  <2>6. ASSUME NEW u \in Vectors, NEW x \in Devices, Listed(x, u)
        PROVE  Listed(x, u)'
    <3>1. CASE u = v
      <4>1. PICK i \in 1 .. Len(list) : list[i] = x
        BY <1>2, <2>6, <3>1 DEF Listed
      <4>2. i \in 1 .. Len(long) /\ long[i] = x
        BY <2>1, <4>1
      <4> QED
        BY <2>2, <3>1, <4>2 DEF Listed
    <3>2. CASE u # v
      BY <2>2, <2>6, <3>2 DEF Listed
    <3> QED
      BY <3>1, <3>2
  <2>7. TablesGrow
    BY <1>5, <2>6 DEF TablesGrow, apicVars, OverridesLost
  <2>8. RegisteredIsDelivered'
    BY <2>3, <2>7, DeliveryStep DEF RegistrationIInv
  <2>9. PinsAreServed'
    BY <1>5, <2>1, <2>2 DEF RegistrationIInv, PinsAreServed, TablesTyped
  <2>10. ExclusiveIsFirst'
    <3>1. ASSUME NEW u \in Vectors, NEW i \in 2 .. Len(RegisteredInterrupts'[u])
          PROVE  ~IoInterrupt[RegisteredInterrupts'[u][i]].exclusive
      <4>1. CASE u # v
        BY <2>2, <3>1, <4>1 DEF RegistrationIInv, ExclusiveIsFirst
      <4>2. CASE u = v /\ i = Len(list) + 1
        <5>1. list # <<>>
          BY <2>1, <4>2
        <5> QED
          BY <1>4, <2>1, <2>2, <4>2, <5>1
      <4>3. CASE u = v /\ i # Len(list) + 1
        <5>1. i \in 2 .. Len(list) /\ i \in 1 .. Len(list)
          BY <2>1, <2>2, <3>1, <4>3
        <5>2. ~IoInterrupt[list[i]].exclusive
          BY <1>2, <5>1 DEF RegistrationIInv, ExclusiveIsFirst
        <5> QED
          BY <2>1, <2>2, <4>3, <5>1, <5>2
      <4> QED
        BY <4>1, <4>2, <4>3
    <3> QED
      BY <3>1 DEF ExclusiveIsFirst
  <2>11. VectorsAreOwned'
    <3>1. v \in m_isrRoutines'
      BY <1>2, <1>5, <1>8 DEF RegistrationIInv, VectorsAreOwned
    <3>2. \A u \in Vectors : RegisteredInterrupts'[u] # <<>> => u \in m_isrRoutines'
      BY <1>5, <2>2, <3>1 DEF RegistrationIInv, VectorsAreOwned
    <3>3. \A u \in m_isrRoutines' : InterruptBitmap'[u]
      BY <1>4, <1>5 DEF RegistrationIInv, VectorsAreOwned
    <3> QED
      BY <1>5, <3>2, <3>3 DEF RegistrationIInv, VectorsAreOwned
  <2>12. ChosenIsUsable(s)'
    <3>1. InterruptBitmap'[v] /\ VECTOR_TO_IRQL(v) = IoInterrupt[d].irql
      BY <1>4, <1>5
    <3>2. Listed(d, v)'
      <4>1. Len(list) + 1 \in 1 .. Len(long)
        BY <2>1
      <4> QED
        BY <2>1, <2>2, <4>1 DEF Listed
    <3>3. ~s.routed => \A p \in DOMAIN redirection' : redirection'[p] # v
      BY <1>2, <1>5, <2>4 DEF RegistrationIInv, PinsAreServed
    <3>4. ASSUME s.routed, IsIoApicInterrupt(d)
          PROVE  (WireHas(d, v) \/ OverridesLost \/ Stranded(d))'
      <4>1. CASE routed
        BY <1>4, <1>5, <4>1 DEF WireHas, OverridesLost, apicVars
      <4>2. CASE ~routed
        <5>1. v = IRQL_TO_VECTOR(IoInterrupt[d].irql) /\ FullIrql(d)
          BY <1>4, <2>4, <3>4, <4>2
        <5> QED
          BY <1>5, <3>2, <3>4, <5>1 DEF Stranded, FullIrql
      <4> QED
        BY <4>1, <4>2
    <3> QED
      BY <2>3, <2>4, <3>1, <3>2, <3>3, <3>4 DEF ChosenIsUsable, WireHas, Stranded, Listed, OverridesLost
  <2>13. ChoiceIsUsable'
    BY <2>4, <2>12 DEF ChoiceIsUsable
  <2> QED
    BY <1>6, <2>5, <2>8, <2>9, <2>10, <2>11, <2>13 DEF RegistrationIInv
<1>9. \/ Fails(d) /\ UNCHANGED RegisteredInterrupts
      \/ /\ list # <<>> \/ v \in m_isrRoutines'
         /\ RegisteredInterrupts' = [RegisteredInterrupts EXCEPT ![v] = Append(list, d)]
         /\ registration' = [registration EXCEPT ![d] = "route"]
         /\ registering' = {[r EXCEPT !.routed = @ \/ list # <<>>]}
  BY <1>1, <1>2
<1> QED
  BY <1>7, <1>8, <1>9

\* The ends of a registration.
LEMMA RegistrationEnds ==
    ASSUME RegistrationIInv, NEW d \in Devices, Succeeds(d) \/ Fails(d)
    PROVE  /\ registering' = {} /\ ChoiceIsUsable'
           /\ registration' \in [Devices -> {"none", "insert", "route", "done", "failed"}]
           /\ \A x \in Devices :
                  registration'[x] = "done" => registration[x] = "done" \/ (x = d /\ Succeeds(d))
<1>1. registration \in [Devices -> {"none", "insert", "route", "done", "failed"}]
  BY DEF RegistrationIInv, TablesTyped
<1> QED
  BY <1>1 DEF Succeeds, Fails, ChoiceIsUsable

\* The last step of a registration, when the routing it made is consistent.
LEMMA RouteEnds ==
    ASSUME RegistrationIInv, NEW d \in Devices, Succeeds(d) \/ Fails(d),
           UNCHANGED <<InterruptBitmap, RegisteredInterrupts, m_isrRoutines, apicVars, deliveryVars>>,
           TablesGrow,
           DOMAIN redirection' \subseteq Pins, DOMAIN msi' \subseteq Devices,
           \A p \in DOMAIN redirection' : redirection'[p] \in Vectors /\ RegisteredInterrupts[redirection'[p]] # <<>>,
           \A p, q \in DOMAIN redirection' : redirection'[p] = redirection'[q] => p = q,
           \A x \in DOMAIN msi' : msi'[x] \in Vectors,
           Succeeds(d) => Delivered(d)'
    PROVE  RegistrationIInv'
<1>1. /\ registering' = {} /\ ChoiceIsUsable'
      /\ registration' \in [Devices -> {"none", "insert", "route", "done", "failed"}]
      /\ \A x \in Devices :
             registration'[x] = "done" => registration[x] = "done" \/ (x = d /\ Succeeds(d))
  BY RegistrationEnds
<1>2. TablesTyped'
  BY <1>1 DEF RegistrationIInv, TablesTyped, deliveryVars
<1>3. OverridesIntact'
  BY DEF RegistrationIInv, OverridesIntact, OverridesLost, apicVars
<1>4. PinsAreServed'
  BY DEF PinsAreServed
<1>5. ASSUME NEW x \in Devices, registration'[x] = "done"
      PROVE  registration[x] = "done" \/ Delivered(x)'
  <2>1. CASE x = d /\ Succeeds(d)
    BY <2>1
  <2> QED
    BY <1>1, <1>5, <2>1
<1>6. RegisteredIsDelivered'
  BY <1>5, DeliveryStep DEF RegistrationIInv
<1>7. VectorsAreOwned'
  BY DEF RegistrationIInv, VectorsAreOwned
<1>8. ExclusiveIsFirst'
  BY DEF RegistrationIInv, ExclusiveIsFirst
<1> QED
  BY <1>1, <1>2, <1>3, <1>4, <1>6, <1>7, <1>8 DEF RegistrationIInv

LEMMA RouteKeeps ==
    ASSUME RegistrationIInv, NEW d \in Devices, Route(d)
    PROVE  RegistrationIInv'
<1>1. PICK r \in registering :
          /\ r.device = d /\ registration[d] = "route"
          /\ CASE ~IsIoApicInterrupt(d) -> RouteMessage(d, r.vector) /\ UNCHANGED redirection
               [] IsIoApicInterrupt(d) /\ ~r.routed -> IoApicSystemSetInterrupt(d, r.vector) /\ UNCHANGED msi
               [] OTHER -> Succeeds(d) /\ UNCHANGED <<redirection, msi>>
          /\ UNCHANGED <<InterruptBitmap, RegisteredInterrupts, m_isrRoutines, apicVars, deliveryVars>>
  BY DEF Route
<1>2. PICK v \in Vectors, routed \in BOOLEAN : v = r.vector /\ routed = r.routed
  BY <1>1 DEF RegistrationIInv, TablesTyped
<1>3. /\ VECTOR_TO_IRQL(v) = IoInterrupt[d].irql /\ Listed(d, v) /\ RegisteredInterrupts[v] # <<>>
      /\ ~routed => \A p \in DOMAIN redirection : redirection[p] # v
      /\ routed /\ IsIoApicInterrupt(d) => WireHas(d, v) \/ OverridesLost \/ Stranded(d)
  <2>1. ChosenIsUsable(r)
    BY DEF RegistrationIInv, ChoiceIsUsable
  <2>2. Listed(d, v)
    BY <1>1, <1>2, <2>1 DEF ChosenIsUsable
  <2>3. RegisteredInterrupts[v] # <<>>
    <3>1. Len(<<>>) = 0
      OBVIOUS
    <3> QED
      BY <2>2, <3>1 DEF Listed
  <2> QED
    BY <1>1, <1>2, <2>1, <2>2, <2>3 DEF ChosenIsUsable
<1>4. /\ DOMAIN redirection \subseteq Pins /\ DOMAIN msi \subseteq Devices
      /\ \A p \in DOMAIN redirection : redirection[p] \in Vectors /\ RegisteredInterrupts[redirection[p]] # <<>>
      /\ \A p, q \in DOMAIN redirection : redirection[p] = redirection[q] => p = q
      /\ \A x \in DOMAIN msi : msi[x] \in Vectors
  BY DEF RegistrationIInv, TablesTyped, PinsAreServed, VectorsAreOwned
<1>5. UNCHANGED <<InterruptBitmap, RegisteredInterrupts, m_isrRoutines, apicVars, deliveryVars>>
  BY <1>1
<1>6. CASE RouteMessage(d, v) /\ UNCHANGED redirection
  <2>1. CASE Fails(d) /\ UNCHANGED msi
    <3>1. TablesGrow
      BY <1>5, <1>6, <2>1 DEF TablesGrow, Listed, OverridesLost, apicVars
    <3>2. ~Succeeds(d)
      BY <1>1, <2>1 DEF Succeeds, Fails, RegistrationIInv, TablesTyped
    <3> QED
      BY <1>4, <1>5, <1>6, <2>1, <3>1, <3>2, RouteEnds
  <2>2. CASE Succeeds(d) /\ msi' = [x \in DOMAIN msi \cup {d} |-> IF x = d THEN v ELSE msi[x]]
    <3>1. /\ DOMAIN msi' \subseteq Devices /\ d \in DOMAIN msi' /\ msi'[d] = v
          /\ \A x \in DOMAIN msi' : msi'[x] \in Vectors
          /\ \A x \in DOMAIN msi : x # d => x \in DOMAIN msi' /\ msi'[x] = msi[x]
      BY <1>4, <2>2
    <3>2. TablesGrow
      BY <1>1, <1>5, <1>6, <3>1 DEF TablesGrow, Listed, OverridesLost, apicVars
    <3>3. Delivered(d)'
      BY <1>3, <1>5, <3>1 DEF Delivered, Listed
    <3> QED
      BY <1>4, <1>5, <1>6, <2>2, <3>1, <3>2, <3>3, RouteEnds
  <2> QED
    BY <1>6, <2>1, <2>2 DEF RouteMessage
<1>7. CASE IsIoApicInterrupt(d) /\ ~routed /\ IoApicSystemSetInterrupt(d, v) /\ UNCHANGED msi
  <2>1. PICK pin \in PinsForIrq(IoInterrupt[d].irq) :
            IF pin \notin Pins \/ pin \in DOMAIN redirection
            THEN Fails(d) /\ UNCHANGED redirection
            ELSE /\ redirection' = [p \in DOMAIN redirection \cup {pin} |->
                                        IF p = pin THEN v ELSE redirection[p]]
                 /\ Succeeds(d)
    BY <1>7 DEF IoApicSystemSetInterrupt
  <2>2. CASE Fails(d) /\ UNCHANGED redirection
    <3>1. TablesGrow
      BY <1>5, <1>7, <2>2 DEF TablesGrow, Listed, OverridesLost, apicVars
    <3>2. ~Succeeds(d)
      BY <1>1, <2>2 DEF Succeeds, Fails, RegistrationIInv, TablesTyped
    <3> QED
      BY <1>4, <1>5, <1>7, <2>2, <3>1, <3>2, RouteEnds
  <2>3. CASE /\ pin \in Pins /\ pin \notin DOMAIN redirection
             /\ redirection' = [p \in DOMAIN redirection \cup {pin} |-> IF p = pin THEN v ELSE redirection[p]]
             /\ Succeeds(d)
    <3>1. /\ DOMAIN redirection' \subseteq Pins /\ pin \in DOMAIN redirection' /\ redirection'[pin] = v
          /\ \A p \in DOMAIN redirection' : p = pin \/ (p \in DOMAIN redirection /\ redirection'[p] = redirection[p])
          /\ \A p \in DOMAIN redirection : p \in DOMAIN redirection' /\ redirection'[p] = redirection[p]
      BY <1>4, <2>3
    <3>2. \A p \in DOMAIN redirection' : redirection'[p] \in Vectors /\ RegisteredInterrupts[redirection'[p]] # <<>>
      BY <1>3, <1>4, <3>1
    <3>3. \A p, q \in DOMAIN redirection' : redirection'[p] = redirection'[q] => p = q
      BY <1>3, <1>4, <1>7, <3>1
    <3>4. TablesGrow
      BY <1>5, <1>7, <3>1 DEF TablesGrow, Listed, OverridesLost, apicVars
    <3>5. Delivered(d)'
      <4>1. CASE OverridesLost
        BY <1>5, <1>7, <4>1 DEF Delivered, OverridesLost, apicVars
      <4>2. CASE ~OverridesLost
        <5>1. pin = Wire(d)
          BY <4>2, PinIsWire
        <5> QED
          BY <1>3, <1>5, <3>1, <5>1 DEF Delivered, Listed
      <4> QED
        BY <4>1, <4>2
    <3> QED
      BY <1>4, <1>5, <1>7, <2>3, <3>1, <3>2, <3>3, <3>4, <3>5, RouteEnds
  <2> QED
    BY <2>1, <2>2, <2>3
<1>8. CASE IsIoApicInterrupt(d) /\ routed /\ Succeeds(d) /\ UNCHANGED <<redirection, msi>>
  <2>1. TablesGrow
    BY <1>5, <1>8 DEF TablesGrow, Listed, OverridesLost, apicVars
  <2>2. Delivered(d)
    BY <1>3, <1>8 DEF Delivered, WireHas
  <2>3. Delivered(d)'
    BY <1>5, <1>8, <2>2 DEF Delivered, Listed, Stranded, OverridesLost, apicVars
  <2> QED
    BY <1>4, <1>5, <1>8, <2>1, <2>3, RouteEnds
<1> QED
  BY <1>1, <1>2, <1>6, <1>7, <1>8

\* Every step keeps what a registration relies on.
LEMMA RegistrationStep ==
    ASSUME RegistrationIInv, [InterruptsNext]_interruptVars
    PROVE  RegistrationIInv'
<1>1. pending \subseteq Devices
  BY DEF RegistrationIInv, TablesTyped
<1>2. CASE UNCHANGED interruptVars
  BY <1>1, <1>2, DeliveryKeepsTables DEF interruptVars, deliveryVars
<1>3. ASSUME NEW d \in Devices, Raise(d)
      PROVE  RegistrationIInv'
  BY <1>1, <1>3, DeliveryKeepsTables DEF Raise
<1>4. ASSUME NEW c \in ApicCpus, TakeInterrupt(c) \/ CallHandler(c) \/ Unhandled(c)
      PROVE  RegistrationIInv'
  <2>1. UNCHANGED <<tableVars, apicVars>> /\ pending' \subseteq pending
    BY <1>4 DEF TakeInterrupt, CallHandler, Unhandled
  <2> QED
    BY <1>1, <2>1, DeliveryKeepsTables
<1> QED
  BY <1>2, <1>3, <1>4, LateInitKeeps, ChooseVectorKeeps, InsertEntryKeeps, RouteKeeps DEF InterruptsNext

LEMMA RegistrationHolds == InterruptsSpec => []RegistrationIInv
<1>1. InterruptsInit => RegistrationIInv
  BY RegistrationStarts
<1>2. RegistrationIInv /\ [InterruptsNext]_interruptVars => RegistrationIInv'
  BY RegistrationStep
<1> QED
  BY <1>1, <1>2, PTL DEF InterruptsSpec

\* InterruptInv: a registration that succeeded is delivered to its handler at the
\* priority that was asked for (unless the vectors ran out or the overrides were
\* overwritten), a vector in use is never given out again, and a handler that asked
\* for a vector of its own is the first of its list.
THEOREM RegistrationsAreServed == InterruptsSpec => []InterruptInv
<1>1. RegistrationIInv => InterruptInv
  <2>1. RegistrationIInv => InterruptsTypeOK
    BY DEF RegistrationIInv, TablesTyped, InterruptsTypeOK
  <2> QED
    BY <2>1 DEF RegistrationIInv, InterruptInv
<1> QED
  BY <1>1, RegistrationHolds, PTL

----------------------------------------------------------------------------
\* The interrupts that are delivered

\* The list of a vector mixes devices that raise levels with devices that raise edges or
\* send messages.
LevelTriggered(d) == IoInterrupt[d].type = "pci"
TriggersMix(v) == \E d, e \in Devices : Listed(d, v) /\ Listed(e, v) /\ LevelTriggered(d) /\ ~LevelTriggered(e)

\* The pin of a vector is the wire of a device that is registered elsewhere.
ForeignLine(v) ==
    \E p \in DOMAIN redirection : \E d \in Devices :
        /\ redirection[p] = v /\ Wire(d) = p
        /\ IsIoApicInterrupt(d) /\ registration[d] = "done" /\ ~Listed(d, v)

\* The vectors at which nobody may claim an interrupt.
Silent(v) == \E d \in Devices : Listed(d, v) /\ IoInterrupt[d].claims = "never"
Excused(v) == Silent(v) \/ TriggersMix(v) \/ ForeignLine(v)

HasEdge(v) == \E d \in Devices : Listed(d, v) /\ ~LevelTriggered(d)

DeliveryTyped ==
    /\ requests \subseteq [pin : Int, vector : Vectors]
    /\ serving \in [ApicCpus -> [vector : Vectors, index : Nat, pin : Int]]
    /\ unhandled \subseteq Vectors
    /\ \A d \in pending : registration[d] = "done"

\* A device is listed once, not before it is inserted, and where its messages arrive.
ListedOnce ==
    \A u, v \in Vectors : \A i \in 1 .. Len(RegisteredInterrupts[u]), j \in 1 .. Len(RegisteredInterrupts[v]) :
        RegisteredInterrupts[u][i] = RegisteredInterrupts[v][j] => u = v /\ i = j
ListedLater == \A d \in Devices : registration[d] \in {"none", "insert"} => \A v \in Vectors : ~Listed(d, v)
MessagesListed == \A d \in DOMAIN msi : ~IsIoApicInterrupt(d) /\ Listed(d, msi[d])

\* A request was made by a device that raises edges; what a CPU serves came from one, or from
\* the pin of the vector.
EdgesHaveDevices == \A r \in requests : Excused(r.vector) \/ HasEdge(r.vector)
ServedHavePins ==
    \A c \in ApicCpus : serving[c].index # 0 =>
        \/ Excused(serving[c].vector) \/ HasEdge(serving[c].vector)
        \/ serving[c].pin \in DOMAIN redirection /\ redirection[serving[c].pin] = serving[c].vector

\* The interrupts on their way: requests, and walks along the lists.
Tokens == {<<"request", r>> : r \in requests} \cup {<<"cpu", c>> : c \in {x \in ApicCpus : serving[x].index # 0}}
VectorOf(t) == IF t[1] = "request" THEN t[2].vector ELSE serving[t[2]].vector
TokenIndex(t) == IF t[1] = "request" THEN 1 ELSE serving[t[2]].index

\* The devices that wait and that the walk of an interrupt will come to.
IsAhead(t, d) == \E i \in TokenIndex(t) .. Len(RegisteredInterrupts[VectorOf(t)]) :
                     RegisteredInterrupts[VectorOf(t)][i] = d
DueTokens == {t \in Tokens : ~Excused(VectorOf(t))}

\* Each interrupt on its way has a waiting device of its own ahead of it.
Matches(f) == /\ \A t \in DueTokens : IsAhead(t, f[t])
              /\ \A s, t \in DueTokens : f[s] = f[t] => s = t
SomeoneClaims == \E f \in [DueTokens -> pending] : Matches(f)

UnhandledAreExcused == \A v \in unhandled : Excused(v)

TablesIInv == ListedOnce /\ ListedLater /\ MessagesListed
WalksIInv == DeliveryTyped /\ EdgesHaveDevices /\ ServedHavePins /\ SomeoneClaims /\ UnhandledAreExcused
ClaimIInv == RegistrationIInv /\ TablesIInv /\ WalksIInv

\* What an interrupt on its way is.
LEMMA TokenIs ==
    ASSUME DeliveryTyped, NEW t \in Tokens
    PROVE  /\ VectorOf(t) \in Vectors /\ TokenIndex(t) \in Nat \ {0}
           /\ \/ \E r \in requests : t = <<"request", r>> /\ VectorOf(t) = r.vector /\ TokenIndex(t) = 1
              \/ \E c \in ApicCpus : /\ serving[c].index # 0 /\ t = <<"cpu", c>>
                                     /\ VectorOf(t) = serving[c].vector /\ TokenIndex(t) = serving[c].index
<1>1. CASE \E r \in requests : t = <<"request", r>>
  <2>1. PICK r \in requests : t = <<"request", r>>
    BY <1>1
  <2>2. VectorOf(t) = r.vector /\ TokenIndex(t) = 1
    BY <2>1 DEF VectorOf, TokenIndex
  <2> QED
    BY <2>1, <2>2 DEF DeliveryTyped
<1>2. CASE \E c \in ApicCpus : serving[c].index # 0 /\ t = <<"cpu", c>>
  <2>1. PICK c \in ApicCpus : serving[c].index # 0 /\ t = <<"cpu", c>>
    BY <1>2
  <2>2. VectorOf(t) = serving[c].vector /\ TokenIndex(t) = serving[c].index
    BY <2>1 DEF VectorOf, TokenIndex
  <2> QED
    BY <2>1, <2>2 DEF DeliveryTyped
<1> QED
  BY <1>1, <1>2 DEF Tokens

\* Lists are only appended to, and only by a device that is not registered yet.
ListsGrow ==
    /\ TablesGrow
    /\ \A d \in Devices : registration[d] = "done" => registration'[d] = "done"
    /\ \A v \in Vectors : \A d \in Devices : registration[d] = "done" /\ Listed(d, v)' => Listed(d, v)
    /\ \A v \in Vectors : \A i \in 1 .. Len(RegisteredInterrupts[v]) :
           i \in 1 .. Len(RegisteredInterrupts'[v]) /\ RegisteredInterrupts'[v][i] = RegisteredInterrupts[v][i]

LEMMA ExcusedStays ==
    ASSUME TablesTyped, ListsGrow, NEW v \in Vectors
    PROVE  /\ Excused(v) => Excused(v)'
           /\ HasEdge(v) => HasEdge(v)'
<1>1. \A d \in Devices : Listed(d, v) => Listed(d, v)'
  BY DEF ListsGrow, TablesGrow
<1>2. Silent(v) => Silent(v)'
  BY <1>1 DEF Silent
<1>3. TriggersMix(v) => TriggersMix(v)'
  BY <1>1 DEF TriggersMix, LevelTriggered
<1>4. ASSUME ForeignLine(v)
      PROVE  ForeignLine(v)'
  <2>1. PICK p \in DOMAIN redirection, d \in Devices :
            /\ redirection[p] = v /\ Wire(d) = p
            /\ IsIoApicInterrupt(d) /\ registration[d] = "done" /\ ~Listed(d, v)
    BY <1>4 DEF ForeignLine
  <2>2. p \in DOMAIN redirection' /\ redirection'[p] = v
    BY <2>1 DEF ListsGrow, TablesGrow
  <2>3. registration'[d] = "done" /\ ~Listed(d, v)'
    BY <2>1 DEF ListsGrow
  <2> QED
    BY <2>1, <2>2, <2>3 DEF ForeignLine
<1>5. HasEdge(v) => HasEdge(v)'
  BY <1>1 DEF HasEdge
<1> QED
  BY <1>2, <1>3, <1>4, <1>5 DEF Excused

\* Registrations leave the interrupts on their way what they had.
LEMMA GrowthKeepsWalks ==
    ASSUME TablesTyped, WalksIInv, ListsGrow, UNCHANGED deliveryVars
    PROVE  WalksIInv'
<1> USE DEF deliveryVars
<1>1. \A v \in Vectors : (Excused(v) => Excused(v)') /\ (HasEdge(v) => HasEdge(v)')
  BY ExcusedStays
<1>2. DeliveryTyped'
  BY DEF WalksIInv, DeliveryTyped, ListsGrow, TablesTyped
<1>3. EdgesHaveDevices'
  BY <1>1 DEF WalksIInv, EdgesHaveDevices, DeliveryTyped
<1>4. ServedHavePins'
  <2>1. ASSUME NEW c \in ApicCpus, serving[c].index # 0,
               serving[c].pin \in DOMAIN redirection, redirection[serving[c].pin] = serving[c].vector
        PROVE  serving[c].pin \in DOMAIN redirection' /\ redirection'[serving[c].pin] = serving[c].vector
    BY <2>1 DEF ListsGrow, TablesGrow
  <2> QED
    BY <1>1, <2>1 DEF WalksIInv, ServedHavePins, DeliveryTyped
<1>5. PICK f \in [DueTokens -> pending] : Matches(f)
  BY DEF WalksIInv, SomeoneClaims
<1>6. ASSUME NEW t \in DueTokens'
      PROVE  t \in DueTokens /\ IsAhead(t, f[t])'
  <2>1. t \in Tokens
    BY <1>6 DEF DueTokens, Tokens
  <2>2. VectorOf(t)' = VectorOf(t) /\ TokenIndex(t)' = TokenIndex(t)
    BY DEF VectorOf, TokenIndex
  <2>3. VectorOf(t) \in Vectors /\ TokenIndex(t) \in Nat \ {0}
    BY <2>1, TokenIs DEF WalksIInv
  <2>4. t \in DueTokens
    BY <1>1, <1>6, <2>1, <2>2, <2>3 DEF DueTokens
  <2>5. PICK v \in Vectors, k \in Nat \ {0} : v = VectorOf(t) /\ k = TokenIndex(t)
    BY <2>3
  <2>6. PICK i \in k .. Len(RegisteredInterrupts[v]) : RegisteredInterrupts[v][i] = f[t]
    BY <1>5, <2>4, <2>5 DEF Matches, IsAhead
  <2>7. i \in 1 .. Len(RegisteredInterrupts[v])
    BY <2>5, <2>6 DEF TablesTyped
  <2>8. i \in 1 .. Len(RegisteredInterrupts'[v]) /\ RegisteredInterrupts'[v][i] = f[t]
    BY <2>6, <2>7 DEF ListsGrow
  <2>9. i \in k .. Len(RegisteredInterrupts'[v])
    BY <2>6, <2>8
  <2> QED
    BY <2>2, <2>4, <2>5, <2>8, <2>9 DEF IsAhead
<1>7. SomeoneClaims'
  <2>1. PICK g : g = [t \in DueTokens' |-> f[t]]
    OBVIOUS
  <2>2. g \in [DueTokens' -> pending'] /\ \A t \in DueTokens' : g[t] = f[t]
    BY <1>5, <1>6, <2>1
  <2>3. Matches(g)'
    BY <1>5, <1>6, <2>2 DEF Matches
  <2> QED
    BY <2>2, <2>3 DEF SomeoneClaims
<1>8. UnhandledAreExcused'
  BY <1>1 DEF WalksIInv, UnhandledAreExcused, DeliveryTyped
<1> QED
  BY <1>2, <1>3, <1>4, <1>7, <1>8 DEF WalksIInv

\* Deliveries leave the tables alone.
LEMMA TablesAlone ==
    ASSUME UNCHANGED tableVars, NEW v
    PROVE  /\ \A d \in Devices : Listed(d, v)' <=> Listed(d, v)
           /\ Excused(v)' <=> Excused(v)
           /\ HasEdge(v)' <=> HasEdge(v)
<1>1. \A d \in Devices : Listed(d, v)' <=> Listed(d, v)
  BY DEF Listed, tableVars
<1>2. Silent(v)' <=> Silent(v)
  BY <1>1 DEF Silent
<1>3. TriggersMix(v)' <=> TriggersMix(v)
  BY <1>1 DEF TriggersMix, LevelTriggered
<1>4. ForeignLine(v)' <=> ForeignLine(v)
  BY <1>1 DEF ForeignLine, tableVars
<1>5. HasEdge(v)' <=> HasEdge(v)
  BY <1>1 DEF HasEdge
<1> QED
  BY <1>1, <1>2, <1>3, <1>4, <1>5 DEF Excused

\* What was on its way, and where it was, still is.
SameToken(t) == VectorOf(t)' = VectorOf(t) /\ TokenIndex(t)' = TokenIndex(t)

LEMMA StillAhead ==
    ASSUME UNCHANGED tableVars, NEW t, SameToken(t), NEW d
    PROVE  /\ IsAhead(t, d)' <=> IsAhead(t, d)
           /\ t \in Tokens /\ t \in DueTokens' => t \in DueTokens
<1>1. RegisteredInterrupts' = RegisteredInterrupts
  BY DEF tableVars
<1>2. IsAhead(t, d)' <=> IsAhead(t, d)
  BY <1>1 DEF IsAhead, SameToken
<1>3. ASSUME t \in Tokens, t \in DueTokens'
      PROVE  t \in DueTokens
  <2>1. ~Excused(VectorOf(t))'
    BY <1>3 DEF DueTokens
  <2>2. PICK v : v = VectorOf(t)
    OBVIOUS
  <2>3. VectorOf(t)' = v
    BY <2>2 DEF SameToken
  <2>4. Excused(v)' <=> Excused(v)
    BY TablesAlone
  <2>5. ~Excused(v)'
    BY <2>1, <2>3 DEF Excused, Silent, TriggersMix, ForeignLine
  <2> QED
    BY <1>3, <2>2, <2>4, <2>5 DEF DueTokens
<1> QED
  BY <1>2, <1>3

LEMMA ZeroIsVector == 0 \in Vectors
BY InterruptAssumption DEF Vectors

LEMMA PinsAreNumbers == Pins \subseteq Int
BY InterruptAssumption

\* One interrupt is new, and one device waits for it.
LEMMA MatchMore ==
    ASSUME UNCHANGED tableVars, pending \subseteq pending',
           NEW f \in [DueTokens -> pending], Matches(f), NEW n, NEW e \in pending',
           \A t \in DueTokens' : t = n \/ (t \in DueTokens /\ SameToken(t) /\ f[t] # e),
           n \in DueTokens' => IsAhead(n, e)'
    PROVE  SomeoneClaims'
<1>1. PICK g : g = [t \in DueTokens' |-> IF t = n THEN e ELSE f[t]]
  OBVIOUS
<1>2. g \in [DueTokens' -> pending'] /\ \A t \in DueTokens' : g[t] = IF t = n THEN e ELSE f[t]
  BY <1>1
<1>3. ASSUME NEW t \in DueTokens'
      PROVE  IsAhead(t, g[t])'
  <2>1. CASE t = n
    BY <1>2, <1>3, <2>1
  <2>2. CASE t # n
    <3>1. t \in DueTokens /\ SameToken(t) /\ g[t] = f[t]
      BY <1>2, <1>3, <2>2
    <3>2. IsAhead(t, f[t])
      BY <3>1 DEF Matches
    <3>3. IsAhead(t, f[t])'
      BY <3>1, <3>2, StillAhead
    <3> QED
      BY <3>1, <3>3
  <2> QED
    BY <2>1, <2>2
<1>4. ASSUME NEW s \in DueTokens', NEW t \in DueTokens', g[s] = g[t]
      PROVE  s = t
  BY <1>2, <1>4 DEF Matches
<1>5. Matches(g)'
  BY <1>3, <1>4 DEF Matches
<1> QED
  BY <1>2, <1>5 DEF SomeoneClaims

\* A device raises its interrupt: who raises edges is ahead of its own request.
LEMMA RaiseRequests ==
    ASSUME RegistrationIInv, TablesIInv, WalksIInv, NEW d \in Devices, Raise(d)
    PROVE  \/ requests' = requests
           \/ \E r \in [pin : Int, vector : Vectors] :
                  /\ requests' = requests \cup {r}
                  /\ Excused(r.vector) \/ (Listed(d, r.vector) /\ ~LevelTriggered(d))
<1>1. \/ /\ IoInterrupt[d].type = "legacy" /\ Routed(Wire(d))
         /\ requests' = requests \cup {[pin |-> Wire(d), vector |-> redirection[Wire(d)]]}
      \/ d \in DOMAIN msi /\ requests' = requests \cup {[pin |-> -1, vector |-> msi[d]]}
      \/ requests' = requests
  BY DEF Raise
<1>2. registration[d] = "done"
  BY DEF Raise
<1>3. CASE /\ IoInterrupt[d].type = "legacy" /\ Routed(Wire(d))
           /\ requests' = requests \cup {[pin |-> Wire(d), vector |-> redirection[Wire(d)]]}
  <2>1. PICK p \in Int, v \in Vectors : p = Wire(d) /\ p \in DOMAIN redirection /\ v = redirection[p]
    <3>1. Wire(d) \in DOMAIN redirection
      BY <1>3 DEF Routed
    <3>2. Wire(d) \in Int
      BY <3>1, PinsAreNumbers DEF RegistrationIInv, TablesTyped
    <3>3. redirection[Wire(d)] \in Vectors
      BY <3>1 DEF RegistrationIInv, TablesTyped
    <3> QED
      BY <3>1, <3>2, <3>3
  <2>2. IsIoApicInterrupt(d) /\ ~LevelTriggered(d)
    BY <1>3 DEF IsIoApicInterrupt, LevelTriggered
  <2>3. Listed(d, v) \/ ForeignLine(v)
    BY <1>2, <2>1, <2>2 DEF ForeignLine
  <2>4. PICK r \in [pin : Int, vector : Vectors] : r = [pin |-> p, vector |-> v]
    OBVIOUS
  <2>5. requests' = requests \cup {r} /\ r.vector = v
    BY <1>3, <2>1, <2>4
  <2> QED
    BY <2>2, <2>3, <2>5 DEF Excused
<1>4. CASE d \in DOMAIN msi /\ requests' = requests \cup {[pin |-> -1, vector |-> msi[d]]}
  <2>1. PICK v \in Vectors : v = msi[d]
    BY <1>4 DEF RegistrationIInv, TablesTyped
  <2>2. Listed(d, v) /\ ~LevelTriggered(d)
    BY <1>4, <2>1 DEF TablesIInv, MessagesListed, IsIoApicInterrupt, LevelTriggered
  <2>3. PICK r \in [pin : Int, vector : Vectors] : r = [pin |-> -1, vector |-> v]
    <3>1. -1 \in Int
      OBVIOUS
    <3> QED
      BY <3>1
  <2>4. requests' = requests \cup {r} /\ r.vector = v
    BY <1>4, <2>1, <2>3
  <2> QED
    BY <2>2, <2>4
<1> QED
  BY <1>1, <1>3, <1>4

LEMMA RaiseKeeps ==
    ASSUME RegistrationIInv, TablesIInv, WalksIInv, NEW d \in Devices, Raise(d)
    PROVE  WalksIInv'
<1>1. /\ registration[d] = "done" /\ d \notin pending /\ pending' = pending \cup {d}
      /\ UNCHANGED tableVars /\ UNCHANGED <<serving, unhandled>>
  BY DEF Raise
<1>2. PICK n : \/ requests' = requests /\ n \notin Tokens'
               \/ \E r \in [pin : Int, vector : Vectors] :
                      /\ requests' = requests \cup {r} /\ n = <<"request", r>>
                      /\ Excused(r.vector) \/ (Listed(d, r.vector) /\ ~LevelTriggered(d))
  <2>1. \E n : n \notin Tokens'
    BY NoSetContainsEverything
  <2> QED
    BY <2>1, RaiseRequests
<1>3. ASSUME NEW v
      PROVE  (Excused(v)' <=> Excused(v)) /\ (HasEdge(v)' <=> HasEdge(v)) /\ \A x \in Devices : Listed(x, v)' <=> Listed(x, v)
  BY <1>1, TablesAlone
<1>4. DeliveryTyped'
  BY <1>1, <1>2 DEF WalksIInv, DeliveryTyped, tableVars
<1>5. EdgesHaveDevices'
  BY <1>2, <1>3 DEF WalksIInv, EdgesHaveDevices, HasEdge
<1>6. ServedHavePins'
  BY <1>1, <1>3 DEF WalksIInv, ServedHavePins, tableVars
<1>7. UnhandledAreExcused'
  BY <1>1, <1>3 DEF WalksIInv, UnhandledAreExcused
<1>8. SomeoneClaims'
  <2>1. PICK f \in [DueTokens -> pending] : Matches(f)
    BY DEF WalksIInv, SomeoneClaims
  <2>2. \A t : SameToken(t)
    BY <1>1 DEF SameToken, VectorOf, TokenIndex
  <2>3. ASSUME NEW t \in DueTokens', t # n
        PROVE  t \in DueTokens /\ SameToken(t) /\ f[t] # d
    <3>1. t \in Tokens
      BY <1>1, <1>2, <2>3 DEF DueTokens, Tokens
    <3>2. t \in DueTokens
      BY <1>1, <2>2, <2>3, <3>1, StillAhead
    <3> QED
      BY <1>1, <2>2, <3>2
  <2>4. ASSUME n \in DueTokens'
        PROVE  IsAhead(n, d)'
    <3>1. PICK r \in [pin : Int, vector : Vectors] :
              n = <<"request", r>> /\ (Excused(r.vector) \/ Listed(d, r.vector))
      BY <1>2, <2>4 DEF DueTokens
    <3>2. VectorOf(n)' = r.vector /\ TokenIndex(n)' = 1
      BY <3>1 DEF VectorOf, TokenIndex
    <3>3. ~Excused(r.vector)'
      BY <2>4, <3>2 DEF DueTokens, Excused, Silent, TriggersMix, ForeignLine
    <3>4. Listed(d, r.vector)'
      BY <1>3, <3>1, <3>3
    <3> QED
      BY <3>2, <3>4 DEF IsAhead, Listed
  <2> QED
    BY <1>1, <2>1, <2>3, <2>4, MatchMore
<1> QED
  BY <1>4, <1>5, <1>6, <1>7, <1>8 DEF WalksIInv

\* A CPU takes an interrupt: the token of a request is replaced by one of the CPU, a level
\* comes from a pin whose vector nobody is ahead of.
LEMMA TakeRequestMatches ==
    ASSUME WalksIInv, UNCHANGED tableVars, UNCHANGED pending,
           NEW c \in ApicCpus, serving[c].index = 0, NEW r \in requests,
           serving' = [serving EXCEPT ![c] = [vector |-> r.vector, index |-> 1, pin |-> r.pin]],
           requests' = requests \ {r}
    PROVE  SomeoneClaims'
<1> DEFINE n == <<"cpu", c>>
           m == <<"request", r>>
<1>1. PICK f \in [DueTokens -> pending] : Matches(f)
  BY DEF WalksIInv, SomeoneClaims
<1>2. serving'[c] = [vector |-> r.vector, index |-> 1, pin |-> r.pin] /\ \A x \in ApicCpus : x # c => serving'[x] = serving[x]
  BY DEF WalksIInv, DeliveryTyped
<1>3. m \in Tokens /\ m \notin Tokens'
  BY DEF Tokens
<1>4. VectorOf(n)' = r.vector /\ TokenIndex(n)' = 1 /\ VectorOf(m) = r.vector /\ TokenIndex(m) = 1
  BY <1>2 DEF VectorOf, TokenIndex
<1>5. ASSUME NEW t \in DueTokens', t # n
      PROVE  t \in DueTokens /\ SameToken(t) /\ t # m
  <2>1. t \in Tokens /\ SameToken(t)
    <3>1. CASE \E s \in requests' : t = <<"request", s>>
      <4>1. PICK s \in requests' : t = <<"request", s>>
        BY <3>1
      <4>2. s \in requests
        OBVIOUS
      <4> QED
        BY <4>1, <4>2 DEF Tokens, SameToken, VectorOf, TokenIndex
    <3>2. CASE \E x \in ApicCpus : serving'[x].index # 0 /\ t = <<"cpu", x>>
      <4>1. PICK x \in ApicCpus : serving'[x].index # 0 /\ t = <<"cpu", x>> /\ x # c
        BY <1>5, <3>2
      <4>2. serving'[x] = serving[x]
        BY <1>2, <4>1
      <4> QED
        BY <4>1, <4>2 DEF Tokens, SameToken, VectorOf, TokenIndex
    <3> QED
      BY <1>5, <3>1, <3>2 DEF DueTokens, Tokens
  <2> QED
    BY <1>3, <1>5, <2>1, StillAhead DEF DueTokens
<1>6. CASE Excused(r.vector)
  <2>1. Excused(r.vector)'
    BY <1>6, TablesAlone
  <2>2. n \notin DueTokens'
    BY <1>4, <2>1 DEF DueTokens, Excused, Silent, TriggersMix, ForeignLine
  <2>3. PICK g : g = [t \in DueTokens' |-> f[t]]
    OBVIOUS
  <2>4. g \in [DueTokens' -> pending'] /\ \A t \in DueTokens' : g[t] = f[t]
    BY <1>5, <2>2, <2>3
  <2>5. \A t \in DueTokens' : IsAhead(t, g[t])'
    BY <1>1, <1>5, <2>2, <2>4, StillAhead DEF Matches
  <2>6. Matches(g)'
    BY <1>1, <1>5, <2>2, <2>4, <2>5 DEF Matches
  <2> QED
    BY <2>4, <2>6 DEF SomeoneClaims
<1>7. CASE ~Excused(r.vector)
  <2>1. m \in DueTokens
    BY <1>3, <1>4, <1>7 DEF DueTokens
  <2>2. IsAhead(m, f[m])
    BY <1>1, <2>1 DEF Matches
  <2>3. IsAhead(n, f[m])'
    BY <1>4, <2>2 DEF IsAhead, tableVars
  <2>4. \A t \in DueTokens' : t = n \/ (t \in DueTokens /\ SameToken(t) /\ f[t] # f[m])
    BY <1>1, <1>5, <2>1 DEF Matches
  <2>5. f[m] \in pending'
    BY <2>1
  <2> QED
    BY <1>1, <2>3, <2>4, <2>5, MatchMore
<1> QED
  BY <1>6, <1>7

\* Nothing else is on its way to the vector of a level that is not served yet.
LEMMA LevelIsFirst ==
    ASSUME RegistrationIInv, TablesIInv, WalksIInv, NEW r \in Levels, ~Excused(r.vector)
    PROVE  /\ \A t \in Tokens : VectorOf(t) # r.vector
           /\ \E d \in pending : Listed(d, r.vector)
<1>1. PICK p \in Pins : /\ r = [pin |-> p, vector |-> redirection[p]] /\ Routed(p)
                        /\ \E d \in Asserting(p) : IoInterrupt[d].type = "pci"
                        /\ \A c \in ApicCpus : serving[c].index = 0 \/ serving[c].pin # p
  BY DEF Levels
<1>2. PICK v \in Vectors : v = redirection[p] /\ v = r.vector /\ p \in DOMAIN redirection
  BY <1>1 DEF Routed, RegistrationIInv, TablesTyped
<1>3. PICK d \in Asserting(p) : LevelTriggered(d)
  BY <1>1 DEF LevelTriggered
<1>4. d \in pending /\ d \in Devices /\ IsIoApicInterrupt(d) /\ Wire(d) = p /\ registration[d] = "done"
  BY <1>3 DEF Asserting, RegistrationIInv, TablesTyped, WalksIInv, DeliveryTyped
<1>5. Listed(d, v)
  BY <1>2, <1>4 DEF ForeignLine, Excused
<1>6. ~HasEdge(v)
  BY <1>2, <1>3, <1>4, <1>5 DEF HasEdge, TriggersMix, Excused
<1>7. ASSUME NEW t \in Tokens, VectorOf(t) = v
      PROVE  FALSE
  <2>1. CASE \E s \in requests : t = <<"request", s>> /\ VectorOf(t) = s.vector
    BY <1>2, <1>6, <1>7, <2>1 DEF WalksIInv, EdgesHaveDevices
  <2>2. CASE \E c \in ApicCpus : serving[c].index # 0 /\ VectorOf(t) = serving[c].vector
    <3>1. PICK c \in ApicCpus : serving[c].index # 0 /\ v = serving[c].vector
      BY <1>7, <2>2
    <3>2. serving[c].pin \in DOMAIN redirection /\ redirection[serving[c].pin] = v
      BY <1>2, <1>6, <3>1 DEF WalksIInv, ServedHavePins
    <3>3. serving[c].pin = p
      BY <1>2, <3>2 DEF RegistrationIInv, VectorsAreOwned
    <3> QED
      BY <1>1, <3>1, <3>3
  <2> QED
    BY <2>1, <2>2, TokenIs DEF WalksIInv
<1> QED
  BY <1>2, <1>4, <1>5, <1>7

LEMMA TakeLevelMatches ==
    ASSUME RegistrationIInv, TablesIInv, WalksIInv, UNCHANGED tableVars, UNCHANGED pending,
           NEW c \in ApicCpus, serving[c].index = 0, NEW r \in Levels,
           serving' = [serving EXCEPT ![c] = [vector |-> r.vector, index |-> 1, pin |-> r.pin]],
           requests' = requests
    PROVE  SomeoneClaims'
<1> DEFINE n == <<"cpu", c>>
<1>1. PICK f \in [DueTokens -> pending] : Matches(f)
  BY DEF WalksIInv, SomeoneClaims
<1>2. serving'[c] = [vector |-> r.vector, index |-> 1, pin |-> r.pin] /\ \A x \in ApicCpus : x # c => serving'[x] = serving[x]
  BY DEF WalksIInv, DeliveryTyped
<1>3. VectorOf(n)' = r.vector /\ TokenIndex(n)' = 1
  BY <1>2 DEF VectorOf, TokenIndex
<1>4. ASSUME NEW t \in DueTokens', t # n
      PROVE  t \in DueTokens /\ SameToken(t)
  <2>1. t \in Tokens /\ SameToken(t)
    <3>1. CASE \E s \in requests' : t = <<"request", s>>
      BY <3>1 DEF Tokens, SameToken, VectorOf, TokenIndex
    <3>2. CASE \E x \in ApicCpus : serving'[x].index # 0 /\ t = <<"cpu", x>>
      <4>1. PICK x \in ApicCpus : serving'[x].index # 0 /\ t = <<"cpu", x>> /\ x # c
        BY <1>4, <3>2
      <4>2. serving'[x] = serving[x]
        BY <1>2, <4>1
      <4> QED
        BY <4>1, <4>2 DEF Tokens, SameToken, VectorOf, TokenIndex
    <3> QED
      BY <1>4, <3>1, <3>2 DEF DueTokens, Tokens
  <2> QED
    BY <1>4, <2>1, StillAhead DEF DueTokens
<1>5. CASE Excused(r.vector)
  <2>1. Excused(r.vector)'
    BY <1>5, TablesAlone
  <2>2. n \notin DueTokens'
    BY <1>3, <2>1 DEF DueTokens, Excused, Silent, TriggersMix, ForeignLine
  <2>3. PICK g : g = [t \in DueTokens' |-> f[t]]
    OBVIOUS
  <2>4. g \in [DueTokens' -> pending'] /\ \A t \in DueTokens' : g[t] = f[t]
    BY <1>4, <2>2, <2>3
  <2>5. \A t \in DueTokens' : IsAhead(t, g[t])'
    BY <1>1, <1>4, <2>2, <2>4, StillAhead DEF Matches
  <2>6. Matches(g)'
    BY <1>1, <1>4, <2>2, <2>4, <2>5 DEF Matches
  <2> QED
    BY <2>4, <2>6 DEF SomeoneClaims
<1>6. CASE ~Excused(r.vector)
  <2>1. PICK d \in pending : Listed(d, r.vector)
    BY <1>6, LevelIsFirst
  <2>2. IsAhead(n, d)'
    BY <1>3, <2>1 DEF IsAhead, Listed, tableVars
  <2>3. ASSUME NEW t \in DueTokens, f[t] = d
        PROVE  FALSE
    <3>1. IsAhead(t, d) /\ t \in Tokens
      BY <1>1, <2>3 DEF Matches, DueTokens
    <3>2. VectorOf(t) \in Vectors /\ TokenIndex(t) \in Nat \ {0} /\ VectorOf(t) # r.vector
      BY <1>6, <3>1, TokenIs, LevelIsFirst DEF WalksIInv
    <3>3. r.vector \in Vectors
      BY DEF Levels, Routed, RegistrationIInv, TablesTyped
    <3>4. PICK u \in Vectors, k \in Nat \ {0} : u = VectorOf(t) /\ k = TokenIndex(t)
      BY <3>2
    <3>5. PICK i \in k .. Len(RegisteredInterrupts[u]) : RegisteredInterrupts[u][i] = d
      BY <3>1, <3>4 DEF IsAhead
    <3>6. PICK j \in 1 .. Len(RegisteredInterrupts[r.vector]) : RegisteredInterrupts[r.vector][j] = d
      BY <2>1 DEF Listed
    <3>7. i \in 1 .. Len(RegisteredInterrupts[u])
      BY <3>4, <3>5 DEF RegistrationIInv, TablesTyped
    <3>8. u = r.vector
      BY <3>3, <3>5, <3>6, <3>7 DEF TablesIInv, ListedOnce
    <3> QED
      BY <3>2, <3>4, <3>8
  <2>4. \A t \in DueTokens' : t = n \/ (t \in DueTokens /\ SameToken(t) /\ f[t] # d)
    BY <1>4, <2>3
  <2> QED
    BY <1>1, <2>1, <2>2, <2>4, MatchMore
<1> QED
  BY <1>5, <1>6

LEMMA TakeKeeps ==
    ASSUME RegistrationIInv, TablesIInv, WalksIInv, NEW c \in ApicCpus, TakeInterrupt(c)
    PROVE  WalksIInv'
<1>1. PICK r \in requests \cup Levels :
          /\ serving' = [serving EXCEPT ![c] = [vector |-> r.vector, index |-> 1, pin |-> r.pin]]
          /\ requests' = requests \ {r}
  BY DEF TakeInterrupt
<1>2. serving[c].index = 0 /\ UNCHANGED tableVars /\ UNCHANGED <<pending, unhandled>>
  BY DEF TakeInterrupt
<1>3. r.vector \in Vectors /\ r.pin \in Int
  <2>1. CASE r \in requests
    BY <2>1 DEF WalksIInv, DeliveryTyped
  <2>2. CASE r \in Levels
    <3>1. PICK p \in Pins : r = [pin |-> p, vector |-> redirection[p]] /\ p \in DOMAIN redirection
      BY <2>2 DEF Levels, Routed
    <3>2. redirection[p] \in Vectors /\ p \in Int
      BY <3>1, PinsAreNumbers DEF RegistrationIInv, TablesTyped
    <3> QED
      BY <3>1, <3>2
  <2> QED
    BY <2>1, <2>2
<1>4. PICK e \in [vector : Vectors, index : Nat, pin : Int] :
          e = [vector |-> r.vector, index |-> 1, pin |-> r.pin]
  <2>1. [vector |-> r.vector, index |-> 1, pin |-> r.pin] \in [vector : Vectors, index : Nat, pin : Int]
    BY <1>3
  <2> QED
    BY <2>1
<1>5. serving'[c] = e /\ \A x \in ApicCpus : x # c => serving'[x] = serving[x]
  BY <1>1, <1>4 DEF WalksIInv, DeliveryTyped
<1>6. \A v : (Excused(v)' <=> Excused(v)) /\ (HasEdge(v)' <=> HasEdge(v))
  BY <1>2, TablesAlone
<1>7. DeliveryTyped'
  <2>1. serving' \in [ApicCpus -> [vector : Vectors, index : Nat, pin : Int]]
    BY <1>1, <1>4 DEF WalksIInv, DeliveryTyped
  <2> QED
    BY <1>1, <1>2, <2>1 DEF WalksIInv, DeliveryTyped, tableVars
<1>8. EdgesHaveDevices'
  BY <1>1, <1>6 DEF WalksIInv, EdgesHaveDevices
<1>9. \/ Excused(r.vector) \/ HasEdge(r.vector)
      \/ r.pin \in DOMAIN redirection /\ redirection[r.pin] = r.vector
  <2>1. CASE r \in requests
    BY <2>1 DEF WalksIInv, EdgesHaveDevices
  <2>2. CASE r \in Levels
    BY <2>2 DEF Levels, Routed
  <2> QED
    BY <2>1, <2>2
<1>10. ServedHavePins'
  <2>1. ASSUME NEW x \in ApicCpus, serving'[x].index # 0
        PROVE  \/ Excused(serving[x].vector)' \/ HasEdge(serving[x].vector)'
               \/ serving'[x].pin \in DOMAIN redirection' /\ redirection'[serving'[x].pin] = serving'[x].vector
    <3>1. PICK v : v = serving'[x].vector
      OBVIOUS
    <3>2. \/ Excused(v) \/ HasEdge(v)
          \/ serving'[x].pin \in DOMAIN redirection /\ redirection[serving'[x].pin] = v
      <4>1. CASE x = c
        BY <1>4, <1>5, <1>9, <3>1, <4>1
      <4>2. CASE x # c
        BY <1>5, <2>1, <3>1, <4>2 DEF WalksIInv, ServedHavePins
      <4> QED
        BY <4>1, <4>2
    <3>3. \/ Excused(v)' \/ HasEdge(v)'
          \/ serving'[x].pin \in DOMAIN redirection' /\ redirection'[serving'[x].pin] = v
      BY <1>2, <1>6, <3>2 DEF tableVars
    <3> QED
      BY <3>1, <3>3 DEF Excused, Silent, TriggersMix, ForeignLine, HasEdge
  <2> QED
    BY <2>1 DEF ServedHavePins
<1>11. UnhandledAreExcused'
  BY <1>2, <1>6 DEF WalksIInv, UnhandledAreExcused
<1>12. SomeoneClaims'
  <2>1. CASE r \in requests
    BY <1>1, <1>2, <2>1, TakeRequestMatches
  <2>2. CASE r \notin requests
    <3>1. r \in Levels /\ requests' = requests
      BY <1>1, <2>2
    <3> QED
      BY <1>1, <1>2, <3>1, TakeLevelMatches
  <2> QED
    BY <2>1, <2>2
<1> QED
  BY <1>7, <1>8, <1>10, <1>11, <1>12 DEF WalksIInv

\* One handler is called: if it claims the interrupt, a walk that counted on its device counts
\* on the device of the walk that ends; if it does not, that device is further ahead.
LEMMA OtherTokens ==
    ASSUME DeliveryTyped, UNCHANGED tableVars, UNCHANGED requests, NEW c \in ApicCpus, NEW e,
           serving' = [serving EXCEPT ![c] = e], NEW t \in DueTokens', t # <<"cpu", c>>
    PROVE  t \in DueTokens /\ SameToken(t)
<1>1. \A x \in ApicCpus : x # c => serving'[x] = serving[x]
  BY DEF DeliveryTyped
<1>2. t \in Tokens /\ SameToken(t)
  <2>1. CASE \E s \in requests' : t = <<"request", s>>
    BY <2>1 DEF Tokens, SameToken, VectorOf, TokenIndex
  <2>2. CASE \E x \in ApicCpus : serving'[x].index # 0 /\ t = <<"cpu", x>>
    <3>1. PICK x \in ApicCpus : serving'[x].index # 0 /\ t = <<"cpu", x>> /\ x # c
      BY <2>2
    <3>2. serving'[x] = serving[x]
      BY <1>1, <3>1
    <3> QED
      BY <3>1, <3>2 DEF Tokens, SameToken, VectorOf, TokenIndex
  <2> QED
    BY <2>1, <2>2 DEF DueTokens, Tokens
<1> QED
  BY <1>2, StillAhead DEF DueTokens

LEMMA ClaimMatches ==
    ASSUME RegistrationIInv, TablesIInv, WalksIInv, NEW c \in ApicCpus, CallHandler(c),
           serving' = [serving EXCEPT ![c] = ServesNothing],
           NEW v \in Vectors, v = serving[c].vector, NEW i \in 1 .. Len(RegisteredInterrupts[v]),
           i = serving[c].index, NEW d, d = RegisteredInterrupts[v][i], pending' = pending \ {d}
    PROVE  SomeoneClaims'
<1> DEFINE n == <<"cpu", c>>
<1>1. PICK f \in [DueTokens -> pending] : Matches(f)
  BY DEF WalksIInv, SomeoneClaims
<1>2. UNCHANGED tableVars /\ UNCHANGED requests
  BY DEF CallHandler
<1>3. \A t \in DueTokens' : t # n => t \in DueTokens /\ SameToken(t)
  BY <1>2, OtherTokens DEF WalksIInv
<1>4. n \notin DueTokens'
  <2>1. serving'[c].index = 0
    BY DEF WalksIInv, DeliveryTyped, ServesNothing
  <2> QED
    BY <2>1 DEF DueTokens, Tokens
<1>5. i \in Nat \ {0} /\ n \in Tokens /\ VectorOf(n) = v /\ TokenIndex(n) = i
  <2>1. i \in Nat \ {0}
    BY DEF RegistrationIInv, TablesTyped
  <2> QED
    BY <2>1 DEF Tokens, VectorOf, TokenIndex
<1>6. ASSUME NEW t \in DueTokens, f[t] = d
      PROVE  VectorOf(t) = v /\ TokenIndex(t) \in Nat \ {0} /\ TokenIndex(t) <= i /\ n \in DueTokens
  <2>1. IsAhead(t, d) /\ t \in Tokens /\ ~Excused(VectorOf(t))
    BY <1>1, <1>6 DEF Matches, DueTokens
  <2>2. PICK u \in Vectors, k \in Nat \ {0} : u = VectorOf(t) /\ k = TokenIndex(t)
    BY <2>1, TokenIs DEF WalksIInv
  <2>3. PICK j \in k .. Len(RegisteredInterrupts[u]) : RegisteredInterrupts[u][j] = d
    BY <2>1, <2>2 DEF IsAhead
  <2>4. j \in 1 .. Len(RegisteredInterrupts[u]) /\ k <= j
    BY <2>2, <2>3 DEF RegistrationIInv, TablesTyped
  <2>5. u = v /\ j = i
    BY <2>3, <2>4 DEF TablesIInv, ListedOnce
  <2> QED
    BY <1>5, <2>1, <2>2, <2>4, <2>5 DEF DueTokens
<1>7. PICK g : g = [t \in DueTokens' |-> IF f[t] = d THEN f[n] ELSE f[t]]
  OBVIOUS
<1>8. ASSUME NEW t \in DueTokens'
      PROVE  g[t] \in pending' /\ IsAhead(t, g[t])'
  <2>1. t \in DueTokens /\ SameToken(t) /\ t # n
    BY <1>3, <1>4, <1>8
  <2>2. CASE f[t] = d
    <3>1. n \in DueTokens /\ g[t] = f[n] /\ f[n] # d
      BY <1>1, <1>6, <1>7, <1>8, <2>1, <2>2 DEF Matches
    <3>2. IsAhead(n, f[n])
      BY <1>1, <3>1 DEF Matches
    <3>3. PICK j \in i .. Len(RegisteredInterrupts[v]) : RegisteredInterrupts[v][j] = f[n]
      BY <1>5, <3>2 DEF IsAhead
    <3>4. VectorOf(t) = v /\ TokenIndex(t) \in Nat \ {0} /\ TokenIndex(t) <= i
      BY <1>6, <2>1, <2>2
    <3>5. j \in TokenIndex(t) .. Len(RegisteredInterrupts[v])
      BY <3>3, <3>4 DEF RegistrationIInv, TablesTyped
    <3>6. IsAhead(t, f[n])
      BY <3>3, <3>4, <3>5 DEF IsAhead
    <3>7. IsAhead(t, f[n])'
      BY <1>2, <2>1, <3>6, StillAhead
    <3> QED
      BY <3>1, <3>7
  <2>3. CASE f[t] # d
    <3>1. g[t] = f[t] /\ f[t] \in pending'
      BY <1>7, <1>8, <2>1, <2>3
    <3>2. IsAhead(t, f[t])'
      BY <1>1, <1>2, <2>1, StillAhead DEF Matches
    <3> QED
      BY <3>1, <3>2
  <2> QED
    BY <2>2, <2>3
<1>9. ASSUME NEW s \in DueTokens', NEW t \in DueTokens', g[s] = g[t]
      PROVE  s = t
  <2>1. s \in DueTokens /\ t \in DueTokens /\ s # n /\ t # n
    BY <1>3, <1>4
  <2>2. (f[s] = d \/ f[t] = d) => n \in DueTokens
    BY <1>6, <2>1
  <2> QED
    BY <1>1, <1>7, <1>9, <2>1, <2>2 DEF Matches
<1>10. g \in [DueTokens' -> pending']
  BY <1>7, <1>8
<1>11. Matches(g)'
  BY <1>8, <1>9 DEF Matches
<1> QED
  BY <1>10, <1>11 DEF SomeoneClaims

LEMMA AdvanceMatches ==
    ASSUME RegistrationIInv, TablesIInv, WalksIInv, NEW c \in ApicCpus, CallHandler(c),
           serving' = [serving EXCEPT ![c] = Advanced(serving[c])], pending' = pending,
           NEW v \in Vectors, v = serving[c].vector, NEW i \in 1 .. Len(RegisteredInterrupts[v]),
           i = serving[c].index, ~Claims(RegisteredInterrupts[v][i])
    PROVE  SomeoneClaims'
<1> DEFINE n == <<"cpu", c>>
           d == RegisteredInterrupts[v][i]
<1>1. PICK f \in [DueTokens -> pending] : Matches(f)
  BY DEF WalksIInv, SomeoneClaims
<1>2. UNCHANGED tableVars /\ UNCHANGED requests
  BY DEF CallHandler
<1>3. \A t \in DueTokens' : t # n => t \in DueTokens /\ SameToken(t)
  BY <1>2, OtherTokens DEF WalksIInv
<1>4. i \in Nat \ {0} /\ n \in Tokens /\ VectorOf(n) = v /\ TokenIndex(n) = i /\ d \in Devices
  <2>1. i \in Nat \ {0} /\ d \in Devices
    BY DEF RegistrationIInv, TablesTyped
  <2> QED
    BY <2>1 DEF Tokens, VectorOf, TokenIndex
<1>5. VectorOf(n)' = v /\ TokenIndex(n)' = i + 1
  <2>1. serving'[c] = [serving[c] EXCEPT !.index = @ + 1]
    BY DEF WalksIInv, DeliveryTyped, Advanced
  <2>2. serving[c] \in [vector : Vectors, index : Nat, pin : Int]
    BY DEF WalksIInv, DeliveryTyped
  <2>3. serving'[c].vector = v /\ serving'[c].index = i + 1
    BY <2>1, <2>2
  <2> QED
    BY <2>3 DEF VectorOf, TokenIndex
<1>6. n \in DueTokens' => n \in DueTokens
  <2>1. Excused(v)' <=> Excused(v)
    BY <1>2, TablesAlone
  <2>2. n \in DueTokens' => ~Excused(v)'
    BY <1>5 DEF DueTokens, Excused, Silent, TriggersMix, ForeignLine
  <2> QED
    BY <1>4, <2>1, <2>2 DEF DueTokens
<1>7. ASSUME n \in DueTokens'
      PROVE  IsAhead(n, f[n])'
  <2>1. IsAhead(n, f[n]) /\ f[n] \in pending
    BY <1>1, <1>6, <1>7 DEF Matches
  <2>2. PICK j \in i .. Len(RegisteredInterrupts[v]) : RegisteredInterrupts[v][j] = f[n]
    BY <1>4, <2>1 DEF IsAhead
  <2>3. d \notin pending
    <3>1. ~Excused(v)
      BY <1>4, <1>6, <1>7 DEF DueTokens
    <3>2. IoInterrupt[d].claims # "never"
      BY <1>4, <3>1 DEF Excused, Silent, Listed
    <3>3. IoInterrupt[d].claims = "own"
      BY <1>4, <3>2, InterruptAssumption DEF Claims
    <3> QED
      BY <3>3 DEF Claims
  <2>4. j # i
    BY <2>1, <2>2, <2>3
  <2>5. j \in i + 1 .. Len(RegisteredInterrupts[v])
    BY <1>4, <2>2, <2>4 DEF RegistrationIInv, TablesTyped
  <2>6. RegisteredInterrupts' = RegisteredInterrupts
    BY <1>2 DEF tableVars
  <2> QED
    BY <1>5, <2>2, <2>5, <2>6 DEF IsAhead
<1>8. PICK g : g = [t \in DueTokens' |-> f[t]]
  OBVIOUS
<1>9. \A t \in DueTokens' : t \in DueTokens /\ g[t] = f[t]
  BY <1>3, <1>6, <1>8
<1>10. ASSUME NEW t \in DueTokens'
       PROVE  IsAhead(t, g[t])'
  <2>1. CASE t = n
    BY <1>7, <1>9, <1>10, <2>1
  <2>2. CASE t # n
    <3>1. t \in DueTokens /\ SameToken(t) /\ g[t] = f[t]
      BY <1>3, <1>9, <1>10, <2>2
    <3> QED
      BY <1>1, <1>2, <3>1, StillAhead DEF Matches
  <2> QED
    BY <2>1, <2>2
<1>11. g \in [DueTokens' -> pending']
  BY <1>8, <1>9
<1>12. Matches(g)'
  BY <1>1, <1>9, <1>10 DEF Matches
<1> QED
  BY <1>11, <1>12 DEF SomeoneClaims

LEMMA CallKeeps ==
    ASSUME RegistrationIInv, TablesIInv, WalksIInv, NEW c \in ApicCpus, CallHandler(c)
    PROVE  WalksIInv'
<1>1. PICK v \in Vectors : v = serving[c].vector
  BY DEF WalksIInv, DeliveryTyped
<1>2. PICK i \in 1 .. Len(RegisteredInterrupts[v]) : i = serving[c].index
  BY <1>1 DEF CallHandler
<1>3. PICK d : d = RegisteredInterrupts[v][i]
  OBVIOUS
<1>4. /\ pending' = IF Claims(d) THEN pending \ {d} ELSE pending
      /\ serving' = [serving EXCEPT ![c] = IF Claims(d) THEN ServesNothing ELSE Advanced(serving[c])]
      /\ UNCHANGED tableVars /\ UNCHANGED <<requests, unhandled>>
  BY <1>1, <1>2, <1>3 DEF CallHandler
<1>5. \A u : (Excused(u)' <=> Excused(u)) /\ (HasEdge(u)' <=> HasEdge(u))
  BY <1>4, TablesAlone
<1>6. serving[c] \in [vector : Vectors, index : Nat, pin : Int] /\ i \in Nat \ {0}
  BY <1>2 DEF WalksIInv, DeliveryTyped, RegistrationIInv, TablesTyped
<1>7. /\ ServesNothing \in [vector : Vectors, index : Nat, pin : Int] /\ ServesNothing.index = 0
      /\ Advanced(serving[c]) \in [vector : Vectors, index : Nat, pin : Int]
      /\ Advanced(serving[c]).vector = v /\ Advanced(serving[c]).pin = serving[c].pin
  BY <1>1, <1>6, ZeroIsVector DEF ServesNothing, Advanced
<1>8. /\ serving' \in [ApicCpus -> [vector : Vectors, index : Nat, pin : Int]]
      /\ \A x \in ApicCpus : x # c => serving'[x] = serving[x]
      /\ serving'[c].index # 0 => serving'[c].vector = v /\ serving'[c].pin = serving[c].pin
  <2>1. PICK e \in [vector : Vectors, index : Nat, pin : Int] :
            /\ e = IF Claims(d) THEN ServesNothing ELSE Advanced(serving[c])
            /\ e.index # 0 => e.vector = v /\ e.pin = serving[c].pin
    BY <1>7
  <2>2. serving' = [serving EXCEPT ![c] = e]
    BY <1>4, <2>1
  <2> QED
    BY <2>1, <2>2 DEF WalksIInv, DeliveryTyped
<1>9. DeliveryTyped'
  BY <1>1, <1>4, <1>8 DEF WalksIInv, DeliveryTyped, tableVars
<1>10. EdgesHaveDevices'
  BY <1>4, <1>5 DEF WalksIInv, EdgesHaveDevices
<1>11. ServedHavePins'
  <2>1. ASSUME NEW x \in ApicCpus, serving'[x].index # 0
        PROVE  \/ Excused(serving[x].vector)' \/ HasEdge(serving[x].vector)'
               \/ serving'[x].pin \in DOMAIN redirection' /\ redirection'[serving'[x].pin] = serving'[x].vector
    <3>1. serving[x].index # 0 /\ serving'[x].vector = serving[x].vector /\ serving'[x].pin = serving[x].pin
      BY <1>1, <1>2, <1>6, <1>8, <2>1
    <3>2. PICK u : u = serving[x].vector
      OBVIOUS
    <3>3. \/ Excused(u) \/ HasEdge(u)
          \/ serving[x].pin \in DOMAIN redirection /\ redirection[serving[x].pin] = u
      BY <3>1, <3>2 DEF WalksIInv, ServedHavePins
    <3>4. Excused(u)' \/ HasEdge(u)' \/ (serving[x].pin \in DOMAIN redirection' /\ redirection'[serving[x].pin] = u)
      BY <1>4, <1>5, <3>3 DEF tableVars
    <3>5. serving'[x].vector = u
      BY <3>1, <3>2
    <3> QED
      BY <3>1, <3>4, <3>5 DEF Excused, Silent, TriggersMix, ForeignLine, HasEdge
  <2> QED
    BY <2>1 DEF ServedHavePins
<1>12. UnhandledAreExcused'
  BY <1>4, <1>5 DEF WalksIInv, UnhandledAreExcused
<1>13. SomeoneClaims'
  <2>1. CASE Claims(d)
    BY <1>1, <1>2, <1>3, <1>4, <2>1, ClaimMatches
  <2>2. CASE ~Claims(d)
    BY <1>1, <1>2, <1>3, <1>4, <2>2, AdvanceMatches
  <2> QED
    BY <2>1, <2>2
<1> QED
  BY <1>9, <1>10, <1>11, <1>12, <1>13 DEF WalksIInv

\* Behind the end of a list nobody is ahead.
LEMMA UnhandledKeeps ==
    ASSUME RegistrationIInv, TablesIInv, WalksIInv, NEW c \in ApicCpus, Unhandled(c)
    PROVE  WalksIInv'
<1> DEFINE n == <<"cpu", c>>
<1>1. UNCHANGED tableVars /\ UNCHANGED <<pending, requests, serving>>
  BY DEF Unhandled
<1>2. unhandled' = unhandled \cup {serving[c].vector}
  BY DEF Unhandled
<1>3. \A u : (Excused(u)' <=> Excused(u)) /\ (HasEdge(u)' <=> HasEdge(u))
  BY <1>1, TablesAlone
<1>4. serving[c].index # 0 /\ serving[c].vector \in Vectors
  <2>2. serving[c] \in [vector : Vectors, index : Nat, pin : Int]
    BY DEF WalksIInv, DeliveryTyped
  <2>3. serving[c].vector \in Vectors
    BY <2>2
  <2>4. Len(RegisteredInterrupts[serving[c].vector]) \in Nat
    BY <2>3 DEF RegistrationIInv, TablesTyped
  <2> QED
    BY <2>2, <2>3, <2>4 DEF Unhandled
<1>5. PICK v \in Vectors, k \in Nat \ {0} : v = serving[c].vector /\ k = serving[c].index
  BY <1>4 DEF WalksIInv, DeliveryTyped
<1>6. Excused(v)
  <2> SUFFICES ASSUME ~Excused(v) PROVE FALSE
    OBVIOUS
  <2>1. n \in Tokens /\ VectorOf(n) = v /\ TokenIndex(n) = k
    BY <1>4, <1>5 DEF Tokens, VectorOf, TokenIndex
  <2>2. PICK f \in [DueTokens -> pending] : Matches(f)
    BY DEF WalksIInv, SomeoneClaims
  <2>3. IsAhead(n, f[n])
    BY <2>1, <2>2 DEF Matches, DueTokens
  <2>4. k > Len(RegisteredInterrupts[v]) /\ Len(RegisteredInterrupts[v]) \in Nat
    BY <1>5 DEF Unhandled, RegistrationIInv, TablesTyped
  <2> QED
    BY <2>1, <2>3, <2>4 DEF IsAhead
<1>7. DeliveryTyped'
  BY <1>1, <1>2, <1>4 DEF WalksIInv, DeliveryTyped, tableVars
<1>8. EdgesHaveDevices'
  BY <1>1, <1>3 DEF WalksIInv, EdgesHaveDevices
<1>9. ServedHavePins'
  BY <1>1, <1>3 DEF WalksIInv, ServedHavePins, tableVars
<1>10. UnhandledAreExcused'
  BY <1>2, <1>3, <1>5, <1>6 DEF WalksIInv, UnhandledAreExcused
<1>11. SomeoneClaims'
  <2>1. Tokens' = Tokens /\ \A t : SameToken(t)
    BY <1>1 DEF Tokens, SameToken, VectorOf, TokenIndex
  <2>2. PICK f \in [DueTokens -> pending] : Matches(f)
    BY DEF WalksIInv, SomeoneClaims
  <2>3. \A t \in DueTokens' : t \in DueTokens
    BY <1>1, <2>1, StillAhead DEF DueTokens
  <2>4. PICK g : g = [t \in DueTokens' |-> f[t]]
    OBVIOUS
  <2>5. g \in [DueTokens' -> pending'] /\ \A t \in DueTokens' : g[t] = f[t]
    BY <1>1, <2>3, <2>4
  <2>6. \A t \in DueTokens' : IsAhead(t, g[t])'
    BY <1>1, <2>1, <2>2, <2>3, <2>5, StillAhead DEF Matches
  <2>7. Matches(g)'
    BY <2>2, <2>3, <2>5, <2>6 DEF Matches
  <2> QED
    BY <2>5, <2>7 DEF SomeoneClaims
<1> QED
  BY <1>7, <1>8, <1>9, <1>10, <1>11 DEF WalksIInv

\* The tables of registrations that have been made.
LEMMA ListsDoNotChange ==
    ASSUME RegistrationIInv, TablesIInv, UNCHANGED RegisteredInterrupts, TablesGrow,
           \A x \in Devices : registration[x] = "done" => registration'[x] = "done"
    PROVE  ListsGrow
BY DEF ListsGrow, Listed

LEMMA LateInitKeepsClaims == ASSUME RegistrationIInv, TablesIInv, WalksIInv, LateInit PROVE TablesIInv' /\ WalksIInv'
<1>1. ~OverridesLost /\ UNCHANGED <<tableVars, deliveryVars>>
  BY DEF RegistrationIInv, OverridesIntact, LateInit
<1>2. TablesGrow
  BY <1>1 DEF TablesGrow, tableVars, Listed
<1>3. ListsGrow
  BY <1>1, <1>2, ListsDoNotChange DEF tableVars
<1>4. WalksIInv'
  BY <1>1, <1>3, GrowthKeepsWalks DEF RegistrationIInv
<1>5. TablesIInv'
  BY <1>1 DEF TablesIInv, ListedOnce, ListedLater, MessagesListed, Listed, tableVars
<1> QED
  BY <1>4, <1>5

\* What the insertion of a handler changes.
InsertionMade(d, v, routed, list) ==
    /\ list = RegisteredInterrupts[v] /\ registration[d] = "insert"
    /\ [device |-> d, vector |-> v, routed |-> routed] \in registering
    /\ UNCHANGED <<InterruptBitmap, redirection, msi, apicVars, deliveryVars>>
    /\ \/ /\ UNCHANGED RegisteredInterrupts
          /\ registration' = [registration EXCEPT ![d] = "failed"] /\ registering' = {}
       \/ /\ RegisteredInterrupts' = [RegisteredInterrupts EXCEPT ![v] = Append(list, d)]
          /\ registration' = [registration EXCEPT ![d] = "route"]
          /\ registering' = {[device |-> d, vector |-> v, routed |-> routed \/ list # <<>>]}

LEMMA InsertionChanges ==
    ASSUME RegistrationIInv, NEW d \in Devices, InsertEntry(d)
    PROVE  \E v \in Vectors : \E routed \in BOOLEAN : \E list \in Seq(Devices) :
               InsertionMade(d, v, routed, list)
<1>1. PICK r \in registering :
          /\ r.device = d /\ registration[d] = "insert"
          /\ \/ Fails(d) /\ UNCHANGED RegisteredInterrupts
             \/ /\ RegisteredInterrupts' = [RegisteredInterrupts EXCEPT ![r.vector] = Append(@, d)]
                /\ registration' = [registration EXCEPT ![d] = "route"]
                /\ registering' = {[r EXCEPT !.routed = @ \/ RegisteredInterrupts[r.vector] # <<>>]}
          /\ UNCHANGED <<InterruptBitmap, redirection, msi, apicVars, deliveryVars>>
  BY DEF InsertEntry
<1>2. PICK v \in Vectors, routed \in BOOLEAN, list \in Seq(Devices) :
          v = r.vector /\ routed = r.routed /\ list = RegisteredInterrupts[v]
          /\ r = [device |-> d, vector |-> v, routed |-> routed]
  BY <1>1 DEF RegistrationIInv, TablesTyped
<1>3. [r EXCEPT !.routed = @ \/ list # <<>>] = [device |-> d, vector |-> v, routed |-> routed \/ list # <<>>]
  BY <1>2
<1>4. CASE Fails(d) /\ UNCHANGED RegisteredInterrupts
  BY <1>1, <1>2, <1>4 DEF InsertionMade, Fails
<1>5. CASE /\ RegisteredInterrupts' = [RegisteredInterrupts EXCEPT ![v] = Append(list, d)]
           /\ registration' = [registration EXCEPT ![d] = "route"]
           /\ registering' = {[r EXCEPT !.routed = @ \/ list # <<>>]}
  <2>1. registering' = {[device |-> d, vector |-> v, routed |-> routed \/ list # <<>>]}
    BY <1>3, <1>5
  <2>2. InsertionMade(d, v, routed, list)
    BY <1>1, <1>2, <1>5, <2>1 DEF InsertionMade
  <2> QED
    BY <2>2
<1> QED
  BY <1>1, <1>2, <1>4, <1>5

\* The lists behind an insertion.
LEMMA InsertionGrows ==
    ASSUME RegistrationIInv, TablesIInv, NEW d \in Devices, NEW v \in Vectors, NEW routed \in BOOLEAN,
           NEW list \in Seq(Devices), InsertionMade(d, v, routed, list)
    PROVE  /\ ListsGrow /\ TablesIInv'
           /\ \A x \in Devices, u \in Vectors : Listed(x, u)' => Listed(x, u) \/ (x = d /\ u = v)
           /\ registration'[d] = "route" => Listed(d, v)'
<1>0. /\ RegisteredInterrupts \in [Vectors -> Seq(Devices)]
      /\ registration \in [Devices -> {"none", "insert", "route", "done", "failed"}]
  BY DEF RegistrationIInv, TablesTyped
<1>1. /\ registration[d] = "insert" /\ \A u \in Vectors : ~Listed(d, u)
      /\ UNCHANGED <<InterruptBitmap, redirection, msi, apicVars>>
  BY DEF InsertionMade, TablesIInv, ListedLater
<1>2. CASE /\ UNCHANGED RegisteredInterrupts
           /\ registration' = [registration EXCEPT ![d] = "failed"]
  <2>1. \A x \in Devices, u \in Vectors : Listed(x, u)' <=> Listed(x, u)
    BY <1>2 DEF Listed
  <2>2. TablesGrow
    BY <1>1, <2>1 DEF TablesGrow, OverridesLost, apicVars
  <2>3. registration'[d] = "failed" /\ \A x \in Devices : x # d => registration'[x] = registration[x]
    BY <1>0, <1>2
  <2>4. ListsGrow
    BY <1>1, <1>2, <2>2, <2>3, ListsDoNotChange
  <2>5. TablesIInv'
    BY <1>1, <1>2, <2>1, <2>3 DEF TablesIInv, ListedOnce, ListedLater, MessagesListed, Listed
  <2> QED
    BY <2>1, <2>3, <2>4, <2>5
<1>3. CASE /\ RegisteredInterrupts' = [RegisteredInterrupts EXCEPT ![v] = Append(list, d)]
           /\ registration' = [registration EXCEPT ![d] = "route"]
  <2>1. PICK long \in Seq(Devices) :
            /\ long = Append(list, d) /\ Len(long) = Len(list) + 1 /\ Len(list) \in Nat
            /\ \A i \in 1 .. Len(list) : long[i] = list[i]
            /\ long[Len(list) + 1] = d
    BY AppendedDevice
  <2>2. /\ RegisteredInterrupts'[v] = long /\ RegisteredInterrupts[v] = list
        /\ \A u \in Vectors : u # v => RegisteredInterrupts'[u] = RegisteredInterrupts[u]
    BY <1>0, <1>3, <2>1 DEF InsertionMade
  <2>3. registration'[d] = "route" /\ \A x \in Devices : x # d => registration'[x] = registration[x]
    BY <1>0, <1>3
  <2>4. \A u \in Vectors : \A i \in 1 .. Len(RegisteredInterrupts[u]) :
            i \in 1 .. Len(RegisteredInterrupts'[u]) /\ RegisteredInterrupts'[u][i] = RegisteredInterrupts[u][i]
    <3>1. ASSUME NEW i \in 1 .. Len(list)
          PROVE  i \in 1 .. Len(long) /\ long[i] = list[i]
      BY <2>1
    <3> QED
      BY <2>2, <3>1
  <2>5. ASSUME NEW u \in Vectors, NEW i \in 1 .. Len(RegisteredInterrupts'[u])
        PROVE  \/ i \in 1 .. Len(RegisteredInterrupts[u]) /\ RegisteredInterrupts'[u][i] = RegisteredInterrupts[u][i]
               \/ u = v /\ i = Len(list) + 1 /\ RegisteredInterrupts'[u][i] = d
    <3>1. CASE u = v /\ i # Len(list) + 1
      <4>1. i \in 1 .. Len(list)
        BY <2>1, <2>2, <2>5, <3>1
      <4> QED
        BY <2>1, <2>2, <3>1, <4>1
    <3>2. CASE u = v /\ i = Len(list) + 1
      BY <2>1, <2>2, <3>2
    <3>3. CASE u # v
      BY <2>2, <2>5, <3>3
    <3> QED
      BY <3>1, <3>2, <3>3
  <2>6. \A x \in Devices, u \in Vectors : Listed(x, u) => Listed(x, u)'
    BY <2>4 DEF Listed
  <2>7. \A x \in Devices, u \in Vectors : Listed(x, u)' => Listed(x, u) \/ (x = d /\ u = v)
    BY <2>5 DEF Listed
  <2>8. Listed(d, v)'
    <3>1. Len(list) + 1 \in 1 .. Len(long)
      BY <2>1
    <3> QED
      BY <2>1, <2>2, <3>1 DEF Listed
  <2>9. TablesGrow
    BY <1>1, <2>6 DEF TablesGrow, OverridesLost, apicVars
  <2>10. ListsGrow
    BY <1>1, <2>3, <2>4, <2>7, <2>9 DEF ListsGrow
  <2>11. ListedOnce'
    <3>1. ASSUME NEW u \in Vectors, NEW w \in Vectors, NEW i \in 1 .. Len(RegisteredInterrupts'[u]),
                 NEW j \in 1 .. Len(RegisteredInterrupts'[w]), RegisteredInterrupts'[u][i] = RegisteredInterrupts'[w][j]
          PROVE  u = w /\ i = j
      <4>1. \A y \in Vectors : \A k \in 1 .. Len(RegisteredInterrupts[y]) : RegisteredInterrupts[y][k] # d
        BY <1>1 DEF Listed
      <4>2. CASE u = v /\ i = Len(list) + 1 /\ RegisteredInterrupts'[u][i] = d
        <5>1. ASSUME j \in 1 .. Len(RegisteredInterrupts[w]), RegisteredInterrupts'[w][j] = RegisteredInterrupts[w][j]
              PROVE  FALSE
          BY <3>1, <4>1, <4>2, <5>1
        <5>2. w = v /\ j = Len(list) + 1
          BY <2>5, <3>1, <5>1
        <5> QED
          BY <4>2, <5>2
      <4>3. CASE i \in 1 .. Len(RegisteredInterrupts[u]) /\ RegisteredInterrupts'[u][i] = RegisteredInterrupts[u][i]
        <5>1. j \in 1 .. Len(RegisteredInterrupts[w]) /\ RegisteredInterrupts'[w][j] = RegisteredInterrupts[w][j]
          <6>1. RegisteredInterrupts'[w][j] # d
            BY <3>1, <4>1, <4>3
          <6> QED
            BY <2>5, <3>1, <6>1
        <5> QED
          <6>1. RegisteredInterrupts[u][i] = RegisteredInterrupts[w][j]
            BY <3>1, <4>3, <5>1
          <6>2. ListedOnce
            BY DEF TablesIInv
          <6> QED
            BY <3>1, <4>3, <5>1, <6>1, <6>2 DEF ListedOnce
      <4> QED
        BY <2>5, <4>2, <4>3
    <3> QED
      BY <3>1 DEF ListedOnce
  <2>12. ListedLater'
    <3>1. ASSUME NEW x \in Devices, registration'[x] \in {"none", "insert"}, NEW u \in Vectors
          PROVE  ~Listed(x, u)'
      BY <2>3, <2>7, <3>1 DEF TablesIInv, ListedLater
    <3> QED
      BY <3>1 DEF ListedLater
  <2>13. MessagesListed'
    <3>1. ASSUME NEW x \in DOMAIN msi'
          PROVE  ~IsIoApicInterrupt(x) /\ Listed(x, msi[x])'
      <4>1. x \in Devices /\ msi'[x] = msi[x] /\ x \in DOMAIN msi
        BY <1>1, <3>1 DEF RegistrationIInv, TablesTyped
      <4>2. PICK u \in Vectors : u = msi[x]
        BY <4>1 DEF RegistrationIInv, TablesTyped
      <4>3. ~IsIoApicInterrupt(x) /\ Listed(x, u)
        BY <4>1, <4>2 DEF TablesIInv, MessagesListed
      <4>4. Listed(x, u)'
        BY <2>6, <4>1, <4>3
      <4> QED
        BY <4>1, <4>2, <4>3, <4>4 DEF Listed
    <3> QED
      BY <3>1 DEF MessagesListed
  <2> QED
    BY <2>7, <2>8, <2>10, <2>11, <2>12, <2>13 DEF TablesIInv
<1> QED
  BY <1>2, <1>3 DEF InsertionMade

\* How a registration ends: what Route changes.
RouteMade(d, v, routed) ==
    /\ [device |-> d, vector |-> v, routed |-> routed] \in registering
    /\ registration[d] = "route" /\ registering' = {}
    /\ UNCHANGED <<InterruptBitmap, RegisteredInterrupts, m_isrRoutines, apicVars, deliveryVars>>
    /\ registration' \in {[registration EXCEPT ![d] = "done"], [registration EXCEPT ![d] = "failed"]}
    /\ \/ UNCHANGED msi
       \/ ~IsIoApicInterrupt(d) /\ msi' = [x \in DOMAIN msi \cup {d} |-> IF x = d THEN v ELSE msi[x]]
    /\ \/ UNCHANGED redirection /\ (IsIoApicInterrupt(d) /\ ~routed => registration' = [registration EXCEPT ![d] = "failed"])
       \/ \E pin \in PinsForIrq(IoInterrupt[d].irq) \ DOMAIN redirection :
              /\ IsIoApicInterrupt(d) /\ ~routed
              /\ redirection' = [p \in DOMAIN redirection \cup {pin} |-> IF p = pin THEN v ELSE redirection[p]]

LEMMA RouteChanges ==
    ASSUME RegistrationIInv, NEW d \in Devices, Route(d)
    PROVE  \E v \in Vectors : \E routed \in BOOLEAN : RouteMade(d, v, routed)
<1>1. PICK r \in registering :
          /\ r.device = d /\ registration[d] = "route"
          /\ CASE ~IsIoApicInterrupt(d) -> RouteMessage(d, r.vector) /\ UNCHANGED redirection
               [] IsIoApicInterrupt(d) /\ ~r.routed -> IoApicSystemSetInterrupt(d, r.vector) /\ UNCHANGED msi
               [] OTHER -> Succeeds(d) /\ UNCHANGED <<redirection, msi>>
          /\ UNCHANGED <<InterruptBitmap, RegisteredInterrupts, m_isrRoutines, apicVars, deliveryVars>>
  BY DEF Route
<1>2. PICK v \in Vectors, routed \in BOOLEAN :
          v = r.vector /\ routed = r.routed /\ r = [device |-> d, vector |-> v, routed |-> routed]
  BY <1>1 DEF RegistrationIInv, TablesTyped
<1>3. CASE ~IsIoApicInterrupt(d)
  <2>1. RouteMessage(d, v) /\ UNCHANGED redirection
    BY <1>1, <1>2, <1>3
  <2>2. RouteMade(d, v, routed)
    BY <1>1, <1>2, <1>3, <2>1 DEF RouteMade, RouteMessage, Succeeds, Fails
  <2> QED
    BY <2>2
<1>4. CASE IsIoApicInterrupt(d) /\ ~routed
  <2>1. IoApicSystemSetInterrupt(d, v) /\ UNCHANGED msi
    BY <1>1, <1>2, <1>4
  <2>2. RouteMade(d, v, routed)
    BY <1>1, <1>2, <1>4, <2>1 DEF RouteMade, IoApicSystemSetInterrupt, Succeeds, Fails
  <2> QED
    BY <2>2
<1>5. CASE IsIoApicInterrupt(d) /\ routed
  <2>1. Succeeds(d) /\ UNCHANGED <<redirection, msi>>
    BY <1>1, <1>2, <1>5
  <2>2. RouteMade(d, v, routed)
    BY <1>1, <1>2, <1>5, <2>1 DEF RouteMade, Succeeds
  <2> QED
    BY <2>2
<1> QED
  BY <1>3, <1>4, <1>5

\* Registrations keep the lists and the walks.
LEMMA RegistrationKeepsClaims ==
    ASSUME RegistrationIInv, TablesIInv, WalksIInv, NEW d \in Devices,
           ChooseVector(d) \/ InsertEntry(d) \/ Route(d)
    PROVE  TablesIInv' /\ WalksIInv'
<1>0. /\ registration \in [Devices -> {"none", "insert", "route", "done", "failed"}]
      /\ TablesTyped
  BY DEF RegistrationIInv, TablesTyped
<1>1. CASE ChooseVector(d)
  <2>1. /\ registration[d] = "none" /\ ChoiceMade(d)
        /\ UNCHANGED <<RegisteredInterrupts, m_isrRoutines, redirection, msi, apicVars, deliveryVars>>
        /\ registration' \in {[registration EXCEPT ![d] = "failed"], [registration EXCEPT ![d] = "insert"]}
    BY <1>1, ChoosingChanges
  <2>2. /\ registration'[d] \in {"failed", "insert"} /\ \A x \in Devices : x # d => registration'[x] = registration[x]
    BY <1>0, <2>1
  <2>3. TablesGrow
    BY <2>1 DEF TablesGrow, ChoiceMade, Listed, apicVars, OverridesLost
  <2>4. ListsGrow
    BY <2>1, <2>2, <2>3, ListsDoNotChange
  <2>5. WalksIInv'
    BY <1>0, <2>1, <2>4, GrowthKeepsWalks
  <2>6. TablesIInv'
    BY <2>1, <2>2 DEF TablesIInv, ListedOnce, ListedLater, MessagesListed, Listed
  <2> QED
    BY <2>5, <2>6
<1>2. CASE InsertEntry(d)
  <2>1. PICK v \in Vectors, routed \in BOOLEAN, list \in Seq(Devices) : InsertionMade(d, v, routed, list)
    BY <1>2, InsertionChanges
  <2>2. ListsGrow /\ TablesIInv'
    BY <2>1, InsertionGrows
  <2>3. UNCHANGED deliveryVars
    BY <2>1 DEF InsertionMade
  <2> QED
    BY <1>0, <2>2, <2>3, GrowthKeepsWalks
<1>3. CASE Route(d)
  <2>1. PICK v \in Vectors, routed \in BOOLEAN : RouteMade(d, v, routed)
    BY <1>3, RouteChanges
  <2>2. /\ registration[d] = "route" /\ UNCHANGED <<InterruptBitmap, RegisteredInterrupts, m_isrRoutines, apicVars, deliveryVars>>
        /\ registration'[d] \in {"done", "failed"} /\ \A x \in Devices : x # d => registration'[x] = registration[x]
    BY <1>0, <2>1 DEF RouteMade
  <2>3. Listed(d, v)
    <3>1. PICK r \in registering : r = [device |-> d, vector |-> v, routed |-> routed]
      BY <2>1 DEF RouteMade
    <3>2. r.device = d /\ r.vector = v
      BY <3>1
    <3> QED
      BY <2>2, <3>1, <3>2 DEF RegistrationIInv, ChoiceIsUsable, ChosenIsUsable
  <2>4. \A p \in DOMAIN redirection : p \in DOMAIN redirection' /\ redirection'[p] = redirection[p]
    BY <2>1 DEF RouteMade
  <2>5. /\ \A x \in DOMAIN msi : x # d => x \in DOMAIN msi' /\ msi'[x] = msi[x]
        /\ \A x \in DOMAIN msi' : \/ x \in DOMAIN msi /\ msi'[x] = msi[x]
                                  \/ x = d /\ msi'[x] = v /\ ~IsIoApicInterrupt(d)
    BY <2>1 DEF RouteMade
  <2>6. TablesGrow
    BY <2>2, <2>4, <2>5 DEF TablesGrow, Listed, OverridesLost, apicVars
  <2>7. ListsGrow
    BY <2>2, <2>6, ListsDoNotChange
  <2>8. WalksIInv'
    BY <1>0, <2>2, <2>7, GrowthKeepsWalks
  <2>9. MessagesListed'
    BY <2>2, <2>3, <2>5 DEF TablesIInv, MessagesListed, Listed
  <2>10. ListedOnce' /\ ListedLater'
    BY <2>2 DEF TablesIInv, ListedOnce, ListedLater, Listed
  <2> QED
    BY <2>8, <2>9, <2>10 DEF TablesIInv
<1> QED
  BY <1>1, <1>2, <1>3

LEMMA ClaimsStart == ASSUME InterruptsInit PROVE ClaimIInv
<1>1. /\ RegisteredInterrupts \in [Vectors -> Seq(Devices)] /\ \A v \in Vectors : RegisteredInterrupts[v] = <<>>
      /\ Len(<<>>) = 0
  BY RegistrationStarts DEF InterruptsInit, RegistrationIInv, TablesTyped
<1>2. \A v \in Vectors : 1 .. Len(RegisteredInterrupts[v]) = {}
  BY <1>1
<1>3. TablesIInv
  <2>1. ListedOnce
    BY <1>2 DEF ListedOnce
  <2>2. ListedLater
    BY <1>2 DEF ListedLater, Listed
  <2>3. MessagesListed
    BY DEF MessagesListed, InterruptsInit
  <2> QED
    BY <2>1, <2>2, <2>3 DEF TablesIInv
<1>4. /\ pending = {} /\ requests = {} /\ unhandled = {} /\ serving = [c \in ApicCpus |-> ServesNothing]
      /\ \A c \in ApicCpus : serving[c].index = 0
  BY DEF InterruptsInit, ServesNothing
<1>5. ServesNothing \in [vector : Vectors, index : Nat, pin : Int]
  BY ZeroIsVector DEF ServesNothing
<1>6. DeliveryTyped
  BY <1>4, <1>5 DEF DeliveryTyped
<1>7. EdgesHaveDevices /\ ServedHavePins /\ UnhandledAreExcused
  BY <1>4 DEF EdgesHaveDevices, ServedHavePins, UnhandledAreExcused
<1>8. SomeoneClaims
  <2>1. DueTokens = {}
    BY <1>4 DEF DueTokens, Tokens
  <2>2. PICK f : f = [t \in DueTokens |-> t]
    OBVIOUS
  <2>3. f \in [DueTokens -> pending] /\ Matches(f)
    BY <2>1, <2>2 DEF Matches
  <2> QED
    BY <2>3 DEF SomeoneClaims
<1> QED
  BY <1>3, <1>6, <1>7, <1>8, RegistrationStarts DEF ClaimIInv, WalksIInv

LEMMA ClaimsStutter == ASSUME ClaimIInv, UNCHANGED interruptVars PROVE TablesIInv' /\ WalksIInv'
<1>1. UNCHANGED tableVars /\ UNCHANGED deliveryVars /\ UNCHANGED apicVars
  BY DEF interruptVars
<1>2. TablesGrow
  BY <1>1 DEF TablesGrow, Listed, OverridesLost, tableVars, apicVars
<1>3. ListsGrow
  BY <1>1, <1>2, ListsDoNotChange DEF ClaimIInv, tableVars
<1>4. WalksIInv'
  BY <1>1, <1>3, GrowthKeepsWalks DEF ClaimIInv, RegistrationIInv
<1>5. TablesIInv'
  BY <1>1 DEF ClaimIInv, TablesIInv, ListedOnce, ListedLater, MessagesListed, Listed, tableVars
<1> QED
  BY <1>4, <1>5

LEMMA ClaimsStep == ASSUME ClaimIInv, [InterruptsNext]_interruptVars PROVE ClaimIInv'
<1>1. RegistrationIInv /\ TablesIInv /\ WalksIInv
  BY DEF ClaimIInv
<1>2. RegistrationIInv'
  BY <1>1, RegistrationStep
<1>3. CASE LateInit
  BY <1>1, <1>2, <1>3, LateInitKeepsClaims DEF ClaimIInv
<1>4. ASSUME NEW d \in Devices, ChooseVector(d) \/ InsertEntry(d) \/ Route(d)
      PROVE  ClaimIInv'
  BY <1>1, <1>2, <1>4, RegistrationKeepsClaims DEF ClaimIInv
<1>5. ASSUME UNCHANGED tableVars
      PROVE  TablesIInv'
  BY <1>1, <1>5 DEF TablesIInv, ListedOnce, ListedLater, MessagesListed, Listed, tableVars
<1>6. ASSUME NEW d \in Devices, Raise(d)
      PROVE  ClaimIInv'
  BY <1>1, <1>2, <1>5, <1>6, RaiseKeeps DEF ClaimIInv, Raise
<1>7. ASSUME NEW c \in ApicCpus, TakeInterrupt(c)
      PROVE  ClaimIInv'
  BY <1>1, <1>2, <1>5, <1>7, TakeKeeps DEF ClaimIInv, TakeInterrupt
<1>8. ASSUME NEW c \in ApicCpus, CallHandler(c)
      PROVE  ClaimIInv'
  <2>1. UNCHANGED tableVars
    BY <1>8 DEF CallHandler
  <2> QED
    BY <1>1, <1>2, <1>5, <1>8, <2>1, CallKeeps DEF ClaimIInv
<1>9. ASSUME NEW c \in ApicCpus, Unhandled(c)
      PROVE  ClaimIInv'
  BY <1>1, <1>2, <1>5, <1>9, UnhandledKeeps DEF ClaimIInv, Unhandled
<1>10. CASE UNCHANGED interruptVars
  BY <1>2, <1>10, ClaimsStutter DEF ClaimIInv
<1> QED
  BY <1>3, <1>4, <1>6, <1>7, <1>8, <1>9, <1>10 DEF InterruptsNext

\* The assertion of _IsrInterruptHandler fails only at a vector whose list has a handler of a
\* LAPIC, or mixes level triggered devices with others, or whose pin is the wire of a device
\* that is registered elsewhere; for every number of CPUs and every interleaving of
\* interrupts with registrations.
THEOREM UnhandledHasReason == InterruptsSpec => [](\A v \in unhandled : Excused(v))
<1>1. InterruptsInit => ClaimIInv
  BY ClaimsStart
<1>2. ClaimIInv /\ [InterruptsNext]_interruptVars => ClaimIInv'
  BY ClaimsStep
<1>3. ClaimIInv => \A v \in unhandled : Excused(v)
  BY DEF ClaimIInv, WalksIInv, UnhandledAreExcused
<1> QED
  BY <1>1, <1>2, <1>3, PTL DEF InterruptsSpec

----------------------------------------------------------------------------
\* Wirings for which every interrupt is claimed

\* Devices of one priority are all level triggered or none is, and devices on one wire have
\* one priority.
PrioritiesAreApart ==
    /\ \A d, e \in Devices : IoInterrupt[d].irql = IoInterrupt[e].irql =>
           (LevelTriggered(d) <=> LevelTriggered(e))
    /\ \A d, e \in Devices : IsIoApicInterrupt(d) /\ IsIoApicInterrupt(e) /\ Wire(d) = Wire(e) =>
           IoInterrupt[d].irql = IoInterrupt[e].irql

\* A vector is shared within its priority.
ListedAtPriority ==
    \A v \in Vectors : \A d \in Devices : Listed(d, v) => VECTOR_TO_IRQL(v) = IoInterrupt[d].irql

\* A registered device whose wire is routed is listed where it is routed to.
LinesAreListed ==
    \A d \in Devices :
        registration[d] = "done" /\ IsIoApicInterrupt(d) /\ Wire(d) \in DOMAIN redirection =>
            Listed(d, redirection[Wire(d)])

WireIsTaken(d) == \E x \in Devices : registration[x] = "done" /\ IsIoApicInterrupt(x) /\ Wire(x) = Wire(d)

\* A registration that will route its wire finds nobody else on it.
WiredAs(r) ==
    IsIoApicInterrupt(r.device) =>
        \/ r.routed /\ WireHas(r.device, r.vector)
        \/ /\ Wire(r.device) \notin DOMAIN redirection
           /\ \/ r.routed \/ ~WireIsTaken(r.device)
              \/ /\ registration[r.device] = "insert" /\ FullIrql(r.device)
                 /\ r.vector = IRQL_TO_VECTOR(IoInterrupt[r.device].irql)

WiringIInv == ListedAtPriority /\ (OverridesLost \/ (LinesAreListed /\ \A r \in registering : WiredAs(r)))

\* Who was registered on a wire that is not routed had no vector left.
LEMMA TakenWireIsFull ==
    ASSUME RegistrationIInv, TablesIInv, PrioritiesAreApart, ~OverridesLost, NEW d \in Devices,
           IsIoApicInterrupt(d), Wire(d) \notin DOMAIN redirection, WireIsTaken(d)
    PROVE  /\ \A u \in VectorsOf(d) : InterruptBitmap[u]
           /\ RegisteredInterrupts[IRQL_TO_VECTOR(IoInterrupt[d].irql)] # <<>>
<1>1. PICK x \in Devices : registration[x] = "done" /\ IsIoApicInterrupt(x) /\ Wire(x) = Wire(d)
  BY DEF WireIsTaken
<1>2. IoInterrupt[x].irql = IoInterrupt[d].irql
  BY <1>1 DEF PrioritiesAreApart
<1>3. x \notin DOMAIN msi
  BY <1>1 DEF TablesIInv, MessagesListed
<1>4. Stranded(x)
  BY <1>1, <1>3 DEF RegistrationIInv, RegisteredIsDelivered
<1>5. Len(<<>>) = 0
  OBVIOUS
<1>6. RegisteredInterrupts[IRQL_TO_VECTOR(IoInterrupt[x].irql)] # <<>>
  BY <1>4, <1>5 DEF Stranded, Listed
<1> QED
  BY <1>2, <1>4, <1>6 DEF Stranded, VectorsOf

\* A device that shares the vector of its wire, or was given one of its priority.
LEMMA ChoiceIsWired ==
    ASSUME RegistrationIInv, NEW d \in Devices, IsIoApicInterrupt(d), ~OverridesLost, ChooseVector(d)
    PROVE  \/ Fails(d)
           \/ \E v \in Vectors : Goes(d, v, TRUE) /\ WireHas(d, v)
           \/ /\ Wire(d) \notin DOMAIN redirection
              /\ \A u \in Vectors : InterruptBitmap[u] => InterruptBitmap'[u]
              /\ \E v \in VectorsOf(d) :
                     /\ Goes(d, v, FALSE)
                     /\ \/ ~InterruptBitmap[v]
                        \/ v = IRQL_TO_VECTOR(IoInterrupt[d].irql) /\ \A u \in VectorsOf(d) : InterruptBitmap[u]
<1>1. PICK pin \in PinsForIrq(IoInterrupt[d].irq) :
          CASE pin \notin Pins -> Fails(d) /\ UNCHANGED InterruptBitmap
            [] HasVector(pin) -> ShareVector(d, redirection[pin])
            [] OTHER -> NewVector(d)
  BY DEF ChooseVector
<1>2. pin = Wire(d)
  BY PinIsWire
<1>3. CASE pin \notin Pins
  <2>1. ~HasVector(pin)
    BY <1>3 DEF HasVector, RegistrationIInv, TablesTyped
  <2> QED
    BY <1>1, <1>3, <2>1
<1>4. CASE pin \in Pins /\ HasVector(pin)
  <2>1. PICK v \in Vectors : v = redirection[pin]
    BY <1>4 DEF HasVector, RegistrationIInv, TablesTyped
  <2>2. Fails(d) \/ Goes(d, v, TRUE)
    BY <1>1, <1>4, <2>1 DEF ShareVector
  <2> QED
    BY <1>2, <1>4, <2>1, <2>2 DEF HasVector, WireHas
<1>5. CASE pin \in Pins /\ ~HasVector(pin)
  <2>1. NewVector(d) /\ Wire(d) \notin DOMAIN redirection
    BY <1>1, <1>2, <1>5 DEF HasVector
  <2>2. PICK first, found :
            /\ first = IRQL_TO_VECTOR(IoInterrupt[d].irql)
            /\ found = ScanFromTo(InterruptBitmap, first, first + VECTORS_PER_IRQL, 1, FALSE)
    OBVIOUS
  <2>3. /\ InterruptBitmap' = Marked(InterruptBitmap, found)
        /\ \/ Fails(d)
           \/ found # MAX_DWORD /\ Goes(d, found, FALSE)
           \/ found = MAX_DWORD /\ Goes(d, first, FALSE)
    BY <2>1, <2>2 DEF NewVector, Marked
  <2>4. InterruptBitmap \in [Vectors -> BOOLEAN]
    BY DEF RegistrationIInv, TablesTyped
  <2>5. \A u \in Vectors : InterruptBitmap[u] => InterruptBitmap'[u]
    BY <2>3, <2>4, FlipMarks
  <2>6. \/ found = MAX_DWORD /\ \A v \in VectorsOf(d) : InterruptBitmap[v]
        \/ found # MAX_DWORD /\ found \in VectorsOf(d) /\ ~InterruptBitmap[found]
    BY <2>2, <2>4, ScanFindsVector
  <2>7. first \in VectorsOf(d)
    BY <2>2, VectorsOfIrql
  <2> QED
    BY <2>1, <2>2, <2>3, <2>5, <2>6, <2>7
<1> QED
  BY <1>3, <1>4, <1>5

LEMMA ChooseKeepsWiring ==
    ASSUME RegistrationIInv, TablesIInv, WiringIInv, PrioritiesAreApart, NEW d \in Devices, ChooseVector(d)
    PROVE  WiringIInv'
<1>1. /\ registration[d] = "none" /\ registering = {}
      /\ UNCHANGED <<RegisteredInterrupts, m_isrRoutines, redirection, msi, apicVars, deliveryVars>>
      /\ registration' \in {[registration EXCEPT ![d] = "failed"], [registration EXCEPT ![d] = "insert"]}
  BY ChoosingChanges
<1>2. /\ registration \in [Devices -> {"none", "insert", "route", "done", "failed"}]
      /\ \A x \in Devices : registration'[x] = "done" => registration[x] = "done"
  BY <1>1 DEF RegistrationIInv, TablesTyped
<1>3. ListedAtPriority'
  BY <1>1 DEF WiringIInv, ListedAtPriority, Listed
<1>4. ASSUME ~OverridesLost'
      PROVE  LinesAreListed' /\ \A r \in registering' : WiredAs(r)'
  <2>1. ~OverridesLost
    BY <1>1, <1>4 DEF OverridesLost, apicVars
  <2>2. LinesAreListed'
    BY <1>1, <1>2, <2>1 DEF WiringIInv, LinesAreListed, Listed
  <2>3. WireIsTaken(d)' => WireIsTaken(d)
    BY <1>2 DEF WireIsTaken
  <2>4. ASSUME NEW r \in registering'
        PROVE  WiredAs(r)'
    <3>1. PICK v \in Vectors, routed \in BOOLEAN : Goes(d, v, routed)
      BY <1>1, <2>4, ChoosingChanges DEF ChoiceMade, Fails
    <3>2. r = [device |-> d, vector |-> v, routed |-> routed] /\ registration'[d] = "insert"
      BY <1>2, <2>4, <3>1 DEF Goes
    <3>3. r.device = d /\ r.vector = v /\ r.routed = routed
      BY <3>2
    <3>4. \A w, b : Goes(d, w, b) => w = v /\ b = routed
      <4>1. ASSUME NEW w, NEW b, Goes(d, w, b)
            PROVE  w = v /\ b = routed
        <5>1. r = [device |-> d, vector |-> w, routed |-> b]
          BY <2>4, <4>1 DEF Goes
        <5> QED
          BY <3>3, <5>1
      <4> QED
        BY <4>1
    <3>5. ~Fails(d)
      BY <2>4 DEF Fails
    <3> SUFFICES ASSUME IsIoApicInterrupt(d) PROVE WiredAs(r)'
      BY <3>3 DEF WiredAs
    <3>6. CASE routed /\ WireHas(d, v)
      BY <1>1, <3>3, <3>6 DEF WiredAs, WireHas
    <3>7. CASE /\ Wire(d) \notin DOMAIN redirection
               /\ \A u \in Vectors : InterruptBitmap[u] => InterruptBitmap'[u]
               /\ \/ v \in VectorsOf(d) /\ ~InterruptBitmap[v]
                  \/ v = IRQL_TO_VECTOR(IoInterrupt[d].irql) /\ \A u \in VectorsOf(d) : InterruptBitmap[u]
      <4>1. Wire(d) \notin DOMAIN redirection'
        BY <1>1, <3>7
      <4>2. CASE v \in VectorsOf(d) /\ ~InterruptBitmap[v]
        <5>1. ~WireIsTaken(d)
          BY <2>1, <3>7, <4>2, TakenWireIsFull
        <5> QED
          BY <2>3, <3>3, <4>1, <5>1 DEF WiredAs, WireIsTaken
      <4>3. CASE v = IRQL_TO_VECTOR(IoInterrupt[d].irql) /\ \A u \in VectorsOf(d) : InterruptBitmap[u]
        <5>1. \A u \in VectorsOf(d) : InterruptBitmap'[u]
          BY <3>7, <4>3, VectorsOfIrql
        <5> QED
          BY <3>2, <3>3, <4>1, <4>3, <5>1 DEF WiredAs, FullIrql, VectorsOf
      <4> QED
        BY <3>7, <4>2, <4>3
    <3>8. CASE \E w \in Vectors : Goes(d, w, TRUE) /\ WireHas(d, w)
      <4>1. PICK w \in Vectors : Goes(d, w, TRUE) /\ WireHas(d, w)
        BY <3>8
      <4>2. w = v /\ routed = TRUE
        BY <3>4, <4>1
      <4>3. routed /\ WireHas(d, v)
        BY <4>1, <4>2
      <4> QED
        BY <3>6, <4>3
    <3>9. CASE /\ Wire(d) \notin DOMAIN redirection
               /\ \A u \in Vectors : InterruptBitmap[u] => InterruptBitmap'[u]
               /\ \E w \in VectorsOf(d) :
                      /\ Goes(d, w, FALSE)
                      /\ \/ ~InterruptBitmap[w]
                         \/ w = IRQL_TO_VECTOR(IoInterrupt[d].irql) /\ \A u \in VectorsOf(d) : InterruptBitmap[u]
      <4>1. PICK w \in VectorsOf(d) :
                /\ Goes(d, w, FALSE)
                /\ \/ ~InterruptBitmap[w]
                   \/ w = IRQL_TO_VECTOR(IoInterrupt[d].irql) /\ \A u \in VectorsOf(d) : InterruptBitmap[u]
        BY <3>9
      <4>2. w = v
        BY <3>4, <4>1
      <4> QED
        BY <3>7, <3>9, <4>1, <4>2
    <3> QED
      BY <2>1, <3>5, <3>8, <3>9, ChoiceIsWired
  <2> QED
    BY <2>2, <2>4
<1> QED
  BY <1>3, <1>4 DEF WiringIInv

LEMMA InsertKeepsWiring ==
    ASSUME RegistrationIInv, TablesIInv, WiringIInv, PrioritiesAreApart, NEW d \in Devices, InsertEntry(d)
    PROVE  WiringIInv'
<1>1. PICK v \in Vectors, routed \in BOOLEAN, list \in Seq(Devices) : InsertionMade(d, v, routed, list)
  BY InsertionChanges
<1>2. PICK r \in registering : r = [device |-> d, vector |-> v, routed |-> routed]
  BY <1>1 DEF InsertionMade
<1>3. r.device = d /\ r.vector = v /\ r.routed = routed
  BY <1>2
<1>4. /\ ListsGrow
      /\ \A x \in Devices, u \in Vectors : Listed(x, u)' => Listed(x, u) \/ (x = d /\ u = v)
  BY <1>1, InsertionGrows
<1>5. /\ registration[d] = "insert" /\ list = RegisteredInterrupts[v]
      /\ UNCHANGED <<InterruptBitmap, redirection, msi, apicVars>>
  BY <1>1 DEF InsertionMade
<1>6. /\ registration \in [Devices -> {"none", "insert", "route", "done", "failed"}]
      /\ \A x \in Devices : registration'[x] = "done" <=> registration[x] = "done"
  BY <1>1 DEF InsertionMade, RegistrationIInv, TablesTyped
<1>7. ListedAtPriority'
  <2>1. VECTOR_TO_IRQL(v) = IoInterrupt[d].irql
    BY <1>3 DEF RegistrationIInv, ChoiceIsUsable, ChosenIsUsable
  <2>2. ASSUME NEW u \in Vectors, NEW x \in Devices, Listed(x, u)'
        PROVE  VECTOR_TO_IRQL(u) = IoInterrupt[x].irql
    BY <1>4, <2>1, <2>2 DEF WiringIInv, ListedAtPriority
  <2> QED
    BY <2>2 DEF ListedAtPriority
<1>8. ASSUME ~OverridesLost'
      PROVE  LinesAreListed' /\ \A s \in registering' : WiredAs(s)'
  <2>1. ~OverridesLost
    BY <1>5, <1>8 DEF OverridesLost, apicVars
  <2>2. ASSUME NEW x \in Devices, registration'[x] = "done", IsIoApicInterrupt(x), Wire(x) \in DOMAIN redirection'
        PROVE  Listed(x, redirection[Wire(x)])'
    <3>1. PICK u \in Vectors : u = redirection[Wire(x)]
      BY <1>5, <2>2 DEF RegistrationIInv, TablesTyped
    <3>2. Listed(x, u)
      BY <1>5, <1>6, <2>1, <2>2, <3>1 DEF WiringIInv, LinesAreListed
    <3>3. Listed(x, u)'
      BY <1>4, <3>2 DEF ListsGrow, TablesGrow
    <3> QED
      BY <1>5, <3>1, <3>3 DEF Listed
  <2>3. ASSUME NEW s \in registering'
        PROVE  WiredAs(s)'
    <3>1. s = [device |-> d, vector |-> v, routed |-> routed \/ list # <<>>]
      BY <1>1, <2>3 DEF InsertionMade
    <3>2. s.device = d /\ s.vector = v /\ s.routed = (routed \/ list # <<>>)
      BY <3>1
    <3>3. WiredAs(r)
      BY <2>1 DEF WiringIInv
    <3> SUFFICES ASSUME IsIoApicInterrupt(d) PROVE WiredAs(s)'
      BY <3>2 DEF WiredAs
    <3>4. CASE routed /\ WireHas(d, v)
      BY <1>5, <3>2, <3>4 DEF WiredAs, WireHas
    <3>5. CASE /\ Wire(d) \notin DOMAIN redirection
               /\ routed \/ ~WireIsTaken(d) \/ v = IRQL_TO_VECTOR(IoInterrupt[d].irql)
      <4>1. Wire(d) \notin DOMAIN redirection'
        BY <1>5, <3>5
      <4>2. WireIsTaken(d)' <=> WireIsTaken(d)
        BY <1>6 DEF WireIsTaken
      <4>3. s.routed \/ ~WireIsTaken(d)
        <5>1. CASE v = IRQL_TO_VECTOR(IoInterrupt[d].irql)
          BY <1>5, <2>1, <3>2, <3>5, <5>1, TakenWireIsFull
        <5> QED
          BY <3>2, <3>5, <5>1
      <4> QED
        BY <3>2, <4>1, <4>2, <4>3 DEF WiredAs, WireIsTaken
    <3> QED
      BY <1>3, <3>3, <3>4, <3>5 DEF WiredAs
  <2> QED
    BY <2>2, <2>3 DEF LinesAreListed
<1> QED
  BY <1>7, <1>8 DEF WiringIInv

LEMMA RouteKeepsWiring ==
    ASSUME RegistrationIInv, TablesIInv, WiringIInv, PrioritiesAreApart, NEW d \in Devices, Route(d)
    PROVE  WiringIInv'
<1>1. PICK v \in Vectors, routed \in BOOLEAN : RouteMade(d, v, routed)
  BY RouteChanges
<1>2. PICK r \in registering : r = [device |-> d, vector |-> v, routed |-> routed]
  BY <1>1 DEF RouteMade
<1>3. r.device = d /\ r.vector = v /\ r.routed = routed
  BY <1>2
<1>4. /\ registration[d] = "route" /\ registering' = {}
      /\ UNCHANGED <<InterruptBitmap, RegisteredInterrupts, apicVars>>
  BY <1>1 DEF RouteMade
<1>5. /\ registration \in [Devices -> {"none", "insert", "route", "done", "failed"}]
      /\ \A x \in Devices : x # d => registration'[x] = registration[x]
  BY <1>1 DEF RouteMade, RegistrationIInv, TablesTyped
<1>6. Listed(d, v)
  BY <1>3, <1>4 DEF RegistrationIInv, ChoiceIsUsable, ChosenIsUsable
<1>7. ListedAtPriority'
  BY <1>4 DEF WiringIInv, ListedAtPriority, Listed
<1>8. ASSUME ~OverridesLost'
      PROVE  LinesAreListed'
  <2>1. ~OverridesLost
    BY <1>4, <1>8 DEF OverridesLost, apicVars
  <2>2. WiredAs(r) /\ LinesAreListed
    BY <2>1 DEF WiringIInv
  <2>3. \A x, u : Listed(x, u)' <=> Listed(x, u)
    BY <1>4 DEF Listed
  <2>4. ASSUME NEW x \in Devices, registration'[x] = "done", IsIoApicInterrupt(x), Wire(x) \in DOMAIN redirection'
        PROVE  Listed(x, redirection'[Wire(x)])
    <3>1. CASE redirection' = redirection
      <4>1. CASE x # d
        BY <1>5, <2>2, <2>4, <3>1, <4>1 DEF LinesAreListed
      <4>2. CASE x = d
        <5>1. routed
          <6>1. \A pin : redirection' = [p \in DOMAIN redirection \cup {pin} |-> IF p = pin THEN v ELSE redirection[p]]
                    => pin \in DOMAIN redirection
            BY <3>1
          <6>2. IsIoApicInterrupt(d) /\ ~routed => registration' = [registration EXCEPT ![d] = "failed"]
            BY <1>1, <6>1 DEF RouteMade
          <6>3. registration'[d] = "done"
            BY <2>4, <4>2
          <6> QED
            BY <1>5, <2>4, <4>2, <6>2, <6>3
        <5>2. WireHas(d, v)
          BY <1>3, <2>2, <2>4, <3>1, <4>2, <5>1 DEF WiredAs
        <5> QED
          BY <1>6, <3>1, <4>2, <5>2 DEF WireHas
      <4> QED
        BY <4>1, <4>2
    <3>2. CASE redirection' # redirection
      <4>1. PICK pin \in PinsForIrq(IoInterrupt[d].irq) \ DOMAIN redirection :
                /\ IsIoApicInterrupt(d) /\ ~routed
                /\ redirection' = [p \in DOMAIN redirection \cup {pin} |-> IF p = pin THEN v ELSE redirection[p]]
        BY <1>1, <3>2 DEF RouteMade
      <4>2. pin = Wire(d)
        BY <2>1, PinIsWire
      <4>3. ~WireIsTaken(d)
        BY <1>3, <1>4, <2>2, <4>1, <4>2 DEF WiredAs
      <4>4. CASE Wire(x) = pin
        <5>1. x = d
          BY <1>5, <2>4, <4>2, <4>3, <4>4 DEF WireIsTaken
        <5> QED
          BY <1>6, <4>1, <4>4, <5>1
      <4>5. CASE Wire(x) # pin
        <5>1. x # d /\ Wire(x) \in DOMAIN redirection /\ redirection'[Wire(x)] = redirection[Wire(x)]
          BY <2>4, <4>1, <4>2, <4>5
        <5> QED
          BY <1>5, <2>2, <2>4, <5>1 DEF LinesAreListed
      <4> QED
        BY <4>4, <4>5
    <3> QED
      BY <3>1, <3>2
  <2> QED
    BY <1>4, <2>4 DEF LinesAreListed, Listed
<1> QED
  BY <1>4, <1>7, <1>8 DEF WiringIInv

LEMMA WiringStarts == ASSUME InterruptsInit PROVE WiringIInv
<1>1. RegisteredInterrupts \in [Vectors -> Seq(Devices)] /\ \A v \in Vectors : RegisteredInterrupts[v] = <<>>
  BY RegistrationStarts DEF InterruptsInit, RegistrationIInv, TablesTyped
<1>2. Len(<<>>) = 0
  OBVIOUS
<1>3. ListedAtPriority
  BY <1>1, <1>2 DEF ListedAtPriority, Listed
<1>4. registering = {} /\ \A d \in Devices : registration[d] # "done"
  BY DEF InterruptsInit
<1> QED
  BY <1>3, <1>4 DEF WiringIInv, LinesAreListed

LEMMA WiringStep ==
    ASSUME ClaimIInv, WiringIInv, PrioritiesAreApart, [InterruptsNext]_interruptVars
    PROVE  WiringIInv'
<1>1. RegistrationIInv /\ TablesIInv
  BY DEF ClaimIInv
<1>2. ASSUME UNCHANGED tableVars, OverridesLost => OverridesLost'
      PROVE  WiringIInv'
  <2>1. ListedAtPriority'
    BY <1>2 DEF WiringIInv, ListedAtPriority, Listed, tableVars
  <2>2. LinesAreListed => LinesAreListed'
    BY <1>2 DEF LinesAreListed, Listed, tableVars
  <2>3. ASSUME NEW r \in registering, WiredAs(r)
        PROVE  WiredAs(r)'
    BY <1>2, <2>3 DEF WiredAs, WireHas, WireIsTaken, FullIrql, tableVars
  <2> QED
    BY <1>2, <2>1, <2>2, <2>3 DEF WiringIInv, tableVars
<1>3. CASE LateInit
  <2>1. ~OverridesLost /\ UNCHANGED tableVars
    BY <1>1, <1>3 DEF RegistrationIInv, OverridesIntact, LateInit
  <2> QED
    BY <1>2, <2>1
<1>4. ASSUME NEW d \in Devices, Raise(d)
      PROVE  WiringIInv'
  BY <1>2, <1>4 DEF Raise, OverridesLost, apicVars
<1>5. ASSUME NEW c \in ApicCpus, TakeInterrupt(c) \/ CallHandler(c) \/ Unhandled(c)
      PROVE  WiringIInv'
  <2>1. UNCHANGED tableVars /\ UNCHANGED apicVars
    BY <1>5 DEF TakeInterrupt, CallHandler, Unhandled
  <2> QED
    BY <1>2, <2>1 DEF OverridesLost, apicVars
<1>6. CASE UNCHANGED interruptVars
  BY <1>2, <1>6 DEF interruptVars, OverridesLost, apicVars
<1>7. ASSUME NEW d \in Devices, ChooseVector(d) \/ InsertEntry(d) \/ Route(d)
      PROVE  WiringIInv'
  BY <1>1, <1>7, ChooseKeepsWiring, InsertKeepsWiring, RouteKeepsWiring
<1> QED
  BY <1>3, <1>4, <1>5, <1>6, <1>7 DEF InterruptsNext

\* ClaimedByOne: where the devices of a priority are all level triggered or none is, and those
\* on one wire have one priority, a handler claims each interrupt, except those of a LAPIC
\* (the assertion of _IsrInterruptHandler), until the overrides are overwritten.
THEOREM InterruptsAreClaimed ==
    ASSUME PrioritiesAreApart
    PROVE  InterruptsSpec => []ClaimedByOne
<1>1. InterruptsInit => ClaimIInv /\ WiringIInv
  BY ClaimsStart, WiringStarts
<1>2. ClaimIInv /\ WiringIInv /\ [InterruptsNext]_interruptVars => (ClaimIInv /\ WiringIInv)'
  BY ClaimsStep, WiringStep
<1>3. ClaimIInv /\ WiringIInv => ClaimedByOne
  <2> SUFFICES ASSUME ClaimIInv, WiringIInv, ~OverridesLost, NEW v \in unhandled
               PROVE  Silent(v)
    BY DEF ClaimedByOne, Silent
  <2>1. Excused(v) /\ v \in Vectors
    BY DEF ClaimIInv, WalksIInv, UnhandledAreExcused, DeliveryTyped
  <2>2. ~TriggersMix(v)
    BY <2>1 DEF WiringIInv, ListedAtPriority, TriggersMix, PrioritiesAreApart
  <2>3. ~ForeignLine(v)
    BY <2>1 DEF WiringIInv, LinesAreListed, ForeignLine
  <2> QED
    BY <2>1, <2>2, <2>3 DEF Excused
<1> QED
  BY <1>1, <1>2, <1>3, PTL DEF InterruptsSpec
=============================================================================
