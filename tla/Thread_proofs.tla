--------------------------- MODULE Thread_proofs ----------------------------
(***************************************************************************)
(* Proofs about Thread: the safety invariants of the scheduler, for any    *)
(* number of CPUs, threads and waiting objects, when no thread is ever     *)
(* terminated by force: a thread that exits inside ThreadBlock stays       *)
(* linked in the waiting list it entered.                                  *)
(***************************************************************************)
EXTENDS Thread, TLAPS

In(s, x) == \E i \in DOMAIN s : s[i] = x
Inj(s) == \A i, j \in DOMAIN s : s[i] = s[j] => i = j

\* Nobody is marked for termination.
FlagsInv == \A t \in Threads : ~Flags[t]

\* A thread executes exactly when a CPU has it as its current thread, and that
\* CPU is unique.
CpuInv ==
    /\ \A c \in Cpus : pc[CurrentThread[c]] \notin {"new", "off"}
    /\ \A t \in Threads : pc[t] \notin {"new", "off"} => \E c \in Cpus : CurrentThread[c] = t
    /\ OneCpuPerThread

\* An idle thread never leaves its CPU, is in no list and never dies.
IdleInv ==
    /\ \A c, d \in Cpus : CurrentThread[c] = Idle[d] => c = d
    /\ \A c, d \in Cpus : PreviousThread[c] = Idle[d] => c = d
    /\ \A t \in IdleThreads : /\ pc[t] \notin {"new", "exit", "signal", "dead"}
                              /\ ~In(ReadyThreadsList, t)
                              /\ \A o \in Waitables : ~In(WaitingList[o], t)

\* A thread in the ready list is switched out and its BlockLock is free.
ReadyInv ==
    /\ Inj(ReadyThreadsList)
    /\ \A t \in Threads : In(ReadyThreadsList, t) => pc[t] = "off" /\ BlockLock[t] = None

\* Who owns a BlockLock: the thread itself on its way into ThreadBlock, or its
\* CPU until the next thread there releases it.
BlockInv == \A t \in Threads, c \in Cpus : BlockLock[t] = c =>
    \/ CurrentThread[c] = t /\ pc[t] \in {"block", "blocked"}
    \/ /\ PreviousThread[c] = t /\ pc[CurrentThread[c]] = "cleanup"
       /\ State[t] = "Blocked"
       /\ (CurrentThread[c] = t /\ t = Idle[c]) \/ pc[t] = "off"

\* A waiting thread is linked once, and not in the ready list; as long as it still
\* executes its BlockLock is owned.
WaitInv ==
    /\ \A o \in Waitables : Inj(WaitingList[o])
    /\ \A o, p \in Waitables, t \in Threads :
           In(WaitingList[o], t) /\ In(WaitingList[p], t) => o = p
    /\ \A o \in Waitables, t \in Threads : In(WaitingList[o], t) =>
           /\ ~In(ReadyThreadsList, t)
           /\ pc[t] = "off" \/ (pc[t] \in {"block", "blocked"} /\ BlockLock[t] # None)
           /\ pc[t] # "block" => State[t] = "Blocked"

\* The state a thread gives itself on its way off the CPU.
StateInv == \A t \in Threads :
    /\ pc[t] = "blocked" => State[t] = "Blocked"
    /\ pc[t] \in {"signal", "dead"} => State[t] = "Dying"

\* A thread that left its CPU, or is about to, is linked somewhere or dying.
LostInv == \A t \in Threads \ IdleThreads :
    /\ pc[t] \in {"block", "blocked"} => \E o \in Waitables : In(WaitingList[o], t)
    /\ pc[t] = "off" /\ State[t] # "Dying" =>
           In(ReadyThreadsList, t) \/ \E o \in Waitables : In(WaitingList[o], t)

IInv == /\ TypeOK /\ FlagsInv /\ CpuInv /\ IdleInv /\ ReadyInv
        /\ BlockInv /\ WaitInv /\ StateInv /\ LostInv

----------------------------------------------------------------------------
\* What Append and Tail do to the elements of a list without repetition.

LEMMA AppendIn ==
    ASSUME NEW S, NEW s \in Seq(S), NEW x \in S
    PROVE  /\ Append(s, x) \in Seq(S)
           /\ \A t : In(Append(s, x), t) <=> In(s, t) \/ t = x
           /\ Inj(s) /\ ~In(s, x) => Inj(Append(s, x))
<1> DEFINE a == Append(s, x)
<1>1. /\ a \in Seq(S) /\ Len(a) = Len(s) + 1 /\ Len(s) \in Nat
      /\ DOMAIN s = 1..Len(s) /\ DOMAIN a = 1..Len(s) + 1
      /\ a[Len(s) + 1] = x
      /\ \A i \in 1..Len(s) : a[i] = s[i]
  OBVIOUS
<1> HIDE DEF a
<1>2. ASSUME NEW t PROVE In(a, t) <=> In(s, t) \/ t = x
  <2>1. ASSUME In(s, t) PROVE In(a, t)
    BY <1>1, <2>1 DEF In
  <2>2. In(a, x)
    BY <1>1 DEF In
  <2>3. ASSUME In(a, t), t # x PROVE In(s, t)
    <3>1. PICK i \in 1..Len(s) + 1 : a[i] = t
      BY <1>1, <2>3 DEF In
    <3>2. i \in 1..Len(s)
      BY <1>1, <2>3, <3>1
    <3> QED
      BY <1>1, <3>1, <3>2 DEF In
  <2> QED
    BY <2>1, <2>2, <2>3
<1>3. ASSUME Inj(s), ~In(s, x) PROVE Inj(a)
  <2> SUFFICES ASSUME NEW i \in 1..Len(s) + 1, NEW j \in 1..Len(s) + 1, a[i] = a[j]
               PROVE  i = j
    BY <1>1 DEF Inj
  <2>1. CASE i \in 1..Len(s) /\ j \in 1..Len(s)
    BY <1>1, <1>3, <2>1 DEF Inj
  <2>2. \A k \in 1..Len(s) : s[k] # x
    BY <1>1, <1>3 DEF In
  <2>3. CASE i = Len(s) + 1 \/ j = Len(s) + 1
    BY <1>1, <2>2, <2>3
  <2> QED
    BY <1>1, <2>1, <2>3
<1> QED
  BY <1>1, <1>2, <1>3 DEF a

LEMMA TailIn ==
    ASSUME NEW S, NEW s \in Seq(S), s # <<>>, Inj(s)
    PROVE  /\ Tail(s) \in Seq(S) /\ Head(s) \in S
           /\ In(s, Head(s))
           /\ \A t : In(Tail(s), t) <=> In(s, t) /\ t # Head(s)
           /\ Inj(Tail(s))
<1> DEFINE a == Tail(s)
           h == Head(s)
<1>1. /\ a \in Seq(S) /\ Len(s) \in Nat /\ Len(s) >= 1 /\ Len(a) = Len(s) - 1
      /\ DOMAIN s = 1..Len(s) /\ DOMAIN a = 1..Len(s) - 1
      /\ h = s[1] /\ h \in S
      /\ \A i \in 1..Len(s) - 1 : a[i] = s[i + 1]
  OBVIOUS
<1> HIDE DEF a, h
<1>2. In(s, h)
  BY <1>1 DEF In
<1>3. ASSUME NEW t PROVE In(a, t) <=> In(s, t) /\ t # h
  <2>1. ASSUME In(a, t) PROVE In(s, t) /\ t # h
    <3>1. PICK i \in 1..Len(s) - 1 : a[i] = t
      BY <1>1, <2>1 DEF In
    <3>2. i + 1 \in 1..Len(s) /\ s[i + 1] = t /\ i + 1 # 1 /\ 1 \in 1..Len(s)
      BY <1>1, <3>1
    <3> QED
      BY <1>1, <3>2 DEF In, Inj
  <2>2. ASSUME In(s, t), t # h PROVE In(a, t)
    <3>1. PICK i \in 1..Len(s) : s[i] = t
      BY <1>1, <2>2 DEF In
    <3>2. i - 1 \in 1..Len(s) - 1 /\ a[i - 1] = t
      BY <1>1, <2>2, <3>1
    <3> QED
      BY <1>1, <3>2 DEF In
  <2> QED
    BY <2>1, <2>2
<1>4. Inj(a)
  <2> SUFFICES ASSUME NEW i \in 1..Len(s) - 1, NEW j \in 1..Len(s) - 1, a[i] = a[j]
               PROVE  i = j
    BY <1>1 DEF Inj
  <2>1. i + 1 \in 1..Len(s) /\ j + 1 \in 1..Len(s) /\ s[i + 1] = s[j + 1]
    BY <1>1
  <2>2. i + 1 = j + 1
    BY <1>1, <2>1 DEF Inj
  <2> QED
    BY <1>1, <2>2
<1> QED
  BY <1>1, <1>2, <1>3, <1>4 DEF a, h

----------------------------------------------------------------------------
\* The thread _ThreadSchedule picks, and what is left in the ready list.
LEMMA ScheduleFacts ==
    ASSUME ThreadAssumption, NEW c \in Cpus, NEW t \in Threads,
           NEW list \in Seq(Threads), Inj(list), Schedule(c, t, list)
    PROVE  \E next \in Threads :
               /\ CurrentThread' = [CurrentThread EXCEPT ![c] = next]
               /\ PreviousThread' = [PreviousThread EXCEPT ![c] = t]
               /\ pc' = [pc EXCEPT ![t] = "off", ![next] = "cleanup"]
               /\ ReadyThreadsList' \in Seq(Threads) /\ Inj(ReadyThreadsList')
               /\ \A u : In(ReadyThreadsList', u) <=> In(list, u) /\ u # next
               /\ next = Idle[c] \/ In(list, next)
<1>1. CASE list = <<>>
  <2>1. \A u : ~In(list, u)
    BY <1>1 DEF In
  <2>2. Idle[c] \in Threads
    BY DEF ThreadAssumption
  <2>3. ReadyThreadsList' = list
    BY <1>1 DEF Schedule, GetReadyThread
  <2> QED
    BY <1>1, <2>1, <2>2, <2>3 DEF Schedule, GetReadyThread
<1>2. CASE list # <<>>
  <2>1. /\ Tail(list) \in Seq(Threads) /\ Head(list) \in Threads
        /\ In(list, Head(list)) /\ Inj(Tail(list))
        /\ \A u : In(Tail(list), u) <=> In(list, u) /\ u # Head(list)
    BY <1>2, TailIn
  <2>2. ReadyThreadsList' = Tail(list)
    BY <1>2 DEF Schedule, GetReadyThread
  <2> QED
    BY <1>2, <2>1, <2>2 DEF Schedule, GetReadyThread
<1> QED
  BY <1>1, <1>2

\* Every way into _ThreadSchedule keeps the invariant: from ThreadYield the
\* thread is in the ready list it schedules from, from ThreadBlock and ThreadExit
\* it is not.
LEMMA ScheduleInv ==
    ASSUME ThreadAssumption, IInv, NEW c \in Cpus, NEW t, t = CurrentThread[c],
           pc[t] \in {"yield", "blocked", "dead"},
           NEW list \in Seq(Threads), Inj(list),
           \A u : In(list, u) <=> In(ReadyThreadsList, u)
                                  \/ (pc[t] = "yield" /\ t # Idle[c] /\ u = t),
           State' = [State EXCEPT ![t] = IF pc[t] = "yield" THEN "Ready" ELSE State[t]],
           Schedule(c, t, list),
           UNCHANGED <<Flags, BlockLock, RefCnt, Handle, WaitingList, ret>>
    PROVE  IInv'
<1>0. t \in Threads /\ TypeOK
  BY DEF IInv, TypeOK
<1>1. PICK next \in Threads :
          /\ CurrentThread' = [CurrentThread EXCEPT ![c] = next]
          /\ PreviousThread' = [PreviousThread EXCEPT ![c] = t]
          /\ pc' = [pc EXCEPT ![t] = "off", ![next] = "cleanup"]
          /\ ReadyThreadsList' \in Seq(Threads) /\ Inj(ReadyThreadsList')
          /\ \A u : In(ReadyThreadsList', u) <=> In(list, u) /\ u # next
          /\ next = Idle[c] \/ In(list, next)
  BY <1>0, ScheduleFacts
<1>2. next = t \/ pc[next] = "off"
  <2>1. CASE next = Idle[c]
    <3>1. pc[next] \notin {"new", "off"} => CurrentThread[c] = next
      BY <2>1 DEF IInv, CpuInv, IdleInv
    <3>2. pc[next] # "new"
      BY <2>1 DEF IInv, IdleInv, IdleThreads
    <3> QED
      BY <3>1, <3>2
  <2>2. CASE In(list, next)
    BY <2>2 DEF IInv, ReadyInv
  <2> QED
    BY <1>1, <2>1, <2>2
<1>3. TypeOK'
  BY <1>0, <1>1 DEF TypeOK, States, SchedLabels
<1>4. /\ \A u \in Threads : pc'[u] = IF u = next THEN "cleanup" ELSE IF u = t THEN "off" ELSE pc[u]
      /\ \A u \in Threads : u # t => State'[u] = State[u]
      /\ pc[t] # "yield" => State'[t] = State[t]
      /\ \A d \in Cpus : CurrentThread'[d] = IF d = c THEN next ELSE CurrentThread[d]
      /\ \A d \in Cpus : PreviousThread'[d] = IF d = c THEN t ELSE PreviousThread[d]
      /\ \A d \in Cpus : CurrentThread[d] \in Threads /\ CurrentThread'[d] \in Threads
      /\ \A u : In(ReadyThreadsList', u) <=>
                  u # next /\ (In(ReadyThreadsList, u) \/ (pc[t] = "yield" /\ t # Idle[c] /\ u = t))
  BY <1>0, <1>1, <1>3 DEF TypeOK
<1>5. FlagsInv'
  BY DEF IInv, FlagsInv
<1>6. CpuInv'
  <2>1. CpuInv
    BY DEF IInv
  <2>2. \A d \in Cpus : d # c => CurrentThread[d] # next /\ CurrentThread[d] # t
    BY <1>0, <1>2, <2>1 DEF CpuInv, OneCpuPerThread
  <2>3. \A d \in Cpus : pc'[CurrentThread'[d]] \notin {"new", "off"}
    BY <1>4, <2>1, <2>2 DEF CpuInv
  <2>4. ASSUME NEW u \in Threads, pc'[u] \notin {"new", "off"}
        PROVE  \E d \in Cpus : CurrentThread'[d] = u
    <3>1. CASE u = next
      BY <1>4, <3>1
    <3>2. CASE u # next
      <4>1. u # t /\ pc[u] \notin {"new", "off"}
        BY <1>4, <2>4, <3>2
      <4> QED
        BY <1>4, <2>1, <4>1 DEF CpuInv
    <3> QED
      BY <3>1, <3>2
  <2>5. OneCpuPerThread'
    BY <1>4, <2>1, <2>2 DEF CpuInv, OneCpuPerThread
  <2> QED
    BY <2>3, <2>4, <2>5 DEF CpuInv
<1>7. BlockLock[t] # None => pc[t] = "blocked" /\ BlockLock[t] = c
  BY <1>0 DEF IInv, BlockInv, TypeOK, CpuInv, OneCpuPerThread, ThreadAssumption
<1>8. IdleInv'
  <2>1. IdleInv
    BY DEF IInv
  <2>2. \A d \in Cpus : next = Idle[d] => c = d
    <3>1. CASE next = Idle[c]
      BY <3>1 DEF ThreadAssumption
    <3>2. CASE In(list, next)
      BY <2>1, <3>2 DEF IdleInv, IdleThreads
    <3> QED
      BY <1>1, <3>1, <3>2
  <2>3. \A d \in Cpus : t = Idle[d] => c = d
    BY <2>1 DEF IdleInv
  <2>4. \A d \in Cpus : ~In(ReadyThreadsList', Idle[d])
    BY <1>4, <2>1, <2>3 DEF IdleInv, IdleThreads
  <2>5. \A d \in Cpus : Idle[d] \in Threads
    BY DEF ThreadAssumption
  <2>6. \A d \in Cpus : pc'[Idle[d]] \notin {"new", "exit", "signal", "dead"}
    BY <1>4, <2>1, <2>5 DEF IdleInv, IdleThreads
  <2>7. \A d, e \in Cpus : CurrentThread'[d] = Idle[e] => d = e
    BY <1>4, <2>1, <2>2 DEF IdleInv
  <2>8. \A d, e \in Cpus : PreviousThread'[d] = Idle[e] => d = e
    <3> SUFFICES ASSUME NEW d \in Cpus, NEW e \in Cpus, PreviousThread'[d] = Idle[e] PROVE d = e
      OBVIOUS
    <3>1. CASE d = c
      BY <1>4, <2>1, <2>3, <3>1 DEF IdleInv
    <3>2. CASE d # c
      BY <1>4, <2>1, <3>2 DEF IdleInv
    <3> QED
      BY <3>1, <3>2
  <2>9. \A d \in Cpus, o \in Waitables : ~In(WaitingList'[o], Idle[d])
    BY <1>1, <2>1 DEF IdleInv, IdleThreads
  <2> QED
    BY <2>4, <2>6, <2>7, <2>8, <2>9 DEF IdleInv, IdleThreads
<1>9. ReadyInv'
  BY <1>0, <1>1, <1>7 DEF IInv, ReadyInv, TypeOK
<1>10. BlockInv'
  <2> SUFFICES ASSUME NEW u \in Threads, NEW d \in Cpus, BlockLock[u] = d
               PROVE  \/ CurrentThread'[d] = u /\ pc'[u] \in {"block", "blocked"}
                      \/ /\ PreviousThread'[d] = u /\ pc'[CurrentThread'[d]] = "cleanup"
                         /\ State'[u] = "Blocked"
                         /\ (CurrentThread'[d] = u /\ u = Idle[d]) \/ pc'[u] = "off"
    BY DEF BlockInv
  <2>1. BlockInv /\ CpuInv /\ IdleInv /\ ReadyInv /\ StateInv
    BY DEF IInv
  <2>2. d # None
    BY DEF ThreadAssumption
  <2>3. CASE u = t
    <3>1. d = c /\ pc[t] = "blocked" /\ State[t] = "Blocked"
      BY <1>7, <2>1, <2>2, <2>3 DEF StateInv
    <3>2. ~In(ReadyThreadsList, t)
      BY <2>1, <3>1, <1>0 DEF ReadyInv
    <3>3. next = t => t = Idle[c]
      BY <1>1, <3>1, <3>2
    <3> QED
      BY <1>0, <1>4, <2>3, <3>1, <3>3
  <2>4. CASE u # t
    <3>1. ~In(ReadyThreadsList, u)
      BY <2>1, <2>2, <2>4 DEF ReadyInv
    <3>2. d # c
      <4>1. CurrentThread[c] # u
        BY <2>4
      <4>2. pc[CurrentThread[c]] # "cleanup"
        OBVIOUS
      <4> QED
        BY <2>1, <4>1, <4>2 DEF BlockInv
    <3>3. u # next
      <4>1. ~In(list, u)
        BY <3>1, <2>4
      <4>2. CASE u = Idle[c]
        BY <2>1, <3>2, <4>2 DEF BlockInv, IdleInv
      <4> QED
        BY <1>1, <4>1, <4>2
    <3>4. CurrentThread[d] # t
      BY <2>1, <3>2 DEF CpuInv, OneCpuPerThread
    <3>5. \/ CurrentThread[d] = u /\ pc[u] \in {"block", "blocked"}
          \/ /\ PreviousThread[d] = u /\ pc[CurrentThread[d]] = "cleanup"
             /\ State[u] = "Blocked"
             /\ (CurrentThread[d] = u /\ u = Idle[d]) \/ pc[u] = "off"
      BY <2>1 DEF BlockInv
    <3> QED
      BY <1>4, <2>4, <3>2, <3>3, <3>4, <3>5
  <2> QED
    BY <2>3, <2>4
<1>11. WaitInv'
  <2>1. WaitInv /\ IdleInv /\ CpuInv
    BY DEF IInv
  <2> SUFFICES ASSUME NEW o \in Waitables, NEW u \in Threads, In(WaitingList[o], u)
               PROVE  /\ ~In(ReadyThreadsList', u)
                      /\ pc'[u] = "off" \/ (pc'[u] \in {"block", "blocked"} /\ BlockLock[u] # None)
                      /\ pc'[u] # "block" => State'[u] = "Blocked"
    BY <2>1 DEF WaitInv
  <2>2. /\ ~In(ReadyThreadsList, u)
        /\ pc[u] = "off" \/ (pc[u] \in {"block", "blocked"} /\ BlockLock[u] # None)
        /\ pc[u] # "block" => State[u] = "Blocked"
    BY <2>1 DEF WaitInv
  <2>3. ~In(list, u)
    BY <2>2
  <2>4. u # Idle[c]
    BY <2>1, SMTT(30) DEF IdleInv, IdleThreads
  <2>5. u # next
    BY <1>1, <2>3, <2>4
  <2> QED
    BY <1>4, <2>2, <2>3, <2>5
<1>12. StateInv'
  BY <1>0, <1>1 DEF IInv, StateInv, TypeOK
<1>13. LostInv'
  <2> SUFFICES ASSUME NEW u \in Threads \ IdleThreads
               PROVE  /\ pc'[u] \in {"block", "blocked"} => \E o \in Waitables : In(WaitingList[o], u)
                      /\ pc'[u] = "off" /\ State'[u] # "Dying" =>
                            In(ReadyThreadsList', u) \/ \E o \in Waitables : In(WaitingList[o], u)
    BY DEF LostInv
  <2>1. LostInv /\ StateInv
    BY DEF IInv
  <2>2. CASE u = t
    <3>1. u # Idle[c]
      BY DEF IdleThreads
    <3> QED
      BY <1>0, <1>4, <2>1, <2>2, <3>1 DEF LostInv, StateInv
  <2>3. CASE u # t
    BY <1>4, <2>1, <2>3 DEF LostInv
  <2> QED
    BY <2>2, <2>3
<1> QED
  BY <1>3, <1>5, <1>6, <1>8, <1>9, <1>10, <1>11, <1>12, <1>13 DEF IInv

----------------------------------------------------------------------------
\* The steps that do not schedule.

\* _ThreadGetReadyThread returns a thread that is switched out, or the caller itself.
LEMMA NextIsOff ==
    ASSUME ThreadAssumption, IInv, NEW c \in Cpus, NEW list,
           list = ReadyThreadsList \/ list = Append(ReadyThreadsList, CurrentThread[c])
    PROVE  /\ GetReadyThread(c, list) \in Threads
           /\ GetReadyThread(c, list) = CurrentThread[c] \/ pc[GetReadyThread(c, list)] = "off"
<1>1. ReadyThreadsList \in Seq(Threads) /\ CurrentThread[c] \in Threads /\ Idle[c] \in Threads
  BY DEF IInv, TypeOK, ThreadAssumption
<1>2. CASE list = <<>>
  <2>1. Idle[c] = CurrentThread[c] \/ pc[Idle[c]] \in {"new", "off"}
    BY <1>1 DEF IInv, CpuInv, IdleInv
  <2>2. pc[Idle[c]] # "new"
    BY DEF IInv, IdleInv, IdleThreads
  <2> QED
    BY <1>1, <1>2, <2>1, <2>2 DEF GetReadyThread
<1>3. CASE list # <<>>
  <2>1. /\ list \in Seq(Threads) /\ Head(list) = list[1] /\ list[1] \in Threads
    BY <1>1, <1>3
  <2>2. CASE ReadyThreadsList = <<>>
    <3>1. list = <<CurrentThread[c]>>
      BY <1>3, <2>2
    <3> QED
      BY <1>1, <1>3, <3>1 DEF GetReadyThread
  <2>3. CASE ReadyThreadsList # <<>>
    <3>1. list[1] = ReadyThreadsList[1] /\ 1 \in DOMAIN ReadyThreadsList
      BY <1>1, <2>3
    <3>2. In(ReadyThreadsList, list[1])
      BY <3>1 DEF In
    <3> QED
      BY <1>3, <2>1, <3>2 DEF IInv, ReadyInv, GetReadyThread
  <2> QED
    BY <2>2, <2>3
<1> QED
  BY <1>2, <1>3

\* ThreadYield up to ReadyThreadsLock: nobody is marked, so no thread exits here.
LEMMA YieldInv ==
    ASSUME ThreadAssumption, IInv, NEW c \in Cpus, ThreadYield(c)
    PROVE  IInv'
<1> DEFINE t == CurrentThread[c]
<1>0. t \in Threads
  BY DEF IInv, TypeOK
<1>1. TypeOK'
  BY <1>0 DEF IInv, TypeOK, States, SchedLabels, Interruptible, ThreadYield, YieldAt, Goto, Interruptible
<1>2. FlagsInv'
  BY <1>0 DEF IInv, FlagsInv, ThreadYield, YieldAt, Goto, Interruptible
<1>3. CpuInv'
  BY <1>0 DEF IInv, CpuInv, OneCpuPerThread, TypeOK, ThreadYield, YieldAt, Goto, Interruptible
<1>4. IdleInv'
  BY <1>0 DEF IInv, IdleInv, FlagsInv, TypeOK, IdleThreads, ThreadAssumption, ThreadYield, YieldAt, Goto
<1>5. ReadyInv'
  BY <1>0 DEF IInv, ReadyInv, TypeOK, ThreadYield, YieldAt, Goto, Interruptible
<1>6. BlockInv'
  BY <1>0 DEF IInv, BlockInv, TypeOK, CpuInv, OneCpuPerThread, ThreadYield, YieldAt, Goto, Interruptible
<1>7. WaitInv'
  BY <1>0 DEF IInv, WaitInv, TypeOK, BlockInv, ThreadYield, YieldAt, Goto, Interruptible
<1>8. StateInv'
  BY <1>0 DEF IInv, StateInv, TypeOK, ThreadYield, YieldAt, Goto, Interruptible
<1>9. LostInv'
  BY <1>0 DEF IInv, LostInv, TypeOK, IdleThreads, ThreadYield, YieldAt, Goto, Interruptible
<1> QED
  BY <1>1, <1>2, <1>3, <1>4, <1>5, <1>6, <1>7, <1>8, <1>9 DEF IInv

\* A call of ThreadExit.
LEMMA CallExitInv ==
    ASSUME ThreadAssumption, IInv, NEW c \in Cpus, CallThreadExit(c)
    PROVE  IInv'
<1> DEFINE t == CurrentThread[c]
<1>0. t \in Threads
  BY DEF IInv, TypeOK
<1>1. TypeOK'
  BY <1>0 DEF IInv, TypeOK, States, SchedLabels, Interruptible, CallThreadExit, Goto, IdleThreads
<1>2. FlagsInv'
  BY <1>0 DEF IInv, FlagsInv, CallThreadExit, Goto, IdleThreads
<1>3. CpuInv'
  BY <1>0 DEF IInv, CpuInv, OneCpuPerThread, TypeOK, CallThreadExit, Goto, IdleThreads
<1>4. IdleInv'
  BY <1>0 DEF IInv, IdleInv, TypeOK, IdleThreads, ThreadAssumption, CallThreadExit, Goto, IdleThreads
<1>5. ReadyInv'
  BY <1>0 DEF IInv, ReadyInv, TypeOK, CallThreadExit, Goto, IdleThreads
<1>6. BlockInv'
  BY <1>0 DEF IInv, BlockInv, TypeOK, CpuInv, OneCpuPerThread, CallThreadExit, Goto, IdleThreads
<1>7. WaitInv'
  BY <1>0 DEF IInv, WaitInv, TypeOK, BlockInv, CallThreadExit, Goto, IdleThreads
<1>8. StateInv'
  BY <1>0 DEF IInv, StateInv, TypeOK, CallThreadExit, Goto, IdleThreads
<1>9. LostInv'
  BY <1>0 DEF IInv, LostInv, TypeOK, IdleThreads, CallThreadExit, Goto, IdleThreads
<1> QED
  BY <1>1, <1>2, <1>3, <1>4, <1>5, <1>6, <1>7, <1>8, <1>9 DEF IInv

\* ThreadBlock up to ReadyThreadsLock.
LEMMA BlockStepInv ==
    ASSUME ThreadAssumption, IInv, NEW c \in Cpus, ThreadBlock(c)
    PROVE  IInv'
<1> DEFINE t == CurrentThread[c]
<1>0. t \in Threads
  BY DEF IInv, TypeOK
<1>1. TypeOK'
  BY <1>0 DEF IInv, TypeOK, States, SchedLabels, Interruptible, ThreadBlock, Goto, FlagsInv
<1>2. FlagsInv'
  BY <1>0 DEF IInv, FlagsInv, ThreadBlock, Goto, FlagsInv
<1>3. CpuInv'
  BY <1>0 DEF IInv, CpuInv, OneCpuPerThread, TypeOK, ThreadBlock, Goto, FlagsInv
<1>4. IdleInv'
  BY <1>0 DEF IInv, IdleInv, TypeOK, IdleThreads, ThreadAssumption, ThreadBlock, Goto, FlagsInv
<1>5. ReadyInv'
  BY <1>0 DEF IInv, ReadyInv, TypeOK, ThreadBlock, Goto, FlagsInv
<1>6. BlockInv'
  BY <1>0 DEF IInv, BlockInv, TypeOK, CpuInv, OneCpuPerThread, ThreadBlock, Goto, FlagsInv
<1>7. WaitInv'
  BY <1>0 DEF IInv, WaitInv, TypeOK, BlockInv, ThreadBlock, Goto, FlagsInv
<1>8. StateInv'
  BY <1>0 DEF IInv, StateInv, TypeOK, ThreadBlock, Goto, FlagsInv
<1>9. LostInv'
  BY <1>0 DEF IInv, LostInv, TypeOK, IdleThreads, ThreadBlock, Goto, FlagsInv
<1> QED
  BY <1>1, <1>2, <1>3, <1>4, <1>5, <1>6, <1>7, <1>8, <1>9 DEF IInv

\* ThreadExit: the dying thread owns no BlockLock and is linked nowhere.
LEMMA ExitInv ==
    ASSUME ThreadAssumption, IInv, NEW c \in Cpus, ThreadExit(c)
    PROVE  IInv'
<1> DEFINE t == CurrentThread[c]
<1>0. t \in Threads
  BY DEF IInv, TypeOK
<1>1. TypeOK'
  BY <1>0 DEF IInv, TypeOK, States, SchedLabels, Interruptible, ThreadExit, Goto
<1>2. FlagsInv'
  BY <1>0 DEF IInv, FlagsInv, ThreadExit, Goto
<1>3. CpuInv'
  BY <1>0 DEF IInv, CpuInv, OneCpuPerThread, TypeOK, ThreadExit, Goto
<1>4. IdleInv'
  BY <1>0 DEF IInv, IdleInv, TypeOK, IdleThreads, ThreadAssumption, ThreadExit, Goto
<1>5. ReadyInv'
  BY <1>0 DEF IInv, ReadyInv, TypeOK, ThreadExit, Goto
<1>6. BlockInv'
  BY <1>0 DEF IInv, BlockInv, TypeOK, CpuInv, OneCpuPerThread, ThreadExit, Goto
<1>7. WaitInv'
  BY <1>0 DEF IInv, WaitInv, TypeOK, BlockInv, ThreadExit, Goto
<1>8. StateInv'
  BY <1>0 DEF IInv, StateInv, TypeOK, ThreadExit, Goto
<1>9. LostInv'
  BY <1>0 DEF IInv, LostInv, TypeOK, IdleThreads, ThreadExit, Goto
<1> QED
  BY <1>1, <1>2, <1>3, <1>4, <1>5, <1>6, <1>7, <1>8, <1>9 DEF IInv

\* The idle thread takes its BlockLock.
LEMMA IdleTakeInv ==
    ASSUME ThreadAssumption, IInv, NEW c \in Cpus, IdleTakeBlockLock(c)
    PROVE  IInv'
<1> DEFINE t == CurrentThread[c]
<1>0. t \in Threads
  BY DEF IInv, TypeOK
<1>1. TypeOK'
  BY <1>0 DEF IInv, TypeOK, States, SchedLabels, Interruptible, IdleTakeBlockLock, Goto
<1>2. FlagsInv'
  BY <1>0 DEF IInv, FlagsInv, IdleTakeBlockLock, Goto
<1>3. CpuInv'
  BY <1>0 DEF IInv, CpuInv, OneCpuPerThread, TypeOK, IdleTakeBlockLock, Goto
<1>4. IdleInv'
  BY <1>0 DEF IInv, IdleInv, TypeOK, IdleThreads, ThreadAssumption, IdleTakeBlockLock, Goto
<1>5. ReadyInv'
  BY <1>0 DEF IInv, ReadyInv, TypeOK, IdleTakeBlockLock, Goto
<1>6. BlockInv'
  BY <1>0 DEF IInv, BlockInv, TypeOK, CpuInv, OneCpuPerThread, IdleTakeBlockLock, Goto
<1>7. WaitInv'
  BY <1>0 DEF IInv, WaitInv, TypeOK, BlockInv, IdleTakeBlockLock, Goto
<1>8. StateInv'
  BY <1>0 DEF IInv, StateInv, TypeOK, IdleTakeBlockLock, Goto
<1>9. LostInv'
  <2>1. t \in IdleThreads /\ \A u \in Threads : u # t => pc'[u] = pc[u]
    BY <1>0 DEF IdleTakeBlockLock, Goto, IdleThreads, IInv, TypeOK
  <2>2. UNCHANGED <<State, ReadyThreadsList, WaitingList>> /\ LostInv
    BY DEF IdleTakeBlockLock, IInv
  <2> QED
    BY <2>1, <2>2 DEF LostInv
<1> QED
  BY <1>1, <1>2, <1>3, <1>4, <1>5, <1>6, <1>7, <1>8, <1>9 DEF IInv

\* The thread that runs next releases the BlockLock of its predecessor, which has
\* left the CPU.
LEMMA CleanupBlockInv ==
    ASSUME ThreadAssumption, IInv, NEW c \in Cpus, CleanupBlockLock(c)
    PROVE  IInv'
<1> DEFINE t == CurrentThread[c]
<1>0. t \in Threads /\ ret[t] \in {"run", "idle"}
  BY DEF IInv, TypeOK, Interruptible
<1>1. TypeOK'
  BY <1>0 DEF IInv, TypeOK, States, SchedLabels, Interruptible, CleanupBlockLock, Goto
<1>2. FlagsInv'
  BY <1>0 DEF IInv, FlagsInv, CleanupBlockLock, Goto
<1>3. CpuInv'
  BY <1>0 DEF IInv, CpuInv, OneCpuPerThread, TypeOK, CleanupBlockLock, Goto
<1>4. IdleInv'
  <2>1. pc'[t] \in {"run", "idle", "cleanup2"} /\ \A u \in Threads : u # t => pc'[u] = pc[u]
    BY <1>0 DEF IInv, TypeOK, CleanupBlockLock, Goto
  <2>2. \A u \in IdleThreads : u \in Threads
    BY DEF IdleThreads, ThreadAssumption
  <2> QED
    BY <1>0, <2>1, <2>2 DEF IInv, IdleInv, CleanupBlockLock
<1>5. ReadyInv'
  BY <1>0 DEF IInv, ReadyInv, TypeOK, CleanupBlockLock, Goto
<1>6. BlockInv'
  BY <1>0 DEF IInv, BlockInv, TypeOK, CpuInv, OneCpuPerThread, CleanupBlockLock, Goto
<1>7. WaitInv'
  BY <1>0 DEF IInv, WaitInv, TypeOK, BlockInv, CleanupBlockLock, Goto
<1>8. StateInv'
  BY <1>0 DEF IInv, StateInv, TypeOK, CleanupBlockLock, Goto
<1>9. LostInv'
  BY <1>0 DEF IInv, LostInv, TypeOK, IdleThreads, CleanupBlockLock, Goto
<1> QED
  BY <1>1, <1>2, <1>3, <1>4, <1>5, <1>6, <1>7, <1>8, <1>9 DEF IInv

\* The thread that runs next drops the reference of a dying predecessor.
LEMMA CleanupDyingInv ==
    ASSUME ThreadAssumption, IInv, NEW c \in Cpus, CleanupDying(c)
    PROVE  IInv'
<1> DEFINE t == CurrentThread[c]
<1>0. t \in Threads /\ ret[t] \in {"run", "idle"}
  BY DEF IInv, TypeOK, Interruptible
<1>1. TypeOK'
  <2>1. \A u \in Threads : RefCnt[u] - 1 \in Int
    BY DEF IInv, TypeOK
  <2>2. RefCnt' \in [Threads -> Int] /\ PreviousThread' \in [Cpus -> Threads \cup {None}]
    <3>1. CASE /\ RefCnt' = [RefCnt EXCEPT ![PreviousThread[c]] = @ - 1]
               /\ PreviousThread' = [PreviousThread EXCEPT ![c] = None]
      BY <2>1, <3>1 DEF IInv, TypeOK
    <3>2. CASE UNCHANGED <<RefCnt, PreviousThread>>
      BY <3>2 DEF IInv, TypeOK
    <3> QED
      BY <3>1, <3>2 DEF CleanupDying
  <2>3. pc' \in [Threads -> SchedLabels \cup Interruptible]
    BY <1>0 DEF IInv, TypeOK, CleanupDying, Goto, Interruptible
  <2> QED
    BY <2>2, <2>3 DEF IInv, TypeOK, CleanupDying
<1>2. FlagsInv'
  BY <1>0 DEF IInv, FlagsInv, CleanupDying, Goto
<1>3. CpuInv'
  BY <1>0 DEF IInv, CpuInv, OneCpuPerThread, TypeOK, CleanupDying, Goto
<1>4. IdleInv'
  BY <1>0, SMTT(30) DEF IInv, IdleInv, TypeOK, IdleThreads, ThreadAssumption, CleanupDying, Goto
<1>5. ReadyInv'
  BY <1>0 DEF IInv, ReadyInv, TypeOK, CleanupDying, Goto
<1>6. BlockInv'
  BY <1>0 DEF IInv, BlockInv, TypeOK, CpuInv, OneCpuPerThread, CleanupDying, Goto
<1>7. WaitInv'
  BY <1>0 DEF IInv, WaitInv, TypeOK, BlockInv, CleanupDying, Goto
<1>8. StateInv'
  BY <1>0 DEF IInv, StateInv, TypeOK, CleanupDying, Goto
<1>9. LostInv'
  BY <1>0 DEF IInv, LostInv, TypeOK, IdleThreads, CleanupDying, Goto
<1> QED
  BY <1>1, <1>2, <1>3, <1>4, <1>5, <1>6, <1>7, <1>8, <1>9 DEF IInv

\* ThreadCloseHandle changes no scheduling state.
LEMMA CloseInv ==
    ASSUME ThreadAssumption, IInv, NEW c \in Cpus, NEW u \in Threads, ThreadCloseHandle(c, u)
    PROVE  IInv'
<1> DEFINE t == CurrentThread[c]
<1>0. t \in Threads
  BY DEF IInv, TypeOK
<1>1. TypeOK'
  BY <1>0 DEF IInv, TypeOK, States, SchedLabels, Interruptible, ThreadCloseHandle
<1>2. FlagsInv'
  BY <1>0 DEF IInv, FlagsInv, ThreadCloseHandle
<1>3. CpuInv'
  BY <1>0 DEF IInv, CpuInv, OneCpuPerThread, TypeOK, ThreadCloseHandle
<1>4. IdleInv'
  BY <1>0 DEF IInv, IdleInv, TypeOK, IdleThreads, ThreadAssumption, ThreadCloseHandle
<1>5. ReadyInv'
  BY <1>0 DEF IInv, ReadyInv, TypeOK, ThreadCloseHandle
<1>6. BlockInv'
  BY <1>0 DEF IInv, BlockInv, TypeOK, CpuInv, OneCpuPerThread, ThreadCloseHandle
<1>7. WaitInv'
  BY <1>0 DEF IInv, WaitInv, TypeOK, BlockInv, ThreadCloseHandle
<1>8. StateInv'
  BY <1>0 DEF IInv, StateInv, TypeOK, ThreadCloseHandle
<1>9. LostInv'
  BY <1>0 DEF IInv, LostInv, TypeOK, IdleThreads, ThreadCloseHandle
<1> QED
  BY <1>1, <1>2, <1>3, <1>4, <1>5, <1>6, <1>7, <1>8, <1>9 DEF IInv

\* The current thread links itself into a waiting list and takes its BlockLock.
LEMMA WaitAtInv ==
    ASSUME ThreadAssumption, IInv, NEW c \in Cpus, NEW o \in Waitables,
           NEW l \in Interruptible, pc[CurrentThread[c]] = "run", WaitAt(c, o, l)
    PROVE  IInv'
<1> DEFINE t == CurrentThread[c]
           w == Append(WaitingList[o], t)
<1>0. t \in Threads /\ WaitingList[o] \in Seq(Threads) /\ t \notin IdleThreads
  BY DEF IInv, TypeOK, IdleInv, IdleThreads, WaitAt
<1>1. \A p \in Waitables : ~In(WaitingList[p], t)
  BY <1>0 DEF IInv, WaitInv
<1>2. /\ w \in Seq(Threads) /\ Inj(w)
      /\ \A u : In(w, u) <=> In(WaitingList[o], u) \/ u = t
  BY <1>0, <1>1, AppendIn DEF IInv, WaitInv
<1>3. /\ WaitingList' = [WaitingList EXCEPT ![o] = w]
      /\ \A p \in Waitables : WaitingList'[p] = IF p = o THEN w ELSE WaitingList[p]
  BY DEF IInv, TypeOK, WaitAt
<1>4. /\ \A u \in Threads : pc'[u] = IF u = t THEN "block" ELSE pc[u]
      /\ \A u \in Threads : BlockLock'[u] = IF u = t THEN c ELSE BlockLock[u]
      /\ c # None
  BY <1>0 DEF IInv, TypeOK, WaitAt, Goto, ThreadAssumption
<1> HIDE DEF w
<1>5. TypeOK'
  BY <1>0, <1>2, <1>3 DEF IInv, TypeOK, WaitAt, Goto, SchedLabels
<1>6. \A p \in Waitables, u \in Threads :
          In(WaitingList'[p], u) <=> In(WaitingList[p], u) \/ (p = o /\ u = t)
  BY <1>2, <1>3
<1>7. FlagsInv' /\ CpuInv' /\ StateInv' /\ ReadyInv'
  BY <1>0, <1>4 DEF IInv, FlagsInv, CpuInv, OneCpuPerThread, StateInv, ReadyInv, TypeOK, WaitAt
<1>8. IdleInv'
  <2>1. \A u \in IdleThreads : u \in Threads
    BY DEF IdleThreads, ThreadAssumption
  <2> QED
    BY <1>0, <1>4, <1>6, <2>1 DEF IInv, IdleInv, WaitAt
<1>9. BlockInv'
  BY <1>0, <1>4 DEF IInv, BlockInv, TypeOK, CpuInv, OneCpuPerThread, WaitAt
<1>10. WaitInv'
  <2>1. \A p \in Waitables : Inj(WaitingList'[p])
    BY <1>2, <1>3 DEF IInv, WaitInv
  <2>2. \A p, q \in Waitables, u \in Threads :
            In(WaitingList'[p], u) /\ In(WaitingList'[q], u) => p = q
    BY <1>1, <1>6 DEF IInv, WaitInv
  <2>3. ASSUME NEW p \in Waitables, NEW u \in Threads, In(WaitingList'[p], u)
        PROVE  /\ ~In(ReadyThreadsList', u)
               /\ pc'[u] = "off" \/ (pc'[u] \in {"block", "blocked"} /\ BlockLock'[u] # None)
               /\ pc'[u] # "block" => State'[u] = "Blocked"
    <3>1. CASE u = t
      BY <1>0, <1>4, <3>1 DEF IInv, ReadyInv, WaitAt
    <3>2. CASE u # t
      BY <1>4, <1>6, <2>3, <3>2 DEF IInv, WaitInv, WaitAt
    <3> QED
      BY <3>1, <3>2
  <2> QED
    BY <2>1, <2>2, <2>3 DEF WaitInv
<1>11. LostInv'
  <2>1. /\ \A u \in Threads : u # t => pc'[u] = pc[u]
        /\ pc'[t] = "block"
        /\ State' = State /\ ReadyThreadsList' = ReadyThreadsList
    BY <1>0, <1>4 DEF WaitAt
  <2> QED
    BY <1>0, <1>6, <2>1 DEF IInv, LostInv
<1> QED
  BY <1>5, <1>7, <1>8, <1>9, <1>10, <1>11 DEF IInv

\* ThreadUnblock of a thread u that is not linked anywhere (any more).
LEMMA UnblockInv ==
    ASSUME ThreadAssumption, IInv, NEW u \in Threads \ IdleThreads,
           ThreadUnblock(u), pc' = [pc EXCEPT ![u] = "off"], pc[u] \in {"new", "off"},
           ~In(ReadyThreadsList, u),
           WaitingList' \in [Waitables -> Seq(Threads)],
           \A p \in Waitables : Inj(WaitingList'[p]),
           \A p \in Waitables, x \in Threads :
               In(WaitingList'[p], x) <=> In(WaitingList[p], x) /\ x # u,
           RefCnt' \in [Threads -> Int], Handle' \in [Threads -> BOOLEAN],
           UNCHANGED <<Flags, BlockLock, CurrentThread, PreviousThread, ret>>
    PROVE  IInv'
<1>1. /\ ReadyThreadsList' \in Seq(Threads) /\ Inj(ReadyThreadsList')
      /\ \A x : In(ReadyThreadsList', x) <=> In(ReadyThreadsList, x) \/ x = u
  BY AppendIn DEF IInv, TypeOK, ReadyInv, ThreadUnblock
<1>2. /\ \A x \in Threads : pc'[x] = IF x = u THEN "off" ELSE pc[x]
      /\ \A x \in Threads : State'[x] = IF x = u THEN "Ready" ELSE State[x]
      /\ BlockLock[u] = None
  BY DEF IInv, TypeOK, ThreadUnblock
<1>3. TypeOK'
  BY <1>1 DEF IInv, TypeOK, ThreadUnblock, States, SchedLabels
<1>4. FlagsInv' /\ StateInv'
  BY <1>2 DEF IInv, FlagsInv, StateInv
<1>5. CpuInv'
  BY <1>2 DEF IInv, CpuInv, OneCpuPerThread, TypeOK
<1>6. IdleInv'
  <2>1. \A x \in IdleThreads : x \in Threads /\ x # u
    BY DEF IdleThreads, ThreadAssumption
  <2> QED
    BY <1>1, <1>2, <2>1 DEF IInv, IdleInv
<1>7. ReadyInv'
  BY <1>1, <1>2 DEF IInv, ReadyInv
<1>8. BlockInv'
  <2>1. \A d \in Cpus : CurrentThread[d] \in Threads /\ CurrentThread[d] # u /\ d # None
    BY DEF IInv, TypeOK, CpuInv, ThreadAssumption
  <2> QED
    BY <1>2, <2>1 DEF IInv, BlockInv
<1>9. WaitInv'
  <2>1. WaitInv
    BY DEF IInv
  <2>2. \A p, q \in Waitables, x \in Threads :
            In(WaitingList'[p], x) /\ In(WaitingList'[q], x) => p = q
    BY <2>1 DEF WaitInv
  <2>3. ASSUME NEW p \in Waitables, NEW x \in Threads, In(WaitingList'[p], x)
        PROVE  /\ ~In(ReadyThreadsList', x)
               /\ pc'[x] = "off" \/ (pc'[x] \in {"block", "blocked"} /\ BlockLock'[x] # None)
               /\ pc'[x] # "block" => State'[x] = "Blocked"
    <3>1. In(WaitingList[p], x) /\ x # u
      BY <2>3
    <3>2. /\ ~In(ReadyThreadsList, x)
          /\ pc[x] = "off" \/ (pc[x] \in {"block", "blocked"} /\ BlockLock[x] # None)
          /\ pc[x] # "block" => State[x] = "Blocked"
      BY <2>1, <3>1 DEF WaitInv
    <3> QED
      BY <1>1, <1>2, <3>1, <3>2
  <2> QED
    BY <2>2, <2>3 DEF WaitInv
<1>10. LostInv'
  BY <1>1, <1>2 DEF IInv, LostInv
<1> QED
  BY <1>3, <1>4, <1>5, <1>6, <1>7, <1>8, <1>9, <1>10 DEF IInv

\* The first waiter of o is made ready.
LEMMA WakeAtInv ==
    ASSUME ThreadAssumption, IInv, NEW c \in Cpus, NEW o \in Waitables,
           WakeAt(c, o, pc[CurrentThread[c]])
    PROVE  IInv'
<1> DEFINE u == Head(WaitingList[o])
           w == Tail(WaitingList[o])
<1>1. /\ WaitingList[o] \in Seq(Threads) /\ WaitingList[o] # <<>>
      /\ Inj(WaitingList[o])
  BY DEF IInv, TypeOK, WaitInv, WakeAt
<1>2. /\ w \in Seq(Threads) /\ u \in Threads /\ Inj(w) /\ In(WaitingList[o], u)
      /\ \A x : In(w, x) <=> In(WaitingList[o], x) /\ x # u
  BY <1>1, TailIn
<1>3. /\ ThreadUnblock(u)
      /\ WaitingList' = [WaitingList EXCEPT ![o] = w]
      /\ UNCHANGED <<Flags, BlockLock, RefCnt, Handle, CurrentThread, PreviousThread, ret>>
  BY DEF WakeAt
<1>4. BlockLock[u] = None
  BY DEF WakeAt, ThreadUnblock
<1> HIDE DEF u, w
<1>5. pc[u] = "off" /\ ~In(ReadyThreadsList, u) /\ u \notin IdleThreads
  BY <1>2, <1>4 DEF IInv, WaitInv, IdleInv
<1>6. pc' = [pc EXCEPT ![u] = "off"]
  <2>1. pc' = pc
    BY DEF IInv, TypeOK, WakeAt, Goto
  <2> QED
    BY <1>2, <1>5, <2>1 DEF IInv, TypeOK
<1>7. /\ WaitingList' \in [Waitables -> Seq(Threads)]
      /\ \A p \in Waitables : Inj(WaitingList'[p])
  BY <1>2, <1>3 DEF IInv, TypeOK, WaitInv
<1>8. \A p \in Waitables, x \in Threads :
          In(WaitingList'[p], x) <=> In(WaitingList[p], x) /\ x # u
  <2>1. \A p \in Waitables : p # o => ~In(WaitingList[p], u)
    BY <1>2 DEF IInv, WaitInv
  <2>2. \A p \in Waitables : WaitingList'[p] = IF p = o THEN w ELSE WaitingList[p]
    BY <1>3 DEF IInv, TypeOK
  <2> QED
    BY <1>2, <2>1, <2>2
<1> QED
  BY <1>2, <1>3, <1>5, <1>6, <1>7, <1>8, UnblockInv DEF IInv, TypeOK

\* ThreadCreate makes the new thread ready.
LEMMA CreateInv ==
    ASSUME ThreadAssumption, IInv, NEW c \in Cpus, NEW u \in Threads, ThreadCreate(c, u)
    PROVE  IInv'
<1>1. pc[u] = "new" /\ ThreadUnblock(u) /\ pc' = [pc EXCEPT ![u] = "off"]
  BY DEF ThreadCreate, Goto
<1>2. ~In(ReadyThreadsList, u) /\ u \notin IdleThreads
  BY <1>1 DEF IInv, ReadyInv, IdleInv
<1>3. \A p \in Waitables : ~In(WaitingList[p], u)
  BY <1>1 DEF IInv, WaitInv
<1>4. /\ WaitingList' = WaitingList
      /\ UNCHANGED <<Flags, BlockLock, CurrentThread, PreviousThread, ret>>
  BY DEF ThreadCreate
<1>5. RefCnt' \in [Threads -> Int] /\ Handle' \in [Threads -> BOOLEAN]
  BY DEF IInv, TypeOK, ThreadCreate
<1>6. /\ WaitingList' \in [Waitables -> Seq(Threads)]
      /\ \A p \in Waitables : Inj(WaitingList'[p])
      /\ \A p \in Waitables, x \in Threads :
              In(WaitingList'[p], x) <=> In(WaitingList[p], x) /\ x # u
  BY <1>3, <1>4 DEF IInv, TypeOK, WaitInv
<1> QED
  BY <1>1, <1>2, <1>4, <1>5, <1>6, UnblockInv

----------------------------------------------------------------------------
\* The remaining ways into _ThreadSchedule and out of ThreadExit.

\* ThreadYield under ReadyThreadsLock.
LEMMA YieldScheduleInv ==
    ASSUME ThreadAssumption, IInv, NEW c \in Cpus, YieldSchedule(c)
    PROVE  IInv'
<1> DEFINE t == CurrentThread[c]
           list == IF t = Idle[c] THEN ReadyThreadsList ELSE Append(ReadyThreadsList, t)
<1>1. t \in Threads /\ ReadyThreadsList \in Seq(Threads) /\ Inj(ReadyThreadsList)
  BY DEF IInv, TypeOK, ReadyInv
<1>2. pc[t] = "yield" /\ ~In(ReadyThreadsList, t)
  BY <1>1 DEF IInv, ReadyInv, YieldSchedule
<1>3. /\ list \in Seq(Threads) /\ Inj(list)
      /\ \A u : In(list, u) <=> In(ReadyThreadsList, u)
                                \/ (pc[t] = "yield" /\ t # Idle[c] /\ u = t)
  <2>1. CASE t = Idle[c]
    BY <1>1, <2>1
  <2>2. CASE t # Idle[c]
    BY <1>1, <1>2, <2>2, AppendIn
  <2> QED
    BY <2>1, <2>2
<1>4. /\ Schedule(c, t, list)
      /\ State' = [State EXCEPT ![t] = IF pc[t] = "yield" THEN "Ready" ELSE State[t]]
      /\ UNCHANGED <<Flags, BlockLock, RefCnt, Handle, WaitingList, ret>>
  BY <1>2 DEF YieldSchedule
<1> HIDE DEF list
<1> QED
  BY <1>2, <1>3, <1>4, ScheduleInv

\* ThreadBlock and ThreadExit under ReadyThreadsLock.
LEMMA OffScheduleInv ==
    ASSUME ThreadAssumption, IInv, NEW c \in Cpus, BlockSchedule(c) \/ ExitSchedule(c)
    PROVE  IInv'
<1> DEFINE t == CurrentThread[c]
<1>1. t \in Threads /\ ReadyThreadsList \in Seq(Threads) /\ Inj(ReadyThreadsList)
  BY DEF IInv, TypeOK, ReadyInv
<1>2. /\ pc[t] \in {"blocked", "dead"} /\ Schedule(c, t, ReadyThreadsList)
      /\ UNCHANGED <<State, Flags, BlockLock, RefCnt, Handle, WaitingList, ret>>
  BY DEF BlockSchedule, ExitSchedule
<1>3. State' = [State EXCEPT ![t] = IF pc[t] = "yield" THEN "Ready" ELSE State[t]]
  BY <1>1, <1>2 DEF IInv, TypeOK
<1> QED
  BY <1>1, <1>2, <1>3, ScheduleInv

\* The signalling of the termination event, waiter by waiter.
LEMMA ExitSignalInv ==
    ASSUME ThreadAssumption, IInv, NEW c \in Cpus, ExitSignal(c)
    PROVE  IInv'
<1> DEFINE t == CurrentThread[c]
<1>0. t \in Threads /\ t \in Waitables /\ pc[t] = "signal"
  BY DEF IInv, TypeOK, Waitables, ExitSignal
<1>1. CASE WakeAt(c, t, "signal")
  BY <1>0, <1>1, WakeAtInv
<1>2. CASE /\ Goto(t, "dead")
           /\ UNCHANGED <<State, Flags, BlockLock, RefCnt, Handle, ReadyThreadsList,
                          WaitingList, CurrentThread, PreviousThread, ret>>
  <2>1. TypeOK' /\ FlagsInv'
    BY <1>0, <1>2 DEF IInv, TypeOK, FlagsInv, Goto, SchedLabels
  <2>2. CpuInv' /\ StateInv'
    BY <1>0, <1>2 DEF IInv, CpuInv, OneCpuPerThread, StateInv, TypeOK, Goto
  <2>3. IdleInv'
    BY <1>0, <1>2 DEF IInv, IdleInv, TypeOK, Goto
  <2>4. ReadyInv' /\ BlockInv'
    BY <1>0, <1>2 DEF IInv, ReadyInv, BlockInv, CpuInv, OneCpuPerThread, TypeOK, Goto
  <2>5. WaitInv' /\ LostInv'
    BY <1>0, <1>2 DEF IInv, WaitInv, LostInv, TypeOK, Goto
  <2> QED
    BY <2>1, <2>2, <2>3, <2>4, <2>5 DEF IInv
<1> QED
  BY <1>1, <1>2 DEF ExitSignal

----------------------------------------------------------------------------
\* The invariant is inductive.

\* The state after the boot satisfies it.
LEMMA InitInv ==
    ASSUME ThreadAssumption, ThreadSystemInit
    PROVE  IInv
<1>1. TypeOK
  BY DEF ThreadAssumption, ThreadSystemInit, TypeOK, States, SchedLabels, Interruptible, Waitables
<1>2. /\ \A x : ~In(ReadyThreadsList, x)
      /\ \A o \in Waitables : \A x : ~In(WaitingList[o], x)
      /\ Inj(ReadyThreadsList) /\ \A o \in Waitables : Inj(WaitingList[o])
  BY DEF ThreadSystemInit, In, Inj
<1>3. FlagsInv
  BY DEF ThreadSystemInit, FlagsInv
<1>4. CpuInv
  BY DEF ThreadAssumption, ThreadSystemInit, CpuInv, OneCpuPerThread, MainThreads, IdleThreads
<1>5. IdleInv
  BY <1>2 DEF ThreadAssumption, ThreadSystemInit, IdleInv, MainThreads, IdleThreads
<1>6. ReadyInv /\ BlockInv
  BY <1>2 DEF ThreadAssumption, ThreadSystemInit, ReadyInv, BlockInv
<1>7. WaitInv
  BY <1>2 DEF WaitInv
<1>8. StateInv /\ LostInv
  BY DEF ThreadSystemInit, StateInv, LostInv
<1> QED
  BY <1>1, <1>3, <1>4, <1>5, <1>6, <1>7, <1>8 DEF IInv

\* Every step keeps it.
LEMMA NextInv ==
    ASSUME ThreadAssumption, Terminable = {}, IInv, [Next]_schedVars
    PROVE  IInv'
<1>1. CASE UNCHANGED schedVars
  <2> USE <1>1 DEF schedVars
  <2>1. TypeOK' /\ FlagsInv' /\ CpuInv' /\ IdleInv'
    BY DEF IInv, TypeOK, FlagsInv, CpuInv, OneCpuPerThread, IdleInv
  <2>2. ReadyInv' /\ BlockInv' /\ WaitInv' /\ StateInv' /\ LostInv'
    BY DEF IInv, ReadyInv, BlockInv, WaitInv, StateInv, LostInv
  <2> QED
    BY <2>1, <2>2 DEF IInv
<1>2. ASSUME NEW c \in Cpus, SchedStep(c) PROVE IInv'
  BY <1>2, YieldScheduleInv, IdleTakeInv, BlockStepInv, OffScheduleInv, ExitInv,
     ExitSignalInv, CleanupBlockInv, CleanupDyingInv DEF SchedStep
<1>3. ASSUME NEW c \in Cpus, ThreadCall(c) PROVE IInv'
  <2>1. ASSUME NEW o \in Waitables, WaitOn(c, o) PROVE IInv'
    BY <2>1, WaitAtInv DEF WaitOn, Interruptible
  <2>2. ASSUME NEW o \in Objects, WakeFirst(c, o) PROVE IInv'
    BY <2>2, WakeAtInv DEF WakeFirst, Waitables
  <2>3. ASSUME NEW u \in Threads, ThreadTerminate(c, u) PROVE FALSE
    BY <2>3 DEF ThreadTerminate
  <2> QED
    BY <1>3, <2>1, <2>2, <2>3, CallExitInv, CreateInv, CloseInv DEF ThreadCall
<1> QED
  BY <1>1, <1>2, <1>3, YieldInv DEF Next

(***************************************************************************)
(* The theorems.  ThreadTerminate is excluded: it can kill a thread that   *)
(* is still linked in a waiting list.                                      *)
(***************************************************************************)

\* The invariant above holds in every reachable state.
THEOREM InvariantHolds ==
    ASSUME Terminable = {}
    PROVE  Spec => []IInv
<1>1. ThreadSystemInit => IInv
  BY InitInv, ThreadAssumption
<1>2. IInv /\ [Next]_schedVars => IInv'
  BY NextInv, ThreadAssumption
<1> QED
  BY <1>1, <1>2, PTL DEF Spec

\* The scheduler state keeps its type: in particular every CPU always has a
\* thread to execute.
THEOREM TypeCorrect ==
    ASSUME Terminable = {}
    PROVE  Spec => []TypeOK
<1>1. IInv => TypeOK
  BY DEF IInv
<1> QED
  BY <1>1, InvariantHolds, PTL

\* No thread ever executes on two CPUs (CurrentThread, set by _ThreadSchedule).
THEOREM NoSharedStack ==
    ASSUME Terminable = {}
    PROVE  Spec => []OneCpuPerThread
<1>1. IInv => OneCpuPerThread
  BY DEF IInv, CpuInv
<1> QED
  BY <1>1, InvariantHolds, PTL

\* ThreadUnblock never makes a thread ready that still executes in ThreadBlock:
\* this is what the BlockLock is for.
THEOREM ReadyThreadsAreOff ==
    ASSUME Terminable = {}
    PROVE  Spec => []ReadyIsOffCpu
<1>1. IInv => ReadyIsOffCpu
  BY DEF IInv, ReadyInv, CpuInv, ReadyIsOffCpu, InReadyList, Running, In
<1> QED
  BY <1>1, InvariantHolds, PTL

\* No thread is lost by the scheduler or linked twice through THREAD.ReadyList.
THEOREM ThreadsAreNotLost ==
    ASSUME Terminable = {}
    PROVE  Spec => []NoThreadLost
<1>1. IInv => NoThreadLost
  BY DEF IInv, ReadyInv, WaitInv, LostInv, NoThreadLost, InReadyList, InWaitingList, In, Inj
<1> QED
  BY <1>1, InvariantHolds, PTL

\* The assertion ThreadStateBlocked == Thread->State of ThreadUnblock holds.
THEOREM WokenThreadIsBlocked ==
    ASSUME Terminable = {}
    PROVE  Spec => []WakesBlockedOnly
<1>1. ASSUME IInv PROVE WakesBlockedOnly
  <2> SUFFICES ASSUME NEW o \in Waitables, WaitingList[o] # <<>>,
                      BlockLock[Head(WaitingList[o])] = None
               PROVE  State[Head(WaitingList[o])] = "Blocked"
    BY DEF WakesBlockedOnly
  <2>1. WaitingList[o] \in Seq(Threads) /\ Inj(WaitingList[o])
    BY <1>1 DEF IInv, TypeOK, WaitInv
  <2>2. Head(WaitingList[o]) \in Threads /\ In(WaitingList[o], Head(WaitingList[o]))
    BY <2>1, TailIn
  <2> QED
    BY <1>1, <2>2 DEF IInv, WaitInv
<1> QED
  BY <1>1, InvariantHolds, PTL

\* What _ThreadSchedule relies on when it switches stacks.
THEOREM StacksAreSafe ==
    ASSUME Terminable = {}
    PROVE  Spec => []OneStackPerCpu
BY NoSharedStack, ReadyThreadsAreOff, PTL DEF OneStackPerCpu

\* What ThreadUnblock and _ThreadSchedule rely on when they unlink a thread.
THEOREM ListsAreExact ==
    ASSUME Terminable = {}
    PROVE  Spec => []ListsExact
BY ThreadsAreNotLost, WokenThreadIsBlocked, PTL DEF ListsExact

\* The BlockLock of a thread is released by the thread that runs next on its CPU,
\* as ThreadCleanupPostSchedule asserts.
THEOREM HandoverIsExact ==
    ASSUME Terminable = {}
    PROVE  Spec => []BlockLockHandover
<1>1. IInv => BlockLockHandover
  BY DEF IInv, BlockInv, BlockLockHandover
<1> QED
  BY <1>1, InvariantHolds, PTL

\* Appending changes no order among the threads that were there.
LEMMA AppendOrder ==
    ASSUME NEW S, NEW s \in Seq(S), NEW x \in S, NEW a, NEW b,
           ~In(s, x), In(s, a), Ahead(Append(s, x), b, a)
    PROVE  Ahead(s, b, a)
<1> DEFINE z == Append(s, x)
<1>1. /\ Len(s) \in Nat /\ DOMAIN s = 1..Len(s) /\ DOMAIN z = 1..Len(s) + 1
      /\ z[Len(s) + 1] = x /\ \A i \in 1..Len(s) : z[i] = s[i]
  OBVIOUS
<1> HIDE DEF z
<1>2. a # x
  OBVIOUS
<1>3. PICK i \in 1..Len(s) + 1, j \in 1..Len(s) + 1 : i < j /\ z[i] = b /\ z[j] = a
  BY <1>1 DEF Ahead, z
<1>4. i \in 1..Len(s) /\ j \in 1..Len(s)
  BY <1>1, <1>2, <1>3
<1> QED
  BY <1>1, <1>3, <1>4 DEF Ahead

\* Removing the head changes no order.
LEMMA TailOrder ==
    ASSUME NEW S, NEW s \in Seq(S), s # <<>>, NEW a, NEW b, Ahead(Tail(s), b, a)
    PROVE  Ahead(s, b, a)
<1> DEFINE z == Tail(s)
<1>1. /\ Len(s) \in Nat /\ Len(s) >= 1 /\ DOMAIN s = 1..Len(s) /\ DOMAIN z = 1..Len(s) - 1
      /\ \A i \in 1..Len(s) - 1 : z[i] = s[i + 1]
  OBVIOUS
<1> HIDE DEF z
<1>2. PICK i \in 1..Len(s) - 1, j \in 1..Len(s) - 1 : i < j /\ z[i] = b /\ z[j] = a
  BY <1>1 DEF Ahead, z
<1>3. i + 1 \in 1..Len(s) /\ j + 1 \in 1..Len(s) /\ i + 1 < j + 1
  BY <1>1, <1>2
<1> QED
  BY <1>1, <1>2, <1>3 DEF Ahead

\* _ThreadSchedule takes the head of the list it schedules from, or nothing.
LEMMA ScheduleOrder ==
    ASSUME NEW c, NEW t, NEW list \in Seq(Threads), Schedule(c, t, list),
           NEW a, NEW b, Ahead(ReadyThreadsList', b, a)
    PROVE  Ahead(list, b, a)
<1>1. CASE list = <<>>
  BY <1>1 DEF Schedule, GetReadyThread
<1>2. CASE list # <<>>
  BY <1>2, TailOrder DEF Schedule, GetReadyThread
<1> QED
  BY <1>1, <1>2

\* Every step appends a thread that was not in the ready list, or removes its
\* head, or both: no thread is overtaken.
LEMMA NextOrder ==
    ASSUME ThreadAssumption, Terminable = {}, IInv, [Next]_schedVars,
           NEW a \in Threads, NEW b \in Threads,
           In(ReadyThreadsList, a), Ahead(ReadyThreadsList', b, a)
    PROVE  Ahead(ReadyThreadsList, b, a)
<1>0. ReadyThreadsList \in Seq(Threads)
  BY DEF IInv, TypeOK
<1>1. ASSUME NEW u \in Threads, ~In(ReadyThreadsList, u), ThreadUnblock(u)
      PROVE  Ahead(ReadyThreadsList, b, a)
  BY <1>0, <1>1, AppendOrder DEF ThreadUnblock
<1>2. ASSUME NEW c \in Cpus, NEW o \in Waitables, NEW l, WakeAt(c, o, l)
      PROVE  Ahead(ReadyThreadsList, b, a)
  <2>1. WaitingList[o] \in Seq(Threads) /\ Inj(WaitingList[o]) /\ WaitingList[o] # <<>>
    BY <1>2 DEF IInv, TypeOK, WaitInv, WakeAt
  <2>2. Head(WaitingList[o]) \in Threads /\ In(WaitingList[o], Head(WaitingList[o]))
    BY <2>1, TailIn
  <2>3. ~In(ReadyThreadsList, Head(WaitingList[o]))
    BY <2>2 DEF IInv, WaitInv
  <2> QED
    BY <1>1, <1>2, <2>2, <2>3 DEF WakeAt
<1>3. ASSUME NEW c \in Cpus, YieldSchedule(c)
      PROVE  Ahead(ReadyThreadsList, b, a)
  <2> DEFINE t == CurrentThread[c]
  <2>1. t \in Threads /\ ~In(ReadyThreadsList, t)
    BY <1>3 DEF IInv, TypeOK, ReadyInv, YieldSchedule
  <2>2. CASE t = Idle[c]
    BY <1>0, <1>3, <2>2, ScheduleOrder DEF YieldSchedule
  <2>3. CASE t # Idle[c]
    <3>1. Append(ReadyThreadsList, t) \in Seq(Threads)
      BY <1>0, <2>1
    <3>2. Ahead(Append(ReadyThreadsList, t), b, a)
      BY <1>3, <2>3, <3>1, ScheduleOrder DEF YieldSchedule
    <3> QED
      BY <1>0, <2>1, <3>2, AppendOrder
  <2> QED
    BY <2>2, <2>3
<1>4. ASSUME NEW c \in Cpus, BlockSchedule(c) \/ ExitSchedule(c)
      PROVE  Ahead(ReadyThreadsList, b, a)
  BY <1>0, <1>4, ScheduleOrder DEF BlockSchedule, ExitSchedule
<1>5. ASSUME NEW c \in Cpus, NEW u \in Threads, ThreadCreate(c, u)
      PROVE  Ahead(ReadyThreadsList, b, a)
  <2>1. ~In(ReadyThreadsList, u)
    BY <1>5 DEF IInv, ReadyInv, ThreadCreate
  <2> QED
    BY <1>1, <1>5, <2>1 DEF ThreadCreate
<1>6. CASE UNCHANGED ReadyThreadsList
  BY <1>6
<1>7. ASSUME NEW c \in Cpus, SchedStep(c)
      PROVE  Ahead(ReadyThreadsList, b, a)
  <2>1. CurrentThread[c] \in Waitables
    BY DEF IInv, TypeOK, Waitables
  <2>2. CASE ExitSignal(c)
    BY <1>2, <1>6, <2>1, <2>2 DEF ExitSignal
  <2>3. CASE \/ IdleTakeBlockLock(c) \/ ThreadBlock(c) \/ ThreadExit(c)
             \/ CleanupBlockLock(c) \/ CleanupDying(c)
    BY <1>6, <2>3 DEF IdleTakeBlockLock, ThreadBlock, ThreadExit, CleanupBlockLock, CleanupDying
  <2> QED
    BY <1>3, <1>4, <1>7, <2>2, <2>3 DEF SchedStep
<1>8. ASSUME NEW c \in Cpus, ThreadCall(c)
      PROVE  Ahead(ReadyThreadsList, b, a)
  <2>1. ASSUME NEW o \in Objects, WakeFirst(c, o)
        PROVE  Ahead(ReadyThreadsList, b, a)
    BY <1>2, <2>1 DEF WakeFirst, Waitables
  <2>2. CASE CallThreadExit(c) \/ \E o \in Waitables : WaitOn(c, o)
    BY <1>6, <2>2 DEF CallThreadExit, WaitOn, WaitAt
  <2>3. ASSUME NEW u \in Threads, ThreadCloseHandle(c, u) \/ ThreadTerminate(c, u)
        PROVE  Ahead(ReadyThreadsList, b, a)
    BY <1>6, <2>3 DEF ThreadCloseHandle, ThreadTerminate
  <2> QED
    BY <1>5, <1>8, <2>1, <2>2, <2>3 DEF ThreadCall
<1>9. ASSUME NEW c \in Cpus, ThreadYield(c)
      PROVE  Ahead(ReadyThreadsList, b, a)
  BY <1>6, <1>9 DEF ThreadYield, YieldAt
<1> QED
  BY <1>6, <1>7, <1>8, <1>9 DEF Next, schedVars

\* The ready list is first come, first served: no step of the scheduler puts a
\* thread ahead of one that was in the list before it.
THEOREM ReadyListIsFifo ==
    ASSUME Terminable = {}
    PROVE  Spec => ReadyIsFifo
<1> DEFINE Fifo == \A a, b \in Threads :
               Ahead(ReadyThreadsList', b, a) /\ InReadyList(a) => Ahead(ReadyThreadsList, b, a)
<1>1. IInv /\ [Next]_schedVars => [Fifo]_schedVars
  <2> SUFFICES ASSUME IInv, [Next]_schedVars PROVE Fifo
    OBVIOUS
  <2>1. \A a \in Threads : InReadyList(a) => In(ReadyThreadsList, a)
    BY DEF InReadyList, In
  <2> QED
    BY <2>1, NextOrder, ThreadAssumption
<1>2. Spec => []IInv
  BY InvariantHolds
<1>3. Spec => [][Fifo]_schedVars
  BY <1>1, <1>2, PTL DEF Spec
<1> QED
  BY <1>3 DEF ReadyIsFifo

----------------------------------------------------------------------------
\* What ThreadExit means for whoever waited for the thread.

\* A dying thread is past ThreadExit, in no list, and not an idle thread.
DyingInv == \A t \in Threads : State[t] = "Dying" =>
    /\ pc[t] \in {"signal", "dead", "off"}
    /\ ~In(ReadyThreadsList, t)
    /\ t \notin IdleThreads

\* A thread that is made ready was not dying.
LEMMA UnblockedIsAlive ==
    ASSUME IInv, DyingInv, NEW c \in Cpus, NEW o \in Waitables, NEW l, WakeAt(c, o, l)
    PROVE  /\ Head(WaitingList[o]) \in Threads /\ In(WaitingList[o], Head(WaitingList[o]))
           /\ State[Head(WaitingList[o])] # "Dying"
           /\ pc[Head(WaitingList[o])] \in {"off", "block", "blocked"}
           /\ ReadyThreadsList \in Seq(Threads)
<1>1. WaitingList[o] \in Seq(Threads) /\ Inj(WaitingList[o]) /\ WaitingList[o] # <<>>
  BY DEF IInv, TypeOK, WaitInv, WakeAt
<1>2. Head(WaitingList[o]) \in Threads /\ In(WaitingList[o], Head(WaitingList[o]))
  BY <1>1, TailIn
<1> QED
  BY <1>2 DEF IInv, WaitInv, DyingInv, TypeOK

\* Neither _ThreadSchedule nor what precedes it revives a thread.
LEMMA ScheduleDying ==
    ASSUME ThreadAssumption, IInv, DyingInv, NEW c \in Cpus,
           YieldSchedule(c) \/ BlockSchedule(c) \/ ExitSchedule(c)
    PROVE  DyingInv' /\ \A u \in Threads : State[u] = "Dying" => State'[u] = "Dying"
<1> DEFINE t == CurrentThread[c]
           list == IF YieldSchedule(c) /\ t # Idle[c] THEN Append(ReadyThreadsList, t)
                   ELSE ReadyThreadsList
<1>0. t \in Threads /\ ReadyThreadsList \in Seq(Threads) /\ Inj(ReadyThreadsList) /\ TypeOK
  BY DEF IInv, TypeOK, ReadyInv
<1>1. /\ list \in Seq(Threads) /\ Inj(list)
      /\ \A u : In(list, u) => In(ReadyThreadsList, u) \/ (u = t /\ pc[t] = "yield")
  <2>1. CASE YieldSchedule(c) /\ t # Idle[c]
    <3>1. ~In(ReadyThreadsList, t) /\ pc[t] = "yield"
      BY <1>0, <2>1 DEF IInv, ReadyInv, YieldSchedule
    <3> QED
      BY <1>0, <2>1, <3>1, AppendIn
  <2>2. CASE ~(YieldSchedule(c) /\ t # Idle[c])
    BY <1>0, <2>2
  <2> QED
    BY <2>1, <2>2
<1>2. Schedule(c, t, list)
  BY DEF YieldSchedule, BlockSchedule, ExitSchedule
<1> HIDE DEF list
<1>3. PICK next \in Threads :
          /\ pc' = [pc EXCEPT ![t] = "off", ![next] = "cleanup"]
          /\ \A u : In(ReadyThreadsList', u) <=> In(list, u) /\ u # next
          /\ next = Idle[c] \/ In(list, next)
  BY <1>0, <1>1, <1>2, ScheduleFacts
<1>4. State[next] # "Dying"
  BY <1>0, <1>1, <1>3 DEF DyingInv, IdleThreads
<1>5. /\ State' = State \/ (pc[t] = "yield" /\ State' = [State EXCEPT ![t] = "Ready"])
      /\ pc[t] = "yield" => State[t] # "Dying"
  BY <1>0 DEF YieldSchedule, BlockSchedule, ExitSchedule, DyingInv
<1>6. \A u \in Threads : /\ State[u] = "Dying" <=> State'[u] = "Dying"
                         /\ State[u] = "Dying" => u # next
  BY <1>0, <1>4, <1>5 DEF TypeOK
<1>7. ASSUME NEW u \in Threads, State[u] = "Dying"
      PROVE  pc'[u] \in {"signal", "dead", "off"} /\ ~In(ReadyThreadsList', u) /\ u \notin IdleThreads
  BY <1>0, <1>1, <1>3, <1>5, <1>6, <1>7 DEF DyingInv, TypeOK
<1> QED
  BY <1>6, <1>7 DEF DyingInv

\* Every step keeps a dying thread dying.
LEMMA NextDying ==
    ASSUME ThreadAssumption, Terminable = {}, IInv, DyingInv, [Next]_schedVars
    PROVE  DyingInv' /\ \A u \in Threads : State[u] = "Dying" => State'[u] = "Dying"
<1> DEFINE Goal == DyingInv' /\ \A u \in Threads : State[u] = "Dying" => State'[u] = "Dying"
<1> SUFFICES Goal
  OBVIOUS
<1>0. TypeOK /\ ReadyThreadsList \in Seq(Threads)
  BY DEF IInv, TypeOK
\* A thread that is not dying moves
<1>1. ASSUME NEW t \in Threads, State[t] # "Dying", NEW l, Goto(t, l), UNCHANGED <<State, ReadyThreadsList>>
      PROVE  Goal
  BY <1>0, <1>1 DEF DyingInv, Goto, TypeOK
\* A thread that is not dying is made ready
<1>2. ASSUME NEW t \in Threads, NEW u \in Threads, State[u] # "Dying", ThreadUnblock(u),
             NEW l, Goto(t, l), l = pc[t] \/ t = u \/ (pc[t] = "signal" /\ l = "signal")
      PROVE  Goal
  <2>1. \A x : In(ReadyThreadsList', x) <=> In(ReadyThreadsList, x) \/ x = u
    BY <1>0, <1>2, AppendIn DEF ThreadUnblock
  <2> QED
    BY <1>0, <1>2, <2>1 DEF DyingInv, Goto, TypeOK, ThreadUnblock
<1>3. ASSUME NEW c \in Cpus, SchedStep(c) PROVE Goal
  <2> DEFINE t == CurrentThread[c]
  <2>0. t \in Threads /\ t \in Waitables
    BY <1>0 DEF TypeOK, Waitables
  <2>1. CASE YieldSchedule(c) \/ BlockSchedule(c) \/ ExitSchedule(c)
    BY <2>1, ScheduleDying
  <2>2. CASE IdleTakeBlockLock(c)
    <3>1. State[t] # "Dying"
      BY <2>0, <2>2 DEF IdleTakeBlockLock, DyingInv
    <3> QED
      BY <1>1, <2>0, <2>2, <3>1 DEF IdleTakeBlockLock
  <2>3. CASE ThreadBlock(c)
    BY <1>0, <2>0, <2>3 DEF ThreadBlock, DyingInv, Goto, TypeOK
  <2>4. CASE ThreadExit(c)
    <3>1. ~In(ReadyThreadsList, t) /\ t \notin IdleThreads
      BY <2>0, <2>4 DEF ThreadExit, IInv, ReadyInv, IdleInv
    <3> QED
      BY <1>0, <2>0, <2>4, <3>1 DEF ThreadExit, DyingInv, Goto, TypeOK
  <2>5. CASE ExitSignal(c)
    <3>1. CASE WakeAt(c, t, "signal")
      BY <1>2, <2>0, <2>5, <3>1, UnblockedIsAlive DEF ExitSignal, WakeAt
    <3>2. CASE Goto(t, "dead") /\ UNCHANGED <<State, ReadyThreadsList>>
      BY <1>0, <2>0, <3>2 DEF DyingInv, Goto, TypeOK
    <3> QED
      BY <2>5, <3>1, <3>2 DEF ExitSignal
  <2>6. CASE CleanupBlockLock(c) \/ CleanupDying(c)
    <3>1. State[t] # "Dying"
      BY <2>0, <2>6 DEF CleanupBlockLock, CleanupDying, DyingInv
    <3> QED
      BY <1>1, <2>0, <2>6, <3>1 DEF CleanupBlockLock, CleanupDying
  <2> QED
    BY <1>3, <2>1, <2>2, <2>3, <2>4, <2>5, <2>6 DEF SchedStep
<1>4. ASSUME NEW c \in Cpus, ThreadYield(c) \/ ThreadCall(c) PROVE Goal
  <2> DEFINE t == CurrentThread[c]
  <2>0. t \in Threads /\ State[t] # "Dying" /\ pc[t] \in Interruptible
    BY <1>0, <1>4 DEF TypeOK, DyingInv, ThreadYield, YieldAt, ThreadCall, CallThreadExit, WaitOn,
                      WakeFirst, ThreadCreate, ThreadCloseHandle, ThreadTerminate, Interruptible
  <2>1. CASE ThreadYield(c)
    BY <1>1, <2>0, <2>1 DEF ThreadYield, YieldAt
  <2>2. CASE CallThreadExit(c)
    BY <1>1, <2>0, <2>2 DEF CallThreadExit
  <2>3. ASSUME NEW o \in Waitables, WaitOn(c, o) PROVE Goal
    BY <1>1, <2>0, <2>3 DEF WaitOn, WaitAt
  <2>4. ASSUME NEW o \in Objects, WakeFirst(c, o) PROVE Goal
    <3>1. o \in Waitables /\ WakeAt(c, o, "run") /\ pc[t] = "run"
      BY <2>4 DEF Waitables, WakeFirst
    <3> QED
      BY <1>2, <2>0, <3>1, UnblockedIsAlive DEF WakeAt
  <2>5. ASSUME NEW u \in Threads, ThreadCreate(c, u) PROVE Goal
    <3>1. State[u] # "Dying"
      BY <2>5 DEF ThreadCreate, DyingInv
    <3> QED
      BY <1>2, <2>5, <3>1 DEF ThreadCreate
  <2>6. ASSUME NEW u \in Threads, ThreadCloseHandle(c, u) \/ ThreadTerminate(c, u) PROVE Goal
    BY <2>6 DEF ThreadCloseHandle, ThreadTerminate, DyingInv
  <2> QED
    BY <1>4, <2>1, <2>2, <2>3, <2>4, <2>5, <2>6 DEF ThreadCall
<1>5. CASE UNCHANGED schedVars
  BY <1>5 DEF schedVars, DyingInv
<1> QED
  BY <1>3, <1>4, <1>5 DEF Next

LEMMA InitDying ==
    ASSUME ThreadSystemInit
    PROVE  DyingInv
BY DEF ThreadSystemInit, DyingInv

\* ThreadExit is final: a thread that is dying is never made ready or scheduled again,
\* so who waits for its termination may rely on what it left behind.
THEOREM DyingIsFinal ==
    ASSUME Terminable = {}
    PROVE  Spec => [][\A t \in Threads : State[t] = "Dying" => State'[t] = "Dying" /\ ~InReadyList(t)']_schedVars
<1> DEFINE Final == \A t \in Threads : State[t] = "Dying" => State'[t] = "Dying" /\ ~InReadyList(t)'
<1>1. Spec => []IInv
  BY InvariantHolds
<1>2. ThreadSystemInit => DyingInv
  BY InitDying
<1>3. IInv /\ DyingInv /\ [Next]_schedVars => DyingInv' /\ [Final]_schedVars
  <2> SUFFICES ASSUME IInv, DyingInv, [Next]_schedVars PROVE DyingInv' /\ Final
    OBVIOUS
  <2>1. DyingInv' /\ \A u \in Threads : State[u] = "Dying" => State'[u] = "Dying"
    BY NextDying, ThreadAssumption
  <2> QED
    BY <2>1 DEF DyingInv, InReadyList, In
<1> HIDE DEF Final
<1>4. Spec => [][Final]_schedVars
  BY <1>1, <1>2, <1>3, PTL DEF Spec
<1> QED
  BY <1>4 DEF Final

=============================================================================
