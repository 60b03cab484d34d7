---------------------------- MODULE Ipc_proofs ------------------------------
(***************************************************************************)
(* Proofs about Ipc, for any CPUs and any number of calls: an IPC_EVENT is *)
(* freed by its last user, the sender that waits goes on when every target *)
(* has run the function, and, as long as no sender is disturbed, every     *)
(* interrupt finds an event.                                               *)
(***************************************************************************)
EXTENDS Ipc, FiniteSetTheorems, TLAPS

Serves(c, e) == isr[c].event = e /\ isr[c].at \in {"function", "dereference"}
Signals(c, e) == isr[c].event = e /\ isr[c].at = "signal"

\* The targets that still have a reference on e: not yet queued there, queued, or being
\* processed.
Pend(e) == {c \in Targets[e] : c \notin queued[e] \/ InList(c, e) \/ Serves(c, e)}

\* The reference of the waiter.
Generated == {"insert", "icrHigh", "icrLow", "wait", "handled", "done"}
Awaited(e) == call[e].wait /\ pc[e] \in Generated \ {"done"}
WaiterRef(e) == IF Awaited(e) THEN 1 ELSE 0

RefOf(e) ==
    /\ pc[e] \in Generated => RefCnt[e] = Cardinality(Pend(e)) + WaiterRef(e)
    /\ pc[e] \notin Generated => RefCnt[e] = 0 /\ queued[e] = {}

\* The sender's way: it queues the event at every target before it sends, and only
\* who waits gets to the wait.
SenderOf(e) ==
    /\ queued[e] \subseteq Targets[e]
    /\ pc[e] \in Generated \ {"insert"} => queued[e] = Targets[e]
    /\ pc[e] \in {"wait", "handled"} => call[e].wait
    /\ Sending(e) => cpu[e] \in Cpus

\* The function ran where the event was queued and is no longer waiting to be called.
RanOf(e) == \A c \in Cpus :
    c \in ran[e] <=> c \in queued[e] /\ ~InList(c, e) /\ ~(isr[c].event = e /\ isr[c].at = "function")

\* One CPU signals, when the others are through; the sender takes the signal once.
SignalOf(e) ==
    /\ Signaled[e] \/ (\E c \in Cpus : Signals(c, e)) =>
           Pend(e) = {} /\ call[e].wait /\ pc[e] \in Generated \ {"handled", "done"}
    /\ \A c \in Cpus : Signals(c, e) => ~Signaled[e] /\ \A d \in Cpus : Signals(d, e) => c = d
    /\ pc[e] \in {"handled", "done"} /\ call[e].wait => Pend(e) = {}

LifeOf(e) == RefOf(e) /\ SenderOf(e) /\ RanOf(e) /\ SignalOf(e)

\* A list has no event twice; what is listed or processed was queued.
Distinct(s) == \A i, j \in DOMAIN s : s[i] = s[j] => i = j

ListOf(c) ==
    /\ Distinct(EventList[c])
    /\ \A e \in Events : InList(c, e) => c \in queued[e] /\ isr[c].event # e
    /\ isr[c].at \in {"none", "enter"} <=> isr[c].event = None
    /\ isr[c].event # None => c \in queued[isr[c].event]

IpcLifeInv == TypeOK /\ (\A e \in Events : LifeOf(e)) /\ (\A c \in Cpus : ListOf(c))

\* The events that are queued at c and whose interrupt is still to be sent.
Unsent(c) == {e \in Events : Sending(e) /\ c \in queued[e]}
Pending(c) == IF Irr[c] THEN 1 ELSE 0
Entering(c) == IF isr[c].at = "enter" THEN 1 ELSE 0

StartedInv == IsFiniteSet({e \in Events : pc[e] # "new"})

\* An undisturbed sender has its CPU and its command register for itself and interrupts
\* the CPUs it queued at; a CPU has at least one event for each interrupt that is
\* pending, accepted or still to be sent.
InterruptInv == disturbed = {} =>
    /\ \A e, f \in Events : Sending(e) /\ Sending(f) /\ cpu[e] = cpu[f] => e = f
    /\ \A e \in Events : Sending(e) =>
           /\ Targets[e] = MatchingCpus(call[e].mode, call[e].dest, cpu[e])
           /\ pc[e] = "icrLow" => IcrHigh[cpu[e]] = call[e].dest
    /\ \A c \in Cpus : Len(EventList[c]) >= Pending(c) + Entering(c) + Cardinality(Unsent(c))

IpcIInv == IpcLifeInv /\ StartedInv /\ InterruptInv

----------------------------------------------------------------------------
\* Lists

Has(s, e) == \E i \in DOMAIN s : s[i] = e

LEMMA AppendList ==
    ASSUME NEW s \in Seq(Events), NEW x \in Events
    PROVE  /\ Append(s, x) \in Seq(Events) /\ Len(Append(s, x)) = Len(s) + 1
           /\ \A e : Has(Append(s, x), e) <=> Has(s, e) \/ e = x
           /\ Distinct(s) /\ ~Has(s, x) => Distinct(Append(s, x))
<1>1. /\ Append(s, x) \in Seq(Events) /\ Len(Append(s, x)) = Len(s) + 1
      /\ DOMAIN s = 1 .. Len(s) /\ DOMAIN Append(s, x) = 1 .. Len(s) + 1 /\ Len(s) \in Nat
      /\ \A i \in 1 .. Len(s) : Append(s, x)[i] = s[i]
      /\ Append(s, x)[Len(s) + 1] = x
  OBVIOUS
<1>2. \A e : Has(Append(s, x), e) <=> Has(s, e) \/ e = x
  <2> SUFFICES ASSUME NEW e PROVE Has(Append(s, x), e) <=> Has(s, e) \/ e = x
    OBVIOUS
  <2>1. ASSUME Has(Append(s, x), e) PROVE Has(s, e) \/ e = x
    <3>1. PICK i \in 1 .. Len(s) + 1 : Append(s, x)[i] = e
      BY <1>1, <2>1 DEF Has
    <3>2. i \in 1 .. Len(s) \/ i = Len(s) + 1
      BY <1>1
    <3> QED
      BY <1>1, <3>1, <3>2 DEF Has
  <2>2. ASSUME Has(s, e) PROVE Has(Append(s, x), e)
    BY <1>1, <2>2 DEF Has
  <2>3. Has(Append(s, x), x)
    BY <1>1 DEF Has
  <2> QED
    BY <2>1, <2>2, <2>3
<1>3. ASSUME Distinct(s), ~Has(s, x) PROVE Distinct(Append(s, x))
  BY <1>1, <1>3 DEF Distinct, Has
<1> QED
  BY <1>1, <1>2, <1>3

LEMMA TailList ==
    ASSUME NEW s \in Seq(Events), s # <<>>, Distinct(s)
    PROVE  /\ Tail(s) \in Seq(Events) /\ Len(s) \in Nat /\ Len(s) >= 1 /\ Len(Tail(s)) = Len(s) - 1
           /\ Head(s) \in Events /\ Has(s, Head(s))
           /\ \A e : Has(Tail(s), e) <=> Has(s, e) /\ e # Head(s)
           /\ Distinct(Tail(s))
<1>1. /\ Tail(s) \in Seq(Events) /\ Len(s) \in Nat /\ Len(s) >= 1 /\ Len(Tail(s)) = Len(s) - 1
      /\ DOMAIN s = 1 .. Len(s) /\ DOMAIN Tail(s) = 1 .. Len(s) - 1
      /\ Head(s) = s[1] /\ Head(s) \in Events
      /\ \A i \in 1 .. Len(s) - 1 : Tail(s)[i] = s[i + 1]
  OBVIOUS
<1>2. Has(s, Head(s))
  BY <1>1 DEF Has
<1>3. Distinct(Tail(s))
  BY <1>1 DEF Distinct
<1>4. \A e : Has(Tail(s), e) <=> Has(s, e) /\ e # Head(s)
  <2> SUFFICES ASSUME NEW e PROVE Has(Tail(s), e) <=> Has(s, e) /\ e # Head(s)
    OBVIOUS
  <2>1. ASSUME Has(Tail(s), e) PROVE Has(s, e) /\ e # Head(s)
    <3>1. PICK i \in 1 .. Len(s) - 1 : Tail(s)[i] = e
      BY <1>1, <2>1 DEF Has
    <3>2. i + 1 \in 1 .. Len(s) /\ i + 1 # 1 /\ s[i + 1] = e
      BY <1>1, <3>1
    <3> QED
      BY <1>1, <3>2 DEF Has, Distinct
  <2>2. ASSUME Has(s, e), e # Head(s) PROVE Has(Tail(s), e)
    <3>1. PICK i \in 1 .. Len(s) : s[i] = e
      BY <1>1, <2>2 DEF Has
    <3>2. i - 1 \in 1 .. Len(s) - 1 /\ (i - 1) + 1 = i
      BY <1>1, <2>2, <3>1
    <3>3. Tail(s)[i - 1] = e
      BY <1>1, <3>1, <3>2
    <3> QED
      BY <1>1, <3>2, <3>3 DEF Has
  <2> QED
    BY <2>1, <2>2
<1> QED
  BY <1>1, <1>2, <1>3, <1>4

\* What is read of the invariant.
LEMMA IpcFacts ==
    ASSUME IpcLifeInv
    PROVE  /\ \A e \in Events : IsFiniteSet(Pend(e)) /\ Cardinality(Pend(e)) \in Nat
                                /\ (Cardinality(Pend(e)) = 0 <=> Pend(e) = {})
           /\ \A c \in Cpus, e \in Events : InList(c, e) <=> Has(EventList[c], e)
           /\ \A c \in Cpus : EventList[c] \in Seq(Events) /\ Distinct(EventList[c])
           /\ \A c \in Cpus : isr[c].at \in {"function", "dereference", "signal"} => isr[c].event \in Events
<1>1. \A e \in Events : IsFiniteSet(Pend(e))
  <2>1. \A e \in Events : Pend(e) \subseteq Cpus
    BY DEF IpcLifeInv, TypeOK, Pend
  <2> QED
    BY <2>1, IpcAssumption, FS_Subset
<1>2. \A c \in Cpus : isr[c].at \in {"function", "dereference", "signal"} => isr[c].event \in Events
  BY DEF IpcLifeInv, TypeOK, ListOf
<1>3. \A c \in Cpus : EventList[c] \in Seq(Events) /\ Distinct(EventList[c])
  BY DEF IpcLifeInv, TypeOK, ListOf
<1> QED
  BY <1>1, <1>2, <1>3, FS_CardinalityType, FS_EmptySet DEF InList, Has

\* What is known of one event.
LEMMA LifeFacts ==
    ASSUME IpcLifeInv, NEW e \in Events
    PROVE  /\ LifeOf(e) /\ RefOf(e) /\ SenderOf(e) /\ RanOf(e) /\ SignalOf(e)
           /\ IsFiniteSet(Pend(e)) /\ Cardinality(Pend(e)) \in Nat
           /\ Cardinality(Pend(e)) = 0 <=> Pend(e) = {}
           /\ pc[e] \in {"new", "generate"} \cup Generated
           /\ RefCnt[e] \in Nat /\ WaiterRef(e) \in {0, 1}
           /\ Targets[e] \subseteq Cpus /\ queued[e] \subseteq Cpus /\ e # None
           /\ Signaled[e] \in BOOLEAN /\ call[e].wait \in BOOLEAN
<1>1. LifeOf(e)
  BY DEF IpcLifeInv
<1>2. e # None
  BY IpcAssumption
<1>3. /\ pc[e] \in {"new", "generate"} \cup Generated
      /\ RefCnt[e] \in Nat /\ Targets[e] \subseteq Cpus /\ queued[e] \subseteq Cpus
      /\ Signaled[e] \in BOOLEAN /\ call[e].wait \in BOOLEAN
  BY DEF IpcLifeInv, TypeOK, Generated
<1>4. WaiterRef(e) \in {0, 1}
  BY DEF WaiterRef
<1> QED
  BY <1>1, <1>2, <1>3, <1>4, IpcFacts DEF LifeOf

\* A step leaves what the sender of f has.
Same(f) ==
    /\ pc'[f] = pc[f] /\ cpu'[f] = cpu[f] /\ call'[f] = call[f] /\ Targets'[f] = Targets[f]
    /\ queued'[f] = queued[f] /\ RefCnt'[f] = RefCnt[f] /\ Signaled'[f] = Signaled[f] /\ ran'[f] = ran[f]

\* The lists and the handlers treat f as before.
SameAtCpus(f) == \A c \in Cpus :
    /\ InList(c, f)' <=> InList(c, f)
    /\ isr'[c].event = f <=> isr[c].event = f
    /\ isr[c].event = f => isr'[c].at = isr[c].at

LEMMA PendStays ==
    ASSUME IpcLifeInv, NEW f \in Events, SameAtCpus(f), Targets'[f] = Targets[f], queued'[f] = queued[f]
    PROVE  /\ Pend(f)' = Pend(f)
           /\ \A c \in Cpus : Signals(c, f)' <=> Signals(c, f)
           /\ ran'[f] = ran[f] => RanOf(f)'
<1>1. \A c \in Cpus : (Serves(c, f)' <=> Serves(c, f)) /\ (Signals(c, f)' <=> Signals(c, f))
  BY DEF SameAtCpus, Serves, Signals
<1>2. Pend(f)' = Pend(f)
  <2>1. Targets[f] \subseteq Cpus
    BY LifeFacts
  <2> QED
    BY <1>1, <2>1 DEF SameAtCpus, Pend
<1>3. ASSUME ran'[f] = ran[f] PROVE RanOf(f)'
  <2>1. RanOf(f)
    BY LifeFacts
  <2> QED
    BY <1>3, <2>1 DEF RanOf, SameAtCpus
<1> QED
  BY <1>1, <1>2, <1>3

LEMMA OthersKept ==
    ASSUME IpcLifeInv, NEW f \in Events, Same(f), SameAtCpus(f)
    PROVE  LifeOf(f)'
<1>0. RefOf(f) /\ SenderOf(f) /\ RanOf(f) /\ SignalOf(f)
  BY LifeFacts
<1>1. /\ Pend(f)' = Pend(f) /\ \A c \in Cpus : Signals(c, f)' <=> Signals(c, f)
      /\ RanOf(f)'
  BY PendStays DEF Same
<1>2. WaiterRef(f)' = WaiterRef(f)
  BY DEF Same, WaiterRef, Awaited
<1>3. RefOf(f)'
  BY <1>0, <1>1, <1>2 DEF RefOf, Same
<1>4. SenderOf(f)'
  BY <1>0 DEF SenderOf, Same, Sending
<1>5. SignalOf(f)'
  BY <1>0, <1>1 DEF SignalOf, Same
<1> QED
  BY <1>1, <1>3, <1>4, <1>5 DEF LifeOf

\* The steps of a sender that leave the lists and the handlers alone.
LEMMA CpusKept ==
    ASSUME IpcLifeInv, UNCHANGED <<EventList, isr>>
    PROVE  /\ \A f \in Events : SameAtCpus(f)
           /\ UNCHANGED queued => \A c \in Cpus : ListOf(c)'
<1>1. \A f \in Events : SameAtCpus(f)
  BY DEF SameAtCpus, InList
<1>2. UNCHANGED queued => \A c \in Cpus : ListOf(c)'
  BY DEF IpcLifeInv, ListOf, InList
<1> QED
  BY <1>1, <1>2

LEMMA SenderStepKeeps ==
    ASSUME IpcLifeInv, NEW e \in Events, UNCHANGED <<EventList, isr, queued>>, TypeOK',
           \A f \in Events \ {e} : Same(f), LifeOf(e)'
    PROVE  IpcLifeInv'
<1>1. ASSUME NEW f \in Events PROVE LifeOf(f)'
  <2>1. CASE f = e
    BY <2>1
  <2>2. CASE f # e
    BY <2>2, CpusKept, OthersKept
  <2> QED
    BY <2>1, <2>2
<1> QED
  BY <1>1, CpusKept DEF IpcLifeInv

----------------------------------------------------------------------------
\* The sender

LEMMA RetrieveLife ==
    ASSUME IpcLifeInv, NEW e \in Events, NEW c \in Cpus, NEW dest \in Destinations, NEW mode \in Modes,
           NEW wait \in Waits, RetrieveMatchingCpus(e, c, mode, dest, wait)
    PROVE  IpcLifeInv'
<1> DEFINE matching == MatchingCpus(mode, dest, c)
<1>0. mode \in AllModes /\ dest \subseteq Cpus /\ wait \in BOOLEAN
  BY IpcAssumption
<1>1. matching \subseteq Cpus
  BY <1>0 DEF MatchingCpus, AllModes
<1>2. /\ pc[e] = "new" /\ UNCHANGED <<EventList, isr, queued, RefCnt, Signaled, ran, IcrHigh, Irr>>
      /\ cpu' = [cpu EXCEPT ![e] = c]
      /\ call' = [call EXCEPT ![e] = [mode |-> mode, dest |-> dest, wait |-> wait]]
      /\ Targets' = [Targets EXCEPT ![e] = matching]
      /\ pc' = [pc EXCEPT ![e] = IF matching = {} THEN "done" ELSE "generate"]
  BY DEF RetrieveMatchingCpus, Goto
<1>3. disturbed' \subseteq Events
  BY DEF RetrieveMatchingCpus, IpcLifeInv, TypeOK, SendingOn
<1> HIDE DEF matching
<1>4. TypeOK'
  BY <1>0, <1>1, <1>2, <1>3 DEF IpcLifeInv, TypeOK
<1>5. \A f \in Events \ {e} : Same(f)
  BY <1>2 DEF Same, IpcLifeInv, TypeOK
<1>6. /\ pc'[e] \in {"done", "generate"} /\ (pc'[e] = "done" => Targets'[e] = {})
      /\ cpu'[e] = c /\ queued'[e] = {} /\ RefCnt'[e] = 0
  <2>1. RefOf(e)
    BY LifeFacts
  <2>2. queued[e] = {} /\ RefCnt[e] = 0
    BY <1>2, <2>1 DEF RefOf, Generated
  <2> QED
    BY <1>2, <2>2 DEF IpcLifeInv, TypeOK
<1>7. LifeOf(e)'
  <2>1. ~Signaled[e] /\ \A d \in Cpus : ~Signals(d, e)
    BY <1>2, LifeFacts DEF SignalOf, Generated
  <2>2. ~Signaled'[e] /\ \A d \in Cpus : ~Signals(d, e)'
    BY <1>2, <2>1 DEF Signals
  <2>3. pc'[e] = "done" => Pend(e)' = {}
    BY <1>6 DEF Pend
  <2>4. RefOf(e)'
    <3>1. pc'[e] = "done" => Cardinality(Pend(e)') = 0 /\ WaiterRef(e)' = 0
      BY <2>3, FS_EmptySet DEF WaiterRef, Awaited
    <3> QED
      BY <1>6, <3>1 DEF RefOf, Generated
  <2>5. SenderOf(e)'
    BY <1>6 DEF SenderOf, Generated, Sending
  <2>6. RanOf(e)'
    BY <1>2, LifeFacts DEF RanOf, InList
  <2>7. SignalOf(e)'
    BY <1>6, <2>2, <2>3 DEF SignalOf
  <2> QED
    BY <2>4, <2>5, <2>6, <2>7 DEF LifeOf
<1> QED
  BY <1>2, <1>4, <1>5, <1>7, SenderStepKeeps

LEMMA GenerateLife ==
    ASSUME IpcLifeInv, NEW e \in Events, IpcGenerateEvent(e)
    PROVE  IpcLifeInv'
<1> DEFINE n == Cardinality(Targets[e]) + (IF call[e].wait THEN 1 ELSE 0)
<1>1. /\ pc[e] = "generate" /\ RefCnt' = [RefCnt EXCEPT ![e] = n] /\ pc' = [pc EXCEPT ![e] = "insert"]
      /\ UNCHANGED <<cpu, call, Targets, queued, Signaled, ran, EventList, IcrHigh, Irr, isr, disturbed>>
  BY DEF IpcGenerateEvent, SenderAt, Goto
<1>2. RefOf(e) /\ SenderOf(e) /\ RanOf(e) /\ SignalOf(e) /\ Targets[e] \subseteq Cpus
  BY LifeFacts
<1>3. queued[e] = {}
  BY <1>1, <1>2 DEF RefOf, Generated
<1>4. Pend(e) = Targets[e]
  BY <1>3 DEF Pend
<1>5. n \in Nat
  BY <1>4, LifeFacts
<1>6. n = Cardinality(Pend(e)) + (IF call[e].wait THEN 1 ELSE 0)
  BY <1>4
<1> HIDE DEF n
<1>7. TypeOK'
  BY <1>1, <1>5 DEF IpcLifeInv, TypeOK
<1>8. \A f \in Events \ {e} : Same(f)
  BY <1>1 DEF Same, IpcLifeInv, TypeOK
<1>9. /\ pc'[e] = "insert" /\ RefCnt'[e] = n
      /\ Pend(e)' = Pend(e) /\ (\A c \in Cpus : Signals(c, e)' <=> Signals(c, e)) /\ RanOf(e)'
  <2>1. SameAtCpus(e)
    BY <1>1, CpusKept
  <2>2. pc'[e] = "insert" /\ RefCnt'[e] = n
    BY <1>1 DEF IpcLifeInv, TypeOK
  <2> QED
    BY <1>1, <2>1, <2>2, PendStays
<1>10. LifeOf(e)'
  <2>1. WaiterRef(e)' = IF call[e].wait THEN 1 ELSE 0
    BY <1>1, <1>9 DEF WaiterRef, Awaited, Generated
  <2>2. RefOf(e)'
    BY <1>6, <1>9, <2>1 DEF RefOf, Generated
  <2>3. SenderOf(e)'
    BY <1>1, <1>2, <1>9 DEF SenderOf, Generated, Sending
  <2>4. SignalOf(e)'
    BY <1>1, <1>2, <1>9 DEF SignalOf, Generated
  <2> QED
    BY <1>9, <2>2, <2>3, <2>4 DEF LifeOf
<1> QED
  BY <1>1, <1>7, <1>8, <1>10, SenderStepKeeps

\* From the end of the insertions to the end of LapicSendIpi.
LEMMA SendLife ==
    ASSUME IpcLifeInv, NEW e \in Events, NEW l \in Generated, TypeOK',
           pc' = [pc EXCEPT ![e] = l], \A f \in Events \ {e} : cpu'[f] = cpu[f],
           UNCHANGED <<call, Targets, queued, RefCnt, Signaled, ran, EventList, isr>>,
           \/ pc[e] = "insert" /\ l = "icrHigh" /\ queued[e] = Targets[e] /\ UNCHANGED cpu
           \/ pc[e] = "icrHigh" /\ l = "icrLow" /\ UNCHANGED cpu
           \/ pc[e] = "icrLow" /\ l = IF call[e].wait THEN "wait" ELSE "done"
    PROVE  IpcLifeInv'
<1>1. RefOf(e) /\ SenderOf(e) /\ RanOf(e) /\ SignalOf(e)
  BY LifeFacts
<1>2. pc'[e] = l /\ \A f \in Events \ {e} : Same(f)
  BY DEF Same, IpcLifeInv, TypeOK
<1>3. Pend(e)' = Pend(e) /\ (\A c \in Cpus : Signals(c, e)' <=> Signals(c, e)) /\ RanOf(e)'
  BY CpusKept, PendStays
<1>4. WaiterRef(e)' = WaiterRef(e)
  BY <1>2 DEF WaiterRef, Awaited, Generated
<1>5. RefOf(e)'
  BY <1>1, <1>2, <1>3, <1>4 DEF RefOf, Generated
<1>6. SenderOf(e)'
  BY <1>1, <1>2 DEF SenderOf, Generated, Sending
<1>7. SignalOf(e)'
  BY <1>1, <1>2, <1>3 DEF SignalOf, Generated
<1>8. LifeOf(e)'
  BY <1>3, <1>5, <1>6, <1>7 DEF LifeOf
<1> QED
  BY <1>2, <1>8, SenderStepKeeps

LEMMA WaitLife ==
    ASSUME IpcLifeInv, NEW e \in Events, EvtWaitForSignal(e)
    PROVE  IpcLifeInv'
<1>1. /\ pc[e] = "wait" /\ Signaled[e] /\ Signaled' = [Signaled EXCEPT ![e] = FALSE]
      /\ pc' = [pc EXCEPT ![e] = "handled"]
      /\ UNCHANGED <<cpu, call, Targets, queued, RefCnt, ran, EventList, IcrHigh, Irr, isr, disturbed>>
  BY DEF EvtWaitForSignal, Goto
<1>2. RefOf(e) /\ SenderOf(e) /\ SignalOf(e)
  BY LifeFacts
<1>3. TypeOK'
  BY <1>1 DEF IpcLifeInv, TypeOK
<1>4. pc'[e] = "handled" /\ ~Signaled'[e] /\ \A f \in Events \ {e} : Same(f)
  BY <1>1 DEF Same, IpcLifeInv, TypeOK
<1>5. Pend(e)' = Pend(e) /\ (\A c \in Cpus : Signals(c, e)' <=> Signals(c, e)) /\ RanOf(e)'
  BY <1>1, CpusKept, PendStays
<1>6. Pend(e) = {} /\ \A c \in Cpus : ~Signals(c, e)
  BY <1>1, <1>2 DEF SignalOf
<1>7. WaiterRef(e)' = WaiterRef(e)
  BY <1>1, <1>4 DEF WaiterRef, Awaited, Generated
<1>8. RefOf(e)'
  BY <1>1, <1>2, <1>4, <1>5, <1>7 DEF RefOf, Generated
<1>9. SenderOf(e)'
  BY <1>1, <1>2, <1>4 DEF SenderOf, Generated, Sending
<1>10. SignalOf(e)'
  BY <1>4, <1>5, <1>6 DEF SignalOf
<1>11. LifeOf(e)'
  BY <1>5, <1>8, <1>9, <1>10 DEF LifeOf
<1> QED
  BY <1>1, <1>3, <1>4, <1>11, SenderStepKeeps

LEMMA WaiterDropsLife ==
    ASSUME IpcLifeInv, NEW e \in Events, DereferenceByWaiter(e)
    PROVE  IpcLifeInv'
<1>1. /\ pc[e] = "handled" /\ RefCnt' = [RefCnt EXCEPT ![e] = @ - 1] /\ pc' = [pc EXCEPT ![e] = "done"]
      /\ UNCHANGED <<cpu, call, Targets, queued, Signaled, ran, EventList, IcrHigh, Irr, isr, disturbed>>
  BY DEF DereferenceByWaiter, Goto
<1>2. RefOf(e) /\ SenderOf(e) /\ SignalOf(e) /\ Cardinality(Pend(e)) \in Nat
  BY LifeFacts
<1>3. call[e].wait /\ WaiterRef(e) = 1 /\ RefCnt[e] = Cardinality(Pend(e)) + 1
  BY <1>1, <1>2 DEF SenderOf, WaiterRef, Awaited, RefOf, Generated
<1>4. RefCnt[e] - 1 \in Nat /\ RefCnt[e] - 1 = Cardinality(Pend(e))
  BY <1>2, <1>3
<1>5. TypeOK'
  BY <1>1, <1>4 DEF IpcLifeInv, TypeOK
<1>6. /\ pc'[e] = "done" /\ RefCnt'[e] = Cardinality(Pend(e)) /\ \A f \in Events \ {e} : Same(f)
  BY <1>1, <1>4 DEF Same, IpcLifeInv, TypeOK
<1>7. Pend(e)' = Pend(e) /\ (\A c \in Cpus : Signals(c, e)' <=> Signals(c, e)) /\ RanOf(e)'
  BY <1>1, CpusKept, PendStays
<1>8. RefOf(e)'
  <2>1. WaiterRef(e)' = 0
    BY <1>6 DEF WaiterRef, Awaited
  <2> QED
    BY <1>2, <1>6, <1>7, <2>1 DEF RefOf, Generated
<1>9. SenderOf(e)'
  BY <1>1, <1>2, <1>6 DEF SenderOf, Generated, Sending
<1>10. SignalOf(e)'
  BY <1>1, <1>2, <1>3, <1>6, <1>7 DEF SignalOf, Generated
<1>11. LifeOf(e)'
  BY <1>7, <1>8, <1>9, <1>10 DEF LifeOf
<1> QED
  BY <1>1, <1>5, <1>6, <1>11, SenderStepKeeps

LEMMA MigrateLife ==
    ASSUME IpcLifeInv, NEW e \in Events, NEW c \in Cpus, Migrate(e, c)
    PROVE  IpcLifeInv'
<1>1. /\ Sending(e) /\ cpu' = [cpu EXCEPT ![e] = c] /\ disturbed' = disturbed \cup SendingOn(c) \cup {e}
      /\ UNCHANGED <<pc, call, Targets, queued, RefCnt, Signaled, ran, EventList, IcrHigh, Irr, isr>>
  BY DEF Migrate
<1>2. TypeOK'
  BY <1>1 DEF IpcLifeInv, TypeOK, SendingOn
<1>3. \A f \in Events \ {e} : Same(f)
  BY <1>1 DEF Same, IpcLifeInv, TypeOK
<1>4. RefOf(e) /\ SenderOf(e) /\ SignalOf(e)
  BY LifeFacts
<1>5. Pend(e)' = Pend(e) /\ (\A d \in Cpus : Signals(d, e)' <=> Signals(d, e)) /\ RanOf(e)'
  BY <1>1, CpusKept, PendStays
<1>6. cpu'[e] = c /\ WaiterRef(e)' = WaiterRef(e)
  BY <1>1 DEF IpcLifeInv, TypeOK, WaiterRef, Awaited
<1>7. RefOf(e)' /\ SenderOf(e)' /\ SignalOf(e)'
  <2>1. RefOf(e)'
    BY <1>1, <1>4, <1>5, <1>6 DEF RefOf
  <2>2. SenderOf(e)'
    BY <1>1, <1>4, <1>6 DEF SenderOf
  <2>3. SignalOf(e)'
    BY <1>1, <1>4, <1>5 DEF SignalOf
  <2> QED
    BY <2>1, <2>2, <2>3
<1>8. LifeOf(e)'
  BY <1>5, <1>7 DEF LifeOf
<1> QED
  BY <1>1, <1>2, <1>3, <1>8, SenderStepKeeps

\* One turn of the loop over pMatchingCpus.
InsertAt(e, c) ==
    /\ SenderAt(e, "insert")
    /\ EventList' = [EventList EXCEPT ![c] = Append(@, e)]
    /\ queued' = [queued EXCEPT ![e] = @ \cup {c}]
    /\ UNCHANGED <<pc, cpu, call, Targets, RefCnt, Signaled, ran, IcrHigh, Irr, isr, disturbed>>

LEMMA InsertLife ==
    ASSUME IpcLifeInv, NEW e \in Events, NEW c \in Targets[e] \ queued[e], InsertAt(e, c)
    PROVE  IpcLifeInv'
<1> DEFINE list == Append(EventList[c], e)
<1>0. c \in Cpus
  BY LifeFacts
<1>1. /\ pc[e] = "insert" /\ EventList' = [EventList EXCEPT ![c] = list]
      /\ queued' = [queued EXCEPT ![e] = queued[e] \cup {c}]
      /\ UNCHANGED <<pc, cpu, call, Targets, RefCnt, Signaled, ran, IcrHigh, Irr, isr, disturbed>>
  BY DEF InsertAt, SenderAt
<1>2. /\ EventList[c] \in Seq(Events) /\ Distinct(EventList[c])
      /\ ~InList(c, e) /\ ~Has(EventList[c], e) /\ isr[c].event # e
  BY <1>0, LifeFacts, IpcFacts DEF IpcLifeInv, ListOf
<1>3. /\ list \in Seq(Events) /\ Distinct(list) /\ \A f : Has(list, f) <=> Has(EventList[c], f) \/ f = e
  BY <1>2, AppendList
<1> HIDE DEF list
<1>4. TypeOK'
  BY <1>0, <1>1, <1>3 DEF IpcLifeInv, TypeOK
<1>5. /\ queued'[e] = queued[e] \cup {c} /\ \A f \in Events \ {e} : Same(f)
      /\ EventList'[c] = list /\ \A d \in Cpus \ {c} : EventList'[d] = EventList[d]
  BY <1>0, <1>1 DEF Same, IpcLifeInv, TypeOK
<1>6. \A d \in Cpus, f \in Events : InList(d, f)' <=> InList(d, f) \/ (d = c /\ f = e)
  <2> SUFFICES ASSUME NEW d \in Cpus, NEW f \in Events
               PROVE  InList(d, f)' <=> InList(d, f) \/ (d = c /\ f = e)
    OBVIOUS
  <2>1. CASE d = c
    BY <1>3, <1>5, <2>1 DEF InList, Has
  <2>2. CASE d # c
    BY <1>5, <2>2 DEF InList
  <2> QED
    BY <2>1, <2>2
<1>7. \A f \in Events \ {e} : LifeOf(f)'
  <2>1. \A f \in Events \ {e} : SameAtCpus(f)
    BY <1>1, <1>6 DEF SameAtCpus
  <2> QED
    BY <1>5, <2>1, OthersKept
<1>8. LifeOf(e)'
  <2>0. RefOf(e) /\ SenderOf(e) /\ RanOf(e) /\ SignalOf(e) /\ Targets[e] \subseteq Cpus
    BY LifeFacts
  <2>1. \A d \in Cpus : (Serves(d, e)' <=> Serves(d, e)) /\ (Signals(d, e)' <=> Signals(d, e))
    BY <1>1 DEF Serves, Signals
  <2>2. Pend(e)' = Pend(e)
    BY <1>1, <1>5, <1>6, <2>0, <2>1 DEF Pend
  <2>3. WaiterRef(e)' = WaiterRef(e)
    BY <1>1 DEF WaiterRef, Awaited
  <2>4. RefOf(e)'
    BY <1>1, <2>0, <2>2, <2>3 DEF RefOf, Generated
  <2>5. SenderOf(e)'
    BY <1>1, <1>5, <2>0 DEF SenderOf, Sending
  <2>6. RanOf(e)'
    BY <1>1, <1>2, <1>5, <1>6, <2>0 DEF RanOf
  <2>7. SignalOf(e)'
    BY <1>1, <2>0, <2>1, <2>2 DEF SignalOf
  <2> QED
    BY <2>4, <2>5, <2>6, <2>7 DEF LifeOf
<1>9. ASSUME NEW d \in Cpus PROVE ListOf(d)'
  <2>1. ListOf(d)
    BY DEF IpcLifeInv
  <2>2. Distinct(EventList'[d])
    BY <1>3, <1>5, <2>1 DEF ListOf
  <2>3. \A f \in Events : queued[f] \subseteq queued'[f]
    BY <1>5 DEF Same
  <2>4. ASSUME NEW f \in Events, InList(d, f)' PROVE d \in queued'[f] /\ isr'[d].event # f
    BY <1>1, <1>2, <1>5, <1>6, <2>1, <2>3, <2>4 DEF ListOf
  <2>5. isr[d].event \in Events \cup {None}
    BY DEF IpcLifeInv, TypeOK
  <2> QED
    BY <1>1, <2>1, <2>2, <2>3, <2>4, <2>5 DEF ListOf
<1> QED
  BY <1>4, <1>7, <1>8, <1>9 DEF IpcLifeInv

----------------------------------------------------------------------------
\* The interrupt handler

\* The handler of c goes on with event e.
LEMMA IsrFacts ==
    ASSUME IpcLifeInv, NEW c \in Cpus, NEW l \in IsrPoints, NEW e \in Events \cup {None}, IsrGoto(c, l, e)
    PROVE  /\ isr' \in [Cpus -> [at : IsrPoints, event : Events \cup {None}]]
           /\ isr'[c].at = l /\ isr'[c].event = e /\ \A d \in Cpus \ {c} : isr'[d] = isr[d]
           /\ \A d \in Cpus : isr[d].event \in Events \cup {None} /\ isr[d].at \in IsrPoints
BY DEF IpcLifeInv, TypeOK, IsrGoto

LEMMA AcceptLife ==
    ASSUME IpcLifeInv, NEW c \in Cpus, AcceptInterrupt(c)
    PROVE  IpcLifeInv'
<1>1. /\ isr[c] = NoIsr /\ IsrGoto(c, "enter", None) /\ Irr' = [Irr EXCEPT ![c] = FALSE]
      /\ UNCHANGED <<pc, cpu, call, Targets, queued, RefCnt, Signaled, ran, EventList, IcrHigh, disturbed>>
  BY DEF AcceptInterrupt, ThreadCode, IsrGoto, senderVars
<1>2. /\ isr' \in [Cpus -> [at : IsrPoints, event : Events \cup {None}]]
      /\ isr'[c].at = "enter" /\ isr'[c].event = None /\ \A d \in Cpus \ {c} : isr'[d] = isr[d]
  BY <1>1, IsrFacts DEF IsrPoints
<1>3. isr[c].event = None /\ isr[c].at = "none"
  BY <1>1 DEF NoIsr
<1>4. TypeOK'
  BY <1>1, <1>2 DEF IpcLifeInv, TypeOK
<1>5. \A f \in Events : Same(f) /\ SameAtCpus(f)
  <2>1. \A f \in Events : f # None
    BY LifeFacts
  <2> QED
    BY <1>1, <1>2, <1>3, <2>1 DEF Same, SameAtCpus, InList
<1>6. ASSUME NEW d \in Cpus PROVE ListOf(d)'
  <2>1. ListOf(d)
    BY DEF IpcLifeInv
  <2>2. \A f \in Events : f # None /\ (InList(d, f)' <=> InList(d, f))
    BY <1>1, LifeFacts DEF InList
  <2>3. CASE d = c
    BY <1>1, <1>2, <2>1, <2>2, <2>3 DEF ListOf
  <2>4. CASE d # c
    BY <1>1, <1>2, <2>1, <2>2, <2>4 DEF ListOf
  <2> QED
    BY <2>3, <2>4
<1> QED
  BY <1>4, <1>5, <1>6, OthersKept DEF IpcLifeInv

LEMMA RemoveLife ==
    ASSUME IpcLifeInv, NEW c \in Cpus, RemoveEvent(c)
    PROVE  IpcLifeInv'
<1>1. /\ isr[c].at = "enter" /\ EventList[c] # <<>>
      /\ EventList' = [EventList EXCEPT ![c] = Tail(EventList[c])]
      /\ IsrGoto(c, "function", Head(EventList[c]))
      /\ UNCHANGED <<pc, cpu, call, Targets, queued, RefCnt, Signaled, ran, IcrHigh, Irr, disturbed>>
  BY DEF RemoveEvent, IsrGoto, senderVars
<1>2. PICK e \in Events, list \in Seq(Events) :
          /\ e = Head(EventList[c]) /\ list = Tail(EventList[c]) /\ Distinct(list)
          /\ Has(EventList[c], e) /\ \A f : Has(list, f) <=> Has(EventList[c], f) /\ f # e
  BY <1>1, IpcFacts, TailList
<1>3. /\ EventList' = [EventList EXCEPT ![c] = list] /\ IsrGoto(c, "function", e)
  BY <1>1, <1>2
<1>4. /\ isr' \in [Cpus -> [at : IsrPoints, event : Events \cup {None}]]
      /\ isr'[c].at = "function" /\ isr'[c].event = e /\ \A d \in Cpus \ {c} : isr'[d] = isr[d]
  BY <1>3, IsrFacts DEF IsrPoints
<1>5. TypeOK'
  <2>1. EventList' \in [Cpus -> Seq(Events)]
    BY <1>3 DEF IpcLifeInv, TypeOK
  <2>2. UNCHANGED <<pc, cpu, call, Targets, queued, RefCnt, Signaled, ran, IcrHigh, Irr, disturbed>>
    BY <1>1
  <2> QED
    BY <1>4, <2>1, <2>2 DEF IpcLifeInv, TypeOK
<1>6. EventList'[c] = list /\ \A d \in Cpus \ {c} : EventList'[d] = EventList[d]
  BY <1>3 DEF IpcLifeInv, TypeOK
<1>7. isr[c].event = None /\ \A f \in Events : f # None
  BY <1>1, LifeFacts DEF IpcLifeInv, ListOf
<1>8. \A d \in Cpus, f \in Events : InList(d, f)' <=> InList(d, f) /\ ~(d = c /\ f = e)
  <2> SUFFICES ASSUME NEW d \in Cpus, NEW f \in Events
               PROVE  InList(d, f)' <=> InList(d, f) /\ ~(d = c /\ f = e)
    OBVIOUS
  <2>1. CASE d = c
    <3>1. Has(list, f) <=> Has(EventList[c], f) /\ f # e
      BY <1>2
    <3>2. (InList(c, f) <=> Has(EventList[c], f)) /\ (InList(c, f)' <=> Has(list, f))
      BY <1>6 DEF InList, Has
    <3> QED
      BY <2>1, <3>1, <3>2
  <2>2. CASE d # c
    BY <1>6, <2>2 DEF InList
  <2> QED
    BY <2>1, <2>2
<1>9. InList(c, e) /\ c \in queued[e]
  BY <1>2, IpcFacts DEF IpcLifeInv, ListOf
<1>10. \A f \in Events : Same(f) /\ (f # e => SameAtCpus(f))
  BY <1>1, <1>4, <1>7, <1>8 DEF Same, SameAtCpus
<1>11. LifeOf(e)'
  <2>0. RefOf(e) /\ SenderOf(e) /\ RanOf(e) /\ SignalOf(e) /\ Targets[e] \subseteq Cpus
    BY LifeFacts
  <2>1. \A d \in Cpus : Signals(d, e)' <=> Signals(d, e)
    BY <1>4, <1>7 DEF Signals
  <2>2. Serves(c, e)' /\ \A d \in Cpus \ {c} : Serves(d, e)' <=> Serves(d, e)
    BY <1>4 DEF Serves
  <2>3. Pend(e)' = Pend(e)
    BY <1>1, <1>8, <1>9, <2>0, <2>2 DEF Pend
  <2>4. WaiterRef(e)' = WaiterRef(e)
    BY <1>1 DEF WaiterRef, Awaited
  <2>5. RefOf(e)' /\ SenderOf(e)'
    BY <1>1, <2>0, <2>3, <2>4 DEF RefOf, SenderOf, Sending
  <2>6. RanOf(e)'
    BY <1>1, <1>4, <1>8, <1>9, <2>0 DEF RanOf
  <2>7. SignalOf(e)'
    BY <1>1, <2>0, <2>1, <2>3 DEF SignalOf
  <2> QED
    BY <2>5, <2>6, <2>7 DEF LifeOf
<1>12. ASSUME NEW d \in Cpus PROVE ListOf(d)'
  <2>1. ListOf(d)
    BY DEF IpcLifeInv
  <2>2. CASE d = c
    BY <1>1, <1>2, <1>4, <1>6, <1>7, <1>8, <1>9, <2>1, <2>2 DEF ListOf
  <2>3. CASE d # c
    BY <1>1, <1>4, <1>6, <1>8, <2>1, <2>3 DEF ListOf
  <2> QED
    BY <2>2, <2>3
<1> QED
  BY <1>5, <1>10, <1>11, <1>12, OthersKept DEF IpcLifeInv

LEMMA CallLife ==
    ASSUME IpcLifeInv, NEW c \in Cpus, CallFunction(c)
    PROVE  IpcLifeInv'
<1>0. PICK e \in Events : e = isr[c].event /\ isr[c].at = "function"
  BY IpcFacts DEF CallFunction
<1>1. /\ ran' = [ran EXCEPT ![e] = @ \cup {c}] /\ IsrGoto(c, "dereference", e)
      /\ UNCHANGED <<pc, cpu, call, Targets, queued, RefCnt, Signaled, EventList, IcrHigh, Irr, disturbed>>
  BY <1>0 DEF CallFunction, IsrGoto, senderVars
<1>2. /\ isr' \in [Cpus -> [at : IsrPoints, event : Events \cup {None}]]
      /\ isr'[c].at = "dereference" /\ isr'[c].event = e /\ \A d \in Cpus \ {c} : isr'[d] = isr[d]
  BY <1>1, IsrFacts DEF IsrPoints
<1>3. TypeOK'
  BY <1>1, <1>2 DEF IpcLifeInv, TypeOK
<1>4. /\ ran'[e] = ran[e] \cup {c} /\ \A f \in Events \ {e} : Same(f)
  BY <1>1 DEF Same, IpcLifeInv, TypeOK
<1>5. \A d \in Cpus, f \in Events : InList(d, f)' <=> InList(d, f)
  BY <1>1 DEF InList
<1>6. \A f \in Events \ {e} : SameAtCpus(f)
  BY <1>0, <1>2, <1>5 DEF SameAtCpus
<1>7. c \in queued[e] /\ ~InList(c, e) /\ e # None
  BY <1>0, LifeFacts DEF IpcLifeInv, ListOf
<1>8. LifeOf(e)'
  <2>0. RefOf(e) /\ SenderOf(e) /\ RanOf(e) /\ SignalOf(e) /\ Targets[e] \subseteq Cpus
    BY LifeFacts
  <2>1. \A d \in Cpus : (Signals(d, e)' <=> Signals(d, e)) /\ (Serves(d, e)' <=> Serves(d, e))
    BY <1>0, <1>2 DEF Signals, Serves
  <2>2. Pend(e)' = Pend(e)
    BY <1>1, <1>5, <2>0, <2>1 DEF Pend
  <2>3. WaiterRef(e)' = WaiterRef(e)
    BY <1>1 DEF WaiterRef, Awaited
  <2>4. RefOf(e)' /\ SenderOf(e)'
    BY <1>1, <2>0, <2>2, <2>3 DEF RefOf, SenderOf, Sending
  <2>5. RanOf(e)'
    BY <1>1, <1>2, <1>4, <1>5, <1>7, <2>0 DEF RanOf
  <2>6. SignalOf(e)'
    BY <1>1, <2>0, <2>1, <2>2 DEF SignalOf
  <2> QED
    BY <2>4, <2>5, <2>6 DEF LifeOf
<1>9. ASSUME NEW d \in Cpus PROVE ListOf(d)'
  <2>1. ListOf(d)
    BY DEF IpcLifeInv
  <2>2. CASE d = c
    BY <1>0, <1>1, <1>2, <1>5, <1>7, <2>1, <2>2 DEF ListOf
  <2>3. CASE d # c
    BY <1>1, <1>2, <1>5, <2>1, <2>3 DEF ListOf
  <2> QED
    BY <2>2, <2>3
<1> QED
  BY <1>3, <1>4, <1>6, <1>8, <1>9, OthersKept DEF IpcLifeInv

\* A CPU leaves the event: it is the one that signals exactly if it was the last of
\* the targets and somebody waits.
LEMMA DereferenceLife ==
    ASSUME IpcLifeInv, NEW c \in Cpus, IpcDereference(c)
    PROVE  IpcLifeInv'
<1>0. PICK e \in Events : e = isr[c].event /\ isr[c].at = "dereference"
  BY IpcFacts DEF IpcDereference
<1>1. /\ RefCnt' = [RefCnt EXCEPT ![e] = @ - 1]
      /\ UNCHANGED <<pc, cpu, call, Targets, queued, Signaled, ran, EventList, IcrHigh, Irr, disturbed>>
  BY <1>0 DEF IpcDereference, senderVars
<1>2. PICK l \in {"signal", "none"}, x \in {e, None} :
          /\ IsrGoto(c, l, x) /\ (l = "signal" <=> call[e].wait /\ RefCnt[e] = 2)
          /\ l = "signal" <=> x = e
  <2>1. CASE call[e].wait /\ RefCnt[e] = 2
    BY <1>0, <2>1 DEF IpcDereference, IsrGoto
  <2>2. CASE ~(call[e].wait /\ RefCnt[e] = 2)
    BY <1>0, <2>2, LifeFacts DEF IpcDereference, IsrGoto, NoIsr
  <2> QED
    BY <2>1, <2>2
<1>3. /\ isr' \in [Cpus -> [at : IsrPoints, event : Events \cup {None}]]
      /\ isr'[c].at = l /\ isr'[c].event = x /\ \A d \in Cpus \ {c} : isr'[d] = isr[d]
  BY <1>2, IsrFacts DEF IsrPoints
<1>4. RefOf(e) /\ SenderOf(e) /\ RanOf(e) /\ SignalOf(e) /\ Targets[e] \subseteq Cpus /\ e # None
      /\ IsFiniteSet(Pend(e)) /\ Cardinality(Pend(e)) \in Nat
  BY LifeFacts
<1>5. c \in queued[e] /\ ~InList(c, e)
  BY <1>0, <1>4 DEF IpcLifeInv, ListOf
<1>6. pc[e] \in Generated /\ c \in Pend(e)
  BY <1>0, <1>4, <1>5 DEF RefOf, SenderOf, Pend, Serves
<1>7. /\ IsFiniteSet(Pend(e) \ {c}) /\ Cardinality(Pend(e) \ {c}) = Cardinality(Pend(e)) - 1
      /\ Cardinality(Pend(e) \ {c}) \in Nat /\ (Cardinality(Pend(e) \ {c}) = 0 <=> Pend(e) \ {c} = {})
  BY <1>4, <1>6, FS_RemoveElement, FS_CardinalityType, FS_EmptySet
<1>8. call[e].wait => pc[e] \in Generated \ {"handled", "done"} /\ WaiterRef(e) = 1
  BY <1>4, <1>6 DEF SignalOf, WaiterRef, Awaited, Generated
<1>9. RefCnt[e] = Cardinality(Pend(e)) + WaiterRef(e) /\ WaiterRef(e) \in Nat
  BY <1>4, <1>6 DEF RefOf, WaiterRef
<1>10. RefCnt[e] - 1 \in Nat /\ RefCnt[e] - 1 = Cardinality(Pend(e) \ {c}) + WaiterRef(e)
  BY <1>4, <1>7, <1>9
<1>11. call[e].wait => (RefCnt[e] = 2 <=> Pend(e) \ {c} = {})
  <2> SUFFICES ASSUME call[e].wait PROVE RefCnt[e] = 2 <=> Pend(e) \ {c} = {}
    OBVIOUS
  <2> DEFINE n == Cardinality(Pend(e) \ {c})
  <2>1. n \in Nat /\ (n = 0 <=> Pend(e) \ {c} = {}) /\ WaiterRef(e) = 1
    BY <1>7, <1>8
  <2>2. RefCnt[e] \in Nat /\ RefCnt[e] - 1 = n + 1
    BY <1>10, <2>1, LifeFacts
  <2> HIDE DEF n
  <2>3. RefCnt[e] = 2 <=> n = 0
    BY <2>1, <2>2
  <2> QED
    BY <2>1, <2>3
<1>12. ~Signaled[e] /\ \A d \in Cpus : ~Signals(d, e)
  BY <1>4, <1>6 DEF SignalOf
<1>13. TypeOK'
  BY <1>1, <1>3, <1>10 DEF IpcLifeInv, TypeOK
<1>14. RefCnt'[e] = RefCnt[e] - 1 /\ \A f \in Events \ {e} : Same(f)
  BY <1>1 DEF Same, IpcLifeInv, TypeOK
<1>15. \A d \in Cpus, f \in Events : InList(d, f)' <=> InList(d, f)
  BY <1>1 DEF InList
<1>16. \A f \in Events \ {e} : SameAtCpus(f)
  <2>1. \A f \in Events : f # None
    BY LifeFacts
  <2> QED
    BY <1>0, <1>3, <1>15, <2>1 DEF SameAtCpus
<1>17. LifeOf(e)'
  <2>1. /\ \A d \in Cpus \ {c} : Serves(d, e)' <=> Serves(d, e)
        /\ ~Serves(c, e)'
        /\ \A d \in Cpus : Signals(d, e)' <=> d = c /\ l = "signal"
    <3>1. \A d \in Cpus \ {c} : (Serves(d, e)' <=> Serves(d, e)) /\ ~Signals(d, e)'
      BY <1>3, <1>12 DEF Serves, Signals
    <3>2. ~Serves(c, e)' /\ (Signals(c, e)' <=> l = "signal")
      BY <1>2, <1>3 DEF Serves, Signals
    <3> QED
      BY <3>1, <3>2
  <2>2. Pend(e)' = Pend(e) \ {c}
    BY <1>1, <1>4, <1>5, <1>15, <2>1 DEF Pend
  <2>3. WaiterRef(e)' = WaiterRef(e)
    BY <1>1 DEF WaiterRef, Awaited
  <2>4. RefOf(e)'
    BY <1>1, <1>6, <1>10, <1>14, <2>2, <2>3 DEF RefOf
  <2>5. SenderOf(e)'
    BY <1>1, <1>4 DEF SenderOf, Sending
  <2>6. RanOf(e)'
    <3> SUFFICES ASSUME NEW d \in Cpus
                 PROVE  d \in ran[e] <=> d \in queued[e] /\ ~InList(d, e)
                                         /\ ~(isr'[d].event = e /\ isr'[d].at = "function")
      BY <1>1, <1>15 DEF RanOf
    <3>1. CASE d = c
      BY <1>0, <1>2, <1>3, <1>4, <1>5, <3>1 DEF RanOf
    <3>2. CASE d # c
      BY <1>3, <1>4, <3>2 DEF RanOf
    <3> QED
      BY <3>1, <3>2
  <2>7. SignalOf(e)'
    <3>1. l = "signal" => Pend(e)' = {} /\ call[e].wait /\ pc[e] \in Generated \ {"handled", "done"}
      BY <1>2, <1>8, <1>11, <2>2
    <3>2. pc[e] \in {"handled", "done"} /\ call[e].wait => Pend(e)' = {}
      BY <1>8
    <3> QED
      BY <1>1, <1>12, <2>1, <3>1, <3>2 DEF SignalOf
  <2> QED
    BY <2>4, <2>5, <2>6, <2>7 DEF LifeOf
<1>18. ASSUME NEW d \in Cpus PROVE ListOf(d)'
  <2>1. ListOf(d) /\ \A f \in Events : f # None
    BY LifeFacts DEF IpcLifeInv
  <2>2. CASE d = c
    <3>1. l \in {"none", "enter"} <=> x = None
      BY <1>2, <1>4
    <3>2. x # None => x = e
      BY <1>2
    <3>3. \A f \in Events : InList(c, f) => f # e
      BY <1>5
    <3> QED
      BY <1>1, <1>3, <1>5, <1>15, <2>1, <2>2, <3>1, <3>2, <3>3 DEF ListOf
  <2>3. CASE d # c
    BY <1>1, <1>3, <1>15, <2>1, <2>3 DEF ListOf
  <2> QED
    BY <2>2, <2>3
<1> QED
  BY <1>13, <1>14, <1>16, <1>17, <1>18, OthersKept DEF IpcLifeInv

LEMMA SignalLife ==
    ASSUME IpcLifeInv, NEW c \in Cpus, EvtSignal(c)
    PROVE  IpcLifeInv'
<1>0. PICK e \in Events : e = isr[c].event /\ isr[c].at = "signal"
  BY IpcFacts DEF EvtSignal
<1>1. /\ Signaled' = [Signaled EXCEPT ![e] = TRUE] /\ IsrGoto(c, "none", None)
      /\ UNCHANGED <<pc, cpu, call, Targets, queued, RefCnt, ran, EventList, IcrHigh, Irr, disturbed>>
  BY <1>0 DEF EvtSignal, IsrGoto, NoIsr, senderVars
<1>2. /\ isr' \in [Cpus -> [at : IsrPoints, event : Events \cup {None}]]
      /\ isr'[c].at = "none" /\ isr'[c].event = None /\ \A d \in Cpus \ {c} : isr'[d] = isr[d]
  BY <1>1, IsrFacts DEF IsrPoints
<1>3. TypeOK'
  BY <1>1, <1>2 DEF IpcLifeInv, TypeOK
<1>4. Signaled'[e] /\ \A f \in Events \ {e} : Same(f)
  BY <1>1 DEF Same, IpcLifeInv, TypeOK
<1>5. \A d \in Cpus, f \in Events : InList(d, f)' <=> InList(d, f)
  BY <1>1 DEF InList
<1>6. \A f \in Events : f # None
  BY LifeFacts
<1>7. \A f \in Events \ {e} : SameAtCpus(f)
  BY <1>0, <1>2, <1>5, <1>6 DEF SameAtCpus
<1>8. RefOf(e) /\ SenderOf(e) /\ RanOf(e) /\ SignalOf(e) /\ Targets[e] \subseteq Cpus
  BY LifeFacts
<1>9. Signals(c, e) /\ Pend(e) = {} /\ call[e].wait /\ pc[e] \in Generated \ {"handled", "done"}
      /\ \A d \in Cpus : Signals(d, e) => d = c
  BY <1>0, <1>8 DEF Signals, SignalOf
<1>10. LifeOf(e)'
  <2>1. \A d \in Cpus : (Serves(d, e)' <=> Serves(d, e)) /\ ~Signals(d, e)'
    <3> SUFFICES ASSUME NEW d \in Cpus PROVE (Serves(d, e)' <=> Serves(d, e)) /\ ~Signals(d, e)'
      OBVIOUS
    <3>1. CASE d = c
      BY <1>0, <1>2, <1>6, <3>1 DEF Serves, Signals
    <3>2. CASE d # c
      BY <1>2, <1>9, <3>2 DEF Serves, Signals
    <3> QED
      BY <3>1, <3>2
  <2>2. Pend(e)' = Pend(e)
    BY <1>1, <1>5, <1>8, <2>1 DEF Pend
  <2>3. WaiterRef(e)' = WaiterRef(e)
    BY <1>1 DEF WaiterRef, Awaited
  <2>4. RefOf(e)' /\ SenderOf(e)'
    BY <1>1, <1>8, <2>2, <2>3 DEF RefOf, SenderOf, Sending
  <2>5. RanOf(e)'
    <3> SUFFICES ASSUME NEW d \in Cpus
                 PROVE  d \in ran[e] <=> d \in queued[e] /\ ~InList(d, e)
                                         /\ ~(isr'[d].event = e /\ isr'[d].at = "function")
      BY <1>1, <1>5 DEF RanOf
    <3>1. CASE d = c
      BY <1>0, <1>2, <1>6, <1>8, <3>1 DEF RanOf
    <3>2. CASE d # c
      BY <1>2, <1>8, <3>2 DEF RanOf
    <3> QED
      BY <3>1, <3>2
  <2>6. SignalOf(e)'
    BY <1>1, <1>9, <2>1, <2>2 DEF SignalOf
  <2> QED
    BY <2>4, <2>5, <2>6 DEF LifeOf
<1>11. ASSUME NEW d \in Cpus PROVE ListOf(d)'
  <2>1. ListOf(d)
    BY DEF IpcLifeInv
  <2>2. CASE d = c
    BY <1>1, <1>2, <1>5, <1>6, <2>1, <2>2 DEF ListOf
  <2>3. CASE d # c
    BY <1>1, <1>2, <1>5, <2>1, <2>3 DEF ListOf
  <2> QED
    BY <2>2, <2>3
<1> QED
  BY <1>3, <1>4, <1>7, <1>10, <1>11, OthersKept DEF IpcLifeInv

----------------------------------------------------------------------------
\* The specification

LEMMA InitLife == Init => IpcLifeInv
<1> SUFFICES ASSUME Init PROVE IpcLifeInv
  OBVIOUS
<1>1. TypeOK
  BY DEF Init, TypeOK, NoCall, NoIsr, AllModes, IsrPoints
<1>2. \A c \in Cpus : isr[c].event = None /\ isr[c].at = "none" /\ DOMAIN EventList[c] = {}
  BY DEF Init, NoIsr
<1>3. \A e \in Events : /\ pc[e] = "new" /\ RefCnt[e] = 0 /\ queued[e] = {} /\ Targets[e] = {}
                        /\ ran[e] = {} /\ ~Signaled[e] /\ e # None
  BY IpcAssumption DEF Init
<1>4. \A e \in Events : LifeOf(e)
  BY <1>2, <1>3 DEF LifeOf, RefOf, SenderOf, RanOf, SignalOf, Generated, Sending, InList, Signals
<1>5. \A c \in Cpus : ListOf(c)
  BY <1>2 DEF ListOf, Distinct, InList
<1> QED
  BY <1>1, <1>4, <1>5 DEF IpcLifeInv

LEMMA SendStepLife ==
    ASSUME IpcLifeInv, NEW e \in Events, InsertEvent(e) \/ WriteIcrHigh(e) \/ WriteIcrLow(e)
    PROVE  IpcLifeInv'
<1>0. SenderOf(e)
  BY LifeFacts
<1>1. CASE InsertEvent(e)
  <2>1. \/ \E c \in Targets[e] \ queued[e] : InsertAt(e, c)
        \/ /\ pc[e] = "insert" /\ queued[e] = Targets[e] /\ pc' = [pc EXCEPT ![e] = "icrHigh"]
           /\ UNCHANGED <<EventList, queued, cpu, call, Targets, RefCnt, Signaled, ran, IcrHigh, Irr, isr,
                          disturbed>>
    BY <1>1 DEF InsertEvent, InsertAt, SenderAt, Goto
  <2>2. CASE \E c \in Targets[e] \ queued[e] : InsertAt(e, c)
    BY <2>2, InsertLife
  <2>3. CASE /\ pc[e] = "insert" /\ queued[e] = Targets[e] /\ pc' = [pc EXCEPT ![e] = "icrHigh"]
             /\ UNCHANGED <<EventList, queued, cpu, call, Targets, RefCnt, Signaled, ran, IcrHigh, Irr, isr,
                            disturbed>>
    <3>1. TypeOK'
      BY <2>3 DEF IpcLifeInv, TypeOK
    <3>2. "icrHigh" \in Generated
      BY DEF Generated
    <3> QED
      BY <2>3, <3>1, <3>2, SendLife
  <2> QED
    BY <2>1, <2>2, <2>3
<1>2. CASE WriteIcrHigh(e)
  <2>1. /\ pc[e] = "icrHigh" /\ pc' = [pc EXCEPT ![e] = "icrLow"]
        /\ IcrHigh' = [IcrHigh EXCEPT ![cpu[e]] = call[e].dest]
        /\ UNCHANGED <<cpu, call, Targets, queued, RefCnt, Signaled, ran, EventList, Irr, isr, disturbed>>
    BY <1>2 DEF WriteIcrHigh, SenderAt, Goto
  <2>2. TypeOK' /\ "icrLow" \in Generated
    BY <2>1 DEF IpcLifeInv, TypeOK, Generated
  <2> QED
    BY <2>1, <2>2, SendLife
<1>3. CASE WriteIcrLow(e)
  <2>1. PICK l \in Generated :
            /\ pc[e] = "icrLow" /\ l = (IF call[e].wait THEN "wait" ELSE "done")
            /\ pc' = [pc EXCEPT ![e] = l] /\ cpu' = [cpu EXCEPT ![e] = None] /\ Irr' \in [Cpus -> BOOLEAN]
            /\ UNCHANGED <<call, Targets, queued, RefCnt, Signaled, ran, EventList, IcrHigh, isr, disturbed>>
    BY <1>3 DEF WriteIcrLow, SenderAt, Goto, IpcLifeInv, TypeOK, Generated
  <2>2. TypeOK' /\ \A f \in Events \ {e} : cpu'[f] = cpu[f]
    BY <2>1 DEF IpcLifeInv, TypeOK, Generated
  <2> QED
    BY <2>1, <2>2, SendLife
<1> QED
  BY <1>1, <1>2, <1>3

LEMMA NextLife == ASSUME IpcLifeInv, [Next]_vars PROVE IpcLifeInv'
<1>1. CASE UNCHANGED vars
  <2>1. UNCHANGED <<pc, cpu, call, Targets, queued, RefCnt, Signaled, ran, EventList, IcrHigh, Irr, isr,
                    disturbed>>
    BY <1>1 DEF vars, senderVars
  <2>2. TypeOK'
    BY <2>1 DEF IpcLifeInv, TypeOK
  <2>3. \A f \in Events : Same(f)
    BY <2>1 DEF Same
  <2> QED
    BY <2>1, <2>2, <2>3, CpusKept, OthersKept DEF IpcLifeInv
<1>2. CASE Next
  BY <1>2, RetrieveLife, GenerateLife, SendStepLife, WaitLife, WaiterDropsLife, MigrateLife, AcceptLife,
     RemoveLife, CallLife, DereferenceLife, SignalLife
  DEF Next, SenderStep, IsrStep
<1> QED
  BY <1>1, <1>2

----------------------------------------------------------------------------
\* Interrupts

\* What is read of InterruptInv while nobody is disturbed.
LEMMA UnsentFacts ==
    ASSUME IpcIInv
    PROVE  \A c \in Cpus : /\ IsFiniteSet(Unsent(c)) /\ Cardinality(Unsent(c)) \in Nat
                           /\ Pending(c) \in {0, 1} /\ Entering(c) \in {0, 1} /\ Len(EventList[c]) \in Nat
<1> SUFFICES ASSUME NEW c \in Cpus
             PROVE  /\ IsFiniteSet(Unsent(c)) /\ Cardinality(Unsent(c)) \in Nat
                    /\ Pending(c) \in {0, 1} /\ Entering(c) \in {0, 1} /\ Len(EventList[c]) \in Nat
  OBVIOUS
<1>1. Unsent(c) \subseteq {e \in Events : pc[e] # "new"}
  BY DEF Unsent, Sending
<1>2. IsFiniteSet(Unsent(c))
  BY <1>1, FS_Subset DEF IpcIInv, StartedInv
<1>3. EventList[c] \in Seq(Events)
  BY DEF IpcIInv, IpcLifeInv, TypeOK
<1> QED
  BY <1>2, <1>3, FS_CardinalityType DEF Pending, Entering

\* The parts of InterruptInv.
OwnCpus == \A e, f \in Events : Sending(e) /\ Sending(f) /\ cpu[e] = cpu[f] => e = f
Addresses == \A e \in Events : Sending(e) =>
    /\ Targets[e] = MatchingCpus(call[e].mode, call[e].dest, cpu[e])
    /\ pc[e] = "icrLow" => IcrHigh[cpu[e]] = call[e].dest
EnoughAt(c) == Len(EventList[c]) >= Pending(c) + Entering(c) + Cardinality(Unsent(c))

LEMMA InterruptParts ==
    /\ InterruptInv <=> (disturbed = {} => OwnCpus /\ Addresses /\ \A c \in Cpus : EnoughAt(c))
    /\ InterruptInv' <=> (disturbed' = {} => OwnCpus' /\ Addresses' /\ \A c \in Cpus : EnoughAt(c)')
BY DEF InterruptInv, OwnCpus, Addresses, EnoughAt

\* A step starts one event at most.
LEMMA NextStarted == ASSUME IpcIInv, [Next]_vars PROVE StartedInv'
<1> DEFINE started == {e \in Events : pc[e] # "new"}
<1>1. pc' = pc \/ \E e \in Events : \A f \in Events \ {e} : pc'[f] = pc[f]
  <2>0. pc \in [Events -> {"new", "generate", "insert", "icrHigh", "icrLow", "wait", "handled", "done"}]
    BY DEF IpcIInv, IpcLifeInv, TypeOK
  <2>1. ASSUME NEW e \in Events, NEW c \in Cpus, NEW dest, NEW mode, NEW wait,
               RetrieveMatchingCpus(e, c, mode, dest, wait)
        PROVE  \A f \in Events \ {e} : pc'[f] = pc[f]
    BY <2>0, <2>1 DEF RetrieveMatchingCpus, Goto
  <2>2. ASSUME NEW e \in Events, SenderStep(e) PROVE \A f \in Events \ {e} : pc'[f] = pc[f]
    BY <2>0, <2>2 DEF SenderStep, IpcGenerateEvent, InsertEvent, WriteIcrHigh, WriteIcrLow, EvtWaitForSignal,
                      DereferenceByWaiter, Goto
  <2>3. ASSUME NEW e \in Events, NEW c \in Cpus, Migrate(e, c) PROVE pc' = pc
    BY <2>3 DEF Migrate
  <2>4. ASSUME NEW c \in Cpus, IsrStep(c) PROVE pc' = pc
    BY <2>4 DEF IsrStep, AcceptInterrupt, RemoveEvent, CallFunction, IpcDereference, EvtSignal, senderVars
  <2>5. UNCHANGED vars => pc' = pc
    BY DEF vars, senderVars
  <2> QED
    BY <2>1, <2>2, <2>3, <2>4, <2>5 DEF Next
<1>2. IsFiniteSet(started)
  BY DEF IpcIInv, StartedInv
<1>3. CASE pc' = pc
  BY <1>2, <1>3 DEF StartedInv
<1>4. ASSUME NEW e \in Events, \A f \in Events \ {e} : pc'[f] = pc[f] PROVE StartedInv'
  <2>1. {f \in Events : pc'[f] # "new"} \subseteq started \cup {e}
    BY <1>4
  <2>2. IsFiniteSet(started \cup {e})
    BY <1>2, FS_AddElement
  <2>3. IsFiniteSet({f \in Events : pc'[f] # "new"})
    BY <2>1, <2>2, FS_Subset
  <2> QED
    BY <2>3 DEF StartedInv
<1> QED
  BY <1>1, <1>3, <1>4

\* Steps that neither begin nor end the sending of an event.
LEMMA SendersKept ==
    ASSUME OwnCpus, Addresses, UNCHANGED <<cpu, call, Targets, IcrHigh>>,
           \A e \in Events : (Sending(e)' <=> Sending(e)) /\ (pc'[e] = "icrLow" => pc[e] = "icrLow")
    PROVE  /\ OwnCpus' /\ Addresses'
           /\ UNCHANGED queued => \A c \in Cpus : Unsent(c)' = Unsent(c)
<1>1. OwnCpus'
  BY DEF OwnCpus
<1>2. Addresses'
  BY DEF Addresses
<1>3. UNCHANGED queued => \A c \in Cpus : Unsent(c)' = Unsent(c)
  BY DEF Unsent
<1> QED
  BY <1>1, <1>2, <1>3

LEMMA RetrieveInterrupts ==
    ASSUME IpcIInv, NEW e \in Events, NEW c \in Cpus, NEW dest, NEW mode, NEW wait,
           RetrieveMatchingCpus(e, c, mode, dest, wait)
    PROVE  InterruptInv'
<1> SUFFICES ASSUME disturbed' = {} PROVE OwnCpus' /\ Addresses' /\ \A d \in Cpus : EnoughAt(d)'
  BY InterruptParts
<1>1. disturbed = {} /\ SendingOn(c) = {}
  BY DEF RetrieveMatchingCpus
<1>2. OwnCpus /\ Addresses /\ \A d \in Cpus : EnoughAt(d)
  BY <1>1, InterruptParts DEF IpcIInv
<1>3. PICK l \in {"done", "generate"} :
          /\ pc[e] = "new" /\ UNCHANGED <<EventList, isr, queued, IcrHigh, Irr>>
          /\ cpu' = [cpu EXCEPT ![e] = c]
          /\ call' = [call EXCEPT ![e] = [mode |-> mode, dest |-> dest, wait |-> wait]]
          /\ Targets' = [Targets EXCEPT ![e] = MatchingCpus(mode, dest, c)]
          /\ pc' = [pc EXCEPT ![e] = l]
  BY DEF RetrieveMatchingCpus, Goto
<1>4. /\ cpu'[e] = c /\ call'[e].mode = mode /\ call'[e].dest = dest
      /\ Targets'[e] = MatchingCpus(mode, dest, c) /\ pc'[e] # "icrLow" /\ queued[e] = {}
      /\ \A f \in Events \ {e} : /\ cpu'[f] = cpu[f] /\ call'[f] = call[f] /\ Targets'[f] = Targets[f]
                                 /\ pc'[f] = pc[f] /\ (Sending(f)' <=> Sending(f))
  <2>1. TypeOK /\ RefOf(e)
    BY LifeFacts DEF IpcIInv, IpcLifeInv
  <2>2. queued[e] = {}
    BY <1>3, <2>1 DEF RefOf, Generated
  <2> QED
    BY <1>3, <2>1, <2>2 DEF TypeOK, Sending
<1>5. \A f \in Events : Sending(f) => cpu[f] # c
  BY <1>1 DEF SendingOn
<1>6. OwnCpus'
  BY <1>2, <1>4, <1>5 DEF OwnCpus
<1>7. Addresses'
  <2> SUFFICES ASSUME NEW f \in Events, Sending(f)'
               PROVE  /\ Targets'[f] = MatchingCpus(call'[f].mode, call'[f].dest, cpu'[f])
                      /\ pc'[f] = "icrLow" => IcrHigh'[cpu'[f]] = call'[f].dest
    BY DEF Addresses
  <2>1. CASE f = e
    BY <1>4, <2>1
  <2>2. CASE f # e
    BY <1>2, <1>3, <1>4, <2>2 DEF Addresses
  <2> QED
    BY <2>1, <2>2
<1>8. \A d \in Cpus : Unsent(d)' = Unsent(d)
  BY <1>3, <1>4 DEF Unsent
<1>9. \A d \in Cpus : EnoughAt(d)'
  BY <1>2, <1>3, <1>8 DEF EnoughAt, Pending, Entering
<1> QED
  BY <1>6, <1>7, <1>9

\* The sender goes on; what it has queued stays unsent.
LEMMA GoOnInterrupts ==
    ASSUME IpcIInv, UNCHANGED <<cpu, call, Targets, IcrHigh, queued, EventList, isr, Irr, disturbed>>,
           \A e \in Events : (Sending(e)' <=> Sending(e)) /\ (pc'[e] = "icrLow" => pc[e] = "icrLow")
    PROVE  InterruptInv'
<1> SUFFICES ASSUME disturbed' = {} PROVE OwnCpus' /\ Addresses' /\ \A d \in Cpus : EnoughAt(d)'
  BY InterruptParts
<1>1. OwnCpus /\ Addresses /\ \A d \in Cpus : EnoughAt(d)
  BY InterruptParts DEF IpcIInv
<1>2. OwnCpus' /\ Addresses' /\ \A c \in Cpus : Unsent(c)' = Unsent(c)
  BY <1>1, SendersKept
<1> QED
  BY <1>1, <1>2 DEF EnoughAt, Pending, Entering

LEMMA InsertInterrupts ==
    ASSUME IpcIInv, NEW e \in Events, NEW c \in Targets[e] \ queued[e], InsertAt(e, c)
    PROVE  InterruptInv'
<1> SUFFICES ASSUME disturbed' = {} PROVE OwnCpus' /\ Addresses' /\ \A d \in Cpus : EnoughAt(d)'
  BY InterruptParts
<1>0. c \in Cpus /\ TypeOK /\ IpcLifeInv
  BY LifeFacts DEF IpcIInv, IpcLifeInv
<1>1. /\ EventList' = [EventList EXCEPT ![c] = Append(EventList[c], e)]
      /\ queued' = [queued EXCEPT ![e] = queued[e] \cup {c}] /\ Sending(e)
      /\ UNCHANGED <<pc, cpu, call, Targets, IcrHigh, Irr, isr, disturbed>>
  BY DEF InsertAt, SenderAt, Sending
<1>2. OwnCpus /\ Addresses /\ \A d \in Cpus : EnoughAt(d)
  BY <1>1, InterruptParts DEF IpcIInv
<1>3. OwnCpus' /\ Addresses'
  BY <1>1, <1>2, SendersKept DEF Sending
<1>4. ASSUME NEW d \in Cpus PROVE EnoughAt(d)'
  <2>0. Pending(d)' = Pending(d) /\ Entering(d)' = Entering(d)
    BY <1>1 DEF Pending, Entering
  <2>1. CASE d = c
    <3>1. Unsent(c)' = Unsent(c) \cup {e} /\ e \notin Unsent(c)
      BY <1>0, <1>1 DEF Unsent, Sending, TypeOK
    <3>2. Cardinality(Unsent(c) \cup {e}) = Cardinality(Unsent(c)) + 1
      BY <1>0, <3>1, UnsentFacts, FS_AddElement
    <3>3. Len(EventList'[c]) = Len(EventList[c]) + 1
      <4>1. EventList[c] \in Seq(Events) /\ EventList'[c] = Append(EventList[c], e)
        BY <1>0, <1>1 DEF TypeOK
      <4> QED
        BY <4>1
    <3>4. /\ Len(EventList[c]) \in Nat /\ Pending(c) \in {0, 1} /\ Entering(c) \in {0, 1}
          /\ Cardinality(Unsent(c)) \in Nat
      BY <1>0, UnsentFacts
    <3>5. Len(EventList[c]) >= Pending(c) + Entering(c) + Cardinality(Unsent(c))
      BY <1>0, <1>2 DEF EnoughAt
    <3>6. Len(EventList[c]) + 1 >= Pending(c) + Entering(c) + (Cardinality(Unsent(c)) + 1)
      BY <3>4, <3>5
    <3> QED
      BY <2>0, <2>1, <3>1, <3>2, <3>3, <3>6 DEF EnoughAt
  <2>2. CASE d # c
    <3>1. EventList'[d] = EventList[d]
      BY <1>0, <1>1, <2>2 DEF TypeOK
    <3>2. Unsent(d)' = Unsent(d)
      BY <1>0, <1>1, <2>2 DEF Unsent, Sending, TypeOK
    <3> QED
      BY <1>2, <2>0, <3>1, <3>2 DEF EnoughAt
  <2> QED
    BY <2>1, <2>2
<1> QED
  BY <1>3, <1>4

\* No other sender uses the command register of the CPU.
LEMMA IcrHighInterrupts ==
    ASSUME IpcIInv, NEW e \in Events, WriteIcrHigh(e)
    PROVE  InterruptInv'
<1> SUFFICES ASSUME disturbed' = {} PROVE OwnCpus' /\ Addresses' /\ \A d \in Cpus : EnoughAt(d)'
  BY InterruptParts
<1>0. TypeOK /\ SenderOf(e)
  BY LifeFacts DEF IpcIInv, IpcLifeInv
<1>1. /\ pc[e] = "icrHigh" /\ pc' = [pc EXCEPT ![e] = "icrLow"]
      /\ IcrHigh' = [IcrHigh EXCEPT ![cpu[e]] = call[e].dest]
      /\ UNCHANGED <<cpu, call, Targets, queued, EventList, Irr, isr, disturbed>>
  BY DEF WriteIcrHigh, SenderAt, Goto
<1>2. OwnCpus /\ Addresses /\ \A d \in Cpus : EnoughAt(d)
  BY <1>1, InterruptParts DEF IpcIInv
<1>3. Sending(e) /\ cpu[e] \in Cpus
  BY <1>0, <1>1 DEF Sending, SenderOf
<1>4. /\ \A f \in Events : Sending(f)' <=> Sending(f)
      /\ \A f \in Events \ {e} : pc'[f] = pc[f]
      /\ IcrHigh'[cpu[e]] = call[e].dest /\ \A c \in Cpus \ {cpu[e]} : IcrHigh'[c] = IcrHigh[c]
  BY <1>0, <1>1, <1>3 DEF Sending, TypeOK
<1>5. OwnCpus'
  BY <1>1, <1>2, <1>4 DEF OwnCpus
<1>6. Addresses'
  <2> SUFFICES ASSUME NEW f \in Events, Sending(f)
               PROVE  /\ Targets'[f] = MatchingCpus(call'[f].mode, call'[f].dest, cpu'[f])
                      /\ pc'[f] = "icrLow" => IcrHigh'[cpu'[f]] = call'[f].dest
    BY <1>4 DEF Addresses
  <2>1. Targets'[f] = MatchingCpus(call'[f].mode, call'[f].dest, cpu'[f])
    BY <1>1, <1>2 DEF Addresses
  <2>2. CASE f = e
    BY <1>1, <1>4, <2>1, <2>2
  <2>3. CASE f # e
    <3>1. cpu[f] # cpu[e]
      BY <1>2, <1>3, <2>3 DEF OwnCpus
    <3>2. cpu[f] \in Cpus
      BY LifeFacts DEF IpcIInv, SenderOf
    <3>3. pc[f] = "icrLow" => IcrHigh[cpu[f]] = call[f].dest
      BY <1>2 DEF Addresses
    <3> QED
      BY <1>1, <1>4, <2>1, <2>3, <3>1, <3>2, <3>3
  <2> QED
    BY <2>2, <2>3
<1>7. \A d \in Cpus : Unsent(d)' = Unsent(d)
  BY <1>1, <1>4 DEF Unsent
<1> QED
  BY <1>1, <1>2, <1>5, <1>6, <1>7 DEF EnoughAt, Pending, Entering

\* The write of IcrLow reaches the CPUs the event is queued at.
LEMMA IcrLowInterrupts ==
    ASSUME IpcIInv, NEW e \in Events, WriteIcrLow(e)
    PROVE  InterruptInv'
<1> SUFFICES ASSUME disturbed' = {} PROVE OwnCpus' /\ Addresses' /\ \A d \in Cpus : EnoughAt(d)'
  BY InterruptParts
<1>0. TypeOK /\ SenderOf(e)
  BY LifeFacts DEF IpcIInv, IpcLifeInv
<1>1. PICK l \in {"wait", "done"} :
          /\ pc[e] = "icrLow" /\ pc' = [pc EXCEPT ![e] = l] /\ cpu' = [cpu EXCEPT ![e] = None]
          /\ UNCHANGED <<call, Targets, queued, EventList, IcrHigh, isr, disturbed>>
          /\ Irr' = [d \in Cpus |-> Irr[d] \/ d \in MatchingCpus(call[e].mode, IcrHigh[cpu[e]], cpu[e])]
  BY DEF WriteIcrLow, SenderAt, Goto
<1>2. OwnCpus /\ Addresses /\ \A d \in Cpus : EnoughAt(d)
  BY <1>1, InterruptParts DEF IpcIInv
<1>3. MatchingCpus(call[e].mode, IcrHigh[cpu[e]], cpu[e]) = queued[e]
  <2>1. Sending(e) /\ queued[e] = Targets[e]
    BY <1>0, <1>1 DEF Sending, SenderOf, Generated
  <2>2. /\ Targets[e] = MatchingCpus(call[e].mode, call[e].dest, cpu[e])
        /\ IcrHigh[cpu[e]] = call[e].dest
    BY <1>1, <1>2, <2>1 DEF Addresses
  <2> QED
    BY <2>1, <2>2
<1>4. Irr' = [d \in Cpus |-> Irr[d] \/ d \in queued[e]]
  BY <1>1, <1>3
<1>5. /\ Sending(e) /\ ~Sending(e)'
      /\ \A f \in Events \ {e} : (Sending(f)' <=> Sending(f)) /\ pc'[f] = pc[f] /\ cpu'[f] = cpu[f]
  BY <1>0, <1>1 DEF Sending, TypeOK
<1>6. OwnCpus'
  BY <1>2, <1>5 DEF OwnCpus
<1>7. Addresses'
  BY <1>1, <1>2, <1>5 DEF Addresses
<1>8. ASSUME NEW d \in Cpus PROVE EnoughAt(d)'
  <2>0. /\ IsFiniteSet(Unsent(d)) /\ Cardinality(Unsent(d)) \in Nat
        /\ Pending(d) \in {0, 1} /\ Entering(d) \in {0, 1} /\ Len(EventList[d]) \in Nat
    BY UnsentFacts
  <2>1. Unsent(d)' = Unsent(d) \ {e} /\ (e \in Unsent(d) <=> d \in queued[e])
    BY <1>1, <1>5 DEF Unsent
  <2>2. EventList'[d] = EventList[d] /\ Entering(d)' = Entering(d)
    BY <1>1 DEF Entering
  <2>3. Len(EventList[d]) >= Pending(d) + Entering(d) + Cardinality(Unsent(d))
    BY <1>2 DEF EnoughAt
  <2>4. CASE d \in queued[e]
    <3>1. Cardinality(Unsent(d) \ {e}) = Cardinality(Unsent(d)) - 1
      BY <2>0, <2>1, <2>4, FS_RemoveElement
    <3>2. Pending(d)' \in {0, 1}
      BY DEF Pending
    <3>3. Len(EventList[d]) >= Pending(d)' + Entering(d) + (Cardinality(Unsent(d)) - 1)
      BY <2>0, <2>3, <3>2
    <3> QED
      BY <2>1, <2>2, <3>1, <3>3 DEF EnoughAt
  <2>5. CASE d \notin queued[e]
    <3>1. Unsent(d)' = Unsent(d)
      BY <2>1, <2>5
    <3>2. Pending(d)' = Pending(d)
      <4>1. Irr'[d] <=> Irr[d]
        BY <1>4, <2>5
      <4> QED
        BY <4>1 DEF Pending
    <3> QED
      BY <2>2, <2>3, <3>1, <3>2 DEF EnoughAt
  <2> QED
    BY <2>4, <2>5
<1> QED
  BY <1>6, <1>7, <1>8

LEMMA IsrInterrupts ==
    ASSUME IpcIInv, NEW c \in Cpus, IsrStep(c)
    PROVE  InterruptInv'
<1> SUFFICES ASSUME disturbed' = {} PROVE OwnCpus' /\ Addresses' /\ \A d \in Cpus : EnoughAt(d)'
  BY InterruptParts
<1>0. TypeOK
  BY DEF IpcIInv, IpcLifeInv
<1>1. UNCHANGED <<pc, cpu, call, Targets, queued, IcrHigh, disturbed>>
  BY DEF IsrStep, AcceptInterrupt, RemoveEvent, CallFunction, IpcDereference, EvtSignal, senderVars
<1>2. OwnCpus /\ Addresses /\ \A d \in Cpus : EnoughAt(d)
  BY <1>1, InterruptParts DEF IpcIInv
<1>3. OwnCpus' /\ Addresses' /\ \A d \in Cpus : Unsent(d)' = Unsent(d)
  BY <1>1, <1>2, SendersKept DEF Sending
<1>4. /\ \A d \in Cpus \ {c} : isr'[d] = isr[d] /\ (Irr'[d] <=> Irr[d]) /\ EventList'[d] = EventList[d]
  <2>1. CASE AcceptInterrupt(c)
    BY <1>0, <2>1 DEF AcceptInterrupt, IsrGoto, TypeOK
  <2>2. CASE RemoveEvent(c)
    BY <1>0, <2>2 DEF RemoveEvent, IsrGoto, TypeOK
  <2>3. CASE CallFunction(c)
    BY <1>0, <2>3 DEF CallFunction, IsrGoto, TypeOK
  <2>4. CASE IpcDereference(c)
    <3>1. Irr' = Irr /\ EventList' = EventList /\ \E r : isr' = [isr EXCEPT ![c] = r]
      BY <2>4 DEF IpcDereference, IsrGoto
    <3> QED
      BY <1>0, <3>1 DEF TypeOK
  <2>5. CASE EvtSignal(c)
    BY <1>0, <2>5 DEF EvtSignal, TypeOK
  <2> QED
    BY <2>1, <2>2, <2>3, <2>4, <2>5 DEF IsrStep
<1>5. \A d \in Cpus \ {c} : EnoughAt(d)'
  BY <1>2, <1>3, <1>4 DEF EnoughAt, Pending, Entering
<1>6. /\ Cardinality(Unsent(c)) \in Nat /\ Len(EventList[c]) \in Nat
      /\ Len(EventList[c]) >= Pending(c) + Entering(c) + Cardinality(Unsent(c))
      /\ Pending(c) \in {0, 1} /\ Entering(c) \in {0, 1}
  BY <1>2, UnsentFacts DEF EnoughAt
<1>7. EnoughAt(c)'
  <2>1. CASE AcceptInterrupt(c)
    <3>1. /\ Irr[c] /\ isr[c].at = "none" /\ ~Irr'[c] /\ isr'[c].at = "enter" /\ EventList' = EventList
      BY <1>0, <2>1 DEF AcceptInterrupt, ThreadCode, NoIsr, IsrGoto, TypeOK
    <3>2. Pending(c) = 1 /\ Entering(c) = 0 /\ Pending(c)' = 0 /\ Entering(c)' = 1
      BY <3>1 DEF Pending, Entering
    <3>3. Len(EventList[c]) >= 0 + 1 + Cardinality(Unsent(c))
      BY <1>6, <3>2
    <3> QED
      BY <1>3, <3>1, <3>2, <3>3 DEF EnoughAt
  <2>2. CASE RemoveEvent(c)
    <3>1. /\ isr[c].at = "enter" /\ isr'[c].at = "function" /\ Irr' = Irr
          /\ EventList[c] # <<>> /\ EventList'[c] = Tail(EventList[c])
      BY <1>0, <2>2 DEF RemoveEvent, IsrGoto, TypeOK
    <3>2. Entering(c) = 1 /\ Entering(c)' = 0 /\ Pending(c)' = Pending(c)
      BY <3>1 DEF Pending, Entering
    <3>3. Len(EventList'[c]) = Len(EventList[c]) - 1
      <4>1. EventList[c] \in Seq(Events)
        BY <1>0 DEF TypeOK
      <4> QED
        BY <3>1, <4>1
    <3>4. Len(EventList[c]) - 1 >= Pending(c) + 0 + Cardinality(Unsent(c))
      BY <1>6, <3>2
    <3> QED
      BY <1>3, <3>2, <3>3, <3>4 DEF EnoughAt
  <2>3. CASE CallFunction(c) \/ IpcDereference(c) \/ EvtSignal(c)
    <3>1. isr[c].at # "enter" /\ isr'[c].at # "enter" /\ Irr' = Irr /\ EventList' = EventList
      <4>1. CASE CallFunction(c)
        BY <1>0, <4>1 DEF CallFunction, IsrGoto, TypeOK
      <4>2. CASE IpcDereference(c)
        BY <1>0, <4>2 DEF IpcDereference, IsrGoto, NoIsr, TypeOK
      <4>3. CASE EvtSignal(c)
        BY <1>0, <4>3 DEF EvtSignal, NoIsr, TypeOK
      <4> QED
        BY <2>3, <4>1, <4>2, <4>3
    <3>2. Entering(c)' = Entering(c) /\ Pending(c)' = Pending(c)
      BY <3>1 DEF Pending, Entering
    <3> QED
      BY <1>2, <1>3, <3>1, <3>2 DEF EnoughAt
  <2> QED
    BY <2>1, <2>2, <2>3 DEF IsrStep
<1> QED
  BY <1>3, <1>5, <1>7

LEMMA NextInterrupts == ASSUME IpcIInv, [Next]_vars PROVE InterruptInv'
<1>0. TypeOK
  BY DEF IpcIInv, IpcLifeInv
<1>1. CASE UNCHANGED vars
  BY <1>1, GoOnInterrupts DEF vars, senderVars, Sending
<1>2. ASSUME NEW e \in Events, IpcGenerateEvent(e) \/ EvtWaitForSignal(e) \/ DereferenceByWaiter(e)
      PROVE  InterruptInv'
  <2>1. UNCHANGED <<cpu, call, Targets, IcrHigh, queued, EventList, isr, Irr, disturbed>>
    BY <1>2 DEF IpcGenerateEvent, EvtWaitForSignal, DereferenceByWaiter
  <2>2. PICK l \in {"insert", "handled", "done"} :
            /\ pc' = [pc EXCEPT ![e] = l]
            /\ l = "insert" <=> pc[e] = "generate"
            /\ l = "insert" \/ pc[e] \in {"wait", "handled"}
    BY <1>2 DEF IpcGenerateEvent, EvtWaitForSignal, DereferenceByWaiter, SenderAt, Goto
  <2>3. \A f \in Events : (Sending(f)' <=> Sending(f)) /\ (pc'[f] = "icrLow" => pc[f] = "icrLow")
    BY <1>0, <2>2 DEF TypeOK, Sending
  <2> QED
    BY <2>1, <2>3, GoOnInterrupts
<1>3. ASSUME NEW e \in Events, InsertEvent(e) PROVE InterruptInv'
  <2>1. \/ \E c \in Targets[e] \ queued[e] : InsertAt(e, c)
        \/ /\ pc[e] = "insert" /\ pc' = [pc EXCEPT ![e] = "icrHigh"]
           /\ UNCHANGED <<EventList, queued, cpu, call, Targets, IcrHigh, Irr, isr, disturbed>>
    BY <1>3 DEF InsertEvent, InsertAt, SenderAt, Goto
  <2>2. CASE \E c \in Targets[e] \ queued[e] : InsertAt(e, c)
    BY <2>2, InsertInterrupts
  <2>3. CASE /\ pc[e] = "insert" /\ pc' = [pc EXCEPT ![e] = "icrHigh"]
             /\ UNCHANGED <<EventList, queued, cpu, call, Targets, IcrHigh, Irr, isr, disturbed>>
    <3>1. \A f \in Events : (Sending(f)' <=> Sending(f)) /\ (pc'[f] = "icrLow" => pc[f] = "icrLow")
      BY <1>0, <2>3 DEF TypeOK, Sending
    <3> QED
      BY <2>3, <3>1, GoOnInterrupts
  <2> QED
    BY <2>1, <2>2, <2>3
<1>4. ASSUME NEW e \in Events, NEW c \in Cpus, Migrate(e, c) PROVE InterruptInv'
  <2>1. disturbed' # {}
    BY <1>4 DEF Migrate
  <2> QED
    BY <2>1, InterruptParts
<1>5. CASE Next
  <2>1. ASSUME NEW e \in Events, SenderStep(e) PROVE InterruptInv'
    BY <1>2, <1>3, <2>1, IcrHighInterrupts, IcrLowInterrupts DEF SenderStep
  <2> QED
    BY <1>4, <1>5, <2>1, RetrieveInterrupts, IsrInterrupts DEF Next
<1> QED
  BY <1>1, <1>5

LEMMA InitIpcIInv == Init => IpcIInv
<1> SUFFICES ASSUME Init PROVE StartedInv /\ InterruptInv
  BY InitLife DEF IpcIInv
<1>1. {e \in Events : pc[e] # "new"} = {} /\ \A e \in Events : ~Sending(e)
  BY DEF Init, Sending
<1>2. \A c \in Cpus : Unsent(c) = {} /\ Pending(c) = 0 /\ Entering(c) = 0 /\ EventList[c] = <<>>
  BY <1>1 DEF Unsent, Pending, Entering, Init, NoIsr
<1>3. \A c \in Cpus : EnoughAt(c)
  <2>1. Cardinality({}) = 0
    BY FS_EmptySet
  <2>2. \A c \in Cpus : Len(EventList[c]) = 0 /\ Cardinality(Unsent(c)) = 0 /\ Pending(c) = 0 /\ Entering(c) = 0
    <3>1. Len(<<>>) = 0
      OBVIOUS
    <3> SUFFICES ASSUME NEW c \in Cpus
                 PROVE  Len(EventList[c]) = 0 /\ Cardinality(Unsent(c)) = 0 /\ Pending(c) = 0 /\ Entering(c) = 0
      OBVIOUS
    <3>2. Unsent(c) = {} /\ Pending(c) = 0 /\ Entering(c) = 0 /\ EventList[c] = <<>>
      BY <1>2
    <3>3. Cardinality(Unsent(c)) = 0
      BY <2>1, <3>2, Zenon
    <3>4. Len(EventList[c]) = 0
      BY <3>1, <3>2, Zenon
    <3> QED
      BY <3>2, <3>3, <3>4
  <2> QED
    BY <2>2 DEF EnoughAt
<1>4. OwnCpus /\ Addresses
  BY <1>1 DEF OwnCpus, Addresses
<1> QED
  BY <1>1, <1>3, <1>4, FS_EmptySet, InterruptParts DEF StartedInv

LEMMA IpcIInvImplies == IpcIInv => IpcInv
<1> SUFFICES ASSUME IpcIInv PROVE IpcInv
  OBVIOUS
<1>0. IpcLifeInv /\ TypeOK
  BY DEF IpcIInv, IpcLifeInv
<1>1. NoUseAfterFree
  <2> SUFFICES ASSUME NEW e \in Events,
                      (\E c \in Cpus : Uses(c, e)) \/ pc[e] \in {"wait", "handled"}
               PROVE  RefCnt[e] > 0
    BY DEF NoUseAfterFree
  <2>0. /\ RefOf(e) /\ SenderOf(e) /\ SignalOf(e) /\ e # None /\ Cardinality(Pend(e)) \in Nat
        /\ (Cardinality(Pend(e)) = 0 <=> Pend(e) = {}) /\ WaiterRef(e) \in {0, 1}
    BY <1>0, LifeFacts
  <2>1. ASSUME NEW c \in Cpus, Uses(c, e) PROVE pc[e] \in Generated /\ (Pend(e) # {} \/ WaiterRef(e) = 1)
    <3>1. ListOf(c) /\ isr[c].at \in IsrPoints
      BY <1>0 DEF IpcLifeInv, TypeOK
    <3>2. c \in queued[e] /\ (InList(c, e) \/ Serves(c, e) \/ Signals(c, e))
      BY <2>0, <2>1, <3>1 DEF Uses, ListOf, Serves, Signals, IsrPoints
    <3>3. pc[e] \in Generated /\ c \in Targets[e]
      BY <2>0, <3>2 DEF RefOf, SenderOf
    <3>4. CASE InList(c, e) \/ Serves(c, e)
      BY <3>3, <3>4 DEF Pend
    <3>5. CASE Signals(c, e)
      BY <2>0, <3>3, <3>5 DEF SignalOf, WaiterRef, Awaited, Generated
    <3> QED
      BY <3>2, <3>3, <3>4, <3>5
  <2>2. pc[e] \in {"wait", "handled"} => pc[e] \in Generated /\ WaiterRef(e) = 1
    BY <2>0 DEF SenderOf, WaiterRef, Awaited, Generated
  <2>3. RefCnt[e] = Cardinality(Pend(e)) + WaiterRef(e) /\ (Cardinality(Pend(e)) # 0 \/ WaiterRef(e) = 1)
    BY <2>0, <2>1, <2>2 DEF RefOf
  <2> QED
    BY <2>0, <2>3
<1>2. HandledBeforeReturn
  <2> SUFFICES ASSUME NEW e \in Events, pc[e] \in {"handled", "done"}, call[e].wait
               PROVE  ran[e] = Targets[e]
    BY DEF HandledBeforeReturn
  <2>1. SenderOf(e) /\ RanOf(e) /\ SignalOf(e) /\ Targets[e] \subseteq Cpus
    BY <1>0, LifeFacts
  <2>2. Pend(e) = {} /\ queued[e] = Targets[e] /\ ran[e] \subseteq Cpus
    BY <1>0, <2>1 DEF SignalOf, SenderOf, Generated, TypeOK
  <2>3. \A c \in Targets[e] : ~InList(c, e) /\ ~Serves(c, e)
    BY <2>2 DEF Pend
  <2> QED
    BY <2>1, <2>2, <2>3 DEF RanOf, Serves
<1>3. IsrFindsEvent
  <2> SUFFICES ASSUME disturbed = {}, NEW c \in Cpus, isr[c].at = "enter" \/ Irr[c], EventList[c] = <<>>
               PROVE  FALSE
    BY DEF IsrFindsEvent
  <2>1. EnoughAt(c) /\ Cardinality(Unsent(c)) \in Nat
    BY InterruptParts, UnsentFacts DEF IpcIInv
  <2>2. Pending(c) \in {0, 1} /\ Entering(c) \in {0, 1} /\ Pending(c) + Entering(c) >= 1
    BY DEF Pending, Entering
  <2>3. Len(EventList[c]) = 0
    OBVIOUS
  <2> QED
    BY <2>1, <2>2, <2>3 DEF EnoughAt
<1> QED
  BY <1>0, <1>1, <1>2, <1>3 DEF IpcInv

\* The inductive invariant: an IPC_EVENT has one reference for each target that has not
\* processed it and one for the waiter; its lists hold it once; a CPU has an event for
\* each interrupt that is pending, accepted or still to be sent.
THEOREM IpcInvariantHolds == Spec => []IpcIInv
<1>1. IpcIInv /\ [Next]_vars => IpcIInv'
  BY NextLife, NextStarted, NextInterrupts DEF IpcIInv
<1> QED
  BY <1>1, InitIpcIInv, PTL DEF Spec

\* Whoever uses an IPC_EVENT finds it allocated, SmpSendGenericIpiEx with
\* WaitForHandling returns when every target has executed the function, and, unless a
\* sender was preempted or moved, _SmpIpcIpiIsr never finds its list empty.
THEOREM IpcIsCorrect == Spec => []IpcInv
BY IpcInvariantHolds, IpcIInvImplies, PTL

=============================================================================
