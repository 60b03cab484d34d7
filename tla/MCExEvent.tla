----------------------------- MODULE MCExEvent ------------------------------
(***************************************************************************)
(* Two CPUs with their idle and main threads, a thread to create and wait  *)
(* for, and one synchronization event or none.  In the unit "thread" the   *)
(* threads use an object as Thread allows any object to be used, end and   *)
(* close handles; in the unit "event" they call the functions of ExEvent.  *)
(***************************************************************************)
EXTENDS ExEvent, TLC

CONSTANTS c1, c2, idle1, idle2, main1, main2, worker, sync

MCCpus == {c1, c2}
MCThreads == {idle1, idle2, main1, main2, worker}
MCIdle == (c1 :> idle1) @@ (c2 :> idle2)
MCMain == (c1 :> main1) @@ (c2 :> main2)
MCSync == sync :> "Synchronization"
MCNoEventType == <<>>

\* The CPUs are interchangeable, each with its idle and main thread.
MCSwap == (c1 :> c2) @@ (c2 :> c1) @@ (idle1 :> idle2) @@ (idle2 :> idle1)
          @@ (main1 :> main2) @@ (main2 :> main1)
MCSymmetry == {[v \in DOMAIN MCSwap |-> IF swap THEN MCSwap[v] ELSE v] : swap \in BOOLEAN}

VARIABLE unit       \* what uses the scheduler

MCInit == ExEventInit /\ unit \in {"thread", "event"}

MCNext == /\ UNCHANGED unit
          /\ \/ unit = "thread" /\ Next /\ UNCHANGED eventVars
             \/ unit = "event" /\ EventNext

MCSpec == MCInit /\ [][MCNext]_<<vars, unit>>
=============================================================================
