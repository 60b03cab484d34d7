------------------------------ MODULE MCMutex -------------------------------
(***************************************************************************)
(* Two CPUs with their idle and main threads and a thread that the main    *)
(* threads create: three threads compete for one mutex, so that two of     *)
(* them wait while the third holds it.                                     *)
(***************************************************************************)
EXTENDS Mutex, TLC

CONSTANTS c1, c2, idle1, idle2, main1, main2, worker, mutex

MCCpus == {c1, c2}
MCThreads == {idle1, idle2, main1, main2, worker}
MCIdle == (c1 :> idle1) @@ (c2 :> idle2)
MCMain == (c1 :> main1) @@ (c2 :> main2)

\* Bound: the mutex is taken recursively only while there are two threads to take it.
MCNext == MutexNext /\ (pc'[worker] = "new" \/ CurrentRecursivityDepth'[mutex] <= 1)

MCFairSpec == MutexInit /\ [][MCNext]_vars /\ MutexFairness
=============================================================================
