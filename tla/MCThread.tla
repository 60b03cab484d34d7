------------------------------ MODULE MCThread ------------------------------
(* Two CPUs with their idle and main threads, and one more thread that the *)
(* main threads create.                                                    *)
EXTENDS Thread, TLC

CONSTANTS c1, c2, idle1, idle2, main1, main2, worker, mutex

MCCpus == {c1, c2}
MCThreads == {idle1, idle2, main1, main2, worker}
MCIdle == (c1 :> idle1) @@ (c2 :> idle2)
MCMain == (c1 :> main1) @@ (c2 :> main2)

=============================================================================
