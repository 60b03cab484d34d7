------------------------------- MODULE MCIpc --------------------------------
(***************************************************************************)
(* Two CPUs and two calls, in every mode; and, sharing no state with them, *)
(* the hash table and a list of the common library.  A behaviour is one of *)
(* one of the three and leaves the variables of the others alone.          *)
(***************************************************************************)
EXTENDS Ipc, HashTable

CONSTANTS c1, c2

MCDestinations == {{}, {c1}}

\* Two elements with one key, and three keys; two or three of the keys share a chain.
MCKeyOf == (11 :> 1) @@ (12 :> 1) @@ (13 :> 3) @@ (14 :> 2)

VARIABLE unit       \* the component that runs

mcVars == <<vars, hashVars, unit>>

MCInit == /\ Init /\ HashTableInit
          /\ unit \in {"ipc", "table", "list"}
          /\ unit # "table" => HashFunc = "incremental"

MCNext ==
    /\ UNCHANGED unit
    /\ \/ unit = "ipc" /\ Next /\ UNCHANGED hashVars
       \/ unit = "table" /\ TableNext /\ UNCHANGED vars
       \/ unit = "list" /\ ListNext /\ UNCHANGED vars

\* The fairness of Ipc; nothing is asked of the library.
MCFairness ==
    /\ \A e \in Events : SF_vars(unit = "ipc" /\ SenderStep(e))
    /\ \A c \in Cpus : /\ SF_vars(unit = "ipc" /\ AcceptInterrupt(c))
                       /\ WF_vars(unit = "ipc" /\ IsrStep(c))

MCFairSpec == MCInit /\ [][MCNext]_mcVars /\ MCFairness
=============================================================================
