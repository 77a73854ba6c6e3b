------------------------------ MODULE MCSpscPool ------------------------------
(* The ring of one producer and one consumer, and the pool that schedules  *)
(* actors.  They share no state, so a behaviour is one of either, chosen   *)
(* at the start, the other resting in its initial state.                   *)
EXTENDS SpscQueue, ActorPool

VARIABLE component   \* the one that runs

mcVars == <<component, vars, poolVars>>

MCInit == component \in {"spsc", "pool"} /\ Init /\ PoolInit

MCNext == /\ UNCHANGED component
          /\ \/ component = "spsc" /\ Next /\ UNCHANGED poolVars
             \/ component = "pool" /\ PoolNext /\ UNCHANGED vars

(* The fairness of LiveSpec and PoolLiveSpec.  At rest no action of the    *)
(* pool is enabled; of the ring's consumer one is, and nothing is asked of *)
(* it then.                                                                *)
MCSpec == /\ MCInit /\ [][MCNext]_mcVars
          /\ WF_vars(component = "spsc" /\ Pops)
          /\ SF_vars(component = "spsc" /\ PopLoadHead)
          /\ PoolFairness
=============================================================================
