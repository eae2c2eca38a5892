---------------------------- MODULE MCPoolSweep -----------------------------
(***************************************************************************)
(* Instances of PoolSweep for TLC.                                         *)
(***************************************************************************)
EXTENDS PoolSweep, TLC

(* The two pools are interchangeable.                                       *)
PoolSymmetry == Permutations(Pools)

NoDisturbance == [k \in Kinds |-> 0]

(* Changes of configuration around pollers that come and go.                *)
CacheBudget == [NoDisturbance EXCEPT !["edit"] = 2, !["drop"] = 1, !["cut"] = 1,
                                     !["core"] = 1]

(* A poller is stopped or killed, core replaced, a read fails once.         *)
OutageBudget == [NoDisturbance EXCEPT !["leave"] = 1, !["crash"] = 1,
                                      !["fail"] = 1, !["core"] = 1]

(* One change, made while a poller is cut off.                              *)
RejoinBudget == [NoDisturbance EXCEPT !["edit"] = 1, !["cut"] = 1]

(* One change, and one failed read.                                         *)
ReadFailBudget == [NoDisturbance EXCEPT !["edit"] = 1, !["fail"] = 1]
=============================================================================
