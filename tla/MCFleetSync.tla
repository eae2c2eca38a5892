---------------------------- MODULE MCFleetSync -----------------------------
(***************************************************************************)
(* Instances of FleetSync for TLC.  Two ring points per poller, placed so  *)
(* that both pollers of a two-poller pool own nodes and losing either one  *)
(* moves some.                                                             *)
(***************************************************************************)
EXTENDS FleetSync

MCVnodePoint == [p \in Pollers |-> [i \in 0..1 |-> 2 * p + 5 * i]]
MCNodeHash   == [n \in Nodes |-> 2 * n + 1]

NoDisturbance == [k \in Kinds |-> 0]

(* One poller that may say goodbye, be killed, miss a message and be edited, *)
(* and comes back on the same build or on one that gained the capability.    *)
ExitBudget == [NoDisturbance EXCEPT !["edit"] = 1, !["loss"] = 1,
                                    !["crash"] = 1, !["leave"] = 1]

(* One goodbye and one edit.                                                 *)
GoodbyeBudget == [NoDisturbance EXCEPT !["edit"] = 1, !["leave"] = 1]

(* Two pollers: one is killed (and may be started again), one is cut off.    *)
FailoverBudget == [NoDisturbance EXCEPT !["crash"] = 1, !["lapse"] = 1]

(* One poller, cut off once, with a change of its nodes' specs, lost         *)
(* messages and a new core.                                                  *)
ResyncBudget == [NoDisturbance EXCEPT !["edit"] = 1, !["loss"] = 2,
                                      !["lapse"] = 1, !["core"] = 1]

(* One poller killed once and started again, perhaps on an older build.      *)
RebuildBudget == [NoDisturbance EXCEPT !["crash"] = 1, !["leave"] = 1,
                                       !["edit"] = 1]

(* Two pollers, each cut off once.                                           *)
OutageBudget == [NoDisturbance EXCEPT !["lapse"] = 2]
=============================================================================
