--------------------------- MODULE MCStoreForward ---------------------------
(***************************************************************************)
(* Instances of StoreForward for TLC.                                      *)
(***************************************************************************)
EXTENDS StoreForward

(* Three outages, a restart, one failed publish, one failed write, one file  *)
(* that cannot be read, one lapse of max_age_ms.                           *)
OutageBudget == [cut |-> 3, crash |-> 1, publish |-> 1, write |-> 1,
                 unreadable |-> 1, age |-> 1]

(* Two outages and nothing else.                                           *)
CutBudget == [k \in Kinds |-> IF k = "cut" THEN 2 ELSE 0]
=============================================================================
