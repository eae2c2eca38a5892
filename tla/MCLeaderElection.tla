-------------------------- MODULE MCLeaderElection --------------------------
(***************************************************************************)
(* Three cores; links cut three times, one crash, one stop, a failed start. *)
(***************************************************************************)
EXTENDS LeaderElection

FaultBudget == [cut |-> 3, crash |-> 1, stop |-> 1, fail |-> 1]
=============================================================================
