--------------------------- MODULE MCAlertEngine ---------------------------
(***************************************************************************)
(* Two linked nodes; the second may carry a threshold check.               *)
(***************************************************************************)
EXTENDS AlertEngine

CONSTANTS n1, n2

TwoNodes == {n1, n2}
Linked == [n \in TwoNodes |-> TwoNodes \ {n}]
FirstSpeaks == [n \in TwoNodes |-> IF n = n1 THEN 1 ELSE 2]

\* A band broken on either side at one severity, and a scale of two severities.
Band == {[state |-> "ok", side |-> "above"], [state |-> "critical", side |-> "above"],
         [state |-> "critical", side |-> "below"]}
Scale == {[state |-> "ok", side |-> "above"], [state |-> "warning", side |-> "above"],
          [state |-> "critical", side |-> "above"]}

NoFaults == [edit |-> 0, window |-> 0, pause |-> 0, crash |-> 0, fail |-> 0, low |-> 0,
             late |-> 0, again |-> 0]
\* A rule or the grouping is edited, a window opens, the leader restarts, every
\* attempt at a delivery fails, or the metric swings: see MaxFaults for how many in one behaviour.
AnyFault == [NoFaults EXCEPT !.edit = 1, !.window = 1, !.crash = 1, !.fail = 1,
                              !.low = 1, !.again = 1]
\* Waiting is switched, or the deployment is paused.
EditOrPause == [NoFaults EXCEPT !.edit = 1, !.pause = 1]
=============================================================================
