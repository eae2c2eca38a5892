---------------------------- MODULE MCPollTimers ----------------------------
(***************************************************************************)
(* Instances of PollTimers for TLC.                                        *)
(***************************************************************************)
EXTENDS PollTimers

CONSTANTS fast, ping, slow

(* Two checks with a short interval, one with a long one.                   *)
MCInterval == [s \in JobSpecs |-> IF s = slow THEN 6 ELSE 2]

(* Lists that grow, shrink, are reordered and hold a spec twice.            *)
ScarceLists == {<< >>, <<fast, slow>>, <<slow, fast>>, <<fast, fast>>}

(* Two checks of the same interval, always adopted together.                *)
PairLists == {<< >>, <<fast, ping>>}
=============================================================================
