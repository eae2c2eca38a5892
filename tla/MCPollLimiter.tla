---------------------------- MODULE MCPollLimiter ---------------------------
(***************************************************************************)
(* An instance of PollLimiter for TLC: two jobs for one device, the first  *)
(* of which never returns, two for another, and one that needs none.       *)
(***************************************************************************)
EXTENDS PollLimiter

MCDevice == <<"a", "b", "a", "none", "b">>
=============================================================================
