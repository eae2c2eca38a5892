----------------------------- MODULE Coordinator ----------------------------
(***************************************************************************)
(* The decisions core's coordinator takes about one poller                 *)
(* (crates/yagra-core/src/fleet/coordinator.rs): what a heartbeat or a     *)
(* sync request does to the poller's registry entry, and what phase 3 of   *)
(* reconcile_pool sends it.                                                *)
(***************************************************************************)
EXTENDS SyncMessages

(* A PollerEntry.  live abstracts last_seen: heard from within              *)
(* OFFLINE_AFTER.  known = FALSE stands for "no entry in the registry".     *)
PollerEntry == [known : BOOLEAN, inc : Nat, live : BOOLEAN,
                seq : Nat, needs : BOOLEAN, caps : BOOLEAN]

NoEntry == [known |-> FALSE, inc |-> 0, live |-> FALSE,
            seq |-> 0, needs |-> FALSE, caps |-> FALSE]

(* First contact: sequence 0 and a full snapshot owed.                      *)
NewEntry(inc, caps) ==
    [known |-> TRUE, inc |-> inc, live |-> TRUE,
     seq |-> 0, needs |-> TRUE, caps |-> caps]

(* Mutant: a missed message does not show in the echo.                      *)
EchoMismatchNoSeq(e, hb, epoch) == hb.inc # e.inc \/ hb.epoch # epoch

(* The echo in a beat shows a poller that restarted, is on another epoch,   *)
(* or has not applied exactly what core has sent.                           *)
EchoMismatch(e, hb, epoch) ==
    hb.inc # e.inc \/ hb.epoch # epoch \/ hb.lastSeq # e.seq

(* observe_heartbeat for a beat that is not a goodbye.                      *)
ObserveHeartbeat(e, hb, epoch) ==
    IF ~e.known THEN NewEntry(hb.inc, hb.caps)
    ELSE [e EXCEPT !.inc = hb.inc, !.live = TRUE, !.caps = hb.caps,
                   !.needs = @ \/ EchoMismatch(e, hb, epoch)]

(* Mutant: first contact by a request is taken for a current build.         *)
ObserveSyncRequestCapable(e, inc) ==
    IF ~e.known THEN NewEntry(inc, TRUE)
    ELSE [e EXCEPT !.inc = inc, !.live = TRUE, !.needs = TRUE]

(* A request carries no capabilities: a new entry has none, a known one     *)
(* keeps those of its last beat.                                            *)
ObserveSyncRequest(e, inc) ==
    IF ~e.known THEN NewEntry(inc, FALSE)
    ELSE [e EXCEPT !.inc = inc, !.live = TRUE, !.needs = TRUE]

-----------------------------------------------------------------------------
(* Phase 2: a spec list is stripped of the checks its owner cannot honour.  *)
Kept(spec, caps) == IF spec \in CapSpecs /\ ~caps THEN Withheld ELSE spec

(* Phase 3, for one member: prev is the published baseline, target the      *)
(* member's new share.                                                      *)
Changed(prev, target) == {n \in Nodes : target[n] # prev[n]}

MustSend(e, prev, target) ==
    e.known /\ (e.needs \/ Changed(prev, target) # {})

Larger(a, b) == IF a >= b THEN a ELSE b

(* A snapshot when one is owed, or when more than half the set changed.     *)
UseSnapshot(e, prev, target) ==
    \/ e.needs
    \/ Cardinality(Changed(prev, target)) * 2
         > Larger(Cardinality(Members(target)), Cardinality(Members(prev)))

(* A delta leaves needs_snapshot alone; it was FALSE.                       *)
AfterSend(e) == [e EXCEPT !.seq = @ + 1, !.needs = FALSE]

SyncMessagesFor(e, epoch, prev, target) ==
    IF UseSnapshot(e, prev, target)
    THEN SnapshotChunks(epoch, e.seq + 1, target)
    ELSE <<Delta(epoch, e.seq + 1, prev, target)>>
=============================================================================
