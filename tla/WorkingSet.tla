----------------------------- MODULE WorkingSet -----------------------------
(***************************************************************************)
(* The sync half of the poller's working set                               *)
(* (crates/yagra-poller/src/working_set.rs): how a snapshot chunk or a     *)
(* delta is folded into the set.  The local timers that ride on the same   *)
(* structure are not part of this module.                                  *)
(*                                                                         *)
(* Every operator maps a working set and a message to [ws, outcome].       *)
(***************************************************************************)
EXTENDS SyncMessages

(* A snapshot being reassembled: chunk index -> the chunk's nodes, for the  *)
(* chunks received.  epoch = NoEpoch stands for Option::None.               *)
PendingSnapshot ==
    [epoch : Nat, seq : Nat, total : Nat,
     chunks : UNION {[got -> Share] : got \in SUBSET ChunkIndex}]

NoPending == [epoch |-> NoEpoch, seq |-> 0, total |-> 0, chunks |-> << >>]

WorkingSetState ==
    [epoch : Nat, lastSeq : Nat, nodes : Share, pending : PendingSnapshot]

NewWorkingSet ==
    [epoch |-> NoEpoch, lastSeq |-> 0, nodes |-> EmptyShare, pending |-> NoPending]

Outcome(ws, what) == [ws |-> ws, outcome |-> what]

(* A delta needs the current epoch and exactly the next sequence number;    *)
(* anything else changes nothing and asks for a snapshot.                   *)
ApplyDelta(ws, d) ==
    IF ws.epoch # d.epoch \/ d.seq # ws.lastSeq + 1
    THEN Outcome(ws, "NeedSync")
    ELSE Outcome([ws EXCEPT
                    !.nodes = [n \in Nodes |->
                        IF n \in d.removes THEN Absent
                        ELSE IF d.upserts[n] # Absent THEN d.upserts[n]
                        ELSE ws.nodes[n]],
                    !.lastSeq = d.seq],
                 "Applied")

(* The union of the chunks of one group.  No two chunks of a group name the *)
(* same node, so the order the code's HashMap yields them in is immaterial. *)
Flatten(chunks) ==
    [n \in Nodes |->
        IF \E i \in DOMAIN chunks : chunks[i][n] # Absent
        THEN chunks[CHOOSE i \in DOMAIN chunks : chunks[i][n] # Absent][n]
        ELSE Absent]

(* Insert a chunk; an index already present is overwritten.                 *)
AddChunk(chunks, i, nodes) ==
    [j \in DOMAIN chunks \cup {i} |-> IF j = i THEN nodes ELSE chunks[j]]

(* replace_from_group: the pending group becomes the set.                   *)
ReplaceFromGroup(ws, group) ==
    [epoch   |-> group.epoch,
     lastSeq |-> group.seq,
     nodes   |-> Flatten(group.chunks),
     pending |-> NoPending]

(* Already applied: same epoch, and a sequence number not above ours.       *)
StaleChunk(ws, c) == ws.epoch = c.epoch /\ c.seq =< ws.lastSeq

SameGroup(pending, c) == pending.epoch = c.epoch /\ pending.seq = c.seq

(* A chunk of another group replaces what is being assembled unless it is   *)
(* older within the same epoch; a different epoch always wins.              *)
Supersedes(pending, c) ==
    \/ pending.epoch = NoEpoch
    \/ pending.epoch # c.epoch
    \/ c.seq > pending.seq

(* Mutant: the newer group inherits the chunks of the one it supersedes.    *)
PendingForMixed(pending, c) ==
    [epoch |-> c.epoch, seq |-> c.seq, total |-> c.total,
     chunks |-> pending.chunks]

PendingFor(pending, c) ==
    IF SameGroup(pending, c) THEN pending
    ELSE [epoch |-> c.epoch, seq |-> c.seq, total |-> c.total, chunks |-> << >>]

ApplySnapshotChunk(ws, c) ==
    LET base  == PendingFor(ws.pending, c)
        group == [base EXCEPT !.chunks = AddChunk(base.chunks, c.index, c.nodes)]
    IN  IF StaleChunk(ws, c)
           \/ (~SameGroup(ws.pending, c) /\ ~Supersedes(ws.pending, c))
        THEN Outcome(ws, "Ignored")
        ELSE IF Cardinality(DOMAIN group.chunks) < group.total
        THEN Outcome([ws EXCEPT !.pending = group], "Ignored")
        ELSE Outcome(ReplaceFromGroup(ws, group), "Applied")

Apply(ws, msg) ==
    IF msg.kind = "chunk" THEN ApplySnapshotChunk(ws, msg) ELSE ApplyDelta(ws, msg)
=============================================================================
