---------------------------- MODULE SyncMessages ----------------------------
(***************************************************************************)
(* What core and a poller say to each other about the poller's working set *)
(* (crates/yagra-bus/src/messages.rs), and the sets of specs they speak of.*)
(*                                                                         *)
(* A working set is a Share: every node, with the spec list assigned to    *)
(* it, Absent where the set does not hold the node.  A spec list is one    *)
(* opaque value.  CapSpecs are the lists containing a check that needs a   *)
(* capability the poller may not have; Withheld is what is left of such a  *)
(* list after core has taken the check out (the node stays assigned).      *)
(***************************************************************************)
EXTENDS Fleet, Sequences

CONSTANTS Specs,        \* the spec lists a node can be configured with
          CapSpecs,     \* those with a check that needs a capability
          Withheld,     \* a CapSpecs list without that check
          Absent,       \* the node is not in the set
          ChunkNodes    \* SNAPSHOT_CHUNK_NODES

ASSUME MessagesAssumption ==
    /\ CapSpecs \subseteq Specs
    /\ Absent \notin Specs
    /\ Withheld # Absent
    /\ Withheld \notin CapSpecs
    /\ ChunkNodes \in Nat \ {0}

Held  == Specs \cup {Withheld, Absent}
Share == [Nodes -> Held]

EmptyShare == [n \in Nodes |-> Absent]

(* The nodes a share holds.                                                 *)
Members(share) == {n \in Nodes : share[n] # Absent}

-----------------------------------------------------------------------------
(* No epoch: a poller that has never applied a snapshot.  Core processes    *)
(* are numbered from 1 (the code draws a fresh UUID per process).           *)
NoEpoch == 0

(* A snapshot never has more chunks than there are nodes, or one.           *)
ChunkIndex == 0..Cardinality(Nodes)

(* Chunks are numbered from 0: none has an index its total does not cover.  *)
ChunkMsg ==
    {c \in [kind : {"chunk"}, epoch : Nat, seq : Nat,
            index : ChunkIndex, total : Nat, nodes : Share] : c.index < c.total}
DeltaMsg == [kind : {"delta"}, epoch : Nat, seq : Nat,
             upserts : Share, removes : SUBSET Nodes]
SyncMsg  == ChunkMsg \cup DeltaMsg

HeartbeatMsg == [inc : Nat, epoch : Nat, lastSeq : Nat,
                 caps : BOOLEAN, leaving : BOOLEAN]

-----------------------------------------------------------------------------
(* How a snapshot is cut: the nodes in id order, ChunkNodes to a chunk, and *)
(* one empty chunk for an empty set so that the poller learns it owns       *)
(* nothing.                                                                 *)
ChunkTotal(share) ==
    IF Members(share) = {} THEN 1
    ELSE ((Cardinality(Members(share)) - 1) \div ChunkNodes) + 1

ChunkOf(share, n) ==
    Cardinality({m \in Members(share) : m < n}) \div ChunkNodes

ChunkPart(share, i) ==
    [n \in Nodes |-> IF n \in Members(share) /\ ChunkOf(share, n) = i
                     THEN share[n] ELSE Absent]

(* Mutant: the chunks are numbered from one.                                *)
SnapshotChunksFromOne(epoch, seq, share) ==
    [i \in 1..ChunkTotal(share) |->
        [kind |-> "chunk", epoch |-> epoch, seq |-> seq,
         index |-> i, total |-> ChunkTotal(share),
         nodes |-> ChunkPart(share, i - 1)]]

SnapshotChunks(epoch, seq, share) ==
    [i \in 1..ChunkTotal(share) |->
        [kind |-> "chunk", epoch |-> epoch, seq |-> seq,
         index |-> i - 1, total |-> ChunkTotal(share),
         nodes |-> ChunkPart(share, i - 1)]]

(* The delta that turns the share prev into the share next.                 *)
Delta(epoch, seq, prev, next) ==
    [kind |-> "delta", epoch |-> epoch, seq |-> seq,
     upserts |-> [n \in Nodes |-> IF next[n] # prev[n] THEN next[n] ELSE Absent],
     removes |-> Members(prev) \ Members(next)]
=============================================================================
