------------------------ MODULE FleetOperatorProofs -------------------------
(***************************************************************************)
(* Facts about the operators the fleet's protocol is built from: the       *)
(* messages core builds and what a poller makes of them (a snapshot cut    *)
(* into chunks and put together again is the share it was cut from, a      *)
(* delta applied to its base yields its target), and what HashRing::assign *)
(* guarantees for every placement of the points and every pair of member   *)
(* sets.                                                                   *)
(***************************************************************************)
EXTENDS HashRing, WorkingSet, Coordinator, NaturalsInduction, FiniteSetTheorems, TLAPS

(* Division by a positive natural: the facts about \div used below.         *)
LEMMA DivType ==
    ASSUME NEW a \in Nat, NEW c \in Nat \ {0}
    PROVE  a \div c \in Nat /\ a \div c =< a
  OBVIOUS

LEMMA DivMonotone ==
    ASSUME NEW a \in Nat, NEW b \in Nat, a =< b, NEW c \in Nat \ {0}
    PROVE  a \div c =< b \div c
  OBVIOUS

(* The nodes of a share are finitely many, at most all of them.             *)
LEMMA MembersFinite ==
    ASSUME NEW share \in Share
    PROVE  /\ Members(share) \subseteq Nodes
           /\ IsFiniteSet(Members(share))
           /\ Cardinality(Members(share)) \in Nat
           /\ Cardinality(Nodes) \in Nat
           /\ Cardinality(Members(share)) =< Cardinality(Nodes)
           /\ Members(share) # {} => Cardinality(Members(share)) > 0
  <1>1. Members(share) \in SUBSET Nodes
    BY DEF Members
  <1>2. IsFiniteSet(Nodes)
    BY FleetAssumption
  <1>3. /\ IsFiniteSet(Members(share))
        /\ Cardinality(Members(share)) =< Cardinality(Nodes)
    BY <1>1, <1>2, FS_Subset
  <1>4. Cardinality(Members(share)) \in Nat /\ Cardinality(Nodes) \in Nat
    BY <1>2, <1>3, FS_CardinalityType
  <1>5. Cardinality(Members(share)) = 0 <=> Members(share) = {}
    BY <1>3, FS_EmptySet
  <1>6. QED
    BY <1>1, <1>3, <1>4, <1>5

(* A snapshot has at least one chunk, and its indices are ChunkIndexes.     *)
LEMMA ChunkTotalType ==
    ASSUME NEW share \in Share
    PROVE  /\ ChunkTotal(share) \in Nat \ {0}
           /\ 0..(ChunkTotal(share) - 1) \subseteq ChunkIndex
  <1> DEFINE card == Cardinality(Members(share))
  <1>1. ChunkNodes \in Nat \ {0}
    BY MessagesAssumption
  <1>2. card \in Nat /\ Cardinality(Nodes) \in Nat /\ card =< Cardinality(Nodes)
    BY MembersFinite
  <1>3. CASE Members(share) = {}
    BY <1>2, <1>3 DEF ChunkTotal, ChunkIndex
  <1>4. CASE Members(share) # {}
    <2>1. card - 1 \in Nat
      BY <1>2, <1>4, MembersFinite
    <2>2. /\ (card - 1) \div ChunkNodes \in Nat
          /\ (card - 1) \div ChunkNodes =< card - 1
      BY <1>1, <2>1, DivType
    <2>3. ChunkTotal(share) = ((card - 1) \div ChunkNodes) + 1
      BY <1>4 DEF ChunkTotal
    <2> HIDE DEF card
    <2>4. QED
      BY <1>2, <2>1, <2>2, <2>3 DEF ChunkIndex
  <1>5. QED
    BY <1>3, <1>4

(* Every node of a share is in one of its chunks.                           *)
LEMMA ChunkOfRange ==
    ASSUME NEW share \in Share, NEW n \in Members(share)
    PROVE  ChunkOf(share, n) \in 0..(ChunkTotal(share) - 1)
  <1> DEFINE before == {m \in Members(share) : m < n}
             card == Cardinality(Members(share))
  <1>1. ChunkNodes \in Nat \ {0}
    BY MessagesAssumption
  <1>2. IsFiniteSet(Members(share)) /\ card \in Nat /\ Members(share) \subseteq Nat
    BY MembersFinite, FleetAssumption
  <1>3. /\ IsFiniteSet(Members(share) \ {n})
        /\ Cardinality(Members(share) \ {n}) = card - 1
    BY <1>2, FS_RemoveElement
  <1>4. before \in SUBSET (Members(share) \ {n})
    BY <1>2
  <1>5. IsFiniteSet(before) /\ Cardinality(before) =< card - 1
    BY <1>3, <1>4, FS_Subset
  <1>6. Cardinality(before) \in Nat /\ card - 1 \in Nat
    <2>1. Cardinality(before) \in Nat
      BY <1>5, FS_CardinalityType
    <2>2. card - 1 \in Nat
      BY <1>3, FS_CardinalityType
    <2>3. QED
      BY <2>1, <2>2
  <1>7. /\ Cardinality(before) \div ChunkNodes \in Nat
        /\ (card - 1) \div ChunkNodes \in Nat
        /\ Cardinality(before) \div ChunkNodes =< (card - 1) \div ChunkNodes
    BY <1>1, <1>5, <1>6, DivType, DivMonotone
  <1>8. ChunkTotal(share) = ((card - 1) \div ChunkNodes) + 1
    BY DEF ChunkTotal
  <1>9. ChunkOf(share, n) = Cardinality(before) \div ChunkNodes
    BY DEF ChunkOf
  <1> HIDE DEF before, card
  <1>10. QED
    BY <1>7, <1>8, <1>9

LEMMA EmptyShareType == EmptyShare \in Share
  BY DEF EmptyShare, Share, Held

LEMMA ChunkPartType ==
    ASSUME NEW share \in Share, NEW i
    PROVE  ChunkPart(share, i) \in Share
  BY DEF ChunkPart, Share, Held

(* The indices of k chunks are a finite set of k members.                    *)
LEMMA ChunkIndices ==
    ASSUME NEW k \in Nat \ {0}
    PROVE  IsFiniteSet(0..(k - 1)) /\ Cardinality(0..(k - 1)) = k
  <1>1. 0 \in Int /\ k - 1 \in Int /\ ~(0 > k - 1) /\ k - 1 - 0 + 1 = k
    OBVIOUS
  <1>2. QED
    BY <1>1, FS_Interval

(* As many distinct chunks as the snapshot has are all of its chunks, and   *)
(* their union is the share the snapshot was cut from.                      *)
LEMMA FlattenWhole ==
    ASSUME NEW share \in Share, NEW chunks,
           \A i \in DOMAIN chunks : /\ i \in 0..(ChunkTotal(share) - 1)
                                    /\ chunks[i] = ChunkPart(share, i),
           Cardinality(DOMAIN chunks) >= ChunkTotal(share)
    PROVE  Flatten(chunks) = share
  <1> DEFINE all == 0..(ChunkTotal(share) - 1)
  <1>1. ChunkTotal(share) \in Nat \ {0}
    BY ChunkTotalType
  <1>2. IsFiniteSet(all) /\ Cardinality(all) = ChunkTotal(share)
    BY <1>1, ChunkIndices
  <1>3. DOMAIN chunks \in SUBSET all
    OBVIOUS
  <1>4. /\ IsFiniteSet(DOMAIN chunks)
        /\ Cardinality(DOMAIN chunks) =< Cardinality(all)
    BY <1>2, <1>3, FS_Subset
  <1>5. Cardinality(DOMAIN chunks) = Cardinality(all)
    <2>1. Cardinality(DOMAIN chunks) \in Nat
      BY <1>4, FS_CardinalityType
    <2> HIDE DEF all
    <2>2. QED
      BY <1>1, <1>2, <1>4, <2>1
  <1>6. DOMAIN chunks = all
    BY <1>2, <1>3, <1>5, FS_Subset
  <1>7. ASSUME NEW n \in Nodes
        PROVE  Flatten(chunks)[n] = share[n]
    <2>1. \A i \in all : chunks[i][n] # Absent =>
              n \in Members(share) /\ chunks[i][n] = share[n]
      BY <1>6 DEF ChunkPart
    <2>2. CASE n \in Members(share)
      <3>1. ChunkOf(share, n) \in all
        BY <2>2, ChunkOfRange
      <3>2. chunks[ChunkOf(share, n)][n] = share[n] /\ share[n] # Absent
        BY <1>6, <2>2, <3>1 DEF ChunkPart, Members
      <3>3. \E i \in DOMAIN chunks : chunks[i][n] # Absent
        BY <1>6, <3>1, <3>2
      <3>4. QED
        BY <1>6, <2>1, <3>3 DEF Flatten
    <2>3. CASE n \notin Members(share)
      BY <1>6, <2>1, <2>3 DEF Flatten, Members
    <2>4. QED
      BY <2>2, <2>3
  <1>8. QED
    BY <1>7 DEF Flatten, Share

(* A delta is well formed and leads from its base to its target.            *)
LEMMA DeltaType ==
    ASSUME NEW e \in Nat, NEW s \in Nat, NEW prev \in Share, NEW next \in Share
    PROVE  Delta(e, s, prev, next) \in DeltaMsg
  BY DEF Delta, DeltaMsg, Share, Held, Members

LEMMA DeltaLeads ==
    ASSUME NEW e, NEW s, NEW prev \in Share, NEW next \in Share,
           NEW n \in Nodes
    PROVE  LET d == Delta(e, s, prev, next)
           IN  next[n] = IF n \in d.removes THEN Absent
                         ELSE IF d.upserts[n] # Absent THEN d.upserts[n]
                         ELSE prev[n]
  BY DEF Delta, Members

LEMMA SnapshotChunksType ==
    ASSUME NEW e \in Nat, NEW s \in Nat, NEW share \in Share
    PROVE  /\ SnapshotChunks(e, s, share) \in Seq(ChunkMsg)
           /\ DOMAIN SnapshotChunks(e, s, share) = 1..ChunkTotal(share)
  <1>1. ChunkTotal(share) \in Nat \ {0}
    BY ChunkTotalType
  <1>2. ASSUME NEW i \in 1..ChunkTotal(share)
        PROVE  SnapshotChunks(e, s, share)[i] \in ChunkMsg
    <2>1. i - 1 \in ChunkIndex
      BY <1>1, ChunkTotalType
    <2>2. ChunkPart(share, i - 1) \in Share
      BY ChunkPartType
    <2>3. i - 1 < ChunkTotal(share)
      BY <1>1
    <2>4. QED
      BY <1>1, <2>1, <2>2, <2>3 DEF SnapshotChunks, ChunkMsg
  <1>3. SnapshotChunks(e, s, share) \in [1..ChunkTotal(share) -> ChunkMsg]
    BY <1>2 DEF SnapshotChunks
  <1>4. QED
    BY <1>1, <1>3

-----------------------------------------------------------------------------
(* What core sends is a sequence of sync messages.                          *)
LEMMA SyncMessagesType ==
    ASSUME NEW r \in PollerEntry, NEW e \in Nat,
           NEW prev \in Share, NEW target \in Share
    PROVE  SyncMessagesFor(r, e, prev, target) \in Seq(SyncMsg)
  <1>1. r.seq + 1 \in Nat
    BY DEF PollerEntry
  <1>2. SnapshotChunks(e, r.seq + 1, target) \in Seq(SyncMsg)
    BY <1>1, SnapshotChunksType DEF SyncMsg
  <1>3. <<Delta(e, r.seq + 1, prev, target)>> \in Seq(SyncMsg)
    BY <1>1, DeltaType DEF SyncMsg
  <1>4. QED
    BY <1>2, <1>3 DEF SyncMessagesFor

(* Receiving a message keeps a working set a working set.                   *)
LEMMA FlattenType ==
    ASSUME NEW got, NEW chunks \in [got -> Share]
    PROVE  Flatten(chunks) \in Share
  BY DEF Flatten, Share, Held

LEMMA AddChunkType ==
    ASSUME NEW got \in SUBSET ChunkIndex, NEW chunks \in [got -> Share],
           NEW i \in ChunkIndex, NEW nodes \in Share
    PROVE  /\ got \cup {i} \in SUBSET ChunkIndex
           /\ AddChunk(chunks, i, nodes) \in [got \cup {i} -> Share]
  BY DEF AddChunk

LEMMA PendingForType ==
    ASSUME NEW pending \in PendingSnapshot, NEW c \in ChunkMsg
    PROVE  PendingFor(pending, c) \in PendingSnapshot
  <1>1. << >> \in [{} -> Share] /\ {} \in SUBSET ChunkIndex
    OBVIOUS
  <1>2. QED
    BY <1>1 DEF PendingFor, PendingSnapshot, ChunkMsg

LEMMA NewWorkingSetType == NewWorkingSet \in WorkingSetState
  <1>1. << >> \in [{} -> Share] /\ {} \in SUBSET ChunkIndex
    OBVIOUS
  <1>2. NoPending \in PendingSnapshot
    BY <1>1 DEF NoPending, PendingSnapshot, NoEpoch
  <1>3. QED
    BY <1>2, EmptyShareType DEF NewWorkingSet, WorkingSetState, NoEpoch

LEMMA ApplyType ==
    ASSUME NEW w \in WorkingSetState, NEW m \in SyncMsg
    PROVE  Apply(w, m).ws \in WorkingSetState
  <1>1. CASE m.kind = "chunk"
    <2>1. m \in ChunkMsg
      BY <1>1 DEF SyncMsg, DeltaMsg
    <2> DEFINE base  == PendingFor(w.pending, m)
               group == [base EXCEPT !.chunks = AddChunk(base.chunks, m.index, m.nodes)]
    <2>2. base \in PendingSnapshot
      BY <2>1, PendingForType DEF WorkingSetState
    <2>3. PICK got \in SUBSET ChunkIndex : base.chunks \in [got -> Share]
      BY <2>2 DEF PendingSnapshot
    <2>4. PICK more \in SUBSET ChunkIndex :
              AddChunk(base.chunks, m.index, m.nodes) \in [more -> Share]
      BY <2>1, <2>3, AddChunkType DEF ChunkMsg
    <2>5. group \in PendingSnapshot
      BY <2>2, <2>4 DEF PendingSnapshot
    <2>6. [w EXCEPT !.pending = group] \in WorkingSetState
      BY <2>5 DEF WorkingSetState
    <2>7. group.chunks \in [more -> Share] /\ group.epoch \in Nat /\ group.seq \in Nat
      BY <2>2, <2>4, <2>5 DEF PendingSnapshot
    <2> HIDE DEF group, base
    <2>8. NoPending \in PendingSnapshot
      BY NewWorkingSetType DEF NewWorkingSet, WorkingSetState
    <2>9. ReplaceFromGroup(w, group) \in WorkingSetState
      BY <2>7, <2>8, FlattenType DEF ReplaceFromGroup, WorkingSetState
    <2> USE DEF group, base
    <2>10. QED
      BY <1>1, <2>6, <2>9 DEF Apply, ApplySnapshotChunk, Outcome
  <1>2. CASE m.kind # "chunk"
    <2>1. m \in DeltaMsg
      BY <1>2 DEF SyncMsg, ChunkMsg
    <2> DEFINE nodes == [n \in Nodes |->
                          IF n \in m.removes THEN Absent
                          ELSE IF m.upserts[n] # Absent THEN m.upserts[n]
                          ELSE w.nodes[n]]
    <2>2. nodes \in Share
      BY <2>1 DEF DeltaMsg, WorkingSetState, Share, Held
    <2> HIDE DEF nodes
    <2>3. [w EXCEPT !.nodes = nodes, !.lastSeq = m.seq] \in WorkingSetState
      BY <2>1, <2>2 DEF DeltaMsg, WorkingSetState
    <2> USE DEF nodes
    <2>4. QED
      BY <1>2, <2>3 DEF Apply, ApplyDelta, Outcome
  <1>3. QED
    BY <1>1, <1>2
-----------------------------------------------------------------------------
(* The ring.                                                                 *)

(* A point is a hash and the member it belongs to, and a member has the     *)
(* same points in every ring it is in.                                      *)
LEMMA PointsType ==
    ASSUME NEW members \in SUBSET Pollers, NEW a \in Points(members)
    PROVE  a = <<a[1], a[2]>> /\ a[1] \in Nat /\ a[2] \in members
  <1>1. PICK m \in members, i \in 0..(VNodes - 1) : a = <<VnodePoint[m][i], m>>
    BY DEF Points
  <1>2. VnodePoint[m][i] \in Nat
    BY RingAssumption
  <1>3. QED
    BY <1>1, <1>2

LEMMA PointsShared ==
    ASSUME NEW A \in SUBSET Pollers, NEW B \in SUBSET Pollers,
           NEW a \in Points(A), a[2] \in B
    PROVE  a \in Points(B)
  BY DEF Points

LEMMA PointsNonempty ==
    ASSUME NEW members \in SUBSET Pollers, members # {}
    PROVE  Points(members) # {}
  <1>1. 0 \in 0..(VNodes - 1)
    BY RingAssumption
  <1>2. PICK m \in members : TRUE
    OBVIOUS
  <1>3. <<VnodePoint[m][0], m>> \in Points(members)
    BY <1>1 DEF Points
  <1>4. QED
    BY <1>3

(* A non-empty set of naturals has a least element.                         *)
LEMMA LeastNat ==
    ASSUME NEW S \in SUBSET Nat, S # {}
    PROVE  \E x \in S : \A y \in S : x =< y
  <1>1. PICK x \in S : \A y \in S : ~(<<y, x>> \in OpToRel(<, Nat))
    BY NatLessThanWellFounded, WFMin
  <1>2. \A y \in S : y \in Nat /\ x \in Nat /\ ~(y < x)
    BY <1>1, Zenon DEF OpToRel
  <1>3. QED
    BY <1>2

(* The points from a position on, and the first of them.                    *)
LEMMA FirstPointSound ==
    ASSUME NEW members \in SUBSET Pollers, members # {},
           NEW points \in SUBSET Points(members), points # {}
    PROVE  /\ FirstPoint(points) \in points
           /\ \A b \in points : Sorted(FirstPoint(points), b)
  <1> DEFINE hashes == {a[1] : a \in points}
  <1>1. \A a \in points : a[1] \in Nat /\ a[2] \in Nat
    BY PointsType, FleetAssumption
  <1>2. hashes \in SUBSET Nat /\ hashes # {}
    BY <1>1
  <1>3. PICK h \in hashes : \A y \in hashes : h =< y
    BY <1>2, LeastNat
  <1> DEFINE owners == {a[2] : a \in {x \in points : x[1] = h}}
  <1>4. owners \in SUBSET Nat /\ owners # {}
    BY <1>1
  <1>5. PICK o \in owners : \A y \in owners : o =< y
    BY <1>4, LeastNat
  <1>6. PICK a \in points : a[1] = h /\ a[2] = o
    BY <1>5
  <1>7. \A b \in points : Sorted(a, b)
    <2> SUFFICES ASSUME NEW b \in points PROVE Sorted(a, b)
      OBVIOUS
    <2>1. h =< b[1] /\ (b[1] = h => o =< b[2])
      BY <1>3, <1>5
    <2>2. QED
      BY <1>1, <1>6, <2>1 DEF Sorted
  <1>8. QED
    BY <1>6, <1>7 DEF FirstPoint

LEMMA ClockwiseSound ==
    ASSUME NEW members \in SUBSET Pollers, members # {}, NEW h \in Nat
    PROVE  /\ Clockwise(members, h) \in SUBSET Points(members)
           /\ Clockwise(members, h) # {}
  BY PointsNonempty DEF Clockwise

(* Every node has an owner, and it is a live member.                        *)
THEOREM AssignsToMember ==
    ASSUME NEW members \in SUBSET Pollers, members # {}, NEW n \in Nodes
    PROVE  Assign(members, n) \in members
  <1>1. NodeHash[n] \in Nat
    BY RingAssumption
  <1>2. FirstPoint(Clockwise(members, NodeHash[n])) \in Points(members)
    BY <1>1, ClockwiseSound, FirstPointSound
  <1>3. QED
    BY <1>2, PointsType DEF Assign

(* Minimal movement, the reason HashRing::assign walks a ring: between two  *)
(* sweeps a node changes owner only if its old owner is gone or its new     *)
(* owner is new, however many pollers came and went.                        *)
THEOREM OnlyChangedMembersMove ==
    ASSUME NEW A \in SUBSET Pollers, A # {}, NEW B \in SUBSET Pollers, B # {},
           NEW n \in Nodes, Assign(A, n) \in B, Assign(B, n) \in A
    PROVE  Assign(A, n) = Assign(B, n)
  <1>1. PICK h \in Nat : h = NodeHash[n]
    BY RingAssumption
  <1>2. PICK a : a = FirstPoint(Clockwise(A, h))
    OBVIOUS
  <1>3. PICK b : b = FirstPoint(Clockwise(B, h))
    OBVIOUS
  <1>4. /\ a \in Clockwise(A, h) /\ \A x \in Clockwise(A, h) : Sorted(a, x)
        /\ b \in Clockwise(B, h) /\ \A x \in Clockwise(B, h) : Sorted(b, x)
    BY <1>2, <1>3, ClockwiseSound, FirstPointSound
  <1>5. a \in Points(A) /\ b \in Points(B) /\ a[2] \in B /\ b[2] \in A
    BY <1>1, <1>2, <1>3, <1>4, ClockwiseSound DEF Assign
  <1>6. a \in Points(B) /\ b \in Points(A)
    BY <1>5, PointsShared
  <1>7. a[1] \in Nat /\ b[1] \in Nat /\ a[2] \in Nat /\ b[2] \in Nat
    BY <1>5, PointsType, FleetAssumption
  <1>8. a \in Clockwise(B, h) /\ b \in Clockwise(A, h)
    BY <1>4, <1>5, <1>6 DEF Clockwise
  <1>9. Sorted(a, b) /\ Sorted(b, a)
    BY <1>4, <1>8
  <1>10. a[2] = b[2]
    BY <1>7, <1>9 DEF Sorted
  <1>11. QED
    BY <1>1, <1>2, <1>3, <1>10 DEF Assign
=============================================================================
