-------------------------- MODULE FleetSyncProofs ---------------------------
(***************************************************************************)
(* Theorems about FleetSync for every fleet, every ring, every chunk size  *)
(* and every bound on disturbances.                                        *)
(***************************************************************************)
EXTENDS FleetSync, FleetOperatorProofs

USE DEF NoEpoch

-----------------------------------------------------------------------------
(* Types.                                                                   *)

LEMMA QueuedMsgs ==
    ASSUME NEW queue \in Seq(SyncMsg), NEW i \in DOMAIN queue
    PROVE  queue[i].epoch \in Nat /\ queue[i].seq \in Nat
  <1>1. queue[i] \in SyncMsg
    OBVIOUS
  <1>2. QED
    BY <1>1 DEF SyncMsg, ChunkMsg, DeltaMsg

LEMMA NoEntryType == NoEntry \in PollerEntry
  BY DEF NoEntry, PollerEntry

LEMMA NoSweepType == NoSweep \in Sweep
  BY EmptyShareType DEF NoSweep, Sweep, Phases

LEMMA ObserveHeartbeatType ==
    ASSUME NEW e \in PollerEntry, NEW hb \in HeartbeatMsg, NEW ep \in Nat
    PROVE  ObserveHeartbeat(e, hb, ep) \in PollerEntry
  <1>1. hb.inc \in Nat /\ hb.caps \in BOOLEAN
    BY DEF HeartbeatMsg
  <1>2. NewEntry(hb.inc, hb.caps) \in PollerEntry
    BY <1>1 DEF NewEntry, PollerEntry
  <1>3. (e.needs \/ EchoMismatch(e, hb, ep)) \in BOOLEAN
    BY DEF EchoMismatch, PollerEntry
  <1>4. QED
    BY <1>1, <1>2, <1>3 DEF ObserveHeartbeat, PollerEntry

LEMMA ObserveSyncRequestType ==
    ASSUME NEW e \in PollerEntry, NEW inc \in Nat
    PROVE  ObserveSyncRequest(e, inc) \in PollerEntry
  BY DEF ObserveSyncRequest, NewEntry, PollerEntry

LEMMA AfterSendType ==
    ASSUME NEW e \in PollerEntry
    PROVE  AfterSend(e) \in PollerEntry
  <1>1. e.seq + 1 \in Nat
    BY DEF PollerEntry
  <1> DEFINE s == e.seq + 1
  <1> HIDE DEF s
  <1>2. [e EXCEPT !.seq = s, !.needs = FALSE] \in PollerEntry
    BY <1>1 DEF PollerEntry, s
  <1>3. QED
    BY <1>2 DEF AfterSend, s

LEMMA KeptType ==
    ASSUME NEW spec \in Specs, NEW caps
    PROVE  Kept(spec, caps) \in Held
  BY DEF Kept, Held

LEMMA TargetForType ==
    ASSUME TypeOK, NEW members, NEW p
    PROVE  TargetFor(members, p) \in Share
  <1>1. ASSUME NEW n \in Nodes
        PROVE  (IF desired[n] # Absent /\ Assign(members, n) = p
                THEN Kept(desired[n], registry[p].caps) ELSE Absent) \in Held
    BY KeptType DEF TypeOK, Held
  <1>2. QED
    BY <1>1 DEF TargetFor, Share

LEMMA BeatOfType ==
    ASSUME TypeOK, NEW p \in Pollers, NEW leaving \in BOOLEAN
    PROVE  BeatOf(p, leaving) \in HeartbeatMsg
  BY DEF TypeOK, BeatOf, HeartbeatMsg, Process, WorkingSetState

(* Queues per poller: putting a message in one keeps them all queues.       *)
LEMMA EnqueueType ==
    ASSUME NEW S, NEW q \in [Pollers -> Seq(S)], NEW p \in Pollers, NEW m \in S
    PROVE  [q EXCEPT ![p] = Append(q[p], m)] \in [Pollers -> Seq(S)]
  <1>1. Append(q[p], m) \in Seq(S)
    OBVIOUS
  <1>2. QED
    BY <1>1

LEMMA InitType == Init => TypeOK
  <1> SUFFICES ASSUME Init PROVE TypeOK
    OBVIOUS
  <1>1. [up |-> FALSE, inc |-> 0, caps |-> FALSE] \in Process
    BY DEF Process
  <1>2. QED
    BY <1>1, NoEntryType, NoSweepType, EmptyShareType, NewWorkingSetType,
       SyncAssumption
       DEF Init, TypeOK, Kinds

LEMMA SpendType ==
    ASSUME TypeOK, NEW kind \in Kinds, Spend(kind)
    PROVE  budget' \in [Kinds -> Nat]
  BY DEF TypeOK, Spend

(* One step per action: what it assigns keeps its type.                     *)
LEMMA NextType == TypeOK /\ [Next]_vars => TypeOK'
  <1> SUFFICES ASSUME TypeOK, [Next]_vars PROVE TypeOK'
    OBVIOUS
  <1>1. ASSUME NEW n \in Nodes, NEW spec \in Specs \cup {Absent}, Edit(n, spec)
        PROVE  TypeOK'
    BY <1>1, SpendType DEF TypeOK, Edit, core, procs, bus, Kinds
  <1>2. CASE Plan
    <2>1. sweep' \in Sweep
      BY <1>2, TargetForType, EmptyShareType DEF Plan, Sweep, Phases, LiveMembers
    <2>2. QED
      BY <1>2, <2>1 DEF Plan, TypeOK, procs, bus
  <1>3. CASE Commit
    <2>1. registry' \in [Pollers -> PollerEntry]
      BY <1>3, AfterSendType DEF Commit, TypeOK
    <2>2. published' \in [Pollers -> Share]
      BY <1>3 DEF Commit, TypeOK, Sweep
    <2>3. outbox' \in [Pollers -> Seq(SyncMsg)]
      <3>1. \A p \in Pollers : SyncMessagesFor(registry[p], epoch, published[p],
                                   sweep.targets[p]) \in Seq(SyncMsg)
        BY SyncMessagesType DEF TypeOK, Sweep
      <3>2. QED
        BY <1>3, <3>1 DEF Commit, TypeOK
    <2>4. sent' \in [Pollers -> Seq(Share)]
      BY <1>3 DEF Commit, TypeOK, Sweep
    <2>5. sweep' \in Sweep
      BY <1>3 DEF Commit, TypeOK, Sweep, Phases
    <2>6. QED
      BY <1>3, <2>1, <2>2, <2>3, <2>4, <2>5 DEF Commit, TypeOK, procs, bus
  <1>4. CASE Finish
    <2>1. AssignMap(sweep) \in [Nodes -> Pollers \cup {Nobody}]
      BY DEF AssignMap, TypeOK, Sweep
    <2>2. QED
      BY <1>4, <2>1, NoSweepType DEF Finish, TypeOK, procs, bus
  <1>5. CASE CoreRestart
    <2>1. budget' \in [Kinds -> Nat]
      BY <1>5, SpendType DEF CoreRestart, Kinds
    <2>2. epoch' \in Nat \ {NoEpoch}
      BY <1>5 DEF CoreRestart, TypeOK
    <2>3. /\ registry' \in [Pollers -> PollerEntry]
          /\ published' \in [Pollers -> Share]
          /\ sweep' \in Sweep
      BY <1>5, NoEntryType, NoSweepType, EmptyShareType DEF CoreRestart
    <2>4. QED
      BY <1>5, <2>1, <2>2, <2>3 DEF CoreRestart, TypeOK, procs
  <1>6. ASSUME NEW p \in Pollers, Publish(p)
        PROVE  TypeOK'
    BY <1>6 DEF Publish, NextToPublish, TypeOK, procs
  <1>7. ASSUME NEW p \in Pollers, PublishLost(p)
        PROVE  TypeOK'
    <2>1. budget' \in [Kinds -> Nat]
      BY <1>7, SpendType DEF PublishLost, Kinds
    <2>2. outbox' \in [Pollers -> Seq(SyncMsg)]
      BY <1>7 DEF PublishLost, NextToPublish, TypeOK
    <2>3. QED
      BY <1>7, <2>1, <2>2 DEF PublishLost, TypeOK, procs, bus
  <1>8. ASSUME NEW p \in Pollers, ObserveLeaving(p)
        PROVE  TypeOK'
    BY <1>8, NoEntryType, EmptyShareType DEF ObserveLeaving, TypeOK, procs
  <1>9. ASSUME NEW p \in Pollers, ObserveBeat(p)
        PROVE  TypeOK'
    <2>1. Head(beats[p]) \in HeartbeatMsg
      BY <1>9 DEF ObserveBeat, TypeOK
    <2>2. ObserveHeartbeat(registry[p], Head(beats[p]), epoch) \in PollerEntry
      BY <2>1, ObserveHeartbeatType DEF TypeOK
    <2>3. QED
      BY <1>9, <2>2 DEF ObserveBeat, TypeOK, procs
  <1>10. ASSUME NEW p \in Pollers, ObserveRequest(p)
         PROVE  TypeOK'
    <2>1. ObserveSyncRequest(registry[p], Head(reqs[p])) \in PollerEntry
      BY <1>10, ObserveSyncRequestType DEF ObserveRequest, TypeOK
    <2>2. QED
      BY <1>10, <2>1 DEF ObserveRequest, TypeOK, procs
  <1>11. ASSUME NEW p \in Pollers, RequestLost(p)
         PROVE  TypeOK'
    <2>1. budget' \in [Kinds -> Nat]
      BY <1>11, SpendType DEF RequestLost, Kinds
    <2>2. reqs' \in [Pollers -> Seq(Nat)]
      BY <1>11 DEF RequestLost, TypeOK
    <2>3. QED
      BY <1>11, <2>1, <2>2 DEF RequestLost, TypeOK, core, procs
  <1>12. ASSUME NEW p \in Pollers, Lapse(p) \/ LapseDown(p)
         PROVE  TypeOK'
    <2>1. [registry[p] EXCEPT !.live = FALSE] \in PollerEntry
      BY DEF TypeOK, PollerEntry
    <2>2. registry' = [registry EXCEPT ![p] = [registry[p] EXCEPT !.live = FALSE]]
      BY <1>12 DEF Lapse, LapseDown
    <2>3. budget' \in [Kinds -> Nat]
      BY <1>12, SpendType DEF Lapse, LapseDown, TypeOK, Kinds
    <2>4. QED
      BY <1>12, <2>1, <2>2, <2>3 DEF Lapse, LapseDown, TypeOK, procs, bus
  <1>13. ASSUME NEW p \in Pollers, Deliver(p)
         PROVE  TypeOK'
    <2>1. Head(assign[p]) \in SyncMsg
      BY <1>13 DEF Deliver, TypeOK
    <2>2. Apply(ws[p], Head(assign[p])).ws \in WorkingSetState
      BY <2>1, ApplyType DEF TypeOK
    <2>3. ws' \in [Pollers -> WorkingSetState]
      BY <1>13, <2>2 DEF Deliver, TypeOK
    <2>4. assign' \in [Pollers -> Seq(SyncMsg)]
      BY <1>13 DEF Deliver, TypeOK
    <2>5. reqs' \in [Pollers -> Seq(Nat)]
      BY <1>13 DEF Deliver, TypeOK, Process
    <2>6. QED
      BY <1>13, <2>3, <2>4, <2>5 DEF Deliver, TypeOK, core
  <1>14. ASSUME NEW p \in Pollers, Beat(p)
         PROVE  TypeOK'
    <2>1. BeatOf(p, FALSE) \in HeartbeatMsg
      BY BeatOfType
    <2>2. beats' \in [Pollers -> Seq(HeartbeatMsg)]
      BY <1>14, <2>1, EnqueueType DEF Beat, TypeOK
    <2>3. QED
      BY <1>14, <2>2 DEF Beat, TypeOK, core, procs
  <1>15. ASSUME NEW p \in Pollers, Stopped(p)
         PROVE  /\ proc' \in [Pollers -> Process]
                /\ ws' \in [Pollers -> WorkingSetState]
                /\ assign' \in [Pollers -> Seq(SyncMsg)]
    <2>1. [proc[p] EXCEPT !.up = FALSE] \in Process
      BY DEF TypeOK, Process
    <2>2. QED
      BY <1>15, <2>1, NewWorkingSetType DEF Stopped, TypeOK
  <1>16. ASSUME NEW p \in Pollers, Crash(p)
         PROVE  TypeOK'
    BY <1>15, <1>16, SpendType DEF Crash, TypeOK, core, Kinds
  <1>17. ASSUME NEW p \in Pollers, Leave(p)
         PROVE  TypeOK'
    <2>1. budget' \in [Kinds -> Nat]
      BY <1>17, SpendType DEF Leave, Kinds
    <2>2. BeatOf(p, TRUE) \in HeartbeatMsg
      BY BeatOfType
    <2>3. beats' \in [Pollers -> Seq(HeartbeatMsg)]
      BY <1>17, <2>2, EnqueueType DEF Leave, TypeOK
    <2>4. QED
      BY <1>15, <1>17, <2>1, <2>3 DEF Leave, TypeOK, core
  <1>18. ASSUME NEW p \in Pollers, NEW caps \in Builds, Start(p, caps)
         PROVE  TypeOK'
    <2>1. [up |-> TRUE, inc |-> proc[p].inc + 1, caps |-> caps] \in Process
      BY SyncAssumption DEF TypeOK, Process
    <2>2. proc' \in [Pollers -> Process]
      BY <1>18, <2>1 DEF Start, TypeOK
    <2>3. reqs' \in [Pollers -> Seq(Nat)]
      BY <1>18, <2>1 DEF Start, TypeOK, Process
    <2>4. QED
      BY <1>18, <2>2, <2>3 DEF Start, TypeOK, core
  <1>19. CASE UNCHANGED vars
    BY <1>19 DEF vars, core, procs, bus, TypeOK
  <1>20. QED
    BY <1>1, <1>2, <1>3, <1>4, <1>5, <1>6, <1>7, <1>8, <1>9, <1>10, <1>11,
       <1>12, <1>13, <1>14, <1>16, <1>17, <1>18, <1>19
       DEF Next, PollerStep

(* Type correctness: every registry entry, message and working set the      *)
(* protocol handlers build has the shape the other side expects.            *)
THEOREM TypeCorrect == Spec => []TypeOK
  BY InitType, NextType, PTL DEF Spec

-----------------------------------------------------------------------------
(* The inductive invariant.  First what a step that leaves a poller's state *)
(* alone does to its parts.                                                 *)

LEMMA ContentFrame ==
    ASSUME NEW q \in Pollers, NEW m, epoch' = epoch, sent'[q] = sent[q]
    PROVE  ContentOK(q, m)' <=> ContentOK(q, m)
  BY DEF ContentOK

LEMMA BaselineFrame ==
    ASSUME NEW q \in Pollers, BaselineOK(q),
           registry'[q] = registry[q], published'[q] = published[q],
           sent'[q] = sent[q]
    PROVE  BaselineOK(q)'
  BY DEF BaselineOK

LEMMA OutboxFrame ==
    ASSUME NEW q \in Pollers, OutboxOK(q), epoch' = epoch, sent'[q] = sent[q],
           outbox'[q] = outbox[q], proc'[q].up => proc[q].up,
           sweep'.phase = sweep.phase \/ outbox[q] = << >>
    PROVE  OutboxOK(q)'
  <1>1. \A i \in DOMAIN outbox[q] :
            ContentOK(q, outbox[q][i])' <=> ContentOK(q, outbox[q][i])
    BY ContentFrame
  <1>2. QED
    BY <1>1 DEF OutboxOK

LEMMA AssignFrame ==
    ASSUME NEW q \in Pollers, AssignOK(q), epoch' = epoch, sent'[q] = sent[q],
           assign'[q] = assign[q], proc[q].up => proc'[q].up
    PROVE  AssignOK(q)'
  <1>1. \A i \in DOMAIN assign[q] :
            ContentOK(q, assign[q][i])' <=> ContentOK(q, assign[q][i])
    BY ContentFrame
  <1>2. QED
    BY <1>1 DEF AssignOK

LEMMA WorkingSetFrame ==
    ASSUME NEW q \in Pollers, WorkingSetOK(q), PendingOK(q),
           epoch' = epoch, sent'[q] = sent[q],
           ws'[q] = ws[q], proc[q].up => proc'[q].up
    PROVE  WorkingSetOK(q)' /\ PendingOK(q)'
  BY DEF WorkingSetOK, PendingOK

LEMMA GoodbyeFrame ==
    ASSUME NEW q \in Pollers, GoodbyeOK(q), beats'[q] = beats[q],
           proc'[q].up => proc[q].up
    PROVE  GoodbyeOK(q)'
  BY DEF GoodbyeOK

(* A poller none of whose state changes.                                    *)
LEMMA Frame ==
    ASSUME NEW q \in Pollers, SyncOK(q), epoch' = epoch,
           registry'[q] = registry[q], published'[q] = published[q],
           sent'[q] = sent[q], outbox'[q] = outbox[q], assign'[q] = assign[q],
           ws'[q] = ws[q], proc'[q] = proc[q], beats'[q] = beats[q],
           sweep'.phase = sweep.phase \/ outbox[q] = << >>
    PROVE  SyncOK(q)'
  BY BaselineFrame, OutboxFrame, AssignFrame, WorkingSetFrame, GoodbyeFrame
     DEF SyncOK

LEMMA InitInv == Init => IInv
  <1> SUFFICES ASSUME Init PROVE IInv
    OBVIOUS
  <1>1. TypeOK
    BY InitType
  <1>2. ASSUME NEW p \in Pollers PROVE SyncOK(p)
    BY DEF Init, SyncOK, BaselineOK, OutboxOK, AssignOK, WorkingSetOK, PendingOK,
           GoodbyeOK, NoEntry, NewWorkingSet, NoPending
  <1>3. QED
    BY <1>1, <1>2 DEF IInv

-----------------------------------------------------------------------------
(* The steps of core.                                                       *)

(* Committing a further share leaves what was sent before as it was.        *)
LEMMA ContentGrow ==
    ASSUME TypeOK, NEW q \in Pollers, NEW m \in SyncMsg, NEW share \in Share,
           epoch' = epoch, sent'[q] = Append(sent[q], share),
           m.seq \in DOMAIN sent[q], ContentOK(q, m)
    PROVE  m.seq \in DOMAIN sent'[q] /\ ContentOK(q, m)'
  <1>1. sent[q] \in Seq(Share)
    BY DEF TypeOK
  <1>2. /\ m.seq \in DOMAIN sent'[q]
        /\ sent'[q][m.seq] = sent[q][m.seq]
        /\ m.seq > 1 => sent'[q][m.seq - 1] = sent[q][m.seq - 1]
    BY <1>1
  <1>3. QED
    BY <1>2 DEF ContentOK

(* What phase 3 of reconcile_pool builds carries the share it commits.      *)
LEMMA BuiltContent ==
    ASSUME TypeOK, NEW q \in Pollers, BaselineOK(q), NEW target \in Share,
           MustSend(registry[q], published[q], target),
           epoch' = epoch, sent'[q] = Append(sent[q], target),
           NEW i \in DOMAIN SyncMessagesFor(registry[q], epoch, published[q], target),
           NEW m, m = SyncMessagesFor(registry[q], epoch, published[q], target)[i]
    PROVE  /\ m.epoch = epoch
           /\ m.seq = Len(sent[q]) + 1
           /\ ContentOK(q, m)'
  <1>1. PICK k \in Nat : k = Len(sent[q]) + 1
    BY DEF TypeOK
  <1>2. sent[q] \in Seq(Share) /\ published[q] \in Share
    BY DEF TypeOK
  <1>3. registry[q].seq + 1 = k /\ sent'[q][k] = target
    BY <1>1, <1>2 DEF BaselineOK
  <1>4. CASE UseSnapshot(registry[q], published[q], target)
    <2>1. SyncMessagesFor(registry[q], epoch, published[q], target)
            = SnapshotChunks(epoch, k, target)
      BY <1>3, <1>4 DEF SyncMessagesFor
    <2>2. ChunkTotal(target) \in Nat \ {0}
      BY ChunkTotalType
    <2>3. i \in 1..ChunkTotal(target)
      BY <2>1 DEF SnapshotChunks
    <2>4. m = [kind |-> "chunk", epoch |-> epoch, seq |-> k, index |-> i - 1,
               total |-> ChunkTotal(target), nodes |-> ChunkPart(target, i - 1)]
      BY <2>1, <2>3 DEF SnapshotChunks
    <2>5. QED
      BY <1>1, <1>3, <2>2, <2>3, <2>4 DEF ContentOK
  <1>5. CASE ~UseSnapshot(registry[q], published[q], target)
    <2>1. ~registry[q].needs /\ registry[q].known
      BY <1>5 DEF UseSnapshot, MustSend
    <2>2. sent[q] # << >> /\ published[q] = sent[q][Len(sent[q])]
      BY <2>1 DEF BaselineOK
    <2>3. k > 1 /\ sent'[q][k - 1] = published[q]
      BY <1>1, <1>2, <2>2
    <2>4. i = 1 /\ m = Delta(epoch, k, published[q], target)
      BY <1>3, <1>5 DEF SyncMessagesFor
    <2>5. m.kind = "delta" /\ m.epoch = epoch /\ m.seq = k
      BY <2>4 DEF Delta
    <2>6. ContentOK(q, m)'
      BY <1>3, <2>3, <2>4, <2>5 DEF ContentOK
    <2>7. QED
      BY <1>1, <2>5, <2>6
  <1>6. QED
    BY <1>4, <1>5

LEMMA CommitInv ==
    ASSUME IInv, Commit, NEW q \in Pollers
    PROVE  SyncOK(q)'
  <1> DEFINE target == sweep.targets[q]
  <1>1. TypeOK /\ SyncOK(q)
    BY DEF IInv
  <1>2. target \in Share /\ sent[q] \in Seq(Share) /\ registry[q] \in PollerEntry
    BY <1>1 DEF TypeOK, Sweep
  <1>3. /\ epoch' = epoch /\ assign'[q] = assign[q] /\ ws'[q] = ws[q]
        /\ proc'[q] = proc[q] /\ beats'[q] = beats[q]
        /\ sweep'.phase = "publishing"
    BY <1>1 DEF Commit, procs, bus, TypeOK, Sweep
  <1>4. GoodbyeOK(q)'
    BY <1>1, <1>3, GoodbyeFrame DEF SyncOK
  <1>5. CASE ~Sends(q)
    <2>1. /\ registry'[q] = registry[q] /\ published'[q] = published[q]
          /\ sent'[q] = sent[q] /\ outbox'[q] = << >>
      BY <1>5 DEF Commit
    <2>2. OutboxOK(q)'
      BY <1>3, <2>1 DEF OutboxOK
    <2>3. QED
      BY <1>1, <1>3, <1>4, <2>1, <2>2, BaselineFrame, AssignFrame, WorkingSetFrame
         DEF SyncOK
  <1>6. CASE Sends(q)
    <2>1. /\ registry'[q] = AfterSend(registry[q]) /\ published'[q] = target
          /\ sent'[q] = Append(sent[q], target)
          /\ outbox'[q] = SyncMessagesFor(registry[q], epoch, published[q], target)
          /\ MustSend(registry[q], published[q], target)
      BY <1>6 DEF Commit, Sends
    <2>2. /\ Len(sent'[q]) = Len(sent[q]) + 1
          /\ DOMAIN sent'[q] = 1..(Len(sent[q]) + 1)
          /\ sent'[q][Len(sent[q]) + 1] = target
          /\ \A j \in DOMAIN sent[q] : j \in DOMAIN sent'[q] /\ sent'[q][j] = sent[q][j]
          /\ sent'[q] # << >>
      BY <1>2, <2>1
    <2>3. /\ registry'[q].seq = registry[q].seq + 1
          /\ registry'[q].known
      BY <1>2, <2>1 DEF AfterSend, PollerEntry, MustSend
    <2>4. BaselineOK(q)'
      BY <1>1, <2>1, <2>2, <2>3 DEF BaselineOK, SyncOK
    <2>5. OutboxOK(q)'
      <3>1. ASSUME NEW i \in DOMAIN outbox'[q]
            PROVE  /\ outbox'[q][i].epoch = epoch'
                   /\ outbox'[q][i].seq = Len(sent[q]) + 1
                   /\ ContentOK(q, outbox[q][i])'
        BY <1>1, <1>2, <1>3, <2>1, <3>1, BuiltContent DEF SyncOK
      <3>2. Len(sent[q]) + 1 > 0 /\ Len(sent[q]) + 1 \in DOMAIN sent'[q]
        BY <1>2, <2>2
      <3>3. QED
        BY <1>3, <3>1, <3>2 DEF OutboxOK
    <2>6. AssignOK(q)'
      <3>1. \A i \in DOMAIN assign[q] : assign[q][i] \in SyncMsg
        BY <1>1 DEF TypeOK
      <3>2. ASSUME NEW i \in DOMAIN assign[q], assign[q][i].epoch = epoch
            PROVE  assign[q][i].seq \in DOMAIN sent'[q] /\ ContentOK(q, assign[q][i])'
        BY <1>1, <1>2, <1>3, <2>1, <3>1, <3>2, ContentGrow DEF SyncOK, AssignOK
      <3>3. QED
        BY <1>1, <1>3, <3>2 DEF SyncOK, AssignOK
    <2>7. WorkingSetOK(q)' /\ PendingOK(q)'
      BY <1>1, <1>3, <2>2 DEF SyncOK, WorkingSetOK, PendingOK
    <2>8. QED
      BY <1>4, <2>4, <2>5, <2>6, <2>7 DEF SyncOK
  <1>7. QED
    BY <1>5, <1>6

LEMMA PublishInv ==
    ASSUME IInv, NEW p \in Pollers, Publish(p) \/ PublishLost(p), NEW q \in Pollers
    PROVE  SyncOK(q)'
  <1>1. TypeOK /\ SyncOK(q)
    BY DEF IInv
  <1>2. /\ epoch' = epoch /\ registry' = registry /\ published' = published
        /\ sent' = sent /\ sweep' = sweep /\ ws' = ws /\ proc' = proc
        /\ beats' = beats /\ sweep.phase = "publishing"
    BY DEF Publish, PublishLost, NextToPublish, procs, bus
  <1>3. CASE q # p
    <2>1. outbox'[q] = outbox[q] /\ assign'[q] = assign[q]
      BY <1>1, <1>3 DEF Publish, PublishLost, TypeOK, bus
    <2>2. QED
      BY <1>1, <1>2, <2>1, Frame
  <1>4. CASE q = p
    <2>1. /\ outbox[q] \in Seq(SyncMsg) /\ outbox[q] # << >>
          /\ outbox'[q] = Tail(outbox[q]) /\ assign[q] \in Seq(SyncMsg)
      BY <1>1, <1>4 DEF Publish, PublishLost, NextToPublish, TypeOK
    <2>2. \/ assign'[q] = assign[q]
          \/ proc[q].up /\ assign'[q] = Append(assign[q], Head(outbox[q]))
      BY <1>1, <1>4 DEF Publish, PublishLost, TypeOK, bus
    <2>3. \A m : ContentOK(q, m)' <=> ContentOK(q, m)
      BY <1>2, ContentFrame
    <2>4. OutboxOK(q)'
      <3>1. \A i \in DOMAIN outbox'[q] :
                i + 1 \in DOMAIN outbox[q] /\ outbox'[q][i] = outbox[q][i + 1]
        BY <2>1
      <3>2. QED
        BY <1>1, <1>2, <2>3, <3>1 DEF OutboxOK, SyncOK
    <2>5. AssignOK(q)'
      <3>1. CASE assign'[q] = assign[q]
        BY <1>1, <1>2, <3>1, AssignFrame DEF SyncOK
      <3>2. CASE proc[q].up /\ assign'[q] = Append(assign[q], Head(outbox[q]))
        <4>1. /\ Head(outbox[q]).epoch = epoch
              /\ Head(outbox[q]).seq \in DOMAIN sent[q]
              /\ ContentOK(q, Head(outbox[q]))
          BY <1>1, <2>1, <3>2 DEF OutboxOK, SyncOK
        <4>2. epoch \in Nat
          BY <1>1 DEF TypeOK
        <4>3. \A i \in DOMAIN assign'[q] :
                 \/ i \in DOMAIN assign[q] /\ assign'[q][i] = assign[q][i]
                 \/ assign'[q][i] = Head(outbox[q])
          BY <2>1, <3>2
        <4>4. QED
          BY <1>1, <1>2, <2>3, <3>2, <4>1, <4>2, <4>3 DEF AssignOK, SyncOK
      <3>3. QED
        BY <2>2, <3>1, <3>2
    <2>6. QED
      BY <1>1, <1>2, <2>4, <2>5, BaselineFrame, WorkingSetFrame, GoodbyeFrame
         DEF SyncOK
  <1>5. QED
    BY <1>3, <1>4

(* The goodbye: nobody is up to be misled by what it forgets.               *)
LEMMA LeavingInv ==
    ASSUME IInv, NEW p \in Pollers, ObserveLeaving(p), NEW q \in Pollers
    PROVE  SyncOK(q)'
  <1>1. TypeOK /\ SyncOK(q)
    BY DEF IInv
  <1>2. /\ epoch' = epoch /\ sweep' = sweep /\ outbox' = outbox /\ ws' = ws
        /\ proc' = proc /\ assign' = assign
    BY DEF ObserveLeaving, procs
  <1>3. CASE q # p
    <2>1. /\ registry'[q] = registry[q] /\ published'[q] = published[q]
          /\ sent'[q] = sent[q] /\ beats'[q] = beats[q]
      BY <1>1, <1>3 DEF ObserveLeaving, TypeOK
    <2>2. QED
      BY <1>1, <1>2, <2>1, Frame
  <1>4. CASE q = p
    <2>1. beats[q] \in Seq(HeartbeatMsg) /\ beats[q] # << >> /\ Head(beats[q]).leaving
      BY <1>1, <1>4 DEF ObserveLeaving, TypeOK
    <2>2. ~proc[q].up
      BY <1>1, <2>1 DEF GoodbyeOK, SyncOK
    <2>3. registry'[q] = NoEntry /\ sent'[q] = << >>
      BY <1>1, <1>4 DEF ObserveLeaving, TypeOK
    <2>4. assign[q] = << >> /\ ws[q] = NewWorkingSet
      BY <1>1, <2>2 DEF AssignOK, WorkingSetOK, SyncOK
    <2>5. BaselineOK(q)'
      BY <2>3 DEF BaselineOK, NoEntry
    <2>6. OutboxOK(q)'
      BY <1>1, <1>2, <2>2, <2>3 DEF OutboxOK, SyncOK
    <2>7. AssignOK(q)' /\ GoodbyeOK(q)'
      BY <1>2, <2>2, <2>4 DEF AssignOK, GoodbyeOK
    <2>8. WorkingSetOK(q)' /\ PendingOK(q)'
      BY <1>1, <1>2, <2>4 DEF WorkingSetOK, PendingOK, NewWorkingSet, NoPending, TypeOK
    <2>9. QED
      BY <2>5, <2>6, <2>7, <2>8 DEF SyncOK
  <1>5. QED
    BY <1>3, <1>4

(* The other observations change the registry entry only, and neither its   *)
(* sequence number nor a snapshot it is owed.                               *)
LEMMA ObserveInv ==
    ASSUME IInv, NEW p \in Pollers,
           ObserveBeat(p) \/ ObserveRequest(p) \/ Lapse(p) \/ LapseDown(p),
           NEW q \in Pollers
    PROVE  SyncOK(q)'
  <1>1. TypeOK /\ SyncOK(q)
    BY DEF IInv
  <1>2. /\ epoch' = epoch /\ sweep' = sweep /\ outbox' = outbox /\ ws' = ws
        /\ proc' = proc /\ assign' = assign /\ published' = published
        /\ sent' = sent
    BY DEF ObserveBeat, ObserveRequest, Lapse, LapseDown, procs, bus
  <1>3. GoodbyeOK(q)'
    <2>1. CASE beats'[q] = beats[q]
      BY <1>1, <1>2, <2>1, GoodbyeFrame DEF SyncOK
    <2>2. CASE beats'[q] # beats[q]
      <3>1. /\ beats[q] \in Seq(HeartbeatMsg) /\ beats[q] # << >>
            /\ beats'[q] = Tail(beats[q])
        BY <1>1, <2>2
           DEF ObserveBeat, ObserveRequest, Lapse, LapseDown, TypeOK, bus
      <3>2. \A i \in DOMAIN beats'[q] :
                i + 1 \in DOMAIN beats[q] /\ beats'[q][i] = beats[q][i + 1]
        BY <3>1
      <3>3. QED
        BY <1>1, <1>2, <3>2 DEF GoodbyeOK, SyncOK
    <2>3. QED
      BY <2>1, <2>2
  <1>4. BaselineOK(q)'
    <2>1. registry[q] \in PollerEntry /\ sent[q] \in Seq(Share)
      BY <1>1 DEF TypeOK
    <2> DEFINE Keeps(f) ==
            IF registry[q].known
            THEN /\ f.known /\ f.seq = registry[q].seq
                 /\ registry[q].needs => f.needs
            ELSE f = registry[q] \/ (f.known /\ f.needs /\ f.seq = 0)
    <2>2. \A hb : Keeps(ObserveHeartbeat(registry[q], hb, epoch))
      BY <2>1 DEF ObserveHeartbeat, NewEntry, PollerEntry
    <2>3. \A inc : Keeps(ObserveSyncRequest(registry[q], inc))
      BY <2>1 DEF ObserveSyncRequest, NewEntry, PollerEntry
    <2>4. Keeps(registry[q])
      OBVIOUS
    <2>5. registry[q].known => Keeps([registry[q] EXCEPT !.live = FALSE])
      BY <2>1 DEF PollerEntry
    <2> HIDE DEF Keeps
    <2>6. Keeps(registry'[q])
      <3>1. CASE q # p
        BY <1>1, <2>4, <3>1
           DEF ObserveBeat, ObserveRequest, Lapse, LapseDown, TypeOK
      <3>2. CASE q = p
        <4>1. CASE ObserveBeat(p)
          BY <1>1, <2>2, <3>2, <4>1 DEF ObserveBeat, TypeOK
        <4>2. CASE ObserveRequest(p)
          BY <1>1, <2>3, <3>2, <4>2 DEF ObserveRequest, TypeOK
        <4>3. CASE Lapse(p) \/ LapseDown(p)
          BY <1>1, <2>5, <3>2, <4>3 DEF Lapse, LapseDown, TypeOK
        <4>4. QED
          BY <4>1, <4>2, <4>3
      <3>3. QED
        BY <3>1, <3>2
    <2> USE DEF Keeps
    <2>7. QED
      BY <1>1, <1>2, <2>1, <2>6 DEF BaselineOK, SyncOK
  <1>5. QED
    BY <1>1, <1>2, <1>3, <1>4, OutboxFrame, AssignFrame, WorkingSetFrame DEF SyncOK

(* A new core process has a new epoch: everything a poller holds is old.    *)
LEMMA RestartInv ==
    ASSUME IInv, CoreRestart, NEW q \in Pollers
    PROVE  SyncOK(q)'
  <1>1. TypeOK /\ SyncOK(q)
    BY DEF IInv
  <1>2. /\ epoch' = epoch + 1 /\ registry'[q] = NoEntry /\ sent'[q] = << >>
        /\ outbox'[q] = << >> /\ beats'[q] = << >> /\ ws' = ws /\ proc' = proc
        /\ assign' = assign
    BY DEF CoreRestart, procs
  <1>3. BaselineOK(q)' /\ OutboxOK(q)' /\ GoodbyeOK(q)'
    BY <1>2 DEF BaselineOK, OutboxOK, GoodbyeOK, NoEntry
  <1>4. epoch \in Nat /\ ws[q].epoch \in Nat /\ ws[q].pending.epoch \in Nat
    BY <1>1 DEF TypeOK, WorkingSetState, PendingSnapshot
  <1>5. WorkingSetOK(q)' /\ PendingOK(q)'
    BY <1>1, <1>2, <1>4 DEF WorkingSetOK, PendingOK, SyncOK
  <1>6. \A i \in DOMAIN assign[q] : assign[q][i].epoch \in Nat
    BY <1>1, QueuedMsgs DEF TypeOK
  <1>7. \A i \in DOMAIN assign[q] :
            assign[q][i].epoch =< epoch' /\ assign[q][i].epoch # epoch'
    BY <1>1, <1>2, <1>4, <1>6 DEF AssignOK, SyncOK
  <1>8. AssignOK(q)'
    BY <1>1, <1>2, <1>7 DEF AssignOK, SyncOK
  <1>9. QED
    BY <1>3, <1>5, <1>8 DEF SyncOK

-----------------------------------------------------------------------------
(* The steps of a poller.                                                   *)

(* What holds of a group being assembled, for any group.                    *)
GroupOK(q, g) ==
    /\ g.epoch =< epoch
    /\ g.epoch = epoch
        => /\ g.seq \in DOMAIN sent[q]
           /\ g.total = ChunkTotal(sent[q][g.seq])
           /\ \A i \in DOMAIN g.chunks :
                 /\ i \in 0..(g.total - 1)
                 /\ g.chunks[i] = ChunkPart(sent[q][g.seq], i)

(* What holds of a working set, for any working set.                        *)
HoldsOK(q, w) ==
    /\ w.epoch =< epoch
    /\ w.epoch = epoch => /\ w.lastSeq \in DOMAIN sent[q]
                          /\ w.nodes = sent[q][w.lastSeq]

LEMMA DeltaKeeps ==
    ASSUME TypeOK, NEW q \in Pollers, NEW w \in WorkingSetState, NEW m \in DeltaMsg,
           HoldsOK(q, w), GroupOK(q, w.pending), m.epoch =< epoch,
           m.epoch = epoch => m.seq \in DOMAIN sent[q] /\ ContentOK(q, m)
    PROVE  HoldsOK(q, ApplyDelta(w, m).ws) /\ GroupOK(q, ApplyDelta(w, m).ws.pending)
  <1>1. CASE w.epoch # m.epoch \/ m.seq # w.lastSeq + 1
    BY <1>1 DEF ApplyDelta, Outcome
  <1>2. CASE w.epoch = m.epoch /\ m.seq = w.lastSeq + 1
    <2> DEFINE nodes == [n \in Nodes |->
                          IF n \in m.removes THEN Absent
                          ELSE IF m.upserts[n] # Absent THEN m.upserts[n]
                          ELSE w.nodes[n]]
               after == [w EXCEPT !.nodes = nodes, !.lastSeq = m.seq]
    <2>1. ApplyDelta(w, m).ws = after
      BY <1>2 DEF ApplyDelta, Outcome
    <2>2. ASSUME m.epoch = epoch
          PROVE  nodes = sent[q][m.seq]
      <3>1. w.lastSeq \in DOMAIN sent[q] /\ m.seq \in DOMAIN sent[q]
        BY <1>2, <2>2 DEF HoldsOK
      <3>2. /\ sent[q][w.lastSeq] \in Share /\ sent[q][m.seq] \in Share
            /\ w.lastSeq \in Nat
        BY <3>1 DEF TypeOK, WorkingSetState
      <3>3. m.seq - 1 = w.lastSeq
        BY <1>2, <3>2
      <3>4. m = Delta(epoch, m.seq, sent[q][w.lastSeq], sent[q][m.seq])
        BY <2>2, <3>3 DEF ContentOK, DeltaMsg
      <3>5. w.nodes = sent[q][w.lastSeq]
        BY <1>2, <2>2 DEF HoldsOK
      <3>6. \A n \in Nodes : nodes[n] = sent[q][m.seq][n]
        BY <3>2, <3>4, <3>5, DeltaLeads
      <3>7. QED
        BY <3>2, <3>6 DEF Share
    <2> HIDE DEF nodes
    <2>3. /\ after.epoch = m.epoch /\ after.lastSeq = m.seq /\ after.nodes = nodes
          /\ after.pending = w.pending
      BY <1>2 DEF WorkingSetState
    <2> HIDE DEF after
    <2>4. QED
      BY <2>1, <2>2, <2>3 DEF HoldsOK
  <1>3. QED
    BY <1>1, <1>2

LEMMA ChunkKeeps ==
    ASSUME TypeOK, NEW q \in Pollers, NEW w \in WorkingSetState, NEW m \in ChunkMsg,
           HoldsOK(q, w), GroupOK(q, w.pending), m.epoch =< epoch,
           m.epoch = epoch => m.seq \in DOMAIN sent[q] /\ ContentOK(q, m)
    PROVE  LET after == ApplySnapshotChunk(w, m).ws
           IN  HoldsOK(q, after) /\ GroupOK(q, after.pending)
  <1> DEFINE base  == PendingFor(w.pending, m)
             group == [base EXCEPT !.chunks = AddChunk(base.chunks, m.index, m.nodes)]
  <1>1. base \in PendingSnapshot /\ base.epoch = m.epoch /\ base.seq = m.seq
    BY PendingForType DEF WorkingSetState, PendingFor, SameGroup
  <1>2. GroupOK(q, base)
    <2>1. CASE SameGroup(w.pending, m)
      BY <2>1 DEF PendingFor
    <2>2. CASE ~SameGroup(w.pending, m)
      BY <2>2 DEF PendingFor, GroupOK, ContentOK, ChunkMsg
    <2>3. QED
      BY <2>1, <2>2
  <1>3. /\ group.epoch = m.epoch /\ group.seq = m.seq /\ group.total = base.total
        /\ group.chunks = AddChunk(base.chunks, m.index, m.nodes)
    BY <1>1 DEF PendingSnapshot
  <1> HIDE DEF base
  <1>4. /\ DOMAIN group.chunks = DOMAIN base.chunks \cup {m.index}
        /\ group.chunks[m.index] = m.nodes
        /\ \A i \in DOMAIN base.chunks :
              i = m.index \/ group.chunks[i] = base.chunks[i]
    BY <1>3 DEF AddChunk
  <1> HIDE DEF group
  <1>5. GroupOK(q, group)
    <2>1. CASE m.epoch # epoch
      BY <1>3, <2>1 DEF GroupOK
    <2>2. CASE m.epoch = epoch
      <3>1. /\ m.seq \in DOMAIN sent[q]
            /\ m.index \in 0..(ChunkTotal(sent[q][m.seq]) - 1)
            /\ m.nodes = ChunkPart(sent[q][m.seq], m.index)
        BY <2>2 DEF ContentOK, ChunkMsg
      <3>2. /\ base.total = ChunkTotal(sent[q][m.seq])
            /\ \A i \in DOMAIN base.chunks :
                  /\ i \in 0..(base.total - 1)
                  /\ base.chunks[i] = ChunkPart(sent[q][m.seq], i)
        BY <1>1, <1>2, <2>2 DEF GroupOK
      <3>3. QED
        BY <1>3, <1>4, <2>2, <3>1, <3>2 DEF GroupOK
    <2>3. QED
      BY <2>1, <2>2
  <1>6. ASSUME ~(Cardinality(DOMAIN group.chunks) < group.total), m.epoch = epoch
        PROVE  Flatten(group.chunks) = sent[q][m.seq]
    <2> DEFINE share == sent[q][m.seq]
    <2>1. share \in Share
      BY <1>6 DEF TypeOK
    <2>2. /\ group.total = ChunkTotal(share)
          /\ \A i \in DOMAIN group.chunks :
                i \in 0..(ChunkTotal(share) - 1) /\ group.chunks[i] = ChunkPart(share, i)
      BY <1>3, <1>5, <1>6 DEF GroupOK
    <2>3. ChunkTotal(share) \in Nat \ {0}
      BY <2>1, ChunkTotalType
    <2> HIDE DEF share
    <2>4. IsFiniteSet(0..(ChunkTotal(share) - 1))
      BY <2>3, ChunkIndices
    <2>5. DOMAIN group.chunks \in SUBSET (0..(ChunkTotal(share) - 1))
      BY <2>2
    <2>6. Cardinality(DOMAIN group.chunks) \in Nat
      BY <2>4, <2>5, FS_Subset, FS_CardinalityType
    <2>7. Cardinality(DOMAIN group.chunks) >= ChunkTotal(share)
      BY <1>6, <2>2, <2>3, <2>6
    <2>8. Flatten(group.chunks) = share
      BY <2>1, <2>2, <2>7, FlattenWhole
    <2>9. QED
      BY <2>8 DEF share
  <1>7. HoldsOK(q, [w EXCEPT !.pending = group]) /\ GroupOK(q, group)
    BY <1>5 DEF HoldsOK, WorkingSetState
  <1>8. [w EXCEPT !.pending = group].pending = group
    BY DEF WorkingSetState
  <1>9. GroupOK(q, NoPending)
    BY DEF GroupOK, NoPending, TypeOK
  <1>10. ~(Cardinality(DOMAIN group.chunks) < group.total)
           => /\ HoldsOK(q, ReplaceFromGroup(w, group))
              /\ ReplaceFromGroup(w, group).pending = NoPending
    BY <1>3, <1>6 DEF HoldsOK, ReplaceFromGroup
  <1>11. \/ ApplySnapshotChunk(w, m).ws = w
         \/ ApplySnapshotChunk(w, m).ws = [w EXCEPT !.pending = group]
         \/ /\ ~(Cardinality(DOMAIN group.chunks) < group.total)
            /\ ApplySnapshotChunk(w, m).ws = ReplaceFromGroup(w, group)
    BY DEF ApplySnapshotChunk, Outcome, group, base
  <1>12. QED
    BY <1>7, <1>8, <1>9, <1>10, <1>11

LEMMA DeliverInv ==
    ASSUME IInv, NEW p \in Pollers, Deliver(p), NEW q \in Pollers
    PROVE  SyncOK(q)'
  <1>1. TypeOK /\ SyncOK(q)
    BY DEF IInv
  <1>2. /\ epoch' = epoch /\ registry' = registry /\ published' = published
        /\ sent' = sent /\ sweep' = sweep /\ outbox' = outbox /\ proc' = proc
        /\ beats' = beats
    BY DEF Deliver, core
  <1>3. CASE q # p
    <2>1. ws'[q] = ws[q] /\ assign'[q] = assign[q]
      BY <1>1, <1>3 DEF Deliver, TypeOK
    <2>2. QED
      BY <1>1, <1>2, <2>1, Frame
  <1>4. CASE q = p
    <2>1. PICK m : m = Head(assign[q])
      OBVIOUS
    <2>2. /\ assign[q] \in Seq(SyncMsg) /\ assign[q] # << >> /\ proc[q].up
          /\ assign'[q] = Tail(assign[q]) /\ ws'[q] = Apply(ws[q], m).ws
          /\ ws[q] \in WorkingSetState
      BY <1>1, <1>4, <2>1 DEF Deliver, TypeOK
    <2>3. /\ m \in SyncMsg /\ m.epoch =< epoch
          /\ m.epoch = epoch => m.seq \in DOMAIN sent[q] /\ ContentOK(q, m)
      BY <1>1, <2>1, <2>2 DEF AssignOK, SyncOK
    <2>4. HoldsOK(q, ws[q]) /\ GroupOK(q, ws[q].pending)
      BY <1>1 DEF HoldsOK, GroupOK, WorkingSetOK, PendingOK, SyncOK
    <2>5. HoldsOK(q, ws'[q]) /\ GroupOK(q, ws'[q].pending)
      <3>1. CASE m.kind = "chunk"
        <4>1. m \in ChunkMsg
          BY <2>3, <3>1 DEF SyncMsg, DeltaMsg
        <4>2. QED
          BY <1>1, <2>2, <2>3, <2>4, <3>1, <4>1, ChunkKeeps DEF Apply
      <3>2. CASE m.kind # "chunk"
        <4>1. m \in DeltaMsg
          BY <2>3, <3>2 DEF SyncMsg, ChunkMsg
        <4>2. QED
          BY <1>1, <2>2, <2>3, <2>4, <3>2, <4>1, DeltaKeeps DEF Apply
      <3>3. QED
        BY <3>1, <3>2
    <2>6. WorkingSetOK(q)' /\ PendingOK(q)'
      BY <1>2, <2>2, <2>5 DEF HoldsOK, GroupOK, WorkingSetOK, PendingOK
    <2>7. AssignOK(q)'
      <3>1. \A i \in DOMAIN assign'[q] :
                i + 1 \in DOMAIN assign[q] /\ assign'[q][i] = assign[q][i + 1]
        BY <2>2
      <3>2. \A x : ContentOK(q, x)' <=> ContentOK(q, x)
        BY <1>2, ContentFrame
      <3>3. QED
        BY <1>1, <1>2, <2>2, <3>1, <3>2 DEF AssignOK, SyncOK
    <2>8. QED
      BY <1>1, <1>2, <2>6, <2>7, BaselineFrame, OutboxFrame, GoodbyeFrame DEF SyncOK
  <1>5. QED
    BY <1>3, <1>4

LEMMA AppendElements ==
    ASSUME NEW S, NEW s \in Seq(S), NEW x \in S, NEW i \in DOMAIN Append(s, x)
    PROVE  (i \in DOMAIN s /\ Append(s, x)[i] = s[i]) \/ Append(s, x)[i] = x
  OBVIOUS

LEMMA BeatInv ==
    ASSUME IInv, NEW p \in Pollers, Beat(p), NEW q \in Pollers
    PROVE  SyncOK(q)'
  <1>1. TypeOK /\ SyncOK(q)
    BY DEF IInv
  <1>2. /\ epoch' = epoch /\ registry' = registry /\ published' = published
        /\ sent' = sent /\ sweep' = sweep /\ outbox' = outbox /\ proc' = proc
        /\ ws' = ws /\ assign' = assign
    BY DEF Beat, core, procs
  <1>3. GoodbyeOK(q)'
    <2>1. beats[q] \in Seq(HeartbeatMsg)
      BY <1>1 DEF TypeOK
    <2>2. PICK b \in HeartbeatMsg : b = BeatOf(q, FALSE)
      BY <1>1, BeatOfType
    <2>3. beats'[q] = beats[q] \/ beats'[q] = Append(beats[q], b)
      BY <1>1, <2>2 DEF Beat, TypeOK
    <2>4. ~b.leaving
      BY <2>2 DEF BeatOf
    <2>5. ASSUME NEW i \in DOMAIN beats'[q]
          PROVE  (i \in DOMAIN beats[q] /\ beats'[q][i] = beats[q][i]) \/ beats'[q][i] = b
      BY <2>1, <2>3, AppendElements
    <2>6. QED
      BY <1>1, <1>2, <2>4, <2>5 DEF GoodbyeOK, SyncOK
  <1>4. QED
    BY <1>1, <1>2, <1>3, BaselineFrame, OutboxFrame, AssignFrame, WorkingSetFrame
       DEF SyncOK

(* A process that is gone holds nothing and is owed nothing.                *)
LEMMA StopInv ==
    ASSUME IInv, NEW p \in Pollers, Crash(p) \/ Leave(p), NEW q \in Pollers
    PROVE  SyncOK(q)'
  <1>1. TypeOK /\ SyncOK(q)
    BY DEF IInv
  <1>2. /\ epoch' = epoch /\ registry' = registry /\ published' = published
        /\ sent' = sent /\ sweep' = sweep /\ outbox' = outbox
    BY DEF Crash, Leave, core
  <1>3. CASE q # p
    <2>1. /\ ws'[q] = ws[q] /\ assign'[q] = assign[q] /\ proc'[q] = proc[q]
          /\ beats'[q] = beats[q]
      BY <1>1, <1>3 DEF Crash, Leave, Stopped, TypeOK
    <2>2. QED
      BY <1>1, <1>2, <2>1, Frame
  <1>4. CASE q = p
    <2>1. Stopped(q)
      BY <1>4 DEF Crash, Leave
    <2>2. ws'[q] = NewWorkingSet /\ assign'[q] = << >> /\ ~proc'[q].up
      BY <1>1, <2>1 DEF Stopped, TypeOK, Process
    <2>3. WorkingSetOK(q)' /\ PendingOK(q)'
      BY <1>1, <1>2, <2>2 DEF WorkingSetOK, PendingOK, NewWorkingSet, NoPending, TypeOK
    <2>4. AssignOK(q)' /\ GoodbyeOK(q)'
      BY <2>2 DEF AssignOK, GoodbyeOK
    <2>5. QED
      BY <1>1, <1>2, <2>2, <2>3, <2>4, BaselineFrame, OutboxFrame DEF SyncOK
  <1>5. QED
    BY <1>3, <1>4

(* A process is started only when core has forgotten nothing it could still *)
(* hear of: this is where LeaveSettled is needed.                           *)
LEMMA StartInv ==
    ASSUME LeaveSettled, IInv, NEW p \in Pollers, NEW caps, Start(p, caps),
           NEW q \in Pollers
    PROVE  SyncOK(q)'
  <1>1. TypeOK /\ SyncOK(q)
    BY DEF IInv
  <1>2. /\ epoch' = epoch /\ registry' = registry /\ published' = published
        /\ sent' = sent /\ sweep' = sweep /\ outbox' = outbox /\ ws' = ws
        /\ assign' = assign /\ beats' = beats
    BY DEF Start, core
  <1>3. CASE q # p
    <2>1. proc'[q] = proc[q]
      BY <1>1, <1>3 DEF Start, TypeOK
    <2>2. QED
      BY <1>1, <1>2, <2>1, Frame
  <1>4. CASE q = p
    <2>1. ~proc[q].up /\ Settled(q)
      BY <1>4 DEF Start
    <2>2. proc'[q].up
      BY <1>1, <1>4 DEF Start, TypeOK
    <2>3. AssignOK(q)' /\ WorkingSetOK(q)' /\ PendingOK(q)'
      BY <1>1, <1>2, <2>2, AssignFrame, WorkingSetFrame DEF SyncOK
    <2>4. GoodbyeOK(q)'
      BY <1>2, <2>1 DEF GoodbyeOK, Settled
    <2>5. OutboxOK(q)'
      <3>1. \A i \in DOMAIN outbox[q] : outbox[q][i].seq \in Nat
        BY <1>1, QueuedMsgs DEF TypeOK
      <3>2. sent[q] \in Seq(Share) /\ registry[q].seq = Len(sent[q])
        BY <1>1 DEF TypeOK, BaselineOK, SyncOK
      <3>3. \A i \in DOMAIN outbox[q] :
                outbox[q][i].seq > 0 /\ outbox[q][i].seq =< registry[q].seq
        BY <1>1, <2>1 DEF Settled, OutboxOK, SyncOK
      <3>4. \A i \in DOMAIN outbox[q] : outbox[q][i].seq \in DOMAIN sent[q]
        BY <3>1, <3>2, <3>3
      <3>5. \A m : ContentOK(q, m)' <=> ContentOK(q, m)
        BY <1>2, ContentFrame
      <3>6. QED
        BY <1>1, <1>2, <3>4, <3>5 DEF OutboxOK, SyncOK
    <2>6. QED
      BY <1>1, <1>2, <2>3, <2>4, <2>5, BaselineFrame DEF SyncOK
  <1>5. QED
    BY <1>3, <1>4

-----------------------------------------------------------------------------
LEMMA NextInv ==
    ASSUME LeaveSettled, IInv, [Next]_vars
    PROVE  IInv'
  <1>1. TypeOK'
    BY NextType DEF IInv
  <1> SUFFICES ASSUME NEW q \in Pollers PROVE SyncOK(q)'
    BY <1>1 DEF IInv
  <1>2. TypeOK /\ SyncOK(q)
    BY DEF IInv
  <1>3. ASSUME NEW n \in Nodes, NEW spec, Edit(n, spec) PROVE SyncOK(q)'
    BY <1>2, <1>3, Frame DEF Edit, core, procs, bus
  <1>4. CASE Plan
    <2>1. outbox[q] = << >>
      BY <1>2, <1>4 DEF Plan, OutboxOK, SyncOK
    <2>2. QED
      BY <1>2, <1>4, <2>1, Frame DEF Plan, procs, bus
  <1>5. CASE Finish
    <2>1. outbox[q] = << >>
      BY <1>5 DEF Finish
    <2>2. QED
      BY <1>2, <1>5, <2>1, Frame DEF Finish, procs, bus
  <1>6. ASSUME NEW p \in Pollers, RequestLost(p) PROVE SyncOK(q)'
    BY <1>2, <1>6, Frame DEF RequestLost, core, procs
  <1>7. CASE UNCHANGED vars
    BY <1>2, <1>7, Frame DEF vars, core, procs, bus
  <1>8. ASSUME NEW p \in Pollers, PollerStep(p) PROVE SyncOK(q)'
    BY <1>6, <1>8, PublishInv, LeavingInv, ObserveInv, DeliverInv, BeatInv,
       StopInv, StartInv DEF PollerStep
  <1>9. QED
    BY <1>3, <1>4, <1>5, <1>7, <1>8, CommitInv, RestartInv DEF Next

(* The inductive invariant holds throughout, provided a poller that said    *)
(* goodbye is started again only after core has digested the goodbye.       *)
LEMMA Invariance == ASSUME LeaveSettled PROVE Spec => []IInv
  BY LeaveSettled, InitInv, NextInv, PTL DEF Spec

LEMMA InvImplies == IInv => HeldWasSent /\ SyncAgreement
  <1> SUFFICES ASSUME IInv PROVE HeldWasSent /\ SyncAgreement
    OBVIOUS
  <1>1. HeldWasSent
    BY DEF IInv, SyncOK, WorkingSetOK, HeldWasSent
  <1>2. ASSUME NEW p \in Pollers, ws[p].epoch = epoch,
               ws[p].lastSeq = registry[p].seq
        PROVE  ws[p].nodes = published[p]
    <2>1. sent[p] \in Seq(Share)
      BY DEF IInv, TypeOK
    <2>2. /\ ws[p].lastSeq \in DOMAIN sent[p]
          /\ ws[p].nodes = sent[p][ws[p].lastSeq]
          /\ registry[p].seq = Len(sent[p])
          /\ sent[p] # << >> => published[p] = sent[p][Len(sent[p])]
      BY <1>2 DEF IInv, SyncOK, WorkingSetOK, BaselineOK
    <2>3. sent[p] # << >>
      BY <2>1, <2>2
    <2>4. QED
      BY <1>2, <2>2, <2>3
  <1>3. QED
    BY <1>1, <1>2 DEF SyncAgreement

(* A poller whose heartbeat echo matches core's books holds exactly the     *)
(* baseline core diffs against, so the deltas core goes on to send it are   *)
(* deltas of what it has: reconcile_pool, observe_heartbeat and the poller's*)
(* apply together, for any number of pollers, nodes and disturbances.       *)
THEOREM EchoIsSound == ASSUME LeaveSettled PROVE Spec => []SyncAgreement
  BY Invariance, InvImplies, PTL

(* apply_snapshot_chunk and apply_delta never leave a poller with a mixture:*)
(* on the current epoch it holds a share core committed as a whole.         *)
THEOREM NoTornWorkingSet == ASSUME LeaveSettled PROVE Spec => []HeldWasSent
  BY Invariance, InvImplies, PTL

-----------------------------------------------------------------------------
(* Capabilities.  A poller's build only gains capabilities, so what core    *)
(* last heard of it, however old, never claims more than the build has.     *)

LEMMA CapsGrow ==
    ASSUME ~Downgrades, TypeOK, [Next]_vars, NEW q \in Pollers, ~proc'[q].caps
    PROVE  ~proc[q].caps
  <1>1. CASE proc' = proc
    BY <1>1
  <1>2. ASSUME NEW p \in Pollers, Stopped(p) PROVE ~proc[q].caps
    <2>1. proc[p] \in Process /\ proc'[q] = IF q = p THEN [proc[p] EXCEPT !.up = FALSE] ELSE proc[q]
      BY <1>2 DEF Stopped, TypeOK
    <2>2. [proc[p] EXCEPT !.up = FALSE].caps = proc[p].caps
      BY <2>1 DEF Process
    <2> QED  BY <2>1, <2>2
  <1>3. ASSUME NEW p \in Pollers, NEW caps \in Builds, Start(p, caps) PROVE ~proc[q].caps
    <2>1. /\ proc'[q] = IF q = p THEN [up |-> TRUE, inc |-> proc[p].inc + 1, caps |-> caps]
                                 ELSE proc[q]
          /\ proc[p].caps => caps
      BY <1>3 DEF Start, TypeOK
    <2>2. CASE q = p
      <3>1. proc'[q].caps = caps
        BY <2>1, <2>2
      <3> QED  BY <2>1, <2>2, <3>1
    <2>3. CASE q # p
      BY <2>1, <2>3
    <2> QED  BY <2>2, <2>3
  <1>4. \/ proc' = proc
        \/ \E p \in Pollers : Stopped(p)
        \/ \E p \in Pollers : \E caps \in Builds : Start(p, caps)
    BY Zenon DEF Next, PollerStep, Edit, Plan, Commit, Finish, CoreRestart, Publish, PublishLost,
       ObserveLeaving, ObserveBeat, ObserveRequest, RequestLost, Lapse, LapseDown, Deliver,
       Beat, Crash, Leave, vars, procs
  <1> QED  BY <1>1, <1>2, <1>3, <1>4

LEMMA PlainParts ==
    ASSUME NEW share, Plain(share)
    PROVE  /\ \A i : Plain(ChunkPart(share, i))
           /\ \A e, s, prev : Plain(Delta(e, s, prev, share).upserts)
  <1>1. Absent \notin CapSpecs
    BY MessagesAssumption
  <1>2. \A i : Plain(ChunkPart(share, i))
    BY <1>1 DEF Plain, ChunkPart
  <1>3. \A e, s, prev : Plain(Delta(e, s, prev, share).upserts)
    BY <1>1 DEF Plain, Delta
  <1> QED  BY <1>2, <1>3

LEMMA PlainEmpty == Plain(EmptyShare)
  BY MessagesAssumption DEF Plain, EmptyShare

(* Phase 2 takes the check out for a member not known to have the           *)
(* capability.                                                              *)
LEMMA PlainTarget ==
    ASSUME NEW members, NEW p, ~registry[p].caps
    PROVE  Plain(TargetFor(members, p))
  <1>1. Absent \notin CapSpecs /\ Withheld \notin CapSpecs
    BY MessagesAssumption
  <1>2. \A spec : Kept(spec, registry[p].caps) \notin CapSpecs
    BY <1>1 DEF Kept
  <1> QED  BY <1>1, <1>2 DEF Plain, TargetFor

LEMMA PlainMessages ==
    ASSUME NEW e \in PollerEntry, NEW ep \in Nat, NEW prev \in Share, NEW target \in Share,
           Plain(target), NEW i \in DOMAIN SyncMessagesFor(e, ep, prev, target)
    PROVE  Plain(Carried(SyncMessagesFor(e, ep, prev, target)[i]))
  <1>1. PICK k : k = e.seq + 1
    OBVIOUS
  <1>2. CASE UseSnapshot(e, prev, target)
    <2>1. SyncMessagesFor(e, ep, prev, target) = SnapshotChunks(ep, k, target)
      BY <1>1, <1>2 DEF SyncMessagesFor
    <2>2. i \in 1..ChunkTotal(target)
      BY <2>1 DEF SnapshotChunks
    <2>3. SnapshotChunks(ep, k, target)[i] =
            [kind |-> "chunk", epoch |-> ep, seq |-> k, index |-> i - 1,
             total |-> ChunkTotal(target), nodes |-> ChunkPart(target, i - 1)]
      BY <2>2 DEF SnapshotChunks
    <2>4. Carried(SnapshotChunks(ep, k, target)[i]) = ChunkPart(target, i - 1)
      BY <2>3 DEF Carried
    <2> QED  BY <2>1, <2>4, PlainParts
  <1>3. CASE ~UseSnapshot(e, prev, target)
    <2>1. SyncMessagesFor(e, ep, prev, target) = <<Delta(ep, k, prev, target)>>
      BY <1>1, <1>3 DEF SyncMessagesFor
    <2>2. i = 1
      BY <2>1
    <2>3. Carried(Delta(ep, k, prev, target)) = Delta(ep, k, prev, target).upserts
      BY DEF Carried, Delta
    <2> QED  BY <2>1, <2>2, <2>3, PlainParts
  <1> QED  BY <1>2, <1>3

(* What the poller builds from plain chunks and plain deltas is plain.      *)
PlainSet(w) ==
    /\ Plain(w.nodes)
    /\ \A i \in DOMAIN w.pending.chunks : Plain(w.pending.chunks[i])

LEMMA PlainNew == PlainSet(NewWorkingSet)
  BY PlainEmpty DEF PlainSet, NewWorkingSet, NoPending

LEMMA PlainFlatten ==
    ASSUME NEW chunks, \A i \in DOMAIN chunks : Plain(chunks[i])
    PROVE  Plain(Flatten(chunks))
  <1> SUFFICES ASSUME NEW n \in Nodes PROVE Flatten(chunks)[n] \notin CapSpecs
    BY DEF Plain
  <1>1. CASE \E i \in DOMAIN chunks : chunks[i][n] # Absent
    <2>1. PICK i : i = CHOOSE j \in DOMAIN chunks : chunks[j][n] # Absent
      OBVIOUS
    <2>2. i \in DOMAIN chunks
      BY <1>1, <2>1
    <2>3. Flatten(chunks)[n] = chunks[i][n]
      BY <1>1, <2>1 DEF Flatten
    <2> QED  BY <2>2, <2>3 DEF Plain
  <1>2. CASE ~\E i \in DOMAIN chunks : chunks[i][n] # Absent
    <2>1. Flatten(chunks)[n] = Absent
      BY <1>2 DEF Flatten
    <2> QED  BY <2>1, MessagesAssumption
  <1> QED  BY <1>1, <1>2

LEMMA PlainDelta ==
    ASSUME NEW w \in WorkingSetState, NEW m \in DeltaMsg, PlainSet(w), Plain(m.upserts)
    PROVE  PlainSet(ApplyDelta(w, m).ws)
  <1>1. PICK nodes : nodes = [n \in Nodes |-> IF n \in m.removes THEN Absent
                                ELSE IF m.upserts[n] # Absent THEN m.upserts[n]
                                ELSE w.nodes[n]]
    OBVIOUS
  <1>2. Plain(nodes)
    BY <1>1, MessagesAssumption DEF Plain, PlainSet
  <1>3. \/ ApplyDelta(w, m).ws = w
        \/ ApplyDelta(w, m).ws = [w EXCEPT !.nodes = nodes, !.lastSeq = m.seq]
    BY <1>1 DEF ApplyDelta, Outcome
  <1>4. LET v == [w EXCEPT !.nodes = nodes, !.lastSeq = m.seq]
        IN  v.nodes = nodes /\ v.pending = w.pending
    BY DEF WorkingSetState
  <1> QED  BY <1>2, <1>3, <1>4 DEF PlainSet

LEMMA PlainChunk ==
    ASSUME NEW w \in WorkingSetState, NEW m \in ChunkMsg, PlainSet(w), Plain(m.nodes)
    PROVE  PlainSet(ApplySnapshotChunk(w, m).ws)
  <1> DEFINE base  == PendingFor(w.pending, m)
             group == [base EXCEPT !.chunks = AddChunk(base.chunks, m.index, m.nodes)]
  <1>1. base \in PendingSnapshot
    BY PendingForType DEF WorkingSetState
  <1>2. \A i \in DOMAIN base.chunks : Plain(base.chunks[i])
    BY DEF PendingFor, PlainSet
  <1>3. group.chunks = AddChunk(base.chunks, m.index, m.nodes)
    BY <1>1 DEF PendingSnapshot
  <1> HIDE DEF base
  <1>4. \A i \in DOMAIN group.chunks : Plain(group.chunks[i])
    BY <1>2, <1>3 DEF AddChunk
  <1> HIDE DEF group
  <1>5. PlainSet([w EXCEPT !.pending = group])
    BY <1>4 DEF PlainSet, WorkingSetState
  <1>6. PlainSet(ReplaceFromGroup(w, group))
    BY <1>4, PlainFlatten DEF PlainSet, ReplaceFromGroup, NoPending
  <1>7. \/ ApplySnapshotChunk(w, m).ws = w
        \/ ApplySnapshotChunk(w, m).ws = [w EXCEPT !.pending = group]
        \/ ApplySnapshotChunk(w, m).ws = ReplaceFromGroup(w, group)
    BY DEF ApplySnapshotChunk, Outcome, group, base
  <1> QED  BY <1>5, <1>6, <1>7

LEMMA PlainApply ==
    ASSUME NEW w \in WorkingSetState, NEW m \in SyncMsg, PlainSet(w), Plain(Carried(m))
    PROVE  PlainSet(Apply(w, m).ws)
  <1>1. CASE m.kind = "chunk"
    <2>1. m \in ChunkMsg
      BY <1>1 DEF SyncMsg, DeltaMsg
    <2> QED  BY <1>1, <2>1, PlainChunk DEF Apply, Carried
  <1>2. CASE m.kind # "chunk"
    <2>1. m \in DeltaMsg
      BY <1>2 DEF SyncMsg, ChunkMsg
    <2> QED  BY <1>2, <2>1, PlainDelta DEF Apply, Carried
  <1> QED  BY <1>1, <1>2

(* What CapsOK says of a poller without the capability, part by part.       *)
PlainQueue(queue) == \A i \in DOMAIN queue : Plain(Carried(queue[i]))
PlainBeats(queue) == \A i \in DOMAIN queue : ~queue[i].caps

PlainPoller(q) ==
    /\ ~registry[q].caps
    /\ PlainBeats(beats[q])
    /\ Plain(sweep.targets[q])
    /\ PlainQueue(outbox[q])
    /\ PlainQueue(assign[q])
    /\ PlainSet(ws[q])

LEMMA CapsParts ==
    ASSUME NEW q \in Pollers
    PROVE  /\ CapsOK(q) /\ ~proc[q].caps => PlainPoller(q)
           /\ (~proc'[q].caps => PlainPoller(q)') => CapsOK(q)'
  BY DEF CapsOK, PlainPoller, PlainBeats, PlainQueue, PlainSet

LEMMA PlainTail ==
    ASSUME NEW S, NEW s \in Seq(S), s # << >>
    PROVE  /\ Head(s) \in S
           /\ PlainQueue(s) => PlainQueue(Tail(s)) /\ Plain(Carried(Head(s)))
           /\ PlainBeats(s) => PlainBeats(Tail(s)) /\ ~Head(s).caps
  <1>1. /\ Head(s) \in S /\ Head(s) = s[1] /\ 1 \in DOMAIN s
        /\ \A i \in DOMAIN Tail(s) : i + 1 \in DOMAIN s /\ Tail(s)[i] = s[i + 1]
    OBVIOUS
  <1>2. PlainQueue(s) => PlainQueue(Tail(s)) /\ Plain(Carried(Head(s)))
    BY <1>1 DEF PlainQueue
  <1>3. PlainBeats(s) => PlainBeats(Tail(s)) /\ ~Head(s).caps
    BY <1>1, Zenon DEF PlainBeats
  <1> QED  BY <1>1, <1>2, <1>3

LEMMA PlainAppend ==
    ASSUME NEW S, NEW s \in Seq(S), NEW x \in S
    PROVE  /\ PlainQueue(s) /\ Plain(Carried(x)) => PlainQueue(Append(s, x))
           /\ PlainBeats(s) /\ ~x.caps => PlainBeats(Append(s, x))
  <1>1. \A i \in DOMAIN Append(s, x) :
          (i \in DOMAIN s /\ Append(s, x)[i] = s[i]) \/ Append(s, x)[i] = x
    BY AppendElements
  <1>2. PlainQueue(s) /\ Plain(Carried(x)) => PlainQueue(Append(s, x))
    BY <1>1, Zenon DEF PlainQueue
  <1>3. PlainBeats(s) /\ ~x.caps => PlainBeats(Append(s, x))
    BY <1>1, Zenon DEF PlainBeats
  <1> QED  BY <1>2, <1>3

(* A poller none of whose state changes.                                    *)
LEMMA PlainFrame ==
    ASSUME NEW q \in Pollers, PlainPoller(q), registry'[q].caps = registry[q].caps,
           sweep'.targets[q] = sweep.targets[q], outbox'[q] = outbox[q],
           assign'[q] = assign[q], ws'[q] = ws[q], beats'[q] = beats[q]
    PROVE  PlainPoller(q)'
  BY Zenon DEF PlainPoller, PlainBeats, PlainQueue, PlainSet, Plain

LEMMA PlainSweep ==
    ASSUME TypeOK, NEW q \in Pollers, PlainPoller(q), Plan \/ Commit \/ Finish \/ CoreRestart
    PROVE  PlainPoller(q)'
  <1>1. CASE Plan
    <2>1. \/ sweep'.targets[q] = TargetFor(LiveMembers, q)
          \/ sweep'.targets[q] = EmptyShare
      BY <1>1 DEF Plan
    <2>2. Plain(sweep'.targets[q])
      BY <2>1, PlainTarget, PlainEmpty DEF PlainPoller
    <2> QED  BY <1>1, <2>2 DEF Plan, PlainPoller, procs, bus, PlainBeats, PlainQueue, PlainSet, Plain
  <1>2. CASE Commit
    <2>1. /\ registry[q] \in PollerEntry /\ epoch \in Nat /\ published[q] \in Share
          /\ sweep.targets[q] \in Share /\ sweep \in Sweep
      BY DEF TypeOK, Sweep
    <2>2. registry'[q].caps = registry[q].caps
      BY <1>2, <2>1 DEF Commit, AfterSend, PollerEntry
    <2>3. sweep'.targets = sweep.targets
      BY <1>2, <2>1 DEF Commit, Sweep
    <2>4. PlainQueue(outbox'[q])
      <3>1. \/ outbox'[q] = SyncMessagesFor(registry[q], epoch, published[q], sweep.targets[q])
            \/ outbox'[q] = << >>
        BY <1>2 DEF Commit
      <3> QED  BY <2>1, <3>1, PlainMessages DEF PlainPoller, PlainQueue
    <2> QED  BY <1>2, <2>2, <2>3, <2>4
             DEF Commit, PlainPoller, procs, bus, PlainBeats, PlainQueue, PlainSet, Plain
  <1>3. CASE Finish
    <2>1. sweep'.targets[q] = EmptyShare
      BY <1>3 DEF Finish, NoSweep
    <2> QED  BY <1>3, <2>1, PlainEmpty
             DEF Finish, PlainPoller, procs, bus, PlainBeats, PlainQueue, PlainSet, Plain
  <1>4. CASE CoreRestart
    <2>1. /\ sweep'.targets[q] = EmptyShare /\ ~registry'[q].caps
          /\ beats'[q] = << >> /\ outbox'[q] = << >> /\ assign' = assign /\ ws' = ws
      BY <1>4 DEF CoreRestart, NoSweep, NoEntry, procs
    <2> QED  BY <2>1, PlainEmpty
             DEF PlainPoller, PlainBeats, PlainQueue, PlainSet, Plain
  <1> QED  BY <1>1, <1>2, <1>3, <1>4

LEMMA PlainStreams ==
    ASSUME TypeOK, NEW q \in Pollers, PlainPoller(q), NEW p \in Pollers,
           \/ Publish(p) \/ PublishLost(p)
           \/ ObserveLeaving(p) \/ ObserveBeat(p) \/ ObserveRequest(p)
           \/ Lapse(p) \/ LapseDown(p)
    PROVE  PlainPoller(q)'
  <1>1. CASE Publish(p) \/ PublishLost(p)
    <2>1. /\ outbox[p] \in Seq(SyncMsg) /\ outbox[p] # << >> /\ assign[p] \in Seq(SyncMsg)
      BY <1>1 DEF Publish, PublishLost, NextToPublish, TypeOK
    <2>2. outbox'[q] = outbox[q] \/ (p = q /\ outbox'[q] = Tail(outbox[p]))
      BY <1>1 DEF Publish, PublishLost, TypeOK
    <2>3. assign'[q] = assign[q] \/ (p = q /\ assign'[q] = Append(assign[p], Head(outbox[p])))
      BY <1>1 DEF Publish, PublishLost, TypeOK, bus
    <2>4. PlainQueue(outbox'[q]) /\ PlainQueue(assign'[q])
      BY <2>1, <2>2, <2>3, PlainTail, PlainAppend DEF PlainPoller
    <2>5. /\ registry' = registry /\ beats' = beats /\ sweep' = sweep /\ ws' = ws
      BY <1>1 DEF Publish, PublishLost, procs, bus
    <2> QED  BY <2>4, <2>5 DEF PlainPoller, PlainBeats, PlainQueue, PlainSet, Plain
  <1>2. CASE ObserveLeaving(p) \/ ObserveBeat(p)
    <2>1. beats[p] \in Seq(HeartbeatMsg) /\ beats[p] # << >> /\ registry[p] \in PollerEntry
      BY <1>2 DEF ObserveLeaving, ObserveBeat, TypeOK
    <2>2. beats'[q] = beats[q] \/ (p = q /\ beats'[q] = Tail(beats[p]))
      BY <1>2 DEF ObserveLeaving, ObserveBeat, TypeOK
    <2>3. PlainBeats(beats'[q])
      BY <2>1, <2>2, PlainTail DEF PlainPoller
    <2>4. ~registry'[q].caps
      <3>1. CASE p # q
        BY <1>2, <3>1 DEF ObserveLeaving, ObserveBeat, TypeOK, PlainPoller
      <3>2. CASE p = q /\ ObserveLeaving(p)
        BY <3>2 DEF ObserveLeaving, TypeOK, NoEntry
      <3>3. CASE p = q /\ ObserveBeat(p)
        <4>1. PICK hb : hb = Head(beats[p])
          OBVIOUS
        <4>2. ~hb.caps
          BY <2>1, <3>3, <4>1, PlainTail DEF PlainPoller
        <4>3. registry'[q] = ObserveHeartbeat(registry[p], hb, epoch)
          BY <3>3, <4>1 DEF ObserveBeat, TypeOK
        <4>4. ObserveHeartbeat(registry[p], hb, epoch).caps = hb.caps
          BY <2>1 DEF ObserveHeartbeat, NewEntry, PollerEntry
        <4> QED  BY <4>2, <4>3, <4>4
      <3> QED  BY <1>2, <3>1, <3>2, <3>3
    <2>5. outbox' = outbox /\ sweep' = sweep /\ assign' = assign /\ ws' = ws
      BY <1>2 DEF ObserveLeaving, ObserveBeat, procs
    <2> QED  BY <2>3, <2>4, <2>5 DEF PlainPoller, PlainBeats, PlainQueue, PlainSet, Plain
  <1>3. CASE ObserveRequest(p) \/ Lapse(p) \/ LapseDown(p)
    <2>1. registry[p] \in PollerEntry /\ registry \in [Pollers -> PollerEntry]
      BY DEF TypeOK
    <2>2. ~registry'[q].caps
      <3>1. CASE p # q
        BY <1>3, <2>1, <3>1 DEF ObserveRequest, Lapse, LapseDown, PlainPoller
      <3>2. CASE p = q /\ ObserveRequest(p)
        <4>1. registry'[q] = ObserveSyncRequest(registry[p], Head(reqs[p]))
          BY <2>1, <3>2 DEF ObserveRequest
        <4>2. ~registry[p].caps
          BY <3>2 DEF PlainPoller
        <4>3. ~ObserveSyncRequest(registry[p], Head(reqs[p])).caps
          BY <2>1, <4>2 DEF ObserveSyncRequest, NewEntry, PollerEntry
        <4> QED  BY <4>1, <4>3
      <3>3. CASE p = q /\ (Lapse(p) \/ LapseDown(p))
        <4>1. registry'[q] = [registry[q] EXCEPT !.live = FALSE]
          BY <2>1, <3>3 DEF Lapse, LapseDown
        <4>2. registry'[q].caps = registry[q].caps
          BY <2>1, <3>3, <4>1 DEF PollerEntry
        <4> QED  BY <4>2 DEF PlainPoller
      <3> QED  BY <1>3, <3>1, <3>2, <3>3
    <2>3. outbox' = outbox /\ sweep' = sweep /\ assign' = assign /\ ws' = ws /\ beats' = beats
      BY <1>3 DEF ObserveRequest, Lapse, LapseDown, procs, bus
    <2> QED  BY <2>2, <2>3 DEF PlainPoller, PlainBeats, PlainQueue, PlainSet, Plain
  <1> QED  BY <1>1, <1>2, <1>3

LEMMA PlainProcess ==
    ASSUME TypeOK, NEW q \in Pollers, PlainPoller(q), ~proc[q].caps, NEW p \in Pollers,
           Deliver(p) \/ Beat(p) \/ Crash(p) \/ Leave(p)
    PROVE  PlainPoller(q)'
  <1>1. registry' = registry /\ sweep' = sweep /\ outbox' = outbox
    BY DEF Deliver, Beat, Crash, Leave, core
  <1>2. beats[p] \in Seq(HeartbeatMsg) /\ assign[p] \in Seq(SyncMsg) /\ ws[p] \in WorkingSetState
    BY DEF TypeOK
  <1>3. PlainBeats(beats'[q])
    <2>1. CASE beats'[q] = beats[q]
      BY <2>1 DEF PlainPoller
    <2>2. ASSUME NEW leaving \in BOOLEAN, p = q, beats'[q] = Append(beats[p], BeatOf(p, leaving))
          PROVE  PlainBeats(beats'[q])
      <3>1. PICK b \in HeartbeatMsg : b = BeatOf(p, leaving)
        BY BeatOfType
      <3>2. ~b.caps
        BY <2>2, <3>1 DEF BeatOf
      <3> QED  BY <1>2, <2>2, <3>1, <3>2, PlainAppend DEF PlainPoller
    <2>3. \/ beats'[q] = beats[q]
          \/ p = q /\ beats'[q] = Append(beats[p], BeatOf(p, TRUE))
          \/ p = q /\ beats'[q] = Append(beats[p], BeatOf(p, FALSE))
      BY DEF Deliver, Beat, Crash, Leave, TypeOK
    <2> QED  BY <2>1, <2>2, <2>3
  <1>4. PlainQueue(assign'[q]) /\ PlainSet(ws'[q])
    <2>1. CASE assign'[q] = assign[q] /\ ws'[q] = ws[q]
      BY <2>1 DEF PlainPoller
    <2>2. CASE p = q /\ Stopped(p)
      <3>1. assign'[q] = << >> /\ ws'[q] = NewWorkingSet
        BY <2>2 DEF Stopped, TypeOK
      <3> QED  BY <3>1, PlainNew DEF PlainQueue
    <2>3. CASE p = q /\ Deliver(p)
      <3>1. PICK m : m = Head(assign[p])
        OBVIOUS
      <3>2. assign[p] # << >> /\ assign'[q] = Tail(assign[p]) /\ ws'[q] = Apply(ws[p], m).ws
        BY <2>3, <3>1 DEF Deliver, TypeOK
      <3>3. m \in SyncMsg /\ Plain(Carried(m)) /\ PlainQueue(assign'[q])
        BY <1>2, <2>3, <3>1, <3>2, PlainTail DEF PlainPoller
      <3>4. PlainSet(ws'[q])
        BY <1>2, <2>3, <3>2, <3>3, PlainApply DEF PlainPoller
      <3> QED  BY <3>3, <3>4
    <2>4. \/ assign'[q] = assign[q] /\ ws'[q] = ws[q]
          \/ p = q /\ (Stopped(p) \/ Deliver(p))
      <3>1. CASE Beat(p)
        BY <3>1 DEF Beat, procs
      <3>2. CASE Deliver(p)
        BY <3>2 DEF Deliver, TypeOK
      <3>3. CASE Stopped(p)
        BY <3>3 DEF Stopped, TypeOK
      <3> QED  BY <3>1, <3>2, <3>3 DEF Crash, Leave
    <2> QED  BY <2>1, <2>2, <2>3, <2>4
  <1> QED  BY <1>1, <1>3, <1>4 DEF PlainPoller, PlainBeats, PlainQueue, PlainSet, Plain

LEMMA CapsStep ==
    ASSUME ~Downgrades, TypeOK, CapsInv, [Next]_vars
    PROVE  CapsInv'
  <1> SUFFICES ASSUME NEW q \in Pollers, ~proc'[q].caps PROVE PlainPoller(q)'
    BY CapsParts DEF CapsInv
  <1>1. PlainPoller(q) /\ ~proc[q].caps
    BY CapsGrow, CapsParts DEF CapsInv
  <1>2. CASE UNCHANGED <<registry, sweep, outbox, assign, ws, beats>>
    BY <1>1, <1>2, PlainFrame
  <1>3. ASSUME NEW n, NEW spec, Edit(n, spec) PROVE PlainPoller(q)'
    BY <1>2, <1>3 DEF Edit, core, procs, bus
  <1>4. ASSUME NEW p \in Pollers, RequestLost(p) PROVE PlainPoller(q)'
    BY <1>2, <1>4 DEF RequestLost, core, procs
  <1>5. ASSUME NEW p \in Pollers, NEW caps, Start(p, caps) PROVE PlainPoller(q)'
    BY <1>2, <1>5 DEF Start, core
  <1>6. CASE UNCHANGED vars
    BY <1>2, <1>6 DEF vars, core, procs, bus
  <1>7. ASSUME NEW p \in Pollers, PollerStep(p) PROVE PlainPoller(q)'
    BY <1>1, <1>4, <1>5, <1>7, PlainStreams, PlainProcess DEF PollerStep
  <1> QED  BY <1>1, <1>3, <1>6, <1>7, PlainSweep DEF Next

LEMMA CapsInit == Init => CapsInv
  <1> SUFFICES ASSUME Init, NEW q \in Pollers PROVE CapsOK(q)
    BY DEF CapsInv
  <1>1. /\ ~registry[q].caps /\ beats[q] = << >> /\ outbox[q] = << >> /\ assign[q] = << >>
        /\ ws[q] = NewWorkingSet /\ sweep.targets[q] = EmptyShare
    BY DEF Init, NoEntry, NoSweep
  <1> QED  BY <1>1, PlainEmpty, PlainNew DEF CapsOK, PlainSet

(* Phase 2 of reconcile_pool withholds what a poller's build cannot honour  *)
(* by the capabilities of its last heartbeat, which may be long out of date *)
(* when the share built from them is applied.  As long as a poller is never *)
(* put back on an older build, no running poller is ever given a check it   *)
(* lacks the capability for, whatever is lost, delayed, restarted or        *)
(* upgraded meanwhile, and whether or not goodbyes are awaited.             *)
THEOREM CapabilitiesHeld == ASSUME ~Downgrades PROVE Spec => []CapsRespected
  <1>1. TypeOK /\ CapsInv => CapsRespected
    BY DEF CapsInv, CapsOK, CapsRespected, Plain
  <1>2. Init => TypeOK /\ CapsInv
    BY InitType, CapsInit
  <1>3. TypeOK /\ CapsInv /\ [Next]_vars => (TypeOK /\ CapsInv)'
    BY NextType, CapsStep
  <1> QED  BY <1>1, <1>2, <1>3, PTL DEF Spec
=============================================================================
