------------------------------ MODULE FleetSync -----------------------------
(***************************************************************************)
(* Working-set distribution for one poller pool: core's coordinator and    *)
(* sweep on one side, the pollers on the other, a lossy bus in between.    *)
(*                                                                         *)
(*   core      crates/yagra-core/src/fleet/coordinator.rs, driven by       *)
(*             crates/yagra-core/src/scheduler/sweep.rs                    *)
(*   poller    crates/yagra-poller/src/assignment.rs, working_set.rs and   *)
(*             heartbeat.rs                                                *)
(*   bus       core NATS: per subject first-in first-out, at most once,    *)
(*             nothing is kept for a subject nobody is subscribed to       *)
(*                                                                         *)
(* Time is abstracted: a poller that is known may at any moment be found   *)
(* not to have been heard from for OFFLINE_AFTER (Lapse), a beat may be    *)
(* sent and the sweep may start at any moment.  wake_sweep only makes the  *)
(* sweep start earlier and therefore has no state here.                    *)
(***************************************************************************)
EXTENDS HashRing, WorkingSet, Coordinator

CONSTANTS
    Nobody,          \* no owner in the assignment mirror
    Budget,          \* how often each disturbance may happen: [Kinds -> Nat]
    MaxSeq,          \* bound on the sequence numbers of one core process
    MaxQueue,        \* bound on the beats, and on the requests, in flight
    LeaveSettled,    \* a poller that said goodbye is started again only once
                     \* core has consumed the goodbye and sent what it had built
    Builds,          \* does a build have the capability: the builds there are
    Downgrades,      \* a poller may be restarted on a build with fewer caps
    Prompt           \* messages are faster than the beat and sweep periods

Kinds == {"edit", "loss", "lapse", "crash", "leave", "core"}

ASSUME SyncAssumption ==
    /\ Nobody \notin Pollers
    /\ Budget \in [Kinds -> Nat]
    /\ MaxSeq \in Nat
    /\ MaxQueue \in Nat
    /\ LeaveSettled \in BOOLEAN
    /\ Builds \subseteq BOOLEAN
    /\ Downgrades \in BOOLEAN
    /\ Prompt \in BOOLEAN

VARIABLES
    desired,     \* Share: the nodes of the pool and their spec lists (PostgreSQL)
    (* core process *)
    epoch,       \* Coordinator::epoch
    registry,    \* CoordState::pollers
    published,   \* CoordState::published
    sweep,       \* the reconcile_pool call in progress
    outbox,      \* to_send, per poller
    (* Redis *)
    mirror,      \* yagra:assign:{pool}: node -> poller
    (* poller processes *)
    proc,        \* is it up, which incarnation, its capabilities
    ws,          \* its WorkingSet
    (* bus *)
    assign,      \* yagra.poller.assign.{id}, as buffered for its subscriber
    beats,       \* the heartbeat stream, per poller
    reqs,        \* the sync-request stream, per poller
    (* auxiliary *)
    budget,      \* disturbances left
    sent         \* history: the share each sequence number stood for

core  == <<epoch, registry, published, sweep, outbox, sent>>
procs == <<proc, ws>>
bus   == <<assign, beats, reqs>>
vars  == <<desired, core, mirror, procs, bus, budget>>

-----------------------------------------------------------------------------
Phases == {"idle", "planned", "publishing"}

Sweep == [phase : Phases, members : SUBSET Pollers,
          targets : [Pollers -> Share], sending : BOOLEAN]

NoSweep == [phase |-> "idle", members |-> {},
            targets |-> [p \in Pollers |-> EmptyShare], sending |-> FALSE]

Process == [up : BOOLEAN, inc : Nat, caps : BOOLEAN]

(* Types of core's registry, the bus and the pollers' sets.                 *)
TypeOK ==
    /\ desired \in [Nodes -> Specs \cup {Absent}]
    /\ epoch \in Nat \ {NoEpoch}
    /\ registry \in [Pollers -> PollerEntry]
    /\ published \in [Pollers -> Share]
    /\ sweep \in Sweep
    /\ outbox \in [Pollers -> Seq(SyncMsg)]
    /\ mirror \in [Nodes -> Pollers \cup {Nobody}]
    /\ proc \in [Pollers -> Process]
    /\ ws \in [Pollers -> WorkingSetState]
    /\ assign \in [Pollers -> Seq(SyncMsg)]
    /\ beats \in [Pollers -> Seq(HeartbeatMsg)]
    /\ reqs \in [Pollers -> Seq(Nat)]
    /\ budget \in [Kinds -> Nat]
    /\ sent \in [Pollers -> Seq(Share)]

Init ==
    /\ desired \in [Nodes -> Specs \cup {Absent}]
    /\ epoch = 1
    /\ registry = [p \in Pollers |-> NoEntry]
    /\ published = [p \in Pollers |-> EmptyShare]
    /\ sweep = NoSweep
    /\ outbox = [p \in Pollers |-> << >>]
    /\ mirror = [n \in Nodes |-> Nobody]
    /\ proc = [p \in Pollers |-> [up |-> FALSE, inc |-> 0, caps |-> FALSE]]
    /\ ws = [p \in Pollers |-> NewWorkingSet]
    /\ assign = [p \in Pollers |-> << >>]
    /\ beats = [p \in Pollers |-> << >>]
    /\ reqs = [p \in Pollers |-> << >>]
    /\ budget = Budget
    /\ sent = [p \in Pollers |-> << >>]

Spend(kind) ==
    /\ budget[kind] > 0
    /\ budget' = [budget EXCEPT ![kind] = @ - 1]

-----------------------------------------------------------------------------
(* Core: the sweep.                                                         *)

(* An operator changes what a node is monitored with.                       *)
Edit(n, spec) ==
    /\ desired[n] # spec
    /\ Spend("edit")
    /\ desired' = [desired EXCEPT ![n] = spec]
    /\ UNCHANGED <<core, mirror, procs, bus>>

(* Mutant: every registered poller counts, heard from lately or not.        *)
LiveMembersUnfiltered == {p \in Pollers : registry[p].known}

LiveMembers == {p \in Pollers : registry[p].known /\ registry[p].live}

TargetFor(members, p) ==
    [n \in Nodes |-> IF desired[n] # Absent /\ Assign(members, n) = p
                     THEN Kept(desired[n], registry[p].caps) ELSE Absent]

(* Phases 1 and 2 of reconcile_pool: read the live members and their        *)
(* capabilities, assign and filter.  With no live member it returns.        *)
Plan ==
    /\ sweep.phase = "idle"
    /\ LiveMembers # {}
    /\ \A p \in LiveMembers : registry[p].seq < MaxSeq
    /\ Prompt => \A p \in Pollers : beats[p] = << >> /\ reqs[p] = << >>
    /\ sweep' = [phase |-> "planned", members |-> LiveMembers,
                 targets |-> [p \in Pollers |->
                     IF p \in LiveMembers THEN TargetFor(LiveMembers, p)
                     ELSE EmptyShare],
                 sending |-> FALSE]
    /\ UNCHANGED <<desired, epoch, registry, published, outbox, sent,
                   mirror, procs, bus, budget>>

(* Phase 3: the lock is taken again and every planned member that still has *)
(* an entry is diffed against its baseline.                                 *)
Sends(p) ==
    p \in sweep.members /\ MustSend(registry[p], published[p], sweep.targets[p])

(* Mutant: the baseline is advanced by deltas but not by snapshots.         *)
CommitNoBaseline ==
    /\ sweep.phase = "planned"
    /\ registry' = [p \in Pollers |->
           IF Sends(p) THEN AfterSend(registry[p]) ELSE registry[p]]
    /\ published' = [p \in Pollers |->
           IF Sends(p) /\ ~UseSnapshot(registry[p], published[p], sweep.targets[p])
           THEN sweep.targets[p] ELSE published[p]]
    /\ outbox' = [p \in Pollers |->
           IF Sends(p)
           THEN SyncMessagesFor(registry[p], epoch, published[p], sweep.targets[p])
           ELSE << >>]
    /\ sent' = [p \in Pollers |->
           IF Sends(p) THEN Append(sent[p], sweep.targets[p]) ELSE sent[p]]
    /\ sweep' = [sweep EXCEPT !.phase = "publishing",
                              !.sending = \E p \in Pollers : Sends(p)]
    /\ UNCHANGED <<desired, epoch, mirror, procs, bus, budget>>

Commit ==
    /\ sweep.phase = "planned"
    /\ registry' = [p \in Pollers |->
           IF Sends(p) THEN AfterSend(registry[p]) ELSE registry[p]]
    /\ published' = [p \in Pollers |->
           IF Sends(p) THEN sweep.targets[p] ELSE published[p]]
    /\ outbox' = [p \in Pollers |->
           IF Sends(p)
           THEN SyncMessagesFor(registry[p], epoch, published[p], sweep.targets[p])
           ELSE << >>]
    /\ sent' = [p \in Pollers |->
           IF Sends(p) THEN Append(sent[p], sweep.targets[p]) ELSE sent[p]]
    /\ sweep' = [sweep EXCEPT !.phase = "publishing",
                              !.sending = \E p \in Pollers : Sends(p)]
    /\ UNCHANGED <<desired, epoch, mirror, procs, bus, budget>>

(* The publish loop hands the next message to the bus.  Nobody subscribed,  *)
(* a failed publish (logged only) and a message lost on the way are one and *)
(* the same: the poller never sees it.                                      *)
NextToPublish(p) ==
    /\ sweep.phase = "publishing"
    /\ outbox[p] # << >>
    /\ \A q \in Pollers : q < p => outbox[q] = << >>

Publish(p) ==
    /\ NextToPublish(p)
    /\ outbox' = [outbox EXCEPT ![p] = Tail(@)]
    /\ assign' = IF proc[p].up
                 THEN [assign EXCEPT ![p] = Append(@, Head(outbox[p]))]
                 ELSE assign
    /\ UNCHANGED <<desired, epoch, registry, published, sweep, sent, mirror,
                   procs, beats, reqs, budget>>

PublishLost(p) ==
    /\ NextToPublish(p)
    /\ Spend("loss")
    /\ outbox' = [outbox EXCEPT ![p] = Tail(@)]
    /\ UNCHANGED <<desired, epoch, registry, published, sweep, sent, mirror,
                   procs, bus>>

(* The owner of each node in the sweep's targets.                           *)
AssignMap(s) ==
    [n \in Nodes |->
        IF \E p \in s.members : s.targets[p][n] # Absent
        THEN CHOOSE p \in s.members : s.targets[p][n] # Absent
        ELSE Nobody]

(* The call ends; the Redis mirror is rewritten if anything was sent.       *)
Finish ==
    /\ sweep.phase = "publishing"
    /\ \A p \in Pollers : outbox[p] = << >>
    /\ mirror' = IF sweep.sending THEN AssignMap(sweep) ELSE mirror
    /\ sweep' = NoSweep
    /\ UNCHANGED <<desired, epoch, registry, published, outbox, sent,
                   procs, bus, budget>>

-----------------------------------------------------------------------------
(* Core: the two stream consumers.                                          *)

(* A goodbye drops the entry and the baseline, whichever process sent it.   *)
ObserveLeaving(p) ==
    /\ beats[p] # << >>
    /\ Head(beats[p]).leaving
    /\ beats' = [beats EXCEPT ![p] = Tail(@)]
    /\ registry' = [registry EXCEPT ![p] = NoEntry]
    /\ published' = [published EXCEPT ![p] = EmptyShare]
    /\ sent' = [sent EXCEPT ![p] = << >>]
    /\ UNCHANGED <<desired, epoch, sweep, outbox, mirror, procs, assign, reqs,
                   budget>>

ObserveBeat(p) ==
    /\ beats[p] # << >>
    /\ ~Head(beats[p]).leaving
    /\ beats' = [beats EXCEPT ![p] = Tail(@)]
    /\ registry' = [registry EXCEPT ![p] =
                       ObserveHeartbeat(@, Head(beats[p]), epoch)]
    /\ UNCHANGED <<desired, epoch, published, sweep, outbox, sent, mirror,
                   procs, assign, reqs, budget>>

ObserveRequest(p) ==
    /\ reqs[p] # << >>
    /\ reqs' = [reqs EXCEPT ![p] = Tail(@)]
    /\ registry' = [registry EXCEPT ![p] = ObserveSyncRequest(@, Head(reqs[p]))]
    /\ UNCHANGED <<desired, epoch, published, sweep, outbox, sent, mirror,
                   procs, assign, beats, budget>>

(* A request is lost (its publish failed, or core was not listening).       *)
RequestLost(p) ==
    /\ reqs[p] # << >>
    /\ Spend("loss")
    /\ reqs' = [reqs EXCEPT ![p] = Tail(@)]
    /\ UNCHANGED <<desired, core, mirror, procs, assign, beats>>

(* Nothing has been heard from p for OFFLINE_AFTER.  With prompt messages   *)
(* an up poller lapses only when it is cut off, which is a disturbance.     *)
Lapse(p) ==
    /\ registry[p].known /\ registry[p].live
    /\ proc[p].up
    /\ Spend("lapse")
    /\ registry' = [registry EXCEPT ![p].live = FALSE]
    /\ UNCHANGED <<desired, epoch, published, sweep, outbox, sent, mirror,
                   procs, bus>>

LapseDown(p) ==
    /\ registry[p].known /\ registry[p].live
    /\ ~proc[p].up
    /\ registry' = [registry EXCEPT ![p].live = FALSE]
    /\ UNCHANGED <<desired, epoch, published, sweep, outbox, sent, mirror,
                   procs, bus, budget>>

(* Mutant: the replacement goes on with the epoch of the process it replaces. *)
CoreRestartSameEpoch ==
    /\ Spend("core")
    /\ registry' = [p \in Pollers |-> NoEntry]
    /\ published' = [p \in Pollers |-> EmptyShare]
    /\ sweep' = NoSweep
    /\ outbox' = [p \in Pollers |-> << >>]
    /\ sent' = [p \in Pollers |-> << >>]
    /\ beats' = [p \in Pollers |-> << >>]
    /\ reqs' = [p \in Pollers |-> << >>]
    /\ UNCHANGED <<desired, epoch, mirror, procs, assign>>

(* The core process is replaced: a fresh epoch and an empty coordinator.    *)
(* What it had buffered from its subscriptions is gone; what it had already *)
(* handed to the bus still reaches the pollers.                             *)
CoreRestart ==
    /\ Spend("core")
    /\ epoch' = epoch + 1
    /\ registry' = [p \in Pollers |-> NoEntry]
    /\ published' = [p \in Pollers |-> EmptyShare]
    /\ sweep' = NoSweep
    /\ outbox' = [p \in Pollers |-> << >>]
    /\ sent' = [p \in Pollers |-> << >>]
    /\ beats' = [p \in Pollers |-> << >>]
    /\ reqs' = [p \in Pollers |-> << >>]
    /\ UNCHANGED <<desired, mirror, procs, assign>>

-----------------------------------------------------------------------------
(* Pollers.                                                                 *)

(* run_sync_loop takes the next message; a gap asks core for a snapshot.    *)
Deliver(p) ==
    LET result == Apply(ws[p], Head(assign[p]))
    IN  /\ proc[p].up
        /\ assign[p] # << >>
        /\ result.outcome = "NeedSync" => Len(reqs[p]) < MaxQueue
        /\ assign' = [assign EXCEPT ![p] = Tail(@)]
        /\ ws' = [ws EXCEPT ![p] = result.ws]
        /\ reqs' = IF result.outcome = "NeedSync"
                   THEN [reqs EXCEPT ![p] = Append(@, proc[p].inc)]
                   ELSE reqs
        /\ UNCHANGED <<desired, core, mirror, proc, beats, budget>>

BeatOf(p, leaving) ==
    [inc |-> proc[p].inc, epoch |-> ws[p].epoch, lastSeq |-> ws[p].lastSeq,
     caps |-> proc[p].caps, leaving |-> leaving]

(* The periodic heartbeat.  A lost beat is one that was not sent.           *)
Beat(p) ==
    /\ proc[p].up
    /\ Len(beats[p]) < MaxQueue
    /\ Prompt => /\ sweep.phase = "idle"
                 /\ assign[p] = << >>
                 /\ \A q \in Pollers : beats[q] = << >>
    /\ beats' = [beats EXCEPT ![p] = Append(@, BeatOf(p, FALSE))]
    /\ UNCHANGED <<desired, core, mirror, procs, assign, reqs, budget>>

(* The process is gone, and its subscription with it.                       *)
Stopped(p) ==
    /\ proc' = [proc EXCEPT ![p].up = FALSE]
    /\ ws' = [ws EXCEPT ![p] = NewWorkingSet]
    /\ assign' = [assign EXCEPT ![p] = << >>]

Crash(p) ==
    /\ proc[p].up
    /\ Spend("crash")
    /\ Stopped(p)
    /\ UNCHANGED <<desired, core, mirror, beats, reqs>>

(* SIGTERM: one last beat says goodbye.                                     *)
Leave(p) ==
    /\ proc[p].up
    /\ Spend("leave")
    /\ Len(beats[p]) < MaxQueue
    /\ beats' = [beats EXCEPT ![p] = Append(@, BeatOf(p, TRUE))]
    /\ Stopped(p)
    /\ UNCHANGED <<desired, core, mirror, reqs>>

(* Core has consumed p's goodbye, and nothing it built for the registration *)
(* the goodbye ended is still waiting to be published.                      *)
Settled(p) ==
    /\ \A i \in DOMAIN beats[p] : ~beats[p][i].leaving
    /\ \A i \in DOMAIN outbox[p] : outbox[p][i].seq =< registry[p].seq

(* assignment::start: subscribe, then ask for a snapshot.                   *)
Start(p, caps) ==
    /\ ~proc[p].up
    /\ Len(reqs[p]) < MaxQueue
    /\ LeaveSettled => Settled(p)
    /\ ~Downgrades => (proc[p].caps => caps)
    /\ proc' = [proc EXCEPT ![p] = [up |-> TRUE, inc |-> @.inc + 1, caps |-> caps]]
    /\ reqs' = [reqs EXCEPT ![p] = Append(@, proc[p].inc + 1)]
    /\ UNCHANGED <<desired, core, mirror, ws, assign, beats, budget>>

-----------------------------------------------------------------------------
PollerStep(p) ==
    \/ Publish(p) \/ PublishLost(p)
    \/ ObserveLeaving(p) \/ ObserveBeat(p) \/ ObserveRequest(p) \/ RequestLost(p)
    \/ Lapse(p) \/ LapseDown(p)
    \/ Deliver(p) \/ Beat(p) \/ Crash(p) \/ Leave(p)
    \/ \E caps \in Builds : Start(p, caps)

Next ==
    \/ \E n \in Nodes : \E spec \in Specs \cup {Absent} : Edit(n, spec)
    \/ Plan \/ Commit \/ Finish \/ CoreRestart
    \/ \E p \in Pollers : PollerStep(p)

Spec == Init /\ [][Next]_vars

(* Fairness.  Every loop of core and of a poller is driven by a timer or by *)
(* its own stream and blocks on nothing but its input, so each step that    *)
(* stays possible happens.  The sweep and the beat are periodic: what       *)
(* postpones them under Prompt is a message in flight, which passes, hence  *)
(* strong fairness.  A poller that is down goes unheard and lapses.         *)
Fairness ==
    /\ SF_vars(Plan) /\ WF_vars(Commit) /\ WF_vars(Finish)
    /\ \A p \in Pollers :
        /\ WF_vars(Publish(p)) /\ WF_vars(Deliver(p)) /\ SF_vars(Beat(p))
        /\ WF_vars(ObserveLeaving(p)) /\ WF_vars(ObserveBeat(p))
        /\ WF_vars(ObserveRequest(p)) /\ WF_vars(LapseDown(p))

FairSpec == Spec /\ Fairness

-----------------------------------------------------------------------------
(* Safety.                                                                  *)

(* Core's only view of what a poller holds is the (epoch, last_seq) echo of *)
(* its heartbeat: as long as the echo matches what core has sent, core      *)
(* sends only deltas against its baseline and never resyncs.  So whenever   *)
(* an echo would match, the poller must hold exactly that baseline.         *)
SyncAgreement ==
    \A p \in Pollers :
        (/\ proc[p].up
         /\ registry[p].known
         /\ ws[p].epoch = epoch
         /\ ws[p].lastSeq = registry[p].seq)
        => ws[p].nodes = published[p]

(* A poller on the current epoch holds, as a whole, a share core decided at *)
(* one moment: never a mix of two snapshots, a snapshot with a chunk        *)
(* missing, or a delta applied to the wrong base.                           *)
HeldWasSent ==
    \A p \in Pollers :
        (proc[p].up /\ ws[p].epoch = epoch)
        => /\ ws[p].lastSeq \in DOMAIN sent[p]
           /\ ws[p].nodes = sent[p][ws[p].lastSeq]

(* "Withhold a spec its assigned poller cannot honour": no running poller   *)
(* holds a check whose capability its build lacks.                          *)
CapsRespected ==
    \A p \in Pollers : \A n \in Nodes :
        (proc[p].up /\ ws[p].nodes[n] \in CapSpecs) => proc[p].caps

(* "If this sweep sent nothing, the map is byte-for-byte what Redis already *)
(* holds": skipping the rewrite of the mirror is sound.                     *)
MirrorSkipSound ==
    [][(Finish /\ ~sweep.sending) => mirror = AssignMap(sweep)]_vars

-----------------------------------------------------------------------------
(* The inductive invariant behind SyncAgreement and HeldWasSent.  sent[p]   *)
(* ties the three places a share can be: core's baseline, messages and the  *)
(* poller's set, all numbered by the same sequence.                         *)

(* Core's books: a sequence number per committed share, the last of them    *)
(* the baseline, and a snapshot owed until there is one.                    *)
BaselineOK(p) ==
    /\ registry[p].seq = Len(sent[p])
    /\ sent[p] # << >> => published[p] = sent[p][Len(sent[p])]
    /\ ~registry[p].known => sent[p] = << >>
    /\ (registry[p].known /\ sent[p] = << >>) => registry[p].needs

(* What a message of the current epoch must carry.                          *)
ContentOK(p, m) ==
    IF m.kind = "chunk"
    THEN /\ m.total = ChunkTotal(sent[p][m.seq])
         /\ m.index \in 0..(m.total - 1)
         /\ m.nodes = ChunkPart(sent[p][m.seq], m.index)
    ELSE /\ m.seq > 1
         /\ m = Delta(epoch, m.seq, sent[p][m.seq - 1], sent[p][m.seq])

(* The goodbye empties sent[p] while messages of the registration it ended  *)
(* may still be waiting to be published; nobody is up to receive those.     *)
OutboxOK(p) ==
    /\ sweep.phase # "publishing" => outbox[p] = << >>
    /\ \A i \in DOMAIN outbox[p] :
        /\ outbox[p][i].epoch = epoch /\ outbox[p][i].seq > 0
        /\ outbox[p][i].seq \in DOMAIN sent[p] => ContentOK(p, outbox[p][i])
        /\ proc[p].up => outbox[p][i].seq \in DOMAIN sent[p]

AssignOK(p) ==
    /\ ~proc[p].up => assign[p] = << >>
    /\ \A i \in DOMAIN assign[p] :
        /\ assign[p][i].epoch =< epoch
        /\ assign[p][i].epoch = epoch
            => assign[p][i].seq \in DOMAIN sent[p] /\ ContentOK(p, assign[p][i])

WorkingSetOK(p) ==
    /\ ~proc[p].up => ws[p] = NewWorkingSet
    /\ ws[p].epoch =< epoch
    /\ ws[p].epoch = epoch
        => /\ ws[p].lastSeq \in DOMAIN sent[p]
           /\ ws[p].nodes = sent[p][ws[p].lastSeq]

PendingOK(p) ==
    LET pending == ws[p].pending
        share   == sent[p][pending.seq]
    IN  /\ pending.epoch =< epoch
        /\ pending.epoch = epoch
            => /\ pending.seq \in DOMAIN sent[p]
               /\ pending.total = ChunkTotal(share)
               /\ \A i \in DOMAIN pending.chunks :
                     /\ i \in 0..(pending.total - 1)
                     /\ pending.chunks[i] = ChunkPart(share, i)

(* A goodbye is consumed before its poller is up again.                     *)
GoodbyeOK(p) ==
    proc[p].up => \A i \in DOMAIN beats[p] : ~beats[p][i].leaving

SyncOK(p) ==
    /\ BaselineOK(p) /\ OutboxOK(p) /\ AssignOK(p)
    /\ WorkingSetOK(p) /\ PendingOK(p) /\ GoodbyeOK(p)

IInv == TypeOK /\ \A p \in Pollers : SyncOK(p)

(* The inductive invariant behind CapsRespected: while the build of p lacks *)
(* the capability, nothing core knows of p claims it and no share planned   *)
(* for, under way to or held by p needs it.                                 *)
Plain(share) == \A n \in Nodes : share[n] \notin CapSpecs
Carried(m)   == IF m.kind = "chunk" THEN m.nodes ELSE m.upserts

CapsOK(p) ==
    ~proc[p].caps =>
        /\ ~registry[p].caps
        /\ \A i \in DOMAIN beats[p] : ~beats[p][i].caps
        /\ Plain(sweep.targets[p])
        /\ \A i \in DOMAIN outbox[p] : Plain(Carried(outbox[p][i]))
        /\ \A i \in DOMAIN assign[p] : Plain(Carried(assign[p][i]))
        /\ Plain(ws[p].nodes)
        /\ \A i \in DOMAIN ws[p].pending.chunks : Plain(ws[p].pending.chunks[i])

CapsInv == \A p \in Pollers : CapsOK(p)

-----------------------------------------------------------------------------
(* Liveness.                                                                *)

Running == {p \in Pollers : proc[p].up}

(* What p should be polling, given who is running and on what build.        *)
FairShare(p) ==
    [n \in Nodes |-> IF desired[n] # Absent /\ Assign(Running, n) = p
                     THEN Kept(desired[n], proc[p].caps) ELSE Absent]

Converged ==
    /\ LiveMembers = Running
    /\ \A p \in Running : ws[p].nodes = FairShare(p)

(* Once pollers and core stop coming and going and nothing more is lost,    *)
(* every configured node is polled by exactly one running poller, its ring  *)
(* owner, with the specs configured for it; and this stays so.              *)
Converges == <>[]Converged
=============================================================================
