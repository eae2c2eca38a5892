# Yagra: a TLA+ verification project

Yagra is a network monitoring system. A **core** process (or a leader and its
standbys) keeps the inventory in PostgreSQL and decides which **poller** process
checks which node; pollers run the checks and send the results back over NATS.
This directory models the way of a check through the system: that every
configured node is polled by exactly the poller core thinks polls it, through
lost messages, restarts on both sides, failovers and configuration changes; that
the poller's scheduler and limiter get every check its turn; that a result survives
an outage of the bus; that what core concludes from it reaches the people on call
once, and is taken back when it is over; and that one core does all this at a time.

Source paths below are relative to `crates/`.

## 1. Inventory

| Component | State | Operations | Talks to | Hard behaviour |
|---|---|---|---|---|
| Fleet coordinator `yagra-core/src/fleet/coordinator.rs` | registry of pollers (incarnation, last seen, `seq`, `needs_snapshot`, capabilities), published baseline per poller, epoch | `observe_heartbeat`, `observe_sync_request`, `reconcile_pool`, `set_pool` | pollers over the bus, Redis mirror, sweep | two stream consumers and the sweep interleave around one mutex that `reconcile_pool` takes twice; publishes happen after the state was advanced |
| Hash ring `yagra-core/src/fleet/ring.rs` | none (pure) | `new`, `assign` | coordinator | hash ties, wrap, stability under churn |
| Sync protocol `yagra-bus/src/messages.rs` | none | snapshot chunks, deltas, heartbeat echo | coordinator, working set | reassembly, gaps, epochs |
| Poller working set `yagra-poller/src/working_set.rs` | nodes with specs, (epoch, last_seq), pending snapshot, timers | `apply`, `due` | `assignment.rs` | stale, duplicated, interleaved chunks |
| Poller loops `yagra-poller/src/assignment.rs`, `heartbeat.rs` | process identity | start, sync loop, beat, goodbye | bus | crash, SIGTERM, resubscription |
| Scheduler sweep `yagra-core/src/scheduler/sweep.rs`, `mod.rs` | sweep cache, folder map, legacy cadence | one round: cached, or rebuild and serve each pool | coordinator, PostgreSQL, configuration generation | reads of one round are not atomic; a pool is served one of three ways |
| Configuration generation `yagra-base/src/config_gen.rs` | a counter per process | `bump`, `current` | API middleware, sweep | the bump follows the commit |
| Volatile store `yagra-core/src/fleet/volatile.rs` | Redis: assignment mirror | `write_assignments` | coordinator | best effort |
| Leader election `yagra-core/src/runtime/leader.rs` | advisory lock, `is_leader` | acquire, hold, step down | PostgreSQL | the window between losing the lock and noticing |
| Poller scheduling `yagra-poller/src/timers.rs`, `limiter.rs`, `worker/` | per-interval heaps; admission slots, permits, targets in flight | `pop_best`; `acquire_admission`, `claim_then_permit`, `begin_global`, guard drop | working set | a lost timer, starvation, the race between peek and claim, a hung device |
| Alert engine `yagra-alert/src/`, grouping `yagra-topology/src/grouping.rs` | per check: dwell tracker, open alert, hold, release and side counters; committed liveness, down set, configuration | `process_check`, `reattribute`, `release_held`, `set_config`, `restore` | ingest, held and config tasks, sink | three tasks act between each other's locks, and alerts and held list have one each; a restart knows only what history kept |
| Alert sink, notifications `yagra-core/src/alerts/` | batch writer, delivery queue, dedup keys, sides | record, flush, queue, deliver | PostgreSQL, PagerDuty and other channels | order of a fire and its resolve, failed deliveries, dedup against what the far end shows |
| Store and forward `yagra-poller/src/store_forward.rs` | memory ring, segment files, writer, byte counts, free-space cache | `submit`, `enqueue`, spill, `drain_round`, `prepare_dir` | bus, file system | the drain publishes without the lock; crash with files on disk; bounds |
| Upgrades, relocation `yagra-ops/src/` | run state | prefetch, apply, wait | pollers | timeouts |
| Passive events, flows, forwarding, Meraki, NetBox, topology, API, transport, web UI | | | | data-heavy or I/O; see section 8 |

What makes each modelled component correct:

* **coordinator + working set**: core sees only the `(epoch, last_seq)` a poller
  echoes. So an echo that matches must mean that the poller holds core's
  baseline; what a poller holds must be a set core once decided as a whole; and
  once disturbances stop, every node must be held by its ring owner and no one
  else.
* **ring**: ownership is a function of the member set, and a change of members
  moves only nodes of members that changed.
* **sweep**: a cached round must serve the current configuration, and no pool may
  fall between the working-set path, the waiting state and the legacy path.
* **poll timers**: every spec is in the index under its own deadline, the choice
  among the tiers' roots is the choice a full walk would make, and under scarce
  slots every spec still gets its turn.
* **limiter**: a probe starts only with a permit and its device to itself, no permit
  is lost on the way, and a device that hangs holds up only itself.
* **store and forward**: a result is held, published or accounted for; ring and files
  stay bounded and in order; a restored link empties them.
* **alerts**: when nothing is in progress, the far end shows an incident exactly for
  the alerts that speak for themselves, and an outage rolled up under another node
  has that node speaking for it.
* **leader election**: only the holder of the lock works, except in the window the
  ping bounds, and the deployment does not stay without a leader.

## 2. Modules

| Module | Models | State and actions |
|---|---|---|
| `Fleet` | poller and node ids | constants shared by the others |
| `HashRing` | `ring.rs` | operators `Points`, `Clockwise`, `Assign`; hashes are parameters |
| `SyncMessages` | `messages.rs`, and how `reconcile_pool` cuts a snapshot and a delta | operators |
| `WorkingSet` | the sync half of `working_set.rs` | `Apply` and its parts map (set, message) to (set, outcome) |
| `Coordinator` | decisions of `coordinator.rs` about one poller | entry transformers and phase 3's choices |
| `FleetSync` | the whole: coordinator, sweep, bus, pollers, one pool | see below |
| `PoolSweep` | `run_scheduler` over all pools | see below |
| `PollTimers` | the timer half of `working_set.rs`, `timers.rs`, `run_local_scheduler` | see below |
| `ProbeSlots` | what the limiter promises | atomic `Begin`, `Finish`, `GiveUp` |
| `PollLimiter` | `limiter.rs` and the loop of `worker/stream.rs` | see below; implements `ProbeSlots` |
| `StoreForward` | `store_forward.rs` | see below |
| `AlertEngine` | `yagra-alert/src/engine.rs`, `hysteresis.rs`, `grouping.rs`, `alerts/config.rs`, `alerts/notify.rs`, ingest and restore | see below |
| `LeaderElection` | `runtime/leader.rs` | see below |
| `MCFleetSync`, `MCPoolSweep`, `MCPollTimers`, `MCPollLimiter`, `MCStoreForward`, `MCAlertEngine`, `MCLeaderElection` | | instances for TLC |
| `FleetOperatorProofs` (ring, working set, coordinator), `FleetSyncProofs`, `PoolSweepProofs`, `PollTimersProofs`, `PollLimiterProofs`, `StoreForwardProofs`, `AlertEngineProofs`, `LeaderElectionProofs` | | theorems |

`FleetSync` extends `HashRing`, `WorkingSet` and `Coordinator`. A working set is
a function from nodes to spec lists (`Absent` for nodes not held); a spec list is
one value, and of its content only "contains a check that needs a capability" is
kept. Its variables follow the code: `registry` and `published` are `CoordState`,
`sweep` and `outbox` are the locals of the `reconcile_pool` call in progress,
`ws` is each poller's `WorkingSet`, `assign`, `beats` and `reqs` are what is in
flight. The action boundaries are the code's lock and await boundaries:

* `Plan` (phases 1 and 2), `Commit` (phase 3, under the lock again), `Publish`
  once per message, `Finish` (mirror). Between any two of them a beat, a goodbye
  or a request may be observed. Messages go out grouped by poller in the order
  the code iterates its sorted members.
* `ObserveBeat`, `ObserveLeaving`, `ObserveRequest` are one consumer step each.
* `Deliver` is one turn of `run_sync_loop`, `Beat` one turn of the heartbeat
  loop, `Leave` its last, `Start` is `assignment::start`.
* `PublishLost`, `RequestLost`, `Lapse`, `LapseDown`, `Crash`, `CoreRestart` are
  the environment. The bus is core NATS: per subject in order, at most once,
  nothing kept for a subject without subscriber.

Time is abstracted away: any known poller may be found silent for
`OFFLINE_AFTER`. `wake_sweep` only makes a sweep earlier and has no state. The
history variable `sent[p]` records the share behind every sequence number of p's
registration; no guard reads it.

`PoolSweep` takes each `reconcile_pool` call as one step (what it leads to is the
subject of `FleetSync`), reduces a pool to one poller, and spreads the round over
the reads it makes: `BeginRebuild` (generation and liveness), `ReadFolders`
(`pool_rows`), `ListNodes` (`list_nodes` and the grouping), then one step per pool:
`ServeWorkingSet` (its specs are built from the configuration as it is then, nodes
without a spec are left out, and the pool is reconciled), `HoldBack` or `ServeLegacy`;
`EndRound` leaves the cache. `Write` and `Bump` are the two halves of an API call that
succeeds; `CallFails` is one that committed and does not answer with success, so that
nothing is bumped. A pool's liveness is one of four views (`never`, `live`, `recent`,
`quiet`), which is all `pool_mode` distinguishes.

`PollTimers` looks inside one poller, at what `FleetSync` leaves opaque. `nodes`
holds each node's specs in order with their deadlines, `timers` every key of the
index with the interval it is filed under, `call` the `due` in progress. `Adopt` is
an applied snapshot or delta from `reschedule` to `reindex`: a spec keeps the
deadline of the same copy of it, the others get the node's one random offset plus a
stagger by position, folded into their interval. `Ask`, `Pop` (once per job) and
`EndCall` are a call of `due`; they hold the mutex, so nothing interleaves, and
splitting the call lets a property speak of each choice. `Grain` units make a
millisecond: the heaps order by the exact deadline (`IsRoot`), while `later_first`
compares lateness in whole milliseconds (`Behind`). Deadlines are kept relative
to the present, so time passes without a bound (`Advance`, `Pause`). The random
offset is any number of its range; the missed-cycle counter feeds a metric only and
is left out; intervals are positive, as the API enforces (10 to 3600 s).

`PollLimiter` takes over where a due job leaves the channel. `Admit` is the loop's
wait for one of `Permits * Factor` spawn slots; a task then peeks at its device
(`PeekFree`, `PeekBusy`), queues for a permit in the semaphore's order
(`AcquirePermit`), and claims the device under the lock (`ClaimWins`,
`ClaimLoses`: the permit goes back). A job for a DNS, ICMP or Meraki check takes the
permit alone (`BeginGlobal`, `StartGlobal`). The guard's drop is two steps, the mark
(`DropGuard`) and then the permit (`DropPermit`), as its fields are dropped.
`ProbeSlots` is the promise: a probe starts in one atomic step when fewer than
`Permits` run and none of them is aimed at its device. The refinement maps everything
before the claim to "waiting", which is why a claim may not precede its permit. The
model assumes that no single-flight target is the sentinel address 0.0.0.0 of the
jobs without a device.

`StoreForward` numbers the results; a spilled line is one byte. `SubmitLive` and
`Enqueue` are `submit` on either side of the connection check; while the ring
overflows the poll loop holds the lock and spills (`Spill*`), dropping the oldest
segments over the cap (`DropOldestSegment`). The drain task takes the lock only to
pick a segment or a batch and to remove or put back what it could not send
(`PickSegment` .. `RemoveSegment`, `TakeBatch` .. `Rebuffer`), so everything else
interleaves with its publishes. A segment is its index entry together with its file;
a writer that still names a removed segment writes to an unlinked file. `fate` is a
history variable: where each result ended.

`AlertEngine` is one core's engine and everything a notification passes through.
Nodes carry a liveness check, some a threshold check with two sides. Three tasks
("ingest", "config", "held") call the engine. A call takes its locks one after the
other, and wherever another task can see or change something in between it is more
than one step:

* A liveness poll: `ObserveLiveness` is the sample, the published state, the down set
  and the decision, root cause and hold included (`call`); `Apply` opens or closes the
  alert; `Hold` and `Unhold` follow with the list of held checks, which has a lock of
  its own.
* `resweep_suppression` and `regroup`: `Look` reads the down set and the grouping,
  `Snap` the alerts to reconsider, `Reattribute` changes one of them, with an `Unhold`
  behind it when it was held.
* `release_held`: `HeldTick` takes the list, `HeldJudge` one check of it,
  `HeldRelease` asks again under the lock of the alerts, `Unhold` follows.
* `FirstRefresh`, `EditRefresh` and `CoverageRefresh` are the three ways a cycle of the
  refresh loop ends.
* What a call returned is handled one action at a time: `Record` (the poll path gives
  the row to the batch writer and goes on, or writes it itself when the channel is
  full; the other tasks write it and wait), `Send` (room in the delivery queue is waited
  for), `Deliver` (the single consumer with the dispatcher's dedup). `Flush` is the
  batch writer, at any moment after `Record`.

Sections that are merged commute with everything the other tasks do in between. The
dwell trackers, the published states, the down set and the counters of releases and
sides are written by the poll path alone, so the sections of `ObserveLiveness` that
touch only these can be moved together; a refresh between two reads of the
configuration in one decision changes one setting, and what the decision then sees is
what it would have seen wholly before or wholly after it. A threshold alert is never
touched by another task (`regroup` and `release_held` look at liveness alerts only),
which is why `ObserveReading` is one step. `HeldJudge` merges a look at the alert with
the question whether to wait: what it found is asked again in `HeldRelease`. History
orders the rows of a check by the time of their transition (`LATEST_TRANSITION_KEY`),
so an older row that the batch writer brings later changes nothing, and one waiting
row per check is enough.

`Restart` is a core that reads its open alerts back from history before it has a
configuration; the priming read may fail, and the rows not yet flushed are gone.
`Expire` is the passage of a wait's time. Two history variables say what the code does
not promise: `lost` holds the checks of which a crash, a failed delivery or the restore
dropped a notification, `excused` those two tasks were at at once, and those judged by
a configuration or a down set that was no longer in force when the judgement was
applied (section 5, items 8 to 13).

`LeaderElection` has the cores, the connection each asks over, and who holds the
advisory lock; `Ghost` is a dead session PostgreSQL has not ended yet. A probe (`Asks`)
and its answer (`ProbeWins`, `ProbeLoses`, `ProbeFails`) are two steps: a core told to
stop in between is `leaving` and may still win (`WinsLate`, `LosesLate`). A core that
loses its connection works on until its ping fails (`PingFails`), then shuts down and
is restarted (`Boot`) as a standby. A core asked to stop lets go of the lock while it is
still shutting down (`LetsGo`). The promotion (`WorkStarts`, `WorkFails`) is not pinged.

## 3. Properties

* `SyncAgreement` (FleetSync): whenever an echo would match, the poller holds
  exactly core's baseline. Core acts on nothing else, so a violation is a poller
  that silently polls the wrong set until something else changes.
* `HeldWasSent`: a poller on the current epoch holds precisely the share of the
  sequence number it echoes; never a mixture of snapshots or a delta on the wrong
  base.
* `CapsRespected`: no running poller holds a check its build cannot honour.
* `MirrorSkipSound`: the rewrite of the Redis mirror is skipped only when the
  mirror is already right.
* `Converges`: once disturbances stop, every configured node is held by its owner
  on the ring of the running pollers, and by no one else, for good.
* `CacheIsCurrent` (PoolSweep): a cache tagged with the current generation holds
  the current configuration, once every committed write has been followed by a bump.
* `NodesPolled`: every node is again and again either held by its pool's running
  poller or dispatched by the legacy path.
* `StaleSetsCleared`: a connected poller ends up with exactly its pool's nodes.
* `IndexMatches` (PollTimers): the index and what the running call has re-armed are
  exactly one key per spec, with the spec's deadline and interval.
* `RankedAsFullWalk`: no due spec the call has not served is later, as a fraction of its
  interval, than the one it takes; and none that is equally late has a smaller id,
  unless a deadline of its own tier in the same millisecond stands before it.
* `NoStarvation`: a spec that stays assigned is polled again and again, with one
  slot at a time and however often the set is resent.
* `SpacingKept`: two specs of a node with one interval never come to share a
  deadline.
* `SingleFlight`, `PermitsConserved` (PollLimiter): a mark belongs to exactly one
  running probe of its device; permits free and held are all there are, none is free
  while a task queues.
* `ImplementsSlots`: the limiter is a refinement of `ProbeSlots`.
* `EveryJobEnds`: every job but the hung device's own ends, and a job without a device
  is never given up.
* `Conserved` (StoreForward): every result is held or has one of the known ends;
  `NeverSilent` says the same without "written behind the drain's back".
* `SegmentsOrdered`, `RingOrdered`: numbers of segments are unique and ordered across
  restarts; the ring keeps arrival order through failed replays.
* `MemBounded`: the ring exceeds its limit by at most one batch that was put back, and
  by the one result `enqueue` is about to spill; `DiskBounded`: the files take no more
  than the cap, or one segment, and one line for each process that ended between a
  write and the drop it called for; `Drains`: a link that stays up empties both.
* `NoMissedPage`, `NoStrandedIncident` (AlertEngine): when all tasks are idle and the
  queue is empty, an alert that speaks for itself has its incident open with the right
  side, and an open incident has such an alert.
* `RollupsCurrent`, `SpokenFor`: roll-ups are those of the nodes down now; a rolled-up
  outage names a node with an open alert that is not rolled up itself.
* `HeldIsBorder`: the list of held checks and the marks on the alerts agree, but for a
  check whose alert has been changed and its place on the list not yet, and one two
  tasks have met at; what is held is an outage that is not rolled up. `HeldIsUnsaid`: it
  was neither sent nor recorded, nor does a row of it wait to be. `HeldEnds`: nothing
  stays on the list for ever, races included. `HoldNeverForgotten`: what is marked is
  on the list.
* `OutageKeepsItsAlert`: no step, a restart included, closes the alert of an outage
  that goes on while its rule exists.
* `NeverDangling`: an open incident belongs to a check with an open alert.
* `WorkIsBacked`, `SplitBrainEnds`, `SomeoneLeads` (LeaderElection): a core at work
  over a live connection holds the lock; two cores at work do not stay two; some core
  leads again and again.

Every property of a passing run has a mutant: an operator beside the definition
it replaces, introduced as a mutant or as a wrong form of it, that changes the code's behaviour the way a
plausible slip would and that makes the property fail.

## 4. Runs

| Run | Checks | Result |
|---|---|---|
| `fleet_exit` | `TypeOK`, `HeldWasSent`, `SyncAgreement`, `CapsRespected` with goodbye, crash, loss, edit, newer builds | holds |
| `fleet_failover` | `Converges`, two pollers, crash and outage | holds |
| `fleet_resync` | `HeldWasSent`, `SyncAgreement`, `Converges` with losses, outage, edit, new core | holds |
| `pool_cache` | `TypeOK`, `CacheIsCurrent` with writes at any moment and a call that fails after its commit | holds (6.5 million) |
| `pool_outage` | `NodesPolled` | holds (1.6 million) |
| `poll_timers` | `TypeOK`, `IndexMatches`, `RankedAsFullWalk`, `NoStarvation` | holds (239,585) |
| `poll_limiter` | `TypeOK`, `SingleFlight`, `PermitsConserved`, `ImplementsSlots`, `EveryJobEnds` with a hung device | holds (62,015 states) |
| `store_forward` | `TypeOK`, `Conserved`, `SegmentsOrdered`, `RingOrdered`, `MemBounded`, `DiskBounded`, `Drains` with three outages, restart, failures | holds (1,085,660) |
| `alert_faults` | `TypeOK`, `NoMissedPage`, `NoStrandedIncident`, `RollupsCurrent`, `OutageKeepsItsAlert` with one fault of any kind | holds (1,508,930) |
| `alert_hold` | `HeldIsBorder`, `HeldIsUnsaid`, `SpokenFor`, `HeldEnds` with waiting switched or alerting paused | holds (127,782) |
| `alert_dangling` | `NeverDangling` with a check that has two severities, no fault | **violated** |
| `leader` | `TypeOK`, `WorkIsBacked`, `SplitBrainEnds`, `SomeoneLeads` with cuts, crash, stop, failed promotion | holds (100,460) |

**Bounds.** Disturbances are counted down from `Budget`; everything else is free.
Two nodes with `ChunkNodes = 1` make snapshots of zero, one and two nodes, so a
group can be incomplete, interleaved and superseded, and a change of one node of
two is a delta while a change of both is a snapshot. `MaxSeq = 3` in the safety
runs leaves a snapshot, a delta and a resync in one registration; in the liveness
runs it is above what the budget can spend, so it never blocks. `MaxQueue = 1`
bounds beats and requests in flight per poller: a second beat carries no
information the first lacks unless the poller's state changed in between, and
losing beats is already covered. One poller is enough for the safety properties,
which speak of one poller and its core; the ring needs two (`fleet_failover`). `MaxGen = 2` allows two configuration changes per core process,
one of which can hit each gap between the reads of a round. The fleet and pool
runs disable deadlock checking: with budgets spent and `MaxSeq` reached the bounded
system stops. `poll_timers` has intervals of two and six units on two nodes, so four
specs compete for one or two slots in two tiers; the lists grow, shrink, swap their
order and hold a spec twice, and two changes and one unit of suspension may fall at
any moment. `Grain = 2` makes a unit half a millisecond, so deadlines of one
millisecond differ. It has no other bound.

`poll_limiter` has five jobs, two for each of two devices and one without, two
permits and four spawn slots: two jobs of a device race for it, a lost claim finds a
queue for its permit, and the hung probe of the first device leaves one permit to
everyone else. `store_forward` has a ring of one, segments and a cap of two lines
and batches of two, so four results already rotate, overflow the cap and leave a tail
to put back; three outages are needed for the ring to reach its bound (a batch put back
twice with a result arriving in between); the free space read is none or plenty. `alert_faults` and `alert_hold`
have two linked nodes, which is enough for a border, a speaker and a rolled-up node
and for both to change roles; a dwell of two keeps "failing and not committed" apart
from "down"; a queue of one makes every sender wait. `Budget` says how often each
fault may happen and `MaxFaults` how many kinds one behaviour may mix: with one, each
fault meets every state of the engine, and two different faults are not combined.
`Edits` and `RuleEdits` name what an operator may edit: the grouping level and the rule
of the node that speaks, or waiting. `RowsMax = 1` gives the batch writer room for one
row, so that rows are batched and written inline; without it (`alert_hold`) every row is
written inline. "late" and "again" bound how often a check may still change its state
once two tasks have met at some check, and after a restart: what follows a race is
followed until it is quiet again, and after a restart through one further change. The
threshold check has one severity in these runs, because two leave an incident behind
without any fault (`alert_dangling`). `leader` has three cores, so that a standby can
win while two others are losing, and three cuts. Its run checks for deadlock:
the election never stops.

**Fairness.** `FleetSync`: the sync loop, the consumers, the publish loop and the
rest of a `reconcile_pool` block on nothing but their own input, hence weak
fairness. The sweep and the beat are periodic; in the liveness runs `Prompt`
lets them start only when messages of the previous period have been handled
(periods of 10 s and more against message latencies), and since such messages
come and go they get strong fairness. A poller that is down lapses. Nothing is
assumed about losses, edits, crashes, restarts of core or pollers being started:
those are bounded by the budget, or may never happen. `PoolSweep`: the sweep goes
on, its reads return (a failing read is a separate, bounded step), time passes
(`Mature`, `Elapse`, `Lapse`), beats of a connected poller arrive, an API call
runs to its end. Starting a poller and healing a connection are not fair.
`PollTimers`: the scheduler asks once per tick, a call ends, and time passes; since a
call interrupts time, time gets strong fairness. A unit passes with specs due only if
a slot was used in it: probes end or time out, so even a saturated worker frees
slots. Adoptions are not fair.
`PollLimiter`: tasks run, the 50 ms tick lets a waiting one look again, deadlines
pass, and a probe ends within its timeouts unless it is one of `Hung`.
`StoreForward`: the spill loop and the drain task go on; nothing makes the link come
back, `Drains` speaks of behaviours in which it does. `AlertEngine`: the tasks and the
consumer go on, time passes, and a pause has an end. `Send` gets strong fairness: the
queue is full again and again, and tokio serves waiting senders in order. Polls, the
batch writer, edits and windows are not fair. `LeaderElection`: the orchestrator restarts a core, a
standby asks every five seconds, a leader pings every five seconds, a shutdown ends,
and PostgreSQL ends a session whose client is gone.

## 5. Where the code and its promises part

One disagreement is a run of the project:

* **`alert_dangling`**. `DedupKey` holds the check and the severity. A check that goes
  from warning to critical fires under a second key, and the resolve that follows
  names only that one: the warning's incident stays open at the far end with no alert
  behind it. `dispatch_resolve` promises "a remote incident is never left dangling
  open", and `refresh_breached_side` says the key is unchanged by an escalation.

The others can be had by a change of a configuration, or of the exemption in a
property, named in brackets.

1. A **goodbye** drops the registry entry whoever sent it, so the sequence restarts
   at 0 *in the same epoch*. If the successor process has registered and been synced
   before core consumes its predecessor's goodbye, its `(epoch, k)` belongs to a
   registration that no longer exists. Core's new sequence meets `k` again with
   another set, and the echo matches. The entry's documentation calls `seq` monotonic
   over the core process, which is what the protocol needs and the goodbye breaks.
   Comparing the goodbye's incarnation with the entry's would close it.
   [`FleetSyncExit.cfg` with `LeaveSettled = FALSE`, `Budget <- GoodbyeBudget`:
   `SyncAgreement`]
2. **Downgrade**: `observe_sync_request` keeps the capabilities of the last beat, so a
   poller restarted on an older build is sent checks it cannot honour until its first
   beat, the case the withholding exists for. [`FleetSyncExit.cfg` with
   `Downgrades = TRUE`, `Budget <- RebuildBudget`: `CapsRespected`]
3. **Mirror**: "nothing was sent" does not imply "ownership did not change": a lapsed
   poller keeps its baseline, and when its nodes come back to it the diff is empty.
   [`FleetSyncFailover.cfg` with `Budget <- OutageBudget`: `MirrorSkipSound`]
4. **Rejoin**: the sweep's cache is reused while its pools are live; a pool that is
   live but not cached is not noticed. A poller that was cut off when its pool lost
   its last node keeps polling it after it returns. [`PoolSweepOutage.cfg` with
   `Budget <- RejoinBudget`: `StaleSetsCleared`]
5. **Failed read**: after a failed folder read the last map is used, and the result is
   cached under the generation it did not see: "stale for one round" becomes stale
   until the next change. [`PoolSweepCache.cfg` with `Budget <- ReadFailBudget`:
   `CacheIsCurrent`]
6. **Stagger**: a spec more than an interval late is re-anchored to now plus its
   interval. When one call finds two specs of a node that late, both land on the same
   instant and stay in phase, which is the collision the stagger was introduced
   against. Stepping by whole intervals would keep it. [`PollTimers.cfg` with
   `JobSpecs = {fast, ping}`, `Lists <- PairLists`, `MaxPauses = 3`: `SpacingKept`]
7. **Writer**: when the drain removes a segment that the writer still has open, the
   writer is not reset. The next outage's spill goes to the unlinked file: the result
   is neither replayed nor counted as dropped, against "truncation is never silent",
   and its bytes stay in `disk_bytes`. [`StoreForward.cfg` with `Budget <- CutBudget`:
   `NeverSilent`] Also: once the free-space floor has tripped, nothing is written and
   so nothing is probed again until a restart.
8. **Order of notifications**: the comment on the delivery worker says one consumer
   keeps a fire ahead of the resolve that follows it "whichever path produced each".
   The actions are computed under the engine's locks and queued after them, so a held
   task's fire and the ingest's resolve can be queued in the other order. Such checks
   are `excused`.
9. **Restore**: open alerts are restored before the configuration is primed, so an
   outage that was rolled up, or a check still releasing, comes back as one that
   speaks for itself; as its row is already written it is not paged again. And the poll
   path delivers without waiting for its row to be flushed: a crash in between leaves
   an open incident with no alert, or restores an alert whose incident is closed. Such
   checks are `lost`. If the priming fails and a node recovers before the next refresh,
   its transition is spent without closing the alert (`excused`).
10. **Rolled up under a silent node**: deleting the speaker's liveness rule closes its
    alert and the next regroup attributes the others to it all the same; a speaker that
    enters maintenance leaves its region rolled up until the window ends. `SpokenFor`
    is therefore stated for moments at which no node is published as in maintenance,
    and run and proved without edits of rules.
11. **Stale attribution**: a poll judges the root cause of its alert under the lock of
    the configuration and inserts the alert under another. A grouping change whose
    regroup falls in between does not see the alert, and the sweep of the poll itself
    leaves out its own node: the alert keeps the attribution of the old setting until
    the next flip. [`AlertFaults.cfg`: `RollupsCurrent` without `\ excused`]
12. **A late configuration**: a poll that found no configuration asks whether one is
    loaded only after it concluded that there is no rule. If the first refresh falls in
    between, the restored alert of an outage that goes on is closed, which is what the
    question is there to prevent. [`AlertFaults.cfg`: `OutageKeepsItsAlert` without
    `c \notin excused`]
13. **A forgotten hold**: the alert and its place on the held list change under two
    locks. `release_held` finds the alert gone; before it takes the check off the list
    the poll path may have closed, fired and held it again, and then it is the new hold
    that is removed. The alert is marked as held, no tick will look at it, and its page
    is not sent while the outage goes on. The same holds for the `unhold` after a release
    and after a roll-up. The other way round, an entry left on the list, against the
    comment on `unhold`, is removed at the next tick and harmless (`HeldEnds`).
    [`AlertHold.cfg` with `INVARIANT HoldNeverForgotten`]
14. **Whole milliseconds**: two deadlines of one tier in the same millisecond are equally
    late to `later_first`, whose tie goes to the smaller id, but the heap has the earlier
    one at its root. `pop_best` then differs from the walk it is documented to equal, by
    less than a millisecond. [`PollTimers.cfg`: `RankedAsFullWalk` without `Hidden`]
15. **A write without a bump**: the generation is bumped only when the call answers with
    success. A call that commits and then fails or is dropped changes the configuration
    without announcing it, and the cached sets stay as they were until the next change.
    [`PoolSweepCache.cfg`: `CacheIsCurrent` without `~unbumped`]
16. **Promotion**: the alerts are restored when a process starts, not when it is
    promoted, so a standby that waited starts leading with the open alerts of its own
    start. `AlertEngine.Restart` models a core that leads as soon as it is up. A core
    asked to stop while its probe is under way can still win the lock; it holds it only
    until its shutdown ends.
17. **Writes at a standby**: the configuration generation is per process, and the
    "periodic rebuild" its comment names as the backstop is not in the sweep.

## 6. Proofs

Everything below holds for every set of pollers, nodes, jobs and cores, every ring
placement, chunk size, budget and bound.

* `FleetOperatorProofs`: types of every operator; a delta applied to the share
  it was computed from yields the next share (`DeltaLeads`), and a complete set of
  a share's chunks flattens to that share (`FlattenWhole`).
* `FleetSyncProofs.TypeCorrect`: `Spec => []TypeOK`.
* `FleetSyncProofs.EchoIsSound`, `NoTornWorkingSet`: under `LeaveSettled` (a
  poller is restarted only once core has consumed its goodbye), `Spec =>
  []SyncAgreement` and `Spec => []HeldWasSent`. Neither is inductive. The
  invariant `IInv` follows a share along its way: `BaselineOK` (core's counter is
  the length of `sent`, its last entry the baseline, and the first message of a
  registration is a snapshot), `OutboxOK` and `AssignOK` (a message of the current
  epoch carries what `sent` says its number stands for), `PendingOK` (the chunks
  collected are chunks of the share of their group), `WorkingSetOK` (the set held
  is `sent` at `last_seq`), `GoodbyeOK` (no goodbye is pending for a running
  poller). The last conjunct is where `LeaveSettled` is used; section 5, item 1,
  shows it cannot be dropped. One lemma per action, with the frame lemmas `Frame*`
  for what an action leaves alone.
* `FleetSyncProofs.CapabilitiesHeld`: while no poller is restarted on an older build
  (`~Downgrades`), `Spec => []CapsRespected`, through `CapsInv`: while the build of a poller
  lacks the capability, no heartbeat on its way and nothing core has registered claims
  it, and no share planned for, on its way to or held by the poller needs it. Section 5, item 2, shows the hypothesis is needed.
* `FleetOperatorProofs.AssignsToMember`, `OnlyChangedMembersMove`: a non-empty ring
  assigns every node to a member, and between any two member sets a node moves
  only from a member that left or to one that joined. The first point of a finite
  set exists and is unique because the order breaks ties.
* `PoolSweepProofs.TypeCorrect`, `CacheSound`: `Spec => []CacheIsCurrent` when no
  read fails, through `CacheInv`: neither the cache's nor the round's generation
  is ahead of the counter, and with every write announced, a round that still carries
  the current generation has read the current folders and nodes, and built the current
  set of every pool it has gone through (`RoundIsCurrent`). Section 5, item 5, shows the
  hypothesis is needed.
* `PollTimersProofs.TypeCorrect`, `IndexSound`, `RankingSound`: for every assignment,
  interval, stagger and adoption rate. `IndexMatches` needs `CallOK` beside it: what
  a call re-arms lies in the future, so a key is never popped and set aside at once.
  `RankingSound` is the argument of `timers.rs`: the root of a due spec's tier is at
  least as late, and cross-multiplied lateness in whole milliseconds is compatible with a
  tier's order by exact deadline, except for which of two equally late ones comes first
  (`Hidden`). That
  a tier has a root at all needs deadlines to be bounded below (`Floor`), which every
  action keeps.
* `PollLimiterProofs.TypeCorrect`, `NoDeviceTwice`, `NoPermitLost`, `LimiterRefines`:
  for every stream of jobs, placement on devices, number of permits and admission
  factor, `Spec => []SingleFlight`, `Spec => []PermitsConserved` and
  `Spec => ImplementsSlots`. The invariants are inductive together with `UpcomingOK`
  (a job not yet handed out has no task). The refinement needs them: that one more
  probe fits where a task holds a permit follows from `PermitsConserved`, because the
  probing tasks are among the other holders (`PermitMeansRoom`); that no rival is
  probing follows from `SingleFlight`. Lemmas follow the permit (`Acquire*`,
  `Release*`, `Move*`), the queue (`QueueAppends`, `QueueAdvances`) and the mark
  (`*KeepsFlight`).
* `LeaderElectionProofs.TypeCorrect`, `OnlyTheHolderWorks`: for any number of cores.
  `WorkIsBacked` is inductive with the types: a free lock means that no core works
  over a live connection.
* `StoreForwardProofs`, for any number of results and outages, every ring, batch,
  segment size and cap: `TypeCorrect`, `ArrivalOrderKept` (`RingOrdered`),
  `SegmentNumbersSound` (`SegmentsOrdered`), `RingBounded` (`MemBounded`),
  `NothingVanishes` (`Conserved`), `DiskCapped` (`DiskBounded`). The last five rest on
  one another's strengthenings: `RingInv` (the ring and the batch in flight are in
  arrival order, and nothing in them is newer than the next result), `SegmentsInv` (the
  writer's segment has a number below the next), `MemInv` (how long a batch is, and how
  far the ring may overflow while one is out), `ReplayInv` (what the drain read of a
  segment is still to be sent or has a fate, all of it before the segment is removed),
  `DiskInv` (no segment is longer than its limit, `disk_bytes` is at least the lines of
  the indexed segments, and these exceed the cap by at most one line for each crash and
  one more while the trim is to come). The sum over segments is a recursive function
  `Sums`; what the proof needs of it is had from a least counterexample, as induction is
  out of the provers' reach.
* `AlertEngineProofs`, for every network of nodes, rank, dwell and queue length, and any
  number and mix of edits, windows, pauses, restarts and failed deliveries in one
  behaviour, where the runs have one kind and two nodes. `IInv` says what the engine
  believes between any two lock sections: what a poll decided still fits the
  configuration and the state, unless excused (`CallInv`); each task does one thing at a
  time (`OrderInv`); what is published is what a tracker committed (`LiveInv`); two tasks
  are at one check only if it is excused (`MeetInv`); only an outage that has not ended is
  marked as held, and the list follows the marks step by step (`HoldInv`); nothing is
  regrouped without a configuration (`UnloadedInv`); what a task is about to attribute is
  what it saw, and the alert is still as it found it (`PendingInv`); an outage, or a
  node's other alert, is attributed as the state asks or about to be looked at
  (`OutageInv`, `ReleaseInv`). From it follow `TypeCorrect`, `OnlyBordersAreHeld`
  (`HeldIsBorder`), `AttributionCurrent` (`RollupsCurrent`), `AlertOutlivesRestart`
  (`OutageKeepsItsAlert`, an action property) and, while the rules are left alone
  (`RuleEdits = {}`, by `RuledInv`), `EveryOutageSpokenFor` (`SpokenFor`). The last is an
  argument about the graph: the region of a down node is the region of each of its members
  (`RegionSame`), so its speaker is nobody's roll-up (`SpeakerSpeaks`). The exemptions in
  these statements cannot be dropped: section 5, items 11 to 13, has a behaviour of the
  code for each.

`IInv` of the alert engine was checked by TLC on the instances of `alert_faults` and
`alert_hold` before it was proved. Proving corrected three statements the runs had
accepted: the ring may exceed its limit by one more result than `MemBounded` first said,
which takes a third outage to see; `SpokenFor` is false just after a window ends, when
the reattribution of the region is still to come; `RollupsCurrent` needs no exemption
for checks that are held or lost.

The assumptions are those named in the modules: `FleetAssumption`,
`RingAssumption`, `MessagesAssumption`, `SyncAssumption`, `PoolAssumption`,
`TimersAssumption`, `LimiterAssumption`, `ConfigAssumption` (`StoreForward`),
`DwellAssumption`, `GraphAssumption` (links are symmetric, ranks distinct),
`InputAssumption` (what a poll may say, that a threshold breach has a side, budgets are
numbers), `CoresAssumption`.

**Only model-checked**: the liveness properties `Converges`, `NodesPolled`,
`NoStarvation`, `EveryJobEnds`, `Drains`, `HeldEnds`, `SplitBrainEnds` and
`SomeoneLeads`, as liveness under fairness is outside the prover; and, of the alert
engine, what the far end shows: `NoMissedPage`, `NoStrandedIncident` and `HeldIsUnsaid`.
Every other invariant and action property of a passing run is a theorem.
**Only proved**: the two theorems about the ring, a pure function of its members.

## 7. Plan

1. *Done*: ring, messages, working set, coordinator, `FleetSync`, `PoolSweep`,
   `PollTimers`, their runs and first theorems; `PollLimiter` and its refinement of
   `ProbeSlots`, `LeaderElection` (with proofs), `StoreForward`, `AlertEngine`.
2. *Done*: proofs of the invariants and action properties of the passing runs, but for
   three of the alert engine; an invariant that follows an action from the engine through
   the batch writer and the queue to the far end would carry those.
3. Pool moves: `set_pool`, `adopt_pool` and the poller following the pool named in
   a snapshot, as an extension of `FleetSync` to two pools; the monitoring-gap row.
4. Compositions: `LeaderElection` with the generation of each process (a write served
   by a standby), with two epochs reaching one poller, and with the alerts a promoted
   standby holds.
5. Flap detection, delivery hours and several channels in the alert path; the rolling
   upgrade's waits.
6. An abstract specification of the fleet (a set-valued assignment per poller that
   changes atomically) with `FleetSync` shown to implement it.

## 8. Not modelled

* Spec assembly, credentials, intervals: a spec list is one opaque value.
* The sets of nodes collected elsewhere (Meraki, wireless) and the slow-job
  cadence of the legacy path; they filter the node list or its publishing without
  affecting mode, cache or liveness decisions.
* Redis and PostgreSQL I/O: connection loss shows only as a failed read. The
  mirror's write is taken to succeed, and so are the history's once they are made; a
  crash before the batch writer makes them is modelled.
* Store and forward: pass-through mode, results that cannot be encoded or decoded, a
  line torn by a crash, a file that cannot be removed, a directory that cannot be
  used. A spilled line has length one, so a segment never exceeds its limit by part of
  a line.
* Alerts: flap detection, event alerts, pool coverage, checks per table row and their
  "no reading", counters, deleted nodes, delivery hours, routing of severities to
  several channels, changes of a rule's dwell, levels of link certainty and logical
  links. Two different faults in one behaviour.
* Limiter: its shutdown, and what a probe does.
* Passive events, flows, forwarding, topology derivation, integrations, discovery,
  transport, API and web UI: parsing, data shaping and I/O with little state that
  outlives a request.
