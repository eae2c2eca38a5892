------------------------------ MODULE PoolSweep -----------------------------
(***************************************************************************)
(* The scheduler's sweep over all pools                                    *)
(* (crates/yagra-core/src/scheduler/sweep.rs): which way each pool is      *)
(* served in a round, and the cache that lets a round skip the database.   *)
(*                                                                         *)
(* A pool is reduced to one poller.  What one reconcile_pool call does to  *)
(* it is the subject of FleetSync; here the call leaves a reachable poller *)
(* holding the set it was given.  A node's pool is the one its folder      *)
(* gives it (poolres.rs), so it comes from the folder table.  The reads of *)
(* a round are separate steps, the spec builds of each pool among them:    *)
(* configuration and liveness move in between.                             *)
(***************************************************************************)
EXTENDS Naturals, FiniteSets

CONSTANTS
    Pools, Nodes,
    MaxGen,        \* bound on the configuration changes of one core process
    Budget         \* how often each disturbance may happen: [Kinds -> Nat]

Kinds == {"edit", "drop", "cut", "leave", "crash", "fail", "core"}

ASSUME PoolAssumption ==
    /\ Pools # {}
    /\ MaxGen \in Nat
    /\ Budget \in [Kinds -> Nat]

VARIABLES
    (* PostgreSQL *)
    inventory,    \* the nodes there are
    home,         \* the pool each node's folder gives it
    checked,      \* the nodes with a check to run
    enrolled,     \* pools with a row in the poller inventory
    (* core process *)
    calls,        \* API calls that committed a write and have not answered
    unbumped,     \* a write is committed and the generation not bumped since
    gen,          \* CONFIG_GENERATION
    seen,         \* what the coordinator knows of each pool's poller
    young,        \* the process is younger than POOL_GRACE
    registered,   \* the pools it read from the inventory when it started
    resolver,     \* the last folder map read, or none
    cache,        \* SweepCache
    round,        \* the round in progress
    recent,       \* last_dispatched: nodes dispatched less than an interval ago
    (* pollers *)
    poller,       \* per pool: is it running, is it connected, what it polls
    (* auxiliary *)
    dispatched,   \* nodes the last round published legacy jobs for
    budget

tables  == <<inventory, home, checked>>
config  == <<tables, calls, unbumped, gen>>
process == <<young, registered>>
vars    == <<config, enrolled, seen, process, resolver, cache, round, recent,
             poller, dispatched, budget>>

-----------------------------------------------------------------------------
Sets == [Pools -> SUBSET Nodes]

SweepCache == [valid : BOOLEAN, gen : Nat, pools : SUBSET Pools, desired : Sets]

NoSets  == [p \in Pools |-> {}]
NoCache == [valid |-> FALSE, gen |-> 0, pools |-> {}, desired |-> NoSets]

(* "never" heard of in this process; "live"; gone, but heard from within    *)
(* POOL_GRACE ("recent") or longer ago ("quiet").                           *)
Views == {"never", "live", "recent", "quiet"}

(* What a round has read, the pools it has still to go through, and the     *)
(* sets it has built (new_desired_by_pool: pools are the keys).             *)
Round == [phase : {"idle", "begun", "resolved", "listed"}, gen : Nat,
          seen : [Pools -> Views], young : BOOLEAN, nodes : SUBSET Nodes,
          left : SUBSET Pools, pools : SUBSET Pools, desired : Sets]

NoRound == [phase |-> "idle", gen |-> 0,
            seen |-> [p \in Pools |-> "never"], young |-> FALSE, nodes |-> {},
            left |-> {}, pools |-> {}, desired |-> NoSets]

Resolver == [known : BOOLEAN, home : [Nodes -> Pools]]

Poller == [up : BOOLEAN, linked : BOOLEAN, nodes : SUBSET Nodes]

Stopped(po) == [po EXCEPT !.up = FALSE, !.nodes = {}]

(* The pools with a live poller, in what was seen of them.                  *)
LivePools(view) == {p \in Pools : view[p] = "live"}

(* Types of the sweep's cache and round, and of the fleet it serves; among  *)
(* them that a round builds a working set only for a pool that was live     *)
(* when it began.                                                           *)
TypeOK ==
    /\ inventory \in SUBSET Nodes
    /\ home \in [Nodes -> Pools]
    /\ checked \in SUBSET Nodes
    /\ enrolled \in SUBSET Pools
    /\ calls \in Nat
    /\ unbumped \in BOOLEAN
    /\ gen \in Nat
    /\ seen \in [Pools -> Views]
    /\ young \in BOOLEAN
    /\ registered \in SUBSET Pools
    /\ resolver \in Resolver
    /\ cache \in SweepCache
    /\ round \in Round
    /\ round.pools \subseteq LivePools(round.seen)
    /\ recent \in SUBSET Nodes
    /\ poller \in [Pools -> Poller]
    /\ dispatched \in SUBSET Nodes
    /\ budget \in [Kinds -> Nat]

Init ==
    /\ inventory \in SUBSET Nodes
    /\ home \in [Nodes -> Pools]
    /\ checked \in SUBSET Nodes
    /\ enrolled = {}
    /\ calls = 0
    /\ unbumped = FALSE
    /\ gen = 0
    /\ seen = [p \in Pools |-> "never"]
    /\ young = TRUE
    /\ registered = {}
    /\ resolver = [known |-> FALSE, home |-> home]
    /\ cache = NoCache
    /\ round = NoRound
    /\ recent = {}
    /\ poller = [p \in Pools |-> [up |-> FALSE, linked |-> TRUE, nodes |-> {}]]
    /\ dispatched = {}
    /\ budget = Budget

Spend(kind) ==
    /\ budget[kind] > 0
    /\ budget' = [budget EXCEPT ![kind] = @ - 1]

-----------------------------------------------------------------------------
(* The API: a handler commits its write, then the audit middleware bumps    *)
(* the generation on the way out, if the call answers with success.         *)

Write ==
    /\ gen + calls < MaxGen
    /\ Spend("edit")
    /\ \/ /\ inventory' \in SUBSET Nodes \ {inventory}
          /\ UNCHANGED <<home, checked>>
       \/ /\ home' \in [Nodes -> Pools] \ {home}
          /\ UNCHANGED <<inventory, checked>>
       \/ /\ checked' \in SUBSET Nodes \ {checked}
          /\ UNCHANGED <<inventory, home>>
    /\ calls' = calls + 1
    /\ unbumped' = TRUE
    /\ UNCHANGED <<gen, enrolled, seen, process, resolver, cache, round, recent,
                   poller, dispatched>>

Bump ==
    /\ calls > 0
    /\ calls' = calls - 1
    /\ unbumped' = FALSE
    /\ gen' = gen + 1
    /\ UNCHANGED <<tables, enrolled, seen, process, resolver, cache, round,
                   recent, poller, dispatched, budget>>

(* The write is committed, but the call ends in an error or is given up.    *)
CallFails ==
    /\ calls > 0
    /\ Spend("drop")
    /\ calls' = calls - 1
    /\ UNCHANGED <<tables, unbumped, gen, enrolled, seen, process, resolver,
                   cache, round, recent, poller, dispatched>>

-----------------------------------------------------------------------------
(* The sweep.                                                               *)

(* Every cached pool still has a live poller and nothing was configured.    *)
Reusable(c, generation, live) ==
    c.valid /\ c.gen = generation /\ c.pools \subseteq live

(* What a reconcile_pool call for each pool of sets leads to.               *)
Reconciled(pools, sets) ==
    [p \in Pools |->
        IF p \in pools /\ seen[p] = "live" /\ poller[p].up /\ poller[p].linked
        THEN [poller[p] EXCEPT !.nodes = sets[p]]
        ELSE poller[p]]

(* A round starts by reading the generation and the liveness of the pools.  *)
(* A reusable cache serves it; nothing else is read.                        *)
CachedRound ==
    /\ round.phase = "idle"
    /\ Reusable(cache, gen, LivePools(seen))
    /\ poller' = Reconciled(cache.pools, cache.desired)
    /\ dispatched' = {}
    /\ UNCHANGED <<config, enrolled, seen, process, resolver, cache, round,
                   recent, budget>>

BeginRebuild ==
    /\ round.phase = "idle"
    /\ ~Reusable(cache, gen, LivePools(seen))
    /\ round' = [NoRound EXCEPT !.phase = "begun", !.gen = gen, !.seen = seen,
                               !.young = young]
    /\ UNCHANGED <<config, enrolled, seen, process, resolver, cache, recent,
                   poller, dispatched, budget>>

(* groups_repo.pool_rows                                                    *)
ReadFolders ==
    /\ round.phase = "begun"
    /\ resolver' = [known |-> TRUE, home |-> home]
    /\ round' = [round EXCEPT !.phase = "resolved"]
    /\ UNCHANGED <<config, enrolled, seen, process, cache, recent, poller,
                   dispatched, budget>>

(* It failed: the last map is used, or the round is skipped without one.    *)
ReadFoldersFails ==
    /\ round.phase = "begun"
    /\ Spend("fail")
    /\ round' = IF resolver.known THEN [round EXCEPT !.phase = "resolved"]
                ELSE NoRound
    /\ UNCHANGED <<config, enrolled, seen, process, resolver, cache, recent,
                   poller, dispatched>>

(* pool_mode, as of the start of the round.                                 *)
PoolMode(r, p) ==
    IF r.seen[p] = "live" THEN "WorkingSet"
    ELSE IF \/ r.seen[p] = "recent"
            \/ r.seen[p] = "never" /\ r.young /\ p \in registered
    THEN "Wait"
    ELSE "Legacy"

(* group_by_pool: the pools that own a node, and every live one.            *)
Grouped(pool) == {n \in round.nodes : resolver.home[n] = pool}

GroupKeys(nodes) == LivePools(round.seen) \cup {resolver.home[n] : n \in nodes}

(* list_nodes, and the nodes grouped.  What follows is one step per pool.   *)
ListNodes ==
    /\ round.phase = "resolved"
    /\ round' = [round EXCEPT !.phase = "listed", !.nodes = inventory,
                              !.left = GroupKeys(inventory)]
    /\ dispatched' = {}
    /\ UNCHANGED <<config, enrolled, seen, process, resolver, cache, recent,
                   poller, budget>>

(* Mutant: a pool that is waited for is given its set like a live one.      *)
GivesSetWaiting(p) == PoolMode(round, p) # "Legacy"

GivesSet(p) == PoolMode(round, p) = "WorkingSet"

(* Its specs are built and the pool reconciled; a node without a check is   *)
(* left out of the set.                                                     *)
ServeWorkingSet(p) ==
    LET set == Grouped(p) \cap checked
    IN  /\ GivesSet(p)
        /\ recent' = recent \ Grouped(p)
        /\ round' = [round EXCEPT !.left = @ \ {p}, !.pools = @ \cup {p},
                                  !.desired[p] = set]
        /\ poller' = Reconciled({p}, [round.desired EXCEPT ![p] = set])
        /\ UNCHANGED dispatched

HoldBack(p) ==
    /\ ~GivesSet(p) /\ PoolMode(round, p) = "Wait"
    /\ round' = [round EXCEPT !.left = @ \ {p}]
    /\ UNCHANGED <<recent, poller, dispatched>>

(* The jobs of the nodes that are due are published.                        *)
ServeLegacy(p) ==
    /\ PoolMode(round, p) = "Legacy"
    /\ dispatched' = dispatched \cup ((Grouped(p) \ recent) \cap checked)
    /\ recent' = recent \cup Grouped(p)
    /\ round' = [round EXCEPT !.left = @ \ {p}]
    /\ UNCHANGED poller

ServePool(p) ==
    /\ round.phase = "listed" /\ p \in round.left
    /\ ServeWorkingSet(p) \/ HoldBack(p) \/ ServeLegacy(p)
    /\ UNCHANGED <<config, enrolled, seen, process, resolver, cache, budget>>

(* Mutant: a waiting pool does not stop the round from being cached.        *)
CacheSeedableNoWait(modes) == "Legacy" \notin modes

CacheSeedable(modes) == "Legacy" \notin modes /\ "Wait" \notin modes

(* Mutant: the cache is tagged with the generation at the end of the round. *)
SeedTaggedLate(modes) ==
    IF CacheSeedable(modes)
    THEN [valid |-> TRUE, gen |-> gen, pools |-> round.pools,
          desired |-> round.desired]
    ELSE NoCache

(* The cache a round leaves behind, tagged with the generation it began at. *)
Seed(modes) ==
    IF CacheSeedable(modes)
    THEN [valid |-> TRUE, gen |-> round.gen, pools |-> round.pools,
          desired |-> round.desired]
    ELSE NoCache

(* Every pool was gone through: nodes no longer served as legacy are        *)
(* forgotten, and the cache is left for the next round.                     *)
EndRound ==
    LET groups == GroupKeys(round.nodes)
        mode   == [p \in groups |-> PoolMode(round, p)]
    IN  /\ round.phase = "listed" /\ round.left = {}
        /\ recent' = {n \in recent : /\ n \in round.nodes
                                     /\ mode[resolver.home[n]] = "Legacy"}
        /\ cache' = Seed({mode[p] : p \in groups})
        /\ round' = NoRound
        /\ UNCHANGED <<config, enrolled, seen, process, resolver, poller,
                       dispatched, budget>>

(* It failed: nothing is served and the cache stays as it is.               *)
ListNodesFails ==
    /\ round.phase = "resolved"
    /\ Spend("fail")
    /\ round' = NoRound
    /\ UNCHANGED <<config, enrolled, seen, process, resolver, cache, recent,
                   poller, dispatched>>

(* A node's polling interval runs out: it is due again.                     *)
Elapse(n) ==
    /\ n \in recent
    /\ recent' = recent \ {n}
    /\ UNCHANGED <<config, enrolled, seen, process, resolver, cache, round,
                   poller, dispatched, budget>>

-----------------------------------------------------------------------------
(* Pollers, and what the coordinator sees of them.                          *)

StartPoller(p) ==
    /\ ~poller[p].up
    /\ poller' = [poller EXCEPT ![p].up = TRUE]
    /\ UNCHANGED <<config, enrolled, seen, process, resolver, cache, round,
                   recent, dispatched, budget>>

(* A beat arrives: the pool is live and in the durable inventory.           *)
Heard(p) ==
    /\ poller[p].up /\ poller[p].linked
    /\ seen[p] # "live"
    /\ seen' = [seen EXCEPT ![p] = "live"]
    /\ enrolled' = enrolled \cup {p}
    /\ UNCHANGED <<config, process, resolver, cache, round, recent, poller,
                   dispatched, budget>>

(* OFFLINE_AFTER, which is also POOL_GRACE, passes without a beat.          *)
Lapse(p) ==
    /\ ~young
    /\ \/ seen[p] = "recent"
       \/ seen[p] = "live" /\ ~(poller[p].up /\ poller[p].linked)
    /\ seen' = [seen EXCEPT ![p] = "quiet"]
    /\ UNCHANGED <<config, enrolled, process, resolver, cache, round, recent,
                   poller, dispatched, budget>>

(* SIGTERM: the goodbye beat takes the pool out of the live ones at once.   *)
Leave(p) ==
    /\ poller[p].up /\ poller[p].linked
    /\ Spend("leave")
    /\ poller' = [poller EXCEPT ![p] = Stopped(@)]
    /\ seen' = [seen EXCEPT ![p] = "recent"]
    /\ UNCHANGED <<config, enrolled, process, resolver, cache, round, recent,
                   dispatched>>

Crash(p) ==
    /\ poller[p].up
    /\ Spend("crash")
    /\ poller' = [poller EXCEPT ![p] = Stopped(@)]
    /\ UNCHANGED <<config, enrolled, seen, process, resolver, cache, round,
                   recent, dispatched>>

(* The poller loses its way to core; it goes on polling what it holds.      *)
Cut(p) ==
    /\ poller[p].up /\ poller[p].linked
    /\ Spend("cut")
    /\ poller' = [poller EXCEPT ![p].linked = FALSE]
    /\ UNCHANGED <<config, enrolled, seen, process, resolver, cache, round,
                   recent, dispatched>>

Heal(p) ==
    /\ ~poller[p].linked
    /\ poller' = [poller EXCEPT ![p].linked = TRUE]
    /\ UNCHANGED <<config, enrolled, seen, process, resolver, cache, round,
                   recent, dispatched, budget>>

-----------------------------------------------------------------------------
(* POOL_GRACE after its start the process no longer waits for pollers it    *)
(* has only read of.                                                        *)
Mature ==
    /\ young
    /\ young' = FALSE
    /\ UNCHANGED <<config, enrolled, seen, registered, resolver, cache, round,
                   recent, poller, dispatched, budget>>

(* A new core process; reading the poller inventory may fail.               *)
CoreRestart ==
    /\ Spend("core")
    /\ gen' = 0
    /\ calls' = 0
    /\ unbumped' = FALSE
    /\ seen' = [p \in Pools |-> "never"]
    /\ young' = TRUE
    /\ registered' \in {enrolled, {}}
    /\ resolver' = [known |-> FALSE, home |-> home]
    /\ cache' = NoCache
    /\ round' = NoRound
    /\ recent' = {}
    /\ UNCHANGED <<tables, enrolled, poller, dispatched>>

PollerStep(p) ==
    StartPoller(p) \/ Heard(p) \/ Lapse(p) \/ Leave(p) \/ Crash(p) \/ Cut(p) \/ Heal(p)

Next ==
    \/ Write \/ Bump \/ CallFails
    \/ CachedRound \/ BeginRebuild \/ ReadFolders \/ ReadFoldersFails
    \/ ListNodes \/ ListNodesFails
    \/ \E p \in Pools : ServePool(p)
    \/ EndRound
    \/ \E n \in Nodes : Elapse(n)
    \/ \E p \in Pools : PollerStep(p)
    \/ Mature \/ CoreRestart

Spec == Init /\ [][Next]_vars

(* The sweep never stops, its reads return, time passes, beats of a         *)
(* connected poller arrive and an API call runs to its end.  Nothing makes  *)
(* a poller start or its connection come back.                              *)
Fairness ==
    /\ WF_vars(CachedRound \/ BeginRebuild)
    /\ WF_vars(ReadFolders) /\ WF_vars(ListNodes)
    /\ WF_vars(\E p \in Pools : ServePool(p)) /\ WF_vars(EndRound)
    /\ WF_vars(Bump) /\ WF_vars(Mature)
    /\ \A n \in Nodes : WF_vars(Elapse(n))
    /\ \A p \in Pools : WF_vars(Heard(p)) /\ WF_vars(Lapse(p))

FairSpec == Spec /\ Fairness

-----------------------------------------------------------------------------
(* What a pool's poller is to hold.                                         *)
Desired(p) == {n \in inventory \cap checked : home[n] = p}

(* "An unchanged generation means its inputs are byte-for-byte identical":  *)
(* a cache tagged with the current generation holds, for every node there   *)
(* is to check and for no other, the pool it belongs to, unless a write is  *)
(* committed that no bump has followed yet.                                 *)
CacheIsCurrent ==
    (cache.valid /\ cache.gen = gen /\ ~unbumped)
    => \A p \in Pools : cache.desired[p] = Desired(p)

(* What a round at the current generation has read and built is current.    *)
RoundIsCurrent ==
    (round.gen = gen /\ ~unbumped)
    => /\ round.phase \in {"resolved", "listed"} => resolver.home = home
       /\ round.phase = "listed" =>
            /\ round.nodes = inventory
            /\ \A p \in Pools :
                  IF p \in round.pools THEN round.desired[p] = Desired(p)
                  ELSE round.desired[p] = {}

(* Nothing is built before the nodes are listed.                            *)
NothingBuilt ==
    round.phase # "listed"
    => round.pools = {} /\ \A p \in Pools : round.desired[p] = {}

(* Every pool with a node is gone through, and left out only by its mode.   *)
PoolsCovered ==
    round.phase = "listed" =>
        \A p \in GroupKeys(round.nodes) :
            p \in round.left \/ p \in round.pools \/ PoolMode(round, p) # "WorkingSet"

(* The inductive invariant behind it, where no read fails.  A generation    *)
(* read before the database cannot run ahead of it.                         *)
CacheInv ==
    /\ TypeOK
    /\ budget["fail"] = 0
    /\ cache.gen =< gen
    /\ round.gen =< gen
    /\ RoundIsCurrent
    /\ NothingBuilt
    /\ PoolsCovered
    /\ CacheIsCurrent

(* No node is left unpolled for good: again and again it is in the set of   *)
(* a running poller of its pool, or legacy jobs are published for it.       *)
NodesPolled ==
    \A n \in Nodes :
        []<>(n \in inventory \cap checked => \/ n \in poller[home[n]].nodes
                                            \/ n \in dispatched)

(* A connected poller ends up with exactly the nodes of its pool, so that   *)
(* none "keeps polling the stale working set for the life of the core       *)
(* process".                                                                *)
StaleSetsCleared ==
    <>[](\A p \in Pools :
           (poller[p].up /\ poller[p].linked) => poller[p].nodes = Desired(p))
=============================================================================
