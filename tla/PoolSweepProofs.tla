-------------------------- MODULE PoolSweepProofs ---------------------------
(***************************************************************************)
(* The sweep's cache is never out of date as long as the reads of a        *)
(* rebuild succeed, for any pools, nodes and disturbances.                 *)
(***************************************************************************)
EXTENDS PoolSweep, TLAPS

LEMMA NoSetsType == NoSets \in Sets /\ NoCache \in SweepCache /\ NoRound \in Round
  <1>1. NoSets \in Sets /\ [p \in Pools |-> "never"] \in [Pools -> Views]
    BY DEF NoSets, Sets, Views
  <1>2. QED
    BY <1>1 DEF NoCache, SweepCache, NoRound, Round

LEMMA InitType == Init => TypeOK
  <1> SUFFICES ASSUME Init PROVE TypeOK
    OBVIOUS
  <1>1. [up |-> FALSE, linked |-> TRUE, nodes |-> {}] \in Poller
    BY DEF Poller
  <1>2. resolver \in Resolver
    BY DEF Init, Resolver
  <1>3. round \in Round /\ round.pools \subseteq LivePools(round.seen)
    BY NoSetsType DEF Init, NoRound
  <1>4. QED
    BY <1>1, <1>2, <1>3, NoSetsType, PoolAssumption DEF Init, TypeOK, Views

LEMMA SpendType ==
    ASSUME TypeOK, NEW kind \in Kinds, Spend(kind)
    PROVE  budget' \in [Kinds -> Nat]
  BY DEF TypeOK, Spend

LEMMA ReconciledType ==
    ASSUME TypeOK, NEW pools, NEW sets \in Sets
    PROVE  Reconciled(pools, sets) \in [Pools -> Poller]
  <1>1. \A p \in Pools : [poller[p] EXCEPT !.nodes = sets[p]] \in Poller
    BY DEF TypeOK, Poller, Sets
  <1>2. QED
    BY <1>1 DEF Reconciled, TypeOK

(* What going through one pool does to the round.                           *)
LEMMA ServeRound ==
    ASSUME TypeOK, NEW p \in Pools, ServePool(p)
    PROVE  /\ round' \in Round /\ round'.pools \subseteq LivePools(round'.seen)
           /\ round'.phase = "listed" /\ round'.gen = round.gen
           /\ round'.seen = round.seen /\ round'.young = round.young
           /\ round'.nodes = round.nodes /\ round'.left = round.left \ {p}
           /\ \/ /\ PoolMode(round, p) = "WorkingSet"
                 /\ round'.pools = round.pools \cup {p}
                 /\ round'.desired = [round.desired EXCEPT ![p] = Grouped(p) \cap checked]
              \/ /\ PoolMode(round, p) # "WorkingSet"
                 /\ round'.pools = round.pools /\ round'.desired = round.desired
  <1>1. round \in Round /\ round.phase = "listed" /\ round.pools \subseteq LivePools(round.seen)
    BY DEF TypeOK, ServePool
  <1> DEFINE set == Grouped(p) \cap checked
  <1>2. set \in SUBSET Nodes
    BY DEF TypeOK
  <1> HIDE DEF set
  <1>3. CASE ServeWorkingSet(p)
    <2>1. round' = [round EXCEPT !.left = @ \ {p}, !.pools = @ \cup {p}, !.desired[p] = set]
      BY <1>3 DEF ServeWorkingSet, set
    <2>2. PoolMode(round, p) = "WorkingSet" /\ p \in LivePools(round.seen)
      BY <1>3 DEF ServeWorkingSet, GivesSet, PoolMode, LivePools
    <2>3. round.desired \in Sets /\ [round.desired EXCEPT ![p] = set] \in Sets
      BY <1>1, <1>2 DEF Round, Sets
    <2>4. round' = [round EXCEPT !.left = @ \ {p}, !.pools = @ \cup {p},
                                 !.desired = [round.desired EXCEPT ![p] = set]]
      BY <2>1
    <2>5. round' \in Round
      BY <1>1, <2>3, <2>4 DEF Round
    <2>6. /\ round'.pools = round.pools \cup {p} /\ round'.seen = round.seen
          /\ round'.left = round.left \ {p} /\ round'.gen = round.gen
          /\ round'.phase = round.phase /\ round'.nodes = round.nodes
          /\ round'.young = round.young
          /\ round'.desired = [round.desired EXCEPT ![p] = set]
      BY <1>1, <2>4 DEF Round
    <2>7. QED
      BY <1>1, <2>2, <2>5, <2>6 DEF set
  <1>4. CASE HoldBack(p) \/ ServeLegacy(p)
    <2>1. round' = [round EXCEPT !.left = @ \ {p}] /\ PoolMode(round, p) # "WorkingSet"
      BY <1>4 DEF HoldBack, ServeLegacy
    <2>2. QED
      BY <1>1, <2>1 DEF Round
  <1>5. QED
    BY <1>3, <1>4 DEF ServePool

LEMMA ServeType ==
    ASSUME TypeOK, NEW p \in Pools, ServePool(p)
    PROVE  /\ poller' \in [Pools -> Poller]
           /\ recent' \in SUBSET Nodes
           /\ dispatched' \in SUBSET Nodes
  <1>1. Grouped(p) \in SUBSET Nodes
    BY DEF Grouped, TypeOK, Round
  <1>2. CASE ServeWorkingSet(p)
    <2> DEFINE sets == [round.desired EXCEPT ![p] = Grouped(p) \cap checked]
    <2>1. sets \in Sets
      BY <1>1 DEF TypeOK, Round, Sets
    <2>2. poller' = Reconciled({p}, sets)
      BY <1>2 DEF ServeWorkingSet
    <2> HIDE DEF sets
    <2>3. poller' \in [Pools -> Poller]
      BY <2>1, <2>2, ReconciledType
    <2>4. QED
      BY <1>1, <1>2, <2>3 DEF ServeWorkingSet, TypeOK
  <1>3. CASE HoldBack(p) \/ ServeLegacy(p)
    BY <1>1, <1>3 DEF HoldBack, ServeLegacy, TypeOK
  <1>4. QED
    BY <1>2, <1>3 DEF ServePool

(* The cache a round leaves behind.                                         *)
LEMMA SeedType ==
    ASSUME TypeOK, NEW modes
    PROVE  Seed(modes) \in SweepCache
  <1>1. [valid |-> TRUE, gen |-> round.gen, pools |-> round.pools,
         desired |-> round.desired] \in SweepCache
    BY DEF TypeOK, Round, SweepCache
  <1>2. QED
    BY <1>1, NoSetsType DEF Seed

LEMMA NextType == TypeOK /\ [Next]_vars => TypeOK'
  <1> SUFFICES ASSUME TypeOK, [Next]_vars PROVE TypeOK'
    OBVIOUS
  <1> USE DEF config, tables, process
  <1>1. CASE Write
    <2>1. budget' \in [Kinds -> Nat]
      BY <1>1, SpendType DEF Write, Kinds
    <2>2. calls' \in Nat
      BY <1>1 DEF Write, TypeOK
    <2>3. inventory' \in SUBSET Nodes /\ home' \in [Nodes -> Pools] /\ checked' \in SUBSET Nodes
      BY <1>1 DEF Write, TypeOK
    <2>4. QED
      BY <1>1, <2>1, <2>2, <2>3 DEF Write, TypeOK
  <1>2. CASE Bump
    <2>1. gen' \in Nat /\ calls' \in Nat
      BY <1>2 DEF Bump, TypeOK
    <2>2. unbumped' \in BOOLEAN
      BY <1>2 DEF Bump
    <2>3. QED
      BY <1>2, <2>1, <2>2 DEF Bump, TypeOK
  <1>2a. CASE CallFails
    <2>1. budget' \in [Kinds -> Nat]
      BY <1>2a, SpendType DEF CallFails, Kinds
    <2>2. calls' \in Nat
      BY <1>2a DEF CallFails, TypeOK
    <2>3. QED
      BY <1>2a, <2>1, <2>2 DEF CallFails, TypeOK
  <1>3. CASE CachedRound
    <2>1. poller' \in [Pools -> Poller]
      BY <1>3, ReconciledType DEF CachedRound, TypeOK, SweepCache
    <2>2. QED
      BY <1>3, <2>1 DEF CachedRound, TypeOK
  <1>4. CASE BeginRebuild
    <2>1. round' \in Round /\ round'.pools = {}
      <3>1. NoRound \in Round /\ NoRound.pools = {}
        BY NoSetsType DEF NoRound
      <3>2. QED
        BY <1>4, <3>1 DEF BeginRebuild, TypeOK, Round
    <2>2. QED
      BY <1>4, <2>1 DEF BeginRebuild, TypeOK
  <1>5. CASE ReadFolders
    <2>1. /\ round' \in Round /\ round'.pools = round.pools /\ round'.seen = round.seen
          /\ resolver' \in Resolver
      BY <1>5 DEF ReadFolders, TypeOK, Round, Resolver
    <2>2. QED
      BY <1>5, <2>1 DEF ReadFolders, TypeOK
  <1>6. CASE ReadFoldersFails \/ ListNodesFails
    <2>1. budget' \in [Kinds -> Nat]
      BY <1>6, SpendType DEF ReadFoldersFails, ListNodesFails, Kinds
    <2>2. round' \in Round /\ round'.pools \subseteq LivePools(round'.seen)
      <3>1. NoRound \in Round /\ NoRound.pools = {}
        BY NoSetsType DEF NoRound
      <3>2. CASE round' = NoRound
        BY <3>1, <3>2
      <3>3. CASE round' = [round EXCEPT !.phase = "resolved"]
        BY <3>3 DEF TypeOK, Round
      <3>4. QED
        BY <1>6, <3>2, <3>3 DEF ReadFoldersFails, ListNodesFails
    <2>3. QED
      BY <1>6, <2>1, <2>2 DEF ReadFoldersFails, ListNodesFails, TypeOK
  <1>7. CASE ListNodes
    <2>1. GroupKeys(inventory) \in SUBSET Pools
      BY DEF GroupKeys, LivePools, TypeOK, Resolver
    <2>2. round' = [round EXCEPT !.phase = "listed", !.nodes = inventory,
                                 !.left = GroupKeys(inventory)]
      BY <1>7 DEF ListNodes
    <2>3. /\ round' \in Round /\ round'.pools = round.pools /\ round'.seen = round.seen
      BY <2>1, <2>2 DEF TypeOK, Round
    <2>4. QED
      BY <1>7, <2>3 DEF ListNodes, TypeOK
  <1>7a. ASSUME NEW p \in Pools, ServePool(p) PROVE TypeOK'
    <2>1. UNCHANGED <<config, enrolled, seen, process, resolver, cache, budget>>
      BY <1>7a DEF ServePool
    <2>2. /\ round' \in Round /\ round'.pools \subseteq LivePools(round'.seen)
          /\ poller' \in [Pools -> Poller] /\ recent' \in SUBSET Nodes
          /\ dispatched' \in SUBSET Nodes
      BY <1>7a, ServeRound, ServeType
    <2>3. QED
      BY <2>1, <2>2 DEF TypeOK
  <1>7b. CASE EndRound
    <2>1. /\ round' = NoRound /\ recent' \subseteq recent
          /\ UNCHANGED <<config, enrolled, seen, process, resolver, poller, dispatched, budget>>
          /\ \E modes : cache' = Seed(modes)
      BY <1>7b DEF EndRound
    <2>2. NoRound \in Round /\ NoRound.pools = {} /\ cache' \in SweepCache
      BY <2>1, NoSetsType, SeedType DEF NoRound
    <2>3. QED
      BY <2>1, <2>2 DEF TypeOK
  <1>8. ASSUME NEW n \in Nodes, Elapse(n) PROVE TypeOK'
    BY <1>8 DEF Elapse, TypeOK
  <1>9. ASSUME NEW p \in Pools, PollerStep(p) PROVE TypeOK'
    <2>1. /\ [poller[p] EXCEPT !.up = TRUE] \in Poller
          /\ [poller[p] EXCEPT !.linked = TRUE] \in Poller
          /\ [poller[p] EXCEPT !.linked = FALSE] \in Poller
          /\ Stopped(poller[p]) \in Poller
      BY DEF TypeOK, Poller, Stopped
    <2>2. poller' \in [Pools -> Poller]
      BY <1>9, <2>1 DEF PollerStep, StartPoller, Heard, Lapse, Leave, Crash, Cut, Heal, TypeOK
    <2>3. seen' \in [Pools -> Views]
      BY <1>9 DEF PollerStep, StartPoller, Heard, Lapse, Leave, Crash, Cut, Heal, TypeOK, Views
    <2>4. budget' \in [Kinds -> Nat]
      BY <1>9, SpendType DEF PollerStep, StartPoller, Heard, Lapse, Leave, Crash, Cut,
                             Heal, TypeOK, Kinds
    <2>5. QED
      BY <1>9, <2>2, <2>3, <2>4
         DEF PollerStep, StartPoller, Heard, Lapse, Leave, Crash, Cut, Heal, TypeOK
  <1>10. CASE Mature
    BY <1>10 DEF Mature, TypeOK
  <1>11. CASE CoreRestart
    <2>1. budget' \in [Kinds -> Nat]
      BY <1>11, SpendType DEF CoreRestart, Kinds
    <2>2. /\ resolver' \in Resolver /\ seen' \in [Pools -> Views]
          /\ round' \in Round /\ round'.pools = {}
      BY <1>11, NoSetsType DEF CoreRestart, TypeOK, Resolver, Views, NoRound
    <2>3. QED
      BY <1>11, <2>1, <2>2, NoSetsType DEF CoreRestart, TypeOK
  <1>12. CASE UNCHANGED vars
    BY <1>12 DEF vars, TypeOK
  <1>13. QED
    BY <1>1, <1>2, <1>2a, <1>3, <1>4, <1>5, <1>6, <1>7, <1>7a, <1>7b, <1>8, <1>9,
       <1>10, <1>11, <1>12 DEF Next

(* Type correctness: every round leaves a cache, a working set per pool and *)
(* a dispatch map of the shape the next round reads.                        *)
THEOREM TypeCorrect == Spec => []TypeOK
  BY InitType, NextType, PTL DEF Spec

-----------------------------------------------------------------------------
LEMMA InitInv == ASSUME Budget["fail"] = 0 PROVE Init => CacheInv
  <1> SUFFICES ASSUME Init PROVE CacheInv
    OBVIOUS
  <1>1. TypeOK
    BY InitType
  <1>2. budget["fail"] = 0
    BY DEF Init
  <1>3. QED
    BY <1>1, <1>2 DEF Init, CacheInv, CacheIsCurrent, RoundIsCurrent, PoolsCovered,
       NothingBuilt, NoCache, NoRound, NoSets

(* One pool of the pass: its set is built from the nodes the round listed   *)
(* and the checks of now.                                                   *)
LEMMA ServeInv ==
    ASSUME CacheInv, NEW p \in Pools, ServePool(p)
    PROVE  RoundIsCurrent' /\ PoolsCovered'
  <1>1. TypeOK
    BY DEF CacheInv
  <1>2. /\ round.phase = "listed" /\ UNCHANGED <<inventory, home, checked, unbumped, gen, resolver>>
        /\ UNCHANGED registered
    BY DEF ServePool, config, tables, process
  <1>3. /\ round'.phase = "listed" /\ round'.gen = round.gen
        /\ round'.seen = round.seen /\ round'.young = round.young
        /\ round'.nodes = round.nodes /\ round'.left = round.left \ {p}
        /\ \/ /\ PoolMode(round, p) = "WorkingSet"
              /\ round'.pools = round.pools \cup {p}
              /\ round'.desired = [round.desired EXCEPT ![p] = Grouped(p) \cap checked]
           \/ /\ PoolMode(round, p) # "WorkingSet"
              /\ round'.pools = round.pools /\ round'.desired = round.desired
    BY <1>1, ServeRound
  <1>4. GroupKeys(round.nodes)' = GroupKeys(round.nodes)
    BY <1>2, <1>3 DEF GroupKeys, LivePools
  <1>5. \A q : PoolMode(round, q)' = PoolMode(round, q)
    BY <1>2, <1>3 DEF PoolMode
  <1>6. PoolsCovered'
    <2>1. ASSUME NEW q \in GroupKeys(round.nodes)
          PROVE  q \in round'.left \/ q \in round'.pools \/ PoolMode(round, q) # "WorkingSet"
      BY <1>2, <1>3, <2>1 DEF CacheInv, PoolsCovered
    <2>2. QED
      BY <1>3, <1>4, <1>5, <2>1 DEF PoolsCovered
  <1>7. ASSUME round.gen = gen, ~unbumped
        PROVE  \A q \in Pools : IF q \in round'.pools THEN round'.desired[q] = Desired(q)
                               ELSE round'.desired[q] = {}
    <2>1. /\ resolver.home = home /\ round.nodes = inventory
          /\ \A q \in Pools : IF q \in round.pools THEN round.desired[q] = Desired(q)
                              ELSE round.desired[q] = {}
      BY <1>2, <1>7 DEF CacheInv, RoundIsCurrent
    <2>2. Grouped(p) \cap checked = Desired(p)
      BY <2>1 DEF Grouped, Desired
    <2>3. round.desired \in [Pools -> SUBSET Nodes]
      BY <1>1 DEF TypeOK, Round, Sets
    <2>4. QED
      BY <1>3, <2>1, <2>2, <2>3
  <1>8. \A q : Desired(q)' = Desired(q)
    BY <1>2 DEF Desired
  <1>9. RoundIsCurrent'
    BY <1>2, <1>3, <1>7, <1>8 DEF CacheInv, RoundIsCurrent
  <1>10. QED
    BY <1>6, <1>9

(* The cache is seeded only when every pool was given its set.              *)
LEMMA EndInv ==
    ASSUME CacheInv, EndRound
    PROVE  cache'.gen =< gen /\ CacheIsCurrent'
  <1> DEFINE groups == GroupKeys(round.nodes)
             mode   == [p \in groups |-> PoolMode(round, p)]
             built  == [valid |-> TRUE, gen |-> round.gen, pools |-> round.pools,
                        desired |-> round.desired]
  <1>1. /\ round.phase = "listed" /\ round.left = {}
        /\ gen' = gen /\ unbumped' = unbumped
        /\ inventory' = inventory /\ home' = home /\ checked' = checked
        /\ cache' = IF CacheSeedable({mode[p] : p \in groups}) THEN built ELSE NoCache
    BY DEF EndRound, Seed, config, tables
  <1>2. TypeOK /\ round.gen =< gen /\ gen \in Nat
    BY DEF CacheInv, TypeOK
  <1>3. CASE ~CacheSeedable({mode[p] : p \in groups})
    BY <1>1, <1>2, <1>3 DEF NoCache, CacheIsCurrent
  <1>4. CASE CacheSeedable({mode[p] : p \in groups})
    <2>1. \A p \in groups : PoolMode(round, p) = "WorkingSet"
      BY <1>4 DEF CacheSeedable, PoolMode
    <2>2. groups \subseteq round.pools
      BY <1>1, <2>1 DEF CacheInv, PoolsCovered
    <2>3. ASSUME round.gen = gen, ~unbumped, NEW p \in Pools
          PROVE  round.desired[p] = Desired(p)
      <3>1. /\ resolver.home = home /\ round.nodes = inventory
            /\ IF p \in round.pools THEN round.desired[p] = Desired(p)
               ELSE round.desired[p] = {}
        BY <1>1, <2>3 DEF CacheInv, RoundIsCurrent
      <3>2. CASE p \in round.pools
        BY <3>1, <3>2
      <3>3. CASE p \notin round.pools
        <4>1. p \notin groups
          BY <2>2, <3>3
        <4>2. \A n \in inventory : home[n] # p
          BY <3>1, <4>1 DEF GroupKeys
        <4>3. QED
          BY <3>1, <3>3, <4>2 DEF Desired
      <3>4. QED
        BY <3>2, <3>3
    <2>4. cache'.valid /\ cache'.gen = round.gen /\ cache'.desired = round.desired
      BY <1>1, <1>4
    <2>5. \A p : Desired(p)' = Desired(p)
      BY <1>1 DEF Desired
    <2>6. QED
      BY <1>1, <1>2, <2>3, <2>4, <2>5 DEF CacheIsCurrent
  <1>5. QED
    BY <1>3, <1>4

(* The nodes are listed: nothing is built yet.                              *)
LEMMA ListInv ==
    ASSUME CacheInv, ListNodes
    PROVE  /\ cache'.gen =< gen' /\ round'.gen =< gen'
           /\ RoundIsCurrent' /\ PoolsCovered' /\ CacheIsCurrent'
  <1>1. TypeOK /\ round.phase = "resolved"
    BY DEF CacheInv, ListNodes
  <1>2. UNCHANGED <<inventory, home, checked, unbumped, gen, resolver, cache>>
    BY DEF ListNodes, config, tables
  <1>3. /\ round'.phase = "listed" /\ round'.nodes = inventory
        /\ round'.left = GroupKeys(inventory) /\ round'.gen = round.gen
        /\ round'.seen = round.seen /\ round'.pools = round.pools
        /\ round'.desired = round.desired
    BY <1>1 DEF ListNodes, TypeOK, Round
  <1>4. GroupKeys(round.nodes)' = GroupKeys(inventory)
    BY <1>2, <1>3 DEF GroupKeys, LivePools
  <1>5. PoolsCovered'
    BY <1>3, <1>4 DEF PoolsCovered
  <1>6. \A q : Desired(q)' = Desired(q)
    BY <1>2 DEF Desired
  <1>7. round.pools = {} /\ \A q \in Pools : round.desired[q] = {}
    BY <1>1 DEF CacheInv, NothingBuilt
  <1>8. RoundIsCurrent'
    BY <1>1, <1>2, <1>3, <1>7 DEF CacheInv, RoundIsCurrent
  <1>9. QED
    BY <1>2, <1>3, <1>5, <1>6, <1>8 DEF CacheInv, CacheIsCurrent

LEMMA NextInv == CacheInv /\ [Next]_vars => CacheInv'
  <1> SUFFICES ASSUME CacheInv, [Next]_vars PROVE CacheInv'
    OBVIOUS
  <1>1. TypeOK /\ TypeOK'
    BY NextType DEF CacheInv
  <1>2. gen \in Nat /\ round.gen \in Nat /\ cache.gen \in Nat /\ unbumped \in BOOLEAN
    BY <1>1 DEF TypeOK, Round, SweepCache
  <1>3. ~ReadFoldersFails /\ ~ListNodesFails
    BY DEF CacheInv, ReadFoldersFails, ListNodesFails, Spend
  <1>4. budget'["fail"] = 0
    BY <1>1, <1>3 DEF CacheInv, TypeOK, Next, Write, Bump, CallFails, CachedRound,
       BeginRebuild, ReadFolders, ListNodes, ServePool, EndRound, Elapse, PollerStep,
       StartPoller, Heard, Lapse, Leave, Crash, Cut, Heal, Mature, CoreRestart, Spend,
       Kinds, vars
  <1> USE DEF config, tables
  <1>p. ASSUME round'.nodes = round.nodes, round'.seen = round.seen,
               round'.young = round.young, round'.left = round.left,
               round'.pools = round.pools, round'.phase = round.phase,
               resolver' = resolver, registered' = registered
        PROVE  PoolsCovered'
    <2>1. GroupKeys(round.nodes)' = GroupKeys(round.nodes)
      BY <1>p DEF GroupKeys, LivePools
    <2>2. \A q : PoolMode(round, q)' = PoolMode(round, q)
      BY <1>p DEF PoolMode
    <2>3. QED
      BY <1>p, <2>1, <2>2 DEF CacheInv, PoolsCovered
  <1>5. CASE Write
    <2>1. PoolsCovered'
      BY <1>p, <1>5 DEF Write, process
    <2>2. QED
      BY <1>1, <1>2, <1>4, <1>5, <2>1 DEF Write, CacheInv, CacheIsCurrent, RoundIsCurrent, NothingBuilt
  <1>6. CASE Bump
    <2>1. PoolsCovered'
      BY <1>p, <1>6 DEF Bump, process
    <2>2. QED
      BY <1>1, <1>2, <1>4, <1>6, <2>1 DEF Bump, CacheInv, CacheIsCurrent, RoundIsCurrent, NothingBuilt
  <1>7. CASE BeginRebuild
    <2>1. /\ round'.phase = "begun" /\ round'.gen = gen
          /\ round'.pools = {} /\ round'.desired = NoSets
      BY <1>7 DEF BeginRebuild, NoRound
    <2>2. \A p : Desired(p)' = Desired(p)
      BY <1>7 DEF BeginRebuild, Desired
    <2>3. QED
      BY <1>1, <1>2, <1>4, <1>7, <2>1, <2>2
         DEF BeginRebuild, CacheInv, CacheIsCurrent, RoundIsCurrent, NothingBuilt,
             PoolsCovered, NoSets
  <1>8. CASE ReadFolders
    <2>1. /\ round'.gen = round.gen /\ round'.phase = "resolved" /\ resolver'.home = home
          /\ round'.pools = round.pools /\ round'.desired = round.desired
          /\ round.phase = "begun"
      BY <1>1, <1>8 DEF ReadFolders, TypeOK, Round
    <2>2. \A p : Desired(p)' = Desired(p)
      BY <1>8 DEF ReadFolders, Desired
    <2>3. QED
      BY <1>1, <1>2, <1>4, <1>8, <2>1, <2>2
         DEF ReadFolders, CacheInv, CacheIsCurrent, RoundIsCurrent, NothingBuilt, PoolsCovered
  <1>9. CASE ListNodes
    <2>1. round'.phase = "listed"
      BY <1>1, <1>9 DEF ListNodes, TypeOK, Round
    <2>2. QED
      BY <1>1, <1>4, <1>9, <2>1, ListInv DEF CacheInv, NothingBuilt
  <1>10. ASSUME NEW p \in Pools, ServePool(p) PROVE CacheInv'
    <2>1. /\ round'.gen = round.gen /\ round'.phase = "listed"
          /\ RoundIsCurrent' /\ PoolsCovered'
      BY <1>1, <1>10, ServeRound, ServeInv
    <2>2. UNCHANGED <<config, cache>>
      BY <1>10 DEF ServePool
    <2>3. \A q : Desired(q)' = Desired(q)
      BY <2>2 DEF Desired
    <2>4. QED
      BY <1>1, <1>4, <2>1, <2>2, <2>3 DEF CacheInv, CacheIsCurrent, NothingBuilt
  <1>11. CASE EndRound
    <2>1. round' = NoRound /\ gen' = gen
      BY <1>11 DEF EndRound
    <2>2. /\ round'.gen = 0 /\ round'.phase = "idle"
          /\ round'.pools = {} /\ round'.desired = NoSets
      BY <2>1 DEF NoRound
    <2>3. QED
      BY <1>1, <1>2, <1>4, <1>11, <2>1, <2>2, EndInv
         DEF CacheInv, RoundIsCurrent, NothingBuilt, PoolsCovered, NoSets
  <1>12. CASE CoreRestart
    BY <1>1, <1>4, <1>12 DEF CoreRestart, CacheInv, CacheIsCurrent, RoundIsCurrent, NothingBuilt,
       PoolsCovered, NoCache, NoRound, NoSets
  <1>13. CASE \/ CallFails \/ CachedRound \/ Mature \/ UNCHANGED vars
              \/ \E n \in Nodes : Elapse(n)
              \/ \E p \in Pools : PollerStep(p)
    <2>1. UNCHANGED <<inventory, home, checked, unbumped, gen, registered, resolver,
                      cache, round>>
      BY <1>13 DEF CallFails, CachedRound, Mature, vars, Elapse, PollerStep, StartPoller,
         Heard, Lapse, Leave, Crash, Cut, Heal, process
    <2>2. PoolsCovered'
      BY <1>p, <2>1
    <2>3. \A q : Desired(q)' = Desired(q)
      BY <2>1 DEF Desired
    <2>4. QED
      BY <1>1, <1>4, <2>1, <2>2, <2>3 DEF CacheInv, CacheIsCurrent, RoundIsCurrent, NothingBuilt
  <1>14. QED
    BY <1>3, <1>5, <1>6, <1>7, <1>8, <1>9, <1>10, <1>11, <1>12, <1>13 DEF Next

(* Where reads do not fail, a sweep served from the cache gives every pool  *)
(* what a rebuild would: SweepCache::reusable and cache_seedable are right, *)
(* whatever writes, restarts and departures come between a round's reads.   *)
THEOREM CacheSound == ASSUME Budget["fail"] = 0 PROVE Spec => []CacheIsCurrent
  <1>1. CacheInv => CacheIsCurrent
    BY DEF CacheInv
  <1>2. QED
    BY <1>1, InitInv, NextInv, PTL DEF Spec
=============================================================================
