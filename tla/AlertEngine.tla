---------------------------- MODULE AlertEngine ----------------------------
(***************************************************************************)
(* The alert engine of the leading core and the way a notification leaves  *)
(* it: dwell per check, the down set, roll-up of an outage under the node  *)
(* that speaks for it, the hold on a border whose neighbour is failing,    *)
(* the release of a node's own alerts after it came back, the one queue    *)
(* every path delivers through, the dispatcher's dedup, and the restart    *)
(* that reads the open alerts back from history.                           *)
(*                                                                         *)
(* Three tasks call the engine.  "ingest" judges poll results one at a     *)
(* time; "config" swaps the configuration and regroups; "held" ends the    *)
(* waits every few seconds.  A call takes the engine's locks one after the *)
(* other and returns a list of actions, which the task records and queues  *)
(* afterwards: between any two of these steps another task may run, and    *)
(* the alerts and the list of held checks are two maps under two locks.    *)
(* The rows of the poll path reach history through a batch writer.  Time   *)
(* is not kept: the end of a wait is the action Expire.                    *)
(***************************************************************************)
EXTENDS Naturals, Sequences, FiniteSets

CONSTANTS
    Nodes,          \* the monitored nodes
    NoNode,         \* no root cause
    Neighbours,     \* Neighbours[n]: the nodes n is linked to
    Rank,           \* the order in which nodes speak for a region, lowest first
    Readers,        \* the nodes that carry a threshold check as well
    Readings,       \* what a threshold check may read: [state, side]
    Outcomes,       \* what a liveness poll may say
    Dwell,          \* samples in a row that commit a state
    Waits,          \* the settings of waiting the deployment may start with
    Edits,          \* the settings an operator may edit: grouping, waiting
    RuleEdits,      \* the nodes whose liveness rule an operator may delete and restore
    QueueMax,       \* room in the delivery queue
    RowsMax,        \* room in the channel to the batch writer
    Budget,         \* how often the environment may act: see Spend
    MaxFaults       \* kinds of fault one behaviour may see

ASSUME DwellAssumption == Dwell \in Nat \ {0}
ASSUME GraphAssumption ==
    /\ NoNode \notin Nodes
    /\ Readers \subseteq Nodes
    /\ Neighbours \in [Nodes -> SUBSET Nodes]
    /\ \A n, m \in Nodes : m \in Neighbours[n] <=> n \in Neighbours[m]
    /\ Rank \in [Nodes -> Nat]
    /\ \A n, m \in Nodes : Rank[n] = Rank[m] => n = m
ASSUME InputAssumption ==
    /\ Outcomes \subseteq {"reachable", "unreachable", "error"}
    /\ Readings \subseteq [state : {"ok", "warning", "critical", "unknown"},
                            side : {"above", "below"}]
    /\ Waits \subseteq BOOLEAN /\ RuleEdits \subseteq Nodes
    /\ QueueMax \in Nat /\ RowsMax \in Nat
    /\ Budget \in [{"edit", "window", "pause", "crash", "fail", "low", "late", "again"}
                   -> Nat]

VARIABLES
    tracker,        \* per check: committed, confirmed, candidate and its run
    live,           \* per node: the committed liveness the engine published
    down,           \* the nodes whose committed liveness is unreachable
    active,         \* per check: the open alert, or NoAlert
    held,           \* the checks whose notification waits for a neighbour
    expired,        \* the held checks whose time ran out
    releasing,      \* per check: bad samples since its node came back
    sidePending,    \* per check: samples on the other side of its band
    cfg,            \* the configuration installed in the engine
    regrouped,      \* the refresh loop has built its first base
    call,           \* what ingest decided about a liveness check and has to apply
    view,           \* per task: the reattribution under way, and what it judges by
    todo,           \* per task: alerts a reattribution still has to apply
    holding,        \* the check ingest opened as held and has to put on the list
    unholding,      \* per task: the check it has to take off the held list
    out,            \* per task: actions returned and not yet queued
    noted,          \* per task: the first of them has been recorded
    look,           \* the held task's snapshot and the check it judged
    queue,          \* the delivery queue
    rows,           \* per check: the newest row that waits for the batch writer
    history,        \* per check: the newest row, when it is a fire
    dedup,          \* the keys the dispatcher believes are open
    sides,          \* per key: the side it was last handed over with
    incidents,      \* per key: what the far end shows
    lost,           \* checks a fault cost a notification, see Dispatch and Restart
    excused,        \* checks nothing orders the notifications of, see Unordered
    spent           \* what the environment has used of its budget

engine == <<tracker, live, down, active, held, expired, releasing, sidePending>>
config == <<cfg, regrouped>>
sweeps == <<view, todo>>
tasks == <<call, sweeps, holding, unholding, out, noted, look>>
delivery == <<queue, dedup, sides, incidents>>
records == <<rows, history>>
vars == <<engine, config, tasks, delivery, records, lost, excused, spent>>
-----------------------------------------------------------------------------
Liveness(n) == <<n, "liveness">>
Reading(n) == <<n, "reading">>
Checks == {Liveness(n) : n \in Nodes} \cup {Reading(n) : n \in Readers}
NodeOf(c) == c[1]
IsLiveness(c) == c[2] = "liveness"

States == {"ok", "warning", "critical", "unreachable", "unknown", "maintenance"}
IsProblem(s) == s \in {"warning", "critical", "unreachable"}
Severity(s) == IF s = "warning" THEN "warning" ELSE "critical"
Sides == {"above", "below", "none"}
Alerts == [state : States, side : Sides, rc : Nodes \cup {NoNode}, held : BOOLEAN]
NoAlert == [state |-> "none", side |-> "none", rc |-> NoNode, held |-> FALSE]
IsOpen(c) == active[c] # NoAlert

Keys == Checks \X {"warning", "critical"}
Key(c, a) == <<c, Severity(a.state)>>

Tasks == {"ingest", "config", "held"}
Action(kind, c, a) == [kind |-> kind, check |-> c, alert |-> a]

NoCheck == <<NoNode, "none">>
NoCall == [step |-> "none", check |-> NoCheck, alert |-> NoAlert, sweep |-> FALSE,
           base |-> <<FALSE, FALSE, {}>>]
NoView == [step |-> "none", changed |-> NoNode, down |-> {}, grouped |-> FALSE]
NoLook == [snap |-> {}, ready |-> <<>>]

\* The task's call into the engine has returned; nothing of it is left to say.
Returned(t) ==
    /\ view[t] = NoView /\ todo[t] = {} /\ unholding[t] = {}
    /\ t = "ingest" => call = NoCall /\ holding = {}
    /\ t = "held" => look = NoLook
Idle(t) == Returned(t) /\ out[t] = <<>>

\* What the environment uses of its budget: an edit, a window, a pause, a restart,
\* a delivery that fails, or a metric that also breaks its band on the low side.
\* "late" and "again" are no faults but bounds: how often states may still change
\* once two tasks have met at a check, and after a restart.
Faults == DOMAIN Budget \ {"late", "again"}
Spends(kinds) ==
    /\ \A w \in kinds : spent[w] < Budget[w]
    /\ Cardinality({w \in Faults : w \in kinds \/ spent[w] > 0}) <= MaxFaults
    /\ spent' = [w \in DOMAIN Budget |-> IF w \in kinds THEN spent[w] + 1 ELSE spent[w]]
Spend(what) == Spends({what})
Changes(c, t) ==
    IF t.committed = tracker[c].committed THEN {}
    ELSE {w \in {"late", "again"} : IF w = "late" THEN excused # {} ELSE spent["crash"] > 0}

\* The checks a task is changing, or still has something to say about.
Touches(t) ==
    {x.check : x \in todo[t]} \cup unholding[t] \cup {out[t][i].check : i \in DOMAIN out[t]}
    \cup (IF t = "ingest" THEN holding \cup ({call.check} \ {NoCheck}) ELSE {})

\* The checks two tasks are at.
Contended ==
    (Touches("ingest") \cap (Touches("config") \cup Touches("held")))
        \cup (Touches("config") \cap Touches("held"))

\* Until a configuration is loaded the engine runs on the default: no grouping,
\* no rule, no window.
Grouped == cfg.loaded /\ cfg.grouped

\* What a decision about a liveness check reads of the configuration.
Base == <<cfg.loaded, cfg.grouped, cfg.ruled>>

\* Two tasks are at the same check at the same time; or what a task is about to
\* apply was judged by a configuration or a down set that is no longer the one in
\* force; or a check changed state with no configuration loaded.  Nothing in the
\* code orders their steps and notifications, or says them at all, and a restart
\* takes what history says of one of them into the attribution of the others.
Unordered ==
    Contended'
    \cup (UNION {{x.check : x \in todo'[t]} :
                 t \in {u \in Tasks : view'[u].down # down' \/ view'[u].grouped # Grouped'}})
    \cup (IF call'.step \in {"fire", "strand"} /\ call'.base # Base' THEN {call'.check} ELSE {})
    \cup {c \in Checks : IF spent'["crash"] # spent["crash"] THEN excused # {}
                         ELSE ~cfg.loaded /\ tracker'[c].committed # tracker[c].committed}

\* Asked after every step that begins or changes a task's work, or what it is
\* judged by.
Excuse == excused' = excused \cup Unordered
-----------------------------------------------------------------------------
(***************************************************************************)
(* Dwell.                                                                  *)
(***************************************************************************)
Seed == [committed |-> "ok", confirmed |-> FALSE, cand |-> "none", n |-> 0]
Settled(s) == [committed |-> s, confirmed |-> TRUE, cand |-> "none", n |-> 0]

\* Feeding one raw sample to a tracker.
ObserveSample(t, raw) ==
    LET run == IF t.cand = raw THEN t.n + 1 ELSE 1
    IN  CASE raw = t.committed -> Settled(raw)
          [] raw # t.committed /\ run >= Dwell -> Settled(raw)
          [] OTHER -> [t EXCEPT !.cand = raw, !.n = run]
-----------------------------------------------------------------------------
(***************************************************************************)
(* Grouping: which down node speaks for which.                             *)
(***************************************************************************)
TouchesALiveNode(n, D) == Neighbours[n] \ D # {}

\* The down nodes linked to n: the least set that holds n and, with a node,
\* its down neighbours.
Region(n, D) ==
    {m \in D : \A S \in SUBSET D :
        (n \in S /\ \A k \in S : Neighbours[k] \cap D \subseteq S) => m \in S}

Speaker(R, D) ==
    LET borders == {n \in R : TouchesALiveNode(n, D)}
        pool == IF borders = {} THEN R ELSE borders
    IN  CHOOSE n \in pool : \A m \in pool : Rank[n] <= Rank[m]

\* The node n's notification is rolled up into, or NoNode.
RootCause(n, D, grouped) ==
    IF ~grouped \/ n \notin D \/ Neighbours[n] = {} \/ TouchesALiveNode(n, D)
    THEN NoNode
    ELSE LET s == Speaker(Region(n, D), D) IN IF s = n THEN NoNode ELSE s

\* The neighbours n is judged by that fail and have not committed.
FailingNeighbours(n) ==
    {m \in Neighbours[n] :
        Grouped /\ m \notin down /\ tracker[Liveness(m)].cand = "unreachable"}

MayWait == cfg.wait /\ Grouped
HoldUntil(n, rc) == rc = NoNode /\ MayWait /\ FailingNeighbours(n) # {}
-----------------------------------------------------------------------------
(***************************************************************************)
(* Reattribution: the down set and the grouping are read, then the alerts  *)
(* whose roll-up may change are snapshotted, then one alert at a time is   *)
(* changed, each under its own lock.                                       *)
(***************************************************************************)
\* Who a check's alert belongs to when the nodes D are down.
Judged(c, D, grouped) ==
    IF IsLiveness(c) THEN RootCause(NodeOf(c), D, grouped)
    ELSE IF NodeOf(c) \in D THEN NodeOf(c) ELSE NoNode

\* The alerts to reconsider after "changed" (NoNode for a regroup) flipped,
\* given the down set D, the open alerts A and whether grouping is on.
Candidates(changed, D, A, grouped) ==
    {[check |-> c, alert |-> A[c], rc |-> Judged(c, D, grouped)] :
        c \in {k \in Checks :
                 /\ A[k] # NoAlert
                 /\ IF IsLiveness(k)
                    THEN NodeOf(k) # changed /\ (Judged(k, D, grouped) # NoNode \/ A[k].rc # NoNode)
                    ELSE NodeOf(k) = changed}}

Sweep(changed) == [NoView EXCEPT !.step = "look", !.changed = changed]

\* The down set and the grouping a reattribution judges by.
Look(t) ==
    /\ view[t].step = "look" /\ unholding[t] = {} /\ (t = "ingest" => holding = {})
    /\ view' = [view EXCEPT ![t].step = "snap", ![t].down = down, ![t].grouped = Grouped]
    /\ UNCHANGED <<engine, config, call, todo, holding, unholding, out, noted, look, delivery,
                   records, lost, spent>>
    /\ Excuse

\* The open alerts it will reconsider.
Snap(t) ==
    /\ view[t].step = "snap"
    /\ LET found == Candidates(view[t].changed, view[t].down, active, view[t].grouped)
       IN  /\ todo' = [todo EXCEPT ![t] = found]
           /\ view' = IF found = {} THEN [view EXCEPT ![t] = NoView]
                      ELSE [view EXCEPT ![t].step = "each"]
    /\ UNCHANGED <<engine, config, call, holding, unholding, out, noted, look, delivery, records,
                   lost, spent>>
    /\ Excuse

Return(t, acts) == out' = [out EXCEPT ![t] = @ \o acts]
Unlist(t, c) == unholding' = [unholding EXCEPT ![t] = {c}]

\* A held border its neighbour's commit has put inside the outage: recorded
\* now as the rolled-up fire it is.  One that is still a border stays held.
ReattributeHeld(t, x) ==
    /\ IsLiveness(x.check) /\ x.alert.held
    /\ IF x.rc # NoNode /\ IsOpen(x.check)
       THEN LET a == [active[x.check] EXCEPT !.rc = x.rc, !.held = FALSE]
            IN  /\ active' = [active EXCEPT ![x.check] = a]
                /\ Unlist(t, x.check)
                /\ Return(t, <<Action("fire", x.check, a)>>)
       ELSE UNCHANGED <<active, unholding, out>>
    /\ UNCHANGED releasing

\* A node that came back keeps its own alerts rolled up until their check has
\* been bad for its dwell again.
ReattributeReleases(t, x) ==
    /\ ~IsLiveness(x.check) /\ x.rc = NoNode /\ x.alert.rc # NoNode
    /\ releasing' = [releasing EXCEPT ![x.check] = [on |-> TRUE, n |-> 0]]
    /\ UNCHANGED <<active, unholding, out>>

\* A wrong reattribution: the incident of an alert just rolled up stays open.
AttributionActionsFireOnly(x, a) ==
    IF x.alert.rc # NoNode /\ x.rc = NoNode THEN <<Action("fire", x.check, a)>> ELSE <<>>

\* What a changed attribution says to the outside.
AttributionActions(x, a) ==
    CASE x.alert.rc = NoNode /\ x.rc # NoNode -> <<Action("suppress", x.check, a)>>
      [] x.alert.rc # NoNode /\ x.rc = NoNode -> <<Action("fire", x.check, a)>>
      [] OTHER -> <<>>

NoRelease == [on |-> FALSE, n |-> 0]

ReattributeMoves(t, x) ==
    /\ ~(IsLiveness(x.check) /\ x.alert.held)
    /\ ~(~IsLiveness(x.check) /\ x.rc = NoNode /\ x.alert.rc # NoNode)
    /\ releasing' = IF ~IsLiveness(x.check) /\ x.rc # NoNode
                    THEN [releasing EXCEPT ![x.check] = NoRelease] ELSE releasing
    /\ IF x.rc # x.alert.rc /\ IsOpen(x.check)
       THEN LET a == [active[x.check] EXCEPT !.rc = x.rc]
            IN  /\ active' = [active EXCEPT ![x.check] = a]
                /\ Return(t, AttributionActions(x, a))
       ELSE UNCHANGED <<active, out>>
    /\ UNCHANGED unholding

Reattribute(t) ==
    \E x \in todo[t] :
        /\ unholding[t] = {}
        /\ ReattributeHeld(t, x) \/ ReattributeReleases(t, x) \/ ReattributeMoves(t, x)
        /\ todo' = [todo EXCEPT ![t] = @ \ {x}]
        /\ view' = IF todo[t] = {x} THEN [view EXCEPT ![t] = NoView] ELSE view
        /\ UNCHANGED <<tracker, live, down, held, expired, sidePending, config, call, holding,
                       noted, look, delivery, records, lost, spent>>
        /\ Excuse
-----------------------------------------------------------------------------
(***************************************************************************)
(* The list of held checks has a lock of its own, taken after the one of   *)
(* the alerts was given back.                                              *)
(***************************************************************************)
Hold ==
    /\ holding # {}
    /\ held' = held \cup holding
    /\ expired' = expired \ holding
    /\ holding' = {}
    /\ UNCHANGED <<tracker, live, down, active, releasing, sidePending, config, call, sweeps,
                   unholding, out, noted, look, delivery, records, lost, spent>>
    /\ Excuse

Unhold(t) ==
    /\ unholding[t] # {}
    /\ held' = held \ unholding[t]
    /\ expired' = expired \ unholding[t]
    /\ unholding' = [unholding EXCEPT ![t] = {}]
    /\ UNCHANGED <<tracker, live, down, active, releasing, sidePending, config, call, sweeps,
                   holding, out, noted, look, delivery, records, lost, spent>>
    /\ Excuse
-----------------------------------------------------------------------------
(***************************************************************************)
(* The ingest task: one observation of one check.  A liveness check is     *)
(* judged first, and the decision applied to its alert under another lock. *)
(***************************************************************************)
Raw(n, s) == IF cfg.loaded /\ n \in cfg.maint THEN "maintenance" ELSE s

StateOf(outcome) ==
    CASE outcome = "reachable" -> "ok"
      [] outcome = "unreachable" -> "unreachable"
      [] outcome = "error" -> "unknown"

\* The liveness rule resolves for n: only in a configuration that was loaded.
Alerting(n) == cfg.loaded /\ n \in cfg.ruled

\* A check that still holds its seed publishes nothing.
LiveAfter(n, t) == IF t.confirmed THEN [live EXCEPT ![n] = t.committed] ELSE live

\* A wrong down set: a node whose window opens stays in it.
DownAfterKeepsWindows(n, t) ==
    CASE t.confirmed /\ t.committed = "unreachable" -> down \cup {n}
      [] t.confirmed /\ t.committed = "ok" -> down \ {n}
      [] OTHER -> down

\* The down set moves with what is published.
DownAfter(n, t) ==
    CASE t.confirmed /\ t.committed = "unreachable" -> down \cup {n}
      [] t.confirmed /\ t.committed # "unreachable" -> down \ {n}
      [] OTHER -> down

\* A wrong sweep: a recovery is not looked at.
ResweepsOnEntry(n, t) == t.confirmed /\ t.committed = "unreachable" /\ n \notin down

\* Whether the observation makes the others' roll-up worth another look: the
\* node entered or left the down set, except into maintenance, or it left
\* maintenance.
Resweeps(n, t) ==
    LET entering == t.committed = "maintenance"
        flipped == (n \in down) # (t.committed = "unreachable")
    IN  /\ t.confirmed
        /\ (flipped /\ ~entering) \/ (live[n] = "maintenance" /\ ~entering)

\* The alert of an outage; a border with a failing neighbour waits.
OutageOf(n, D) ==
    LET rc == RootCause(n, D, Grouped)
    IN  [state |-> "unreachable", side |-> "none", rc |-> rc, held |-> HoldUntil(n, rc)]

\* What a liveness poll asks for: with no rule the alert a deleted rule left
\* behind is closed, else a transition opens or closes the alert.
Decision(n, t, D) ==
    LET c == Liveness(n)
        moved == t.committed # tracker[c].committed
        Decide(step, a) == [step |-> step, check |-> c, alert |-> a, sweep |-> Resweeps(n, t),
                            base |-> Base]
    IN  CASE ~Alerting(n) -> Decide("strand", NoAlert)
          [] Alerting(n) /\ moved /\ IsProblem(t.committed) -> Decide("fire", OutageOf(n, D))
          [] Alerting(n) /\ moved /\ ~IsProblem(t.committed) -> Decide("close", NoAlert)
          [] OTHER -> NoCall

ObserveLiveness(n, o) ==
    LET c == Liveness(n)
        t == ObserveSample(tracker[c], Raw(n, StateOf(o)))
        D == DownAfter(n, t)
    IN  /\ Idle("ingest") /\ ~(cfg.loaded /\ cfg.paused)
        /\ Spends(Changes(c, t))
        /\ tracker' = [tracker EXCEPT ![c] = t]
        /\ live' = LiveAfter(n, t)
        /\ down' = D
        /\ call' = Decision(n, t, D)
        /\ UNCHANGED <<active, held, expired, releasing, sidePending, config, sweeps, holding,
                       unholding, out, noted, look, delivery, records, lost>>
        /\ Excuse

\* A wrong fire: a notification put on hold is sent as well.
OpensHeldToo(c, a) ==
    /\ active' = [active EXCEPT ![c] = a]
    /\ holding' = IF a.held THEN {c} ELSE {}
    /\ Return("ingest", <<Action("fire", c, a)>>)
    /\ UNCHANGED unholding

\* Opening the alert of an outage: sent now, or put on the list of held checks.
Opens(c, a) ==
    /\ active' = [active EXCEPT ![c] = a]
    /\ holding' = IF a.held THEN {c} ELSE {}
    /\ Return("ingest", IF a.held THEN <<>> ELSE <<Action("fire", c, a)>>)
    /\ UNCHANGED unholding

\* A wrong close: the notification stays on the list of held checks.
CloseForgetsHold(c) ==
    /\ active' = [active EXCEPT ![c] = NoAlert]
    /\ Return("ingest", IF IsOpen(c) /\ ~active[c].held
                        THEN <<Action("resolve", c, active[c])>> ELSE <<>>)
    /\ UNCHANGED <<holding, unholding>>

\* Closing a check's alert; one that was held was never sent or recorded.
Close(c) ==
    /\ active' = [active EXCEPT ![c] = NoAlert]
    /\ IF active[c].held THEN Unlist("ingest", c) ELSE UNCHANGED unholding
    /\ Return("ingest", IF IsOpen(c) /\ ~active[c].held
                        THEN <<Action("resolve", c, active[c])>> ELSE <<>>)
    /\ UNCHANGED holding

\* A wrong close: "no configuration yet" is taken for "no rule".
ClosesStrandedUnloaded(c) == Close(c)

\* No rule, no paging: an alert left open by a deleted rule is closed, but not
\* by a configuration that was never loaded.
ClosesStranded(c) ==
    IF cfg.loaded THEN Close(c) ELSE UNCHANGED <<active, holding, unholding, out>>

\* The decision is applied; the others are looked at next when the node entered
\* or left the down set.
Apply ==
    /\ \/ call.step = "fire" /\ Opens(call.check, call.alert)
       \/ call.step = "close" /\ Close(call.check)
       \/ call.step = "strand" /\ ClosesStranded(call.check)
    /\ call' = NoCall
    /\ view' = IF call.sweep THEN [view EXCEPT !["ingest"] = Sweep(NodeOf(call.check))] ELSE view
    /\ UNCHANGED <<tracker, live, down, held, expired, releasing, sidePending, config, todo,
                   noted, look, delivery, records, lost, spent>>
    /\ Excuse

\* The sample is on the other side of the open alert's band, at its severity.
OtherSide(c, raw, r) ==
    IsOpen(c) /\ active[c].state = raw /\ active[c].side # "none" /\ active[c].side # r.side

\* A reading that commits a transition: the transition decides what is said.
ReadingCommits(n, c, raw, r) ==
    /\ releasing' = [releasing EXCEPT ![c] = NoRelease]
    /\ sidePending' = [sidePending EXCEPT ![c] = 0]
    /\ IF IsProblem(raw)
       THEN LET a == [state |-> raw, side |-> r.side, held |-> FALSE,
                      rc |-> IF n \in down THEN n ELSE NoNode]
            IN  /\ active' = [active EXCEPT ![c] = a]
                /\ Return("ingest", <<Action("fire", c, a)>>)
                /\ UNCHANGED <<holding, unholding>>
       ELSE Close(c)

\* A wrong release: a good sample ends the wait with the marker still on.
ReleaseAfterGoodSample(c, raw) ==
    CASE ~releasing[c].on \/ ~IsProblem(raw) -> NoRelease
      [] releasing[c].on /\ IsProblem(raw) /\ releasing[c].n + 1 < Dwell ->
            [on |-> TRUE, n |-> releasing[c].n + 1]
      [] OTHER -> NoRelease

\* The release of a check whose node came back: counted, reset or over.
ReleaseAfter(c, raw) ==
    CASE ~releasing[c].on -> NoRelease
      [] releasing[c].on /\ ~IsProblem(raw) -> [on |-> TRUE, n |-> 0]
      [] releasing[c].on /\ IsProblem(raw) /\ releasing[c].n + 1 < Dwell ->
            [on |-> TRUE, n |-> releasing[c].n + 1]
      [] OTHER -> NoRelease

\* A reading that commits nothing: a run on the other side of the band re-fires
\* the alert with that side; a full run of bad samples takes the marker off.
\* Both at once fire once.
ReadingHolds(c, raw, r) ==
    LET turns == OtherSide(c, raw, r) /\ sidePending[c] + 1 >= Dwell
        released == /\ releasing[c].on /\ IsProblem(raw) /\ releasing[c].n + 1 >= Dwell
                    /\ IsOpen(c) /\ active[c].rc # NoNode
        a == [active[c] EXCEPT !.side = IF turns THEN r.side ELSE @,
                               !.rc = IF released THEN NoNode ELSE @]
    IN  /\ sidePending' = [sidePending EXCEPT
                ![c] = IF OtherSide(c, raw, r) /\ ~turns THEN @ + 1 ELSE 0]
        /\ releasing' = [releasing EXCEPT ![c] = ReleaseAfter(c, raw)]
        /\ active' = [active EXCEPT ![c] = a]
        /\ Return("ingest", IF turns \/ released THEN <<Action("fire", c, a)>> ELSE <<>>)
        /\ UNCHANGED <<holding, unholding>>

ObserveReading(n, r) ==
    LET c == Reading(n)
        raw == Raw(n, r.state)
        t == ObserveSample(tracker[c], raw)
    IN  /\ Idle("ingest") /\ ~cfg.paused /\ cfg.loaded
        /\ tracker' = [tracker EXCEPT ![c] = t]
        /\ IF t.committed # tracker[c].committed
           THEN ReadingCommits(n, c, raw, r) ELSE ReadingHolds(c, raw, r)
        /\ Spends(Changes(c, t) \cup (IF r.side = "below" /\ spent["low"] = 0 THEN {"low"} ELSE {}))
        /\ UNCHANGED <<live, down, held, expired, config, call, sweeps, noted, look, delivery,
                       records, lost>>
        /\ Excuse
-----------------------------------------------------------------------------
(***************************************************************************)
(* The held task: every tick it snapshots the held checks, judges each,    *)
(* and releases the ones whose wait is over, asking again under the lock.  *)
(***************************************************************************)
Expire(c) ==
    /\ c \in held \ expired
    /\ expired' = expired \cup {c}
    /\ UNCHANGED <<tracker, live, down, active, held, releasing, sidePending, config,
                   tasks, delivery, records, lost, spent>>
    /\ UNCHANGED excused

HeldTick ==
    /\ Idle("held") /\ held # {}
    /\ look' = [NoLook EXCEPT !.snap = held]
    /\ UNCHANGED <<engine, config, call, sweeps, holding, unholding, out, noted, delivery,
                   records, lost, spent>>
    /\ UNCHANGED excused

\* A wrong wait: no time limit.
StillWaitsForever(c) == MayWait /\ FailingNeighbours(NodeOf(c)) # {}

\* Whether a held check goes on waiting for its neighbours.
StillWaits(c) == MayWait /\ c \notin expired /\ FailingNeighbours(NodeOf(c)) # {}

\* One check of the snapshot: gone, held over by the pause or the wait, or ready.
HeldJudge ==
    \E c \in look.snap :
        /\ look.ready = <<>> /\ unholding["held"] = {}
        /\ look' = [snap |-> look.snap \ {c},
                    ready |-> IF IsOpen(c) /\ ~cfg.paused /\ ~StillWaits(c) THEN <<c>> ELSE <<>>]
        /\ IF IsOpen(c) THEN UNCHANGED unholding ELSE Unlist("held", c)
        /\ UNCHANGED <<engine, config, call, sweeps, holding, out, noted, delivery, records,
                       lost, spent>>
        /\ Excuse

\* Asked again under the lock of the alerts; the list is left afterwards.
HeldRelease ==
    /\ look.ready # <<>>
    /\ LET c == look.ready[1]
           a == [active[c] EXCEPT !.held = FALSE]
       IN  /\ Unlist("held", c)
           /\ IF active[c].held
              THEN /\ active' = [active EXCEPT ![c] = a]
                   /\ Return("held", <<Action("fire", c, a)>>)
              ELSE UNCHANGED <<active, out>>
    /\ look' = [look EXCEPT !.ready = <<>>]
    /\ UNCHANGED <<tracker, live, down, held, expired, releasing, sidePending, config, call,
                   sweeps, holding, noted, delivery, records, lost, spent>>
    /\ Excuse
-----------------------------------------------------------------------------
(***************************************************************************)
(* The config task: its refresh loop installs what the database holds, and *)
(* judges the open alerts again when the base was rebuilt.                 *)
(***************************************************************************)
\* What every rebuild does with the configuration it read.
Install(new) ==
    /\ cfg' = new
    /\ regrouped' = TRUE
    /\ view' = [view EXCEPT !["config"] = Sweep(NoNode)]
    /\ UNCHANGED <<call, todo, holding, unholding, out, noted, look>>

\* The first cycle after a start rebuilds the base.
FirstRefresh ==
    /\ Idle("config") /\ ~regrouped
    /\ Install([cfg EXCEPT !.loaded = TRUE])
    /\ UNCHANGED <<engine, delivery, records, lost, spent>>
    /\ Excuse

\* So does an edit of a rule, of the grouping level or of waiting.
EditRefresh ==
    /\ Idle("config") /\ regrouped /\ Spend("edit")
    /\ \/ \E n \in RuleEdits :
            Install([cfg EXCEPT !.ruled = IF n \in @ THEN @ \ {n} ELSE @ \cup {n}])
       \/ "grouping" \in Edits /\ Install([cfg EXCEPT !.grouped = ~@])
       \/ "waiting" \in Edits /\ Install([cfg EXCEPT !.wait = ~@])
    /\ UNCHANGED <<engine, delivery, records, lost>>
    /\ Excuse

\* A window or a pause that opens or ends swaps the configuration and no more.
CoverageRefresh ==
    /\ Idle("config") /\ regrouped
    /\ \/ \E n \in Nodes \ cfg.maint :
            Spend("window") /\ cfg' = [cfg EXCEPT !.maint = @ \cup {n}]
       \/ \E n \in cfg.maint : cfg' = [cfg EXCEPT !.maint = @ \ {n}] /\ UNCHANGED spent
       \/ ~cfg.paused /\ Spend("pause") /\ cfg' = [cfg EXCEPT !.paused = TRUE]
       \/ cfg.paused /\ cfg' = [cfg EXCEPT !.paused = FALSE] /\ UNCHANGED spent
    /\ UNCHANGED <<engine, regrouped, tasks, delivery, records, lost>>
    /\ Excuse
-----------------------------------------------------------------------------
(***************************************************************************)
(* Recording, queueing and delivering what a task's call returned.         *)
(***************************************************************************)
Row(a) == [state |-> a.state, side |-> a.side]
NoRow == Row(NoAlert)

\* The row an action leaves: a fire's, or the end of it; a roll-up leaves none.
RowOf(act) == IF act.kind = "fire" THEN Row(act.alert) ELSE NoRow
LeavesRow(act) == act.kind # "suppress"

Unwritten == {c \in Checks : rows[c] # {}}
HasRoom == Cardinality(Unwritten) < RowsMax

\* The poll path hands its row to the batch writer and goes on.
Batched(c, row) ==
    /\ rows' = [rows EXCEPT ![c] = {row}]
    /\ UNCHANGED history

\* The other tasks write their row and wait for it, and so does the poll path
\* when the writer's channel is full.  History tells a check's rows apart by the
\* time of the transition, so an older row that comes later changes nothing.
Written(c, row) ==
    /\ history' = [history EXCEPT ![c] = row]
    /\ rows' = [rows EXCEPT ![c] = {}]

Record(t) ==
    /\ Returned(t) /\ out[t] # <<>> /\ ~noted[t] /\ LeavesRow(Head(out[t]))
    /\ LET act == Head(out[t])
       IN  IF t = "ingest" /\ HasRoom THEN Batched(act.check, RowOf(act))
           ELSE Written(act.check, RowOf(act))
    /\ noted' = [noted EXCEPT ![t] = TRUE]
    /\ UNCHANGED <<engine, config, call, sweeps, holding, unholding, out, look, delivery, lost,
                   spent>>
    /\ UNCHANGED excused

\* The batch writer writes what waits for it.
Flush ==
    /\ Unwritten # {}
    /\ history' = [c \in Checks |-> IF rows[c] = {} THEN history[c]
                                    ELSE CHOOSE row \in rows[c] : TRUE]
    /\ rows' = [c \in Checks |-> {}]
    /\ UNCHANGED <<engine, config, tasks, delivery, lost, spent>>
    /\ UNCHANGED excused

\* Only then is the action queued for delivery.
Send(t) ==
    /\ Returned(t) /\ out[t] # <<>> /\ (noted[t] \/ ~LeavesRow(Head(out[t])))
    /\ Len(queue) < QueueMax
    /\ queue' = Append(queue, Head(out[t]))
    /\ out' = [out EXCEPT ![t] = Tail(@)]
    /\ noted' = [noted EXCEPT ![t] = FALSE]
    /\ UNCHANGED <<engine, config, call, sweeps, holding, unholding, look, dedup, sides,
                   incidents, records, lost, spent>>
    /\ UNCHANGED excused

\* The channel took the request, or every attempt at it failed.
Dispatch(c, incident) ==
    \/ /\ incidents' = incident
       /\ lost' = lost \ {c}
       /\ UNCHANGED spent
    \/ /\ Spend("fail")
       /\ lost' = lost \cup {c}
       /\ UNCHANGED incidents

\* A wrong fire: a side change is a duplicate like any other.
DeliverFireOneSided(c, a) ==
    LET k == Key(c, a)
    IN  IF a.rc # NoNode
        THEN UNCHANGED <<dedup, sides, incidents, lost, spent>>
        ELSE /\ sides' = [sides EXCEPT ![k] = a.side]
             /\ IF k \in dedup
                THEN UNCHANGED <<dedup, incidents, lost, spent>>
                ELSE /\ Dispatch(c, [incidents EXCEPT ![k] = a.side])
                     /\ dedup' = IF c \in lost' THEN dedup \ {k} ELSE dedup \cup {k}

\* A fire: skipped when rolled up, a duplicate when its key is open on the same
\* side, else sent.
DeliverFire(c, a) ==
    LET k == Key(c, a)
        turned == a.side # "none" /\ sides[k] # "none" /\ sides[k] # a.side
    IN  IF a.rc # NoNode
        THEN UNCHANGED <<dedup, sides, incidents, lost, spent>>
        ELSE /\ sides' = [sides EXCEPT ![k] = a.side]
             /\ IF k \in dedup /\ ~turned
                THEN UNCHANGED <<dedup, incidents, lost, spent>>
                ELSE /\ Dispatch(c, [incidents EXCEPT ![k] = a.side])
                     /\ dedup' = IF c \in lost' THEN dedup \ {k} ELSE dedup \cup {k}

\* A resolve or a roll-up closes the key's incident; a rolled-up alert's
\* resolve closes nothing, its fire was never delivered.
DeliverClose(kind, c, a) ==
    LET k == Key(c, a)
    IN  /\ sides' = [sides EXCEPT ![k] = "none"]
        /\ dedup' = dedup \ {k}
        /\ IF kind = "resolve" /\ a.rc # NoNode
           THEN UNCHANGED <<incidents, lost, spent>>
           ELSE Dispatch(c, [incidents EXCEPT ![k] = "closed"])

Deliver ==
    /\ queue # <<>>
    /\ queue' = Tail(queue)
    /\ LET act == Head(queue)
       IN  IF act.kind = "fire" THEN DeliverFire(act.check, act.alert)
           ELSE DeliverClose(act.kind, act.check, act.alert)
    /\ UNCHANGED <<engine, config, tasks, records>>
    /\ UNCHANGED excused
-----------------------------------------------------------------------------
(***************************************************************************)
(* A restart.  Memory is gone, the rows that wait for the batch writer     *)
(* too; the open alerts come back from history with their state, before    *)
(* any configuration is loaded.                                            *)
(***************************************************************************)
Recorded(c) == history[c] # NoRow
WasDown == {n \in Nodes : history[Liveness(n)].state = "unreachable"}

RestoredAlert(c) ==
    IF ~Recorded(c) THEN NoAlert
    ELSE [state |-> history[c].state, side |-> history[c].side, held |-> FALSE,
          rc |-> IF ~IsLiveness(c) /\ NodeOf(c) \in WasDown THEN NodeOf(c) ELSE NoNode]

RestoredTracker(c) == IF Recorded(c) THEN Settled(history[c].state) ELSE Seed

Queued == {queue[i].check : i \in DOMAIN queue}

Restart ==
    /\ Spend("crash")
    /\ tracker' = [c \in Checks |-> RestoredTracker(c)]
    /\ live' = [n \in Nodes |-> IF n \in WasDown THEN "unreachable" ELSE "unseen"]
    /\ down' = WasDown
    /\ active' = [c \in Checks |-> RestoredAlert(c)]
    /\ held' = {}
    /\ expired' = {}
    /\ releasing' = [c \in Checks |-> NoRelease]
    /\ sidePending' = [c \in Checks |-> 0]
    /\ \E primed \in BOOLEAN : cfg' = [cfg EXCEPT !.loaded = primed]
    /\ regrouped' = FALSE
    /\ call' = NoCall
    /\ view' = [t \in Tasks |-> NoView]
    /\ todo' = [t \in Tasks |-> {}]
    /\ holding' = {}
    /\ unholding' = [t \in Tasks |-> {}]
    /\ out' = [t \in Tasks |-> <<>>]
    /\ noted' = [t \in Tasks |-> FALSE]
    /\ look' = NoLook
    /\ queue' = <<>>
    /\ rows' = [c \in Checks |-> {}]
    /\ dedup' = {}
    /\ sides' = [k \in Keys |-> "none"]
    /\ lost' = lost \cup (UNION {Touches(t) : t \in Tasks}) \cup Queued \cup Unwritten
                    \cup {c \in Checks : IsOpen(c) /\ RestoredAlert(c).rc # active[c].rc}
    /\ UNCHANGED <<history, incidents>>
    /\ Excuse
-----------------------------------------------------------------------------
Init ==
    /\ tracker = [c \in Checks |-> Seed]
    /\ live = [n \in Nodes |-> "unseen"]
    /\ down = {}
    /\ active = [c \in Checks |-> NoAlert]
    /\ held = {} /\ expired = {}
    /\ releasing = [c \in Checks |-> NoRelease]
    /\ sidePending = [c \in Checks |-> 0]
    /\ \E wait \in Waits :
         cfg = [loaded |-> TRUE, grouped |-> TRUE, wait |-> wait, paused |-> FALSE,
                maint |-> {}, ruled |-> Nodes]
    /\ regrouped = TRUE
    /\ call = NoCall
    /\ view = [t \in Tasks |-> NoView]
    /\ todo = [t \in Tasks |-> {}]
    /\ holding = {}
    /\ unholding = [t \in Tasks |-> {}]
    /\ out = [t \in Tasks |-> <<>>]
    /\ noted = [t \in Tasks |-> FALSE]
    /\ look = NoLook
    /\ queue = <<>>
    /\ rows = [c \in Checks |-> {}]
    /\ history = [c \in Checks |-> NoRow]
    /\ dedup = {}
    /\ sides = [k \in Keys |-> "none"]
    /\ incidents = [k \in Keys |-> "closed"]
    /\ lost = {} /\ excused = {}
    /\ spent = [what \in DOMAIN Budget |-> 0]

Next ==
    \/ \E n \in Nodes, o \in Outcomes : ObserveLiveness(n, o)
    \/ \E n \in Readers, r \in Readings : ObserveReading(n, r)
    \/ Apply \/ Hold
    \/ \E t \in Tasks : Unhold(t) \/ Look(t) \/ Snap(t) \/ Reattribute(t)
    \/ \E c \in Checks : Expire(c)
    \/ HeldTick \/ HeldJudge \/ HeldRelease
    \/ FirstRefresh \/ EditRefresh \/ CoverageRefresh
    \/ \E t \in Tasks : Record(t) \/ Send(t)
    \/ Flush \/ Deliver
    \/ Restart

Spec == Init /\ [][Next]_vars

\* The held and the config task keep running, senders waiting for room in the queue
\* are served in their order, time passes, and a pause ends.  Nothing is asked of
\* the poll path.
Fairness ==
    /\ WF_vars(HeldTick \/ HeldJudge \/ HeldRelease \/ Unhold("held") \/ Record("held"))
    /\ WF_vars(\/ FirstRefresh \/ Look("config") \/ Snap("config") \/ Reattribute("config")
               \/ Unhold("config") \/ Record("config"))
    /\ SF_vars(Send("held")) /\ SF_vars(Send("config"))
    /\ WF_vars(Deliver)
    /\ \A c \in Checks : WF_vars(Expire(c))
    /\ SF_vars(CoverageRefresh /\ cfg.paused /\ ~cfg'.paused)

FairSpec == Spec /\ Fairness
-----------------------------------------------------------------------------
Quiet == (\A t \in Tasks : Idle(t)) /\ queue = <<>>

\* No decision is being applied and no reattribution is under way.
AtRest == call = NoCall /\ \A t \in Tasks : view[t] = NoView /\ todo[t] = {}

\* The checks whose alert has been changed and their place on the held list not.
HalfDone == holding \cup UNION {unholding[t] : t \in Tasks}

\* The row history has of a check, or will have once the batch writer is done.
Newest(c) == IF rows[c] = {} THEN history[c] ELSE CHOOSE row \in rows[c] : TRUE

\* An alert that speaks for itself: open, not rolled up, not held.
Speaking(a) == a # NoAlert /\ a.rc = NoNode /\ ~a.held
Speaks(c) == Speaking(active[c])

\* Types; the down set holds exactly the nodes published as unreachable, and a
\* wait that ran out is one that is still held (process_check, release_held).
TypeOK ==
    /\ tracker \in [Checks -> [committed : States, confirmed : BOOLEAN,
                               cand : States \cup {"none"}, n : 0 .. Dwell]]
    /\ live \in [Nodes -> States \cup {"unseen"}]
    /\ down = {n \in Nodes : live[n] = "unreachable"}
    /\ active \in [Checks -> Alerts \cup {NoAlert}]
    /\ held \subseteq Checks /\ expired \subseteq held
    /\ releasing \in [Checks -> [on : BOOLEAN, n : 0 .. Dwell]]
    /\ sidePending \in [Checks -> 0 .. Dwell]
    /\ incidents \in [Keys -> Sides \cup {"closed"}]
    /\ Len(queue) <= QueueMax

\* Once every path is quiet, an alert that speaks for itself has its incident
\* open, and the incident names the side of the band the alert is on, unless a
\* fault cost the check a notification or two tasks held notifications of it at
\* the same time (deliver, advance_release, reattribute).
NoMissedPage ==
    Quiet => \A c \in Checks \ (lost \cup excused) :
        Speaks(c) => incidents[Key(c, active[c])] = active[c].side

\* Once every path is quiet, an open incident belongs to an alert that speaks
\* for itself, unless a fault cost the check a notification or two tasks held
\* notifications of it at the same time.
NoStrandedIncident ==
    Quiet => \A c \in Checks \ (lost \cup excused), s \in {"warning", "critical"} :
        incidents[<<c, s>>] # "closed" => Speaks(c) /\ Severity(active[c].state) = s

\* The list of held checks and the marks on their alerts are two maps under two
\* locks: but for a check between the two, they agree, and what waits is a border,
\* an unrolled outage (hold_until, process_check, reattribute, release_held).
HeldIsBorder ==
    \A c \in Checks \ (HalfDone \cup excused) :
        /\ c \in held <=> active[c].held
        /\ c \in held => active[c].state = "unreachable" /\ active[c].rc = NoNode

\* A held notification was neither sent nor recorded, nor is a row of it waiting
\* for the batch writer, unless a fault cost the check a notification.
HeldIsUnsaid ==
    Quiet => \A c \in held \ (lost \cup excused) :
        Newest(c) = NoRow /\ \A s \in {"warning", "critical"} : incidents[<<c, s>>] = "closed"

\* Outside maintenance, with the base installed and no reattribution under way,
\* every outage is attributed as the grouping of the nodes that are down now
\* says, and a node's other alerts are part of its outage while it is down.
RollupsCurrent ==
    (regrouped /\ AtRest /\ \A n \in Nodes : live[n] # "maintenance") =>
        \A c \in {k \in Checks : IsOpen(k)} \ excused :
            IF IsLiveness(c)
            THEN active[c].rc = RootCause(NodeOf(c), down, Grouped)
            ELSE IF NodeOf(c) \in down THEN active[c].rc = NodeOf(c)
                 ELSE active[c].rc # NoNode => releasing[c].on

\* A rolled-up outage is spoken for: outside maintenance, with no reattribution
\* under way and the liveness rule left alone, the node it is rolled up into has
\* an open alert of its own that is not rolled up in turn (attribute,
\* resweep_suppression, regroup).
SpokenFor ==
    (regrouped /\ AtRest /\ \A n \in Nodes : live[n] # "maintenance") =>
        \A n \in Nodes :
            LET c == Liveness(n)
                speaker == Liveness(active[c].rc)
            IN  (active[c].rc # NoNode /\ {c, speaker} \cap excused = {}) =>
                    IsOpen(speaker) /\ active[speaker].rc = NoNode

\* "So a remote incident is never left dangling open": once every path is quiet,
\* an open incident belongs to a check with an open alert (dispatch_resolve).
NeverDangling == Quiet => \A k \in Keys : incidents[k] # "closed" => IsOpen(k[1])

\* An outage keeps its alert: while the liveness rule exists and the committed
\* state stays unreachable, nothing closes the alert, a restart included once
\* its row is written.
OutageKeepsItsAlert ==
    [][\A n \in Nodes :
         LET c == Liveness(n)
         IN  (/\ IsOpen(c) /\ Recorded(c) /\ ~active[c].held
              /\ n \in cfg.ruled /\ c \notin excused
              /\ tracker'[c].committed = "unreachable")
             => IsOpen(c)']_vars

\* A wait ends: what is on the list of held checks leaves it, paged, rolled up or
\* over, races included.
HeldEnds == \A c \in Checks : (c \in held) ~> (c \notin held)

\* Every notification that waits is on the list release_held reads.  It does not
\* hold for a check two tasks have met at: see the README.
HoldNeverForgotten == \A c \in Checks \ HalfDone : active[c].held => c \in held
-----------------------------------------------------------------------------
(***************************************************************************)
(* What every step preserves: the parts of the inductive invariant behind  *)
(* the safety properties above.                                            *)
(***************************************************************************)
Pending == [check : Checks, alert : Alerts, rc : Nodes \cup {NoNode}]
Acts == [kind : {"fire", "resolve", "suppress"}, check : Checks, alert : Alerts]
Views == [step : {"none", "look", "snap", "each"}, changed : Nodes \cup {NoNode},
          down : SUBSET Nodes, grouped : BOOLEAN]

\* The types TypeOK leaves open.
Shapes ==
    /\ cfg \in [loaded : BOOLEAN, grouped : BOOLEAN, wait : BOOLEAN, paused : BOOLEAN,
                 maint : SUBSET Nodes, ruled : SUBSET Nodes]
    /\ regrouped \in BOOLEAN
    /\ view \in [Tasks -> Views]
    /\ todo \in [Tasks -> SUBSET Pending]
    /\ holding \subseteq Checks
    /\ unholding \in [Tasks -> SUBSET Checks]
    /\ out \in [Tasks -> Seq(Acts)]
    /\ look \in [snap : SUBSET Checks, ready : Seq(Checks)]
    /\ queue \in Seq(Acts)
    /\ rows \in [Checks -> SUBSET ([state : States, side : Sides] \cup {NoRow})]
    /\ history \in [Checks -> [state : States, side : Sides] \cup {NoRow}]
    /\ sides \in [Keys -> Sides]

\* What ingest decided, for as long as the configuration it read is in force: an
\* outage's alert with its attribution, a recovery, or a check without a rule.
CallInv ==
    \/ call = NoCall
    \/ \E n \in Nodes :
          /\ call.check = Liveness(n) /\ call.sweep \in BOOLEAN
          /\ \/ /\ call.step = "fire" /\ call.alert \in Alerts
                /\ call.alert.state = "unreachable" /\ tracker[call.check].committed = "unreachable"
                /\ \/ call.check \in excused
                   \/ /\ call.base = Base /\ ~active[call.check].held
                      /\ call.alert.rc = RootCause(n, down, Grouped)
                /\ call.alert.held => call.alert.rc = NoNode
             \/ call.step = "close" /\ tracker[call.check].committed # "unreachable"
             \/ /\ call.step = "strand"
                /\ call.check \in excused \/ (call.base = Base /\ ~Alerting(n))

\* A task does one thing at a time, and the held task attributes nothing.
OrderInv ==
    /\ call # NoCall => view["ingest"] = NoView /\ holding = {} /\ unholding["ingest"] = {}
    /\ view["config"].changed = NoNode /\ view["held"] = NoView
    /\ \A t \in Tasks :
          /\ todo[t] # {} => view[t].step = "each"
          /\ view[t].step = "none" => view[t] = NoView
    /\ view["ingest"].step = "look" \/ view["ingest"] = NoView \/ view["ingest"].down = down
    /\ view["ingest"].step \in {"snap", "each"} => holding = {}
    /\ look.ready # <<>> => unholding["held"] = {}

\* What the engine published is what its tracker committed.
LiveInv ==
    \A n \in Nodes :
        /\ n \in down <=> tracker[Liveness(n)].committed = "unreachable"
        /\ live[n] # "unseen" => live[n] = tracker[Liveness(n)].committed

\* Two tasks are at one check only if it is excused.
MeetInv == Contended \subseteq excused

\* The alert of the check is about to be closed.
Closing(c) ==
    call.check = c /\ (call.step = "close" \/ (call.step = "strand" /\ cfg.loaded))

\* Only an outage that has not ended is marked as held; the list of held checks
\* follows the marks, step by step.
HoldInv ==
    /\ \A c \in Checks :
          active[c].held =>
              /\ IsLiveness(c) /\ active[c].state = "unreachable"
              /\ \/ c \in excused
                 \/ /\ active[c].rc = NoNode
                    /\ tracker[c].committed = "unreachable" \/ Closing(c)
    /\ \A c \in held \cup HalfDone \cup look.snap : IsLiveness(c)
    /\ look.ready # <<>> => IsLiveness(look.ready[1])
    /\ \A c \in Checks \ (HalfDone \cup excused) : c \in held <=> active[c].held
    /\ \A c \in holding \ excused : active[c].held
    /\ \A t \in Tasks : \A c \in unholding[t] \ excused : ~active[c].held

\* No outage is rolled up before a configuration is loaded.
UnloadedInv == regrouped => cfg.loaded

\* The attribution the down set and the grouping ask for.
Attribution(c) == Judged(c, down, Grouped)

\* What a task is about to attribute is what it saw the state ask for, which still
\* holds but for an excused check, and the alert is still as the task found it.
PendingInv ==
    \A t \in Tasks : \A x \in todo[t] :
        /\ \A y \in todo[t] : y.check = x.check => y = x
        /\ x.rc = Judged(x.check, view[t].down, view[t].grouped)
        /\ \/ x.check \in excused
           \/ /\ view[t].down = down /\ view[t].grouped = Grouped
              /\ IsOpen(x.check) => x.alert.rc = active[x.check].rc
              /\ x.alert.held => x.alert.rc = NoNode
              /\ active[x.check].held => x.alert.held
        /\ IsLiveness(x.check) \/ (t = "ingest" /\ x.alert = active[x.check])

Awaits(c) == \E t \in Tasks : \E x \in todo[t] : x.check = c

\* A reattribution that will look at every outage but the one of n itself.
Swept(n) ==
    \/ call.sweep /\ call.check # Liveness(n)
    \/ \E t \in Tasks :
          /\ view[t].changed # n
          /\ \/ view[t].step = "look"
             \/ view[t].step = "snap" /\ view[t].down = down /\ view[t].grouped = Grouped

\* One that will look at the other alerts of n.
SweptOwn(n) ==
    \/ call.sweep /\ call.check = Liveness(n)
    \/ view["ingest"].changed = n /\ view["ingest"].step \in {"look", "snap"}

\* An outage is attributed as the state asks, or about to be looked at.
OutageInv ==
    (regrouped /\ \A n \in Nodes : live[n] # "maintenance") =>
        \A n \in Nodes :
            LET c == Liveness(n)
            IN  (IsOpen(c) /\ c \notin excused) =>
                    active[c].rc = Attribution(c) \/ Awaits(c) \/ Swept(n) \/ call.check = c

\* So is a node's other alert; one that is being released is open, and its node
\* is up or about to be looked at.
ReleaseInv ==
    \A n \in Readers :
        LET c == Reading(n)
        IN  /\ releasing[c].on => IsOpen(c) /\ (n \in down => Awaits(c) \/ SweptOwn(n))
            /\ (IsOpen(c) /\ live[n] # "maintenance") =>
                  \/ Awaits(c)
                  \/ SweptOwn(n)
                  \/ IF n \in down THEN active[c].rc = n
                     ELSE active[c].rc # NoNode => releasing[c].on

IInv ==
    /\ TypeOK /\ Shapes /\ CallInv /\ OrderInv /\ LiveInv /\ MeetInv /\ HoldInv /\ UnloadedInv
    /\ PendingInv /\ OutageInv /\ ReleaseInv

\* With the rules left alone, a node that is down has its alert, or is about to.
RuledInv ==
    /\ cfg.ruled = Nodes
    /\ \A n \in Nodes : n \in down =>
          \/ Liveness(n) \in excused
          \/ IsOpen(Liveness(n))
          \/ call.check = Liveness(n) /\ call.step = "fire"
=============================================================================
