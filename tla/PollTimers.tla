----------------------------- MODULE PollTimers -----------------------------
(***************************************************************************)
(* When a poller runs the checks of its working set: the deadlines in      *)
(* crates/yagra-poller/src/working_set.rs, the ordered index over them in  *)
(* timers.rs, and the scheduler loop of assignment.rs that asks for as     *)
(* many due specs as the worker has room for.                              *)
(*                                                                         *)
(* A call of WorkingSet::due holds the working set's mutex.  It is spread  *)
(* over Ask, one Pop per spec and EndCall, and nothing else happens        *)
(* between them (the clock included: a call reads it once).                *)
(*                                                                         *)
(* Instants are kept relative to the present one, so that time needs no    *)
(* bound: due = -3 was three units ago.  A unit is a fraction of a         *)
(* millisecond: the heaps order by the exact instant, while lateness is    *)
(* compared and offsets are drawn in whole milliseconds.  Intervals are    *)
(* positive, as the API demands.                                           *)
(***************************************************************************)
EXTENDS Integers, FiniteSets, Sequences

CONSTANTS
    Nodes,        \* node ids
    JobSpecs,     \* a check of a node
    Interval,     \* JobSpec::interval_secs, in units
    Lists,        \* the spec lists a node may be given; << >> for none
    Stagger,      \* SPEC_STAGGER_MS, in units
    Grain,        \* units per millisecond
    Second,       \* units per second
    AdoptRate,    \* adopt_rate_per_sec; 0 disables the window
    MaxRoom,      \* bound on the free slots of the worker's channel
    MaxEdits,     \* how often the assignment may change
    MaxPauses     \* for how many units the poller may be suspended

ASSUME TimersAssumption ==
    /\ Nodes \subseteq Nat /\ IsFiniteSet(Nodes)
    /\ Interval \in [JobSpecs -> Nat \ {0}]
    /\ Lists \subseteq Seq(JobSpecs)
    /\ << >> \in Lists
    /\ Stagger \in Nat /\ Grain \in Nat \ {0} /\ Second \in Nat \ {0} /\ AdoptRate \in Nat
    /\ MaxRoom \in Nat /\ MaxEdits \in Nat /\ MaxPauses \in Nat

VARIABLES
    nodes,     \* WorkingSet::nodes: the scheduled specs of each node
    timers,    \* WorkingSet::timers: every key filed, with its tier
    call,      \* the due() in progress: slots left, and what it re-armed
    served,    \* a slot was used since the clock last moved
    edits,     \* changes of the assignment left
    pauses     \* units of suspension left

vars == <<nodes, timers, call, served, edits, pauses>>

ScheduledSpec == [spec : JobSpecs, due : Int]
TimerKey == [interval : Nat, due : Int, node : Nodes, index : Nat]

NoCall == [on |-> FALSE, left |-> 0, rearmed |-> {}]

(* Among the types: a spec is never scheduled further ahead than its own    *)
(* interval, or a handover would leave a hole in its polling.               *)
TypeOK ==
    /\ nodes \in [Nodes -> Seq(ScheduledSpec)]
    /\ \A n \in Nodes : \A i \in DOMAIN nodes[n] :
           nodes[n][i].due =< Interval[nodes[n][i].spec]
    /\ timers \subseteq TimerKey
    /\ call \in [on : BOOLEAN, left : Nat, rearmed : SUBSET TimerKey]
    /\ served \in BOOLEAN
    /\ edits \in Nat
    /\ pauses \in Nat

Init ==
    /\ nodes = [n \in Nodes |-> << >>]
    /\ timers = {}
    /\ call = NoCall
    /\ served = FALSE
    /\ edits = MaxEdits
    /\ pauses = MaxPauses

-----------------------------------------------------------------------------
(* Adoption of an assignment.                                               *)

SpecsOf(scheduled) == [i \in DOMAIN scheduled |-> scheduled[i].spec]

(* Which copy of its spec the k-th entry of a list is.                      *)
Copy(list, k) == Cardinality({i \in 1..k : list[i] = list[k]})

(* Mutant: every spec of an applied list is phased anew.                    *)
DonorsNone(old, list, k) == {}

(* The old entry whose phase the k-th new one keeps: the first unused equal *)
(* spec, that is the same copy of it.                                       *)
Donors(old, list, k) ==
    {j \in DOMAIN old : old[j].spec = list[k]
                        /\ Copy(SpecsOf(old), j) = Copy(list, k)}

Newcomers(old, list) == {k \in DOMAIN list : Donors(old, list, k) = {}}

Smaller(a, b) == IF a =< b THEN a ELSE b

(* How far the newcomers' common offset may be drawn: the window that       *)
(* `added` specs need at the adoption rate, within the interval of the      *)
(* first of them.                                                           *)
Bound(old, list, added) ==
    LET first    == CHOOSE k \in Newcomers(old, list) :
                        \A j \in Newcomers(old, list) : k =< j
        interval == Interval[list[first]]
    IN  IF AdoptRate = 0 THEN interval
        ELSE Smaller(interval, (added * Second) \div AdoptRate)

(* The offset is a whole number of milliseconds below the bound.            *)
Bases(old, list, added) ==
    LET ms == Bound(old, list, added) \div Grain
    IN  IF Newcomers(old, list) = {} \/ ms = 0 THEN {0}
        ELSE {Grain * b : b \in 0..(ms - 1)}

(* Mutant: an offset past the end of the interval is not folded back.       *)
OffsetUnfolded(spec, base, k) == base + (k - 1) * Stagger

Offset(spec, base, k) == (base + (k - 1) * Stagger) % Interval[spec]

Settle(old, list, base) ==
    [k \in DOMAIN list |->
        [spec |-> list[k],
         due  |-> IF Donors(old, list, k) = {} THEN Offset(list[k], base, k)
                  ELSE old[CHOOSE j \in Donors(old, list, k) : TRUE].due]]

(* reindex: a key for every scheduled spec, under the spec's interval.      *)
KeyOf(scheduled, n, i) ==
    [interval |-> Interval[scheduled[i].spec], due |-> scheduled[i].due,
     node |-> n, index |-> i]

Reindex(ns) == UNION {{KeyOf(ns[n], n, i) : i \in DOMAIN ns[n]} : n \in Nodes}

(* apply, with a complete snapshot or a delta: a node that is not in the    *)
(* delta keeps its specs, which is what settling an unchanged list does.    *)
(* One offset is drawn per node.                                            *)
Adopt(lists) ==
    LET added == Cardinality(UNION {{n} \X Newcomers(nodes[n], lists[n]) : n \in Nodes})
        drawn(n) == Bases(nodes[n], lists[n], added)
    IN  /\ ~call.on
        /\ \E base \in [Nodes -> UNION {drawn(n) : n \in Nodes}] :
              /\ \A n \in Nodes : base[n] \in drawn(n)
              /\ nodes' = [n \in Nodes |-> Settle(nodes[n], lists[n], base[n])]
        /\ timers' = Reindex(nodes')
        /\ UNCHANGED <<call, served, pauses>>

(* Core changed the assignment.                                             *)
Change(lists) ==
    /\ edits > 0
    /\ edits' = edits - 1
    /\ Adopt(lists)

(* Core sent again what the poller already has.                             *)
Resync ==
    /\ Adopt([n \in Nodes |-> SpecsOf(nodes[n])])
    /\ UNCHANGED edits

-----------------------------------------------------------------------------
(* Dispatch.                                                                *)

(* How late a key is, in whole milliseconds.                                *)
Behind(k) == IF k.due < 0 THEN (-k.due) \div Grain ELSE 0

SmallerId(a, b) == a.node < b.node \/ (a.node = b.node /\ a.index < b.index)

(* later_first: a has waited longer than b as a fraction of its interval,   *)
(* compared by cross-multiplication; ids break ties.                        *)
LaterFirst(a, b) ==
    \/ Behind(b) * a.interval < Behind(a) * b.interval
    \/ Behind(b) * a.interval = Behind(a) * b.interval /\ SmallerId(a, b)

(* Mutant: one heap over all deadlines instead of one per interval.         *)
IsRootSingleHeap(k) ==
    \A o \in timers : o # k
        => k.due < o.due \/ (k.due = o.due /\ SmallerId(k, o))

(* The root of a key's tier is the earliest deadline filed under it.        *)
IsRoot(k) ==
    \A o \in timers : o.interval = k.interval /\ o # k
        => k.due < o.due \/ (k.due = o.due /\ SmallerId(k, o))

DueRoots == {k \in timers : IsRoot(k) /\ k.due =< 0}

(* pop_best: the best of the roots that are due.                            *)
IsBest(k) == k \in DueRoots /\ \A o \in DueRoots : o # k => LaterFirst(k, o)

(* The scheduler holds a permit and asks for as much as there is room for.  *)
Ask(room) ==
    /\ ~call.on
    /\ call' = [on |-> TRUE, left |-> room, rearmed |-> {}]
    /\ UNCHANGED <<nodes, timers, served, edits, pauses>>

(* One interval on from the slot that fired, or from now when that is past  *)
(* too.                                                                     *)
Rearm(s) ==
    LET next == s.due + Interval[s.spec]
    IN  [s EXCEPT !.due = IF next =< 0 THEN Interval[s.spec] ELSE next]

(* Mutant: the key goes back as it was popped.                              *)
RearmedKeyAsPopped(k) == k

(* Filed under the spec's interval and its new deadline.                    *)
RearmedKey(k) ==
    LET s == Rearm(nodes[k.node][k.index])
    IN  [k EXCEPT !.interval = Interval[s.spec], !.due = s.due]

(* The next spec of the call: popped, turned into a job and re-armed.  Its  *)
(* key stays out of the index until the call ends.  A key whose spec is     *)
(* gone is dropped.                                                         *)
Pop(k) ==
    /\ call.on /\ call.left > 0
    /\ IsBest(k)
    /\ timers' = timers \ {k}
    /\ IF k.index \in DOMAIN nodes[k.node]
       THEN /\ nodes' = [nodes EXCEPT ![k.node][k.index] = Rearm(@)]
            /\ call' = [call EXCEPT !.left = @ - 1, !.rearmed = @ \cup {RearmedKey(k)}]
            /\ served' = TRUE
       ELSE UNCHANGED <<nodes, call, served>>
    /\ UNCHANGED <<edits, pauses>>

EndCall ==
    /\ call.on
    /\ call.left = 0 \/ DueRoots = {}
    /\ timers' = timers \cup call.rearmed
    /\ call' = NoCall
    /\ UNCHANGED <<nodes, served, edits, pauses>>

-----------------------------------------------------------------------------
(* Time.                                                                    *)

Overdue == {k \in Reindex(nodes) : k.due =< 0}

(* One unit later every deadline is one unit closer.                        *)
Later ==
    /\ ~call.on
    /\ nodes' = [n \in Nodes |-> [i \in DOMAIN nodes[n] |->
                    [nodes[n][i] EXCEPT !.due = @ - 1]]]
    /\ timers' = {[k EXCEPT !.due = @ - 1] : k \in timers}
    /\ served' = FALSE
    /\ UNCHANGED <<call, edits>>

(* A worker that is saturated still frees a slot per unit: probes end, or   *)
(* time out.  So a unit passes with specs due only if one was served in it. *)
Advance ==
    /\ Overdue = {} \/ served
    /\ Later
    /\ UNCHANGED pauses

(* The process is not running: a unit passes without a slot being used.     *)
Pause ==
    /\ pauses > 0
    /\ pauses' = pauses - 1
    /\ Later

Next ==
    \/ \E lists \in [Nodes -> Lists] : Change(lists)
    \/ Resync
    \/ \E room \in 1..MaxRoom : Ask(room)
    \/ \E k \in timers : Pop(k)
    \/ EndCall \/ Advance \/ Pause

Spec == Init /\ [][Next]_vars

(* The scheduler asks once per tick, a call runs to its end and time        *)
(* passes; a call only interrupts time, hence strong fairness.              *)
Fairness ==
    /\ WF_vars(\E room \in 1..MaxRoom : Ask(room))
    /\ WF_vars(\E k \in timers : Pop(k))
    /\ WF_vars(EndCall)
    /\ SF_vars(Advance)

FairSpec == Spec /\ Fairness

-----------------------------------------------------------------------------
(* "A spec missing from it is a spec that is never polled again": between   *)
(* calls the index holds exactly the keys of the specs, with the deadlines  *)
(* and intervals the specs have; during one, those it holds and those the   *)
(* call has re-armed make up the whole.                                     *)
IndexMatches == timers \cup call.rearmed = Reindex(nodes)

(* What a call has re-armed is not due again in it, and goes with it.       *)
CallOK ==
    /\ ~call.on => call.rearmed = {}
    /\ \A k \in call.rearmed : k.due > 0

IInv == TypeOK /\ IndexMatches /\ CallOK

(* An earlier deadline of its tier, late by the same whole milliseconds,    *)
(* stands before it in the heap.                                            *)
Hidden(o) ==
    \E r \in timers : /\ r.interval = o.interval /\ r.due < o.due
                      /\ Behind(r) = Behind(o)

(* What due() hands out next is what a walk over all specs would choose: no *)
(* spec that is due and was not served by this call is later as a fraction  *)
(* of its interval, and none is equally late with a smaller id, unless a    *)
(* deadline of its own tier in the same millisecond hides it.               *)
RankedAsFullWalk ==
    [][\A k \in timers : Pop(k) =>
          \A o \in Reindex(nodes) \ call.rearmed : o.due =< 0 /\ o # k =>
              /\ Behind(o) * k.interval =< Behind(k) * o.interval
              /\ LaterFirst(k, o) \/ Hidden(o)]_vars

(* A spec that stays in the assignment is polled again and again, however   *)
(* scarce the slots are and however often core sends the set again.         *)
NoStarvation ==
    \A n \in Nodes : \A i \in UNION {DOMAIN list : list \in Lists} :
        <>[](i \in DOMAIN nodes[n])
        => []<>(\E k \in call.rearmed : k.node = n /\ k.index = i)

(* "That difference is preserved for the life of the spec": two specs of a  *)
(* node with the same interval, adopted together and so a stagger apart,    *)
(* never come to be scheduled for the same moment.                          *)
SpacingKept ==
    ~call.on => \A n \in Nodes : \A i, j \in DOMAIN nodes[n] :
        (/\ i # j
         /\ Interval[nodes[n][i].spec] = Interval[nodes[n][j].spec]
         /\ nodes[n][i].due > 0)
        => nodes[n][i].due # nodes[n][j].due
=============================================================================
