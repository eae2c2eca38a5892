-------------------------- MODULE PollTimersProofs --------------------------
(***************************************************************************)
(* The ordered index over a poller's deadlines never diverges from the     *)
(* specs, and choosing among the roots of its tiers is choosing among all  *)
(* specs, for every assignment, interval, stagger and adoption rate.       *)
(***************************************************************************)
EXTENDS PollTimers, NaturalsInduction, WellFoundedInduction, TLAPS

LEMMA ModRange ==
    ASSUME NEW a \in Nat, NEW c \in Nat \ {0}
    PROVE  a % c \in Int /\ a % c =< c
  OBVIOUS

LEMMA MulType ==
    ASSUME NEW a \in Nat, NEW b \in Nat
    PROVE  a * b \in Nat
  OBVIOUS

(* An offset lies within the interval of its spec.                          *)
LEMMA OffsetRange ==
    ASSUME NEW spec \in JobSpecs, NEW base \in Nat, NEW k \in Nat \ {0}
    PROVE  Offset(spec, base, k) \in Int /\ Offset(spec, base, k) =< Interval[spec]
  <1>1. Interval[spec] \in Nat \ {0} /\ Stagger \in Nat
    BY TimersAssumption
  <1>2. (k - 1) * Stagger \in Nat
    BY <1>1, MulType
  <1>3. base + (k - 1) * Stagger \in Nat
    BY <1>2
  <1>4. QED
    BY <1>1, <1>3, ModRange DEF Offset

LEMMA BasesType ==
    ASSUME NEW old, NEW list, NEW added, NEW b \in Bases(old, list, added)
    PROVE  b \in Nat
  <1> DEFINE ms == Bound(old, list, added) \div Grain
  <1>1. b = 0 \/ \E c \in 0..(ms - 1) : b = Grain * c
    BY DEF Bases
  <1> HIDE DEF ms
  <1>2. ASSUME NEW c \in 0..(ms - 1), b = Grain * c
        PROVE  b \in Nat
    <2>1. c \in Nat /\ Grain \in Nat
      BY TimersAssumption
    <2>2. QED
      BY <1>2, <2>1, MulType
  <1>3. QED
    BY <1>1, <1>2

(* Settling a list schedules exactly its specs, none beyond its interval.   *)
LEMMA SettleType ==
    ASSUME NEW old \in Seq(ScheduledSpec), NEW list \in Seq(JobSpecs), NEW base \in Nat,
           \A i \in DOMAIN old : old[i].due =< Interval[old[i].spec]
    PROVE  /\ Settle(old, list, base) \in Seq(ScheduledSpec)
           /\ \A k \in DOMAIN Settle(old, list, base) :
                 Settle(old, list, base)[k].due
                   =< Interval[Settle(old, list, base)[k].spec]
  <1> DEFINE new == Settle(old, list, base)
  <1>1. DOMAIN new = 1..Len(list)
    BY DEF Settle
  <1>2. ASSUME NEW k \in 1..Len(list)
        PROVE  new[k] \in ScheduledSpec /\ new[k].due =< Interval[new[k].spec]
    <2>1. list[k] \in JobSpecs /\ k \in DOMAIN list
      OBVIOUS
    <2> DEFINE due == IF Donors(old, list, k) = {} THEN Offset(list[k], base, k)
                      ELSE old[CHOOSE j \in Donors(old, list, k) : TRUE].due
    <2>2. new[k] = [spec |-> list[k], due |-> due]
      BY <2>1 DEF Settle
    <2>3. due \in Int /\ due =< Interval[list[k]]
      <3>1. CASE Donors(old, list, k) = {}
        <4>1. k \in Nat \ {0}
          OBVIOUS
        <4>2. /\ Offset(list[k], base, k) \in Int
              /\ Offset(list[k], base, k) =< Interval[list[k]]
          BY <2>1, <4>1, OffsetRange
        <4>3. due = Offset(list[k], base, k)
          BY <3>1
        <4> HIDE DEF due
        <4>4. QED
          BY <4>2, <4>3
      <3>2. CASE Donors(old, list, k) # {}
        <4> DEFINE j == CHOOSE j \in Donors(old, list, k) : TRUE
        <4>1. j \in Donors(old, list, k)
          BY <3>2
        <4>2. j \in DOMAIN old /\ old[j].spec = list[k]
          BY <4>1 DEF Donors
        <4> HIDE DEF j
        <4>3. old[j] \in ScheduledSpec
          BY <4>2
        <4>4. old[j].due \in Int /\ old[j].due =< Interval[list[k]]
          BY <4>2, <4>3 DEF ScheduledSpec
        <4>5. QED
          BY <3>2, <4>4 DEF j
      <3>3. QED
        BY <3>1, <3>2
    <2> HIDE DEF due
    <2>4. QED
      BY <2>1, <2>2, <2>3 DEF ScheduledSpec
  <1>3. Len(list) \in Nat
    OBVIOUS
  <1>4. new = [k \in 1..Len(list) |-> new[k]]
    BY <1>1 DEF Settle
  <1> HIDE DEF new
  <1>5. new \in Seq(ScheduledSpec)
    BY <1>2, <1>3, <1>4
  <1>6. \A k \in DOMAIN new : new[k].due =< Interval[new[k].spec]
    BY <1>1, <1>2
  <1>7. QED
    BY <1>5, <1>6 DEF new

LEMMA ReindexType ==
    ASSUME NEW ns \in [Nodes -> Seq(ScheduledSpec)]
    PROVE  /\ Reindex(ns) \subseteq TimerKey
           /\ \A k : k \in Reindex(ns) <=>
                 \E n \in Nodes : \E i \in DOMAIN ns[n] : k = KeyOf(ns[n], n, i)
           /\ \A n \in Nodes : \A i \in DOMAIN ns[n] :
                 KeyOf(ns[n], n, i) \in TimerKey
  <1>1. ASSUME NEW n \in Nodes, NEW i \in DOMAIN ns[n]
        PROVE  KeyOf(ns[n], n, i) \in TimerKey
    <2>1. ns[n] \in Seq(ScheduledSpec)
      OBVIOUS
    <2>2. ns[n][i] \in ScheduledSpec /\ i \in Nat
      BY <2>1
    <2>3. Interval[ns[n][i].spec] \in Nat /\ ns[n][i].due \in Int
      BY <2>2, TimersAssumption DEF ScheduledSpec
    <2>4. QED
      BY <2>2, <2>3 DEF KeyOf, TimerKey
  <1>2. \A k : k \in Reindex(ns) <=>
                 \E n \in Nodes : \E i \in DOMAIN ns[n] : k = KeyOf(ns[n], n, i)
    BY DEF Reindex
  <1>3. QED
    BY <1>1, <1>2

LEMMA RearmType ==
    ASSUME NEW s \in ScheduledSpec, s.due =< 0
    PROVE  /\ Rearm(s) \in ScheduledSpec
           /\ Rearm(s).spec = s.spec
           /\ Rearm(s).due > 0
           /\ Rearm(s).due =< Interval[s.spec]
           /\ Rearm(s).due > s.due
  <1>1. s.due \in Int /\ s.spec \in JobSpecs /\ Interval[s.spec] \in Nat \ {0}
    BY TimersAssumption DEF ScheduledSpec
  <1> DEFINE due == IF s.due + Interval[s.spec] =< 0 THEN Interval[s.spec]
                    ELSE s.due + Interval[s.spec]
  <1>2. Rearm(s) = [s EXCEPT !.due = due]
    BY DEF Rearm
  <1>3. due \in Int /\ due > 0 /\ due =< Interval[s.spec] /\ due > s.due
    BY <1>1
  <1> HIDE DEF due
  <1>4. QED
    BY <1>1, <1>2, <1>3 DEF ScheduledSpec

LEMMA InitInv == Init => IInv
  <1> SUFFICES ASSUME Init PROVE IInv
    OBVIOUS
  <1>a. /\ nodes \in [Nodes -> Seq(ScheduledSpec)]
        /\ \A n \in Nodes : \A i \in DOMAIN nodes[n] :
              nodes[n][i].due =< Interval[nodes[n][i].spec]
    <2>1. \A n \in Nodes : nodes[n] = << >>
      BY DEF Init
    <2>2. << >> \in Seq(ScheduledSpec) /\ DOMAIN << >> = {}
      OBVIOUS
    <2>3. QED
      BY <2>1, <2>2 DEF Init
  <1>b. call \in [on : BOOLEAN, left : Nat, rearmed : SUBSET TimerKey]
    BY DEF Init, NoCall
  <1>c. timers \subseteq TimerKey /\ served \in BOOLEAN /\ edits \in Nat /\ pauses \in Nat
    BY TimersAssumption DEF Init
  <1>1. TypeOK
    BY <1>a, <1>b, <1>c DEF TypeOK
  <1>2. Reindex(nodes) = {}
    BY DEF Init, Reindex
  <1>3. QED
    BY <1>1, <1>2 DEF Init, IInv, IndexMatches, CallOK, NoCall

LEMMA AdoptInv ==
    ASSUME IInv, NEW lists \in [Nodes -> Seq(JobSpecs)], Adopt(lists), edits' \in Nat
    PROVE  IInv'
  <1> DEFINE added == Cardinality(UNION {{n} \X Newcomers(nodes[n], lists[n]) : n \in Nodes})
             drawn(n) == Bases(nodes[n], lists[n], added)
  <1>1. TypeOK
    BY DEF IInv
  <1>2. PICK base \in [Nodes -> UNION {drawn(n) : n \in Nodes}] :
            /\ \A n \in Nodes : base[n] \in drawn(n)
            /\ nodes' = [n \in Nodes |-> Settle(nodes[n], lists[n], base[n])]
    BY DEF Adopt
  <1>3. ASSUME NEW n \in Nodes
        PROVE  /\ nodes'[n] \in Seq(ScheduledSpec)
               /\ \A i \in DOMAIN nodes'[n] :
                     nodes'[n][i].due =< Interval[nodes'[n][i].spec]
    <2>1. base[n] \in Nat
      BY <1>2, BasesType
    <2>2. nodes[n] \in Seq(ScheduledSpec) /\ lists[n] \in Seq(JobSpecs)
      BY <1>1 DEF TypeOK
    <2>3. \A i \in DOMAIN nodes[n] : nodes[n][i].due =< Interval[nodes[n][i].spec]
      BY <1>1 DEF TypeOK
    <2>4. nodes'[n] = Settle(nodes[n], lists[n], base[n])
      BY <1>2
    <2>5. QED
      BY <2>1, <2>2, <2>3, <2>4, SettleType
  <1>4. nodes' \in [Nodes -> Seq(ScheduledSpec)]
    BY <1>2, <1>3
  <1>5. timers' = Reindex(nodes') /\ UNCHANGED <<call, served, pauses>> /\ ~call.on
    BY DEF Adopt
  <1>6. timers' \subseteq TimerKey
    BY <1>4, <1>5, ReindexType
  <1>7. TypeOK'
    BY <1>1, <1>3, <1>4, <1>5, <1>6 DEF TypeOK
  <1>8. IndexMatches' /\ CallOK'
    BY <1>5 DEF IInv, CallOK, IndexMatches
  <1>9. QED
    BY <1>7, <1>8 DEF IInv

(* A spec is popped, re-armed and its key set aside.                        *)
LEMMA PopFacts ==
    ASSUME IInv, NEW k \in timers, Pop(k)
    PROVE  /\ k.node \in Nodes /\ k.index \in DOMAIN nodes[k.node]
           /\ k = KeyOf(nodes[k.node], k.node, k.index)
           /\ nodes[k.node][k.index] \in ScheduledSpec
           /\ nodes[k.node][k.index].due = k.due
           /\ k.due \in Int /\ k.due =< 0
           /\ k \notin call.rearmed
  <1>1. k \in Reindex(nodes)
    BY DEF IInv, IndexMatches
  <1>2. nodes \in [Nodes -> Seq(ScheduledSpec)]
    BY DEF IInv, TypeOK
  <1>2a. PICK n \in Nodes : \E i \in DOMAIN nodes[n] : k = KeyOf(nodes[n], n, i)
    BY <1>1, <1>2, ReindexType
  <1>3. PICK i \in DOMAIN nodes[n] : k = KeyOf(nodes[n], n, i)
    BY <1>2a
  <1>4. k.node = n /\ k.index = i /\ k.due = nodes[n][i].due
    BY <1>3 DEF KeyOf
  <1>5. nodes[n] \in Seq(ScheduledSpec)
    BY <1>2
  <1>6. nodes[n][i] \in ScheduledSpec
    BY <1>5
  <1>7. nodes[n][i].due \in Int
    BY <1>6 DEF ScheduledSpec
  <1>8. k.due =< 0
    BY DEF Pop, IsBest, DueRoots
  <1>9. k \notin call.rearmed
    BY <1>4, <1>7, <1>8 DEF IInv, CallOK
  <1>10. QED
    BY <1>3, <1>4, <1>6, <1>7, <1>8, <1>9

LEMMA PopInv ==
    ASSUME IInv, NEW k \in timers, Pop(k)
    PROVE  IInv'
  <1> DEFINE old == nodes[k.node][k.index]
             new == Rearm(old)
             key == RearmedKey(k)
  <1>1. TypeOK
    BY DEF IInv
  <1>2. /\ k.node \in Nodes /\ k.index \in DOMAIN nodes[k.node]
        /\ k = KeyOf(nodes[k.node], k.node, k.index)
        /\ old \in ScheduledSpec /\ old.due = k.due
        /\ k.due \in Int /\ k.due =< 0 /\ k \notin call.rearmed
    BY PopFacts
  <1>3. /\ new \in ScheduledSpec /\ new.spec = old.spec
        /\ new.due > 0 /\ new.due =< Interval[old.spec]
    BY <1>2, RearmType
  <1>4. /\ timers' = timers \ {k}
        /\ nodes' = [nodes EXCEPT ![k.node][k.index] = Rearm(@)]
        /\ call' = [call EXCEPT !.left = @ - 1, !.rearmed = @ \cup {key}]
        /\ call.on /\ call.left > 0
        /\ served' = TRUE /\ UNCHANGED <<edits, pauses>>
    BY <1>2 DEF Pop
  <1>5. nodes'[k.node] = [nodes[k.node] EXCEPT ![k.index] = new]
    BY <1>1, <1>2, <1>4 DEF TypeOK
  <1>6. /\ \A n \in Nodes : n # k.node => nodes'[n] = nodes[n]
        /\ DOMAIN nodes' = Nodes /\ nodes' = [n \in Nodes |-> nodes'[n]]
    BY <1>1, <1>4 DEF TypeOK
  <1> HIDE DEF new
  <1>7. ASSUME NEW n \in Nodes
        PROVE  /\ nodes'[n] \in Seq(ScheduledSpec)
               /\ DOMAIN nodes'[n] = DOMAIN nodes[n]
               /\ \A i \in DOMAIN nodes[n] :
                     nodes'[n][i] = IF n = k.node /\ i = k.index THEN new
                                    ELSE nodes[n][i]
    <2>1. nodes[n] \in Seq(ScheduledSpec)
      BY <1>1 DEF TypeOK
    <2>2. CASE n = k.node
      BY <1>2, <1>3, <1>5, <2>1, <2>2
    <2>3. CASE n # k.node
      BY <1>6, <2>1, <2>3
    <2>4. QED
      BY <2>2, <2>3
  <1>8. nodes' \in [Nodes -> Seq(ScheduledSpec)]
    BY <1>6, <1>7
  <1>9. key = KeyOf(nodes'[k.node], k.node, k.index)
    <2>1. nodes'[k.node][k.index] = new
      BY <1>2, <1>7
    <2>2. key = [k EXCEPT !.interval = Interval[new.spec], !.due = new.due]
      BY DEF RearmedKey, new
    <2>3. k = [interval |-> Interval[old.spec], due |-> old.due,
               node |-> k.node, index |-> k.index]
      BY <1>2 DEF KeyOf
    <2>4. key = [interval |-> Interval[new.spec], due |-> new.due,
                 node |-> k.node, index |-> k.index]
      BY <2>2, <2>3
    <2>5. QED
      BY <2>1, <2>4 DEF KeyOf
  <1> HIDE DEF key
  <1>10. key \in TimerKey /\ key.due > 0 /\ key.node = k.node /\ key.index = k.index
    <2>1. key \in TimerKey
      BY <1>2, <1>7, <1>8, <1>9, ReindexType
    <2>2. key.due = nodes'[k.node][k.index].due /\ key.node = k.node /\ key.index = k.index
      BY <1>9 DEF KeyOf
    <2>3. QED
      BY <1>2, <1>3, <1>7, <2>1, <2>2
  <1>11. TypeOK'
    <2>1. call' \in [on : BOOLEAN, left : Nat, rearmed : SUBSET TimerKey]
      <3>1. call \in [on : BOOLEAN, left : Nat, rearmed : SUBSET TimerKey]
        BY <1>1 DEF TypeOK
      <3>2. call.left - 1 \in Nat
        BY <1>4, <3>1
      <3>3. call.rearmed \cup {key} \in SUBSET TimerKey
        BY <1>10, <3>1
      <3> DEFINE left == call.left - 1
                 set  == call.rearmed \cup {key}
      <3>4. call' = [call EXCEPT !.left = left, !.rearmed = set]
        BY <1>4
      <3> HIDE DEF left, set
      <3>5. left \in Nat /\ set \in SUBSET TimerKey
        BY <3>2, <3>3 DEF left, set
      <3>6. QED
        BY <3>1, <3>4, <3>5
    <2>2. ASSUME NEW n \in Nodes, NEW i \in DOMAIN nodes'[n]
          PROVE  nodes'[n][i].due =< Interval[nodes'[n][i].spec]
      <3>1. i \in DOMAIN nodes[n]
        BY <1>7
      <3>2. CASE n = k.node /\ i = k.index
        <4>1. nodes'[n][i] = new
          BY <1>7, <3>1, <3>2
        <4>2. QED
          BY <1>3, <4>1
      <3>3. CASE ~(n = k.node /\ i = k.index)
        <4>1. nodes'[n][i] = nodes[n][i]
          BY <1>7, <3>1, <3>3
        <4>2. QED
          BY <1>1, <3>1, <4>1 DEF TypeOK
      <3>4. QED
        BY <3>2, <3>3
    <2>3. QED
      BY <1>1, <1>4, <1>8, <2>1, <2>2 DEF TypeOK
  <1>12. Reindex(nodes') = (Reindex(nodes) \ {k}) \cup {key}
    <2>1. nodes \in [Nodes -> Seq(ScheduledSpec)]
      BY <1>1 DEF TypeOK
    <2>2. ASSUME NEW x \in Reindex(nodes')
          PROVE  x \in (Reindex(nodes) \ {k}) \cup {key}
      <3>0. PICK n \in Nodes : \E i \in DOMAIN nodes'[n] : x = KeyOf(nodes'[n], n, i)
        BY <1>8, ReindexType
      <3>1. PICK i \in DOMAIN nodes'[n] : x = KeyOf(nodes'[n], n, i)
        BY <3>0
      <3>2. CASE n = k.node /\ i = k.index
        BY <1>9, <3>1, <3>2
      <3>3. CASE ~(n = k.node /\ i = k.index)
        <4>1. i \in DOMAIN nodes[n] /\ nodes'[n][i] = nodes[n][i]
          BY <1>7, <3>3
        <4>2. x = KeyOf(nodes[n], n, i)
          BY <3>1, <4>1 DEF KeyOf
        <4>3. x.node = n /\ x.index = i
          BY <4>2 DEF KeyOf
        <4>4. QED
          BY <2>1, <3>3, <4>1, <4>2, <4>3, ReindexType
      <3>4. QED
        BY <3>2, <3>3
    <2>3. ASSUME NEW x \in Reindex(nodes) \ {k}
          PROVE  x \in Reindex(nodes')
      <3>0. PICK n \in Nodes : \E i \in DOMAIN nodes[n] : x = KeyOf(nodes[n], n, i)
        BY <2>1, ReindexType
      <3>1. PICK i \in DOMAIN nodes[n] : x = KeyOf(nodes[n], n, i)
        BY <3>0
      <3>2. ~(n = k.node /\ i = k.index)
        BY <1>2, <3>1
      <3>3. i \in DOMAIN nodes'[n] /\ nodes'[n][i] = nodes[n][i]
        BY <1>7, <3>2
      <3>4. x = KeyOf(nodes'[n], n, i)
        BY <3>1, <3>3 DEF KeyOf
      <3>5. QED
        BY <1>8, <3>3, <3>4, ReindexType
    <2>4. key \in Reindex(nodes')
      BY <1>2, <1>7, <1>8, <1>9, ReindexType
    <2>5. QED
      BY <2>2, <2>3, <2>4
  <1>13. call'.rearmed = call.rearmed \cup {key} /\ call'.on
    BY <1>1, <1>4 DEF TypeOK
  <1>14. IndexMatches'
    BY <1>2, <1>4, <1>12, <1>13 DEF IInv, IndexMatches
  <1>15. CallOK'
    BY <1>10, <1>13 DEF IInv, CallOK
  <1>16. QED
    BY <1>11, <1>14, <1>15 DEF IInv

LEMMA EndCallInv ==
    ASSUME IInv, EndCall
    PROVE  IInv'
  <1>1. TypeOK
    BY DEF IInv
  <1>2. /\ timers' = timers \cup call.rearmed /\ call' = NoCall
        /\ UNCHANGED <<nodes, served, edits, pauses>>
    BY DEF EndCall
  <1>3. call'.rearmed = {}
    BY <1>2 DEF NoCall
  <1>4. call' \in [on : BOOLEAN, left : Nat, rearmed : SUBSET TimerKey]
    BY <1>2 DEF NoCall
  <1>5. timers' \subseteq TimerKey
    BY <1>1, <1>2 DEF TypeOK
  <1>6. TypeOK'
    BY <1>1, <1>2, <1>4, <1>5 DEF TypeOK
  <1>7. IndexMatches'
    BY <1>2, <1>3 DEF IInv, IndexMatches
  <1>8. QED
    BY <1>3, <1>6, <1>7 DEF IInv, CallOK

LEMMA AskInv ==
    ASSUME IInv, NEW room \in Nat, Ask(room)
    PROVE  IInv'
  <1>1. TypeOK
    BY DEF IInv
  <1>2. /\ call' = [on |-> TRUE, left |-> room, rearmed |-> {}] /\ ~call.on
        /\ UNCHANGED <<nodes, timers, served, edits, pauses>>
    BY DEF Ask
  <1>3. call'.rearmed = {} /\ call.rearmed = {}
    BY <1>2 DEF IInv, CallOK
  <1>4. call' \in [on : BOOLEAN, left : Nat, rearmed : SUBSET TimerKey]
    BY <1>2
  <1>5. TypeOK'
    BY <1>1, <1>2, <1>4 DEF TypeOK
  <1>6. QED
    BY <1>2, <1>3, <1>5 DEF IInv, IndexMatches, CallOK

(* A unit of time moves the deadlines of the specs and of their keys alike. *)
LEMMA LaterInv ==
    ASSUME IInv, Later, pauses' \in Nat
    PROVE  IInv'
  <1> DEFINE earlier(x) == [x EXCEPT !.due = @ - 1]
  <1>1. TypeOK
    BY DEF IInv
  <1>2. /\ nodes' = [n \in Nodes |-> [i \in DOMAIN nodes[n] |-> earlier(nodes[n][i])]]
        /\ timers' = {earlier(k) : k \in timers}
        /\ served' = FALSE /\ call' = call /\ edits' = edits /\ ~call.on
    BY DEF Later
  <1>3. timers = Reindex(nodes) /\ call.rearmed = {}
    BY <1>2 DEF IInv, IndexMatches, CallOK
  <1>4. ASSUME NEW n \in Nodes
        PROVE  /\ nodes'[n] \in Seq(ScheduledSpec)
               /\ DOMAIN nodes'[n] = DOMAIN nodes[n]
               /\ \A i \in DOMAIN nodes[n] :
                     /\ nodes'[n][i] = earlier(nodes[n][i])
                     /\ nodes[n][i] \in ScheduledSpec
                     /\ nodes'[n][i].spec = nodes[n][i].spec
                     /\ nodes'[n][i].due = nodes[n][i].due - 1
    <2>1. nodes[n] \in Seq(ScheduledSpec)
      BY <1>1 DEF TypeOK
    <2>2. nodes'[n] = [i \in DOMAIN nodes[n] |-> earlier(nodes[n][i])]
      BY <1>2
    <2>3. ASSUME NEW i \in DOMAIN nodes[n]
          PROVE  /\ nodes[n][i] \in ScheduledSpec
                 /\ earlier(nodes[n][i]) \in ScheduledSpec
                 /\ earlier(nodes[n][i]).spec = nodes[n][i].spec
                 /\ earlier(nodes[n][i]).due = nodes[n][i].due - 1
      <3>1. nodes[n][i] \in ScheduledSpec
        BY <2>1
      <3>2. QED
        BY <3>1 DEF ScheduledSpec
    <2>4. DOMAIN nodes[n] = 1..Len(nodes[n]) /\ Len(nodes[n]) \in Nat
      BY <2>1
    <2> HIDE DEF earlier
    <2>5. nodes'[n] \in Seq(ScheduledSpec)
      BY <2>2, <2>3, <2>4
    <2>6. QED
      BY <2>2, <2>3, <2>5
  <1>5. nodes' \in [Nodes -> Seq(ScheduledSpec)]
    BY <1>2, <1>4
  <1>6. nodes \in [Nodes -> Seq(ScheduledSpec)]
    BY <1>1 DEF TypeOK
  <1>7. ASSUME NEW n \in Nodes, NEW i \in DOMAIN nodes[n]
        PROVE  KeyOf(nodes'[n], n, i) = earlier(KeyOf(nodes[n], n, i))
    <2>1. /\ nodes'[n][i].spec = nodes[n][i].spec
          /\ nodes'[n][i].due = nodes[n][i].due - 1
      BY <1>4
    <2>2. KeyOf(nodes'[n], n, i)
             = [interval |-> Interval[nodes[n][i].spec], due |-> nodes[n][i].due - 1,
                node |-> n, index |-> i]
      BY <2>1 DEF KeyOf
    <2>3. QED
      BY <2>2 DEF KeyOf
  <1> HIDE DEF earlier
  <1>8. timers' = Reindex(nodes')
    <2>1. ASSUME NEW x \in timers'
          PROVE  x \in Reindex(nodes')
      <3>1. PICK k \in timers : x = earlier(k)
        BY <1>2
      <3>2. PICK n \in Nodes : \E i \in DOMAIN nodes[n] : k = KeyOf(nodes[n], n, i)
        BY <1>3, <1>6, <3>1, ReindexType
      <3>3. PICK i \in DOMAIN nodes[n] : k = KeyOf(nodes[n], n, i)
        BY <3>2
      <3>4. x = KeyOf(nodes'[n], n, i) /\ i \in DOMAIN nodes'[n]
        BY <1>4, <1>7, <3>1, <3>3
      <3>5. QED
        BY <1>5, <3>4, ReindexType
    <2>2. ASSUME NEW x \in Reindex(nodes')
          PROVE  x \in timers'
      <3>1. PICK n \in Nodes : \E i \in DOMAIN nodes'[n] : x = KeyOf(nodes'[n], n, i)
        BY <1>5, ReindexType
      <3>2. PICK i \in DOMAIN nodes'[n] : x = KeyOf(nodes'[n], n, i)
        BY <3>1
      <3>3. i \in DOMAIN nodes[n] /\ x = earlier(KeyOf(nodes[n], n, i))
        BY <1>4, <1>7, <3>2
      <3>4. KeyOf(nodes[n], n, i) \in timers
        BY <1>3, <1>6, <3>3, ReindexType
      <3>5. QED
        BY <1>2, <3>3, <3>4
    <2>3. QED
      BY <2>1, <2>2
  <1>9. timers' \subseteq TimerKey
    BY <1>5, <1>8, ReindexType
  <1>10. ASSUME NEW n \in Nodes, NEW i \in DOMAIN nodes'[n]
         PROVE  nodes'[n][i].due =< Interval[nodes'[n][i].spec]
    <2>1. /\ nodes'[n][i].spec = nodes[n][i].spec /\ i \in DOMAIN nodes[n]
          /\ nodes'[n][i].due = nodes[n][i].due - 1 /\ nodes[n][i] \in ScheduledSpec
      BY <1>4
    <2>2. nodes[n][i].due =< Interval[nodes[n][i].spec]
      BY <1>1, <2>1 DEF TypeOK
    <2>3. nodes[n][i].due \in Int /\ Interval[nodes[n][i].spec] \in Nat
      BY <2>1, TimersAssumption DEF ScheduledSpec
    <2>4. QED
      BY <2>1, <2>2, <2>3
  <1>11. TypeOK'
    BY <1>1, <1>2, <1>5, <1>9, <1>10 DEF TypeOK
  <1>12. QED
    BY <1>2, <1>3, <1>8, <1>11 DEF IInv, IndexMatches, CallOK

LEMMA SpecsOfType ==
    ASSUME NEW s \in Seq(ScheduledSpec)
    PROVE  SpecsOf(s) \in Seq(JobSpecs)
  <1>0. \A i \in 1..Len(s) : s[i] \in ScheduledSpec
    OBVIOUS
  <1>1. \A i \in 1..Len(s) : s[i].spec \in JobSpecs
    BY <1>0 DEF ScheduledSpec
  <1>2. SpecsOf(s) = [i \in 1..Len(s) |-> s[i].spec] /\ Len(s) \in Nat
    BY DEF SpecsOf
  <1>3. QED
    BY <1>1, <1>2

LEMMA NextInv == IInv /\ [Next]_vars => IInv'
  <1> SUFFICES ASSUME IInv, [Next]_vars PROVE IInv'
    OBVIOUS
  <1>1. TypeOK
    BY DEF IInv
  <1>2. ASSUME NEW lists \in [Nodes -> Lists], Change(lists)
        PROVE  IInv'
    <2>1. lists \in [Nodes -> Seq(JobSpecs)]
      BY TimersAssumption
    <2>2. edits' \in Nat
      BY <1>1, <1>2 DEF TypeOK, Change
    <2>3. Adopt(lists)
      BY <1>2 DEF Change
    <2>4. QED
      BY <2>1, <2>2, <2>3, AdoptInv
  <1>3. CASE Resync
    <2> DEFINE lists == [n \in Nodes |-> SpecsOf(nodes[n])]
    <2>1. lists \in [Nodes -> Seq(JobSpecs)]
      BY <1>1, SpecsOfType DEF TypeOK
    <2>2. edits' \in Nat /\ Adopt(lists)
      BY <1>1, <1>3 DEF TypeOK, Resync
    <2> HIDE DEF lists
    <2>3. QED
      BY <2>1, <2>2, AdoptInv
  <1>4. ASSUME NEW room \in 1..MaxRoom, Ask(room)
        PROVE  IInv'
    <2>1. room \in Nat
      BY TimersAssumption
    <2>2. QED
      BY <1>4, <2>1, AskInv
  <1>5. ASSUME NEW k \in timers, Pop(k)
        PROVE  IInv'
    BY <1>5, PopInv
  <1>6. CASE EndCall
    BY <1>6, EndCallInv
  <1>7. CASE Advance
    <2>1. Later /\ pauses' \in Nat
      BY <1>1, <1>7 DEF Advance, TypeOK
    <2>2. QED
      BY <2>1, LaterInv
  <1>8. CASE Pause
    <2>1. Later /\ pauses' \in Nat
      BY <1>1, <1>8 DEF Pause, TypeOK
    <2>2. QED
      BY <2>1, LaterInv
  <1>9. CASE UNCHANGED vars
    <2>1. /\ nodes' = nodes /\ timers' = timers /\ call' = call
          /\ served' = served /\ edits' = edits /\ pauses' = pauses
      BY <1>9 DEF vars
    <2>2. TypeOK'
      BY <1>1, <2>1 DEF TypeOK
    <2>3. QED
      BY <2>1, <2>2 DEF IInv, IndexMatches, CallOK
  <1>10. QED
    BY <1>2, <1>3, <1>4, <1>5, <1>6, <1>7, <1>8, <1>9 DEF Next

(* No assignment, whatever its lists, and no order of adoptions, calls and  *)
(* pauses schedules a check further ahead than its interval (settle, due).  *)
THEOREM TypeCorrect == Spec => []TypeOK
  <1>1. IInv => TypeOK
    BY DEF IInv
  <1>2. QED
    BY <1>1, InitInv, NextInv, PTL DEF Spec

(* The index of timers.rs always holds every spec, under the deadline and   *)
(* the interval the spec has: none is lost and none is filed twice.         *)
THEOREM IndexSound == Spec => []IndexMatches
  <1>1. IInv => IndexMatches
    BY DEF IInv
  <1>2. QED
    BY <1>1, InitInv, NextInv, PTL DEF Spec

-----------------------------------------------------------------------------
(* Ranking.  A tier's root exists because deadlines do not lie arbitrarily  *)
(* far in the past, so the best root is the best spec.                      *)

Above(b) == \A n \in Nodes : \A i \in DOMAIN nodes[n] : nodes[n][i].due >= -b

Floor == \E b \in Nat : Above(b)

RInv == IInv /\ Floor

LEMMA LeastNat ==
    ASSUME NEW S \in SUBSET Nat, S # {}
    PROVE  \E x \in S : \A y \in S : x =< y
  <1>1. PICK x \in S : \A y \in S : ~(<<y, x>> \in OpToRel(<, Nat))
    BY NatLessThanWellFounded, WFMin
  <1>2. \A y \in S : y \in Nat /\ x \in Nat /\ ~(y < x)
    BY <1>1, Zenon DEF OpToRel
  <1>3. QED
    BY <1>2

(* An offset is never negative.                                             *)
LEMMA OffsetNat ==
    ASSUME NEW spec \in JobSpecs, NEW base \in Nat, NEW k \in Nat \ {0}
    PROVE  Offset(spec, base, k) \in Nat
  <1>1. Interval[spec] \in Nat \ {0} /\ Stagger \in Nat
    BY TimersAssumption
  <1>2. (k - 1) * Stagger \in Nat
    BY <1>1, MulType
  <1>3. base + (k - 1) * Stagger \in Nat
    BY <1>2
  <1>4. ASSUME NEW a \in Nat, NEW c \in Nat \ {0} PROVE a % c \in Nat
    OBVIOUS
  <1>5. QED
    BY <1>1, <1>3, <1>4 DEF Offset

(* Settling a list puts no deadline below the ones there were.              *)
LEMMA SettleFloor ==
    ASSUME NEW old \in Seq(ScheduledSpec), NEW list \in Seq(JobSpecs), NEW base \in Nat,
           NEW b \in Nat, \A i \in DOMAIN old : old[i].due >= -b,
           NEW k \in DOMAIN Settle(old, list, base)
    PROVE  Settle(old, list, base)[k].due >= -b
  <1>1. k \in DOMAIN list /\ k \in Nat \ {0} /\ list[k] \in JobSpecs
    BY DEF Settle
  <1>2. CASE Donors(old, list, k) = {}
    <2>1. Settle(old, list, base)[k].due = Offset(list[k], base, k)
      BY <1>1, <1>2 DEF Settle
    <2>2. Offset(list[k], base, k) \in Nat
      BY <1>1, OffsetNat
    <2>3. QED
      BY <2>1, <2>2
  <1>3. CASE Donors(old, list, k) # {}
    <2> DEFINE j == CHOOSE j \in Donors(old, list, k) : TRUE
    <2>1. j \in Donors(old, list, k)
      BY <1>3
    <2>2. j \in DOMAIN old
      BY <2>1 DEF Donors
    <2>3. Settle(old, list, base)[k].due = old[j].due
      BY <1>1, <1>3 DEF Settle
    <2> HIDE DEF j
    <2>4. QED
      BY <2>2, <2>3
  <1>4. QED
    BY <1>2, <1>3

LEMMA AdoptFloor ==
    ASSUME IInv, Floor, NEW lists \in [Nodes -> Seq(JobSpecs)], Adopt(lists)
    PROVE  Floor'
  <1> DEFINE added == Cardinality(UNION {{n} \X Newcomers(nodes[n], lists[n]) : n \in Nodes})
             drawn(n) == Bases(nodes[n], lists[n], added)
  <1>1. PICK base \in [Nodes -> UNION {drawn(n) : n \in Nodes}] :
            /\ \A n \in Nodes : base[n] \in drawn(n)
            /\ nodes' = [n \in Nodes |-> Settle(nodes[n], lists[n], base[n])]
    BY DEF Adopt
  <1>2. PICK b \in Nat : Above(b)
    BY DEF Floor
  <1>3. ASSUME NEW n \in Nodes, NEW i \in DOMAIN nodes'[n]
        PROVE  nodes'[n][i].due >= -b
    <2>1. base[n] \in Nat
      BY <1>1, BasesType
    <2>2. nodes[n] \in Seq(ScheduledSpec) /\ lists[n] \in Seq(JobSpecs)
      BY DEF IInv, TypeOK
    <2>3. \A j \in DOMAIN nodes[n] : nodes[n][j].due >= -b
      BY <1>2 DEF Above
    <2>4. nodes'[n] = Settle(nodes[n], lists[n], base[n])
      BY <1>1
    <2>5. QED
      BY <2>1, <2>2, <2>3, <2>4, SettleFloor
  <1>4. QED
    BY <1>3 DEF Floor, Above

LEMMA PopFloor ==
    ASSUME IInv, Floor, NEW k \in timers, Pop(k)
    PROVE  Floor'
  <1> DEFINE new == Rearm(nodes[k.node][k.index])
  <1>1. /\ k.node \in Nodes /\ k.index \in DOMAIN nodes[k.node]
        /\ nodes[k.node][k.index] \in ScheduledSpec
        /\ nodes[k.node][k.index].due =< 0
    BY PopFacts
  <1>2. new \in ScheduledSpec /\ new.due > 0
    BY <1>1, RearmType
  <1>3. nodes' = [nodes EXCEPT ![k.node][k.index] = new]
    BY <1>1 DEF Pop
  <1> HIDE DEF new
  <1>4. PICK b \in Nat : Above(b)
    BY DEF Floor
  <1>5. ASSUME NEW n \in Nodes, NEW i \in DOMAIN nodes'[n]
        PROVE  nodes'[n][i].due >= -b
    <2>1. nodes \in [Nodes -> Seq(ScheduledSpec)]
      BY DEF IInv, TypeOK
    <2>2. i \in DOMAIN nodes[n]
          /\ (nodes'[n][i] = nodes[n][i] \/ nodes'[n][i] = new)
      BY <1>1, <1>3, <2>1
    <2>3. nodes[n][i].due >= -b
      BY <1>4, <2>2 DEF Above
    <2>4. new.due \in Int
      BY <1>2 DEF ScheduledSpec
    <2>5. new.due >= -b
      BY <1>2, <2>4
    <2>6. QED
      BY <2>2, <2>3, <2>5
  <1>6. QED
    BY <1>5 DEF Floor, Above

LEMMA LaterFloor ==
    ASSUME IInv, Floor, Later
    PROVE  Floor'
  <1>1. PICK b \in Nat : Above(b)
    BY DEF Floor
  <1>2. ASSUME NEW n \in Nodes, NEW i \in DOMAIN nodes'[n]
        PROVE  nodes'[n][i].due >= -(b + 1)
    <2>1. nodes'[n] = [j \in DOMAIN nodes[n] |-> [nodes[n][j] EXCEPT !.due = @ - 1]]
      BY DEF Later
    <2>2. i \in DOMAIN nodes[n] /\ nodes'[n][i] = [nodes[n][i] EXCEPT !.due = @ - 1]
      BY <2>1
    <2>3. nodes[n] \in Seq(ScheduledSpec)
      BY DEF IInv, TypeOK
    <2>4. nodes[n][i] \in ScheduledSpec
      BY <2>2, <2>3
    <2>5. nodes[n][i].due \in Int /\ nodes'[n][i].due = nodes[n][i].due - 1
      BY <2>2, <2>4 DEF ScheduledSpec
    <2>6. nodes[n][i].due >= -b
      BY <1>1, <2>2 DEF Above
    <2>7. QED
      BY <2>5, <2>6
  <1>3. b + 1 \in Nat
    OBVIOUS
  <1>4. QED
    BY <1>2, <1>3 DEF Floor, Above

LEMMA NextFloor == RInv /\ [Next]_vars => RInv'
  <1> SUFFICES ASSUME RInv, [Next]_vars PROVE RInv'
    OBVIOUS
  <1>1. IInv /\ Floor /\ TypeOK
    BY DEF RInv, IInv
  <1>2. IInv'
    BY <1>1, NextInv
  <1> SUFFICES Floor'
    BY <1>2 DEF RInv
  <1>3. ASSUME NEW lists \in [Nodes -> Lists], Change(lists)
        PROVE  Floor'
    <2>1. lists \in [Nodes -> Seq(JobSpecs)] /\ Adopt(lists)
      BY <1>3, TimersAssumption DEF Change
    <2>2. QED
      BY <1>1, <2>1, AdoptFloor
  <1>4. CASE Resync
    <2> DEFINE lists == [n \in Nodes |-> SpecsOf(nodes[n])]
    <2>1. lists \in [Nodes -> Seq(JobSpecs)]
      BY <1>1, SpecsOfType DEF TypeOK
    <2>2. Adopt(lists)
      BY <1>4 DEF Resync
    <2> HIDE DEF lists
    <2>3. QED
      BY <1>1, <2>1, <2>2, AdoptFloor
  <1>5. ASSUME NEW k \in timers, Pop(k)
        PROVE  Floor'
    BY <1>1, <1>5, PopFloor
  <1>6. CASE Advance \/ Pause
    BY <1>1, <1>6, LaterFloor DEF Advance, Pause
  <1>7. ASSUME nodes' = nodes
        PROVE  Floor'
    BY <1>1, <1>7 DEF Floor, Above
  <1>8. QED
    BY <1>3, <1>4, <1>5, <1>6, <1>7 DEF Next, Ask, EndCall, vars

LEMMA InitFloor == Init => RInv
  <1> SUFFICES ASSUME Init PROVE RInv
    OBVIOUS
  <1>1. IInv
    BY InitInv
  <1>2. Above(0)
    BY DEF Init, Above
  <1>3. QED
    BY <1>1, <1>2 DEF RInv, Floor

(* Filed before: the order of a tier's heap.                                *)
Before(k, o) == k.due < o.due \/ (k.due = o.due /\ SmallerId(k, o))

(* Every tier that is not empty has a root, and it is the tier's earliest.  *)
LEMMA RootExists ==
    ASSUME RInv, NEW o \in timers
    PROVE  \E r \in timers : /\ r.interval = o.interval /\ IsRoot(r)
                             /\ r = o \/ Before(r, o)
  <1> DEFINE tier == {x \in timers : x.interval = o.interval}
  <1>1. timers \subseteq TimerKey /\ nodes \in [Nodes -> Seq(ScheduledSpec)]
    BY DEF RInv, IInv, TypeOK
  <1>2. PICK b \in Nat : Above(b)
    BY DEF RInv, Floor
  <1>3. ASSUME NEW x \in timers
        PROVE  /\ x.due \in Int /\ x.node \in Nat /\ x.index \in Nat
               /\ x = [interval |-> x.interval, due |-> x.due,
                       node |-> x.node, index |-> x.index]
               /\ x.due + b \in Nat
    <2>1. x \in TimerKey /\ x \in Reindex(nodes)
      BY <1>1 DEF RInv, IInv, IndexMatches
    <2>2. /\ x.due \in Int /\ x.node \in Nat /\ x.index \in Nat
          /\ x = [interval |-> x.interval, due |-> x.due,
                  node |-> x.node, index |-> x.index]
      BY <2>1, TimersAssumption DEF TimerKey
    <2>3. PICK n \in Nodes : \E i \in DOMAIN nodes[n] : x = KeyOf(nodes[n], n, i)
      BY <1>1, <2>1, ReindexType
    <2>4. PICK i \in DOMAIN nodes[n] : x = KeyOf(nodes[n], n, i)
      BY <2>3
    <2>5. x.due = nodes[n][i].due /\ nodes[n][i].due >= -b
      BY <1>2, <2>4 DEF Above, KeyOf
    <2>6. QED
      BY <2>2, <2>5
  <1> DEFINE heights == {x.due + b : x \in tier}
  <1>4. PICK h \in heights : \A y \in heights : h =< y
    <2>1. heights \in SUBSET Nat /\ heights # {}
      BY <1>3
    <2> HIDE DEF heights
    <2>2. QED
      BY <2>1, LeastNat
  <1> DEFINE ids == {x.node : x \in {x \in tier : x.due + b = h}}
  <1>5. PICK n \in ids : \A y \in ids : n =< y
    <2>1. ids \in SUBSET Nat /\ ids # {}
      BY <1>3, <1>4
    <2> HIDE DEF ids
    <2>2. QED
      BY <2>1, LeastNat
  <1> DEFINE places == {x.index : x \in {x \in tier : x.due + b = h /\ x.node = n}}
  <1>6. PICK i \in places : \A y \in places : i =< y
    <2>1. places \in SUBSET Nat /\ places # {}
      BY <1>3, <1>5
    <2> HIDE DEF places
    <2>2. QED
      BY <2>1, LeastNat
  <1>7. PICK r \in tier : r.due + b = h /\ r.node = n /\ r.index = i
    BY <1>6
  <1>8. ASSUME NEW x \in tier, x # r
        PROVE  Before(r, x)
    <2>1. /\ h =< x.due + b
          /\ x.due + b = h => n =< x.node
          /\ x.due + b = h /\ x.node = n => i =< x.index
      BY <1>4, <1>5, <1>6
    <2>2. ~(x.due = r.due /\ x.node = r.node /\ x.index = r.index)
      <3>1. x.interval = r.interval
        OBVIOUS
      <3>2. /\ x = [interval |-> x.interval, due |-> x.due,
                    node |-> x.node, index |-> x.index]
            /\ r = [interval |-> r.interval, due |-> r.due,
                    node |-> r.node, index |-> r.index]
        BY <1>3
      <3>3. QED
        BY <1>8, <3>1, <3>2
    <2>3. /\ x.due \in Int /\ x.node \in Nat /\ x.index \in Nat
          /\ r.due \in Int /\ r.node \in Nat /\ r.index \in Nat
      BY <1>3
    <2>4. QED
      BY <1>7, <2>1, <2>2, <2>3 DEF Before, SmallerId
  <1>9. IsRoot(r)
    BY <1>8 DEF IsRoot, Before
  <1>10. QED
    BY <1>8, <1>9

LEMMA MulMono ==
    ASSUME NEW a \in Nat, NEW b \in Nat, NEW c \in Nat \ {0}
    PROVE  (a =< b => a * c =< b * c) /\ (a < b => a * c < b * c)
  OBVIOUS

LEMMA DivMono ==
    ASSUME NEW a \in Nat, NEW b \in Nat, NEW c \in Nat \ {0}, a =< b
    PROVE  a \div c \in Nat /\ b \div c \in Nat /\ a \div c =< b \div c
  OBVIOUS

(* Whole milliseconds of lateness: an earlier deadline has no fewer.        *)
LEMMA BehindMono ==
    ASSUME NEW r \in TimerKey, NEW o \in TimerKey, r.due =< o.due
    PROVE  Behind(r) \in Nat /\ Behind(o) \in Nat /\ Behind(o) =< Behind(r)
  <1>1. r.due \in Int /\ o.due \in Int /\ Grain \in Nat \ {0}
    BY TimersAssumption DEF TimerKey
  <1> DEFINE late(x) == IF x.due < 0 THEN -x.due ELSE 0
  <1>2. late(r) \in Nat /\ late(o) \in Nat /\ late(o) =< late(r)
    BY <1>1
  <1>3. 0 \div Grain = 0
    BY <1>1
  <1>4. Behind(r) = late(r) \div Grain /\ Behind(o) = late(o) \div Grain
    BY <1>3 DEF Behind
  <1> HIDE DEF late
  <1>5. QED
    BY <1>1, <1>2, <1>4, DivMono

LEMMA KeyTypes ==
    ASSUME NEW x \in TimerKey
    PROVE  /\ x.due \in Int /\ x.interval \in Nat
           /\ x.node \in Nat /\ x.index \in Nat
  BY TimersAssumption DEF TimerKey

(* Cross-multiplied lateness is compatible with the order of a tier, up to  *)
(* the millisecond.                                                         *)
LEMMA LaterThrough ==
    ASSUME NEW k \in TimerKey, NEW r \in TimerKey, NEW o \in TimerKey,
           k.interval > 0, r.interval = o.interval,
           k = r \/ LaterFirst(k, r), Before(r, o)
    PROVE  /\ Behind(o) * k.interval =< Behind(k) * o.interval
           /\ \/ LaterFirst(k, o)
              \/ r.due < o.due /\ Behind(r) = Behind(o)
  <1> DEFINE bk == Behind(k)
             br == Behind(r)
             bo == Behind(o)
  <1>1. /\ k.due \in Int /\ r.due \in Int /\ o.due \in Int
        /\ k.interval \in Nat \ {0} /\ o.interval \in Nat
        /\ k.node \in Nat /\ r.node \in Nat /\ o.node \in Nat
        /\ k.index \in Nat /\ r.index \in Nat /\ o.index \in Nat
    <2>1. k.interval \in Nat
      BY KeyTypes
    <2>2. k.interval \in Nat \ {0}
      BY <2>1
    <2>3. QED
      BY <2>2, KeyTypes
  <1>2. r.due =< o.due /\ (r.due < o.due \/ SmallerId(r, o))
    BY <1>1 DEF Before
  <1>3. bk \in Nat /\ br \in Nat /\ bo \in Nat /\ bo =< br
    BY <1>1, <1>2, BehindMono
  <1>4. br * k.interval < bk * o.interval
        \/ (br * k.interval = bk * o.interval /\ (k = r \/ SmallerId(k, r)))
    BY DEF LaterFirst
  <1> HIDE DEF bk, br, bo
  <1>5. /\ bo * k.interval =< br * k.interval
        /\ bo < br => bo * k.interval < br * k.interval
    BY <1>1, <1>3, MulMono
  <1>6. /\ bo * k.interval \in Nat /\ br * k.interval \in Nat
        /\ bk * o.interval \in Nat
    BY <1>1, <1>3, MulType
  <1>7. SmallerId(r, o) /\ (k = r \/ SmallerId(k, r)) => SmallerId(k, o)
    BY <1>1 DEF SmallerId
  <1> DEFINE x == bo * k.interval
             y == br * k.interval
             z == bk * o.interval
  <1>8. x \in Nat /\ y \in Nat /\ z \in Nat
    BY <1>6
  <1>9. x =< y /\ (bo < br => x < y)
    BY <1>5
  <1>10. y < z \/ (y = z /\ (k = r \/ SmallerId(k, r)))
    BY <1>4
  <1> HIDE DEF x, y, z
  <1>11. x =< z
    BY <1>8, <1>9, <1>10
  <1>12. \/ x < z \/ (x = z /\ SmallerId(k, o))
         \/ r.due < o.due /\ br = bo
    <2>1. CASE bo < br
      BY <1>8, <1>9, <1>10, <2>1
    <2>2. CASE bo = br /\ SmallerId(r, o)
      BY <1>7, <1>8, <1>9, <1>10, <2>2
    <2>3. QED
      BY <1>2, <1>3, <2>1, <2>2
  <1>13. LaterFirst(k, o) <=> (x < z \/ (x = z /\ SmallerId(k, o)))
    BY DEF LaterFirst, x, z, bk, bo
  <1>14. QED
    BY <1>11, <1>12, <1>13 DEF x, z, bk, br, bo

LEMMA PopRanked ==
    ASSUME RInv, NEW k \in timers, Pop(k),
           NEW o \in Reindex(nodes) \ call.rearmed, o.due =< 0, o # k
    PROVE  /\ Behind(o) * k.interval =< Behind(k) * o.interval
           /\ LaterFirst(k, o) \/ Hidden(o)
  <1>1. o \in timers /\ timers \subseteq TimerKey
    BY DEF RInv, IInv, IndexMatches, TypeOK
  <1>2. PICK r \in timers : /\ r.interval = o.interval /\ IsRoot(r)
                            /\ r = o \/ Before(r, o)
    BY <1>1, RootExists
  <1>3. r.due =< 0
    <2>1. r.due \in Int /\ o.due \in Int
      BY <1>1, <1>2 DEF TimerKey
    <2>2. QED
      BY <1>2, <2>1 DEF Before
  <1>4. r \in DueRoots
    BY <1>2, <1>3 DEF DueRoots
  <1>5. k = r \/ LaterFirst(k, r)
    BY <1>4 DEF Pop, IsBest
  <1>6. CASE r = o
    <2>1. LaterFirst(k, o)
      BY <1>5, <1>6
    <2>2. /\ Behind(o) \in Nat /\ Behind(k) \in Nat
          /\ k.interval \in Nat /\ o.interval \in Nat
      <3>1. o.due =< o.due /\ k.due =< k.due
        BY <1>1, KeyTypes
      <3>2. QED
        BY <1>1, <3>1, BehindMono, KeyTypes
    <2>3. Behind(o) * k.interval \in Nat /\ Behind(k) * o.interval \in Nat
      BY <2>2, MulType
    <2>4. QED
      BY <2>1, <2>3 DEF LaterFirst
  <1>7. CASE Before(r, o)
    <2>1. k = KeyOf(nodes[k.node], k.node, k.index)
          /\ nodes[k.node][k.index] \in ScheduledSpec
      BY PopFacts DEF RInv
    <2>2. k.interval = Interval[nodes[k.node][k.index].spec]
      BY <2>1 DEF KeyOf
    <2>3. k.interval > 0
      BY <2>1, <2>2, TimersAssumption DEF ScheduledSpec
    <2>4. /\ Behind(o) * k.interval =< Behind(k) * o.interval
          /\ \/ LaterFirst(k, o)
             \/ r.due < o.due /\ Behind(r) = Behind(o)
      BY <1>1, <1>2, <1>5, <1>7, <2>3, LaterThrough
    <2>5. QED
      BY <1>2, <2>4 DEF Hidden
  <1>8. QED
    BY <1>2, <1>6, <1>7

(* Choosing among the roots of the tiers is choosing among all specs, up to *)
(* the millisecond: no spec that waits is later as a fraction of its own    *)
(* interval than the one pop_best takes out, and an equally late one with a *)
(* smaller id is passed over only when an earlier deadline of its own tier  *)
(* falls into the same millisecond, for any number of nodes and intervals.  *)
THEOREM RankingSound == Spec => RankedAsFullWalk
  <1>1. RInv => \A k \in timers : Pop(k) =>
            \A o \in Reindex(nodes) \ call.rearmed : o.due =< 0 /\ o # k =>
                /\ Behind(o) * k.interval =< Behind(k) * o.interval
                /\ LaterFirst(k, o) \/ Hidden(o)
    BY PopRanked
  <1>2. QED
    BY <1>1, InitFloor, NextFloor, PTL DEF Spec, RankedAsFullWalk
=============================================================================
