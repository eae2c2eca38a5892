------------------------- MODULE AlertEngineProofs --------------------------
(***************************************************************************)
(* Theorems about the alert engine, for every network of nodes, every rank *)
(* in which they speak, every dwell, queue length, and every number and    *)
(* mix of edits, windows, pauses, restarts and failed deliveries.          *)
(***************************************************************************)
EXTENDS AlertEngine, NaturalsInduction, WellFoundedInduction, TLAPS

-----------------------------------------------------------------------------
(* Checks and alerts.                                                       *)

LEMMA CheckOf ==
    /\ \A n \in Nodes : /\ Liveness(n) \in Checks /\ IsLiveness(Liveness(n))
                        /\ NodeOf(Liveness(n)) = n
    /\ \A n \in Readers : /\ Reading(n) \in Checks /\ ~IsLiveness(Reading(n))
                          /\ NodeOf(Reading(n)) = n
  BY DEF Checks, Liveness, Reading, IsLiveness, NodeOf

LEMMA CheckCases ==
    ASSUME NEW c \in Checks
    PROVE  /\ NodeOf(c) \in Nodes
           /\ IsLiveness(c) \in BOOLEAN
           /\ IsLiveness(c) => c = Liveness(NodeOf(c))
           /\ ~IsLiveness(c) => c = Reading(NodeOf(c)) /\ NodeOf(c) \in Readers
  <1>1. CASE \E n \in Nodes : c = Liveness(n)
    BY <1>1 DEF Liveness, Reading, IsLiveness, NodeOf
  <1>2. CASE \E n \in Readers : c = Reading(n)
    BY <1>2, GraphAssumption DEF Liveness, Reading, IsLiveness, NodeOf
  <1>3. QED
    BY <1>1, <1>2 DEF Checks

Rows == [state : States, side : Sides]

LEMMA AlertFields ==
    ASSUME NEW a \in Alerts
    PROVE  /\ a # NoAlert
           /\ a.state \in States /\ a.side \in Sides /\ a.held \in BOOLEAN
           /\ a.rc \in Nodes \cup {NoNode}
           /\ Row(a) \in Rows
           /\ Severity(a.state) \in {"warning", "critical"}
  BY DEF Alerts, NoAlert, States, Rows, Row, Severity

LEMMA AlertUpdates ==
    ASSUME NEW a \in Alerts
    PROVE  /\ [a EXCEPT !.held = FALSE] \in Alerts
           /\ \A r \in Nodes \cup {NoNode} :
                 /\ [a EXCEPT !.rc = r] \in Alerts
                 /\ [a EXCEPT !.rc = r, !.held = FALSE] \in Alerts
                 /\ \A s \in Sides : [a EXCEPT !.side = s, !.rc = r] \in Alerts
  BY DEF Alerts

LEMMA NoAlertFields ==
    /\ NoAlert.rc = NoNode /\ NoAlert.held = FALSE /\ NoAlert.state = "none"
    /\ NoAlert.side = "none" /\ NoAlert \notin Alerts
  BY DEF NoAlert, Alerts, States

-----------------------------------------------------------------------------
(* Grouping.                                                                *)

LEMMA LeastNat ==
    ASSUME NEW S \in SUBSET Nat, S # {}
    PROVE  \E x \in S : \A y \in S : x =< y
  <1>1. PICK x \in S : \A y \in S : ~(<<y, x>> \in OpToRel(<, Nat))
    BY NatLessThanWellFounded, WFMin
  <1>2. \A y \in S : y \in Nat /\ x \in Nat /\ ~(y < x)
    BY <1>1, Zenon DEF OpToRel
  <1>3. QED
    BY <1>2

LEMMA LeastRank ==
    ASSUME NEW P \in SUBSET Nodes, P # {}
    PROVE  \E n \in P : \A m \in P : Rank[n] <= Rank[m]
  <1>1. {Rank[n] : n \in P} \in SUBSET Nat /\ {Rank[n] : n \in P} # {}
    BY GraphAssumption
  <1>2. PICK i \in {Rank[n] : n \in P} : \A j \in {Rank[n] : n \in P} : i <= j
    BY <1>1, LeastNat
  <1>3. QED
    BY <1>2

(* The node that speaks for a region is one of its nodes, of the lowest     *)
(* rank among those that are asked.                                         *)
LEMMA SpeakerSound ==
    ASSUME NEW D \in SUBSET Nodes, NEW R \in SUBSET Nodes, R # {}
    PROVE  /\ Speaker(R, D) \in R
           /\ \/ TouchesALiveNode(Speaker(R, D), D)
              \/ /\ \A n \in R : ~TouchesALiveNode(n, D)
                 /\ \A n \in R : Rank[Speaker(R, D)] <= Rank[n]
  <1> DEFINE borders == {n \in R : TouchesALiveNode(n, D)}
  <1>1. CASE borders = {}
    <2>1. \E n \in R : \A m \in R : Rank[n] <= Rank[m]
      BY LeastRank
    <2>2. Speaker(R, D) = CHOOSE n \in R : \A m \in R : Rank[n] <= Rank[m]
      BY <1>1 DEF Speaker
    <2>3. QED
      BY <1>1, <2>1, <2>2
  <1>2. CASE borders # {}
    <2>1. \E n \in borders : \A m \in borders : Rank[n] <= Rank[m]
      BY <1>2, LeastRank
    <2>2. Speaker(R, D) = CHOOSE n \in borders : \A m \in borders : Rank[n] <= Rank[m]
      BY <1>2 DEF Speaker
    <2>3. QED
      BY <2>1, <2>2
  <1>3. QED
    BY <1>1, <1>2

LEMMA RegionHolds ==
    ASSUME NEW D \in SUBSET Nodes, NEW n \in D
    PROVE  n \in Region(n, D) /\ Region(n, D) \subseteq D
  BY DEF Region

LEMMA RootCauseType ==
    ASSUME NEW n \in Nodes, NEW D \in SUBSET Nodes, NEW g \in BOOLEAN
    PROVE  RootCause(n, D, g) \in Nodes \cup {NoNode}
  <1>1. CASE n \in D
    <2>1. Region(n, D) \in SUBSET Nodes /\ Region(n, D) # {}
      BY <1>1, RegionHolds
    <2>2. Speaker(Region(n, D), D) \in Nodes
      BY <2>1, SpeakerSound
    <2>3. QED
      BY <2>2 DEF RootCause
  <1>2. CASE n \notin D
    BY <1>2 DEF RootCause
  <1>3. QED
    BY <1>1, <1>2

(* A region is closed under its links, so the region of any of its nodes is *)
(* the same region, and the node that speaks for it speaks for itself.      *)
LEMMA RegionClosed ==
    ASSUME NEW D \in SUBSET Nodes, NEW n \in D, NEW k \in Region(n, D)
    PROVE  Neighbours[k] \cap D \subseteq Region(n, D)
  <1> SUFFICES ASSUME NEW m \in Neighbours[k] \cap D,
                      NEW S \in SUBSET D, n \in S,
                      \A j \in S : Neighbours[j] \cap D \subseteq S
               PROVE  m \in S
    BY DEF Region
  <1>1. k \in S
    BY DEF Region
  <1>2. QED
    BY <1>1

LEMMA RegionSame ==
    ASSUME NEW D \in SUBSET Nodes, NEW n \in D, NEW s \in Region(n, D)
    PROVE  Region(s, D) = Region(n, D)
  <1>1. s \in D
    BY RegionHolds
  <1>2. Region(s, D) \subseteq Region(n, D)
    <2>1. Region(n, D) \in SUBSET D /\ \A k \in Region(n, D) : Neighbours[k] \cap D \subseteq Region(n, D)
      BY RegionHolds, RegionClosed
    <2>2. QED
      BY <2>1 DEF Region
  <1>3. n \in Region(s, D)
    <2> DEFINE Rest == Region(n, D) \ Region(s, D)
    <2> SUFFICES ASSUME n \notin Region(s, D) PROVE FALSE
      OBVIOUS
    <2>1. Rest \in SUBSET D /\ n \in Rest
      BY RegionHolds
    <2>2. ASSUME NEW k \in Rest, NEW m \in Neighbours[k] \cap D PROVE m \in Rest
      <3>1. m \in Region(n, D)
        BY <2>2, RegionClosed
      <3>2. k \in D /\ k \in Nodes /\ m \in Nodes
        BY <2>1
      <3>3. k \in Neighbours[m] \cap D
        BY <3>2, GraphAssumption
      <3>4. ASSUME m \in Region(s, D) PROVE FALSE
        BY <3>3, <3>4, <1>1, RegionClosed
      <3>5. QED
        BY <3>1, <3>4
    <2>3. s \in Rest
      BY <2>1, <2>2 DEF Region
    <2>4. QED
      BY <2>3, <1>1, RegionHolds
  <1>4. Region(n, D) \subseteq Region(s, D)
    <2>1. Region(s, D) \in SUBSET D /\ \A k \in Region(s, D) : Neighbours[k] \cap D \subseteq Region(s, D)
      BY <1>1, RegionHolds, RegionClosed
    <2>2. QED
      BY <2>1, <1>3 DEF Region
  <1>5. QED
    BY <1>2, <1>4

LEMMA SpeakerSpeaks ==
    ASSUME NEW n \in Nodes, NEW D \in SUBSET Nodes, NEW g \in BOOLEAN,
           RootCause(n, D, g) # NoNode
    PROVE  /\ RootCause(n, D, g) \in D
           /\ RootCause(RootCause(n, D, g), D, g) = NoNode
  <1> DEFINE R == Region(n, D)
             s == Speaker(R, D)
  <1>1. n \in D /\ g /\ RootCause(n, D, g) = s
    BY DEF RootCause
  <1>2. R \in SUBSET Nodes /\ R # {} /\ R \subseteq D
    BY <1>1, RegionHolds
  <1> HIDE DEF R
  <1>3. /\ s \in R
        /\ \/ TouchesALiveNode(s, D)
           \/ /\ \A m \in R : ~TouchesALiveNode(m, D)
              /\ \A m \in R : Rank[s] <= Rank[m]
    BY <1>2, SpeakerSound
  <1>4. s \in D
    BY <1>2, <1>3
  <1>5. Region(s, D) = R
    BY <1>1, <1>3, RegionSame DEF R
  <1>6. Speaker(Region(s, D), D) = s
    BY <1>5
  <1> HIDE DEF s
  <1>7. RootCause(s, D, g) = NoNode
    BY <1>6 DEF RootCause
  <1>8. QED
    BY <1>1, <1>4, <1>7

-----------------------------------------------------------------------------
(* Dwell and types.                                                         *)

Trackers == [committed : States, confirmed : BOOLEAN, cand : States \cup {"none"}, n : 0 .. Dwell]

LEMMA SettledType == Seed \in Trackers /\ \A s \in States : Settled(s) \in Trackers
  <1>1. 0 \in 0 .. Dwell
    BY DwellAssumption
  <1>2. QED
    BY <1>1 DEF Seed, Settled, Trackers, States

(* A sample either commits its state or leaves the committed one alone.     *)
LEMMA ObserveSampleSound ==
    ASSUME NEW t \in Trackers, NEW raw \in States
    PROVE  /\ ObserveSample(t, raw) \in Trackers
           /\ \/ ObserveSample(t, raw) = Settled(raw)
              \/ /\ ObserveSample(t, raw).committed = t.committed
                 /\ ObserveSample(t, raw).confirmed = t.confirmed
                 /\ raw # t.committed
  <1> DEFINE run == IF t.cand = raw THEN t.n + 1 ELSE 1
  <1>1. run \in Nat /\ t.n \in 0 .. Dwell
    BY DwellAssumption DEF Trackers
  <1>2. CASE raw = t.committed
    BY <1>2, SettledType DEF ObserveSample
  <1>3. CASE raw # t.committed /\ run >= Dwell
    BY <1>3, SettledType DEF ObserveSample
  <1>4. CASE raw # t.committed /\ ~(run >= Dwell)
    <2>1. ObserveSample(t, raw) = [t EXCEPT !.cand = raw, !.n = run]
      BY <1>4 DEF ObserveSample
    <2>2. run \in 0 .. Dwell
      BY <1>1, <1>4, DwellAssumption
    <2> HIDE DEF run
    <2>3. QED
      BY <1>4, <2>1, <2>2 DEF Trackers
  <1>5. QED
    BY <1>2, <1>3, <1>4

LEMMA RawType ==
    ASSUME Shapes, NEW n \in Nodes
    PROVE  /\ \A o \in Outcomes : Raw(n, StateOf(o)) \in {"ok", "unreachable", "unknown", "maintenance"}
           /\ \A r \in Readings : Raw(n, r.state) \in {"ok", "warning", "critical", "unknown", "maintenance"}
  BY InputAssumption DEF Raw, StateOf

LEMMA GroupedType == Shapes => Grouped \in BOOLEAN
  BY DEF Shapes, Grouped

LEMMA JudgedType ==
    ASSUME NEW c \in Checks, NEW D \in SUBSET Nodes, NEW g \in BOOLEAN
    PROVE  Judged(c, D, g) \in Nodes \cup {NoNode}
  <1>1. NodeOf(c) \in Nodes
    BY CheckCases
  <1>2. RootCause(NodeOf(c), D, g) \in Nodes \cup {NoNode}
    BY <1>1, RootCauseType
  <1>3. QED
    BY <1>1, <1>2 DEF Judged

LEMMA CandidatesType ==
    ASSUME NEW changed, NEW D \in SUBSET Nodes, NEW g \in BOOLEAN,
           NEW A \in [Checks -> Alerts \cup {NoAlert}]
    PROVE  Candidates(changed, D, A, g) \in SUBSET Pending
  <1> SUFFICES ASSUME NEW c \in Checks, A[c] # NoAlert
               PROVE  [check |-> c, alert |-> A[c], rc |-> Judged(c, D, g)] \in Pending
    BY DEF Candidates
  <1>1. A[c] \in Alerts /\ Judged(c, D, g) \in Nodes \cup {NoNode}
    BY JudgedType
  <1>2. QED
    BY <1>1 DEF Pending

(* Membership in Candidates: one record per check, naming the alert as it   *)
(* is and the attribution the arguments ask for.                            *)
LEMMA CandidatesSound ==
    ASSUME NEW changed, NEW D, NEW A, NEW g, NEW x \in Candidates(changed, D, A, g)
    PROVE  /\ x.check \in Checks /\ A[x.check] # NoAlert /\ x.alert = A[x.check]
           /\ x.rc = Judged(x.check, D, g)
           /\ ~IsLiveness(x.check) => NodeOf(x.check) = changed
           /\ \A y \in Candidates(changed, D, A, g) : y.check = x.check => y = x
  <1> DEFINE item(c) == [check |-> c, alert |-> A[c], rc |-> Judged(c, D, g)]
             Wanted(k) == IF IsLiveness(k)
                          THEN NodeOf(k) # changed /\ (Judged(k, D, g) # NoNode \/ A[k].rc # NoNode)
                          ELSE NodeOf(k) = changed
  <1>1. \A y \in Candidates(changed, D, A, g) :
            \E c \in Checks : A[c] # NoAlert /\ Wanted(c) /\ y = item(c)
    BY Zenon DEF Candidates
  <1> HIDE DEF Wanted
  <1>2. PICK c \in Checks : A[c] # NoAlert /\ Wanted(c) /\ x = item(c)
    BY <1>1
  <1>3. x.check = c /\ x.alert = A[c] /\ x.rc = Judged(c, D, g)
    BY <1>2
  <1>4. \A y \in Candidates(changed, D, A, g) : y.check = x.check => y = x
    BY <1>1, <1>2, <1>3
  <1>5. QED
    BY <1>2, <1>3, <1>4 DEF Wanted

LEMMA CandidatesComplete ==
    ASSUME NEW changed, NEW D, NEW A, NEW g, NEW c \in Checks, A[c] # NoAlert,
           IF IsLiveness(c)
           THEN NodeOf(c) # changed /\ (Judged(c, D, g) # NoNode \/ A[c].rc # NoNode)
           ELSE NodeOf(c) = changed
    PROVE  \E x \in Candidates(changed, D, A, g) : x.check = c
  <1> DEFINE x == [check |-> c, alert |-> A[c], rc |-> Judged(c, D, g)]
  <1>1. x \in Candidates(changed, D, A, g)
    BY Zenon DEF Candidates
  <1>2. x.check = c
    OBVIOUS
  <1> HIDE DEF x
  <1>3. QED
    BY <1>1, <1>2

LEMMA ActionType ==
    ASSUME NEW kind \in {"fire", "resolve", "suppress"}, NEW c \in Checks, NEW a \in Alerts
    PROVE  <<Action(kind, c, a)>> \in Seq(Acts)
  <1>1. Action(kind, c, a) \in Acts
    BY DEF Action, Acts
  <1>2. QED
    BY <1>1

LEMMA EmptyActs == <<>> \in Seq(Acts)
  OBVIOUS

LEMMA ReturnType ==
    ASSUME out \in [Tasks -> Seq(Acts)], NEW t \in Tasks, NEW acts \in Seq(Acts), Return(t, acts)
    PROVE  out' \in [Tasks -> Seq(Acts)]
  <1>1. out[t] \o acts \in Seq(Acts)
    OBVIOUS
  <1>2. QED
    BY <1>1 DEF Return

LEMMA ActFields ==
    ASSUME NEW act \in Acts
    PROVE  act.check \in Checks /\ act.alert \in Alerts /\ act.kind \in {"fire", "resolve", "suppress"}
  BY DEF Acts

LEMMA PendingFields ==
    ASSUME NEW x \in Pending
    PROVE  x.check \in Checks /\ x.alert \in Alerts /\ x.rc \in Nodes \cup {NoNode}
  BY DEF Pending

LEMMA AttributionActionsType ==
    ASSUME NEW x \in Pending, NEW a \in Alerts
    PROVE  AttributionActions(x, a) \in Seq(Acts)
  <1>1. x.check \in Checks
    BY PendingFields
  <1>2. /\ <<Action("fire", x.check, a)>> \in Seq(Acts)
        /\ <<Action("suppress", x.check, a)>> \in Seq(Acts)
    BY <1>1, ActionType
  <1>3. QED
    BY <1>2, EmptyActs DEF AttributionActions

(* Nothing is what no task works on.                                        *)
LEMMA Nothing ==
    /\ NoCall.step = "none" /\ NoCall.sweep = FALSE /\ NoCall.check = NoCheck
    /\ NoCheck \notin Checks
    /\ NoView.step = "none" /\ NoView.changed = NoNode /\ NoView \in Views
    /\ NoLook.snap = {} /\ NoLook.ready = <<>>
  <1>1. NoCheck \notin Checks
    BY GraphAssumption DEF NoCheck, Checks, Liveness, Reading
  <1>2. QED
    BY <1>1 DEF NoCall, NoView, NoLook, Views

LEMMA SweepView ==
    ASSUME NEW changed \in Nodes \cup {NoNode}
    PROVE  /\ Sweep(changed) \in Views /\ Sweep(changed).step = "look"
           /\ Sweep(changed).changed = changed /\ Sweep(changed) # NoView
  BY DEF Sweep, NoView, Views

LEMMA InitType == Init => TypeOK /\ Shapes
  <1> SUFFICES ASSUME Init PROVE TypeOK /\ Shapes
    OBVIOUS
  <1>1. TypeOK
    BY SettledType, InputAssumption, DwellAssumption
       DEF Init, TypeOK, Trackers, NoRelease, Keys
  <1>2. Shapes
    BY InputAssumption, Nothing DEF Init, Shapes, NoLook, Sides
  <1>3. QED
    BY <1>1, <1>2

-----------------------------------------------------------------------------
(* What the steps keep of the types.                                        *)

(* What an observation of a node's liveness does, with the tracker it leaves *)
(* named t.                                                                 *)
Observes(n, t) ==
    /\ Idle("ingest")
    /\ tracker' = [tracker EXCEPT ![Liveness(n)] = t]
    /\ live' = LiveAfter(n, t)
    /\ down' = DownAfter(n, t)
    /\ call' = Decision(n, t, DownAfter(n, t))
    /\ UNCHANGED <<active, held, expired, releasing, sidePending, cfg, regrouped, view, todo,
                   holding, unholding, out, look, queue, sides, incidents, rows, history>>
    /\ spent'["crash"] = spent["crash"]
    /\ Excuse
    /\ t.committed # tracker[Liveness(n)].committed
         => t.confirmed /\ t.committed \in {"ok", "unreachable", "unknown", "maintenance"}

LEMMA LivenessStep ==
    ASSUME TypeOK, Shapes, NEW n \in Nodes, NEW o \in Outcomes, ObserveLiveness(n, o)
    PROVE  \E t \in Trackers : Observes(n, t)
  <1> DEFINE c == Liveness(n)
             raw == Raw(n, StateOf(o))
             t == ObserveSample(tracker[c], raw)
  <1>1. c \in Checks /\ tracker[c] \in Trackers
    BY CheckOf DEF TypeOK, Trackers
  <1>2. raw \in {"ok", "unreachable", "unknown", "maintenance"} /\ raw \in States
    BY RawType DEF States
  <1> HIDE DEF raw
  <1>3. /\ t \in Trackers
        /\ t = Settled(raw) \/ (t.committed = tracker[c].committed /\ t.confirmed = tracker[c].confirmed)
    BY <1>1, <1>2, ObserveSampleSound
  <1>4. Settled(raw).committed = raw /\ Settled(raw).confirmed = TRUE
    BY DEF Settled
  <1>5. t.committed # tracker[c].committed
          => t.confirmed /\ t.committed \in {"ok", "unreachable", "unknown", "maintenance"}
    BY <1>2, <1>3, <1>4
  <1>6. spent'["crash"] = spent["crash"]
    <2>1. Spends(Changes(c, t)) /\ "crash" \notin Changes(c, t)
      BY DEF ObserveLiveness, Changes, raw
    <2>2. "crash" \in DOMAIN Budget
      BY InputAssumption
    <2> HIDE DEF t, c
    <2>3. QED
      BY <2>1, <2>2 DEF Spends
  <1>7. Observes(n, t)
    BY <1>5, <1>6 DEF ObserveLiveness, Observes, raw, config, sweeps, delivery, records
  <1>8. QED
    BY <1>3, <1>7

LEMMA DownAfterSound ==
    ASSUME TypeOK, NEW n \in Nodes, NEW t \in Trackers
    PROVE  /\ LiveAfter(n, t) \in [Nodes -> States \cup {"unseen"}]
           /\ DownAfter(n, t) = {m \in Nodes : LiveAfter(n, t)[m] = "unreachable"}
           /\ \A m \in Nodes \ {n} : (m \in DownAfter(n, t) <=> m \in down) /\ LiveAfter(n, t)[m] = live[m]
           /\ t.confirmed => /\ n \in DownAfter(n, t) <=> t.committed = "unreachable"
                             /\ LiveAfter(n, t)[n] = t.committed
           /\ ~t.confirmed => DownAfter(n, t) = down /\ LiveAfter(n, t) = live
  <1>1. t.committed \in States /\ t.confirmed \in BOOLEAN
    BY DEF Trackers
  <1>2. CASE ~t.confirmed
    BY <1>1, <1>2 DEF LiveAfter, DownAfter, TypeOK
  <1>3. CASE t.confirmed
    <2>1. LiveAfter(n, t) = [live EXCEPT ![n] = t.committed]
      BY <1>3 DEF LiveAfter
    <2>2. DownAfter(n, t) = IF t.committed = "unreachable" THEN down \cup {n} ELSE down \ {n}
      BY <1>3 DEF DownAfter
    <2>3. QED
      BY <1>1, <1>3, <2>1, <2>2 DEF TypeOK
  <1>4. QED
    BY <1>1, <1>2, <1>3

LEMMA ObservesType ==
    ASSUME TypeOK, Shapes, NEW n \in Nodes, NEW t \in Trackers, Observes(n, t)
    PROVE  TypeOK' /\ Shapes'
  <1>1. Liveness(n) \in Checks
    BY CheckOf
  <1>2. tracker' \in [Checks -> Trackers]
    BY <1>1 DEF Observes, TypeOK, Trackers
  <1>3. /\ live' \in [Nodes -> States \cup {"unseen"}]
        /\ down' = {m \in Nodes : live'[m] = "unreachable"}
    BY DownAfterSound DEF Observes
  <1>4. UNCHANGED <<active, held, expired, releasing, sidePending, cfg, regrouped, view, todo,
                    holding, unholding, out, look, queue, sides, incidents, rows, history>>
    BY DEF Observes
  <1>5. TypeOK'
    BY <1>2, <1>3, <1>4 DEF TypeOK, Trackers
  <1>6. Shapes'
    BY <1>4 DEF Shapes
  <1>7. QED
    BY <1>5, <1>6

(* The part of the types that changing one alert touches.                   *)
SpeechOK ==
    /\ active \in [Checks -> Alerts \cup {NoAlert}]
    /\ out \in [Tasks -> Seq(Acts)]
    /\ holding \subseteq Checks /\ unholding \in [Tasks -> SUBSET Checks]

LEMMA SpeechParts == TypeOK /\ Shapes => SpeechOK
  BY DEF TypeOK, Shapes, SpeechOK

LEMMA CloseType ==
    ASSUME SpeechOK, NEW c \in Checks, Close(c)
    PROVE  SpeechOK'
  <1> DEFINE acts == IF IsOpen(c) /\ ~active[c].held
                     THEN <<Action("resolve", c, active[c])>> ELSE <<>>
  <1>1. acts \in Seq(Acts)
    BY ActionType, EmptyActs DEF IsOpen, SpeechOK
  <1>2. Return("ingest", acts) /\ "ingest" \in Tasks
    BY DEF Close, Tasks
  <1> HIDE DEF acts
  <1>3. out' \in [Tasks -> Seq(Acts)]
    BY <1>1, <1>2, ReturnType DEF SpeechOK
  <1>4. unholding' \in [Tasks -> SUBSET Checks]
    BY DEF Close, SpeechOK, Unlist
  <1>5. QED
    BY <1>3, <1>4 DEF Close, SpeechOK

LEMMA OpensType ==
    ASSUME SpeechOK, NEW c \in Checks, NEW a \in Alerts, Opens(c, a)
    PROVE  SpeechOK'
  <1> DEFINE acts == IF a.held THEN <<>> ELSE <<Action("fire", c, a)>>
  <1>1. acts \in Seq(Acts)
    BY ActionType, EmptyActs
  <1>2. Return("ingest", acts) /\ "ingest" \in Tasks
    BY DEF Opens, Tasks
  <1> HIDE DEF acts
  <1>3. out' \in [Tasks -> Seq(Acts)]
    BY <1>1, <1>2, ReturnType DEF SpeechOK
  <1>4. QED
    BY <1>3 DEF Opens, SpeechOK

(* What applying the decision about node n does.                            *)
LEMMA ApplyStep ==
    ASSUME CallInv, Apply
    PROVE  \E n \in Nodes :
             /\ call.check = Liveness(n) /\ call # NoCall
             /\ \/ call.step = "fire" /\ call.alert \in Alerts /\ Opens(call.check, call.alert)
                \/ call.step = "close" /\ Close(call.check)
                \/ call.step = "strand" /\ cfg.loaded /\ Close(call.check)
                \/ call.step = "strand" /\ ~cfg.loaded /\ UNCHANGED <<active, holding, unholding, out>>
             /\ call' = NoCall
             /\ view' = IF call.sweep THEN [view EXCEPT !["ingest"] = Sweep(n)] ELSE view
             /\ UNCHANGED <<tracker, live, down, held, expired, releasing, sidePending, cfg, regrouped,
                            todo, look, queue, sides, incidents, rows, history>>
             /\ Excuse
  <1>1. call.step \in {"fire", "close", "strand"}
    BY DEF Apply
  <1>2. PICK n \in Nodes : call.check = Liveness(n) /\ (call.step = "fire" => call.alert \in Alerts)
    BY <1>1, Nothing DEF CallInv
  <1>3. call # NoCall /\ NodeOf(call.check) = n
    BY <1>1, <1>2, Nothing, CheckOf
  <1>4. /\ call' = NoCall
        /\ view' = IF call.sweep THEN [view EXCEPT !["ingest"] = Sweep(n)] ELSE view
        /\ UNCHANGED <<tracker, live, down, held, expired, releasing, sidePending, cfg, regrouped,
                       todo, look, queue, sides, incidents, rows, history>>
        /\ Excuse
    BY <1>3 DEF Apply, config, delivery, records
  <1>5. \/ call.step = "fire" /\ call.alert \in Alerts /\ Opens(call.check, call.alert)
        \/ call.step = "close" /\ Close(call.check)
        \/ call.step = "strand" /\ cfg.loaded /\ Close(call.check)
        \/ call.step = "strand" /\ ~cfg.loaded /\ UNCHANGED <<active, holding, unholding, out>>
    BY <1>2 DEF Apply, ClosesStranded
  <1>6. QED
    BY <1>2, <1>3, <1>4, <1>5

LEMMA ApplyType ==
    ASSUME TypeOK, Shapes, CallInv, Apply
    PROVE  TypeOK' /\ Shapes'
  <1>1. PICK n \in Nodes :
          /\ call.check = Liveness(n)
          /\ \/ call.step = "fire" /\ call.alert \in Alerts /\ Opens(call.check, call.alert)
             \/ call.step = "close" /\ Close(call.check)
             \/ call.step = "strand" /\ cfg.loaded /\ Close(call.check)
             \/ call.step = "strand" /\ ~cfg.loaded /\ UNCHANGED <<active, holding, unholding, out>>
          /\ view' = IF call.sweep THEN [view EXCEPT !["ingest"] = Sweep(n)] ELSE view
          /\ UNCHANGED <<tracker, live, down, held, expired, releasing, sidePending, cfg, regrouped,
                         todo, look, queue, sides, incidents, rows, history>>
    BY ApplyStep, Zenon
  <1>2. call.check \in Checks /\ SpeechOK
    BY <1>1, CheckOf, SpeechParts
  <1>3. SpeechOK'
    <2>1. CASE UNCHANGED <<active, holding, unholding, out>>
      BY <1>2, <2>1 DEF SpeechOK
    <2>2. QED
      BY <1>1, <1>2, <2>1, OpensType, CloseType
  <1>4. view' \in [Tasks -> Views]
    BY <1>1, SweepView DEF Shapes
  <1>5. TypeOK'
    BY <1>1, <1>3 DEF TypeOK, SpeechOK
  <1>6. Shapes'
    BY <1>1, <1>3, <1>4 DEF Shapes, SpeechOK
  <1>7. QED
    BY <1>5, <1>6

LEMMA ReleaseTypes ==
    ASSUME TypeOK, NEW c \in Checks, NEW raw \in States
    PROVE  /\ NoRelease \in [on : BOOLEAN, n : 0 .. Dwell]
           /\ [on |-> TRUE, n |-> 0] \in [on : BOOLEAN, n : 0 .. Dwell]
           /\ ReleaseAfter(c, raw) \in [on : BOOLEAN, n : 0 .. Dwell]
  <1>1. 0 \in 0 .. Dwell
    BY DwellAssumption
  <1>2. releasing[c].n \in 0 .. Dwell
    BY DEF TypeOK
  <1>3. releasing[c].n + 1 < Dwell => releasing[c].n + 1 \in 0 .. Dwell
    BY <1>2, DwellAssumption
  <1>4. NoRelease \in [on : BOOLEAN, n : 0 .. Dwell]
    BY <1>1 DEF NoRelease
  <1>5. [on |-> TRUE, n |-> 0] \in [on : BOOLEAN, n : 0 .. Dwell]
    BY <1>1
  <1>6. ReleaseAfter(c, raw) \in [on : BOOLEAN, n : 0 .. Dwell]
    BY <1>3, <1>4, <1>5 DEF ReleaseAfter
  <1>7. QED
    BY <1>4, <1>5, <1>6

LEMMA ReadingCommitsType ==
    ASSUME TypeOK, Shapes, NEW n \in Readers, NEW r \in Readings, NEW raw \in States,
           ReadingCommits(n, Reading(n), raw, r)
    PROVE  /\ SpeechOK'
           /\ releasing' \in [Checks -> [on : BOOLEAN, n : 0 .. Dwell]]
           /\ sidePending' \in [Checks -> 0 .. Dwell]
  <1> DEFINE c == Reading(n)
             a == [state |-> raw, side |-> r.side, held |-> FALSE,
                   rc |-> IF n \in down THEN n ELSE NoNode]
  <1>1. c \in Checks /\ n \in Nodes /\ SpeechOK /\ "ingest" \in Tasks
    BY CheckOf, GraphAssumption, SpeechParts DEF Tasks
  <1>2. a \in Alerts
    BY <1>1, InputAssumption DEF Alerts, Sides
  <1>3. releasing' \in [Checks -> [on : BOOLEAN, n : 0 .. Dwell]]
    <2>1. releasing' = [releasing EXCEPT ![c] = NoRelease]
      BY DEF ReadingCommits
    <2>2. QED
      BY <2>1, <1>1, ReleaseTypes DEF TypeOK
  <1>4. sidePending' \in [Checks -> 0 .. Dwell]
    <2>1. sidePending' = [sidePending EXCEPT ![c] = 0] /\ 0 \in 0 .. Dwell
      BY DwellAssumption DEF ReadingCommits
    <2>2. QED
      BY <2>1 DEF TypeOK
  <1>5. CASE IsProblem(raw)
    <2>1. /\ active' = [active EXCEPT ![c] = a]
          /\ Return("ingest", <<Action("fire", c, a)>>)
          /\ UNCHANGED <<holding, unholding>>
      BY <1>5 DEF ReadingCommits
    <2> HIDE DEF a, c
    <2>2. out' \in [Tasks -> Seq(Acts)]
      BY <1>1, <1>2, <2>1, ActionType, ReturnType DEF SpeechOK
    <2>3. QED
      BY <1>1, <1>2, <1>3, <1>4, <2>1, <2>2 DEF SpeechOK
  <1>6. CASE ~IsProblem(raw)
    BY <1>1, <1>3, <1>4, <1>6, CloseType DEF ReadingCommits
  <1>7. QED
    BY <1>5, <1>6

LEMMA ReadingHoldsType ==
    ASSUME TypeOK, Shapes, NEW n \in Readers, NEW r \in Readings, NEW raw \in States,
           ReadingHolds(Reading(n), raw, r)
    PROVE  /\ SpeechOK'
           /\ releasing' \in [Checks -> [on : BOOLEAN, n : 0 .. Dwell]]
           /\ sidePending' \in [Checks -> 0 .. Dwell]
  <1> DEFINE c == Reading(n)
             turns == OtherSide(c, raw, r) /\ sidePending[c] + 1 >= Dwell
             released == /\ releasing[c].on /\ IsProblem(raw) /\ releasing[c].n + 1 >= Dwell
                         /\ IsOpen(c) /\ active[c].rc # NoNode
             side == IF turns THEN r.side ELSE active[c].side
             rc == IF released THEN NoNode ELSE active[c].rc
             a == [active[c] EXCEPT !.side = side, !.rc = rc]
             acts == IF turns \/ released THEN <<Action("fire", c, a)>> ELSE <<>>
  <1>1. c \in Checks /\ SpeechOK /\ "ingest" \in Tasks
    BY CheckOf, SpeechParts DEF Tasks
  <1>2. /\ sidePending' = [sidePending EXCEPT
                ![c] = IF OtherSide(c, raw, r) /\ ~turns THEN @ + 1 ELSE 0]
        /\ releasing' = [releasing EXCEPT ![c] = ReleaseAfter(c, raw)]
        /\ active' = [active EXCEPT ![c] = a]
        /\ Return("ingest", acts)
        /\ UNCHANGED <<holding, unholding>>
    BY DEF ReadingHolds
  <1>3. releasing' \in [Checks -> [on : BOOLEAN, n : 0 .. Dwell]]
    BY <1>1, <1>2, ReleaseTypes DEF TypeOK
  <1>4. sidePending' \in [Checks -> 0 .. Dwell]
    <2>1. sidePending[c] \in 0 .. Dwell
      BY <1>1 DEF TypeOK
    <2>2. (sidePending[c] + 1 >= Dwell) \/ sidePending[c] + 1 \in 0 .. Dwell
      BY <2>1, DwellAssumption
    <2>3. (IF OtherSide(c, raw, r) /\ ~turns THEN sidePending[c] + 1 ELSE 0) \in 0 .. Dwell
      BY <2>2, DwellAssumption
    <2>4. QED
      BY <1>1, <1>2, <2>3 DEF TypeOK
  <1>5. CASE IsOpen(c)
    <2>1. active[c] \in Alerts
      BY <1>1, <1>5 DEF SpeechOK, IsOpen
    <2>2. side \in Sides /\ rc \in Nodes \cup {NoNode}
      BY <2>1, AlertFields, InputAssumption DEF Sides
    <2> HIDE DEF side, rc
    <2>3. a \in Alerts
      BY <2>1, <2>2, AlertUpdates
    <2> HIDE DEF a
    <2>4. acts \in Seq(Acts)
      BY <1>1, <2>3, ActionType, EmptyActs
    <2> HIDE DEF acts
    <2>5. out' \in [Tasks -> Seq(Acts)]
      BY <1>1, <1>2, <2>4, ReturnType DEF SpeechOK
    <2>6. QED
      BY <1>1, <1>2, <1>3, <1>4, <2>3, <2>5 DEF SpeechOK
  <1>6. CASE ~IsOpen(c)
    <2>1. active[c] = NoAlert /\ ~turns /\ ~released
      BY <1>6 DEF IsOpen, OtherSide
    <2>2. a = NoAlert /\ acts = <<>>
      BY <2>1 DEF NoAlert
    <2> HIDE DEF a, acts
    <2>3. out' \in [Tasks -> Seq(Acts)]
      BY <1>1, <1>2, <2>2, ReturnType, EmptyActs DEF SpeechOK
    <2>4. QED
      BY <1>1, <1>2, <1>3, <1>4, <2>2, <2>3 DEF SpeechOK
  <1>7. QED
    BY <1>5, <1>6

LEMMA ReadingType ==
    ASSUME TypeOK, Shapes, NEW n \in Readers, NEW r \in Readings, ObserveReading(n, r)
    PROVE  TypeOK' /\ Shapes'
  <1> DEFINE c == Reading(n)
             raw == Raw(n, r.state)
             t == ObserveSample(tracker[c], raw)
  <1>1. c \in Checks /\ n \in Nodes /\ tracker[c] \in Trackers
    BY CheckOf, GraphAssumption DEF TypeOK, Trackers
  <1>2. raw \in States
    BY <1>1, RawType DEF States
  <1>3. t \in Trackers
    BY <1>1, <1>2, ObserveSampleSound
  <1>4. tracker' = [tracker EXCEPT ![c] = t] /\ (ReadingCommits(n, c, raw, r) \/ ReadingHolds(c, raw, r))
    BY DEF ObserveReading
  <1> HIDE DEF raw
  <1>5. /\ SpeechOK'
        /\ releasing' \in [Checks -> [on : BOOLEAN, n : 0 .. Dwell]]
        /\ sidePending' \in [Checks -> 0 .. Dwell]
    BY <1>2, <1>4, ReadingCommitsType, ReadingHoldsType
  <1> HIDE DEF t
  <1>6. tracker' \in [Checks -> Trackers]
    BY <1>1, <1>3, <1>4 DEF TypeOK, Trackers
  <1>7. UNCHANGED <<live, down, held, expired, cfg, regrouped, view, todo, look, queue, rows,
                    history, sides, incidents>>
    BY DEF ObserveReading, config, sweeps, delivery, records
  <1>8. TypeOK'
    BY <1>5, <1>6, <1>7 DEF TypeOK, SpeechOK, Trackers
  <1>9. Shapes'
    BY <1>5, <1>7 DEF Shapes, SpeechOK
  <1>10. QED
    BY <1>8, <1>9

(* A reattribution changes an open alert's attribution and hold, and opens   *)
(* and closes nothing.                                                      *)
LEMMA ReattributeSpeech ==
    ASSUME TypeOK, Shapes, NEW t \in Tasks, NEW x \in todo[t],
           ReattributeHeld(t, x) \/ ReattributeReleases(t, x) \/ ReattributeMoves(t, x),
           UNCHANGED holding
    PROVE  /\ SpeechOK'
           /\ releasing' \in [Checks -> [on : BOOLEAN, n : 0 .. Dwell]]
  <1>1. SpeechOK /\ x \in Pending /\ x.check \in Checks /\ x.rc \in Nodes \cup {NoNode}
    BY SpeechParts, PendingFields DEF Shapes
  <1>2. IsOpen(x.check) => active[x.check] \in Alerts
    BY <1>1 DEF IsOpen, SpeechOK
  <1>3. /\ releasing \in [Checks -> [on : BOOLEAN, n : 0 .. Dwell]]
        /\ NoRelease \in [on : BOOLEAN, n : 0 .. Dwell]
        /\ [on |-> TRUE, n |-> 0] \in [on : BOOLEAN, n : 0 .. Dwell]
    BY <1>1, ReleaseTypes DEF TypeOK, States
  <1>4. CASE ReattributeHeld(t, x)
    <2>1. releasing' = releasing
      BY <1>4 DEF ReattributeHeld
    <2>2. CASE x.rc # NoNode /\ IsOpen(x.check)
      <3> DEFINE a == [active[x.check] EXCEPT !.rc = x.rc, !.held = FALSE]
      <3>1. a \in Alerts
        BY <1>1, <1>2, <2>2, AlertUpdates
      <3>2. /\ active' = [active EXCEPT ![x.check] = a]
            /\ unholding' = [unholding EXCEPT ![t] = {x.check}]
            /\ Return(t, <<Action("fire", x.check, a)>>)
        BY <1>4, <2>2 DEF ReattributeHeld, Unlist
      <3> HIDE DEF a
      <3>3. out' \in [Tasks -> Seq(Acts)]
        BY <1>1, <3>1, <3>2, ActionType, ReturnType DEF SpeechOK
      <3>4. QED
        BY <1>1, <1>3, <2>1, <3>1, <3>2, <3>3 DEF SpeechOK
    <2>3. CASE ~(x.rc # NoNode /\ IsOpen(x.check))
      BY <1>1, <1>3, <1>4, <2>1, <2>3 DEF ReattributeHeld, SpeechOK
    <2>4. QED
      BY <2>2, <2>3
  <1>5. CASE ReattributeReleases(t, x)
    <2>1. /\ releasing' = [releasing EXCEPT ![x.check] = [on |-> TRUE, n |-> 0]]
          /\ UNCHANGED <<active, unholding, out>>
      BY <1>5 DEF ReattributeReleases
    <2>2. QED
      BY <1>1, <1>3, <2>1 DEF SpeechOK
  <1>6. CASE ReattributeMoves(t, x)
    <2>1. releasing' \in [Checks -> [on : BOOLEAN, n : 0 .. Dwell]]
      BY <1>1, <1>3, <1>6 DEF ReattributeMoves
    <2>2. CASE x.rc # x.alert.rc /\ IsOpen(x.check)
      <3> DEFINE a == [active[x.check] EXCEPT !.rc = x.rc]
      <3>1. a \in Alerts
        BY <1>1, <1>2, <2>2, AlertUpdates
      <3>2. /\ active' = [active EXCEPT ![x.check] = a]
            /\ Return(t, AttributionActions(x, a))
            /\ UNCHANGED unholding
        BY <1>6, <2>2 DEF ReattributeMoves
      <3> HIDE DEF a
      <3>3. out' \in [Tasks -> Seq(Acts)]
        BY <1>1, <3>1, <3>2, AttributionActionsType, ReturnType DEF SpeechOK
      <3>4. QED
        BY <1>1, <2>1, <3>1, <3>2, <3>3 DEF SpeechOK
    <2>3. CASE ~(x.rc # x.alert.rc /\ IsOpen(x.check))
      BY <1>1, <1>6, <2>1, <2>3 DEF ReattributeMoves, SpeechOK
    <2>4. QED
      BY <2>2, <2>3
  <1>7. QED
    BY <1>4, <1>5, <1>6


LEMMA ReattributeType ==
    ASSUME TypeOK, Shapes, NEW t \in Tasks, Reattribute(t)
    PROVE  TypeOK' /\ Shapes'
  <1>1. PICK x \in todo[t] :
          /\ ReattributeHeld(t, x) \/ ReattributeReleases(t, x) \/ ReattributeMoves(t, x)
          /\ todo' = [todo EXCEPT ![t] = @ \ {x}]
          /\ view' = IF todo[t] = {x} THEN [view EXCEPT ![t] = NoView] ELSE view
          /\ UNCHANGED <<tracker, live, down, held, expired, sidePending, cfg, regrouped, holding, look,
                         queue, sides, incidents, rows, history>>
    BY DEF Reattribute, config, delivery, records
  <1>2. SpeechOK' /\ releasing' \in [Checks -> [on : BOOLEAN, n : 0 .. Dwell]]
    BY <1>1, ReattributeSpeech
  <1>3. todo' \in [Tasks -> SUBSET Pending] /\ view' \in [Tasks -> Views]
    BY <1>1, Nothing DEF Shapes
  <1>4. TypeOK'
    BY <1>1, <1>2 DEF TypeOK, SpeechOK
  <1>5. Shapes'
    BY <1>1, <1>2, <1>3 DEF Shapes, SpeechOK
  <1>6. QED
    BY <1>4, <1>5

LEMMA SweepTypes ==
    ASSUME TypeOK, Shapes, NEW t \in Tasks, Look(t) \/ Snap(t)
    PROVE  TypeOK' /\ Shapes'
  <1>1. UNCHANGED <<tracker, live, down, active, held, expired, releasing, sidePending, cfg, regrouped,
                    holding, unholding, out, look, queue, sides, incidents, rows, history>>
    BY DEF Look, Snap, engine, config, delivery, records
  <1>2. TypeOK'
    BY <1>1 DEF TypeOK
  <1>3. todo' \in [Tasks -> SUBSET Pending] /\ view' \in [Tasks -> Views]
    <2>0. view[t] \in Views /\ view \in [Tasks -> Views] /\ todo \in [Tasks -> SUBSET Pending]
      BY DEF Shapes
    <2>1. CASE Look(t)
      <3>1. down \in SUBSET Nodes /\ Grouped \in BOOLEAN
        BY GroupedType DEF TypeOK
      <3>2. view' = [view EXCEPT ![t] = [view[t] EXCEPT !.step = "snap", !.down = down, !.grouped = Grouped]]
        BY <2>1 DEF Look
      <3>3. [view[t] EXCEPT !.step = "snap", !.down = down, !.grouped = Grouped] \in Views
        BY <2>0, <3>1 DEF Views
      <3>4. QED
        BY <2>0, <2>1, <3>2, <3>3 DEF Look
    <2>2. CASE Snap(t)
      <3> DEFINE found == Candidates(view[t].changed, view[t].down, active, view[t].grouped)
      <3>1. /\ view[t].down \in SUBSET Nodes /\ view[t].grouped \in BOOLEAN
            /\ active \in [Checks -> Alerts \cup {NoAlert}]
        BY <2>0 DEF Views, TypeOK
      <3>2. found \in SUBSET Pending
        BY <3>1, CandidatesType
      <3>3. /\ todo' = [todo EXCEPT ![t] = found]
            /\ \/ view' = [view EXCEPT ![t] = NoView]
               \/ view' = [view EXCEPT ![t] = [view[t] EXCEPT !.step = "each"]]
        BY <2>2 DEF Snap
      <3>4. [view[t] EXCEPT !.step = "each"] \in Views
        BY <2>0 DEF Views
      <3> HIDE DEF found
      <3>5. QED
        BY <2>0, <3>2, <3>3, <3>4, Nothing
    <2>3. QED
      BY <2>1, <2>2
  <1>4. Shapes'
    BY <1>1, <1>3 DEF Shapes
  <1>5. QED
    BY <1>2, <1>4

LEMMA HoldTypes ==
    ASSUME TypeOK, Shapes, Hold \/ \E t \in Tasks : Unhold(t)
    PROVE  TypeOK' /\ Shapes'
  <1>1. CASE Hold
    <2>1. /\ held' = held \cup holding /\ expired' = expired \ holding /\ holding' = {}
          /\ UNCHANGED <<tracker, live, down, active, releasing, sidePending, cfg, regrouped, view, todo,
                         unholding, out, look, queue, sides, incidents, rows, history>>
      BY <1>1 DEF Hold, config, sweeps, delivery, records
    <2>2. TypeOK'
      BY <2>1 DEF TypeOK, Shapes
    <2>3. QED
      BY <2>1, <2>2 DEF Shapes
  <1>2. ASSUME NEW t \in Tasks, Unhold(t) PROVE TypeOK' /\ Shapes'
    <2>1. /\ held' = held \ unholding[t] /\ expired' = expired \ unholding[t]
          /\ unholding' = [unholding EXCEPT ![t] = {}]
          /\ UNCHANGED <<tracker, live, down, active, releasing, sidePending, cfg, regrouped, view, todo,
                         holding, out, look, queue, sides, incidents, rows, history>>
      BY <1>2 DEF Unhold, config, sweeps, delivery, records
    <2>2. TypeOK'
      BY <2>1 DEF TypeOK, Shapes
    <2>3. unholding' \in [Tasks -> SUBSET Checks]
      BY <2>1 DEF Shapes
    <2>4. QED
      BY <2>1, <2>2, <2>3 DEF Shapes
  <1>3. QED
    BY <1>1, <1>2

LEMMA HeldTypes ==
    ASSUME TypeOK, Shapes,
           (\E c \in Checks : Expire(c)) \/ HeldTick \/ HeldJudge \/ HeldRelease
    PROVE  TypeOK' /\ Shapes'
  <1>1. ASSUME NEW c \in Checks, Expire(c) PROVE TypeOK' /\ Shapes'
    BY <1>1 DEF TypeOK, Shapes, Expire, config, tasks, sweeps, delivery, records
  <1>2. CASE HeldTick
    <2>1. look' = [NoLook EXCEPT !.snap = held]
      BY <1>2 DEF HeldTick
    <2>2. look' \in [snap : SUBSET Checks, ready : Seq(Checks)]
      <3>1. look' = [snap |-> held, ready |-> <<>>]
        BY <2>1 DEF NoLook
      <3>2. held \in SUBSET Checks /\ <<>> \in Seq(Checks)
        BY DEF TypeOK
      <3>3. QED
        BY <3>1, <3>2
    <2>3. QED
      BY <1>2, <2>2 DEF TypeOK, Shapes, HeldTick, engine, config, sweeps, delivery, records
  <1>3. CASE HeldJudge
    <2>1. PICK c \in look.snap :
            /\ look' = [snap |-> look.snap \ {c},
                        ready |-> IF IsOpen(c) /\ ~cfg.paused /\ ~StillWaits(c) THEN <<c>> ELSE <<>>]
            /\ \/ unholding' = unholding
               \/ unholding' = [unholding EXCEPT !["held"] = {c}]
            /\ UNCHANGED <<tracker, live, down, active, held, expired, releasing, sidePending, cfg,
                           regrouped, view, todo, holding, out, queue, sides, incidents, rows, history>>
      BY <1>3 DEF HeldJudge, Unlist, engine, config, sweeps, delivery, records
    <2>2. c \in Checks /\ look.snap \in SUBSET Checks
      BY DEF Shapes
    <2>3. look' \in [snap : SUBSET Checks, ready : Seq(Checks)]
      <3>1. <<c>> \in Seq(Checks) /\ <<>> \in Seq(Checks)
        BY <2>2
      <3>2. QED
        BY <2>1, <2>2, <3>1
    <2>4. unholding' \in [Tasks -> SUBSET Checks]
      <3>1. unholding \in [Tasks -> SUBSET Checks] /\ {c} \in SUBSET Checks
        BY <2>2 DEF Shapes
      <3>2. CASE unholding' = [unholding EXCEPT !["held"] = {c}]
        BY <3>1, <3>2
      <3>3. QED
        BY <2>1, <3>1, <3>2
    <2>5. TypeOK'
      BY <2>1 DEF TypeOK
    <2>6. QED
      BY <2>1, <2>3, <2>4, <2>5 DEF Shapes
  <1>4. CASE HeldRelease
    <2> DEFINE c == look.ready[1]
               a == [active[c] EXCEPT !.held = FALSE]
    <2>1. c \in Checks /\ SpeechOK /\ "held" \in Tasks
      <3>1. look.ready \in Seq(Checks) /\ look.ready # <<>>
        BY <1>4 DEF HeldRelease, Shapes
      <3>2. QED
        BY <3>1, SpeechParts DEF Tasks
    <2>2. /\ unholding' = [unholding EXCEPT !["held"] = {c}]
          /\ IF active[c].held
             THEN /\ active' = [active EXCEPT ![c] = a]
                  /\ Return("held", <<Action("fire", c, a)>>)
             ELSE UNCHANGED <<active, out>>
          /\ look' = [look EXCEPT !.ready = <<>>]
          /\ UNCHANGED <<tracker, live, down, held, expired, releasing, sidePending, cfg, regrouped, view,
                         todo, holding, queue, sides, incidents, rows, history>>
      BY <1>4 DEF HeldRelease, Unlist, config, sweeps, delivery, records
    <2>3. active[c].held => a \in Alerts
      BY <2>1, AlertUpdates, NoAlertFields DEF SpeechOK
    <2> HIDE DEF a, c
    <2>4. active' \in [Checks -> Alerts \cup {NoAlert}] /\ out' \in [Tasks -> Seq(Acts)]
      <3>1. CASE active[c].held
        BY <3>1, <2>1, <2>2, <2>3, ActionType, ReturnType DEF SpeechOK
      <3>2. CASE ~active[c].held
        BY <3>2, <2>1, <2>2 DEF SpeechOK
      <3>3. QED
        BY <3>1, <3>2
    <2>5. look' \in [snap : SUBSET Checks, ready : Seq(Checks)]
      <3>1. <<>> \in Seq(Checks)
        OBVIOUS
      <3>2. QED
        BY <2>2, <3>1 DEF Shapes
    <2>6. unholding' \in [Tasks -> SUBSET Checks]
      BY <2>1, <2>2 DEF Shapes
    <2>7. TypeOK'
      BY <2>2, <2>4 DEF TypeOK
    <2>8. QED
      BY <2>2, <2>4, <2>5, <2>6, <2>7 DEF Shapes
  <1>5. QED
    BY <1>1, <1>2, <1>3, <1>4

Configs == [loaded : BOOLEAN, grouped : BOOLEAN, wait : BOOLEAN, paused : BOOLEAN,
            maint : SUBSET Nodes, ruled : SUBSET Nodes]

(* A refresh that rebuilds the base, with the configuration it installs      *)
(* named new.                                                               *)
Installs(new) ==
    /\ Idle("config")
    /\ cfg' = new /\ new \in Configs
    /\ regrouped' = TRUE
    /\ view' = [view EXCEPT !["config"] = Sweep(NoNode)]
    /\ UNCHANGED <<tracker, live, down, active, held, expired, releasing, sidePending, call, todo,
                   holding, unholding, out, look, queue, sides, incidents, rows, history>>
    /\ Excuse
    /\ new.loaded \in {TRUE, cfg.loaded} /\ (regrouped \/ new.loaded)
    /\ RuleEdits = {} => new.ruled = cfg.ruled

LEMMA RefreshInstalls ==
    ASSUME Shapes, FirstRefresh \/ EditRefresh
    PROVE  \E new \in Configs : Installs(new)
  <1>0. cfg \in Configs
    BY DEF Shapes, Configs
  <1>1. CASE FirstRefresh
    <2> DEFINE new == [cfg EXCEPT !.loaded = TRUE]
    <2>1. new \in Configs /\ new.loaded = TRUE /\ new.ruled = cfg.ruled
      BY <1>0 DEF Configs
    <2>2. Installs(new)
      BY <1>1, <2>1 DEF FirstRefresh, Install, Installs, engine, delivery, records
    <2>3. QED
      BY <2>1, <2>2
  <1>2. CASE EditRefresh
    <2>1. PICK new : Install(new) /\ new \in Configs /\ new.loaded = cfg.loaded
                     /\ (RuleEdits = {} => new.ruled = cfg.ruled)
      <3>1. CASE \E n \in RuleEdits :
                Install([cfg EXCEPT !.ruled = IF n \in @ THEN @ \ {n} ELSE @ \cup {n}])
        <4>1. PICK n \in RuleEdits :
                Install([cfg EXCEPT !.ruled = IF n \in @ THEN @ \ {n} ELSE @ \cup {n}])
          BY <3>1
        <4> DEFINE new == [cfg EXCEPT !.ruled = IF n \in @ THEN @ \ {n} ELSE @ \cup {n}]
        <4>2. new \in Configs /\ new.loaded = cfg.loaded
          BY <1>0, InputAssumption DEF Configs
        <4>3. QED
          BY <4>1, <4>2
      <3>2. CASE Install([cfg EXCEPT !.grouped = ~@])
        <4> DEFINE new == [cfg EXCEPT !.grouped = ~@]
        <4>1. new \in Configs /\ new.loaded = cfg.loaded /\ new.ruled = cfg.ruled
          BY <1>0 DEF Configs
        <4>2. QED
          BY <3>2, <4>1
      <3>3. CASE Install([cfg EXCEPT !.wait = ~@])
        <4> DEFINE new == [cfg EXCEPT !.wait = ~@]
        <4>1. new \in Configs /\ new.loaded = cfg.loaded /\ new.ruled = cfg.ruled
          BY <1>0 DEF Configs
        <4>2. QED
          BY <3>3, <4>1
      <3>4. QED
        BY <1>2, <3>1, <3>2, <3>3 DEF EditRefresh
    <2>2. Installs(new)
      BY <1>2, <2>1 DEF EditRefresh, Install, Installs, engine, delivery, records
    <2>3. QED
      BY <2>1, <2>2
  <1>3. QED
    BY <1>1, <1>2

LEMMA InstallsType ==
    ASSUME TypeOK, Shapes, NEW new \in Configs, Installs(new)
    PROVE  TypeOK' /\ Shapes'
  <1>1. TypeOK'
    BY DEF Installs, TypeOK
  <1>2. view' \in [Tasks -> Views]
    BY SweepView DEF Installs, Shapes
  <1>3. Shapes'
    BY <1>2 DEF Installs, Shapes, Configs
  <1>4. QED
    BY <1>1, <1>3

LEMMA CoverageStep ==
    ASSUME Shapes, CoverageRefresh
    PROVE  /\ cfg' \in Configs
           /\ cfg'.loaded = cfg.loaded /\ cfg'.grouped = cfg.grouped /\ cfg'.ruled = cfg.ruled
           /\ UNCHANGED <<tracker, live, down, active, held, expired, releasing, sidePending, regrouped,
                          call, view, todo, holding, unholding, out, look, queue, sides, incidents, rows,
                          history>>
           /\ Excuse
  <1>0. cfg \in Configs
    BY DEF Shapes, Configs
  <1>1. cfg' \in Configs
        /\ cfg'.loaded = cfg.loaded /\ cfg'.grouped = cfg.grouped /\ cfg'.ruled = cfg.ruled
    <2>1. CASE \E n \in Nodes \ cfg.maint : cfg' = [cfg EXCEPT !.maint = @ \cup {n}]
      BY <1>0, <2>1 DEF Configs
    <2>2. CASE \E n \in cfg.maint : cfg' = [cfg EXCEPT !.maint = @ \ {n}]
      BY <1>0, <2>2 DEF Configs
    <2>3. CASE cfg' = [cfg EXCEPT !.paused = TRUE]
      BY <1>0, <2>3 DEF Configs
    <2>4. CASE cfg' = [cfg EXCEPT !.paused = FALSE]
      BY <1>0, <2>4 DEF Configs
    <2>5. QED
      BY <2>1, <2>2, <2>3, <2>4 DEF CoverageRefresh
  <1>2. QED
    BY <1>1 DEF CoverageRefresh, engine, tasks, sweeps, delivery, records

LEMMA CoverageType ==
    ASSUME TypeOK, Shapes, CoverageRefresh
    PROVE  TypeOK' /\ Shapes'
  <1>1. TypeOK'
    BY CoverageStep DEF TypeOK
  <1>2. Shapes'
    BY CoverageStep DEF Shapes, Configs
  <1>3. QED
    BY <1>1, <1>2

AllRows == Rows \cup {NoRow}

LEMMA RowOfType ==
    ASSUME NEW act \in Acts
    PROVE  RowOf(act) \in AllRows
  BY ActFields, AlertFields DEF RowOf, AllRows

LEMMA RecordType ==
    ASSUME TypeOK, Shapes, NEW t \in Tasks, Record(t)
    PROVE  TypeOK' /\ Shapes'
  <1> DEFINE act == Head(out[t])
  <1>1. out[t] \in Seq(Acts) /\ out[t] # <<>>
    BY DEF Record, Shapes
  <1>2. act \in Acts
    BY <1>1
  <1>3. act.check \in Checks /\ RowOf(act) \in AllRows
    BY <1>2, ActFields, RowOfType
  <1>4. /\ Batched(act.check, RowOf(act)) \/ Written(act.check, RowOf(act))
        /\ UNCHANGED <<tracker, live, down, active, held, expired, releasing, sidePending, cfg, regrouped,
                       view, todo, holding, unholding, out, look, queue, sides, incidents>>
    BY DEF Record, engine, config, sweeps, delivery
  <1> HIDE DEF act
  <1>5. rows \in [Checks -> SUBSET AllRows] /\ history \in [Checks -> AllRows]
    BY DEF Shapes, AllRows, Rows
  <1>6. rows' \in [Checks -> SUBSET AllRows] /\ history' \in [Checks -> AllRows]
    <2>1. CASE Batched(act.check, RowOf(act))
      BY <1>3, <1>5, <2>1 DEF Batched
    <2>2. CASE Written(act.check, RowOf(act))
      BY <1>3, <1>5, <2>2 DEF Written
    <2>3. QED
      BY <1>4, <2>1, <2>2
  <1>7. TypeOK'
    BY <1>4 DEF TypeOK
  <1>8. Shapes'
    BY <1>4, <1>6 DEF Shapes, AllRows, Rows
  <1>9. QED
    BY <1>7, <1>8

LEMMA FlushType ==
    ASSUME TypeOK, Shapes, Flush
    PROVE  TypeOK' /\ Shapes'
  <1>1. /\ history' = [c \in Checks |-> IF rows[c] = {} THEN history[c]
                                         ELSE CHOOSE row \in rows[c] : TRUE]
        /\ rows' = [c \in Checks |-> {}]
        /\ UNCHANGED <<tracker, live, down, active, held, expired, releasing, sidePending, cfg, regrouped,
                       view, todo, holding, unholding, out, look, queue, sides, incidents>>
    BY DEF Flush, engine, config, tasks, sweeps, delivery
  <1>2. rows \in [Checks -> SUBSET AllRows] /\ history \in [Checks -> AllRows]
    BY DEF Shapes, AllRows, Rows
  <1>3. history' \in [Checks -> AllRows]
    <2>1. ASSUME NEW c \in Checks, rows[c] # {} PROVE (CHOOSE row \in rows[c] : TRUE) \in AllRows
      BY <1>2, <2>1
    <2>2. QED
      BY <1>1, <1>2, <2>1
  <1>4. TypeOK'
    BY <1>1 DEF TypeOK
  <1>5. Shapes'
    BY <1>1, <1>3 DEF Shapes, AllRows, Rows
  <1>6. QED
    BY <1>4, <1>5

LEMMA SendType ==
    ASSUME TypeOK, Shapes, NEW t \in Tasks, Send(t)
    PROVE  TypeOK' /\ Shapes'
  <1> DEFINE act == Head(out[t])
  <1>1. out[t] \in Seq(Acts) /\ out[t] # <<>>
    BY DEF Send, Shapes
  <1>2. act \in Acts /\ Tail(out[t]) \in Seq(Acts)
    BY <1>1
  <1>3. /\ queue' = Append(queue, act)
        /\ out' = [out EXCEPT ![t] = Tail(@)]
        /\ Len(queue) < QueueMax
        /\ UNCHANGED <<tracker, live, down, active, held, expired, releasing, sidePending, cfg, regrouped,
                       view, todo, holding, unholding, look, sides, incidents, rows, history>>
    BY DEF Send, engine, config, sweeps, records
  <1> HIDE DEF act
  <1>4. queue' \in Seq(Acts) /\ Len(queue') = Len(queue) + 1 /\ Len(queue) \in Nat
    BY <1>2, <1>3 DEF Shapes
  <1>5. Len(queue') <= QueueMax
    BY <1>3, <1>4, InputAssumption
  <1>6. out' \in [Tasks -> Seq(Acts)]
    BY <1>2, <1>3 DEF Shapes
  <1>7. TypeOK'
    BY <1>3, <1>5 DEF TypeOK
  <1>8. Shapes'
    BY <1>3, <1>4, <1>6 DEF Shapes
  <1>9. QED
    BY <1>7, <1>8

LEMMA DeliverType ==
    ASSUME TypeOK, Shapes, Deliver
    PROVE  TypeOK' /\ Shapes'
  <1> DEFINE act == Head(queue)
             c == act.check
             a == act.alert
             k == Key(c, a)
  <1>1. queue \in Seq(Acts) /\ queue # <<>>
    BY DEF Deliver, Shapes
  <1>2. act \in Acts /\ Tail(queue) \in Seq(Acts) /\ Len(Tail(queue)) = Len(queue) - 1 /\ Len(queue) \in Nat
    BY <1>1
  <1> HIDE DEF act
  <1>3. k \in Keys /\ a.side \in Sides
    BY <1>2, ActFields, AlertFields DEF Key, Keys
  <1>4. /\ queue' = Tail(queue)
        /\ DeliverFire(c, a) \/ DeliverClose(act.kind, c, a)
        /\ UNCHANGED <<tracker, live, down, active, held, expired, releasing, sidePending, cfg,
                       regrouped, view, todo, holding, unholding, out, look, rows, history>>
    BY DEF Deliver, engine, config, tasks, sweeps, records, act
  <1> HIDE DEF k, c, a
  <1>5. /\ sides' \in [Keys -> Sides]
        /\ incidents' \in [Keys -> Sides \cup {"closed"}]
    <2>1. CASE DeliverFire(c, a)
      BY <1>3, <2>1 DEF DeliverFire, Dispatch, TypeOK, Shapes, k
    <2>2. CASE DeliverClose(act.kind, c, a)
      BY <1>3, <2>2 DEF DeliverClose, Dispatch, TypeOK, Shapes, Sides, k
    <2>3. QED
      BY <1>4, <2>1, <2>2
  <1>6. queue' \in Seq(Acts) /\ Len(queue') <= QueueMax
    <2>1. Len(queue) <= QueueMax
      BY DEF TypeOK
    <2>2. QED
      BY <1>2, <1>4, <2>1, InputAssumption
  <1>7. TypeOK'
    BY <1>4, <1>5, <1>6 DEF TypeOK
  <1>8. Shapes'
    BY <1>4, <1>5, <1>6 DEF Shapes
  <1>9. QED
    BY <1>7, <1>8

LEMMA RecordedRow ==
    ASSUME Shapes, NEW c \in Checks
    PROVE  /\ Recorded(c) => history[c] \in Rows
           /\ ~Recorded(c) => history[c].state = "none"
  BY DEF Shapes, Recorded, Rows, NoRow, Row, NoAlert

LEMMA RestoredType ==
    ASSUME Shapes, NEW c \in Checks
    PROVE  /\ RestoredAlert(c) \in Alerts \cup {NoAlert}
           /\ RestoredTracker(c) \in Trackers
           /\ RestoredAlert(c) = NoAlert <=> ~Recorded(c)
           /\ RestoredAlert(c).held = FALSE
           /\ IsLiveness(c) => RestoredAlert(c).rc = NoNode
  <1>1. CASE Recorded(c)
    <2>1. history[c].state \in States /\ history[c].side \in Sides /\ NodeOf(c) \in Nodes
      BY <1>1, RecordedRow, CheckCases DEF Rows
    <2>2. RestoredAlert(c) \in Alerts
      BY <1>1, <2>1 DEF RestoredAlert, Alerts
    <2>3. RestoredTracker(c) \in Trackers
      BY <1>1, <2>1, SettledType DEF RestoredTracker
    <2>4. QED
      BY <1>1, <2>2, <2>3, AlertFields DEF RestoredAlert
  <1>2. CASE ~Recorded(c)
    BY <1>2, SettledType, NoAlertFields DEF RestoredAlert, RestoredTracker
  <1>3. QED
    BY <1>1, <1>2

LEMMA RestartType ==
    ASSUME TypeOK, Shapes, Restart
    PROVE  TypeOK' /\ Shapes'
  <1>1. /\ tracker' \in [Checks -> Trackers]
        /\ active' \in [Checks -> Alerts \cup {NoAlert}]
    BY RestoredType DEF Restart
  <1>2. /\ live' \in [Nodes -> States \cup {"unseen"}]
        /\ down' = {n \in Nodes : live'[n] = "unreachable"}
    BY DEF Restart, States, WasDown
  <1>3. /\ releasing' \in [Checks -> [on : BOOLEAN, n : 0 .. Dwell]]
        /\ sidePending' \in [Checks -> 0 .. Dwell]
    BY DwellAssumption DEF Restart, NoRelease
  <1>4. cfg' \in Configs /\ regrouped' \in BOOLEAN
    BY DEF Restart, Shapes, Configs
  <1>5. /\ todo' \in [Tasks -> SUBSET Pending] /\ out' \in [Tasks -> Seq(Acts)]
        /\ look' \in [snap : SUBSET Checks, ready : Seq(Checks)]
        /\ queue' \in Seq(Acts) /\ Len(queue') <= QueueMax
    BY InputAssumption DEF Restart, NoLook
  <1>6. /\ sides' \in [Keys -> Sides] /\ history' = history /\ incidents' = incidents
        /\ held' \subseteq Checks /\ expired' \subseteq held'
    BY DEF Restart, Sides
  <1>7. /\ view' \in [Tasks -> Views] /\ holding' \subseteq Checks
        /\ unholding' \in [Tasks -> SUBSET Checks] /\ rows' \in [Checks -> SUBSET AllRows]
    BY Nothing DEF Restart
  <1>8. TypeOK'
    BY <1>1, <1>2, <1>3, <1>5, <1>6 DEF TypeOK, Trackers
  <1>9. Shapes'
    BY <1>4, <1>5, <1>6, <1>7 DEF Shapes, Configs, AllRows, Rows
  <1>10. QED
    BY <1>8, <1>9

LEMMA NextType ==
    ASSUME TypeOK, Shapes, CallInv, [Next]_vars
    PROVE  TypeOK' /\ Shapes'
  <1>1. ASSUME NEW n \in Nodes, NEW o \in Outcomes, ObserveLiveness(n, o) PROVE TypeOK' /\ Shapes'
    BY <1>1, LivenessStep, ObservesType
  <1>2. CASE FirstRefresh \/ EditRefresh
    BY <1>2, RefreshInstalls, InstallsType
  <1>3. CASE UNCHANGED vars
    BY <1>3 DEF vars, engine, config, tasks, sweeps, delivery, records, TypeOK, Shapes
  <1>4. QED
    BY <1>1, <1>2, <1>3, ReadingType, ApplyType, HoldTypes, SweepTypes, ReattributeType, HeldTypes,
       CoverageType, RecordType, SendType, FlushType, DeliverType, RestartType DEF Next

-----------------------------------------------------------------------------
(* Which checks a step excuses.                                             *)

LEMMA ExcuseFacts ==
    ASSUME Excuse
    PROVE  /\ excused \subseteq excused'
           /\ Contended' \subseteq excused'
           /\ \A t \in Tasks : \A x \in todo'[t] :
                 view'[t].down # down' \/ view'[t].grouped # Grouped' => x.check \in excused'
           /\ call'.step \in {"fire", "strand"} /\ call'.base # Base' => call'.check \in excused'
           /\ \A c \in Checks :
                 /\ spent'["crash"] = spent["crash"] /\ ~cfg.loaded
                 /\ tracker'[c].committed # tracker[c].committed
                 => c \in excused'
  <1> DEFINE Stale == UNION {{x.check : x \in todo'[t]} :
                    t \in {u \in Tasks : view'[u].down # down' \/ view'[u].grouped # Grouped'}}
             Asked == IF call'.step \in {"fire", "strand"} /\ call'.base # Base' THEN {call'.check} ELSE {}
             Blind == {c \in Checks : IF spent'["crash"] # spent["crash"] THEN excused # {}
                                      ELSE ~cfg.loaded /\ tracker'[c].committed # tracker[c].committed}
  <1>1. excused' = excused \cup (Contended' \cup Stale \cup Asked \cup Blind)
    BY DEF Excuse, Unordered
  <1>2. ASSUME NEW t \in Tasks, NEW x \in todo'[t],
               view'[t].down # down' \/ view'[t].grouped # Grouped'
        PROVE  x.check \in Stale
    BY <1>2
  <1>3. call'.step \in {"fire", "strand"} /\ call'.base # Base' => call'.check \in Asked
    OBVIOUS
  <1>4. \A c \in Checks :
           /\ spent'["crash"] = spent["crash"] /\ ~cfg.loaded
           /\ tracker'[c].committed # tracker[c].committed
           => c \in Blind
    OBVIOUS
  <1> HIDE DEF Stale, Asked, Blind
  <1>5. /\ excused \subseteq excused' /\ Contended' \subseteq excused'
        /\ Stale \subseteq excused' /\ Asked \subseteq excused' /\ Blind \subseteq excused'
    BY <1>1
  <1>6. \A t \in Tasks : \A x \in todo'[t] :
           view'[t].down # down' \/ view'[t].grouped # Grouped' => x.check \in excused'
    BY <1>2, <1>5
  <1>7. QED
    BY <1>3, <1>4, <1>5, <1>6, Zenon

(* The task is at the check.                                                *)
At(t, c) ==
    \/ c \in unholding[t]
    \/ \E x \in todo[t] : x.check = c
    \/ t = "ingest" /\ (c \in holding \/ (call.check = c /\ c # NoCheck))

LEMMA AtTouches ==
    ASSUME NEW t, NEW c
    PROVE  (At(t, c) => c \in Touches(t)) /\ (At(t, c)' => c \in Touches(t)')
  BY DEF At, Touches

LEMMA Met ==
    ASSUME NEW t \in Tasks, NEW u \in Tasks, t # u, NEW c
    PROVE  /\ At(t, c) /\ At(u, c) => c \in Contended
           /\ At(t, c)' /\ At(u, c)' => c \in Contended'
  <1>1. /\ At(t, c) => c \in Touches(t)
        /\ At(u, c) => c \in Touches(u)
        /\ At(t, c)' => c \in Touches(t)'
        /\ At(u, c)' => c \in Touches(u)'
    BY AtTouches
  <1>2. {t, u} \in {{"ingest", "config"}, {"ingest", "held"}, {"config", "held"}}
    BY DEF Tasks
  <1>3. QED
    BY <1>1, <1>2 DEF Contended, Tasks

LEMMA JudgedNext == ASSUME NEW c PROVE Attribution(c)' = Judged(c, down', Grouped')
  BY DEF Attribution, Judged, RootCause, Speaker, Region, TouchesALiveNode, IsLiveness, NodeOf

LEMMA OneLiveness == \A n, m \in Nodes : Liveness(n) = Liveness(m) => n = m
  BY DEF Liveness

-----------------------------------------------------------------------------
(* Steps that touch neither trackers, alerts, attributions nor the held list. *)

(* What the parts of the invariant but the types read.                      *)
Kept == UNCHANGED <<tracker, live, down, active, held, releasing, cfg, regrouped, call, view, todo,
                    holding, unholding>>

LEMMA FrameInv ==
    ASSUME IInv, TypeOK', Shapes', Kept, MeetInv', excused \subseteq excused',
           /\ \A c \in look'.snap : c \in look.snap \cup held
           /\ look'.ready = <<>> \/ look'.ready = look.ready
    PROVE  IInv'
  <1>1. Grouped' = Grouped /\ Base' = Base
    BY DEF Kept, Grouped, Base
  <1>2. CallInv'
    BY <1>1 DEF IInv, CallInv, Kept, Alerting
  <1>3. OrderInv' /\ LiveInv' /\ UnloadedInv'
    BY DEF IInv, OrderInv, LiveInv, UnloadedInv, Kept
  <1>4. HoldInv'
    BY DEF IInv, HoldInv, Kept, HalfDone, Closing
  <1>5. \A c : Attribution(c)' = Attribution(c) /\ Awaits(c)' = Awaits(c)
    BY <1>1, JudgedNext DEF Attribution, Kept, Awaits
  <1>6. PendingInv'
    BY <1>1 DEF IInv, PendingInv, Kept, IsOpen
  <1>7. \A n : Swept(n)' = Swept(n) /\ SweptOwn(n)' = SweptOwn(n)
    BY <1>1 DEF Swept, SweptOwn, Kept
  <1>8. OutageInv' /\ ReleaseInv'
    BY <1>5, <1>7 DEF IInv, OutageInv, ReleaseInv, Kept, IsOpen
  <1>9. QED
    BY <1>2, <1>3, <1>4, <1>6, <1>8 DEF IInv

LEMMA QuietSteps ==
    ASSUME IInv, TypeOK', Shapes',
           \/ \E c \in Checks : Expire(c)
           \/ HeldTick
           \/ \E t \in Tasks : Record(t) \/ Send(t)
           \/ Flush \/ Deliver \/ UNCHANGED vars
    PROVE  IInv'
  <1>1. /\ Kept /\ excused' = excused
        /\ \A c \in look'.snap : c \in look.snap \cup held
        /\ look'.ready = <<>> \/ look'.ready = look.ready
        /\ out' = out \/ \E t \in Tasks : out[t] # <<>> /\ out' = [out EXCEPT ![t] = Tail(@)]
    <2>1. ASSUME NEW c \in Checks, Expire(c) PROVE Kept /\ UNCHANGED <<excused, look, out>>
      BY <2>1 DEF Expire, Kept, config, tasks, sweeps
    <2>2. CASE HeldTick
      BY <2>2 DEF HeldTick, Kept, engine, config, sweeps, NoLook
    <2>3. ASSUME NEW t \in Tasks, Record(t) PROVE Kept /\ UNCHANGED <<excused, look, out>>
      BY <2>3 DEF Record, Kept, engine, config, sweeps
    <2>4. ASSUME NEW t \in Tasks, Send(t)
          PROVE  Kept /\ UNCHANGED <<excused, look>> /\ out[t] # <<>> /\ out' = [out EXCEPT ![t] = Tail(@)]
      BY <2>4 DEF Send, Kept, engine, config, sweeps
    <2>5. CASE Flush \/ Deliver \/ UNCHANGED vars
      BY <2>5 DEF Flush, Deliver, Kept, vars, engine, config, tasks, sweeps
    <2>6. QED
      BY <2>1, <2>2, <2>3, <2>4, <2>5
  <1>2. ASSUME NEW t \in Tasks PROVE Touches(t)' \subseteq Touches(t)
    <2>1. \A i \in DOMAIN out'[t] : \E j \in DOMAIN out[t] : out'[t][i] = out[t][j]
      <3>1. CASE out' = out
        BY <3>1
      <3>2. ASSUME NEW u \in Tasks, out[u] # <<>>, out' = [out EXCEPT ![u] = Tail(@)]
            PROVE  \A i \in DOMAIN out'[t] : \E j \in DOMAIN out[t] : out'[t][i] = out[t][j]
        <4>1. out \in [Tasks -> Seq(Acts)]
          BY DEF IInv, Shapes
        <4>2. CASE t # u
          BY <3>2, <4>1, <4>2
        <4>3. CASE t = u
          <5>1. out[t] \in Seq(Acts) /\ out[t] # <<>> /\ out'[t] = Tail(out[t])
            BY <3>2, <4>1, <4>3
          <5>2. /\ Len(Tail(out[t])) = Len(out[t]) - 1 /\ Len(out[t]) \in Nat
                /\ \A i \in 1 .. Len(out[t]) - 1 : Tail(out[t])[i] = out[t][i + 1]
                /\ DOMAIN out[t] = 1 .. Len(out[t]) /\ DOMAIN Tail(out[t]) = 1 .. Len(out[t]) - 1
            BY <5>1
          <5>3. QED
            BY <5>1, <5>2
        <4>4. QED
          BY <4>2, <4>3
      <3>3. QED
        BY <1>1, <3>1, <3>2
    <2> DEFINE Said == {out[t][i].check : i \in DOMAIN out[t]}
               SaidNext == {out'[t][i].check : i \in DOMAIN out'[t]}
    <2>2. SaidNext \subseteq Said
      BY <2>1
    <2>3. /\ Touches(t) = {x.check : x \in todo[t]} \cup unholding[t] \cup Said
                          \cup (IF t = "ingest" THEN holding \cup ({call.check} \ {NoCheck}) ELSE {})
          /\ Touches(t)' = {x.check : x \in todo'[t]} \cup unholding'[t] \cup SaidNext
                          \cup (IF t = "ingest" THEN holding' \cup ({call'.check} \ {NoCheck}) ELSE {})
      BY DEF Touches
    <2> HIDE DEF Said, SaidNext
    <2>4. QED
      BY <1>1, <2>2, <2>3 DEF Kept
  <1>3. MeetInv'
    BY <1>1, <1>2 DEF IInv, MeetInv, Contended, Tasks
  <1>4. QED
    BY <1>1, <1>3, FrameInv

(* A window or a pause changes nothing a decision or an attribution reads.  *)
LEMMA CoverageInv ==
    ASSUME IInv, TypeOK', Shapes', CoverageRefresh
    PROVE  IInv'
  <1>1. /\ cfg'.loaded = cfg.loaded /\ cfg'.grouped = cfg.grouped /\ cfg'.ruled = cfg.ruled
        /\ UNCHANGED <<tracker, live, down, active, held, releasing, regrouped, call, view, todo,
                       holding, unholding, look>>
        /\ excused \subseteq excused' /\ Contended' \subseteq excused'
    BY CoverageStep, ExcuseFacts DEF IInv
  <1>2. Grouped' = Grouped /\ Base' = Base
    BY <1>1 DEF Grouped, Base
  <1>3. CallInv'
    BY <1>1, <1>2 DEF IInv, CallInv, Alerting
  <1>4. OrderInv' /\ LiveInv' /\ UnloadedInv' /\ MeetInv'
    BY <1>1 DEF IInv, OrderInv, LiveInv, UnloadedInv, MeetInv
  <1>5. HoldInv'
    BY <1>1 DEF IInv, HoldInv, HalfDone, Closing
  <1>6. \A c : Attribution(c)' = Attribution(c) /\ Awaits(c)' = Awaits(c)
    BY <1>1, <1>2, JudgedNext DEF Attribution, Awaits
  <1>7. PendingInv'
    BY <1>1, <1>2 DEF IInv, PendingInv, IsOpen
  <1>8. \A n : Swept(n)' = Swept(n) /\ SweptOwn(n)' = SweptOwn(n)
    BY <1>1, <1>2 DEF Swept, SweptOwn
  <1>9. OutageInv' /\ ReleaseInv'
    BY <1>1, <1>6, <1>8 DEF IInv, OutageInv, ReleaseInv, IsOpen
  <1>10. QED
    BY <1>3, <1>4, <1>5, <1>7, <1>9 DEF IInv

-----------------------------------------------------------------------------
(* A refresh that rebuilds the base.                                        *)

LEMMA InstallsInv ==
    ASSUME IInv, TypeOK', Shapes', NEW new \in Configs, Installs(new)
    PROVE  IInv'
  <1>1. /\ cfg' = new /\ regrouped' = TRUE
        /\ view' = [view EXCEPT !["config"] = Sweep(NoNode)]
        /\ UNCHANGED <<tracker, live, down, active, held, releasing, call, todo, holding, unholding, look>>
        /\ new.loaded \in {TRUE, cfg.loaded} /\ (regrouped \/ new.loaded)
        /\ todo["config"] = {}
    BY DEF Installs, Idle, Returned
  <1>2. /\ excused \subseteq excused' /\ Contended' \subseteq excused'
        /\ \A t \in Tasks : \A x \in todo'[t] :
              view'[t].down # down' \/ view'[t].grouped # Grouped' => x.check \in excused'
        /\ call'.step \in {"fire", "strand"} /\ call'.base # Base' => call'.check \in excused'
    BY ExcuseFacts DEF Installs
  <1>3. /\ view \in [Tasks -> Views] /\ "config" \in Tasks
        /\ view'["config"].step = "look" /\ view'["config"].changed = NoNode
        /\ \A t \in Tasks \ {"config"} : view'[t] = view[t]
    BY <1>1, SweepView DEF IInv, Shapes, Tasks
  <1>4. CallInv'
    <2>1. CASE call = NoCall
      BY <1>1, <2>1 DEF CallInv
    <2>2. CASE call # NoCall
      <3>1. PICK n \in Nodes :
              /\ call.check = Liveness(n) /\ call.sweep \in BOOLEAN
              /\ \/ /\ call.step = "fire" /\ call.alert \in Alerts
                    /\ call.alert.state = "unreachable" /\ tracker[call.check].committed = "unreachable"
                    /\ \/ call.check \in excused
                       \/ /\ call.base = Base /\ ~active[call.check].held
                          /\ call.alert.rc = RootCause(n, down, Grouped)
                    /\ call.alert.held => call.alert.rc = NoNode
                 \/ call.step = "close" /\ tracker[call.check].committed # "unreachable"
                 \/ /\ call.step = "strand"
                    /\ call.check \in excused \/ (call.base = Base /\ ~Alerting(n))
        BY <2>2 DEF IInv, CallInv
      <3>2. call.step \in {"fire", "strand"} /\ call.check \notin excused' =>
              Base' = Base /\ Grouped' = Grouped /\ Alerting(n)' = Alerting(n)
        <4>1. call.step \in {"fire", "strand"} /\ call.check \notin excused' => Base' = Base
          BY <1>1, <1>2, <3>1
        <4>2. Base' = Base => cfg'.loaded = cfg.loaded /\ cfg'.grouped = cfg.grouped /\ cfg'.ruled = cfg.ruled
          BY DEF Base
        <4>3. QED
          BY <4>1, <4>2 DEF Grouped, Alerting
      <3>3. QED
        BY <1>1, <1>2, <3>1, <3>2 DEF CallInv
    <2>3. QED
      BY <2>1, <2>2
  <1>5. OrderInv'
    BY <1>1, <1>3 DEF IInv, OrderInv, Tasks
  <1>6. LiveInv' /\ UnloadedInv' /\ MeetInv'
    <2>1. regrouped => cfg.loaded
      BY DEF IInv, UnloadedInv
    <2>2. QED
      BY <1>1, <1>2, <2>1 DEF IInv, LiveInv, UnloadedInv, MeetInv
  <1>7. HoldInv'
    <2>1. \A c : Closing(c) => Closing(c)'
      <3>1. cfg.loaded => cfg'.loaded
        BY <1>1
      <3>2. QED
        BY <1>1, <3>1 DEF Closing
    <2>2. HalfDone' = HalfDone
      BY <1>1 DEF HalfDone
    <2>3. QED
      BY <1>1, <1>2, <2>1, <2>2 DEF IInv, HoldInv
  <1>8. PendingInv'
    <2> SUFFICES ASSUME NEW t \in Tasks, NEW x \in todo[t]
                 PROVE  /\ \A y \in todo[t] : y.check = x.check => y = x
                        /\ x.rc = Judged(x.check, view'[t].down, view'[t].grouped)
                        /\ \/ x.check \in excused'
                           \/ /\ view'[t].down = down' /\ view'[t].grouped = Grouped'
                              /\ IsOpen(x.check)' => x.alert.rc = active'[x.check].rc
                              /\ x.alert.held => x.alert.rc = NoNode
                              /\ active'[x.check].held => x.alert.held
                        /\ IsLiveness(x.check) \/ (t = "ingest" /\ x.alert = active'[x.check])
      BY <1>1 DEF PendingInv
    <2>1. view'[t] = view[t]
      BY <1>1, <1>3
    <2>2. QED
      BY <1>1, <1>2, <2>1 DEF IInv, PendingInv, IsOpen
  <1>9. OutageInv'
    <2>1. \A n \in Nodes : Swept(n)'
      BY <1>3, GraphAssumption DEF Swept
    <2>2. QED
      BY <2>1 DEF OutageInv
  <1>10. ReleaseInv'
    <2>1. \A c : Awaits(c)' = Awaits(c)
      BY <1>1 DEF Awaits
    <2>2. \A n : SweptOwn(n)' = SweptOwn(n)
      BY <1>1, <1>3 DEF SweptOwn, Tasks
    <2>3. QED
      BY <1>1, <2>1, <2>2 DEF IInv, ReleaseInv, IsOpen
  <1>11. QED
    BY <1>4, <1>5, <1>6, <1>7, <1>8, <1>9, <1>10 DEF IInv

-----------------------------------------------------------------------------
(* An observation of a node's liveness.                                     *)

LEMMA OutageOfType ==
    ASSUME Shapes, NEW n \in Nodes, NEW D \in SUBSET Nodes
    PROVE  /\ OutageOf(n, D) \in Alerts
           /\ OutageOf(n, D).state = "unreachable"
           /\ OutageOf(n, D).rc = RootCause(n, D, Grouped)
           /\ OutageOf(n, D).held => OutageOf(n, D).rc = NoNode
  <1> DEFINE rc == RootCause(n, D, Grouped)
  <1>1. rc \in Nodes \cup {NoNode}
    BY RootCauseType, GroupedType
  <1>2. HoldUntil(n, rc) \in BOOLEAN /\ (HoldUntil(n, rc) => rc = NoNode)
    BY DEF HoldUntil
  <1>3. OutageOf(n, D) = [state |-> "unreachable", side |-> "none", rc |-> rc, held |-> HoldUntil(n, rc)]
    BY DEF OutageOf
  <1> HIDE DEF rc
  <1>4. QED
    BY <1>1, <1>2, <1>3 DEF Alerts, States, Sides, rc

(* What a poll decides: nothing, or one of the three steps.                 *)
LEMMA Decides ==
    ASSUME NEW n \in Nodes, NEW t \in Trackers, NEW D
    PROVE  LET d == Decision(n, t, D)
               moved == t.committed # tracker[Liveness(n)].committed
           IN  \/ d = NoCall /\ Alerting(n) /\ ~moved
               \/ /\ d.check = Liveness(n) /\ d.sweep = Resweeps(n, t) /\ d.base = Base
                  /\ \/ d.step = "strand" /\ ~Alerting(n)
                     \/ /\ d.step = "fire" /\ d.alert = OutageOf(n, D)
                        /\ Alerting(n) /\ moved /\ IsProblem(t.committed)
                     \/ d.step = "close" /\ Alerting(n) /\ moved /\ ~IsProblem(t.committed)
  <1> DEFINE moved == t.committed # tracker[Liveness(n)].committed
             Decide(step, a) == [step |-> step, check |-> Liveness(n), alert |-> a,
                                 sweep |-> Resweeps(n, t), base |-> Base]
  <1>1. CASE ~Alerting(n)
    <2>1. Decision(n, t, D) = Decide("strand", NoAlert)
      BY <1>1 DEF Decision
    <2>2. QED
      BY <1>1, <2>1
  <1>2. CASE Alerting(n) /\ moved /\ IsProblem(t.committed)
    <2>1. Decision(n, t, D) = Decide("fire", OutageOf(n, D))
      BY <1>2 DEF Decision
    <2>2. QED
      BY <1>2, <2>1
  <1>3. CASE Alerting(n) /\ moved /\ ~IsProblem(t.committed)
    <2>1. Decision(n, t, D) = Decide("close", NoAlert)
      BY <1>3 DEF Decision
    <2>2. QED
      BY <1>3, <2>1
  <1>4. CASE Alerting(n) /\ ~moved
    <2>1. Decision(n, t, D) = NoCall
      BY <1>4, Zenon DEF Decision
    <2>2. QED
      BY <1>4, <2>1
  <1>5. QED
    BY <1>1, <1>2, <1>3, <1>4

(* What an observation leaves behind, in the terms the invariant is in.     *)
Observed(n, t) ==
    LET c == Liveness(n)
        moved == t.committed # tracker[c].committed
    IN  /\ call = NoCall /\ view["ingest"] = NoView /\ todo["ingest"] = {}
        /\ holding = {} /\ unholding["ingest"] = {}
        /\ tracker' = [tracker EXCEPT ![c] = t]
        /\ UNCHANGED <<active, held, releasing, cfg, regrouped, view, todo, holding, unholding, look>>
        /\ \/ call' = NoCall /\ Alerting(n) /\ ~moved
           \/ /\ call'.check = c /\ call'.sweep = Resweeps(n, t) /\ call'.base = Base
              /\ \/ call'.step = "strand" /\ ~Alerting(n)
                 \/ /\ call'.step = "fire" /\ call'.alert \in Alerts /\ Alerting(n) /\ moved
                    /\ t.committed = "unreachable" /\ call'.alert.state = "unreachable"
                    /\ call'.alert.rc = RootCause(n, down', Grouped)
                    /\ call'.alert.held => call'.alert.rc = NoNode
                 \/ call'.step = "close" /\ Alerting(n) /\ moved /\ t.committed # "unreachable"
        /\ \A m \in Nodes \ {n} : (m \in down' <=> m \in down) /\ live'[m] = live[m]
        /\ t.confirmed => (n \in down' <=> t.committed = "unreachable") /\ live'[n] = t.committed
        /\ ~t.confirmed => UNCHANGED <<down, live>>
        /\ moved => t.confirmed
        /\ excused \subseteq excused' /\ Contended' \subseteq excused'
        /\ \A u \in Tasks : \A x \in todo[u] : view[u].down # down' \/ view[u].grouped # Grouped => x.check \in excused'
        /\ ~cfg.loaded /\ moved => c \in excused'
        /\ Grouped' = Grouped /\ Base' = Base

LEMMA ObservesFacts ==
    ASSUME IInv, TypeOK', NEW n \in Nodes, NEW t \in Trackers, Observes(n, t)
    PROVE  Observed(n, t)
  <1> DEFINE c == Liveness(n)
             D == DownAfter(n, t)
             moved == t.committed # tracker[c].committed
  <1>1. Shapes /\ TypeOK /\ c \in Checks /\ tracker[c] \in Trackers
    BY CheckOf DEF IInv, TypeOK, Trackers
  <1>2. /\ call = NoCall /\ view["ingest"] = NoView /\ todo["ingest"] = {}
        /\ holding = {} /\ unholding["ingest"] = {}
    BY DEF Observes, Idle, Returned
  <1>3. /\ tracker' = [tracker EXCEPT ![c] = t]
        /\ UNCHANGED <<active, held, releasing, cfg, regrouped, view, todo, holding, unholding, look>>
        /\ live' = LiveAfter(n, t) /\ down' = D /\ call' = Decision(n, t, D)
        /\ moved => t.confirmed /\ t.committed \in {"ok", "unreachable", "unknown", "maintenance"}
        /\ spent'["crash"] = spent["crash"] /\ Excuse
    BY DEF Observes
  <1>4. /\ \A m \in Nodes \ {n} : (m \in down' <=> m \in down) /\ live'[m] = live[m]
        /\ t.confirmed => (n \in down' <=> t.committed = "unreachable") /\ live'[n] = t.committed
        /\ ~t.confirmed => UNCHANGED <<down, live>>
    BY <1>1, <1>3, DownAfterSound
  <1>5. Grouped' = Grouped /\ Base' = Base
    BY <1>3 DEF Grouped, Base
  <1>6. /\ excused \subseteq excused' /\ Contended' \subseteq excused'
        /\ \A u \in Tasks : \A x \in todo[u] : view[u].down # down' \/ view[u].grouped # Grouped => x.check \in excused'
        /\ ~cfg.loaded /\ moved => c \in excused'
    <2>1. tracker'[c] = t
      BY <1>1, <1>3 DEF TypeOK
    <2>2. QED
      BY <1>1, <1>3, <1>5, <2>1, ExcuseFacts
  <1>7. \/ call' = NoCall /\ Alerting(n) /\ ~moved
        \/ /\ call'.check = c /\ call'.sweep = Resweeps(n, t) /\ call'.base = Base
           /\ \/ call'.step = "strand" /\ ~Alerting(n)
              \/ /\ call'.step = "fire" /\ call'.alert \in Alerts /\ Alerting(n) /\ moved
                 /\ t.committed = "unreachable" /\ call'.alert.state = "unreachable"
                 /\ call'.alert.rc = RootCause(n, down', Grouped)
                 /\ call'.alert.held => call'.alert.rc = NoNode
              \/ call'.step = "close" /\ Alerting(n) /\ moved /\ t.committed # "unreachable"
    <2>1. \/ call' = NoCall /\ Alerting(n) /\ ~moved
          \/ /\ call'.check = c /\ call'.sweep = Resweeps(n, t) /\ call'.base = Base
             /\ \/ call'.step = "strand" /\ ~Alerting(n)
                \/ /\ call'.step = "fire" /\ call'.alert = OutageOf(n, D)
                   /\ Alerting(n) /\ moved /\ IsProblem(t.committed)
                \/ call'.step = "close" /\ Alerting(n) /\ moved /\ ~IsProblem(t.committed)
      BY <1>3, Decides
    <2>2. down' \in SUBSET Nodes
      BY DEF TypeOK
    <2>3. /\ OutageOf(n, D) \in Alerts
          /\ OutageOf(n, D).state = "unreachable"
          /\ OutageOf(n, D).rc = RootCause(n, D, Grouped)
          /\ OutageOf(n, D).held => OutageOf(n, D).rc = NoNode
      BY <1>1, <1>3, <2>2, OutageOfType
    <2>4. moved => (IsProblem(t.committed) <=> t.committed = "unreachable")
      BY <1>3 DEF IsProblem
    <2> HIDE DEF D, moved, c
    <2>5. QED
      BY <1>3, <2>1, <2>3, <2>4
  <1>8. QED
    BY <1>2, <1>3, <1>4, <1>5, <1>6, <1>7 DEF Observed

(* A poll that changes what others are judged by asks for another look at   *)
(* them.                                                                    *)
LEMMA ObservedSweeps ==
    ASSUME IInv, NEW n \in Nodes, NEW t \in Trackers, Observed(n, t),
           live'[n] # "maintenance",
           ~(n \in down' <=> n \in down) \/ live[n] = "maintenance"
    PROVE  call'.sweep /\ call'.check = Liveness(n)
  <1> DEFINE c == Liveness(n)
             moved == t.committed # tracker[c].committed
  <1>1. /\ t.confirmed => (n \in down' <=> t.committed = "unreachable") /\ live'[n] = t.committed
        /\ ~t.confirmed => UNCHANGED <<down, live>>
    BY DEF Observed
  <1>2. t.confirmed /\ t.committed # "maintenance"
    BY <1>1
  <1>3. Resweeps(n, t)
    BY <1>1, <1>2 DEF Resweeps
  <1>4. /\ n \in down <=> tracker[c].committed = "unreachable"
        /\ live[n] # "unseen" => live[n] = tracker[c].committed
    BY DEF IInv, LiveInv
  <1>5. moved
    BY <1>1, <1>2, <1>4
  <1>6. QED
    BY <1>3, <1>5, Nothing DEF Observed

LEMMA ObservedBase ==
    ASSUME IInv, TypeOK', Shapes', NEW n \in Nodes, NEW t \in Trackers, Observed(n, t)
    PROVE  CallInv' /\ OrderInv' /\ LiveInv' /\ MeetInv' /\ HoldInv' /\ UnloadedInv' /\ PendingInv'
  <1> DEFINE c == Liveness(n)
             moved == t.committed # tracker[c].committed
  <1>1. /\ call = NoCall /\ view["ingest"] = NoView /\ todo["ingest"] = {}
        /\ holding = {} /\ unholding["ingest"] = {}
        /\ tracker' = [tracker EXCEPT ![c] = t]
        /\ UNCHANGED <<active, held, releasing, cfg, regrouped, view, todo, holding, unholding, look>>
        /\ moved => t.confirmed
        /\ excused \subseteq excused' /\ Contended' \subseteq excused'
        /\ ~cfg.loaded /\ moved => c \in excused'
        /\ Grouped' = Grouped /\ Base' = Base
    BY DEF Observed
  <1>2. c \in Checks /\ tracker'[c] = t /\ \A d \in Checks \ {c} : tracker'[d] = tracker[d]
    BY <1>1, CheckOf DEF IInv, TypeOK
  <1>3. \A d \in Checks : ~Closing(d)
    BY <1>1, Nothing DEF Closing
  <1>4. \A d \in Checks : active[d].held =>
            /\ IsLiveness(d) /\ active[d].state = "unreachable"
            /\ d \in excused \/ (active[d].rc = NoNode /\ tracker[d].committed = "unreachable")
    BY <1>3 DEF IInv, HoldInv
  <1>5. CallInv'
    <2>1. CASE call' = NoCall
      BY <2>1 DEF CallInv
    <2>2. CASE call' # NoCall
      <3>1. /\ call'.check = c /\ call'.sweep = Resweeps(n, t) /\ call'.base = Base
            /\ \/ call'.step = "strand" /\ ~Alerting(n)
               \/ /\ call'.step = "fire" /\ call'.alert \in Alerts /\ moved
                  /\ t.committed = "unreachable" /\ call'.alert.state = "unreachable"
                  /\ call'.alert.rc = RootCause(n, down', Grouped)
                  /\ call'.alert.held => call'.alert.rc = NoNode
               \/ call'.step = "close" /\ t.committed # "unreachable"
        BY <2>2 DEF Observed
      <3>2. Resweeps(n, t) \in BOOLEAN /\ Alerting(n)' = Alerting(n)
        BY <1>1 DEF Resweeps, Alerting, Trackers
      <3>3. moved /\ t.committed = "unreachable" => c \in excused' \/ ~active'[c].held
        BY <1>1, <1>2, <1>4
      <3> HIDE DEF c, moved
      <3>4. CASE call'.step = "strand" /\ ~Alerting(n)
        BY <1>1, <3>1, <3>2, <3>4 DEF CallInv, c
      <3>5. CASE /\ call'.step = "fire" /\ call'.alert \in Alerts /\ moved
                 /\ t.committed = "unreachable" /\ call'.alert.state = "unreachable"
                 /\ call'.alert.rc = RootCause(n, down', Grouped)
                 /\ call'.alert.held => call'.alert.rc = NoNode
        BY <1>1, <1>2, <3>1, <3>2, <3>3, <3>5 DEF CallInv, c
      <3>6. CASE call'.step = "close" /\ t.committed # "unreachable"
        BY <1>1, <1>2, <3>1, <3>2, <3>6 DEF CallInv, c
      <3>7. QED
        BY <3>1, <3>4, <3>5, <3>6
    <2>3. QED
      BY <2>1, <2>2
  <1>6. OrderInv'
    BY <1>1 DEF IInv, OrderInv
  <1>7. LiveInv'
    <2>1. \A m \in Nodes : /\ m \in down <=> tracker[Liveness(m)].committed = "unreachable"
                           /\ live[m] # "unseen" => live[m] = tracker[Liveness(m)].committed
      BY DEF IInv, LiveInv
    <2>2. ASSUME NEW m \in Nodes, m # n
          PROVE  /\ m \in down' <=> tracker'[Liveness(m)].committed = "unreachable"
                 /\ live'[m] # "unseen" => live'[m] = tracker'[Liveness(m)].committed
      <3>1. Liveness(m) \in Checks /\ Liveness(m) # c
        BY <2>2, CheckOf, OneLiveness
      <3>2. (m \in down' <=> m \in down) /\ live'[m] = live[m]
        BY <2>2 DEF Observed
      <3>3. QED
        BY <1>2, <2>1, <3>1, <3>2
    <2>3. /\ n \in down' <=> tracker'[c].committed = "unreachable"
          /\ live'[n] # "unseen" => live'[n] = tracker'[c].committed
      <3>1. /\ t.confirmed => (n \in down' <=> t.committed = "unreachable") /\ live'[n] = t.committed
            /\ ~t.confirmed => UNCHANGED <<down, live>>
        BY DEF Observed
      <3>2. QED
        BY <1>1, <1>2, <2>1, <3>1
    <2>4. QED
      BY <2>2, <2>3 DEF LiveInv
  <1>8. MeetInv' /\ UnloadedInv'
    BY <1>1 DEF MeetInv, IInv, UnloadedInv
  <1>9. HoldInv'
    <2>1. ASSUME NEW d \in Checks, active[d].held
          PROVE  /\ IsLiveness(d) /\ active[d].state = "unreachable"
                 /\ \/ d \in excused'
                    \/ active[d].rc = NoNode /\ (tracker'[d].committed = "unreachable" \/ Closing(d)')
      <3>1. CASE d # c \/ ~moved
        BY <1>1, <1>2, <1>4, <2>1, <3>1
      <3>2. CASE d = c /\ moved /\ t.committed = "unreachable"
        BY <1>1, <1>2, <1>4, <2>1, <3>2
      <3>3. CASE d = c /\ moved /\ t.committed # "unreachable"
        <4>1. CASE ~cfg.loaded
          BY <1>1, <1>4, <2>1, <3>3, <4>1
        <4>2. CASE cfg.loaded
          <5>1. call'.check = c /\ (call'.step = "strand" \/ call'.step = "close")
            BY <3>3 DEF Observed
          <5>2. Closing(d)'
            BY <1>1, <3>3, <4>2, <5>1 DEF Closing
          <5>3. QED
            BY <1>1, <1>4, <2>1, <5>2
        <4>3. QED
          BY <4>1, <4>2
      <3>4. QED
        BY <3>1, <3>2, <3>3
    <2>2. HalfDone' = HalfDone
      BY <1>1 DEF HalfDone
    <2>3. QED
      BY <1>1, <2>1, <2>2 DEF IInv, HoldInv
  <1>10. PendingInv'
    <2>1. \A u \in Tasks : \A x \in todo[u] :
             view[u].down # down' \/ view[u].grouped # Grouped => x.check \in excused'
      BY DEF Observed
    <2>2. QED
      BY <1>1, <2>1 DEF IInv, PendingInv, IsOpen
  <1>11. QED
    BY <1>5, <1>6, <1>7, <1>8, <1>9, <1>10

LEMMA ObservedOutage ==
    ASSUME IInv, TypeOK', Shapes', NEW n \in Nodes, NEW t \in Trackers, Observed(n, t)
    PROVE  OutageInv'
  <1>1. /\ call = NoCall /\ view["ingest"] = NoView
        /\ UNCHANGED <<active, regrouped, view, todo>>
        /\ excused \subseteq excused' /\ Grouped' = Grouped
        /\ \A m \in Nodes \ {n} : (m \in down' <=> m \in down) /\ live'[m] = live[m]
    BY DEF Observed
  <1> SUFFICES ASSUME regrouped', \A m \in Nodes : live'[m] # "maintenance",
                      NEW m \in Nodes, IsOpen(Liveness(m))', Liveness(m) \notin excused'
               PROVE  \/ active'[Liveness(m)].rc = Attribution(Liveness(m))'
                      \/ Awaits(Liveness(m))' \/ Swept(m)' \/ call'.check = Liveness(m)
    BY DEF OutageInv
  <1>2. CASE ~(n \in down' <=> n \in down) \/ live[n] = "maintenance"
    <2>1. call'.sweep /\ call'.check = Liveness(n)
      BY <1>2, ObservedSweeps
    <2>2. CASE m = n
      BY <2>1, <2>2
    <2>3. CASE m # n
      BY <2>1, <2>3, OneLiveness DEF Swept
    <2>4. QED
      BY <2>2, <2>3
  <1>3. CASE (n \in down' <=> n \in down) /\ live[n] # "maintenance"
    <2>1. down' = down
      <3>1. down \in SUBSET Nodes /\ down' \in SUBSET Nodes
        BY DEF IInv, TypeOK
      <3>2. QED
        BY <1>1, <1>3, <3>1
    <2>2. \A k \in Nodes : live[k] # "maintenance"
      BY <1>1, <1>3
    <2>3. Liveness(m) \in Checks /\ IsOpen(Liveness(m)) /\ Liveness(m) \notin excused
      BY <1>1, CheckOf DEF IsOpen
    <2>4. \/ active[Liveness(m)].rc = Attribution(Liveness(m))
          \/ Awaits(Liveness(m)) \/ Swept(m) \/ call.check = Liveness(m)
      BY <1>1, <2>2, <2>3 DEF IInv, OutageInv
    <2>5. call.check # Liveness(m) /\ ~call.sweep
      BY <1>1, <2>3, Nothing
    <2>6. Attribution(Liveness(m))' = Attribution(Liveness(m))
      BY <1>1, <2>1, JudgedNext DEF Attribution
    <2>7. Awaits(Liveness(m)) => Awaits(Liveness(m))'
      BY <1>1 DEF Awaits
    <2>8. Swept(m) => Swept(m)'
      BY <1>1, <2>1, <2>5 DEF Swept
    <2>9. QED
      BY <1>1, <2>4, <2>5, <2>6, <2>7, <2>8
  <1>4. QED
    BY <1>2, <1>3

LEMMA ReadingsWaitInIngest ==
    ASSUME PendingInv, NEW n \in Readers, todo["ingest"] = {}
    PROVE  ~Awaits(Reading(n))
  BY CheckOf DEF PendingInv, Awaits

LEMMA ObservedRelease ==
    ASSUME IInv, TypeOK', Shapes', NEW n \in Nodes, NEW t \in Trackers, Observed(n, t)
    PROVE  ReleaseInv'
  <1>1. /\ call = NoCall /\ view["ingest"] = NoView /\ todo["ingest"] = {}
        /\ UNCHANGED <<active, releasing, view, todo>>
        /\ \A m \in Nodes \ {n} : (m \in down' <=> m \in down) /\ live'[m] = live[m]
    BY DEF Observed
  <1> SUFFICES ASSUME NEW m \in Readers
               PROVE  LET c == Reading(m)
                      IN  /\ releasing'[c].on => IsOpen(c)' /\ (m \in down' => Awaits(c)' \/ SweptOwn(m)')
                          /\ (IsOpen(c)' /\ live'[m] # "maintenance") =>
                                \/ Awaits(c)'
                                \/ SweptOwn(m)'
                                \/ IF m \in down' THEN active'[c].rc = m
                                   ELSE active'[c].rc # NoNode => releasing'[c].on
    BY DEF ReleaseInv
  <1> DEFINE c == Reading(m)
  <1>2. m \in Nodes /\ c \in Checks
    BY GraphAssumption, CheckOf
  <1>3. ~Awaits(c) /\ ~SweptOwn(m)
    <2>1. ~Awaits(c)
      BY <1>1, ReadingsWaitInIngest DEF IInv
    <2>2. ~SweptOwn(m)
      BY <1>1, Nothing DEF SweptOwn
    <2>3. QED
      BY <2>1, <2>2
  <1>4. /\ releasing[c].on => IsOpen(c) /\ m \notin down
        /\ (IsOpen(c) /\ live[m] # "maintenance") =>
              IF m \in down THEN active[c].rc = m ELSE active[c].rc # NoNode => releasing[c].on
    BY <1>3 DEF IInv, ReleaseInv
  <1>5. IsOpen(c)' = IsOpen(c)
    BY <1>1 DEF IsOpen
  <1>6. CASE m # n
    BY <1>1, <1>2, <1>4, <1>5, <1>6
  <1>7. CASE m = n
    <2>1. CASE live'[n] # "maintenance" /\ (~(n \in down' <=> n \in down) \/ live[n] = "maintenance")
      <3>1. SweptOwn(m)'
        BY <1>7, <2>1, ObservedSweeps DEF SweptOwn
      <3>2. QED
        BY <1>1, <1>4, <1>5, <3>1
    <2>2. CASE live'[n] = "maintenance"
      <3>1. n \notin down'
        BY <2>2 DEF TypeOK
      <3>2. QED
        BY <1>1, <1>4, <1>5, <1>7, <2>2, <3>1
    <2>3. CASE (n \in down' <=> n \in down) /\ live[n] # "maintenance"
      BY <1>1, <1>4, <1>5, <1>7, <2>3
    <2>4. QED
      BY <2>1, <2>2, <2>3
  <1>8. QED
    BY <1>6, <1>7

LEMMA ObservesInv ==
    ASSUME IInv, TypeOK', Shapes', NEW n \in Nodes, NEW o \in Outcomes, ObserveLiveness(n, o)
    PROVE  IInv'
  <1>1. PICK t \in Trackers : Observes(n, t)
    BY LivenessStep DEF IInv
  <1>2. Observed(n, t)
    BY <1>1, ObservesFacts
  <1>3. QED
    BY <1>2, ObservedBase, ObservedOutage, ObservedRelease DEF IInv

-----------------------------------------------------------------------------
(* Applying a decision about a liveness check.                              *)

(* The outcomes of applying the decision about node n.                      *)
Fires(c) ==
    /\ call.step = "fire" /\ call.alert \in Alerts
    /\ active' = [active EXCEPT ![c] = call.alert]
    /\ holding' = IF call.alert.held THEN {c} ELSE {}
    /\ unholding' = unholding

Closes(c) ==
    /\ call.step = "close" \/ (call.step = "strand" /\ cfg.loaded)
    /\ active' = [active EXCEPT ![c] = NoAlert]
    /\ unholding' = IF active[c].held THEN [unholding EXCEPT !["ingest"] = {c}] ELSE unholding
    /\ holding' = holding

Leaves(c) ==
    /\ call.step = "strand" /\ ~cfg.loaded
    /\ UNCHANGED <<active, holding, unholding>>

Applied(n) ==
    LET c == Liveness(n)
    IN  /\ call.check = c /\ call # NoCall /\ call' = NoCall
        /\ view["ingest"] = NoView /\ holding = {} /\ unholding["ingest"] = {}
        /\ Fires(c) \/ Closes(c) \/ Leaves(c)
        /\ view' = IF call.sweep THEN [view EXCEPT !["ingest"] = Sweep(n)] ELSE view
        /\ UNCHANGED <<tracker, live, down, held, releasing, cfg, regrouped, todo, look>>
        /\ excused \subseteq excused' /\ Contended' \subseteq excused'
        /\ Grouped' = Grouped /\ Base' = Base

LEMMA AppliedFacts ==
    ASSUME IInv, Apply
    PROVE  \E n \in Nodes : Applied(n)
  <1>1. PICK n \in Nodes :
             /\ call.check = Liveness(n) /\ call # NoCall
             /\ \/ call.step = "fire" /\ call.alert \in Alerts /\ Opens(call.check, call.alert)
                \/ call.step = "close" /\ Close(call.check)
                \/ call.step = "strand" /\ cfg.loaded /\ Close(call.check)
                \/ call.step = "strand" /\ ~cfg.loaded /\ UNCHANGED <<active, holding, unholding, out>>
             /\ call' = NoCall
             /\ view' = IF call.sweep THEN [view EXCEPT !["ingest"] = Sweep(n)] ELSE view
             /\ UNCHANGED <<tracker, live, down, held, expired, releasing, sidePending, cfg, regrouped,
                            todo, look, queue, sides, incidents, rows, history>>
             /\ Excuse
    BY ApplyStep, Zenon DEF IInv
  <1>2. view["ingest"] = NoView /\ holding = {} /\ unholding["ingest"] = {}
    BY <1>1 DEF IInv, OrderInv
  <1>3. excused \subseteq excused' /\ Contended' \subseteq excused'
    BY <1>1, ExcuseFacts
  <1>4. Grouped' = Grouped /\ Base' = Base
    BY <1>1 DEF Grouped, Base
  <1>5. Fires(Liveness(n)) \/ Closes(Liveness(n)) \/ Leaves(Liveness(n))
    <2>1. CASE Opens(call.check, call.alert) /\ call.step = "fire" /\ call.alert \in Alerts
      BY <1>1, <2>1 DEF Opens, Fires
    <2>2. CASE Close(call.check) /\ (call.step = "close" \/ (call.step = "strand" /\ cfg.loaded))
      BY <1>1, <2>2 DEF Close, Closes, Unlist
    <2>3. QED
      BY <1>1, <2>1, <2>2 DEF Leaves
  <1>6. QED
    BY <1>1, <1>2, <1>3, <1>4, <1>5 DEF Applied

(* What the invariant says of the decision that is applied.                 *)
LEMMA AppliedCall ==
    ASSUME IInv, NEW n \in Nodes, Applied(n)
    PROVE  LET c == Liveness(n)
           IN  /\ call.step = "fire" =>
                    /\ call.alert.state = "unreachable" /\ tracker[c].committed = "unreachable"
                    /\ c \in excused \/ (~active[c].held /\ call.alert.rc = RootCause(n, down, Grouped))
                    /\ call.alert.held => call.alert.rc = NoNode
               /\ call.step = "close" => tracker[c].committed # "unreachable"
               /\ call.step = "strand" => c \in excused \/ ~Alerting(n)
  <1>1. PICK m \in Nodes :
              /\ call.check = Liveness(m)
              /\ \/ /\ call.step = "fire" /\ call.alert \in Alerts
                    /\ call.alert.state = "unreachable" /\ tracker[call.check].committed = "unreachable"
                    /\ \/ call.check \in excused
                       \/ /\ call.base = Base /\ ~active[call.check].held
                          /\ call.alert.rc = RootCause(m, down, Grouped)
                    /\ call.alert.held => call.alert.rc = NoNode
                 \/ call.step = "close" /\ tracker[call.check].committed # "unreachable"
                 \/ /\ call.step = "strand"
                    /\ call.check \in excused \/ (call.base = Base /\ ~Alerting(m))
    BY DEF IInv, CallInv, Applied
  <1>2. m = n /\ call.check = Liveness(n)
    BY <1>1, OneLiveness DEF Applied
  <1>3. QED
    BY <1>1, <1>2

LEMMA AppliedInv ==
    ASSUME IInv, TypeOK', Shapes', NEW n \in Nodes, Applied(n)
    PROVE  IInv'
  <1> DEFINE c == Liveness(n)
  <1>1. /\ call.check = c /\ call # NoCall /\ call' = NoCall
        /\ view["ingest"] = NoView /\ holding = {} /\ unholding["ingest"] = {}
        /\ Fires(c) \/ Closes(c) \/ Leaves(c)
        /\ view' = IF call.sweep THEN [view EXCEPT !["ingest"] = Sweep(n)] ELSE view
        /\ UNCHANGED <<tracker, live, down, held, releasing, cfg, regrouped, todo, look>>
        /\ excused \subseteq excused' /\ Contended' \subseteq excused'
        /\ Grouped' = Grouped
    BY DEF Applied
  <1>2. /\ call.step = "fire" =>
             /\ call.alert.state = "unreachable" /\ tracker[c].committed = "unreachable"
             /\ c \in excused \/ (~active[c].held /\ call.alert.rc = RootCause(n, down, Grouped))
             /\ call.alert.held => call.alert.rc = NoNode
        /\ call.step = "close" => tracker[c].committed # "unreachable"
        /\ call.step = "strand" => c \in excused \/ ~Alerting(n)
    BY AppliedCall
  <1>3. /\ c \in Checks /\ IsLiveness(c) /\ NodeOf(c) = n /\ c # NoCheck
        /\ "ingest" \in Tasks /\ active \in [Checks -> Alerts \cup {NoAlert}]
        /\ unholding \in [Tasks -> SUBSET Checks] /\ view \in [Tasks -> Views]
    <2>1. c \in Checks /\ IsLiveness(c) /\ NodeOf(c) = n
      BY CheckOf
    <2>2. c # NoCheck
      BY <2>1, Nothing
    <2>3. QED
      BY <2>1, <2>2 DEF IInv, TypeOK, Shapes, Tasks
  <1>4. \A d \in Checks \ {c} : active'[d] = active[d]
    BY <1>1, <1>3 DEF Fires, Closes, Leaves
  <1>5. /\ \A t \in Tasks \ {"ingest"} : view'[t] = view[t]
        /\ call.sweep => view'["ingest"].step = "look" /\ view'["ingest"].changed = n
        /\ ~call.sweep => view'["ingest"] = NoView
    BY <1>1, <1>3, SweepView
  <1>6. \A t \in Tasks \ {"ingest"} : At(t, c) => c \in excused
    <2>1. At("ingest", c)
      BY <1>1, <1>3 DEF At
    <2>2. QED
      BY <1>3, <2>1, Met DEF IInv, MeetInv
  <1>7. CallInv'
    BY <1>1 DEF CallInv
  <1>8. OrderInv'
    <2>1. view'["config"] = view["config"] /\ view'["held"] = view["held"] /\ todo["ingest"] = {}
      BY <1>1, <1>5, Nothing DEF IInv, OrderInv, Tasks
    <2>2. unholding'["held"] = unholding["held"]
      BY <1>1, <1>3 DEF Fires, Closes, Leaves, Tasks
    <2>3. \A t \in Tasks : /\ todo'[t] # {} => view'[t].step = "each"
                           /\ view'[t].step = "none" => view'[t] = NoView
      BY <1>1, <1>5, <2>1, Nothing DEF IInv, OrderInv, Tasks
    <2>4. /\ view'["ingest"].step = "look" \/ view'["ingest"] = NoView
          /\ view'["ingest"].step \notin {"snap", "each"}
      BY <1>1, <1>3, <1>5, SweepView, Nothing
    <2>5. QED
      BY <1>1, <2>1, <2>2, <2>3, <2>4 DEF IInv, OrderInv
  <1>9. LiveInv' /\ MeetInv' /\ UnloadedInv'
    BY <1>1 DEF IInv, LiveInv, MeetInv, UnloadedInv
  <1>10. HoldInv'
    <2>1. \A d \in Checks \ {c} : ~Closing(d)
      BY <1>1 DEF Closing
    <2>2. ASSUME NEW d \in Checks, active'[d].held
          PROVE  /\ IsLiveness(d) /\ active'[d].state = "unreachable"
                 /\ d \in excused' \/ (active'[d].rc = NoNode /\ tracker'[d].committed = "unreachable")
      <3>1. CASE d # c
        BY <1>1, <1>4, <2>1, <2>2, <3>1 DEF IInv, HoldInv
      <3>2. CASE d = c /\ Fires(c)
        BY <1>1, <1>2, <1>3, <2>2, <3>2 DEF Fires
      <3>3. CASE d = c /\ Closes(c)
        BY <1>3, <2>2, <3>3, NoAlertFields DEF Closes
      <3>4. CASE d = c /\ Leaves(c)
        <4>1. ~Closing(c) /\ active'[d] = active[d]
          BY <1>1, <3>4 DEF Leaves, Closing
        <4>2. QED
          BY <1>1, <2>2, <3>4, <4>1 DEF IInv, HoldInv
      <3>5. QED
        BY <1>1, <3>1, <3>2, <3>3, <3>4
    <2>3. /\ holding' \subseteq {c} /\ unholding'["ingest"] \subseteq {c}
          /\ \A t \in Tasks \ {"ingest"} : unholding'[t] = unholding[t]
      BY <1>1, <1>3 DEF Fires, Closes, Leaves
    <2>4. HalfDone \subseteq HalfDone' /\ HalfDone' \subseteq HalfDone \cup {c}
      <3>1. \A d : d \in HalfDone <=> \E t \in Tasks \ {"ingest"} : d \in unholding[t]
        BY <1>1 DEF HalfDone
      <3>2. \A d : d \in HalfDone' <=> \/ d \in holding'
                                       \/ \E t \in Tasks : d \in unholding'[t]
        BY DEF HalfDone
      <3>3. QED
        BY <2>3, <3>1, <3>2
    <2>5. ASSUME NEW d \in Checks \ (HalfDone' \cup excused') PROVE d \in held' <=> active'[d].held
      <3>1. d \in held <=> active[d].held
        BY <1>1, <2>4, <2>5 DEF IInv, HoldInv
      <3>2. CASE d # c
        BY <1>1, <1>4, <2>5, <3>1, <3>2
      <3>3. CASE d = c /\ Fires(c)
        <4>1. ~call.alert.held
          BY <2>5, <3>3 DEF Fires, HalfDone
        <4>2. QED
          BY <1>1, <1>2, <1>3, <2>5, <3>1, <3>3, <4>1 DEF Fires
      <3>4. CASE d = c /\ Closes(c)
        <4>1. ~active[c].held
          <5>1. c \notin unholding'["ingest"]
            BY <1>3, <2>5, <3>4 DEF HalfDone
          <5>2. QED
            BY <1>3, <3>4, <5>1 DEF Closes
        <4>2. QED
          BY <1>1, <1>3, <3>1, <3>4, <4>1, NoAlertFields DEF Closes
      <3>5. CASE d = c /\ Leaves(c)
        BY <1>1, <3>1, <3>5 DEF Leaves
      <3>6. QED
        BY <1>1, <3>2, <3>3, <3>4, <3>5
    <2>6. \A d \in holding' \ excused' : active'[d].held
      BY <1>1, <1>3 DEF Fires, Closes, Leaves
    <2>7. ASSUME NEW t \in Tasks, NEW d \in unholding'[t] \ excused' PROVE ~active'[d].held
      <3>1. CASE t = "ingest"
        BY <1>1, <1>3, <2>7, <3>1, NoAlertFields DEF Fires, Closes, Leaves
      <3>2. CASE t # "ingest"
        <4>1. d \in unholding[t] /\ d \in Checks
          BY <1>3, <2>3, <2>7, <3>2
        <4>2. ~active[d].held
          BY <1>1, <2>7, <4>1 DEF IInv, HoldInv
        <4>3. d # c
          BY <1>1, <1>6, <2>7, <3>2, <4>1 DEF At
        <4>4. QED
          BY <1>4, <4>1, <4>2, <4>3
      <3>3. QED
        BY <3>1, <3>2
    <2>8. \A d \in held' \cup HalfDone' \cup look'.snap : IsLiveness(d)
      BY <1>1, <1>3, <2>4 DEF IInv, HoldInv
    <2>9. look'.ready # <<>> => IsLiveness(look'.ready[1])
      BY <1>1 DEF IInv, HoldInv
    <2>10. QED
      BY <2>2, <2>5, <2>6, <2>7, <2>8, <2>9 DEF HoldInv
  <1>11. PendingInv'
    <2> SUFFICES ASSUME NEW t \in Tasks, NEW x \in todo[t]
                 PROVE  /\ \A y \in todo[t] : y.check = x.check => y = x
                        /\ x.rc = Judged(x.check, view'[t].down, view'[t].grouped)
                        /\ \/ x.check \in excused'
                           \/ /\ view'[t].down = down' /\ view'[t].grouped = Grouped'
                              /\ IsOpen(x.check)' => x.alert.rc = active'[x.check].rc
                              /\ x.alert.held => x.alert.rc = NoNode
                              /\ active'[x.check].held => x.alert.held
                        /\ IsLiveness(x.check) \/ (t = "ingest" /\ x.alert = active'[x.check])
      BY <1>1 DEF PendingInv
    <2>1. t # "ingest"
      BY <1>1, Nothing DEF IInv, OrderInv
    <2>2. view'[t] = view[t] /\ x.check \in Checks
      BY <1>5, <2>1, PendingFields DEF IInv, Shapes
    <2>3. x.check = c => c \in excused
      BY <1>6, <2>1 DEF At
    <2>4. QED
      BY <1>1, <1>3, <1>4, <2>1, <2>2, <2>3 DEF IInv, PendingInv, IsOpen
  <1>12. OutageInv'
    <2> SUFFICES ASSUME regrouped', \A m \in Nodes : live'[m] # "maintenance",
                        NEW m \in Nodes, IsOpen(Liveness(m))', Liveness(m) \notin excused'
                 PROVE  \/ active'[Liveness(m)].rc = Attribution(Liveness(m))'
                        \/ Awaits(Liveness(m))' \/ Swept(m)'
      BY DEF OutageInv
    <2>1. Attribution(Liveness(m))' = Judged(Liveness(m), down, Grouped)
      BY <1>1, JudgedNext
    <2>2. CASE m = n
      <3>1. CASE Fires(c)
        <4>1. active'[c].rc = RootCause(n, down, Grouped)
          BY <1>1, <1>2, <1>3, <2>2, <3>1 DEF Fires
        <4>2. QED
          BY <1>3, <2>1, <2>2, <4>1 DEF Judged
      <3>2. CASE Closes(c)
        BY <1>3, <2>2, <3>2 DEF Closes, IsOpen
      <3>3. CASE Leaves(c)
        BY <1>1, <3>3 DEF Leaves, IInv, UnloadedInv
      <3>4. QED
        BY <1>1, <3>1, <3>2, <3>3
    <2>3. CASE m # n
      <3>1. Liveness(m) \in Checks \ {c}
        BY <2>3, CheckOf, OneLiveness
      <3>2. active'[Liveness(m)] = active[Liveness(m)] /\ IsOpen(Liveness(m)) /\ Liveness(m) \notin excused
        BY <1>1, <1>4, <3>1 DEF IsOpen
      <3>3. active[Liveness(m)].rc = Attribution(Liveness(m)) \/ Awaits(Liveness(m)) \/ Swept(m)
        BY <1>1, <3>1, <3>2 DEF IInv, OutageInv
      <3>4. Awaits(Liveness(m)) => Awaits(Liveness(m))'
        BY <1>1 DEF Awaits
      <3>5. Swept(m) => Swept(m)'
        <4>1. CASE call.sweep
          BY <1>3, <1>5, <2>3, <4>1 DEF Swept
        <4>2. CASE ~call.sweep
          BY <1>1, <1>5, <4>2, Nothing DEF Swept
        <4>3. QED
          BY <4>1, <4>2
      <3>6. QED
        BY <2>1, <3>2, <3>3, <3>4, <3>5 DEF Attribution
    <2>4. QED
      BY <2>2, <2>3
  <1>13. ReleaseInv'
    <2>1. ASSUME NEW m \in Readers
          PROVE  /\ active'[Reading(m)] = active[Reading(m)]
                 /\ Awaits(Reading(m))' = Awaits(Reading(m))
                 /\ SweptOwn(m) => SweptOwn(m)'
      <3>1. Reading(m) \in Checks \ {c}
        BY <1>3, CheckOf
      <3>2. SweptOwn(m) => SweptOwn(m)'
        <4>1. ASSUME SweptOwn(m) PROVE call.sweep /\ c = Liveness(m)
          BY <1>1, <4>1, Nothing DEF SweptOwn
        <4>2. m \in Nodes
          BY GraphAssumption
        <4>3. ASSUME SweptOwn(m) PROVE SweptOwn(m)'
          BY <1>5, <4>1, <4>2, <4>3, OneLiveness DEF SweptOwn
        <4>4. QED
          BY <4>3
      <3>3. QED
        BY <1>1, <1>4, <3>1, <3>2 DEF Awaits
    <2>2. QED
      BY <1>1, <2>1 DEF IInv, ReleaseInv, IsOpen
  <1>14. QED
    BY <1>7, <1>8, <1>9, <1>10, <1>11, <1>12, <1>13 DEF IInv

LEMMA ApplyInv ==
    ASSUME IInv, TypeOK', Shapes', Apply
    PROVE  IInv'
  BY AppliedFacts, AppliedInv

-----------------------------------------------------------------------------
(* The held list, and the first two steps of a reattribution.               *)

(* What the parts about decisions and attributions read.                    *)
Judging == UNCHANGED <<tracker, live, down, active, releasing, cfg, regrouped, call, view, todo>>

(* A step that touches the held list and what is on its way to it.          *)
LEMMA ListInv ==
    ASSUME IInv, TypeOK', Shapes', Judging, Excuse, HoldInv',
           call # NoCall => holding' = {} /\ unholding'["ingest"] = {},
           view["ingest"].step \in {"snap", "each"} => holding' = {},
           look'.ready # <<>> => unholding'["held"] = {}
    PROVE  IInv'
  <1>1. excused \subseteq excused' /\ Contended' \subseteq excused'
    BY ExcuseFacts
  <1>2. Grouped' = Grouped /\ Base' = Base
    BY DEF Judging, Grouped, Base
  <1>3. CallInv'
    BY <1>1, <1>2 DEF IInv, CallInv, Judging, Alerting
  <1>4. OrderInv'
    BY DEF IInv, OrderInv, Judging
  <1>5. LiveInv' /\ UnloadedInv' /\ MeetInv'
    BY <1>1 DEF IInv, LiveInv, UnloadedInv, MeetInv, Judging
  <1>6. \A c : Attribution(c)' = Attribution(c) /\ Awaits(c)' = Awaits(c)
    BY <1>2, JudgedNext DEF Attribution, Judging, Awaits
  <1>7. PendingInv'
    BY <1>1, <1>2 DEF IInv, PendingInv, Judging, IsOpen
  <1>8. \A n : Swept(n)' = Swept(n) /\ SweptOwn(n)' = SweptOwn(n)
    BY <1>2 DEF Swept, SweptOwn, Judging
  <1>9. OutageInv' /\ ReleaseInv'
    BY <1>1, <1>6, <1>8 DEF IInv, OutageInv, ReleaseInv, Judging, IsOpen
  <1>10. QED
    BY <1>3, <1>4, <1>5, <1>7, <1>9 DEF IInv

LEMMA HalfDoneIs ==
    /\ \A d : d \in HalfDone <=> d \in holding \/ \E t \in Tasks : d \in unholding[t]
    /\ \A d : d \in HalfDone' <=> d \in holding' \/ \E t \in Tasks : d \in unholding'[t]
  BY DEF HalfDone

LEMMA HoldStepInv ==
    ASSUME IInv, TypeOK', Shapes', Hold
    PROVE  IInv'
  <1>1. /\ held' = held \cup holding /\ holding' = {}
        /\ UNCHANGED <<unholding, look>> /\ Judging /\ Excuse
    BY DEF Hold, Judging, config, sweeps
  <1>2. excused \subseteq excused'
    BY <1>1, ExcuseFacts
  <1>3. HoldInv'
    <2>1. \A c : Closing(c)' = Closing(c)
      BY <1>1 DEF Closing, Judging
    <2>2. ASSUME NEW d \in Checks \ (HalfDone' \cup excused') PROVE d \in held' <=> active'[d].held
      BY <1>1, <1>2, <2>2, HalfDoneIs DEF IInv, HoldInv, Judging
    <2>3. \A d \in held' \cup HalfDone' \cup look'.snap : IsLiveness(d)
      BY <1>1, HalfDoneIs DEF IInv, HoldInv
    <2>4. QED
      BY <1>1, <1>2, <2>1, <2>2, <2>3 DEF IInv, HoldInv, Judging
  <1>4. QED
    BY <1>1, <1>3, ListInv DEF IInv, OrderInv

LEMMA UnholdInv ==
    ASSUME IInv, TypeOK', Shapes', NEW t \in Tasks, Unhold(t)
    PROVE  IInv'
  <1>1. /\ held' = held \ unholding[t] /\ unholding' = [unholding EXCEPT ![t] = {}]
        /\ UNCHANGED <<holding, look>> /\ Judging /\ Excuse
    BY DEF Unhold, Judging, config, sweeps
  <1>2. excused \subseteq excused' /\ unholding \in [Tasks -> SUBSET Checks]
    BY <1>1, ExcuseFacts DEF IInv, Shapes
  <1>3. unholding'[t] = {} /\ \A u \in Tasks \ {t} : unholding'[u] = unholding[u]
    BY <1>1, <1>2
  <1>4. HoldInv'
    <2>1. \A c : Closing(c)' = Closing(c)
      BY <1>1 DEF Closing, Judging
    <2>2. ASSUME NEW d \in Checks \ (HalfDone' \cup excused') PROVE d \in held' <=> active'[d].held
      <3>1. CASE d \in unholding[t]
        BY <1>1, <1>2, <2>2, <3>1 DEF IInv, HoldInv, Judging
      <3>2. CASE d \notin unholding[t]
        <4>1. d \notin HalfDone
          BY <1>1, <1>3, <2>2, <3>2, HalfDoneIs
        <4>2. QED
          BY <1>1, <1>2, <2>2, <3>2, <4>1 DEF IInv, HoldInv, Judging
      <3>3. QED
        BY <3>1, <3>2
    <2>3. \A d \in held' \cup HalfDone' \cup look'.snap : IsLiveness(d)
      BY <1>1, <1>3, HalfDoneIs DEF IInv, HoldInv
    <2>4. \A u \in Tasks : \A d \in unholding'[u] \ excused' : ~active'[d].held
      BY <1>1, <1>2, <1>3 DEF IInv, HoldInv, Judging
    <2>5. QED
      BY <1>1, <1>2, <2>1, <2>2, <2>3, <2>4 DEF IInv, HoldInv, Judging
  <1>5. /\ call # NoCall => holding' = {} /\ unholding'["ingest"] = {}
        /\ look'.ready # <<>> => unholding'["held"] = {}
        /\ view["ingest"].step \in {"snap", "each"} => holding' = {}
    BY <1>1, <1>3 DEF IInv, OrderInv, Tasks
  <1>6. QED
    BY <1>1, <1>4, <1>5, ListInv

LEMMA HeldJudgeInv ==
    ASSUME IInv, TypeOK', Shapes', HeldJudge
    PROVE  IInv'
  <1>1. PICK c \in look.snap :
          /\ unholding["held"] = {}
          /\ look' = [snap |-> look.snap \ {c},
                      ready |-> IF IsOpen(c) /\ ~cfg.paused /\ ~StillWaits(c) THEN <<c>> ELSE <<>>]
          /\ IF IsOpen(c) THEN unholding' = unholding ELSE unholding' = [unholding EXCEPT !["held"] = {c}]
          /\ UNCHANGED <<held, holding>> /\ Judging /\ Excuse
    BY DEF HeldJudge, Unlist, Judging, engine, config, sweeps
  <1>2. /\ excused \subseteq excused' /\ unholding \in [Tasks -> SUBSET Checks] /\ "held" \in Tasks
        /\ IsLiveness(c)
    BY <1>1, ExcuseFacts DEF IInv, Shapes, HoldInv, Tasks
  <1>3. /\ \A u \in Tasks \ {"held"} : unholding'[u] = unholding[u]
        /\ unholding'["held"] = IF IsOpen(c) THEN {} ELSE {c}
    BY <1>1, <1>2
  <1>4. /\ look'.snap = look.snap \ {c}
        /\ look'.ready # <<>> => look'.ready[1] = c /\ IsOpen(c)
    BY <1>1
  <1>5. HoldInv'
    <2>1. \A d : Closing(d)' = Closing(d)
      BY <1>1 DEF Closing, Judging
    <2>2. HalfDone \subseteq HalfDone' /\ HalfDone' \subseteq HalfDone \cup {c}
      BY <1>1, <1>3, HalfDoneIs
    <2>3. \A d \in held' \cup HalfDone' \cup look'.snap : IsLiveness(d)
      BY <1>1, <1>2, <1>4, <2>2 DEF IInv, HoldInv
    <2>4. ASSUME NEW u \in Tasks, NEW d \in unholding'[u] \ excused' PROVE ~active'[d].held
      <3>1. CASE u = "held"
        BY <1>1, <1>3, <2>4, <3>1, NoAlertFields DEF Judging, IsOpen
      <3>2. CASE u # "held"
        BY <1>1, <1>2, <1>3, <2>4, <3>2 DEF IInv, HoldInv, Judging
      <3>3. QED
        BY <3>1, <3>2
    <2>5. \A d \in Checks \ (HalfDone' \cup excused') : d \in held' <=> active'[d].held
      BY <1>1, <1>2, <2>2 DEF IInv, HoldInv, Judging
    <2>6. QED
      BY <1>1, <1>2, <1>4, <2>1, <2>3, <2>4, <2>5 DEF IInv, HoldInv, Judging
  <1>6. /\ call # NoCall => holding' = {} /\ unholding'["ingest"] = {}
        /\ look'.ready # <<>> => unholding'["held"] = {}
        /\ view["ingest"].step \in {"snap", "each"} => holding' = {}
    BY <1>1, <1>3, <1>4 DEF IInv, OrderInv, Tasks
  <1>7. QED
    BY <1>1, <1>5, <1>6, ListInv

LEMMA HeldReleaseInv ==
    ASSUME IInv, TypeOK', Shapes', HeldRelease
    PROVE  IInv'
  <1>0. PICK c : c = look.ready[1]
    OBVIOUS
  <1> DEFINE a == [active[c] EXCEPT !.held = FALSE]
  <1>1. /\ look.ready # <<>>
        /\ unholding' = [unholding EXCEPT !["held"] = {c}]
        /\ active' = IF active[c].held THEN [active EXCEPT ![c] = a] ELSE active
        /\ look' = [look EXCEPT !.ready = <<>>]
        /\ UNCHANGED <<tracker, live, down, held, releasing, cfg, regrouped, call, view, todo, holding>>
        /\ Excuse
    BY <1>0 DEF HeldRelease, Unlist, config, sweeps
  <1>2. /\ c \in Checks /\ IsLiveness(c) /\ unholding["held"] = {} /\ "held" \in Tasks
        /\ look'.snap = look.snap /\ look'.ready = <<>>
    <2>1. look \in [snap : SUBSET Checks, ready : Seq(Checks)]
      BY DEF IInv, Shapes
    <2>2. c \in Checks
      BY <1>0, <1>1, <2>1
    <2>3. look'.snap = look.snap /\ look'.ready = <<>>
      BY <1>1, <2>1
    <2>4. IsLiveness(c) /\ unholding["held"] = {}
      BY <1>0, <1>1 DEF IInv, HoldInv, OrderInv
    <2>5. QED
      BY <2>2, <2>3, <2>4 DEF Tasks
  <1>3. /\ active \in [Checks -> Alerts \cup {NoAlert}] /\ unholding \in [Tasks -> SUBSET Checks]
    BY DEF IInv, TypeOK, Shapes
  <1>4. active[c].held => active[c] \in Alerts /\ active[c] # NoAlert
    BY <1>2, <1>3, NoAlertFields
  <1>5. /\ \A d \in Checks \ {c} : active'[d] = active[d]
        /\ active'[c].rc = active[c].rc /\ active'[c].state = active[c].state /\ ~active'[c].held
        /\ (active'[c] = NoAlert) <=> (active[c] = NoAlert)
    <2>1. CASE active[c].held
      <3>1. active'[c] = a /\ a \in Alerts /\ a.held = FALSE /\ a.rc = active[c].rc /\ a.state = active[c].state
        BY <1>1, <1>2, <1>3, <1>4, <2>1 DEF Alerts
      <3>2. a # NoAlert
        BY <3>1, AlertFields
      <3>3. QED
        BY <1>1, <1>2, <1>3, <1>4, <2>1, <3>1, <3>2
    <2>2. CASE ~active[c].held
      BY <1>1, <2>2
    <2>3. QED
      BY <2>1, <2>2
  <1> HIDE DEF a
  <1>6. /\ excused \subseteq excused' /\ Contended' \subseteq excused'
        /\ Grouped' = Grouped /\ Base' = Base
    BY <1>1, ExcuseFacts DEF Grouped, Base
  <1>7. /\ unholding'["held"] = {c}
        /\ \A u \in Tasks \ {"held"} : unholding'[u] = unholding[u]
    BY <1>1, <1>2, <1>3
  <1>8. \A u \in Tasks \ {"held"} : At(u, c)' => c \in excused'
    <2>1. At("held", c)'
      BY <1>7 DEF At
    <2>2. QED
      BY <1>2, <1>6, <2>1, Met
  <1>9. \A d \in Checks : IsOpen(d)' = IsOpen(d) /\ active'[d].rc = active[d].rc
    BY <1>5 DEF IsOpen
  <1>10. CallInv'
    <2>1. \A n \in Nodes : call.check = Liveness(n) => (active'[call.check].held => active[call.check].held)
      BY <1>5, CheckOf
    <2>2. QED
      BY <1>1, <1>6, <2>1 DEF IInv, CallInv, Alerting
  <1>11. OrderInv'
    BY <1>1, <1>2, <1>7 DEF IInv, OrderInv, Tasks
  <1>12. LiveInv' /\ UnloadedInv' /\ MeetInv'
    BY <1>1, <1>6 DEF IInv, LiveInv, UnloadedInv, MeetInv
  <1>13. HoldInv'
    <2>1. \A d : Closing(d)' = Closing(d)
      BY <1>1 DEF Closing
    <2>2. HalfDone \subseteq HalfDone' /\ HalfDone' \subseteq HalfDone \cup {c} /\ c \in HalfDone'
      BY <1>1, <1>2, <1>7, HalfDoneIs
    <2>3. ASSUME NEW d \in Checks, active'[d].held
          PROVE  /\ IsLiveness(d) /\ active'[d].state = "unreachable"
                 /\ \/ d \in excused'
                    \/ active'[d].rc = NoNode /\ (tracker'[d].committed = "unreachable" \/ Closing(d)')
      BY <1>1, <1>5, <1>6, <2>1, <2>3 DEF IInv, HoldInv
    <2>4. \A d \in held' \cup HalfDone' \cup look'.snap : IsLiveness(d)
      BY <1>1, <1>2, <2>2 DEF IInv, HoldInv
    <2>5. \A d \in Checks \ (HalfDone' \cup excused') : d \in held' <=> active'[d].held
      BY <1>1, <1>5, <1>6, <2>2 DEF IInv, HoldInv
    <2>6. ASSUME NEW d \in holding' \ excused' PROVE active'[d].held
      <3>1. d # c /\ d \in Checks
        <4>1. d \in Checks
          BY <1>1, <2>6 DEF IInv, Shapes
        <4>2. ASSUME d = c PROVE FALSE
          <5>1. At("ingest", c)'
            BY <2>6, <4>2 DEF At
          <5>2. "ingest" \in Tasks \ {"held"}
            BY DEF Tasks
          <5>3. QED
            BY <1>8, <2>6, <4>2, <5>1, <5>2
        <4>3. QED
          BY <4>1, <4>2
      <3>2. QED
        BY <1>1, <1>5, <1>6, <2>6, <3>1 DEF IInv, HoldInv
    <2>7. ASSUME NEW u \in Tasks, NEW d \in unholding'[u] \ excused' PROVE ~active'[d].held
      BY <1>3, <1>5, <1>6, <1>7, <2>7 DEF IInv, HoldInv
    <2>8. QED
      BY <1>2, <2>3, <2>4, <2>5, <2>6, <2>7 DEF HoldInv
  <1>14. PendingInv'
    <2> SUFFICES ASSUME NEW t \in Tasks, NEW x \in todo[t]
                 PROVE  /\ \A y \in todo[t] : y.check = x.check => y = x
                        /\ x.rc = Judged(x.check, view'[t].down, view'[t].grouped)
                        /\ \/ x.check \in excused'
                           \/ /\ view'[t].down = down' /\ view'[t].grouped = Grouped'
                              /\ IsOpen(x.check)' => x.alert.rc = active'[x.check].rc
                              /\ x.alert.held => x.alert.rc = NoNode
                              /\ active'[x.check].held => x.alert.held
                        /\ IsLiveness(x.check) \/ (t = "ingest" /\ x.alert = active'[x.check])
      BY <1>1 DEF PendingInv
    <2>1. x.check \in Checks /\ (~IsLiveness(x.check) => x.check # c)
      BY <1>2, PendingFields DEF IInv, Shapes
    <2>2. active'[x.check].held => active[x.check].held
      BY <1>5, <2>1
    <2>3. QED
      BY <1>1, <1>5, <1>6, <1>9, <2>1, <2>2 DEF IInv, PendingInv
  <1>15. OutageInv' /\ ReleaseInv'
    <2>1. \A d : Attribution(d)' = Attribution(d) /\ Awaits(d)' = Awaits(d)
      BY <1>1, <1>6, JudgedNext DEF Attribution, Awaits
    <2>2. \A n : Swept(n)' = Swept(n) /\ SweptOwn(n)' = SweptOwn(n)
      BY <1>1, <1>6 DEF Swept, SweptOwn
    <2>3. OutageInv'
      BY <1>1, <1>6, <1>9, <2>1, <2>2, CheckOf DEF IInv, OutageInv
    <2>4. ReleaseInv'
      BY <1>1, <1>9, <2>1, <2>2, CheckOf DEF IInv, ReleaseInv
    <2>5. QED
      BY <2>3, <2>4
  <1>16. QED
    BY <1>10, <1>11, <1>12, <1>13, <1>14, <1>15 DEF IInv

LEMMA LookInv ==
    ASSUME IInv, TypeOK', Shapes', NEW t \in Tasks, Look(t)
    PROVE  IInv'
  <1>1. /\ view[t].step = "look" /\ (t = "ingest" => holding = {})
        /\ view' = [view EXCEPT ![t] = [view[t] EXCEPT !.step = "snap", !.down = down, !.grouped = Grouped]]
        /\ UNCHANGED <<tracker, live, down, active, held, releasing, cfg, regrouped, call, todo, holding,
                       unholding, look>>
        /\ Excuse
    BY DEF Look, engine, config
  <1>2. view \in [Tasks -> Views]
    BY DEF IInv, Shapes
  <1>3. /\ \A u \in Tasks \ {t} : view'[u] = view[u]
        /\ view'[t].step = "snap" /\ view'[t].changed = view[t].changed
        /\ view'[t].down = down /\ view'[t].grouped = Grouped
    BY <1>1, <1>2 DEF Views
  <1>4. view[t] # NoView /\ todo[t] = {} /\ t # "held"
    BY <1>1, Nothing DEF IInv, OrderInv
  <1>5. excused \subseteq excused' /\ Contended' \subseteq excused' /\ Grouped' = Grouped /\ Base' = Base
    BY <1>1, ExcuseFacts DEF Grouped, Base
  <1>6. CallInv'
    BY <1>1, <1>5 DEF IInv, CallInv, Alerting
  <1>7. OrderInv'
    <2>1. call # NoCall => t # "ingest"
      BY <1>4 DEF IInv, OrderInv
    <2>2. \A u \in Tasks : /\ todo'[u] # {} => view'[u].step = "each"
                           /\ view'[u].step = "none" => view'[u] = NoView
      BY <1>1, <1>3, <1>4 DEF IInv, OrderInv
    <2>3. view'["config"].changed = NoNode /\ view'["held"] = NoView
      BY <1>3, <1>4 DEF IInv, OrderInv, Tasks
    <2>4. call' # NoCall => view'["ingest"] = NoView
      BY <1>1, <1>3, <2>1 DEF IInv, OrderInv, Tasks
    <2>5. /\ view'["ingest"].step = "look" \/ view'["ingest"] = NoView \/ view'["ingest"].down = down'
          /\ view'["ingest"].step \in {"snap", "each"} => holding' = {}
      BY <1>1, <1>3 DEF IInv, OrderInv, Tasks
    <2>6. QED
      BY <1>1, <2>2, <2>3, <2>4, <2>5 DEF IInv, OrderInv
  <1>8. LiveInv' /\ UnloadedInv' /\ MeetInv'
    BY <1>1, <1>5 DEF IInv, LiveInv, UnloadedInv, MeetInv
  <1>9. HoldInv'
    BY <1>1, <1>5 DEF IInv, HoldInv, HalfDone, Closing
  <1>10. PendingInv'
    <2> SUFFICES ASSUME NEW u \in Tasks, NEW x \in todo[u]
                 PROVE  /\ \A y \in todo[u] : y.check = x.check => y = x
                        /\ x.rc = Judged(x.check, view'[u].down, view'[u].grouped)
                        /\ \/ x.check \in excused'
                           \/ /\ view'[u].down = down' /\ view'[u].grouped = Grouped'
                              /\ IsOpen(x.check)' => x.alert.rc = active'[x.check].rc
                              /\ x.alert.held => x.alert.rc = NoNode
                              /\ active'[x.check].held => x.alert.held
                        /\ IsLiveness(x.check) \/ (u = "ingest" /\ x.alert = active'[x.check])
      BY <1>1 DEF PendingInv
    <2>1. view'[u] = view[u]
      BY <1>3, <1>4
    <2>2. /\ \A y \in todo[u] : y.check = x.check => y = x
          /\ x.rc = Judged(x.check, view[u].down, view[u].grouped)
          /\ \/ x.check \in excused
             \/ /\ view[u].down = down /\ view[u].grouped = Grouped
                /\ IsOpen(x.check) => x.alert.rc = active[x.check].rc
                /\ x.alert.held => x.alert.rc = NoNode
                /\ active[x.check].held => x.alert.held
          /\ IsLiveness(x.check) \/ (u = "ingest" /\ x.alert = active[x.check])
      BY DEF IInv, PendingInv
    <2>3. IsOpen(x.check)' = IsOpen(x.check)
      BY <1>1 DEF IsOpen
    <2>4. QED
      BY <1>1, <1>5, <2>1, <2>2, <2>3
  <1>11. \A c : Attribution(c)' = Attribution(c) /\ Awaits(c)' = Awaits(c)
    BY <1>1, <1>5, JudgedNext DEF Attribution, Awaits
  <1>12. \A n : (Swept(n) => Swept(n)') /\ (SweptOwn(n) => SweptOwn(n)')
    <2>1. ASSUME NEW n, Swept(n) PROVE Swept(n)'
      BY <1>1, <1>3, <1>5, <2>1 DEF Swept
    <2>2. ASSUME NEW n, SweptOwn(n) PROVE SweptOwn(n)'
      BY <1>1, <1>3, <2>2 DEF SweptOwn, Tasks
    <2>3. QED
      BY <2>1, <2>2
  <1>13. OutageInv' /\ ReleaseInv'
    BY <1>1, <1>5, <1>11, <1>12 DEF IInv, OutageInv, ReleaseInv, IsOpen
  <1>14. QED
    BY <1>6, <1>7, <1>8, <1>9, <1>10, <1>13 DEF IInv

LEMMA SnapInv ==
    ASSUME IInv, TypeOK', Shapes', NEW t \in Tasks, Snap(t)
    PROVE  IInv'
  <1> DEFINE found == Candidates(view[t].changed, view[t].down, active, view[t].grouped)
  <1>1. /\ view[t].step = "snap"
        /\ todo' = [todo EXCEPT ![t] = found]
        /\ view' = IF found = {} THEN [view EXCEPT ![t] = NoView]
                   ELSE [view EXCEPT ![t] = [view[t] EXCEPT !.step = "each"]]
        /\ UNCHANGED <<tracker, live, down, active, held, releasing, cfg, regrouped, call, holding,
                       unholding, look>>
        /\ Excuse
    BY DEF Snap, engine, config
  <1>2. view \in [Tasks -> Views] /\ todo \in [Tasks -> SUBSET Pending]
    BY DEF IInv, Shapes
  <1>3. /\ \A u \in Tasks \ {t} : view'[u] = view[u] /\ todo'[u] = todo[u]
        /\ todo'[t] = found
        /\ found = {} => view'[t] = NoView
        /\ found # {} => /\ view'[t].step = "each" /\ view'[t].changed = view[t].changed
                         /\ view'[t].down = view[t].down /\ view'[t].grouped = view[t].grouped
    BY <1>1, <1>2 DEF Views
  <1>4. view[t] # NoView /\ todo[t] = {} /\ t # "held"
    BY <1>1, Nothing DEF IInv, OrderInv
  <1>5. /\ excused \subseteq excused' /\ Contended' \subseteq excused' /\ Grouped' = Grouped /\ Base' = Base
        /\ \A u \in Tasks : \A x \in todo'[u] :
              view'[u].down # down' \/ view'[u].grouped # Grouped' => x.check \in excused'
    BY <1>1, ExcuseFacts DEF Grouped, Base
  <1>6. \A x \in found :
           /\ x.check \in Checks /\ IsOpen(x.check) /\ x.alert = active[x.check]
           /\ x.rc = Judged(x.check, view[t].down, view[t].grouped)
           /\ ~IsLiveness(x.check) => NodeOf(x.check) = view[t].changed
           /\ \A y \in found : y.check = x.check => y = x
    BY CandidatesSound DEF IsOpen
  <1>7. \A c \in Checks :
           IsOpen(c) /\ (IF IsLiveness(c)
                         THEN /\ NodeOf(c) # view[t].changed
                              /\ Judged(c, view[t].down, view[t].grouped) # NoNode \/ active[c].rc # NoNode
                         ELSE NodeOf(c) = view[t].changed)
           => \E x \in found : x.check = c
    BY CandidatesComplete DEF IsOpen
  <1> HIDE DEF found
  <1>8. CallInv'
    BY <1>1, <1>5 DEF IInv, CallInv, Alerting
  <1>9. OrderInv'
    <2>1. call # NoCall => t # "ingest"
      BY <1>4 DEF IInv, OrderInv
    <2>2. \A u \in Tasks : /\ todo'[u] # {} => view'[u].step = "each"
                           /\ view'[u].step = "none" => view'[u] = NoView
      BY <1>1, <1>3 DEF IInv, OrderInv
    <2>3. view'["config"].changed = NoNode /\ view'["held"] = NoView
      BY <1>3, <1>4, Nothing DEF IInv, OrderInv, Tasks
    <2>4. call' # NoCall => view'["ingest"] = NoView
      BY <1>1, <1>3, <2>1 DEF IInv, OrderInv, Tasks
    <2>5. /\ view'["ingest"].step = "look" \/ view'["ingest"] = NoView \/ view'["ingest"].down = down'
          /\ view'["ingest"].step \in {"snap", "each"} => holding' = {}
      <3>1. CASE t = "ingest"
        <4>1. view[t].down = down /\ holding = {}
          BY <1>1, <1>4, <3>1 DEF IInv, OrderInv
        <4>2. QED
          BY <1>1, <1>3, <3>1, <4>1
      <3>2. CASE t # "ingest"
        BY <1>1, <1>3, <3>2 DEF IInv, OrderInv, Tasks
      <3>3. QED
        BY <3>1, <3>2
    <2>6. QED
      BY <1>1, <2>2, <2>3, <2>4, <2>5 DEF IInv, OrderInv
  <1>10. LiveInv' /\ UnloadedInv' /\ MeetInv'
    BY <1>1, <1>5 DEF IInv, LiveInv, UnloadedInv, MeetInv
  <1>11. HoldInv'
    BY <1>1, <1>5 DEF IInv, HoldInv, HalfDone, Closing
  <1>12. PendingInv'
    <2> SUFFICES ASSUME NEW u \in Tasks, NEW x \in todo'[u]
                 PROVE  /\ \A y \in todo'[u] : y.check = x.check => y = x
                        /\ x.rc = Judged(x.check, view'[u].down, view'[u].grouped)
                        /\ \/ x.check \in excused'
                           \/ /\ view'[u].down = down' /\ view'[u].grouped = Grouped'
                              /\ IsOpen(x.check)' => x.alert.rc = active'[x.check].rc
                              /\ x.alert.held => x.alert.rc = NoNode
                              /\ active'[x.check].held => x.alert.held
                        /\ IsLiveness(x.check) \/ (u = "ingest" /\ x.alert = active'[x.check])
      BY DEF PendingInv
    <2>1. CASE u # t
      BY <1>1, <1>3, <1>5, <2>1 DEF IInv, PendingInv, IsOpen
    <2>2. CASE u = t
      <3>1. x \in found /\ found # {}
        BY <1>3, <2>2
      <3>2. x.check \in excused' \/ (x.alert.held => x.alert.rc = NoNode)
        BY <1>5, <1>6, <3>1 DEF IInv, HoldInv
      <3>3. IsLiveness(x.check) \/ u = "ingest"
        <4>1. ASSUME u # "ingest", ~IsLiveness(x.check) PROVE FALSE
          <5>1. u = "config" /\ view[t].changed = NoNode
            BY <1>4, <2>2, <4>1 DEF IInv, OrderInv, Tasks
          <5>2. NodeOf(x.check) \in Nodes /\ NodeOf(x.check) = view[t].changed
            BY <1>6, <3>1, <4>1, CheckCases
          <5>3. QED
            BY <5>1, <5>2, GraphAssumption
        <4>2. QED
          BY <4>1
      <3>4. x.check \in excused' \/ (view'[u].down = down' /\ view'[u].grouped = Grouped')
        BY <1>5
      <3>5. QED
        BY <1>1, <1>3, <1>6, <2>2, <3>1, <3>2, <3>3, <3>4
    <2>3. QED
      BY <2>1, <2>2
  <1>13. \A c : Attribution(c)' = Attribution(c) /\ (Awaits(c) => Awaits(c)')
    <2>1. \A u \in Tasks : todo[u] \subseteq todo'[u]
      BY <1>3, <1>4
    <2>2. QED
      BY <1>1, <1>5, <2>1, JudgedNext DEF Attribution, Awaits
  <1>14. OutageInv'
    <2> SUFFICES ASSUME regrouped', \A m \in Nodes : live'[m] # "maintenance",
                        NEW m \in Nodes, IsOpen(Liveness(m))', Liveness(m) \notin excused'
                 PROVE  \/ active'[Liveness(m)].rc = Attribution(Liveness(m))'
                        \/ Awaits(Liveness(m))' \/ Swept(m)' \/ call'.check = Liveness(m)
      BY DEF OutageInv
    <2>1. /\ Liveness(m) \in Checks /\ IsLiveness(Liveness(m)) /\ NodeOf(Liveness(m)) = m
          /\ IsOpen(Liveness(m)) /\ Liveness(m) \notin excused
      BY <1>1, <1>5, CheckOf DEF IsOpen
    <2>2. \/ active[Liveness(m)].rc = Attribution(Liveness(m))
          \/ Awaits(Liveness(m)) \/ Swept(m) \/ call.check = Liveness(m)
      BY <1>1, <2>1 DEF IInv, OutageInv
    <2>3. CASE view[t].changed # m /\ view[t].down = down /\ view[t].grouped = Grouped
      <3>1. CASE \E x \in found : x.check = Liveness(m)
        BY <1>3, <3>1 DEF Awaits
      <3>2. CASE ~\E x \in found : x.check = Liveness(m)
        <4>1. Judged(Liveness(m), down, Grouped) = NoNode /\ active[Liveness(m)].rc = NoNode
          BY <1>7, <2>1, <2>3, <3>2
        <4>2. QED
          BY <1>1, <1>13, <4>1 DEF Attribution
      <3>3. QED
        BY <3>1, <3>2
    <2>4. CASE ~(view[t].changed # m /\ view[t].down = down /\ view[t].grouped = Grouped)
      <3>1. Swept(m) => Swept(m)'
        BY <1>1, <1>3, <1>5, <2>4 DEF Swept
      <3>2. QED
        BY <1>1, <1>13, <2>2, <3>1
    <2>5. QED
      BY <2>3, <2>4
  <1>15. ReleaseInv'
    <2> SUFFICES ASSUME NEW m \in Readers
                 PROVE  SweptOwn(m) /\ IsOpen(Reading(m)) => Awaits(Reading(m))' \/ SweptOwn(m)'
      BY <1>1, <1>13 DEF IInv, ReleaseInv, IsOpen
    <2>1. Reading(m) \in Checks /\ ~IsLiveness(Reading(m)) /\ NodeOf(Reading(m)) = m
      BY CheckOf
    <2>2. CASE t = "ingest" /\ view[t].changed = m
      <3>1. IsOpen(Reading(m)) => \E x \in found : x.check = Reading(m)
        BY <1>7, <2>1, <2>2
      <3>2. QED
        BY <1>3, <3>1 DEF Awaits
    <2>3. CASE ~(t = "ingest" /\ view[t].changed = m)
      BY <1>1, <1>3, <2>3 DEF SweptOwn, Tasks
    <2>4. QED
      BY <2>2, <2>3
  <1>16. QED
    BY <1>8, <1>9, <1>10, <1>11, <1>12, <1>14, <1>15 DEF IInv

-----------------------------------------------------------------------------
(* One alert of a reattribution.                                            *)

(* What the step does to the alert of x, in the terms the invariant is in.  *)
RollsUp(t, x) ==
    /\ IsLiveness(x.check) /\ x.alert.held /\ x.rc # NoNode /\ IsOpen(x.check)
    /\ active' = [active EXCEPT ![x.check] = [active[x.check] EXCEPT !.rc = x.rc, !.held = FALSE]]
    /\ unholding' = [unholding EXCEPT ![t] = {x.check}]
    /\ releasing' = releasing

Stays(x) ==
    /\ UNCHANGED <<active, unholding>>
    /\ \/ /\ IsLiveness(x.check) /\ x.alert.held /\ (x.rc = NoNode \/ ~IsOpen(x.check))
          /\ releasing' = releasing
       \/ /\ ~(IsLiveness(x.check) /\ x.alert.held) /\ (x.rc = x.alert.rc \/ ~IsOpen(x.check))
          /\ ~(~IsLiveness(x.check) /\ x.rc = NoNode /\ x.alert.rc # NoNode)
          /\ releasing' = IF ~IsLiveness(x.check) /\ x.rc # NoNode
                          THEN [releasing EXCEPT ![x.check] = NoRelease] ELSE releasing

Releases(x) ==
    /\ ~IsLiveness(x.check) /\ x.rc = NoNode /\ x.alert.rc # NoNode
    /\ releasing' = [releasing EXCEPT ![x.check] = [on |-> TRUE, n |-> 0]]
    /\ UNCHANGED <<active, unholding>>

Moves(x) ==
    /\ ~(IsLiveness(x.check) /\ x.alert.held) /\ x.rc # x.alert.rc /\ IsOpen(x.check)
    /\ ~(~IsLiveness(x.check) /\ x.rc = NoNode /\ x.alert.rc # NoNode)
    /\ active' = [active EXCEPT ![x.check] = [active[x.check] EXCEPT !.rc = x.rc]]
    /\ unholding' = unholding
    /\ releasing' = IF ~IsLiveness(x.check) /\ x.rc # NoNode
                    THEN [releasing EXCEPT ![x.check] = NoRelease] ELSE releasing

Attributed(t, x) ==
    /\ x \in todo[t] /\ unholding[t] = {}
    /\ RollsUp(t, x) \/ Stays(x) \/ Releases(x) \/ Moves(x)
    /\ todo' = [todo EXCEPT ![t] = @ \ {x}]
    /\ view' = IF todo[t] = {x} THEN [view EXCEPT ![t] = NoView] ELSE view
    /\ UNCHANGED <<tracker, live, down, held, cfg, regrouped, call, holding, look>>
    /\ Excuse

LEMMA ReattributeStep ==
    ASSUME NEW t \in Tasks, Reattribute(t)
    PROVE  \E x \in todo[t] : Attributed(t, x)
  <1>1. PICK x \in todo[t] :
          /\ unholding[t] = {}
          /\ ReattributeHeld(t, x) \/ ReattributeReleases(t, x) \/ ReattributeMoves(t, x)
          /\ todo' = [todo EXCEPT ![t] = @ \ {x}]
          /\ view' = IF todo[t] = {x} THEN [view EXCEPT ![t] = NoView] ELSE view
          /\ UNCHANGED <<tracker, live, down, held, cfg, regrouped, call, holding, look>>
          /\ Excuse
    BY DEF Reattribute, config
  <1>2. CASE ReattributeHeld(t, x)
    <2>1. RollsUp(t, x) \/ Stays(x)
      BY <1>2 DEF ReattributeHeld, RollsUp, Stays, Unlist
    <2>2. QED
      BY <1>1, <2>1 DEF Attributed
  <1>3. CASE ReattributeReleases(t, x)
    <2>1. Releases(x)
      BY <1>3 DEF ReattributeReleases, Releases
    <2>2. QED
      BY <1>1, <2>1 DEF Attributed
  <1>4. CASE ReattributeMoves(t, x)
    <2>1. Moves(x) \/ Stays(x)
      BY <1>4 DEF ReattributeMoves, Moves, Stays
    <2>2. QED
      BY <1>1, <2>1 DEF Attributed
  <1>5. QED
    BY <1>1, <1>2, <1>3, <1>4

(* A step changes the attribution of an open alert and takes its mark off,  *)
(* and opens and closes nothing.                                            *)
LEMMA AttributedAlert ==
    ASSUME IInv, NEW t \in Tasks, NEW x \in todo[t], Attributed(t, x)
    PROVE  /\ x.check \in Checks /\ x.alert \in Alerts
           /\ \A d \in Checks \ {x.check} : active'[d] = active[d] /\ releasing'[d] = releasing[d]
           /\ (active'[x.check] = NoAlert) <=> (active[x.check] = NoAlert)
           /\ active'[x.check].state = active[x.check].state
           /\ active'[x.check].held => active[x.check].held
           /\ RollsUp(t, x) => active'[x.check].rc = x.rc /\ ~active'[x.check].held
           /\ Moves(x) => active'[x.check].rc = x.rc
  <1>1. /\ x.check \in Checks /\ x.alert \in Alerts /\ x.rc \in Nodes \cup {NoNode}
        /\ active \in [Checks -> Alerts \cup {NoAlert}]
        /\ releasing \in [Checks -> [on : BOOLEAN, n : 0 .. Dwell]]
    BY PendingFields DEF IInv, Shapes, TypeOK
  <1>2. IsOpen(x.check) => active[x.check] \in Alerts
    BY <1>1 DEF IsOpen
  <1>3. \A d \in Checks \ {x.check} : active'[d] = active[d] /\ releasing'[d] = releasing[d]
    BY <1>1 DEF Attributed, RollsUp, Stays, Releases, Moves
  <1>4. CASE RollsUp(t, x)
    <2> DEFINE a == [active[x.check] EXCEPT !.rc = x.rc, !.held = FALSE]
    <2>1. active[x.check] \in Alerts /\ active[x.check] # NoAlert
      BY <1>2, <1>4 DEF RollsUp, IsOpen
    <2>2. a \in Alerts /\ a.rc = x.rc /\ a.held = FALSE /\ a.state = active[x.check].state
      BY <1>1, <2>1 DEF Alerts
    <2>3. a # NoAlert
      BY <2>2, AlertFields
    <2>4. active'[x.check] = a
      BY <1>1, <1>4 DEF RollsUp
    <2>5. ~Moves(x)
      BY <1>4 DEF RollsUp, Moves
    <2> HIDE DEF a
    <2>6. QED
      BY <1>1, <1>3, <2>1, <2>2, <2>3, <2>4, <2>5
  <1>5. CASE Moves(x)
    <2> DEFINE a == [active[x.check] EXCEPT !.rc = x.rc]
    <2>1. active[x.check] \in Alerts /\ active[x.check] # NoAlert
      BY <1>2, <1>5 DEF Moves, IsOpen
    <2>2. a \in Alerts /\ a.rc = x.rc /\ a.held = active[x.check].held /\ a.state = active[x.check].state
      BY <1>1, <2>1 DEF Alerts
    <2>3. a # NoAlert
      BY <2>2, AlertFields
    <2>4. active'[x.check] = a
      BY <1>1, <1>5 DEF Moves
    <2>5. ~RollsUp(t, x)
      BY <1>5 DEF RollsUp, Moves
    <2> HIDE DEF a
    <2>6. QED
      BY <1>1, <1>3, <2>1, <2>2, <2>3, <2>4, <2>5
  <1>6. CASE ~RollsUp(t, x) /\ ~Moves(x)
    BY <1>1, <1>3, <1>6 DEF Attributed, Stays, Releases
  <1>7. QED
    BY <1>4, <1>5, <1>6

LEMMA AttributedInv ==
    ASSUME IInv, TypeOK', Shapes', NEW t \in Tasks, NEW x \in todo[t], Attributed(t, x)
    PROVE  IInv'
  <1> DEFINE c == x.check
  <1>1. /\ unholding[t] = {}
        /\ RollsUp(t, x) \/ Stays(x) \/ Releases(x) \/ Moves(x)
        /\ todo' = [todo EXCEPT ![t] = @ \ {x}]
        /\ view' = IF todo[t] = {x} THEN [view EXCEPT ![t] = NoView] ELSE view
        /\ UNCHANGED <<tracker, live, down, held, cfg, regrouped, call, holding, look>>
    BY DEF Attributed
  <1>2. /\ c \in Checks /\ x.alert \in Alerts
        /\ \A d \in Checks \ {c} : active'[d] = active[d] /\ releasing'[d] = releasing[d]
        /\ (active'[c] = NoAlert) <=> (active[c] = NoAlert)
        /\ active'[c].state = active[c].state
        /\ active'[c].held => active[c].held
        /\ RollsUp(t, x) => active'[c].rc = x.rc /\ ~active'[c].held
        /\ Moves(x) => active'[c].rc = x.rc
    BY AttributedAlert
  <1>3. /\ view \in [Tasks -> Views] /\ todo \in [Tasks -> SUBSET Pending]
        /\ unholding \in [Tasks -> SUBSET Checks]
        /\ releasing \in [Checks -> [on : BOOLEAN, n : 0 .. Dwell]]
        /\ active \in [Checks -> Alerts \cup {NoAlert}]
    BY DEF IInv, Shapes, TypeOK
  <1>4. /\ \A u \in Tasks \ {t} : view'[u] = view[u] /\ todo'[u] = todo[u]
        /\ todo'[t] = todo[t] \ {x}
        /\ todo'[t] # {} => view'[t] = view[t]
        /\ view'[t] = view[t] \/ view'[t] = NoView
    BY <1>1, <1>3
  <1>5. view[t].step = "each" /\ view[t] # NoView /\ t # "held"
    BY Nothing DEF IInv, OrderInv
  <1>6. /\ excused \subseteq excused' /\ Contended' \subseteq excused' /\ Grouped' = Grouped /\ Base' = Base
    BY <1>1, ExcuseFacts DEF Attributed, Grouped, Base
  <1>7. \A u \in Tasks \ {t} : At(u, c) => c \in excused
    <2>1. At(t, c)
      BY DEF At
    <2>2. QED
      BY <2>1, Met DEF IInv, MeetInv
  <1>8. /\ \A y \in todo[t] : y.check = c => y = x
        /\ x.rc = Judged(c, view[t].down, view[t].grouped)
        /\ \/ c \in excused
           \/ /\ view[t].down = down /\ view[t].grouped = Grouped
              /\ IsOpen(c) => x.alert.rc = active[c].rc
              /\ x.alert.held => x.alert.rc = NoNode
              /\ active[c].held => x.alert.held
        /\ IsLiveness(c) \/ (t = "ingest" /\ x.alert = active[c])
    BY DEF IInv, PendingInv
  <1>9. \A d \in Checks : IsOpen(d)' = IsOpen(d) /\ (active'[d].held => active[d].held)
    BY <1>2 DEF IsOpen
  <1>10. /\ \A u \in Tasks \ {t} : unholding'[u] = unholding[u]
         /\ unholding'[t] = {} \/ (RollsUp(t, x) /\ unholding'[t] = {c})
    BY <1>1, <1>3 DEF RollsUp, Stays, Releases, Moves
  <1> HIDE DEF c
  <1>11. CallInv'
    <2>1. \A n \in Nodes : call.check = Liveness(n) => (active'[call.check].held => active[call.check].held)
      BY <1>9, CheckOf
    <2>2. QED
      BY <1>1, <1>6, <2>1 DEF IInv, CallInv, Alerting
  <1>12. OrderInv'
    <2>1. call # NoCall => t # "ingest"
      BY <1>5 DEF IInv, OrderInv
    <2>2. \A u \in Tasks : /\ todo'[u] # {} => view'[u].step = "each"
                           /\ view'[u].step = "none" => view'[u] = NoView
      BY <1>4, <1>5 DEF IInv, OrderInv
    <2>3. view'["config"].changed = NoNode /\ view'["held"] = NoView
      BY <1>4, <1>5, Nothing DEF IInv, OrderInv, Tasks
    <2>4. call' # NoCall => view'["ingest"] = NoView /\ holding' = {} /\ unholding'["ingest"] = {}
      BY <1>1, <1>4, <1>10, <2>1 DEF IInv, OrderInv, Tasks
    <2>5. /\ view'["ingest"].step = "look" \/ view'["ingest"] = NoView \/ view'["ingest"].down = down'
          /\ view'["ingest"].step \in {"snap", "each"} => holding' = {}
      BY <1>1, <1>4, Nothing DEF IInv, OrderInv, Tasks
    <2>6. look'.ready # <<>> => unholding'["held"] = {}
      BY <1>1, <1>5, <1>10 DEF IInv, OrderInv, Tasks
    <2>7. QED
      BY <2>2, <2>3, <2>4, <2>5, <2>6 DEF OrderInv
  <1>13. LiveInv' /\ UnloadedInv' /\ MeetInv'
    BY <1>1, <1>6 DEF IInv, LiveInv, UnloadedInv, MeetInv
  <1>14. HoldInv'
    <2>1. \A d : Closing(d)' = Closing(d)
      BY <1>1 DEF Closing
    <2>2. HalfDone \subseteq HalfDone' /\ HalfDone' \subseteq HalfDone \cup {c}
      BY <1>1, <1>10, HalfDoneIs
    <2>3. c \in HalfDone' \/ unholding' = unholding
      BY <1>1, <1>3, HalfDoneIs DEF RollsUp, Stays, Releases, Moves, c
    <2>4. ASSUME NEW d \in Checks, active'[d].held
          PROVE  /\ IsLiveness(d) /\ active'[d].state = "unreachable"
                 /\ \/ d \in excused'
                    \/ active'[d].rc = NoNode /\ (tracker'[d].committed = "unreachable" \/ Closing(d)')
      <3>1. /\ IsLiveness(d) /\ active[d].state = "unreachable"
            /\ d \in excused \/ (active[d].rc = NoNode /\ (tracker[d].committed = "unreachable" \/ Closing(d)))
        BY <1>9, <2>4 DEF IInv, HoldInv
      <3>2. CASE d # c
        BY <1>1, <1>2, <1>6, <2>1, <3>1, <3>2 DEF c
      <3>3. CASE d = c /\ c \in excused
        BY <1>2, <1>6, <3>1, <3>3 DEF c
      <3>4. CASE d = c /\ c \notin excused
        <4>1. x.alert.held /\ ~RollsUp(t, x) /\ ~Moves(x)
          BY <1>2, <1>8, <1>9, <2>4, <3>1, <3>4 DEF Moves, c
        <4>2. active' = active
          BY <1>1, <4>1 DEF Stays, Releases
        <4>3. QED
          BY <1>1, <2>1, <3>1, <3>4, <4>2
      <3>5. QED
        BY <3>2, <3>3, <3>4
    <2>5. \A d \in held' \cup HalfDone' \cup look'.snap : IsLiveness(d)
      <3>1. c \in HalfDone' \ HalfDone => IsLiveness(c)
        BY <1>1, <1>10, HalfDoneIs DEF RollsUp, c
      <3>2. QED
        BY <1>1, <2>2, <3>1 DEF IInv, HoldInv
    <2>6. ASSUME NEW d \in Checks \ (HalfDone' \cup excused') PROVE d \in held' <=> active'[d].held
      <3>1. d \in held <=> active[d].held
        BY <1>6, <2>2, <2>6 DEF IInv, HoldInv
      <3>2. active'[d].held = active[d].held
        <4>1. CASE d # c
          BY <1>2, <2>6, <4>1 DEF c
        <4>2. CASE d = c
          <5>1. ~RollsUp(t, x)
            <6>1. RollsUp(t, x) => unholding'[t] = {c}
              BY <1>3 DEF RollsUp, c
            <6>2. QED
              BY <2>6, <4>2, <6>1, HalfDoneIs
          <5>2. CASE Moves(x)
            <6>1. ~active[c].held
              BY <1>6, <1>8, <2>6, <4>2, <5>2 DEF Moves, IInv, HoldInv, c
            <6>2. active[c] \in Alerts \cup {NoAlert} /\ active'[c] \in Alerts \cup {NoAlert}
              BY <2>6, <4>2 DEF IInv, TypeOK
            <6>3. active[c].held \in BOOLEAN /\ active'[c].held \in BOOLEAN
              BY <6>2, AlertFields, NoAlertFields
            <6>4. QED
              BY <1>9, <4>2, <6>1, <6>3
          <5>3. CASE ~Moves(x)
            BY <1>1, <5>1, <5>3 DEF Stays, Releases
          <5>4. QED
            BY <5>2, <5>3
        <4>3. QED
          BY <4>1, <4>2
      <3>3. QED
        BY <1>1, <3>1, <3>2
    <2>7. ASSUME NEW d \in holding' \ excused' PROVE active'[d].held
      <3>1. active[d].held /\ d \in Checks /\ d \in holding /\ d \notin excused
        BY <1>1, <1>6, <2>7 DEF IInv, HoldInv, Shapes
      <3>2. t # "ingest"
        BY <1>5, <3>1 DEF IInv, OrderInv
      <3>3. d # c
        <4>1. At("ingest", d) /\ "ingest" \in Tasks \ {t}
          BY <3>1, <3>2 DEF At, Tasks
        <4>2. QED
          BY <1>7, <3>1, <4>1
      <3>4. QED
        BY <1>2, <3>1, <3>3 DEF c
    <2>8. ASSUME NEW u \in Tasks, NEW d \in unholding'[u] \ excused' PROVE ~active'[d].held
      <3>1. CASE u = t
        BY <1>2, <1>10, <2>8, <3>1 DEF c
      <3>2. CASE u # t
        BY <1>3, <1>6, <1>9, <1>10, <2>8, <3>2 DEF IInv, HoldInv
      <3>3. QED
        BY <3>1, <3>2
    <2>9. look'.ready # <<>> => IsLiveness(look'.ready[1])
      BY <1>1 DEF IInv, HoldInv
    <2>10. QED
      BY <2>4, <2>5, <2>6, <2>7, <2>8, <2>9 DEF HoldInv
  <1>15. PendingInv'
    <2> SUFFICES ASSUME NEW u \in Tasks, NEW y \in todo'[u]
                 PROVE  /\ \A z \in todo'[u] : z.check = y.check => z = y
                        /\ y.rc = Judged(y.check, view'[u].down, view'[u].grouped)
                        /\ \/ y.check \in excused'
                           \/ /\ view'[u].down = down' /\ view'[u].grouped = Grouped'
                              /\ IsOpen(y.check)' => y.alert.rc = active'[y.check].rc
                              /\ y.alert.held => y.alert.rc = NoNode
                              /\ active'[y.check].held => y.alert.held
                        /\ IsLiveness(y.check) \/ (u = "ingest" /\ y.alert = active'[y.check])
      BY DEF PendingInv
    <2>1. y \in todo[u] /\ todo'[u] \subseteq todo[u] /\ view'[u] = view[u]
      BY <1>4
    <2>2. y.check \in Checks
      BY <1>3, <2>1, PendingFields
    <2>3. y.check = c => c \in excused
      <3>1. CASE u = t
        BY <1>4, <1>8, <3>1
      <3>2. CASE u # t
        BY <1>7, <2>1, <3>2 DEF At
      <3>3. QED
        BY <3>1, <3>2
    <2>4. y.check = c => IsLiveness(y.check)
      <3>1. CASE u = t
        BY <1>4, <1>8, <3>1
      <3>2. CASE u # t
        BY <1>8, <2>1, <3>2 DEF IInv, PendingInv
      <3>3. QED
        BY <3>1, <3>2
    <2>5. /\ \A z \in todo[u] : z.check = y.check => z = y
          /\ y.rc = Judged(y.check, view[u].down, view[u].grouped)
          /\ \/ y.check \in excused
             \/ /\ view[u].down = down /\ view[u].grouped = Grouped
                /\ IsOpen(y.check) => y.alert.rc = active[y.check].rc
                /\ y.alert.held => y.alert.rc = NoNode
                /\ active[y.check].held => y.alert.held
          /\ IsLiveness(y.check) \/ (u = "ingest" /\ y.alert = active[y.check])
      BY <2>1 DEF IInv, PendingInv
    <2>6. CASE y.check = c
      BY <1>1, <1>6, <2>1, <2>3, <2>4, <2>5, <2>6
    <2>7. CASE y.check # c
      <3>1. active'[y.check] = active[y.check] /\ IsOpen(y.check)' = IsOpen(y.check)
        BY <1>2, <1>9, <2>2, <2>7 DEF c
      <3>2. QED
        BY <1>1, <1>6, <2>1, <2>5, <3>1
    <2>8. QED
      BY <2>6, <2>7
  <1>16. \A d : d # c => (Awaits(d) => Awaits(d)')
    <2>1. ASSUME NEW u \in Tasks, NEW y \in todo[u], y.check # c PROVE y \in todo'[u]
      BY <1>4, <2>1 DEF c
    <2>2. QED
      BY <2>1 DEF Awaits
  <1>17. \A n : (Swept(n) => Swept(n)') /\ (SweptOwn(n) => SweptOwn(n)')
    <2>1. \A u \in Tasks : view[u].step \in {"look", "snap"} => view'[u] = view[u]
      BY <1>4, <1>5
    <2>2. QED
      BY <1>1, <1>6, <2>1 DEF Swept, SweptOwn, Tasks
  <1>18. OutageInv'
    <2> SUFFICES ASSUME regrouped', \A m \in Nodes : live'[m] # "maintenance",
                        NEW m \in Nodes, IsOpen(Liveness(m))', Liveness(m) \notin excused'
                 PROVE  \/ active'[Liveness(m)].rc = Attribution(Liveness(m))'
                        \/ Awaits(Liveness(m))' \/ Swept(m)' \/ call'.check = Liveness(m)
      BY DEF OutageInv
    <2>1. Liveness(m) \in Checks /\ IsOpen(Liveness(m)) /\ Liveness(m) \notin excused
      BY <1>6, <1>9, CheckOf
    <2>2. Attribution(Liveness(m))' = Judged(Liveness(m), down, Grouped)
      BY <1>1, <1>6, JudgedNext
    <2>3. CASE Liveness(m) # c
      <3>1. \/ active[Liveness(m)].rc = Attribution(Liveness(m))
            \/ Awaits(Liveness(m)) \/ Swept(m) \/ call.check = Liveness(m)
        BY <1>1, <2>1 DEF IInv, OutageInv
      <3>2. active'[Liveness(m)] = active[Liveness(m)]
        BY <1>2, <2>1, <2>3 DEF c
      <3>3. QED
        BY <1>1, <1>16, <1>17, <2>2, <2>3, <3>1, <3>2 DEF Attribution
    <2>4. CASE Liveness(m) = c
      <3>1. x.rc = Judged(c, down, Grouped) /\ x.alert.rc = active[c].rc /\ IsLiveness(c) /\ IsOpen(c)
            /\ (x.alert.held => x.alert.rc = NoNode)
        BY <1>8, <2>1, <2>4, CheckOf
      <3>2. active'[c].rc = x.rc
        <4>1. CASE RollsUp(t, x) \/ Moves(x)
          BY <1>2, <4>1 DEF c
        <4>2. CASE Stays(x)
          BY <3>1, <4>2 DEF Stays, c
        <4>3. ~Releases(x)
          BY <3>1 DEF Releases, c
        <4>4. QED
          BY <1>1, <4>1, <4>2, <4>3
      <3>3. QED
        BY <2>2, <2>4, <3>1, <3>2
    <2>5. QED
      BY <2>3, <2>4
  <1>19. ReleaseInv'
    <2> SUFFICES ASSUME NEW m \in Readers
                 PROVE  LET d == Reading(m)
                        IN  /\ releasing'[d].on => IsOpen(d)' /\ (m \in down' => Awaits(d)' \/ SweptOwn(m)')
                            /\ (IsOpen(d)' /\ live'[m] # "maintenance") =>
                                  \/ Awaits(d)'
                                  \/ SweptOwn(m)'
                                  \/ IF m \in down' THEN active'[d].rc = m
                                     ELSE active'[d].rc # NoNode => releasing'[d].on
      BY DEF ReleaseInv
    <2> DEFINE d == Reading(m)
    <2>1. /\ d \in Checks /\ ~IsLiveness(d) /\ NodeOf(d) = m /\ IsOpen(d)' = IsOpen(d)
          /\ m \in Nodes /\ m # NoNode
      BY <1>9, CheckOf, GraphAssumption
    <2>2. /\ releasing[d].on => IsOpen(d) /\ (m \in down => Awaits(d) \/ SweptOwn(m))
          /\ (IsOpen(d) /\ live[m] # "maintenance") =>
                \/ Awaits(d)
                \/ SweptOwn(m)
                \/ IF m \in down THEN active[d].rc = m
                   ELSE active[d].rc # NoNode => releasing[d].on
      BY DEF IInv, ReleaseInv
    <2>3. CASE d # c
      <3>1. active'[d] = active[d] /\ releasing'[d] = releasing[d]
        BY <1>2, <2>1, <2>3 DEF c
      <3>2. (Awaits(d) => Awaits(d)') /\ (SweptOwn(m) => SweptOwn(m)')
        BY <1>16, <1>17, <2>3
      <3> HIDE DEF d
      <3>3. QED
        BY <1>1, <2>1, <2>2, <3>1, <3>2 DEF d
    <2>4. CASE d = c
      <3>1. t = "ingest" /\ x.alert = active[c] /\ IsOpen(c) /\ view[t].down = down
        <4>1. t = "ingest" /\ x.alert = active[c]
          BY <1>8, <2>1, <2>4
        <4>2. IsOpen(c)
          BY <1>2, <4>1, AlertFields DEF IsOpen, c
        <4>3. QED
          BY <1>5, <4>1, <4>2 DEF IInv, OrderInv
      <3>2. x.rc = IF m \in down THEN m ELSE NoNode
        BY <1>8, <2>1, <2>4, <3>1 DEF Judged
      <3>3. c \in Checks /\ ~IsLiveness(c)
        BY <2>1, <2>4
      <3>4. CASE Releases(x)
        <4>1. releasing'[c].on /\ x.rc = NoNode
          BY <1>3, <3>3, <3>4 DEF Releases, c
        <4>2. m \notin down
          BY <2>1, <3>2, <4>1
        <4>3. QED
          BY <1>1, <2>1, <2>4, <3>1, <4>1, <4>2
      <3>5. CASE Stays(x) \/ Moves(x)
        <4>1. ~RollsUp(t, x) /\ active'[c].rc = x.rc
          BY <1>2, <3>1, <3>3, <3>5 DEF Stays, Moves, RollsUp, c
        <4>2. CASE m \in down
          <5>1. x.rc = m /\ releasing'[c] = NoRelease
            BY <1>3, <2>1, <3>2, <3>3, <3>5, <4>2 DEF Stays, Moves, c
          <5>2. QED
            BY <1>1, <2>1, <2>4, <3>1, <4>1, <4>2, <5>1 DEF NoRelease
        <4>3. CASE m \notin down
          <5>1. x.rc = NoNode
            BY <3>2, <4>3
          <5>2. QED
            BY <1>1, <2>1, <2>4, <3>1, <4>1, <4>3, <5>1
        <4>4. QED
          BY <4>2, <4>3
      <3>6. QED
        BY <1>1, <3>3, <3>4, <3>5 DEF RollsUp, c
    <2>5. QED
      BY <2>3, <2>4
  <1>20. QED
    BY <1>11, <1>12, <1>13, <1>14, <1>15, <1>18, <1>19 DEF IInv

LEMMA ReattributeInv ==
    ASSUME IInv, TypeOK', Shapes', NEW t \in Tasks, Reattribute(t)
    PROVE  IInv'
  BY ReattributeStep, AttributedInv

-----------------------------------------------------------------------------
(* An observation of a threshold check.                                     *)

(* A reading touches its own check, which is never held.                    *)
Read(n) ==
    LET c == Reading(n)
    IN  /\ call = NoCall /\ view["ingest"] = NoView /\ todo["ingest"] = {}
        /\ \A d \in Checks \ {c} : /\ active'[d] = active[d]
                                   /\ tracker'[d] = tracker[d]
                                   /\ releasing'[d] = releasing[d]
        /\ ~active'[c].held
        /\ UNCHANGED <<live, down, held, cfg, regrouped, call, view, todo, holding, unholding, look>>
        /\ excused \subseteq excused' /\ Contended' \subseteq excused'

(* What it leaves of the alert and of the wait for its release.             *)
Reads(n) ==
    LET c == Reading(n)
    IN  \/ /\ ~releasing'[c].on
           /\ IsOpen(c)' => active'[c].rc = IF n \in down THEN n ELSE NoNode
        \/ /\ IsOpen(c)' <=> IsOpen(c)
           /\ ~releasing[c].on => ~releasing'[c].on /\ active'[c].rc = active[c].rc
           /\ releasing[c].on /\ IsOpen(c) /\ active'[c].rc # NoNode => releasing'[c].on

LEMMA ReadingParts ==
    ASSUME IInv, NEW n \in Readers, NEW r \in Readings, ObserveReading(n, r)
    PROVE  \E raw \in States :
             /\ tracker' = [tracker EXCEPT ![Reading(n)] = ObserveSample(tracker[Reading(n)], raw)]
             /\ ReadingCommits(n, Reading(n), raw, r) \/ ReadingHolds(Reading(n), raw, r)
             /\ call = NoCall /\ view["ingest"] = NoView /\ todo["ingest"] = {}
             /\ UNCHANGED <<live, down, held, cfg, regrouped, call, view, todo, look>>
             /\ Excuse
  <1>1. n \in Nodes /\ Raw(n, r.state) \in States
    BY GraphAssumption, RawType DEF IInv, States
  <1>2. QED
    BY <1>1 DEF ObserveReading, Idle, Returned, config, sweeps

LEMMA CommitsReads ==
    ASSUME IInv, NEW n \in Readers, NEW raw \in States, NEW r \in Readings,
           ReadingCommits(n, Reading(n), raw, r)
    PROVE  /\ \A d \in Checks \ {Reading(n)} : active'[d] = active[d] /\ releasing'[d] = releasing[d]
           /\ ~active'[Reading(n)].held /\ UNCHANGED <<holding, unholding>>
           /\ Reads(n)
  <1> DEFINE c == Reading(n)
  <1>1. /\ c \in Checks /\ ~active[c].held
        /\ active \in [Checks -> Alerts \cup {NoAlert}] /\ DOMAIN releasing = Checks
    BY CheckOf DEF IInv, HoldInv, TypeOK
  <1>2. releasing' = [releasing EXCEPT ![c] = NoRelease]
    BY DEF ReadingCommits
  <1>3. ~releasing'[c].on /\ \A d \in Checks \ {c} : releasing'[d] = releasing[d]
    BY <1>1, <1>2 DEF NoRelease
  <1> HIDE DEF c
  <1>4. CASE IsProblem(raw)
    <2> DEFINE a == [state |-> raw, side |-> r.side, held |-> FALSE, rc |-> IF n \in down THEN n ELSE NoNode]
    <2>1. active' = [active EXCEPT ![c] = a] /\ UNCHANGED <<holding, unholding>>
      BY <1>4 DEF ReadingCommits, c
    <2>2. a.held = FALSE /\ a.rc = IF n \in down THEN n ELSE NoNode
      OBVIOUS
    <2> HIDE DEF a
    <2>3. active'[c] = a /\ \A d \in Checks \ {c} : active'[d] = active[d]
      BY <1>1, <2>1
    <2>4. QED
      BY <1>3, <2>1, <2>2, <2>3 DEF Reads, c
  <1>5. CASE ~IsProblem(raw)
    <2>1. active' = [active EXCEPT ![c] = NoAlert] /\ UNCHANGED <<holding, unholding>>
      BY <1>1, <1>5 DEF ReadingCommits, Close, c
    <2>2. active'[c] = NoAlert /\ \A d \in Checks \ {c} : active'[d] = active[d]
      BY <1>1, <2>1
    <2>3. QED
      BY <1>3, <2>1, <2>2, NoAlertFields DEF Reads, IsOpen, c
  <1>6. QED
    BY <1>4, <1>5

LEMMA HoldsReads ==
    ASSUME IInv, NEW n \in Readers, NEW raw \in States, NEW r \in Readings,
           ReadingHolds(Reading(n), raw, r)
    PROVE  /\ \A d \in Checks \ {Reading(n)} : active'[d] = active[d] /\ releasing'[d] = releasing[d]
           /\ ~active'[Reading(n)].held /\ UNCHANGED <<holding, unholding>>
           /\ Reads(n)
  <1> DEFINE c == Reading(n)
             turns == OtherSide(c, raw, r) /\ sidePending[c] + 1 >= Dwell
             released == /\ releasing[c].on /\ IsProblem(raw) /\ releasing[c].n + 1 >= Dwell
                         /\ IsOpen(c) /\ active[c].rc # NoNode
             s == IF turns THEN r.side ELSE active[c].side
             v == IF released THEN NoNode ELSE active[c].rc
             a == [active[c] EXCEPT !.side = s, !.rc = v]
  <1>1. /\ c \in Checks /\ ~active[c].held /\ active[c] \in Alerts \cup {NoAlert}
        /\ active \in [Checks -> Alerts \cup {NoAlert}]
        /\ releasing \in [Checks -> [on : BOOLEAN, n : 0 .. Dwell]]
    BY CheckOf DEF IInv, HoldInv, TypeOK
  <1>2. /\ active' = [active EXCEPT ![c] = a] /\ UNCHANGED <<holding, unholding>>
        /\ releasing' = [releasing EXCEPT ![c] = ReleaseAfter(c, raw)]
    BY DEF ReadingHolds
  <1>3. /\ active'[c] = a /\ releasing'[c] = ReleaseAfter(c, raw)
        /\ \A d \in Checks \ {c} : active'[d] = active[d] /\ releasing'[d] = releasing[d]
    BY <1>1, <1>2
  <1>4. a.held = active[c].held /\ a.rc = v
    BY <1>1 DEF Alerts, NoAlert
  <1>5. (a = NoAlert) <=> (active[c] = NoAlert)
    <2>1. CASE active[c] = NoAlert
      <3>1. ~turns /\ ~released
        BY <2>1 DEF OtherSide, IsOpen
      <3>2. a = NoAlert
        BY <2>1, <3>1 DEF NoAlert
      <3>3. QED
        BY <2>1, <3>2
    <2>2. CASE active[c] \in Alerts
      <3>1. a.state = active[c].state /\ active[c].state \in States
        BY <2>2 DEF Alerts
      <3>2. a # NoAlert
        BY <3>1, NoAlertFields DEF States
      <3>3. QED
        BY <2>2, <3>2, NoAlertFields
    <2>3. QED
      BY <1>1, <2>1, <2>2
  <1>6. ~releasing[c].on => ~ReleaseAfter(c, raw).on /\ ~released
    BY DEF ReleaseAfter, NoRelease
  <1>7. releasing[c].on /\ IsOpen(c) /\ v # NoNode => ReleaseAfter(c, raw).on
    <2> SUFFICES ASSUME releasing[c].on, IsOpen(c), v # NoNode
                 PROVE  ReleaseAfter(c, raw).on
      OBVIOUS
    <2>1. active[c].rc # NoNode /\ ~(IsProblem(raw) /\ releasing[c].n + 1 >= Dwell)
      OBVIOUS
    <2>2. releasing[c].n \in 0 .. Dwell
      BY <1>1
    <2>3. CASE ~IsProblem(raw)
      BY <2>3 DEF ReleaseAfter
    <2>4. CASE IsProblem(raw)
      BY <2>1, <2>2, <2>4, DwellAssumption DEF ReleaseAfter
    <2>5. QED
      BY <2>3, <2>4
  <1>8. (IsOpen(c)' <=> IsOpen(c)) /\ active'[c].rc = v
    BY <1>3, <1>4, <1>5 DEF IsOpen
  <1>9. ~releasing[c].on => v = active[c].rc
    BY <1>6
  <1> HIDE DEF a, v, s, turns, released
  <1>10. Reads(n)
    BY <1>3, <1>6, <1>7, <1>8, <1>9 DEF Reads
  <1>11. QED
    BY <1>1, <1>2, <1>3, <1>4, <1>10

LEMMA ReadingFacts ==
    ASSUME IInv, NEW n \in Readers, NEW r \in Readings, ObserveReading(n, r)
    PROVE  Read(n) /\ Reads(n)
  <1>1. PICK raw \in States :
             /\ tracker' = [tracker EXCEPT ![Reading(n)] = ObserveSample(tracker[Reading(n)], raw)]
             /\ ReadingCommits(n, Reading(n), raw, r) \/ ReadingHolds(Reading(n), raw, r)
             /\ call = NoCall /\ view["ingest"] = NoView /\ todo["ingest"] = {}
             /\ UNCHANGED <<live, down, held, cfg, regrouped, call, view, todo, look>>
             /\ Excuse
    BY ReadingParts
  <1>2. /\ \A d \in Checks \ {Reading(n)} : active'[d] = active[d] /\ releasing'[d] = releasing[d]
        /\ ~active'[Reading(n)].held /\ UNCHANGED <<holding, unholding>>
        /\ Reads(n)
    BY <1>1, CommitsReads, HoldsReads
  <1>3. \A d \in Checks \ {Reading(n)} : tracker'[d] = tracker[d]
    BY <1>1 DEF IInv, TypeOK
  <1>4. excused \subseteq excused' /\ Contended' \subseteq excused'
    BY <1>1, ExcuseFacts
  <1>5. QED
    BY <1>1, <1>2, <1>3, <1>4 DEF Read

LEMMA ReadBase ==
    ASSUME IInv, NEW n \in Readers, Read(n)
    PROVE  CallInv' /\ OrderInv' /\ LiveInv' /\ MeetInv' /\ HoldInv' /\ UnloadedInv' /\ PendingInv'
  <1> DEFINE c == Reading(n)
  <1>1. /\ call = NoCall /\ view["ingest"] = NoView /\ todo["ingest"] = {}
        /\ \A d \in Checks \ {c} : active'[d] = active[d] /\ tracker'[d] = tracker[d]
        /\ ~active'[c].held
        /\ UNCHANGED <<live, down, held, cfg, regrouped, call, view, todo, holding, unholding, look>>
        /\ excused \subseteq excused' /\ Contended' \subseteq excused'
    BY DEF Read
  <1>2. c \in Checks /\ ~IsLiveness(c) /\ \A d \in Checks : IsLiveness(d) => d # c
    BY CheckOf
  <1>3. Grouped' = Grouped
    BY <1>1 DEF Grouped
  <1> HIDE DEF c
  <1>4. CallInv' /\ OrderInv' /\ MeetInv' /\ UnloadedInv'
    BY <1>1 DEF IInv, CallInv, OrderInv, MeetInv, UnloadedInv
  <1>5. LiveInv'
    BY <1>1, <1>2, CheckOf DEF IInv, LiveInv
  <1>6. HoldInv'
    <2>1. HalfDone' = HalfDone /\ \A d : Closing(d)' = Closing(d)
      BY <1>1 DEF HalfDone, Closing
    <2>2. \A d \in held \cup HalfDone \cup look.snap : IsLiveness(d)
      BY DEF IInv, HoldInv
    <2>3. \A d \in Checks \ (HalfDone' \cup excused') : d \in held' <=> active'[d].held
      BY <1>1, <1>2, <2>1, <2>2 DEF IInv, HoldInv
    <2>4. /\ \A d \in holding \ excused' : active'[d].held
          /\ \A t \in Tasks : \A d \in unholding[t] \ excused' : ~active'[d].held
      <3>1. holding \subseteq Checks \ {c} /\ \A t \in Tasks : unholding[t] \subseteq Checks \ {c}
        BY <1>2, <2>2, HalfDoneIs DEF IInv, Shapes
      <3>2. QED
        BY <1>1, <3>1 DEF IInv, HoldInv
    <2>5. \A d \in Checks : active'[d].held =>
            /\ IsLiveness(d) /\ active'[d].state = "unreachable"
            /\ \/ d \in excused'
               \/ active'[d].rc = NoNode /\ (tracker'[d].committed = "unreachable" \/ Closing(d)')
      <3> SUFFICES ASSUME NEW d \in Checks, active'[d].held
                   PROVE  /\ IsLiveness(d) /\ active'[d].state = "unreachable"
                          /\ \/ d \in excused'
                             \/ active'[d].rc = NoNode /\ (tracker'[d].committed = "unreachable" \/ Closing(d)')
        OBVIOUS
      <3>1. d # c /\ active'[d] = active[d] /\ tracker'[d] = tracker[d]
        BY <1>1
      <3>2. QED
        BY <1>1, <2>1, <3>1 DEF IInv, HoldInv
    <2>6. look'.ready # <<>> => IsLiveness(look'.ready[1])
      BY <1>1 DEF IInv, HoldInv
    <2>7. QED
      BY <1>1, <2>1, <2>2, <2>3, <2>4, <2>5, <2>6 DEF HoldInv
  <1>7. PendingInv'
    <2> SUFFICES ASSUME NEW u \in Tasks, NEW x \in todo[u]
                 PROVE  /\ \A y \in todo[u] : y.check = x.check => y = x
                        /\ x.rc = Judged(x.check, view[u].down, view[u].grouped)
                        /\ \/ x.check \in excused'
                           \/ /\ view[u].down = down /\ view[u].grouped = Grouped
                              /\ IsOpen(x.check)' => x.alert.rc = active'[x.check].rc
                              /\ x.alert.held => x.alert.rc = NoNode
                              /\ active'[x.check].held => x.alert.held
                        /\ IsLiveness(x.check) \/ (u = "ingest" /\ x.alert = active'[x.check])
      BY <1>1, <1>3 DEF PendingInv
    <2>1. /\ \A y \in todo[u] : y.check = x.check => y = x
          /\ x.rc = Judged(x.check, view[u].down, view[u].grouped)
          /\ \/ x.check \in excused
             \/ /\ view[u].down = down /\ view[u].grouped = Grouped
                /\ IsOpen(x.check) => x.alert.rc = active[x.check].rc
                /\ x.alert.held => x.alert.rc = NoNode
                /\ active[x.check].held => x.alert.held
          /\ IsLiveness(x.check) \/ (u = "ingest" /\ x.alert = active[x.check])
      BY DEF IInv, PendingInv
    <2>2. u # "ingest" /\ IsLiveness(x.check)
      BY <1>1, <2>1
    <2>3. x \in Pending
      BY DEF IInv, Shapes
    <2>4. x.check \in Checks \ {c}
      BY <1>2, <2>2, <2>3, PendingFields
    <2>5. active'[x.check] = active[x.check] /\ IsOpen(x.check)' = IsOpen(x.check)
      BY <1>1, <2>4 DEF IsOpen
    <2>6. QED
      BY <1>1, <2>1, <2>2, <2>5
  <1>8. QED
    BY <1>4, <1>5, <1>6, <1>7

LEMMA ReadAttribution ==
    ASSUME IInv, NEW n \in Readers, Read(n), Reads(n)
    PROVE  OutageInv' /\ ReleaseInv'
  <1>1. /\ call = NoCall /\ view["ingest"] = NoView /\ todo["ingest"] = {}
        /\ \A d \in Checks \ {Reading(n)} : active'[d] = active[d] /\ releasing'[d] = releasing[d]
        /\ UNCHANGED <<live, down, cfg, regrouped, call, view, todo>>
        /\ excused \subseteq excused'
    BY DEF Read
  <1>2. Grouped' = Grouped
    BY <1>1 DEF Grouped
  <1>3. /\ \A d : Attribution(d)' = Attribution(d) /\ Awaits(d)' = Awaits(d)
        /\ \A m : Swept(m)' = Swept(m) /\ SweptOwn(m)' = SweptOwn(m)
    BY <1>1, <1>2, JudgedNext DEF Attribution, Awaits, Swept, SweptOwn
  <1>4. OutageInv'
    <2>1. \A m \in Nodes : /\ Liveness(m) \in Checks \ {Reading(n)}
                           /\ active'[Liveness(m)] = active[Liveness(m)]
      BY <1>1, CheckOf
    <2>2. \A m \in Nodes : IsOpen(Liveness(m))' = IsOpen(Liveness(m))
      BY <2>1 DEF IsOpen
    <2>3. QED
      BY <1>1, <1>3, <2>1, <2>2 DEF IInv, OutageInv
  <1>5. ReleaseInv'
    <2> SUFFICES ASSUME NEW m \in Readers
                 PROVE  LET c == Reading(m)
                        IN  /\ releasing'[c].on => IsOpen(c)' /\ (m \in down' => Awaits(c)' \/ SweptOwn(m)')
                            /\ (IsOpen(c)' /\ live'[m] # "maintenance") =>
                                  \/ Awaits(c)'
                                  \/ SweptOwn(m)'
                                  \/ IF m \in down' THEN active'[c].rc = m
                                     ELSE active'[c].rc # NoNode => releasing'[c].on
      BY DEF ReleaseInv
    <2> DEFINE c == Reading(m)
    <2>1. ~Awaits(c) /\ ~SweptOwn(m)
      <3>1. ~Awaits(c)
        BY <1>1, ReadingsWaitInIngest DEF IInv
      <3>2. ~SweptOwn(m)
        BY <1>1, Nothing DEF SweptOwn
      <3>3. QED
        BY <3>1, <3>2
    <2>2. /\ releasing[c].on => IsOpen(c) /\ m \notin down
          /\ (IsOpen(c) /\ live[m] # "maintenance") =>
                IF m \in down THEN active[c].rc = m ELSE active[c].rc # NoNode => releasing[c].on
      BY <2>1 DEF IInv, ReleaseInv
    <2>3. CASE m # n
      <3>1. c \in Checks \ {Reading(n)}
        BY <2>3, CheckOf
      <3>2. active'[c] = active[c] /\ releasing'[c] = releasing[c] /\ IsOpen(c)' = IsOpen(c)
        BY <1>1, <3>1 DEF IsOpen
      <3>3. QED
        BY <1>1, <2>2, <3>2
    <2>4. CASE m = n
      BY <1>1, <2>2, <2>4 DEF Reads
    <2>5. QED
      BY <2>3, <2>4
  <1>6. QED
    BY <1>4, <1>5

LEMMA ReadingInv ==
    ASSUME IInv, TypeOK', Shapes', NEW n \in Readers, NEW r \in Readings, ObserveReading(n, r)
    PROVE  IInv'
  BY ReadingFacts, ReadBase, ReadAttribution DEF IInv

-----------------------------------------------------------------------------
(* A restart, and the invariant as a whole.                                 *)

LEMMA RestartInv ==
    ASSUME IInv, TypeOK', Shapes', Restart
    PROVE  IInv'
  <1>1. /\ \A c \in Checks : /\ active'[c] = RestoredAlert(c)
                             /\ tracker'[c] = RestoredTracker(c)
                             /\ releasing'[c] = NoRelease
        /\ \A n \in Nodes : live'[n] = IF n \in WasDown THEN "unreachable" ELSE "unseen"
        /\ down' = WasDown /\ held' = {} /\ regrouped' = FALSE
        /\ call' = NoCall /\ holding' = {} /\ look' = NoLook
        /\ \A t \in Tasks : view'[t] = NoView /\ todo'[t] = {} /\ unholding'[t] = {}
        /\ Excuse
    BY DEF Restart
  <1>2. "ingest" \in Tasks /\ "config" \in Tasks /\ "held" \in Tasks
    BY DEF Tasks
  <1>3. CallInv' /\ OrderInv' /\ UnloadedInv' /\ PendingInv'
    BY <1>1, <1>2, Nothing DEF CallInv, OrderInv, UnloadedInv, PendingInv
  <1>4. MeetInv'
    BY <1>1, ExcuseFacts DEF MeetInv
  <1>5. LiveInv'
    <2> SUFFICES ASSUME NEW n \in Nodes
                 PROVE  (n \in WasDown) <=> RestoredTracker(Liveness(n)).committed = "unreachable"
      BY <1>1, CheckOf DEF LiveInv
    <2>1. /\ Recorded(Liveness(n)) => history[Liveness(n)] \in Rows
          /\ ~Recorded(Liveness(n)) => history[Liveness(n)].state = "none"
      BY RecordedRow, CheckOf DEF IInv
    <2>2. QED
      BY <2>1 DEF WasDown, RestoredTracker, Settled, Seed
  <1>6. \A c \in Checks : ~active'[c].held
    BY <1>1, RestoredType DEF IInv
  <1>7. HoldInv'
    <2>1. HalfDone' = {}
      BY <1>1 DEF HalfDone
    <2>2. QED
      BY <1>1, <1>6, <2>1, Nothing DEF HoldInv
  <1>8. OutageInv'
    BY <1>1 DEF OutageInv
  <1>9. ReleaseInv'
    <2> SUFFICES ASSUME NEW n \in Readers
                 PROVE  /\ ~releasing'[Reading(n)].on
                        /\ IsOpen(Reading(n))' =>
                              IF n \in down' THEN active'[Reading(n)].rc = n
                              ELSE active'[Reading(n)].rc = NoNode
      BY DEF ReleaseInv
    <2>1. Reading(n) \in Checks /\ ~IsLiveness(Reading(n)) /\ NodeOf(Reading(n)) = n
      BY CheckOf
    <2>2. active'[Reading(n)] = RestoredAlert(Reading(n)) /\ ~releasing'[Reading(n)].on
      BY <1>1, <2>1 DEF NoRelease
    <2>3. CASE ~Recorded(Reading(n))
      BY <2>2, <2>3 DEF RestoredAlert, IsOpen
    <2>4. CASE Recorded(Reading(n))
      <3>1. RestoredAlert(Reading(n)).rc = IF n \in WasDown THEN n ELSE NoNode
        BY <2>1, <2>4 DEF RestoredAlert
      <3>2. QED
        BY <1>1, <2>2, <3>1
    <2>5. QED
      BY <2>3, <2>4
  <1>10. QED
    BY <1>3, <1>4, <1>5, <1>7, <1>8, <1>9 DEF IInv

LEMMA InitInv == Init => IInv
  <1> SUFFICES ASSUME Init PROVE IInv
    OBVIOUS
  <1>1. TypeOK /\ Shapes
    BY InitType
  <1>2. /\ \A c \in Checks : active[c] = NoAlert /\ releasing[c] = NoRelease /\ tracker[c] = Seed
        /\ \A n \in Nodes : live[n] = "unseen"
        /\ down = {} /\ held = {} /\ regrouped = TRUE /\ cfg.loaded = TRUE
        /\ call = NoCall /\ holding = {} /\ look = NoLook
        /\ \A t \in Tasks : /\ view[t] = NoView /\ todo[t] = {} /\ unholding[t] = {}
                            /\ out[t] = <<>>
    BY DEF Init
  <1>3. "ingest" \in Tasks /\ "config" \in Tasks /\ "held" \in Tasks
    BY DEF Tasks
  <1>4. CallInv /\ OrderInv /\ UnloadedInv /\ PendingInv
    BY <1>2, <1>3, Nothing DEF CallInv, OrderInv, UnloadedInv, PendingInv
  <1>5. LiveInv
    BY <1>2, CheckOf DEF LiveInv, Seed
  <1>6. MeetInv
    <2>1. \A t \in Tasks : Touches(t) = {}
      <3>1. DOMAIN <<>> = {}
        OBVIOUS
      <3>2. QED
        BY <1>2, <3>1, Nothing DEF Touches
    <2>2. QED
      BY <1>3, <2>1 DEF MeetInv, Contended
  <1>7. HoldInv
    <2>1. HalfDone = {}
      BY <1>2 DEF HalfDone
    <2>2. QED
      BY <1>2, <2>1, Nothing, NoAlertFields DEF HoldInv
  <1>8. OutageInv /\ ReleaseInv
    BY <1>2, CheckOf DEF OutageInv, ReleaseInv, IsOpen, NoRelease
  <1>9. QED
    BY <1>1, <1>4, <1>5, <1>6, <1>7, <1>8 DEF IInv

LEMMA NextInv == IInv /\ [Next]_vars => IInv'
  <1> SUFFICES ASSUME IInv, [Next]_vars PROVE IInv'
    OBVIOUS
  <1>1. TypeOK' /\ Shapes'
    BY NextType DEF IInv
  <1>2. ASSUME NEW n \in Nodes, NEW o \in Outcomes, ObserveLiveness(n, o) PROVE IInv'
    BY <1>1, <1>2, ObservesInv
  <1>3. ASSUME NEW n \in Readers, NEW r \in Readings, ObserveReading(n, r) PROVE IInv'
    BY <1>1, <1>3, ReadingInv
  <1>4. CASE Apply \/ Hold
    BY <1>1, <1>4, ApplyInv, HoldStepInv
  <1>5. ASSUME NEW t \in Tasks, Unhold(t) \/ Look(t) \/ Snap(t) \/ Reattribute(t) PROVE IInv'
    BY <1>1, <1>5, UnholdInv, LookInv, SnapInv, ReattributeInv
  <1>6. CASE HeldJudge \/ HeldRelease
    BY <1>1, <1>6, HeldJudgeInv, HeldReleaseInv
  <1>7. CASE FirstRefresh \/ EditRefresh
    <2>1. PICK new \in Configs : Installs(new)
      BY <1>7, RefreshInstalls DEF IInv
    <2>2. QED
      BY <1>1, <2>1, InstallsInv
  <1>8. CASE CoverageRefresh
    BY <1>1, <1>8, CoverageInv
  <1>9. CASE \/ \E c \in Checks : Expire(c)
             \/ HeldTick
             \/ \E t \in Tasks : Record(t) \/ Send(t)
             \/ Flush \/ Deliver \/ UNCHANGED vars
    BY <1>1, <1>9, QuietSteps
  <1>10. CASE Restart
    BY <1>1, <1>10, RestartInv
  <1>11. QED
    BY <1>2, <1>3, <1>4, <1>5, <1>6, <1>7, <1>8, <1>9, <1>10 DEF Next

LEMMA Invariance == Spec => []IInv
  BY InitInv, NextInv, PTL DEF Spec

(* Types; the down set is exactly the nodes published as unreachable, a wait *)
(* that ran out is still held, and the queue never outgrows its room.       *)
THEOREM TypeCorrect == Spec => []TypeOK
  <1>1. IInv => TypeOK
    BY DEF IInv
  <1>2. QED
    BY <1>1, Invariance, PTL

(* The mark on an alert and the list release_held walks are written under   *)
(* two locks, by three tasks, one after the other: but for a check between  *)
(* the two and one that tasks have met at, they agree, and what waits is an *)
(* unrolled outage.                                                         *)
THEOREM OnlyBordersAreHeld == Spec => []HeldIsBorder
  <1>1. IInv => HeldIsBorder
    BY DEF IInv, HoldInv, HeldIsBorder
  <1>2. QED
    BY <1>1, Invariance, PTL

(* At rest nothing is about to be looked at.                                *)
LEMMA NothingSwept ==
    ASSUME AtRest
    PROVE  /\ \A c : ~Awaits(c)
           /\ \A n \in Nodes : ~Swept(n) /\ ~SweptOwn(n)
           /\ \A c \in Checks : call.check # c
  <1>1. call = NoCall /\ \A t \in Tasks : view[t] = NoView /\ todo[t] = {}
    BY DEF AtRest
  <1>2. "ingest" \in Tasks
    BY DEF Tasks
  <1>3. QED
    BY <1>1, <1>2, Nothing DEF Awaits, Swept, SweptOwn

(* Outside maintenance, with no decision and no reattribution under way,    *)
(* every outage is attributed as the down set and the topology of the       *)
(* moment ask, and every other alert of a down node is part of its outage,  *)
(* but for a check whose decision was overtaken by a change of the          *)
(* configuration or the down set, or that two tasks have met at: a decision *)
(* and its application, a look, a snapshot and each alert of a sweep are    *)
(* steps of their own (attribute, resweep_suppression, regroup,             *)
(* advance_release).                                                        *)
THEOREM AttributionCurrent == Spec => []RollupsCurrent
  <1>1. ASSUME IInv PROVE RollupsCurrent
    <2> SUFFICES ASSUME regrouped, AtRest, \A n \in Nodes : live[n] # "maintenance",
                        NEW c \in Checks, IsOpen(c), c \notin excused
                 PROVE  IF IsLiveness(c)
                        THEN active[c].rc = RootCause(NodeOf(c), down, Grouped)
                        ELSE IF NodeOf(c) \in down THEN active[c].rc = NodeOf(c)
                             ELSE active[c].rc # NoNode => releasing[c].on
      BY DEF RollupsCurrent
    <2>1. CASE IsLiveness(c)
      <3>1. c = Liveness(NodeOf(c)) /\ NodeOf(c) \in Nodes
        BY <2>1, CheckCases
      <3>2. active[c].rc = Attribution(c)
        BY <1>1, <3>1, NothingSwept DEF IInv, OutageInv
      <3>3. QED
        BY <2>1, <3>2 DEF Attribution, Judged
    <2>2. CASE ~IsLiveness(c)
      <3>1. c = Reading(NodeOf(c)) /\ NodeOf(c) \in Readers /\ NodeOf(c) \in Nodes
        BY <2>2, CheckCases
      <3>2. QED
        BY <1>1, <2>2, <3>1, NothingSwept DEF IInv, ReleaseInv
    <2>3. QED
      BY <2>1, <2>2
  <1>2. QED
    BY <1>1, Invariance, PTL

-----------------------------------------------------------------------------
(* Which outages have an alert.                                             *)

(* Every step but an observation, an application and a restart keeps the    *)
(* down set, the decision, and which outages have an alert.                 *)
Same(n) ==
    /\ IsOpen(Liveness(n))' <=> IsOpen(Liveness(n))
    /\ UNCHANGED <<down, call>> /\ excused \subseteq excused'
    /\ RuleEdits = {} => cfg'.ruled = cfg.ruled

LEMMA SameAlerts ==
    ASSUME UNCHANGED <<active, down, call>>, excused \subseteq excused',
           RuleEdits = {} => cfg'.ruled = cfg.ruled
    PROVE  \A n \in Nodes : Same(n)
  BY DEF Same, IsOpen

LEMMA OpenKept ==
    ASSUME IInv, [Next]_vars, NEW n \in Nodes
    PROVE  \/ \E m \in Nodes, o \in Outcomes : ObserveLiveness(m, o)
           \/ Apply \/ Restart
           \/ Same(n)
  <1> DEFINE c == Liveness(n)
  <1>1. c \in Checks /\ IsLiveness(c)
    BY CheckOf
  <1>2. ASSUME NEW m \in Readers, NEW r \in Readings, ObserveReading(m, r) PROVE Same(n)
    <2>1. c \in Checks \ {Reading(m)}
      BY <1>1, CheckOf
    <2>2. active'[c] = active[c] /\ UNCHANGED <<down, call, cfg>> /\ excused \subseteq excused'
      BY <1>2, <2>1, ReadingFacts DEF Read
    <2>3. QED
      BY <2>2 DEF Same, IsOpen
  <1>3. ASSUME NEW t \in Tasks, Reattribute(t) PROVE Same(n)
    <2>1. PICK x \in todo[t] : Attributed(t, x)
      BY <1>3, ReattributeStep
    <2>2. active'[c] # NoAlert <=> active[c] # NoAlert
      BY <1>1, <2>1, AttributedAlert
    <2>3. UNCHANGED <<down, call, cfg>> /\ excused \subseteq excused'
      BY <2>1, ExcuseFacts DEF Attributed
    <2>4. QED
      BY <2>2, <2>3 DEF Same, IsOpen
  <1>4. CASE FirstRefresh \/ EditRefresh
    <2>1. PICK new \in Configs : Installs(new)
      BY <1>4, RefreshInstalls DEF IInv
    <2>2. UNCHANGED <<active, down, call>> /\ excused \subseteq excused'
      BY <2>1, ExcuseFacts DEF Installs
    <2>3. RuleEdits = {} => cfg'.ruled = cfg.ruled
      BY <2>1 DEF Installs
    <2>4. QED
      BY <2>2, <2>3, SameAlerts
  <1>5. CASE CoverageRefresh
    <2>1. UNCHANGED <<active, down, call>> /\ excused \subseteq excused' /\ cfg'.ruled = cfg.ruled
      BY <1>5, CoverageStep, ExcuseFacts DEF IInv
    <2>2. QED
      BY <2>1, SameAlerts
  <1>6. CASE HeldRelease
    <2> DEFINE k == look.ready[1]
               a == [active[k] EXCEPT !.held = FALSE]
    <2>1. /\ (active[k].held /\ active' = [active EXCEPT ![k] = a]) \/ active' = active
          /\ UNCHANGED <<down, call, cfg>> /\ excused \subseteq excused'
      BY <1>6, ExcuseFacts DEF HeldRelease, config
    <2>2. active \in [Checks -> Alerts \cup {NoAlert}]
      BY DEF IInv, TypeOK
    <2>3. k = c /\ active[k].held => active[k] # NoAlert /\ a \in Alerts
      <3>1. ASSUME k = c, active[k].held PROVE active[k] # NoAlert /\ a \in Alerts
        <4>1. active[c] \in Alerts
          BY <1>1, <2>2, <3>1, NoAlertFields
        <4>2. QED
          BY <3>1, <4>1, AlertUpdates, AlertFields
      <3>2. QED
        BY <3>1
    <2> HIDE DEF a, k
    <2>4. IsOpen(c)' <=> IsOpen(c)
      <3>1. CASE active' = active
        BY <3>1 DEF IsOpen
      <3>2. CASE active' = [active EXCEPT ![k] = a] /\ active[k].held
        <4>1. CASE k = c
          BY <1>1, <2>2, <2>3, <3>2, <4>1, AlertFields DEF IsOpen
        <4>2. CASE k # c
          BY <1>1, <2>2, <3>2, <4>2 DEF IsOpen
        <4>3. QED
          BY <4>1, <4>2
      <3>3. QED
        BY <2>1, <3>1, <3>2
    <2>5. QED
      BY <2>1, <2>4 DEF Same
  <1>7. CASE \/ Hold \/ HeldJudge
             \/ \E t \in Tasks : Unhold(t) \/ Look(t) \/ Snap(t)
    <2>1. UNCHANGED <<active, down, call, cfg>> /\ Excuse
      BY <1>7 DEF Hold, HeldJudge, Unhold, Look, Snap, engine, config
    <2>2. QED
      BY <2>1, ExcuseFacts, SameAlerts
  <1>8. CASE \/ \E d \in Checks : Expire(d)
             \/ HeldTick
             \/ \E t \in Tasks : Record(t) \/ Send(t)
             \/ Flush \/ Deliver \/ UNCHANGED vars
    <2>1. UNCHANGED <<active, down, call, cfg, excused>>
      BY <1>8 DEF Expire, HeldTick, Record, Send, Flush, Deliver, vars, tasks, engine, config
    <2>2. QED
      BY <2>1, SameAlerts
  <1>9. QED
    BY <1>2, <1>3, <1>4, <1>5, <1>6, <1>7, <1>8 DEF Next

(* Applying a decision closes the alert of an outage only when the outage   *)
(* is over, has no rule, or the decision was overtaken.                     *)
LEMMA ApplyKeeps ==
    ASSUME IInv, Apply, NEW n \in Nodes, n \in cfg.ruled, Liveness(n) \notin excused,
           tracker[Liveness(n)].committed = "unreachable"
    PROVE  /\ IsOpen(Liveness(n)) => IsOpen(Liveness(n))'
           /\ call.check = Liveness(n) /\ call.step = "fire" => IsOpen(Liveness(n))'
  <1> DEFINE c == Liveness(n)
  <1>1. PICK m \in Nodes : Applied(m)
    BY AppliedFacts
  <1>2. c \in Checks /\ active \in [Checks -> Alerts \cup {NoAlert}]
    BY CheckOf DEF IInv, TypeOK
  <1>3. call.check = Liveness(m) /\ (Fires(Liveness(m)) \/ Closes(Liveness(m)) \/ Leaves(Liveness(m)))
    BY <1>1 DEF Applied
  <1>4. CASE m # n
    <2>1. c # Liveness(m)
      BY <1>4, OneLiveness
    <2>2. active'[c] = active[c]
      BY <1>2, <1>3, <2>1 DEF Fires, Closes, Leaves
    <2>3. QED
      BY <1>3, <2>1, <2>2 DEF IsOpen
  <1>5. CASE m = n
    <2>1. CASE Fires(c)
      <3>1. active'[c] = call.alert /\ call.alert \in Alerts
        BY <1>2, <2>1 DEF Fires
      <3>2. QED
        BY <3>1, AlertFields DEF IsOpen
    <2>2. CASE Closes(c)
      <3>1. /\ call.step = "close" => tracker[c].committed # "unreachable"
            /\ call.step = "strand" => c \in excused \/ ~Alerting(n)
        BY <1>1, <1>5, AppliedCall
      <3>2. QED
        BY <2>2, <3>1 DEF Closes, Alerting
    <2>3. CASE Leaves(c)
      BY <2>3 DEF Leaves, IsOpen
    <2>4. QED
      BY <1>3, <1>5, <2>1, <2>2, <2>3
  <1>6. QED
    BY <1>4, <1>5

(* While the rule exists and the committed state stays unreachable, nothing *)
(* closes an outage's alert once its row is written, a restart included,    *)
(* unless its decision was overtaken by a change of the configuration or    *)
(* two tasks have met at it.                                                *)
THEOREM AlertOutlivesRestart == Spec => OutageKeepsItsAlert
  <1> DEFINE Stands(n) ==
        (/\ IsOpen(Liveness(n)) /\ Recorded(Liveness(n)) /\ ~active[Liveness(n)].held
         /\ n \in cfg.ruled /\ Liveness(n) \notin excused
         /\ tracker'[Liveness(n)].committed = "unreachable") => IsOpen(Liveness(n))'
  <1>1. ASSUME IInv, [Next]_vars, NEW n \in Nodes PROVE Stands(n)
    <2> DEFINE c == Liveness(n)
    <2> SUFFICES ASSUME IsOpen(c), Recorded(c), n \in cfg.ruled, c \notin excused,
                        tracker'[c].committed = "unreachable"
                 PROVE  IsOpen(c)'
      OBVIOUS
    <2>0. Shapes /\ c \in Checks
      BY <1>1, CheckOf DEF IInv
    <2>1. ASSUME NEW m \in Nodes, NEW o \in Outcomes, ObserveLiveness(m, o)
          PROVE  IsOpen(c)'
      BY <2>1 DEF ObserveLiveness, IsOpen
    <2>2. CASE Apply
      <3>1. tracker' = tracker
        BY <2>2 DEF Apply
      <3>2. QED
        BY <1>1, <2>2, <3>1, ApplyKeeps
    <2>3. CASE Restart
      <3>1. active'[c] = RestoredAlert(c)
        BY <2>0, <2>3 DEF Restart
      <3>2. QED
        BY <2>0, <3>1, RestoredType DEF IsOpen
    <2>4. QED
      BY <1>1, <2>1, <2>2, <2>3, OpenKept DEF Same
  <1>2. IInv /\ [Next]_vars => [\A n \in Nodes : Stands(n)]_vars
    BY <1>1
  <1>3. OutageKeepsItsAlert <=> [][\A n \in Nodes : Stands(n)]_vars
    BY DEF OutageKeepsItsAlert
  <1>4. QED
    BY <1>2, <1>3, Invariance, PTL DEF Spec

(* With the liveness rules left alone a node that is down has its alert, or *)
(* is about to, unless it changed state before a configuration was loaded.  *)
LEMMA RuledNext ==
    ASSUME RuleEdits = {}, IInv, RuledInv, [Next]_vars
    PROVE  RuledInv'
  <1> DEFINE Said(n) == \/ Liveness(n) \in excused
                        \/ IsOpen(Liveness(n))
                        \/ call.check = Liveness(n) /\ call.step = "fire"
  <1>0. /\ TypeOK /\ Shapes /\ LiveInv /\ cfg.ruled = Nodes
        /\ \A n \in Nodes : n \in down => Said(n)
    BY DEF IInv, RuledInv
  <1>1. TypeOK' /\ Shapes'
    BY NextType DEF IInv
  <1>2. \A n \in Nodes : n \in down <=> tracker[Liveness(n)].committed = "unreachable"
    BY <1>0 DEF LiveInv
  <1> HIDE DEF Said
  <1>3. ASSUME NEW m \in Nodes, NEW o \in Outcomes, ObserveLiveness(m, o) PROVE RuledInv'
    <2>1. PICK t \in Trackers : Observes(m, t)
      BY <1>0, <1>3, LivenessStep
    <2>2. Observed(m, t)
      BY <1>1, <2>1, ObservesFacts
    <2> DEFINE moved == t.committed # tracker[Liveness(m)].committed
    <2>3. /\ call = NoCall /\ UNCHANGED <<active, cfg>> /\ excused \subseteq excused'
          /\ \A k \in Nodes \ {m} : (k \in down' <=> k \in down)
          /\ t.confirmed => (m \in down' <=> t.committed = "unreachable")
          /\ ~t.confirmed => UNCHANGED down
          /\ moved => t.confirmed
          /\ ~cfg.loaded /\ moved => Liveness(m) \in excused'
      BY <2>2 DEF Observed
    <2>4. ASSUME NEW n \in Nodes, n \in down' PROVE Said(n)'
      <3>1. CASE n \in down
        <4>1. Liveness(n) \in excused \/ IsOpen(Liveness(n))
          BY <1>0, <2>3, <3>1, Nothing DEF Said
        <4>2. QED
          BY <2>3, <4>1 DEF Said, IsOpen
      <3>2. CASE n \notin down
        <4>1. n = m /\ t.confirmed /\ t.committed = "unreachable" /\ moved
          BY <1>2, <2>3, <2>4, <3>2
        <4>2. CASE ~cfg.loaded
          BY <2>3, <4>1, <4>2 DEF Said
        <4>3. CASE cfg.loaded
          <5>1. Alerting(m)
            BY <1>0, <4>3 DEF Alerting
          <5>2. call'.check = Liveness(m) /\ call'.step = "fire"
            BY <2>2, <4>1, <5>1 DEF Observed
          <5>3. QED
            BY <4>1, <5>2 DEF Said
        <4>4. QED
          BY <4>2, <4>3
      <3>3. QED
        BY <3>1, <3>2
    <2>5. QED
      BY <1>0, <2>3, <2>4 DEF RuledInv, Said
  <1>4. CASE Apply
    <2>1. UNCHANGED <<tracker, down, cfg>> /\ excused \subseteq excused'
      BY <1>4, ExcuseFacts DEF Apply, config
    <2>2. ASSUME NEW n \in Nodes, n \in down' PROVE Liveness(n) \in excused' \/ IsOpen(Liveness(n))'
      <3>1. n \in cfg.ruled /\ tracker[Liveness(n)].committed = "unreachable" /\ Said(n)
        BY <1>0, <1>2, <2>1, <2>2
      <3>2. CASE Liveness(n) \in excused
        BY <2>1, <3>2
      <3>3. CASE Liveness(n) \notin excused
        BY <1>4, <3>1, <3>3, ApplyKeeps DEF Said
      <3>4. QED
        BY <3>2, <3>3
    <2>3. QED
      BY <1>0, <2>1, <2>2 DEF RuledInv
  <1>5. CASE Restart
    <2>1. /\ \A k \in Checks : active'[k] = RestoredAlert(k)
          /\ down' = WasDown /\ cfg'.ruled = cfg.ruled
      BY <1>0, <1>5 DEF Restart, Shapes
    <2>2. ASSUME NEW n \in WasDown PROVE n \in Nodes /\ active'[Liveness(n)] # NoAlert
      <3>1. n \in Nodes /\ Liveness(n) \in Checks /\ history[Liveness(n)].state = "unreachable"
        BY CheckOf DEF WasDown
      <3>2. Recorded(Liveness(n))
        BY <1>0, <3>1, RecordedRow
      <3>3. QED
        BY <1>0, <2>1, <3>1, <3>2, RestoredType
    <2>3. QED
      BY <1>0, <2>1, <2>2 DEF RuledInv, IsOpen
  <1>6. CASE \A n \in Nodes : Same(n)
    <2>1. CASE Nodes = {}
      <3>1. cfg'.ruled = Nodes
        BY <1>1, <2>1 DEF Shapes
      <3>2. QED
        BY <2>1, <3>1 DEF RuledInv
    <2>2. CASE Nodes # {}
      <3>1. cfg'.ruled = cfg.ruled /\ UNCHANGED <<down, call>> /\ excused \subseteq excused'
        BY <1>6, <2>2 DEF Same
      <3>2. \A n \in Nodes : n \in down' => Said(n)'
        BY <1>0, <1>6, <3>1 DEF Same, Said
      <3>3. QED
        BY <1>0, <3>1, <3>2 DEF RuledInv, Said
    <2>3. QED
      BY <2>1, <2>2
  <1>7. QED
    BY <1>3, <1>4, <1>5, <1>6, OpenKept

(* A rolled-up outage is spoken for, for any network, as long as no one     *)
(* edits the liveness rules: the node it is rolled up into is down, has an  *)
(* open alert, and that alert is not rolled up in turn.                     *)
THEOREM EveryOutageSpokenFor ==
    ASSUME RuleEdits = {}
    PROVE  Spec => []SpokenFor
  <1>1. Init => RuledInv
    BY DEF Init, RuledInv
  <1>2. IInv /\ RuledInv /\ [Next]_vars => RuledInv'
    BY RuledNext
  <1>3. Spec => []RuledInv
    BY <1>1, <1>2, Invariance, PTL DEF Spec
  <1>4. ASSUME IInv, RuledInv PROVE SpokenFor
    <2> SUFFICES ASSUME regrouped, AtRest, \A k \in Nodes : live[k] # "maintenance",
                        NEW n \in Nodes, active[Liveness(n)].rc # NoNode,
                        Liveness(n) \notin excused, Liveness(active[Liveness(n)].rc) \notin excused
                 PROVE  /\ active[Liveness(active[Liveness(n)].rc)] # NoAlert
                        /\ active[Liveness(active[Liveness(n)].rc)].rc = NoNode
      BY DEF SpokenFor, IsOpen
    <2> DEFINE s == active[Liveness(n)].rc
    <2>0. TypeOK /\ Shapes /\ down \in SUBSET Nodes
      BY <1>4 DEF IInv, TypeOK
    <2>1. \A k \in Nodes : (active[Liveness(k)] # NoAlert /\ Liveness(k) \notin excused) =>
            active[Liveness(k)].rc = RootCause(k, down, Grouped)
      <3>1. \A k \in Nodes : /\ ~Awaits(Liveness(k)) /\ ~Swept(k) /\ call.check # Liveness(k)
                             /\ Attribution(Liveness(k)) = RootCause(k, down, Grouped)
        BY CheckOf, NothingSwept DEF Attribution, Judged
      <3>2. QED
        BY <1>4, <3>1 DEF IInv, OutageInv, IsOpen
    <2>2. active[Liveness(n)] # NoAlert
      BY NoAlertFields
    <2>3. s = RootCause(n, down, Grouped)
      BY <2>1, <2>2
    <2>4. s \in down /\ RootCause(s, down, Grouped) = NoNode
      <3>1. Grouped \in BOOLEAN
        BY <2>0, GroupedType
      <3>2. QED
        BY <2>0, <2>3, <3>1, SpeakerSpeaks
    <2> HIDE DEF s
    <2>5. s \in Nodes /\ call.check # Liveness(s)
      BY <2>0, <2>4, NothingSwept, CheckOf
    <2>6. active[Liveness(s)] # NoAlert
      BY <1>4, <2>4, <2>5 DEF RuledInv, IsOpen, s
    <2>7. active[Liveness(s)].rc = NoNode
      BY <2>1, <2>4, <2>5, <2>6 DEF s
    <2>8. QED
      BY <2>6, <2>7 DEF s
  <1>5. QED
    BY <1>3, <1>4, Invariance, PTL
=============================================================================
