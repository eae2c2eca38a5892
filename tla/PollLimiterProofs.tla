------------------------- MODULE PollLimiterProofs --------------------------
(***************************************************************************)
(* The limiter's invariants, and that it implements ProbeSlots, for any    *)
(* stream of jobs, any devices, permits and admission factor.              *)
(***************************************************************************)
EXTENDS PollLimiter, FiniteSetTheorems, TLAPS

(* Jobs the stream has not handed out have no task.                        *)
UpcomingOK == \A j \in Jobs : j >= upcoming => pc[j] = "unseen"

IInv == TypeOK /\ UpcomingOK /\ SingleFlight /\ PermitsConserved

Held == {"granted", "probing", "releasing"}

-----------------------------------------------------------------------------
(* Sets of jobs and the queue.                                             *)

LEMMA JobsFinite == \A S \in SUBSET Jobs : IsFiniteSet(S) /\ Cardinality(S) \in Nat
<1>1. IsFiniteSet(Jobs)
  BY FS_Interval, LimiterAssumption DEF Jobs
<1> QED BY <1>1, FS_Subset, FS_CardinalityType

LEMMA QueueAppends ==
  ASSUME NEW q \in Seq(Jobs), NEW j \in Jobs,
         \A i \in DOMAIN q : q[i] # j,
         \A i, k \in DOMAIN q : q[i] = q[k] => i = k
  PROVE  /\ Append(q, j) \in Seq(Jobs)
         /\ \A x : (\E i \in DOMAIN Append(q, j) : Append(q, j)[i] = x)
                    <=> (x = j \/ \E i \in DOMAIN q : q[i] = x)
         /\ \A i, k \in DOMAIN Append(q, j) :
              Append(q, j)[i] = Append(q, j)[k] => i = k
<1> DEFINE a == Append(q, j)
<1>1. /\ a \in Seq(Jobs) /\ DOMAIN q = 1..Len(q) /\ DOMAIN a = 1..(Len(q) + 1)
      /\ Len(q) \in Nat
  OBVIOUS
<1>2. a[Len(q) + 1] = j /\ \A i \in 1..Len(q) : a[i] = q[i]
  OBVIOUS
<1> HIDE DEF a
<1>3. ASSUME NEW x
      PROVE  (\E i \in DOMAIN a : a[i] = x) <=> (x = j \/ \E i \in DOMAIN q : q[i] = x)
  <2>1. \A i \in DOMAIN a : i = Len(q) + 1 \/ i \in DOMAIN q
    BY <1>1
  <2>2. Len(q) + 1 \in DOMAIN a /\ DOMAIN q \subseteq DOMAIN a
    BY <1>1
  <2> QED BY <2>1, <2>2, <1>1, <1>2
<1>4. ASSUME NEW i \in DOMAIN a, NEW k \in DOMAIN a, a[i] = a[k]
      PROVE  i = k
  <2>1. \A m \in DOMAIN a : m = Len(q) + 1 \/ m \in DOMAIN q
    BY <1>1
  <2> QED BY <2>1, <1>1, <1>2, <1>4
<1> QED BY <1>1, <1>3, <1>4 DEF a

LEMMA QueueAdvances ==
  ASSUME NEW q \in Seq(Jobs), q # <<>>,
         \A i, k \in DOMAIN q : q[i] = q[k] => i = k
  PROVE  /\ Tail(q) \in Seq(Jobs) /\ Head(q) \in Jobs
         /\ \E i \in DOMAIN q : q[i] = Head(q)
         /\ \A x : (\E i \in DOMAIN Tail(q) : Tail(q)[i] = x)
                    <=> (x # Head(q) /\ \E i \in DOMAIN q : q[i] = x)
         /\ \A i, k \in DOMAIN Tail(q) : Tail(q)[i] = Tail(q)[k] => i = k
<1> DEFINE t == Tail(q)
<1>1. /\ t \in Seq(Jobs) /\ Head(q) \in Jobs /\ Len(q) \in Nat \ {0}
      /\ DOMAIN q = 1..Len(q) /\ DOMAIN t = 1..(Len(q) - 1)
  OBVIOUS
<1>2. Head(q) = q[1] /\ \A i \in 1..(Len(q) - 1) : t[i] = q[i + 1]
  OBVIOUS
<1> HIDE DEF t
<1>3. ASSUME NEW x
      PROVE  (\E i \in DOMAIN t : t[i] = x) <=> (x # Head(q) /\ \E i \in DOMAIN q : q[i] = x)
  <2>1. ASSUME NEW i \in DOMAIN t, t[i] = x
        PROVE  x # Head(q) /\ \E k \in DOMAIN q : q[k] = x
    <3>1. i + 1 \in DOMAIN q /\ 1 \in DOMAIN q /\ i + 1 # 1
      BY <1>1
    <3> QED BY <3>1, <2>1, <1>1, <1>2
  <2>2. ASSUME NEW i \in DOMAIN q, q[i] = x, x # Head(q)
        PROVE  \E k \in DOMAIN t : t[k] = x
    <3>1. i # 1
      BY <2>2, <1>2
    <3>2. i - 1 \in DOMAIN t /\ (i - 1) + 1 = i
      BY <3>1, <1>1
    <3> QED BY <3>2, <2>2, <1>1, <1>2
  <2> QED BY <2>1, <2>2
<1>4. ASSUME NEW i \in DOMAIN t, NEW k \in DOMAIN t, t[i] = t[k]
      PROVE  i = k
  <2>1. i + 1 \in DOMAIN q /\ k + 1 \in DOMAIN q
    BY <1>1
  <2>2. i + 1 = k + 1
    BY <2>1, <1>4, <1>1, <1>2
  <2> QED BY <2>2, <1>1
<1>5. \E i \in DOMAIN q : q[i] = Head(q)
  BY <1>1, <1>2
<1> QED BY <1>1, <1>3, <1>4, <1>5 DEF t

-----------------------------------------------------------------------------
(* Permits: what a step of one task does to them.                          *)

(* A task that takes no permit, gives none back and does not queue.        *)
LEMMA MoveKeepsPermits ==
  ASSUME TypeOK, PermitsConserved, NEW j \in Jobs, NEW s \in Steps \ {"queued"},
         pc' = [pc EXCEPT ![j] = s], pc[j] # "queued",
         s \in Held <=> pc[j] \in Held,
         UNCHANGED <<free, queue>>
  PROVE  PermitsConserved'
<1>1. \A k \in Jobs : pc'[k] = IF k = j THEN s ELSE pc[k]
  BY DEF TypeOK
<1>2. Holders' = Holders
  BY <1>1 DEF Holders, Held
<1>3. \A k \in Jobs : pc'[k] = "queued" <=> pc[k] = "queued"
  BY <1>1
<1> QED BY <1>2, <1>3 DEF PermitsConserved

LEMMA AcquireKeepsPermits ==
  ASSUME TypeOK, PermitsConserved, NEW j \in Jobs,
         pc[j] \in {"start", "parked"}, AcquirePermit(j)
  PROVE  /\ PermitsConserved'
         /\ pc' \in [Jobs -> Steps] /\ free' \in 0..Permits /\ queue' \in Seq(Jobs)
<1>1. IsFiniteSet(Holders) /\ Cardinality(Holders) \in Nat
  BY JobsFinite DEF Holders
<1>2. Permits \in Nat /\ free \in 0..Permits
  BY LimiterAssumption DEF TypeOK
<1>3. CASE free > 0
  <2>1. pc' = [pc EXCEPT ![j] = "granted"] /\ free' = free - 1 /\ queue' = queue
    BY <1>3 DEF AcquirePermit
  <2>2. \A k \in Jobs : pc'[k] = IF k = j THEN "granted" ELSE pc[k]
    BY <2>1 DEF TypeOK
  <2>3. Holders' = Holders \cup {j} /\ j \notin Holders
    BY <2>2 DEF Holders
  <2>4. Cardinality(Holders') = Cardinality(Holders) + 1
    BY <2>3, <1>1, FS_AddElement
  <2>5. free' + Cardinality(Holders') = Permits
    BY <2>1, <2>4, <1>1, <1>2, <1>3 DEF PermitsConserved
  <2>6. queue = <<>>
    BY <1>3 DEF PermitsConserved
  <2>7. \A k \in Jobs : pc'[k] = "queued" <=> pc[k] = "queued"
    BY <2>2
  <2>8. PermitsConserved'
    BY <2>1, <2>5, <2>6, <2>7 DEF PermitsConserved
  <2>9. pc' \in [Jobs -> Steps] /\ queue' \in Seq(Jobs)
    BY <2>1 DEF TypeOK, Steps
  <2>10. free' \in 0..Permits
    BY <2>1, <1>2, <1>3
  <2> QED BY <2>8, <2>9, <2>10
<1>4. CASE ~(free > 0)
  <2>1. pc' = [pc EXCEPT ![j] = "queued"] /\ queue' = Append(queue, j) /\ free' = free
    BY <1>4 DEF AcquirePermit
  <2>2. \A k \in Jobs : pc'[k] = IF k = j THEN "queued" ELSE pc[k]
    BY <2>1 DEF TypeOK
  <2>3. Holders' = Holders
    BY <2>2 DEF Holders
  <2>4. queue \in Seq(Jobs) /\ \A i \in DOMAIN queue : queue[i] # j
    BY DEF PermitsConserved, TypeOK
  <2>5. \A i, k \in DOMAIN queue : queue[i] = queue[k] => i = k
    BY DEF PermitsConserved
  <2>6. /\ queue' \in Seq(Jobs)
        /\ \A x : (\E i \in DOMAIN queue' : queue'[i] = x)
                   <=> (x = j \/ \E i \in DOMAIN queue : queue[i] = x)
        /\ \A i, k \in DOMAIN queue' : queue'[i] = queue'[k] => i = k
    BY <2>1, <2>4, <2>5, QueueAppends
  <2>7. \A k \in Jobs : pc'[k] = "queued" <=> \E i \in DOMAIN queue' : queue'[i] = k
    BY <2>2, <2>6 DEF PermitsConserved
  <2>8. free' + Cardinality(Holders') = Permits
    BY <2>1, <2>3 DEF PermitsConserved
  <2>9. PermitsConserved'
    BY <2>1, <2>6, <2>7, <2>8, <1>4 DEF PermitsConserved
  <2>10. pc' \in [Jobs -> Steps]
    BY <2>1 DEF TypeOK, Steps
  <2> QED BY <2>1, <2>6, <2>9, <2>10, <1>2
<1> QED BY <1>3, <1>4

LEMMA ReleaseKeepsPermits ==
  ASSUME TypeOK, PermitsConserved, NEW j \in Jobs, NEW s \in {"parked", "shed", "done"},
         pc[j] \in Held, Release(j, s)
  PROVE  /\ PermitsConserved'
         /\ pc' \in [Jobs -> Steps] /\ free' \in 0..Permits /\ queue' \in Seq(Jobs)
<1>1. IsFiniteSet(Holders) /\ Cardinality(Holders) \in Nat
  BY JobsFinite DEF Holders
<1>2. Permits \in Nat /\ free \in 0..Permits
  BY LimiterAssumption DEF TypeOK
<1>3. j \in Holders
  BY DEF Holders, Held
<1>4. IsFiniteSet(Holders \ {j}) /\ Cardinality(Holders \ {j}) = Cardinality(Holders) - 1
  BY <1>1, <1>3, FS_RemoveElement
<1>5. Cardinality(Holders \ {j}) \in Nat
  BY JobsFinite DEF Holders
<1>6. CASE queue = <<>>
  <2>1. pc' = [pc EXCEPT ![j] = s] /\ free' = free + 1 /\ queue' = queue
    BY <1>6 DEF Release
  <2>2. \A k \in Jobs : pc'[k] = IF k = j THEN s ELSE pc[k]
    BY <2>1 DEF TypeOK
  <2>3. Holders' = Holders \ {j}
    BY <2>2 DEF Holders
  <2>4. free' + Cardinality(Holders') = Permits
    BY <2>1, <2>3, <1>1, <1>2, <1>4 DEF PermitsConserved
  <2>5. \A k \in Jobs : pc'[k] = "queued" <=> pc[k] = "queued"
    BY <2>2 DEF Held
  <2>6. PermitsConserved'
    BY <2>1, <2>4, <2>5, <1>6 DEF PermitsConserved
  <2>7. pc' \in [Jobs -> Steps] /\ queue' \in Seq(Jobs)
    BY <2>1 DEF TypeOK, Steps
  <2>8. free' \in 0..Permits
    BY <2>1, <2>3, <2>4, <1>2, <1>5
  <2> QED BY <2>6, <2>7, <2>8
<1>7. CASE queue # <<>>
  <2> DEFINE h == Head(queue)
  <2>1. /\ pc' = [pc EXCEPT ![j] = s, ![h] = "granted"]
        /\ queue' = Tail(queue) /\ free' = free
    BY <1>7 DEF Release
  <2>2. queue \in Seq(Jobs) /\ \A i, k \in DOMAIN queue : queue[i] = queue[k] => i = k
    BY DEF PermitsConserved, TypeOK
  <2>3. /\ queue' \in Seq(Jobs) /\ h \in Jobs
        /\ \E i \in DOMAIN queue : queue[i] = h
        /\ \A x : (\E i \in DOMAIN queue' : queue'[i] = x)
                   <=> (x # h /\ \E i \in DOMAIN queue : queue[i] = x)
        /\ \A i, k \in DOMAIN queue' : queue'[i] = queue'[k] => i = k
    BY <2>1, <2>2, <1>7, QueueAdvances
  <2> HIDE DEF h
  <2>4. pc[h] = "queued" /\ h # j /\ h \notin Holders
    BY <2>3 DEF PermitsConserved, Holders, Held
  <2>5. \A k \in Jobs : pc'[k] = IF k = h THEN "granted" ELSE IF k = j THEN s ELSE pc[k]
    BY <2>1, <2>3, <2>4 DEF TypeOK
  <2>6. Holders' = (Holders \ {j}) \cup {h}
    BY <2>3, <2>4, <2>5 DEF Holders
  <2>7. Cardinality(Holders') = Cardinality(Holders \ {j}) + 1
    BY <2>4, <2>6, <1>4, FS_AddElement
  <2>8. free' + Cardinality(Holders') = Permits
    BY <2>1, <2>7, <1>1, <1>2, <1>4 DEF PermitsConserved
  <2>9. \A k \in Jobs : pc'[k] = "queued" <=> \E i \in DOMAIN queue' : queue'[i] = k
    <3> SUFFICES ASSUME NEW k \in Jobs
                 PROVE  pc'[k] = "queued" <=> \E i \in DOMAIN queue' : queue'[i] = k
      OBVIOUS
    <3>1. pc[k] = "queued" <=> \E i \in DOMAIN queue : queue[i] = k
      BY DEF PermitsConserved
    <3>2. (\E i \in DOMAIN queue' : queue'[i] = k) <=> (k # h /\ pc[k] = "queued")
      BY <2>3, <3>1
    <3>3. pc'[k] = "queued" <=> (k # h /\ pc[k] = "queued")
      BY <2>5 DEF Held
    <3> QED BY <3>2, <3>3
  <2>10. ~(free' > 0)
    BY <2>1, <1>7 DEF PermitsConserved
  <2>11. PermitsConserved'
    <3>1. \A i, k \in DOMAIN queue' : queue'[i] = queue'[k] => i = k
      BY <2>3
    <3> QED BY <3>1, <2>8, <2>9, <2>10 DEF PermitsConserved
  <2>12. pc' \in [Jobs -> Steps]
    BY <2>1 DEF TypeOK, Steps
  <2> QED BY <2>1, <2>3, <2>11, <2>12, <1>2
<1> QED BY <1>6, <1>7

-----------------------------------------------------------------------------
(* The rest of the invariant.                                              *)

(* A step that neither starts nor ends a probe leaves the marks right.     *)
LEMMA FlightFrame ==
  ASSUME SingleFlight, UNCHANGED inflight,
         \A k \in Jobs : pc'[k] = "probing" <=> pc[k] = "probing"
  PROVE  SingleFlight'
BY DEF SingleFlight, GlobalOnly

(* What AcquirePermit and Release do to the steps of the tasks.            *)
LEMMA AcquireMoves ==
  ASSUME TypeOK, NEW j \in Jobs, pc[j] \in {"start", "parked"}, AcquirePermit(j)
  PROVE  /\ \A k \in Jobs \ {j} : pc'[k] = pc[k]
         /\ pc'[j] \in {"granted", "queued"}
BY DEF AcquirePermit, TypeOK

LEMMA ReleaseMoves ==
  ASSUME TypeOK, PermitsConserved, NEW j \in Jobs, NEW s, pc[j] \in Held, Release(j, s)
  PROVE  /\ pc'[j] = s
         /\ \A k \in Jobs \ {j} :
              pc'[k] = pc[k] \/ (pc[k] = "queued" /\ pc'[k] = "granted")
<1>1. CASE queue = <<>>
  BY <1>1 DEF Release, TypeOK
<1>2. CASE queue # <<>>
  <2>1. queue \in Seq(Jobs) /\ \A i, k \in DOMAIN queue : queue[i] = queue[k] => i = k
    BY DEF PermitsConserved, TypeOK
  <2>2. Head(queue) \in Jobs /\ \E i \in DOMAIN queue : queue[i] = Head(queue)
    BY <2>1, <1>2, QueueAdvances
  <2>3. pc[Head(queue)] = "queued" /\ Head(queue) # j
    BY <2>2 DEF PermitsConserved, Held
  <2>4. pc' = [pc EXCEPT ![j] = s, ![Head(queue)] = "granted"]
    BY <1>2 DEF Release
  <2> QED BY <2>2, <2>3, <2>4 DEF TypeOK
<1> QED BY <1>1, <1>2

(* A job whose task has begun stays begun.                                 *)
LEMMA UpcomingFrame ==
  ASSUME UpcomingOK, UNCHANGED upcoming,
         \A k \in Jobs : pc[k] = "unseen" => pc'[k] = "unseen"
  PROVE  UpcomingOK'
BY DEF UpcomingOK

(* The steps of a probe, as ClaimWins, StartGlobal and DropGuard take them.*)
LEMMA ClaimKeepsFlight ==
  ASSUME TypeOK, SingleFlight, NEW j \in Jobs, ClaimWins(j)
  PROVE  SingleFlight'
<1>1. \A k \in Jobs : pc'[k] = IF k = j THEN "probing" ELSE pc[k]
  BY DEF ClaimWins, TypeOK
<1>2. inflight' = inflight \cup {Device[j]} /\ Device[j] \notin inflight /\ Device[j] # NoDevice
  BY DEF ClaimWins, GlobalOnly
<1>3. \A k \in Jobs \ {j} : Device[k] = Device[j] => pc[k] # "probing"
  BY <1>2 DEF SingleFlight, GlobalOnly
<1>4. \A k \in Jobs : pc'[k] = "probing" /\ Device[k] # NoDevice => Device[k] \in inflight'
  BY <1>1, <1>2 DEF SingleFlight, GlobalOnly
<1>5. ASSUME NEW d \in inflight'
      PROVE  \E k \in Jobs : /\ pc'[k] = "probing" /\ Device[k] = d
                             /\ \A m \in Jobs \ {k} : Device[m] = d => pc'[m] # "probing"
  <2>1. CASE d = Device[j]
    BY <2>1, <1>1, <1>3
  <2>2. CASE d # Device[j]
    <3>1. d \in inflight
      BY <1>2, <2>2
    <3>2. PICK k \in Jobs : /\ pc[k] = "probing" /\ Device[k] = d
                            /\ \A m \in Jobs \ {k} : Device[m] = d => pc[m] # "probing"
      BY <3>1 DEF SingleFlight
    <3> QED BY <3>2, <2>2, <1>1
  <2> QED BY <2>1, <2>2
<1> QED BY <1>4, <1>5 DEF SingleFlight, GlobalOnly

LEMMA GlobalKeepsFlight ==
  ASSUME TypeOK, SingleFlight, NEW j \in Jobs, StartGlobal(j)
  PROVE  SingleFlight'
<1>1. \A k \in Jobs : pc'[k] = IF k = j THEN "probing" ELSE pc[k]
  BY DEF StartGlobal, TypeOK
<1>2. inflight' = inflight /\ Device[j] = NoDevice /\ NoDevice \notin inflight
  BY DEF StartGlobal, GlobalOnly, TypeOK
<1>3. \A k \in Jobs : pc'[k] = "probing" /\ Device[k] # NoDevice => Device[k] \in inflight'
  BY <1>1, <1>2 DEF SingleFlight, GlobalOnly
<1>4. ASSUME NEW d \in inflight'
      PROVE  \E k \in Jobs : /\ pc'[k] = "probing" /\ Device[k] = d
                             /\ \A m \in Jobs \ {k} : Device[m] = d => pc'[m] # "probing"
  <2>1. PICK k \in Jobs : /\ pc[k] = "probing" /\ Device[k] = d
                          /\ \A m \in Jobs \ {k} : Device[m] = d => pc[m] # "probing"
    BY <1>2 DEF SingleFlight
  <2>2. d # NoDevice
    BY <1>2
  <2> QED BY <2>1, <2>2, <1>1, <1>2
<1> QED BY <1>3, <1>4 DEF SingleFlight, GlobalOnly

LEMMA DropKeepsFlight ==
  ASSUME TypeOK, SingleFlight, NEW j \in Jobs, DropGuard(j)
  PROVE  SingleFlight'
<1>1. \A k \in Jobs : pc'[k] = IF k = j THEN "releasing" ELSE pc[k]
  BY DEF DropGuard, TypeOK
<1>2. inflight' = inflight \ {Device[j]} /\ pc[j] = "probing" /\ NoDevice \notin inflight
  BY DEF DropGuard, TypeOK
<1>3. \A k \in Jobs \ {j} : Device[j] # NoDevice /\ Device[k] = Device[j] => pc[k] # "probing"
  BY <1>2 DEF SingleFlight, GlobalOnly
<1>4. \A k \in Jobs : pc'[k] = "probing" /\ Device[k] # NoDevice => Device[k] \in inflight'
  BY <1>1, <1>2, <1>3 DEF SingleFlight, GlobalOnly
<1>5. ASSUME NEW d \in inflight'
      PROVE  \E k \in Jobs : /\ pc'[k] = "probing" /\ Device[k] = d
                             /\ \A m \in Jobs \ {k} : Device[m] = d => pc'[m] # "probing"
  <2>1. d \in inflight /\ d # Device[j]
    BY <1>2
  <2>2. PICK k \in Jobs : /\ pc[k] = "probing" /\ Device[k] = d
                          /\ \A m \in Jobs \ {k} : Device[m] = d => pc[m] # "probing"
    BY <2>1 DEF SingleFlight
  <2> QED BY <2>1, <2>2, <1>1
<1> QED BY <1>4, <1>5 DEF SingleFlight, GlobalOnly

-----------------------------------------------------------------------------
LEMMA InitOK == Init => IInv
<1> SUFFICES ASSUME Init PROVE IInv
  OBVIOUS
<1>1. TypeOK
  BY LimiterAssumption DEF Init, TypeOK, Steps
<1>2. UpcomingOK /\ SingleFlight
  BY DEF Init, UpcomingOK, SingleFlight
<1>3. Holders = {}
  BY DEF Init, Holders
<1>4. free + Cardinality(Holders) = Permits
  BY <1>3, FS_EmptySet, LimiterAssumption DEF Init
<1>5. PermitsConserved
  BY <1>4 DEF Init, PermitsConserved
<1> QED BY <1>1, <1>2, <1>5 DEF IInv

(* Taking a permit, or a place in the queue for one.                       *)
LEMMA AcquireOK ==
  ASSUME IInv, NEW j \in Jobs, pc[j] \in {"start", "parked"}, AcquirePermit(j),
         UNCHANGED <<inflight, expired, upcoming>>
  PROVE  IInv'
<1> USE DEF IInv
<1>1. /\ PermitsConserved'
      /\ pc' \in [Jobs -> Steps] /\ free' \in 0..Permits /\ queue' \in Seq(Jobs)
  BY AcquireKeepsPermits
<1>2. /\ \A k \in Jobs \ {j} : pc'[k] = pc[k]
      /\ pc'[j] \in {"granted", "queued"}
  BY AcquireMoves
<1>3. TypeOK'
  BY <1>1 DEF TypeOK
<1>4. SingleFlight'
  BY <1>2, FlightFrame
<1>5. UpcomingOK'
  BY <1>2, UpcomingFrame
<1> QED BY <1>1, <1>3, <1>4, <1>5

(* Giving a permit back without a probe being started or ended.            *)
LEMMA ReleaseOK ==
  ASSUME IInv, NEW j \in Jobs, NEW s \in {"parked", "shed", "done"},
         pc[j] \in {"granted", "releasing"}, Release(j, s),
         UNCHANGED <<inflight, expired, upcoming>>
  PROVE  IInv'
<1> USE DEF IInv
<1>1. pc[j] \in Held
  BY DEF Held
<1>2. /\ PermitsConserved'
      /\ pc' \in [Jobs -> Steps] /\ free' \in 0..Permits /\ queue' \in Seq(Jobs)
  BY <1>1, ReleaseKeepsPermits
<1>3. /\ pc'[j] = s
      /\ \A k \in Jobs \ {j} :
           pc'[k] = pc[k] \/ (pc[k] = "queued" /\ pc'[k] = "granted")
  BY <1>1, ReleaseMoves
<1>4. TypeOK'
  BY <1>2 DEF TypeOK
<1>5. SingleFlight'
  BY <1>3, FlightFrame
<1>6. UpcomingOK'
  BY <1>3, UpcomingFrame
<1> QED BY <1>2, <1>4, <1>5, <1>6

(* A step of one task that leaves permits and queue alone: what is left to *)
(* show is that the marks stay right.                                      *)
LEMMA MoveOK ==
  ASSUME IInv, NEW j \in Jobs, NEW s \in Steps \ {"queued", "unseen"},
         pc' = [pc EXCEPT ![j] = s], pc[j] \notin {"queued", "unseen"},
         s \in Held <=> pc[j] \in Held,
         inflight' \subseteq {Device[k] : k \in Jobs} \ {NoDevice},
         UNCHANGED <<free, queue, expired, upcoming>>, SingleFlight'
  PROVE  IInv'
<1> USE DEF IInv
<1>1. PermitsConserved'
  BY MoveKeepsPermits
<1>2. TypeOK'
  BY DEF TypeOK
<1>3. UpcomingOK'
  BY UpcomingFrame DEF TypeOK
<1> QED BY <1>1, <1>2, <1>3

LEMMA AdmitOK == ASSUME IInv, Admit PROVE IInv'
<1> USE DEF IInv
<1>1. upcoming \in Jobs /\ pc[upcoming] = "unseen"
  BY LimiterAssumption DEF Admit, TypeOK, UpcomingOK, Jobs
<1>2. \A k \in Jobs : pc'[k] = IF k = upcoming THEN "start" ELSE pc[k]
  BY DEF Admit, TypeOK
<1>3. TypeOK'
  BY <1>1, LimiterAssumption DEF Admit, TypeOK, Steps, Jobs
<1>4. SingleFlight'
  BY <1>1, <1>2, FlightFrame DEF Admit
<1>5. PermitsConserved'
  BY <1>1, MoveKeepsPermits DEF Admit, Steps, Held
<1>6. UpcomingOK'
  BY <1>2, LimiterAssumption DEF Admit, UpcomingOK, TypeOK, Jobs
<1> QED BY <1>3, <1>4, <1>5, <1>6

LEMMA StepOK == IInv /\ [Next]_vars => IInv'
<1> SUFFICES ASSUME IInv, [Next]_vars PROVE IInv'
  OBVIOUS
<1>0. TypeOK /\ SingleFlight /\ PermitsConserved
  BY DEF IInv
<1>1. CASE Admit
  BY <1>1, AdmitOK
<1>2. ASSUME NEW j \in Jobs, PeekFree(j) PROVE IInv'
  BY <1>2, AcquireOK DEF PeekFree
<1>3. ASSUME NEW j \in Jobs, PeekBusy(j) PROVE IInv'
  <2>1. WaitOrShed(j) \in {"parked", "shed"}
    BY DEF WaitOrShed
  <2>2. \A k \in Jobs : pc'[k] = "probing" <=> pc[k] = "probing"
    BY <1>0, <1>3, <2>1 DEF PeekBusy, TypeOK
  <2>3. SingleFlight'
    BY <1>0, <1>3, <2>2, FlightFrame DEF PeekBusy
  <2> QED BY <1>0, <1>3, <2>1, <2>3, MoveOK DEF PeekBusy, Steps, Held, TypeOK
<1>4. ASSUME NEW j \in Jobs, ClaimWins(j) PROVE IInv'
  <2>1. SingleFlight'
    BY <1>0, <1>4, ClaimKeepsFlight
  <2>2. inflight' \subseteq {Device[k] : k \in Jobs} \ {NoDevice}
    BY <1>0, <1>4 DEF ClaimWins, TypeOK, GlobalOnly
  <2> QED BY <1>4, <2>1, <2>2, MoveOK DEF ClaimWins, Steps, Held
<1>5. ASSUME NEW j \in Jobs, ClaimLoses(j) PROVE IInv'
  <2>1. WaitOrShed(j) \in {"parked", "shed", "done"}
    BY DEF WaitOrShed
  <2> QED BY <1>5, <2>1, ReleaseOK DEF ClaimLoses
<1>6. ASSUME NEW j \in Jobs, BeginGlobal(j) PROVE IInv'
  BY <1>6, AcquireOK DEF BeginGlobal
<1>7. ASSUME NEW j \in Jobs, StartGlobal(j) PROVE IInv'
  <2>1. SingleFlight'
    BY <1>0, <1>7, GlobalKeepsFlight
  <2>2. inflight' \subseteq {Device[k] : k \in Jobs} \ {NoDevice}
    BY <1>0, <1>7 DEF StartGlobal, TypeOK
  <2> QED BY <1>7, <2>1, <2>2, MoveOK DEF StartGlobal, Steps, Held
<1>8. ASSUME NEW j \in Jobs, DropPermit(j) PROVE IInv'
  BY <1>8, ReleaseOK DEF DropPermit
<1>9. ASSUME NEW j \in Jobs, DropGuard(j) PROVE IInv'
  <2>1. SingleFlight'
    BY <1>0, <1>9, DropKeepsFlight
  <2>2. inflight' \subseteq {Device[k] : k \in Jobs} \ {NoDevice}
    BY <1>0, <1>9 DEF DropGuard, TypeOK
  <2> QED BY <1>9, <2>1, <2>2, MoveOK DEF DropGuard, Steps, Held
<1>10. ASSUME NEW j \in Jobs, Deadline(j) PROVE IInv'
  <2>1. TypeOK' /\ UpcomingOK'
    BY <1>10 DEF IInv, Deadline, TypeOK, UpcomingOK
  <2>2. SingleFlight'
    BY <1>10, <1>0, FlightFrame DEF Deadline
  <2>3. Holders' = Holders
    BY <1>10 DEF Deadline, Holders
  <2>4. PermitsConserved'
    BY <1>10, <1>0, <2>3 DEF Deadline, PermitsConserved
  <2> QED BY <2>1, <2>2, <2>4 DEF IInv
<1>11. CASE UNCHANGED vars
  <2>1. Holders' = Holders
    BY <1>11 DEF vars, Holders
  <2>2. PermitsConserved'
    BY <1>0, <1>11, <2>1 DEF vars, PermitsConserved
  <2>3. TypeOK' /\ UpcomingOK' /\ SingleFlight'
    BY <1>11 DEF vars, IInv, TypeOK, UpcomingOK, SingleFlight
  <2> QED BY <2>2, <2>3 DEF IInv
<1> QED
  BY <1>1, <1>2, <1>3, <1>4, <1>5, <1>6, <1>7, <1>8, <1>9, <1>10, <1>11 DEF Next, Task

-----------------------------------------------------------------------------
(* Every variable of the limiter keeps its type, and a job without a       *)
(* device never leaves a mark (global_guard).                              *)
THEOREM TypeCorrect == Spec => []TypeOK
<1>1. IInv => TypeOK
  BY DEF IInv
<1> QED BY InitOK, StepOK, <1>1, PTL DEF Spec

(* No device is ever probed by two tasks at once, and a mark never         *)
(* outlives its probe (claim_then_permit, PollGuard::drop).                *)
THEOREM NoDeviceTwice == Spec => []SingleFlight
<1>1. IInv => SingleFlight
  BY DEF IInv
<1> QED BY InitOK, StepOK, <1>1, PTL DEF Spec

(* The permits free and held are all there are, and none is free while a   *)
(* task queues, however often claims are lost (claim_then_permit).         *)
THEOREM NoPermitLost == Spec => []PermitsConserved
<1>1. IInv => PermitsConserved
  BY DEF IInv
<1> QED BY InitOK, StepOK, <1>1, PTL DEF Spec

-----------------------------------------------------------------------------
(* The refinement.                                                         *)

(* The abstract specification counts with its own instance of Cardinality. *)
LEMMA SameCount == \A S : Slots!Cardinality(S) = Cardinality(S)
BY DEF Slots!Cardinality, Cardinality

(* A task with a permit is not yet probing, so one more probe fits.        *)
LEMMA PermitMeansRoom ==
  ASSUME IInv, NEW j \in Jobs, pc[j] = "granted"
  PROVE  Cardinality(Slots!Probing) < Permits
<1>1. Slots!Probing \subseteq Holders \ {j}
  BY DEF Slots!Probing, Phase, Holders
<1>2. IsFiniteSet(Holders) /\ Cardinality(Holders) \in Nat
  BY JobsFinite DEF Holders
<1>3. Cardinality(Holders \ {j}) = Cardinality(Holders) - 1 /\ IsFiniteSet(Holders \ {j})
  BY <1>2, FS_RemoveElement DEF Holders
<1>4. Cardinality(Slots!Probing) <= Cardinality(Holders \ {j})
  BY <1>1, <1>3, FS_Subset
<1>5. Cardinality(Slots!Probing) \in Nat
  BY JobsFinite DEF Slots!Probing
<1>6. free + Cardinality(Holders) = Permits /\ free \in Nat /\ Permits \in Nat
  BY LimiterAssumption DEF IInv, PermitsConserved, TypeOK
<1> QED BY <1>2, <1>3, <1>4, <1>5, <1>6

(* Steps that do not start, end or give up a probe.                        *)
LEMMA PhaseFrame ==
  ASSUME \A k \in Jobs : Phase'[k] = Phase[k]
  PROVE  Phase' = Phase
BY DEF Phase

LEMMA PhaseMoves ==
  ASSUME NEW j \in Jobs, NEW s, Phase'[j] = s,
         \A k \in Jobs \ {j} : Phase'[k] = Phase[k]
  PROVE  Phase' = [Phase EXCEPT ![j] = s]
BY DEF Phase

(* A job given up for its device while it waited.                          *)
LEMMA ShedGivesUp ==
  ASSUME NEW j \in Jobs, ~GlobalOnly(j), Phase[j] = "waiting",
         pc'[j] = WaitOrShed(j), \A k \in Jobs \ {j} : Phase'[k] = Phase[k]
  PROVE  [Slots!Next]_Phase
<1>1. CASE j \in expired
  <2>1. Phase'[j] = "ended"
    BY <1>1 DEF WaitOrShed, Phase
  <2>2. Phase' = [Phase EXCEPT ![j] = "ended"]
    BY <2>1, PhaseMoves
  <2> QED BY <2>2 DEF Slots!Next, Slots!GiveUp, GlobalOnly
<1>2. CASE j \notin expired
  <2>1. Phase'[j] = "waiting"
    BY <1>2 DEF WaitOrShed, Phase
  <2> QED BY <2>1, PhaseFrame
<1> QED BY <1>1, <1>2

LEMMA RefinesStep == IInv /\ [Next]_vars => [Slots!Next]_Phase
<1> SUFFICES ASSUME IInv, [Next]_vars PROVE [Slots!Next]_Phase
  OBVIOUS
<1>0. TypeOK /\ SingleFlight /\ PermitsConserved
  BY DEF IInv
<1>1. CASE Admit
  <2>1. upcoming \in Jobs /\ pc[upcoming] = "unseen"
    BY <1>1, LimiterAssumption DEF IInv, Admit, TypeOK, UpcomingOK, Jobs
  <2>2. \A k \in Jobs : pc'[k] = IF k = upcoming THEN "start" ELSE pc[k]
    BY <1>0, <1>1 DEF Admit, TypeOK
  <2>3. \A k \in Jobs : Phase'[k] = Phase[k]
    BY <2>1, <2>2 DEF Phase
  <2> QED BY <2>3, PhaseFrame
<1>2. ASSUME NEW j \in Jobs, pc[j] \in {"start", "parked"}, AcquirePermit(j)
      PROVE  [Slots!Next]_Phase
  <2>1. /\ \A k \in Jobs \ {j} : pc'[k] = pc[k]
        /\ pc'[j] \in {"granted", "queued"}
    BY <1>0, <1>2, AcquireMoves
  <2>2. \A k \in Jobs : Phase'[k] = Phase[k]
    BY <1>2, <2>1 DEF Phase
  <2> QED BY <2>2, PhaseFrame
<1>3. ASSUME NEW j \in Jobs, PeekBusy(j) PROVE [Slots!Next]_Phase
  <2>1. pc'[j] = WaitOrShed(j) /\ \A k \in Jobs \ {j} : pc'[k] = pc[k]
    BY <1>0, <1>3 DEF PeekBusy, TypeOK
  <2>2. Phase[j] = "waiting" /\ \A k \in Jobs \ {j} : Phase'[k] = Phase[k]
    BY <1>3, <2>1 DEF Phase, PeekBusy
  <2> QED BY <1>3, <2>1, <2>2, ShedGivesUp DEF PeekBusy
<1>4. ASSUME NEW j \in Jobs, pc[j] = "granted", pc' = [pc EXCEPT ![j] = "probing"],
             \A k \in Slots!Rivals(j) : pc[k] # "probing"
      PROVE  [Slots!Next]_Phase
  <2>1. \A k \in Jobs : pc'[k] = IF k = j THEN "probing" ELSE pc[k]
    BY <1>0, <1>4 DEF TypeOK
  <2>2. Phase[j] = "waiting" /\ Phase'[j] = "probing"
    BY <1>4, <2>1 DEF Phase
  <2>3. \A k \in Jobs \ {j} : Phase'[k] = Phase[k]
    BY <2>1 DEF Phase
  <2>4. Phase' = [Phase EXCEPT ![j] = "probing"]
    BY <2>2, <2>3, PhaseMoves
  <2>5. \A k \in Slots!Rivals(j) : Phase[k] # "probing"
    BY <1>4 DEF Phase, Slots!Rivals
  <2>6. Cardinality(Slots!Probing) < Permits
    BY <1>4, PermitMeansRoom
  <2>7. Slots!Begin(j)
    BY <2>2, <2>4, <2>5, <2>6, SameCount DEF Slots!Begin
  <2> QED BY <2>7 DEF Slots!Next
<1>5. ASSUME NEW j \in Jobs, ClaimWins(j) PROVE [Slots!Next]_Phase
  <2>1. \A k \in Slots!Rivals(j) : pc[k] # "probing"
    BY <1>0, <1>5 DEF ClaimWins, SingleFlight, GlobalOnly, Slots!Rivals
  <2> QED BY <1>4, <1>5, <2>1 DEF ClaimWins
<1>6. ASSUME NEW j \in Jobs, StartGlobal(j) PROVE [Slots!Next]_Phase
  <2>1. Slots!Rivals(j) = {}
    BY <1>6 DEF StartGlobal, GlobalOnly, Slots!Rivals
  <2> QED BY <1>4, <1>6, <2>1 DEF StartGlobal
<1>7. ASSUME NEW j \in Jobs, ClaimLoses(j) PROVE [Slots!Next]_Phase
  <2>1. /\ pc'[j] = WaitOrShed(j)
        /\ \A k \in Jobs \ {j} :
             pc'[k] = pc[k] \/ (pc[k] = "queued" /\ pc'[k] = "granted")
    BY <1>0, <1>7, ReleaseMoves DEF ClaimLoses, Held
  <2>2. Phase[j] = "waiting" /\ \A k \in Jobs \ {j} : Phase'[k] = Phase[k]
    BY <1>7, <2>1 DEF Phase, ClaimLoses
  <2> QED BY <1>7, <2>1, <2>2, ShedGivesUp DEF ClaimLoses
<1>8. ASSUME NEW j \in Jobs, DropPermit(j) PROVE [Slots!Next]_Phase
  <2>1. /\ pc'[j] = "done"
        /\ \A k \in Jobs \ {j} :
             pc'[k] = pc[k] \/ (pc[k] = "queued" /\ pc'[k] = "granted")
    BY <1>0, <1>8, ReleaseMoves DEF DropPermit, Held
  <2>2. \A k \in Jobs : Phase'[k] = Phase[k]
    BY <1>8, <2>1 DEF Phase, DropPermit
  <2> QED BY <2>2, PhaseFrame
<1>9. ASSUME NEW j \in Jobs, DropGuard(j) PROVE [Slots!Next]_Phase
  <2>1. \A k \in Jobs : pc'[k] = IF k = j THEN "releasing" ELSE pc[k]
    BY <1>0, <1>9 DEF DropGuard, TypeOK
  <2>2. Phase[j] = "probing" /\ Phase'[j] = "ended"
    BY <1>9, <2>1 DEF Phase, DropGuard
  <2>3. \A k \in Jobs \ {j} : Phase'[k] = Phase[k]
    BY <2>1 DEF Phase
  <2>4. Phase' = [Phase EXCEPT ![j] = "ended"]
    BY <2>2, <2>3, PhaseMoves
  <2> QED BY <2>2, <2>4 DEF Slots!Next, Slots!Finish
<1>10. ASSUME UNCHANGED pc PROVE [Slots!Next]_Phase
  BY <1>10 DEF Phase
<1>11. ASSUME NEW j \in Jobs, Task(j) PROVE [Slots!Next]_Phase
  BY <1>2, <1>3, <1>5, <1>6, <1>7, <1>8, <1>11 DEF Task, PeekFree, BeginGlobal
<1> QED
  BY <1>1, <1>9, <1>10, <1>11 DEF Next, Deadline, vars

(* Peek, permit and claim together are one atomic start of a probe, at a   *)
(* moment when a permit and the device are free: the limiter implements    *)
(* ProbeSlots (claim_then_permit, begin_global, PollGuard::drop).          *)
THEOREM LimiterRefines == Spec => ImplementsSlots
<1>1. Init => Slots!Init
  BY DEF Init, Slots!Init, Phase
<1> QED BY InitOK, StepOK, RefinesStep, <1>1, PTL DEF Spec, ImplementsSlots, Slots!Spec
=============================================================================
