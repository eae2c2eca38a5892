------------------------- MODULE StoreForwardProofs -------------------------
(***************************************************************************)
(* Proofs about the poller's result buffer: for every capacity, batch      *)
(* size, budget of faults and number of results.                           *)
(***************************************************************************)
EXTENDS StoreForward, NaturalsInduction, WellFoundedInduction, SequenceTheorems, TLAPS

-----------------------------------------------------------------------------
(* Sequences.                                                              *)

LEMMA TailFacts ==
  ASSUME NEW S, NEW s \in Seq(S), s # <<>>
  PROVE  /\ Len(s) \in Nat \ {0}
         /\ Head(s) \in S /\ Head(s) = s[1]
         /\ Tail(s) \in Seq(S) /\ Len(Tail(s)) = Len(s) - 1
         /\ \A i \in 1..(Len(s) - 1) : Tail(s)[i] = s[i + 1]
         /\ Range(s) = {Head(s)} \cup Range(Tail(s))
  <1>1. /\ Len(s) \in Nat \ {0}
        /\ Head(s) \in S /\ Head(s) = s[1]
        /\ Tail(s) \in Seq(S) /\ Len(Tail(s)) = Len(s) - 1
        /\ \A i \in 1..(Len(s) - 1) : Tail(s)[i] = s[i + 1]
    OBVIOUS
  <1>2. DOMAIN s = 1..Len(s) /\ DOMAIN Tail(s) = 1..(Len(s) - 1)
    BY <1>1
  <1>3. ASSUME NEW x \in Range(s)
        PROVE  x \in {Head(s)} \cup Range(Tail(s))
    <2>1. PICK i \in 1..Len(s) : x = s[i]
      BY <1>2 DEF Range
    <2>2. CASE i = 1
      BY <2>1, <2>2, <1>1
    <2>3. CASE i # 1
      <3>1. i - 1 \in 1..(Len(s) - 1) /\ Tail(s)[i - 1] = s[i]
        BY <2>1, <2>3, <1>1
      <3> QED  BY <3>1, <2>1, <1>2 DEF Range
    <2> QED  BY <2>2, <2>3
  <1>4. ASSUME NEW x \in {Head(s)} \cup Range(Tail(s))
        PROVE  x \in Range(s)
    <2>1. CASE x = Head(s)
      BY <2>1, <1>1, <1>2 DEF Range
    <2>2. CASE x \in Range(Tail(s))
      <3>1. PICK i \in 1..(Len(s) - 1) : x = Tail(s)[i]
        BY <2>2, <1>2 DEF Range
      <3>2. i + 1 \in 1..Len(s) /\ x = s[i + 1]
        BY <3>1, <1>1
      <3> QED  BY <3>2, <1>2 DEF Range
    <2> QED  BY <2>1, <2>2, <1>4
  <1> QED  BY <1>1, <1>3, <1>4

LEMMA AppendFacts ==
  ASSUME NEW S, NEW s \in Seq(S), NEW e \in S
  PROVE  /\ Append(s, e) \in Seq(S)
         /\ Len(s) \in Nat /\ Len(Append(s, e)) = Len(s) + 1
         /\ \A i \in 1..Len(s) : Append(s, e)[i] = s[i]
         /\ Append(s, e)[Len(s) + 1] = e
         /\ Range(Append(s, e)) = Range(s) \cup {e}
  <1>1. /\ Append(s, e) \in Seq(S)
        /\ Len(s) \in Nat /\ Len(Append(s, e)) = Len(s) + 1
        /\ \A i \in 1..Len(s) : Append(s, e)[i] = s[i]
        /\ Append(s, e)[Len(s) + 1] = e
    OBVIOUS
  <1>2. DOMAIN s = 1..Len(s) /\ DOMAIN Append(s, e) = 1..(Len(s) + 1)
    BY <1>1
  <1>3. 1..(Len(s) + 1) = 1..Len(s) \cup {Len(s) + 1}
    BY <1>1
  <1>4. Range(Append(s, e)) = Range(s) \cup {e}
    BY <1>1, <1>2, <1>3, SMT DEF Range
  <1> QED  BY <1>1, <1>4

LEMMA RangeOfSeqs ==
  ASSUME NEW S, NEW s \in Seq(S)
  PROVE  Range(s) \subseteq S /\ DOMAIN s = 1..Len(s) /\ Len(s) \in Nat
  BY DEF Range

-----------------------------------------------------------------------------
(* Types.                                                                  *)

LEMMA InitTypes == Init => TypeOK
  <1> SUFFICES ASSUME Init PROVE TypeOK
    OBVIOUS
  <1>1. drain \in [pc : DrainStates, seq : Nat, rest : Seq(Nat \ {0}), read : SUBSET Nat, cut : Nat]
    BY DEF Init, Idle, DrainStates
  <1>2. free \in [cached : Readings \cup {NoAnswer}, probed : BOOLEAN, since : Nat]
    BY DEF Init
  <1>3. fate \in [Fates -> SUBSET Nat] /\ budget \in [Kinds -> Nat]
    BY ConfigAssumption DEF Init
  <1>4. conn \in BOOLEAN /\ broken \in BOOLEAN
    BY DEF Init
  <1> QED  BY <1>1, <1>2, <1>3, <1>4 DEF Init, TypeOK

LEMMA IdleTypes ==
  Idle \in [pc : DrainStates, seq : Nat, rest : Seq(Nat \ {0}), read : SUBSET Nat, cut : Nat]
  BY DEF Idle, DrainStates

LEMMA SpendTypes ==
  ASSUME TypeOK, NEW k \in Kinds, Spend(k)
  PROVE  budget' \in [Kinds -> Nat]
  BY DEF TypeOK, Spend

LEMMA MarkTypes ==
  ASSUME TypeOK, NEW f \in Fates, NEW rs \in SUBSET Nat, Mark(f, rs)
  PROVE  fate' \in [Fates -> SUBSET Nat]
  BY DEF TypeOK, Mark

ResultSeq == Seq(Nat \ {0})

LEMMA PushTypes ==
  ASSUME NEW m \in ResultSeq
  PROVE  /\ AfterPush(m) \in {"free", "spill", "trim"}
         /\ AfterPush(m) = "spill" => Len(m) > MemMax
  BY ConfigAssumption DEF AfterPush, ResultSeq

(* A ring that overflows is not empty.                                     *)
LEMMA OverflowTypes ==
  ASSUME TypeOK, lock = "spill"
  PROVE  /\ mem # <<>> /\ Head(mem) \in Nat \ {0} /\ {Head(mem)} \in SUBSET Nat
         /\ Tail(mem) \in ResultSeq
  <1>1. mem # <<>> /\ mem \in Seq(Nat \ {0})
    BY ConfigAssumption DEF TypeOK
  <1> QED  BY <1>1, TailFacts DEF ResultSeq

LEMMA ProbeTypes ==
  ASSUME TypeOK, NEW avail \in Readings
  PROVE  Probe(avail) \in [cached : Readings \cup {NoAnswer}, probed : BOOLEAN, since : Nat]
  BY DEF TypeOK, Probe

LEMMA LinesTypes ==
  ASSUME NEW ss \in Seq(Segment), NEW seq, NEW r \in Nat \ {0}
  PROVE  /\ AppendLine(ss, seq, r) \in Seq(Segment)
         /\ Len(AppendLine(ss, seq, r)) = Len(ss) /\ Len(ss) \in Nat
         /\ \A i \in 1..Len(ss) :
              /\ AppendLine(ss, seq, r)[i].seq = ss[i].seq
              /\ AppendLine(ss, seq, r)[i].ok = ss[i].ok
              /\ AppendLine(ss, seq, r)[i].lines =
                    IF ss[i].seq = seq THEN Append(ss[i].lines, r) ELSE ss[i].lines
  <1>1. Len(ss) \in Nat /\ DOMAIN ss = 1..Len(ss) /\ \A i \in 1..Len(ss) : ss[i] \in Segment
    OBVIOUS
  <1>2. ASSUME NEW i \in 1..Len(ss)
        PROVE  /\ AppendLine(ss, seq, r)[i] \in Segment
               /\ AppendLine(ss, seq, r)[i].seq = ss[i].seq
               /\ AppendLine(ss, seq, r)[i].ok = ss[i].ok
               /\ AppendLine(ss, seq, r)[i].lines =
                    IF ss[i].seq = seq THEN Append(ss[i].lines, r) ELSE ss[i].lines
    <2>1. ss[i] \in Segment /\ ss[i].lines \in Seq(Nat \ {0})
      BY <1>1 DEF Segment
    <2>2. Append(ss[i].lines, r) \in Seq(Nat \ {0})
      BY <2>1, AppendFacts
    <2> QED  BY <1>1, <2>1, <2>2 DEF AppendLine, Segment
  <1>3. AppendLine(ss, seq, r) = [i \in 1..Len(ss) |-> AppendLine(ss, seq, r)[i]]
    BY <1>1 DEF AppendLine
  <1>4. AppendLine(ss, seq, r) \in Seq(Segment) /\ Len(AppendLine(ss, seq, r)) = Len(ss)
    BY <1>1, <1>2, <1>3, IsASeq
  <1> QED  BY <1>1, <1>2, <1>4

LEMMA NewSegmentTypes ==
  ASSUME TypeOK
  PROVE  NewSegment \in Segment /\ Append(segs, NewSegment) \in Seq(Segment)
  <1>1. NewSegment \in Segment
    BY DEF TypeOK, NewSegment, Segment
  <1> QED  BY <1>1, AppendFacts DEF TypeOK

LEMMA HeadSegmentTypes ==
  ASSUME TypeOK, segs # <<>>
  PROVE  /\ Head(segs) \in Segment /\ Head(segs) = segs[1] /\ Tail(segs) \in Seq(Segment)
         /\ Head(segs).lines \in ResultSeq /\ Head(segs).seq \in Nat
         /\ Range(Head(segs).lines) \in SUBSET Nat
  <1>1. /\ Head(segs) \in Segment /\ Head(segs) = segs[1] /\ Tail(segs) \in Seq(Segment)
    BY TailFacts DEF TypeOK
  <1>2. Head(segs).lines \in ResultSeq /\ Head(segs).seq \in Nat
    BY <1>1 DEF Segment, ResultSeq
  <1> QED  BY <1>1, <1>2, RangeOfSeqs DEF ResultSeq

LEMMA SpillTypes == TypeOK /\ Spilling => TypeOK'
  <1> SUFFICES ASSUME TypeOK, Spilling PROVE TypeOK'
    OBVIOUS
  <1>1. CASE SpillNoDisk
    <2>1. /\ mem' \in ResultSeq /\ lock' \in {"free", "spill", "trim"}
          /\ lock' = "spill" => Len(mem') > MemMax
      BY <1>1, OverflowTypes, PushTypes DEF SpillNoDisk
    <2>2. fate' \in [Fates -> SUBSET Nat]
      BY <1>1, OverflowTypes, MarkTypes DEF SpillNoDisk, Fates
    <2> QED  BY <1>1, <2>1, <2>2 DEF SpillNoDisk, TypeOK, ResultSeq
  <1>2. CASE SpillBelowFloor
    <2>1. /\ mem' \in ResultSeq /\ lock' \in {"free", "spill", "trim"}
          /\ lock' = "spill" => Len(mem') > MemMax
      BY <1>2, OverflowTypes, PushTypes DEF SpillBelowFloor
    <2>2. fate' \in [Fates -> SUBSET Nat]
      BY <1>2, OverflowTypes, MarkTypes DEF SpillBelowFloor, Fates
    <2>3. free' \in [cached : Readings \cup {NoAnswer}, probed : BOOLEAN, since : Nat]
      BY <1>2, ProbeTypes DEF SpillBelowFloor
    <2> QED  BY <1>2, <2>1, <2>2, <2>3 DEF SpillBelowFloor, TypeOK, ResultSeq
  <1>3. CASE SpillWrites
    <2> DEFINE ss  == IF Rotates THEN Append(segs, NewSegment) ELSE segs
               seq == IF Rotates THEN nextSeq ELSE writer
    <2>1. ss \in Seq(Segment) /\ seq \in Nat \cup {NoWriter}
      BY NewSegmentTypes DEF TypeOK
    <2>2. mem' \in ResultSeq /\ Head(mem) \in Nat \ {0} /\ lock' = "trim"
      BY <1>3, OverflowTypes DEF SpillWrites
    <2>3. segs' \in Seq(Segment)
      BY <1>3, <2>1, <2>2, LinesTypes DEF SpillWrites
    <2>4. PICK named \in BOOLEAN : Mark("behind", IF named THEN {} ELSE {Head(mem)})
      BY <1>3 DEF SpillWrites
    <2>5. (IF named THEN {} ELSE {Head(mem)}) \in SUBSET Nat
      BY <2>2
    <2>6. fate' \in [Fates -> SUBSET Nat]
      BY <2>4, <2>5, MarkTypes DEF Fates
    <2>7. free' \in [cached : Readings \cup {NoAnswer}, probed : BOOLEAN, since : Nat]
      <3>1. PICK avail \in Readings : free' = [Probe(avail) EXCEPT !.since = @ + 1]
        BY <1>3 DEF SpillWrites
      <3> QED  BY <3>1, ProbeTypes
    <2>8. writer' \in Nat \cup {NoWriter} /\ curBytes' \in Nat /\ nextSeq' \in Nat
      <3>1. /\ writer' = seq
            /\ curBytes' = IF Rotates THEN 1 ELSE curBytes + 1
            /\ nextSeq' = IF Rotates THEN nextSeq + 1 ELSE nextSeq
        BY <1>3 DEF SpillWrites
      <3>2. curBytes \in Nat /\ nextSeq \in Nat
        BY DEF TypeOK
      <3> HIDE DEF seq
      <3> QED  BY <2>1, <3>1, <3>2
    <2> QED  BY <1>3, <2>2, <2>3, <2>6, <2>7, <2>8 DEF SpillWrites, TypeOK, ResultSeq
  <1>4. CASE SpillFails
    <2>1. /\ mem' \in ResultSeq /\ lock' \in {"free", "spill", "trim"}
          /\ lock' = "spill" => Len(mem') > MemMax
      BY <1>4, OverflowTypes, PushTypes DEF SpillFails
    <2>2. fate' \in [Fates -> SUBSET Nat]
      BY <1>4, OverflowTypes, MarkTypes DEF SpillFails, Fates
    <2>3. free' \in [cached : Readings \cup {NoAnswer}, probed : BOOLEAN, since : Nat]
      BY <1>4, ProbeTypes DEF SpillFails
    <2>4. budget' \in [Kinds -> Nat]
      BY <1>4, SpendTypes DEF SpillFails, Kinds
    <2>5. segs' \in Seq(Segment) /\ curBytes' \in Nat
      BY <1>4, NewSegmentTypes DEF SpillFails, TypeOK
    <2>6. writer' = NoWriter /\ nextSeq' \in Nat /\ broken' \in BOOLEAN
      BY <1>4 DEF SpillFails, TypeOK
    <2> QED  BY <1>4, <2>1, <2>2, <2>3, <2>4, <2>5, <2>6 DEF SpillFails, TypeOK, ResultSeq
  <1>5. CASE DropOldestSegment
    <2>1. segs # <<>>
      BY <1>5 DEF DropOldestSegment, OverCap, TypeOK
    <2>2. segs' \in Seq(Segment) /\ fate' \in [Fates -> SUBSET Nat]
      BY <1>5, <2>1, HeadSegmentTypes, MarkTypes DEF DropOldestSegment, Fates
    <2> QED  BY <1>5, <2>2 DEF DropOldestSegment, TypeOK
  <1>6. CASE SpillDone
    <2>1. lock' \in {"free", "spill", "trim"} /\ (lock' = "spill" => Len(mem) > MemMax)
      BY <1>6, PushTypes DEF SpillDone, TypeOK, ResultSeq
    <2> QED  BY <1>6, <2>1 DEF SpillDone, TypeOK, buffer
  <1> QED  BY <1>1, <1>2, <1>3, <1>4, <1>5, <1>6 DEF Spilling

DrainRecord == [pc : DrainStates, seq : Nat, rest : ResultSeq, read : SUBSET Nat, cut : Nat]

(* A drain step that touches only the task's own record.                   *)
LEMMA DrainOnlyTypes ==
  ASSUME TypeOK, drain' \in DrainRecord,
         UNCHANGED <<conn, buffer, lock, horizon, next, fate, budget>>
  PROVE  TypeOK'
  BY DEF TypeOK, buffer, DrainRecord, ResultSeq

LEMMA RestTypes ==
  ASSUME TypeOK, drain.rest # <<>>
  PROVE  /\ drain \in DrainRecord
         /\ Head(drain.rest) \in Nat \ {0} /\ {Head(drain.rest)} \in SUBSET Nat
         /\ Tail(drain.rest) \in ResultSeq
  <1>1. drain \in DrainRecord /\ drain.rest \in Seq(Nat \ {0})
    BY DEF TypeOK, DrainRecord, ResultSeq
  <1> QED  BY <1>1, TailFacts DEF ResultSeq

LEMMA AdvanceTypes ==
  ASSUME TypeOK, drain.rest # <<>>, Advance
  PROVE  drain' \in DrainRecord
  BY RestTypes DEF Advance, DrainRecord

(* The batch taken from the ring, and what is left of it.                  *)
BatchSize == IF Len(mem) < Batch THEN Len(mem) ELSE Batch

LEMMA BatchFacts ==
  ASSUME TypeOK
  PROVE  /\ BatchSize \in 0..Len(mem) /\ BatchSize <= Batch /\ Len(mem) \in Nat
         /\ SubSeq(mem, 1, BatchSize) \in ResultSeq
         /\ SubSeq(mem, BatchSize + 1, Len(mem)) \in ResultSeq
         /\ Len(SubSeq(mem, 1, BatchSize)) = BatchSize
         /\ Len(SubSeq(mem, BatchSize + 1, Len(mem))) = Len(mem) - BatchSize
         /\ \A i \in 1..BatchSize : SubSeq(mem, 1, BatchSize)[i] = mem[i]
         /\ \A i \in 1..(Len(mem) - BatchSize) :
              SubSeq(mem, BatchSize + 1, Len(mem))[i] = mem[BatchSize + i]
  <1>1. mem \in Seq(Nat \ {0}) /\ Len(mem) \in Nat
    BY DEF TypeOK
  <1>2. BatchSize \in 0..Len(mem) /\ BatchSize <= Batch
    BY <1>1, ConfigAssumption DEF BatchSize
  <1>3. ASSUME NEW n \in 0..Len(mem)
        PROVE  /\ SubSeq(mem, 1, n) \in Seq(Nat \ {0})
               /\ SubSeq(mem, n + 1, Len(mem)) \in Seq(Nat \ {0})
               /\ Len(SubSeq(mem, 1, n)) = n
               /\ Len(SubSeq(mem, n + 1, Len(mem))) = Len(mem) - n
               /\ \A i \in 1..n : SubSeq(mem, 1, n)[i] = mem[i]
               /\ \A i \in 1..(Len(mem) - n) :
                    SubSeq(mem, n + 1, Len(mem))[i] = mem[n + i]
    BY <1>1, <1>3
  <1> QED  BY <1>1, <1>2, <1>3 DEF ResultSeq

LEMMA DrainTypes == TypeOK /\ (Draining \/ ReplayFails \/ Rebuffer) => TypeOK'
  <1> SUFFICES ASSUME TypeOK, Draining \/ ReplayFails \/ Rebuffer PROVE TypeOK'
    OBVIOUS
  <1>0. drain \in DrainRecord /\ Idle \in DrainRecord
    BY IdleTypes DEF TypeOK, DrainRecord, ResultSeq
  <1>1. CASE DrainWake
    <2>1. drain' \in DrainRecord
      BY <1>0, <1>1 DEF DrainWake, DrainRecord, DrainStates
    <2> QED  BY <1>1, <2>1, DrainOnlyTypes DEF DrainWake
  <1>2. CASE PickSegment
    <2>1. Head(segs).seq \in Nat
      BY <1>2, HeadSegmentTypes DEF PickSegment
    <2>2. drain' \in DrainRecord
      BY <1>2, <2>1, <1>0 DEF PickSegment, DrainRecord, DrainStates
    <2> QED  BY <1>2, <2>2, DrainOnlyTypes DEF PickSegment
  <1>3. CASE TakeBatch
    <2>1. /\ mem' = SubSeq(mem, BatchSize + 1, Len(mem))
          /\ drain' = IF BatchSize = 0 THEN Idle
                      ELSE [Idle EXCEPT !.pc = "batch", !.cut = horizon,
                                        !.rest = SubSeq(mem, 1, BatchSize)]
      BY <1>3 DEF TakeBatch, BatchSize
    <2>2. drain' \in DrainRecord
      <3>1. SubSeq(mem, 1, BatchSize) \in ResultSeq /\ horizon \in Nat
        BY BatchFacts DEF TypeOK
      <3> QED  BY <2>1, <1>0, <3>1 DEF DrainRecord, DrainStates
    <2>3. mem' \in ResultSeq /\ lock = "free" /\ lock' = lock
      BY <1>3, <2>1, BatchFacts DEF TakeBatch
    <2> QED  BY <1>3, <2>2, <2>3 DEF TakeBatch, TypeOK, DrainRecord, ResultSeq
  <1>4. CASE DrainStops
    BY <1>4, <1>0, DrainOnlyTypes DEF DrainStops
  <1>5. CASE ReadSegment
    <2>1. PICK i \in DOMAIN segs :
            drain' = [drain EXCEPT !.pc = "replay", !.cut = horizon,
                                   !.rest = segs[i].lines, !.read = Range(segs[i].lines)]
      BY <1>5 DEF ReadSegment, ReadableAt
    <2>2. segs[i] \in Segment
      BY DEF TypeOK
    <2>3. segs[i].lines \in ResultSeq /\ Range(segs[i].lines) \in SUBSET Nat
      BY <2>2, RangeOfSeqs DEF Segment, ResultSeq
    <2>4. drain' \in DrainRecord
      BY <2>1, <2>3, <1>0 DEF DrainRecord, DrainStates, TypeOK
    <2> QED  BY <1>5, <2>4, DrainOnlyTypes DEF ReadSegment
  <1>6. CASE CannotReadSegment
    <2>1. drain' \in DrainRecord
      BY <1>6, <1>0 DEF CannotReadSegment, DrainRecord, DrainStates
    <2> QED  BY <1>6, <2>1, DrainOnlyTypes DEF CannotReadSegment
  <1>7. CASE SkipTooOld
    <2>1. drain' \in DrainRecord
      BY <1>7, AdvanceTypes DEF SkipTooOld
    <2>2. fate' \in [Fates -> SUBSET Nat]
      BY <1>7, RestTypes, MarkTypes DEF SkipTooOld, Fates
    <2> QED  BY <1>7, <2>1, <2>2 DEF SkipTooOld, TypeOK, buffer, DrainRecord, ResultSeq
  <1>8. CASE PublishBackfill
    <2>1. drain' \in DrainRecord
      BY <1>8, AdvanceTypes DEF PublishBackfill
    <2>2. fate' \in [Fates -> SUBSET Nat]
      BY <1>8, RestTypes, MarkTypes DEF PublishBackfill, Fates
    <2> QED  BY <1>8, <2>1, <2>2 DEF PublishBackfill, TypeOK, buffer, DrainRecord, ResultSeq
  <1>9. CASE ReplayEnds
    <2>1. drain' \in DrainRecord
      BY <1>9, <1>0 DEF ReplayEnds, DrainRecord, DrainStates
    <2> QED  BY <1>9, <2>1, DrainOnlyTypes DEF ReplayEnds
  <1>10. CASE RemoveSegment
    <2>1. drain' \in DrainRecord
      BY <1>10, <1>0 DEF RemoveSegment, DrainRecord, DrainStates
    <2>2. CASE StillOldest
      <3>1. segs' \in Seq(Segment)
        BY <1>10, <2>2, HeadSegmentTypes DEF RemoveSegment, StillOldest
      <3>2. Unreplayed \in SUBSET Nat
        <4>1. \A i \in DOMAIN segs : Range(segs[i].lines) \subseteq Nat
          <5>1. SUFFICES ASSUME NEW i \in DOMAIN segs PROVE Range(segs[i].lines) \subseteq Nat
            OBVIOUS
          <5>2. segs[i] \in Segment
            BY DEF TypeOK
          <5> QED  BY <5>2, RangeOfSeqs DEF Segment
        <4> QED  BY <4>1 DEF Unreplayed
      <3>3. fate' \in [Fates -> SUBSET Nat]
        <4>1. \E f \in {"unread", "behind"} : Mark(f, Unreplayed)
          BY <1>10, <2>2, Zenon DEF RemoveSegment
        <4> QED  BY <4>1, <3>2, MarkTypes DEF Fates
      <3> QED  BY <1>10, <2>1, <3>1, <3>3 DEF RemoveSegment, TypeOK, DrainRecord, ResultSeq
    <2>3. CASE ~StillOldest
      BY <1>10, <2>1, <2>3 DEF RemoveSegment, TypeOK, DrainRecord, ResultSeq
    <2> QED  BY <2>2, <2>3
  <1>11. CASE ReplayFails
    <2>1. budget' \in [Kinds -> Nat]
      BY <1>11, SpendTypes DEF ReplayFails, Kinds
    <2> QED  BY <1>11, <1>0, <2>1 DEF ReplayFails, TypeOK, buffer, DrainRecord, ResultSeq
  <1>12. CASE Rebuffer
    <2>1. budget' \in [Kinds -> Nat]
      <3>1. "publish" \in Kinds
        BY DEF Kinds
      <3>2. CASE conn
        BY <1>12, <3>1, <3>2, SpendTypes DEF Rebuffer
      <3>3. CASE ~conn
        BY <1>12, <3>3 DEF Rebuffer, TypeOK
      <3> QED  BY <3>2, <3>3
    <2>2. mem' \in ResultSeq
      BY <1>12, <1>0, ConcatProperties DEF Rebuffer, TypeOK, DrainRecord, ResultSeq
    <2> QED  BY <1>12, <1>0, <2>1, <2>2 DEF Rebuffer, TypeOK, DrainRecord, ResultSeq
  <1> QED  BY <1>1, <1>2, <1>3, <1>4, <1>5, <1>6, <1>7, <1>8, <1>9, <1>10, <1>11, <1>12
           DEF Draining

LEMMA SubmitTypes == TypeOK /\ (SubmitLive \/ Enqueue) => TypeOK'
  <1> SUFFICES ASSUME TypeOK, SubmitLive \/ Enqueue PROVE TypeOK'
    OBVIOUS
  <1>1. next' \in Nat \ {0} /\ next \in Nat \ {0}
    BY DEF SubmitLive, Enqueue, Submitted, TypeOK
  <1>2. CASE SubmitLive
    <2>1. fate' \in [Fates -> SUBSET Nat]
      BY <1>1, <1>2, MarkTypes DEF SubmitLive, Fates
    <2>2. budget' \in [Kinds -> Nat]
      <3>1. "publish" \in Kinds
        BY DEF Kinds
      <3>2. CASE Spend("publish")
        BY <3>1, <3>2, SpendTypes
      <3>3. CASE UNCHANGED budget
        BY <3>3 DEF TypeOK
      <3> QED  BY <1>2, <3>2, <3>3 DEF SubmitLive
    <2> QED  BY <1>1, <1>2, <2>1, <2>2 DEF SubmitLive, TypeOK, buffer
  <1>3. CASE Enqueue
    <2>1. mem' \in ResultSeq
      BY <1>1, <1>3, AppendFacts DEF Enqueue, TypeOK, ResultSeq
    <2>2. /\ lock' \in {"free", "spill", "trim"}
          /\ lock' = "spill" => Len(mem') > MemMax
      BY <1>3, <2>1, PushTypes DEF Enqueue
    <2> QED  BY <1>1, <1>3, <2>1, <2>2 DEF Enqueue, TypeOK, ResultSeq
  <1> QED  BY <1>2, <1>3

LEMMA DisturbanceTypes == TypeOK /\ Disturbance => TypeOK'
  <1> SUFFICES ASSUME TypeOK, Disturbance PROVE TypeOK'
    OBVIOUS
  <1>0. budget' \in [Kinds -> Nat]
    <2>1. CASE UNCHANGED budget
      BY <2>1 DEF TypeOK
    <2>2. CASE \E k \in Kinds : Spend(k)
      BY <2>2, SpendTypes
    <2> QED  BY <2>1, <2>2 DEF Disturbance, Cut, Reconnect, Age, Unreadable, Restart, Kinds
  <1>1. CASE Cut \/ Reconnect
    BY <1>0, <1>1 DEF Cut, Reconnect, TypeOK, buffer
  <1>2. CASE Age
    BY <1>0, <1>2 DEF Age, TypeOK, buffer
  <1>3. CASE Unreadable
    <2>1. PICK i \in DOMAIN segs : segs' = [segs EXCEPT ![i].ok = FALSE]
      BY <1>3 DEF Unreadable
    <2>2. segs[i] \in Segment
      BY DEF TypeOK
    <2>4. [segs[i] EXCEPT !.ok = FALSE] \in Segment
      BY <2>2 DEF Segment
    <2>3. segs' \in Seq(Segment)
      BY <2>1, <2>2, <2>4, ExceptSeq DEF TypeOK
    <2> QED  BY <1>0, <1>3, <2>3 DEF Unreadable, TypeOK
  <1>4. CASE Restart
    <2>1. nextSeq' \in Nat
      <3>1. nextSeq' = SeqAfter(segs)
        BY <1>4 DEF Restart
      <3>2. CASE segs = <<>>
        BY <3>1, <3>2 DEF SeqAfter
      <3>3. CASE segs # <<>>
        <4>1. Len(segs) \in DOMAIN segs
          BY <3>3 DEF TypeOK
        <4>2. segs[Len(segs)] \in Segment
          BY <4>1 DEF TypeOK
        <4> QED  BY <3>1, <3>3, <4>2 DEF SeqAfter, Segment
      <3> QED  BY <3>2, <3>3
    <2>2. free' \in [cached : Readings \cup {NoAnswer}, probed : BOOLEAN, since : Nat]
      BY <1>4 DEF Restart
    <2>3. drain' \in DrainRecord
      BY <1>4, IdleTypes DEF Restart, DrainRecord, ResultSeq
    <2>4. Range(mem) \cup (IF drain.pc = "batch" THEN Range(drain.rest) ELSE {}) \in SUBSET Nat
      <3>1. Range(mem) \subseteq Nat /\ Range(drain.rest) \subseteq Nat
        BY RangeOfSeqs DEF TypeOK
      <3> QED  BY <3>1
    <2>5. fate' \in [Fates -> SUBSET Nat]
      <3>1. "process" \in Fates
        BY DEF Fates
      <3> QED  BY <1>4, <2>4, <3>1, MarkTypes DEF Restart
    <2>6. /\ mem' = <<>> /\ writer' = NoWriter /\ curBytes' = 0 /\ broken' = FALSE
          /\ lock' = "free" /\ UNCHANGED <<conn, segs, horizon, next>>
      BY <1>4 DEF Restart
    <2>7. /\ mem' \in Seq(Nat \ {0}) /\ segs' \in Seq(Segment)
          /\ horizon' \in Nat /\ next' \in Nat \ {0}
      BY <2>6 DEF TypeOK
    <2>8. conn' \in BOOLEAN /\ broken' \in BOOLEAN
      BY <2>6, Zenon DEF TypeOK
    <2> QED  BY <1>0, <2>1, <2>2, <2>3, <2>5, <2>6, <2>7, <2>8 DEF TypeOK, DrainRecord, ResultSeq
  <1> QED  BY <1>1, <1>2, <1>3, <1>4 DEF Disturbance

LEMMA NextTypes == TypeOK /\ [Next]_vars => TypeOK'
  <1>1. TypeOK /\ UNCHANGED vars => TypeOK'
    BY DEF TypeOK, vars, buffer
  <1> QED  BY <1>1, SpillTypes, DrainTypes, SubmitTypes, DisturbanceTypes DEF Next

(* The buffer's variables keep their types, and enqueue's loop pops from   *)
(* the ring only while it overflows: a pop never meets an empty ring       *)
(* (enqueue, spill_to_disk).                                               *)
THEOREM TypeCorrect == Spec => []TypeOK
  BY InitTypes, NextTypes, PTL DEF Spec

-----------------------------------------------------------------------------
(* The order of the ring.                                                  *)

(* What a step may do to the ring, the batch and the counter and leave     *)
(* them in order: nothing, as far as the batch is concerned;               *)
LEMMA RingFrame ==
  ASSUME TypeOK, RingInv, UNCHANGED <<mem, next>>,
         drain'.pc = "batch" => drain.pc = "batch" /\ drain'.rest = drain.rest
  PROVE  RingInv'
  BY DEF RingInv, RingOrdered

(* the oldest result leaves the ring;                                      *)
LEMMA RingPops ==
  ASSUME TypeOK, RingInv, mem # <<>>, mem' = Tail(mem), UNCHANGED <<next, drain>>
  PROVE  RingInv'
  <1>1. mem \in Seq(Nat \ {0})
    BY DEF TypeOK
  <1>2. /\ Len(mem) \in Nat \ {0} /\ DOMAIN mem = 1..Len(mem)
        /\ DOMAIN mem' = 1..(Len(mem) - 1)
        /\ \A i \in 1..(Len(mem) - 1) : mem'[i] = mem[i + 1]
    BY <1>1, TailFacts
  <1>3. \A i \in DOMAIN mem' : i + 1 \in DOMAIN mem /\ mem'[i] = mem[i + 1] /\ i \in Nat
    BY <1>2
  <1>4. \A i, j \in DOMAIN mem' : i < j => mem'[i] < mem'[j]
    BY <1>3 DEF RingInv, RingOrdered
  <1>5. \A i \in DOMAIN mem' : mem'[i] < next
    BY <1>3 DEF RingInv
  <1>6. drain.pc = "batch" =>
          \A i \in DOMAIN drain.rest, j \in DOMAIN mem' : drain.rest[i] < mem'[j]
    BY <1>3 DEF RingInv, RingOrdered
  <1> QED  BY <1>4, <1>5, <1>6 DEF RingInv, RingOrdered

(* a result is submitted, to the ring or past it.                          *)
LEMMA RingSubmits ==
  ASSUME TypeOK, RingInv, next' = next + 1, UNCHANGED drain,
         mem' = mem \/ mem' = Append(mem, next)
  PROVE  RingInv'
  <1>1. mem \in Seq(Nat \ {0}) /\ next \in Nat \ {0} /\ drain.rest \in Seq(Nat \ {0})
    BY DEF TypeOK
  <1>2. /\ \A i \in DOMAIN mem : mem[i] \in Nat /\ i \in 1..Len(mem)
        /\ \A i \in DOMAIN drain.rest : drain.rest[i] \in Nat
        /\ Len(mem) \in Nat /\ DOMAIN mem = 1..Len(mem)
    BY <1>1
  <1>3. CASE mem' = mem
    BY <1>1, <1>2, <1>3 DEF RingInv, RingOrdered
  <1>4. CASE mem' = Append(mem, next)
    <2>1. /\ DOMAIN mem' = 1..(Len(mem) + 1) /\ mem'[Len(mem) + 1] = next
          /\ \A i \in 1..Len(mem) : mem'[i] = mem[i]
      BY <1>1, <1>4, AppendFacts
    <2>2. \A i \in DOMAIN mem' :
             \/ i \in DOMAIN mem /\ mem'[i] = mem[i]
             \/ i = Len(mem) + 1 /\ mem'[i] = next
      BY <1>2, <2>1
    <2>3. \A i, j \in DOMAIN mem' : i < j => mem'[i] < mem'[j]
      BY <1>2, <2>1, <2>2 DEF RingInv, RingOrdered
    <2>4. \A i \in DOMAIN mem' : mem'[i] < next'
      <3>1. \A i \in DOMAIN mem : mem[i] < next
        BY DEF RingInv
      <3>2. \A i \in DOMAIN mem' : mem'[i] \in Nat /\ mem'[i] <= next
        BY <1>1, <1>2, <2>2, <3>1
      <3> QED  BY <1>1, <3>2
    <2>5. drain.pc = "batch" =>
            \A i \in DOMAIN drain.rest, j \in DOMAIN mem' : drain.rest[i] < mem'[j]
      BY <1>2, <2>2 DEF RingInv, RingOrdered
    <2>6. drain.pc = "batch" => \A i \in DOMAIN drain.rest : drain.rest[i] < next'
      BY <1>1, <1>2 DEF RingInv
    <2> QED  BY <2>3, <2>4, <2>5, <2>6 DEF RingInv, RingOrdered
  <1> QED  BY <1>3, <1>4

LEMMA RingAdvances ==
  ASSUME TypeOK, RingInv, drain.rest # <<>>, Advance, UNCHANGED <<mem, next>>
  PROVE  RingInv'
  <1>1. /\ drain.rest \in Seq(Nat \ {0})
        /\ drain'.pc = drain.pc /\ drain'.rest = Tail(drain.rest)
    BY DEF TypeOK, Advance
  <1>2. /\ Len(drain.rest) \in Nat \ {0} /\ DOMAIN drain.rest = 1..Len(drain.rest)
        /\ DOMAIN drain'.rest = 1..(Len(drain.rest) - 1)
        /\ \A i \in 1..(Len(drain.rest) - 1) : drain'.rest[i] = drain.rest[i + 1]
    BY <1>1, TailFacts
  <1>3. \A i \in DOMAIN drain'.rest :
          i + 1 \in DOMAIN drain.rest /\ drain'.rest[i] = drain.rest[i + 1] /\ i \in Nat
    BY <1>2
  <1>4. CASE drain.pc = "batch"
    <2>1. \A i, j \in DOMAIN drain'.rest : i < j => drain'.rest[i] < drain'.rest[j]
      BY <1>3, <1>4 DEF RingInv
    <2>2. \A i \in DOMAIN drain'.rest : drain'.rest[i] < next
      BY <1>3, <1>4 DEF RingInv
    <2>3. \A i \in DOMAIN drain'.rest, j \in DOMAIN mem : drain'.rest[i] < mem[j]
      BY <1>3, <1>4 DEF RingInv, RingOrdered
    <2> QED  BY <1>1, <2>1, <2>2, <2>3 DEF RingInv, RingOrdered
  <1>5. CASE drain.pc # "batch"
    BY <1>1, <1>5, RingFrame
  <1> QED  BY <1>4, <1>5

LEMMA RingTakes == TypeOK /\ RingInv /\ TakeBatch => RingInv'
  <1> SUFFICES ASSUME TypeOK, RingInv, TakeBatch PROVE RingInv'
    OBVIOUS
  <1> DEFINE n == BatchSize
             left == SubSeq(mem, n + 1, Len(mem))
             batch == SubSeq(mem, 1, n)
  <1>1. /\ mem' = left /\ next' = next
        /\ drain' = IF n = 0 THEN Idle
                    ELSE [Idle EXCEPT !.pc = "batch", !.cut = horizon, !.rest = batch]
    BY DEF TakeBatch, BatchSize
  <1>2. drain'.pc = "batch" => drain'.rest = batch
    BY <1>1 DEF Idle
  <1>3. /\ n \in Nat /\ Len(mem) \in Nat /\ n <= Len(mem)
        /\ left \in ResultSeq /\ batch \in ResultSeq
        /\ Len(batch) = n /\ Len(left) = Len(mem) - n
        /\ \A i \in 1..n : batch[i] = mem[i]
        /\ \A i \in 1..(Len(mem) - n) : left[i] = mem[n + i]
        /\ DOMAIN mem = 1..Len(mem)
    BY BatchFacts DEF TypeOK
  <1> HIDE DEF n, left, batch
  <1>4. DOMAIN batch = 1..n /\ DOMAIN left = 1..(Len(mem) - n)
    BY <1>3, RangeOfSeqs DEF ResultSeq
  <1>5. \A i \in DOMAIN left : i \in Nat /\ i > 0 /\ n + i \in DOMAIN mem /\ left[i] = mem[n + i]
    BY <1>3, <1>4
  <1>6. \A i \in DOMAIN batch : i \in Nat /\ i <= n /\ i \in DOMAIN mem /\ batch[i] = mem[i]
    BY <1>3, <1>4
  <1>7. \A i, j \in DOMAIN left : i < j => left[i] < left[j]
    BY <1>3, <1>5 DEF RingInv, RingOrdered
  <1>8. \A i, j \in DOMAIN batch : i < j => batch[i] < batch[j]
    BY <1>6 DEF RingInv, RingOrdered
  <1>9. \A i \in DOMAIN batch, j \in DOMAIN left : batch[i] < left[j]
    BY <1>3, <1>5, <1>6 DEF RingInv, RingOrdered
  <1>10. /\ \A i \in DOMAIN left : left[i] < next
         /\ \A i \in DOMAIN batch : batch[i] < next
    BY <1>5, <1>6 DEF RingInv
  <1> QED  BY <1>1, <1>2, <1>7, <1>8, <1>9, <1>10 DEF RingInv, RingOrdered

LEMMA RingTakesBack == TypeOK /\ RingInv /\ Rebuffer => RingInv'
  <1> SUFFICES ASSUME TypeOK, RingInv, Rebuffer PROVE RingInv'
    OBVIOUS
  <1>1. /\ mem' = drain.rest \o mem /\ next' = next /\ drain' = Idle /\ drain.pc = "batch"
        /\ mem \in Seq(Nat \ {0}) /\ drain.rest \in Seq(Nat \ {0})
    BY DEF Rebuffer, TypeOK
  <1> DEFINE k == Len(drain.rest)
             l == Len(mem)
  <1>2. /\ k \in Nat /\ l \in Nat /\ DOMAIN mem = 1..l /\ DOMAIN drain.rest = 1..k
        /\ DOMAIN mem' = 1..(k + l)
        /\ \A i \in 1..(k + l) : mem'[i] = IF i <= k THEN drain.rest[i] ELSE mem[i - k]
    BY <1>1, ConcatProperties
  <1> HIDE DEF k, l
  <1>3. \A i \in DOMAIN mem' :
          \/ i \in DOMAIN drain.rest /\ i <= k /\ i \in Nat /\ mem'[i] = drain.rest[i]
          \/ i - k \in DOMAIN mem /\ i > k /\ i \in Nat /\ mem'[i] = mem[i - k]
    BY <1>2
  <1>4. \A i, j \in DOMAIN mem' : i < j => mem'[i] < mem'[j]
    <2> SUFFICES ASSUME NEW i \in DOMAIN mem', NEW j \in DOMAIN mem', i < j
                 PROVE  mem'[i] < mem'[j]
      OBVIOUS
    <2>1. CASE i <= k /\ j <= k
      <3>1. \A a, b \in DOMAIN drain.rest : a < b => drain.rest[a] < drain.rest[b]
        BY <1>1 DEF RingInv
      <3>2. /\ i \in DOMAIN drain.rest /\ mem'[i] = drain.rest[i]
            /\ j \in DOMAIN drain.rest /\ mem'[j] = drain.rest[j]
        BY <1>2, <2>1
      <3> QED  BY <3>1, <3>2
    <2>2. CASE i <= k /\ j > k
      <3>1. \A a \in DOMAIN drain.rest, b \in DOMAIN mem : drain.rest[a] < mem[b]
        BY <1>1 DEF RingInv, RingOrdered
      <3>2. /\ i \in DOMAIN drain.rest /\ mem'[i] = drain.rest[i]
            /\ j - k \in DOMAIN mem /\ mem'[j] = mem[j - k]
        BY <1>2, <2>2
      <3> QED  BY <3>1, <3>2
    <2>3. CASE i > k /\ j > k
      <3>1. i - k \in DOMAIN mem /\ j - k \in DOMAIN mem /\ i - k < j - k
        BY <1>2, <1>3, <2>3
      <3> QED  BY <1>2, <1>3, <2>3, <3>1 DEF RingInv, RingOrdered
    <2> QED  BY <1>2, <2>1, <2>2, <2>3
  <1>5. \A i \in DOMAIN mem' : mem'[i] < next
    BY <1>1, <1>3 DEF RingInv
  <1>6. drain'.pc # "batch"
    BY <1>1 DEF Idle
  <1> QED  BY <1>1, <1>4, <1>5, <1>6 DEF RingInv, RingOrdered

LEMMA DrainLeavesBatch ==
  ASSUME TypeOK,
         DrainWake \/ PickSegment \/ DrainStops \/ RemoveSegment \/ ReplayFails
         \/ ReadSegment \/ CannotReadSegment \/ ReplayEnds
  PROVE  UNCHANGED <<mem, next, lock>> /\ drain'.pc # "batch"
  <1>0. drain \in DrainRecord
    BY DEF TypeOK, DrainRecord, ResultSeq
  <1>1. CASE DrainWake \/ DrainStops \/ ReplayFails
    BY <1>1 DEF DrainWake, DrainStops, ReplayFails, Idle, buffer
  <1>2. CASE PickSegment
    BY <1>2 DEF PickSegment, Idle, buffer
  <1>3. CASE RemoveSegment
    BY <1>3 DEF RemoveSegment, Idle
  <1>4. CASE ReadSegment
    BY <1>0, <1>4 DEF ReadSegment, buffer, DrainRecord
  <1>5. CASE CannotReadSegment
    BY <1>0, <1>5 DEF CannotReadSegment, buffer, DrainRecord
  <1>6. CASE ReplayEnds
    BY <1>0, <1>6 DEF ReplayEnds, Idle, buffer, DrainRecord
  <1> QED  BY <1>1, <1>2, <1>3, <1>4, <1>5, <1>6

LEMMA RingStep == TypeOK /\ RingInv /\ [Next]_vars => RingInv'
  <1> SUFFICES ASSUME TypeOK, RingInv, [Next]_vars PROVE RingInv'
    OBVIOUS
  <1>1. CASE SubmitLive \/ Enqueue
    BY <1>1, RingSubmits DEF SubmitLive, Enqueue, Submitted, buffer
  <1>2. CASE SpillNoDisk \/ SpillBelowFloor \/ SpillWrites \/ SpillFails
    BY <1>2, OverflowTypes, RingPops
       DEF SpillNoDisk, SpillBelowFloor, SpillWrites, SpillFails
  <1>3. CASE DropOldestSegment \/ SpillDone \/ Cut \/ Reconnect \/ Age \/ Unreadable \/ UNCHANGED vars
    BY <1>3, RingFrame
       DEF DropOldestSegment, SpillDone, Cut, Reconnect, Age, Unreadable, vars, buffer
  <1>4. CASE DrainWake \/ PickSegment \/ DrainStops \/ RemoveSegment \/ ReplayFails
             \/ ReadSegment \/ CannotReadSegment \/ ReplayEnds
    BY <1>4, DrainLeavesBatch, RingFrame
  <1>6. CASE TakeBatch
    BY <1>6, RingTakes
  <1>7. CASE SkipTooOld \/ PublishBackfill
    BY <1>7, RingAdvances DEF SkipTooOld, PublishBackfill, buffer
  <1>8. CASE Rebuffer
    BY <1>8, RingTakesBack
  <1>9. CASE Restart
    <2>1. mem' = <<>> /\ drain'.pc # "batch"
      BY <1>9 DEF Restart, Idle
    <2> QED  BY <2>1 DEF RingInv, RingOrdered
  <1> QED  BY <1>1, <1>2, <1>3, <1>4, <1>6, <1>7, <1>8, <1>9
           DEF Next, Spilling, Draining, Disturbance

LEMMA RingInit == Init => RingInv
  BY DEF Init, RingInv, RingOrdered, Idle

(* The ring keeps the order of arrival, whatever is spilled, taken out for *)
(* replay or put back by a replay that failed half way: a batch in flight  *)
(* is older than everything that has arrived since (drain_round, enqueue). *)
THEOREM ArrivalOrderKept == Spec => []RingOrdered
  <1>1. RingInv => RingOrdered
    BY DEF RingInv
  <1> QED  BY <1>1, RingInit, RingStep, TypeCorrect, PTL DEF Spec

-----------------------------------------------------------------------------
(* The order of the segments.                                              *)

SameNumbers(ss, tt) ==
  /\ Len(tt) = Len(ss) /\ tt \in Seq(Segment)
  /\ \A i \in 1..Len(ss) : tt[i].seq = ss[i].seq

LEMMA SegmentTypes ==
  ASSUME TypeOK
  PROVE  /\ Len(segs) \in Nat /\ DOMAIN segs = 1..Len(segs)
         /\ \A i \in 1..Len(segs) :
              /\ segs[i] \in Segment /\ segs[i].seq \in Nat
              /\ segs[i].lines \in ResultSeq /\ Len(segs[i].lines) \in Nat
  <1>1. Len(segs) \in Nat /\ DOMAIN segs = 1..Len(segs) /\ segs \in Seq(Segment)
    BY DEF TypeOK
  <1>2. \A i \in 1..Len(segs) : segs[i] \in Segment
    BY <1>1
  <1>3. \A s \in Segment : s.seq \in Nat /\ s.lines \in ResultSeq
    BY DEF Segment, ResultSeq
  <1>4. \A l \in ResultSeq : Len(l) \in Nat
    BY DEF ResultSeq
  <1> QED  BY <1>1, <1>2, <1>3, <1>4

LEMMA LinesNumbers ==
  ASSUME NEW ss \in Seq(Segment), NEW seq, NEW r \in Nat \ {0}
  PROVE  SameNumbers(ss, AppendLine(ss, seq, r))
  BY LinesTypes DEF SameNumbers

(* No segment comes or goes, and the writer stays or is given up.          *)
LEMMA SegmentsFrame ==
  ASSUME TypeOK, SegmentsInv, SameNumbers(segs, segs'),
         writer' \in {writer, NoWriter}, nextSeq' \in Nat, nextSeq <= nextSeq'
  PROVE  SegmentsInv'
  <1>1. /\ Len(segs) \in Nat /\ DOMAIN segs = 1..Len(segs) /\ DOMAIN segs' = 1..Len(segs)
        /\ Len(segs') = Len(segs) /\ nextSeq \in Nat
        /\ \A i \in 1..Len(segs) : segs'[i].seq = segs[i].seq /\ segs[i].seq \in Nat
    BY SegmentTypes DEF SameNumbers, TypeOK
  <1>2. \A i, j \in DOMAIN segs' : i < j => segs'[i].seq < segs'[j].seq
    BY <1>1 DEF SegmentsInv, SegmentsOrdered
  <1>3. \A i \in DOMAIN segs' : segs'[i].seq < nextSeq'
    <2>1. \A i \in DOMAIN segs : segs[i].seq < nextSeq
      BY DEF SegmentsInv, SegmentsOrdered
    <2> QED  BY <1>1, <2>1
  <1>4. \A i \in DOMAIN segs' : segs'[i].seq = writer' => i = Len(segs')
    BY <1>1, ConfigAssumption DEF SegmentsInv, SegmentsOrdered
  <1>5. writer' # NoWriter => writer' < nextSeq'
    <2>1. writer # NoWriter => writer \in Nat /\ writer < nextSeq
      BY DEF SegmentsInv, TypeOK
    <2> QED  BY <1>1, <2>1
  <1> QED  BY <1>2, <1>3, <1>4, <1>5 DEF SegmentsInv, SegmentsOrdered

(* The oldest segment goes.                                                *)
LEMMA SegmentsDrop ==
  ASSUME TypeOK, SegmentsInv, segs # <<>>, segs' = Tail(segs), UNCHANGED <<writer, nextSeq>>
  PROVE  SegmentsInv'
  <1>1. /\ Len(segs) \in Nat \ {0} /\ DOMAIN segs = 1..Len(segs)
        /\ DOMAIN segs' = 1..(Len(segs) - 1) /\ Len(segs') = Len(segs) - 1
        /\ \A i \in 1..(Len(segs) - 1) : segs'[i] = segs[i + 1]
    BY TailFacts DEF TypeOK
  <1>2. \A i \in DOMAIN segs' : i \in Nat /\ i + 1 \in DOMAIN segs /\ segs'[i] = segs[i + 1]
    BY <1>1
  <1>3. \A i, j \in DOMAIN segs' : i < j => segs'[i].seq < segs'[j].seq
    BY <1>2 DEF SegmentsInv, SegmentsOrdered
  <1>4. \A i \in DOMAIN segs' : segs'[i].seq < nextSeq
    BY <1>2 DEF SegmentsInv, SegmentsOrdered
  <1>5. \A i \in DOMAIN segs' : segs'[i].seq = writer => i = Len(segs')
    <2>1. \A i \in DOMAIN segs : segs[i].seq = writer => i = Len(segs)
      BY DEF SegmentsInv, SegmentsOrdered
    <2> QED  BY <1>1, <1>2, <2>1
  <1> QED  BY <1>3, <1>4, <1>5 DEF SegmentsInv, SegmentsOrdered

(* A new segment takes the next number.                                    *)
LEMMA SegmentsGrow ==
  ASSUME TypeOK, SegmentsInv, SameNumbers(Append(segs, NewSegment), segs'),
         writer' \in {nextSeq, NoWriter}, nextSeq' = nextSeq + 1
  PROVE  SegmentsInv'
  <1>0. NewSegment.seq = nextSeq /\ NewSegment \in Segment /\ nextSeq \in Nat
    BY NewSegmentTypes DEF NewSegment, TypeOK
  <1> DEFINE ss == Append(segs, NewSegment)
             l == Len(segs)
  <1>1. /\ Len(ss) = l + 1 /\ l \in Nat
        /\ \A i \in 1..l : ss[i] = segs[i]
        /\ ss[l + 1] = NewSegment
    BY <1>0, AppendFacts DEF TypeOK
  <1>2. /\ DOMAIN segs' = 1..(l + 1) /\ Len(segs') = l + 1
        /\ \A i \in 1..(l + 1) : segs'[i].seq = ss[i].seq
    BY <1>1 DEF SameNumbers
  <1>3. DOMAIN segs = 1..l /\ \A i \in 1..l : segs[i].seq \in Nat
    BY SegmentTypes
  <1> HIDE DEF ss, l
  <1>4. \A i \in DOMAIN segs' :
          \/ i \in DOMAIN segs /\ i \in 1..l /\ segs'[i].seq = segs[i].seq /\ segs[i].seq \in Nat
          \/ i = l + 1 /\ segs'[i].seq = nextSeq
    BY <1>0, <1>1, <1>2, <1>3
  <1>5. /\ \A i, j \in DOMAIN segs : i < j => segs[i].seq < segs[j].seq
        /\ \A i \in DOMAIN segs : segs[i].seq < nextSeq
    BY DEF SegmentsInv, SegmentsOrdered
  <1>6. \A i, j \in DOMAIN segs' : i < j => segs'[i].seq < segs'[j].seq
    BY <1>1, <1>2, <1>4, <1>5
  <1>7. \A i \in DOMAIN segs' : segs'[i].seq < nextSeq'
    BY <1>0, <1>4, <1>5
  <1>8. \A i \in DOMAIN segs' : segs'[i].seq = writer' => i = Len(segs')
    BY <1>0, <1>2, <1>4, <1>5, ConfigAssumption
  <1>9. writer' # NoWriter => writer' < nextSeq'
    BY <1>0
  <1> QED  BY <1>6, <1>7, <1>8, <1>9 DEF SegmentsInv, SegmentsOrdered

LEMMA SegmentsSpill == TypeOK /\ SegmentsInv /\ SpillWrites => SegmentsInv'
  <1> SUFFICES ASSUME TypeOK, SegmentsInv, SpillWrites PROVE SegmentsInv'
    OBVIOUS
  <1>1. Head(mem) \in Nat \ {0}
    BY OverflowTypes DEF SpillWrites
  <1>2. CASE Rotates
    <2>1. /\ segs' = AppendLine(Append(segs, NewSegment), nextSeq, Head(mem))
          /\ writer' = nextSeq /\ nextSeq' = nextSeq + 1
      BY <1>2 DEF SpillWrites
    <2>2. SameNumbers(Append(segs, NewSegment), segs')
      BY <1>1, <2>1, NewSegmentTypes, LinesNumbers
    <2> QED  BY <2>1, <2>2, SegmentsGrow
  <1>3. CASE ~Rotates
    <2>1. /\ segs' = AppendLine(segs, writer, Head(mem))
          /\ writer' = writer /\ nextSeq' = nextSeq
      BY <1>3 DEF SpillWrites
    <2>2. SameNumbers(segs, segs')
      BY <1>1, <2>1, LinesNumbers DEF TypeOK
    <2> QED  BY <2>1, <2>2, SegmentsFrame DEF TypeOK
  <1> QED  BY <1>2, <1>3

LEMMA SegmentsSpillFails == TypeOK /\ SegmentsInv /\ SpillFails => SegmentsInv'
  <1> SUFFICES ASSUME TypeOK, SegmentsInv, SpillFails PROVE SegmentsInv'
    OBVIOUS
  <1>1. PICK opened \in BOOLEAN :
          segs' = IF Rotates /\ opened THEN Append(segs, NewSegment) ELSE segs
    BY DEF SpillFails
  <1>2. writer' = NoWriter /\ nextSeq' = (IF Rotates THEN nextSeq + 1 ELSE nextSeq) /\ nextSeq \in Nat
    BY DEF SpillFails, TypeOK
  <1>3. CASE Rotates /\ opened
    <2>1. SameNumbers(Append(segs, NewSegment), segs')
      BY <1>1, <1>3, NewSegmentTypes DEF SameNumbers
    <2> QED  BY <1>2, <1>3, <2>1, SegmentsGrow
  <1>4. CASE ~(Rotates /\ opened)
    <2>1. SameNumbers(segs, segs')
      BY <1>1, <1>4 DEF SameNumbers, TypeOK
    <2>2. nextSeq' \in Nat /\ nextSeq <= nextSeq'
      BY <1>2
    <2> QED  BY <1>2, <2>1, <2>2, SegmentsFrame
  <1> QED  BY <1>3, <1>4

LEMMA SegmentsRestart == TypeOK /\ SegmentsInv /\ Restart => SegmentsInv'
  <1> SUFFICES ASSUME TypeOK, SegmentsInv, Restart PROVE SegmentsInv'
    OBVIOUS
  <1>1. segs' = segs /\ writer' = NoWriter /\ nextSeq' = SeqAfter(segs)
    BY DEF Restart
  <1>2. /\ Len(segs) \in Nat /\ DOMAIN segs = 1..Len(segs)
        /\ \A i \in 1..Len(segs) : segs[i].seq \in Nat
    BY SegmentTypes
  <1>3. /\ \A i, j \in DOMAIN segs : i < j => segs[i].seq < segs[j].seq
    BY DEF SegmentsInv, SegmentsOrdered
  <1>4. \A i \in DOMAIN segs : segs[i].seq < nextSeq'
    <2>1. CASE segs = <<>>
      BY <2>1
    <2>2. CASE segs # <<>>
      <3>1. nextSeq' = segs[Len(segs)].seq + 1 /\ Len(segs) \in DOMAIN segs
        BY <1>1, <1>2, <2>2 DEF SeqAfter, TypeOK
      <3>2. \A i \in DOMAIN segs : i = Len(segs) \/ i < Len(segs)
        BY <1>2
      <3> QED  BY <1>2, <1>3, <3>1, <3>2
    <2> QED  BY <2>1, <2>2
  <1>5. \A i \in DOMAIN segs : segs[i].seq # NoWriter
    BY <1>2, ConfigAssumption
  <1> QED  BY <1>1, <1>3, <1>4, <1>5 DEF SegmentsInv, SegmentsOrdered

LEMMA SegmentsStep == TypeOK /\ SegmentsInv /\ [Next]_vars => SegmentsInv'
  <1> SUFFICES ASSUME TypeOK, SegmentsInv, [Next]_vars PROVE SegmentsInv'
    OBVIOUS
  <1>1. CASE UNCHANGED <<segs, writer, nextSeq>>
    BY <1>1 DEF SegmentsInv, SegmentsOrdered
  <1>2. CASE SpillWrites
    BY <1>2, SegmentsSpill
  <1>3. CASE SpillFails
    BY <1>3, SegmentsSpillFails
  <1>4. CASE DropOldestSegment
    <2>1. segs # <<>>
      BY <1>4 DEF DropOldestSegment, OverCap, TypeOK
    <2> QED  BY <1>4, <2>1, SegmentsDrop DEF DropOldestSegment
  <1>5. CASE RemoveSegment
    <2>1. CASE StillOldest
      BY <1>5, <2>1, SegmentsDrop DEF RemoveSegment, StillOldest
    <2>2. CASE ~StillOldest
      BY <1>5, <2>2, <1>1 DEF RemoveSegment
    <2> QED  BY <2>1, <2>2
  <1>6. CASE Unreadable
    <2>1. PICK k \in DOMAIN segs : segs' = [segs EXCEPT ![k].ok = FALSE]
      BY <1>6 DEF Unreadable
    <2>2. \A i \in DOMAIN segs : segs'[i].seq = segs[i].seq
      <3> SUFFICES ASSUME NEW i \in DOMAIN segs PROVE segs'[i].seq = segs[i].seq
        OBVIOUS
      <3>1. segs[i] \in Segment
        BY SegmentTypes
      <3> QED  BY <2>1, <3>1 DEF Segment
    <2>3. segs' \in Seq(Segment) /\ Len(segs') = Len(segs)
      BY <2>1, NextTypes DEF TypeOK
    <2>4. SameNumbers(segs, segs')
      BY <2>2, <2>3, SegmentTypes DEF SameNumbers
    <2> QED  BY <1>6, <2>4, SegmentsFrame DEF Unreadable, TypeOK
  <1>7. CASE Restart
    BY <1>7, SegmentsRestart
  <1>8. CASE SubmitLive \/ Enqueue \/ SpillNoDisk \/ SpillBelowFloor \/ SpillDone
    BY <1>1, <1>8 DEF SubmitLive, Enqueue, SpillNoDisk, SpillBelowFloor, SpillDone, buffer
  <1>9. CASE DrainWake \/ PickSegment \/ TakeBatch \/ DrainStops \/ ReadSegment
             \/ CannotReadSegment \/ SkipTooOld \/ PublishBackfill \/ ReplayEnds
             \/ ReplayFails \/ Rebuffer
    BY <1>1, <1>9 DEF DrainWake, PickSegment, TakeBatch, DrainStops, ReadSegment,
       CannotReadSegment, SkipTooOld, PublishBackfill, ReplayEnds, ReplayFails, Rebuffer, buffer
  <1>10. CASE Cut \/ Reconnect \/ Age \/ UNCHANGED vars
    BY <1>1, <1>10 DEF Cut, Reconnect, Age, vars, buffer
  <1> QED  BY <1>2, <1>3, <1>4, <1>5, <1>6, <1>7, <1>8, <1>9, <1>10
           DEF Next, Spilling, Draining, Disturbance

LEMMA SegmentsInit == Init => SegmentsInv
  BY DEF Init, SegmentsInv, SegmentsOrdered

(* Segments keep the order of their numbers across spills, drops, replays  *)
(* and restarts, and the writer never appends to any but the newest: a     *)
(* restart cannot give out the number of a file still on disk (new,        *)
(* write_spill_line, remove_segment).                                      *)
THEOREM SegmentNumbersSound == Spec => []SegmentsOrdered
  <1>1. SegmentsInv => SegmentsOrdered
    BY DEF SegmentsInv
  <1> QED  BY <1>1, SegmentsInit, SegmentsStep, TypeCorrect, PTL DEF Spec

-----------------------------------------------------------------------------
(* The bound of the ring.                                                  *)

LEMMA MemTypes ==
  ASSUME TypeOK
  PROVE  /\ Len(mem) \in Nat /\ Len(drain.rest) \in Nat
         /\ MemMax \in Nat \ {0} /\ Batch \in Nat \ {0}
         /\ lock = "spill" => Len(mem) > MemMax
  BY ConfigAssumption DEF TypeOK

LEMMA MemFrame ==
  ASSUME MemInv, UNCHANGED <<mem, lock>>,
         drain'.pc = "batch" => drain.pc = "batch" /\ drain'.rest = drain.rest
  PROVE  MemInv'
  BY DEF MemInv, MemBounded

LEMMA MemPops ==
  ASSUME TypeOK, MemInv, lock = "spill", mem' = Tail(mem), UNCHANGED drain,
         lock' \in {"trim", AfterPush(mem')}
  PROVE  MemInv'
  <1>1. Len(mem') = Len(mem) - 1
    BY OverflowTypes, TailFacts DEF TypeOK
  <1>2. Len(mem) <= MemMax + Batch + 1 /\ (drain.pc = "batch" => Len(mem) <= MemMax + 1)
    BY DEF MemInv, MemBounded
  <1>3. Len(mem') <= MemMax + Batch /\ (drain.pc = "batch" => Len(mem') <= MemMax)
    BY <1>1, <1>2, MemTypes
  <1>4. lock' = "spill" => Len(mem') > MemMax
    BY DEF AfterPush
  <1> QED  BY <1>1, <1>3, <1>4, MemTypes DEF MemInv, MemBounded

LEMMA MemEnqueues == TypeOK /\ MemInv /\ Enqueue => MemInv'
  <1> SUFFICES ASSUME TypeOK, MemInv, Enqueue PROVE MemInv'
    OBVIOUS
  <1>1. Len(mem') = Len(mem) + 1
    BY AppendFacts DEF Enqueue, TypeOK
  <1>2. /\ Len(mem) <= MemMax + Batch /\ (drain.pc = "batch" => Len(mem) <= MemMax)
    BY DEF MemInv, MemBounded, Enqueue
  <1>3. IF Len(mem') > MemMax THEN lock' = "spill" ELSE lock' = "free"
    BY DEF Enqueue, AfterPush
  <1>4. drain' = drain
    BY DEF Enqueue
  <1> QED  BY <1>1, <1>2, <1>3, <1>4, MemTypes DEF MemInv, MemBounded

LEMMA MemSpillDone == TypeOK /\ MemInv /\ SpillDone => MemInv'
  <1> SUFFICES ASSUME TypeOK, MemInv, SpillDone PROVE MemInv'
    OBVIOUS
  <1>1. /\ Len(mem) <= MemMax + Batch /\ (drain.pc = "batch" => Len(mem) <= MemMax)
    BY DEF MemInv, MemBounded, SpillDone
  <1>2. IF Len(mem) > MemMax THEN lock' = "spill" ELSE lock' = "free"
    BY DEF SpillDone, AfterPush
  <1>3. UNCHANGED <<mem, drain>>
    BY DEF SpillDone, buffer
  <1> QED  BY <1>1, <1>2, <1>3, MemTypes DEF MemInv, MemBounded

LEMMA MemTakes == TypeOK /\ MemInv /\ TakeBatch => MemInv'
  <1> SUFFICES ASSUME TypeOK, MemInv, TakeBatch PROVE MemInv'
    OBVIOUS
  <1>1. /\ mem' = SubSeq(mem, BatchSize + 1, Len(mem)) /\ lock = "free" /\ lock' = "free"
        /\ drain' = IF BatchSize = 0 THEN Idle
                    ELSE [Idle EXCEPT !.pc = "batch", !.cut = horizon,
                                      !.rest = SubSeq(mem, 1, BatchSize)]
    BY DEF TakeBatch, BatchSize
  <1>2. /\ BatchSize \in Nat /\ BatchSize <= Batch
        /\ Len(mem') = Len(mem) - BatchSize
        /\ Len(SubSeq(mem, 1, BatchSize)) = BatchSize
    BY <1>1, BatchFacts
  <1>3. drain'.pc = "batch" => Len(drain'.rest) = BatchSize
    BY <1>1, <1>2 DEF Idle
  <1>4. Len(mem) <= MemMax + Batch
    BY <1>1 DEF MemInv, MemBounded
  <1>5. Len(mem') <= MemMax
    <2>1. BatchSize = Len(mem) \/ BatchSize = Batch
      BY DEF BatchSize
    <2> QED  BY <1>2, <1>4, <2>1, MemTypes
  <1>6. Len(mem') \in Nat /\ Len(mem') <= MemMax + Batch
    BY <1>2, <1>5, BatchFacts, MemTypes
  <1> QED  BY <1>1, <1>2, <1>3, <1>5, <1>6 DEF MemInv, MemBounded

LEMMA MemTakesBack == TypeOK /\ MemInv /\ Rebuffer => MemInv'
  <1> SUFFICES ASSUME TypeOK, MemInv, Rebuffer PROVE MemInv'
    OBVIOUS
  <1>1. Len(mem') = Len(drain.rest) + Len(mem)
    BY ConcatProperties DEF Rebuffer, TypeOK
  <1>2. Len(drain.rest) <= Batch /\ Len(mem) <= MemMax
    BY DEF MemInv, MemBounded, Rebuffer
  <1>3. lock' = "free" /\ drain'.pc # "batch"
    BY DEF Rebuffer, Idle
  <1> QED  BY <1>1, <1>2, <1>3, MemTypes DEF MemInv, MemBounded

LEMMA MemAdvances ==
  ASSUME TypeOK, MemInv, drain.rest # <<>>, Advance, UNCHANGED <<mem, lock>>
  PROVE  MemInv'
  <1>1. drain'.pc = drain.pc /\ Len(drain'.rest) = Len(drain.rest) - 1
    BY TailFacts DEF TypeOK, Advance
  <1> QED  BY <1>1, MemTypes DEF MemInv, MemBounded

LEMMA MemStep == TypeOK /\ MemInv /\ [Next]_vars => MemInv'
  <1> SUFFICES ASSUME TypeOK, MemInv, [Next]_vars PROVE MemInv'
    OBVIOUS
  <1>1. CASE SubmitLive \/ DropOldestSegment \/ Cut \/ Reconnect \/ Age \/ Unreadable \/ UNCHANGED vars
    <2>1. CASE DropOldestSegment
      BY <2>1, MemFrame DEF DropOldestSegment
    <2>2. CASE SubmitLive \/ Cut \/ Reconnect \/ Age \/ Unreadable \/ UNCHANGED vars
      BY <2>2, MemFrame DEF SubmitLive, Cut, Reconnect, Age, Unreadable, vars, buffer
    <2> QED  BY <1>1, <2>1, <2>2
  <1>2. CASE Enqueue
    BY <1>2, MemEnqueues
  <1>3. CASE SpillNoDisk \/ SpillBelowFloor \/ SpillWrites \/ SpillFails
    BY <1>3, MemPops DEF SpillNoDisk, SpillBelowFloor, SpillWrites, SpillFails
  <1>4. CASE SpillDone
    BY <1>4, MemSpillDone
  <1>5. CASE DrainWake \/ PickSegment \/ DrainStops \/ RemoveSegment \/ ReplayFails
             \/ ReadSegment \/ CannotReadSegment \/ ReplayEnds
    BY <1>5, DrainLeavesBatch, MemFrame
  <1>6. CASE TakeBatch
    BY <1>6, MemTakes
  <1>7. CASE SkipTooOld \/ PublishBackfill
    BY <1>7, MemAdvances DEF SkipTooOld, PublishBackfill, buffer
  <1>8. CASE Rebuffer
    BY <1>8, MemTakesBack
  <1>9. CASE Restart
    <2>1. mem' = <<>> /\ lock' = "free" /\ drain'.pc # "batch"
      BY <1>9 DEF Restart, Idle
    <2>2. Len(mem') = 0
      BY <2>1
    <2> QED  BY <2>1, <2>2, MemTypes DEF MemInv, MemBounded
  <1> QED  BY <1>1, <1>2, <1>3, <1>4, <1>5, <1>6, <1>7, <1>8, <1>9
           DEF Next, Spilling, Draining, Disturbance

LEMMA MemInit == Init => MemInv
  BY ConfigAssumption DEF Init, MemInv, MemBounded, Idle

(* However often a replay fails half way while results keep arriving, the  *)
(* ring holds at most mem_max results and one batch, and one result more   *)
(* only inside enqueue (drain_round's re-buffering, enqueue).              *)
THEOREM RingBounded == Spec => []MemBounded
  <1>1. MemInv => MemBounded
    BY DEF MemInv
  <1> QED  BY <1>1, MemInit, MemStep, TypeCorrect, PTL DEF Spec

-----------------------------------------------------------------------------
(* Nothing is lost unaccounted for.                                        *)

InMem(r) == r \in Range(mem)
OnDisk(r) == \E i \in DOMAIN segs : r \in Range(segs[i].lines)
InBatch(r) == drain.pc = "batch" /\ r \in Range(drain.rest)

LEMMA HeldParts ==
  /\ \A r : r \in Held <=> InMem(r) \/ OnDisk(r) \/ InBatch(r)
  /\ \A r : r \in Held' <=> InMem(r)' \/ OnDisk(r)' \/ InBatch(r)'
  <1>1. \A r : r \in Held <=> InMem(r) \/ OnDisk(r) \/ InBatch(r)
    <2>1. CASE drain.pc = "batch"
      <3>1. Held = Range(mem) \cup (UNION {Range(segs[i].lines) : i \in DOMAIN segs})
                   \cup Range(drain.rest)
        BY <2>1 DEF Held
      <3> QED  BY <2>1, <3>1 DEF InMem, OnDisk, InBatch
    <2>2. CASE drain.pc # "batch"
      BY <2>2, Zenon DEF Held, InMem, OnDisk, InBatch
    <2> QED  BY <2>1, <2>2
  <1>2. \A r : r \in Held' <=> InMem(r)' \/ OnDisk(r)' \/ InBatch(r)'
    <2>1. CASE drain'.pc = "batch"
      <3>1. Held' = Range(mem') \cup (UNION {Range(segs'[i].lines) : i \in DOMAIN segs'})
                   \cup Range(drain'.rest)
        BY <2>1 DEF Held
      <3> QED  BY <2>1, <3>1 DEF InMem, OnDisk, InBatch
    <2>2. CASE drain'.pc # "batch"
      BY <2>2, Zenon DEF Held, InMem, OnDisk, InBatch
    <2> QED  BY <2>1, <2>2
  <1> QED  BY <1>1, <1>2

LEMMA MarkAccounts ==
  ASSUME TypeOK, NEW f \in Fates, NEW rs, Mark(f, rs)
  PROVE  \A r : Accounted(r) \/ r \in rs => Accounted(r)'
  <1>1. fate \in [Fates -> SUBSET Nat] /\ fate' = [fate EXCEPT ![f] = @ \cup rs]
    BY DEF TypeOK, Mark
  <1>2. f \in Fates /\ fate'[f] = fate[f] \cup rs
    BY <1>1
  <1>3. \A g \in Fates : fate[g] \subseteq fate'[g]
    BY <1>1
  <1> QED  BY <1>2, <1>3 DEF Accounted

(* A result that has been accounted for stays so.                          *)
LEMMA AccountsKept ==
  ASSUME TypeOK, [Next]_vars
  PROVE  \A r : Accounted(r) => Accounted(r)'
  <1>1. CASE UNCHANGED fate
    BY <1>1 DEF Accounted
  <1>2. CASE \E f \in Fates : \E rs : Mark(f, rs)
    BY <1>2, MarkAccounts
  <1>3. CASE SubmitLive
    BY <1>2, <1>3 DEF SubmitLive, Fates
  <1>4. CASE SpillNoDisk \/ SpillBelowFloor \/ SpillFails \/ DropOldestSegment
    BY <1>2, <1>4 DEF SpillNoDisk, SpillBelowFloor, SpillFails, DropOldestSegment, Fates
  <1>5. CASE SpillWrites
    <2>1. \E rs : Mark("behind", rs)
      BY <1>5 DEF SpillWrites
    <2> QED  BY <1>2, <2>1 DEF Fates
  <1>6. CASE SkipTooOld \/ PublishBackfill
    BY <1>2, <1>6 DEF SkipTooOld, PublishBackfill, Fates
  <1>7. CASE RemoveSegment
    <2>1. CASE StillOldest
      <3>1. \E f \in {"unread", "behind"} : Mark(f, Unreplayed)
        BY <1>7, <2>1, Zenon DEF RemoveSegment
      <3> QED  BY <1>2, <3>1 DEF Fates
    <2>2. CASE ~StillOldest
      BY <1>1, <1>7, <2>2 DEF RemoveSegment
    <2> QED  BY <2>1, <2>2
  <1>8. CASE Restart
    <2>1. \E rs : Mark("process", rs)
      BY <1>8 DEF Restart
    <2> QED  BY <1>2, <2>1 DEF Fates
  <1>9. CASE Enqueue \/ SpillDone \/ Cut \/ Reconnect \/ Age \/ Unreadable \/ UNCHANGED vars
    BY <1>1, <1>9 DEF Enqueue, SpillDone, Cut, Reconnect, Age, Unreadable, vars
  <1>10. CASE DrainWake \/ PickSegment \/ TakeBatch \/ DrainStops \/ ReadSegment
              \/ CannotReadSegment \/ ReplayEnds \/ ReplayFails \/ Rebuffer
    BY <1>1, <1>10 DEF DrainWake, PickSegment, TakeBatch, DrainStops, ReadSegment,
       CannotReadSegment, ReplayEnds, ReplayFails, Rebuffer
  <1> QED  BY <1>3, <1>4, <1>5, <1>6, <1>7, <1>8, <1>9, <1>10
           DEF Next, Spilling, Draining, Disturbance

(* What the drain task read and has not sent is still before it.           *)
LEMMA ReplayFrame ==
  ASSUME ReplayInv, UNCHANGED drain, \A r : Accounted(r) => Accounted(r)'
  PROVE  ReplayInv'
  BY DEF ReplayInv

LEMMA ReplayAdvances ==
  ASSUME TypeOK, ReplayInv, drain.pc \in {"replay", "batch"}, drain.rest # <<>>, Advance,
         \A r : Accounted(r) \/ r = Head(drain.rest) => Accounted(r)'
  PROVE  ReplayInv'
  <1>1. /\ drain'.pc = drain.pc /\ drain'.read = drain.read /\ drain'.rest = Tail(drain.rest)
    BY DEF TypeOK, Advance
  <1>2. Range(drain.rest) = {Head(drain.rest)} \cup Range(drain'.rest)
    BY <1>1, TailFacts DEF TypeOK
  <1> QED  BY <1>1, <1>2 DEF ReplayInv

LEMMA ReplayStep == TypeOK /\ ReplayInv /\ [Next]_vars => ReplayInv'
  <1> SUFFICES ASSUME TypeOK, ReplayInv, [Next]_vars PROVE ReplayInv'
    OBVIOUS
  <1>0. drain \in DrainRecord /\ \A r : Accounted(r) => Accounted(r)'
    BY AccountsKept DEF TypeOK, DrainRecord, ResultSeq
  <1>1. CASE SubmitLive \/ Enqueue \/ Spilling \/ Cut \/ Reconnect \/ Age \/ Unreadable \/ UNCHANGED vars
    <2>1. UNCHANGED drain
      BY <1>1 DEF SubmitLive, Enqueue, Spilling, SpillNoDisk, SpillBelowFloor, SpillWrites,
                  SpillFails, DropOldestSegment, SpillDone, Cut, Reconnect, Age, Unreadable, vars
    <2> QED  BY <1>0, <2>1, ReplayFrame
  <1>2. CASE drain'.pc \in {"idle", "top", "batch"}
    BY <1>2 DEF ReplayInv
  <1>3. CASE DrainWake \/ DrainStops \/ ReplayFails \/ Rebuffer \/ RemoveSegment \/ Restart
    BY <1>2, <1>3 DEF DrainWake, DrainStops, ReplayFails, Rebuffer, RemoveSegment, Restart, Idle
  <1>4. CASE TakeBatch
    BY <1>2, <1>4 DEF TakeBatch, Idle
  <1>5. CASE PickSegment
    <2>1. drain'.pc = "read" /\ drain'.read = {}
      BY <1>5 DEF PickSegment, Idle
    <2> QED  BY <2>1 DEF ReplayInv
  <1>6. CASE ReadSegment
    <2>1. drain'.pc = "replay" /\ drain'.read = Range(drain'.rest)
      BY <1>0, <1>6 DEF ReadSegment, DrainRecord
    <2> QED  BY <2>1 DEF ReplayInv
  <1>7. CASE CannotReadSegment
    <2>1. drain.pc = "read" /\ drain'.pc = "giveup" /\ drain'.read = drain.read
      BY <1>0, <1>7 DEF CannotReadSegment, DrainRecord
    <2> QED  BY <2>1 DEF ReplayInv
  <1>8. CASE ReplayEnds
    <2>1. CASE drain.pc = "batch"
      BY <1>2, <1>8, <2>1 DEF ReplayEnds, Idle
    <2>2. CASE drain.pc = "replay"
      <3>1. drain'.pc = "remove" /\ drain'.read = drain.read /\ Range(drain.rest) = {}
        BY <1>0, <1>8, <2>2 DEF ReplayEnds, DrainRecord, Range
      <3> QED  BY <1>0, <2>2, <3>1 DEF ReplayInv
    <2> QED  BY <1>8, <2>1, <2>2 DEF ReplayEnds
  <1>9. CASE SkipTooOld \/ PublishBackfill
    <2>1. \E f \in Fates : Mark(f, {Head(drain.rest)})
      BY <1>9 DEF SkipTooOld, PublishBackfill, Fates
    <2>2. \A r : Accounted(r) \/ r = Head(drain.rest) => Accounted(r)'
      BY <2>1, MarkAccounts
    <2> QED  BY <1>9, <2>2, ReplayAdvances DEF SkipTooOld, PublishBackfill
  <1> QED  BY <1>1, <1>3, <1>4, <1>5, <1>6, <1>7, <1>8, <1>9 DEF Next, Draining, Disturbance

(* What is held before a step is held or accounted for after it.           *)
Keeps == \A r : r \in Held => r \in Held' \/ Accounted(r)'

LEMMA KeepsParts ==
  ASSUME \A r : InMem(r) => InMem(r)' \/ OnDisk(r)' \/ InBatch(r)' \/ Accounted(r)',
         \A r : OnDisk(r) => OnDisk(r)' \/ Accounted(r)',
         \A r : InBatch(r) => InMem(r)' \/ InBatch(r)' \/ Accounted(r)'
  PROVE  Keeps
  BY HeldParts DEF Keeps

(* The ring's oldest result goes to the disk or is accounted for.          *)
LEMMA KeepsPop ==
  ASSUME TypeOK, lock = "spill", mem' = Tail(mem), UNCHANGED drain,
         \A r : OnDisk(r) => OnDisk(r)',
         \A r : r = Head(mem) => OnDisk(r)' \/ Accounted(r)'
  PROVE  Keeps
  <1>1. Range(mem) = {Head(mem)} \cup Range(mem')
    BY OverflowTypes, TailFacts DEF TypeOK
  <1>2. \A r : InMem(r) => InMem(r)' \/ OnDisk(r)' \/ Accounted(r)'
    BY <1>1 DEF InMem
  <1>3. \A r : InBatch(r) => InBatch(r)'
    BY DEF InBatch
  <1> QED  BY <1>2, <1>3, KeepsParts

(* The oldest segment goes, accounted for.                                 *)
LEMMA KeepsDrop ==
  ASSUME TypeOK, segs # <<>>, segs' = Tail(segs), UNCHANGED mem,
         drain.pc = "batch" => UNCHANGED drain,
         \A r : r \in Range(Head(segs).lines) => Accounted(r)'
  PROVE  Keeps
  <1>1. /\ Len(segs) \in Nat \ {0} /\ DOMAIN segs = 1..Len(segs) /\ Head(segs) = segs[1]
        /\ DOMAIN segs' = 1..(Len(segs) - 1)
        /\ \A i \in 1..(Len(segs) - 1) : segs'[i] = segs[i + 1]
    BY TailFacts DEF TypeOK
  <1>2. \A r : OnDisk(r) => OnDisk(r)' \/ Accounted(r)'
    <2> SUFFICES ASSUME NEW r, NEW i \in DOMAIN segs, r \in Range(segs[i].lines)
                 PROVE  OnDisk(r)' \/ Accounted(r)'
      BY DEF OnDisk
    <2>1. CASE i = 1
      BY <1>1, <2>1
    <2>2. CASE i # 1
      <3>1. i - 1 \in DOMAIN segs' /\ i \in Nat /\ (i - 1) + 1 = i
        BY <1>1, <2>2
      <3>2. segs'[i - 1] = segs[i]
        BY <1>1, <3>1
      <3> QED  BY <3>1, <3>2 DEF OnDisk
    <2> QED  BY <2>1, <2>2
  <1>3. \A r : InMem(r) => InMem(r)'
    BY DEF InMem
  <1>4. \A r : InBatch(r) => InBatch(r)'
    BY DEF InBatch
  <1> QED  BY <1>2, <1>3, <1>4, KeepsParts

(* Nothing moves.                                                          *)
LEMMA KeepsFrame ==
  ASSUME UNCHANGED mem, DOMAIN segs' = DOMAIN segs,
         \A i \in DOMAIN segs : segs'[i].lines = segs[i].lines,
         drain.pc = "batch" => UNCHANGED drain \/ Range(drain.rest) = {}
  PROVE  Keeps
  <1>1. \A r : InMem(r) => InMem(r)'
    BY DEF InMem
  <1>2. \A r : OnDisk(r) => OnDisk(r)'
    BY DEF OnDisk
  <1>3. \A r : InBatch(r) => InBatch(r)'
    BY DEF InBatch
  <1> QED  BY <1>1, <1>2, <1>3, KeepsParts

LEMMA AppendRange ==
  ASSUME NEW l \in Seq(Nat \ {0}), NEW r \in Nat \ {0}
  PROVE  Range(Append(l, r)) = Range(l) \cup {r}
  BY AppendFacts

(* A spilled line is added to the segments of its number.                  *)
Joins(ss, seq, r, tt) ==
  /\ DOMAIN tt = DOMAIN ss
  /\ \A i \in DOMAIN ss :
       /\ ss[i].seq = seq => Range(tt[i].lines) = Range(ss[i].lines) \cup {r}
       /\ ss[i].seq # seq => Range(tt[i].lines) = Range(ss[i].lines)

LEMMA LinesHold ==
  ASSUME NEW ss \in Seq(Segment), NEW seq, NEW r \in Nat \ {0}
  PROVE  Joins(ss, seq, r, AppendLine(ss, seq, r))
  <1>1. DOMAIN ss = 1..Len(ss) /\ DOMAIN AppendLine(ss, seq, r) = 1..Len(ss)
    BY LinesTypes
  <1>2. ASSUME NEW i \in DOMAIN ss
        PROVE  /\ ss[i].seq = seq => Range(AppendLine(ss, seq, r)[i].lines) = Range(ss[i].lines) \cup {r}
               /\ ss[i].seq # seq => Range(AppendLine(ss, seq, r)[i].lines) = Range(ss[i].lines)
    <2>1. ss[i] \in Segment
      BY ElementOfSeq, <1>1
    <2>2. ss[i].lines \in Seq(Nat \ {0})
      BY <2>1 DEF Segment
    <2>3. Range(Append(ss[i].lines, r)) = Range(ss[i].lines) \cup {r}
      BY <2>2, AppendRange
    <2>4. AppendLine(ss, seq, r)[i].lines =
             IF ss[i].seq = seq THEN Append(ss[i].lines, r) ELSE ss[i].lines
      BY <1>1, LinesTypes
    <2> QED  BY <2>3, <2>4
  <1> QED  BY <1>1, <1>2 DEF Joins

LEMMA NewSegmentKeeps ==
  ASSUME TypeOK
  PROVE  \A i \in DOMAIN segs :
           i \in DOMAIN Append(segs, NewSegment) /\ Append(segs, NewSegment)[i] = segs[i]
  <1>1. /\ DOMAIN segs = 1..Len(segs) /\ Len(segs) \in Nat
        /\ DOMAIN Append(segs, NewSegment) = 1..(Len(segs) + 1)
        /\ \A i \in 1..Len(segs) : Append(segs, NewSegment)[i] = segs[i]
    <2>1. segs \in Seq(Segment) /\ NewSegment \in Segment
      BY NewSegmentTypes DEF TypeOK
    <2> QED  BY <2>1, AppendFacts, RangeOfSeqs
  <1> QED  BY <1>1

LEMMA EnqueueAppends ==
  ASSUME TypeOK, Enqueue
  PROVE  Range(mem') = Range(mem) \cup {next}
  <1>1. mem' = Append(mem, next) /\ mem \in Seq(Nat \ {0}) /\ next \in Nat \ {0}
    BY DEF Enqueue, TypeOK
  <1> QED  BY <1>1, AppendFacts

LEMMA KeepsSpill == TypeOK /\ SpillWrites => Keeps
  <1> SUFFICES ASSUME TypeOK, SpillWrites PROVE Keeps
    OBVIOUS
  <1>1. /\ lock = "spill" /\ mem' = Tail(mem) /\ UNCHANGED drain
        /\ Head(mem) \in Nat \ {0} /\ segs \in Seq(Segment)
    BY OverflowTypes DEF SpillWrites, TypeOK
  <1>2. PICK ss \in Seq(Segment), seq \in Nat \cup {NoWriter}, h \in Nat \ {0} :
          /\ h = Head(mem) /\ segs' = AppendLine(ss, seq, h)
          /\ \A i \in DOMAIN segs : i \in DOMAIN ss /\ ss[i] = segs[i]
          /\ Mark("behind", IF \E i \in DOMAIN ss : ss[i].seq = seq THEN {} ELSE {h})
    <2>1. CASE Rotates
      <3>1. /\ segs' = AppendLine(Append(segs, NewSegment), nextSeq, Head(mem))
            /\ Mark("behind", IF \E i \in DOMAIN Append(segs, NewSegment) :
                                    Append(segs, NewSegment)[i].seq = nextSeq
                               THEN {} ELSE {Head(mem)})
        BY <2>1 DEF SpillWrites
      <3>2. Append(segs, NewSegment) \in Seq(Segment) /\ nextSeq \in Nat \cup {NoWriter}
        BY NewSegmentTypes DEF TypeOK
      <3> QED  BY <1>1, <3>1, <3>2, NewSegmentKeeps, Zenon
    <2>2. CASE ~Rotates
      <3>1. /\ segs' = AppendLine(segs, writer, Head(mem))
            /\ Mark("behind", IF \E i \in DOMAIN segs : segs[i].seq = writer
                               THEN {} ELSE {Head(mem)})
        BY <2>2 DEF SpillWrites
      <3>2. writer \in Nat \cup {NoWriter}
        BY DEF TypeOK
      <3> QED  BY <1>1, <3>1, <3>2, Zenon
    <2> QED  BY <2>1, <2>2
  <1> DEFINE named == \E i \in DOMAIN ss : ss[i].seq = seq
  <1>3. Joins(ss, seq, h, segs')
    BY <1>2, LinesHold
  <1>4. \A r : OnDisk(r) => OnDisk(r)'
    BY <1>2, <1>3 DEF OnDisk, Joins
  <1>5. OnDisk(h)' \/ Accounted(h)'
    <2>1. CASE named
      BY <1>3, <2>1 DEF OnDisk, Joins
    <2>2. CASE ~named
      <3>1. Mark("behind", {h})
        BY <1>2, <2>2
      <3> QED  BY <3>1, MarkAccounts DEF Fates
    <2> QED  BY <2>1, <2>2
  <1> QED  BY <1>1, <1>2, <1>4, <1>5, KeepsPop

LEMMA KeepsSpillElse ==
  TypeOK /\ (SpillNoDisk \/ SpillBelowFloor \/ SpillFails) => Keeps
  <1> SUFFICES ASSUME TypeOK, SpillNoDisk \/ SpillBelowFloor \/ SpillFails PROVE Keeps
    OBVIOUS
  <1>1. /\ lock = "spill" /\ mem' = Tail(mem) /\ UNCHANGED drain
        /\ Mark("dropped", {Head(mem)})
    BY DEF SpillNoDisk, SpillBelowFloor, SpillFails
  <1>2. segs' = segs \/ segs' = Append(segs, NewSegment)
    BY DEF SpillNoDisk, SpillBelowFloor, SpillFails
  <1>3. \A r : OnDisk(r) => OnDisk(r)'
    <2>1. CASE segs' = segs
      BY <2>1 DEF OnDisk
    <2>2. CASE segs' = Append(segs, NewSegment)
      <3>1. \A i \in DOMAIN segs : i \in DOMAIN segs' /\ segs'[i] = segs[i]
        BY <2>2, NewSegmentKeeps
      <3> QED  BY <3>1 DEF OnDisk
    <2> QED  BY <1>2, <2>1, <2>2
  <1>4. \A r : r = Head(mem) => Accounted(r)'
    BY <1>1, MarkAccounts DEF Fates
  <1> QED  BY <1>1, <1>3, <1>4, KeepsPop

LEMMA KeepsTake == TypeOK /\ TakeBatch => Keeps
  <1> SUFFICES ASSUME TypeOK, TakeBatch PROVE Keeps
    OBVIOUS
  <1>1. /\ mem' = SubSeq(mem, BatchSize + 1, Len(mem)) /\ drain.pc = "top" /\ segs' = segs
        /\ drain' = IF BatchSize = 0 THEN Idle
                    ELSE [Idle EXCEPT !.pc = "batch", !.cut = horizon,
                                      !.rest = SubSeq(mem, 1, BatchSize)]
    BY DEF TakeBatch, BatchSize
  <1> DEFINE n == BatchSize
             batch == SubSeq(mem, 1, n)
  <1>2. /\ n \in Nat /\ Len(mem) \in Nat /\ n <= Len(mem) /\ DOMAIN mem = 1..Len(mem)
        /\ DOMAIN mem' = 1..(Len(mem) - n) /\ DOMAIN batch = 1..n
        /\ \A i \in 1..n : batch[i] = mem[i]
        /\ \A i \in 1..(Len(mem) - n) : mem'[i] = mem[n + i]
    <2>1. mem \in ResultSeq /\ mem' \in ResultSeq /\ batch \in ResultSeq
      BY <1>1, BatchFacts DEF TypeOK, ResultSeq
    <2>2. /\ DOMAIN mem = 1..Len(mem) /\ DOMAIN mem' = 1..Len(mem')
          /\ DOMAIN batch = 1..Len(batch)
      BY <2>1, RangeOfSeqs DEF ResultSeq
    <2> QED  BY <1>1, <2>2, BatchFacts
  <1>3. n # 0 => drain'.pc = "batch" /\ drain'.rest = batch
    BY <1>1 DEF Idle
  <1> HIDE DEF n, batch
  <1>4. ASSUME NEW i \in DOMAIN mem
        PROVE  mem[i] \in Range(mem') \/ (n # 0 /\ mem[i] \in Range(batch))
    <2>1. CASE i <= n
      BY <1>2, <2>1 DEF Range
    <2>2. CASE i > n
      <3>1. i - n \in DOMAIN mem' /\ mem'[i - n] = mem[i]
        BY <1>2, <2>2
      <3> QED  BY <3>1 DEF Range
    <2> QED  BY <1>2, <2>1, <2>2
  <1>5. \A r : InMem(r) => InMem(r)' \/ InBatch(r)'
    <2>1. \A r \in Range(mem) : \E i \in DOMAIN mem : r = mem[i]
      BY DEF Range
    <2> QED  BY <1>3, <1>4, <2>1 DEF InMem, InBatch
  <1>6. \A r : OnDisk(r) => OnDisk(r)'
    BY <1>1 DEF OnDisk
  <1>7. \A r : ~InBatch(r)
    BY <1>1 DEF InBatch
  <1> QED  BY <1>5, <1>6, <1>7, KeepsParts

LEMMA KeepsTakeBack == TypeOK /\ Rebuffer => Keeps
  <1> SUFFICES ASSUME TypeOK, Rebuffer PROVE Keeps
    OBVIOUS
  <1>1. mem' = drain.rest \o mem /\ segs' = segs
    BY DEF Rebuffer
  <1>2. Range(mem') = Range(drain.rest) \cup Range(mem)
    BY <1>1, RangeConcatenation DEF TypeOK
  <1>3. \A r : (InMem(r) => InMem(r)') /\ (InBatch(r) => InMem(r)')
    BY <1>2 DEF InMem, InBatch
  <1>4. \A r : OnDisk(r) => OnDisk(r)'
    BY <1>1 DEF OnDisk
  <1> QED  BY <1>3, <1>4, KeepsParts

LEMMA KeepsAdvance == TypeOK /\ (SkipTooOld \/ PublishBackfill) => Keeps
  <1> SUFFICES ASSUME TypeOK, SkipTooOld \/ PublishBackfill PROVE Keeps
    OBVIOUS
  <1>1. /\ drain.rest # <<>> /\ Advance /\ UNCHANGED <<mem, segs>>
        /\ \E f \in Fates : Mark(f, {Head(drain.rest)})
    BY DEF SkipTooOld, PublishBackfill, buffer, Fates
  <1>2. drain'.pc = drain.pc /\ Range(drain.rest) = {Head(drain.rest)} \cup Range(drain'.rest)
    BY <1>1, TailFacts DEF TypeOK, Advance
  <1>3. \A r : r = Head(drain.rest) => Accounted(r)'
    BY <1>1, MarkAccounts
  <1>4. \A r : InBatch(r) => InBatch(r)' \/ Accounted(r)'
    BY <1>2, <1>3 DEF InBatch
  <1>5. \A r : (InMem(r) => InMem(r)') /\ (OnDisk(r) => OnDisk(r)')
    BY <1>1 DEF InMem, OnDisk
  <1> QED  BY <1>4, <1>5, KeepsParts

LEMMA KeepsRemove == TypeOK /\ ReplayInv /\ RemoveSegment => Keeps
  <1> SUFFICES ASSUME TypeOK, ReplayInv, RemoveSegment PROVE Keeps
    OBVIOUS
  <1>0. drain.pc \in {"remove", "giveup"} /\ UNCHANGED mem
    BY DEF RemoveSegment
  <1>1. CASE StillOldest
    <2>1. segs # <<>> /\ Head(segs).seq = drain.seq /\ segs' = Tail(segs)
      BY <1>1 DEF RemoveSegment, StillOldest
    <2>2. \E f \in {"unread", "behind"} : Mark(f, Unreplayed)
      BY <1>1, Zenon DEF RemoveSegment
    <2>3. \A r : Accounted(r) \/ r \in Unreplayed => Accounted(r)'
      BY <2>2, MarkAccounts DEF Fates
    <2>4. Head(segs) = segs[1] /\ 1 \in DOMAIN segs
      BY <2>1, TailFacts DEF TypeOK
    <2>5. \A r \in Range(Head(segs).lines) : r \in Unreplayed \/ r \in drain.read
      BY <2>1, <2>4 DEF Unreplayed
    <2>6. \A r \in drain.read : Accounted(r)
      BY <1>0 DEF ReplayInv
    <2> QED  BY <1>0, <2>1, <2>3, <2>5, <2>6, KeepsDrop
  <1>2. CASE ~StillOldest
    <2>1. UNCHANGED segs
      BY <1>2 DEF RemoveSegment
    <2> QED  BY <1>0, <2>1, KeepsFrame
  <1> QED  BY <1>1, <1>2

LEMMA KeepsRestart == TypeOK /\ Restart => Keeps
  <1> SUFFICES ASSUME TypeOK, Restart PROVE Keeps
    OBVIOUS
  <1>1. /\ Mark("process", Range(mem) \cup IF drain.pc = "batch" THEN Range(drain.rest) ELSE {})
        /\ segs' = segs
    BY DEF Restart
  <1>2. \A r : r \in Range(mem) \cup (IF drain.pc = "batch" THEN Range(drain.rest) ELSE {})
                 => Accounted(r)'
    BY <1>1, MarkAccounts DEF Fates
  <1>3. \A r : InMem(r) \/ InBatch(r) => Accounted(r)'
    BY <1>2 DEF InMem, InBatch
  <1>4. \A r : OnDisk(r) => OnDisk(r)'
    BY <1>1 DEF OnDisk
  <1> QED  BY <1>3, <1>4, KeepsParts

LEMMA KeepsStep == TypeOK /\ ReplayInv /\ [Next]_vars => Keeps
  <1> SUFFICES ASSUME TypeOK, ReplayInv, [Next]_vars PROVE Keeps
    OBVIOUS
  <1>1. CASE SubmitLive \/ SpillDone \/ Cut \/ Reconnect \/ Age \/ UNCHANGED vars
    BY <1>1, KeepsFrame DEF SubmitLive, SpillDone, Cut, Reconnect, Age, vars, buffer
  <1>2. CASE Enqueue
    <2>1. Range(mem') = Range(mem) \cup {next} /\ UNCHANGED <<segs, drain>>
      BY <1>2, EnqueueAppends DEF Enqueue
    <2>2. \A r : /\ InMem(r) => InMem(r)'
                 /\ OnDisk(r) => OnDisk(r)'
                 /\ InBatch(r) => InBatch(r)'
      BY <2>1 DEF InMem, OnDisk, InBatch
    <2> QED  BY <2>2, KeepsParts
  <1>3. CASE SpillWrites \/ SpillNoDisk \/ SpillBelowFloor \/ SpillFails
    BY <1>3, KeepsSpill, KeepsSpillElse
  <1>4. CASE DropOldestSegment
    <2>1. segs # <<>> /\ segs' = Tail(segs) /\ UNCHANGED <<mem, drain>>
      BY <1>4 DEF DropOldestSegment, OverCap, TypeOK
    <2>2. Mark("dropped", Range(Head(segs).lines))
      BY <1>4 DEF DropOldestSegment
    <2>3. \A r : r \in Range(Head(segs).lines) => Accounted(r)'
      BY <2>2, MarkAccounts DEF Fates
    <2> QED  BY <2>1, <2>3, KeepsDrop
  <1>5. CASE DrainWake \/ PickSegment \/ DrainStops \/ ReadSegment \/ CannotReadSegment \/ ReplayFails
    <2>1. UNCHANGED <<mem, segs>> /\ drain.pc # "batch"
      BY <1>5 DEF DrainWake, PickSegment, DrainStops, ReadSegment, CannotReadSegment,
                  ReplayFails, buffer
    <2> QED  BY <2>1, KeepsFrame
  <1>6. CASE ReplayEnds
    <2>1. UNCHANGED <<mem, segs>> /\ Range(drain.rest) = {}
      BY <1>6 DEF ReplayEnds, buffer, Range
    <2> QED  BY <2>1, KeepsFrame
  <1>7. CASE TakeBatch \/ Rebuffer \/ SkipTooOld \/ PublishBackfill \/ RemoveSegment \/ Restart
    BY <1>7, KeepsTake, KeepsTakeBack, KeepsAdvance, KeepsRemove, KeepsRestart
  <1>8. CASE Unreadable
    <2>1. PICK k \in DOMAIN segs : segs' = [segs EXCEPT ![k].ok = FALSE]
      BY <1>8 DEF Unreadable
    <2>2. \A i \in DOMAIN segs : segs'[i].lines = segs[i].lines
      <3> SUFFICES ASSUME NEW i \in DOMAIN segs PROVE segs'[i].lines = segs[i].lines
        OBVIOUS
      <3>1. segs[i] \in Segment
        BY SegmentTypes
      <3> QED  BY <2>1, <3>1 DEF Segment
    <2>3. DOMAIN segs' = DOMAIN segs /\ UNCHANGED <<mem, drain>>
      BY <1>8, <2>1 DEF Unreadable
    <2> QED  BY <2>2, <2>3, KeepsFrame
  <1> QED  BY <1>1, <1>2, <1>3, <1>4, <1>5, <1>6, <1>7, <1>8
           DEF Next, Spilling, Draining, Disturbance

LEMMA ConservedStep == TypeOK /\ ReplayInv /\ Conserved /\ [Next]_vars => Conserved'
  <1> SUFFICES ASSUME TypeOK, ReplayInv, Conserved, [Next]_vars PROVE Conserved'
    OBVIOUS
  <1>1. \A r \in Results : r \in Held' \/ Accounted(r)'
    BY KeepsStep, AccountsKept DEF Conserved, Keeps, Accounted
  <1>2. \A r \in Results' : r \in Results \/ (next' = next + 1 /\ r = next)
    <2>1. next \in Nat \ {0} /\ (next' = next \/ next' = next + 1)
      BY DEF TypeOK, Next, SubmitLive, Enqueue, Submitted, Spilling, SpillNoDisk, SpillBelowFloor,
             SpillWrites, SpillFails, DropOldestSegment, SpillDone, Draining, DrainWake,
             PickSegment, TakeBatch, DrainStops, ReadSegment, CannotReadSegment, SkipTooOld,
             PublishBackfill, ReplayEnds, RemoveSegment, ReplayFails, Rebuffer, Disturbance,
             Cut, Reconnect, Age, Unreadable, Restart, vars
    <2> QED  BY <2>1 DEF Results
  <1>3. ASSUME next' = next + 1
        PROVE  \A r : r = next => r \in Held' \/ Accounted(r)'
    <2>1. SubmitLive \/ Enqueue
      <3>1. next' # next
        BY <1>3 DEF TypeOK
      <3> QED  BY <3>1 DEF Next, Spilling, SpillNoDisk, SpillBelowFloor,
             SpillWrites, SpillFails, DropOldestSegment, SpillDone, Draining, DrainWake,
             PickSegment, TakeBatch, DrainStops, ReadSegment, CannotReadSegment, SkipTooOld,
             PublishBackfill, ReplayEnds, RemoveSegment, ReplayFails, Rebuffer, Disturbance,
             Cut, Reconnect, Age, Unreadable, Restart, vars
    <2>2. CASE SubmitLive
      <3>1. \E f \in Fates : Mark(f, {next})
        BY <2>2 DEF SubmitLive, Fates
      <3> QED  BY <3>1, MarkAccounts
    <2>3. CASE Enqueue
      <3>1. next \in Range(mem')
        BY <2>3, EnqueueAppends
      <3> QED  BY <3>1, HeldParts DEF InMem
    <2> QED  BY <2>1, <2>2, <2>3
  <1> QED  BY <1>1, <1>2, <1>3 DEF Conserved, Accounted

LEMMA ConservedInit == Init => ReplayInv /\ Conserved
  <1> SUFFICES ASSUME Init PROVE ReplayInv /\ Conserved
    OBVIOUS
  <1>1. ReplayInv
    BY DEF Init, ReplayInv, Idle
  <1>2. Results = {}
    BY DEF Init, Results
  <1> QED  BY <1>1, <1>2 DEF Conserved

(* Every result submitted is published, held, counted as dropped, or lost  *)
(* in one of the ways the model names: no interleaving of spills, drops,   *)
(* replays, failures and restarts loses one in another way (submit,        *)
(* enqueue, drain_round, replay_segment, remove_segment, new).             *)
THEOREM NothingVanishes == Spec => []Conserved
  <1>1. TypeOK /\ (ReplayInv /\ Conserved) /\ [Next]_vars => (ReplayInv /\ Conserved)'
    BY ReplayStep, ConservedStep
  <1> QED  BY <1>1, ConservedInit, TypeCorrect, PTL DEF Spec

-----------------------------------------------------------------------------
(* DiskBounded.  SumBytes is a recursive function of the segments: that    *)
(* the function exists, and what it is for a longer or a shorter sequence, *)
(* follow from the least number at which they would fail.                  *)

LEMMA LeastNat ==
  ASSUME NEW S \in SUBSET Nat, S # {}
  PROVE  \E x \in S : \A y \in S : x <= y
  <1>1. PICK x \in S : \A y \in S : ~(<<y, x>> \in OpToRel(<, Nat))
    BY NatLessThanWellFounded, WFMin, Zenon
  <1>2. \A y \in S : y \in Nat /\ x \in Nat /\ ~(y < x)
    BY <1>1, Zenon DEF OpToRel
  <1> QED  BY <1>2

(* A property of the first numbers holds up to a bound if it holds of none *)
(* and of each after the one before it.                                    *)
LEMMA UpTo ==
  ASSUME NEW m \in Nat, NEW S, 0 \in S, \A n \in 1..m : n - 1 \in S => n \in S
  PROVE  \A n \in 0..m : n \in S
  <1> DEFINE T == {n \in 0..m : n \notin S}
  <1>1. SUFFICES ASSUME T # {} PROVE FALSE
    OBVIOUS
  <1>2. T \in SUBSET Nat
    OBVIOUS
  <1>3. PICK x \in T : \A y \in T : x <= y
    BY <1>1, <1>2, LeastNat
  <1>4. x \in 1..m /\ x - 1 \in 0..m
    BY <1>3
  <1>5. x - 1 \notin T
    BY <1>3, <1>4
  <1> QED  BY <1>4, <1>5, <1>3

IsSums(f, ss, m) ==
  f = [n \in 0..m |-> IF n = 0 THEN 0 ELSE f[n - 1] + Len(ss[n].lines)]

LEMMA SumsExist ==
  ASSUME NEW ss, NEW m \in Nat
  PROVE  \E f : IsSums(f, ss, m)
  <1> DEFINE S == {n \in Nat : \E f : IsSums(f, ss, n)}
  <1>1. 0 \in S
    <2> DEFINE f == [n \in 0..0 |-> 0]
    <2>1. f = [n \in 0..0 |-> IF n = 0 THEN 0 ELSE f[n - 1] + Len(ss[n].lines)]
      OBVIOUS
    <2> QED  BY <2>1 DEF IsSums
  <1>2. ASSUME NEW n \in 1..m, n - 1 \in S
        PROVE  n \in S
    <2>1. PICK f : IsSums(f, ss, n - 1)
      BY <1>2
    <2> DEFINE g == [k \in 0..n |-> IF k = n THEN f[n - 1] + Len(ss[n].lines) ELSE f[k]]
    <2>2. \A k \in 0..(n - 1) : f[k] = IF k = 0 THEN 0 ELSE f[k - 1] + Len(ss[k].lines)
      BY <2>1 DEF IsSums
    <2>3. \A k \in 0..n : g[k] = IF k = 0 THEN 0 ELSE g[k - 1] + Len(ss[k].lines)
      <3> SUFFICES ASSUME NEW k \in 0..n
                   PROVE  g[k] = IF k = 0 THEN 0 ELSE g[k - 1] + Len(ss[k].lines)
        OBVIOUS
      <3>1. CASE k = n
        BY <3>1
      <3>2. CASE k # n
        <4>1. k \in 0..(n - 1) /\ g[k] = f[k]
          BY <3>2
        <4>2. k # 0 => k - 1 \in 0..n /\ k - 1 # n /\ g[k - 1] = f[k - 1]
          BY <3>2
        <4> QED  BY <4>1, <4>2, <2>2
      <3> QED  BY <3>1, <3>2
    <2>4. g = [k \in 0..n |-> IF k = 0 THEN 0 ELSE g[k - 1] + Len(ss[k].lines)]
      BY <2>3
    <2>5. IsSums(g, ss, n)
      BY <2>4 DEF IsSums
    <2> QED  BY <2>5
  <1>3. m \in S
    <2> HIDE DEF S
    <2> QED  BY <1>1, <1>2, UpTo
  <1> QED  BY <1>3

LEMMA SumsDefined ==
  ASSUME NEW ss, Len(ss) \in Nat
  PROVE  IsSums(Sums(ss), ss, Len(ss))
  <1>1. PICK g : IsSums(g, ss, Len(ss))
    BY SumsExist
  <1>2. Sums(ss) = CHOOSE f : IsSums(f, ss, Len(ss))
    BY DEF Sums, IsSums
  <1> QED  BY <1>1, <1>2

LEMMA SumsFacts ==
  ASSUME NEW ss \in Seq(Segment)
  PROVE  /\ Len(ss) \in Nat
         /\ Sums(ss)[0] = 0
         /\ \A n \in 1..Len(ss) : Sums(ss)[n] = Sums(ss)[n - 1] + Len(ss[n].lines)
         /\ \A n \in 1..Len(ss) : Len(ss[n].lines) \in Nat
         /\ \A n \in 0..Len(ss) : Sums(ss)[n] \in Nat
  <1>1. Len(ss) \in Nat
    OBVIOUS
  <1> DEFINE f == Sums(ss)
             m == Len(ss)
  <1>2. f = [n \in 0..m |-> IF n = 0 THEN 0 ELSE f[n - 1] + Len(ss[n].lines)]
    BY <1>1, SumsDefined DEF IsSums
  <1>3. \A n \in 1..m : Len(ss[n].lines) \in Nat
    <2>1. \A n \in 1..m : ss[n] \in Segment
      OBVIOUS
    <2>2. \A s \in Segment : Len(s.lines) \in Nat
      BY DEF Segment
    <2> QED  BY <2>1, <2>2
  <1> HIDE DEF f, m
  <1>4. \A n \in 0..m : f[n] = IF n = 0 THEN 0 ELSE f[n - 1] + Len(ss[n].lines)
    BY <1>2
  <1>5. m \in Nat
    BY <1>1 DEF m
  <1>6. f[0] = 0 /\ \A n \in 1..m : f[n] = f[n - 1] + Len(ss[n].lines)
    BY <1>4, <1>5
  <1>7. \A n \in 0..m : f[n] \in Nat
    <2> DEFINE S == {n \in Nat : f[n] \in Nat}
    <2>1. 0 \in S
      BY <1>6
    <2>2. \A n \in 1..m : n - 1 \in S => n \in S
      <3> SUFFICES ASSUME NEW n \in 1..m, f[n - 1] \in Nat
                   PROVE  f[n] \in Nat
        BY <1>5
      <3> QED  BY <1>3, <1>6
    <2>3. \A n \in 0..m : n \in S
      <3> HIDE DEF S
      <3> QED  BY <2>1, <2>2, <1>5, UpTo
    <2> QED  BY <2>3
  <1> QED  BY <1>1, <1>3, <1>6, <1>7 DEF f, m

(* Segments of the same lengths, as far as they go, have the same sums.    *)
LEMMA SumsAgree ==
  ASSUME NEW ss \in Seq(Segment), NEW tt \in Seq(Segment), NEW m \in Nat,
         m <= Len(ss), m <= Len(tt),
         \A i \in 1..m : Len(ss[i].lines) = Len(tt[i].lines)
  PROVE  \A n \in 0..m : Sums(ss)[n] = Sums(tt)[n]
  <1> DEFINE S == {n \in Nat : Sums(ss)[n] = Sums(tt)[n]}
  <1>1. 0 \in S
    BY SumsFacts
  <1>2. \A n \in 1..m : n - 1 \in S => n \in S
    <2> TAKE n \in 1..m
    <2>1. n \in 1..Len(ss) /\ n \in 1..Len(tt) /\ n \in Nat /\ n - 1 \in Nat
      OBVIOUS
    <2>2. /\ Sums(ss)[n] = Sums(ss)[n - 1] + Len(ss[n].lines)
          /\ Sums(tt)[n] = Sums(tt)[n - 1] + Len(tt[n].lines)
      BY <2>1, SumsFacts
    <2> QED  BY <2>1, <2>2
  <1>3. \A n \in 0..m : n \in S
    <2> HIDE DEF S
    <2> QED  BY <1>1, <1>2, UpTo
  <1> QED  BY <1>3

LEMMA SumOfSame ==
  ASSUME NEW ss \in Seq(Segment), NEW tt \in Seq(Segment), Len(ss) = Len(tt),
         \A i \in 1..Len(ss) : Len(ss[i].lines) = Len(tt[i].lines)
  PROVE  SumBytes(ss) = SumBytes(tt)
  BY SumsAgree DEF SumBytes

LEMMA SumTypes ==
  ASSUME NEW ss \in Seq(Segment)
  PROVE  SumBytes(ss) \in Nat
  BY SumsFacts DEF SumBytes

(* A segment more.                                                         *)
LEMMA SumOfAppend ==
  ASSUME NEW ss \in Seq(Segment), NEW s \in Segment
  PROVE  SumBytes(Append(ss, s)) = SumBytes(ss) + Len(s.lines)
  <1> DEFINE m == Len(ss)
  <1>1. PICK tt : tt = Append(ss, s)
    OBVIOUS
  <1>2. /\ tt \in Seq(Segment) /\ m \in Nat /\ Len(tt) = m + 1
        /\ \A i \in 1..m : tt[i] = ss[i]
        /\ tt[m + 1] = s
    BY <1>1, AppendFacts
  <1>3. \A n \in 0..m : Sums(ss)[n] = Sums(tt)[n]
    BY <1>2, SumsAgree
  <1>4. Sums(tt)[m + 1] = Sums(tt)[m] + Len(s.lines)
    BY <1>2, SumsFacts
  <1> QED  BY <1>1, <1>2, <1>3, <1>4 DEF SumBytes

(* The oldest segment less.                                                *)
LEMMA SumOfTail ==
  ASSUME NEW ss \in Seq(Segment), ss # <<>>
  PROVE  SumBytes(ss) = Len(Head(ss).lines) + SumBytes(Tail(ss))
  <1>0. PICK tt : tt = Tail(ss)
    OBVIOUS
  <1>1. PICK m : m = Len(tt)
    OBVIOUS
  <1>2. PICK h : h = Len(Head(ss).lines)
    OBVIOUS
  <1>3. /\ tt \in Seq(Segment) /\ m \in Nat /\ Len(ss) = m + 1
        /\ \A i \in 1..m : tt[i] = ss[i + 1]
        /\ h = Len(ss[1].lines)
    BY <1>0, <1>1, <1>2, TailFacts
  <1>4. /\ Sums(ss)[0] = 0 /\ Sums(tt)[0] = 0
        /\ \A n \in 1..(m + 1) : Sums(ss)[n] = Sums(ss)[n - 1] + Len(ss[n].lines)
        /\ \A n \in 1..(m + 1) : Len(ss[n].lines) \in Nat
        /\ \A n \in 0..(m + 1) : Sums(ss)[n] \in Nat
        /\ \A n \in 1..m : Sums(tt)[n] = Sums(tt)[n - 1] + Len(tt[n].lines)
        /\ \A n \in 0..m : Sums(tt)[n] \in Nat
    BY <1>1, <1>3, SumsFacts
  <1> DEFINE S == {n \in Nat : Sums(ss)[n + 1] = h + Sums(tt)[n]}
  <1>5. h \in Nat
    BY <1>3, <1>4
  <1>6. 0 \in S
    BY <1>3, <1>4, <1>5
  <1>7. \A n \in 1..m : n - 1 \in S => n \in S
    <2> SUFFICES ASSUME NEW n \in 1..m, Sums(ss)[(n - 1) + 1] = h + Sums(tt)[n - 1]
                 PROVE  Sums(ss)[n + 1] = h + Sums(tt)[n]
      BY <1>3
    <2>1. /\ n \in Nat /\ n + 1 \in 1..(m + 1) /\ (n + 1) - 1 = n /\ (n - 1) + 1 = n
          /\ n - 1 \in 0..m
      BY <1>3
    <2>2. /\ Sums(ss)[n + 1] = Sums(ss)[n] + Len(ss[n + 1].lines)
          /\ Sums(tt)[n] = Sums(tt)[n - 1] + Len(ss[n + 1].lines)
          /\ Len(ss[n + 1].lines) \in Nat /\ Sums(tt)[n - 1] \in Nat
      BY <1>3, <1>4, <2>1
    <2> QED  BY <2>1, <2>2, <1>5
  <1>8. m \in S
    <2>1. \A n \in 0..m : n \in S
      <3> HIDE DEF S
      <3> QED  BY <1>3, <1>6, <1>7, UpTo
    <2> QED  BY <2>1, <1>3
  <1> QED  BY <1>0, <1>1, <1>2, <1>3, <1>8 DEF SumBytes

LEMMA CrashBudget ==
  ASSUME TypeOK
  PROVE  /\ Budget["crash"] \in Nat /\ budget["crash"] \in Nat /\ Cap \in Nat
         /\ SegMax <= Cap /\ DiskMax <= Cap /\ SegMax \in Nat \ {0} /\ DiskMax \in Nat
  BY ConfigAssumption DEF TypeOK, Kinds, Cap

LEMMA SpendCrash ==
  ASSUME TypeOK, NEW k \in Kinds, Spend(k)
  PROVE  budget'["crash"] = IF k = "crash" THEN budget["crash"] - 1 ELSE budget["crash"]
  BY DEF TypeOK, Spend, Kinds

(* The files of the segments, without the sums.                            *)
FilesInv ==
  /\ \A i \in DOMAIN segs : Len(segs[i].lines) <= SegMax
  /\ \A i \in DOMAIN segs : segs[i].seq = writer => Len(segs[i].lines) <= curBytes

(* The sums, given the crashes there have been.                            *)
SumInv ==
  /\ diskBytes \in Nat /\ SumBytes(segs) <= diskBytes
  /\ budget["crash"] <= Budget["crash"]
  /\ lock # "trim" => SumBytes(segs) <= Cap + (Budget["crash"] - budget["crash"])
  /\ SumBytes(segs) <= Cap + (Budget["crash"] - budget["crash"]) + 1

LEMMA DiskParts ==
  /\ DiskInv => FilesInv /\ SumInv
  /\ FilesInv' /\ SumInv' => DiskInv'
  BY DEF DiskInv, FilesInv, SumInv

(* Nothing is written and no segment goes.                                 *)
LEMMA SumFrame ==
  ASSUME SumInv, SumBytes(segs') = SumBytes(segs), diskBytes' = diskBytes,
         budget'["crash"] = budget["crash"], lock' # "trim" => lock # "trim"
  PROVE  SumInv'
  <1>1. SumBytes(segs)' = SumBytes(segs)
    BY Zenon DEF SumBytes, Sums
  <1> QED  BY <1>1 DEF SumInv

LEMMA DiskFrame ==
  ASSUME DiskInv, UNCHANGED <<segs, writer, curBytes, diskBytes>>,
         budget'["crash"] = budget["crash"], lock' # "trim" => lock # "trim"
  PROVE  DiskInv'
  <1>1. FilesInv'
    BY DiskParts DEF FilesInv
  <1>2. SumBytes(segs') = SumBytes(segs)
    OBVIOUS
  <1> QED  BY <1>1, <1>2, DiskParts, SumFrame

(* The last of the spill's drops: the files fit, or only one is left.      *)
LEMMA DiskSpillDone == TypeOK /\ DiskInv /\ SpillDone => DiskInv'
  <1> SUFFICES ASSUME TypeOK, DiskInv, SpillDone PROVE DiskInv'
    OBVIOUS
  <1>1. UNCHANGED <<segs, writer, curBytes, diskBytes, budget>> /\ ~OverCap
    BY DEF SpillDone, buffer
  <1>2. FilesInv'
    BY <1>1, DiskParts DEF FilesInv
  <1>3. SumBytes(segs) \in Nat /\ diskBytes \in Nat /\ SumBytes(segs) <= diskBytes
    BY SumTypes DEF TypeOK, DiskInv
  <1>4. SumBytes(segs) <= Cap
    <2>1. CASE diskBytes <= DiskMax
      <3>1. PICK b : b = SumBytes(segs)
        OBVIOUS
      <3> QED  BY <1>3, <2>1, <3>1, CrashBudget
    <2>2. CASE ~(diskBytes <= DiskMax)
      <3>1. Len(segs) \in Nat /\ Len(segs) <= 1 /\ segs \in Seq(Segment)
        BY <1>1, <1>3, <2>2, CrashBudget DEF OverCap, TypeOK
      <3>2. CASE Len(segs) = 0
        <4>1. SumBytes(segs) = 0
          BY <3>1, <3>2, SumsFacts DEF SumBytes
        <4> QED  BY <4>1, CrashBudget
      <3>3. CASE Len(segs) = 1
        <4>1. 1 \in 1..Len(segs) /\ 1 \in DOMAIN segs
          BY <3>1, <3>3
        <4>2. /\ Sums(segs)[0] = 0 /\ Sums(segs)[1] = Sums(segs)[1 - 1] + Len(segs[1].lines)
              /\ Len(segs[1].lines) \in Nat
          BY <3>1, <4>1, SumsFacts
        <4>3. SumBytes(segs) = Len(segs[1].lines)
          BY <4>2, <3>3 DEF SumBytes
        <4>4. Len(segs[1].lines) <= SegMax
          BY <4>1, DiskParts DEF FilesInv
        <4> QED  BY <4>2, <4>3, <4>4, CrashBudget
      <3>4. \A l \in Nat : l <= 1 => l = 0 \/ l = 1
        OBVIOUS
      <3> QED  BY <3>1, <3>2, <3>3, <3>4, Zenon
    <2> QED  BY <2>1, <2>2
  <1>5. SumBytes(segs)' = SumBytes(segs)
    BY <1>1
  <1>6. SumInv'
    <2>1. budget["crash"] <= Budget["crash"]
      BY DEF DiskInv
    <2>2. /\ SumBytes(segs) <= Cap + (Budget["crash"] - budget["crash"])
          /\ SumBytes(segs) <= Cap + (Budget["crash"] - budget["crash"]) + 1
      BY <1>3, <1>4, <2>1, CrashBudget
    <2> QED  BY <1>1, <1>3, <1>5, <2>1, <2>2 DEF SumInv
  <1> QED  BY <1>2, <1>6, DiskParts

(* The oldest segment goes, and its bytes with it.                         *)
LEMMA DiskDrop ==
  ASSUME TypeOK, DiskInv, segs # <<>>, segs' = Tail(segs),
         diskBytes' = diskBytes - Len(Head(segs).lines),
         UNCHANGED <<writer, curBytes, budget, lock>>
  PROVE  DiskInv'
  <1>1. /\ Len(segs) \in Nat \ {0} /\ DOMAIN segs = 1..Len(segs)
        /\ DOMAIN segs' = 1..(Len(segs) - 1)
        /\ \A i \in 1..(Len(segs) - 1) : segs'[i] = segs[i + 1]
    BY TailFacts DEF TypeOK
  <1>2. \A i \in DOMAIN segs' : i + 1 \in DOMAIN segs /\ segs'[i] = segs[i + 1]
    BY <1>1
  <1>3. FilesInv'
    BY <1>2, DiskParts DEF FilesInv
  <1>4. PICK h : h = Len(Head(segs).lines)
    OBVIOUS
  <1>5. h \in Nat
    BY <1>4, HeadSegmentTypes DEF ResultSeq
  <1>6. /\ SumBytes(segs) = h + SumBytes(segs')
        /\ SumBytes(segs) \in Nat /\ SumBytes(segs') \in Nat
    BY <1>4, SumOfTail, SumTypes, HeadSegmentTypes DEF TypeOK
  <1>7. SumBytes(segs)' = SumBytes(segs')
    BY Zenon DEF SumBytes, Sums
  <1>8. /\ diskBytes \in Nat /\ SumBytes(segs) <= diskBytes
        /\ budget["crash"] <= Budget["crash"]
        /\ lock # "trim" => SumBytes(segs) <= Cap + (Budget["crash"] - budget["crash"])
        /\ SumBytes(segs) <= Cap + (Budget["crash"] - budget["crash"]) + 1
    BY DEF DiskInv
  <1>9. diskBytes' \in Nat /\ SumBytes(segs') <= diskBytes'
    BY <1>4, <1>5, <1>6, <1>8
  <1>10. SumBytes(segs') <= Cap + (Budget["crash"] - budget["crash"]) + 1
    BY <1>5, <1>6, <1>8, CrashBudget
  <1>11. lock # "trim" => SumBytes(segs') <= Cap + (Budget["crash"] - budget["crash"])
    BY <1>5, <1>6, <1>8, CrashBudget
  <1>12. SumInv'
    BY <1>7, <1>8, <1>9, <1>10, <1>11 DEF SumInv
  <1> QED  BY <1>3, <1>12, DiskParts

(* A restart counts again what is on disk.                                 *)
LEMMA DiskRestart == TypeOK /\ DiskInv /\ Restart => DiskInv'
  <1> SUFFICES ASSUME TypeOK, DiskInv, Restart PROVE DiskInv'
    OBVIOUS
  <1>1. /\ segs' = segs /\ writer' = NoWriter /\ diskBytes' = SumBytes(segs) /\ lock' = "free"
        /\ Spend("crash")
    BY DEF Restart
  <1>2. budget'["crash"] = budget["crash"] - 1 /\ budget["crash"] > 0
    BY <1>1, SpendCrash DEF Kinds, Spend
  <1>3. SumBytes(segs)' = SumBytes(segs) /\ SumBytes(segs) \in Nat
    BY <1>1, SumTypes DEF TypeOK
  <1>4. FilesInv'
    <2>1. \A i \in DOMAIN segs : segs[i].seq # NoWriter
      BY SegmentTypes, ConfigAssumption
    <2> QED  BY <1>1, <2>1, DiskParts DEF FilesInv
  <1>5. /\ budget["crash"] <= Budget["crash"]
        /\ SumBytes(segs) <= Cap + (Budget["crash"] - budget["crash"]) + 1
    BY DEF DiskInv
  <1>6. /\ budget'["crash"] <= Budget["crash"]
        /\ SumBytes(segs) <= Cap + (Budget["crash"] - budget'["crash"])
        /\ SumBytes(segs) <= Cap + (Budget["crash"] - budget'["crash"]) + 1
    BY <1>2, <1>3, <1>5, CrashBudget
  <1>7. SumInv'
    BY <1>1, <1>3, <1>6 DEF SumInv
  <1> QED  BY <1>4, <1>7, DiskParts

(* A line more, in the newest segment or in none.                          *)
LEMMA LinesGrow ==
  ASSUME NEW ss \in Seq(Segment), NEW seq, NEW r \in Nat \ {0},
         \A i \in 1..Len(ss) : ss[i].seq = seq => i = Len(ss),
         NEW tt, tt = AppendLine(ss, seq, r)
  PROVE  /\ tt \in Seq(Segment) /\ Len(tt) = Len(ss) /\ SumBytes(tt) <= SumBytes(ss) + 1
         /\ \A i \in 1..Len(ss) :
              /\ tt[i].seq = ss[i].seq /\ Len(ss[i].lines) \in Nat
              /\ ss[i].seq # seq => Len(tt[i].lines) = Len(ss[i].lines)
              /\ ss[i].seq = seq => Len(tt[i].lines) = Len(ss[i].lines) + 1
  <1>1. tt \in Seq(Segment) /\ Len(tt) = Len(ss) /\ Len(ss) \in Nat
    BY LinesTypes
  <1>2. \A i \in 1..Len(ss) :
              /\ tt[i].seq = ss[i].seq /\ Len(ss[i].lines) \in Nat
              /\ ss[i].seq # seq => Len(tt[i].lines) = Len(ss[i].lines)
              /\ ss[i].seq = seq => Len(tt[i].lines) = Len(ss[i].lines) + 1
    <2> SUFFICES ASSUME NEW i \in 1..Len(ss)
                 PROVE  /\ tt[i].seq = ss[i].seq /\ Len(ss[i].lines) \in Nat
                        /\ ss[i].seq # seq => Len(tt[i].lines) = Len(ss[i].lines)
                        /\ ss[i].seq = seq => Len(tt[i].lines) = Len(ss[i].lines) + 1
      OBVIOUS
    <2>1. ss[i] \in Segment
      OBVIOUS
    <2>2. ss[i].lines \in Seq(Nat \ {0})
      BY <2>1 DEF Segment
    <2>3. /\ tt[i].seq = ss[i].seq
          /\ tt[i].lines = IF ss[i].seq = seq THEN Append(ss[i].lines, r) ELSE ss[i].lines
      BY LinesTypes
    <2>4. Len(ss[i].lines) \in Nat /\ Len(Append(ss[i].lines, r)) = Len(ss[i].lines) + 1
      BY <2>2, AppendFacts
    <2> QED  BY <2>3, <2>4
  <1>3. SumBytes(tt) <= SumBytes(ss) + 1
    <2>1. CASE \A i \in 1..Len(ss) : ss[i].seq # seq
      <3>1. SumBytes(ss) = SumBytes(tt)
        BY <1>1, <1>2, <2>1, SumOfSame
      <3> QED  BY <3>1, SumTypes
    <2>2. CASE \E i \in 1..Len(ss) : ss[i].seq = seq
      <3>1. PICK m : m = Len(ss)
        OBVIOUS
      <3>2. m \in Nat \ {0} /\ m - 1 \in Nat /\ ss[m].seq = seq /\ m \in 1..Len(ss)
        BY <1>1, <2>2, <3>1
      <3>3. \A i \in 1..(m - 1) : Len(ss[i].lines) = Len(tt[i].lines)
        <4> TAKE i \in 1..(m - 1)
        <4>1. i \in 1..Len(ss) /\ i # Len(ss)
          BY <3>1, <3>2
        <4> QED  BY <4>1, <1>2
      <3>4. Sums(ss)[m - 1] = Sums(tt)[m - 1]
        <4>1. \A n \in 0..(m - 1) : Sums(ss)[n] = Sums(tt)[n]
          <5>1. m - 1 <= Len(ss) /\ m - 1 <= Len(tt)
            BY <3>1, <3>2, <1>1
          <5> QED  BY <5>1, <1>1, <3>2, <3>3, SumsAgree
        <4> QED  BY <4>1, <3>2
      <3>5. /\ Sums(ss)[m] = Sums(ss)[m - 1] + Len(ss[m].lines)
            /\ Sums(tt)[m] = Sums(tt)[m - 1] + Len(tt[m].lines)
            /\ Sums(ss)[m - 1] \in Nat
        BY <1>1, <3>1, <3>2, SumsFacts
      <3>6. Len(tt[m].lines) = Len(ss[m].lines) + 1 /\ Len(ss[m].lines) \in Nat
        BY <1>2, <3>2
      <3>7. SumBytes(ss) = Sums(ss)[m] /\ SumBytes(tt) = Sums(tt)[m]
        BY <1>1, <3>1 DEF SumBytes
      <3> QED  BY <3>4, <3>5, <3>6, <3>7
    <2> QED  BY <2>1, <2>2
  <1> QED  BY <1>1, <1>2, <1>3

(* A spill writes a line: to a new segment, or to the one the writer names *)
(* while that is not full.                                                 *)
LEMMA DiskWrite ==
  ASSUME TypeOK, DiskInv, lock # "trim", lock' = "trim",
         NEW ss \in Seq(Segment), NEW r \in Nat \ {0}, NEW c \in Nat, c < SegMax,
         \A i \in 1..Len(ss) :
           ss[i].seq = writer' => i = Len(ss) /\ Len(ss[i].lines) <= c,
         \A i \in 1..Len(ss) : Len(ss[i].lines) <= SegMax,
         SumBytes(ss) = SumBytes(segs),
         segs' = AppendLine(ss, writer', r), curBytes' = c + 1,
         diskBytes' = diskBytes + 1, UNCHANGED budget
  PROVE  DiskInv'
  <1>1. PICK tt : tt = segs'
    OBVIOUS
  <1>2. PICK w : w = writer'
    OBVIOUS
  <1>3. /\ tt \in Seq(Segment) /\ Len(tt) = Len(ss) /\ SumBytes(tt) <= SumBytes(ss) + 1
        /\ \A i \in 1..Len(ss) :
              /\ tt[i].seq = ss[i].seq /\ Len(ss[i].lines) \in Nat
              /\ ss[i].seq # w => Len(tt[i].lines) = Len(ss[i].lines)
              /\ ss[i].seq = w => Len(tt[i].lines) = Len(ss[i].lines) + 1
    BY <1>1, <1>2, LinesGrow
  <1>4. DOMAIN tt = 1..Len(ss)
    BY <1>3
  <1>5. SegMax \in Nat
    BY CrashBudget
  <1>6. ASSUME NEW i \in DOMAIN tt
        PROVE  /\ Len(tt[i].lines) <= SegMax
               /\ tt[i].seq = w => Len(tt[i].lines) <= c + 1
    <2>1. PICK a, b : a = Len(ss[i].lines) /\ b = Len(tt[i].lines)
      OBVIOUS
    <2>2. /\ a \in Nat /\ a <= SegMax /\ tt[i].seq = ss[i].seq
          /\ ss[i].seq # w => b = a
          /\ ss[i].seq = w => b = a + 1 /\ a <= c
      BY <1>2, <1>3, <1>4, <1>6, <2>1
    <2>3. CASE ss[i].seq = w
      <3>1. b <= SegMax /\ b <= c + 1
        BY <1>5, <2>2, <2>3
      <3> QED  BY <2>1, <3>1
    <2>4. CASE ss[i].seq # w
      BY <2>1, <2>2, <2>4
    <2> QED  BY <2>3, <2>4
  <1>8. FilesInv'
    BY <1>1, <1>2, <1>6 DEF FilesInv
  <1>9. SumBytes(segs)' = SumBytes(tt) /\ SumBytes(tt) \in Nat /\ SumBytes(segs) \in Nat
    BY <1>1, <1>3, SumTypes DEF TypeOK
  <1>10. /\ diskBytes \in Nat /\ SumBytes(segs) <= diskBytes
         /\ budget["crash"] <= Budget["crash"]
         /\ SumBytes(segs) <= Cap + (Budget["crash"] - budget["crash"])
    BY DEF DiskInv
  <1>11. /\ diskBytes' \in Nat /\ SumBytes(tt) <= diskBytes'
         /\ SumBytes(tt) <= Cap + (Budget["crash"] - budget["crash"]) + 1
    BY <1>3, <1>9, <1>10, CrashBudget
  <1>12. SumInv'
    BY <1>9, <1>10, <1>11 DEF SumInv
  <1> QED  BY <1>8, <1>12, DiskParts

LEMMA DiskSpillWrites == TypeOK /\ SegmentsInv /\ DiskInv /\ SpillWrites => DiskInv'
  <1> SUFFICES ASSUME TypeOK, SegmentsInv, DiskInv, SpillWrites PROVE DiskInv'
    OBVIOUS
  <1>1. PICK r : r = Head(mem)
    OBVIOUS
  <1>2. /\ r \in Nat \ {0} /\ lock = "spill" /\ lock' = "trim"
        /\ diskBytes' = diskBytes + 1 /\ UNCHANGED budget
    BY <1>1, OverflowTypes DEF SpillWrites
  <1>3. segs \in Seq(Segment) /\ curBytes \in Nat /\ SegMax \in Nat \ {0}
    BY ConfigAssumption DEF TypeOK
  <1>4. /\ \A i \in 1..Len(segs) : Len(segs[i].lines) <= SegMax
        /\ \A i \in 1..Len(segs) : segs[i].seq = writer => Len(segs[i].lines) <= curBytes
    BY SegmentTypes, DiskParts DEF FilesInv
  <1>5. CASE Rotates
    <2>1. PICK ss : ss = Append(segs, NewSegment)
      OBVIOUS
    <2>2. segs' = AppendLine(ss, writer', r) /\ writer' = nextSeq /\ curBytes' = 0 + 1
      BY <1>1, <1>5, <2>1 DEF SpillWrites
    <2>3. NewSegment \in Segment /\ NewSegment.seq = nextSeq /\ NewSegment.lines = <<>>
      BY NewSegmentTypes DEF NewSegment
    <2>4. /\ ss \in Seq(Segment) /\ Len(segs) \in Nat /\ Len(ss) = Len(segs) + 1
          /\ \A i \in 1..Len(segs) : ss[i] = segs[i]
          /\ ss[Len(segs) + 1] = NewSegment
      BY <1>3, <2>1, <2>3, AppendFacts
    <2>5. \A i \in 1..Len(ss) :
            \/ i \in 1..Len(segs) /\ ss[i] = segs[i] /\ segs[i].seq < nextSeq
               /\ segs[i].seq \in Nat /\ Len(segs[i].lines) <= SegMax
            \/ i = Len(ss) /\ ss[i] = NewSegment
      <3>1. \A i \in 1..Len(segs) : segs[i].seq < nextSeq /\ segs[i].seq \in Nat
        BY SegmentTypes DEF SegmentsInv, SegmentsOrdered
      <3> QED  BY <1>4, <2>4, <3>1
    <2>6. Len(NewSegment.lines) = 0 /\ nextSeq \in Nat
      BY <2>3 DEF TypeOK
    <2>7. \A i \in 1..Len(ss) : ss[i].seq = writer' => i = Len(ss) /\ Len(ss[i].lines) <= 0
      BY <2>2, <2>5, <2>6
    <2>8. \A i \in 1..Len(ss) : Len(ss[i].lines) <= SegMax
      BY <1>3, <2>5, <2>6
    <2>9. SumBytes(ss) = SumBytes(segs)
      <3>1. SumBytes(ss) = SumBytes(segs) + Len(NewSegment.lines) /\ SumBytes(segs) \in Nat
        BY <1>3, <2>1, <2>3, SumOfAppend, SumTypes
      <3> QED  BY <2>6, <3>1
    <2> QED  BY <1>2, <1>3, <2>2, <2>4, <2>7, <2>8, <2>9, DiskWrite
  <1>6. CASE ~Rotates
    <2>1. segs' = AppendLine(segs, writer', r) /\ writer' = writer /\ curBytes' = curBytes + 1
      BY <1>1, <1>6 DEF SpillWrites
    <2>2. curBytes < SegMax
      BY <1>3, <1>6 DEF Rotates
    <2>3. \A i \in 1..Len(segs) :
            segs[i].seq = writer' => i = Len(segs) /\ Len(segs[i].lines) <= curBytes
      BY <1>4, <2>1, SegmentTypes DEF SegmentsInv, SegmentsOrdered
    <2> QED  BY <1>2, <1>3, <1>4, <2>1, <2>2, <2>3, DiskWrite
  <1> QED  BY <1>5, <1>6

(* An open segment that could not be written is empty.                     *)
LEMMA DiskSpillFails == TypeOK /\ DiskInv /\ SpillFails => DiskInv'
  <1> SUFFICES ASSUME TypeOK, DiskInv, SpillFails PROVE DiskInv'
    OBVIOUS
  <1>1. /\ writer' = NoWriter /\ diskBytes' = diskBytes
        /\ lock = "spill" /\ Spend("write")
    BY DEF SpillFails
  <1>2. budget'["crash"] = budget["crash"]
    BY <1>1, SpendCrash DEF Kinds
  <1>3. PICK opened \in BOOLEAN :
          segs' = IF Rotates /\ opened THEN Append(segs, NewSegment) ELSE segs
    BY DEF SpillFails
  <1>4. NewSegment \in Segment /\ Len(NewSegment.lines) = 0 /\ segs \in Seq(Segment)
    BY NewSegmentTypes DEF NewSegment, TypeOK
  <1>5. SumBytes(segs') = SumBytes(segs)
    <2>1. SumBytes(Append(segs, NewSegment)) = SumBytes(segs) + 0 /\ SumBytes(segs) \in Nat
      BY <1>4, SumOfAppend, SumTypes
    <2>2. SumBytes(Append(segs, NewSegment)) = SumBytes(segs)
      BY <2>1
    <2> QED  BY <1>3, <2>2
  <1>6. segs' \in Seq(Segment)
    BY <1>3, <1>4, NewSegmentTypes
  <1>7. \A i \in DOMAIN segs' : segs'[i].seq # NoWriter
    <2>1. \A i \in DOMAIN segs' : segs'[i] \in Segment
      BY <1>6
    <2> QED  BY <2>1, ConfigAssumption DEF Segment
  <1>8. \A i \in DOMAIN segs' : Len(segs'[i].lines) <= SegMax
    <2>1. \A i \in DOMAIN segs : Len(segs[i].lines) <= SegMax
      BY DEF DiskInv
    <2>2. CASE segs' = segs
      BY <2>1, <2>2
    <2>3. CASE segs' = Append(segs, NewSegment)
      <3>1. \A i \in DOMAIN segs' : (i \in DOMAIN segs /\ segs'[i] = segs[i]) \/ segs'[i] = NewSegment
        BY <1>4, <2>3
      <3> QED  BY <3>1, <2>1, <1>4, CrashBudget
    <2> QED  BY <1>3, <2>2, <2>3
  <1>9. FilesInv'
    BY <1>1, <1>7, <1>8 DEF FilesInv
  <1>10. SumInv'
    BY <1>1, <1>2, <1>5, DiskParts, SumFrame
  <1> QED  BY <1>9, <1>10, DiskParts

LEMMA DiskUnreadable == TypeOK /\ DiskInv /\ Unreadable => DiskInv'
  <1> SUFFICES ASSUME TypeOK, DiskInv, Unreadable PROVE DiskInv'
    OBVIOUS
  <1>1. PICK k \in DOMAIN segs : segs' = [segs EXCEPT ![k].ok = FALSE]
    BY DEF Unreadable
  <1>2. UNCHANGED <<writer, curBytes, diskBytes, lock>> /\ Spend("unreadable")
    BY DEF Unreadable
  <1>3. budget'["crash"] = budget["crash"]
    BY <1>2, SpendCrash DEF Kinds
  <1>4. TypeOK'
    BY NextTypes DEF Next, Disturbance
  <1>5. /\ segs \in Seq(Segment) /\ segs' \in Seq(Segment) /\ Len(segs') = Len(segs)
        /\ DOMAIN segs' = DOMAIN segs /\ DOMAIN segs = 1..Len(segs)
    <2>1. segs \in Seq(Segment) /\ segs' \in Seq(Segment)
      BY <1>4 DEF TypeOK
    <2>2. DOMAIN segs' = DOMAIN segs
      BY <1>1
    <2>3. /\ DOMAIN segs = 1..Len(segs) /\ DOMAIN segs' = 1..Len(segs')
          /\ Len(segs) \in Nat /\ Len(segs') \in Nat
      BY <2>1
    <2>4. \A m, n \in Nat : 1..m = 1..n => m = n
      OBVIOUS
    <2> QED  BY <2>1, <2>2, <2>3, <2>4, Zenon
  <1>6. \A i \in DOMAIN segs : segs'[i].seq = segs[i].seq /\ segs'[i].lines = segs[i].lines
    <2> SUFFICES ASSUME NEW i \in DOMAIN segs
                 PROVE  segs'[i].seq = segs[i].seq /\ segs'[i].lines = segs[i].lines
      OBVIOUS
    <2>1. segs[i] \in Segment
      BY SegmentTypes
    <2> QED  BY <1>1, <2>1 DEF Segment
  <1>7. SumBytes(segs') = SumBytes(segs)
    BY <1>5, <1>6, SumOfSame
  <1>8. FilesInv'
    BY <1>2, <1>5, <1>6, DiskParts DEF FilesInv
  <1> QED  BY <1>2, <1>3, <1>7, <1>8, DiskParts, SumFrame

LEMMA DiskStep == TypeOK /\ SegmentsInv /\ DiskInv /\ [Next]_vars => DiskInv'
  <1> SUFFICES ASSUME TypeOK, SegmentsInv, DiskInv, [Next]_vars PROVE DiskInv'
    OBVIOUS
  <1>1. CASE SpillWrites
    BY <1>1, DiskSpillWrites
  <1>2. CASE SpillFails
    BY <1>2, DiskSpillFails
  <1>3. CASE DropOldestSegment
    <2>1. segs # <<>>
      BY <1>3 DEF DropOldestSegment, OverCap, TypeOK
    <2> QED  BY <1>3, <2>1, DiskDrop DEF DropOldestSegment
  <1>4. CASE SpillDone
    BY <1>4, DiskSpillDone
  <1>5. CASE RemoveSegment
    <2>1. CASE StillOldest
      BY <1>5, <2>1, DiskDrop DEF RemoveSegment, StillOldest
    <2>2. CASE ~StillOldest
      BY <1>5, <2>2, DiskFrame DEF RemoveSegment
    <2> QED  BY <2>1, <2>2
  <1>6. CASE Unreadable
    BY <1>6, DiskUnreadable
  <1>7. CASE Restart
    BY <1>7, DiskRestart
  <1>8. CASE UNCHANGED <<segs, writer, curBytes, diskBytes, budget>>
             /\ (lock' # "trim" => lock # "trim")
    BY <1>8, DiskFrame
  <1>9. CASE SubmitLive \/ Cut \/ Age \/ ReplayFails \/ Rebuffer
    <2>1. UNCHANGED <<segs, writer, curBytes, diskBytes, lock>>
      BY <1>9 DEF SubmitLive, Cut, Age, ReplayFails, Rebuffer, buffer
    <2>2. budget' = budget \/ Spend("publish") \/ Spend("cut") \/ Spend("age")
      BY <1>9 DEF SubmitLive, Cut, Age, ReplayFails, Rebuffer
    <2>3. budget'["crash"] = budget["crash"]
      BY <2>2, SpendCrash DEF Kinds
    <2> QED  BY <2>1, <2>3, DiskFrame
  <1>10. CASE Enqueue \/ SpillNoDisk \/ SpillBelowFloor
    BY <1>8, <1>10 DEF Enqueue, SpillNoDisk, SpillBelowFloor
  <1>11. CASE DrainWake \/ PickSegment \/ TakeBatch \/ DrainStops \/ ReadSegment
             \/ CannotReadSegment \/ SkipTooOld \/ PublishBackfill \/ ReplayEnds \/ Reconnect
    BY <1>8, <1>11 DEF DrainWake, PickSegment, TakeBatch, DrainStops, ReadSegment,
       CannotReadSegment, SkipTooOld, PublishBackfill, ReplayEnds, Reconnect, buffer
  <1>12. CASE UNCHANGED vars
    BY <1>8, <1>12 DEF vars, buffer
  <1> QED  BY <1>1, <1>2, <1>3, <1>4, <1>5, <1>6, <1>7, <1>9, <1>10, <1>11, <1>12
           DEF Next, Spilling, Draining, Disturbance

LEMMA DiskInit == Init => DiskInv
  <1> SUFFICES ASSUME Init PROVE DiskInv
    OBVIOUS
  <1>1. segs = <<>> /\ diskBytes = 0 /\ budget = Budget
    BY DEF Init
  <1>2. SumBytes(segs) = 0
    <2>1. segs \in Seq(Segment) /\ Len(segs) = 0
      BY <1>1
    <2> QED  BY <2>1, SumsFacts DEF SumBytes
  <1> QED  BY <1>1, <1>2, InitTypes, CrashBudget DEF DiskInv

(* The spill directory never holds more than its cap, or one segment where *)
(* that is more, once a spill is done, whatever the outages, the failures  *)
(* and the rotations; only a process that ends between a write and the     *)
(* drop it called for leaves one line more behind (spill_to_disk,          *)
(* drop_oldest_segment).                                                   *)
THEOREM DiskCapped == Spec => []DiskBounded
  <1>1. DiskInv => DiskBounded
    BY DEF DiskInv, DiskBounded
  <1>2. Init => TypeOK /\ SegmentsInv /\ DiskInv
    BY InitTypes, SegmentsInit, DiskInit
  <1>3. TypeOK /\ SegmentsInv /\ DiskInv /\ [Next]_vars => (TypeOK /\ SegmentsInv /\ DiskInv)'
    BY NextTypes, SegmentsStep, DiskStep
  <1> QED  BY <1>1, <1>2, <1>3, PTL DEF Spec
=============================================================================
