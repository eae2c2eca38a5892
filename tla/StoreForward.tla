---------------------------- MODULE StoreForward ----------------------------
(***************************************************************************)
(* The poller's result buffer (yagra-poller/src/store_forward.rs): poll    *)
(* results that cannot be published while the bus is cut off wait in a     *)
(* memory ring, whose overflow is spilled to segment files, and a drain    *)
(* task replays both once the link is back.  The drain task publishes      *)
(* without the lock, so the poll loop's spills interleave with it.         *)
(*                                                                         *)
(* A result is the number of its submission and every spilled line is one  *)
(* unit long.  A segment is the entry of the index together with the file  *)
(* it names: the code links and unlinks the two under one lock.  The       *)
(* writer names the segment it appends to; once that segment has been      *)
(* removed, what it writes goes to a file without a name.                  *)
(***************************************************************************)
EXTENDS Naturals, Sequences, Functions

CONSTANTS MemMax,      \* cfg.mem_max, in results
          DiskMax,     \* cfg.disk_max_bytes, in lines
          SegMax,      \* cfg.segment_max_bytes, in lines
          Batch,       \* REPLAY_BATCH
          Floor,       \* cfg.free_floor_bytes, in lines
          ProbeEvery,  \* FREE_PROBE_EVERY_BYTES, in lines
          Readings,    \* what a free-space probe may answer
          NoAnswer,    \* a probe that gave no answer
          NoWriter,    \* no append target
          MaxResults,  \* bound: results submitted
          Budget       \* bound: how often each disturbance happens

Kinds == {"cut", "crash", "publish", "write", "unreadable", "age"}

ASSUME ConfigAssumption ==
  /\ MemMax \in Nat \ {0} /\ DiskMax \in Nat /\ SegMax \in Nat \ {0}
  /\ Batch \in Nat \ {0} /\ Floor \in Nat /\ ProbeEvery \in Nat
  /\ Readings \subseteq Nat \cup {NoAnswer} /\ NoAnswer \notin Nat
  /\ NoWriter \notin Nat /\ MaxResults \in Nat
  /\ Budget \in [Kinds -> Nat]

VARIABLES conn,       \* bus.is_connected()
          mem,        \* BufState.mem, oldest first
          segs,       \* BufState.segments: each with its file's lines, and
                      \* whether the file can be read
          writer,     \* BufState.writer: the seq of its segment
          curBytes, diskBytes, nextSeq, broken,
          free,       \* the free-space cache: cached, probed, since
          lock,       \* who holds the lock and what it has yet to do
          drain,      \* the drain task: where it is and what it carries
          horizon,    \* results up to this one are older than max_age_ms
          next,       \* the next result submitted
          fate,       \* what has become of the results
          budget

buffer == <<mem, segs, writer, curBytes, diskBytes, nextSeq, broken, free>>
vars == <<conn, buffer, lock, drain, horizon, next, fate, budget>>

Results == 1..(next - 1)

(* Where results end: published live or as backfill, counted as dropped,   *)
(* lost with the process, lost with a segment that could not be read, or   *)
(* written behind the drain task's back.                                   *)
Fates == {"live", "backfill", "dropped", "process", "unread", "behind"}
Mark(f, rs) == fate' = [fate EXCEPT ![f] = @ \cup rs]

Spend(k) == /\ budget[k] > 0
            /\ budget' = [budget EXCEPT ![k] = @ - 1]

Idle == [pc |-> "idle", seq |-> 0, rest |-> <<>>, read |-> {}, cut |-> 0]

(* The bytes of the first n segments, for each n, and of all of them.      *)
Sums(ss) ==
  LET upTo[n \in 0..Len(ss)] == IF n = 0 THEN 0 ELSE upTo[n - 1] + Len(ss[n].lines)
  IN  upTo
SumBytes(ss) == Sums(ss)[Len(ss)]

Init ==
  /\ conn = TRUE
  /\ mem = <<>> /\ segs = <<>> /\ writer = NoWriter
  /\ curBytes = 0 /\ diskBytes = 0 /\ nextSeq = 0 /\ broken = FALSE
  /\ free = [cached |-> NoAnswer, probed |-> FALSE, since |-> 0]
  /\ lock = "free"
  /\ drain = Idle
  /\ horizon = 0 /\ next = 1
  /\ fate = [f \in Fates |-> {}]
  /\ budget = Budget

-----------------------------------------------------------------------------
(* The poll loop.                                                          *)

Submitted == next <= MaxResults /\ next' = next + 1

(* submit while connected: the publish succeeds, or its result is counted  *)
(* and dropped.                                                            *)
SubmitLive ==
  /\ conn /\ Submitted
  /\ \/ Mark("live", {next}) /\ UNCHANGED budget
     \/ Mark("dropped", {next}) /\ Spend("publish")
  /\ UNCHANGED <<conn, buffer, lock, drain, horizon>>

AfterPushLate(m) == IF Len(m) > MemMax + 1 THEN "spill" ELSE "free"  \* mutant
AfterPush(m) == IF Len(m) > MemMax THEN "spill" ELSE "free"

(* submit while disconnected: enqueue, which keeps the lock while the ring *)
(* overflows.                                                              *)
Enqueue ==
  /\ ~conn /\ lock = "free" /\ Submitted
  /\ mem' = Append(mem, next)
  /\ lock' = AfterPush(mem')
  /\ UNCHANGED <<conn, segs, writer, curBytes, diskBytes, nextSeq, broken, free,
                 drain, horizon, fate, budget>>

(* free_bytes_estimate: the cached reading less what was written since.    *)
ProbeDue == ~free.probed \/ free.since >= ProbeEvery
Probe(avail) == IF ProbeDue THEN [cached |-> avail, probed |-> TRUE, since |-> 0]
                            ELSE free
BelowFloor(f) == /\ f.cached # NoAnswer
                 /\ f.cached < Floor + f.since

(* The segment an append goes to: write_spill_line opens a new one when    *)
(* there is no writer or the current segment is full.                      *)
Rotates == writer = NoWriter \/ curBytes >= SegMax
NewSegment == [seq |-> nextSeq, lines |-> <<>>, ok |-> TRUE]

AppendLine(ss, seq, r) ==
  [i \in DOMAIN ss |-> IF ss[i].seq = seq
                         THEN [ss[i] EXCEPT !.lines = Append(@, r)] ELSE ss[i]]

(* One turn of enqueue's loop: the oldest result of the ring is popped and *)
(* handed to spill_to_disk, which drops it when there is no disk,          *)
SpillNoDisk ==
  /\ lock = "spill" /\ broken
  /\ mem' = Tail(mem)
  /\ Mark("dropped", {Head(mem)})
  /\ lock' = AfterPush(mem')
  /\ UNCHANGED <<conn, segs, writer, curBytes, diskBytes, nextSeq, broken, free,
                 drain, horizon, next, budget>>

(* or when the host's disk is too full,                                    *)
SpillBelowFloor ==
  /\ lock = "spill" /\ ~broken
  /\ \E avail \in Readings :
       /\ BelowFloor(Probe(avail))
       /\ free' = Probe(avail)
  /\ mem' = Tail(mem)
  /\ Mark("dropped", {Head(mem)})
  /\ lock' = AfterPush(mem')
  /\ UNCHANGED <<conn, segs, writer, curBytes, diskBytes, nextSeq, broken,
                 drain, horizon, next, budget>>

(* appends it to the current segment and flushes it,                       *)
SpillWrites ==
  /\ lock = "spill" /\ ~broken
  /\ \E avail \in Readings :
       /\ ~BelowFloor(Probe(avail))
       /\ free' = [Probe(avail) EXCEPT !.since = @ + 1]
  /\ LET ss  == IF Rotates THEN Append(segs, NewSegment) ELSE segs
         seq == IF Rotates THEN nextSeq ELSE writer
         named == \E i \in DOMAIN ss : ss[i].seq = seq
     IN  /\ segs' = AppendLine(ss, seq, Head(mem))
         /\ writer' = seq
         /\ curBytes' = IF Rotates THEN 1 ELSE curBytes + 1
         /\ nextSeq' = IF Rotates THEN nextSeq + 1 ELSE nextSeq
         /\ Mark("behind", IF named THEN {} ELSE {Head(mem)})
  /\ diskBytes' = diskBytes + 1
  /\ mem' = Tail(mem)
  /\ lock' = "trim"
  /\ UNCHANGED <<conn, broken, drain, horizon, next, budget>>

(* or fails to open or to write the segment and gives up on the disk.      *)
SpillFails ==
  /\ lock = "spill" /\ ~broken /\ Spend("write")
  /\ \E avail \in Readings :
       /\ ~BelowFloor(Probe(avail))
       /\ free' = Probe(avail)
  /\ broken' = TRUE
  /\ writer' = NoWriter
  /\ \E opened \in BOOLEAN :
       /\ segs' = IF Rotates /\ opened THEN Append(segs, NewSegment) ELSE segs
       /\ curBytes' = IF Rotates /\ opened THEN 0 ELSE curBytes
  /\ nextSeq' = IF Rotates THEN nextSeq + 1 ELSE nextSeq
  /\ mem' = Tail(mem)
  /\ Mark("dropped", {Head(mem)})
  /\ lock' = AfterPush(mem')
  /\ UNCHANGED <<conn, diskBytes, drain, horizon, next>>

(* spill_to_disk's cap: whole oldest segments are dropped and counted,     *)
(* never the last one.                                                     *)
OverCapSparesTwo == diskBytes > DiskMax /\ Len(segs) > 2  \* mutant
OverCap == diskBytes > DiskMax /\ Len(segs) > 1

DropOldestSegment ==
  /\ lock = "trim" /\ OverCap
  /\ segs' = Tail(segs)
  /\ diskBytes' = diskBytes - Len(Head(segs).lines)
  /\ Mark("dropped", Range(Head(segs).lines))
  /\ UNCHANGED <<conn, mem, writer, curBytes, nextSeq, broken, free, lock,
                 drain, horizon, next, budget>>

(* As SpillDone, but enqueue's loop always takes another turn (mutant).    *)
SpillDoneSpillsOn ==
  /\ lock = "trim" /\ ~OverCap
  /\ lock' = "spill"
  /\ UNCHANGED <<conn, buffer, drain, horizon, next, fate, budget>>

SpillDone ==
  /\ lock = "trim" /\ ~OverCap
  /\ lock' = AfterPush(mem)
  /\ UNCHANGED <<conn, buffer, drain, horizon, next, fate, budget>>

-----------------------------------------------------------------------------
(* The drain task.                                                         *)

DrainWake ==
  /\ drain.pc = "idle" /\ conn
  /\ drain' = [Idle EXCEPT !.pc = "top"]
  /\ UNCHANGED <<conn, buffer, lock, horizon, next, fate, budget>>

(* drain_round's loop: the oldest segment if there is one,                 *)
PickSegment ==
  /\ drain.pc = "top" /\ conn /\ lock = "free" /\ segs # <<>>
  /\ drain' = [Idle EXCEPT !.pc = "read", !.seq = Head(segs).seq]
  /\ UNCHANGED <<conn, buffer, lock, horizon, next, fate, budget>>

(* else a batch of the ring, taken out of it,                              *)
TakeBatch ==
  /\ drain.pc = "top" /\ conn /\ lock = "free" /\ segs = <<>>
  /\ LET n == IF Len(mem) < Batch THEN Len(mem) ELSE Batch
     IN  /\ mem' = SubSeq(mem, n + 1, Len(mem))
         /\ drain' = IF n = 0 THEN Idle
                     ELSE [Idle EXCEPT !.pc = "batch", !.cut = horizon,
                                       !.rest = SubSeq(mem, 1, n)]
  /\ UNCHANGED <<conn, segs, writer, curBytes, diskBytes, nextSeq, broken, free,
                 lock, horizon, next, fate, budget>>

(* unless the link has gone.                                               *)
DrainStops ==
  /\ drain.pc \in {"top", "replay"} /\ ~conn
  /\ drain.pc = "replay" => drain.rest # <<>>
  /\ drain' = Idle
  /\ UNCHANGED <<conn, buffer, lock, horizon, next, fate, budget>>

(* replay_segment reads the file without the lock.                         *)
ReadableAt(seq) == {i \in DOMAIN segs : segs[i].seq = seq /\ segs[i].ok}

ReadSegment ==
  /\ drain.pc = "read"
  /\ \E i \in ReadableAt(drain.seq) :
       /\ drain' = [drain EXCEPT !.pc = "replay", !.cut = horizon,
                                 !.rest = segs[i].lines,
                                 !.read = Range(segs[i].lines)]
  /\ UNCHANGED <<conn, buffer, lock, horizon, next, fate, budget>>

(* As CannotReadSegment, but the segment is kept for the next round        *)
(* (mutant).                                                               *)
CannotReadSegmentKept ==
  /\ drain.pc = "read" /\ ReadableAt(drain.seq) = {}
  /\ drain' = Idle
  /\ UNCHANGED <<conn, buffer, lock, horizon, next, fate, budget>>

(* A file that is missing or cannot be read is given up.                   *)
CannotReadSegment ==
  /\ drain.pc = "read" /\ ReadableAt(drain.seq) = {}
  /\ drain' = [drain EXCEPT !.pc = "giveup"]
  /\ UNCHANGED <<conn, buffer, lock, horizon, next, fate, budget>>

TooOld == Head(drain.rest) <= drain.cut

Advance == drain' = [drain EXCEPT !.rest = Tail(@)]

(* The next line, or the next result of a batch, is too old to backfill    *)
SkipTooOld ==
  /\ drain.pc \in {"replay", "batch"} /\ drain.rest # <<>> /\ TooOld
  /\ drain.pc = "replay" => conn
  /\ Mark("dropped", {Head(drain.rest)})
  /\ Advance
  /\ UNCHANGED <<conn, buffer, lock, horizon, next, budget>>

(* or is published on the backfill subject;                                *)
PublishBackfill ==
  /\ drain.pc \in {"replay", "batch"} /\ drain.rest # <<>> /\ ~TooOld
  /\ drain.pc = "replay" => conn
  /\ Mark("backfill", {Head(drain.rest)})
  /\ Advance
  /\ UNCHANGED <<conn, buffer, lock, horizon, next, budget>>

(* when that fails, the segment stays for the next round,                  *)
ReplayFails ==
  /\ drain.pc = "replay" /\ drain.rest # <<>> /\ ~TooOld /\ conn
  /\ Spend("publish")
  /\ drain' = Idle
  /\ UNCHANGED <<conn, buffer, lock, horizon, next, fate>>

(* As Rebuffer, but behind what has arrived since (mutant).                *)
RebufferAtBack ==
  /\ drain.pc = "batch" /\ drain.rest # <<>> /\ ~TooOld /\ lock = "free"
  /\ IF conn THEN Spend("publish") ELSE UNCHANGED budget
  /\ mem' = mem \o drain.rest
  /\ drain' = Idle
  /\ UNCHANGED <<conn, segs, writer, curBytes, diskBytes, nextSeq, broken, free,
                 lock, horizon, next, fate>>

(* and a batch's unsent tail goes back to the front of the ring.           *)
Rebuffer ==
  /\ drain.pc = "batch" /\ drain.rest # <<>> /\ ~TooOld /\ lock = "free"
  /\ IF conn THEN Spend("publish") ELSE UNCHANGED budget
  /\ mem' = drain.rest \o mem
  /\ drain' = Idle
  /\ UNCHANGED <<conn, segs, writer, curBytes, diskBytes, nextSeq, broken, free,
                 lock, horizon, next, fate>>

ReplayEnds ==
  /\ drain.pc \in {"replay", "batch"} /\ drain.rest = <<>>
  /\ drain' = IF drain.pc = "batch" THEN [Idle EXCEPT !.pc = "top"]
              ELSE [drain EXCEPT !.pc = "remove"]
  /\ UNCHANGED <<conn, buffer, lock, horizon, next, fate, budget>>

(* A replayed segment is removed if it is still the oldest.  The writer is *)
(* left as it is.                                                          *)
Unreplayed ==
  (UNION {Range(segs[i].lines) : i \in {k \in DOMAIN segs : segs[k].seq = drain.seq}})
    \ drain.read

StillOldestUnchecked == segs # <<>>  \* mutant: whichever is the oldest now
StillOldest == segs # <<>> /\ Head(segs).seq = drain.seq

RemoveSegment ==
  /\ drain.pc \in {"remove", "giveup"} /\ lock = "free"
  /\ IF StillOldest
       THEN /\ segs' = Tail(segs)
            /\ diskBytes' = diskBytes - Len(Head(segs).lines)
            /\ Mark(IF drain.pc = "giveup" THEN "unread" ELSE "behind", Unreplayed)
       ELSE UNCHANGED <<segs, diskBytes, fate>>
  /\ drain' = [Idle EXCEPT !.pc = "top"]
  /\ UNCHANGED <<conn, mem, writer, curBytes, nextSeq, broken, free, lock,
                 horizon, next, budget>>

-----------------------------------------------------------------------------
(* The surroundings: the link, the clock, the disk, the process.           *)

Cut ==
  /\ conn /\ Spend("cut") /\ conn' = FALSE
  /\ UNCHANGED <<buffer, lock, drain, horizon, next, fate>>

Reconnect ==
  /\ ~conn /\ conn' = TRUE
  /\ UNCHANGED <<buffer, lock, drain, horizon, next, fate, budget>>

Age ==
  /\ Spend("age") /\ horizon' \in (horizon + 1)..(next - 1)
  /\ UNCHANGED <<conn, buffer, lock, drain, next, fate>>

Unreadable ==
  /\ Spend("unreadable")
  /\ \E i \in DOMAIN segs : segs' = [segs EXCEPT ![i].ok = FALSE]
  /\ UNCHANGED <<conn, mem, writer, curBytes, diskBytes, nextSeq, broken, free, lock, drain, horizon, next, fate>>

SeqAfterSame(ss) == IF ss = <<>> THEN 0 ELSE ss[Len(ss)].seq  \* mutant
SeqAfter(ss) == IF ss = <<>> THEN 0 ELSE ss[Len(ss)].seq + 1

(* The poller is killed or stopped and started again: new scans the spill  *)
(* directory.  The ring and a batch in flight are gone.                    *)
Restart ==
  /\ Spend("crash")
  /\ mem' = <<>> /\ writer' = NoWriter /\ curBytes' = 0 /\ broken' = FALSE
  /\ diskBytes' = SumBytes(segs)
  /\ nextSeq' = SeqAfter(segs)
  /\ free' = [cached |-> NoAnswer, probed |-> FALSE, since |-> 0]
  /\ lock' = "free" /\ drain' = Idle
  /\ Mark("process", Range(mem) \cup
                     IF drain.pc = "batch" THEN Range(drain.rest) ELSE {})
  /\ UNCHANGED <<conn, segs, horizon, next>>

Spilling == SpillNoDisk \/ SpillBelowFloor \/ SpillWrites \/ SpillFails
            \/ DropOldestSegment \/ SpillDone
Draining == DrainWake \/ PickSegment \/ TakeBatch \/ DrainStops \/ ReadSegment
            \/ CannotReadSegment \/ SkipTooOld \/ PublishBackfill \/ ReplayEnds
            \/ RemoveSegment
Disturbance == Cut \/ Reconnect \/ Age \/ Unreadable \/ Restart

Next == SubmitLive \/ Enqueue \/ Spilling \/ Draining \/ ReplayFails
        \/ Rebuffer \/ Disturbance

Spec == Init /\ [][Next]_vars

(* The lock is never held across an await, so its holder finishes; the     *)
(* drain task is a task of its own and runs every second.                  *)
FairSpec == Spec /\ WF_vars(Spilling) /\ WF_vars(Draining)
-----------------------------------------------------------------------------
Held == Range(mem) \cup (UNION {Range(segs[i].lines) : i \in DOMAIN segs})
        \cup IF drain.pc = "batch" THEN Range(drain.rest) ELSE {}

Segment == [seq : Nat, lines : Seq(Nat \ {0}), ok : BOOLEAN]
DrainStates == {"idle", "top", "read", "replay", "giveup", "remove", "batch"}

(* Types, and that enqueue's loop runs only while the ring overflows.      *)
TypeOK ==
  /\ conn \in BOOLEAN /\ broken \in BOOLEAN
  /\ mem \in Seq(Nat \ {0}) /\ segs \in Seq(Segment)
  /\ writer \in Nat \cup {NoWriter}
  /\ curBytes \in Nat /\ nextSeq \in Nat
  /\ free \in [cached : Readings \cup {NoAnswer}, probed : BOOLEAN, since : Nat]
  /\ lock \in {"free", "spill", "trim"}
  /\ lock = "spill" => Len(mem) > MemMax
  /\ drain \in [pc : DrainStates, seq : Nat, rest : Seq(Nat \ {0}),
               read : SUBSET Nat, cut : Nat]
  /\ horizon \in Nat /\ next \in Nat \ {0}
  /\ fate \in [Fates -> SUBSET Nat]
  /\ budget \in [Kinds -> Nat]

(* Every result submitted is published, still held, counted as dropped,    *)
(* lost with the process or with an unreadable file -- or was written      *)
(* behind the drain task's back.  Nothing is lost any other way: not by a  *)
(* publish that fails, by a segment dropped while it is replayed, or by a  *)
(* restart with segments on disk.                                          *)
Conserved ==
  \A r \in Results : r \in Held \/ \E f \in Fates : r \in fate[f]

(* "Counts its results as dropped so truncation is never silent"           *)
(* (drop_oldest_segment), "never a silent truncation" (count_drop): what   *)
(* is neither held nor published has been counted, or went with the        *)
(* process or with a file reported as unreadable.                          *)
NeverSilent ==
  \A r \in Results : r \in Held \/ \E f \in Fates \ {"behind"} : r \in fate[f]

(* Segments stay in the order of their numbers, below the next one, and a  *)
(* writer appends to the newest segment or to one that is gone: a restart  *)
(* never reuses the number of a file still on disk, which the replay would *)
(* then take for the other.                                                *)
SegmentsOrdered ==
  /\ \A i, j \in DOMAIN segs : i < j => segs[i].seq < segs[j].seq
  /\ \A i \in DOMAIN segs : segs[i].seq < nextSeq
  /\ \A i \in DOMAIN segs : segs[i].seq = writer => i = Len(segs)

(* The ring keeps arrival order, and a batch taken from it is older than   *)
(* what has arrived since, so that a tail put back at its front, and the   *)
(* spills that follow, still take the oldest result first.                 *)
RingOrdered ==
  /\ \A i, j \in DOMAIN mem : i < j => mem[i] < mem[j]
  /\ drain.pc = "batch" =>
       \A i \in DOMAIN drain.rest, j \in DOMAIN mem : drain.rest[i] < mem[j]

(* The ring holds at most mem_max results, and at most one batch more      *)
(* after a failed replay was put back; only enqueue, which spills before   *)
(* it gives up the lock, puts one on top of that.                          *)
MemBounded ==
  /\ lock # "spill" => Len(mem) <= MemMax + Batch
  /\ lock = "spill" => Len(mem) <= MemMax + Batch + 1
  /\ lock # "spill" /\ drain.pc = "batch" => Len(mem) <= MemMax

(* The files take no more than the cap (or one segment, where that is      *)
(* more) once a spill is done, and one line for each time the process      *)
(* ended between a write and the drop it called for.                       *)
Cap == IF DiskMax > SegMax THEN DiskMax ELSE SegMax
DiskBounded ==
  /\ SumBytes(segs) <= diskBytes
  /\ lock # "trim" => SumBytes(segs) <= Cap + (Budget["crash"] - budget["crash"])

-----------------------------------------------------------------------------
(* What the invariants above rest on.                                      *)

(* Nothing in the ring or in a batch is newer than the last submission.    *)
RingInv ==
  /\ RingOrdered
  /\ \A i \in DOMAIN mem : mem[i] < next
  /\ drain.pc = "batch" =>
       /\ \A i, j \in DOMAIN drain.rest : i < j => drain.rest[i] < drain.rest[j]
       /\ \A i \in DOMAIN drain.rest : drain.rest[i] < next

(* The writer's number has been given out.                                 *)
SegmentsInv ==
  /\ SegmentsOrdered
  /\ writer # NoWriter => writer < nextSeq

(* With a batch out, the ring overflows by the one result being enqueued.  *)
MemInv ==
  /\ MemBounded
  /\ drain.pc = "batch" => Len(drain.rest) <= Batch
  /\ lock = "spill" /\ drain.pc = "batch" => Len(mem) <= MemMax + 1

(* What the drain task has read of its segment it has published, counted   *)
(* as too old, or still before it.                                         *)
Accounted(r) == \E f \in Fates : r \in fate[f]
ReplayInv ==
  /\ drain.pc \in {"read", "giveup"} => drain.read = {}
  /\ drain.pc = "replay" =>
       \A r \in drain.read : r \in Range(drain.rest) \/ Accounted(r)
  /\ drain.pc = "remove" => \A r \in drain.read : Accounted(r)

(* No segment is longer than its limit, and the one the writer names not   *)
(* longer than the writer believes.                                        *)
DiskInv ==
  /\ diskBytes \in Nat /\ SumBytes(segs) <= diskBytes
  /\ \A i \in DOMAIN segs : Len(segs[i].lines) <= SegMax
  /\ \A i \in DOMAIN segs : segs[i].seq = writer => Len(segs[i].lines) <= curBytes
  /\ budget["crash"] <= Budget["crash"]
  /\ lock # "trim" => SumBytes(segs) <= Cap + (Budget["crash"] - budget["crash"])
  /\ SumBytes(segs) <= Cap + (Budget["crash"] - budget["crash"]) + 1

-----------------------------------------------------------------------------
(* Once the link stays up, everything buffered is replayed or given up:    *)
(* no segment, readable or not, stops the drain for good.                  *)
Drains == <>[]conn => <>[](mem = <<>> /\ segs = <<>>)
=============================================================================
