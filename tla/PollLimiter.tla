---------------------------- MODULE PollLimiter -----------------------------
(***************************************************************************)
(* The poller's worker loop and rate limiter (yagra-poller/src/limiter.rs  *)
(* and worker/stream.rs).  The loop takes a spawn slot for each job and    *)
(* spawns a task; the task looks whether its device is free, queues for a  *)
(* permit, and claims the device under the lock -- or loses that race,     *)
(* hands the permit back and waits again, until its deadline.  ICMP, DNS   *)
(* and Meraki jobs need a permit and no device.                            *)
(*                                                                         *)
(* The semaphore is tokio's: fair, a released permit goes straight to the  *)
(* longest waiter.                                                         *)
(***************************************************************************)
EXTENDS Naturals, Sequences, FiniteSets

CONSTANTS JobCount,  \* bound: the jobs of the stream, 1 .. JobCount
          Device,    \* the target of each job, NoDevice for a global-only one
          NoDevice,  \* the sentinel target 0.0.0.0 of global_guard
          Permits,   \* max_concurrent
          Factor,    \* ADMISSION_FACTOR
          Hung       \* jobs whose probe never returns

Jobs == 1..JobCount

ASSUME LimiterAssumption ==
  /\ JobCount \in Nat /\ Permits \in Nat \ {0} /\ Factor \in Nat \ {0}
  /\ DOMAIN Device = Jobs /\ Hung \subseteq Jobs

VARIABLES pc,        \* where each job's task is
          free,      \* permits of `global` nobody holds
          queue,     \* tasks waiting for a permit, longest first
          inflight,  \* the devices marked as being probed
          expired,   \* jobs past their deadline
          upcoming   \* the next job of the stream

vars == <<pc, free, queue, inflight, expired, upcoming>>

Steps == {"unseen", "start", "parked", "queued", "granted", "probing",
          "releasing", "done", "shed"}
GlobalOnly(j) == Device[j] = NoDevice
Spawned == {j \in Jobs : pc[j] \notin {"unseen", "done", "shed"}}
Holders == {j \in Jobs : pc[j] \in {"granted", "probing", "releasing"}}

Init ==
  /\ pc = [j \in Jobs |-> "unseen"]
  /\ free = Permits /\ queue = <<>>
  /\ inflight = {} /\ expired = {} /\ upcoming = 1

-----------------------------------------------------------------------------
(* run_stream awaits a spawn slot and nothing else.                        *)
Admit ==
  /\ upcoming <= JobCount
  /\ Cardinality(Spawned) < Permits * Factor
  /\ pc' = [pc EXCEPT ![upcoming] = "start"]
  /\ upcoming' = upcoming + 1
  /\ UNCHANGED <<free, queue, inflight, expired>>

(* acquire_permit: at once, or behind those already waiting.               *)
AcquirePermit(j) ==
  IF free > 0
    THEN pc' = [pc EXCEPT ![j] = "granted"] /\ free' = free - 1 /\ UNCHANGED queue
    ELSE pc' = [pc EXCEPT ![j] = "queued"] /\ queue' = Append(queue, j) /\ UNCHANGED free

(* Dropping j's permit as it goes to step s.                               *)
Release(j, s) ==
  IF queue = <<>>
    THEN pc' = [pc EXCEPT ![j] = s] /\ free' = free + 1 /\ UNCHANGED queue
    ELSE /\ pc' = [pc EXCEPT ![j] = s, ![Head(queue)] = "granted"]
         /\ queue' = Tail(queue) /\ UNCHANGED free

(* What a task does when its device is busy.  The mutant waits on.         *)
WaitOrShedWaits(j) == "parked"
WaitOrShed(j) == IF j \in expired THEN "shed" ELSE "parked"

(* claim_then_permit looks at the device holding nothing; a parked task    *)
(* looks again when a guard is dropped or at the next tick.                *)
PeekFree(j) ==
  /\ pc[j] \in {"start", "parked"} /\ ~GlobalOnly(j) /\ Device[j] \notin inflight
  /\ AcquirePermit(j)
  /\ UNCHANGED <<inflight, expired, upcoming>>

PeekBusy(j) ==
  /\ pc[j] \in {"start", "parked"} /\ ~GlobalOnly(j) /\ Device[j] \in inflight
  /\ pc' = [pc EXCEPT ![j] = WaitOrShed(j)]
  /\ UNCHANGED <<free, queue, inflight, expired, upcoming>>

(* With the permit in hand the device is marked, under the lock,           *)
ClaimWins(j) ==
  /\ pc[j] = "granted" /\ ~GlobalOnly(j) /\ Device[j] \notin inflight
  /\ inflight' = inflight \cup {Device[j]}
  /\ pc' = [pc EXCEPT ![j] = "probing"]
  /\ UNCHANGED <<free, queue, expired, upcoming>>

(* or another task has marked it since the look.  The mutants: the permit  *)
(* is kept; the guard is made first, and its drop clears the mark.         *)
ClaimLosesKeepsPermit(j) ==
  /\ pc[j] = "granted" /\ ~GlobalOnly(j) /\ Device[j] \in inflight
  /\ pc' = [pc EXCEPT ![j] = WaitOrShed(j)]
  /\ UNCHANGED <<free, queue, inflight, expired, upcoming>>

ClaimLosesClearsMark(j) ==
  /\ pc[j] = "granted" /\ ~GlobalOnly(j) /\ Device[j] \in inflight
  /\ Release(j, WaitOrShed(j))
  /\ inflight' = inflight \ {Device[j]}
  /\ UNCHANGED <<expired, upcoming>>

ClaimLoses(j) ==
  /\ pc[j] = "granted" /\ ~GlobalOnly(j) /\ Device[j] \in inflight
  /\ Release(j, WaitOrShed(j))
  /\ UNCHANGED <<inflight, expired, upcoming>>

(* begin_global: a permit, no mark.  The mutants: it gives up when no      *)
(* permit is free; it marks the sentinel.                                  *)
BeginGlobalTries(j) ==
  /\ pc[j] = "start" /\ GlobalOnly(j)
  /\ IF free > 0 THEN AcquirePermit(j)
     ELSE pc' = [pc EXCEPT ![j] = "shed"] /\ UNCHANGED <<free, queue>>
  /\ UNCHANGED <<inflight, expired, upcoming>>

StartGlobalMarks(j) ==
  /\ pc[j] = "granted" /\ GlobalOnly(j)
  /\ inflight' = inflight \cup {Device[j]}
  /\ pc' = [pc EXCEPT ![j] = "probing"]
  /\ UNCHANGED <<free, queue, expired, upcoming>>

BeginGlobal(j) ==
  /\ pc[j] = "start" /\ GlobalOnly(j)
  /\ AcquirePermit(j)
  /\ UNCHANGED <<inflight, expired, upcoming>>

StartGlobal(j) ==
  /\ pc[j] = "granted" /\ GlobalOnly(j)
  /\ pc' = [pc EXCEPT ![j] = "probing"]
  /\ UNCHANGED <<free, queue, inflight, expired, upcoming>>

(* The probe returns and its result is submitted; PollGuard::drop takes    *)
(* the mark away (the sentinel's is never there), then the permit field    *)
(* and the spawn slot go.                                                  *)
DropGuard(j) ==
  /\ pc[j] = "probing"
  /\ inflight' = inflight \ {Device[j]}
  /\ pc' = [pc EXCEPT ![j] = "releasing"]
  /\ UNCHANGED <<free, queue, expired, upcoming>>

DropPermit(j) ==
  /\ pc[j] = "releasing"
  /\ Release(j, "done")
  /\ UNCHANGED <<inflight, expired, upcoming>>

(* The deadline of a job that waits for its device passes.                 *)
Deadline(j) ==
  /\ j \in Spawned \ expired /\ ~GlobalOnly(j)
  /\ expired' = expired \cup {j}
  /\ UNCHANGED <<pc, free, queue, inflight, upcoming>>

Task(j) == PeekFree(j) \/ PeekBusy(j) \/ ClaimWins(j) \/ ClaimLoses(j)
           \/ BeginGlobal(j) \/ StartGlobal(j) \/ DropPermit(j)

Next == Admit \/ \E j \in Jobs : Task(j) \/ DropGuard(j) \/ Deadline(j)

Spec == Init /\ [][Next]_vars

(* The runtime runs every task that can run, the 50 ms tick makes a parked *)
(* one look again, time passes, and a probe returns within its timeouts    *)
(* unless it is one of the Hung.                                           *)
FairSpec ==
  /\ Spec /\ WF_vars(Admit)
  /\ \A j \in Jobs : WF_vars(Task(j)) /\ WF_vars(Deadline(j))
  /\ \A j \in Jobs \ Hung : WF_vars(DropGuard(j))

-----------------------------------------------------------------------------
(* Types, and that a job with no device of its own (global_guard) marks    *)
(* none as in flight.                                                      *)
TypeOK ==
  /\ pc \in [Jobs -> Steps]
  /\ free \in 0..Permits
  /\ queue \in Seq(Jobs)
  /\ inflight \subseteq {Device[j] : j \in Jobs} \ {NoDevice}
  /\ expired \subseteq Jobs
  /\ upcoming \in 1..(JobCount + 1)

(* "Never run two probes against one target at once": the marks are exactly *)
(* the devices being probed, each by one task.  A mark that outlives its   *)
(* probe would keep the device from ever being polled again, one cleared   *)
(* too early would let a second probe in.                                  *)
SingleFlight ==
  /\ \A j \in Jobs : pc[j] = "probing" /\ ~GlobalOnly(j) => Device[j] \in inflight
  /\ \A d \in inflight : \E j \in Jobs :
       /\ pc[j] = "probing" /\ Device[j] = d
       /\ \A k \in Jobs \ {j} : Device[k] = d => pc[k] # "probing"

(* No permit is lost or made: those free and those held are all there are, *)
(* no permit is free while a task queues, and the queue is the tasks that  *)
(* wait for one, each once.                                                *)
PermitsConserved ==
  /\ free + Cardinality(Holders) = Permits
  /\ free > 0 => queue = <<>>
  /\ \A j \in Jobs : pc[j] = "queued" <=> \E i \in DOMAIN queue : queue[i] = j
  /\ \A i, k \in DOMAIN queue : queue[i] = queue[k] => i = k

(* The limiter does what ProbeSlots says: peek, permit and claim together  *)
(* are one atomic start.                                                   *)
Phase == [j \in Jobs |->
  CASE pc[j] = "probing" -> "probing"
    [] pc[j] \in {"releasing", "done", "shed"} -> "ended"
    [] OTHER -> "waiting"]
Slots == INSTANCE ProbeSlots WITH phase <- Phase
ImplementsSlots == Slots!Spec

(* A device that never answers holds up nobody else: every job whose own   *)
(* probe returns ends, and one that needs no device is never given up.     *)
EveryJobEnds ==
  \A j \in Jobs \ Hung :
    <>(pc[j] = "done" \/ (pc[j] = "shed" /\ ~GlobalOnly(j)))
=============================================================================
