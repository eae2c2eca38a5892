----------------------------- MODULE ProbeSlots -----------------------------
(***************************************************************************)
(* What the poll limiter promises: a job starts its probe in one step, at  *)
(* a moment when fewer probes than permits run and none of them is aimed   *)
(* at its device; a job that waits for a device may be given up instead.   *)
(***************************************************************************)
EXTENDS Naturals, FiniteSets

CONSTANTS Jobs,      \* the jobs handed to the worker
          Device,    \* the device a job must have to itself
          NoDevice,  \* the device of a job that needs none
          Permits    \* how many probes may run at once

VARIABLE phase

Probing == {j \in Jobs : phase[j] = "probing"}

Rivals(j) == {k \in Jobs : k # j /\ Device[k] = Device[j] /\ Device[j] # NoDevice}

Init == phase = [j \in Jobs |-> "waiting"]

Begin(j) ==
  /\ phase[j] = "waiting"
  /\ Cardinality(Probing) < Permits
  /\ \A k \in Rivals(j) : phase[k] # "probing"
  /\ phase' = [phase EXCEPT ![j] = "probing"]

Finish(j) ==
  /\ phase[j] = "probing"
  /\ phase' = [phase EXCEPT ![j] = "ended"]

GiveUp(j) ==
  /\ phase[j] = "waiting" /\ Device[j] # NoDevice
  /\ phase' = [phase EXCEPT ![j] = "ended"]

Next == \E j \in Jobs : Begin(j) \/ Finish(j) \/ GiveUp(j)

Spec == Init /\ [][Next]_phase
=============================================================================
