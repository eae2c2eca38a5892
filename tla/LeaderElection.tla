--------------------------- MODULE LeaderElection ---------------------------
(***************************************************************************)
(* Which of several cores does the leader's work.  A core stands by until  *)
(* it wins a session-level advisory lock on a connection of its own, then  *)
(* starts the leader's pipelines once, pings that connection, and shuts    *)
(* down for a restart when the ping fails.  The database ends a session it *)
(* has lost in its own time, and the core learns of it in its own time:    *)
(* either may come first, and a session may outlive its process.           *)
(***************************************************************************)
EXTENDS Naturals, FiniteSets

CONSTANTS
    Cores,          \* the core processes of the deployment
    Nobody,         \* no session holds the lock
    Ghost,          \* a session whose core has dropped it holds the lock
    Budget          \* how often the environment may act: cut, crash, stop, fail

ASSUME CoresAssumption == Nobody \notin Cores /\ Ghost \notin Cores /\ Nobody # Ghost

VARIABLES
    phase,          \* what the process is at; see Phases
    link,           \* the core's lock connection: none, open, or cut and unnoticed
    holder,         \* whose session holds the lock in the database
    isLeader,       \* what /readyz and the leader-only handlers read
    spent           \* what the environment has used of its budget

vars == <<phase, link, holder, isLeader, spent>>

\* A standby that is asking has a probe under way; one that is told to stop with
\* the probe under way is leaving, as the answer is still waited for.
Phases == {"down", "standby", "asking", "leaving", "starting", "leading", "stopping"}

Spend(what) ==
    /\ spent[what] < Budget[what]
    /\ spent' = [spent EXCEPT ![what] = @ + 1]

\* The core runs the coordinator, the ingest and the alert tasks.
Working(c) == phase[c] \in {"starting", "leading"}
-----------------------------------------------------------------------------
\* The process starts: it serves its API and waits.
Boot(c) ==
    /\ phase[c] = "down"
    /\ phase' = [phase EXCEPT ![c] = "standby"]
    /\ UNCHANGED <<link, holder, isLeader, spent>>

\* A standby asks over its connection, opened first when there is none.
Asks(c) ==
    /\ phase[c] = "standby"
    /\ phase' = [phase EXCEPT ![c] = "asking"]
    /\ link' = [link EXCEPT ![c] = IF @ = "none" THEN "open" ELSE @]
    /\ UNCHANGED <<holder, isLeader, spent>>

\* A wrong probe: the answer is not looked at.
ProbeWinsAlways(c) ==
    /\ phase[c] = "asking" /\ link[c] = "open"
    /\ holder' = c
    /\ phase' = [phase EXCEPT ![c] = "starting"]
    /\ isLeader' = [isLeader EXCEPT ![c] = TRUE]
    /\ UNCHANGED <<link, spent>>

\* The lock was free: leader from now on, and the work is started.
ProbeWins(c) ==
    /\ phase[c] = "asking" /\ link[c] = "open" /\ holder = Nobody
    /\ holder' = c
    /\ phase' = [phase EXCEPT ![c] = "starting"]
    /\ isLeader' = [isLeader EXCEPT ![c] = TRUE]
    /\ UNCHANGED <<link, spent>>

\* Another session has it: asked again after ELECTION_POLL.
ProbeLoses(c) ==
    /\ phase[c] = "asking" /\ link[c] = "open" /\ holder # Nobody
    /\ phase' = [phase EXCEPT ![c] = "standby"]
    /\ UNCHANGED <<link, holder, isLeader, spent>>

\* A wrong failure: the dead connection is kept and asked again.
ProbeFailsKept(c) ==
    /\ phase[c] = "asking" /\ link[c] = "cut"
    /\ phase' = [phase EXCEPT ![c] = "standby"]
    /\ UNCHANGED <<link, holder, isLeader, spent>>

\* The probe fails: the dead connection is dropped, the next one reconnects.  It
\* may be the answer that was lost, and the lock granted to the dead session.
ProbeFails(c) ==
    /\ phase[c] = "asking" /\ link[c] = "cut"
    /\ phase' = [phase EXCEPT ![c] = "standby"]
    /\ link' = [link EXCEPT ![c] = "none"]
    /\ holder' \in {holder} \cup (IF holder = Nobody THEN {Ghost} ELSE {})
    /\ UNCHANGED <<isLeader, spent>>

\* The leader's pipelines are up; only from now on is the connection pinged.
WorkStarts(c) ==
    /\ phase[c] = "starting"
    /\ phase' = [phase EXCEPT ![c] = "leading"]
    /\ UNCHANGED <<link, holder, isLeader, spent>>

\* The core lets go of its connection; the database has yet to see it.
Drops(c) ==
    /\ link' = [link EXCEPT ![c] = "none"]
    /\ holder' = IF holder = c THEN Ghost ELSE holder

\* The pipelines did not come up: shut down for a restart, still marked leader.
WorkFails(c) ==
    /\ phase[c] = "starting" /\ Spend("fail") /\ Drops(c)
    /\ phase' = [phase EXCEPT ![c] = "stopping"]
    /\ UNCHANGED isLeader

\* A wrong ping: the loss is noted and the work goes on.
PingFailsGoesOn(c) ==
    /\ phase[c] = "leading" /\ link[c] = "cut"
    /\ isLeader' = [isLeader EXCEPT ![c] = FALSE]
    /\ UNCHANGED <<phase, link, holder, spent>>

\* A wrong ping: the core stands by again, marked as before.
PingFailsStandsBy(c) ==
    /\ phase[c] = "leading" /\ link[c] = "cut" /\ Drops(c)
    /\ phase' = [phase EXCEPT ![c] = "standby"]
    /\ UNCHANGED <<isLeader, spent>>

\* The ping fails: no longer leader, and the process shuts down for a restart.
PingFails(c) ==
    /\ phase[c] = "leading" /\ link[c] = "cut" /\ Drops(c)
    /\ isLeader' = [isLeader EXCEPT ![c] = FALSE]
    /\ phase' = [phase EXCEPT ![c] = "stopping"]
    /\ UNCHANGED spent

\* A stop is asked for, and the pipelines with it; a leader stays marked as one.
\* A probe that is under way is not given up.
StopRequested(c) ==
    /\ phase[c] \in {"standby", "asking", "starting", "leading"} /\ Spend("stop")
    /\ phase' = [phase EXCEPT ![c] = IF @ = "asking" THEN "leaving" ELSE "stopping"]
    /\ UNCHANGED <<link, holder, isLeader>>

\* The probe of a core that is to stop wins all the same: the core is marked
\* leader and its work started, only to find the stop.
WinsLate(c) ==
    /\ phase[c] = "leaving" /\ link[c] = "open" /\ holder = Nobody
    /\ holder' = c
    /\ phase' = [phase EXCEPT ![c] = "stopping"]
    /\ isLeader' = [isLeader EXCEPT ![c] = TRUE]
    /\ UNCHANGED <<link, spent>>

\* It loses or fails, and the election ends with the stop.
LosesLate(c) ==
    /\ phase[c] = "leaving" /\ (link[c] = "cut" \/ holder # Nobody)
    /\ phase' = [phase EXCEPT ![c] = "stopping"]
    /\ UNCHANGED <<link, holder, isLeader, spent>>

\* The election, or the task that holds the lock, sees the stop and lets its
\* connection go, while the process is still shutting down.
LetsGo(c) ==
    /\ phase[c] = "stopping" /\ link[c] # "none" /\ Drops(c)
    /\ UNCHANGED <<phase, isLeader, spent>>

Gone(c) ==
    /\ Drops(c)
    /\ phase' = [phase EXCEPT ![c] = "down"]
    /\ isLeader' = [isLeader EXCEPT ![c] = FALSE]

Exit(c) == phase[c] \in {"leaving", "stopping"} /\ Gone(c) /\ UNCHANGED spent
Crash(c) == phase[c] # "down" /\ Spend("crash") /\ Gone(c)
-----------------------------------------------------------------------------
\* The link between a core and the database breaks; neither side knows.
Cut(c) ==
    /\ link[c] = "open" /\ Spend("cut")
    /\ link' = [link EXCEPT ![c] = "cut"]
    /\ UNCHANGED <<phase, holder, isLeader>>

\* The database ends a session whose client is gone, and frees its lock.
EndSession ==
    /\ holder = Ghost \/ \E c \in Cores : holder = c /\ link[c] = "cut"
    /\ holder' = Nobody
    /\ UNCHANGED <<phase, link, isLeader, spent>>
-----------------------------------------------------------------------------
Init ==
    /\ phase = [c \in Cores |-> "down"]
    /\ link = [c \in Cores |-> "none"]
    /\ holder = Nobody
    /\ isLeader = [c \in Cores |-> FALSE]
    /\ spent = [what \in DOMAIN Budget |-> 0]

Next ==
    \/ \E c \in Cores :
        \/ Boot(c) \/ Asks(c) \/ ProbeWins(c) \/ ProbeLoses(c) \/ ProbeFails(c)
        \/ WorkStarts(c) \/ WorkFails(c) \/ PingFails(c)
        \/ StopRequested(c) \/ WinsLate(c) \/ LosesLate(c) \/ LetsGo(c) \/ Exit(c) \/ Crash(c) \/ Cut(c)
    \/ EndSession

Spec == Init /\ [][Next]_vars

\* The orchestrator restarts a core, a standby polls, a leader pings, a shutdown
\* ends, and the database notices a dead session.
Fairness ==
    /\ \A c \in Cores :
        /\ WF_vars(Boot(c))
        /\ WF_vars(Asks(c))
        /\ WF_vars(ProbeWins(c) \/ ProbeLoses(c) \/ ProbeFails(c))
        /\ WF_vars(WorkStarts(c))
        /\ WF_vars(PingFails(c))
        /\ WF_vars(Exit(c))
    /\ WF_vars(EndSession)

FairSpec == Spec /\ Fairness
-----------------------------------------------------------------------------
\* Types, and that a core that is down or waits for the lock never reads as the
\* leader: the flag is set once the lock is won and a loss ends the process.
TypeOK ==
    /\ phase \in [Cores -> Phases]
    /\ link \in [Cores -> {"none", "open", "cut"}]
    /\ holder \in Cores \cup {Nobody, Ghost}
    /\ isLeader \in [Cores -> BOOLEAN]
    /\ \A c \in Cores : phase[c] \in {"down", "standby", "asking", "leaving"} => ~isLeader[c]

\* "Only the lock holder runs the singletons", as far as it can be kept: a core
\* that works over a live connection holds the lock, so that of two cores at
\* work all but one have lost their connection and are about to find out
\* (run_election, hold_until_lost).
WorkIsBacked ==
    \A c \in Cores : Working(c) /\ link[c] = "open" => holder = c

\* Two cores at work do not stay two: the one that lost its lock shuts down.
SplitBrainEnds ==
    \A c, d \in Cores : c # d =>
        ((Working(c) /\ Working(d)) ~> ~(Working(c) /\ Working(d)))

\* The deployment is never left without a leader for good: after every loss,
\* crash or stop some core leads again.
SomeoneLeads == []<>(\E c \in Cores : phase[c] = "leading" /\ holder = c)
=============================================================================
