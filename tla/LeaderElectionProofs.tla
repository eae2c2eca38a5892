------------------------ MODULE LeaderElectionProofs ------------------------
(***************************************************************************)
(* TypeOK and WorkIsBacked are inductive together, for any set of cores    *)
(* and any budget of faults.                                               *)
(***************************************************************************)
EXTENDS LeaderElection, TLAPS

\* The types, and that a core at work over a live connection holds the lock.
IInv == TypeOK /\ WorkIsBacked

LEMMA InitOK == Init => IInv
BY DEF Init, IInv, TypeOK, WorkIsBacked, Working, Phases

\* Every action that leaves the lock and the connections alone and puts no core
\* to work keeps WorkIsBacked.
LEMMA FrameWork ==
  ASSUME WorkIsBacked, UNCHANGED <<link, holder>>,
         \A c \in Cores : Working(c)' => Working(c)
  PROVE  WorkIsBacked'
BY DEF WorkIsBacked, Working

\* A core that is not at work afterwards may let its connection go.
LEMMA FrameDrops ==
  ASSUME TypeOK, WorkIsBacked, NEW c \in Cores, Drops(c), ~Working(c)',
         \A d \in Cores \ {c} : Working(d)' => Working(d)
  PROVE  WorkIsBacked'
<1> SUFFICES ASSUME NEW d \in Cores, Working(d)', link'[d] = "open"
             PROVE  holder' = d
  BY DEF WorkIsBacked
<1>1. d # c
  OBVIOUS
<1>2. link[d] = "open" /\ Working(d)
  BY <1>1 DEF Drops, TypeOK
<1>3. holder = d
  BY <1>2 DEF WorkIsBacked
<1> QED BY <1>1, <1>3 DEF Drops

LEMMA StepOK == IInv /\ [Next]_vars => IInv'
<1> SUFFICES ASSUME IInv, [Next]_vars PROVE IInv'
  OBVIOUS
<1> USE DEF IInv
<1>1. ASSUME NEW c \in Cores, Boot(c) PROVE IInv'
  <2>1. TypeOK'
    BY <1>1 DEF Boot, TypeOK, Phases
  <2>2. WorkIsBacked'
    BY <1>1, FrameWork DEF Boot, TypeOK, Working
  <2> QED BY <2>1, <2>2
<1>2. ASSUME NEW c \in Cores, ProbeWins(c) PROVE IInv'
  <2>1. TypeOK'
    BY <1>2 DEF ProbeWins, TypeOK, Phases
  <2>2. ASSUME NEW d \in Cores, Working(d)', link'[d] = "open"
        PROVE  holder' = d
    <3>1. CASE d = c
      BY <1>2, <3>1 DEF ProbeWins
    <3>2. CASE d # c
      <4>1. Working(d) /\ link[d] = "open"
        BY <1>2, <2>2, <3>2 DEF ProbeWins, TypeOK, Working
      <4>2. holder = d
        BY <4>1 DEF WorkIsBacked
      <4> QED BY <1>2, <4>2, CoresAssumption DEF ProbeWins
    <3> QED BY <3>1, <3>2
  <2> QED BY <2>1, <2>2 DEF WorkIsBacked
<1>3. ASSUME NEW c \in Cores, Asks(c) \/ ProbeLoses(c) PROVE IInv'
  <2>1. TypeOK'
    BY <1>3 DEF Asks, ProbeLoses, TypeOK, Phases
  <2>2. WorkIsBacked'
    BY <1>3 DEF Asks, ProbeLoses, TypeOK, WorkIsBacked, Working
  <2> QED BY <2>1, <2>2
<1>4. ASSUME NEW c \in Cores, ProbeFails(c) PROVE IInv'
  <2>1. TypeOK'
    BY <1>4 DEF ProbeFails, TypeOK, Phases
  <2>2. ASSUME NEW d \in Cores, Working(d)', link'[d] = "open"
        PROVE  holder' = d
    <3>1. Working(d) /\ link[d] = "open"
      BY <1>4, <2>2 DEF ProbeFails, TypeOK, Working
    <3>2. holder = d
      BY <3>1 DEF WorkIsBacked
    <3> QED BY <1>4, <3>2, CoresAssumption DEF ProbeFails
  <2> QED BY <2>1, <2>2 DEF WorkIsBacked
<1>5. ASSUME NEW c \in Cores, WorkStarts(c) PROVE IInv'
  <2>1. TypeOK'
    BY <1>5 DEF WorkStarts, TypeOK, Phases
  <2>2. WorkIsBacked'
    BY <1>5, FrameWork DEF WorkStarts, TypeOK, Working
  <2> QED BY <2>1, <2>2
<1>6. ASSUME NEW c \in Cores, WorkFails(c) PROVE IInv'
  <2>1. TypeOK'
    BY <1>6 DEF WorkFails, Drops, TypeOK, Phases
  <2>2. WorkIsBacked'
    BY <1>6, FrameDrops DEF WorkFails, TypeOK, Working
  <2> QED BY <2>1, <2>2
<1>7. ASSUME NEW c \in Cores, PingFails(c) PROVE IInv'
  <2>1. TypeOK'
    BY <1>7 DEF PingFails, Drops, TypeOK, Phases
  <2>2. WorkIsBacked'
    BY <1>7, FrameDrops DEF PingFails, TypeOK, Working
  <2> QED BY <2>1, <2>2
<1>8. ASSUME NEW c \in Cores, StopRequested(c) PROVE IInv'
  <2>1. TypeOK'
    BY <1>8 DEF StopRequested, TypeOK, Phases
  <2>2. WorkIsBacked'
    BY <1>8, FrameWork DEF StopRequested, TypeOK, Working
  <2> QED BY <2>1, <2>2
<1>8a. ASSUME NEW c \in Cores, WinsLate(c) PROVE IInv'
  <2>1. TypeOK'
    BY <1>8a DEF WinsLate, TypeOK, Phases
  <2>2. ASSUME NEW d \in Cores, Working(d)', link'[d] = "open"
        PROVE  holder' = d
    <3>1. Working(d) /\ link[d] = "open"
      BY <1>8a, <2>2 DEF WinsLate, TypeOK, Working
    <3>2. holder = d
      BY <3>1 DEF WorkIsBacked
    <3> QED BY <1>8a, <3>2, CoresAssumption DEF WinsLate
  <2> QED BY <2>1, <2>2 DEF WorkIsBacked
<1>8b. ASSUME NEW c \in Cores, LosesLate(c) PROVE IInv'
  <2>1. TypeOK'
    BY <1>8b DEF LosesLate, TypeOK, Phases
  <2>2. WorkIsBacked'
    BY <1>8b, FrameWork DEF LosesLate, TypeOK, Working
  <2> QED BY <2>1, <2>2
<1>9. ASSUME NEW c \in Cores, LetsGo(c) PROVE IInv'
  <2>1. TypeOK'
    BY <1>9 DEF LetsGo, Drops, TypeOK
  <2>2. WorkIsBacked'
    BY <1>9, FrameDrops DEF LetsGo, TypeOK, Working
  <2> QED BY <2>1, <2>2
<1>10. ASSUME NEW c \in Cores, Gone(c) PROVE IInv'
  <2>1. TypeOK'
    BY <1>10 DEF Gone, Drops, TypeOK, Phases
  <2>2. WorkIsBacked'
    BY <1>10, FrameDrops DEF Gone, TypeOK, Working
  <2> QED BY <2>1, <2>2
<1>11. ASSUME NEW c \in Cores, Cut(c) PROVE IInv'
  <2>1. TypeOK'
    BY <1>11 DEF Cut, TypeOK
  <2>2. WorkIsBacked'
    BY <1>11 DEF Cut, TypeOK, WorkIsBacked, Working
  <2> QED BY <2>1, <2>2
<1>12. CASE EndSession
  <2>1. TypeOK'
    BY <1>12 DEF EndSession, TypeOK
  <2>2. WorkIsBacked'
    BY <1>12, CoresAssumption DEF EndSession, TypeOK, WorkIsBacked, Working
  <2> QED BY <2>1, <2>2
<1>13. CASE UNCHANGED vars
  BY <1>13 DEF vars, TypeOK, WorkIsBacked, Working
<1> QED
  BY <1>1, <1>2, <1>3, <1>4, <1>5, <1>6, <1>7, <1>8, <1>8a, <1>8b, <1>9, <1>10, <1>11, <1>12,
     <1>13 DEF Next, Exit, Crash

\* No core that is down or waits for the lock reads as the leader, whatever fails
\* (run_leader_work).
THEOREM TypeCorrect == Spec => []TypeOK
<1>1. IInv => TypeOK
  BY DEF IInv
<1> QED BY InitOK, StepOK, <1>1, PTL DEF Spec

\* At any number of cores, a core at work over a live lock connection holds the
\* lock: only a core whose connection is already gone can be a second one at work
\* (run_election, hold_until_lost).
THEOREM OnlyTheHolderWorks == Spec => []WorkIsBacked
<1>1. IInv => WorkIsBacked
  BY DEF IInv
<1> QED BY InitOK, StepOK, <1>1, PTL DEF Spec
=============================================================================
