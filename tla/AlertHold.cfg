SPECIFICATION FairSpec
CONSTANTS
  n1 = n1
  n2 = n2
  NoNode = NoNode
  Nodes <- TwoNodes
  Neighbours <- Linked
  Rank <- FirstSpeaks
  Readers = {}
  Readings <- Band
  Outcomes = {"reachable", "unreachable"}
  Dwell = 2
  Waits = {TRUE}
  Edits = {"waiting"}
  RuleEdits = {}
  QueueMax = 1
  RowsMax = 0
  Budget <- EditOrPause
  MaxFaults = 1
INVARIANT HeldIsBorder HeldIsUnsaid SpokenFor
PROPERTY HeldEnds
CHECK_DEADLOCK FALSE
