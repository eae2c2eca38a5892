SPECIFICATION Spec
CONSTANTS
  n1 = n1
  n2 = n2
  NoNode = NoNode
  Nodes <- TwoNodes
  Neighbours <- Linked
  Rank <- FirstSpeaks
  Readers = {n2}
  Readings <- Scale
  Outcomes = {"reachable", "unreachable"}
  Dwell = 2
  Waits = {FALSE}
  Edits = {}
  RuleEdits = {}
  QueueMax = 1
  RowsMax = 1
  Budget <- NoFaults
  MaxFaults = 1
INVARIANT NeverDangling
CHECK_DEADLOCK FALSE
