SPECIFICATION Spec
CONSTANTS
  n1 = n1
  n2 = n2
  NoNode = NoNode
  Nodes <- TwoNodes
  Neighbours <- Linked
  Rank <- FirstSpeaks
  Readers = {n2}
  Readings <- Band
  Outcomes = {"reachable", "unreachable"}
  Dwell = 2
  Waits = {FALSE}
  Edits = {"grouping"}
  RuleEdits = {n1}
  QueueMax = 1
  RowsMax = 1
  Budget <- AnyFault
  MaxFaults = 1
INVARIANT TypeOK NoMissedPage NoStrandedIncident RollupsCurrent
PROPERTY OutageKeepsItsAlert
CHECK_DEADLOCK FALSE
