SPECIFICATION FairSpec
CONSTANTS
  Pools = {a, b}
  Nodes = {n}
  MaxGen = 2
  Budget <- OutageBudget
PROPERTY NodesPolled
CHECK_DEADLOCK FALSE
