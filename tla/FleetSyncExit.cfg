SPECIFICATION Spec
CONSTANTS
  Pollers = {1}
  Nodes = {1, 2}
  VNodes = 2
  VnodePoint <- MCVnodePoint
  NodeHash <- MCNodeHash
  Specs = {a}
  CapSpecs = {a}
  Withheld = w
  Absent = absent
  Nobody = nobody
  ChunkNodes = 1
  Budget <- ExitBudget
  MaxSeq = 3
  MaxQueue = 1
  LeaveSettled = TRUE
  Builds = {TRUE, FALSE}
  Downgrades = FALSE
  Prompt = FALSE
INVARIANT TypeOK HeldWasSent SyncAgreement CapsRespected
CHECK_DEADLOCK FALSE
