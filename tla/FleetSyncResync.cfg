SPECIFICATION FairSpec
CONSTANTS
  Pollers = {1}
  Nodes = {1, 2}
  VNodes = 2
  VnodePoint <- MCVnodePoint
  NodeHash <- MCNodeHash
  Specs = {a}
  CapSpecs = {}
  Withheld = w
  Absent = absent
  Nobody = nobody
  ChunkNodes = 1
  Budget <- ResyncBudget
  MaxSeq = 9
  MaxQueue = 1
  LeaveSettled = TRUE
  Builds = {TRUE}
  Downgrades = FALSE
  Prompt = TRUE
INVARIANT HeldWasSent SyncAgreement
PROPERTY Converges
CHECK_DEADLOCK FALSE
