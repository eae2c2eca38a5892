SPECIFICATION FairSpec
CONSTANTS
  MemMax = 1
  DiskMax = 2
  SegMax = 2
  Batch = 2
  Floor = 1
  ProbeEvery = 2
  Readings = {0, 9}
  NoAnswer = none
  NoWriter = nowriter
  MaxResults = 4
  Budget <- OutageBudget
INVARIANT TypeOK Conserved SegmentsOrdered RingOrdered MemBounded DiskBounded
PROPERTY Drains
CHECK_DEADLOCK FALSE
