SPECIFICATION FairSpec
CONSTANTS
  fast = fast
  ping = ping
  slow = slow
  Nodes = {1, 2}
  JobSpecs = {fast, slow}
  Interval <- MCInterval
  Lists <- ScarceLists
  Stagger = 2
  Grain = 2
  Second = 2
  AdoptRate = 1
  MaxRoom = 2
  MaxEdits = 2
  MaxPauses = 1
INVARIANT TypeOK IndexMatches
PROPERTY RankedAsFullWalk NoStarvation
