SPECIFICATION Spec
CONSTANTS
  Pools = {a, b}
  Nodes = {n}
  MaxGen = 2
  Budget <- CacheBudget
SYMMETRY PoolSymmetry
INVARIANT TypeOK CacheIsCurrent
CHECK_DEADLOCK FALSE
