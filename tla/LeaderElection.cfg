SPECIFICATION FairSpec
CONSTANTS
  Cores = {c1, c2, c3}
  Nobody = nobody
  Ghost = ghost
  Budget <- FaultBudget
INVARIANT TypeOK WorkIsBacked
PROPERTY SplitBrainEnds SomeoneLeads
