SPECIFICATION FairSpec
CONSTANTS
  Programs <- Wide
  Inits = {1}
  Top = 3
  NumThreads = 3
  MaxRuns = 1
INVARIANTS NoDataRace ResultIsSequential
PROPERTIES RunReturns
CHECK_DEADLOCK FALSE
