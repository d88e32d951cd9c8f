SPECIFICATION Spec
CONSTANTS
  Programs <- ThreeNodes
  Inits = {1, 2}
  Top = 3
  NumThreads = 2
  MaxRuns = 1
INVARIANTS NeverScheduledTwice CounterFullAtStart NoDataRace AllCountersSpent ResultIsPostFixpoint ResultIsSequential
CHECK_DEADLOCK FALSE
