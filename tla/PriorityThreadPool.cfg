SPECIFICATION FairSpec
CONSTANTS
  w1 = w1
  w2 = w2
  w3 = w3
  Work <- ThreeItems
  NoWork = NoWork
  Thread = {1, 2, 3}
  Priority = {0, 1}
INVARIANTS NoSleeperForgotten NothingAfterShutdown
PROPERTIES UrgentFirst CallsReturn
CHECK_DEADLOCK FALSE
