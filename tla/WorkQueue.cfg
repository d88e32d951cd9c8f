SPECIFICATION FairSpec
CONSTANTS
  NumThreads = 3
  t1 = t1
  t2 = t2
  t3 = t3
  Task <- TwoTasks
  NoTask = NoTask
  CanPush = TRUE
INVARIANTS LeaveOnlyWhenDone EachTaskOnce CountersExact NoStrandedTask EveryoneWoken
PROPERTIES RunAllReturns ImplementsTaskPool
