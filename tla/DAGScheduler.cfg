SPECIFICATION FairSpec
CONSTANTS
  Thread = {11, 12}
  Owner = 10
  Task = {1, 2, 3}
  Edges <- AnyEdges
  Added <- SomeAdded
  NoWork = NoWork
INVARIANTS WaitCountExact PostsAllowed DoneAtShutdown
PROPERTIES ImplementsDag
CHECK_DEADLOCK FALSE
