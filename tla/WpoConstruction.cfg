SPECIFICATION Spec
CONSTANTS
  Node = {r, a, b, c}
  Root = r
  Graphs <- AllGraphs
SYMMETRY Renamings
INVARIANTS ElementsMatchLoops EdgesAreScheduled ScheduleIsRootedOrder OuterCountsExact LoopRunsFromHeadToExit OutsideExact
CHECK_DEADLOCK FALSE
