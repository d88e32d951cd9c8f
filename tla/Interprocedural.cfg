SPECIFICATION FairSpec
CONSTANTS
  Programs <- All
  Thread = {1, 2}
  Caps = {0, 1, 2, 5}
INVARIANTS
  ParametersKnown
  SummariesSound
  SettledIsSolution
  IterationsBounded
PROPERTIES
  SettlesUnderCap
CHECK_DEADLOCK FALSE
