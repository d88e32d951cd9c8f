SPECIFICATION NullSpec
CONSTANTS
  Block <- Blocks
  Register <- Registers
  Live = Live
  Methods <- MethodsOfFourBlocks
INVARIANT OnlyNullBranches
CHECK_DEADLOCK FALSE
