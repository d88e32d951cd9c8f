SPECIFICATION Spec
CONSTANTS
  Programs <- All
  Thread = {1}
  Caps = {2}
INVARIANTS
  EntryBindsArguments
CHECK_DEADLOCK FALSE
