SPECIFICATION Spec
CONSTANTS
  r1 = r1
  r2 = r2
  f1 = f1
  Reg <- TwoRegs
  Field <- OneField
  Result = RESULT
  Null = Null
  Dangling = Dangling
  Undefined = "det"
  Alias <- Aliases
  Callee <- Callees
SYMMETRY RegSymmetry
INVARIANTS DirectFlowsSeen TransfersMonotone NeverUnreachable
CHECK_DEADLOCK FALSE
