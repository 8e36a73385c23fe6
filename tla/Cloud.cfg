SPECIFICATION Spec
CONSTANTS
  Jobs = {j1, j2, j3}
  ByHand = {j3}
  Signals = {s1}
  MaxTries = 2
SYMMETRY JobSymmetry
CHECK_DEADLOCK FALSE
INVARIANTS
  PushedKept
  SendersCounted
PROPERTIES
  FatesMoveOn
