SPECIFICATION OutboxSpec
CONSTANTS
  p1 = p1
  p2 = p2
  Op <- MCOp
  Publisher = {p1, p2}
  Nobody = Nobody
  MaxPendingRows = 2
  MaxRows = 2
  MaxFence = 2
  MaxRestores = 1
SYMMETRY Symmetry
INVARIANTS
  AckedWasApplied
  AppliedWasSigned
  NoDoubleConsume
