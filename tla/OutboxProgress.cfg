SPECIFICATION LiveSpec
CONSTANTS
  p1 = p1
  p2 = p2
  Op <- MCOp
  Publisher = {p1, p2}
  Nobody = Nobody
  MaxPendingRows = 1
  MaxRows = 3
  MaxFence = 1
  MaxRestores = 0
PROPERTIES
  EveryRowSettled
