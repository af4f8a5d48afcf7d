SPECIFICATION FenceSpec
CONSTANTS
  n1 = n1
  n2 = n2
  i1 = i1
  i2 = i2
  h1 = h1
  h2 = h2
  w1 = w1
  r1 = r1
  r2 = r2
  Node = {n1, n2}
  CommandId = {i1, i2}
  Handler = {h1, h2}
  Writer = {w1}
  Replica = {r1, r2}
  WaitReplicas = 2
  MaxEpoch = 2
  MaxFailovers = 2
SYMMETRY Symmetry
INVARIANTS
  
  OneGrantPerEpoch
  NoStaleWriter
