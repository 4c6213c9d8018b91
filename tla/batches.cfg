\* Merkle roots: what a signature over a batch or a rotation stands for.
SPECIFICATION BatchSpec
CONSTANTS
  l1 = l1
  l2 = l2
  l3 = l3
  k1 = k1
  k2 = k2
  k3 = k3
  Leaves = {l1, l2, l3}
  Holders = {k1, k2, k3}
  InitialKey = k1
  MaxDepth = 2
  MaxSigned = 3
SYMMETRY SomeContents
INVARIANTS
  BatchTypeOK
  AcceptedWereBatched
  BatchedAcceptable
  OnlyNamedKeys
PROPERTY ImplementsApprovals
CHECK_DEADLOCK FALSE
