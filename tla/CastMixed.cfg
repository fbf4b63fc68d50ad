SPECIFICATION Spec
CONSTANTS
  r1 = r1
  r2 = r2
  r3 = r3
  r4 = r4
  l1 = l1
  l2 = l2
  None = None
  LoadBalancers = {l1, l2}
  Requests = {r1, r2}
  Kind <- TwoCreates
  LBOf <- TwoLBOf
INVARIANTS
  CastIsOwn
CHECK_DEADLOCK FALSE
