SPECIFICATION CEFairSpec
CONSTANTS
  l1 = l1
  p1 = p1
  q1 = q1
  m1 = m1
  LB = LB
  Entities = {l1, p1, q1, m1}
  KindOf <- MCKindOf
  ParentOf <- MCParentOf
  InitialRows <- MCInitialRows
  MayFail = {l1}
  MayUpdate = {q1}
  PolicyFilter = TRUE
  MaxOps = 2
  MaxTasks = 1
  MaxReplies = 1
INVARIANTS
  CETypeOK
  ChildGoneWasAsked
  NothingUnreachable
  ActiveIsDeployed
PROPERTIES
  ImplementsStatus
  ChildDeleteStands
  PendingChildResolved
  OrphansPurged
CHECK_DEADLOCK FALSE
