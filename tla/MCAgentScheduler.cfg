SPECIFICATION FairSpec
CONSTANTS
  a1 = a1
  a2 = a2
  a3 = a3
  a4 = a4
  a5 = a5
  l1 = l1
  l2 = l2
  t1 = t1
  e1 = e1
  e2 = e2
  NoEnv = NoEnv
  NoGroup = NoGroup
  None = None
  Agents = {a1, a2, a3, a4, a5}
  LoadBalancers = {l1, l2}
  Envs = {e1, e2}
  EnvOf <- MCEnvOf
  ProviderEnv <- MCProviderEnv
  TenantOf <- MCTenantOf
  GroupOf <- MCGroupOf
  Scores = {0, 2}
  Full = 2
  AdminDownIsEligible = TRUE
  Operated = {a1, a3}
  MayFill = {a1, a3}
  QueriesMayFail = TRUE
INVARIANTS
  TypeOK
  BoundInEnv
PROPERTIES
  MovesOnlyToActive
  FailOverTogether
  NewHomeHasRoom
  FailoverStaysInGroup
  DeadHostIsLeft
