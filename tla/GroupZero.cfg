SPECIFICATION Spec
CONSTANTS
  a1 = a1
  a2 = a2
  a3 = a3
  a4 = a4
  a5 = a5
  l1 = l1
  l2 = l2
  t1 = t1
  e1 = e1
  e2 = e2
  NoEnv = NoEnv
  NoGroup = NoGroup
  None = None
  Agents = {a1, a2, a3}
  LoadBalancers = {l1, l2}
  Envs = {e1}
  EnvOf <- PairEnvOf
  ProviderEnv <- MCProviderEnv
  TenantOf <- MCTenantOf
  GroupOf <- ZeroGroupOf
  Scores = {0}
  Full = 1
  AdminDownIsEligible = TRUE
  Operated = {a1, a2, a3}
  MayFill = {}
  QueriesMayFail = FALSE
PROPERTIES
  FailoverStaysInGroup
